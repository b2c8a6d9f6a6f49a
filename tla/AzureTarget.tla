----------------------------- MODULE AzureTarget ----------------------------
(***************************************************************************)
(* The azure-vmss target (plugins/builtin/target/azure-vmss/plugin): one   *)
(* request deletes the drained instances, and its future is awaited        *)
(* without a limit.  Whether the drained nodes are instances of the scale  *)
(* set is only looked at after the drain.                                  *)
(***************************************************************************)
EXTENDS ScaleIn

\* Scale: count is compared with the capacity of the scale set.
AzureScale(c) ==
  /\ call[c].pc = "scale"
  /\ IF call[c].count = DryRunCount
       THEN Step(c, "scale", "ok")
       ELSE calculateDirection(c, desired, call[c].count)
  /\ UNCHANGED cluster

\* The resource group or the scale set is not named, or cannot be read.
AzureScaleFails(c) == Fails(c, "scale")

\* Status and processInstanceView: every provisioning has succeeded.
AzureReady == Ready /\ Cardinality(group) = desired /\ stopping \intersect running = {}

AzurescaleOut(c) ==
  /\ Step(c, "resize", "resized")
  /\ desired' = call[c].count
  /\ UNCHANGED <<node, group, running, stopping, lost>>

AzureScaleOutFails(c) == Fails(c, "resize")

\* WaitForCompletionRef returns once the scale set has its capacity, or an error.
UpdateCompletes(c) ==
  /\ \/ Cardinality(group) = desired /\ Step(c, "resized", "ok")
     \/ Step(c, "resized", "failed")
  /\ UNCHANGED cluster

AzuregenerateScaleReq(c) == Step(c, "request", "identify") /\ UNCHANGED cluster

AzureScaleReqFails(c) == Fails(c, "request")

\* The remote IDs carry the name of the scale set: every node is one of its
\* instances.
DeleteInstances(c) ==
  /\ call[c].ids \subseteq group
  /\ Step(c, "remove", "deleting")
  /\ group' = group \ call[c].ids
  /\ desired' = desired - Cardinality(call[c].ids)
  /\ stopping' = stopping \union call[c].ids
  /\ UNCHANGED <<node, running, lost>>

\* A drained node is not an instance of the scale set, or the request fails.
DeleteFails(c) == Fails(c, "remove")

DeletionCompletes(c) ==
  /\ call[c].ids \intersect running = {}
  /\ Step(c, "deleting", "post")
  /\ UNCHANGED cluster

DeletionFails(c) == Fails(c, "deleting")

AzurescaleIn(c) ==
  \/ AzuregenerateScaleReq(c) \/ AzureScaleReqFails(c) \/ PreScaleIn(c)
  \/ DeleteInstances(c) \/ DeleteFails(c)
  \/ DeletionCompletes(c) \/ DeletionFails(c)
  \/ PostScaleIn(c)

AzureNext(c) ==
  \/ AzureScale(c) \/ AzureScaleFails(c)
  \/ AzurescaleOut(c) \/ AzureScaleOutFails(c) \/ UpdateCompletes(c)
  \/ AzurescaleIn(c)

=============================================================================
