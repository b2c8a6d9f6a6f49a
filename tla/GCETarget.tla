------------------------------ MODULE GCETarget -----------------------------
(***************************************************************************)
(* The gce-mig target (plugins/builtin/target/gce-mig/plugin): one request *)
(* deletes the drained instances or resizes the managed instance group,    *)
(* zonal or regional, and the group is asked until it is stable.           *)
(***************************************************************************)
EXTENDS ScaleIn

\* status: the manager's IsStable, and its target size.
IsStable == Cardinality(group) = desired /\ stopping \intersect running = {}

\* Scale: count is compared with the target size of the group.
GCEScale(c) ==
  /\ call[c].pc = "scale"
  /\ IF call[c].count = DryRunCount
       THEN Step(c, "scale", "ok")
       ELSE calculateDirection(c, desired, call[c].count)
  /\ UNCHANGED cluster

\* calculateMIG finds no region, zone or name, or the group cannot be read.
GCEScaleFails(c) == Fails(c, "scale")

GCEReady == Ready /\ IsStable

resize(c) ==
  /\ Step(c, "resize", "resized")
  /\ desired' = call[c].count
  /\ UNCHANGED <<node, group, running, stopping, lost>>

ResizeFails(c) == Fails(c, "resize")

GCEgenerateScaleReq(c) == Step(c, "request", "identify") /\ UNCHANGED cluster

GCEScaleReqFails(c) == Fails(c, "request")

deleteInstance(c) ==
  /\ call[c].ids \subseteq group
  /\ Step(c, "remove", "deleting")
  /\ group' = group \ call[c].ids
  /\ desired' = desired - Cardinality(call[c].ids)
  /\ stopping' = stopping \union call[c].ids
  /\ UNCHANGED <<node, running, lost>>

DeleteInstanceFails(c) == Fails(c, "remove")

ensureInstanceGroupIsStable(c) ==
  /\ Retry(c, "resized", "ok", IsStable) \/ Retry(c, "deleting", "post", IsStable)
  /\ UNCHANGED cluster

\* The group cannot be read.
GCEStatusFails(c) == Fails(c, "resized") \/ Fails(c, "deleting")

GCEscaleIn(c) ==
  \/ GCEgenerateScaleReq(c) \/ GCEScaleReqFails(c) \/ PreScaleIn(c)
  \/ deleteInstance(c) \/ DeleteInstanceFails(c)
  \/ PostScaleIn(c)

GCENext(c) ==
  \/ GCEScale(c) \/ GCEScaleFails(c)
  \/ resize(c) \/ ResizeFails(c)
  \/ ensureInstanceGroupIsStable(c) \/ GCEStatusFails(c)
  \/ GCEscaleIn(c)

=============================================================================
