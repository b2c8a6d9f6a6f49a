---------------------------- MODULE ClusterTarget ---------------------------
(***************************************************************************)
(* A cluster target as the workers use it: one of the three providers,     *)
(* with calls of Status and, when that says ready, of Scale.               *)
(***************************************************************************)
EXTENDS AWSTarget, AzureTarget, GCETarget

CONSTANT Providers

VARIABLE provider   \* the target plugin of the policy

vars == <<node, group, desired, running, stopping, lost, call, provider>>

Init == ClusterInit /\ provider \in Providers

TargetReady ==
  CASE provider = "aws-asg" -> AWSReady
    [] provider = "azure-vmss" -> AzureReady
    [] provider = "gce-mig" -> GCEReady

\* A worker asks for the status and goes on if the target is ready; the count
\* comes from the strategy.  Scale is called later.
Status(c) ==
  /\ call[c].pc = "idle"
  /\ Overlap \/ \A d \in Calls : call[d].pc \in Ended
  /\ TargetReady
  /\ \E count \in Counts : call' = [call EXCEPT ![c].pc = "scale", ![c].count = count]
  /\ UNCHANGED cluster

Scale(c) ==
  \/ provider = "aws-asg" /\ AWSNext(c)
  \/ provider = "azure-vmss" /\ AzureNext(c)
  \/ provider = "gce-mig" /\ GCENext(c)

Drained == \E n \in Nodes : DrainCompletes(n)
Stopped == \E n \in Nodes : InstanceStops(n)

Environment ==
  \/ Drained \/ Stopped
  \/ \E n \in Nodes : NodeDown(n) \/ LaunchInstance(n) \/ NodeRegistered(n)

Next ==
  /\ (\E c \in Calls : Status(c) \/ Scale(c)) \/ Environment
  /\ UNCHANGED provider

Spec == Init /\ [][Next]_vars

\* The code goes on; a drain ends by its deadline; a terminated instance stops.
\* Nothing makes the cloud launch an instance.
FairSpec ==
  /\ Spec
  /\ \A c \in Calls : WF_vars(Scale(c) /\ UNCHANGED provider)
  /\ WF_vars(Drained /\ UNCHANGED provider)
  /\ WF_vars(Stopped /\ UNCHANGED provider)

-----------------------------------------------------------------------------
(* Properties                                                              *)

\* An instance is told to stop, or taken out of the group, only when its node
\* has been drained completely: nothing runs on it and nothing is placed on it.
\* (scaleIn: the drain of every node precedes the request to the provider.)
RemovedAfterDrain ==
  \A n \in stopping \union (Members \ group) : ~node[n].eligible /\ ~node[n].drain

\* Scaling in never takes the node the agent runs on, nor a node of another
\* class, out of service.  (filterOutNodeID, filterByClass)
OthersKept ==
  \A n \in (Nodes \ Pool) \union {Own} : n \in Nodes => node[n].eligible /\ n \notin stopping

\* The group only shrinks for a call that asked for it, and never below what
\* that call asked for.  (calculateDirection, identifyTargets)
NeverBelowCount ==
  [][desired' < desired => \E c \in Calls : /\ call[c].pc \notin Ended
                                            /\ call[c].count >= 0
                                            /\ desired' >= call[c].count]_vars

\* A successful scale-in leaves no instance behind: each one it chose is out of
\* the group and told to stop, so an instance that left the group and runs on
\* unattended is always reported as an error.  (scaleIn)
SuccessLeavesNothing ==
  \A c \in Calls : call[c].pc = "ok" => call[c].ids \subseteq stopping /\ call[c].ids \intersect group = {}

\* Every call returns, whatever the provider does: waits are bounded by the
\* retry limit, or end with the request.  (retry)
CallReturns ==
  \A c \in Calls : call[c].pc \notin Ended ~> call[c].pc \in {"ok", "failed"}

=============================================================================
