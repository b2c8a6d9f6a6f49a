------------------------------ MODULE AWSTarget -----------------------------
(***************************************************************************)
(* The aws-asg target (plugins/builtin/target/aws-asg/plugin): scaling in  *)
(* detaches the drained instances from the group and then terminates them, *)
(* two requests whose effects are awaited with a bounded retry.  Writing   *)
(* the progress as tags on the group (eventWriter.write) changes nothing   *)
(* else: its errors are only logged.                                       *)
(***************************************************************************)
EXTENDS ScaleIn

\* Scale: count is compared with the desired capacity of the group.
AWSScale(c) ==
  /\ call[c].pc = "scale"
  /\ IF call[c].count = DryRunCount
       THEN Step(c, "scale", "ok")
       ELSE calculateDirection(c, desired, call[c].count)
  /\ UNCHANGED cluster

\* The group is not named, or cannot be described.
AWSScaleFails(c) == Fails(c, "scale")

\* Status reports ready when the pool is and the last activity is complete; an
\* earlier one may still be in progress, so the group may have any size.
AWSReady == Ready

AWSscaleOut(c) ==
  /\ Step(c, "resize", "resized")
  /\ desired' = call[c].count
  /\ UNCHANGED <<node, group, running, stopping, lost>>

AWSScaleOutFails(c) == Fails(c, "resize")

ensureASGInstancesCount(c) ==
  /\ Retry(c, "resized", "ok", Cardinality(group) = call[c].count)
  /\ UNCHANGED cluster

\* The group cannot be described.
AWSDescribeFails(c) == Fails(c, "resized")

\* The class, the drain deadline and the other options of the configuration.
AWSgenerateScaleReq(c) == Step(c, "request", "identify") /\ UNCHANGED cluster

AWSScaleReqFails(c) == Fails(c, "request")

\* ShouldDecrementDesiredCapacity is set.
detachInstances(c) ==
  /\ call[c].ids \subseteq group
  /\ Step(c, "remove", "activities")
  /\ group' = group \ call[c].ids
  /\ desired' = desired - Cardinality(call[c].ids)
  /\ UNCHANGED <<node, running, stopping, lost>>

\* An instance is not one of the group, or the request fails.
DetachFails(c) == Fails(c, "remove")

\* Faulty variant: the detached instances are not terminated.
ActivitiesCompleteLast(c) ==
  /\ \E done \in BOOLEAN : Retry(c, "activities", "post", done)
  /\ UNCHANGED cluster

\* When an activity completes is up to AWS.
ensureActivitiesComplete(c) ==
  /\ \E done \in BOOLEAN : Retry(c, "activities", "terminate", done)
  /\ UNCHANGED cluster

DescribeActivitiesFails(c) == Fails(c, "activities")

terminateInstances(c) ==
  /\ Step(c, "terminate", "terminating")
  /\ stopping' = stopping \union call[c].ids
  /\ UNCHANGED <<node, group, desired, running, lost>>

TerminateFails(c) == Fails(c, "terminate")

\* The status of an instance that is shutting down may or may not be listed.
ensureInstancesTerminate(c) ==
  /\ \E listed \in SUBSET (call[c].ids \intersect running) :
        Retry(c, "terminating", "post", listed = {})
  /\ UNCHANGED cluster

DescribeInstancesFails(c) == Fails(c, "terminating")

AWSscaleIn(c) ==
  \/ AWSgenerateScaleReq(c) \/ AWSScaleReqFails(c) \/ PreScaleIn(c)
  \/ detachInstances(c) \/ DetachFails(c)
  \/ ensureActivitiesComplete(c) \/ DescribeActivitiesFails(c)
  \/ terminateInstances(c) \/ TerminateFails(c)
  \/ ensureInstancesTerminate(c) \/ DescribeInstancesFails(c)
  \/ PostScaleIn(c)

AWSNext(c) ==
  \/ AWSScale(c) \/ AWSScaleFails(c)
  \/ AWSscaleOut(c) \/ AWSScaleOutFails(c) \/ ensureASGInstancesCount(c) \/ AWSDescribeFails(c)
  \/ AWSscaleIn(c)

=============================================================================
