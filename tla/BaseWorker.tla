----------------------------- MODULE BaseWorker -----------------------------
(***************************************************************************)
(* One scaling evaluation in the hands of the workers                      *)
(* (policyeval/base_worker.go, sdk/strategy.go and the target-value        *)
(* strategy): handlePolicy reads the status of the target, runs the checks *)
(* one after the other, merges their actions and submits the winner.       *)
(*                                                                         *)
(* The broker may deliver the evaluation more than once: after a NACK, and *)
(* with Overlap also after the ACK timeout, while the worker that had it   *)
(* still runs.  Every delivery works on the same evaluation: the strategy  *)
(* and CapCount write the action the check evaluation points to.  Actions  *)
(* are therefore objects, and a delivery holds references to them.         *)
(*                                                                         *)
(* Metric values and strategy targets are integers, and the threshold is   *)
(* in hundredths; rounding errors of the float64 arithmetic are left out,  *)
(* the conversion of its result to an integer of bounded width is not.     *)
(***************************************************************************)
EXTENDS Integers

CONSTANTS
  Deliveries,  \* deliveries of the evaluation by the broker
  Overlap,     \* whether the ACK timeout may expire while a delivery runs
  Checks,      \* eval.CheckEvaluations
  Min, Max,    \* limits of the policy
  Counts,      \* counts the target may report
  Values,      \* values of a metric
  TargetOf,    \* the target of the strategy of each check
  Threshold,   \* its threshold, in hundredths
  MaxInt,      \* the largest integer; the smallest is -MaxInt - 1
  Eval         \* who made the first action of a check: NewScalingEvaluation

ASSUME BaseWorkerConstants ==
  /\ Overlap \in BOOLEAN
  /\ MaxInt \in Nat \ {0}
  /\ Min \in 0 .. MaxInt /\ Max \in Min .. MaxInt
  /\ Counts \subseteq 0 .. MaxInt
  /\ Values \subseteq Int
  /\ TargetOf \in [Checks -> Nat]
  /\ Threshold \in 0 .. 100
  /\ Eval \notin Deliveries

VARIABLES
  dryRun,  \* the dry-run option of the target, fixed
  pc,      \* where each delivery is in handlePolicy
  count,   \* currentStatus.Count
  todo,    \* the checks that have not run yet
  current, \* the action of the check that runs, a reference
  winner,  \* winningAction, a reference
  slot,    \* checkEval.Action of each check, a reference
  obj,     \* the actions
  voted,   \* what each check returned, or NoVote
  chosen,  \* the action that won, as it was before SetDryRun, or NoVote
  sent,    \* the action given to the target's Scale, or NoVote
  blind,   \* whether a check failed or had no metrics
  crash    \* whether handlePolicy has panicked

vars == <<dryRun, pc, count, todo, current, winner, slot, obj, voted, chosen, sent, blind, crash>>

Down == -1
Unmoved == 0   \* ScaleDirectionNone
Up == 1
DryRunCount == -1

Objects == Checks \X (Deliveries \union {Eval})
Nil == <<>>
Fresh == <<"none">>   \* a new action of direction none
Action(d, n) == [direction |-> d, count |-> n]
NoVote == Action(Unmoved, DryRunCount)
\* No action, and a fresh one, have no direction.
Deref(r) == IF r \in {Nil, Fresh} THEN Action(Unmoved, 0) ELSE obj[r]

Ended == {"idle", "ack", "nack", "cancelled"}

\* NewScalingEvaluation.
Init ==
  /\ dryRun \in BOOLEAN
  /\ pc = [d \in Deliveries |-> "idle"]
  /\ count = [d \in Deliveries |-> 0]
  /\ todo = [d \in Deliveries |-> {}]
  /\ current = [d \in Deliveries |-> Nil]
  /\ winner = [d \in Deliveries |-> Nil]
  /\ slot = [c \in Checks |-> <<c, Eval>>]
  /\ obj = [o \in Objects |-> Action(Unmoved, 0)]
  /\ voted = [v \in Deliveries \X Checks |-> NoVote]
  /\ chosen = [d \in Deliveries |-> NoVote]
  /\ sent = [d \in Deliveries |-> NoVote]
  /\ blind = [d \in Deliveries |-> FALSE]
  /\ crash = FALSE

-----------------------------------------------------------------------------
(* sdk/strategy.go                                                         *)

\* Faulty variant: the upper limit is only applied when scaling up.
CapCountWhenUp(a) ==
  IF a.count = DryRunCount THEN a
  ELSE IF a.count < Min THEN [a EXCEPT !.count = Min]
  ELSE IF a.count > Max /\ a.direction = Up THEN [a EXCEPT !.count = Max]
  ELSE a

CapCount(a) ==
  IF a.count = DryRunCount THEN a
  ELSE IF a.count < Min THEN [a EXCEPT !.count = Min]
  ELSE IF a.count > Max THEN [a EXCEPT !.count = Max]
  ELSE a

\* Faulty variant: of two actions down, the one that removes more.
PreemptsLowest(b, a) ==
  \/ b.direction > a.direction
  \/ b.direction = a.direction /\ a.direction = Up /\ b.count > a.count
  \/ b.direction = a.direction /\ a.direction = Down /\ b.count < a.count

\* PreemptScalingAction, of two actions that are not nil: b takes precedence.
Preempts(b, a) ==
  \/ b.direction > a.direction
  \/ b.direction = a.direction /\ a.direction # Unmoved /\ b.count > a.count

-----------------------------------------------------------------------------
(* The target-value strategy                                               *)

Divisor(t) == IF t = 0 THEN 1 ELSE t
CeilDiv(n, m) == -((-n) \div m)

\* The factor is v / t, or v when the target is 0.
calculateDirection(n, v, t) ==
  IF n = 0 THEN (IF v > 0 THEN Up ELSE Unmoved)
  ELSE IF 100 * v < (100 - Threshold) * Divisor(t) THEN Down
  ELSE IF 100 * v > (100 + Threshold) * Divisor(t) THEN Up
  ELSE Unmoved

\* int64 of a float64: the result for a value out of range depends on the
\* platform.
ToInt(x) ==
  IF x > MaxInt THEN {MaxInt, -MaxInt - 1} ELSE IF x < -MaxInt - 1 THEN {-MaxInt - 1} ELSE {x}

\* What Run may leave in the action it is given.
StrategyRun(a, n, v, t) ==
  LET d == calculateDirection(n, v, t)
      newCounts == ToInt(CeilDiv(IF n = 0 THEN v ELSE n * v, Divisor(t)))
  IN  {IF d = Unmoved \/ m = n THEN [a EXCEPT !.direction = Unmoved] ELSE Action(d, m) : m \in newCounts}

-----------------------------------------------------------------------------
(* handlePolicy                                                            *)

Go(d, from, to) == pc[d] = from /\ pc' = [pc EXCEPT ![d] = to]

\* Dequeue returns the evaluation.
Begin(d) ==
  /\ Overlap \/ \A e \in Deliveries : pc[e] \in {"idle", "nack"}
  /\ Go(d, "idle", "status")
  /\ UNCHANGED <<count, todo, current, winner, slot, obj, voted, chosen, sent, blind, crash>>

\* The target reports a count.
TargetReady(d) ==
  /\ Go(d, "status", "checks")
  /\ \E n \in Counts : count' = [count EXCEPT ![d] = n]
  /\ todo' = [todo EXCEPT ![d] = Checks]
  /\ UNCHANGED <<current, winner, slot, obj, voted, chosen, sent, blind, crash>>

\* No plugin, an error, or a target that is not ready.
TargetNotReady(d) ==
  /\ Go(d, "status", "nack")
  /\ UNCHANGED <<count, todo, current, winner, slot, obj, voted, chosen, sent, blind, crash>>

\* The target does not exist: Status returns a nil status, which is dereferenced.
TargetMissing(d) ==
  /\ pc[d] = "status"
  /\ crash' = TRUE
  /\ UNCHANGED <<pc, count, todo, current, winner, slot, obj, voted, chosen, sent, blind>>

\* A plugin is missing, or the query or the strategy returns an error.
CheckFails(d, c) ==
  /\ pc[d] = "checks"
  /\ c \in todo[d]
  /\ todo' = [todo EXCEPT ![d] = @ \ {c}]
  /\ blind' = [blind EXCEPT ![d] = TRUE]
  /\ UNCHANGED <<pc, count, current, winner, slot, obj, voted, chosen, sent, crash>>

NoMetrics(d, c) ==
  /\ c \in todo[d]
  /\ Go(d, "checks", "merge")
  /\ todo' = [todo EXCEPT ![d] = @ \ {c}]
  /\ current' = [current EXCEPT ![d] = Fresh]
  /\ voted' = [voted EXCEPT ![<<d, c>>] = Deref(Fresh)]
  /\ blind' = [blind EXCEPT ![d] = TRUE]
  /\ UNCHANGED <<count, winner, slot, obj, chosen, sent, crash>>

\* The strategy writes the action of the check evaluation.
RunCheck(d, c) ==
  /\ c \in todo[d]
  /\ Go(d, "checks", "limits")
  /\ todo' = [todo EXCEPT ![d] = @ \ {c}]
  /\ current' = [current EXCEPT ![d] = slot[c]]
  /\ \E v \in Values : \E a \in StrategyRun(obj[slot[c]], count[d], v, TargetOf[c]) :
       obj' = [obj EXCEPT ![slot[c]] = a]
  /\ UNCHANGED <<count, winner, slot, voted, chosen, sent, blind, crash>>

\* start returns the action r, of value a, for check c.
Return(d, c, r, a) ==
  /\ Go(d, "limits", "merge")
  /\ current' = [current EXCEPT ![d] = r]
  /\ voted' = [voted EXCEPT ![<<d, c>>] = a]
  /\ UNCHANGED <<count, todo, winner, chosen, sent, blind, crash>>

\* No direction, but the count is outside the limits: a new action.
MinMaxAction(d, c) ==
  LET n == count[d]
      a == IF n < Min THEN Action(Up, Min) ELSE Action(Down, Max)
  IN  /\ obj[slot[c]].direction = Unmoved
      /\ n < Min \/ n > Max
      /\ slot' = [slot EXCEPT ![c] = <<c, d>>]
      /\ obj' = [obj EXCEPT ![<<c, d>>] = a]
      /\ Return(d, c, <<c, d>>, a)

\* Faulty variant: the capped count is not compared with the current one.
CappedActionUnchecked(d, c) ==
  LET a == CapCount(obj[slot[c]])
  IN  /\ a.direction # Unmoved
      /\ obj' = [obj EXCEPT ![slot[c]] = a]
      /\ slot' = slot
      /\ Return(d, c, slot[c], a)

CappedAction(d, c) ==
  LET a == CapCount(obj[slot[c]])
  IN  /\ a.direction # Unmoved
      /\ a.count # count[d]
      /\ obj' = [obj EXCEPT ![slot[c]] = a]
      /\ slot' = slot
      /\ Return(d, c, slot[c], a)

\* Nothing to do: no direction, or no change once the count is capped.
NothingToDo(d, c) ==
  LET a == CapCount(obj[slot[c]])
  IN  /\ \/ a.direction = Unmoved /\ count[d] \in Min .. Max /\ obj' = obj
         \/ a.direction # Unmoved /\ a.count = count[d] /\ obj' = [obj EXCEPT ![slot[c]] = a]
      /\ slot' = slot
      /\ Return(d, c, Fresh, Deref(Fresh))

\* Faulty variant: a strategy without a direction is taken at its word.
LimitsTrustStrategy(d) ==
  /\ pc[d] = "limits"
  /\ LET c == current[d][1]
     IN  \/ CappedAction(d, c)
         \/ NothingToDo(d, c)
         \/ /\ obj[slot[c]].direction = Unmoved
            /\ UNCHANGED <<slot, obj>>
            /\ Return(d, c, Fresh, Deref(Fresh))

Limits(d) ==
  /\ pc[d] = "limits"
  /\ LET c == current[d][1]
     IN  MinMaxAction(d, c) \/ CappedAction(d, c) \/ NothingToDo(d, c)

Merge(d) ==
  /\ Go(d, "merge", "checks")
  /\ winner' = [winner EXCEPT ![d] =
       IF @ = Nil \/ Preempts(Deref(current[d]), Deref(@)) THEN current[d] ELSE @]
  /\ UNCHANGED <<count, todo, current, slot, obj, voted, chosen, sent, blind, crash>>

\* All checks have run: SetDryRun is applied to the winner.
Decide(d) ==
  /\ todo[d] = {}
  /\ Deref(winner[d]).direction # Unmoved
  /\ Go(d, "checks", "scale")
  /\ chosen' = [chosen EXCEPT ![d] = Deref(winner[d])]
  /\ obj' = IF dryRun THEN [obj EXCEPT ![winner[d]].count = DryRunCount] ELSE obj
  /\ UNCHANGED <<count, todo, current, winner, slot, voted, sent, blind, crash>>

NoAction(d) ==
  /\ todo[d] = {}
  /\ Deref(winner[d]).direction = Unmoved
  /\ Go(d, "checks", "ack")
  /\ UNCHANGED <<count, todo, current, winner, slot, obj, voted, chosen, sent, blind, crash>>

\* The target's Scale, with a copy of the winner. An error is a NACK.
Scale(d) ==
  /\ Go(d, "scale", "ack") \/ Go(d, "scale", "nack")
  /\ sent' = [sent EXCEPT ![d] = obj[winner[d]]]
  /\ UNCHANGED <<count, todo, current, winner, slot, obj, voted, chosen, blind, crash>>

\* The agent's context is done: no error, so the evaluation is acknowledged.
Cancelled(d) ==
  /\ \E from \in {"checks", "limits", "scale"} : Go(d, from, "cancelled")
  /\ UNCHANGED <<count, todo, current, winner, slot, obj, voted, chosen, sent, blind, crash>>

Deliver(d) ==
  \/ Begin(d) \/ TargetReady(d) \/ TargetNotReady(d) \/ TargetMissing(d)
  \/ \E c \in Checks : CheckFails(d, c) \/ NoMetrics(d, c) \/ RunCheck(d, c)
  \/ Limits(d) \/ Merge(d) \/ Decide(d) \/ NoAction(d) \/ Scale(d) \/ Cancelled(d)

Next == ~crash /\ dryRun' = dryRun /\ \E d \in Deliveries : Deliver(d)

Spec == Init /\ [][Next]_vars

-----------------------------------------------------------------------------
(* Properties                                                              *)

\* What the target is told to scale to is within the limits of the policy, or
\* the dry-run count; also when the evaluation was already worked on by an
\* earlier delivery that failed.
SubmittedWithinLimits ==
  \A d \in Deliveries : sent[d] # NoVote =>
    IF dryRun THEN sent[d].count = DryRunCount ELSE sent[d].count \in Min .. Max

\* The order of precedence in the comment of PreemptScalingAction.
Safer(b, a) ==
  \/ b.direction > a.direction
  \/ b.direction = a.direction /\ b.count > a.count

\* The action that wins does not depend on the order of the checks: no check
\* that answered asked for a safer one, and some check asked for it.
WinnerIsSafest ==
  \A d \in Deliveries : chosen[d] # NoVote =>
    /\ \A c \in Checks : voted[<<d, c>>] # NoVote => ~Safer(voted[<<d, c>>], chosen[d])
    /\ \E c \in Checks : voted[<<d, c>>] = chosen[d]

\* A count outside the limits does not survive an evaluation in which every
\* check answered and had metrics: an action is submitted.
OutsideLimitsCorrected ==
  \A d \in Deliveries :
    /\ pc[d] = "ack"
    /\ count[d] \notin Min .. Max
    /\ ~blind[d]
    /\ Checks # {}
    => sent[d] # NoVote

\* No product of count n and a metric leaves the range of an integer.
Fits(n) == \A v \in Values : v <= MaxInt /\ n * v <= MaxInt

\* The strategy computes a direction and a count, CapCount changes only the count:
\* when the current count is within the limits, and no result overflows, an action
\* down lowers the count and an action up raises it.
DirectionAgrees ==
  \A d \in Deliveries :
    sent[d] # NoVote /\ ~dryRun /\ count[d] \in Min .. Max /\ Fits(count[d]) =>
      /\ sent[d].direction = Down => sent[d].count < count[d]
      /\ sent[d].direction = Up => sent[d].count > count[d]

=============================================================================
