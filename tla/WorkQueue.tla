----------------------------- MODULE WorkQueue ------------------------------
(***************************************************************************)
(* What the evaluation broker promises, without its indexes, tokens,       *)
(* timers, channels and multi-step Dequeue.  Each evaluation is new,       *)
(* queued, leased to one worker, or settled.  An evaluation that has not   *)
(* been worked on to its end is only given up in favour of a queued one    *)
(* for the same policy that is at least as recent.                         *)
(***************************************************************************)
EXTENDS Integers

CONSTANTS Evals, Policies, EvalPolicy, CreateTime

VARIABLE status

Init == status = [e \in Evals |-> "new"]

Move(e, to) == status' = [status EXCEPT ![e] = to]

\* An evaluation arrives, or comes back from a worker that did not finish it.
Queue(e) == status[e] \in {"new", "leased"} /\ Move(e, "queued")

\* It takes the place of an older queued evaluation of its policy ...
Replace(e, r) ==
  /\ status[e] \in {"new", "leased"}
  /\ status[r] = "queued"
  /\ EvalPolicy[r] = EvalPolicy[e]
  /\ CreateTime[e] > CreateTime[r]
  /\ status' = [status EXCEPT ![e] = "queued", ![r] = "settled"]

\* ... or is given up because the queued one is at least as recent.
Yield(e, r) ==
  /\ status[e] \in {"new", "leased"}
  /\ status[r] = "queued"
  /\ EvalPolicy[r] = EvalPolicy[e]
  /\ CreateTime[r] >= CreateTime[e]
  /\ Move(e, "settled")

Lease(e) == status[e] = "queued" /\ Move(e, "leased")

\* The worker finished it, or it was tried often enough.
Settle(e) == status[e] = "leased" /\ Move(e, "settled")

Next ==
  \E e \in Evals :
    \/ Queue(e)
    \/ Lease(e)
    \/ Settle(e)
    \/ \E r \in Evals : Replace(e, r) \/ Yield(e, r)

Spec == Init /\ [][Next]_status

=============================================================================
