-------------------------- MODULE EvalBrokerProofs --------------------------
(***************************************************************************)
(* Proofs about EvalBroker, for any sets of evaluations, policies, queues  *)
(* and workers, and any delivery limit: first that an evaluation is in one *)
(* place and has at most one holder, then that work that waits is found,   *)
(* that no request to evaluate a policy is lost, that the broker           *)
(* implements WorkQueue, and that it delivers an evaluation a bounded      *)
(* number of times.                                                        *)
(***************************************************************************)
EXTENDS EvalBroker, FiniteSetTheorems, TLAPS

\* Most steps are first-order; the others say SMT.
USE Zenon, ConstantTypes, LimitAssumption

Holding == {"popped", "handling", "ack", "nack"}
Answering == {"handling", "ack", "nack"}

\* A worker past findWork has an evaluation, one past Dequeue has a token.
WorkerOK ==
  \A w \in Workers :
    /\ wpc[w] \in Holding => weval[w] \in Evals
    /\ wpc[w] \in Answering => wtoken[w] # NoToken

TypeInv == TypeOK /\ WorkerOK

-----------------------------------------------------------------------------
(* Type correctness                                                        *)

\* The indexes and heaps keep their types through enqueueLocked.
LEMMA EnqueueLockedType ==
  ASSUME TypeOK, NEW e \in Evals, EnqueueLocked(e)
  PROVE  /\ heaps' \subseteq Queues
         /\ pending' \in [Evals -> Nat]
         /\ waiting' \in [Queues -> {"nil", "empty", "full"}]
         /\ enqueuedEvals' \in [Evals -> Nat \union {Absent}]
         /\ enqueuedPolicies' \in [Policies -> Evals \union {None}]
<1> USE DEF TypeOK, Absent, Dequeues
<1>q. EvalQueue[e] \in Queues /\ EvalPolicy[e] \in Policies
  OBVIOUS
<1>1. CASE HasRival(e) /\ Supersede(e)
  <2>1. Indexed(e) \in Evals /\ pending[Indexed(e)] > 0 /\ Indexed(e) # e
    BY <1>1, <1>q DEF HasRival, Indexed
  <2> QED BY <1>1, <1>q, <2>1, SMT DEF Supersede, Swap
<1>2. CASE HasRival(e) /\ DropStale(e)
  BY <1>2 DEF DropStale
<1>3. CASE ~HasRival(e) /\ PushEval(e)
  BY <1>3, <1>q, SMT DEF PushEval, Unblock
<1> QED BY <1>1, <1>2, <1>3 DEF EnqueueLocked

\* The same for Broker.Nack.
LEMMA NackType ==
  ASSUME TypeOK, NEW e \in Evals, NEW t, Nack(e, t)
  PROVE  /\ heaps' \subseteq Queues
         /\ pending' \in [Evals -> Nat]
         /\ waiting' \in [Queues -> {"nil", "empty", "full"}]
         /\ enqueuedEvals' \in [Evals -> Nat \union {Absent}]
         /\ enqueuedPolicies' \in [Policies -> Evals \union {None}]
         /\ unack' \in [Evals -> Nat]
         /\ armed' \subseteq Evals \X Nat
<1>1. CASE UNCHANGED <<queued, unack, armed>>
  BY <1>1 DEF TypeOK, queued, indexes
<1>2. CASE CloseDelivery(e, t) /\ GiveUpOrRetry(e)
  <2>1. unack' \in [Evals -> Nat] /\ armed' \subseteq Evals \X Nat
    BY <1>2 DEF CloseDelivery, NoToken, TypeOK
  <2>2. CASE Forget(e)
    BY <2>1, <2>2 DEF Forget, TypeOK
  <2>3. CASE EnqueueLocked(e)
    BY <2>1, <2>3, EnqueueLockedType
  <2> QED BY <1>2, <2>2, <2>3 DEF GiveUpOrRetry
<1> QED BY <1>1, <1>2 DEF Nack

\* Every variable keeps its type, and a worker that answers holds an
\* evaluation and a token: whatever the interleaving, Ack and Nack are never
\* called with an evaluation the worker did not get from Dequeue.
LEMMA TypeInvStep == TypeInv /\ [Next]_vars => TypeInv'
<1> SUFFICES ASSUME TypeInv, [Next]_vars
             PROVE  TypeInv'
  OBVIOUS
<1> USE DEF TypeInv
<1>1. ASSUME NEW e \in Evals, Enqueue(e)
      PROVE  TypeInv'
  <2>1. CASE UNCHANGED queued
    BY <1>1, <2>1 DEF Enqueue, TypeOK, WorkerOK, queued, indexes, timers, worker
  <2>2. CASE EnqueueLocked(e)
    BY <1>1, <2>2, EnqueueLockedType DEF Enqueue, TypeOK, WorkerOK, timers, worker
  <2> QED BY <1>1, <2>1, <2>2 DEF Enqueue
<1>2. ASSUME NEW w \in Workers, RunLoop(w) \/ FindNothing(w) \/ StopWaiting(w)
      PROVE  TypeInv'
  BY <1>2, SMT DEF RunLoop, FindNothing, StopWaiting, TypeOK, WorkerOK, WorkerStates, Holding,
     Answering, queued, indexes, timers, history
<1>3. ASSUME NEW w \in Workers, FindWork(w)
      PROVE  TypeInv'
  BY <1>3, SMT DEF FindWork, Heads, Heap, TypeOK, WorkerOK, WorkerStates, Holding, Answering,
     indexes, timers, history
<1>4. ASSUME NEW w \in Workers, WaitForWork(w) \/ WakeUp(w)
      PROVE  TypeInv'
  BY <1>4, SMT DEF WaitForWork, WakeUp, TypeOK, WorkerOK, WorkerStates, Holding, Answering,
     indexes, timers, history
<1>5. ASSUME NEW w \in Workers, Deliver(w)
      PROVE  TypeInv'
  <2>1. weval[w] \in Evals
    BY <1>5 DEF Deliver, WorkerOK, Holding
  <2> QED BY <1>5, <2>1, SMT DEF Deliver, Dequeues, Absent, NoToken, TypeOK, WorkerOK, WorkerStates,
     Holding, Answering
<1>6. ASSUME NEW w \in Workers, HandlePolicy(w)
      PROVE  TypeInv'
  BY <1>6 DEF HandlePolicy, TypeOK, WorkerOK, WorkerStates, Holding, Answering, queued,
     indexes, timers, history
<1>7. ASSUME NEW w \in Workers, EvalDone(w)
      PROVE  /\ wpc' \in [Workers -> WorkerStates]
             /\ weval' \in [Workers -> Evals \union {None}]
             /\ wtoken' \in [Workers -> Nat]
             /\ WorkerOK'
  BY <1>7 DEF EvalDone, TypeOK, WorkerOK, WorkerStates, Holding, Answering, NoToken
<1>8. ASSUME NEW w \in Workers, Ack(w)
      PROVE  TypeInv'
  <2>1. weval[w] \in Evals
    BY <1>8 DEF Ack, WorkerOK, Holding
  <2> QED BY <1>7, <1>8, <2>1 DEF Ack, CloseDelivery, Forget, NoToken, TypeOK, history
<1>9. ASSUME NEW w \in Workers, AckFails(w)
      PROVE  TypeInv'
  BY <1>7, <1>9 DEF AckFails, TypeOK, queued, indexes, timers, history
<1>10. ASSUME NEW w \in Workers, WorkerNack(w)
       PROVE  TypeInv'
  <2>1. weval[w] \in Evals
    BY <1>10 DEF WorkerNack, WorkerOK, Holding
  <2> QED BY <1>7, <1>10, <2>1, NackType DEF WorkerNack, TypeOK, history
<1>11. ASSUME NEW e \in Evals, NEW t \in Tokens(e), TimerFires(e, t)
       PROVE  TypeInv'
  BY <1>11 DEF TimerFires, Tokens, TypeOK, WorkerOK, queued, indexes, worker, history
<1>12. ASSUME NEW e \in Evals, NEW t \in Tokens(e), TimerNack(e, t)
       PROVE  TypeInv'
  BY <1>12, NackType DEF TimerNack, TypeOK, WorkerOK, worker, history
<1>13. CASE Cancel
  BY <1>13 DEF Cancel, TypeOK, WorkerOK, queued, indexes, timers, worker, history
<1>14. CASE UNCHANGED vars
  BY <1>14 DEF vars, TypeOK, WorkerOK, queued, indexes, timers, worker, history
<1> QED
  BY <1>1, <1>2, <1>3, <1>4, <1>5, <1>6, <1>8, <1>9, <1>10, <1>11, <1>12, <1>13, <1>14
     DEF Next, Submit, Duplicate, WorkerStep

LEMMA TypeInvInit == Init => TypeInv
<1> SUFFICES ASSUME Init PROVE TypeInv
  OBVIOUS
<1>1. TypeOK
  <2>1. ctxDone \in BOOLEAN
    BY Zenon DEF Init
  <2> QED BY <2>1 DEF Init, TypeOK, WorkerStates, Absent, NoToken
<1>2. WorkerOK
  BY DEF Init, WorkerOK, Holding, Answering
<1> QED BY <1>1, <1>2 DEF TypeInv

\* TypeOK holds in every reachable state.
THEOREM TypeCorrect == Spec => []TypeOK
<1> QED BY TypeInvInit, TypeInvStep, PTL DEF Spec, TypeInv

-----------------------------------------------------------------------------
(* An evaluation is never in two places                                    *)

\* The broker only holds evaluations that were passed to Enqueue.
HeldSubmitted == \A e \in Evals : Present(e) => e \in submitted

HolderInv == SingleHolder /\ HeldSubmitted

\* enqueueLocked adds at most one entry to a heap, and that is for e.
LEMMA EnqueueLockedPending ==
  ASSUME TypeOK, NEW e \in Evals, EnqueueLocked(e), NEW f \in Evals
  PROVE  IF f = e THEN pending'[f] <= pending[f] + 1 ELSE pending'[f] <= pending[f]
<1> USE DEF TypeOK
<1>1. CASE HasRival(e) /\ Supersede(e)
  <2>1. Indexed(e) \in Evals /\ Indexed(e) # e
    BY <1>1 DEF HasRival, Indexed
  <2> QED BY <1>1, <2>1, SMT DEF Supersede, Swap
<1>2. CASE HasRival(e) /\ DropStale(e)
  BY <1>2, SMT DEF DropStale
<1>3. CASE ~HasRival(e) /\ PushEval(e)
  BY <1>3, SMT DEF PushEval
<1> QED BY <1>1, <1>2, <1>3 DEF EnqueueLocked

\* Closing the current delivery of e and enqueueing e again moves it from
\* unack to its heap, or out of the broker.
LEMMA NackHolder ==
  ASSUME TypeInv, HolderInv, NEW e \in Evals, NEW t \in Nat \ {NoToken}, Nack(e, t),
         UNCHANGED submitted,
         \A f \in Evals : IsPopped(f)' <=> IsPopped(f),
         \A v \in Workers : wpc'[v] = "popped" => wpc[v] = "popped" /\ weval'[v] = weval[v]
  PROVE  HolderInv'
<1>t. TypeOK /\ pending \in [Evals -> Nat] /\ unack \in [Evals -> Nat]
  BY DEF TypeInv, TypeOK
<1> USE <1>t
<1>1. CASE UNCHANGED <<queued, unack, armed>>
  BY <1>1, SMT DEF queued, HolderInv, SingleHolder, HeldSubmitted, Present, IsPending, IsUnacked
<1>2. CASE CloseDelivery(e, t) /\ GiveUpOrRetry(e)
  <2>1. /\ IsUnacked(e) /\ ~IsPending(e) /\ ~IsPopped(e)
        /\ ~IsUnacked(e)'
        /\ \A f \in Evals : IsUnacked(f)' => IsUnacked(f)
    BY <1>2 DEF CloseDelivery, NoToken, IsUnacked, HolderInv, SingleHolder
  <2>2. \A f \in Evals : IF f = e THEN pending'[f] <= pending[f] + 1 ELSE pending'[f] <= pending[f]
    BY <1>2, EnqueueLockedPending, SMT DEF GiveUpOrRetry, Forget
  <2>3. pending' \in [Evals -> Nat]
    BY NackType
  <2>4. /\ pending'[e] <= 1
        /\ \A f \in Evals \ {e} : pending'[f] <= pending[f] /\ (IsPending(f)' => IsPending(f))
    <3>1. pending[e] = 0
      BY <2>1, SMT DEF IsPending
    <3> QED BY <2>2, <2>3, <3>1, SMT DEF IsPending
  <2>5. ASSUME NEW f \in Evals
        PROVE  /\ pending'[f] <= 1
               /\ IsPending(f)' => ~IsPopped(f)' /\ ~IsUnacked(f)'
               /\ IsPopped(f)' => ~IsUnacked(f)'
    <3>1. CASE f = e
      BY <2>1, <2>4, <3>1
    <3>2. CASE f # e
      <4>1. pending[f] <= 1 /\ pending'[f] <= pending[f]
        BY <2>4, <3>2 DEF HolderInv, SingleHolder
      <4>2. pending'[f] <= 1
        BY <2>3, <4>1, SMT
      <4> QED BY <2>1, <2>4, <3>2, <4>2 DEF HolderInv, SingleHolder
    <3> QED BY <3>1, <3>2
  <2>6. ASSUME NEW v \in Workers, NEW w \in Workers,
               wpc'[v] = "popped", wpc'[w] = "popped", weval'[v] \in Evals, weval'[v] = weval'[w]
        PROVE  v = w
    <3>1. wpc[v] = "popped" /\ wpc[w] = "popped" /\ weval[v] = weval'[v] /\ weval[w] = weval'[v]
      BY <2>6
    <3> QED BY <2>6, <3>1, SMT DEF HolderInv, SingleHolder
  <2>7. SingleHolder'
    BY <2>5, <2>6, SMT DEF SingleHolder
  <2>8. HeldSubmitted'
    BY <2>1, <2>4 DEF HolderInv, HeldSubmitted, Present
  <2> QED BY <2>7, <2>8 DEF HolderInv
<1> QED BY <1>1, <1>2 DEF Nack

LEMMA HolderStep == TypeInv /\ HolderInv /\ [Next]_vars => HolderInv'
<1> SUFFICES ASSUME TypeInv, HolderInv, [Next]_vars
             PROVE  HolderInv'
  OBVIOUS
<1>t. /\ TypeOK /\ WorkerOK
      /\ pending \in [Evals -> Nat] /\ unack \in [Evals -> Nat] /\ delivered \in [Evals -> Nat]
      /\ wpc \in [Workers -> WorkerStates] /\ weval \in [Workers -> Evals \union {None}]
      /\ wtoken \in [Workers -> Nat]
  BY DEF TypeInv, TypeOK
<1> USE <1>t
<1>1. ASSUME NEW e \in Evals, Submit(e)
      PROVE  HolderInv'
  <2>1. /\ \A f \in Evals : IsPopped(f)' <=> IsPopped(f)
        /\ \A f \in Evals : IsUnacked(f)' <=> IsUnacked(f)
        /\ UNCHANGED worker
        /\ submitted' = submitted \union {e}
    BY <1>1 DEF Submit, Enqueue, worker, IsPopped, IsUnacked
  <2>2. ~Present(e)
    BY <1>1 DEF Submit, HolderInv, HeldSubmitted
  <2>3. CASE UNCHANGED queued
    BY <2>1, <2>3 DEF queued, worker, HolderInv, SingleHolder, HeldSubmitted, Present, IsPending
  <2>4. CASE EnqueueLocked(e)
    <3>1. \A f \in Evals : IF f = e THEN pending'[f] <= pending[f] + 1 ELSE pending'[f] <= pending[f]
      BY <2>4, EnqueueLockedPending
    <3>2. pending' \in [Evals -> Nat]
      BY <2>4, EnqueueLockedType
    <3>3. pending[e] = 0
      BY <2>2, SMT DEF Present, IsPending
    <3>4. /\ pending'[e] <= 1
          /\ \A f \in Evals \ {e} : pending'[f] <= pending[f] /\ (IsPending(f)' => IsPending(f))
      BY <3>1, <3>2, <3>3, SMT DEF IsPending
    <3>5. ASSUME NEW f \in Evals
          PROVE  /\ pending'[f] <= 1
                 /\ IsPending(f)' => ~IsPopped(f)' /\ ~IsUnacked(f)'
                 /\ IsPopped(f)' => ~IsUnacked(f)'
      <4>1. CASE f = e
        BY <2>1, <2>2, <3>4, <4>1 DEF Present
      <4>2. CASE f # e
        <5>1. pending[f] <= 1 /\ pending'[f] <= pending[f]
          BY <3>4, <4>2 DEF HolderInv, SingleHolder
        <5>2. pending'[f] <= 1
          BY <3>2, <5>1, SMT
        <5> QED BY <2>1, <3>4, <4>2, <5>2 DEF HolderInv, SingleHolder
      <4> QED BY <4>1, <4>2
    <3>6. SingleHolder'
      BY <2>1, <3>5 DEF worker, HolderInv, SingleHolder
    <3>7. HeldSubmitted'
      BY <2>1, <3>1, <3>2, SMT DEF HolderInv, HeldSubmitted, Present, IsPending
    <3> QED BY <3>6, <3>7 DEF HolderInv
  <2> QED BY <1>1, <2>3, <2>4 DEF Submit, Enqueue
<1>2. ASSUME NEW e \in Evals, Duplicate(e)
      PROVE  HolderInv'
  BY <1>2 DEF Duplicate, Enqueue, queued, worker, HolderInv, SingleHolder, HeldSubmitted,
     Present, IsPending, IsPopped, IsUnacked
<1>3. ASSUME NEW w \in Workers,
             \/ RunLoop(w) \/ FindNothing(w) \/ WaitForWork(w) \/ WakeUp(w) \/ StopWaiting(w)
             \/ HandlePolicy(w)
      PROVE  HolderInv'
  <2>1. /\ UNCHANGED <<pending, unack, submitted, weval>>
        /\ wpc[w] # "popped" /\ wpc'[w] # "popped"
        /\ \A v \in Workers \ {w} : wpc'[v] = wpc[v]
    BY <1>3 DEF RunLoop, FindNothing, WaitForWork, WakeUp, StopWaiting, HandlePolicy, queued, history
  <2> QED BY <2>1, SMT DEF HolderInv, SingleHolder, HeldSubmitted, Present, IsPending, IsPopped, IsUnacked
<1>4. ASSUME NEW w \in Workers, FindWork(w)
      PROVE  HolderInv'
  <2>1. PICK e \in Heap(WorkerQueue[w]) :
          /\ pending' = [pending EXCEPT ![e] = @ - 1]
          /\ weval' = [weval EXCEPT ![w] = e]
    BY <1>4, Zenon DEF FindWork, Heads
  <2>2. e \in Evals /\ pending[e] > 0
    BY DEF Heap
  <2>3. /\ wpc[w] = "find" /\ wpc' = [wpc EXCEPT ![w] = "popped"]
        /\ UNCHANGED <<unack, submitted>>
    BY <1>4 DEF FindWork, history
  <2>4. pending[e] = 1 /\ ~IsPopped(e) /\ ~IsUnacked(e) /\ e \in submitted
    BY <2>2, SMT DEF HolderInv, SingleHolder, HeldSubmitted, Present, IsPending
  <2>5. /\ pending'[e] = 0
        /\ \A f \in Evals \ {e} : pending'[f] = pending[f]
        /\ \A f \in Evals \ {e} : IsPopped(f)' <=> IsPopped(f)
        /\ \A f \in Evals : IsUnacked(f)' <=> IsUnacked(f)
    BY <2>1, <2>2, <2>3, <2>4, SMT DEF IsPopped, IsUnacked
  <2>6. SingleHolder'
    BY <2>1, <2>2, <2>3, <2>4, <2>5, SMT DEF HolderInv, SingleHolder, IsPending, IsPopped
  <2>7. HeldSubmitted'
    BY <2>2, <2>3, <2>4, <2>5 DEF HolderInv, HeldSubmitted, Present, IsPending
  <2> QED BY <2>6, <2>7 DEF HolderInv
<1>5. ASSUME NEW w \in Workers, Deliver(w)
      PROVE  HolderInv'
  <2>1. /\ weval[w] \in Evals /\ IsPopped(weval[w])
        /\ wpc[w] = "popped" /\ wpc' = [wpc EXCEPT ![w] = "handling"]
        /\ unack' = [unack EXCEPT ![weval[w]] = delivered[weval[w]] + 1]
        /\ UNCHANGED <<pending, submitted, weval>>
    BY <1>5 DEF Deliver, WorkerOK, Holding, IsPopped
  <2>2. /\ \A f \in Evals : IsPopped(f)' => IsPopped(f) /\ f # weval[w]
        /\ \A f \in Evals \ {weval[w]} : IsUnacked(f)' <=> IsUnacked(f)
    BY <2>1 DEF IsPopped, IsUnacked, HolderInv, SingleHolder
  <2>3. SingleHolder'
    BY <2>1, <2>2 DEF HolderInv, SingleHolder, IsPending
  <2>4. HeldSubmitted'
    BY <2>1, <2>2 DEF HolderInv, HeldSubmitted, Present, IsPending
  <2> QED BY <2>3, <2>4 DEF HolderInv
<1>6. ASSUME NEW w \in Workers, wpc[w] \in {"ack", "nack"}, EvalDone(w)
      PROVE  /\ \A f \in Evals : IsPopped(f)' <=> IsPopped(f)
             /\ \A v \in Workers : wpc'[v] = "popped" => wpc[v] = "popped" /\ weval'[v] = weval[v]
  BY <1>6 DEF EvalDone, IsPopped
<1>7. ASSUME NEW w \in Workers, Ack(w)
      PROVE  HolderInv'
  <2>1. weval[w] \in Evals /\ UNCHANGED <<pending, submitted>>
        /\ \A f \in Evals : IsUnacked(f)' => IsUnacked(f)
    BY <1>7 DEF Ack, WorkerOK, Holding, CloseDelivery, NoToken, Forget, history, IsUnacked
  <2>2. /\ \A f \in Evals : IsPopped(f)' <=> IsPopped(f)
        /\ \A v \in Workers : wpc'[v] = "popped" => wpc[v] = "popped" /\ weval'[v] = weval[v]
    BY <1>6, <1>7 DEF Ack
  <2>3. SingleHolder'
    BY <2>1, <2>2, SMT DEF HolderInv, SingleHolder, IsPending
  <2>4. HeldSubmitted'
    BY <2>1, <2>2 DEF HolderInv, HeldSubmitted, Present, IsPending
  <2> QED BY <2>3, <2>4 DEF HolderInv
<1>8. ASSUME NEW w \in Workers, AckFails(w)
      PROVE  HolderInv'
  <2>1. UNCHANGED <<pending, unack, submitted>>
    BY <1>8 DEF AckFails, queued, history
  <2>2. /\ \A f \in Evals : IsPopped(f)' <=> IsPopped(f)
        /\ \A v \in Workers : wpc'[v] = "popped" => wpc[v] = "popped" /\ weval'[v] = weval[v]
    BY <1>6, <1>8 DEF AckFails
  <2>3. SingleHolder'
    BY <2>1, <2>2, SMT DEF HolderInv, SingleHolder, IsPending, IsUnacked
  <2>4. HeldSubmitted'
    BY <2>1, <2>2 DEF HolderInv, HeldSubmitted, Present, IsPending, IsUnacked
  <2> QED BY <2>3, <2>4 DEF HolderInv
<1>9. ASSUME NEW w \in Workers, WorkerNack(w)
      PROVE  HolderInv'
  <2>1. weval[w] \in Evals /\ wtoken[w] \in Nat \ {NoToken} /\ UNCHANGED submitted
    BY <1>9 DEF WorkerNack, WorkerOK, Holding, Answering, history
  <2> QED BY <1>6, <1>9, <2>1, NackHolder DEF WorkerNack
<1>10. ASSUME NEW e \in Evals, NEW t \in Tokens(e), TimerFires(e, t)
       PROVE  HolderInv'
  BY <1>10 DEF TimerFires, queued, worker, history, HolderInv, SingleHolder, HeldSubmitted,
     Present, IsPending, IsPopped, IsUnacked
<1>11. ASSUME NEW e \in Evals, NEW t \in Tokens(e), TimerNack(e, t)
       PROVE  HolderInv'
  <2>1. t \in Nat \ {NoToken} /\ UNCHANGED <<submitted, worker>>
    BY <1>11, SMT DEF TimerNack, Tokens, NoToken, history
  <2> QED BY <1>11, <2>1, NackHolder DEF TimerNack, worker, IsPopped
<1>12. CASE Cancel \/ UNCHANGED vars
  BY <1>12 DEF Cancel, vars, queued, worker, history, HolderInv, SingleHolder, HeldSubmitted,
     Present, IsPending, IsPopped, IsUnacked
<1> QED
  BY <1>1, <1>2, <1>3, <1>4, <1>5, <1>7, <1>8, <1>9, <1>10, <1>11, <1>12
     DEF Next, WorkerStep

LEMMA HolderInit == Init => HolderInv
  BY SMT DEF Init, HolderInv, SingleHolder, HeldSubmitted, Present, IsPending, IsPopped, IsUnacked

\* "evals are either in pendingEvals or unack, but never in both": the broker
\* never holds an evaluation twice, however many workers dequeue at once.
THEOREM NeverInTwoPlaces == Spec => []SingleHolder
<1> QED BY TypeInvInit, TypeInvStep, HolderInit, HolderStep, PTL DEF Spec, HolderInv

-----------------------------------------------------------------------------
(* Every open delivery has a timer                                         *)

LEMMA TimerStep == TypeInv /\ OpenDeliveryHasTimer /\ [Next]_vars => OpenDeliveryHasTimer'
<1> SUFFICES ASSUME TypeInv, OpenDeliveryHasTimer, [Next]_vars
             PROVE  OpenDeliveryHasTimer'
  OBVIOUS
<1> USE DEF TypeInv, TypeOK
<1>1. CASE UNCHANGED <<unack, delivered, armed, fired>>
  BY <1>1 DEF OpenDeliveryHasTimer, IsUnacked
<1>2. ASSUME NEW w \in Workers, Deliver(w)
      PROVE  OpenDeliveryHasTimer'
  <2>1. weval[w] \in Evals
    BY <1>2 DEF Deliver, WorkerOK, Holding
  <2> QED BY <1>2, <2>1 DEF Deliver, OpenDeliveryHasTimer, IsUnacked
<1>3. ASSUME NEW e \in Evals, NEW t, CloseDelivery(e, t), UNCHANGED delivered,
             \A f \in Evals : \A u \in Nat : <<f, u>> \in fired /\ f # e => <<f, u>> \in fired'
      PROVE  OpenDeliveryHasTimer'
  BY <1>3 DEF CloseDelivery, OpenDeliveryHasTimer, IsUnacked, NoToken
<1>4. ASSUME NEW w \in Workers, Ack(w)
      PROVE  OpenDeliveryHasTimer'
  <2>1. weval[w] \in Evals
    BY <1>4 DEF Ack, WorkerOK, Holding
  <2> QED BY <1>3, <1>4, <2>1 DEF Ack, history
<1>5. ASSUME NEW w \in Workers, WorkerNack(w)
      PROVE  OpenDeliveryHasTimer'
  <2>1. weval[w] \in Evals
    BY <1>5 DEF WorkerNack, WorkerOK, Holding
  <2> QED BY <1>1, <1>3, <1>5, <2>1 DEF WorkerNack, Nack, history
<1>6. ASSUME NEW e \in Evals, NEW t \in Tokens(e), TimerFires(e, t)
      PROVE  OpenDeliveryHasTimer'
  BY <1>6 DEF TimerFires, history, OpenDeliveryHasTimer, IsUnacked
<1>7. ASSUME NEW e \in Evals, NEW t \in Tokens(e), TimerNack(e, t)
      PROVE  OpenDeliveryHasTimer'
  <2>1. CASE unack[e] # t /\ UNCHANGED <<queued, unack, armed>>
    BY <1>7, <2>1 DEF TimerNack, history, OpenDeliveryHasTimer, IsUnacked
  <2>2. CASE CloseDelivery(e, t)
    BY <1>3, <1>7, <2>2 DEF TimerNack, history
  <2> QED BY <1>7, <2>1, <2>2 DEF TimerNack, Nack
<1> QED
  BY <1>1, <1>2, <1>4, <1>5, <1>6, <1>7, Zenon
     DEF Next, WorkerStep, Submit, Duplicate, Enqueue, RunLoop, FindNothing, FindWork, WaitForWork,
         WakeUp, StopWaiting, HandlePolicy, AckFails, Cancel, vars, timers, history

\* The token Ack and Nack accept is that of the latest delivery, and each open
\* delivery has a nack timer that is running or whose callback is about to run:
\* a stuck worker cannot keep an evaluation.
THEOREM OpenDeliveriesExpire == Spec => []OpenDeliveryHasTimer
<1>1. Init => OpenDeliveryHasTimer
  BY DEF Init, OpenDeliveryHasTimer, IsUnacked
<1> QED BY <1>1, TypeInvInit, TypeInvStep, TimerStep, PTL DEF Spec

-----------------------------------------------------------------------------
(* The delivery counter and the delivery limit                             *)

\* enqueueLocked leaves the counter of e within what it was, and does not touch
\* the counter of another evaluation.
LEMMA EnqueueLockedCounter ==
  ASSUME TypeOK, NEW e \in Evals, EnqueueLocked(e)
  PROVE  /\ enqueuedEvals'[e] <= Dequeues(e)
         /\ \A f \in Evals \ {e} : enqueuedEvals'[f] = enqueuedEvals[f]
<1> USE DEF TypeOK, Dequeues, Absent
<1>1. CASE Supersede(e)
  BY <1>1, SMT DEF Supersede, Swap
<1>2. CASE DropStale(e)
  BY <1>2, SMT DEF DropStale
<1>3. CASE PushEval(e)
  BY <1>3, SMT DEF PushEval
<1> QED BY <1>1, <1>2, <1>3 DEF EnqueueLocked

\* A step that gives e a counter below the limit, and can only make e pending.
LEMMA CounterKept ==
  ASSUME TypeOK, TypeOK', CounterWithinLimit, NEW e \in Evals,
         enqueuedEvals'[e] <= Dequeues(e), Dequeues(e) < DeliveryLimit, ~IsUnacked(e)',
         \A f \in Evals \ {e} : /\ enqueuedEvals'[f] = enqueuedEvals[f]
                                /\ IsPending(f)' => IsPending(f)
                                /\ IsUnacked(f)' => IsUnacked(f),
         \A f \in Evals : IsPopped(f)' => IsPopped(f)
  PROVE  CounterWithinLimit'
<1>1. \A f \in Evals \ {e} : Dequeues(f)' = Dequeues(f)
  BY DEF Dequeues
<1>2. Dequeues(e)' < DeliveryLimit /\ enqueuedEvals'[e] <= DeliveryLimit
  BY SMT DEF TypeOK, Dequeues, Absent
<1> QED BY <1>1, <1>2 DEF CounterWithinLimit

LEMMA CounterStep ==
  TypeInv /\ HolderInv /\ CounterWithinLimit /\ [Next]_vars => CounterWithinLimit'
<1> SUFFICES ASSUME TypeInv, TypeInv', HolderInv, CounterWithinLimit, [Next]_vars
             PROVE  CounterWithinLimit'
  BY TypeInvStep
<1> USE DEF TypeInv
<1>1. ASSUME UNCHANGED <<enqueuedEvals, unack>>,
             \A f \in Evals : (IsPending(f) \/ IsPopped(f))' => IsPending(f) \/ IsPopped(f)
      PROVE  CounterWithinLimit'
  BY <1>1 DEF CounterWithinLimit, Dequeues, IsUnacked
<1>2. ASSUME NEW e \in Evals, Submit(e)
      PROVE  CounterWithinLimit'
  <2>1. \A f \in Evals : IsPopped(f)' => IsPopped(f)
    BY <1>2 DEF Submit, Enqueue, worker, IsPopped
  <2>2. CASE UNCHANGED queued
    BY <1>1, <1>2, <2>1, <2>2 DEF Submit, Enqueue, queued, indexes, IsPending
  <2>3. CASE enqueuedEvals[e] = Absent /\ EnqueueLocked(e)
    <3>1. Dequeues(e) = 0
      BY <2>3 DEF Dequeues
    <3>2. UNCHANGED unack /\ ~IsUnacked(e)
      BY <1>2 DEF Submit, Enqueue, HolderInv, HeldSubmitted, Present
    <3>3. \A f \in Evals \ {e} : IsPending(f)' => IsPending(f)
      BY <2>3, EnqueueLockedPending, SMT DEF IsPending, TypeOK
    <3> QED BY <2>1, <2>3, <3>1, <3>2, <3>3, EnqueueLockedCounter, CounterKept, SMT DEF IsUnacked
  <2> QED BY <1>2, <2>2, <2>3 DEF Submit, Enqueue
<1>3. ASSUME NEW w \in Workers, FindWork(w)
      PROVE  CounterWithinLimit'
  <2>1. PICK e \in Heap(WorkerQueue[w]) :
          /\ pending' = [pending EXCEPT ![e] = @ - 1]
          /\ weval' = [weval EXCEPT ![w] = e]
    BY <1>3, Zenon DEF FindWork, Heads
  <2>2. /\ \A f \in Evals : IsPending(f)' => IsPending(f)
        /\ \A f \in Evals : IsPopped(f)' => IsPopped(f) \/ IsPending(f)
    BY <1>3, <2>1 DEF FindWork, Heap, IsPending, IsPopped, TypeOK
  <2> QED BY <1>1, <1>3, <2>2 DEF FindWork, indexes
<1>4. ASSUME NEW w \in Workers, Deliver(w)
      PROVE  CounterWithinLimit'
  <2>1. PICK e \in Evals : e = weval[w] /\ IsPopped(e)
    BY <1>4 DEF Deliver, WorkerOK, Holding, IsPopped
  <2>2. ~IsPending(e)' /\ ~IsPopped(e)'
    BY <1>4, <2>1, SMT DEF Deliver, HolderInv, SingleHolder, IsPending, IsPopped, TypeOK
  <2>3. /\ Dequeues(e)' = Dequeues(e) + 1
        /\ \A f \in Evals \ {e} : Dequeues(f)' = Dequeues(f) /\ enqueuedEvals'[f] = enqueuedEvals[f]
        /\ enqueuedEvals'[e] = Dequeues(e) + 1
    BY <1>4, <2>1, SMT DEF Deliver, Dequeues, Absent, TypeOK
  <2>4. \A f \in Evals \ {e} : /\ IsPending(f)' => IsPending(f)
                               /\ IsPopped(f)' => IsPopped(f)
                               /\ IsUnacked(f)' => IsUnacked(f)
    BY <1>4, <2>1 DEF Deliver, IsPending, IsPopped, IsUnacked, TypeOK
  <2>5. Dequeues(e) < DeliveryLimit /\ Dequeues(e) \in Nat
    BY <2>1 DEF CounterWithinLimit, Dequeues, Absent, TypeOK
  <2> QED BY <2>1, <2>2, <2>3, <2>4, <2>5, SMT DEF CounterWithinLimit
<1>5. ASSUME NEW w \in Workers, wpc[w] # "popped", wpc'[w] # "popped",
             \A v \in Workers \ {w} : wpc'[v] = wpc[v] /\ weval'[v] = weval[v]
      PROVE  \A f \in Evals : IsPopped(f)' => IsPopped(f)
  BY <1>5 DEF IsPopped
<1>6. ASSUME NEW w \in Workers,
             \/ RunLoop(w) \/ FindNothing(w) \/ WaitForWork(w) \/ WakeUp(w) \/ StopWaiting(w)
             \/ HandlePolicy(w) \/ AckFails(w)
      PROVE  CounterWithinLimit'
  <2>1. /\ UNCHANGED <<pending, enqueuedEvals, unack>>
        /\ wpc[w] # "popped" /\ wpc'[w] # "popped"
        /\ \A v \in Workers \ {w} : wpc'[v] = wpc[v] /\ weval'[v] = weval[v]
    BY <1>6, SMT DEF RunLoop, FindNothing, WaitForWork, WakeUp, StopWaiting, HandlePolicy, AckFails,
       EvalDone, queued, indexes, TypeOK
  <2> QED BY <1>1, <1>5, <2>1 DEF IsPending
<1>7. ASSUME NEW e \in Evals, NEW t \in Nat \ {NoToken}, CloseDelivery(e, t), Forget(e),
             \A f \in Evals : IsPopped(f)' => IsPopped(f)
      PROVE  CounterWithinLimit'
  <2>1. ~IsPending(e) /\ ~IsPopped(e) /\ ~IsUnacked(e)' /\ UNCHANGED pending
    BY <1>7 DEF CloseDelivery, Forget, IsUnacked, NoToken, HolderInv, SingleHolder, TypeOK
  <2>2. /\ \A f \in Evals \ {e} : Dequeues(f)' = Dequeues(f) /\ enqueuedEvals'[f] = enqueuedEvals[f]
        /\ \A f \in Evals \ {e} : IsUnacked(f)' => IsUnacked(f)
        /\ enqueuedEvals'[e] = Absent
    BY <1>7 DEF CloseDelivery, Forget, IsUnacked, Dequeues, TypeOK
  <2>3. enqueuedEvals'[e] <= DeliveryLimit
    BY <2>2, SMT DEF Absent
  <2>4. \A f \in Evals : IsPending(f)' <=> IsPending(f)
    BY <2>1 DEF IsPending
  <2> SUFFICES ASSUME NEW f \in Evals
               PROVE  /\ enqueuedEvals'[f] <= DeliveryLimit
                      /\ (IsPending(f) \/ IsPopped(f))' => Dequeues(f)' < DeliveryLimit
                      /\ IsUnacked(f)' => Dequeues(f)' >= 1
    BY DEF CounterWithinLimit
  <2>5. CASE f = e
    BY <1>7, <2>1, <2>3, <2>4, <2>5
  <2>6. CASE f # e
    BY <1>7, <2>2, <2>4, <2>6 DEF CounterWithinLimit
  <2> QED BY <2>5, <2>6
<1>8. ASSUME NEW e \in Evals, NEW t \in Nat \ {NoToken}, Nack(e, t),
             \A f \in Evals : IsPopped(f)' => IsPopped(f)
      PROVE  CounterWithinLimit'
  <2>1. CASE UNCHANGED <<queued, unack, armed>>
    BY <1>1, <1>8, <2>1 DEF queued, indexes, IsPending
  <2>2. CASE CloseDelivery(e, t) /\ Dequeues(e) < DeliveryLimit /\ EnqueueLocked(e)
    <3>1. /\ ~IsUnacked(e)'
          /\ \A f \in Evals \ {e} : IsUnacked(f)' => IsUnacked(f)
      BY <2>2 DEF CloseDelivery, IsUnacked, TypeOK
    <3>2. \A f \in Evals \ {e} : IsPending(f)' => IsPending(f)
      BY <2>2, EnqueueLockedPending, SMT DEF IsPending, TypeOK
    <3> QED BY <1>8, <2>2, <3>1, <3>2, EnqueueLockedCounter, CounterKept
  <2> QED BY <1>7, <1>8, <2>1, <2>2 DEF Nack, GiveUpOrRetry
<1>9. ASSUME NEW w \in Workers, Ack(w) \/ WorkerNack(w)
      PROVE  CounterWithinLimit'
  <2>1. weval[w] \in Evals /\ wtoken[w] \in Nat \ {NoToken}
    BY <1>9 DEF Ack, WorkerNack, WorkerOK, Holding, Answering, TypeOK
  <2>2. \A f \in Evals : IsPopped(f)' => IsPopped(f)
    BY <1>5, <1>9 DEF Ack, WorkerNack, EvalDone, TypeOK
  <2> QED BY <1>7, <1>8, <1>9, <2>1, <2>2 DEF Ack, WorkerNack
<1>10. ASSUME NEW e \in Evals, NEW t \in Tokens(e), TimerNack(e, t)
       PROVE  CounterWithinLimit'
  <2>1. t \in Nat \ {NoToken} /\ UNCHANGED worker
    BY <1>10, SMT DEF TimerNack, Tokens, NoToken, TypeOK
  <2>2. \A f \in Evals : IsPopped(f)' => IsPopped(f)
    BY <2>1 DEF worker, IsPopped
  <2> QED BY <1>8, <1>10, <2>1, <2>2 DEF TimerNack
<1>11. CASE \/ \E e \in Evals : Duplicate(e) \/ \E t \in Tokens(e) : TimerFires(e, t)
            \/ Cancel
            \/ UNCHANGED vars
  <2>1. UNCHANGED <<pending, enqueuedEvals, unack, worker>>
    BY <1>11, Zenon DEF Duplicate, Enqueue, TimerFires, Cancel, vars, queued, indexes
  <2> QED BY <1>1, <2>1 DEF IsPending, IsPopped, worker
<1> QED
  BY <1>2, <1>3, <1>4, <1>6, <1>9, <1>10, <1>11 DEF Next, WorkerStep

LEMMA CounterInit == Init => CounterWithinLimit
<1> SUFFICES ASSUME Init, NEW e \in Evals
             PROVE  /\ enqueuedEvals[e] <= DeliveryLimit
                    /\ ~IsPending(e) /\ ~IsPopped(e) /\ ~IsUnacked(e)
  BY DEF CounterWithinLimit
<1>1. enqueuedEvals[e] = -1 /\ pending[e] = 0 /\ unack[e] = NoToken
  BY DEF Init, Absent
<1> QED BY <1>1, SMT DEF Init, IsPending, IsPopped, IsUnacked

\* The delivery counter never exceeds deliveryLimit, and no evaluation waits for
\* a delivery when its counter has reached it.
THEOREM CounterBounded == Spec => []CounterWithinLimit
<1> QED BY CounterInit, TypeInvInit, TypeInvStep, HolderInit, HolderStep, CounterStep, PTL DEF Spec

-----------------------------------------------------------------------------
(* No wake-up is lost                                                      *)

\* A heap has a channel: enqueueLocked creates both.
ChannelOK == \A q \in heaps : waiting[q] # "nil"

\* A worker of the queue will look at the heap again before it blocks.
Active(q) ==
  \E w \in Workers : WorkerQueue[w] = q /\ wpc[w] \notin {"await", "parked", "stopped"}

WakeInv == ChannelOK /\ WakeUpNotLost

\* enqueueLocked takes no signal away, and signals when it fills an empty heap.
LEMMA EnqueueLockedWake ==
  ASSUME TypeOK, ChannelOK, NEW e \in Evals, EnqueueLocked(e)
  PROVE  /\ ChannelOK'
         /\ \A q \in Queues : /\ waiting[q] = "full" => waiting'[q] = "full"
                              /\ Heap(q)' # {} => Heap(q) # {} \/ waiting'[q] = "full"
<1> USE DEF TypeOK
<1>1. CASE HasRival(e) /\ Supersede(e)
  <2>1. Indexed(e) \in Heap(EvalQueue[e])
    BY <1>1 DEF HasRival, Indexed, Heap
  <2>2. \A f \in Evals : pending'[f] > 0 => pending[f] > 0 \/ f = e
    <3>1. Indexed(e) \in Evals /\ pending[Indexed(e)] > 0
      BY <2>1 DEF Heap
    <3> QED BY <1>1, <3>1 DEF Supersede, Swap
  <2> QED BY <1>1, <2>1, <2>2 DEF Supersede, Swap, Heap, ChannelOK
<1>2. CASE HasRival(e) /\ DropStale(e)
  BY <1>2 DEF DropStale, Heap, ChannelOK
<1>3. CASE ~HasRival(e) /\ PushEval(e)
  <2>1. \A f \in Evals : pending'[f] > 0 => pending[f] > 0 \/ f = e
    BY <1>3 DEF PushEval
  <2>2. /\ EvalQueue[e] \in Queues
        /\ waiting'[EvalQueue[e]] = "full"
        /\ \A q \in Queues \ {EvalQueue[e]} : waiting'[q] = waiting[q]
        /\ heaps' = heaps \union {EvalQueue[e]}
    BY <1>3 DEF PushEval, Unblock, ChannelOK
  <2> QED BY <2>1, <2>2, SMT DEF Heap, ChannelOK
<1> QED BY <1>1, <1>2, <1>3 DEF EnqueueLocked

LEMMA WakeStep == TypeInv /\ WakeInv /\ [Next]_vars => WakeInv'
<1> SUFFICES ASSUME TypeInv, TypeInv', WakeInv, [Next]_vars
             PROVE  WakeInv'
  BY TypeInvStep
<1> USE DEF TypeInv, TypeOK
\* Steps that leave the heaps no fuller, the channels alone and workers active.
<1>1. ASSUME UNCHANGED <<heaps, waiting>>, ctxDone => ctxDone',
             \A f \in Evals : pending'[f] > 0 => pending[f] > 0,
             \A q \in Queues : Heap(q)' # {} /\ Active(q) /\ ~ctxDone' => Active(q)'
      PROVE  WakeInv'
  <2>1. \A q \in Queues : Heap(q)' # {} => Heap(q) # {}
    BY <1>1 DEF Heap
  <2> QED BY <1>1, <2>1, SMT DEF WakeInv, ChannelOK, WakeUpNotLost, Active
<1>2. ASSUME NEW w \in Workers, wpc'[w] \notin {"await", "parked", "stopped"},
             \A v \in Workers \ {w} : wpc'[v] = wpc[v]
      PROVE  \A q \in Queues : Active(q) => Active(q)'
  BY <1>2 DEF Active
<1>3. ASSUME NEW e \in Evals, EnqueueLocked(e), UNCHANGED ctxDone,
             \A q \in Queues : Active(q) => Active(q)'
      PROVE  WakeInv'
  BY <1>3, EnqueueLockedWake DEF WakeInv, WakeUpNotLost, Active
<1>4. ASSUME NEW e \in Evals, Enqueue(e)
      PROVE  WakeInv'
  <2>1. UNCHANGED <<ctxDone, wpc>> /\ \A q \in Queues : Active(q) => Active(q)'
    BY <1>4 DEF Enqueue, worker, Active
  <2>2. CASE UNCHANGED queued
    BY <1>1, <2>1, <2>2 DEF queued
  <2>3. CASE EnqueueLocked(e)
    BY <1>3, <2>1, <2>3
  <2> QED BY <1>4, <2>2, <2>3 DEF Enqueue
<1>5. ASSUME NEW w \in Workers, RunLoop(w)
      PROVE  WakeInv'
  <2>1. CASE ctxDone
    BY <1>1, <1>5, <2>1 DEF RunLoop, queued
  <2>2. CASE ~ctxDone
    BY <1>1, <1>2, <1>5, <2>2 DEF RunLoop, queued
  <2> QED BY <2>1, <2>2
<1>6. ASSUME NEW w \in Workers, FindNothing(w)
      PROVE  WakeInv'
  <2>1. \A q \in Queues : Heap(q)' # {} /\ Active(q) => Active(q)'
    BY <1>6 DEF FindNothing, queued, Heap, Active
  <2> QED BY <1>1, <1>6, <2>1 DEF FindNothing, queued
<1>7. ASSUME NEW w \in Workers, FindWork(w)
      PROVE  WakeInv'
  <2>1. \A f \in Evals : pending'[f] > 0 => pending[f] > 0
    BY <1>7 DEF FindWork, Heads, Heap
  <2> QED BY <1>1, <1>2, <1>7, <2>1 DEF FindWork
<1>8. ASSUME NEW w \in Workers, WaitForWork(w)
      PROVE  WakeInv'
  <2>1. /\ UNCHANGED <<pending, heaps, ctxDone>>
        /\ \A q \in Queues : /\ waiting[q] = "full" => waiting'[q] = "full"
                             /\ waiting[q] # "nil" => waiting'[q] # "nil"
        /\ \A q \in Queues : Active(q) => Active(q)'
    BY <1>8 DEF WaitForWork, Active
  <2>2. ChannelOK'
    BY <2>1 DEF WakeInv, ChannelOK
  <2>3. \A q \in Queues : Heap(q)' = Heap(q)
    BY <2>1 DEF Heap
  <2>4. WakeUpNotLost'
    BY <2>1, <2>3, SMT DEF WakeInv, WakeUpNotLost, Active
  <2> QED BY <2>2, <2>4 DEF WakeInv
<1>9. ASSUME NEW w \in Workers, WakeUp(w)
      PROVE  WakeInv'
  <2>1. /\ UNCHANGED <<pending, heaps, ctxDone>>
        /\ \A q \in Queues : waiting'[q] # "nil" \/ waiting'[q] = waiting[q]
        /\ \A q \in Queues \ {WorkerQueue[w]} : waiting'[q] = waiting[q]
        /\ Active(WorkerQueue[w])'
    BY <1>9 DEF WakeUp, Active
  <2>2. \A q \in Queues : Active(q) => Active(q)'
    BY <1>2, <1>9 DEF WakeUp
  <2>3. ChannelOK'
    BY <2>1 DEF WakeInv, ChannelOK
  <2>4. ASSUME NEW q \in Queues, Heap(q)' # {}, ~ctxDone'
        PROVE  waiting'[q] = "full" \/ Active(q)'
    <3>1. CASE q = WorkerQueue[w]
      BY <2>1, <3>1
    <3>2. CASE q # WorkerQueue[w]
      BY <2>1, <2>2, <2>4, <3>2, SMT DEF WakeInv, WakeUpNotLost, Active, Heap
    <3> QED BY <3>1, <3>2
  <2> QED BY <2>3, <2>4 DEF WakeInv, WakeUpNotLost, Active
<1>10. ASSUME NEW w \in Workers,
              \/ StopWaiting(w) \/ Deliver(w) \/ HandlePolicy(w) \/ Ack(w) \/ AckFails(w)
       PROVE  WakeInv'
  <2>1. /\ UNCHANGED <<heaps, waiting, pending, ctxDone>>
        /\ wpc'[w] \notin {"await", "parked", "stopped"}
        /\ \A v \in Workers \ {w} : wpc'[v] = wpc[v]
    BY <1>10, SMT DEF StopWaiting, Deliver, HandlePolicy, Ack, AckFails, Forget, EvalDone, queued
  <2> QED BY <1>1, <1>2, <2>1
<1>11. ASSUME NEW e \in Evals, NEW t, Nack(e, t), UNCHANGED ctxDone,
              \A q \in Queues : Active(q) => Active(q)'
       PROVE  WakeInv'
  BY <1>1, <1>3, <1>11 DEF Nack, GiveUpOrRetry, Forget, queued
<1>12. ASSUME NEW w \in Workers, WorkerNack(w)
       PROVE  WakeInv'
  <2>1. /\ weval[w] \in Evals
        /\ wpc'[w] \notin {"await", "parked", "stopped"}
        /\ \A v \in Workers \ {w} : wpc'[v] = wpc[v]
    BY <1>12 DEF WorkerNack, WorkerOK, Holding, EvalDone
  <2> QED BY <1>2, <1>11, <1>12, <2>1 DEF WorkerNack
<1>13. ASSUME NEW e \in Evals, NEW t \in Tokens(e), TimerNack(e, t)
       PROVE  WakeInv'
  BY <1>11, <1>13 DEF TimerNack, worker, Active
<1>14. CASE \/ \E e \in Evals : \E t \in Tokens(e) : TimerFires(e, t)
            \/ Cancel
            \/ UNCHANGED vars
  <2>1. UNCHANGED <<heaps, waiting, pending, wpc>> /\ (ctxDone => ctxDone')
    BY <1>14, Zenon DEF TimerFires, Cancel, vars, queued, worker
  <2> QED BY <1>1, <2>1 DEF Active
<1> QED
  BY <1>4, <1>5, <1>6, <1>7, <1>8, <1>9, <1>10, <1>12, <1>13, <1>14
     DEF Next, WorkerStep, Submit, Duplicate

\* Although waiting channels hold one signal and further ones are dropped, a
\* queue with work always has a signal pending or a worker that will look again.
THEOREM NoLostWakeUp == Spec => []WakeUpNotLost
<1>1. Init => WakeInv
  BY SMT DEF Init, WakeInv, ChannelOK, WakeUpNotLost, Heap
<1> QED BY <1>1, TypeInvInit, TypeInvStep, WakeStep, PTL DEF Spec, WakeInv

-----------------------------------------------------------------------------
(* No request is lost                                                      *)

\* The policy index names an evaluation of that policy, and the broker only
\* counts deliveries of evaluations that were passed to Enqueue.
PolicyIndexOK ==
  \A p \in Policies : enqueuedPolicies[p] # None => EvalPolicy[enqueuedPolicies[p]] = p
CountedSubmitted == \A e \in Evals : enqueuedEvals[e] # Absent => e \in submitted

IndexInv == PolicyIndexOK /\ CountedSubmitted

\* enqueueLocked indexes e under its own policy and touches no other counter.
LEMMA EnqueueLockedIndex ==
  ASSUME TypeOK, PolicyIndexOK, NEW e \in Evals, EnqueueLocked(e)
  PROVE  /\ PolicyIndexOK'
         /\ \A f \in Evals \ {e} : enqueuedEvals'[f] = enqueuedEvals[f]
<1> USE DEF TypeOK, PolicyIndexOK
<1>q. EvalPolicy[e] \in Policies
  OBVIOUS
<1>1. CASE HasRival(e) /\ Supersede(e)
  BY <1>1, <1>q DEF Supersede, Swap
<1>2. CASE HasRival(e) /\ DropStale(e)
  BY <1>2 DEF DropStale
<1>3. CASE ~HasRival(e) /\ PushEval(e)
  BY <1>3, <1>q DEF PushEval
<1> QED BY <1>1, <1>2, <1>3 DEF EnqueueLocked

\* Forget removes the counter of e and the entry of its policy.
LEMMA ForgetIndex ==
  ASSUME TypeOK, IndexInv, NEW e \in Evals, Forget(e), UNCHANGED submitted
  PROVE  IndexInv'
<1> USE DEF TypeOK, IndexInv, PolicyIndexOK, CountedSubmitted
<1>1. EvalPolicy[e] \in Policies
  OBVIOUS
<1>2. PolicyIndexOK'
  BY <1>1 DEF Forget
<1>3. CountedSubmitted'
  BY DEF Forget
<1> QED BY <1>2, <1>3

LEMMA NackIndex ==
  ASSUME TypeOK, HeldSubmitted, IndexInv, NEW e \in Evals, NEW t \in Nat \ {NoToken}, Nack(e, t),
         UNCHANGED submitted
  PROVE  IndexInv'
<1>1. CASE UNCHANGED <<queued, unack, armed>>
  BY <1>1 DEF queued, indexes, IndexInv, PolicyIndexOK, CountedSubmitted
<1>2. CASE CloseDelivery(e, t) /\ Forget(e)
  BY <1>2, ForgetIndex
<1>3. CASE CloseDelivery(e, t) /\ EnqueueLocked(e)
  <2>1. e \in submitted
    BY <1>3 DEF CloseDelivery, HeldSubmitted, Present, IsUnacked
  <2> QED BY <1>3, <2>1, EnqueueLockedIndex DEF IndexInv, CountedSubmitted
<1> QED BY <1>1, <1>2, <1>3 DEF Nack, GiveUpOrRetry

LEMMA IndexStep == TypeInv /\ HolderInv /\ IndexInv /\ [Next]_vars => IndexInv'
<1> SUFFICES ASSUME TypeInv, HolderInv, IndexInv, [Next]_vars
             PROVE  IndexInv'
  OBVIOUS
<1>t. TypeOK /\ WorkerOK /\ HeldSubmitted
  BY DEF TypeInv, HolderInv
<1>1. ASSUME NEW e \in Evals, Enqueue(e)
      PROVE  IndexInv'
  <2>1. submitted' = submitted \union {e}
    BY <1>1 DEF Enqueue
  <2>2. CASE UNCHANGED queued
    BY <2>1, <2>2 DEF queued, indexes, IndexInv, PolicyIndexOK, CountedSubmitted
  <2>3. CASE EnqueueLocked(e)
    BY <1>t, <2>1, <2>3, EnqueueLockedIndex DEF IndexInv, CountedSubmitted
  <2> QED BY <1>1, <2>2, <2>3 DEF Enqueue
<1>2. ASSUME NEW w \in Workers, Deliver(w)
      PROVE  IndexInv'
  <2>1. weval[w] \in Evals /\ weval[w] \in submitted
    BY <1>t, <1>2 DEF Deliver, WorkerOK, Holding, HeldSubmitted, Present, IsPopped
  <2>2. UNCHANGED <<enqueuedPolicies, submitted>>
    BY <1>2 DEF Deliver
  <2>3. \A f \in Evals \ {weval[w]} : enqueuedEvals'[f] = enqueuedEvals[f]
    BY <1>t, <1>2 DEF Deliver, TypeOK
  <2> QED BY <2>1, <2>2, <2>3 DEF IndexInv, PolicyIndexOK, CountedSubmitted
<1>3. ASSUME NEW w \in Workers, Ack(w)
      PROVE  IndexInv'
  BY <1>t, <1>3, ForgetIndex DEF Ack, WorkerOK, Holding, history
<1>4. ASSUME NEW w \in Workers, WorkerNack(w)
      PROVE  IndexInv'
  BY <1>t, <1>4, NackIndex DEF WorkerNack, WorkerOK, TypeOK, Holding, Answering, history
<1>5. ASSUME NEW e \in Evals, NEW t \in Tokens(e), TimerNack(e, t)
      PROVE  IndexInv'
  <2>1. t \in Nat \ {NoToken} /\ UNCHANGED submitted
    BY <1>t, <1>5, SMT DEF TimerNack, Tokens, NoToken, TypeOK, history
  <2> QED BY <1>t, <1>5, <2>1, NackIndex DEF TimerNack
<1>6. CASE UNCHANGED <<indexes, submitted>>
  BY <1>6 DEF indexes, IndexInv, PolicyIndexOK, CountedSubmitted
<1>7. ASSUME NEW w \in Workers,
             \/ RunLoop(w) \/ FindNothing(w) \/ FindWork(w) \/ WaitForWork(w) \/ WakeUp(w)
             \/ StopWaiting(w) \/ HandlePolicy(w) \/ AckFails(w)
      PROVE  IndexInv'
  BY <1>6, <1>7 DEF RunLoop, FindNothing, FindWork, WaitForWork, WakeUp, StopWaiting, HandlePolicy,
     AckFails, queued, history
<1>8. ASSUME NEW e \in Evals, NEW t \in Tokens(e), TimerFires(e, t)
      PROVE  IndexInv'
  BY <1>6, <1>8 DEF TimerFires, queued, history
<1>9. CASE Cancel \/ UNCHANGED vars
  BY <1>6, <1>9 DEF Cancel, vars, queued, history
<1> QED
  BY <1>1, <1>2, <1>3, <1>4, <1>5, <1>7, <1>8, <1>9 DEF Next, Submit, Duplicate, WorkerStep

LEMMA IndexInit == Init => IndexInv
  BY DEF Init, IndexInv, PolicyIndexOK, CountedSubmitted

\* What enqueueLocked was to add, or found in a heap, is in a heap afterwards or
\* gave way to an evaluation of its policy that is at least as recent.
LEMMA EnqueueLockedKeeps ==
  ASSUME TypeOK, PolicyIndexOK, NEW e \in Evals, EnqueueLocked(e),
         NEW f \in Evals, f = e \/ IsPending(f)
  PROVE  IsPending(f)' \/ Superseded(f)'
<1> USE DEF TypeOK, IsPending
<1>t. CreateTime[e] \in Int /\ CreateTime[f] \in Int /\ EvalPolicy[e] \in Policies
  OBVIOUS
<1>1. CASE HasRival(e) /\ Supersede(e)
  <2>1. /\ Indexed(e) \in Evals /\ Indexed(e) # e
        /\ EvalPolicy[Indexed(e)] = EvalPolicy[e]
        /\ CreateTime[e] > CreateTime[Indexed(e)]
    BY <1>1, <1>t DEF HasRival, Supersede, Indexed, PolicyIndexOK
  <2>2. /\ pending'[e] = pending[e] + 1
        /\ \A g \in Evals \ {e, Indexed(e)} : pending'[g] = pending[g]
    BY <1>1, <2>1 DEF Supersede, Swap
  <2>3. pending'[e] > 0
    BY <2>2, SMT
  <2>4. CASE f = Indexed(e)
    <3>1. CreateTime[e] >= CreateTime[f]
      BY <1>t, <2>1, <2>4, SMT
    <3> QED BY <2>1, <2>3, <2>4, <3>1 DEF Superseded
  <2> QED BY <2>2, <2>3, <2>4
<1>2. CASE HasRival(e) /\ DropStale(e)
  <2>1. /\ Indexed(e) \in Evals /\ Indexed(e) # e
        /\ EvalPolicy[Indexed(e)] = EvalPolicy[e]
        /\ pending[Indexed(e)] > 0 /\ pending' = pending
    BY <1>2, <1>t DEF HasRival, DropStale, Indexed, PolicyIndexOK
  <2>2. CreateTime[Indexed(e)] >= CreateTime[e]
    <3>1. CreateTime[Indexed(e)] \in Int
      BY <2>1
    <3> QED BY <1>2, <1>t, <3>1, SMT DEF DropStale
  <2> QED BY <2>1, <2>2 DEF Superseded
<1>3. CASE ~HasRival(e) /\ PushEval(e)
  <2>1. pending' = [pending EXCEPT ![e] = @ + 1]
    BY <1>3 DEF PushEval
  <2>2. pending'[e] > 0 /\ \A g \in Evals \ {e} : pending'[g] = pending[g]
    BY <2>1, SMT
  <2> QED BY <2>2
<1> QED BY <1>1, <1>2, <1>3 DEF EnqueueLocked

\* An evaluation that leaves the broker with a Nack was given up or superseded.
LEMMA NackKeeps ==
  ASSUME TypeOK, PolicyIndexOK, NEW e \in Evals, NEW t \in Nat \ {NoToken}, Nack(e, t),
         UNCHANGED submitted,
         \A g \in Evals : IsPopped(g)' <=> IsPopped(g),
         HeldSubmitted, NEW f \in Evals, Leaves(f)
  PROVE  (IsUnacked(f) /\ Dequeues(f) >= DeliveryLimit) \/ Superseded(f)'
<1>1. Present(f) /\ ~Present(f)'
  BY DEF Leaves
<1>2. CASE UNCHANGED <<queued, unack, armed>>
  BY <1>1, <1>2 DEF queued, Present, IsPending, IsUnacked
<1>3. CASE CloseDelivery(e, t) /\ GiveUpOrRetry(e)
  <2>1. /\ IsUnacked(e)
        /\ \A g \in Evals \ {e} : IsUnacked(g)' <=> IsUnacked(g)
    BY <1>3 DEF CloseDelivery, IsUnacked, TypeOK
  <2>2. f = e \/ IsPending(f)
    BY <1>1, <2>1 DEF Present
  <2>3. CASE Dequeues(e) >= DeliveryLimit /\ Forget(e)
    BY <1>1, <2>1, <2>2, <2>3 DEF Forget, Present, IsPending
  <2>4. CASE EnqueueLocked(e)
    BY <1>1, <2>2, <2>4, EnqueueLockedKeeps DEF Present
  <2> QED BY <1>3, <2>3, <2>4 DEF GiveUpOrRetry
<1> QED BY <1>2, <1>3 DEF Nack

\* Whatever the step, an evaluation leaves the broker for one of three reasons.
LEMMA LeavingIsAccounted ==
  ASSUME TypeInv, HolderInv, IndexInv, Next, NEW f \in Evals, Leaves(f)
  PROVE  \/ \E w \in Workers : Acknowledges(w, f)
         \/ IsUnacked(f) /\ Dequeues(f) >= DeliveryLimit
         \/ Superseded(f)'
<1>t. TypeOK /\ WorkerOK /\ HeldSubmitted /\ PolicyIndexOK /\ CountedSubmitted
  BY DEF TypeInv, HolderInv, IndexInv
<1> DEFINE Goal == \/ \E w \in Workers : Acknowledges(w, f)
                   \/ IsUnacked(f) /\ Dequeues(f) >= DeliveryLimit
                   \/ Superseded(f)'
<1>0. f \in submitted' /\ ~Present(f)' /\ (Present(f) \/ f \notin submitted)
  BY DEF Leaves
<1>s. ASSUME UNCHANGED submitted PROVE Present(f)
  BY <1>0, <1>s
<1>1. ASSUME NEW e \in Evals, Submit(e) PROVE Goal
  <2>1. /\ \A g \in Evals : (IsPopped(g)' <=> IsPopped(g)) /\ (IsUnacked(g)' <=> IsUnacked(g))
        /\ submitted' = submitted \union {e}
        /\ EnqueueLocked(e)
    BY <1>t, <1>1 DEF Submit, Enqueue, worker, IsPopped, IsUnacked, CountedSubmitted
  <2>2. f = e \/ IsPending(f)
    BY <1>0, <2>1 DEF Present
  <2> QED BY <1>0, <1>t, <2>1, <2>2, EnqueueLockedKeeps DEF Present
<1>2. ASSUME NEW e \in Evals, Duplicate(e) PROVE Goal
  <2>1. UNCHANGED <<submitted, pending, unack, wpc, weval>>
    BY <1>2 DEF Duplicate, Enqueue, queued, worker
  <2> QED BY <1>0, <1>s, <2>1 DEF Present, IsPending, IsPopped, IsUnacked
<1>3. ASSUME NEW w \in Workers,
             \/ RunLoop(w) \/ FindNothing(w) \/ WaitForWork(w) \/ WakeUp(w) \/ StopWaiting(w)
             \/ HandlePolicy(w)
      PROVE  Goal
  <2>1. /\ UNCHANGED <<pending, unack, submitted, weval>>
        /\ wpc[w] # "popped"
        /\ \A v \in Workers \ {w} : wpc'[v] = wpc[v]
    BY <1>t, <1>3 DEF RunLoop, FindNothing, WaitForWork, WakeUp, StopWaiting, HandlePolicy, queued,
       history, TypeOK
  <2> QED BY <1>0, <1>s, <2>1 DEF Present, IsPending, IsPopped, IsUnacked
<1>4. ASSUME NEW w \in Workers, FindWork(w) PROVE Goal
  <2>1. PICK e \in Heap(WorkerQueue[w]) :
          /\ pending' = [pending EXCEPT ![e] = @ - 1]
          /\ weval' = [weval EXCEPT ![w] = e]
    BY <1>4, <1>t, Zenon DEF FindWork, Heads, TypeOK
  <2>2. /\ wpc[w] = "find" /\ wpc' = [wpc EXCEPT ![w] = "popped"]
        /\ UNCHANGED <<unack, submitted>>
    BY <1>4 DEF FindWork, history
  <2>3. e \in Evals
    BY DEF Heap
  <2>4. wpc'[w] = "popped" /\ weval'[w] = e
    BY <1>t, <2>1, <2>2 DEF TypeOK
  <2>5. \A v \in Workers : wpc[v] = "popped" => wpc'[v] = "popped" /\ weval'[v] = weval[v]
    BY <1>t, <2>1, <2>2 DEF TypeOK
  <2>6. \A g \in Evals \ {e} : pending'[g] = pending[g]
    BY <1>t, <2>1, <2>3 DEF TypeOK
  <2> QED BY <1>0, <1>s, <2>2, <2>4, <2>5, <2>6 DEF Present, IsPending, IsPopped, IsUnacked
<1>5. ASSUME NEW w \in Workers, Deliver(w) PROVE Goal
  <2>1. /\ weval[w] \in Evals
        /\ wpc' = [wpc EXCEPT ![w] = "handling"]
        /\ unack' = [unack EXCEPT ![weval[w]] = delivered[weval[w]] + 1]
        /\ UNCHANGED <<pending, submitted, weval>>
    BY <1>t, <1>5 DEF Deliver, WorkerOK, Holding
  <2>2. unack'[weval[w]] # NoToken
    BY <1>t, <2>1, SMT DEF TypeOK, NoToken
  <2>3. \A g \in Evals \ {weval[w]} : unack'[g] = unack[g]
    BY <1>t, <2>1 DEF TypeOK
  <2>4. \A v \in Workers \ {w} : wpc'[v] = wpc[v]
    BY <1>t, <2>1 DEF TypeOK
  <2> QED BY <1>0, <1>s, <2>1, <2>2, <2>3, <2>4 DEF Present, IsPending, IsPopped, IsUnacked
<1>6. ASSUME NEW w \in Workers, wpc[w] \in {"ack", "nack"}, EvalDone(w)
      PROVE  \A g \in Evals : IsPopped(g)' <=> IsPopped(g)
  BY <1>t, <1>6 DEF EvalDone, IsPopped, TypeOK
<1>7. ASSUME NEW w \in Workers, Ack(w) PROVE Goal
  <2>1. /\ UNCHANGED <<pending, submitted>>
        /\ \A g \in Evals : g # weval[w] => unack'[g] = unack[g]
    BY <1>t, <1>7 DEF Ack, WorkerOK, Holding, CloseDelivery, Forget, history, TypeOK
  <2>2. f = weval[w]
    BY <1>0, <1>6, <1>7, <1>s, <2>1 DEF Ack, Present, IsPending, IsUnacked
  <2>3. Acknowledges(w, f)
    BY <1>t, <1>7, <2>2 DEF Ack, CloseDelivery, EvalDone, Acknowledges, TypeOK
  <2> QED BY <2>3
<1>8. ASSUME NEW w \in Workers, AckFails(w) PROVE Goal
  <2>1. UNCHANGED <<pending, unack, submitted>>
    BY <1>8 DEF AckFails, queued, history
  <2> QED BY <1>0, <1>6, <1>8, <1>s, <2>1 DEF AckFails, Present, IsPending, IsUnacked
<1>9. ASSUME NEW w \in Workers, WorkerNack(w) PROVE Goal
  <2>1. weval[w] \in Evals /\ wtoken[w] \in Nat \ {NoToken} /\ UNCHANGED submitted
    BY <1>t, <1>9 DEF WorkerNack, WorkerOK, TypeOK, Holding, Answering, history
  <2> QED BY <1>t, <1>6, <1>9, <2>1, NackKeeps DEF WorkerNack
<1>10. ASSUME NEW e \in Evals, NEW t \in Tokens(e), TimerFires(e, t) PROVE Goal
  <2>1. UNCHANGED <<submitted, pending, unack, wpc, weval>>
    BY <1>10 DEF TimerFires, queued, worker, history
  <2> QED BY <1>0, <1>s, <2>1 DEF Present, IsPending, IsPopped, IsUnacked
<1>11. ASSUME NEW e \in Evals, NEW t \in Tokens(e), TimerNack(e, t) PROVE Goal
  <2>1. t \in Nat \ {NoToken} /\ UNCHANGED <<submitted, worker>>
    BY <1>t, <1>11, SMT DEF TimerNack, Tokens, NoToken, TypeOK, history
  <2> QED BY <1>t, <1>11, <2>1, NackKeeps DEF TimerNack, worker, IsPopped
<1>12. CASE Cancel
  <2>1. UNCHANGED <<submitted, pending, unack, wpc, weval>>
    BY <1>12 DEF Cancel, queued, worker, history
  <2> QED BY <1>0, <1>s, <2>1 DEF Present, IsPending, IsPopped, IsUnacked
<1> QED
  BY <1>1, <1>2, <1>3, <1>4, <1>5, <1>7, <1>8, <1>9, <1>10, <1>11, <1>12 DEF Next, WorkerStep

\* The broker never loses the last request to evaluate a policy: an evaluation
\* leaves it only acknowledged, out of deliveries, or for one that is at least
\* as recent, also when the type of the policy changes in between.
THEOREM NoRequestLost == Spec => NoSilentDrop
<1>1. TypeInv /\ HolderInv /\ IndexInv /\ [Next]_vars =>
        [\A e \in Evals : Leaves(e) =>
           \/ \E w \in Workers : Acknowledges(w, e)
           \/ IsUnacked(e) /\ Dequeues(e) >= DeliveryLimit
           \/ Superseded(e)']_vars
  BY LeavingIsAccounted
<1> QED
  BY <1>1, TypeInvInit, TypeInvStep, HolderInit, HolderStep, IndexInit, IndexStep, PTL
     DEF Spec, NoSilentDrop

-----------------------------------------------------------------------------
(* The broker is a work queue                                              *)

\* The variable of WorkQueue, computed from the state of the broker.
QueueStatus == [e \in Evals |-> Status(e)]

\* The parts of the state that decide where f is.
SamePlace(f) ==
  /\ f \in submitted' <=> f \in submitted
  /\ IsPending(f)' <=> IsPending(f)
  /\ IsPopped(f)' \/ IsUnacked(f)' <=> IsPopped(f) \/ IsUnacked(f)

LEMMA SameStatus ==
  ASSUME NEW f \in Evals, SamePlace(f)
  PROVE  Status(f)' = Status(f)
  BY DEF SamePlace, Status

\* Only e moves.
LEMMA OneMoves ==
  ASSUME NEW e \in Evals, NEW to, Status(e)' = to,
         \A f \in Evals \ {e} : SamePlace(f)
  PROVE  WQ!Move(e, to)
<1>1. \A f \in Evals \ {e} : Status(f)' = Status(f)
  BY SameStatus
<1> QED
  BY <1>1 DEF WQ!Move

\* The rival of e in the heap is queued.
LEMMA RivalQueued ==
  ASSUME TypeOK, HolderInv, PolicyIndexOK, NEW e \in Evals, HasRival(e)
  PROVE  /\ Indexed(e) \in Evals \ {e} /\ EvalPolicy[Indexed(e)] = EvalPolicy[e]
         /\ IsPending(Indexed(e)) /\ Indexed(e) \in submitted
         /\ ~IsPopped(Indexed(e)) /\ ~IsUnacked(Indexed(e)) /\ pending[Indexed(e)] = 1
<1>1. Indexed(e) \in Evals \ {e} /\ EvalPolicy[Indexed(e)] = EvalPolicy[e]
  <2>1. EvalPolicy[e] \in Policies
    OBVIOUS
  <2> QED
    BY <2>1 DEF HasRival, Indexed, PolicyIndexOK, TypeOK
<1>2. IsPending(Indexed(e))
  BY DEF HasRival, IsPending
<1>3. Indexed(e) \in submitted /\ ~IsPopped(Indexed(e)) /\ ~IsUnacked(Indexed(e))
  BY <1>1, <1>2 DEF HolderInv, SingleHolder, HeldSubmitted, Present
<1>4. pending[Indexed(e)] <= 1 /\ pending[Indexed(e)] \in Nat
  BY <1>1 DEF HolderInv, SingleHolder, TypeOK
<1>5. pending[Indexed(e)] = 1
  BY <1>2, <1>4, SMT DEF IsPending
<1> QED
  BY <1>1, <1>2, <1>3, <1>5

\* An evaluation that takes the place of its rival settles it.
LEMMA SupersedeSettles ==
  ASSUME TypeOK, HolderInv, PolicyIndexOK, NEW e \in Evals, HasRival(e), Supersede(e),
         ~IsPending(e), e \in submitted',
         \A f \in Evals \ {e} : /\ f \in submitted' <=> f \in submitted
                                /\ IsPopped(f)' <=> IsPopped(f)
                                /\ IsUnacked(f)' <=> IsUnacked(f)
  PROVE  \E r \in Evals \ {e} :
           /\ EvalPolicy[r] = EvalPolicy[e] /\ CreateTime[e] > CreateTime[r]
           /\ Status(r) = "queued" /\ Status(r)' = "settled" /\ Status(e)' = "queued"
           /\ \A f \in Evals \ {e, r} : Status(f)' = Status(f)
<1>1. PICK r \in Evals \ {e} : r = Indexed(e)
  BY RivalQueued
<1>2. pending' = [pending EXCEPT ![r] = @ - 1, ![e] = @ + 1] /\ CreateTime[e] > CreateTime[r]
  BY <1>1 DEF Supersede, Swap
<1>3. pending'[r] = 0 /\ pending'[e] > 0 /\ \A f \in Evals \ {e, r} : pending'[f] = pending[f]
  <2>1. pending[r] = 1
    BY <1>1, RivalQueued
  <2>2. pending \in [Evals -> Nat]
    BY DEF TypeOK
  <2> QED
    BY <1>1, <1>2, <2>1, <2>2, SMT
<1>4. ~IsPending(r)' /\ IsPending(e)'
  BY <1>3, SMT DEF IsPending
<1>5. Status(e)' = "queued" /\ Status(r)' = "settled" /\ Status(r) = "queued"
  BY <1>1, <1>4, RivalQueued DEF Status
<1>6. \A f \in Evals \ {e, r} : Status(f)' = Status(f)
  BY <1>3 DEF Status, IsPending
<1> QED
  BY <1>1, <1>2, <1>5, <1>6, RivalQueued

\* enqueueLocked, called with an evaluation that no heap holds: it is queued,
\* takes the place of an older one, or is given up for one that is as recent.
LEMMA EnqueueLockedMoves ==
  ASSUME TypeOK, HolderInv, PolicyIndexOK, NEW e \in Evals, EnqueueLocked(e),
         Status(e) \in {"new", "leased"}, ~IsPending(e),
         e \in submitted', ~IsPopped(e)', ~IsUnacked(e)',
         \A f \in Evals \ {e} : /\ f \in submitted' <=> f \in submitted
                                /\ IsPopped(f)' <=> IsPopped(f)
                                /\ IsUnacked(f)' <=> IsUnacked(f)
  PROVE  WQ!Next
<1>1. CASE HasRival(e) /\ Supersede(e)
  <2>1. PICK r \in Evals \ {e} :
          /\ EvalPolicy[r] = EvalPolicy[e] /\ CreateTime[e] > CreateTime[r]
          /\ Status(r) = "queued" /\ Status(r)' = "settled" /\ Status(e)' = "queued"
          /\ \A f \in Evals \ {e, r} : Status(f)' = Status(f)
    BY <1>1, SupersedeSettles
  <2>2. QueueStatus' = [QueueStatus EXCEPT ![e] = "queued", ![r] = "settled"]
    BY <2>1 DEF QueueStatus
  <2>3. QueueStatus[e] \in {"new", "leased"} /\ QueueStatus[r] = "queued"
    BY <2>1 DEF QueueStatus
  <2>4. WQ!Replace(e, r)
    BY <2>1, <2>2, <2>3 DEF WQ!Replace, QueueStatus
  <2> QED
    BY <2>4 DEF WQ!Next
<1>2. CASE HasRival(e) /\ DropStale(e)
  <2>1. PICK r \in Evals \ {e} : r = Indexed(e)
    BY <1>2, RivalQueued
  <2>2. pending' = pending /\ ~(CreateTime[e] > CreateTime[r])
    BY <1>2, <2>1 DEF DropStale
  <2>3. CreateTime[r] >= CreateTime[e]
    <3>1. CreateTime[e] \in Int /\ CreateTime[r] \in Int
      OBVIOUS
    <3> QED
      BY <2>2, <3>1, SMT
  <2>4. Status(e)' = "settled" /\ Status(r) = "queued"
    BY <1>2, RivalQueued, <2>1, <2>2 DEF Status, IsPending
  <2>5. WQ!Move(e, "settled")
    BY <2>2, <2>4, OneMoves DEF SamePlace, IsPending
  <2>6. WQ!Yield(e, r)
    BY <1>2, RivalQueued, <2>1, <2>3, <2>4, <2>5, SMT DEF WQ!Yield
  <2> QED
    BY <2>6 DEF WQ!Next
<1>3. CASE ~HasRival(e) /\ PushEval(e)
  <2>1. pending' = [pending EXCEPT ![e] = @ + 1]
    BY <1>3 DEF PushEval
  <2>2. pending'[e] > 0 /\ \A f \in Evals \ {e} : pending'[f] = pending[f]
    BY <2>1, SMT DEF TypeOK
  <2>3. Status(e)' = "queued"
    BY <2>2 DEF Status, IsPending
  <2>4. WQ!Move(e, "queued")
    BY <2>2, <2>3, OneMoves DEF SamePlace, IsPending
  <2>5. WQ!Queue(e)
    BY <2>4, SMT DEF WQ!Queue
  <2> QED
    BY <2>5 DEF WQ!Next
<1> QED
  BY <1>1, <1>2, <1>3 DEF EnqueueLocked

\* Closing the current delivery of e settles it or returns it to the queue.
LEMMA NackMoves ==
  ASSUME TypeOK, HolderInv, PolicyIndexOK, NEW e \in Evals, NEW t \in Nat \ {NoToken},
         CloseDelivery(e, t), Forget(e) \/ EnqueueLocked(e),
         UNCHANGED submitted, \A f \in Evals : IsPopped(f)' <=> IsPopped(f)
  PROVE  WQ!Next
<1>1. /\ IsUnacked(e) /\ ~IsUnacked(e)'
      /\ \A f \in Evals \ {e} : IsUnacked(f)' <=> IsUnacked(f)
  BY DEF CloseDelivery, IsUnacked, TypeOK
<1>2. ~IsPending(e) /\ ~IsPopped(e) /\ e \in submitted
  BY <1>1 DEF HolderInv, SingleHolder, HeldSubmitted, Present
<1>3. Status(e) = "leased"
  BY <1>1, <1>2 DEF Status
<1>4. CASE Forget(e)
  <2>1. \A f \in Evals : IsPending(f)' <=> IsPending(f)
    BY <1>4 DEF Forget, IsPending
  <2>2. Status(e)' = "settled"
    BY <1>1, <1>2, <2>1 DEF Status
  <2>3. WQ!Move(e, "settled")
    BY <1>1, <2>1, <2>2, OneMoves DEF SamePlace
  <2>4. WQ!Settle(e)
    BY <1>3, <2>3 DEF WQ!Settle
  <2> QED
    BY <2>4 DEF WQ!Next
<1>5. CASE EnqueueLocked(e)
  BY <1>1, <1>2, <1>3, <1>5, EnqueueLockedMoves
<1> QED
  BY <1>4, <1>5

\* Every step of the broker is a step of the work queue or leaves it alone.
LEMMA QueueStep ==
  ASSUME TypeInv, HolderInv, IndexInv, [Next]_vars
  PROVE  WQ!Next \/ QueueStatus' = QueueStatus
<1>t. TypeOK /\ WorkerOK /\ HeldSubmitted /\ SingleHolder /\ PolicyIndexOK /\ CountedSubmitted
  BY DEF TypeInv, HolderInv, IndexInv
<1> DEFINE Goal == WQ!Next \/ QueueStatus' = QueueStatus
<1>s. ASSUME \A f \in Evals : SamePlace(f) PROVE Goal
  <2>1. \A f \in Evals : Status(f)' = Status(f)
    BY <1>s, SameStatus
  <2> QED
    BY <2>1 DEF QueueStatus
<1>1. ASSUME NEW e \in Evals, Submit(e) PROVE Goal
  <2>1. /\ e \notin submitted /\ submitted' = submitted \union {e} /\ EnqueueLocked(e)
        /\ UNCHANGED <<unack, wpc, weval>>
    BY <1>t, <1>1 DEF Submit, Enqueue, worker, CountedSubmitted
  <2>2. ~IsPending(e) /\ ~IsPopped(e) /\ ~IsUnacked(e)
    BY <1>t, <2>1 DEF HeldSubmitted, Present
  <2>3. \A f \in Evals : (IsPopped(f)' <=> IsPopped(f)) /\ (IsUnacked(f)' <=> IsUnacked(f))
    BY <2>1 DEF IsPopped, IsUnacked
  <2>4. Status(e) = "new"
    BY <2>1 DEF Status
  <2> QED
    BY <1>t, <2>1, <2>2, <2>3, <2>4, EnqueueLockedMoves
<1>2. ASSUME UNCHANGED <<submitted, pending, unack, wpc, weval>> PROVE Goal
  BY <1>2, <1>s DEF SamePlace, IsPending, IsPopped, IsUnacked
<1>3. ASSUME NEW w \in Workers, UNCHANGED <<submitted, pending, unack>>,
             wpc[w] # "popped", wpc'[w] # "popped",
             \A v \in Workers \ {w} : wpc'[v] = wpc[v] /\ weval'[v] = weval[v]
      PROVE  Goal
  <2>1. \A f \in Evals : IsPopped(f)' <=> IsPopped(f)
    BY <1>3 DEF IsPopped
  <2> QED
    BY <1>3, <1>s, <2>1 DEF SamePlace, IsPending, IsUnacked
<1>4. ASSUME NEW w \in Workers,
             \/ RunLoop(w) \/ FindNothing(w) \/ WaitForWork(w) \/ WakeUp(w) \/ StopWaiting(w)
             \/ HandlePolicy(w) \/ AckFails(w)
      PROVE  Goal
  <2>1. /\ UNCHANGED <<submitted, pending, unack>>
        /\ wpc[w] # "popped" /\ wpc'[w] # "popped"
        /\ \A v \in Workers \ {w} : wpc'[v] = wpc[v] /\ weval'[v] = weval[v]
    <3>1. CASE RunLoop(w) \/ FindNothing(w) \/ WaitForWork(w)
      BY <1>t, <3>1 DEF RunLoop, FindNothing, WaitForWork, queued, history, TypeOK
    <3>2. CASE WakeUp(w) \/ StopWaiting(w)
      BY <1>t, <3>2 DEF WakeUp, StopWaiting, queued, history, TypeOK
    <3>3. CASE HandlePolicy(w) \/ AckFails(w)
      BY <1>t, <3>3 DEF HandlePolicy, AckFails, EvalDone, queued, history, TypeOK
    <3> QED
      BY <1>4, <3>1, <3>2, <3>3
  <2> QED
    BY <1>3, <2>1
<1>5. ASSUME NEW w \in Workers, FindWork(w) PROVE Goal
  <2>1. PICK e \in Heap(WorkerQueue[w]) :
          /\ pending' = [pending EXCEPT ![e] = @ - 1]
          /\ weval' = [weval EXCEPT ![w] = e]
    BY <1>5 DEF FindWork, Heads
  <2>2. /\ wpc[w] = "find" /\ wpc' = [wpc EXCEPT ![w] = "popped"]
        /\ UNCHANGED <<unack, submitted>>
    BY <1>5 DEF FindWork, history
  <2>3. e \in Evals /\ IsPending(e) /\ e \in submitted
    BY <1>t DEF Heap, IsPending, HeldSubmitted, Present
  <2>4. pending'[e] = 0 /\ \A f \in Evals \ {e} : pending'[f] = pending[f]
    <3>1. pending \in [Evals -> Nat] /\ pending[e] <= 1
      BY <1>t, <2>3 DEF TypeOK, SingleHolder
    <3> QED
      BY <2>1, <2>3, <3>1, SMT DEF IsPending
  <2>5. wpc'[w] = "popped" /\ weval'[w] = e
    BY <1>t, <2>1, <2>2 DEF TypeOK
  <2>6. \A v \in Workers \ {w} : wpc'[v] = wpc[v] /\ weval'[v] = weval[v]
    BY <1>t, <2>1, <2>2 DEF TypeOK
  <2>7. Status(e) = "queued" /\ Status(e)' = "leased"
    <3>1. ~IsPending(e)' /\ IsPopped(e)'
      BY <2>4, <2>5, SMT DEF IsPending, IsPopped
    <3> QED
      BY <2>2, <2>3, <3>1 DEF Status
  <2>8. \A f \in Evals \ {e} : SamePlace(f)
    BY <2>2, <2>4, <2>5, <2>6 DEF SamePlace, IsPending, IsPopped, IsUnacked
  <2>9. WQ!Lease(e)
    BY <2>3, <2>7, <2>8, OneMoves DEF WQ!Lease
  <2> QED
    BY <2>3, <2>9 DEF WQ!Next
<1>6. ASSUME NEW w \in Workers, Deliver(w) PROVE Goal
  <2>1. PICK e \in Evals : e = weval[w]
    BY <1>t, <1>6 DEF Deliver, WorkerOK, Holding
  <2>2. /\ wpc[w] = "popped" /\ wpc' = [wpc EXCEPT ![w] = "handling"]
        /\ unack' = [unack EXCEPT ![e] = delivered[e] + 1]
        /\ UNCHANGED <<pending, submitted, weval>>
    BY <1>6, <2>1 DEF Deliver
  <2>3. IsPopped(e) /\ IsUnacked(e)'
    <3>1. delivered[e] + 1 # NoToken /\ unack'[e] = delivered[e] + 1
      BY <1>t, <2>2, SMT DEF TypeOK, NoToken
    <3> QED
      BY <2>1, <2>2, <3>1 DEF IsPopped, IsUnacked
  <2>4. \A v \in Workers \ {w} : wpc'[v] = wpc[v]
    BY <1>t, <2>2 DEF TypeOK
  <2>5. wpc'[w] # "popped"
    BY <1>t, <2>2 DEF TypeOK
  <2>6. \A f \in Evals \ {e} : (IsPopped(f)' <=> IsPopped(f)) /\ (IsUnacked(f)' <=> IsUnacked(f))
    BY <1>t, <2>1, <2>2, <2>4, <2>5 DEF IsPopped, IsUnacked, TypeOK
  <2>7. \A f \in Evals : SamePlace(f)
    BY <2>2, <2>3, <2>6 DEF SamePlace, IsPending
  <2> QED
    BY <1>s, <2>7
<1>7. ASSUME NEW w \in Workers, wpc[w] \in {"ack", "nack"}, EvalDone(w)
      PROVE  \A f \in Evals : IsPopped(f)' <=> IsPopped(f)
  BY <1>t, <1>7 DEF EvalDone, IsPopped, TypeOK
<1>8. ASSUME NEW e \in Evals, NEW t \in Nat \ {NoToken}, Nack(e, t), UNCHANGED submitted,
             \A f \in Evals : IsPopped(f)' <=> IsPopped(f)
      PROVE  Goal
  <2>1. CASE UNCHANGED <<queued, unack, armed>>
    BY <1>8, <1>s, <2>1 DEF SamePlace, queued, IsPending, IsUnacked
  <2>2. CASE CloseDelivery(e, t) /\ GiveUpOrRetry(e)
    BY <1>t, <1>8, <2>2, NackMoves DEF GiveUpOrRetry
  <2> QED
    BY <1>8, <2>1, <2>2 DEF Nack
<1>9. ASSUME NEW w \in Workers, Ack(w) \/ WorkerNack(w) PROVE Goal
  <2>1. weval[w] \in Evals /\ wtoken[w] \in Nat \ {NoToken} /\ UNCHANGED submitted
    BY <1>t, <1>9 DEF Ack, WorkerNack, WorkerOK, TypeOK, Holding, Answering, history
  <2>2. \A f \in Evals : IsPopped(f)' <=> IsPopped(f)
    BY <1>7, <1>9 DEF Ack, WorkerNack
  <2>3. CASE Ack(w)
    BY <1>t, <2>1, <2>2, <2>3, NackMoves DEF Ack
  <2>4. CASE WorkerNack(w)
    BY <1>8, <2>1, <2>2, <2>4 DEF WorkerNack
  <2> QED
    BY <1>9, <2>3, <2>4
<1>10. ASSUME NEW e \in Evals, NEW t \in Tokens(e), TimerNack(e, t) PROVE Goal
  <2>1. t \in Nat \ {NoToken}
    BY <1>t, SMT DEF Tokens, NoToken, TypeOK
  <2>2. UNCHANGED submitted /\ \A f \in Evals : IsPopped(f)' <=> IsPopped(f)
    BY <1>10 DEF TimerNack, worker, history, IsPopped
  <2> QED
    BY <1>8, <1>10, <2>1, <2>2 DEF TimerNack
<1>11. CASE \/ \E e \in Evals : Duplicate(e) \/ \E t \in Tokens(e) : TimerFires(e, t)
            \/ Cancel
            \/ UNCHANGED vars
  BY <1>2, <1>11 DEF Duplicate, Enqueue, TimerFires, Cancel, vars, queued, worker, history
<1> QED
  BY <1>1, <1>4, <1>5, <1>6, <1>9, <1>10, <1>11 DEF Next, WorkerStep

\* The broker, with its maps, tokens, timers, channels and three-part Dequeue,
\* implements the work queue: an evaluation is queued, leased and settled, and
\* one that was not worked on to its end is only given up for one of its policy
\* that is at least as recent.
THEOREM BrokerIsWorkQueue == Spec => ImplementsWorkQueue
<1>1. Init => WQ!Init
  <2> SUFFICES ASSUME Init PROVE WQ!Init
    OBVIOUS
  <2>1. \A e \in Evals : Status(e) = "new"
    BY DEF Init, Status
  <2> QED
    BY <2>1 DEF WQ!Init
<1>2. TypeInv /\ HolderInv /\ IndexInv /\ [Next]_vars => [WQ!Next]_QueueStatus
  BY QueueStep
<1> QED
  BY <1>1, <1>2, TypeInvInit, TypeInvStep, HolderInit, HolderStep, IndexInit, IndexStep, PTL
     DEF Spec, ImplementsWorkQueue, WQ!Spec, QueueStatus

-----------------------------------------------------------------------------
(* The deliveries of an evaluation are bounded                             *)

SettledOlder(e) == {r \in Older(e) : Status(r) = "settled"}

\* What e has used of the limit since its counter started last.
Spent(e) == IF Status(e) = "settled" THEN DeliveryLimit ELSE Dequeues(e)

\* The counter of e starts again at the cost of an older evaluation.
DeliveriesInv ==
  \A e \in Evals : delivered[e] <= DeliveryLimit * Cardinality(SettledOlder(e)) + Spent(e)

\* What the work queue has settled stays settled.
LEMMA SettledForGood ==
  ASSUME TypeInv, HolderInv, IndexInv, [Next]_vars, NEW f \in Evals, Status(f) = "settled"
  PROVE  Status(f)' = "settled"
<1>1. QueueStatus[f] = "settled" /\ QueueStatus'[f] = Status(f)' /\ DOMAIN QueueStatus = Evals
  BY DEF QueueStatus
<1>2. CASE QueueStatus' = QueueStatus
  BY <1>1, <1>2
<1>3. ASSUME NEW e \in Evals, NEW to, QueueStatus[e] # "settled",
             QueueStatus' = [QueueStatus EXCEPT ![e] = to]
      PROVE  QueueStatus'[f] = "settled"
  BY <1>1, <1>3
<1>4. ASSUME NEW e \in Evals, NEW r \in Evals, QueueStatus[e] # "settled",
             QueueStatus' = [QueueStatus EXCEPT ![e] = "queued", ![r] = "settled"]
      PROVE  QueueStatus'[f] = "settled"
  BY <1>1, <1>4
<1>5. CASE WQ!Next
  <2>1. PICK e \in Evals : \/ WQ!Queue(e) \/ WQ!Lease(e) \/ WQ!Settle(e)
                           \/ \E r \in Evals : WQ!Replace(e, r) \/ WQ!Yield(e, r)
    BY <1>5 DEF WQ!Next
  <2>2. QueueStatus[e] # "settled"
    BY <2>1 DEF WQ!Queue, WQ!Lease, WQ!Settle, WQ!Replace, WQ!Yield, QueueStatus
  <2>3. \/ \E to \in {"queued", "leased", "settled"} : QueueStatus' = [QueueStatus EXCEPT ![e] = to]
        \/ \E r \in Evals : QueueStatus' = [QueueStatus EXCEPT ![e] = "queued", ![r] = "settled"]
    BY <2>1 DEF WQ!Queue, WQ!Lease, WQ!Settle, WQ!Replace, WQ!Yield, WQ!Move, QueueStatus
  <2> QED
    BY <1>1, <1>3, <1>4, <2>2, <2>3
<1> QED
  BY <1>2, <1>5, QueueStep

\* Dequeue counts the delivery, and counts it once.
LEMMA DeliveredStep ==
  ASSUME TypeInv, HolderInv, [Next]_vars, NEW f \in Evals, delivered'[f] # delivered[f]
  PROVE  /\ delivered'[f] = delivered[f] + 1
         /\ Dequeues(f)' = Dequeues(f) + 1
         /\ Status(f) = "leased"
<1>1. UNCHANGED delivered \/ \E w \in Workers : Deliver(w)
  BY DEF Next, WorkerStep, Submit, Duplicate, Enqueue, RunLoop, FindNothing, FindWork, WaitForWork,
     WakeUp, StopWaiting, HandlePolicy, Ack, AckFails, WorkerNack, TimerFires, TimerNack, Cancel,
     vars, history
<1>2. PICK w \in Workers : Deliver(w)
  BY <1>1
<1>3. weval[w] \in Evals /\ IsPopped(weval[w])
  BY <1>2 DEF Deliver, TypeInv, WorkerOK, Holding, IsPopped
<1>4. f = weval[w] /\ delivered'[f] = delivered[f] + 1
  BY <1>2, <1>3 DEF Deliver, TypeInv, TypeOK
<1>5. enqueuedEvals'[f] = Dequeues(f) + 1
  BY <1>2, <1>3, <1>4 DEF Deliver, TypeInv, TypeOK
<1>6. Dequeues(f)' = Dequeues(f) + 1
  <2>1. Dequeues(f) + 1 # Absent
    BY SMT DEF Dequeues, Absent, TypeInv, TypeOK
  <2> QED
    BY <1>5, <2>1 DEF Dequeues
<1>7. Status(f) = "leased"
  BY <1>3, <1>4 DEF Status, HolderInv, SingleHolder, HeldSubmitted, Present
<1> QED
  BY <1>4, <1>6, <1>7

\* The counter of f starts again when f takes the place of an older evaluation.
LEMMA CounterRestarts ==
  ASSUME TypeInv, HolderInv, IndexInv, [Next]_vars, NEW f \in Evals
  PROVE  \/ Dequeues(f)' >= Dequeues(f)
         \/ Status(f)' = "settled"
         \/ \E r \in Older(f) : Status(r) = "queued" /\ Status(r)' = "settled"
<1>t. TypeOK /\ WorkerOK /\ HeldSubmitted /\ SingleHolder /\ PolicyIndexOK /\ CountedSubmitted
  BY DEF TypeInv, HolderInv, IndexInv
<1> DEFINE Goal == \/ Dequeues(f)' >= Dequeues(f)
                   \/ Status(f)' = "settled"
                   \/ \E r \in Older(f) : Status(r) = "queued" /\ Status(r)' = "settled"
<1>n. Dequeues(f) \in Nat
  BY <1>t, SMT DEF Dequeues, TypeOK, Absent
<1>s. ASSUME enqueuedEvals'[f] = enqueuedEvals[f] \/ enqueuedEvals'[f] = Dequeues(f) PROVE Goal
  <2>1. Dequeues(f)' = Dequeues(f)
    BY <1>n, <1>s, <1>t, SMT DEF Dequeues, TypeOK, Absent
  <2> QED
    BY <1>n, <2>1, SMT
<1>1. ASSUME NEW e \in Evals, NEW t \in Nat \ {NoToken}, CloseDelivery(e, t),
             Forget(e) \/ EnqueueLocked(e),
             UNCHANGED submitted, \A g \in Evals : IsPopped(g)' <=> IsPopped(g)
      PROVE  Goal
  <2>1. /\ IsUnacked(e) /\ ~IsUnacked(e)'
        /\ \A g \in Evals \ {e} : IsUnacked(g)' <=> IsUnacked(g)
    BY <1>1, <1>t DEF CloseDelivery, IsUnacked, TypeOK
  <2>2. ~IsPending(e) /\ ~IsPopped(e) /\ e \in submitted
    BY <1>t, <2>1 DEF SingleHolder, HeldSubmitted, Present
  <2>3. CASE f # e
    <3>1. enqueuedEvals'[f] = enqueuedEvals[f]
      BY <1>1, <1>t, <2>3, EnqueueLockedIndex DEF Forget, TypeOK
    <3> QED
      BY <1>s, <3>1
  <2>4. CASE f = e /\ Forget(e)
    BY <1>1, <2>1, <2>2, <2>4 DEF Forget, Status, IsPending
  <2>5. CASE f = e /\ HasRival(e) /\ Supersede(e)
    <3>1. PICK r \in Evals \ {e} :
            /\ EvalPolicy[r] = EvalPolicy[e] /\ CreateTime[e] > CreateTime[r]
            /\ Status(r) = "queued" /\ Status(r)' = "settled"
      BY <1>1, <1>t, <2>1, <2>2, <2>5, SupersedeSettles
    <3>2. CreateTime[r] < CreateTime[e]
      <4>1. CreateTime[e] \in Int /\ CreateTime[r] \in Int
        OBVIOUS
      <4> QED
        BY <3>1, <4>1, SMT
    <3>3. r \in Older(f)
      BY <2>5, <3>1, <3>2 DEF Older
    <3> QED
      BY <3>1, <3>3
  <2>6. CASE f = e /\ (DropStale(e) \/ PushEval(e))
    BY <1>s, <1>t, <2>6 DEF DropStale, PushEval, TypeOK
  <2> QED
    BY <1>1, <2>3, <2>4, <2>5, <2>6 DEF EnqueueLocked
<1>2. ASSUME NEW e \in Evals, Submit(e) PROVE Goal
  <2>1. enqueuedEvals[e] = Absent /\ EnqueueLocked(e)
    BY <1>2, <1>t DEF Submit, Enqueue, CountedSubmitted
  <2>2. CASE f = e
    <3>1. Dequeues(f) = 0 /\ Dequeues(f)' \in Nat
      BY <2>1, <2>2, TypeInvStep, SMT DEF Dequeues, TypeInv, TypeOK, Absent
    <3> QED
      BY <3>1, SMT
  <2>3. CASE f # e
    BY <1>s, <1>t, <2>1, <2>3, EnqueueLockedIndex
  <2> QED
    BY <2>2, <2>3
<1>3. ASSUME NEW w \in Workers, Deliver(w) PROVE Goal
  <2>1. weval[w] \in Evals /\ enqueuedEvals' = [enqueuedEvals EXCEPT ![weval[w]] = Dequeues(weval[w]) + 1]
    BY <1>3, <1>t DEF Deliver, WorkerOK, Holding
  <2>2. CASE f = weval[w]
    <3>1. enqueuedEvals'[f] = Dequeues(f) + 1
      BY <1>t, <2>1, <2>2 DEF TypeOK
    <3> QED
      BY <1>n, <3>1, SMT DEF Dequeues, Absent
  <2>3. CASE f # weval[w]
    BY <1>s, <1>t, <2>1, <2>3 DEF TypeOK
  <2> QED
    BY <2>2, <2>3
<1>4. ASSUME NEW w \in Workers, Ack(w) \/ WorkerNack(w) PROVE Goal
  <2>1. weval[w] \in Evals /\ wtoken[w] \in Nat \ {NoToken} /\ UNCHANGED submitted
    BY <1>t, <1>4 DEF Ack, WorkerNack, WorkerOK, TypeOK, Holding, Answering, history
  <2>2. \A g \in Evals : IsPopped(g)' <=> IsPopped(g)
    BY <1>4, <1>t DEF Ack, WorkerNack, EvalDone, IsPopped, TypeOK
  <2> QED
    BY <1>1, <1>4, <1>s, <2>1, <2>2 DEF Ack, WorkerNack, Nack, GiveUpOrRetry, queued, indexes
<1>5. ASSUME NEW e \in Evals, NEW t \in Tokens(e), TimerNack(e, t) PROVE Goal
  <2>1. t \in Nat \ {NoToken}
    BY <1>t, SMT DEF Tokens, NoToken, TypeOK
  <2>2. UNCHANGED submitted /\ \A g \in Evals : IsPopped(g)' <=> IsPopped(g)
    BY <1>5 DEF TimerNack, worker, history, IsPopped
  <2> QED
    BY <1>1, <1>5, <1>s, <2>1, <2>2 DEF TimerNack, Nack, GiveUpOrRetry, queued, indexes
<1>6. CASE \/ \E e \in Evals : Duplicate(e) \/ \E t \in Tokens(e) : TimerFires(e, t)
           \/ \E w \in Workers :
                \/ RunLoop(w) \/ FindNothing(w) \/ FindWork(w) \/ WaitForWork(w) \/ WakeUp(w)
                \/ StopWaiting(w) \/ HandlePolicy(w) \/ AckFails(w)
           \/ Cancel
           \/ UNCHANGED vars
  <2>1. UNCHANGED enqueuedEvals
    BY <1>6 DEF Duplicate, Enqueue, TimerFires, RunLoop, FindNothing, FindWork, WaitForWork, WakeUp,
       StopWaiting, HandlePolicy, AckFails, Cancel, vars, queued, indexes
  <2> QED
    BY <1>s, <2>1
<1> QED
  BY <1>2, <1>3, <1>4, <1>5, <1>6 DEF Next, WorkerStep

LEMMA TimesMonotone ==
  ASSUME NEW l \in Nat, NEW a \in Nat, NEW b \in Nat, a <= b
  PROVE  l * a <= l * b /\ l * a \in Nat /\ l * b \in Nat
  BY SMT

LEMMA TimesOneMore == \A l, a \in Nat : l * (a + 1) = l * a + l
  BY SMT

\* The number of older evaluations that are settled grows with each one.
LEMMA SettledGrows ==
  ASSUME TypeInv, HolderInv, IndexInv, [Next]_vars, NEW f \in Evals, IsFiniteSet(Older(f))
  PROVE  /\ Cardinality(SettledOlder(f)) \in Nat /\ Cardinality(SettledOlder(f))' \in Nat
         /\ Cardinality(SettledOlder(f)) <= Cardinality(SettledOlder(f))'
         /\ (\E r \in Older(f) : Status(r) = "queued" /\ Status(r)' = "settled")
              => Cardinality(SettledOlder(f)) + 1 <= Cardinality(SettledOlder(f))'
<1>1. PICK S \in SUBSET Older(f) : S = SettledOlder(f)
  BY DEF SettledOlder
<1>2. PICK T \in SUBSET Older(f) : T = SettledOlder(f)'
  BY DEF SettledOlder, Older
<1>3. S \subseteq T
  BY <1>1, <1>2, SettledForGood DEF SettledOlder, Older
<1>4. IsFiniteSet(S) /\ IsFiniteSet(T)
  BY FS_Subset
<1>5. Cardinality(S) \in Nat /\ Cardinality(T) \in Nat /\ Cardinality(S) <= Cardinality(T)
  BY <1>3, <1>4, FS_Subset, FS_CardinalityType
<1>6. ASSUME NEW r \in Older(f), Status(r) = "queued", Status(r)' = "settled"
      PROVE  Cardinality(S) + 1 <= Cardinality(T)
  <2>1. r \notin S /\ S \union {r} \subseteq T
    BY <1>1, <1>2, <1>3, <1>6 DEF SettledOlder, Older
  <2>2. Cardinality(S \union {r}) = Cardinality(S) + 1
    BY <1>4, <2>1, FS_AddElement
  <2>3. Cardinality(S \union {r}) <= Cardinality(T)
    BY <1>4, <2>1, FS_Subset
  <2> QED
    BY <2>2, <2>3
<1>7. Cardinality(SettledOlder(f)) = Cardinality(S) /\ Cardinality(SettledOlder(f))' = Cardinality(T)
  BY <1>1, <1>2
<1> QED
  BY <1>5, <1>6, <1>7

LEMMA DeliveriesStep ==
  ASSUME TypeInv, HolderInv, IndexInv, CounterWithinLimit, DeliveriesInv, [Next]_vars,
         \A e \in Evals : IsFiniteSet(Older(e))
  PROVE  DeliveriesInv'
<1> SUFFICES ASSUME NEW f \in Evals
             PROVE  delivered'[f] <= DeliveryLimit * Cardinality(SettledOlder(f))' + Spent(f)'
  BY DEF DeliveriesInv
<1>l. DeliveryLimit \in Nat
  OBVIOUS
<1>t. TypeOK /\ TypeOK' /\ CounterWithinLimit'
  BY TypeInvStep, CounterStep DEF TypeInv
<1>1. /\ delivered[f] \in Nat /\ delivered'[f] \in Nat
      /\ Dequeues(f) \in 0 .. DeliveryLimit /\ Dequeues(f)' \in 0 .. DeliveryLimit
  <2>1. delivered[f] \in Nat /\ delivered'[f] \in Nat
    BY <1>t DEF TypeOK
  <2>2. enqueuedEvals[f] <= DeliveryLimit /\ enqueuedEvals'[f] <= DeliveryLimit
    BY <1>t DEF CounterWithinLimit
  <2>3. enqueuedEvals[f] \in Nat \union {Absent} /\ enqueuedEvals'[f] \in Nat \union {Absent}
    BY <1>t DEF TypeOK
  <2> QED
    BY <1>l, <2>1, <2>2, <2>3, SMT DEF Dequeues, Absent
<1>2. PICK m \in Nat, n \in Nat :
        /\ m = Cardinality(SettledOlder(f)) /\ n = Cardinality(SettledOlder(f))' /\ m <= n
        /\ (\E r \in Older(f) : Status(r) = "queued" /\ Status(r)' = "settled") => m + 1 <= n
  BY SettledGrows
<1>3. delivered[f] <= DeliveryLimit * m + Spent(f)
  BY <1>2 DEF DeliveriesInv
<1>4. DeliveryLimit * m <= DeliveryLimit * n /\ DeliveryLimit * m \in Nat /\ DeliveryLimit * n \in Nat
  BY <1>2, <1>l, TimesMonotone
<1>5. CASE delivered'[f] # delivered[f]
  <2>1. /\ delivered'[f] = delivered[f] + 1
        /\ Dequeues(f)' = Dequeues(f) + 1
        /\ Status(f) = "leased"
    BY <1>5, DeliveredStep
  <2>2. Spent(f) = Dequeues(f) /\ Spent(f)' >= Dequeues(f) + 1
    <3>1. Spent(f)' = DeliveryLimit \/ Spent(f)' = Dequeues(f)'
      BY DEF Spent
    <3>2. Spent(f) = Dequeues(f)
      BY <2>1 DEF Spent
    <3> QED
      BY <1>1, <1>l, <2>1, <3>1, <3>2, SMT
  <2>3. Spent(f)' \in Nat
    BY <1>1, <1>l, SMT DEF Spent
  <2> QED
    BY <1>1, <1>2, <1>3, <1>4, <2>1, <2>2, <2>3, SMT
<1>6. CASE delivered'[f] = delivered[f]
  <2>1. Spent(f) \in 0 .. DeliveryLimit
    BY <1>1, <1>l, SMT DEF Spent
  <2>2. CASE Status(f)' = "settled"
    <3>1. Spent(f)' = DeliveryLimit
      BY <2>2 DEF Spent
    <3> QED
      BY <1>1, <1>2, <1>3, <1>4, <1>6, <1>l, <2>1, <3>1, SMT
  <2>3. CASE Status(f)' # "settled"
    <3>1. Spent(f)' = Dequeues(f)' /\ Spent(f) = Dequeues(f)
      BY <2>3, SettledForGood DEF Spent
    <3>2. CASE Dequeues(f)' >= Dequeues(f)
      BY <1>1, <1>2, <1>3, <1>4, <1>6, <3>1, <3>2, SMT
    <3>3. CASE \E r \in Older(f) : Status(r) = "queued" /\ Status(r)' = "settled"
      <4>1. DeliveryLimit * (m + 1) <= DeliveryLimit * n
        <5>1. m + 1 \in Nat /\ m + 1 <= n
          BY <1>2, <3>3, SMT
        <5> QED
          BY <1>2, <1>l, <5>1, TimesMonotone
      <4>2. DeliveryLimit * m + DeliveryLimit <= DeliveryLimit * n
        BY <1>2, <1>l, <4>1, TimesOneMore
      <4> QED
        BY <1>1, <1>2, <1>3, <1>4, <1>6, <1>l, <3>1, <4>2, SMT
    <3> QED
      BY <2>3, <3>2, <3>3, CounterRestarts
  <2> QED
    BY <2>2, <2>3
<1> QED
  BY <1>5, <1>6

\* Nack and enqueueLocked: an evaluation is delivered at most DeliveryLimit times
\* for itself and for every older one of its policy that it can replace, however
\* often its counter starts again.
THEOREM DeliveriesLimited ==
  ASSUME \A e \in Evals : IsFiniteSet(Older(e))
  PROVE  Spec => []DeliveriesBounded
<1>1. Init => DeliveriesInv
  <2> SUFFICES ASSUME Init, NEW f \in Evals
               PROVE  delivered[f] <= DeliveryLimit * Cardinality(SettledOlder(f)) + Spent(f)
    BY DEF DeliveriesInv
  <2>1. delivered[f] = 0 /\ Dequeues(f) = 0 /\ Status(f) = "new"
    BY DEF Init, Dequeues, Status
  <2>2. SettledOlder(f) = {}
    BY DEF Init, SettledOlder, Older, Status
  <2>3. Cardinality(SettledOlder(f)) = 0
    BY <2>2, FS_EmptySet
  <2>4. Spent(f) = 0
    BY <2>1 DEF Spent
  <2> QED
    BY <2>1, <2>3, <2>4, SMT
<1>2. TypeInv /\ CounterWithinLimit /\ DeliveriesInv => DeliveriesBounded
  <2> SUFFICES ASSUME TypeInv, CounterWithinLimit, DeliveriesInv, NEW f \in Evals
               PROVE  delivered[f] <= DeliveryLimit * (1 + Cardinality(Older(f)))
    BY DEF DeliveriesBounded
  <2>l. DeliveryLimit \in Nat
    OBVIOUS
  <2>1. PICK m \in Nat, n \in Nat :
          m = Cardinality(SettledOlder(f)) /\ n = Cardinality(Older(f)) /\ m <= n
    <3>1. SettledOlder(f) \in SUBSET Older(f)
      BY DEF SettledOlder
    <3> QED
      BY <3>1, FS_Subset, FS_CardinalityType
  <2>2. Spent(f) \in Nat /\ Spent(f) <= DeliveryLimit /\ delivered[f] \in Nat
    BY <2>l, SMT DEF Spent, Dequeues, Absent, CounterWithinLimit, TypeInv, TypeOK
  <2>3. delivered[f] <= DeliveryLimit * m + Spent(f)
    BY <2>1 DEF DeliveriesInv
  <2>4. DeliveryLimit * m <= DeliveryLimit * n /\ DeliveryLimit * m \in Nat /\ DeliveryLimit * n \in Nat
    BY <2>1, <2>l, TimesMonotone
  <2>5. DeliveryLimit * (n + 1) = DeliveryLimit * n + DeliveryLimit /\ 1 + n = n + 1
    BY <2>1, <2>l, TimesOneMore, SMT
  <2> QED
    BY <2>1, <2>2, <2>3, <2>4, <2>5, <2>l, SMT
<1>3. TypeInv /\ HolderInv /\ IndexInv /\ CounterWithinLimit /\ DeliveriesInv /\ [Next]_vars
        => DeliveriesInv'
  BY DeliveriesStep
<1> QED
  BY <1>1, <1>2, <1>3, TypeInvInit, TypeInvStep, HolderInit, HolderStep, IndexInit, IndexStep,
     CounterInit, CounterStep, PTL DEF Spec

=============================================================================
