----------------------------- MODULE EvalBroker -----------------------------
(***************************************************************************)
(* The evaluation broker (policyeval/broker.go) and the worker loop that   *)
(* feeds on it (BaseWorker.Run in policyeval/base_worker.go).              *)
(*                                                                         *)
(* Every section of the code that runs under the broker's mutex is one     *)
(* action.  Dequeue holds the mutex three separate times (findWork,        *)
(* waitForWork and its own tail), so it is three actions, and other        *)
(* goroutines may run between them.                                        *)
(*                                                                         *)
(* An evaluation is a member of Evals; the fields the broker reads (policy *)
(* ID, policy type, priority, creation time) are constant functions of it. *)
(* A token is an UUID that is only ever compared with tokens of the same   *)
(* evaluation, so the n-th delivery of an evaluation has token n.          *)
(***************************************************************************)
EXTENDS Integers, FiniteSets

CONSTANTS
  Evals,          \* evaluations (values of eval.ID)
  Policies,       \* values of eval.Policy.ID
  Queues,         \* values of eval.Policy.Type
  Workers,        \* BaseWorkers
  EvalPolicy,     \* eval.Policy.ID, for each evaluation
  EvalQueue,      \* eval.Policy.Type
  EvalPriority,   \* eval.Policy.Priority
  CreateTime,     \* eval.CreateTime
  WorkerQueue,    \* the queue a worker dequeues from
  DeliveryLimit,  \* Broker.deliveryLimit
  None            \* no evaluation

ASSUME ConstantTypes ==
  /\ EvalPolicy \in [Evals -> Policies]
  /\ EvalQueue \in [Evals -> Queues]
  /\ EvalPriority \in [Evals -> Int]
  /\ CreateTime \in [Evals -> Int]
  /\ WorkerQueue \in [Workers -> Queues]
  /\ None \notin Evals

\* PolicyEval.validate refuses a delivery_limit of zero or less.
ASSUME LimitAssumption == DeliveryLimit \in Nat \ {0}

VARIABLES
  heaps,            \* DOMAIN b.pendingEvals
  pending,          \* b.pendingEvals: how often each evaluation is in its queue's heap
  waiting,          \* b.waiting: each channel's buffer (capacity one)
  enqueuedEvals,    \* b.enqueuedEvals: delivery counter, or Absent
  enqueuedPolicies, \* b.enqueuedPolicies: an evaluation, or None
  unack,            \* b.unack: the token of the current delivery, or NoToken
  armed,            \* <<evaluation, token>> of nack timers still running
  fired,            \* ... of expired timers whose callback has not run yet
  delivered,        \* history: deliveries of each evaluation so far
  submitted,        \* history: evaluations passed to Enqueue so far
  wpc, weval, wtoken, \* each worker: where it is, its evaluation and token
  ctxDone           \* the agent's context is cancelled

indexes == <<enqueuedEvals, enqueuedPolicies>>
queued == <<heaps, pending, waiting, indexes>>
timers == <<armed, fired>>
worker == <<wpc, weval, wtoken>>
history == <<delivered, submitted>>
vars == <<queued, unack, timers, history, worker, ctxDone>>

Absent == -1
NoToken == 0

WorkerStates ==
  {"loop", "find", "await", "parked", "popped", "handling", "ack", "nack", "stopped"}

-----------------------------------------------------------------------------
(* State of a fresh broker with its workers about to start.                *)
Init ==
  /\ heaps = {}
  /\ pending = [e \in Evals |-> 0]
  /\ waiting = [q \in Queues |-> "nil"]
  /\ enqueuedEvals = [e \in Evals |-> Absent]
  /\ enqueuedPolicies = [p \in Policies |-> None]
  /\ unack = [e \in Evals |-> NoToken]
  /\ armed = {}
  /\ fired = {}
  /\ delivered = [e \in Evals |-> 0]
  /\ submitted = {}
  /\ wpc = [w \in Workers |-> "loop"]
  /\ weval = [w \in Workers |-> None]
  /\ wtoken = [w \in Workers |-> NoToken]
  /\ ctxDone = FALSE

\* Reading a missing key of the counter map gives zero.
Dequeues(e) == IF enqueuedEvals[e] = Absent THEN 0 ELSE enqueuedEvals[e]

-----------------------------------------------------------------------------
(* enqueueLocked                                                           *)

Indexed(e) == enqueuedPolicies[EvalPolicy[e]]

\* Another evaluation is indexed for e's policy, and it is found in the heap e
\* would go to.
HasRival(e) ==
  /\ Indexed(e) \notin {None, e}
  /\ EvalQueue[Indexed(e)] = EvalQueue[e]
  /\ pending[Indexed(e)] > 0

\* e takes its rival's place in the heap and in the policy index. The counter
\* that is deleted is that of e itself.
Swap(e) ==
  /\ pending' = [pending EXCEPT ![Indexed(e)] = @ - 1, ![e] = @ + 1]
  /\ enqueuedPolicies' = [enqueuedPolicies EXCEPT ![EvalPolicy[e]] = e]
  /\ enqueuedEvals' = [enqueuedEvals EXCEPT ![e] = Absent]
  /\ UNCHANGED <<heaps, waiting>>

\* Faulty variant: the comparison of creation times is the wrong way round.
SupersedeByOlder(e) == CreateTime[e] < CreateTime[Indexed(e)] /\ Swap(e)

\* The rival is older.
Supersede(e) == CreateTime[e] > CreateTime[Indexed(e)] /\ Swap(e)

\* The rival is not older: e is forgotten, but for its delivery counter.
DropStale(e) ==
  /\ ~(CreateTime[e] > CreateTime[Indexed(e)])
  /\ enqueuedEvals' = [enqueuedEvals EXCEPT ![e] = Dequeues(e)]
  /\ UNCHANGED <<heaps, pending, waiting, enqueuedPolicies>>

\* Faulty variant: signals before the channel is created.
UnblockTooEarly(q) ==
  waiting' = [waiting EXCEPT ![q] = IF @ = "nil" THEN "empty" ELSE "full"]

\* A non-blocking send on the queue's channel, which is created together with
\* the heap if no worker has created it before.
Unblock(q) ==
  waiting' = [waiting EXCEPT ![q] = IF q \in heaps /\ @ = "nil" THEN "nil" ELSE "full"]

PushEval(e) ==
  LET q == EvalQueue[e]
      p == EvalPolicy[e]
  IN  /\ enqueuedEvals' = [enqueuedEvals EXCEPT ![e] = Dequeues(e)]
      /\ enqueuedPolicies' =
           [enqueuedPolicies EXCEPT ![p] = IF @ = None THEN e ELSE @]
      /\ pending' = [pending EXCEPT ![e] = @ + 1]
      /\ Unblock(q)
      /\ heaps' = heaps \union {q}

EnqueueLocked(e) ==
  \/ HasRival(e) /\ Supersede(e)
  \/ HasRival(e) /\ DropStale(e)
  \/ ~HasRival(e) /\ PushEval(e)

\* Faulty variant: enqueues an evaluation it already knows.
EnqueueAgain(e) ==
  /\ EnqueueLocked(e)
  /\ submitted' = submitted \union {e}
  /\ UNCHANGED <<unack, timers, delivered, worker, ctxDone>>

\* Broker.Enqueue: the empty token makes a known evaluation a no-op.
Enqueue(e) ==
  /\ \/ enqueuedEvals[e] # Absent /\ UNCHANGED queued
     \/ enqueuedEvals[e] = Absent /\ EnqueueLocked(e)
  /\ submitted' = submitted \union {e}
  /\ UNCHANGED <<unack, timers, delivered, worker, ctxDone>>

-----------------------------------------------------------------------------
(* Dequeue, one action for each time it takes the mutex                    *)

\* PendingEvaluations.Less: higher priority first, then the older one.
Less(e, f) ==
  \/ EvalPriority[e] > EvalPriority[f]
  \/ EvalPriority[e] = EvalPriority[f] /\ CreateTime[e] < CreateTime[f]

Heap(q) == {e \in Evals : EvalQueue[e] = q /\ pending[e] > 0}

\* Faulty variant: pops from the heap without looking at its length.
HeadsUnchecked(q) ==
  {e \in Evals : EvalQueue[e] = q /\ \A f \in Heap(q) : ~Less(f, e)}

\* What heap.Pop may return: an evaluation no other one in the heap precedes.
Heads(q) == {e \in Heap(q) : \A f \in Heap(q) : ~Less(f, e)}

\* BaseWorker.Run: the test of the context before each Dequeue.
RunLoop(w) ==
  /\ wpc[w] = "loop"
  /\ wpc' = [wpc EXCEPT ![w] = IF ctxDone THEN "stopped" ELSE "find"]
  /\ UNCHANGED <<queued, unack, timers, history, weval, wtoken, ctxDone>>

FindNothing(w) ==
  /\ wpc[w] = "find"
  /\ Heap(WorkerQueue[w]) = {}
  /\ wpc' = [wpc EXCEPT ![w] = "await"]
  /\ UNCHANGED <<queued, unack, timers, history, weval, wtoken, ctxDone>>

FindWork(w) ==
  /\ wpc[w] = "find"
  /\ \E e \in Heads(WorkerQueue[w]) :
       /\ pending' = [pending EXCEPT ![e] = @ - 1]
       /\ weval' = [weval EXCEPT ![w] = e]
  /\ wpc' = [wpc EXCEPT ![w] = "popped"]
  /\ UNCHANGED <<heaps, waiting, indexes, unack, timers, history, wtoken, ctxDone>>

\* Faulty variant: every wait starts with a channel of its own.
WaitOnNewChannel(w) ==
  /\ wpc[w] = "await"
  /\ waiting' = [waiting EXCEPT ![WorkerQueue[w]] = "empty"]
  /\ wpc' = [wpc EXCEPT ![w] = "parked"]
  /\ UNCHANGED <<heaps, pending, indexes, unack, timers, history, weval, wtoken, ctxDone>>

\* waitForWork up to its select.
WaitForWork(w) ==
  /\ wpc[w] = "await"
  /\ waiting' = [waiting EXCEPT ![WorkerQueue[w]] = IF @ = "nil" THEN "empty" ELSE @]
  /\ wpc' = [wpc EXCEPT ![w] = "parked"]
  /\ UNCHANGED <<heaps, pending, indexes, unack, timers, history, weval, wtoken, ctxDone>>

\* The select of waitForWork: a value on the channel ...
WakeUp(w) ==
  /\ wpc[w] = "parked"
  /\ waiting[WorkerQueue[w]] = "full"
  /\ waiting' = [waiting EXCEPT ![WorkerQueue[w]] = "empty"]
  /\ wpc' = [wpc EXCEPT ![w] = "find"]
  /\ UNCHANGED <<heaps, pending, indexes, unack, timers, history, weval, wtoken, ctxDone>>

\* ... or the cancelled context: Dequeue returns no evaluation.
StopWaiting(w) ==
  /\ wpc[w] = "parked"
  /\ ctxDone
  /\ wpc' = [wpc EXCEPT ![w] = "loop"]
  /\ UNCHANGED <<queued, unack, timers, history, weval, wtoken, ctxDone>>

\* The tail of Dequeue: a fresh token, the nack timer, the unack entry and the
\* delivery counter.
Deliver(w) ==
  LET e == weval[w]
      t == delivered[e] + 1
  IN  /\ wpc[w] = "popped"
      /\ armed' = armed \union {<<e, t>>}
      /\ unack' = [unack EXCEPT ![e] = t]
      /\ enqueuedEvals' = [enqueuedEvals EXCEPT ![e] = Dequeues(e) + 1]
      /\ delivered' = [delivered EXCEPT ![e] = t]
      /\ wtoken' = [wtoken EXCEPT ![w] = t]
      /\ wpc' = [wpc EXCEPT ![w] = "handling"]
      /\ UNCHANGED <<heaps, pending, waiting, enqueuedPolicies, fired, submitted,
                     weval, ctxDone>>

\* handlePolicy returns, with or without an error.
HandlePolicy(w) ==
  /\ wpc[w] = "handling"
  /\ \E r \in {"ack", "nack"} : wpc' = [wpc EXCEPT ![w] = r]
  /\ UNCHANGED <<queued, unack, timers, history, weval, wtoken, ctxDone>>

-----------------------------------------------------------------------------
(* Ack, Nack and the nack timer                                            *)

Forget(e) ==
  /\ enqueuedEvals' = [enqueuedEvals EXCEPT ![e] = Absent]
  /\ enqueuedPolicies' = [enqueuedPolicies EXCEPT ![EvalPolicy[e]] = None]
  /\ UNCHANGED <<heaps, pending, waiting>>

\* The worker goes round its loop; its local variables go out of scope.
EvalDone(w) ==
  /\ wpc' = [wpc EXCEPT ![w] = "loop"]
  /\ weval' = [weval EXCEPT ![w] = None]
  /\ wtoken' = [wtoken EXCEPT ![w] = NoToken]

\* The token is current: the timer is stopped and the entry deleted.
CloseDelivery(e, t) ==
  /\ unack[e] = t
  /\ armed' = armed \ {<<e, t>>}
  /\ unack' = [unack EXCEPT ![e] = NoToken]

\* The entry is there, the token is its token and the timer could be stopped.
Ack(w) ==
  /\ wpc[w] = "ack"
  /\ <<weval[w], wtoken[w]>> \in armed
  /\ CloseDelivery(weval[w], wtoken[w])
  /\ Forget(weval[w])
  /\ EvalDone(w)
  /\ UNCHANGED <<fired, history, ctxDone>>

\* Faulty variant: stops the timer of the entry before it compares the tokens.
AckStopsTimerFirst(w) ==
  LET e == weval[w]
  IN  /\ wpc[w] = "ack"
      /\ unack[e] # wtoken[w] \/ <<e, wtoken[w]>> \notin armed
      /\ armed' = armed \ {<<e, unack[e]>>}
      /\ EvalDone(w)
      /\ UNCHANGED <<queued, unack, fired, history, ctxDone>>

\* Every other Ack returns an error and changes nothing.
AckFails(w) ==
  /\ wpc[w] = "ack"
  /\ unack[weval[w]] # wtoken[w] \/ <<weval[w], wtoken[w]>> \notin armed
  /\ EvalDone(w)
  /\ UNCHANGED <<queued, unack, timers, history, ctxDone>>

\* Faulty variant: one delivery too many.
GiveUpOrRetryOffByOne(e) ==
  \/ Dequeues(e) > DeliveryLimit /\ Forget(e)
  \/ Dequeues(e) <= DeliveryLimit /\ EnqueueLocked(e)

GiveUpOrRetry(e) ==
  \/ Dequeues(e) >= DeliveryLimit /\ Forget(e)
  \/ Dequeues(e) < DeliveryLimit /\ EnqueueLocked(e)

\* Faulty variant: the entry is kept when the evaluation is given up.
NackKeepsFailed(e, t) ==
  \/ unack[e] # t /\ UNCHANGED <<queued, unack, armed>>
  \/ Dequeues(e) < DeliveryLimit /\ CloseDelivery(e, t) /\ EnqueueLocked(e)
  \/ /\ Dequeues(e) >= DeliveryLimit
     /\ unack[e] = t
     /\ armed' = armed \ {<<e, t>>}
     /\ Forget(e)
     /\ UNCHANGED unack

\* Broker.Nack, but for the timer's own bookkeeping in "fired".
Nack(e, t) ==
  \/ unack[e] # t /\ UNCHANGED <<queued, unack, armed>>
  \/ CloseDelivery(e, t) /\ GiveUpOrRetry(e)

WorkerNack(w) ==
  /\ wpc[w] = "nack"
  /\ Nack(weval[w], wtoken[w])
  /\ EvalDone(w)
  /\ UNCHANGED <<fired, history, ctxDone>>

\* The nack timeout elapses; the callback runs in a goroutine of its own and
\* still has to take the mutex.
TimerFires(e, t) ==
  /\ <<e, t>> \in armed
  /\ armed' = armed \ {<<e, t>>}
  /\ fired' = fired \union {<<e, t>>}
  /\ UNCHANGED <<queued, unack, history, worker, ctxDone>>

TimerNack(e, t) ==
  /\ <<e, t>> \in fired
  /\ Nack(e, t)
  /\ fired' = fired \ {<<e, t>>}
  /\ UNCHANGED <<history, worker, ctxDone>>

Cancel ==
  /\ ~ctxDone
  /\ ctxDone' = TRUE
  /\ UNCHANGED <<queued, unack, timers, history, worker>>

-----------------------------------------------------------------------------
\* Agent.runEvalHandler hands each evaluation it receives to the broker; every
\* evaluation is received once.
Submit(e) == e \notin submitted /\ Enqueue(e)

\* A caller enqueues an evaluation a second time while its ID is still indexed.
Duplicate(e) == e \in submitted /\ enqueuedEvals[e] # Absent /\ Enqueue(e)

WorkerStep(w) ==
  \/ RunLoop(w)
  \/ FindNothing(w)
  \/ FindWork(w)
  \/ WaitForWork(w)
  \/ WakeUp(w)
  \/ StopWaiting(w)
  \/ Deliver(w)
  \/ HandlePolicy(w)
  \/ Ack(w)
  \/ AckFails(w)
  \/ WorkerNack(w)

\* The tokens given out for e so far.
Tokens(e) == 1 .. delivered[e]

Next ==
  \/ \E e \in Evals : Submit(e) \/ Duplicate(e)
  \/ \E w \in Workers : WorkerStep(w)
  \/ \E e \in Evals : \E t \in Tokens(e) : TimerFires(e, t) \/ TimerNack(e, t)
  \/ Cancel

Spec == Init /\ [][Next]_vars

-----------------------------------------------------------------------------
(* Properties                                                              *)

TypeOK ==
  /\ heaps \subseteq Queues
  /\ pending \in [Evals -> Nat]
  /\ waiting \in [Queues -> {"nil", "empty", "full"}]
  /\ enqueuedEvals \in [Evals -> Nat \union {Absent}]
  /\ enqueuedPolicies \in [Policies -> Evals \union {None}]
  /\ unack \in [Evals -> Nat]
  /\ armed \subseteq Evals \X Nat
  /\ fired \subseteq Evals \X Nat
  /\ delivered \in [Evals -> Nat]
  /\ submitted \subseteq Evals
  /\ wpc \in [Workers -> WorkerStates]
  /\ weval \in [Workers -> Evals \union {None}]
  /\ wtoken \in [Workers -> Nat]
  /\ ctxDone \in BOOLEAN

IsPending(e) == pending[e] > 0
IsPopped(e) == \E w \in Workers : wpc[w] = "popped" /\ weval[w] = e
IsUnacked(e) == unack[e] # NoToken

\* Some part of the broker, or a Dequeue in progress, still holds e.
Present(e) == IsPending(e) \/ IsPopped(e) \/ IsUnacked(e)

\* Broker doc: "evals are either in pendingEvals or unack, but never in both".
\* An evaluation handed to Enqueue once is never in two places, counting the
\* gap between findWork and the rest of Dequeue, when it is in neither map;
\* so no two workers can hold a valid token for it.
SingleHolder ==
  \A e \in Evals :
    /\ pending[e] <= 1
    /\ IsPending(e) => ~IsPopped(e) /\ ~IsUnacked(e)
    /\ IsPopped(e) => ~IsUnacked(e)
    /\ \A v, w \in Workers :
         wpc[v] = "popped" /\ wpc[w] = "popped" /\ weval[v] = e /\ weval[w] = e => v = w

\* Ack and Nack compare tokens: the token the broker accepts is always the one
\* of the latest delivery, and a delivery that is still open always has a nack
\* timer that is running, or has expired and is about to return it.  A worker
\* that answers late can therefore not settle a later delivery, and a worker
\* that never answers cannot keep an evaluation for ever.
OpenDeliveryHasTimer ==
  \A e \in Evals : IsUnacked(e) =>
    /\ unack[e] = delivered[e]
    /\ <<e, unack[e]>> \in armed \union fired

\* The delivery counter of enqueuedEvals: an evaluation that is waiting for a
\* delivery has not used up the limit, and the counter never exceeds it.
CounterWithinLimit ==
  \A e \in Evals :
    /\ enqueuedEvals[e] <= DeliveryLimit
    /\ IsPending(e) \/ IsPopped(e) => Dequeues(e) < DeliveryLimit
    /\ IsUnacked(e) => Dequeues(e) >= 1

\* The evaluations of e's policy that e may replace in the heap.
Older(e) == {r \in Evals : EvalPolicy[r] = EvalPolicy[e] /\ CreateTime[r] < CreateTime[e]}

\* enqueueLocked and Nack: the counter of an evaluation starts again only when it
\* replaces an older one of its policy, so its deliveries are bounded by the limit
\* and the number of those.
DeliveriesBounded ==
  \A e \in Evals : delivered[e] <= DeliveryLimit * (1 + Cardinality(Older(e)))

\* enqueueLocked wakes a blocked Dequeue through a channel of capacity one and
\* drops the signal when the channel is full: even so, work in a queue is never
\* overlooked. Either a signal is waiting, or a worker of that queue is not
\* blocked and will look at the heap again.
WakeUpNotLost ==
  \A q \in Queues :
    Heap(q) # {} /\ ~ctxDone =>
      \/ waiting[q] = "full"
      \/ \E w \in Workers :
           WorkerQueue[w] = q /\ wpc[w] \notin {"await", "parked", "stopped"}

\* The heap holds another evaluation of e's policy that is at least as recent.
Superseded(e) ==
  \E f \in Evals : f # e /\ EvalPolicy[f] = EvalPolicy[e] /\ CreateTime[f] >= CreateTime[e] /\ IsPending(f)

\* A step after which the broker no longer holds e.
Leaves(e) == (Present(e) \/ e \notin submitted) /\ e \in submitted' /\ ~Present(e)'

\* A worker acknowledges e with its current token.
Acknowledges(w, e) ==
  wpc[w] = "ack" /\ weval[w] = e /\ wtoken[w] = unack[e] /\ wpc'[w] = "loop"

\* enqueueLocked, Nack: an evaluation leaves the broker only when it is
\* acknowledged by the worker holding its current token, when its deliveries
\* are used up, or when the heap keeps one for the same policy that is at least
\* as recent; the broker never loses the last request to evaluate a policy.
NoSilentDrop ==
  [][\A e \in Evals : Leaves(e) =>
       \/ \E w \in Workers : Acknowledges(w, e)
       \/ IsUnacked(e) /\ Dequeues(e) >= DeliveryLimit
       \/ Superseded(e)']_vars

\* Where an evaluation is, as a user of the broker sees it.
Status(e) ==
  IF e \notin submitted THEN "new"
  ELSE IF IsPending(e) THEN "queued"
  ELSE IF IsPopped(e) \/ IsUnacked(e) THEN "leased"
  ELSE "settled"

WQ == INSTANCE WorkQueue WITH status <- [e \in Evals |-> Status(e)]

\* The broker, with all its maps, tokens, timers and partial dequeues, behaves
\* as the work queue of WorkQueue.tla.
ImplementsWorkQueue == WQ!Spec

\* Goroutines are scheduled and timers expire. Nothing bounds the time a worker
\* spends in handlePolicy, so it is not assumed to return.
Fairness ==
  /\ \A w \in Workers : WF_vars(WorkerStep(w) /\ wpc[w] # "handling")
  /\ \A e \in Evals : WF_vars(\E t \in Tokens(e) : TimerFires(e, t))
  /\ \A e \in Evals : WF_vars(\E t \in Tokens(e) : TimerNack(e, t))

FairSpec == Spec /\ Fairness

\* Dequeue's nack timer: an evaluation a worker holds becomes available again,
\* or is given up, even if that worker is stuck in handlePolicy for ever.
DeliveryCloses == \A e \in Evals : IsUnacked(e) ~> ~IsUnacked(e)

\* As long as workers return from handlePolicy and the agent is not stopped, every
\* evaluation given to Enqueue is eventually settled (acknowledged, given up at
\* the delivery limit or superseded), however Ack, Nack and the timers race.
EventuallySettled ==
  (\A w \in Workers : []<>(wpc[w] # "handling"))
    => \A e \in Evals : (e \in submitted) ~> (~Present(e) \/ ctxDone)

=============================================================================
