------------------------- MODULE NomadTargetProofs --------------------------
(***************************************************************************)
(* What holds of the status cache of the Nomad target for any set of jobs  *)
(* and any set of callers.                                                 *)
(*                                                                         *)
(* NoLeakedLoop is not inductive: between `go start()` and the first line  *)
(* of start a handler has a goroutine and isRunning is still false, which  *)
(* is when the garbage collector would remove it and a second Status would *)
(* start it again.  What rules both out is the lock, which the Status that *)
(* started the handler still holds: OneInside and StarterInside.           *)
(***************************************************************************)
EXTENDS NomadTarget, TLAPS

\* statusHandlersLock has at most one holder.
OneInside == \A c, d \in Callers : caller[c] # "out" /\ caller[d] # "out" => c = d

\* The caller that started a goroutine waits for it until it has begun.
StarterInside ==
  \A j \in Jobs : loop[j] = "begin" => \E c \in Callers : caller[c] = "wait" /\ asked[c] = j

IInv == TypeOK /\ OneInside /\ StarterInside /\ NoLeakedLoop /\ CacheIsRefreshed

USE DEF fields, calls, LockFree, LoopAt

\* A new process has no handlers: every part of the invariant holds.
LEMMA InitEstablishes == Init => IInv
<1> SUFFICES ASSUME Init PROVE IInv
  OBVIOUS
<1>1. TypeOK
  <2>1. job \in [Jobs -> BOOLEAN]
    BY DEF Init
  <2> QED  BY <2>1 DEF Init, TypeOK
<1> QED
  BY <1>1 DEF Init, IInv, OneInside, StarterInside, NoLeakedLoop, CacheIsRefreshed

\* The steps of Status: taking the lock with or without a start, and returning.
LEMMA StatusSteps ==
  ASSUME IInv, NEW c \in Callers, NEW j \in Jobs,
         StatusStarts(c, j) \/ StatusCached(c, j) \/ ReadError(c) \/ ReadStatus(c)
  PROVE  IInv'
<1> USE DEF IInv
<1>1. CASE StatusStarts(c, j)
  <2> USE <1>1 DEF StatusStarts, Enter
  <2>1. TypeOK'  BY Zenon DEF TypeOK
  <2>2. OneInside'  BY DEF OneInside, TypeOK
  <2>3. StarterInside'  BY DEF StarterInside, TypeOK
  <2>4. NoLeakedLoop'  BY DEF NoLeakedLoop, TypeOK
  <2>5. CacheIsRefreshed'  BY DEF CacheIsRefreshed, TypeOK
  <2> QED  BY <2>1, <2>2, <2>3, <2>4, <2>5
<1>2. CASE StatusCached(c, j)
  <2> USE <1>2 DEF StatusCached, Enter
  <2>1. TypeOK'  BY DEF TypeOK
  <2>2. OneInside'  BY DEF OneInside, TypeOK
  <2>3. StarterInside'  BY DEF StarterInside, TypeOK
  <2>4. NoLeakedLoop' /\ CacheIsRefreshed'  BY DEF NoLeakedLoop, CacheIsRefreshed, TypeOK
  <2> QED  BY <2>1, <2>2, <2>3, <2>4
<1>3. CASE ReadError(c) \/ ReadStatus(c)
  <2> USE <1>3 DEF ReadError, ReadStatus, Answer
  <2>1. TypeOK'  BY DEF TypeOK
  <2>2. OneInside'  BY DEF OneInside, TypeOK
  <2>3. StarterInside'  BY DEF StarterInside, TypeOK
  <2>4. NoLeakedLoop' /\ CacheIsRefreshed'  BY DEF NoLeakedLoop, CacheIsRefreshed
  <2> QED  BY <2>1, <2>2, <2>3, <2>4
<1> QED  BY <1>1, <1>2, <1>3

\* The steps of the goroutine of a handler.
LEMMA LoopSteps ==
  ASSUME IInv, NEW j \in Jobs,
         Poll(j) \/ \E c \in Callers : InitialDone(c, j)
  PROVE  IInv'
<1> USE DEF IInv
<1>1. CASE LoopBegins(j)
  <2> USE <1>1 DEF LoopBegins
  <2>1. TypeOK'  BY DEF TypeOK
  <2>2. OneInside' /\ StarterInside'  BY DEF OneInside, StarterInside, TypeOK
  <2>3. NoLeakedLoop' /\ CacheIsRefreshed'  BY DEF NoLeakedLoop, CacheIsRefreshed, TypeOK
  <2> QED  BY <2>1, <2>2, <2>3
<1>2. CASE NotFound(j) \/ setStopState(j)
  <2> USE <1>2 DEF NotFound, setStopState
  <2>1. TypeOK'  BY Zenon DEF TypeOK
  <2>2. OneInside' /\ StarterInside'  BY DEF OneInside, StarterInside, TypeOK
  <2>3. NoLeakedLoop' /\ CacheIsRefreshed'  BY DEF NoLeakedLoop, CacheIsRefreshed, TypeOK
  <2> QED  BY <2>1, <2>2, <2>3
<1>3. CASE ApiError(j) \/ WriteError(j)
  <2> USE <1>3 DEF ApiError, WriteError
  <2>1. TypeOK'  BY Zenon DEF TypeOK
  <2>2. OneInside' /\ StarterInside'  BY DEF OneInside, StarterInside, TypeOK
  <2>3. NoLeakedLoop' /\ CacheIsRefreshed'  BY DEF NoLeakedLoop, CacheIsRefreshed, TypeOK
  <2> QED  BY <2>1, <2>2, <2>3
<1>4. CASE NewStatus(j) \/ ClearError(j)
  <2> USE <1>4 DEF NewStatus, ClearError
  <2>1. TypeOK'  BY Zenon DEF TypeOK
  <2>2. OneInside' /\ StarterInside'  BY DEF OneInside, StarterInside, TypeOK
  <2>3. NoLeakedLoop' /\ CacheIsRefreshed'  BY DEF NoLeakedLoop, CacheIsRefreshed, TypeOK
  <2> QED  BY <2>1, <2>2, <2>3
<1>5. ASSUME NEW c \in Callers, InitialDone(c, j) PROVE IInv'
  <2> USE <1>5 DEF InitialDone
  <2>1. TypeOK'  BY DEF TypeOK
  <2>2. OneInside'  BY DEF OneInside, TypeOK
  <2>3. StarterInside'  BY DEF OneInside, StarterInside, TypeOK
  <2>4. NoLeakedLoop' /\ CacheIsRefreshed'  BY DEF NoLeakedLoop, CacheIsRefreshed, TypeOK
  <2> QED  BY <2>1, <2>2, <2>3, <2>4
<1> QED  BY <1>1, <1>2, <1>3, <1>4, <1>5 DEF Poll

\* Every step of the plugin and of the cluster keeps the invariant.
LEMMA NextPreserves == IInv /\ [Next]_vars => IInv'
<1> SUFFICES ASSUME IInv, [Next]_vars PROVE IInv'
  OBVIOUS
<1>1. ASSUME NEW c \in Callers, NEW j \in Jobs,
             StatusStarts(c, j) \/ StatusCached(c, j) \/ ReadError(c) \/ ReadStatus(c)
      PROVE  IInv'
  BY <1>1, StatusSteps
<1>2. ASSUME NEW j \in Jobs, Poll(j) \/ \E c \in Callers : InitialDone(c, j) PROVE IInv'
  BY <1>2, LoopSteps
<1>3. ASSUME NEW c \in Callers, ReadError(c) \/ ReadStatus(c) PROVE IInv'
  <2>1. asked[c] \in Jobs  BY DEF IInv, TypeOK
  <2> QED  BY <1>3, <2>1, StatusSteps
<1>4. ASSUME NEW j \in Jobs, JobChanges(j) PROVE IInv'
  BY <1>4 DEF JobChanges, IInv, TypeOK, OneInside, StarterInside, NoLeakedLoop, CacheIsRefreshed
<1>5. ASSUME NEW old \in SUBSET Jobs, garbageCollect(old) PROVE IInv'
  <2> USE <1>5 DEF garbageCollect, IInv
  <2>1. TypeOK'  BY DEF TypeOK
  <2>2. OneInside' /\ StarterInside'  BY DEF OneInside, StarterInside
  <2>3. NoLeakedLoop'  BY DEF NoLeakedLoop, StarterInside
  <2>4. CacheIsRefreshed'  BY DEF CacheIsRefreshed
  <2> QED  BY <2>1, <2>2, <2>3, <2>4
<1>6. CASE UNCHANGED vars
  BY <1>6 DEF vars, IInv, TypeOK, OneInside, StarterInside, NoLeakedLoop, CacheIsRefreshed
<1> QED  BY <1>1, <1>2, <1>3, <1>4, <1>5, <1>6 DEF Next

\* The inductive invariant holds in every state of every behaviour.
LEMMA Invariant == Spec => []IInv
BY InitEstablishes, NextPreserves, PTL DEF Spec

\* A goroutine that polls the API always belongs to a handler of the map, and no
\* job is polled twice, whatever Status and the garbage collector do meanwhile.
THEOREM LoopsBelongToHandlers == Spec => []NoLeakedLoop
<1>1. IInv => NoLeakedLoop  BY DEF IInv
<1> QED  BY <1>1, Invariant, PTL

\* A status in the cache has a goroutine that will refresh or drop it.
THEOREM CachedStatusRefreshed == Spec => []CacheIsRefreshed
<1>1. IInv => CacheIsRefreshed  BY DEF IInv
<1> QED  BY <1>1, Invariant, PTL

=============================================================================
