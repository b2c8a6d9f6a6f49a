------------------------- MODULE PolicyManagerProofs ------------------------
(***************************************************************************)
(* Proofs about PolicyManager, for any policies, sources, workers and      *)
(* reloaders and any bound on the handlers and the restarts.               *)
(***************************************************************************)
EXTENDS PolicyManager, TLAPS

USE PolicyManagerConstants

-----------------------------------------------------------------------------
(* Types                                                                   *)

\* Handler.Stop leaves a well typed record.
LEMMA StoppedType ==
  \A r \in HandlerType : Stopped(r) \in HandlerType
<1> TAKE r \in HandlerType
<1>1. CASE r.running
  <2>1. r.closed + 1 \in Nat
    BY DEF HandlerType
  <2>2. [r EXCEPT !.running = FALSE, !.closed = r.closed + 1, !.ticker = "left"] \in HandlerType
    BY <2>1, Zenon DEF HandlerType
  <2> QED BY <1>1, <2>2 DEF Stopped
<1>2. CASE ~r.running
  BY <1>2 DEF Stopped
<1> QED BY <1>1, <1>2

\* A handler is a policy and a number.
LEMMA HandlerPair ==
  /\ \A h \in Handlers : h[1] \in Policies /\ h[2] \in Numbers /\ h = <<h[1], h[2]>>
  /\ \A p \in Policies, n \in Numbers : <<p, n>> \in Handlers /\ <<p, n>>[1] = p /\ <<p, n>>[2] = n
  BY DEF Handlers

\* Reconcile keeps the types, if there is room for the new handlers.
LEMMA ReconcileType ==
  ASSUME TypeOK, NEW new \in SUBSET Policies, NEW gone \in SUBSET Policies,
         \A p \in new : created[p] < MaxHandlers, Reconcile(new, gone)
  PROVE  /\ tracked' \in [Policies -> Numbers \union {None}]
         /\ created' \in [Policies -> 0 .. MaxHandlers]
         /\ handler' \in [Handlers -> HandlerType]
         /\ crash' \in {"no", "nil ticker", "closed channel"}
<1>1. \A p \in Policies : created[p] \in 0 .. MaxHandlers /\ tracked[p] \in Numbers \union {None}
  BY Zenon DEF TypeOK
<1>2. \A p \in new : created[p] + 1 \in Numbers /\ created[p] + 1 \in 0 .. MaxHandlers
  <2> TAKE p \in new
  <2>1. p \in Policies
    OBVIOUS
  <2>2. created[p] \in 0 .. MaxHandlers /\ created[p] < MaxHandlers
    BY <1>1, <2>1
  <2> QED BY <2>2 DEF Numbers
<1>3. tracked' \in [Policies -> Numbers \union {None}]
  BY <1>1, <1>2, Zenon DEF Reconcile
<1>4. created' \in [Policies -> 0 .. MaxHandlers]
  BY <1>1, <1>2, Zenon DEF Reconcile
<1>5. handler' \in [Handlers -> HandlerType]
  <2>1. \A h \in Handlers : handler[h] \in HandlerType
    BY Zenon DEF TypeOK
  <2>2. [FreshHandler EXCEPT !.pc = "spawned"] \in HandlerType
    BY Zenon DEF HandlerType, HandlerStates, FreshHandler
  <2>3. \A h \in Handlers : Stopped(handler[h]) \in HandlerType
    BY <2>1, StoppedType
  <2> QED BY <2>1, <2>2, <2>3, Zenon DEF Reconcile
<1>6. crash' \in {"no", "nil ticker", "closed channel"}
  BY Zenon DEF Reconcile, TypeOK
<1> QED BY <1>3, <1>4, <1>5, <1>6, Zenon

\* What the goroutine of a handler makes of its record is well typed.
LEMMA HandlerStepType ==
  ASSUME TypeOK, NEW h \in Handlers, HandlerStep(h)
  PROVE  handler' \in [Handlers -> HandlerType]
<1> DEFINE R == handler[h]
<1>1. R \in HandlerType /\ handler \in [Handlers -> HandlerType]
  BY Zenon DEF TypeOK
<1>2. SUFFICES ASSUME handler' # handler
               PROVE  \E r \in HandlerType : handler' = [handler EXCEPT ![h] = r]
  BY <1>1
<1>3. CASE MarkRunning(h)
  <2>1. [At(h, "marked") EXCEPT !.running = TRUE] \in HandlerType
    BY <1>1, Zenon DEF At, HandlerType, HandlerStates
  <2> QED BY <1>3, <2>1, Zenon DEF MarkRunning, Step
<1>4. CASE StartMonitor(h)
  <2>1. [At(h, "select") EXCEPT !.ticker = "on", !.monitor = "on"] \in HandlerType
    BY <1>1, Zenon DEF At, HandlerType, HandlerStates
  <2> QED BY <1>4, <2>1, Zenon DEF StartMonitor, Step
<1>5. CASE \E pc \in HandlerStates, from \in HandlerStates : Step(h, from, At(h, pc))
  <2>1. \A pc \in HandlerStates : At(h, pc) \in HandlerType
    BY <1>1 DEF At, HandlerType, HandlerStates
  <2> QED BY <1>5, <2>1, Zenon DEF Step
<1>6. CASE \E pc \in HandlerStates, from \in HandlerStates : Step(h, from, Stopped(At(h, pc)))
  <2>1. \A pc \in HandlerStates : At(h, pc) \in HandlerType
    BY <1>1 DEF At, HandlerType, HandlerStates
  <2>2. \A r \in HandlerType : Stopped(r) \in HandlerType
    BY StoppedType
  <2> QED BY <1>6, <2>1, <2>2, Zenon DEF Step
<1>7. CASE SelectPolicy(h)
  <2>1. \A t \in {"on", R.ticker} : [R EXCEPT !.loaded = TRUE, !.ticker = t] \in HandlerType
    BY <1>1, Zenon DEF HandlerType
  <2> QED BY <1>7, <2>1, Zenon DEF SelectPolicy, Step
<1>8. CASE SelectTick(h)
  <2>1. [At(h, "tick") EXCEPT !.ticker = IF @ = "left" THEN "off" ELSE @] \in HandlerType
    BY <1>1, Zenon DEF At, HandlerType, HandlerStates
  <2> QED BY <1>8, <2>1, Zenon DEF SelectTick, Step
<1>9. CASE MonitorReturns(h)
  <2>1. [R EXCEPT !.monitor = "closed"] \in HandlerType
    BY <1>1 DEF HandlerType
  <2>2. handler' = [handler EXCEPT ![h] = [R EXCEPT !.monitor = "closed"]]
    BY <1>9 DEF MonitorReturns
  <2> QED BY <2>1, <2>2, Zenon
<1>10. CASE SelectClosed(h)
  BY <1>2, <1>10, Zenon DEF SelectClosed
<1> QED
  BY <1>3, <1>4, <1>5, <1>6, <1>7, <1>8, <1>9, <1>10
  DEF HandlerStep, SelectDone, TimedOut, NoEvaluation, TargetGone, Evaluation, SendEvaluation,
      CooldownEnds, ExitRun, Remove, HandlerStates

\* Every step keeps the types.
LEMMA TypeStep ==
  TypeOK /\ [Next]_vars => TypeOK'
<1> SUFFICES ASSUME TypeOK, [Next]_vars PROVE TypeOK'
  OBVIOUS
<1>1. ASSUME NEW h \in Handlers, HandlerStep(h) PROVE TypeOK'
  <2>1. handler' \in [Handlers -> HandlerType]
    BY <1>1, HandlerStepType
  <2>2. CASE Remove(h)
    <3>1. tracked' \in [Policies -> Numbers \union {None}]
      BY <2>2, Zenon DEF Remove, TypeOK
    <3> QED BY <2>1, <2>2, <3>1, Zenon DEF Remove, TypeOK
  <2>3. CASE SelectClosed(h)
    BY <2>1, <2>3, Zenon DEF SelectClosed, TypeOK
  <2>4. CASE OnlyHandler
    BY <2>1, <2>4, Zenon DEF OnlyHandler, TypeOK
  <2> QED
    BY <1>1, <2>2, <2>3, <2>4, Zenon
    DEF HandlerStep, MarkRunning, StartMonitor, SelectDone, SelectPolicy, SelectTick, TimedOut,
        NoEvaluation, TargetGone, Evaluation, SendEvaluation, CooldownEnds, ExitRun, MonitorReturns
<1>2. CASE ManagerStep
  <2>1. ASSUME NEW s \in Sources, NEW ids \in SUBSET Policies, ReceiveIDs(s, ids) PROVE TypeOK'
    <3> DEFINE new == {p \in ids : tracked[p] = None}
               gone == {p \in Policies \ ids : tracked[p] # None /\ SourceOf[p] = s}
    <3>1. Reconcile(new, gone) /\ (\A p \in new : created[p] < MaxHandlers)
      BY <2>1 DEF ReceiveIDs
    <3>2. new \in SUBSET Policies /\ gone \in SUBSET Policies
      OBVIOUS
    <3> HIDE DEF new, gone
    <3> QED BY <2>1, <3>1, <3>2, ReconcileType, Zenon DEF ReceiveIDs, TypeOK
  <2>2. CASE SourceFails
    <3>1. /\ tracked' \in [Policies -> Numbers \union {None}]
          /\ created' \in [Policies -> 0 .. MaxHandlers]
          /\ handler' \in [Handlers -> HandlerType]
          /\ crash' \in {"no", "nil ticker", "closed channel"}
      BY <2>2, ReconcileType, Zenon DEF SourceFails
    <3>2. restarts' \in 0 .. MaxRestarts
      <4>1. restarts \in 0 .. MaxRestarts
        BY Zenon DEF TypeOK
      <4>2. restarts < MaxRestarts /\ restarts' = restarts + 1
        BY <2>2 DEF SourceFails
      <4> QED BY <4>1, <4>2
    <3> QED BY <2>2, <3>1, <3>2, Zenon DEF SourceFails, TypeOK
  <2>3. CASE RunAgain
    <3>1. deferred' \in Nat
      <4>1. deferred \in Nat
        BY Zenon DEF TypeOK
      <4> QED BY <2>3, <4>1 DEF RunAgain
    <3> QED BY <2>3, <3>1, Zenon DEF RunAgain, TypeOK
  <2>4. CASE RunReturns
    <3>1. deferred' \in Nat
      <4>1. deferred \in Nat
        BY Zenon DEF TypeOK
      <4> QED BY <2>4, <4>1 DEF RunReturns
    <3> QED BY <2>4, <3>1, Zenon DEF RunReturns, TypeOK
  <2>5. CASE DeferredStop
    <3>1. /\ tracked' \in [Policies -> Numbers \union {None}]
          /\ created' \in [Policies -> 0 .. MaxHandlers]
          /\ handler' \in [Handlers -> HandlerType]
          /\ crash' \in {"no", "nil ticker", "closed channel"}
      BY <2>5, ReconcileType, Zenon DEF DeferredStop
    <3>2. deferred' \in Nat
      <4>1. deferred \in Nat
        BY Zenon DEF TypeOK
      <4>2. deferred > 0 /\ deferred' = deferred - 1
        BY <2>5 DEF DeferredStop
      <4> QED BY <4>1, <4>2
    <3> QED BY <2>5, <3>1, <3>2, Zenon DEF DeferredStop, TypeOK
  <2> QED BY <1>2, <2>1, <2>2, <2>3, <2>4, <2>5 DEF ManagerStep
<1>3. CASE CallerStep
  <2>1. ASSUME NEW w \in Workers, NEW p \in Policies, EnforceCooldown(w, p) PROVE TypeOK'
    <3>1. <<p, tracked[p]>> \in Handlers
      BY <2>1, Zenon DEF EnforceCooldown, TypeOK, Handlers
    <3>2. sending' \in [Workers -> Handlers \union {NoHandler}]
      BY <2>1, <3>1, Zenon DEF EnforceCooldown, TypeOK
    <3> QED BY <2>1, <3>2, Zenon DEF EnforceCooldown, TypeOK
  <2>2. ASSUME NEW w \in Workers, NEW h \in Handlers, CooldownReceived(w, h) PROVE TypeOK'
    <3>1. At(h, "cooldown") \in HandlerType
      <4>1. handler[h] \in HandlerType
        BY Zenon DEF TypeOK
      <4> QED BY <4>1, Zenon DEF At, HandlerType, HandlerStates
    <3>2. handler' \in [Handlers -> HandlerType]
      BY <2>2, <3>1, Zenon DEF CooldownReceived, Step, TypeOK
    <3>3. sending' \in [Workers -> Handlers \union {NoHandler}]
      BY <2>2, Zenon DEF CooldownReceived, TypeOK
    <3> QED BY <2>2, <3>2, <3>3, Zenon DEF CooldownReceived, TypeOK
  <2>3. ASSUME NEW r \in Reloaders, ReloadSources(r) PROVE TypeOK'
    <3>1. notifying' \in [Reloaders -> (SUBSET Handlers) \union {Idle}]
      BY <2>3, Zenon DEF ReloadSources, TypeOK
    <3> QED BY <2>3, <3>1, Zenon DEF ReloadSources, TypeOK
  <2>4. ASSUME NEW r \in Reloaders, ReloadReturns(r) PROVE TypeOK'
    <3>1. notifying' \in [Reloaders -> (SUBSET Handlers) \union {Idle}]
      BY <2>4, Zenon DEF ReloadReturns, TypeOK
    <3> QED BY <2>4, <3>1, Zenon DEF ReloadReturns, TypeOK
  <2>5. ASSUME NEW r \in Reloaders, NEW h \in Handlers, ReloadReceived(r, h) PROVE TypeOK'
    <3>1. notifying[r] \in SUBSET Handlers
      BY <2>5, Zenon DEF ReloadReceived, TypeOK
    <3>2. notifying' \in [Reloaders -> (SUBSET Handlers) \union {Idle}]
      BY <2>5, <3>1, Zenon DEF ReloadReceived, TypeOK
    <3> QED BY <2>5, <3>2, Zenon DEF ReloadReceived, TypeOK
  <2> QED BY <1>3, <2>1, <2>2, <2>3, <2>4, <2>5 DEF CallerStep
<1>4. CASE Cancel
  BY <1>4, Zenon DEF Cancel, TypeOK
<1>5. CASE UNCHANGED vars
  BY <1>5, Zenon DEF vars, TypeOK
<1> QED BY <1>1, <1>2, <1>3, <1>4, <1>5 DEF Next

LEMMA TypeInit ==
  Init => TypeOK
<1> SUFFICES ASSUME Init PROVE TypeOK
  OBVIOUS
<1>1. FreshHandler \in HandlerType
  BY DEF FreshHandler, HandlerType, HandlerStates
<1>2. handler \in [Handlers -> HandlerType]
  BY <1>1 DEF Init
<1>3. created \in [Policies -> 0 .. MaxHandlers] /\ restarts \in 0 .. MaxRestarts /\ deferred \in Nat
  BY DEF Init
<1> QED BY <1>2, <1>3, Zenon DEF Init, TypeOK

\* Every variable of the manager keeps its type, whatever the number of
\* policies, handlers, restarts and callers.
THEOREM ManagerTypeCorrect == Spec => []TypeOK
  BY TypeInit, TypeStep, PTL DEF Spec

-----------------------------------------------------------------------------
(* The done channel of a handler                                           *)

\* A handler is closed at most once, not while it runs, and not before its
\* goroutine has marked it running: without the last part MarkRunning could run
\* a closed handler, which the next Stop would close again.
Sound(r) ==
  /\ r.closed <= 1
  /\ r.running => r.closed = 0
  /\ r.pc \in {"free", "spawned"} => r.closed = 0 /\ ~r.running

AllSound == \A h \in Handlers : Sound(handler[h])

LEMMA StoppedSound ==
  ASSUME NEW r \in HandlerType, Sound(r)
  PROVE  Sound(Stopped(r))
<1>1. CASE r.running
  <2>1. Stopped(r).closed = 1 /\ Stopped(r).running = FALSE /\ Stopped(r).pc = r.pc
    BY <1>1 DEF Stopped, Sound, HandlerType
  <2> QED BY <1>1, <2>1 DEF Sound
<1>2. CASE ~r.running
  BY <1>2 DEF Stopped
<1> QED BY <1>1, <1>2

\* Stopping handlers, and making new ones, keeps every handler sound.
LEMMA ReconcileSound ==
  ASSUME TypeOK, AllSound, NEW new, NEW gone, Reconcile(new, gone)
  PROVE  AllSound'
<1> SUFFICES ASSUME NEW h \in Handlers PROVE Sound(handler'[h])
  BY DEF AllSound
<1>1. handler[h] \in HandlerType /\ Sound(handler[h])
  BY Zenon DEF TypeOK, AllSound
<1>2. Sound(Stopped(handler[h]))
  BY <1>1, StoppedSound
<1>3. Sound([FreshHandler EXCEPT !.pc = "spawned"])
  BY DEF Sound, FreshHandler
<1> QED BY <1>1, <1>2, <1>3, Zenon DEF Reconcile

\* A step of a goroutine keeps its handler sound.
LEMMA HandlerStepSound ==
  ASSUME TypeOK, AllSound, NEW h \in Handlers, HandlerStep(h)
  PROVE  AllSound'
<1> DEFINE R == handler[h]
<1>1. R \in HandlerType /\ Sound(R) /\ handler \in [Handlers -> HandlerType]
  BY Zenon DEF TypeOK, AllSound
<1>2. ASSUME NEW r, Sound(r), handler' = [handler EXCEPT ![h] = r] PROVE AllSound'
  BY <1>1, <1>2 DEF AllSound
<1>3. ASSUME NEW pc \in HandlerStates \ {"free", "spawned"} PROVE Sound(At(h, pc)) /\ At(h, pc) \in HandlerType
  BY <1>1, <1>3 DEF At, Sound, HandlerType
<1>4. CASE MarkRunning(h)
  <2>1. Sound([At(h, "marked") EXCEPT !.running = TRUE])
    BY <1>1, <1>4 DEF MarkRunning, Step, At, Sound, HandlerType
  <2> QED BY <1>2, <1>4, <2>1, Zenon DEF MarkRunning, Step
<1>5. CASE StartMonitor(h)
  <2>1. Sound([At(h, "select") EXCEPT !.ticker = "on", !.monitor = "on"])
    BY <1>1 DEF At, Sound, HandlerType
  <2> QED BY <1>2, <1>5, <2>1, Zenon DEF StartMonitor, Step
<1>6. CASE \E pc \in HandlerStates \ {"free", "spawned"}, from \in HandlerStates : Step(h, from, At(h, pc))
  BY <1>2, <1>3, <1>6, Zenon DEF Step
<1>7. CASE \E pc \in HandlerStates \ {"free", "spawned"}, from \in HandlerStates :
             Step(h, from, Stopped(At(h, pc)))
  BY <1>2, <1>3, <1>7, StoppedSound, Zenon DEF Step
<1>8. CASE SelectPolicy(h)
  <2>1. \A t : Sound([R EXCEPT !.loaded = TRUE, !.ticker = t])
    BY <1>1 DEF Sound, HandlerType
  <2> QED BY <1>2, <1>8, <2>1, Zenon DEF SelectPolicy, Step
<1>9. CASE SelectTick(h)
  <2>1. \A t : Sound([At(h, "tick") EXCEPT !.ticker = t])
    BY <1>1 DEF At, Sound, HandlerType
  <2> QED BY <1>2, <1>9, <2>1, Zenon DEF SelectTick, Step
<1>10. CASE MonitorReturns(h)
  <2>1. Sound([R EXCEPT !.monitor = "closed"])
    BY <1>1 DEF Sound, HandlerType
  <2>2. handler' = [handler EXCEPT ![h] = [R EXCEPT !.monitor = "closed"]]
    BY <1>10 DEF MonitorReturns
  <2> QED BY <1>2, <2>1, <2>2, Zenon
<1>11. CASE SelectClosed(h)
  BY <1>11, Zenon DEF SelectClosed, AllSound
<1> QED
  BY <1>4, <1>5, <1>6, <1>7, <1>8, <1>9, <1>10, <1>11
  DEF HandlerStep, SelectDone, TimedOut, NoEvaluation, TargetGone, Evaluation, SendEvaluation,
      CooldownEnds, ExitRun, Remove, HandlerStates

LEMMA SoundStep ==
  TypeOK /\ AllSound /\ [Next]_vars => AllSound'
<1> SUFFICES ASSUME TypeOK, AllSound, [Next]_vars PROVE AllSound'
  OBVIOUS
<1>1. ASSUME NEW w \in Workers, NEW h \in Handlers, CooldownReceived(w, h) PROVE AllSound'
  <2>1. Sound(At(h, "cooldown"))
    <3>1. handler[h] \in HandlerType /\ Sound(handler[h])
      BY Zenon DEF AllSound, TypeOK
    <3> QED BY <3>1, Zenon DEF At, Sound, HandlerType
  <2> QED BY <1>1, <2>1, Zenon DEF CooldownReceived, Step, AllSound, TypeOK
<1>2. CASE UNCHANGED handler
  BY <1>2 DEF AllSound
<1>3. CASE ManagerStep
  BY <1>2, <1>3, ReconcileSound, Zenon
  DEF ManagerStep, ReceiveIDs, SourceFails, RunAgain, RunReturns, DeferredStop
<1> QED
  BY <1>1, <1>2, <1>3, HandlerStepSound
  DEF Next, CallerStep, EnforceCooldown, ReloadSources, ReloadReturns, ReloadReceived, Cancel, vars

\* No sequence of calls of Handler.Stop closes doneCh twice.
THEOREM DoneChannelClosedOnce == Spec => []ClosedOnce
<1>1. Init => AllSound
  BY DEF Init, AllSound, Sound, FreshHandler
<1>2. TypeOK /\ AllSound => ClosedOnce
  BY Zenon DEF TypeOK, AllSound, Sound, ClosedOnce
<1> QED BY <1>1, <1>2, SoundStep, ManagerTypeCorrect, PTL DEF Spec

-----------------------------------------------------------------------------
(* The map of handlers                                                     *)

\* No goroutine step but Remove makes a handler dead, and none makes it free.
LEMMA StepKeepsAlive ==
  ASSUME TypeOK, NEW h \in Handlers, HandlerStep(h), ~Remove(h), NEW g \in Handlers,
         handler[g].pc \notin {"free", "dead"}
  PROVE  handler'[g].pc \notin {"free", "dead"}
<1>1. handler[g] \in HandlerType /\ handler \in [Handlers -> HandlerType]
  BY Zenon DEF TypeOK
<1>2. CASE g # h
  BY <1>1, <1>2, Zenon
  DEF HandlerStep, Step, MarkRunning, StartMonitor, SelectDone, SelectPolicy, SelectClosed,
      SelectTick, TimedOut, NoEvaluation, TargetGone, Evaluation, SendEvaluation, CooldownEnds,
      ExitRun, MonitorReturns
<1>3. CASE g = h
  <2>1. \A pc : At(h, pc).pc = pc /\ Stopped(At(h, pc)).pc = pc
    BY <1>1, <1>3 DEF At, Stopped, HandlerType
  <2>2. CASE \E pc \in HandlerStates \ {"free", "dead"} :
               handler'[h] = At(h, pc) \/ handler'[h] = Stopped(At(h, pc))
    BY <1>3, <2>1, <2>2
  <2>3. CASE handler'[h].pc \in {"marked", "select", "tick", handler[h].pc}
    BY <1>3, <2>3
  <2>4. CASE MarkRunning(h) \/ StartMonitor(h) \/ SelectTick(h)
    <3>1. /\ [At(h, "marked") EXCEPT !.running = TRUE].pc = "marked"
          /\ [At(h, "select") EXCEPT !.ticker = "on", !.monitor = "on"].pc = "select"
          /\ [At(h, "tick") EXCEPT !.ticker = IF @ = "left" THEN "off" ELSE @].pc = "tick"
      BY <1>1, <1>3 DEF At, HandlerType
    <3> QED BY <1>1, <1>3, <2>3, <2>4, <3>1, Zenon DEF MarkRunning, StartMonitor, SelectTick, Step
  <2>5. CASE SelectPolicy(h) \/ SelectClosed(h) \/ MonitorReturns(h)
    <3>1. /\ \A t : [handler[h] EXCEPT !.loaded = TRUE, !.ticker = t].pc = handler[h].pc
          /\ [handler[h] EXCEPT !.monitor = "closed"].pc = handler[h].pc
      BY <1>1, <1>3 DEF HandlerType
    <3>2. CASE SelectPolicy(h)
      BY <1>1, <1>3, <2>3, <3>1, <3>2 DEF SelectPolicy, Step
    <3>3. CASE SelectClosed(h)
      BY <1>3, <2>3, <3>3, Zenon DEF SelectClosed
    <3>4. CASE MonitorReturns(h)
      <4>1. handler' = [handler EXCEPT ![h] = [handler[h] EXCEPT !.monitor = "closed"]]
        BY <3>4 DEF MonitorReturns
      <4> QED BY <1>1, <1>3, <2>3, <3>1, <4>1
    <3> QED BY <2>5, <3>2, <3>3, <3>4
  <2> QED
    BY <1>1, <2>2, <2>4, <2>5
    DEF HandlerStep, Step, SelectDone, TimedOut, NoEvaluation, TargetGone, Evaluation,
        SendEvaluation, CooldownEnds, ExitRun, HandlerStates
<1> QED BY <1>2, <1>3

\* Reconcile leaves only entries for handlers that are alive.
LEMMA ReconcileEntry ==
  ASSUME TypeOK, EntryIsLive, NEW new \in SUBSET Policies, NEW gone \in SUBSET Policies,
         \A p \in new : created[p] < MaxHandlers, Reconcile(new, gone)
  PROVE  EntryIsLive'
<1> SUFFICES ASSUME NEW p \in Policies, tracked'[p] # None
             PROVE  /\ tracked'[p] = created'[p]
                    /\ handler'[<<p, tracked'[p]>>].pc \notin {"free", "dead"}
  BY DEF EntryIsLive
<1>1. tracked'[p] \in Numbers /\ <<p, tracked'[p]>> \in Handlers
  <2>1. tracked' \in [Policies -> Numbers \union {None}]
    BY ReconcileType, Zenon
  <2> QED BY <2>1 DEF Handlers
<1> DEFINE g == <<p, tracked'[p]>>
<1>2. g[1] = p /\ g[2] = tracked'[p]
  OBVIOUS
<1>3. CASE p \in new
  <2>1. tracked'[p] = created[p] + 1 /\ created'[p] = created[p] + 1
    BY <1>3, Zenon DEF Reconcile
  <2>2. handler'[g] = [FreshHandler EXCEPT !.pc = "spawned"]
    BY <1>1, <1>2, <1>3, <2>1, Zenon DEF Reconcile
  <2> QED BY <2>1, <2>2 DEF FreshHandler
<1>4. CASE p \notin new
  <2>1. p \notin gone /\ tracked'[p] = tracked[p] /\ created'[p] = created[p]
    BY <1>4, Zenon DEF Reconcile
  <2>2. handler'[g] = handler[g]
    BY <1>1, <1>2, <1>4, <2>1, Zenon DEF Reconcile
  <2> QED BY <2>1, <2>2 DEF EntryIsLive
<1> QED BY <1>3, <1>4

LEMMA EntryStep ==
  TypeOK /\ EntryIsLive /\ [Next]_vars => EntryIsLive'
<1> SUFFICES ASSUME TypeOK, EntryIsLive, [Next]_vars PROVE EntryIsLive'
  OBVIOUS
<1>1. ASSUME NEW h \in Handlers, HandlerStep(h), ~Remove(h) PROVE EntryIsLive'
  <2>1. tracked' = tracked /\ created' = created
    BY <1>1, Zenon
    DEF HandlerStep, OnlyHandler, MarkRunning, StartMonitor, SelectDone, SelectPolicy, SelectClosed,
        SelectTick, TimedOut, NoEvaluation, TargetGone, Evaluation, SendEvaluation, CooldownEnds,
        ExitRun, MonitorReturns
  <2>2. \A p \in Policies : tracked[p] # None => <<p, tracked[p]>> \in Handlers
    BY Zenon DEF TypeOK, Handlers
  <2> QED BY <1>1, <2>1, <2>2, StepKeepsAlive DEF EntryIsLive
<1>2. ASSUME NEW h \in Handlers, Remove(h) PROVE EntryIsLive'
  <2> SUFFICES ASSUME NEW p \in Policies, tracked'[p] # None
               PROVE  /\ tracked'[p] = created'[p]
                      /\ handler'[<<p, tracked'[p]>>].pc \notin {"free", "dead"}
    BY DEF EntryIsLive
  <2>1. p # h[1] /\ tracked'[p] = tracked[p] /\ created' = created
    BY <1>2, HandlerPair, Zenon DEF Remove, TypeOK
  <2>2. <<p, tracked[p]>> \in Handlers /\ <<p, tracked[p]>> # h
    <3>1. tracked[p] \in Numbers
      BY <2>1, Zenon DEF TypeOK
    <3>2. <<p, tracked[p]>>[1] = p
      OBVIOUS
    <3> QED BY <2>1, <3>1, <3>2 DEF Handlers
  <2>3. handler'[<<p, tracked[p]>>] = handler[<<p, tracked[p]>>]
    BY <1>2, <2>2, Zenon DEF Remove, Step, TypeOK
  <2> QED BY <2>1, <2>3 DEF EntryIsLive
<1>3. ASSUME NEW s \in Sources, NEW ids \in SUBSET Policies, ReceiveIDs(s, ids) PROVE EntryIsLive'
  <2> DEFINE new == {p \in ids : tracked[p] = None}
             gone == {p \in Policies \ ids : tracked[p] # None /\ SourceOf[p] = s}
  <2>1. Reconcile(new, gone) /\ (\A p \in new : created[p] < MaxHandlers)
    BY <1>3 DEF ReceiveIDs
  <2>2. new \in SUBSET Policies /\ gone \in SUBSET Policies
    OBVIOUS
  <2> HIDE DEF new, gone
  <2> QED BY <2>1, <2>2, ReconcileEntry
<1>4. CASE SourceFails \/ DeferredStop
  BY <1>4, ReconcileEntry DEF SourceFails, DeferredStop
<1>5. ASSUME NEW w \in Workers, NEW h \in Handlers, CooldownReceived(w, h) PROVE EntryIsLive'
  <2>1. At(h, "cooldown").pc = "cooldown"
    BY Zenon DEF At, TypeOK, HandlerType
  <2>2. \A g \in Handlers : handler[g].pc \notin {"free", "dead"} => handler'[g].pc \notin {"free", "dead"}
    BY <1>5, <2>1, Zenon DEF CooldownReceived, Step, TypeOK
  <2>3. \A p \in Policies : tracked[p] # None => <<p, tracked[p]>> \in Handlers
    BY Zenon DEF TypeOK, Handlers
  <2> QED BY <1>5, <2>2, <2>3 DEF CooldownReceived, EntryIsLive
<1>6. CASE UNCHANGED <<tracked, created, handler>>
  BY <1>6 DEF EntryIsLive
<1> QED
  BY <1>1, <1>2, <1>3, <1>4, <1>5, <1>6
  DEF Next, ManagerStep, RunAgain, RunReturns, CallerStep, EnforceCooldown, ReloadSources,
      ReloadReturns, ReloadReceived, Cancel, vars

\* An entry of m.handlers is always for the newest handler of its policy, whose
\* goroutine has not ended, although a goroutine that ends deletes the entry of
\* its policy without looking whose it is.
THEOREM EntriesAreLive == Spec => []EntryIsLive
<1>1. Init => EntryIsLive
  BY DEF Init, EntryIsLive
<1> QED BY <1>1, EntryStep, ManagerTypeCorrect, PTL DEF Spec

-----------------------------------------------------------------------------
(* Callers that hold the lock                                              *)

LEMMA BlockedStep ==
  TypeOK /\ BlockedOnEntry /\ [Next]_vars => BlockedOnEntry'
<1> SUFFICES ASSUME TypeOK, BlockedOnEntry, [Next]_vars PROVE BlockedOnEntry'
  OBVIOUS
<1>1. CASE LockFree /\ UNCHANGED <<sending, notifying>>
  BY <1>1 DEF LockFree, NoWriter, BlockedOnEntry
<1>2. CASE UNCHANGED <<tracked, sending, notifying>>
  BY <1>2 DEF BlockedOnEntry
<1>3. ASSUME NEW w \in Workers, NEW p \in Policies, EnforceCooldown(w, p) PROVE BlockedOnEntry'
  BY <1>3, Zenon DEF EnforceCooldown, BlockedOnEntry, TypeOK
<1>4. ASSUME NEW w \in Workers, NEW h \in Handlers, CooldownReceived(w, h) PROVE BlockedOnEntry'
  BY <1>4, Zenon DEF CooldownReceived, BlockedOnEntry, TypeOK
<1>5. ASSUME NEW r \in Reloaders, ReloadSources(r) PROVE BlockedOnEntry'
  BY <1>5, Zenon DEF ReloadSources, BlockedOnEntry, TypeOK
<1>6. ASSUME NEW r \in Reloaders, ReloadReturns(r) PROVE BlockedOnEntry'
  BY <1>6, Zenon DEF ReloadReturns, BlockedOnEntry, TypeOK
<1>7. ASSUME NEW r \in Reloaders, NEW h \in Handlers, ReloadReceived(r, h) PROVE BlockedOnEntry'
  BY <1>7, Zenon DEF ReloadReceived, BlockedOnEntry, TypeOK
<1>8. ASSUME NEW h \in Handlers, HandlerStep(h) PROVE BlockedOnEntry'
  BY <1>1, <1>2, <1>8, Zenon
  DEF HandlerStep, OnlyHandler, MarkRunning, StartMonitor, SelectDone, SelectPolicy, SelectClosed,
      SelectTick, TimedOut, NoEvaluation, TargetGone, Evaluation, SendEvaluation, CooldownEnds,
      ExitRun, Remove, MonitorReturns
<1>9. CASE ManagerStep
  BY <1>1, <1>2, <1>9, Zenon
  DEF ManagerStep, ReceiveIDs, SourceFails, RunAgain, RunReturns, DeferredStop
<1> QED
  BY <1>2, <1>3, <1>4, <1>5, <1>6, <1>7, <1>8, <1>9 DEF Next, CallerStep, Cancel, vars

\* A handler that EnforceCooldown or ReloadSources waits for stays in the map.
THEOREM EntryKeptWhileBlocked == Spec => []BlockedOnEntry
<1>1. Init => BlockedOnEntry
  BY DEF Init, BlockedOnEntry
<1> QED BY <1>1, BlockedStep, ManagerTypeCorrect, PTL DEF Spec

-----------------------------------------------------------------------------
(* Two sources and one manager                                             *)

\* The list of one source leaves the entries and the handlers of every other
\* source as they are: a policy of another source is neither in the list nor
\* among the stopped ones.  (Manager.Run, the case of policyIDsCh)
THEOREM SourcesDoNotInterfere == Spec => OtherSourcesKept
<1>1. ASSUME NEW s \in Sources, NEW ids \in SUBSET Policies, ReceiveIDs(s, ids),
             NEW p \in Policies, SourceOf[p] # s
      PROVE  /\ tracked'[p] = tracked[p]
             /\ \A n \in Numbers : handler'[<<p, n>>] = handler[<<p, n>>]
  <2> DEFINE new  == {q \in ids : tracked[q] = None}
             gone == {q \in Policies \ ids : tracked[q] # None /\ SourceOf[q] = s}
  <2>1. Reconcile(new, gone) /\ p \notin new /\ p \notin gone
    BY <1>1, Zenon DEF ReceiveIDs
  <2>2. tracked'[p] = tracked[p]
    BY <2>1, Zenon DEF Reconcile
  <2>3. ASSUME NEW n \in Numbers
        PROVE  handler'[<<p, n>>] = handler[<<p, n>>]
    <3>1. <<p, n>> \in Handlers /\ <<p, n>>[1] = p
      BY HandlerPair, Zenon
    <3>2. handler'[<<p, n>>] =
            IF <<p, n>>[1] \in new /\ <<p, n>>[2] = created[<<p, n>>[1]] + 1
              THEN [FreshHandler EXCEPT !.pc = "spawned"]
            ELSE IF <<p, n>>[1] \in gone /\ <<p, n>>[2] = tracked[<<p, n>>[1]]
              THEN Stopped(handler[<<p, n>>])
            ELSE handler[<<p, n>>]
      BY <2>1, <3>1, Zenon DEF Reconcile
    <3> QED BY <2>1, <3>1, <3>2, Zenon
  <2> QED BY <2>2, <2>3, Zenon
<1>2. [\A s \in Sources : \A ids \in SUBSET Policies : ReceiveIDs(s, ids) =>
         \A p \in Policies : SourceOf[p] # s =>
           /\ tracked'[p] = tracked[p]
           /\ \A n \in Numbers : handler'[<<p, n>>] = handler[<<p, n>>]]_vars
  BY <1>1, Zenon
<1> QED BY <1>2, PTL DEF OtherSourcesKept

=============================================================================
