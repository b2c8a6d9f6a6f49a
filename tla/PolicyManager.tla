--------------------------- MODULE PolicyManager ----------------------------
(***************************************************************************)
(* The policy manager and its policy handlers (policy/manager.go and       *)
(* policy/handler.go): the map of handlers, one goroutine per handler, the *)
(* lock that protects the map, and the two callers that block on a channel *)
(* of a handler while they hold it, EnforceCooldown (called by the workers)*)
(* and ReloadSources (SIGHUP and the reload endpoint).                     *)
(*                                                                         *)
(* The n-th handler made for policy p is <<p, n>>.  A section under the    *)
(* manager's lock that cannot block is one action; EnforceCooldown and     *)
(* ReloadSources hold it from one action to a later one.  Policy contents  *)
(* and durations are abstracted: a tick, the end of a cooldown and what a  *)
(* policy source lists or sends are nondeterministic.                      *)
(***************************************************************************)
EXTENDS Integers

CONSTANTS
  Policies,
  Sources,      \* m.policySource
  SourceOf,     \* the source that lists a policy
  Reloadable,   \* sources whose MonitorPolicy receives from reloadCh (file)
  Workers,      \* callers of EnforceCooldown
  Reloaders,    \* callers of ReloadSources
  MaxHandlers,  \* bound: handlers made for one policy
  MaxRestarts   \* bound: unrecoverable errors of a policy source

ASSUME PolicyManagerConstants ==
  /\ SourceOf \in [Policies -> Sources]
  /\ Reloadable \subseteq Sources
  /\ MaxHandlers \in Nat \ {0}
  /\ MaxRestarts \in Nat

VARIABLES
  tracked,   \* m.handlers: the number of the handler in the map, or None
  created,   \* handlers made so far for each policy
  handler,   \* each handler
  mgr,       \* Manager.Run: "loop", "sleep" (before it is run again) or "done"
  deferred,  \* returned Runs whose deferred stopHandlers has not run yet
  restarts,
  sending,   \* EnforceCooldown: the handler each worker is blocked on, or NoHandler
  notifying, \* ReloadSources: the handlers each caller still has to notify, or Idle
  ctxDone,   \* the agent's context is cancelled
  crash      \* how the process panicked, or "no"

vars == <<tracked, created, handler, mgr, deferred, restarts, sending, notifying, ctxDone, crash>>

None == 0
Numbers == 1 .. MaxHandlers
Handlers == Policies \X Numbers
NoHandler == <<>>
Idle == {NoHandler}

\* Where the goroutine of a handler is. "marked" is between running = true and
\* the first ticker, "select" the main select, "tick" in generateEvaluation,
\* "exit" past the loop with the deferred calls to run, "remove" before the
\* handler is deleted from the map.
HandlerStates ==
  {"free", "spawned", "marked", "select", "tick", "send", "cooldown", "exit", "remove", "dead"}

\* NewHandler. "closed" counts close(doneCh); the ticker is "nil", "on", or
\* stopped with possibly one tick left in its channel.
FreshHandler ==
  [pc |-> "free", running |-> FALSE, closed |-> 0, ticker |-> "nil", loaded |-> FALSE,
   monitor |-> "off"]

Init ==
  /\ tracked = [p \in Policies |-> None]
  /\ created = [p \in Policies |-> 0]
  /\ handler = [h \in Handlers |-> FreshHandler]
  /\ mgr = "loop"
  /\ deferred = 0
  /\ restarts = 0
  /\ sending = [w \in Workers |-> NoHandler]
  /\ notifying = [r \in Reloaders |-> Idle]
  /\ ctxDone = FALSE
  /\ crash = "no"

-----------------------------------------------------------------------------
(* m.lock                                                                  *)

NoWriter == \A r \in Reloaders : notifying[r] = Idle
LockFree == NoWriter /\ \A w \in Workers : sending[w] = NoHandler

-----------------------------------------------------------------------------
(* Handler.Stop                                                            *)

\* Faulty variant: running is not reset.
StoppedStillRunning(r) ==
  IF r.running THEN [r EXCEPT !.closed = @ + 1, !.ticker = "left"] ELSE r

Stopped(r) ==
  IF r.running THEN [r EXCEPT !.running = FALSE, !.closed = @ + 1, !.ticker = "left"] ELSE r

\* Stop calls ticker.Stop, which panics on a nil ticker.
NilTicker(r) == r.running /\ r.ticker = "nil"

\* stopHandler for the tracked handlers of the given policies, and handlers
\* for the policies in "new".
Reconcile(new, gone) ==
  /\ tracked' = [p \in Policies |->
       IF p \in new THEN created[p] + 1 ELSE IF p \in gone THEN None ELSE tracked[p]]
  /\ created' = [p \in Policies |-> IF p \in new THEN created[p] + 1 ELSE created[p]]
  /\ handler' = [h \in Handlers |->
       IF h[1] \in new /\ h[2] = created[h[1]] + 1 THEN [FreshHandler EXCEPT !.pc = "spawned"]
       ELSE IF h[1] \in gone /\ h[2] = tracked[h[1]] THEN Stopped(handler[h])
       ELSE handler[h]]
  /\ crash' = IF \E p \in gone : tracked[p] # None /\ NilTicker(handler[<<p, tracked[p]>>])
              THEN "nil ticker" ELSE crash

-----------------------------------------------------------------------------
(* Manager.Run                                                             *)

\* Faulty variant: handlers of every source that are not in the list are stopped.
ReceiveAllIDs(s, ids) ==
  /\ mgr = "loop"
  /\ LockFree
  /\ \A p \in ids : SourceOf[p] = s
  /\ LET new == {p \in ids : tracked[p] = None}
     IN  /\ \A p \in new : created[p] < MaxHandlers
         /\ Reconcile(new, {p \in Policies \ ids : tracked[p] # None})
  /\ UNCHANGED <<mgr, deferred, restarts, sending, notifying, ctxDone>>

\* A list of policy IDs from source s.
ReceiveIDs(s, ids) ==
  /\ mgr = "loop"
  /\ LockFree
  /\ \A p \in ids : SourceOf[p] = s
  /\ LET new  == {p \in ids : tracked[p] = None}
         gone == {p \in Policies \ ids : tracked[p] # None /\ SourceOf[p] = s}
     IN  /\ \A p \in new : created[p] < MaxHandlers
         /\ Reconcile(new, gone)
  /\ UNCHANGED <<mgr, deferred, restarts, sending, notifying, ctxDone>>

\* An unrecoverable error: stop all handlers, reset the map, cancel the ID
\* monitors, and sleep.
SourceFails ==
  /\ mgr = "loop"
  /\ LockFree
  /\ restarts < MaxRestarts
  /\ Reconcile({}, Policies)
  /\ mgr' = "sleep"
  /\ restarts' = restarts + 1
  /\ UNCHANGED <<deferred, sending, notifying, ctxDone>>

\* go m.Run, while the Run that starts it returns.
RunAgain ==
  /\ mgr = "sleep"
  /\ mgr' = "loop"
  /\ deferred' = deferred + 1
  /\ UNCHANGED <<tracked, created, handler, restarts, sending, notifying, ctxDone, crash>>

RunReturns ==
  /\ mgr = "loop"
  /\ ctxDone
  /\ mgr' = "done"
  /\ deferred' = deferred + 1
  /\ UNCHANGED <<tracked, created, handler, restarts, sending, notifying, ctxDone, crash>>

DeferredStop ==
  /\ deferred > 0
  /\ LockFree
  /\ deferred' = deferred - 1
  /\ Reconcile({}, Policies)
  /\ UNCHANGED <<mgr, restarts, sending, notifying, ctxDone>>

-----------------------------------------------------------------------------
(* The goroutine of a handler                                              *)

\* h is at "from", and the step leaves it as record r.
Step(h, from, r) ==
  /\ handler[h].pc = from
  /\ handler' = [handler EXCEPT ![h] = r]

OnlyHandler == UNCHANGED <<tracked, created, mgr, deferred, restarts, sending, notifying, ctxDone, crash>>

At(h, pc) == [handler[h] EXCEPT !.pc = pc]

\* Handler.Run up to running = true.
MarkRunning(h) ==
  /\ Step(h, "spawned", [At(h, "marked") EXCEPT !.running = TRUE])
  /\ OnlyHandler

\* The first ticker, and the goroutine of MonitorPolicy.
StartMonitor(h) ==
  /\ Step(h, "marked", [At(h, "select") EXCEPT !.ticker = "on", !.monitor = "on"])
  /\ OnlyHandler

\* Faulty variant: doneCh is not among the cases.
SelectOnlyContext(h) ==
  /\ ctxDone
  /\ Step(h, "select", At(h, "exit"))
  /\ OnlyHandler

\* The select: the context or doneCh.
SelectDone(h) ==
  /\ ctxDone \/ handler[h].closed > 0
  /\ Step(h, "select", At(h, "exit"))
  /\ OnlyHandler

\* The select: a policy from MonitorPolicy. The first one, and one with another
\* evaluation interval, replaces the ticker.
SelectPolicy(h) ==
  /\ handler[h].monitor = "on"
  /\ \E t \in (IF handler[h].loaded THEN {"on", handler[h].ticker} ELSE {"on"}) :
       Step(h, "select", [handler[h] EXCEPT !.loaded = TRUE, !.ticker = t])
  /\ OnlyHandler

\* The select: MonitorPolicy has closed errCh and ch, which are then always
\* ready and give a nil error, and a policy with an evaluation interval of zero.
SelectClosed(h) ==
  /\ handler[h].monitor = "closed"
  /\ handler[h].pc = "select"
  /\ crash' = "closed channel"
  /\ UNCHANGED <<tracked, created, handler, mgr, deferred, restarts, sending, notifying, ctxDone>>

SelectTick(h) ==
  /\ handler[h].ticker \in {"on", "left"}
  /\ Step(h, "select", [At(h, "tick") EXCEPT !.ticker = IF @ = "left" THEN "off" ELSE @])
  /\ OnlyHandler

\* The long ticker before the first policy: the error is logged, nothing else.
TimedOut(h) ==
  /\ ~handler[h].loaded
  /\ Step(h, "tick", At(h, "select"))
  /\ OnlyHandler

\* handleTick without a result: a plugin error, a disabled policy, or a target
\* that is not ready.
NoEvaluation(h) ==
  /\ handler[h].loaded
  /\ Step(h, "tick", At(h, "select"))
  /\ OnlyHandler

\* The target does not exist: the handler stops itself.
TargetGone(h) ==
  /\ handler[h].loaded
  /\ Step(h, "tick", Stopped(At(h, "select")))
  /\ OnlyHandler

\* An evaluation is made; the last event of the target may demand a cooldown.
Evaluation(h) ==
  /\ handler[h].loaded
  /\ \E pc \in {"send", "cooldown"} : Step(h, "tick", At(h, pc))
  /\ OnlyHandler

SendEvaluation(h) ==
  /\ Step(h, "send", At(h, "select"))
  /\ OnlyHandler

\* enforceCooldown, from handleTick or from the select.
CooldownEnds(h) ==
  /\ \/ Step(h, "cooldown", At(h, "select"))
     \/ (ctxDone \/ handler[h].closed > 0) /\ Step(h, "cooldown", At(h, "exit"))
  /\ OnlyHandler

\* The deferred calls of Handler.Run.
ExitRun(h) ==
  /\ Step(h, "exit", Stopped(At(h, "remove")))
  /\ OnlyHandler

\* Faulty variant: the entry of the policy is left alone.
KeepEntry(h) ==
  /\ LockFree
  /\ Step(h, "remove", At(h, "dead"))
  /\ OnlyHandler

\* Faulty variant: the lock is not taken.
RemoveUnlocked(h) ==
  /\ Step(h, "remove", At(h, "dead"))
  /\ tracked' = [tracked EXCEPT ![h[1]] = None]
  /\ UNCHANGED <<created, mgr, deferred, restarts, sending, notifying, ctxDone, crash>>

\* delete(m.handlers, ID), whichever handler the entry is for.
Remove(h) ==
  /\ LockFree
  /\ Step(h, "remove", At(h, "dead"))
  /\ tracked' = [tracked EXCEPT ![h[1]] = None]
  /\ UNCHANGED <<created, mgr, deferred, restarts, sending, notifying, ctxDone, crash>>

\* MonitorPolicy returns once its context is cancelled, by the agent or by the
\* deferred cancel of Handler.Run, and closes its channels.
MonitorReturns(h) ==
  /\ handler[h].monitor = "on"
  /\ ctxDone \/ handler[h].pc \in {"exit", "remove", "dead"}
  /\ handler' = [handler EXCEPT ![h].monitor = "closed"]
  /\ OnlyHandler

-----------------------------------------------------------------------------
(* EnforceCooldown and ReloadSources                                       *)

\* Take the read lock and find the handler; without one it returns at once.
EnforceCooldown(w, p) ==
  /\ sending[w] = NoHandler
  /\ NoWriter
  /\ tracked[p] # None
  /\ sending' = [sending EXCEPT ![w] = <<p, tracked[p]>>]
  /\ UNCHANGED <<tracked, created, handler, mgr, deferred, restarts, notifying, ctxDone, crash>>

\* The handler's select receives the duration.
CooldownReceived(w, h) ==
  /\ sending[w] = h
  /\ Step(h, "select", At(h, "cooldown"))
  /\ sending' = [sending EXCEPT ![w] = NoHandler]
  /\ UNCHANGED <<tracked, created, mgr, deferred, restarts, notifying, ctxDone, crash>>

\* Take the lock; every handler in the map is to be notified.
ReloadSources(r) ==
  /\ notifying[r] = Idle
  /\ LockFree
  /\ notifying' = [notifying EXCEPT ![r] = {h \in Handlers : tracked[h[1]] = h[2]}]
  /\ UNCHANGED <<tracked, created, handler, mgr, deferred, restarts, sending, ctxDone, crash>>

\* MonitorPolicy of a reloadable source receives from reloadCh.
ReloadReceived(r, h) ==
  /\ notifying[r] # Idle
  /\ h \in notifying[r]
  /\ SourceOf[h[1]] \in Reloadable
  /\ handler[h].monitor = "on"
  /\ notifying' = [notifying EXCEPT ![r] = @ \ {h}]
  /\ UNCHANGED <<tracked, created, handler, mgr, deferred, restarts, sending, ctxDone, crash>>

ReloadReturns(r) ==
  /\ notifying[r] = {}
  /\ notifying' = [notifying EXCEPT ![r] = Idle]
  /\ UNCHANGED <<tracked, created, handler, mgr, deferred, restarts, sending, ctxDone, crash>>

Cancel ==
  /\ ~ctxDone
  /\ ctxDone' = TRUE
  /\ UNCHANGED <<tracked, created, handler, mgr, deferred, restarts, sending, notifying, crash>>

-----------------------------------------------------------------------------
HandlerStep(h) ==
  \/ MarkRunning(h) \/ StartMonitor(h)
  \/ SelectDone(h) \/ SelectPolicy(h) \/ SelectClosed(h) \/ SelectTick(h)
  \/ TimedOut(h) \/ NoEvaluation(h) \/ TargetGone(h) \/ Evaluation(h) \/ SendEvaluation(h)
  \/ CooldownEnds(h) \/ ExitRun(h) \/ Remove(h) \/ MonitorReturns(h)

ManagerStep ==
  \/ \E s \in Sources : \E ids \in SUBSET Policies : ReceiveIDs(s, ids)
  \/ SourceFails \/ RunAgain \/ RunReturns \/ DeferredStop

CallerStep ==
  \/ \E w \in Workers : \E p \in Policies : EnforceCooldown(w, p)
  \/ \E w \in Workers : \E h \in Handlers : CooldownReceived(w, h)
  \/ \E r \in Reloaders : ReloadSources(r) \/ ReloadReturns(r)
  \/ \E r \in Reloaders : \E h \in Handlers : ReloadReceived(r, h)

\* A panic ends the process.
Next ==
  /\ crash = "no"
  /\ \/ \E h \in Handlers : HandlerStep(h)
     \/ ManagerStep
     \/ CallerStep
     \/ Cancel

Spec == Init /\ [][Next]_vars

-----------------------------------------------------------------------------
(* Properties                                                              *)

HandlerType ==
  [pc : HandlerStates, running : BOOLEAN, closed : Nat, ticker : {"nil", "on", "left", "off"},
   loaded : BOOLEAN, monitor : {"off", "on", "closed"}]

TypeOK ==
  /\ tracked \in [Policies -> Numbers \union {None}]
  /\ created \in [Policies -> 0 .. MaxHandlers]
  /\ handler \in [Handlers -> HandlerType]
  /\ mgr \in {"loop", "sleep", "done"}
  /\ deferred \in Nat
  /\ restarts \in 0 .. MaxRestarts
  /\ sending \in [Workers -> Handlers \union {NoHandler}]
  /\ notifying \in [Reloaders -> (SUBSET Handlers) \union {Idle}]
  /\ ctxDone \in BOOLEAN
  /\ crash \in {"no", "nil ticker", "closed channel"}

\* Handler.Stop is called by the manager, by the handler itself and by the
\* deferred call of Run, at any time and more than once: doneCh is never closed
\* a second time, which would panic, and a handler that runs is not closed.
ClosedOnce ==
  \A h \in Handlers : /\ handler[h].closed <= 1
                      /\ handler[h].running => handler[h].closed = 0

\* Manager.Run and the goroutine of a handler both delete from the map: an entry
\* is for the newest handler of its policy, and never for one whose goroutine
\* has ended, which would keep the policy without a handler for ever.
EntryIsLive ==
  \A p \in Policies : tracked[p] # None =>
    /\ tracked[p] = created[p]
    /\ handler[<<p, tracked[p]>>].pc \notin {"free", "dead"}

\* EnforceCooldown and ReloadSources block on a channel of a handler with the
\* lock held: meanwhile nobody takes that handler out of the map.
BlockedOnEntry ==
  /\ \A w \in Workers : sending[w] # NoHandler => tracked[sending[w][1]] = sending[w][2]
  /\ \A r \in Reloaders : notifying[r] # Idle => \A h \in notifying[r] : tracked[h[1]] = h[2]

\* Two sources send their lists to one manager: a list of one source neither
\* stops nor replaces a handler of a policy of the other.
OtherSourcesKept ==
  [][\A s \in Sources : \A ids \in SUBSET Policies : ReceiveIDs(s, ids) =>
       \A p \in Policies : SourceOf[p] # s =>
         /\ tracked'[p] = tracked[p]
         /\ \A n \in Numbers : handler'[<<p, n>>] = handler[<<p, n>>]]_vars

\* The goroutine of a handler is scheduled, a plugin call returns, a cooldown
\* ends and the agent takes evaluations until it is stopped; the ticker ticks, a
\* select does not ignore a ready case for ever, and a goroutine that waits for
\* the lock gets it when the others release it.
Proceeds(h) ==
  \/ MarkRunning(h) \/ StartMonitor(h)
  \/ NoEvaluation(h) \/ TimedOut(h) \/ TargetGone(h) \/ Evaluation(h)
  \/ ~ctxDone /\ SendEvaluation(h)
  \/ CooldownEnds(h) \/ ExitRun(h)

Fairness ==
  /\ \A h \in Handlers : /\ WF_vars(crash = "no" /\ Proceeds(h))
                         /\ SF_vars(crash = "no" /\ SelectDone(h))
                         /\ SF_vars(crash = "no" /\ SelectTick(h))
                         /\ SF_vars(crash = "no" /\ Remove(h))
  /\ \A w \in Workers : \A h \in Handlers : SF_vars(crash = "no" /\ CooldownReceived(w, h))
  /\ \A r \in Reloaders : /\ \A h \in Handlers : SF_vars(crash = "no" /\ ReloadReceived(r, h))
                          /\ WF_vars(crash = "no" /\ ReloadReturns(r))

FairSpec == Spec /\ Fairness

Ended == crash # "no" \/ ctxDone

\* A handler that is stopped while it ticks, sends or waits in a cooldown leaves
\* its loop, and its goroutine ends; unless EnforceCooldown or ReloadSources is
\* blocked for ever with the lock the goroutine needs at its end.
StoppedHandlerEnds ==
  \A h \in Handlers :
    handler[h].closed > 0 ~> (handler[h].pc = "dead" \/ Ended \/ []~LockFree)

-----------------------------------------------------------------------------
(* What the repository says and the code does not do                       *)

\* manager.go: a cooldown requested on a policy which gets removed is "not a problem".
CooldownRequestReturns ==
  \A w \in Workers : sending[w] # NoHandler ~> sending[w] = NoHandler \/ Ended

=============================================================================
