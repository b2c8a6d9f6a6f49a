---------------------------- MODULE PolicyClients ---------------------------
(***************************************************************************)
(* The two clients of a policy source (policy/source.go): the manager,     *)
(* which receives lists of policy IDs on a channel that all sources share, *)
(* and the handlers, each of which receives one policy from the goroutine  *)
(* of MonitorPolicy.  FileSource and NomadSource are the other ends of the *)
(* channels.                                                               *)
(*                                                                         *)
(* PolicyManager has the details of starting and stopping handlers; here a *)
(* handler only receives, stops and leaves.  The n-th handler of policy p  *)
(* is <<p, n>>.  What MonitorPolicy is sending is offer[h], until the      *)
(* handler receives it: both channels of a handler are unbuffered.         *)
(***************************************************************************)
EXTENDS Integers, Sequences

CONSTANTS
  Policies,
  SourceOf,    \* the source that lists a policy: "file" or "nomad"
  Contents,    \* the enabled, valid policies a source can have
  Capacity,    \* of policyIDsCh and of policyIDsErrCh
  MaxReloads,  \* bound: calls of ReloadSources
  MaxHandlers  \* bound: handlers made for one policy

ASSUME PolicyClientsConstants ==
  /\ SourceOf \in [Policies -> {"file", "nomad"}]
  /\ Capacity \in Nat \ {0}
  /\ MaxReloads \in Nat
  /\ MaxHandlers \in Nat \ {0}

VARIABLES
  lists,    \* policyIDsCh
  errs,     \* the number of errors in policyIDsErrCh
  mgr,      \* the list Manager.Run has received and not handled yet, or Idle
  entry,    \* m.handlers: the number of the handler in the map, or None
  created,  \* handlers made so far for each policy
  handler,  \* each handler
  offer,    \* what MonitorPolicy is sending to each handler
  monitor,  \* the goroutine of MonitorPolicy for each handler
  reload,   \* ReloadSources
  reloads

clients == <<lists, errs, mgr, entry, created, handler, offer, monitor, reload, reloads>>

None == 0
Idle == [source |-> "none", ids |-> {}]
NoPolicy == "no policy"
Nothing == "nothing"
Error == "error"
\* What a source may have for a policy.
Values == Contents \union {"disabled"}
States == Values \union {"absent", "invalid"}

\* The marks that stand for the lack of a policy are no policies.
ASSUME ContentsAssumption ==
  Contents \intersect {"disabled", "absent", "invalid", "unknown", NoPolicy, Nothing, Error} = {}

Of(s) == {p \in Policies : SourceOf[p] = s}
Handlers == Policies \X (1 .. MaxHandlers)
HandlersOf(s) == {h \in Handlers : SourceOf[h[1]] = s}
InMap(h) == entry[h[1]] = h[2]

ClientsInit ==
  /\ lists = <<>>
  /\ errs = 0
  /\ mgr = Idle
  /\ entry = [p \in Policies |-> None]
  /\ created = [p \in Policies |-> 0]
  /\ handler = [h \in Handlers |-> [pc |-> "free", stop |-> FALSE, policy |-> NoPolicy]]
  /\ offer = [h \in Handlers |-> Nothing]
  /\ monitor = [h \in Handlers |-> [pc |-> "off", read |-> NoPolicy, index |-> 1]]
  /\ reload = [pc |-> "idle", todo |-> {}]
  /\ reloads = 0

\* m.lock is held across steps by ReloadSources only.
LockFree == reload.pc = "idle"

-----------------------------------------------------------------------------
(* Manager.Run                                                             *)

ReceiveList ==
  /\ mgr = Idle
  /\ lists # <<>>
  /\ mgr' = Head(lists)
  /\ lists' = Tail(lists)
  /\ UNCHANGED <<errs, entry, created, handler, offer, monitor, reload, reloads>>

\* No source error is unrecoverable here: it is logged.
ReceiveError ==
  /\ mgr = Idle
  /\ errs > 0
  /\ errs' = errs - 1
  /\ UNCHANGED <<lists, mgr, entry, created, handler, offer, monitor, reload, reloads>>

\* Faulty variant: handlers of policies that are not listed are kept.
ReconcileKeepsOld ==
  /\ mgr # Idle
  /\ LockFree
  /\ LET new == {p \in mgr.ids : entry[p] = None}
     IN  /\ \A p \in new : created[p] < MaxHandlers
         /\ created' = [p \in Policies |-> IF p \in new THEN created[p] + 1 ELSE created[p]]
         /\ entry' = [p \in Policies |-> IF p \in new THEN created[p] + 1 ELSE entry[p]]
         /\ handler' = [h \in Handlers |->
              IF h[1] \in new /\ h[2] = created[h[1]] + 1 THEN [handler[h] EXCEPT !.pc = "spawned"]
              ELSE handler[h]]
  /\ mgr' = Idle
  /\ UNCHANGED <<lists, errs, offer, monitor, reload, reloads>>

\* Under m.lock: handlers for the listed policies that have none; those of the
\* same source that are not listed are stopped and leave the map. Stop does
\* nothing to a handler that does not run yet.
Reconcile ==
  /\ mgr # Idle
  /\ LockFree
  /\ LET new  == {p \in mgr.ids : entry[p] = None}
         gone == {p \in Of(mgr.source) \ mgr.ids : entry[p] # None}
     IN  /\ \A p \in new : created[p] < MaxHandlers
         /\ created' = [p \in Policies |-> IF p \in new THEN created[p] + 1 ELSE created[p]]
         /\ entry' = [p \in Policies |->
              IF p \in new THEN created[p] + 1 ELSE IF p \in gone THEN None ELSE entry[p]]
         /\ handler' = [h \in Handlers |->
              IF h[1] \in new /\ h[2] = created[h[1]] + 1 THEN [handler[h] EXCEPT !.pc = "spawned"]
              ELSE IF h[1] \in gone /\ InMap(h) /\ handler[h].pc = "loop"
              THEN [handler[h] EXCEPT !.stop = TRUE]
              ELSE handler[h]]
  /\ mgr' = Idle
  /\ UNCHANGED <<lists, errs, offer, monitor, reload, reloads>>

-----------------------------------------------------------------------------
(* Handler.Run                                                             *)

Move(h, from, to) ==
  /\ handler[h].pc = from
  /\ handler' = [handler EXCEPT ![h].pc = to]

\* The handler runs, and so does the goroutine of MonitorPolicy.
StartHandler(h) ==
  /\ Move(h, "spawned", "loop")
  /\ monitor' = [monitor EXCEPT ![h].pc = "start"]
  /\ UNCHANGED <<lists, errs, mgr, entry, created, offer, reload, reloads>>

\* The select receives an error or a policy.
Receive(h) ==
  /\ handler[h].pc = "loop"
  /\ offer[h] # Nothing
  /\ offer' = [offer EXCEPT ![h] = Nothing]
  /\ handler' = IF offer[h] = Error THEN handler ELSE [handler EXCEPT ![h].policy = offer[h]]
  /\ UNCHANGED <<lists, errs, mgr, entry, created, monitor, reload, reloads>>

\* A tick finds that the target does not exist: the handler stops itself.
TargetGone(h) ==
  /\ handler[h].pc = "loop"
  /\ handler[h].policy \in Contents
  /\ handler' = [handler EXCEPT ![h].stop = TRUE]
  /\ UNCHANGED <<lists, errs, mgr, entry, created, offer, monitor, reload, reloads>>

\* The select finds doneCh closed: Run returns, which cancels MonitorPolicy.
Leave(h) ==
  /\ handler[h].stop
  /\ Move(h, "loop", "exit")
  /\ UNCHANGED <<lists, errs, mgr, entry, created, offer, monitor, reload, reloads>>

\* delete(m.handlers, ID), under m.lock.
Remove(h) ==
  /\ LockFree
  /\ Move(h, "exit", "dead")
  /\ entry' = [entry EXCEPT ![h[1]] = None]
  /\ UNCHANGED <<lists, errs, mgr, created, offer, monitor, reload, reloads>>

\* The context MonitorPolicy was given is done.
Cancelled(h) == handler[h].pc \in {"exit", "dead"}

-----------------------------------------------------------------------------
(* ReloadSources                                                           *)

NotifyAll == [pc |-> "notify", todo |-> {h \in Handlers : InMap(h)}]

\* m.lock is taken. ReloadIDsMonitor of the Nomad source does nothing.
ReloadSources(sources) ==
  /\ LockFree
  /\ reloads < MaxReloads
  /\ reloads' = reloads + 1
  /\ reload' = IF "file" \in sources THEN [pc |-> "ids", todo |-> {}] ELSE NotifyAll
  /\ UNCHANGED <<lists, errs, mgr, entry, created, handler, offer, monitor>>

ReloadReturns ==
  /\ reload = [pc |-> "notify", todo |-> {}]
  /\ reload' = [pc |-> "idle", todo |-> {}]
  /\ UNCHANGED <<lists, errs, mgr, entry, created, handler, offer, monitor, reloads>>

=============================================================================
