--------------------------- MODULE PolicySources ----------------------------
(***************************************************************************)
(* The manager, its handlers and the policy sources the agent is           *)
(* configured with (agent/agent.go, setupPolicyManager).  All sources send *)
(* their lists on one channel of capacity two.                             *)
(***************************************************************************)
EXTENDS FileSource, NomadSource

CONSTANT Configurations  \* the sets of enabled sources to look at
ASSUME Configurations \subseteq SUBSET {"file", "nomad"}

VARIABLE enabled  \* the sources of this agent

vars == <<clients, files, nomad, enabled>>

Init ==
  /\ enabled \in Configurations
  /\ ClientsInit
  /\ FileInit
  /\ NomadInit
  /\ "file" \notin enabled => disk = [p \in Of("file") |-> "absent"]
  /\ "nomad" \notin enabled => server = [p \in Of("nomad") |-> "absent"]

\* A step of the manager, a handler or ReloadSources; of the file source and
\* its files; of the Nomad source and its servers.
ByClient(A) == A /\ UNCHANGED <<files, nomad, enabled>>
ByFile(A) == "file" \in enabled /\ A /\ UNCHANGED <<nomad, enabled>>
ByNomad(A) == "nomad" \in enabled /\ A /\ UNCHANGED <<files, enabled>>

ClientStep ==
  \/ ReceiveList \/ ReceiveError \/ Reconcile
  \/ \E h \in Handlers :
       StartHandler(h) \/ Receive(h) \/ TargetGone(h) \/ Leave(h) \/ Remove(h)
  \/ ReloadSources(enabled) \/ ReloadReturns

FileStep ==
  \/ \E p \in Of("file") : EditFile(p)
  \/ ListDirFails \/ FileMonitorIDs
  \/ \E h \in HandlersOf("file") : FileMonitorPolicy(h)

NomadStep ==
  \/ \E p \in Of("nomad") : ChangePolicy(p)
  \/ NomadMonitorIDs
  \/ \E h \in HandlersOf("nomad") : NomadMonitorPolicy(h)

Next == ByClient(ClientStep) \/ ByFile(FileStep) \/ ByNomad(NomadStep)

Spec == Init /\ [][Next]_vars

\* Goroutines are scheduled, selects do not ignore a ready case for ever, and a
\* query of the Nomad API does not fail for ever; senders that wait for room in a
\* channel are served in turn. Files, the server, reloads,
\* failures and targets are the environment's.
Fairness ==
  /\ WF_vars(ByClient(ReceiveList)) /\ WF_vars(ByClient(ReceiveError))
  /\ WF_vars(ByClient(Reconcile)) /\ WF_vars(ByClient(ReloadReturns))
  /\ \A h \in Handlers : /\ WF_vars(ByClient(StartHandler(h) \/ Leave(h) \/ Remove(h)))
                         /\ WF_vars(ByClient(Receive(h)))
  /\ WF_vars(ByFile(FileMonitorIDs)) /\ SF_vars(ByFile(SendScanError \/ SendList))
  /\ \A h \in HandlersOf("file") : WF_vars(ByFile(FileMonitorPolicy(h)))
  /\ SF_vars(ByNomad(ListPolicies)) /\ WF_vars(ByNomad(SendIDs \/ SendListError))
  /\ \A h \in HandlersOf("nomad") : /\ SF_vars(ByNomad(GetPolicy(h)))
                                    /\ WF_vars(ByNomad(PolicySent(h) \/ NomadMonitorEnds(h)))

FairSpec == Spec /\ Fairness

-----------------------------------------------------------------------------
(* Properties                                                              *)

\* No list is on its way from source s.
NoListPending(s) ==
  /\ mgr.source # s
  /\ \A i \in DOMAIN lists : lists[i].source # s

\* Lists wait in the channel while handlers leave on their own and the source
\* goes on scanning: once the lists of a source have been handled, the map holds
\* handlers only for the policies of its last list (Manager.Run, MonitorIDs).
TrackedIsListed ==
  /\ scan.pc # "read" /\ NoListPending("file") =>
       {p \in Of("file") : entry[p] # None} \subseteq scan.found
  /\ watch.pc = "query" /\ NoListPending("nomad") =>
       {p \in Of("nomad") : entry[p] # None} \subseteq watch.ids

\* MonitorPolicy of the file source has nothing left to send to handler h.
Quiet(h) == handler[h].pc = "loop" /\ monitor[h].pc = "wait"

\* Another handler of the policy of h has read it, and may have stored it.
ReadByAnother(h) ==
  \E g \in HandlersOf("file") \ {h} :
    g[1] = h[1] /\ monitor[g].pc \notin {"off", "start", "first"}

\* A handler has the policy its monitor read last, unless that one is the stored
\* policy, the first one it received; or was, until a later handler of this ID
\* stored another.  (handleIndividualPolicyRead, MonitorPolicy)
StaleOnlyIfStored ==
  \A h \in HandlersOf("file") :
    Quiet(h) /\ handler[h].policy # monitor[h].read =>
      monitor[h].read = policyMap[h[1]] \/ ReadByAnother(h)

\* Nobody is left to receive what ReloadSources, or a goroutine it waits for,
\* sends: a handler of the Nomad source or one that has left is to be notified,
\* policyMapLock is held to send to a handler that has left, or a channel of the
\* manager is full while it waits for the lock.
ReloadStuck ==
  \/ \E h \in reload.todo : SourceOf[h[1]] = "nomad" \/ Cancelled(h)
  \/ \E h \in HandlersOf("file") : monitor[h].pc = "first" /\ Cancelled(h)
  \/ mgr # Idle /\ (Len(lists) = Capacity \/ errs = Capacity)

\* ReloadSources holds the manager's lock while it waits for the ID monitor and
\* for every handler: it returns, except in the situations of ReloadStuck.
ReloadReturnsUnlessStuck == reload.pc # "idle" ~> (reload.pc = "idle" \/ ReloadStuck)

\* Blocking queries lose no change: whatever errors, late answers and changes
\* between two queries there are, in the end a handler that goes on running has
\* the policy the servers have, when that one is valid.
HandlerCatchesUp ==
  \A h \in HandlersOf("nomad") :
    <>[](handler[h].pc = "loop" /\ ~handler[h].stop /\ server[h[1]] \in Values
           => handler[h].policy = server[h[1]])

=============================================================================
