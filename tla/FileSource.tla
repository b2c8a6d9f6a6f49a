----------------------------- MODULE FileSource -----------------------------
(***************************************************************************)
(* The file policy source (policy/file/source.go): MonitorIDs lists the    *)
(* policies of a directory, once and again for every reload, and           *)
(* MonitorPolicy, one goroutine per handler, reads one policy, first under *)
(* policyMapLock and then for every reload.                                *)
(*                                                                         *)
(* Every policy is in a file of its own and stands for the ID that         *)
(* getFilePolicyID keeps for its path and name.  Files may be edited at    *)
(* any time, also while the directory is read.                             *)
(***************************************************************************)
EXTENDS PolicyClients

CONSTANT MaxEdits  \* bound: changes of the files
ASSUME MaxEdits \in Nat

VARIABLES
  disk,       \* what the file of each policy holds
  edits,
  policyMap,  \* s.policyMap: "unknown", NoPolicy (only file and name) or a policy
  scan        \* MonitorIDs: where it is, the files left to read, and the IDs found

files == <<disk, edits, policyMap, scan>>

Scanning(forReload) ==
  [pc |-> "read", left |-> Of("file"), found |-> {}, failed |-> FALSE, reload |-> forReload]

FileInit ==
  /\ disk \in [Of("file") -> States]
  /\ edits = 0
  /\ policyMap = [p \in Of("file") |-> "unknown"]
  /\ scan = Scanning(FALSE)

\* An operator, or a deployment tool, changes a file.
EditFile(p) ==
  /\ edits < MaxEdits
  /\ edits' = edits + 1
  /\ \E v \in States \ {disk[p]} : disk' = [disk EXCEPT ![p] = v]
  /\ UNCHANGED <<policyMap, scan, clients>>

\* policyMapLock is held across steps by the first read of a policy only.
MapLockFree == \A h \in HandlersOf("file") : monitor[h].pc # "first"

-----------------------------------------------------------------------------
(* MonitorIDs: identifyPolicyIDs and handleDir                             *)

\* The directory cannot be read: an error, and no IDs.
ListDirFails ==
  /\ scan.pc = "read"
  /\ scan.left = Of("file")
  /\ scan' = [scan EXCEPT !.left = {}, !.failed = TRUE]
  /\ UNCHANGED <<disk, edits, policyMap, clients>>

\* One file: an enabled, valid policy gets an entry in policyMap, under its
\* lock; one that is not decoded or not valid leaves an error.
ReadFile(p) ==
  /\ scan.pc = "read"
  /\ p \in scan.left
  /\ disk[p] \in Contents => MapLockFree
  /\ scan' = [scan EXCEPT !.left = @ \ {p},
                          !.found = IF disk[p] \in Contents THEN @ \union {p} ELSE @,
                          !.failed = @ \/ disk[p] = "invalid"]
  /\ policyMap' = IF disk[p] \in Contents /\ policyMap[p] = "unknown"
                  THEN [policyMap EXCEPT ![p] = NoPolicy] ELSE policyMap
  /\ UNCHANGED <<disk, edits, clients>>

SendScanError ==
  /\ scan.pc = "read" /\ scan.left = {} /\ scan.failed
  /\ errs < Capacity
  /\ errs' = errs + 1
  /\ scan' = [scan EXCEPT !.failed = FALSE]
  /\ UNCHANGED <<disk, edits, policyMap, lists, mgr, entry, created, handler, offer, monitor,
                 reload, reloads>>

\* The list is sent even when it is empty, and after an error.
SendList ==
  /\ scan.pc = "read" /\ scan.left = {} /\ ~scan.failed
  /\ Len(lists) < Capacity
  /\ lists' = Append(lists, [source |-> "file", ids |-> scan.found])
  /\ scan' = [scan EXCEPT !.pc = IF scan.reload THEN "complete" ELSE "select"]
  /\ UNCHANGED <<disk, edits, policyMap, errs, mgr, entry, created, handler, offer, monitor,
                 reload, reloads>>

-----------------------------------------------------------------------------
(* ReloadIDsMonitor                                                        *)

\* The select of MonitorIDs receives from reloadCh.
ReloadIDs ==
  /\ reload.pc = "ids"
  /\ scan.pc = "select"
  /\ reload' = [reload EXCEPT !.pc = "wait"]
  /\ scan' = Scanning(TRUE)
  /\ UNCHANGED <<disk, edits, policyMap, lists, errs, mgr, entry, created, handler, offer,
                 monitor, reloads>>

\* Faulty variant: a reload is complete only when every file could be read.
ReloadCompleteUnlessError ==
  /\ scan.pc = "complete"
  /\ reload.pc = "wait"
  /\ scan' = [scan EXCEPT !.pc = "select"]
  /\ reload' = IF \E p \in Of("file") : disk[p] = "invalid" THEN reload ELSE NotifyAll
  /\ UNCHANGED <<disk, edits, policyMap, lists, errs, mgr, entry, created, handler, offer,
                 monitor, reloads>>

\* reloadCompleteCh: ReloadSources goes on to the handlers in the map.
ReloadComplete ==
  /\ scan.pc = "complete"
  /\ reload.pc = "wait"
  /\ scan' = [scan EXCEPT !.pc = "select"]
  /\ reload' = NotifyAll
  /\ UNCHANGED <<disk, edits, policyMap, lists, errs, mgr, entry, created, handler, offer,
                 monitor, reloads>>

-----------------------------------------------------------------------------
(* MonitorPolicy                                                           *)

\* Faulty variant: a policy that is stored already is never returned again.
ReadOnce(p) ==
  IF disk[p] \in {"absent", "invalid"} THEN Error
  ELSE IF policyMap[p] \notin {"unknown", NoPolicy} THEN Nothing
  ELSE disk[p]

\* What the read returns: an error, nothing when the policy is the stored one,
\* or the policy.
handleIndividualPolicyRead(p) ==
  IF disk[p] \in {"absent", "invalid"} THEN Error
  ELSE IF disk[p] = policyMap[p] THEN Nothing
  ELSE disk[p]

\* h's monitor is at "from", reads the file, and sends the result, if any, at "to".
Read(h, from, to) ==
  LET r == IF policyMap[h[1]] = "unknown" THEN Error ELSE handleIndividualPolicyRead(h[1])
  IN  /\ monitor[h].pc = from
      /\ MapLockFree
      /\ offer' = [offer EXCEPT ![h] = r]
      /\ monitor' = [monitor EXCEPT ![h].pc = IF r = Nothing THEN "wait" ELSE to,
                                    ![h].read = IF r = Error THEN @ ELSE disk[h[1]]]
      /\ UNCHANGED <<files, lists, errs, mgr, entry, created, handler, reload, reloads>>

\* The lock is kept until the handler has received.
FirstRead(h) == Read(h, "start", "first")

\* A policy that was received is stored; the lock is released.
FirstSent(h) ==
  /\ monitor[h].pc = "first"
  /\ offer[h] = Nothing
  /\ monitor' = [monitor EXCEPT ![h].pc = "wait"]
  /\ policyMap' = IF monitor[h].read = NoPolicy THEN policyMap
                  ELSE [policyMap EXCEPT ![h[1]] = monitor[h].read]
  /\ UNCHANGED <<disk, edits, scan, lists, errs, mgr, entry, created, handler, offer, reload,
                 reloads>>

ReceiveReload(h) ==
  /\ h \in reload.todo
  /\ monitor[h].pc = "wait"
  /\ reload' = [reload EXCEPT !.todo = @ \ {h}]
  /\ monitor' = [monitor EXCEPT ![h].pc = "reload"]
  /\ UNCHANGED <<files, lists, errs, mgr, entry, created, handler, offer, reloads>>

Reread(h) == Read(h, "reload", "again")

\* What is sent after a reload is not stored.
RereadSent(h) ==
  /\ monitor[h].pc = "again"
  /\ offer[h] = Nothing
  /\ monitor' = [monitor EXCEPT ![h].pc = "wait"]
  /\ UNCHANGED <<files, lists, errs, mgr, entry, created, handler, offer, reload, reloads>>

FileMonitorEnds(h) ==
  /\ monitor[h].pc = "wait"
  /\ Cancelled(h)
  /\ monitor' = [monitor EXCEPT ![h].pc = "ended"]
  /\ UNCHANGED <<files, lists, errs, mgr, entry, created, handler, offer, reload, reloads>>

FileMonitorIDs ==
  (\E p \in Of("file") : ReadFile(p)) \/ SendScanError \/ SendList \/ ReloadIDs \/ ReloadComplete

FileMonitorPolicy(h) ==
  FirstRead(h) \/ FirstSent(h) \/ ReceiveReload(h) \/ Reread(h) \/ RereadSent(h) \/ FileMonitorEnds(h)

=============================================================================
