----------------------------- MODULE NomadSource ----------------------------
(***************************************************************************)
(* The Nomad policy source (policy/nomad/source.go): MonitorIDs and        *)
(* MonitorPolicy are loops of blocking queries.  A query returns when the  *)
(* index of what it asks for is not the one it waits on, when its wait     *)
(* time is over (with the same index, and the loop starts again: no step   *)
(* here) or with an error, after which the loop sleeps and tries again.    *)
(*                                                                         *)
(* Validation is what PolicyDocument models: a policy is "invalid" here    *)
(* when validateScalingPolicy returns an error.                            *)
(***************************************************************************)
EXTENDS PolicyClients

CONSTANT MaxIndex  \* bound: the index of the last change on the server
ASSUME MaxIndex \in Nat

VARIABLES
  server,   \* the policies on the Nomad servers (external)
  modified, \* the index of the last change of each policy
  index,    \* the index of the last change
  watch     \* MonitorIDs: where it is, q.WaitIndex, and the IDs to send

nomad == <<server, modified, index, watch>>

\* The first index of a policy is above 1, the WaitIndex of a first query.
FirstIndex == 2

NomadInit ==
  /\ server \in [Of("nomad") -> States]
  /\ modified = [p \in Of("nomad") |-> FirstIndex]
  /\ index = FirstIndex
  /\ watch = [pc |-> "query", index |-> 1, ids |-> {}]

\* A job with a scaling policy is registered, changed or removed.
ChangePolicy(p) ==
  /\ index < MaxIndex
  /\ index' = index + 1
  /\ modified' = [modified EXCEPT ![p] = index + 1]
  /\ \E v \in States \ {server[p]} : server' = [server EXCEPT ![p] = v]
  /\ UNCHANGED <<watch, clients>>

IndexHasChanged(new, old) == new # old

-----------------------------------------------------------------------------
(* MonitorIDs                                                              *)

\* Only enabled policies are listed, valid or not.
Listed(p) == server[p] \in Contents \union {"invalid"}

ListPolicies ==
  /\ watch.pc = "query"
  /\ IndexHasChanged(index, watch.index)
  /\ watch' = [pc |-> "list", index |-> index, ids |-> {p \in Of("nomad") : Listed(p)}]
  /\ UNCHANGED <<server, modified, index, clients>>

ListFails ==
  /\ watch.pc = "query"
  /\ watch' = [watch EXCEPT !.pc = "error"]
  /\ UNCHANGED <<server, modified, index, clients>>

SendIDs ==
  /\ watch.pc = "list"
  /\ Len(lists) < Capacity
  /\ lists' = Append(lists, [source |-> "nomad", ids |-> watch.ids])
  /\ watch' = [watch EXCEPT !.pc = "query"]
  /\ UNCHANGED <<server, modified, index, errs, mgr, entry, created, handler, offer, monitor,
                 reload, reloads>>

SendListError ==
  /\ watch.pc = "error"
  /\ errs < Capacity
  /\ errs' = errs + 1
  /\ watch' = [watch EXCEPT !.pc = "query"]
  /\ UNCHANGED <<server, modified, index, lists, mgr, entry, created, handler, offer, monitor,
                 reload, reloads>>

-----------------------------------------------------------------------------
(* MonitorPolicy                                                           *)

AtQuery(h) == monitor[h].pc \in {"start", "query"} /\ ~Cancelled(h)
OnlyMonitor(h) == UNCHANGED <<nomad, lists, errs, mgr, entry, created, handler, reload, reloads>>

\* The index is updated also when the policy is not valid.
GetPolicy(h) ==
  /\ AtQuery(h)
  /\ server[h[1]] # "absent"
  /\ IndexHasChanged(modified[h[1]], monitor[h].index)
  /\ monitor' = [monitor EXCEPT ![h].pc = "send", ![h].index = modified[h[1]]]
  /\ offer' = [offer EXCEPT ![h] = IF server[h[1]] = "invalid" THEN Error ELSE server[h[1]]]
  /\ OnlyMonitor(h)

\* An error of the API; a policy that does not exist always gives one.
GetPolicyFails(h) ==
  /\ AtQuery(h)
  /\ monitor' = [monitor EXCEPT ![h].pc = "send"]
  /\ offer' = [offer EXCEPT ![h] = Error]
  /\ OnlyMonitor(h)

\* Faulty variant: the index to wait on is that of the policy once it is sent.
PolicySentNewIndex(h) ==
  /\ monitor[h].pc = "send"
  /\ offer[h] = Nothing
  /\ monitor' = [monitor EXCEPT ![h].pc = "query", ![h].index = modified[h[1]]]
  /\ UNCHANGED offer
  /\ OnlyMonitor(h)

PolicySent(h) ==
  /\ monitor[h].pc = "send"
  /\ offer[h] = Nothing
  /\ monitor' = [monitor EXCEPT ![h].pc = "query"]
  /\ UNCHANGED offer
  /\ OnlyMonitor(h)

\* Seen before a query and when one returns, not while a send waits.
NomadMonitorEnds(h) ==
  /\ monitor[h].pc \in {"start", "query"}
  /\ Cancelled(h)
  /\ monitor' = [monitor EXCEPT ![h].pc = "ended"]
  /\ UNCHANGED offer
  /\ OnlyMonitor(h)

NomadMonitorIDs == ListPolicies \/ ListFails \/ SendIDs \/ SendListError

NomadMonitorPolicy(h) ==
  GetPolicy(h) \/ GetPolicyFails(h) \/ PolicySent(h) \/ NomadMonitorEnds(h)

=============================================================================
