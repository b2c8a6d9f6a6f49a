------------------------ MODULE ClusterTargetProofs -------------------------
(***************************************************************************)
(* Proofs about the cluster targets, for any pool, group, provider and     *)
(* number of calls: what holds when calls overlap, and what holds when     *)
(* they do not.                                                            *)
(***************************************************************************)
EXTENDS ClusterTarget, FiniteSetTheorems, TLAPS

\* Most steps are first-order; the others say SMT.
USE Zenon

Places ==
  {"idle", "scale", "request", "identify", "info", "drain", "remove", "activities", "terminate",
   "terminating", "deleting", "resize", "resized", "post", "purge", "ok", "failed"}

NodeRecords ==
  [status : {"absent", "init", "ready", "down"}, eligible : BOOLEAN, drain : BOOLEAN]

CallRecords == [pc : Places, count : Int, num : Int, ids : SUBSET Nodes, todo : SUBSET Nodes,
                waiting : SUBSET Nodes, bad : BOOLEAN, tries : Int]

Types ==
  /\ node \in [Nodes -> NodeRecords]
  /\ call \in [Calls -> CallRecords]
  /\ desired \in Int

\* Where no nodes are chosen yet, where the chosen ones are out of the group, and
\* where they have been told to stop.
Before == {"idle", "scale", "request", "identify", "resize", "resized"}
Told == {"terminating", "deleting", "post", "purge", "ok"}
Removed == {"activities", "terminate"} \union Told

\* What a call has done so far, with r the call, g the group, s the instances
\* that were told to stop and u those that run.
CallOK(r, g, s, u) ==
  /\ r.ids \subseteq Pool \ {Own}
  /\ r.todo \subseteq r.ids /\ r.waiting \subseteq r.ids
  /\ r.ids \subseteq u \union s
  /\ r.pc \in Before => r.ids = {}
  /\ r.pc \in Removed => r.ids \intersect g = {}
  /\ r.pc \in Told => r.ids \subseteq s

\* A node that Nomad knows has had an instance that runs or was told to stop:
\* no other instance will be launched under its number.
NodesHaveInstances ==
  \A n \in Nodes : node[n].status # "absent" => n \in running \union stopping

ClusterInv ==
  /\ Types
  /\ \A c \in Calls : CallOK(call[c], group, stopping, running)
  /\ NodesHaveInstances
  /\ stopping \subseteq Pool \ {Own}
  /\ OthersKept

-----------------------------------------------------------------------------
(* Steps that change nothing but a call                                    *)

\* A call may go from one place to another with the nodes it has.
Follows(from, to) ==
  /\ to \in Before => from \in Before
  /\ to \in Removed => from \in Removed \union Before
  /\ to \in Told => from \in Told \union Before

\* The other calls stay as they should be when the group shrinks and more
\* instances are told to stop.
LEMMA CallChanges ==
  ASSUME ClusterInv, node' = node, running' = running, desired' \in Int,
         group' \subseteq group, stopping \subseteq stopping', stopping' \subseteq Pool \ {Own},
         NEW c \in Calls, NEW r \in CallRecords, call' = [call EXCEPT ![c] = r],
         CallOK(r, group', stopping', running)
  PROVE  ClusterInv'
<1>1. Types'
  BY DEF ClusterInv, Types
<1>2. \A d \in Calls : CallOK(call'[d], group', stopping', running')
  <2> SUFFICES ASSUME NEW d \in Calls PROVE CallOK(call'[d], group', stopping', running)
    OBVIOUS
  <2>1. call'[d] = IF d = c THEN r ELSE call[d]
    BY DEF ClusterInv, Types
  <2>2. CallOK(call[d], group', stopping', running)
    BY DEF ClusterInv, CallOK
  <2> QED
    BY <2>1, <2>2
<1>3. NodesHaveInstances'
  BY DEF ClusterInv, NodesHaveInstances
<1>4. OthersKept'
  BY DEF ClusterInv, OthersKept
<1> QED
  BY <1>1, <1>2, <1>3, <1>4 DEF ClusterInv

\* The same with everything else unchanged.
LEMMA OnlyCallChanges ==
  ASSUME ClusterInv, UNCHANGED cluster,
         NEW c \in Calls, NEW r \in CallRecords, call' = [call EXCEPT ![c] = r],
         CallOK(r, group, stopping, running)
  PROVE  ClusterInv'
<1>1. /\ node' = node /\ running' = running /\ desired' = desired
      /\ group' = group /\ stopping' = stopping
  BY DEF cluster
<1>2. desired' \in Int /\ stopping' \subseteq Pool \ {Own}
  BY <1>1 DEF ClusterInv, Types
<1> QED
  BY <1>1, <1>2, CallChanges

LEMMA StepKeepsInv ==
  ASSUME ClusterInv, UNCHANGED cluster, NEW c \in Calls,
         NEW from \in Places, NEW to \in Places, Step(c, from, to), Follows(from, to)
  PROVE  ClusterInv'
<1> DEFINE r == [call[c] EXCEPT !.pc = to]
<1>1. call[c] \in CallRecords /\ call[c].pc = from
  BY DEF ClusterInv, Types, Step
<1>2. r \in CallRecords /\ call' = [call EXCEPT ![c] = r]
  BY <1>1 DEF CallRecords, Step
<1>3. CallOK(call[c], group, stopping, running)
  BY DEF ClusterInv
<1>4. CallOK(r, group, stopping, running)
  BY <1>1, <1>3 DEF CallOK, CallRecords, Follows, Before, Removed, Told
<1> QED
  BY <1>2, <1>4, OnlyCallChanges

LEMMA RetryKeepsInv ==
  ASSUME ClusterInv, UNCHANGED cluster, NEW c \in Calls, NEW done \in BOOLEAN,
         NEW from \in Places, NEW to \in Places, Retry(c, from, to, done), Follows(from, to)
  PROVE  ClusterInv'
<1> DEFINE p == IF done THEN to
                ELSE IF call[c].tries + 1 = RetryLimit THEN "failed" ELSE from
           k == IF done THEN 0 ELSE call[c].tries + 1
           r == [call[c] EXCEPT !.pc = p, !.tries = k]
<1>1. call[c] \in CallRecords /\ call[c].pc = from
  BY DEF ClusterInv, Types, Retry
<1>2. call' = [call EXCEPT ![c] = r]
  BY DEF Retry
<1>3. p \in {from, to, "failed"} /\ p \in Places /\ k \in Int
  <2>1. call[c].tries \in Int
    BY <1>1 DEF CallRecords
  <2>2. k \in Int
    BY <2>1, SMT
  <2>3. p \in {from, to, "failed"}
    BY Zenon
  <2> QED
    BY <2>2, <2>3 DEF Places
<1> HIDE DEF p, k
<1>4. r \in CallRecords
  BY <1>1, <1>3 DEF CallRecords
<1>5. CallOK(call[c], group, stopping, running)
  BY DEF ClusterInv
<1>6. /\ r.pc = p /\ r.ids = call[c].ids
      /\ r.todo = call[c].todo /\ r.waiting = call[c].waiting
  BY <1>1 DEF CallRecords
<1>7. CallOK(r, group, stopping, running)
  BY <1>1, <1>3, <1>5, <1>6 DEF CallOK, Follows, Before, Removed, Told
<1> HIDE DEF r
<1> QED
  BY <1>2, <1>4, <1>7, OnlyCallChanges

LEMMA FailsKeepsInv ==
  ASSUME ClusterInv, NEW c \in Calls, NEW from \in Places, Fails(c, from)
  PROVE  ClusterInv'
<1>1. "failed" \in Places /\ Follows(from, "failed")
  BY DEF Follows, Before, Removed, Told, Places
<1>2. Step(c, from, "failed") /\ UNCHANGED cluster
  BY DEF Fails
<1> QED
  BY <1>1, <1>2, StepKeepsInv

-----------------------------------------------------------------------------
(* The steps of the code                                                   *)

LEMMA CallFacts ==
  ASSUME ClusterInv, NEW c \in Calls
  PROVE  call[c] \in CallRecords /\ CallOK(call[c], group, stopping, running)
  BY DEF ClusterInv, Types

LEMMA StatusKeepsInv ==
  ASSUME ClusterInv, NEW c \in Calls, Status(c)
  PROVE  ClusterInv'
<1>1. PICK count \in Counts : call' = [call EXCEPT ![c].pc = "scale", ![c].count = count]
  BY DEF Status
<1> DEFINE r == [call[c] EXCEPT !.pc = "scale", !.count = count]
<1>2. call' = [call EXCEPT ![c] = r] /\ UNCHANGED cluster /\ call[c].pc = "idle"
  BY <1>1 DEF Status
<1>3. r \in CallRecords
  BY CallFacts, ScaleInConstants DEF CallRecords, Places
<1>4. CallOK(r, group, stopping, running)
  BY <1>2, CallFacts DEF CallRecords, CallOK, Before, Removed, Told
<1> QED
  BY <1>2, <1>3, <1>4, OnlyCallChanges

LEMMA CalculateDirectionKeepsInv ==
  ASSUME ClusterInv, NEW c \in Calls, call[c].pc = "scale", UNCHANGED cluster,
         calculateDirection(c, desired, call[c].count)
  PROVE  ClusterInv'
<1> DEFINE num == desired - call[c].count
           p == IF num > 0 THEN "request" ELSE IF num < 0 THEN "resize" ELSE "ok"
           r == [call[c] EXCEPT !.num = num, !.pc = p]
<1>1. call' = [call EXCEPT ![c] = r]
  BY DEF calculateDirection
<1>2. num \in Int /\ p \in {"request", "resize", "ok"}
  <2>1. call[c].count \in Int /\ desired \in Int
    BY CallFacts DEF CallRecords, ClusterInv, Types
  <2> QED
    BY <2>1, SMT
<1> HIDE DEF num, p
<1>3. r \in CallRecords
  BY <1>2, CallFacts DEF CallRecords, Places
<1>4. CallOK(r, group, stopping, running)
  BY <1>2, CallFacts DEF CallRecords, CallOK, Before, Removed, Told
<1> QED
  BY <1>1, <1>3, <1>4, OnlyCallChanges

LEMMA IdentifyKeepsInv ==
  ASSUME ClusterInv, NEW c \in Calls, identifyTargets(c)
  PROVE  ClusterInv'
<1> DEFINE ids == First(call[c].num, filterByClass \ {Own})
           r == [call[c] EXCEPT !.pc = "info", !.ids = ids]
<1>1. call' = [call EXCEPT ![c] = r] /\ UNCHANGED cluster /\ call[c].pc = "identify"
  BY DEF identifyTargets
<1>2. ids \subseteq filterByClass \ {Own}
  BY DEF First
<1>3. ids \subseteq Pool \ {Own} /\ ids \subseteq running \union stopping
  BY <1>2, ScaleInConstants DEF filterByClass, ClusterInv, NodesHaveInstances
<1> HIDE DEF ids
<1>4. r \in CallRecords
  BY <1>3, CallFacts, ScaleInConstants, ZenonT(60) DEF CallRecords, Places
<1>5. CallOK(r, group, stopping, running)
  BY <1>1, <1>3, CallFacts DEF CallRecords, CallOK, Before, Removed, Told
<1> QED
  BY <1>1, <1>4, <1>5, OnlyCallChanges

LEMMA TodoIdsKeepsInv ==
  ASSUME ClusterInv, UNCHANGED cluster, NEW c \in Calls,
         NEW from \in Places, NEW to \in Places, call[c].pc = from, Follows(from, to),
         call' = [call EXCEPT ![c].pc = to, ![c].todo = call[c].ids]
  PROVE  ClusterInv'
<1> DEFINE r == [call[c] EXCEPT !.pc = to, !.todo = call[c].ids]
<1>1. call' = [call EXCEPT ![c] = r]
  OBVIOUS
<1>2. r \in CallRecords
  BY CallFacts DEF CallRecords
<1>3. CallOK(r, group, stopping, running)
  BY CallFacts, SMT DEF CallRecords, CallOK, Follows, Before, Removed, Told
<1> QED
  BY <1>1, <1>2, <1>3, OnlyCallChanges

\* A goroutine of drainNodes or the loop of RunPostScaleInTasks has dealt with
\* some of its nodes, and node n is drained or purged or stays as it is.
LEMMA ProgressKeepsInv ==
  ASSUME ClusterInv, UNCHANGED <<group, desired, running, stopping>>, NEW c \in Calls,
         NEW todo \in SUBSET call[c].ids, NEW waiting \in SUBSET call[c].ids, NEW bad \in BOOLEAN,
         call' = [call EXCEPT ![c] = [call[c] EXCEPT !.todo = todo, !.waiting = waiting, !.bad = bad]],
         NEW n \in call[c].ids, NEW v \in NodeRecords, v.status \in {node[n].status, "absent"},
         node' = node \/ node' = [node EXCEPT ![n] = v]
  PROVE  ClusterInv'
<1> DEFINE r == [call[c] EXCEPT !.todo = todo, !.waiting = waiting, !.bad = bad]
<1>1. r \in CallRecords
  BY CallFacts, ZenonT(60) DEF CallRecords
<1>2. CallOK(r, group, stopping, running)
  BY CallFacts DEF CallRecords, CallOK
<1> HIDE DEF r
<1>3. n \in Pool /\ n # Own /\ n \in Nodes
  BY CallFacts, ScaleInConstants DEF CallOK
<1>4. Types'
  BY <1>1 DEF ClusterInv, Types, r
<1>5. \A d \in Calls : CallOK(call'[d], group', stopping', running')
  <2> SUFFICES ASSUME NEW d \in Calls PROVE CallOK(call'[d], group, stopping, running)
    OBVIOUS
  <2>1. call'[d] = IF d = c THEN r ELSE call[d]
    BY DEF ClusterInv, Types, r
  <2> QED
    BY <1>2, <2>1, CallFacts
<1>6. NodesHaveInstances'
  BY <1>3 DEF ClusterInv, NodesHaveInstances, Types
<1>7. OthersKept'
  BY <1>3 DEF ClusterInv, OthersKept, Types
<1> QED
  BY <1>4, <1>5, <1>6, <1>7 DEF ClusterInv

LEMMA PreScaleInKeepsInv ==
  ASSUME ClusterInv, NEW c \in Calls, PreScaleIn(c)
  PROVE  ClusterInv'
<1>1. /\ call[c] \in CallRecords /\ call[c].bad \in BOOLEAN
      /\ call[c].todo \subseteq call[c].ids /\ call[c].waiting \subseteq call[c].ids
      /\ call[c].ids \subseteq Nodes
  BY CallFacts DEF CallRecords, CallOK
<1>2. CASE identifyTargets(c)
  BY <1>2, IdentifyKeepsInv
<1>3. CASE IdentifyFails(c) \/ RemoteIDFails(c)
  BY <1>3, FailsKeepsInv DEF IdentifyFails, RemoteIDFails, Places
<1>4. CASE getRemoteIDMap(c)
  <2>1. Follows("info", "drain")
    BY DEF Follows, Before, Removed, Told
  <2> QED
    BY <1>4, <2>1, TodoIdsKeepsInv DEF getRemoteIDMap, Places
<1>5. ASSUME NEW n \in Nodes, drainNode(c, n) PROVE ClusterInv'
  <2> DEFINE v == [node[n] EXCEPT !.eligible = FALSE, !.drain = TRUE]
             todo == call[c].todo \ {n}
             waiting == call[c].waiting \union {n}
  <2>1. v \in NodeRecords /\ v.status \in {node[n].status, "absent"}
    BY DEF ClusterInv, Types, NodeRecords
  <2>2. node' = [node EXCEPT ![n] = v]
    BY <1>5 DEF drainNode
  <2>3. n \in call[c].ids /\ todo \in SUBSET call[c].ids /\ waiting \in SUBSET call[c].ids
    BY <1>1, <1>5 DEF drainNode
  <2>4. call' = [call EXCEPT ![c] = [call[c] EXCEPT !.todo = todo, !.waiting = waiting,
                                                    !.bad = call[c].bad]]
    BY <1>1, <1>5 DEF drainNode, CallRecords
  <2>5. UNCHANGED <<group, desired, running, stopping>>
    BY <1>5 DEF drainNode
  <2> HIDE DEF v, todo, waiting
  <2> QED
    BY <1>1, <2>1, <2>2, <2>3, <2>4, <2>5, ProgressKeepsInv
<1>6. ASSUME NEW n \in Nodes,
             DrainRequestFails(c, n) \/ monitorNodeDrain(c, n) \/ DrainFails(c, n)
      PROVE  ClusterInv'
  <2>1. PICK todo \in SUBSET call[c].ids, waiting \in SUBSET call[c].ids, bad \in BOOLEAN :
          call' = [call EXCEPT ![c] = [call[c] EXCEPT !.todo = todo, !.waiting = waiting,
                                                      !.bad = bad]]
    <3>1. CASE DrainRequestFails(c, n)
      <4>1. call' = [call EXCEPT ![c] = [call[c] EXCEPT !.todo = call[c].todo \ {n},
                                           !.waiting = call[c].waiting, !.bad = TRUE]]
        BY <1>1, <3>1 DEF DrainRequestFails, CallRecords
      <4> QED
        BY <1>1, <4>1
    <3>2. CASE monitorNodeDrain(c, n)
      <4>1. call' = [call EXCEPT ![c] = [call[c] EXCEPT !.todo = call[c].todo,
                                           !.waiting = call[c].waiting \ {n}, !.bad = call[c].bad]]
        BY <1>1, <3>2 DEF monitorNodeDrain, CallRecords
      <4> QED
        BY <1>1, <4>1
    <3>3. CASE DrainFails(c, n)
      <4>1. call' = [call EXCEPT ![c] = [call[c] EXCEPT !.todo = call[c].todo,
                                           !.waiting = call[c].waiting \ {n}, !.bad = TRUE]]
        BY <1>1, <3>3 DEF DrainFails, CallRecords
      <4> QED
        BY <1>1, <4>1
    <3> QED
      BY <1>6, <3>1, <3>2, <3>3
  <2>2. UNCHANGED cluster /\ n \in call[c].ids
    BY <1>1, <1>6 DEF DrainRequestFails, monitorNodeDrain, DrainFails
  <2>3. node' = node /\ UNCHANGED <<group, desired, running, stopping>>
    BY <2>2 DEF cluster
  <2>4. node[n] \in NodeRecords /\ node[n].status \in {node[n].status, "absent"}
    BY DEF ClusterInv, Types
  <2> QED
    BY <2>1, <2>2, <2>3, <2>4, ProgressKeepsInv
<1>7. CASE drainNodes(c)
  <2> DEFINE to == IF call[c].bad THEN "failed" ELSE "remove"
  <2>1. to \in {"failed", "remove"} /\ Step(c, "drain", to) /\ UNCHANGED cluster
    BY <1>7 DEF drainNodes
  <2> HIDE DEF to
  <2>2. to \in Places /\ Follows("drain", to)
    BY <2>1 DEF Places, Follows, Before, Removed, Told
  <2>3. "drain" \in Places
    BY DEF Places
  <2> QED
    BY <2>1, <2>2, <2>3, StepKeepsInv
<1> QED
  BY <1>2, <1>3, <1>4, <1>5, <1>6, <1>7 DEF PreScaleIn

LEMMA PostScaleInKeepsInv ==
  ASSUME ClusterInv, NEW c \in Calls, PostScaleIn(c)
  PROVE  ClusterInv'
<1>1. /\ call[c] \in CallRecords /\ call[c].bad \in BOOLEAN
      /\ call[c].todo \subseteq call[c].ids /\ call[c].waiting \subseteq call[c].ids
  BY CallFacts DEF CallRecords, CallOK
<1>2. /\ {"post", "purge", "ok", "failed"} \subseteq Places
      /\ Follows("post", "ok") /\ Follows("post", "purge")
      /\ Follows("purge", "ok") /\ Follows("purge", "failed")
  BY DEF Places, Follows, Before, Removed, Told
<1>3. CASE Step(c, "post", "ok") /\ UNCHANGED cluster
  BY <1>2, <1>3, StepKeepsInv
<1>4. CASE /\ call[c].pc = "post" /\ UNCHANGED cluster
           /\ call' = [call EXCEPT ![c].pc = "purge", ![c].todo = call[c].ids]
  BY <1>2, <1>4, TodoIdsKeepsInv
<1>5. ASSUME NEW n \in Nodes, PurgeNode(c, n) PROVE ClusterInv'
  <2>1. PICK todo \in SUBSET call[c].ids, bad \in BOOLEAN :
          call' = [call EXCEPT ![c] = [call[c] EXCEPT !.todo = todo, !.waiting = call[c].waiting,
                                                      !.bad = bad]]
    <3>1. \/ call' = [call EXCEPT ![c] = [call[c] EXCEPT !.todo = call[c].todo \ {n},
                                            !.waiting = call[c].waiting, !.bad = call[c].bad]]
          \/ call' = [call EXCEPT ![c] = [call[c] EXCEPT !.todo = call[c].todo \ {n},
                                            !.waiting = call[c].waiting, !.bad = TRUE]]
      BY <1>1, <1>5 DEF PurgeNode, CallRecords
    <3> QED
      BY <1>1, <3>1
  <2>2. n \in call[c].ids /\ UNCHANGED <<group, desired, running, stopping>>
    BY <1>1, <1>5 DEF PurgeNode
  <2>3. node' = node \/ node' = [node EXCEPT ![n] = Absent]
    BY <1>5 DEF PurgeNode
  <2>4. Absent \in NodeRecords /\ Absent.status \in {node[n].status, "absent"}
    BY DEF Absent, NodeRecords
  <2> QED
    BY <1>1, <2>1, <2>2, <2>3, <2>4, ProgressKeepsInv
<1>6. CASE PurgeReturns(c)
  <2> DEFINE to == IF call[c].bad THEN "failed" ELSE "ok"
  <2>1. to \in {"failed", "ok"} /\ Step(c, "purge", to) /\ UNCHANGED cluster
    BY <1>6 DEF PurgeReturns
  <2> HIDE DEF to
  <2> QED
    BY <1>2, <2>1, StepKeepsInv
<1> QED
  BY <1>3, <1>4, <1>5, <1>6 DEF PostScaleIn, RunPostScaleInTasks

\* The requests to the provider: the call goes on with its nodes out of the group
\* or told to stop.
LEMMA RequestKeepsInv ==
  ASSUME ClusterInv, NEW c \in Calls, NEW from \in Places, NEW to \in Places,
         Step(c, from, to), to \notin Before,
         node' = node, running' = running, desired' \in Int, group' \subseteq group,
         stopping' \in {stopping, stopping \union call[c].ids},
         to \in Removed => call[c].ids \intersect group' = {},
         to \in Told => call[c].ids \subseteq stopping'
  PROVE  ClusterInv'
<1> DEFINE r == [call[c] EXCEPT !.pc = to]
<1>1. r \in CallRecords /\ call' = [call EXCEPT ![c] = r]
  BY CallFacts DEF CallRecords, Step
<1>2. /\ r.pc = to /\ r.ids = call[c].ids
      /\ r.todo = call[c].todo /\ r.waiting = call[c].waiting
  BY CallFacts DEF CallRecords
<1> HIDE DEF r
<1>3. CallOK(r, group', stopping', running)
  BY <1>2, CallFacts DEF CallOK
<1>4. stopping \subseteq stopping' /\ stopping' \subseteq Pool \ {Own}
  BY CallFacts DEF CallOK, ClusterInv
<1> QED
  BY <1>1, <1>3, <1>4, CallChanges

LEMMA DesiredType ==
  ASSUME ClusterInv, NEW c \in Calls
  PROVE  desired - Cardinality(call[c].ids) \in Int /\ call[c].count \in Int
<1>1. IsFiniteSet(call[c].ids)
  BY CallFacts, ScaleInConstants, FS_Subset DEF CallRecords
<1>2. Cardinality(call[c].ids) \in Nat
  BY <1>1, FS_CardinalityType
<1> QED
  BY <1>2, CallFacts, SMT DEF CallRecords, ClusterInv, Types

LEMMA ResizeKeepsInv ==
  ASSUME ClusterInv, NEW c \in Calls, Step(c, "resize", "resized"), desired' = call[c].count,
         UNCHANGED <<node, group, running, stopping, lost>>
  PROVE  ClusterInv'
<1> DEFINE r == [call[c] EXCEPT !.pc = "resized"]
<1>1. r \in CallRecords /\ call' = [call EXCEPT ![c] = r]
  BY CallFacts DEF CallRecords, Places, Step
<1>2. call[c].pc = "resize"
  BY DEF Step
<1>3. CallOK(r, group', stopping', running)
  BY <1>2, CallFacts DEF CallRecords, CallOK, Before, Removed, Told
<1>4. desired' \in Int /\ stopping' \subseteq Pool \ {Own}
  BY DesiredType DEF ClusterInv
<1> HIDE DEF r
<1> QED
  BY <1>1, <1>3, <1>4, CallChanges

\* Scale up to the first request, which is the same in the three targets.
LEMMA ScaleStartKeepsInv ==
  ASSUME ClusterInv, NEW c \in Calls, UNCHANGED cluster, call[c].pc = "scale",
         IF call[c].count = DryRunCount THEN Step(c, "scale", "ok")
                                        ELSE calculateDirection(c, desired, call[c].count)
  PROVE  ClusterInv'
<1>1. {"scale", "ok"} \subseteq Places /\ Follows("scale", "ok")
  BY DEF Places, Follows, Before, Removed, Told
<1>2. CASE Step(c, "scale", "ok")
  BY <1>1, <1>2, StepKeepsInv
<1>3. CASE calculateDirection(c, desired, call[c].count)
  BY <1>3, CalculateDirectionKeepsInv
<1> QED
  BY <1>2, <1>3

LEMMA ScaleReqKeepsInv ==
  ASSUME ClusterInv, NEW c \in Calls, Step(c, "request", "identify"), UNCHANGED cluster
  PROVE  ClusterInv'
<1>1. {"request", "identify"} \subseteq Places /\ Follows("request", "identify")
  BY DEF Places, Follows, Before, Removed, Told
<1> QED
  BY <1>1, StepKeepsInv

\* detachInstances and terminateInstances.
LEMMA DetachTerminateKeepsInv ==
  ASSUME ClusterInv, NEW c \in Calls, detachInstances(c) \/ terminateInstances(c)
  PROVE  ClusterInv'
<1>1. {"remove", "activities", "terminate", "terminating"} \subseteq Places
  BY DEF Places
<1>2. {"activities", "terminating"} \intersect Before = {} /\ "activities" \notin Told
  BY DEF Before, Told
<1>3. CASE detachInstances(c)
  <2>1. /\ Step(c, "remove", "activities") /\ group' = group \ call[c].ids
        /\ desired' = desired - Cardinality(call[c].ids)
        /\ node' = node /\ running' = running /\ stopping' = stopping
    BY <1>3 DEF detachInstances
  <2>2. group' \subseteq group /\ call[c].ids \intersect group' = {} /\ desired' \in Int
    BY <2>1, DesiredType
  <2> QED
    BY <1>1, <1>2, <2>1, <2>2, RequestKeepsInv
<1>4. CASE terminateInstances(c)
  <2>1. /\ Step(c, "terminate", "terminating") /\ group' = group /\ desired' = desired
        /\ node' = node /\ running' = running /\ stopping' = stopping \union call[c].ids
        /\ call[c].pc = "terminate"
    BY <1>4 DEF terminateInstances, Step
  <2>2. call[c].ids \intersect group' = {}
    BY <2>1, CallFacts DEF CallOK, Removed
  <2>3. desired' \in Int
    BY <2>1 DEF ClusterInv, Types
  <2> QED
    BY <1>1, <1>2, <2>1, <2>2, <2>3, RequestKeepsInv
<1> QED
  BY <1>3, <1>4

\* DeleteInstances of Azure and deleteInstance of GCE.
LEMMA DeleteKeepsInv ==
  ASSUME ClusterInv, NEW c \in Calls, DeleteInstances(c) \/ deleteInstance(c)
  PROVE  ClusterInv'
<1>1. {"remove", "deleting"} \subseteq Places /\ "deleting" \notin Before
  BY DEF Places, Before
<1>2. /\ Step(c, "remove", "deleting") /\ group' = group \ call[c].ids
      /\ desired' = desired - Cardinality(call[c].ids)
      /\ node' = node /\ running' = running /\ stopping' = stopping \union call[c].ids
  BY DEF DeleteInstances, deleteInstance
<1>3. /\ group' \subseteq group /\ call[c].ids \intersect group' = {}
      /\ desired' \in Int /\ call[c].ids \subseteq stopping'
  BY <1>2, DesiredType
<1> QED
  BY <1>1, <1>2, <1>3, RequestKeepsInv

LEMMA AWSKeepsInv ==
  ASSUME ClusterInv, NEW c \in Calls, AWSNext(c)
  PROVE  ClusterInv'
<1>1. /\ {"scale", "resize", "resized", "request", "remove", "activities", "terminate",
          "terminating", "post", "ok"} \subseteq Places
      /\ Follows("resized", "ok") /\ Follows("activities", "terminate")
      /\ Follows("terminating", "post")
  BY DEF Places, Follows, Before, Removed, Told
<1>2. CASE AWSScale(c)
  BY <1>2, ScaleStartKeepsInv DEF AWSScale
<1>3. CASE \/ AWSScaleFails(c) \/ AWSScaleOutFails(c) \/ AWSDescribeFails(c) \/ AWSScaleReqFails(c)
           \/ DetachFails(c) \/ DescribeActivitiesFails(c) \/ TerminateFails(c)
           \/ DescribeInstancesFails(c)
  BY <1>1, <1>3, FailsKeepsInv
     DEF AWSScaleFails, AWSScaleOutFails, AWSDescribeFails, AWSScaleReqFails, DetachFails,
         DescribeActivitiesFails, TerminateFails, DescribeInstancesFails
<1>4. CASE AWSscaleOut(c)
  BY <1>4, ResizeKeepsInv DEF AWSscaleOut
<1>5. CASE ensureASGInstancesCount(c)
  BY <1>1, <1>5, RetryKeepsInv DEF ensureASGInstancesCount
<1>6. CASE ensureActivitiesComplete(c)
  BY <1>1, <1>6, RetryKeepsInv DEF ensureActivitiesComplete
<1>7. CASE ensureInstancesTerminate(c)
  BY <1>1, <1>7, RetryKeepsInv DEF ensureInstancesTerminate
<1>8. CASE AWSgenerateScaleReq(c)
  BY <1>8, ScaleReqKeepsInv DEF AWSgenerateScaleReq
<1>9. CASE detachInstances(c) \/ terminateInstances(c)
  BY <1>9, DetachTerminateKeepsInv
<1>10. CASE PreScaleIn(c) \/ PostScaleIn(c)
  BY <1>10, PreScaleInKeepsInv, PostScaleInKeepsInv
<1> QED
  BY <1>2, <1>3, <1>4, <1>5, <1>6, <1>7, <1>8, <1>9, <1>10 DEF AWSNext, AWSscaleIn

LEMMA AzureKeepsInv ==
  ASSUME ClusterInv, NEW c \in Calls, AzureNext(c)
  PROVE  ClusterInv'
<1>1. /\ {"scale", "resize", "resized", "request", "remove", "deleting", "post", "ok", "failed"}
           \subseteq Places
      /\ Follows("resized", "ok") /\ Follows("resized", "failed") /\ Follows("deleting", "post")
  BY DEF Places, Follows, Before, Removed, Told
<1>2. CASE AzureScale(c)
  BY <1>2, ScaleStartKeepsInv DEF AzureScale
<1>3. CASE \/ AzureScaleFails(c) \/ AzureScaleOutFails(c) \/ AzureScaleReqFails(c)
           \/ DeleteFails(c) \/ DeletionFails(c)
  BY <1>1, <1>3, FailsKeepsInv
     DEF AzureScaleFails, AzureScaleOutFails, AzureScaleReqFails, DeleteFails, DeletionFails
<1>4. CASE AzurescaleOut(c)
  BY <1>4, ResizeKeepsInv DEF AzurescaleOut
<1>5. CASE UpdateCompletes(c) \/ DeletionCompletes(c)
  BY <1>1, <1>5, StepKeepsInv DEF UpdateCompletes, DeletionCompletes
<1>6. CASE AzuregenerateScaleReq(c)
  BY <1>6, ScaleReqKeepsInv DEF AzuregenerateScaleReq
<1>7. CASE DeleteInstances(c)
  BY <1>7, DeleteKeepsInv
<1>8. CASE PreScaleIn(c) \/ PostScaleIn(c)
  BY <1>8, PreScaleInKeepsInv, PostScaleInKeepsInv
<1> QED
  BY <1>2, <1>3, <1>4, <1>5, <1>6, <1>7, <1>8 DEF AzureNext, AzurescaleIn

LEMMA GCEKeepsInv ==
  ASSUME ClusterInv, NEW c \in Calls, GCENext(c)
  PROVE  ClusterInv'
<1>1. /\ {"scale", "resize", "resized", "request", "remove", "deleting", "post", "ok"}
           \subseteq Places
      /\ Follows("resized", "ok") /\ Follows("deleting", "post")
  BY DEF Places, Follows, Before, Removed, Told
<1>2. CASE GCEScale(c)
  BY <1>2, ScaleStartKeepsInv DEF GCEScale
<1>3. CASE GCEScaleFails(c) \/ ResizeFails(c) \/ GCEScaleReqFails(c) \/ DeleteInstanceFails(c)
           \/ GCEStatusFails(c)
  BY <1>1, <1>3, FailsKeepsInv
     DEF GCEScaleFails, ResizeFails, GCEScaleReqFails, DeleteInstanceFails, GCEStatusFails
<1>4. CASE resize(c)
  BY <1>4, ResizeKeepsInv DEF resize
<1>5. CASE ensureInstanceGroupIsStable(c)
  <2>1. IsStable \in BOOLEAN
    BY DEF IsStable
  <2> QED
    BY <1>1, <1>5, <2>1, RetryKeepsInv DEF ensureInstanceGroupIsStable
<1>6. CASE GCEgenerateScaleReq(c)
  BY <1>6, ScaleReqKeepsInv DEF GCEgenerateScaleReq
<1>7. CASE deleteInstance(c)
  BY <1>7, DeleteKeepsInv
<1>8. CASE PreScaleIn(c) \/ PostScaleIn(c)
  BY <1>8, PreScaleInKeepsInv, PostScaleInKeepsInv
<1> QED
  BY <1>2, <1>3, <1>4, <1>5, <1>6, <1>7, <1>8 DEF GCENext, GCEscaleIn

-----------------------------------------------------------------------------
(* Nomad and the cloud                                                     *)

LEMMA EnvironmentKeepsInv ==
  ASSUME ClusterInv, Environment
  PROVE  ClusterInv'
<1>1. ASSUME NEW n \in Nodes, DrainCompletes(n) \/ NodeDown(n) \/ NodeRegistered(n)
      PROVE  ClusterInv'
  <2>1. UNCHANGED <<group, desired, running, stopping, call>>
    BY <1>1 DEF DrainCompletes, NodeDown, NodeRegistered
  <2>2. PICK s \in {"absent", "init", "ready", "down"}, b \in BOOLEAN :
          /\ node' = [node EXCEPT ![n] = [node[n] EXCEPT !.status = s, !.drain = b]]
          /\ s # "absent" => node[n].status # "absent"
    <3>1. node[n] \in NodeRecords
      BY DEF ClusterInv, Types
    <3>2. CASE DrainCompletes(n)
      <4>1. node' = [node EXCEPT ![n] = [node[n] EXCEPT !.status = node[n].status, !.drain = FALSE]]
        BY <3>1, <3>2 DEF DrainCompletes, NodeRecords
      <4> QED
        BY <3>1, <4>1 DEF NodeRecords
    <3>3. CASE NodeDown(n)
      <4>1. node' = [node EXCEPT ![n] = [node[n] EXCEPT !.status = "down", !.drain = node[n].drain]]
        BY <3>1, <3>3 DEF NodeDown, NodeRecords
      <4> QED
        BY <3>1, <3>3, <4>1 DEF NodeRecords, NodeDown
    <3>4. CASE NodeRegistered(n)
      <4>1. node' = [node EXCEPT ![n] = [node[n] EXCEPT !.status = "ready", !.drain = node[n].drain]]
        BY <3>1, <3>4 DEF NodeRegistered, NodeRecords
      <4> QED
        BY <3>1, <3>4, <4>1 DEF NodeRecords, NodeRegistered
    <3> QED
      BY <1>1, <3>2, <3>3, <3>4
  <2>3. Types' /\ NodesHaveInstances'
    BY <2>1, <2>2 DEF ClusterInv, Types, NodeRecords, NodesHaveInstances
  <2>4. OthersKept'
    BY <2>1, <2>2 DEF ClusterInv, Types, NodeRecords, OthersKept
  <2> QED
    BY <2>1, <2>3, <2>4 DEF ClusterInv
<1>2. ASSUME NEW n \in Nodes, InstanceStops(n) PROVE ClusterInv'
  <2>1. running' \union stopping' = running \union stopping
    BY <1>2 DEF InstanceStops
  <2>2. UNCHANGED <<node, group, desired, stopping, call>>
    BY <1>2 DEF InstanceStops
  <2>3. \A c \in Calls : CallOK(call'[c], group', stopping', running')
    BY <2>1, <2>2 DEF ClusterInv, CallOK
  <2> QED
    BY <2>1, <2>2, <2>3 DEF ClusterInv, Types, NodesHaveInstances, OthersKept
<1>3. ASSUME NEW n \in Nodes, LaunchInstance(n) PROVE ClusterInv'
  <2>1. /\ n \notin running \union stopping /\ group' = group \union {n}
        /\ running' = running \union {n} /\ UNCHANGED <<desired, stopping, call>>
        /\ node' = [node EXCEPT ![n] = [status |-> "init", eligible |-> TRUE, drain |-> FALSE]]
    BY <1>3 DEF LaunchInstance
  <2>2. Types' /\ NodesHaveInstances'
    BY <2>1 DEF ClusterInv, Types, NodeRecords, NodesHaveInstances
  <2>3. OthersKept'
    BY <2>1 DEF ClusterInv, Types, NodeRecords, OthersKept
  <2>4. \A c \in Calls : CallOK(call'[c], group', stopping', running')
    <3> SUFFICES ASSUME NEW c \in Calls PROVE CallOK(call[c], group', stopping, running')
      BY <2>1
    <3>1. n \notin call[c].ids
      BY <2>1, CallFacts DEF CallOK
    <3> QED
      BY <2>1, <3>1, CallFacts DEF CallOK
  <2> QED
    BY <2>1, <2>2, <2>3, <2>4 DEF ClusterInv
<1> QED
  BY <1>1, <1>2, <1>3 DEF Environment, Drained, Stopped

-----------------------------------------------------------------------------
(* Theorems                                                                *)

LEMMA ClusterInvInit == Init => ClusterInv
<1> SUFFICES ASSUME Init PROVE ClusterInv
  OBVIOUS
<1> USE ScaleInConstants DEF Init, ClusterInit
<1>1. desired \in Int
  <2>1. IsFiniteSet(Members)
    BY FS_Subset
  <2> QED
    BY <2>1, FS_CardinalityType, SMT
<1>2. node \in [Nodes -> NodeRecords]
  BY DEF Absent, InService, NodeRecords
<1>3. call \in [Calls -> CallRecords]
  BY SMT DEF CallRecords, Places
<1>4. \A c \in Calls : CallOK(call[c], group, stopping, running)
  BY DEF CallOK
<1>5. NodesHaveInstances
  BY DEF NodesHaveInstances, Absent
<1>6. OthersKept
  BY DEF OthersKept, InService
<1> QED
  BY <1>1, <1>2, <1>3, <1>4, <1>5, <1>6 DEF ClusterInv, Types

LEMMA ClusterInvStep == ClusterInv /\ [Next]_vars => ClusterInv'
<1> SUFFICES ASSUME ClusterInv, [Next]_vars PROVE ClusterInv'
  OBVIOUS
<1>1. ASSUME NEW c \in Calls, Status(c) PROVE ClusterInv'
  BY <1>1, StatusKeepsInv
<1>2. ASSUME NEW c \in Calls, Scale(c) PROVE ClusterInv'
  BY <1>2, AWSKeepsInv, AzureKeepsInv, GCEKeepsInv DEF Scale
<1>3. CASE Environment
  BY <1>3, EnvironmentKeepsInv
<1>4. CASE UNCHANGED vars
  <2>1. UNCHANGED <<node, group, desired, running, stopping, call>>
    BY <1>4 DEF vars
  <2>2. Types' /\ NodesHaveInstances' /\ OthersKept'
    BY <2>1 DEF ClusterInv, Types, NodesHaveInstances, OthersKept
  <2> QED
    BY <2>1, <2>2 DEF ClusterInv
<1> QED
  BY <1>1, <1>2, <1>3, <1>4 DEF Next

\* The strengthening is an invariant.
LEMMA ClusterInvariant == Spec => []ClusterInv
  BY ClusterInvInit, ClusterInvStep, PTL DEF Spec

\* No call of any target, alone or with others at the same time, takes the node
\* of the agent or a node of another class out of service.  (filterOutNodeID,
\* filterByClass)
THEOREM OthersStayInService == Spec => []OthersKept
<1>1. ClusterInv => OthersKept
  BY DEF ClusterInv
<1> QED
  BY ClusterInvariant, <1>1, PTL

\* A call of any target that succeeds has taken every node it chose out of the
\* group and told its instance to stop.  (scaleIn)
THEOREM SuccessIsComplete == Spec => []SuccessLeavesNothing
<1>1. ClusterInv => SuccessLeavesNothing
  BY DEF ClusterInv, SuccessLeavesNothing, CallOK, Removed, Told
<1> QED
  BY ClusterInvariant, <1>1, PTL

-----------------------------------------------------------------------------
(* Only what has been drained is removed, for calls that do not overlap    *)

OneAtATime ==
  \A c, d \in Calls : call[c].pc \notin Ended /\ call[d].pc \notin Ended => c = d

OutOfService(n) == ~node[n].eligible /\ ~node[n].drain

Removable == stopping \union (Members \ group)

\* How far the drain of the nodes of call c has come.
DrainOK(c) ==
  /\ call[c].pc \in {"info", "drain"} => call[c].ids \intersect Removable = {}
  /\ call[c].pc = "drain" /\ ~call[c].bad =>
       \A n \in call[c].ids \ call[c].todo :
          ~node[n].eligible /\ (n \notin call[c].waiting => ~node[n].drain)
  /\ call[c].pc \in {"remove", "activities", "terminate"} =>
       \A n \in call[c].ids : OutOfService(n)

DrainInv ==
  /\ ClusterInv
  /\ OneAtATime
  /\ \A c \in Calls : DrainOK(c)
  /\ RemovedAfterDrain

-----------------------------------------------------------------------------
(* The steps of a call                                                     *)

\* While call c is under way the others are not, so only c has to be looked at.
LEMMA ActiveStep ==
  ASSUME DrainInv, ClusterInv', NEW c \in Calls, call[c].pc \notin Ended,
         \A d \in Calls \ {c} : call'[d] = call[d], DrainOK(c)', RemovedAfterDrain'
  PROVE  DrainInv'
<1>1. \A d \in Calls \ {c} : call[d].pc \in Ended
  BY DEF DrainInv, OneAtATime
<1>2. OneAtATime'
  BY <1>1 DEF OneAtATime
<1>3. \A d \in Calls \ {c} : DrainOK(d)'
  BY <1>1 DEF DrainOK, Ended
<1> QED
  BY <1>2, <1>3 DEF DrainInv

\* Places where the drain of the nodes is not begun or no longer matters.
QuietPlaces == Ended \union
  {"scale", "request", "identify", "resize", "resized", "terminating", "deleting", "post", "purge"}
Drains == {"remove", "activities", "terminate"}

\* Nothing that matters here changes but the place of call c.
Quiet(c) ==
  /\ UNCHANGED <<node, group, stopping>>
  /\ call[c].pc \notin Ended
  /\ \A d \in Calls \ {c} : call'[d] = call[d]
  /\ call'[c].ids = call[c].ids
  /\ call'[c].pc \in QuietPlaces \/ (call'[c].pc \in Drains /\ call[c].pc \in Drains)

LEMMA QuietKeepsInv ==
  ASSUME DrainInv, ClusterInv', NEW c \in Calls, Quiet(c)
  PROVE  DrainInv'
<1>1. DrainOK(c)
  BY DEF DrainInv
<1>2. DrainOK(c)'
  BY <1>1 DEF Quiet, QuietPlaces, Drains, Ended, DrainOK, OutOfService
<1>3. RemovedAfterDrain'
  BY DEF Quiet, DrainInv, RemovedAfterDrain
<1> QED
  BY <1>2, <1>3, ActiveStep DEF Quiet

LEMMA StepIsQuiet ==
  ASSUME DrainInv, UNCHANGED <<node, group, stopping>>, NEW c \in Calls,
         NEW from, NEW to \in QuietPlaces, from \notin Ended, Step(c, from, to)
  PROVE  Quiet(c)
<1>1. call \in [Calls -> CallRecords]
  BY DEF DrainInv, ClusterInv, Types
<1>2. call[c].pc = from /\ call'[c].pc = to /\ call'[c].ids = call[c].ids
  BY <1>1 DEF Step, CallRecords
<1>3. \A d \in Calls \ {c} : call'[d] = call[d]
  BY <1>1 DEF Step
<1> QED
  BY <1>2, <1>3 DEF Quiet

LEMMA RetryIsQuiet ==
  ASSUME DrainInv, UNCHANGED cluster, NEW c \in Calls, NEW done,
         NEW from, NEW to, from \notin Ended, Retry(c, from, to, done),
         {from, to} \subseteq QuietPlaces \/ {from, to} \subseteq Drains
  PROVE  Quiet(c)
<1>1. call \in [Calls -> CallRecords]
  BY DEF DrainInv, ClusterInv, Types
<1>2. /\ call[c].pc = from /\ call'[c].pc \in {from, to, "failed"}
      /\ call'[c].ids = call[c].ids
  BY <1>1 DEF Retry, CallRecords
<1>3. \A d \in Calls \ {c} : call'[d] = call[d]
  BY <1>1 DEF Retry
<1> QED
  BY <1>2, <1>3 DEF Quiet, QuietPlaces, Drains, Ended, cluster

LEMMA FailsIsQuiet ==
  ASSUME DrainInv, NEW c \in Calls, NEW from, from \notin Ended, Fails(c, from)
  PROVE  Quiet(c)
<1>1. "failed" \in QuietPlaces
  BY DEF QuietPlaces, Ended
<1>2. UNCHANGED <<node, group, stopping>> /\ Step(c, from, "failed")
  BY DEF Fails, cluster
<1> QED
  BY <1>1, <1>2, StepIsQuiet

LEMMA DrainFacts ==
  ASSUME DrainInv, NEW c \in Calls
  PROVE  /\ call \in [Calls -> CallRecords] /\ node \in [Nodes -> NodeRecords]
         /\ DrainOK(c)
         /\ call[c].ids \subseteq Nodes /\ call[c].todo \subseteq call[c].ids
         /\ call[c].waiting \subseteq call[c].ids
         /\ Removable \subseteq Nodes
         /\ \A n \in Removable : OutOfService(n)
<1>1. ClusterInv /\ DrainOK(c) /\ RemovedAfterDrain
  BY DEF DrainInv
<1>2. CallOK(call[c], group, stopping, running) /\ stopping \subseteq Pool
  BY <1>1 DEF ClusterInv
<1>3. Pool \subseteq Nodes /\ Members \subseteq Nodes
  BY ScaleInConstants
<1> QED
  BY <1>1, <1>2, <1>3
     DEF ClusterInv, Types, CallOK, Removable, RemovedAfterDrain, OutOfService

LEMMA IdentifyKeepsDrain ==
  ASSUME DrainInv, ClusterInv', NEW c \in Calls, identifyTargets(c)
  PROVE  DrainInv'
<1> DEFINE ids == First(call[c].num, filterByClass \ {Own})
<1>1. ids \subseteq filterByClass
  BY DEF First
<1>2. \A n \in ids : node[n].eligible
  BY <1>1 DEF filterByClass
<1>3. /\ call' = [call EXCEPT ![c].pc = "info", ![c].ids = ids]
      /\ call[c].pc = "identify" /\ UNCHANGED <<node, group, stopping>>
  BY DEF identifyTargets, cluster
<1> HIDE DEF ids
<1>4. /\ call'[c].pc = "info" /\ call'[c].ids = ids
      /\ \A d \in Calls \ {c} : call'[d] = call[d]
  BY <1>3, DrainFacts DEF CallRecords
<1>5. ids \intersect Removable = {}
  BY <1>2, DrainFacts DEF OutOfService
<1>6. DrainOK(c)'
  BY <1>3, <1>4, <1>5 DEF DrainOK, Removable
<1>7. RemovedAfterDrain'
  BY <1>3 DEF DrainInv, RemovedAfterDrain
<1> QED
  BY <1>3, <1>4, <1>6, <1>7, ActiveStep DEF Ended

LEMMA RemoteIDsKeepsDrain ==
  ASSUME DrainInv, ClusterInv', NEW c \in Calls, getRemoteIDMap(c)
  PROVE  DrainInv'
<1>1. /\ call[c].pc = "info" /\ UNCHANGED <<node, group, stopping>>
      /\ call' = [call EXCEPT ![c].pc = "drain", ![c].todo = call[c].ids]
  BY DEF getRemoteIDMap, cluster
<1>2. /\ call'[c].pc = "drain" /\ call'[c].ids = call[c].ids /\ call'[c].todo = call[c].ids
      /\ \A d \in Calls \ {c} : call'[d] = call[d]
  BY <1>1, DrainFacts DEF CallRecords
<1>3. DrainOK(c)'
  BY <1>1, <1>2, DrainFacts DEF DrainOK, Removable
<1>4. RemovedAfterDrain'
  BY <1>1 DEF DrainInv, RemovedAfterDrain
<1> QED
  BY <1>1, <1>2, <1>3, <1>4, ActiveStep DEF Ended

LEMMA DrainNodeKeepsDrain ==
  ASSUME DrainInv, ClusterInv', NEW c \in Calls, NEW n \in Nodes, drainNode(c, n)
  PROVE  DrainInv'
<1>1. /\ call[c].pc = "drain" /\ n \in call[c].todo /\ UNCHANGED <<group, stopping>>
      /\ call' = [call EXCEPT ![c].todo = @ \ {n}, ![c].waiting = @ \union {n}]
      /\ node' = [node EXCEPT ![n].eligible = FALSE, ![n].drain = TRUE]
  BY DEF drainNode
<1>2. /\ call'[c].pc = "drain" /\ call'[c].ids = call[c].ids /\ call'[c].bad = call[c].bad
      /\ call'[c].todo = call[c].todo \ {n} /\ call'[c].waiting = call[c].waiting \union {n}
  BY <1>1, DrainFacts DEF CallRecords
<1>3. \A d \in Calls \ {c} : call'[d] = call[d]
  BY <1>1, DrainFacts
<1>4. ~node'[n].eligible
  BY <1>1, DrainFacts DEF NodeRecords
<1>5. \A m \in Nodes \ {n} : node'[m] = node[m]
  BY <1>1, DrainFacts
<1>6. n \notin Removable
  BY <1>1, DrainFacts DEF DrainOK
<1>7. RemovedAfterDrain'
  BY <1>1, <1>5, <1>6, DrainFacts DEF RemovedAfterDrain, Removable, OutOfService
<1>8. DrainOK(c)'
  <2>1. Removable' = Removable
    BY <1>1 DEF Removable
  <2>2. ASSUME ~call[c].bad, NEW m \in call[c].ids \ (call[c].todo \ {n})
        PROVE  /\ ~node'[m].eligible
               /\ m \notin call[c].waiting \union {n} => ~node'[m].drain
    <3>1. CASE m = n
      BY <1>4, <3>1
    <3>2. CASE m # n
      BY <1>1, <1>5, <2>2, <3>2, DrainFacts DEF DrainOK
    <3> QED
      BY <3>1, <3>2
  <2> QED
    BY <1>1, <1>2, <2>1, <2>2, DrainFacts DEF DrainOK
<1> QED
  BY <1>1, <1>3, <1>7, <1>8, ActiveStep DEF Ended

LEMMA MonitorKeepsDrain ==
  ASSUME DrainInv, ClusterInv', NEW c \in Calls, NEW n \in Nodes,
         DrainRequestFails(c, n) \/ monitorNodeDrain(c, n) \/ DrainFails(c, n)
  PROVE  DrainInv'
<1>1. call[c].pc = "drain" /\ UNCHANGED <<node, group, stopping>>
  BY DEF DrainRequestFails, monitorNodeDrain, DrainFails, cluster
<1>2. \A d \in Calls \ {c} : call'[d] = call[d]
  BY DrainFacts DEF DrainRequestFails, monitorNodeDrain, DrainFails
<1>3. call'[c].pc = "drain" /\ call'[c].ids = call[c].ids
  BY <1>1, DrainFacts, SMT DEF DrainRequestFails, monitorNodeDrain, DrainFails, CallRecords
<1>4. RemovedAfterDrain'
  BY <1>1 DEF DrainInv, RemovedAfterDrain
<1>5. Removable' = Removable
  BY <1>1 DEF Removable
<1>6. CASE DrainRequestFails(c, n) \/ DrainFails(c, n)
  <2>1. call'[c].bad
    BY <1>6, DrainFacts, SMT DEF DrainRequestFails, DrainFails, CallRecords
  <2>2. DrainOK(c)'
    BY <1>1, <1>3, <1>5, <2>1, DrainFacts DEF DrainOK
  <2> QED
    BY <1>1, <1>2, <1>4, <2>2, ActiveStep DEF Ended
<1>7. CASE monitorNodeDrain(c, n)
  <2>1. /\ ~node[n].drain /\ call'[c].bad = call[c].bad /\ call'[c].todo = call[c].todo
        /\ call'[c].waiting = call[c].waiting \ {n}
    BY <1>7, DrainFacts DEF monitorNodeDrain, CallRecords
  <2>2. DrainOK(c)'
    BY <1>1, <1>3, <1>5, <2>1, DrainFacts DEF DrainOK
  <2> QED
    BY <1>1, <1>2, <1>4, <2>2, ActiveStep DEF Ended
<1> QED
  BY <1>6, <1>7

LEMMA DrainNodesKeepsDrain ==
  ASSUME DrainInv, ClusterInv', NEW c \in Calls, drainNodes(c)
  PROVE  DrainInv'
<1>1. CASE call[c].bad
  <2>1. Fails(c, "drain")
    BY <1>1 DEF drainNodes, Fails
  <2> QED
    BY <2>1, FailsIsQuiet, QuietKeepsInv DEF Ended
<1>2. CASE ~call[c].bad
  <2>1. /\ call[c].pc = "drain" /\ call[c].todo = {} /\ call[c].waiting = {}
        /\ UNCHANGED <<node, group, stopping>> /\ call' = [call EXCEPT ![c].pc = "remove"]
    BY <1>2 DEF drainNodes, Step, cluster
  <2>2. /\ call'[c].pc = "remove" /\ call'[c].ids = call[c].ids
        /\ \A d \in Calls \ {c} : call'[d] = call[d]
    BY <2>1, DrainFacts DEF CallRecords
  <2>3. DrainOK(c)'
    BY <1>2, <2>1, <2>2, DrainFacts DEF DrainOK, OutOfService
  <2>4. RemovedAfterDrain'
    BY <2>1 DEF DrainInv, RemovedAfterDrain
  <2> QED
    BY <2>1, <2>2, <2>3, <2>4, ActiveStep DEF Ended
<1> QED
  BY <1>1, <1>2

LEMMA PreScaleInKeepsDrain ==
  ASSUME DrainInv, ClusterInv', NEW c \in Calls, PreScaleIn(c)
  PROVE  DrainInv'
<1>1. CASE IdentifyFails(c) \/ RemoteIDFails(c)
  BY <1>1, FailsIsQuiet, QuietKeepsInv DEF IdentifyFails, RemoteIDFails, Ended
<1> QED
  BY <1>1, IdentifyKeepsDrain, RemoteIDsKeepsDrain, DrainNodeKeepsDrain, MonitorKeepsDrain,
     DrainNodesKeepsDrain DEF PreScaleIn

\* The requests to the provider: what leaves the group or is told to stop are
\* drained nodes.
LEMMA RequestKeepsDrain ==
  ASSUME DrainInv, ClusterInv', NEW c \in Calls, NEW from \in Drains, NEW to,
         to \in Drains \/ to \in QuietPlaces, Step(c, from, to), node' = node,
         group' \in {group, group \ call[c].ids}, stopping' \in {stopping, stopping \union call[c].ids}
  PROVE  DrainInv'
<1>1. /\ call[c].pc = from /\ call'[c].pc = to /\ call'[c].ids = call[c].ids
      /\ \A d \in Calls \ {c} : call'[d] = call[d]
  BY DrainFacts DEF Step, CallRecords
<1>2. \A n \in call[c].ids : OutOfService(n)
  BY <1>1, DrainFacts DEF DrainOK, Drains
<1>3. Removable' \subseteq Removable \union call[c].ids
  BY DEF Removable
<1>4. RemovedAfterDrain'
  BY <1>2, <1>3, DrainFacts DEF RemovedAfterDrain, Removable, OutOfService
<1>5. DrainOK(c)'
  BY <1>1, <1>2 DEF DrainOK, OutOfService, Drains, QuietPlaces, Ended
<1> QED
  BY <1>1, <1>4, <1>5, ActiveStep DEF Ended, Drains

LEMMA PurgeKeepsDrain ==
  ASSUME DrainInv, ClusterInv', NEW c \in Calls, NEW n \in Nodes, PurgeNode(c, n)
  PROVE  DrainInv'
<1>1. /\ call[c].pc = "purge" /\ UNCHANGED <<group, stopping>>
      /\ node' = node \/ node' = [node EXCEPT ![n] = Absent]
  BY DEF PurgeNode
<1>2. call'[c].pc = "purge" /\ \A d \in Calls \ {c} : call'[d] = call[d]
  BY <1>1, DrainFacts, SMT DEF PurgeNode, CallRecords
<1>3. RemovedAfterDrain'
  <2>1. \A m \in Nodes : node'[m] = node[m] \/ node'[m] = Absent
    BY <1>1, DrainFacts
  <2> QED
    BY <1>1, <2>1, DrainFacts, SMT DEF RemovedAfterDrain, Removable, OutOfService, Absent
<1>4. DrainOK(c)'
  BY <1>2 DEF DrainOK
<1> QED
  BY <1>1, <1>2, <1>3, <1>4, ActiveStep DEF Ended

LEMMA PostScaleInKeepsDrain ==
  ASSUME DrainInv, ClusterInv', NEW c \in Calls, PostScaleIn(c)
  PROVE  DrainInv'
<1>1. {"ok", "failed", "purge"} \subseteq QuietPlaces /\ {"post", "purge"} \intersect Ended = {}
  BY DEF QuietPlaces, Ended
<1>2. CASE RunPostScaleInTasks(c)
  <2>1. CASE Step(c, "post", "ok")
    BY <1>1, <1>2, <2>1, StepIsQuiet, QuietKeepsInv DEF RunPostScaleInTasks, cluster
  <2>2. CASE call[c].pc = "post" /\ call' = [call EXCEPT ![c].pc = "purge", ![c].todo = call[c].ids]
    <3>1. /\ call'[c].pc = "purge" /\ call'[c].ids = call[c].ids
          /\ \A d \in Calls \ {c} : call'[d] = call[d]
      BY <2>2, DrainFacts DEF CallRecords
    <3>2. Quiet(c)
      BY <1>1, <1>2, <2>2, <3>1 DEF Quiet, RunPostScaleInTasks, cluster
    <3> QED
      BY <3>2, QuietKeepsInv
  <2> QED
    BY <1>2, <2>1, <2>2 DEF RunPostScaleInTasks
<1>3. CASE PurgeReturns(c)
  <2> DEFINE to == IF call[c].bad THEN "failed" ELSE "ok"
  <2>1. to \in {"failed", "ok"} /\ Step(c, "purge", to) /\ UNCHANGED <<node, group, stopping>>
    BY <1>3 DEF PurgeReturns, cluster
  <2> HIDE DEF to
  <2> QED
    BY <1>1, <2>1, StepIsQuiet, QuietKeepsInv
<1> QED
  BY <1>2, <1>3, PurgeKeepsDrain DEF PostScaleIn

LEMMA ScaleStartIsQuiet ==
  ASSUME DrainInv, NEW c \in Calls, UNCHANGED cluster, call[c].pc = "scale",
         IF call[c].count = DryRunCount THEN Step(c, "scale", "ok")
                                        ELSE calculateDirection(c, desired, call[c].count)
  PROVE  Quiet(c)
<1>1. CASE Step(c, "scale", "ok")
  BY <1>1, StepIsQuiet DEF QuietPlaces, Ended, cluster
<1>2. CASE calculateDirection(c, desired, call[c].count)
  <2>1. /\ call'[c].pc \in {"request", "resize", "ok"} /\ call'[c].ids = call[c].ids
        /\ \A d \in Calls \ {c} : call'[d] = call[d]
    BY <1>2, DrainFacts, SMT DEF calculateDirection, CallRecords
  <2> QED
    BY <2>1 DEF Quiet, QuietPlaces, Ended, cluster
<1> QED
  BY <1>1, <1>2

LEMMA AWSKeepsDrain ==
  ASSUME DrainInv, ClusterInv', NEW c \in Calls, AWSNext(c)
  PROVE  DrainInv'
<1>1. /\ {"scale", "resize", "resized", "request", "remove", "activities", "terminate",
          "terminating"} \intersect Ended = {}
      /\ {"resized", "ok", "identify", "terminating", "post"} \subseteq QuietPlaces
      /\ {"remove", "activities", "terminate"} \subseteq Drains
  BY DEF QuietPlaces, Ended, Drains
<1>2. CASE AWSScale(c)
  BY <1>2, ScaleStartIsQuiet, QuietKeepsInv DEF AWSScale
<1>3. CASE \/ AWSScaleFails(c) \/ AWSScaleOutFails(c) \/ AWSDescribeFails(c) \/ AWSScaleReqFails(c)
           \/ DetachFails(c) \/ DescribeActivitiesFails(c) \/ TerminateFails(c)
           \/ DescribeInstancesFails(c)
  BY <1>1, <1>3, FailsIsQuiet, QuietKeepsInv
     DEF AWSScaleFails, AWSScaleOutFails, AWSDescribeFails, AWSScaleReqFails, DetachFails,
         DescribeActivitiesFails, TerminateFails, DescribeInstancesFails
<1>4. CASE AWSscaleOut(c) \/ AWSgenerateScaleReq(c)
  BY <1>1, <1>4, StepIsQuiet, QuietKeepsInv DEF AWSscaleOut, AWSgenerateScaleReq, cluster
<1>5. CASE ensureASGInstancesCount(c) \/ ensureActivitiesComplete(c) \/ ensureInstancesTerminate(c)
  BY <1>1, <1>5, RetryIsQuiet, QuietKeepsInv
     DEF ensureASGInstancesCount, ensureActivitiesComplete, ensureInstancesTerminate
<1>6. CASE detachInstances(c)
  BY <1>1, <1>6, RequestKeepsDrain DEF detachInstances
<1>7. CASE terminateInstances(c)
  BY <1>1, <1>7, RequestKeepsDrain DEF terminateInstances
<1>8. CASE PreScaleIn(c) \/ PostScaleIn(c)
  BY <1>8, PreScaleInKeepsDrain, PostScaleInKeepsDrain
<1> QED
  BY <1>2, <1>3, <1>4, <1>5, <1>6, <1>7, <1>8 DEF AWSNext, AWSscaleIn

LEMMA AzureKeepsDrain ==
  ASSUME DrainInv, ClusterInv', NEW c \in Calls, AzureNext(c)
  PROVE  DrainInv'
<1>1. /\ {"scale", "resize", "resized", "request", "remove", "deleting"} \intersect Ended = {}
      /\ {"resized", "ok", "failed", "identify", "deleting", "post"} \subseteq QuietPlaces
      /\ "remove" \in Drains
  BY DEF QuietPlaces, Ended, Drains
<1>2. CASE AzureScale(c)
  BY <1>2, ScaleStartIsQuiet, QuietKeepsInv DEF AzureScale
<1>3. CASE \/ AzureScaleFails(c) \/ AzureScaleOutFails(c) \/ AzureScaleReqFails(c)
           \/ DeleteFails(c) \/ DeletionFails(c)
  BY <1>1, <1>3, FailsIsQuiet, QuietKeepsInv
     DEF AzureScaleFails, AzureScaleOutFails, AzureScaleReqFails, DeleteFails, DeletionFails
<1>4. CASE AzurescaleOut(c) \/ AzuregenerateScaleReq(c) \/ UpdateCompletes(c) \/ DeletionCompletes(c)
  BY <1>1, <1>4, StepIsQuiet, QuietKeepsInv
     DEF AzurescaleOut, AzuregenerateScaleReq, UpdateCompletes, DeletionCompletes, cluster
<1>5. CASE DeleteInstances(c)
  BY <1>1, <1>5, RequestKeepsDrain DEF DeleteInstances
<1>6. CASE PreScaleIn(c) \/ PostScaleIn(c)
  BY <1>6, PreScaleInKeepsDrain, PostScaleInKeepsDrain
<1> QED
  BY <1>2, <1>3, <1>4, <1>5, <1>6 DEF AzureNext, AzurescaleIn

LEMMA GCEKeepsDrain ==
  ASSUME DrainInv, ClusterInv', NEW c \in Calls, GCENext(c)
  PROVE  DrainInv'
<1>1. /\ {"scale", "resize", "resized", "request", "remove", "deleting"} \intersect Ended = {}
      /\ {"resized", "ok", "identify", "deleting", "post"} \subseteq QuietPlaces
      /\ "remove" \in Drains
  BY DEF QuietPlaces, Ended, Drains
<1>2. CASE GCEScale(c)
  BY <1>2, ScaleStartIsQuiet, QuietKeepsInv DEF GCEScale
<1>3. CASE GCEScaleFails(c) \/ ResizeFails(c) \/ GCEScaleReqFails(c) \/ DeleteInstanceFails(c)
           \/ GCEStatusFails(c)
  BY <1>1, <1>3, FailsIsQuiet, QuietKeepsInv
     DEF GCEScaleFails, ResizeFails, GCEScaleReqFails, DeleteInstanceFails, GCEStatusFails
<1>4. CASE resize(c) \/ GCEgenerateScaleReq(c)
  BY <1>1, <1>4, StepIsQuiet, QuietKeepsInv DEF resize, GCEgenerateScaleReq, cluster
<1>5. CASE ensureInstanceGroupIsStable(c)
  BY <1>1, <1>5, RetryIsQuiet, QuietKeepsInv DEF ensureInstanceGroupIsStable
<1>6. CASE deleteInstance(c)
  BY <1>1, <1>6, RequestKeepsDrain DEF deleteInstance
<1>7. CASE PreScaleIn(c) \/ PostScaleIn(c)
  BY <1>7, PreScaleInKeepsDrain, PostScaleInKeepsDrain
<1> QED
  BY <1>2, <1>3, <1>4, <1>5, <1>6, <1>7 DEF GCENext, GCEscaleIn

-----------------------------------------------------------------------------
(* The other steps                                                         *)

LEMMA StatusKeepsDrain ==
  ASSUME DrainInv, ClusterInv', ~Overlap, NEW c \in Calls, Status(c)
  PROVE  DrainInv'
<1>1. PICK count \in Counts : call' = [call EXCEPT ![c].pc = "scale", ![c].count = count]
  BY DEF Status
<1>2. /\ \A d \in Calls : call[d].pc \in Ended
      /\ UNCHANGED <<node, group, stopping>>
  BY DEF Status, cluster
<1>3. call'[c].pc = "scale" /\ \A d \in Calls \ {c} : call'[d] = call[d]
  BY <1>1, DrainFacts DEF CallRecords
<1>4. OneAtATime'
  BY <1>2, <1>3 DEF OneAtATime
<1>5. \A d \in Calls : DrainOK(d)'
  BY <1>2, <1>3 DEF DrainOK, Ended
<1>6. RemovedAfterDrain'
  BY <1>2 DEF DrainInv, RemovedAfterDrain
<1> QED
  BY <1>4, <1>5, <1>6 DEF DrainInv

\* No call moves, and a node that no call has chosen and that is not to be removed
\* may be put into service.
LEMMA NodesKeepDrain ==
  ASSUME DrainInv, ClusterInv', call' = call, Removable' \subseteq Removable,
         \A m \in Nodes : \/ /\ node'[m].eligible = node[m].eligible
                             /\ node'[m].drain => node[m].drain
                          \/ m \notin Removable' /\ \A c \in Calls : m \notin call[c].ids
  PROVE  DrainInv'
<1>1. OneAtATime'
  BY DEF DrainInv, OneAtATime
<1>2. ASSUME NEW c \in Calls PROVE DrainOK(c)'
  BY DrainFacts DEF DrainOK, OutOfService
<1>3. RemovedAfterDrain'
  <2>1. Removable \subseteq Nodes /\ \A n \in Removable : OutOfService(n)
    BY ScaleInConstants
       DEF DrainInv, ClusterInv, RemovedAfterDrain, Removable, OutOfService
  <2> QED
    BY <2>1 DEF RemovedAfterDrain, Removable, OutOfService
<1> QED
  BY <1>1, <1>2, <1>3 DEF DrainInv

LEMMA EnvironmentKeepsDrain ==
  ASSUME DrainInv, ClusterInv', Environment
  PROVE  DrainInv'
<1>1. node \in [Nodes -> NodeRecords]
  BY DEF DrainInv, ClusterInv, Types
<1>2. ASSUME NEW n \in Nodes,
             DrainCompletes(n) \/ NodeDown(n) \/ NodeRegistered(n) \/ InstanceStops(n)
      PROVE  DrainInv'
  <2>1. call' = call /\ Removable' = Removable
    BY <1>2 DEF DrainCompletes, NodeDown, NodeRegistered, InstanceStops, Removable
  <2>2. \A m \in Nodes : /\ node'[m].eligible = node[m].eligible
                         /\ node'[m].drain => node[m].drain
    BY <1>1, <1>2, SMT DEF DrainCompletes, NodeDown, NodeRegistered, InstanceStops, NodeRecords
  <2> QED
    BY <2>1, <2>2, NodesKeepDrain
<1>3. ASSUME NEW n \in Nodes, LaunchInstance(n) PROVE DrainInv'
  <2>1. /\ n \notin running \union stopping /\ n \notin Members
        /\ call' = call /\ stopping' = stopping /\ group' = group \union {n}
        /\ \A m \in Nodes \ {n} : node'[m] = node[m]
    BY <1>1, <1>3, ScaleInConstants DEF LaunchInstance
  <2>2. Removable' \subseteq Removable /\ n \notin Removable'
    BY <2>1 DEF Removable
  <2>3. \A c \in Calls : n \notin call[c].ids
    BY <2>1 DEF DrainInv, ClusterInv, CallOK
  <2> QED
    BY <2>1, <2>2, <2>3, NodesKeepDrain
<1> QED
  BY <1>2, <1>3 DEF Environment, Drained, Stopped

-----------------------------------------------------------------------------
(* Theorem                                                                 *)

LEMMA DrainInvInit == Init => DrainInv
<1> SUFFICES ASSUME Init PROVE DrainInv
  OBVIOUS
<1>1. ClusterInv
  BY ClusterInvInit
<1>2. /\ \A c \in Calls : call[c].pc = "idle"
      /\ stopping = {} /\ group = Members
  BY DEF Init, ClusterInit
<1> QED
  BY <1>1, <1>2 DEF DrainInv, OneAtATime, DrainOK, RemovedAfterDrain, Ended

LEMMA DrainInvStep ==
  ASSUME ~Overlap
  PROVE  DrainInv /\ [Next]_vars => DrainInv'
<1> SUFFICES ASSUME DrainInv, [Next]_vars PROVE DrainInv'
  OBVIOUS
<1>1. ClusterInv'
  BY ClusterInvStep DEF DrainInv
<1>2. ASSUME NEW c \in Calls, Status(c) PROVE DrainInv'
  BY <1>1, <1>2, StatusKeepsDrain
<1>3. ASSUME NEW c \in Calls, Scale(c) PROVE DrainInv'
  BY <1>1, <1>3, AWSKeepsDrain, AzureKeepsDrain, GCEKeepsDrain DEF Scale
<1>4. CASE Environment
  BY <1>1, <1>4, EnvironmentKeepsDrain
<1>5. CASE UNCHANGED vars
  <2>1. UNCHANGED <<node, group, stopping, call>>
    BY <1>5 DEF vars
  <2> QED
    BY <1>1, <2>1
       DEF DrainInv, OneAtATime, DrainOK, OutOfService, Removable, RemovedAfterDrain
<1> QED
  BY <1>2, <1>3, <1>4, <1>5 DEF Next

\* When the workers do not call Scale of one target at the same time, every
\* provider removes an instance only after its node has been drained completely,
\* whatever fails, is lost or is launched meanwhile.  (RunPreScaleInTasks before
\* the request to the provider)
THEOREM DrainedBeforeRemoval ==
  ASSUME ~Overlap
  PROVE  Spec => []RemovedAfterDrain
<1>1. DrainInv => RemovedAfterDrain
  BY DEF DrainInv
<1>2. DrainInv /\ [Next]_vars => DrainInv'
  BY DrainInvStep
<1> QED
  BY DrainInvInit, <1>1, <1>2, PTL DEF Spec

-----------------------------------------------------------------------------
(* The group never shrinks below what was asked for                        *)

\* The first num nodes that are listed are no more than num: each of them has
\* another number of nodes before it, and that number is below num.
LEMMA FirstIsSmall ==
  ASSUME NEW S, S \subseteq Nat, IsFiniteSet(S), NEW num \in Nat
  PROVE  IsFiniteSet(First(num, S)) /\ Cardinality(First(num, S)) <= num
<1> DEFINE T == First(num, S)
           Lower(n) == {m \in S : m < n}
           f == [n \in T |-> Cardinality(Lower(n))]
<1>1. T \subseteq S /\ IsFiniteSet(T) /\ Cardinality(T) \in Nat
  <2>1. T \in SUBSET S
    BY DEF First
  <2> QED BY <2>1, FS_Subset, FS_CardinalityType
<1>2. \A n \in S : IsFiniteSet(Lower(n)) /\ Cardinality(Lower(n)) \in Nat
  <2> TAKE n \in S
  <2>1. Lower(n) \in SUBSET S
    OBVIOUS
  <2> QED BY <2>1, FS_Subset, FS_CardinalityType
<1>3. IsFiniteSet(0 .. num - 1) /\ Cardinality(0 .. num - 1) = num
  <2>1. 0 \in Int /\ num - 1 \in Int
    BY SMT
  <2> HIDE DEF T, f, Lower
  <2> QED BY <2>1, FS_Interval, SMT
<1>4. f \in [T -> 0 .. num - 1]
  <2>1. ASSUME NEW n \in T PROVE Cardinality(Lower(n)) \in 0 .. num - 1
    <3>1. n \in S /\ Cardinality(Lower(n)) < num
      BY DEF First
    <3>2. Cardinality(Lower(n)) \in Nat
      BY <1>2, <3>1
    <3> HIDE DEF Lower
    <3> QED BY <3>1, <3>2, SMT
  <2> QED BY <2>1
<1>5. ASSUME NEW x \in T, NEW y \in T, x < y PROVE f[x] # f[y]
  <2>1. x \in S /\ y \in S /\ x \in Nat /\ y \in Nat
    BY <1>1
  <2>2. Lower(x) \in SUBSET Lower(y)
    <3>1. ASSUME NEW m \in S, m < x PROVE m < y
      <4>1. m \in Nat
        OBVIOUS
      <4> HIDE DEF T, Lower
      <4> QED BY <1>5, <2>1, <3>1, <4>1, SMT
    <3> QED BY <3>1
  <2>3. x \in Lower(y) /\ x \notin Lower(x)
    <3>1. ~(x < x)
      BY <2>1, SMT
    <3> QED BY <1>5, <2>1, <3>1
  <2>4. Lower(y) # Lower(x) /\ IsFiniteSet(Lower(y))
    BY <1>2, <2>1, <2>3
  <2>5. Cardinality(Lower(x)) # Cardinality(Lower(y))
    <3> HIDE DEF Lower
    <3> QED BY <2>2, <2>4, FS_Subset
  <2> QED BY <2>5
<1>6. ASSUME Cardinality(T) > num PROVE FALSE
  <2>1. Cardinality(0 .. num - 1) < Cardinality(T)
    BY <1>1, <1>3, <1>6, SMT
  <2>2. PICK x, y \in T : x # y /\ f[x] = f[y]
    <3> HIDE DEF f, T
    <3> QED BY <1>1, <1>3, <1>4, <2>1, FS_PigeonHole
  <2>3. x \in Nat /\ y \in Nat
    BY <1>1
  <2>4. x < y \/ y < x
    BY <2>2, <2>3, SMT
  <2> HIDE DEF f, T
  <2> QED BY <1>5, <2>2, <2>4
<1> HIDE DEF T
<1>7. Cardinality(T) <= num
  BY <1>1, <1>6, SMT
<1> QED BY <1>1, <1>7 DEF T

\* Places where the nodes to remove are chosen, and where the size of the group
\* is being decided.
Chosen == {"info", "drain", "remove"}
Shrinking == {"request", "identify"} \union Chosen
Sizing == {"scale", "resize"} \union Shrinking

\* What call c will make of the capacity: to remove num is to come down to count
\* and to resize is to grow.
Asked(c) ==
  /\ call[c].pc = "scale" => call[c].count \in Counts
  /\ call[c].pc = "resize" => desired < call[c].count
  /\ call[c].pc \in Shrinking =>
       call[c].count \in Nat /\ call[c].num \in Nat /\ desired - call[c].count = call[c].num
  /\ call[c].pc \in Chosen => Cardinality(call[c].ids) <= call[c].num

CountsOK == \A c \in Calls : Asked(c)

\* While call c is under way the others are not, so only c has to be looked at.
LEMMA ActiveCounts ==
  ASSUME DrainInv, NEW c \in Calls, call[c].pc \notin Ended,
         \A d \in Calls \ {c} : call'[d] = call[d], Asked(c)'
  PROVE  CountsOK'
<1>1. \A d \in Calls \ {c} : call[d].pc \in Ended
  BY DEF DrainInv, OneAtATime
<1>2. \A d \in Calls \ {c} : Asked(d)'
  BY <1>1 DEF Asked, Ended, Shrinking, Chosen
<1> QED
  BY <1>2 DEF CountsOK

\* A call that is done with the size of the group.
LEMMA SizeDecided ==
  ASSUME DrainInv, NEW c \in Calls, call[c].pc \notin Ended,
         \A d \in Calls \ {c} : call'[d] = call[d], call'[c].pc \notin Sizing
  PROVE  CountsOK'
<1>1. Asked(c)'
  BY DEF Asked, Sizing, Shrinking
<1> QED
  BY <1>1, ActiveCounts

LEMMA StepCounts ==
  ASSUME DrainInv, NEW c \in Calls, NEW from, from \notin Ended, NEW to, to \notin Sizing,
         Step(c, from, to)
  PROVE  CountsOK'
<1>1. /\ call[c].pc = from /\ call'[c].pc = to
      /\ \A d \in Calls \ {c} : call'[d] = call[d]
  BY DrainFacts DEF Step, CallRecords
<1> QED
  BY <1>1, SizeDecided

LEMMA FailsCounts ==
  ASSUME DrainInv, NEW c \in Calls, NEW from, from \notin Ended, Fails(c, from)
  PROVE  CountsOK'
<1>1. "failed" \notin Sizing /\ Step(c, from, "failed")
  BY DEF Sizing, Shrinking, Chosen, Fails
<1> QED
  BY <1>1, StepCounts

LEMMA RetryCounts ==
  ASSUME DrainInv, NEW c \in Calls, NEW done,
         NEW from, from \notin Ended \union Sizing, NEW to, to \notin Sizing, Retry(c, from, to, done)
  PROVE  CountsOK'
<1>1. /\ call[c].pc = from /\ call'[c].pc \in {from, to, "failed"}
      /\ \A d \in Calls \ {c} : call'[d] = call[d]
  <2> DEFINE pc == IF done THEN to ELSE IF call[c].tries + 1 = RetryLimit THEN "failed" ELSE from
             tries == IF done THEN 0 ELSE call[c].tries + 1
  <2>1. call[c].pc = from /\ call' = [call EXCEPT ![c].pc = pc, ![c].tries = tries]
    BY DEF Retry
  <2>2. pc \in {from, to, "failed"}
    OBVIOUS
  <2>3. call[c] \in CallRecords /\ call \in [Calls -> CallRecords]
    BY DrainFacts
  <2> HIDE DEF pc, tries
  <2>4. call'[c].pc = pc
    BY <2>1, <2>3 DEF CallRecords
  <2>5. \A d \in Calls \ {c} : call'[d] = call[d]
    BY <2>1, <2>3
  <2> QED
    BY <2>1, <2>2, <2>4, <2>5
<1>2. "failed" \notin Sizing
  BY DEF Sizing, Shrinking, Chosen
<1> QED
  BY <1>1, <1>2, SizeDecided

\* The size, the count and the chosen nodes stay as they are.
LEMMA SameCounts ==
  ASSUME DrainInv, CountsOK, NEW c \in Calls, desired' = desired,
         \A d \in Calls \ {c} : call'[d] = call[d],
         call'[c].count = call[c].count, call'[c].num = call[c].num, call'[c].ids = call[c].ids,
         \/ {call[c].pc, call'[c].pc} \subseteq Chosen
         \/ call[c].pc = "request" /\ call'[c].pc = "identify"
  PROVE  CountsOK'
<1>1. Asked(c) /\ call[c].pc \notin Ended
  BY DEF CountsOK, Ended, Chosen
<1>2. Asked(c)'
  BY <1>1 DEF Asked, Shrinking, Chosen
<1> QED
  BY <1>1, <1>2, ActiveCounts

LEMMA CalculateDirectionCounts ==
  ASSUME DrainInv, CountsOK, Counts \subseteq Nat \union {DryRunCount}, NEW c \in Calls,
         call[c].pc = "scale", UNCHANGED cluster,
         IF call[c].count = DryRunCount THEN Step(c, "scale", "ok")
                                        ELSE calculateDirection(c, desired, call[c].count)
  PROVE  CountsOK'
<1>1. CASE call[c].count = DryRunCount
  BY <1>1, StepCounts DEF Ended, Sizing, Shrinking, Chosen
<1>2. CASE call[c].count # DryRunCount
  <2> DEFINE num == desired - call[c].count
             to == IF num > 0 THEN "request" ELSE IF num < 0 THEN "resize" ELSE "ok"
  <2>1. call[c].count \in Nat /\ desired \in Int /\ desired' = desired
    BY <1>2 DEF CountsOK, Asked, DrainInv, ClusterInv, Types, cluster
  <2>2. call' = [call EXCEPT ![c].num = num, ![c].pc = to]
    BY <1>2 DEF calculateDirection
  <2>3. /\ \/ to = "request" /\ num > 0
           \/ to = "resize" /\ num < 0
           \/ to = "ok"
    OBVIOUS
  <2>4. /\ num > 0 => num \in Nat
        /\ num < 0 => desired < call[c].count
    BY <2>1, SMT
  <2> HIDE DEF num, to
  <2>5. /\ call'[c].pc = to /\ call'[c].num = num /\ call'[c].count = call[c].count
        /\ \A d \in Calls \ {c} : call'[d] = call[d]
    BY <2>2, DrainFacts DEF CallRecords
  <2>6. Asked(c)'
    BY <2>1, <2>3, <2>4, <2>5 DEF Asked, Shrinking, Chosen, num
  <2> QED
    BY <2>5, <2>6, ActiveCounts DEF Ended
<1> QED
  BY <1>1, <1>2

LEMMA ScaleReqCounts ==
  ASSUME DrainInv, CountsOK, NEW c \in Calls, Step(c, "request", "identify"), UNCHANGED cluster
  PROVE  CountsOK'
<1>1. /\ call[c].pc = "request" /\ call'[c].pc = "identify"
      /\ call'[c].count = call[c].count /\ call'[c].num = call[c].num /\ call'[c].ids = call[c].ids
      /\ \A d \in Calls \ {c} : call'[d] = call[d]
  BY DrainFacts DEF Step, CallRecords
<1> QED
  BY <1>1, SameCounts DEF cluster

\* No more nodes are chosen than the group has above the count.
LEMMA IdentifyCounts ==
  ASSUME DrainInv, CountsOK, NEW c \in Calls, identifyTargets(c)
  PROVE  CountsOK'
<1> DEFINE nodes == filterByClass \ {Own}
           ids == First(call[c].num, nodes)
<1>1. /\ call' = [call EXCEPT ![c].pc = "info", ![c].ids = ids]
      /\ call[c].pc = "identify" /\ desired' = desired
  BY DEF identifyTargets, cluster
<1>2. /\ call[c].count \in Nat /\ call[c].num \in Nat
      /\ desired - call[c].count = call[c].num
  BY <1>1 DEF CountsOK, Asked, Shrinking
<1>3. nodes \in SUBSET Nodes /\ nodes \subseteq Nat /\ IsFiniteSet(Nodes)
  BY ScaleInConstants DEF filterByClass
<1>4. IsFiniteSet(nodes)
  <2> HIDE DEF nodes
  <2> QED BY <1>3, FS_Subset
<1>5. Cardinality(ids) <= call[c].num
  <2> HIDE DEF nodes
  <2> QED BY <1>2, <1>3, <1>4, FirstIsSmall
<1> HIDE DEF ids, nodes
<1>6. /\ call'[c].pc = "info" /\ call'[c].ids = ids
      /\ call'[c].count = call[c].count /\ call'[c].num = call[c].num
      /\ \A d \in Calls \ {c} : call'[d] = call[d]
  BY <1>1, DrainFacts DEF CallRecords
<1>7. Asked(c)'
  BY <1>1, <1>2, <1>5, <1>6 DEF Asked, Shrinking, Chosen
<1> QED
  BY <1>1, <1>6, <1>7, ActiveCounts DEF Ended

LEMMA PreScaleInCounts ==
  ASSUME DrainInv, CountsOK, NEW c \in Calls, PreScaleIn(c)
  PROVE  CountsOK'
<1>1. CASE IdentifyFails(c) \/ RemoteIDFails(c)
  BY <1>1, FailsCounts DEF IdentifyFails, RemoteIDFails, Ended
<1>2. CASE getRemoteIDMap(c)
  <2>1. /\ call[c].pc = "info" /\ call'[c].pc = "drain" /\ desired' = desired
        /\ call'[c].count = call[c].count /\ call'[c].num = call[c].num /\ call'[c].ids = call[c].ids
        /\ \A d \in Calls \ {c} : call'[d] = call[d]
    BY <1>2, DrainFacts DEF getRemoteIDMap, CallRecords, cluster
  <2> QED
    BY <2>1, SameCounts DEF Chosen
<1>3. ASSUME NEW n \in Nodes,
             drainNode(c, n) \/ DrainRequestFails(c, n) \/ monitorNodeDrain(c, n) \/ DrainFails(c, n)
      PROVE  CountsOK'
  <2>1. call[c].pc = "drain" /\ desired' = desired
    BY <1>3 DEF drainNode, DrainRequestFails, monitorNodeDrain, DrainFails, cluster
  <2>2. \A d \in Calls \ {c} : call'[d] = call[d]
    BY <1>3, DrainFacts DEF drainNode, DrainRequestFails, monitorNodeDrain, DrainFails
  <2>3. /\ call'[c].pc = "drain" /\ call'[c].count = call[c].count
        /\ call'[c].num = call[c].num /\ call'[c].ids = call[c].ids
    BY <1>3, <2>1, DrainFacts, SMT
       DEF drainNode, DrainRequestFails, monitorNodeDrain, DrainFails, CallRecords
  <2> QED
    BY <2>1, <2>2, <2>3, SameCounts DEF Chosen
<1>4. CASE drainNodes(c)
  <2>1. CASE call[c].bad
    <3>1. Fails(c, "drain")
      BY <1>4, <2>1 DEF drainNodes, Fails
    <3> QED
      BY <3>1, FailsCounts DEF Ended
  <2>2. CASE ~call[c].bad
    <3>1. call[c].pc = "drain" /\ desired' = desired /\ call' = [call EXCEPT ![c].pc = "remove"]
      BY <1>4, <2>2 DEF drainNodes, Step, cluster
    <3>2. /\ call'[c].pc = "remove" /\ call'[c].count = call[c].count
          /\ call'[c].num = call[c].num /\ call'[c].ids = call[c].ids
          /\ \A d \in Calls \ {c} : call'[d] = call[d]
      BY <3>1, DrainFacts DEF CallRecords
    <3> QED
      BY <3>1, <3>2, SameCounts DEF Chosen
  <2> QED
    BY <2>1, <2>2
<1> QED
  BY <1>1, <1>2, <1>3, <1>4, IdentifyCounts DEF PreScaleIn

LEMMA PostScaleInCounts ==
  ASSUME DrainInv, NEW c \in Calls, PostScaleIn(c)
  PROVE  CountsOK'
<1>1. {"ok", "failed", "purge"} \intersect Sizing = {} /\ {"post", "purge"} \intersect Ended = {}
  BY DEF Sizing, Shrinking, Chosen, Ended
<1>2. CASE RunPostScaleInTasks(c)
  <2>1. CASE Step(c, "post", "ok")
    BY <1>1, <2>1, StepCounts
  <2>2. CASE call[c].pc = "post" /\ call' = [call EXCEPT ![c].pc = "purge", ![c].todo = call[c].ids]
    <3>1. call'[c].pc = "purge" /\ \A d \in Calls \ {c} : call'[d] = call[d]
      BY <2>2, DrainFacts DEF CallRecords
    <3> QED
      BY <1>1, <2>2, <3>1, SizeDecided
  <2> QED
    BY <1>2, <2>1, <2>2 DEF RunPostScaleInTasks
<1>3. ASSUME NEW n \in Nodes, PurgeNode(c, n) PROVE CountsOK'
  <2>1. call[c].pc = "purge"
    BY <1>3 DEF PurgeNode
  <2>2. call'[c].pc = "purge" /\ \A d \in Calls \ {c} : call'[d] = call[d]
    BY <1>3, <2>1, DrainFacts, SMT DEF PurgeNode, CallRecords
  <2> QED
    BY <1>1, <2>1, <2>2, SizeDecided
<1>4. CASE PurgeReturns(c)
  <2> DEFINE to == IF call[c].bad THEN "failed" ELSE "ok"
  <2>1. to \in {"failed", "ok"} /\ Step(c, "purge", to)
    BY <1>4 DEF PurgeReturns
  <2> HIDE DEF to
  <2> QED
    BY <1>1, <2>1, StepCounts
<1> QED
  BY <1>2, <1>3, <1>4 DEF PostScaleIn

LEMMA AWSCounts ==
  ASSUME DrainInv, CountsOK, Counts \subseteq Nat \union {DryRunCount}, NEW c \in Calls, AWSNext(c)
  PROVE  CountsOK'
<1>1. /\ {"scale", "resize", "resized", "request", "remove", "activities", "terminate",
          "terminating"} \intersect Ended = {}
      /\ {"resized", "ok", "activities", "terminate", "terminating", "post"} \intersect Sizing = {}
  BY DEF Ended, Sizing, Shrinking, Chosen
<1>2. CASE AWSScale(c)
  BY <1>2, CalculateDirectionCounts DEF AWSScale
<1>3. CASE \/ AWSScaleFails(c) \/ AWSScaleOutFails(c) \/ AWSDescribeFails(c) \/ AWSScaleReqFails(c)
           \/ DetachFails(c) \/ DescribeActivitiesFails(c) \/ TerminateFails(c)
           \/ DescribeInstancesFails(c)
  BY <1>1, <1>3, FailsCounts
     DEF AWSScaleFails, AWSScaleOutFails, AWSDescribeFails, AWSScaleReqFails, DetachFails,
         DescribeActivitiesFails, TerminateFails, DescribeInstancesFails
<1>4. CASE AWSscaleOut(c) \/ detachInstances(c) \/ terminateInstances(c)
  BY <1>1, <1>4, StepCounts DEF AWSscaleOut, detachInstances, terminateInstances
<1>5. CASE AWSgenerateScaleReq(c)
  BY <1>5, ScaleReqCounts DEF AWSgenerateScaleReq
<1>6. CASE ensureASGInstancesCount(c) \/ ensureActivitiesComplete(c) \/ ensureInstancesTerminate(c)
  BY <1>1, <1>6, RetryCounts
     DEF ensureASGInstancesCount, ensureActivitiesComplete, ensureInstancesTerminate
<1>7. CASE PreScaleIn(c) \/ PostScaleIn(c)
  BY <1>7, PreScaleInCounts, PostScaleInCounts
<1> QED
  BY <1>2, <1>3, <1>4, <1>5, <1>6, <1>7 DEF AWSNext, AWSscaleIn

LEMMA AzureCounts ==
  ASSUME DrainInv, CountsOK, Counts \subseteq Nat \union {DryRunCount}, NEW c \in Calls, AzureNext(c)
  PROVE  CountsOK'
<1>1. /\ {"scale", "resize", "resized", "request", "remove", "deleting"} \intersect Ended = {}
      /\ {"resized", "ok", "failed", "deleting", "post"} \intersect Sizing = {}
  BY DEF Ended, Sizing, Shrinking, Chosen
<1>2. CASE AzureScale(c)
  BY <1>2, CalculateDirectionCounts DEF AzureScale
<1>3. CASE \/ AzureScaleFails(c) \/ AzureScaleOutFails(c) \/ AzureScaleReqFails(c)
           \/ DeleteFails(c) \/ DeletionFails(c)
  BY <1>1, <1>3, FailsCounts
     DEF AzureScaleFails, AzureScaleOutFails, AzureScaleReqFails, DeleteFails, DeletionFails
<1>4. CASE AzurescaleOut(c) \/ UpdateCompletes(c) \/ DeleteInstances(c) \/ DeletionCompletes(c)
  BY <1>1, <1>4, StepCounts DEF AzurescaleOut, UpdateCompletes, DeleteInstances, DeletionCompletes
<1>5. CASE AzuregenerateScaleReq(c)
  BY <1>5, ScaleReqCounts DEF AzuregenerateScaleReq
<1>6. CASE PreScaleIn(c) \/ PostScaleIn(c)
  BY <1>6, PreScaleInCounts, PostScaleInCounts
<1> QED
  BY <1>2, <1>3, <1>4, <1>5, <1>6 DEF AzureNext, AzurescaleIn

LEMMA GCECounts ==
  ASSUME DrainInv, CountsOK, Counts \subseteq Nat \union {DryRunCount}, NEW c \in Calls, GCENext(c)
  PROVE  CountsOK'
<1>1. /\ {"scale", "resize", "resized", "request", "remove", "deleting"} \intersect Ended = {}
      /\ {"resized", "ok", "deleting", "post"} \intersect Sizing = {}
  BY DEF Ended, Sizing, Shrinking, Chosen
<1>2. CASE GCEScale(c)
  BY <1>2, CalculateDirectionCounts DEF GCEScale
<1>3. CASE GCEScaleFails(c) \/ ResizeFails(c) \/ GCEScaleReqFails(c) \/ DeleteInstanceFails(c)
           \/ GCEStatusFails(c)
  BY <1>1, <1>3, FailsCounts
     DEF GCEScaleFails, ResizeFails, GCEScaleReqFails, DeleteInstanceFails, GCEStatusFails
<1>4. CASE resize(c) \/ deleteInstance(c)
  BY <1>1, <1>4, StepCounts DEF resize, deleteInstance
<1>5. CASE GCEgenerateScaleReq(c)
  BY <1>5, ScaleReqCounts DEF GCEgenerateScaleReq
<1>6. CASE ensureInstanceGroupIsStable(c)
  BY <1>1, <1>6, RetryCounts DEF ensureInstanceGroupIsStable
<1>7. CASE PreScaleIn(c) \/ PostScaleIn(c)
  BY <1>7, PreScaleInCounts, PostScaleInCounts
<1> QED
  BY <1>2, <1>3, <1>4, <1>5, <1>6, <1>7 DEF GCENext, GCEscaleIn

LEMMA CountsStep ==
  ASSUME ~Overlap, Counts \subseteq Nat \union {DryRunCount}
  PROVE  DrainInv /\ CountsOK /\ [Next]_vars => CountsOK'
<1> SUFFICES ASSUME DrainInv, CountsOK, [Next]_vars PROVE CountsOK'
  OBVIOUS
<1>1. ASSUME NEW c \in Calls, Status(c) PROVE CountsOK'
  <2>1. PICK count \in Counts : call' = [call EXCEPT ![c].pc = "scale", ![c].count = count]
    BY <1>1 DEF Status
  <2>2. /\ call'[c].pc = "scale" /\ call'[c].count = count
        /\ \A d \in Calls \ {c} : call'[d] = call[d]
    BY <2>1, DrainFacts DEF CallRecords
  <2>3. \A d \in Calls : call[d].pc \in Ended
    BY <1>1 DEF Status
  <2> QED
    BY <2>2, <2>3 DEF CountsOK, Asked, Ended, Shrinking, Chosen
<1>2. ASSUME NEW c \in Calls, Scale(c) PROVE CountsOK'
  BY <1>2, AWSCounts, AzureCounts, GCECounts DEF Scale
<1>3. CASE UNCHANGED <<call, desired>>
  BY <1>3 DEF CountsOK, Asked
<1>4. CASE Environment
  BY <1>3, <1>4 DEF Environment, Drained, Stopped, DrainCompletes, InstanceStops, NodeDown,
                    LaunchInstance, NodeRegistered
<1> QED
  BY <1>1, <1>2, <1>3, <1>4 DEF Next, vars

\* The capacity changes only when a call resizes the group, which makes it larger,
\* or removes the instances it chose.
LEMMA CapacityChanges ==
  ASSUME DrainInv, [Next]_vars, desired' # desired
  PROVE  \E c \in Calls :
           \/ call[c].pc = "resize" /\ desired' = call[c].count
           \/ call[c].pc = "remove" /\ desired' = desired - Cardinality(call[c].ids)
<1>1. ASSUME NEW c \in Calls, Scale(c)
      PROVE  \/ call[c].pc = "resize" /\ desired' = call[c].count
             \/ call[c].pc = "remove" /\ desired' = desired - Cardinality(call[c].ids)
  <2>1. ~PreScaleIn(c)
    BY DEF PreScaleIn, identifyTargets, IdentifyFails, getRemoteIDMap, RemoteIDFails, drainNode,
           DrainRequestFails, monitorNodeDrain, DrainFails, drainNodes, Fails, cluster
  <2>2. ~PostScaleIn(c)
    BY DEF PostScaleIn, RunPostScaleInTasks, PurgeNode, PurgeReturns, cluster
  <2>3. CASE AWSNext(c)
    BY <2>1, <2>2, <2>3
       DEF AWSNext, AWSScale, AWSScaleFails, AWSscaleOut, AWSScaleOutFails, ensureASGInstancesCount,
           AWSDescribeFails, AWSscaleIn, AWSgenerateScaleReq, AWSScaleReqFails, detachInstances,
           DetachFails, ensureActivitiesComplete, DescribeActivitiesFails, terminateInstances,
           TerminateFails, ensureInstancesTerminate, DescribeInstancesFails, Fails, Step, cluster
  <2>4. CASE AzureNext(c)
    BY <2>1, <2>2, <2>4
       DEF AzureNext, AzureScale, AzureScaleFails, AzurescaleOut, AzureScaleOutFails,
           UpdateCompletes, AzurescaleIn, AzuregenerateScaleReq, AzureScaleReqFails,
           DeleteInstances, DeleteFails, DeletionCompletes, DeletionFails, Fails, Step, cluster
  <2>5. CASE GCENext(c)
    BY <2>1, <2>2, <2>5
       DEF GCENext, GCEScale, GCEScaleFails, resize, ResizeFails, ensureInstanceGroupIsStable,
           GCEStatusFails, GCEscaleIn, GCEgenerateScaleReq, GCEScaleReqFails, deleteInstance,
           DeleteInstanceFails, Fails, Step, cluster
  <2> QED
    BY <1>1, <2>3, <2>4, <2>5 DEF Scale
<1>2. ~Environment
  BY DEF Environment, Drained, Stopped, DrainCompletes, InstanceStops, NodeDown, LaunchInstance,
         NodeRegistered
<1>3. \A c \in Calls : ~Status(c)
  BY DEF Status, cluster
<1> QED
  BY <1>1, <1>2, <1>3 DEF Next, vars

\* When the workers do not call Scale of one target at the same time and ask for a
\* dry run or a count that is not negative, no provider brings the group below the
\* count of the call under way, however many nodes of the pool are not in service.
\* (calculateDirection, identifyTargets, and the requests of the three targets)
THEOREM GroupNotBelowCount ==
  ASSUME ~Overlap, Counts \subseteq Nat \union {DryRunCount}
  PROVE  Spec => NeverBelowCount
<1>1. Init => CountsOK
  <2> HAVE Init
  <2>1. \A c \in Calls : call[c].pc = "idle"
    BY DEF Init, ClusterInit
  <2> QED
    BY <2>1 DEF CountsOK, Asked, Shrinking, Chosen
<1>2. ASSUME DrainInv, CountsOK, [Next]_vars, desired' < desired
      PROVE  \E c \in Calls : /\ call[c].pc \notin Ended
                              /\ call[c].count >= 0
                              /\ desired' >= call[c].count
  <2>1. desired \in Int
    BY <1>2 DEF DrainInv, ClusterInv, Types
  <2>2. desired' # desired
    <3>1. ~(desired < desired)
      BY <2>1, SMT
    <3> QED BY <1>2, <3>1
  <2>3. PICK c \in Calls : \/ call[c].pc = "resize" /\ desired' = call[c].count
                           \/ call[c].pc = "remove" /\ desired' = desired - Cardinality(call[c].ids)
    BY <1>2, <2>2, CapacityChanges
  <2>4. Asked(c) /\ call[c].count \in Int
    BY <1>2, DrainFacts DEF CountsOK, CallRecords
  <2>5. CASE call[c].pc = "resize" /\ desired' = call[c].count
    <3>1. desired < call[c].count /\ call[c].count < desired
      BY <1>2, <2>4, <2>5 DEF Asked
    <3> QED BY <2>1, <2>4, <3>1, SMT
  <2>6. CASE call[c].pc = "remove" /\ desired' = desired - Cardinality(call[c].ids)
    <3>1. /\ call[c].count \in Nat /\ call[c].num \in Nat
          /\ desired - call[c].count = call[c].num /\ Cardinality(call[c].ids) <= call[c].num
      BY <2>4, <2>6 DEF Asked, Shrinking, Chosen
    <3>2. Cardinality(call[c].ids) \in Nat
      <4>1. call[c].ids \in SUBSET Nodes /\ IsFiniteSet(Nodes)
        BY <1>2, DrainFacts, ScaleInConstants
      <4> QED BY <4>1, FS_Subset, FS_CardinalityType
    <3>3. call[c].count >= 0 /\ desired' >= call[c].count
      BY <2>1, <2>6, <3>1, <3>2, SMT
    <3>4. call[c].pc \notin Ended
      BY <2>6 DEF Ended
    <3> QED BY <3>3, <3>4
  <2> QED BY <2>3, <2>5, <2>6
<1>3. DrainInv /\ CountsOK /\ [Next]_vars =>
        [desired' < desired => \E c \in Calls : /\ call[c].pc \notin Ended
                                                /\ call[c].count >= 0
                                                /\ desired' >= call[c].count]_vars
  BY <1>2
<1>4. DrainInv /\ CountsOK /\ [Next]_vars => DrainInv' /\ CountsOK'
  BY DrainInvStep, CountsStep
<1> QED
  BY DrainInvInit, <1>1, <1>3, <1>4, PTL DEF Spec, NeverBelowCount

=============================================================================
