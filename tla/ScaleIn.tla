------------------------------- MODULE ScaleIn ------------------------------
(***************************************************************************)
(* The scale-in helpers shared by the cluster targets                      *)
(* (sdk/helper/scaleutils): choosing nodes of the pool, draining them in   *)
(* parallel, and purging them afterwards; with the Nomad nodes and the     *)
(* cloud's instance group they act on (both external).                     *)
(*                                                                         *)
(* Node n runs on instance n, and nodes are numbered in the order in which *)
(* the Nomad API lists them.  A call of a target's Scale is a record with  *)
(* its place in the code; every API request may fail.                      *)
(***************************************************************************)
EXTENDS Integers, FiniteSets

CONSTANTS
  Nodes,       \* a set of numbers
  Pool,        \* the nodes of the class in the target's configuration
  Members,     \* the nodes whose instances are in the group at the start
  Spare,       \* nodes that do not exist yet: instances the group may launch
  Own,         \* curNodeID: the node the agent runs on, or 0 when unknown
  Calls,       \* calls of Status and Scale by the workers
  Overlap,     \* whether a worker may call Scale while another one does
  Counts,      \* counts a scaling action may ask for
  RetryLimit,  \* defaultRetryLimit
  MaxLost      \* bound: nodes that are lost without being drained

ASSUME ScaleInConstants ==
  /\ Nodes \subseteq Nat \ {0} /\ IsFiniteSet(Nodes)
  /\ Pool \subseteq Nodes /\ Members \subseteq Nodes /\ Spare \subseteq Pool \ Members
  /\ Own \in (Nodes \ Spare) \union {0}
  /\ Overlap \in BOOLEAN
  /\ Counts \subseteq Int
  /\ RetryLimit \in Nat \ {0} /\ MaxLost \in Nat

VARIABLES
  node,      \* what Nomad has for each node
  group,     \* the instances in the group
  desired,   \* the capacity the group is asked to have
  running,   \* the instances that run
  stopping,  \* the instances that were told to terminate
  lost,
  call       \* each call

cluster == <<node, group, desired, running, stopping, lost>>

DryRunCount == -1
Absent == [status |-> "absent", eligible |-> FALSE, drain |-> FALSE]
InService == [status |-> "ready", eligible |-> TRUE, drain |-> FALSE]

ClusterInit ==
  /\ node = [n \in Nodes |-> IF n \in Spare THEN Absent ELSE InService]
  /\ group = Members
  /\ desired = Cardinality(Members)
  /\ running = Nodes \ Spare
  /\ stopping = {}
  /\ lost = 0
  /\ call = [c \in Calls |-> [pc |-> "idle", count |-> 0, num |-> 0, ids |-> {}, todo |-> {},
                              waiting |-> {}, bad |-> FALSE, tries |-> 0]]

Ended == {"idle", "ok", "failed"}

\* Call c goes from one place in the code to another, and only that.
Step(c, from, to) ==
  /\ call[c].pc = from
  /\ call' = [call EXCEPT ![c].pc = to]

\* An error is returned.
Fails(c, from) == Step(c, from, "failed") /\ UNCHANGED cluster

\* Faulty variant: the count starts again when it reaches the limit.
RetryForEver(c, from, to, done) ==
  /\ call[c].pc = from
  /\ call' = [call EXCEPT ![c].pc = IF done THEN to ELSE from,
                          ![c].tries = IF done THEN 0 ELSE (@ + 1) % RetryLimit]

\* retry: ask again until done, at most RetryLimit times.
Retry(c, from, to, done) ==
  /\ call[c].pc = from
  /\ call' = [call EXCEPT ![c].pc = IF done THEN to
                                    ELSE IF call[c].tries + 1 = RetryLimit THEN "failed" ELSE from,
                          ![c].tries = IF done THEN 0 ELSE @ + 1]

\* The same in the three targets: how many instances to remove, or to have.
calculateDirection(c, current, count) ==
  LET num == current - count
  IN  call' = [call EXCEPT ![c].num = num,
                           ![c].pc = IF num > 0 THEN "request" ELSE IF num < 0 THEN "resize" ELSE "ok"]

-----------------------------------------------------------------------------
(* filter.go and status.go                                                 *)

\* An initializing node, a draining one, and one that is ready and not eligible
\* make filterByClass return an error.
Unstable(n) ==
  \/ node[n].status = "init"
  \/ node[n].status = "ready" /\ ~node[n].eligible

Ready == \A n \in Pool : ~Unstable(n)

\* What filterByClass returns: the eligible nodes of the pool.
filterByClass == {n \in Pool : node[n].status # "absent" /\ node[n].eligible}

\* Faulty variant: one node too many.
FirstAndNext(num, nodes) == {n \in nodes : Cardinality({m \in nodes : m < n}) <= num}

\* The nodes to remove are the first ones that are listed.
First(num, nodes) == {n \in nodes : Cardinality({m \in nodes : m < n}) < num}

-----------------------------------------------------------------------------
(* RunPreScaleInTasks                                                      *)

\* Faulty variant: the node of the agent is not filtered out.
IdentifyWithOwn(c) ==
  LET nodes == filterByClass
  IN  /\ Ready
      /\ nodes # {}
      /\ call[c].pc = "identify"
      /\ call' = [call EXCEPT ![c].pc = "info", ![c].ids = First(call[c].num, nodes)]
      /\ UNCHANGED cluster

identifyTargets(c) ==
  LET nodes == filterByClass \ {Own}
  IN  /\ Ready
      /\ nodes # {}
      /\ call[c].pc = "identify"
      /\ call' = [call EXCEPT ![c].pc = "info", ![c].ids = First(call[c].num, nodes)]
      /\ UNCHANGED cluster

\* The request is not valid, the nodes cannot be listed, or none is left.
IdentifyFails(c) == Fails(c, "identify")

getRemoteIDMap(c) ==
  /\ call[c].pc = "info"
  /\ call' = [call EXCEPT ![c].pc = "drain", ![c].todo = call[c].ids]
  /\ UNCHANGED cluster

\* A node cannot be read or has no ID of the provider: nothing is drained yet.
RemoteIDFails(c) == Fails(c, "info")

\* UpdateDrain, from a goroutine of its own for every node.
drainNode(c, n) ==
  /\ call[c].pc = "drain"
  /\ n \in call[c].todo
  /\ node[n].status # "absent"
  /\ call' = [call EXCEPT ![c].todo = @ \ {n}, ![c].waiting = @ \union {n}]
  /\ node' = [node EXCEPT ![n].eligible = FALSE, ![n].drain = TRUE]
  /\ UNCHANGED <<group, desired, running, stopping, lost>>

DrainRequestFails(c, n) ==
  /\ call[c].pc = "drain"
  /\ n \in call[c].todo
  /\ call' = [call EXCEPT ![c].todo = @ \ {n}, ![c].bad = TRUE]
  /\ UNCHANGED cluster

\* Faulty variant: the drain is requested and not followed.
monitorNothing(c, n) ==
  /\ call[c].pc = "drain"
  /\ n \in call[c].waiting
  /\ call' = [call EXCEPT ![c].waiting = @ \ {n}]
  /\ UNCHANGED cluster

\* MonitorDrain has no more messages once the node is drained.
monitorNodeDrain(c, n) ==
  /\ call[c].pc = "drain"
  /\ n \in call[c].waiting
  /\ ~node[n].drain
  /\ call' = [call EXCEPT ![c].waiting = @ \ {n}]
  /\ UNCHANGED cluster

DrainFails(c, n) ==
  /\ call[c].pc = "drain"
  /\ n \in call[c].waiting
  /\ call' = [call EXCEPT ![c].waiting = @ \ {n}, ![c].bad = TRUE]
  /\ UNCHANGED cluster

\* Every goroutine has ended: one error is an error for all.
drainNodes(c) ==
  /\ call[c].todo = {} /\ call[c].waiting = {}
  /\ Step(c, "drain", IF call[c].bad THEN "failed" ELSE "remove")
  /\ UNCHANGED cluster

PreScaleIn(c) ==
  \/ identifyTargets(c) \/ IdentifyFails(c) \/ getRemoteIDMap(c) \/ RemoteIDFails(c)
  \/ \E n \in Nodes : \/ drainNode(c, n) \/ DrainRequestFails(c, n)
                      \/ monitorNodeDrain(c, n) \/ DrainFails(c, n)
  \/ drainNodes(c)

-----------------------------------------------------------------------------
(* RunPostScaleInTasks                                                     *)

\* node_purge is not set, is false or cannot be parsed; or the nodes are purged.
RunPostScaleInTasks(c) ==
  /\ \/ Step(c, "post", "ok")
     \/ /\ call[c].pc = "post"
        /\ call' = [call EXCEPT ![c].pc = "purge", ![c].todo = call[c].ids]
  /\ UNCHANGED cluster

PurgeNode(c, n) ==
  /\ call[c].pc = "purge"
  /\ n \in call[c].todo
  /\ \/ /\ node' = [node EXCEPT ![n] = Absent]
        /\ call' = [call EXCEPT ![c].todo = @ \ {n}]
     \/ /\ call' = [call EXCEPT ![c].todo = @ \ {n}, ![c].bad = TRUE]
        /\ UNCHANGED node
  /\ UNCHANGED <<group, desired, running, stopping, lost>>

PurgeReturns(c) ==
  /\ call[c].todo = {}
  /\ Step(c, "purge", IF call[c].bad THEN "failed" ELSE "ok")
  /\ UNCHANGED cluster

PostScaleIn(c) == RunPostScaleInTasks(c) \/ (\E n \in Nodes : PurgeNode(c, n)) \/ PurgeReturns(c)

-----------------------------------------------------------------------------
(* Nomad and the cloud (external)                                          *)

DrainCompletes(n) ==
  /\ node[n].drain
  /\ node' = [node EXCEPT ![n].drain = FALSE]
  /\ UNCHANGED <<group, desired, running, stopping, lost, call>>

InstanceStops(n) ==
  /\ n \in stopping \intersect running
  /\ running' = running \ {n}
  /\ UNCHANGED <<node, group, desired, stopping, lost, call>>

\* Nomad misses the heartbeats of a node; one that was not told to stop keeps
\* its eligibility.
NodeDown(n) ==
  /\ node[n].status = "ready"
  /\ \/ n \notin running /\ UNCHANGED lost
     \/ n \in running /\ lost < MaxLost /\ lost' = lost + 1
  /\ node' = [node EXCEPT ![n].status = "down"]
  /\ UNCHANGED <<group, desired, running, stopping, call>>

LaunchInstance(n) ==
  /\ n \in Spare \ running
  /\ n \notin stopping
  /\ Cardinality(group) < desired
  /\ group' = group \union {n}
  /\ running' = running \union {n}
  /\ node' = [node EXCEPT ![n] = [status |-> "init", eligible |-> TRUE, drain |-> FALSE]]
  /\ UNCHANGED <<desired, stopping, lost, call>>

NodeRegistered(n) ==
  /\ node[n].status = "init"
  /\ node' = [node EXCEPT ![n].status = "ready"]
  /\ UNCHANGED <<group, desired, running, stopping, lost, call>>

=============================================================================
