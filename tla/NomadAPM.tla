------------------------------ MODULE NomadAPM ------------------------------
(***************************************************************************)
(* The Nomad APM (plugins/builtin/apm/nomad/plugin): it parses the query of *)
(* a check and answers it with several calls of the Nomad API, one per      *)
(* allocation of a task group or per node of a pool, any of which may fail. *)
(*                                                                         *)
(* The cluster is fixed while a query runs: allocations with their group,  *)
(* status and usage (Nil when Nomad has no statistics for them), and nodes *)
(* of the pool with their allocatable resources and their allocations.     *)
(* Numbers are those of the resource the query names.  A value is a         *)
(* fraction [num, den], as averages and percentages are not whole.         *)
(***************************************************************************)
EXTENDS Text

VARIABLES cluster,   \* [allocs, allocated, nodes]
          query,     \* the parsed query: Nil, or [kind, op, metric, group, job]
          todo,      \* allocations or nodes still to read
          metrics,   \* what the allocations read so far reported
          resources, \* [allocatable, allocated] of the nodes read so far
          answer     \* Nil, or the value returned

apmVars == <<cluster, query, todo, metrics, resources, answer>>

QueryTypeTaskGroup == "taskgroup"

QueryTypeNode == "node"

TaskGroupOps == {"sum", "avg", "max", "min"}

TaskGroupMetrics == {"cpu", "cpu-allocated", "memory", "memory-allocated"}

\* Bytes in a unit of allocated memory; usage is in bytes.
MiB == 2

\* math.SmallestNonzeroFloat64, below every positive numerator.
SmallestNonzero == 1

\* math.MaxFloat64.
MaxFloat == 100000

\* The type, operation and metric before the first slash.
OpMetric(q) == SplitN(SplitN(q, "/", 3)[1], "_", 3)

parseTaskGroupQuery(q) ==
  LET main == SplitN(q, "/", 3) IN
  IF /\ Len(main) = 3
     /\ Len(OpMetric(q)) = 3
     /\ OpMetric(q)[3] \in {<<m>> : m \in TaskGroupMetrics}
     /\ OpMetric(q)[2] \in {<<op>> : op \in TaskGroupOps}
  THEN Ptr([kind |-> QueryTypeTaskGroup, op |-> OpMetric(q)[2][1],
            metric |-> OpMetric(q)[3][1], group |-> main[2], job |-> main[3]])
  ELSE Nil

parseNodePoolQuery(q) ==
  LET main == SplitN(q, "/", 3) IN
  IF /\ Len(main) = 3
     /\ Len(OpMetric(q)) = 3
     /\ OpMetric(q)[3] \in {<<"cpu">>, <<"memory">>}
     /\ OpMetric(q)[2] = <<"percentage-allocated">>
  THEN Ptr([kind |-> QueryTypeNode, op |-> OpMetric(q)[2][1],
            metric |-> OpMetric(q)[3][1], group |-> main[2], job |-> main[3]])
  ELSE Nil

\* The type is what comes before the first underscore.
Query(q) ==
  CASE SplitN(q, "_", 2)[1] = <<QueryTypeTaskGroup>> -> parseTaskGroupQuery(q)
    [] SplitN(q, "_", 2)[1] = <<QueryTypeNode>> -> parseNodePoolQuery(q)
    [] OTHER -> Nil

\* What one allocation adds, over the common denominator of the query.
metricFunc(q, usage) ==
  CASE q.metric = "cpu-allocated" -> usage * 100
    [] q.metric = "memory-allocated" -> (usage \div MiB) * 100
    [] OTHER -> usage

Denominator(q) ==
  IF q.metric \in {"cpu-allocated", "memory-allocated"} THEN cluster.allocated ELSE 1

Total(ms) == SumFunction(ms)

\* The search for the largest starts just above zero.
Largest(ms) == Max(Range(ms) \cup {SmallestNonzero})

Smallest(ms) == Min(Range(ms) \cup {MaxFloat})

calculateTaskGroupResult(op, ms, den) ==
  CASE op = "sum" -> [num |-> Total(ms), den |-> den]
    [] op = "avg" -> [num |-> Total(ms), den |-> den * Len(ms)]
    [] op = "max" -> [num |-> Largest(ms), den |-> den]
    [] op = "min" -> [num |-> Smallest(ms), den |-> den]

calculateNodePoolResult(allocated, allocatable) ==
  [num |-> allocated * 100, den |-> allocatable]

isServerTerminalStatus(alloc) == alloc.desired # "run"

isClientTerminalStatus(alloc) == alloc.client \in {"complete", "failed", "lost"}

APMInit ==
  /\ query = Nil
  /\ todo = {}
  /\ metrics = <<>>
  /\ resources = [allocatable |-> 0, allocated |-> 0]
  /\ answer = Nil

\* The listing of the job's allocations, and the allocated resources where the
\* metric is a share of them; the loop reads the running ones of the group.
ListAllocations(q) ==
  /\ q.kind = QueryTypeTaskGroup
  /\ todo' = {a \in DOMAIN cluster.allocs : /\ cluster.allocs[a].client = "running"
                                            /\ cluster.allocs[a].group = q.group}
  /\ query' = Ptr(q)
  /\ UNCHANGED <<cluster, metrics, resources, answer>>

\* Statistics that Nomad does not have are skipped.
getTaskGroupResourceUsage(a) ==
  LET usage == cluster.allocs[a].usage IN
  /\ query # Nil /\ query[1].kind = QueryTypeTaskGroup
  /\ a \in todo
  /\ todo' = todo \ {a}
  /\ metrics' = IF usage = Nil THEN metrics
                ELSE Append(metrics, metricFunc(query[1], usage[1]))
  /\ UNCHANGED <<cluster, query, resources, answer>>

\* The nodes of the pool, as the scale-in helpers identify them.
ListNodes(q) ==
  /\ q.kind = QueryTypeNode
  /\ q.job = <<"class">>
  /\ todo' = {n \in DOMAIN cluster.nodes : cluster.nodes[n].class = q.group}
  /\ todo' # {}
  /\ query' = Ptr(q)
  /\ UNCHANGED <<cluster, metrics, resources, answer>>

\* What the allocations of a node that have not ended take.
Allocated(node) ==
  SumFunctionOnSet([i \in DOMAIN node.allocs |-> node.allocs[i].size],
                   {i \in DOMAIN node.allocs : /\ ~ isServerTerminalStatus(node.allocs[i])
                                               /\ ~ isClientTerminalStatus(node.allocs[i])})

getPoolResources(n) ==
  LET node == cluster.nodes[n] IN
  /\ query # Nil /\ query[1].kind = QueryTypeNode
  /\ n \in todo
  /\ todo' = todo \ {n}
  /\ resources' = [allocatable |-> resources.allocatable + node.resources - node.reserved,
                   allocated   |-> resources.allocated + Allocated(node)]
  /\ UNCHANGED <<cluster, query, metrics, answer>>

queryTaskGroup ==
  /\ query # Nil /\ query[1].kind = QueryTypeTaskGroup
  /\ todo = {} /\ metrics # <<>>
  /\ answer' = Ptr(calculateTaskGroupResult(query[1].op, metrics, Denominator(query[1])))
  /\ UNCHANGED <<cluster, query, todo, metrics, resources>>

queryNodePool ==
  /\ query # Nil /\ query[1].kind = QueryTypeNode
  /\ todo = {} /\ resources.allocatable # 0
  /\ answer' = Ptr(calculateNodePoolResult(resources.allocated, resources.allocatable))
  /\ UNCHANGED <<cluster, query, todo, metrics, resources>>

\* Nothing to answer with: no running allocation reported, or an empty pool.
NoAnswer ==
  /\ query # Nil /\ todo = {}
  /\ IF query[1].kind = QueryTypeNode THEN resources.allocatable = 0 ELSE metrics = <<>>

\* Faulty variant: an allocation whose statistics cannot be read is left out.
SkipAllocation ==
  /\ todo # {}
  /\ \E a \in todo : todo' = todo \ {a}
  /\ UNCHANGED <<cluster, query, metrics, resources, answer>>

\* A call of the loop fails, and with it the query.
CallFails ==
  /\ todo # {}
  /\ todo' = {}
  /\ query' = Nil
  /\ UNCHANGED <<cluster, metrics, resources, answer>>
=============================================================================
