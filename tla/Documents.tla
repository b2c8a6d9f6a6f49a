----------------------------- MODULE Documents ------------------------------
(***************************************************************************)
(* The way from what operators write to what the autoscaler does with it:  *)
(* the configuration is read and given to the plugins (Config), a policy   *)
(* is validated, parsed and made canonical with the defaults and the APM   *)
(* names of that configuration (PolicyDocument), a handler starts to       *)
(* monitor it, and a worker asks the Nomad APM for a check's metric        *)
(* (NomadAPM).                                                             *)
(***************************************************************************)
EXTENDS Config, PolicyDocument, NomadAPM

CONSTANT Inputs   \* records [paths, flags, document, cluster]

-----------------------------------------------------------------------------
(* What the readers are given, in the encoding of Config, PolicyDocument and *)
(* NomadAPM                                                                  *)

IsSequence(s) == Len(s) \in Nat /\ DOMAIN s = 1 .. Len(s)

IsPlugin(p) == p = [driver |-> p.driver, config |-> p.config]

\* A field that is zero or empty is not given.
IsConfiguration(c) ==
  /\ \A k \in Kinds : \A n \in DOMAIN c[k] : IsPlugin(c[k][n])
  /\ c.policy # Nil =>
       \A f \in DOMAIN c.policy[1] \cap {"default_cooldown", "default_evaluation_interval"} :
         c.policy[1][f] \in Int \ {0}
  /\ c.nomad # Nil => \A f \in DOMAIN c.nomad[1] : c.nomad[1][f] \in Texts \ {<<>>}

IsConfigFile(f) == f.decodes \in BOOLEAN /\ IsConfiguration(f.cfg)

IsCheck(c) ==
  /\ c.query.val \in Texts /\ c.source.val \in Texts
  /\ c.query_window.val \in Int

IsTargetBody(m) == \A k \in DOMAIN m : m[k].printed \in Texts

\* The maps of a list of labelled blocks.
MapsOf(blocks) == {m[1] : m \in Range(blocks.maps) \ {Nil}}

IsNomadPolicy(p) ==
  /\ p.min # Nil => p.min[1] \in Int
  /\ p.max # Nil => p.max[1] \in Int
  /\ p.target # Nil => \A k \in DOMAIN p.target[1] : p.target[1][k] \in Texts
  /\ p.policy # Nil =>
       LET body == p.policy[1] IN
       /\ body.evaluation_interval.val \in Int /\ body.cooldown.val \in Int
       /\ IsSequence(body.check.maps) /\ IsSequence(body.target.maps)
       /\ \A m \in MapsOf(body.check) : \A l \in DOMAIN m : IsCheck(m[l].body)
       /\ \A m \in MapsOf(body.target) : \A l \in DOMAIN m : IsTargetBody(m[l].body)

IsFilePolicy(p) == p.doc # Nil => p.doc[1].evaluation_interval.val \in Int

\* Every number is below math.MaxFloat64.
IsAllocation(a) == a.usage # Nil => a.usage[1] \in Nat /\ a.usage[1] * 100 <= MaxFloat

IsNode(n) ==
  /\ n.resources \in Int /\ n.reserved \in Int
  /\ IsFiniteSet(DOMAIN n.allocs) /\ \A i \in DOMAIN n.allocs : n.allocs[i].size \in Int

IsCluster(c) ==
  /\ IsFiniteSet(DOMAIN c.allocs) /\ \A a \in DOMAIN c.allocs : IsAllocation(c.allocs[a])
  /\ IsFiniteSet(DOMAIN c.nodes) /\ \A n \in DOMAIN c.nodes : IsNode(c.nodes[n])

ASSUME InputsAssumption ==
  \A i \in Inputs :
    /\ IsSequence(i.paths)
    /\ \A p \in DOMAIN i.paths :
         IsSequence(i.paths[p]) /\ \A f \in DOMAIN i.paths[p] : IsConfigFile(i.paths[p][f])
    /\ IsConfiguration(i.flags)
    /\ i.document.source = "nomad" => IsNomadPolicy(i.document.policy)
    /\ i.document.source = "file" => IsFilePolicy(i.document.policy)
    /\ IsCluster(i.cluster)

\* The settings of the environment are not empty, and the API library takes the
\* user name from before the first colon.
ASSUME EnvironmentAssumption ==
  /\ \A f \in DOMAIN Environment.strings :
       f \in Strings /\ Environment.strings[f] \in Texts \ {<<>>}
  /\ Environment.insecure \in BOOLEAN
  /\ Environment.auth # Nil =>
       /\ Environment.auth = Ptr([username |-> Environment.auth[1].username,
                                  password |-> Environment.auth[1].password])
       /\ Environment.auth[1].username \in Texts /\ Environment.auth[1].password \in Texts
       /\ ~ Contains(Environment.auth[1].username, ":")

-----------------------------------------------------------------------------
VARIABLES input,    \* what this behaviour reads
          policy    \* Nil, or the policy sent to the handler

vars == <<input, stage, policy, configVars, apmVars>>

Init ==
  /\ input \in Inputs
  /\ paths = input.paths
  /\ flags = input.flags
  /\ cluster = input.cluster
  /\ stage = "config"
  /\ policy = Nil
  /\ ConfigInit
  /\ APMInit

readConfig ==
  /\ loadDir \/ LoadPath \/ Rejected \/ MergeFlags
  /\ UNCHANGED <<input, policy, apmVars>>

StartAgent ==
  /\ setupPluginsConfig
  /\ UNCHANGED <<input, policy, apmVars>>

Defaults == [cooldown |-> cfg.policy[1]["default_cooldown"],
             interval |-> cfg.policy[1]["default_evaluation_interval"]]

NomadAPMs == {<<n>> : n \in getNomadAPMNames}

\* One read of MonitorPolicy: what does not validate is not parsed.
ReadNomadPolicy ==
  LET p == input.document.policy IN
  /\ stage = "policy"
  /\ input.document.source = "nomad"
  /\ IF validateScalingPolicy(p)
     THEN /\ policy' = Ptr(canonicalizePolicy(parsePolicy(p), Defaults, NomadAPMs))
          /\ stage' = "monitor"
     ELSE stage' = "refused" /\ UNCHANGED policy
  /\ UNCHANGED <<input, configVars, apmVars>>

\* handleIndividualPolicyRead; a scaling block without a policy block is read
\* through a nil pointer.
ReadFilePolicy ==
  LET p == input.document.policy IN
  /\ stage = "policy"
  /\ input.document.source = "file"
  /\ \/ /\ p.doc = Nil
        /\ stage' = "panic" /\ UNCHANGED policy
     \/ /\ p.doc # Nil
        /\ ~ (/\ decodePolicyDoc(p.doc[1])
              /\ ValidatePolicy(ApplyPolicyDefaults(Translate(p), Defaults)))
        /\ stage' = "refused" /\ UNCHANGED policy
     \/ /\ p.doc # Nil
        /\ decodePolicyDoc(p.doc[1])
        /\ ValidatePolicy(ApplyPolicyDefaults(Translate(p), Defaults))
        /\ policy' = Ptr(CanonicalizeFilePolicy(
                           ApplyPolicyDefaults(Translate(p), Defaults), NomadAPMs))
        /\ stage' = "monitor"
  /\ UNCHANGED <<input, configVars, apmVars>>

\* A ticker needs a positive interval.
updateHandler ==
  /\ stage = "monitor"
  /\ stage' = IF policy[1].interval > 0 THEN "tick" ELSE "panic"
  /\ UNCHANGED <<input, policy, configVars, apmVars>>

generateEvaluation ==
  /\ stage = "tick"
  /\ stage' = IF ~ policy[1].enabled THEN "idle"
              ELSE IF policy[1].target = Nil THEN "panic"
              ELSE IF policy[1].target[1].name \in DOMAIN cfg.targets THEN "evaluate" ELSE "idle"
  /\ UNCHANGED <<input, policy, configVars, apmVars>>

\* A worker's handler of one check, up to the query; the metrics of an APM
\* other than Nomad's are not followed.
checkHandlerStart ==
  /\ stage = "evaluate"
  /\ \E c \in policy[1].checks :
       \/ /\ c.source \notin {<<n>> : n \in DOMAIN cfg.apms}
          /\ stage' = "idle" /\ UNCHANGED apmVars
       \/ /\ c.source \in {<<n>> : n \in DOMAIN cfg.apms}
          /\ c.strategy = Nil
          /\ stage' = "panic" /\ UNCHANGED apmVars
       \/ /\ c.source \in {<<n>> : n \in DOMAIN cfg.apms}
          /\ c.strategy # Nil
          /\ \/ c.strategy[1].name \notin DOMAIN cfg.strategies
             \/ c.source \notin NomadAPMs
             \/ Query(c.query) = Nil
          /\ stage' = "idle" /\ UNCHANGED apmVars
       \/ /\ c.source \in NomadAPMs
          /\ c.strategy # Nil
          /\ c.strategy[1].name \in DOMAIN cfg.strategies
          /\ Query(c.query) # Nil
          /\ \/ ListAllocations(Query(c.query)[1])
             \/ ListNodes(Query(c.query)[1])
          /\ stage' = "query"
  /\ UNCHANGED <<input, policy, configVars>>

\* The listing itself fails, or finds no pool.
ListingFails ==
  /\ stage = "evaluate"
  /\ \E c \in policy[1].checks : c.source \in NomadAPMs /\ Query(c.query) # Nil
  /\ stage' = "idle"
  /\ UNCHANGED <<input, policy, configVars, apmVars>>

ReadMetrics ==
  /\ stage = "query"
  /\ \/ \E a \in todo : getTaskGroupResourceUsage(a) \/ getPoolResources(a)
     \/ CallFails
  /\ UNCHANGED <<input, stage, policy, configVars>>

Answer ==
  /\ stage = "query"
  /\ queryTaskGroup \/ queryNodePool
  /\ stage' = "answered"
  /\ UNCHANGED <<input, policy, configVars>>

Unanswered ==
  /\ stage = "query"
  /\ query = Nil \/ NoAnswer
  /\ stage' = "idle"
  /\ UNCHANGED <<input, policy, configVars, apmVars>>

Next ==
  \/ readConfig \/ StartAgent
  \/ ReadNomadPolicy \/ ReadFilePolicy
  \/ updateHandler \/ generateEvaluation
  \/ checkHandlerStart \/ ListingFails \/ ReadMetrics \/ Answer \/ Unanswered

Spec == Init /\ [][Next]_vars

-----------------------------------------------------------------------------
(* Properties *)

\* The stages a configuration reaches once readConfig has returned it.
Configured == {"agent", "policy", "refused", "monitor", "tick", "evaluate", "query",
               "answered", "idle"}

\* Where a setting may come from, in the order in which later ones should win:
\* the defaults, the files of every path, the flags.
FilesOf(p) == {p} \X DOMAIN input.paths[p]

Sources ==
  (UNION {FilesOf(p) : p \in DOMAIN input.paths}) \cup {<<0, 0>>, <<Len(input.paths) + 1, 0>>}

WrittenIn(s) ==
  CASE s[1] = 0 -> Default
    [] s[1] \in DOMAIN input.paths -> input.paths[s[1]][s[2]].cfg
    [] OTHER -> input.flags

Before(s, t) == s[1] < t[1] \/ (s[1] = t[1] /\ s[2] < t[2])

\* The map m has what the maps G[s] of the sources in S have, each value from
\* the last of them that has the key.
LastGiven(m, G, S) ==
  /\ DOMAIN m = UNION {DOMAIN G[s] : s \in S}
  /\ \A f \in DOMAIN m : \E s \in S :
       /\ f \in DOMAIN G[s] /\ m[f] = G[s][f]
       /\ \A t \in S : f \in DOMAIN G[t] => ~ Before(s, t)

\* The same with the first of them.
FirstGiven(m, G, S) ==
  /\ DOMAIN m = UNION {DOMAIN G[s] : s \in S}
  /\ \A f \in DOMAIN m : \E s \in S :
       /\ f \in DOMAIN G[s] /\ m[f] = G[s][f]
       /\ \A t \in S : f \in DOMAIN G[t] => ~ Before(t, s)

\* The fields of an optional block, but for the one that no merge carries over.
Fields(k, b) ==
  LET all == IF b = Nil THEN NoFields ELSE b[1]
  IN  Restrict(all, IF k = "telemetry" THEN DOMAIN all \ {"enable_hostname_label"}
                                       ELSE DOMAIN all)

EvalFields(e) == IF e = Nil THEN NoFields ELSE e[1].fields

Workers(e) == IF e = Nil \/ e[1].workers = Nil THEN NoFields ELSE e[1].workers[1]

\* The plugins with a configuration of their own.
PluginConfigs(ps) == [n \in {m \in DOMAIN ps : DOMAIN ps[m].config # {}} |-> ps[n].config]

Drivers(ps) == [n \in DOMAIN ps |-> ps[n].driver]

\* Merging the defaults, the paths in order, the files of a directory and the
\* flags gives every field of the top level and of every block the last value
\* written for it, every worker pool its last count and every plugin its last
\* non-empty configuration; only a hostname label that was asked for is lost,
\* and a plugin keeps the driver it was first given (Merge and readConfig).
LastWins ==
  stage \in Configured =>
    /\ LastGiven(cfg.top, [s \in Sources |-> WrittenIn(s).top], Sources)
    /\ \A k \in Blocks :
         LastGiven(cfg[k][1], [s \in Sources |-> Fields(k, WrittenIn(s)[k])], Sources)
    /\ LastGiven(cfg.eval[1].fields, [s \in Sources |-> EvalFields(WrittenIn(s).eval)], Sources)
    /\ LastGiven(cfg.eval[1].workers[1], [s \in Sources |-> Workers(WrittenIn(s).eval)], Sources)
    /\ \A k \in Kinds :
         /\ LastGiven(PluginConfigs(cfg[k]),
                      [s \in Sources |-> PluginConfigs(WrittenIn(s)[k])], Sources)
         /\ FirstGiven(Drivers(cfg[k]), [s \in Sources |-> Drivers(WrittenIn(s)[k])], Sources)

EmptyAuth == [username |-> <<>>, password |-> <<>>]

\* Every plugin that talks to Nomad ends up with its own setting where it has
\* one, else with the agent's where it inherits, else with none; a user name
\* and password survive the text form of the map, unless both are empty
\* (setupPluginConfig, MergeMapWithAgentConfig and ConfigFromNamespacedMap).
PluginsKeepNomadSettings ==
  stage \in Configured \ {"agent"} =>
    \A k \in Kinds : \A n \in DOMAIN cfg[k] :
      LET own      == cfg[k][n].config
          client   == ConfigFromNamespacedMap(pluginConfig[k][n])
          inherits == ConfigKeyNomadConfigInherit \in DOMAIN own
                        => own[ConfigKeyNomadConfigInherit] = True
          agent    == nomadCfg[1]
      IN  /\ \A f \in Strings :
               LET from == CASE ~ Missing(own, f) -> {own[f]}
                             [] Missing(own, f) /\ inherits /\ f \in DOMAIN agent.strings ->
                                  {agent.strings[f]}
                             [] OTHER -> {}
               IN  from = IF f \in DOMAIN client.strings THEN {client.strings[f]} ELSE {}
          /\ client.auth = IF ~ Missing(own, "http_auth")
                           THEN HTTPAuthFromString(own["http_auth"])
                           ELSE IF inherits /\ agent.auth # Ptr(EmptyAuth)
                                THEN agent.auth ELSE Nil
          /\ client.insecure = IF ~ Missing(own, "skip_verify")
                               THEN own["skip_verify"] = True
                               ELSE inherits /\ agent.insecure

\* The agent goes down on what operators write in five ways only: a directory
\* whose later file has a block the earlier ones lack, a scaling block without
\* its policy block, a negative interval, and a file policy
\* without a target or a check without a strategy.  A policy that passed
\* Nomad's validation and its canonical form never does, unless its interval
\* is negative (loadDir, decodePolicyDoc, updateHandler, generateEvaluation,
\* checkHandlerStart).
PanicExplained ==
  stage = "panic" =>
    \/ policy = Nil /\ \E i \in DOMAIN input.paths : Len(input.paths[i]) > 1
    \/ policy = Nil /\ input.document.source = "file" /\ input.document.policy.doc = Nil
    \/ policy # Nil /\ policy[1].interval < 0
    \/ /\ policy # Nil
       /\ input.document.source = "file"
       /\ policy[1].target = Nil \/ \E c \in policy[1].checks : c.strategy = Nil

\* The checks of a Nomad policy by label.
WrittenChecks == Flatten(input.document.policy.policy[1].check)

\* A Nomad policy that is accepted is monitored whole: ordered limits, every
\* default filled in, a target for a horizontal policy, the job and group Nomad
\* attached unless the target list has no block, and every check with its query;
\* a check is lost only when it is written as a bare map (validateScalingPolicy,
\* parsePolicy and canonicalizePolicy).
AcceptedIsComplete ==
  policy # Nil /\ input.document.source = "nomad" =>
    LET p == policy[1] IN
    /\ 0 <= p.min /\ p.min <= p.max
    /\ p.interval # 0 /\ p.cooldown # 0
    /\ p.type = "horizontal" => p.target[1].name # ""
    /\ \/ /\ Given(input.document.policy.policy[1].target)
          /\ DOMAIN Flatten(input.document.policy.policy[1].target) = {}
       \/ DOMAIN input.document.policy.target[1] \subseteq DOMAIN p.target[1].config
    /\ {c.name : c \in p.checks} =
         {l \in DOMAIN WrittenChecks : WrittenChecks[l].form = "list"}
    /\ \A c \in p.checks : c.query # <<>> /\ c.query_window # 0 /\ c.source # <<>>

\* What a policy may ask of a task group in short form.
ShortQueries == UNION {{<<op, "_", m>> : m \in TaskGroupMetrics} : op \in TaskGroupOps}

\* The group, job, operation and metric of a short query for the Nomad APM are
\* those the APM reads back from the expanded query, unless the name of the
\* group holds a slash (CanonicalizeAPMQuery and parseTaskGroupQuery).
ShortQueryUnderstood ==
  policy # Nil /\ input.document.source = "nomad" =>
    \A c \in policy[1].checks :
      LET written == WrittenChecks[c.name].body.query.val
          config  == policy[1].target[1].config
      IN  /\ c.source \in NomadAPMs
          /\ IsJobTaskGroupTarget(policy[1].target[1])
          /\ ~ Contains(config["Group"], "/")
          /\ written \in ShortQueries
          => Query(c.query) = Ptr([kind |-> "taskgroup", op |-> written[1],
                                   metric |-> written[3], group |-> config["Group"],
                                   job |-> config["Job"]])

\* An answer is never partial: a task group's value is computed from every
\* running allocation of the group that has statistics, a pool's from every
\* node of the class and every allocation that has not ended, and the maximum
\* of a group that reports only zeroes is the smallest number above zero
\* (getTaskGroupResourceUsage, getPoolResources, calculateTaskGroupResult).
UsageIsExact ==
  answer # Nil =>
    LET q       == query[1]
        allocs  == {a \in DOMAIN cluster.allocs :
                      /\ cluster.allocs[a].client = "running"
                      /\ cluster.allocs[a].group = q.group
                      /\ cluster.allocs[a].usage # Nil}
        Value   == [a \in allocs |-> metricFunc(q, cluster.allocs[a].usage[1])]
        values  == Range(Value)
        pool    == {n \in DOMAIN cluster.nodes : cluster.nodes[n].class = q.group}
        Free    == [n \in pool |-> cluster.nodes[n].resources - cluster.nodes[n].reserved]
        Live(n) == {i \in DOMAIN cluster.nodes[n].allocs :
                      /\ cluster.nodes[n].allocs[i].desired = "run"
                      /\ cluster.nodes[n].allocs[i].client \notin {"complete", "failed", "lost"}}
        Used    == [n \in pool |-> SumFunction([i \in Live(n) |-> cluster.nodes[n].allocs[i].size])]
    IN  /\ answer[1].num =
          CASE q.kind = "node" -> 100 * SumFunction(Used)
            [] q.op \in {"sum", "avg"} -> SumFunction(Value)
            [] q.op = "min" -> Min(values)
            [] q.op = "max" -> IF values = {0} THEN SmallestNonzero ELSE Max(values)
        /\ q.kind = "node" => answer[1].den = SumFunction(Free)
        /\ q.op = "avg" => answer[1].den = Denominator(q) * Cardinality(allocs)

=============================================================================
