------------------------------- MODULE Config -------------------------------
(***************************************************************************)
(* The agent's configuration (agent/config/config.go) and how the command  *)
(* builds it (readConfig in command/agent.go): defaults, then every -config *)
(* path in order, a file or a directory of files, then the flags.          *)
(*                                                                         *)
(* A configuration has the scalar fields of the top level, four blocks of  *)
(* scalar fields that may be missing (Nil), the policy_eval block, and the  *)
(* plugins of each kind by name.  A block is a function from the fields it  *)
(* gives: a field that is absent, empty, zero or false is not in its       *)
(* domain, as the merges cannot tell these apart.  A path is the sequence   *)
(* of the files it leads to, one unless it is a directory.                 *)
(***************************************************************************)
EXTENDS NomadConfig

CONSTANT Environment          \* api.DefaultConfig(): settings of the environment

VARIABLES paths,              \* the -config paths
          path,               \* the path being loaded
          read,               \* how many of its files were read
          current,            \* Nil, or the configuration read from them
          flags,              \* cmdConfig
          cfg,                \* the configuration built so far
          validationErr,      \* some path did not validate
          stage,              \* "config" while readConfig runs, see Documents
          nomadCfg,           \* the agent's own client configuration
          pluginConfig        \* plugin kind and name -> its string map

configVars == <<paths, path, read, current, flags, cfg, validationErr, nomadCfg, pluginConfig>>

Blocks == {"http", "nomad", "telemetry", "policy"}

Kinds == {"apms", "targets", "strategies"}

HTTPmerge(h, b) == Over(b, h)

Nomadmerge(n, b) == Over(b, n)

\* enable_hostname_label is a field of the block but not of the merge.
Telemetrymerge(t, b) == Over(Restrict(b, DOMAIN b \ {"enable_hostname_label"}), t)

\* Faulty variant: what is already there stays.
PolicyKeeps(p, b) == Over(p, b)

Policymerge(p, b) == Over(b, p)

\* The workers are written into the receiver's map.
PolicyEvalmerge(pw, in) ==
  [fields  |-> Over(in.fields, pw.fields),
   workers |-> IF in.workers = Nil \/ DOMAIN in.workers[1] = {}
               THEN pw.workers
               ELSE Ptr(Over(in.workers[1], pw.workers[1]))]

\* The configuration of the second replaces that of the first as a whole; the
\* driver is not merged.
Pluginmerge(p, o) ==
  [p EXCEPT !.config = IF DOMAIN o.config = {} THEN @ ELSE o.config]

pluginConfigSetMerge(first, second) ==
  Over([n \in DOMAIN first \cap DOMAIN second |-> Pluginmerge(first[n], second[n])],
       Over(first, second))

\* A block given by b and nil in a is merged through a nil pointer, and workers
\* given by b are written into a nil map.
MergePanics(a, b) ==
  \/ \E k \in Blocks \cup {"eval"} : b[k] # Nil /\ a[k] = Nil
  \/ /\ b.eval # Nil /\ a.eval # Nil
     /\ b.eval[1].workers # Nil
     /\ DOMAIN b.eval[1].workers[1] # {}
     /\ a.eval[1].workers = Nil

\* A missing block leaves what is there.
MergeBlock(a, b, merged) == IF b = Nil THEN a ELSE Ptr(merged)

Merge(a, b) ==
  [top        |-> Over(b.top, a.top),
   http       |-> MergeBlock(a.http, b.http, HTTPmerge(a.http[1], b.http[1])),
   nomad      |-> MergeBlock(a.nomad, b.nomad, Nomadmerge(a.nomad[1], b.nomad[1])),
   telemetry  |-> MergeBlock(a.telemetry, b.telemetry, Telemetrymerge(a.telemetry[1], b.telemetry[1])),
   policy     |-> MergeBlock(a.policy, b.policy, Policymerge(a.policy[1], b.policy[1])),
   eval       |-> MergeBlock(a.eval, b.eval, PolicyEvalmerge(a.eval[1], b.eval[1])),
   apms       |-> pluginConfigSetMerge(a.apms, b.apms),
   targets    |-> pluginConfigSetMerge(a.targets, b.targets),
   strategies |-> pluginConfigSetMerge(a.strategies, b.strategies)]

NoFields == [f \in {} |-> 0]

Internal(n) == [m \in {n} |-> [driver |-> n, config |-> NoFields]]

\* A configuration that gives nothing: &Agent{}.
Empty ==
  [top |-> NoFields, http |-> Nil, nomad |-> Nil, telemetry |-> Nil, policy |-> Nil, eval |-> Nil,
   apms |-> NoFields, targets |-> NoFields, strategies |-> NoFields]

Default ==
  [top        |-> [log_level |-> "info", plugin_dir |-> "plugins"],
   http       |-> Ptr([bind_address |-> "127.0.0.1", bind_port |-> 8080]),
   nomad      |-> Ptr(NoFields),
   telemetry  |-> Ptr([collection_interval |-> 1]),
   policy     |-> Ptr([default_cooldown |-> 300, default_evaluation_interval |-> 10]),
   eval       |-> Ptr([fields  |-> [delivery_limit |-> 1, ack_timeout |-> 300],
                       workers |-> Ptr([horizontal |-> 10, cluster |-> 10])]),
   apms       |-> Internal("nomad-apm"),
   targets    |-> Internal("nomad-target"),
   strategies |-> Internal("target-value")]

validate(pw) ==
  /\ "delivery_limit" \in DOMAIN pw.fields => pw.fields["delivery_limit"] > 0
  /\ pw.workers # Nil => \A q \in DOMAIN pw.workers[1] : pw.workers[1][q] >= 0

Validate(a) == a.eval # Nil => validate(a.eval[1])

\* A file decodes with all its durations, or it does not.
parseFile(f) == IF f.decodes THEN Ptr(f.cfg) ELSE Nil

ConfigInit ==
  /\ path = 1 /\ read = 0 /\ current = Nil
  /\ cfg = Default
  /\ validationErr = FALSE
  /\ nomadCfg = Nil
  /\ pluginConfig = NoFields

\* One file of the path; the files of a directory, in alphabetical order, are
\* merged into the first.
loadDir ==
  /\ stage = "config"
  /\ path \in DOMAIN paths
  /\ read + 1 \in DOMAIN paths[path]
  /\ LET parsed == parseFile(paths[path][read + 1]) IN
     \/ /\ parsed = Nil
        /\ stage' = "error"
        /\ UNCHANGED <<read, current>>
     \/ /\ parsed # Nil
        /\ current # Nil /\ MergePanics(current[1], parsed[1])
        /\ stage' = "panic"
        /\ UNCHANGED <<read, current>>
     \/ /\ parsed # Nil
        /\ current # Nil => ~ MergePanics(current[1], parsed[1])
        /\ current' = IF current = Nil THEN parsed ELSE Ptr(Merge(current[1], parsed[1]))
        /\ read' = read + 1
        /\ UNCHANGED stage
  /\ UNCHANGED <<paths, path, flags, cfg, validationErr, nomadCfg, pluginConfig>>

\* What Load returns once the files are read.
Loaded == IF current = Nil THEN Empty ELSE current[1]

\* One turn of the loop over the -config paths.  A configuration that does not
\* validate is skipped, so that the remaining paths are validated as well.
\* Every block of cfg comes from the defaults, so this merge has no nil pointer.
LoadPath ==
  /\ stage = "config"
  /\ path \in DOMAIN paths
  /\ read + 1 \notin DOMAIN paths[path]
  /\ \/ /\ ~ Validate(Loaded)
        /\ validationErr' = TRUE
        /\ UNCHANGED cfg
     \/ /\ Validate(Loaded)
        /\ cfg' = Merge(cfg, Loaded)
        /\ UNCHANGED validationErr
  /\ path' = path + 1 /\ read' = 0 /\ current' = Nil
  /\ UNCHANGED <<stage, paths, flags, nomadCfg, pluginConfig>>

Rejected ==
  /\ stage = "config" /\ path \notin DOMAIN paths /\ validationErr
  /\ stage' = "error"
  /\ UNCHANGED configVars

\* The flags come last, and are not validated.
MergeFlags ==
  /\ stage = "config" /\ path \notin DOMAIN paths /\ ~ validationErr
  /\ stage' = "agent"
  /\ cfg' = Merge(cfg, flags)
  /\ UNCHANGED <<paths, path, read, current, flags, validationErr, nomadCfg, pluginConfig>>

\* NewAgent, and the plugin configurations the plugin manager is given.
setupPluginsConfig ==
  LET client == MergeDefaultWithAgentConfig(Environment, cfg.nomad[1]) IN
  /\ stage = "agent"
  /\ stage' = "policy"
  /\ nomadCfg' = Ptr(client)
  /\ pluginConfig' = [k \in Kinds |-> [n \in DOMAIN cfg[k] |->
                        setupPluginConfig(cfg[k][n].config, client)]]
  /\ UNCHANGED <<paths, path, read, current, flags, cfg, validationErr>>

\* The APM plugins that answer Nomad queries.
getNomadAPMNames == {n \in DOMAIN cfg.apms : cfg.apms[n].driver = "nomad-apm"}
=============================================================================
