---------------------------- MODULE NomadConfig -----------------------------
(***************************************************************************)
(* How the settings of the Nomad client travel from the agent to the       *)
(* plugins (sdk/helper/nomad/config.go, agent/plugins.go).  Plugins run    *)
(* behind a string map, so the agent's client configuration is written     *)
(* into that map and read back by every plugin that talks to Nomad.        *)
(*                                                                         *)
(* A string map is a function from the keys it has to texts.  A client     *)
(* configuration (api.Config) keeps its non-empty strings, the TLS         *)
(* "insecure" flag and the optional HTTP basic authentication.             *)
(***************************************************************************)
EXTENDS Text

Strings == {"address", "region", "namespace", "token", "ca_cert", "ca_path",
            "client_cert", "client_key", "tls_server_name"}

ConfigKeyNomadConfigInherit == "nomad_config_inherit"

True == <<"true">>

\* A pair without a colon is a user name alone.
HTTPAuthFromString(auth) ==
  LET split == SplitN(auth, ":", 2)
  IN  IF auth = <<>>
      THEN Nil
      ELSE Ptr([username |-> split[1],
                password |-> IF Len(split) = 2 THEN split[2] ELSE <<>>])

\* What the environment and the API library give, unless the agent says more.
MergeDefaultWithAgentConfig(default, agentCfg) ==
  [strings  |-> Over(Restrict(agentCfg, DOMAIN agentCfg \cap Strings), default.strings),
   insecure |-> default.insecure \/ "skip_verify" \in DOMAIN agentCfg,
   auth     |-> IF "http_auth" \in DOMAIN agentCfg
                THEN HTTPAuthFromString(agentCfg["http_auth"])
                ELSE default.auth]

\* Faulty variant: the user name without its password.
FormatUser(auth) == auth.username

\* The text form of a pair, as the plugin's map carries it.
FormatAuth(auth) ==
  auth.username \o (IF auth.password = <<>> THEN <<>> ELSE <<":">> \o auth.password)

\* The keys of m that an agent setting may fill.
Missing(m, k) == k \notin DOMAIN m \/ m[k] = <<>>

MergeMapWithAgentConfig(m, cfg) ==
  LET strings == {k \in DOMAIN cfg.strings : Missing(m, k)}
      tls  == {k \in {"skip_verify"} : cfg.insecure /\ Missing(m, k)}
      auth == {k \in {"http_auth"} : cfg.auth # Nil /\ Missing(m, k)}
  IN  [k \in strings \cup tls \cup auth \cup DOMAIN m |->
         CASE k \in strings -> cfg.strings[k]
           [] k \in tls     -> True
           [] k \in auth    -> FormatAuth(cfg.auth[1])
           [] OTHER         -> m[k]]

\* The merge is the default; a value that is not a boolean turns it off.
setupPluginConfig(m, nomadCfg) ==
  IF ConfigKeyNomadConfigInherit \in DOMAIN m => m[ConfigKeyNomadConfigInherit] = True
  THEN MergeMapWithAgentConfig(m, nomadCfg)
  ELSE m

\* The plugin's side of the map.
ConfigFromNamespacedMap(m) ==
  [strings  |-> Restrict(m, {k \in DOMAIN m \cap Strings : m[k] # <<>>}),
   insecure |-> "skip_verify" \in DOMAIN m /\ m["skip_verify"] = True,
   auth     |-> IF "http_auth" \in DOMAIN m
                THEN HTTPAuthFromString(m["http_auth"])
                ELSE Nil]
=============================================================================
