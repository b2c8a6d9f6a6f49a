--------------------------- MODULE PolicyDocument ---------------------------
(***************************************************************************)
(* From a scaling policy as written to the policy a handler monitors:      *)
(* validation and parsing of the nested maps Nomad returns                 *)
(* (policy/nomad/validate*.go, parser.go), the decoding of policy files    *)
(* (policy/file/parse.go), and the canonical form both end in              *)
(* (policy/policy.go, policy/nomad/source.go).                             *)
(*                                                                         *)
(* Nomad's maps are untyped.  An attribute is a record of its kind         *)
(* ("absent", "string", or "other" for any other type) and its value; the   *)
(* value of a duration is its number of seconds, and the kind "malformed"  *)
(* marks a string that is no duration.  Blocks are lists of labelled       *)
(* blocks: [kind, maps], where kind is "absent", "list" or "other" and     *)
(* each element of maps is Nil when it is no map, else a map from labels   *)
(* to blocks.  A block is [form, body], where form is "list" (a list of    *)
(* one map, what Nomad returns), "map" (a bare map) or "other".            *)
(***************************************************************************)
EXTENDS Text

NoBlocks == [l \in {} |-> Nil]

\* The labelled blocks of a list; of two blocks with one label, the later.
Flatten(blocks) ==
  LET Holding(l) == {i \in DOMAIN blocks.maps :
                       blocks.maps[i] # Nil /\ l \in DOMAIN blocks.maps[i][1]}
      labels == UNION {DOMAIN m[1] : m \in Range(blocks.maps) \ {Nil}}
  IN  [l \in labels |-> blocks.maps[Max(Holding(l))][1][l]]

Given(attr) == attr.kind # "absent"

-----------------------------------------------------------------------------
(* Validation *)

validateDuration(d) == d.kind = "string"

\* The validators that the code passes to these three are applied by the callers.
\* Both a bare map and a list of one map pass.
validateBlock(block) == block.form \in {"map", "list"}

\* No block at all passes, whatever the minimum.
validateLabeledBlocks(b, min, max) ==
  \/ DOMAIN b = {}
  \/ /\ Cardinality(DOMAIN b) >= min
     /\ Cardinality(DOMAIN b) <= max
     /\ \A l \in DOMAIN b : l # "" /\ validateBlock(b[l])

validateBlocks(in) ==
  /\ in.kind = "list"
  /\ \A i \in DOMAIN in.maps : in.maps[i] # Nil

NoMaximum == 1000

validateStrategy(s) == validateLabeledBlocks(s, 1, 1)

validateTarget(t) == validateLabeledBlocks(t, 0, 1)

validateCheck(c) ==
  /\ Given(c.source) => c.source.kind = "string"
  /\ Given(c.query) => c.query.kind = "string" /\ c.query.val # <<>>
  /\ Given(c.query_window) => validateDuration(c.query_window)
  /\ validateBlocks(c.strategy) /\ validateStrategy(Flatten(c.strategy))

validateChecks(in) ==
  /\ validateLabeledBlocks(in, 1, NoMaximum)
  /\ \A l \in DOMAIN in : validateCheck(in[l].body)

validatePolicy(p) ==
  /\ p # Nil
  /\ LET body == p[1] IN
     /\ Given(body.evaluation_interval) => validateDuration(body.evaluation_interval)
     /\ Given(body.cooldown) => validateDuration(body.cooldown)
     /\ Given(body.target) => validateBlocks(body.target) /\ validateTarget(Flatten(body.target))
     /\ validateBlocks(body.check) /\ validateChecks(Flatten(body.check))

\* Faulty variant: the query may be missing.
validateNothingMore(c) == TRUE

validateCheckHorizontal(c) == Given(c.query)

validateChecksHorizontal(in) ==
  /\ validateLabeledBlocks(in, 1, NoMaximum)
  /\ \A l \in DOMAIN in : validateCheckHorizontal(in[l].body)

validateHorizontalPolicy(policy) ==
  /\ policy.min # Nil /\ policy.max # Nil
  /\ policy.min[1] >= 0 /\ policy.max[1] >= 0
  /\ policy.min[1] <= policy.max[1]
  /\ policy.policy # Nil
  /\ validateBlocks(policy.policy[1].check)
  /\ validateChecksHorizontal(Flatten(policy.policy[1].check))

validateScalingPolicyByType(policy) ==
  /\ policy.type \in {"", "horizontal", "cluster"}
  /\ validateHorizontalPolicy(policy)

validateScalingPolicy(policy) ==
  /\ policy.id # ""
  /\ policy.target # Nil
  /\ validatePolicy(policy.policy)
  /\ validateScalingPolicyByType(policy)

-----------------------------------------------------------------------------
(* Parsing, which drops what it cannot read *)

ParseDuration(d) == IF d.kind = "string" THEN d.val ELSE 0

ParseString(s) == IF s.kind = "string" THEN s.val ELSE <<>>

\* Only a list of one map is a block.
parseBlock(block) == IF block.form = "list" THEN Ptr(block.body) ELSE Nil

parseBlocks(blocks) == IF blocks.kind = "list" THEN Flatten(blocks) ELSE NoBlocks

\* A configuration value in the %v format.
StringMap(m) == [k \in DOMAIN m |-> m[k].printed]

parseStrategy(s) ==
  IF parseBlock(s) = Nil THEN Nil
  ELSE Ptr([name |-> "", config |-> StringMap(parseBlock(s)[1])])

\* The first labelled block that was parsed, under its label.
Labelled(parsed) ==
  LET labels == {l \in DOMAIN parsed : parsed[l] # Nil}
  IN  IF labels = {} THEN Nil
      ELSE LET l == CHOOSE l \in labels : TRUE
           IN  Ptr([parsed[l][1] EXCEPT !.name = l])

parseCheck(c) ==
  IF parseBlock(c) = Nil THEN Nil
  ELSE LET check == parseBlock(c)[1]
           strategies == parseBlocks(check.strategy) IN
       Ptr([name         |-> "",
            source       |-> ParseString(check.source),
            query        |-> ParseString(check.query),
            query_window |-> ParseDuration(check.query_window),
            strategy     |-> Labelled([l \in DOMAIN strategies |-> parseStrategy(strategies[l])])])

parseChecks(cs) ==
  LET blocks == parseBlocks(cs)
  IN  {[parseCheck(blocks[l])[1] EXCEPT !.name = l] :
         l \in {m \in DOMAIN blocks : parseCheck(blocks[m]) # Nil}}

\* The target of the policy's block over the one Nomad attached.
parseTarget(body, targetAttr) ==
  IF body = Nil /\ targetAttr = Nil THEN Nil
  ELSE Ptr([name   |-> "",
            config |-> Over(IF body = Nil THEN NoBlocks ELSE StringMap(body[1]),
                            IF targetAttr = Nil THEN NoBlocks ELSE targetAttr[1])])

\* A target key with no block in it leaves no target at all, not even the one
\* Nomad attached.
parsePolicy(p) ==
  LET body == p.policy[1]
      targets == parseBlocks(body.target)
  IN  [id       |-> p.id,
       type     |-> p.type,
       min      |-> IF p.min = Nil THEN 0 ELSE p.min[1],
       max      |-> p.max[1],
       enabled  |-> p.enabled = Nil \/ p.enabled[1],
       interval |-> ParseDuration(body.evaluation_interval),
       cooldown |-> ParseDuration(body.cooldown),
       checks   |-> parseChecks(body.check),
       target   |-> IF ~ Given(body.target)
                    THEN parseTarget(Nil, p.target)
                    ELSE Labelled([l \in DOMAIN targets |->
                                     parseTarget(parseBlock(targets[l]), p.target)])]

-----------------------------------------------------------------------------
(* Policy files *)

\* Reading stops at the first duration that does not parse.
decodePolicyDoc(doc) ==
  /\ doc.cooldown.kind # "malformed"
  /\ doc.evaluation_interval.kind # "malformed"
  /\ \A c \in doc.checks : c.query_window.kind # "malformed"

\* A scaling block without a type is a cluster policy.
Translate(p) ==
  [id       |-> p.name,
   type     |-> IF p.type = "" THEN "cluster" ELSE p.type,
   min      |-> p.min,
   max      |-> p.max,
   enabled  |-> p.enabled,
   interval |-> ParseDuration(p.doc[1].evaluation_interval),
   cooldown |-> ParseDuration(p.doc[1].cooldown),
   checks   |-> {[c EXCEPT !.query_window = ParseDuration(@)] : c \in p.doc[1].checks},
   target   |-> p.doc[1].target]

ValidatePolicy(p) ==
  /\ p.id # ""
  /\ p.min >= 0 /\ p.max >= 0
  /\ p.min <= p.max

-----------------------------------------------------------------------------
(* The canonical form *)

DefaultQueryWindow == 60

Or(value, default) == IF value = 0 THEN default ELSE value

ApplyPolicyDefaults(p, defaults) ==
  [p EXCEPT !.cooldown = Or(@, defaults.cooldown),
            !.interval = Or(@, defaults.interval),
            !.checks = {[c EXCEPT !.query_window = Or(@, DefaultQueryWindow)] : c \in @}]

IsJobTaskGroupTarget(t) == {"Job", "Group"} \subseteq DOMAIN t.config

IsNodePoolTarget(t) == "node_class" \in DOMAIN t.config

isShortQuery(q) == Len(SplitN(q, "_", 2)) = 2 /\ ~ Contains(q, "/")

\* Faulty variant: job and group change places.
JobThenGroup(query, t) ==
  IF IsJobTaskGroupTarget(t)
  THEN <<"taskgroup", "_">> \o query \o <<"/">> \o t.config["Job"]
         \o <<"/">> \o t.config["Group"]
  ELSE IF IsNodePoolTarget(t)
  THEN <<"node", "_">> \o query \o <<"/">> \o t.config["node_class"] \o <<"/", "class">>
  ELSE query

\* The query the Nomad APM reads, for a short one.
Expanded(query, t) ==
  IF IsJobTaskGroupTarget(t)
  THEN <<"taskgroup", "_">> \o query \o <<"/">> \o t.config["Group"]
         \o <<"/">> \o t.config["Job"]
  ELSE IF IsNodePoolTarget(t)
  THEN <<"node", "_">> \o query \o <<"/">> \o t.config["node_class"] \o <<"/", "class">>
  ELSE query

CanonicalizeAPMQuery(c, t, nomadAPMs) ==
  IF t # Nil /\ c.source \in nomadAPMs /\ isShortQuery(c.query)
  THEN [c EXCEPT !.query = Expanded(@, t[1])]
  ELSE c

CanonicalizeCheck(c, t, nomadAPMs) ==
  CanonicalizeAPMQuery(
    [c EXCEPT !.source = IF @ = <<>> THEN <<"nomad-apm">> ELSE @], t, nomadAPMs)

\* Faulty variant: a check may keep no strategy.
canonicalizeCheckOnly(c, t, nomadAPMs) == CanonicalizeCheck(c, t, nomadAPMs)

canonicalizeCheck(c, t, nomadAPMs) ==
  CanonicalizeCheck(
    [c EXCEPT !.strategy = IF @ = Nil THEN Ptr([name |-> "", config |-> NoBlocks]) ELSE @],
    t, nomadAPMs)

canonicalizeHorizontalPolicy(p) ==
  IF p.target[1].name = "" THEN [p EXCEPT !.target[1].name = "nomad-target"] ELSE p

canonicalizePolicyByType(p) ==
  IF p.type = "horizontal" THEN canonicalizeHorizontalPolicy(p) ELSE p

\* What the Nomad source sends to the handler.
canonicalizePolicy(p, defaults, nomadAPMs) ==
  LET typed    == [p EXCEPT !.type = IF @ = "" THEN "horizontal" ELSE @]
      targeted == [ApplyPolicyDefaults(typed, defaults) EXCEPT
                     !.target = IF @ = Nil THEN Ptr([name |-> "", config |-> NoBlocks]) ELSE @]
      named    == canonicalizePolicyByType(targeted)
  IN  [named EXCEPT !.checks = {canonicalizeCheck(c, named.target, nomadAPMs) : c \in @}]

\* What the file source sends to the handler.
CanonicalizeFilePolicy(p, nomadAPMs) ==
  [p EXCEPT !.checks = {CanonicalizeCheck(c, p.target, nomadAPMs) : c \in @}]
=============================================================================
