---------------------------- MODULE MCDocuments -----------------------------
(***************************************************************************)
(* The documents read: every configuration of up to two paths with one     *)
(* policy, a few configurations with every policy, and one configuration   *)
(* with every query over every small cluster.                              *)
(***************************************************************************)
EXTENDS Documents, TLC

\* The agent's environment names an address and credentials.
EnvironmentWithAuth ==
  [strings |-> [address |-> <<"env">>], insecure |-> FALSE,
   auth |-> Ptr([username |-> <<"u">>, password |-> <<"p">>])]

-----------------------------------------------------------------------------
(* Configurations *)

\* A configuration that gives only what g gives.
Giving(g) == g @@ Empty

Eval(fields, workers) == Ptr([fields |-> fields, workers |-> workers])

APM(driver, config) == [driver |-> driver, config |-> config]

Configs == {Empty} \cup {Giving(g) : g \in
  { [http |-> Ptr([bind_port |-> 1])],
    [http |-> Ptr([bind_port |-> 2]), policy |-> Ptr([default_cooldown |-> 7])],
    [policy |-> Ptr([default_evaluation_interval |-> 3])],
    [nomad |-> Ptr([address |-> <<"a">>, http_auth |-> <<"v", ":", "w">>])],
    [nomad |-> Ptr([skip_verify |-> True, http_auth |-> <<"v">>])],
    [nomad |-> Ptr([http_auth |-> <<":">>])],
    [telemetry |-> Ptr([collection_interval |-> 2, enable_hostname_label |-> True])],
    [eval |-> Eval([delivery_limit |-> 3], Nil)],
    [eval |-> Eval([delivery_limit |-> 0], Nil)],
    [eval |-> Eval(NoFields, Ptr([cluster |-> 0]))],
    [eval |-> Eval([ack_timeout |-> 9], Ptr([horizontal |-> -1]))],
    [apms |-> [prom |-> APM("prometheus", [address |-> <<"b">>])]],
    [apms |-> ("nomad-apm" :> APM("other", [address |-> <<"c">>, skip_verify |-> <<"false">>]))],
    [apms |-> ("nomad-apm" :> APM("nomad-apm", NoFields)) @@
              [prom |-> APM("nomad-apm", (ConfigKeyNomadConfigInherit :> <<"maybe">>))]],
    [apms |-> ("nomad-apm" :> APM("nomad-apm", (ConfigKeyNomadConfigInherit :> True)
                 @@ [http_auth |-> <<"x", ":", "y">>, address |-> <<>>]))] }}

File(c) == [decodes |-> TRUE, cfg |-> c]

Unreadable == [decodes |-> FALSE, cfg |-> Empty]

OneFile(f) == <<f>>

Directory(fs) == fs

\* Two files, or a directory of up to two files, or a directory and a file.
PathLists ==
  {<<>>, <<Directory(<<>>)>>, <<OneFile(Unreadable)>>}
    \cup {<<OneFile(File(c)), OneFile(File(d))>> : c, d \in Configs}
    \cup {<<Directory(<<File(c), File(d)>>)>> : c, d \in Configs}
    \cup {<<Directory(<<File(c), Unreadable>>), OneFile(File(c))>> : c \in Configs}

\* The command line always has its four blocks.
NoFlags == [k \in Blocks |-> Ptr(NoFields)] @@ Empty

FlagSets == {NoFlags,
  [http |-> Ptr([bind_port |-> 4]), nomad |-> Ptr([address |-> <<"f">>])] @@ NoFlags,
  [policy |-> Ptr([default_cooldown |-> 8]),
   telemetry |-> Ptr([enable_hostname_label |-> True])] @@ NoFlags}

-----------------------------------------------------------------------------
(* Policies *)

Absent == [kind |-> "absent", val |-> 0]
Seconds(n) == [kind |-> "string", val |-> n]
Malformed == [kind |-> "malformed", val |-> 0]
WrongType == [kind |-> "other", val |-> 0]
NoText == [kind |-> "absent", val |-> <<>>]
String(s) == [kind |-> "string", val |-> s]

NoneGiven == [kind |-> "absent", maps |-> <<>>]
ListOf(ms) == [kind |-> "list", maps |-> ms]
Block(form, body) == [form |-> form, body |-> body]

Number(s) == [printed |-> s]

Strategies ==
  {NoneGiven, ListOf(<<>>), ListOf(<<Nil>>),
   ListOf(<<Ptr("target-value" :> Block("map", NoFields))>>),
   ListOf(<<Ptr("target-value" :> Block("list", [target |-> Number(<<"5">>)]))>>),
   ListOf(<<Ptr("target-value" :> Block("list", NoFields)),
            Ptr([other |-> Block("list", NoFields)])>>)}

Check(source, q, window, strategy) ==
  [source |-> source, query |-> q, query_window |-> window, strategy |-> strategy]

Good == ListOf(<<Ptr("target-value" :> Block("list", [target |-> Number(<<"5">>)]))>>)

Short == <<"avg", "_", "cpu">>

GoodCheck == Check(NoText, String(Short), Absent, Good)

CheckBodies ==
  {GoodCheck} \cup {Check(NoText, String(Short), Absent, s) : s \in Strategies}
    \cup {Check(String(<<"prom">>), String(Short), Seconds(5), Good),
          Check(NoText, NoText, Absent, Good),
          Check(NoText, String(<<>>), Absent, Good),
          Check(NoText, String(Short), Malformed, Good),
          Check([kind |-> "other", val |-> <<>>], String(Short), Absent, Good)}

CheckLists ==
  {NoneGiven, ListOf(<<>>), ListOf(<<Nil>>), [kind |-> "other", maps |-> <<>>]}
    \cup {ListOf(<<Ptr([a |-> Block(f, c)])>>) : f \in {"list", "map", "other"}, c \in CheckBodies}
    \cup {ListOf(<<Ptr([a |-> Block("list", GoodCheck)]),
                   Ptr([b |-> Block(f, GoodCheck)])>>) : f \in {"list", "map"}}

TargetLists ==
  {NoneGiven, ListOf(<<>>), ListOf(<<Ptr(NoFields)>>),
   ListOf(<<Ptr("nomad-target" :> Block("map", NoFields))>>),
   ListOf(<<Ptr("nomad-target" :> Block("list", [Group |-> Number(<<"g2">>)]))>>),
   ListOf(<<Ptr([x |-> Block("list", NoFields)]), Ptr([y |-> Block("list", NoFields)])>>)}

Job(g) == Ptr([Job |-> <<"j", "/", "k">>, Group |-> g])

Document(t, mm, iv, tl, cl, g) ==
  [source |-> "nomad",
   policy |-> [id |-> "p", type |-> t, min |-> mm[1], max |-> mm[2], enabled |-> Nil,
               target |-> Job(g),
               policy |-> Ptr([evaluation_interval |-> iv, cooldown |-> Absent,
                               target |-> tl, check |-> cl])]]

GoodChecks == ListOf(<<Ptr([a |-> Block("list", GoodCheck)])>>)

Limits == <<Ptr(1), Ptr(3)>>

\* Every block structure, and every pair of limits with every interval.
NomadDocuments ==
  {Document(t, Limits, Absent, tl, cl, <<"g">>) :
     t \in {"", "cluster"}, tl \in TargetLists, cl \in CheckLists}
  \cup {Document(t, mm, iv, NoneGiven, GoodChecks, <<"g">>) :
     t \in {"", "cluster", "other"},
     mm \in {Limits, <<Nil, Ptr(3)>>, <<Ptr(1), Nil>>, <<Ptr(3), Ptr(1)>>, <<Ptr(-1), Ptr(1)>>},
     iv \in {Absent, Seconds(0), Seconds(-1), Malformed, WrongType}}
  \cup {[Document("", Limits, Absent, NoneGiven, GoodChecks, <<"g">>) EXCEPT !.policy.policy = Nil],
        [Document("", Limits, Absent, NoneGiven, GoodChecks, <<"g">>) EXCEPT !.policy.id = ""],
        [Document("", Limits, Absent, NoneGiven, GoodChecks, <<"g">>) EXCEPT !.policy.target = Nil],
        [Document("", Limits, Absent, NoneGiven, GoodChecks, <<"g">>) EXCEPT !.policy.enabled = Ptr(FALSE)]}

FileCheck(q, w, s) ==
  [name |-> "a", source |-> <<>>, query |-> q, query_window |-> w, strategy |-> s]

PoolTarget(class) == Ptr([name |-> "nomad-target", config |-> [node_class |-> class]])

TargetValue == Ptr([name |-> "target-value", config |-> NoFields])

FileDocument(doc, min, enabled, type) ==
  [source |-> "file",
   policy |-> [name |-> "p", enabled |-> enabled, type |-> type, min |-> min, max |-> 3,
               doc |-> doc]]

Pool(m) == <<"percentage-allocated", "_", m>>

FileDocuments ==
  {FileDocument(Nil, 1, TRUE, "")} \cup
  {FileDocument(Ptr([cooldown |-> cd, evaluation_interval |-> iv,
                     checks |-> {FileCheck(Pool("cpu"), w, s)}, target |-> t]), min, en, "") :
     cd \in {Absent, Malformed}, iv \in {Absent, Seconds(-1), Seconds(5)},
     w \in {Absent, Malformed}, s \in {Nil, TargetValue}, t \in {Nil, PoolTarget(<<"c">>)},
     min \in {1, 4}, en \in BOOLEAN}

-----------------------------------------------------------------------------
(* Queries and clusters *)

Queries ==
  {<<op, "_", m>> : op \in TaskGroupOps \cup {"p99"}, m \in TaskGroupMetrics \cup {"disk"}}
    \cup {<<"taskgroup", "_", "avg", "_", "cpu">>,
          <<"taskgroup", "_", "avg", "_", "cpu", "/", "g", "/", "j">>,
          <<"node", "_", "percentage-allocated", "_", "cpu", "/", "c", "/", "class">>,
          <<"node", "_", "percentage-allocated", "_", "cpu", "/", "c", "/", "id">>}

QueryDocument(q, g) ==
  Document("", Limits, Absent, NoneGiven,
           ListOf(<<Ptr([a |-> Block("list", Check(NoText, String(q), Absent, Good))])>>), g)

Usages == {Nil, Ptr(0), Ptr(3), Ptr(4)}

Alloc(status, g, u) == [client |-> status, group |-> g, usage |-> u]

NodeWith(class, free, desired, client) ==
  [class |-> class, resources |-> free + 1, reserved |-> 1,
   allocs |-> <<[desired |-> "run", client |-> "running", size |-> 1],
                [desired |-> desired, client |-> client, size |-> 2]>>]

Clusters ==
  {[allocated |-> 2,
    allocs |-> [i \in 1..3 |-> CASE i = 1 -> Alloc("running", <<"g">>, u)
                                 [] i = 2 -> Alloc(s, g, v)
                                 [] i = 3 -> Alloc("running", <<"g">>, Ptr(3))],
    nodes |-> [i \in 1..2 |-> IF i = 1 THEN NodeWith(<<"c">>, f, "run", c)
                                       ELSE NodeWith(d, 2, e, "running")]] :
     u \in Usages, v \in {Ptr(0), Ptr(4)}, s \in {"running", "pending"}, g \in {<<"g">>, <<"h">>},
     f \in {0, 4}, c \in {"running", "lost"}, d \in {<<"c">>, <<"d">>}, e \in {"run", "stop"}}

Zeroes ==
  [allocated |-> 2, allocs |-> [i \in {1} |-> Alloc("running", <<"g">>, Ptr(0))],
   nodes |-> [i \in {1} |-> NodeWith(<<"c">>, 0, "stop", "running")]]

Input(ps, fl, doc, cl) == [paths |-> ps, flags |-> fl, document |-> doc, cluster |-> cl]

PoolFile == FileDocument(Ptr([cooldown |-> Absent, evaluation_interval |-> Absent,
              checks |-> {FileCheck(Pool("cpu"), Absent, TargetValue)},
              target |-> PoolTarget(<<"c">>)]), 1, TRUE, "")

\* Every configuration; every policy; every query.
AllInputs ==
  {Input(ps, fl, QueryDocument(Short, <<"g">>), Zeroes) : ps \in PathLists, fl \in FlagSets}
    \cup {Input(ps, NoFlags, doc, Zeroes) :
            ps \in {<<>>, <<OneFile(File(Giving([apms |-> [prom |-> APM("prometheus", NoFields)]])))>>},
            doc \in NomadDocuments \cup FileDocuments}
    \cup {Input(<<>>, NoFlags, QueryDocument(q, g), cl) :
            q \in Queries, g \in {<<"g">>, <<"g", "/", "h">>},
            cl \in {Zeroes}}
    \cup {Input(<<>>, NoFlags, doc, cl) :
            doc \in {PoolFile} \cup {QueryDocument(<<op, "_", "cpu-allocated">>, <<"g">>) :
                                        op \in TaskGroupOps}
                    \cup {QueryDocument(<<"sum", "_", "memory-allocated">>, <<"g">>)},
            cl \in Clusters}
=============================================================================
