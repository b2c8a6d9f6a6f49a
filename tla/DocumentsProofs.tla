-------------------------- MODULE DocumentsProofs ---------------------------
(***************************************************************************)
(* Proofs about Documents, for every input and every environment of the    *)
(* encoding: the configuration that readConfig builds, the settings it     *)
(* gives to the plugins, the policies that are accepted and what the Nomad *)
(* APM answers.                                                            *)
(***************************************************************************)
EXTENDS Documents, FiniteSetTheorems, TLAPS

USE Zenon

-----------------------------------------------------------------------------
(* Overlaying maps *)

\* The map r is n, and what m has besides.
Overlays(r, n, m) ==
  /\ DOMAIN r = DOMAIN n \cup DOMAIN m
  /\ \A f \in DOMAIN n : r[f] = n[f]
  /\ \A f \in DOMAIN m \ DOMAIN n : r[f] = m[f]

Precede(S, T) == \A s \in S, t \in T : Before(s, t) /\ ~ Before(t, s)

\* Over, the merge of every block, is such a map.
LEMMA OverOverlays ==
  ASSUME NEW n, NEW m
  PROVE  Overlays(Over(n, m), n, m)
BY DEF Overlays, Over

\* A later map over an earlier one gives every key its last value: one merge of
\* a block.
LEMMA LaterOverEarlier ==
  ASSUME NEW G, NEW S, NEW T, NEW m, NEW n, NEW r,
         LastGiven(m, G, S), LastGiven(n, G, T), Precede(S, T), Overlays(r, n, m)
  PROVE  LastGiven(r, G, S \cup T)
<1>1. DOMAIN r = UNION {DOMAIN G[s] : s \in S \cup T}
  BY SMT DEF LastGiven, Overlays
<1>2. ASSUME NEW f \in DOMAIN r
      PROVE  \E s \in S \cup T : /\ f \in DOMAIN G[s] /\ r[f] = G[s][f]
                                 /\ \A t \in S \cup T : f \in DOMAIN G[t] => ~ Before(s, t)
  <2>1. CASE f \in DOMAIN n
    <3>1. PICK s \in T : /\ f \in DOMAIN G[s] /\ n[f] = G[s][f]
                         /\ \A t \in T : f \in DOMAIN G[t] => ~ Before(s, t)
      BY <2>1 DEF LastGiven
    <3>2. r[f] = G[s][f]
      BY <2>1, <3>1 DEF Overlays
    <3> QED BY <3>1, <3>2 DEF Precede
  <2>2. CASE f \notin DOMAIN n
    <3>1. f \in DOMAIN m /\ r[f] = m[f]
      BY <2>2 DEF Overlays
    <3>2. PICK s \in S : /\ f \in DOMAIN G[s] /\ m[f] = G[s][f]
                         /\ \A t \in S : f \in DOMAIN G[t] => ~ Before(s, t)
      BY <3>1 DEF LastGiven
    <3>3. \A t \in T : f \notin DOMAIN G[t]
      BY <2>2 DEF LastGiven
    <3> QED BY <3>1, <3>2, <3>3
  <2> QED BY <2>1, <2>2, SMT
<1> QED BY <1>1, <1>2 DEF LastGiven

\* The same for the first value, when what is there stays.
LEMMA EarlierOverLater ==
  ASSUME NEW G, NEW S, NEW T, NEW m, NEW n, NEW r,
         FirstGiven(m, G, S), FirstGiven(n, G, T), Precede(S, T), Overlays(r, m, n)
  PROVE  FirstGiven(r, G, S \cup T)
<1>1. DOMAIN r = UNION {DOMAIN G[s] : s \in S \cup T}
  BY SMT DEF FirstGiven, Overlays
<1>2. ASSUME NEW f \in DOMAIN r
      PROVE  \E s \in S \cup T : /\ f \in DOMAIN G[s] /\ r[f] = G[s][f]
                                 /\ \A t \in S \cup T : f \in DOMAIN G[t] => ~ Before(t, s)
  <2>1. CASE f \in DOMAIN m
    <3>1. PICK s \in S : /\ f \in DOMAIN G[s] /\ m[f] = G[s][f]
                         /\ \A t \in S : f \in DOMAIN G[t] => ~ Before(t, s)
      BY <2>1 DEF FirstGiven
    <3>2. r[f] = G[s][f]
      BY <2>1, <3>1 DEF Overlays
    <3> QED BY <3>1, <3>2 DEF Precede
  <2>2. CASE f \notin DOMAIN m
    <3>1. f \in DOMAIN n /\ r[f] = n[f]
      BY <2>2 DEF Overlays
    <3>2. PICK s \in T : /\ f \in DOMAIN G[s] /\ n[f] = G[s][f]
                         /\ \A t \in T : f \in DOMAIN G[t] => ~ Before(t, s)
      BY <3>1 DEF FirstGiven
    <3>3. \A t \in S : f \notin DOMAIN G[t]
      BY <2>2 DEF FirstGiven
    <3> QED BY <3>1, <3>2, <3>3
  <2> QED BY <2>1, <2>2, SMT
<1> QED BY <1>1, <1>2 DEF FirstGiven

-----------------------------------------------------------------------------
(* One merge of two configurations *)

\* The configuration c has, of every field, the last value that the
\* configurations w[s] of the sources in S give.
Reflects(c, w, S) ==
  /\ LastGiven(c.top, [s \in DOMAIN w |-> w[s].top], S)
  /\ \A k \in Blocks : LastGiven(Fields(k, c[k]), [s \in DOMAIN w |-> Fields(k, w[s][k])], S)
  /\ LastGiven(EvalFields(c.eval), [s \in DOMAIN w |-> EvalFields(w[s].eval)], S)
  /\ LastGiven(Workers(c.eval), [s \in DOMAIN w |-> Workers(w[s].eval)], S)
  /\ \A k \in Kinds :
       /\ LastGiven(PluginConfigs(c[k]), [s \in DOMAIN w |-> PluginConfigs(w[s][k])], S)
       /\ FirstGiven(Drivers(c[k]), [s \in DOMAIN w |-> Drivers(w[s][k])], S)

\* A block that b gives is merged over that of a, which has one.
LEMMA MergedFields ==
  ASSUME NEW a, NEW b, NEW k \in Blocks, b[k] # Nil => a[k] # Nil
  PROVE  Overlays(Fields(k, Merge(a, b)[k]), Fields(k, b[k]), Fields(k, a[k]))
<1>1. CASE b[k] = Nil
  <2>1. Merge(a, b)[k] = a[k]
    BY <1>1, SMT DEF Merge, MergeBlock, Blocks
  <2>2. Fields(k, b[k]) = NoFields
    BY <1>1 DEF Fields, NoFields, Restrict
  <2> QED BY <2>1, <2>2 DEF Overlays, NoFields
<1>2. CASE b[k] # Nil
  <2>1. a[k] # Nil
    BY <1>2
  <2>2. CASE k # "telemetry"
    <3>1. Merge(a, b)[k] = Ptr(Over(b[k][1], a[k][1]))
      BY <1>2, <2>2, SMT DEF Merge, MergeBlock, Blocks, HTTPmerge, Nomadmerge, Policymerge
    <3>2. Fields(k, Merge(a, b)[k]) = Over(b[k][1], a[k][1])
      BY <3>1, <2>2, SMT DEF Fields, Restrict, Ptr, Nil, Over
    <3>3. Fields(k, b[k]) = [f \in DOMAIN b[k][1] |-> b[k][1][f]]
      BY <1>2, <2>2 DEF Fields, Restrict
    <3>4. Fields(k, a[k]) = [f \in DOMAIN a[k][1] |-> a[k][1][f]]
      BY <2>1, <2>2 DEF Fields, Restrict
    <3> QED BY <3>2, <3>3, <3>4 DEF Overlays, Over
  <2>3. CASE k = "telemetry"
    <3> DEFINE label == {"enable_hostname_label"}
               kept  == Restrict(b[k][1], DOMAIN b[k][1] \ label)
    <3>1. Merge(a, b)[k] = Ptr(Over(kept, a[k][1]))
      BY <1>2, <2>3 DEF Merge, MergeBlock, Telemetrymerge
    <3>2. DOMAIN kept = DOMAIN b[k][1] \ label /\ \A f \in DOMAIN kept : kept[f] = b[k][1][f]
      BY DEF Restrict
    <3>3. Fields(k, b[k]) = kept
      BY <1>2, <2>3 DEF Fields
    <3>4. Fields(k, a[k]) = [f \in DOMAIN a[k][1] \ label |-> a[k][1][f]]
      BY <2>1, <2>3 DEF Fields, Restrict
    <3> HIDE DEF kept
    <3>5. Fields(k, Merge(a, b)[k]) = Restrict(Over(kept, a[k][1]), DOMAIN Over(kept, a[k][1]) \ label)
      BY <3>1, <2>3, SMT DEF Fields, Ptr, Nil
    <3> QED BY <3>2, <3>3, <3>4, <3>5 DEF Overlays, Over, Restrict
  <2> QED BY <2>2, <2>3
<1> QED BY <1>1, <1>2

LEMMA MergedEvalFields ==
  ASSUME NEW a, NEW b, b.eval # Nil => a.eval # Nil
  PROVE  Overlays(EvalFields(Merge(a, b).eval), EvalFields(b.eval), EvalFields(a.eval))
<1>1. CASE b.eval = Nil
  <2>1. Merge(a, b).eval = a.eval
    BY <1>1 DEF Merge, MergeBlock
  <2>2. EvalFields(b.eval) = NoFields
    BY <1>1 DEF EvalFields
  <2> QED BY <2>1, <2>2 DEF Overlays, NoFields
<1>2. CASE b.eval # Nil
  <2>1. a.eval # Nil
    BY <1>2
  <2>2. EvalFields(b.eval) = b.eval[1].fields /\ EvalFields(a.eval) = a.eval[1].fields
    BY <1>2, <2>1 DEF EvalFields
  <2>3. Merge(a, b).eval = Ptr(PolicyEvalmerge(a.eval[1], b.eval[1]))
    BY <1>2 DEF Merge, MergeBlock
  <2>4. EvalFields(Merge(a, b).eval) = PolicyEvalmerge(a.eval[1], b.eval[1]).fields
    BY <2>3, SMT DEF EvalFields, Ptr, Nil
  <2>5. EvalFields(Merge(a, b).eval) = Over(b.eval[1].fields, a.eval[1].fields)
    BY <2>4 DEF PolicyEvalmerge
  <2> QED BY <2>2, <2>5, OverOverlays
<1> QED BY <1>1, <1>2

\* Workers that b gives are written into the map of a, which has one.
LEMMA MergedWorkers ==
  ASSUME NEW a, NEW b, ~ MergePanics(a, b)
  PROVE  Overlays(Workers(Merge(a, b).eval), Workers(b.eval), Workers(a.eval))
<1>0. b.eval # Nil => a.eval # Nil
  BY DEF MergePanics
<1>1. CASE b.eval = Nil
  <2>1. Merge(a, b).eval = a.eval
    BY <1>1 DEF Merge, MergeBlock
  <2>2. Workers(b.eval) = NoFields
    BY <1>1 DEF Workers
  <2> QED BY <2>1, <2>2 DEF Overlays, NoFields
<1>2. CASE b.eval # Nil
  <2> DEFINE bw == b.eval[1].workers
             aw == a.eval[1].workers
  <2>1. a.eval # Nil
    BY <1>0, <1>2
  <2>2. Merge(a, b).eval = Ptr(PolicyEvalmerge(a.eval[1], b.eval[1]))
    BY <1>2 DEF Merge, MergeBlock
  <2>3. /\ Merge(a, b).eval # Nil
        /\ Merge(a, b).eval[1].workers = PolicyEvalmerge(a.eval[1], b.eval[1]).workers
    BY <2>2, SMT DEF Ptr, Nil
  <2>4. CASE bw = Nil \/ DOMAIN bw[1] = {}
    <3>1. Merge(a, b).eval[1].workers = aw
      BY <2>3, <2>4 DEF PolicyEvalmerge
    <3>2. Workers(Merge(a, b).eval) = Workers(a.eval)
      BY <2>1, <2>3, <3>1 DEF Workers
    <3>3. DOMAIN Workers(b.eval) = {}
      BY <2>4 DEF Workers, NoFields
    <3> QED BY <3>2, <3>3 DEF Overlays
  <2>5. CASE bw # Nil /\ DOMAIN bw[1] # {}
    <3>1. aw # Nil
      BY <1>2, <2>1, <2>5 DEF MergePanics
    <3>2. Merge(a, b).eval[1].workers = Ptr(Over(bw[1], aw[1]))
      BY <2>3, <2>5 DEF PolicyEvalmerge
    <3>3. Workers(Merge(a, b).eval) = Over(bw[1], aw[1])
      BY <2>3, <3>2, SMT DEF Workers, Ptr, Nil
    <3>4. Workers(b.eval) = bw[1] /\ Workers(a.eval) = aw[1]
      BY <1>2, <2>1, <2>5, <3>1 DEF Workers
    <3> QED BY <3>3, <3>4, OverOverlays
  <2> QED BY <2>4, <2>5
<1> QED BY <1>1, <1>2

\* The merge of two sets of plugins, name by name.
LEMMA MergedPlugin ==
  ASSUME NEW first, NEW second, NEW n \in DOMAIN first \cup DOMAIN second,
         \A p \in DOMAIN first : IsPlugin(first[p])
  PROVE  LET merged == pluginConfigSetMerge(first, second)[n] IN
         /\ merged.driver = IF n \in DOMAIN first THEN first[n].driver ELSE second[n].driver
         /\ merged.config = IF n \in DOMAIN second /\ (n \in DOMAIN first => DOMAIN second[n].config # {})
                            THEN second[n].config ELSE first[n].config
<1> DEFINE both == [p \in DOMAIN first \cap DOMAIN second |-> Pluginmerge(first[p], second[p])]
           merged == pluginConfigSetMerge(first, second)[n]
<1>1. merged = IF n \in DOMAIN both THEN both[n] ELSE Over(first, second)[n]
  BY DEF pluginConfigSetMerge, Over
<1>2. CASE n \in DOMAIN first \cap DOMAIN second
  <2>1. merged = Pluginmerge(first[n], second[n])
    BY <1>1, <1>2
  <2>2. first[n] = [driver |-> first[n].driver, config |-> first[n].config]
    BY <1>2 DEF IsPlugin
  <2>3. /\ merged.driver = first[n].driver
        /\ merged.config = IF DOMAIN second[n].config = {} THEN first[n].config ELSE second[n].config
    BY <2>1, <2>2, SMT DEF Pluginmerge
  <2> QED BY <1>2, <2>3
<1>3. CASE n \in DOMAIN first /\ n \notin DOMAIN second
  <2>1. merged = first[n]
    BY <1>1, <1>3 DEF Over
  <2> QED BY <1>3, <2>1, SMT
<1>4. CASE n \notin DOMAIN first /\ n \in DOMAIN second
  <2>1. merged = second[n]
    BY <1>1, <1>4 DEF Over
  <2> QED BY <1>4, <2>1
<1> QED BY <1>2, <1>3, <1>4

LEMMA MergedNames ==
  ASSUME NEW first, NEW second
  PROVE  DOMAIN pluginConfigSetMerge(first, second) = DOMAIN first \cup DOMAIN second
BY DEF pluginConfigSetMerge, Over

LEMMA MergedConfigs ==
  ASSUME NEW first, NEW second, \A p \in DOMAIN first : IsPlugin(first[p])
  PROVE  Overlays(PluginConfigs(pluginConfigSetMerge(first, second)),
                  PluginConfigs(second), PluginConfigs(first))
<1> DEFINE merged == pluginConfigSetMerge(first, second)
           Config(n) == IF n \in DOMAIN second /\ (n \in DOMAIN first => DOMAIN second[n].config # {})
                        THEN second[n].config ELSE first[n].config
<1>1. DOMAIN merged = DOMAIN first \cup DOMAIN second
  BY MergedNames
<1>2. \A n \in DOMAIN merged : merged[n].config = Config(n)
  BY <1>1, MergedPlugin
<1> HIDE DEF merged
<1>3. DOMAIN PluginConfigs(merged) = DOMAIN PluginConfigs(second) \cup DOMAIN PluginConfigs(first)
  <2>1. /\ DOMAIN PluginConfigs(merged) = {n \in DOMAIN merged : DOMAIN merged[n].config # {}}
        /\ DOMAIN PluginConfigs(second) = {n \in DOMAIN second : DOMAIN second[n].config # {}}
        /\ DOMAIN PluginConfigs(first) = {n \in DOMAIN first : DOMAIN first[n].config # {}}
    BY DEF PluginConfigs
  <2>2. ASSUME NEW n
        PROVE  n \in DOMAIN merged /\ DOMAIN merged[n].config # {}
                 <=> \/ n \in DOMAIN second /\ DOMAIN second[n].config # {}
                     \/ n \in DOMAIN first /\ DOMAIN first[n].config # {}
    <3>1. CASE n \in DOMAIN second /\ (n \in DOMAIN first => DOMAIN second[n].config # {})
      BY <1>1, <1>2, <3>1
    <3>2. CASE n \in DOMAIN second /\ n \in DOMAIN first /\ DOMAIN second[n].config = {}
      BY <1>1, <1>2, <3>2
    <3>3. CASE n \notin DOMAIN second
      BY <1>1, <1>2, <3>3
    <3> QED BY <3>1, <3>2, <3>3
  <2> QED BY <2>1, <2>2, SMT
<1>4. ASSUME NEW n \in DOMAIN PluginConfigs(second)
      PROVE  PluginConfigs(merged)[n] = PluginConfigs(second)[n]
  <2>1. n \in DOMAIN second /\ DOMAIN second[n].config # {} /\ n \in DOMAIN merged
    BY <1>1 DEF PluginConfigs
  <2>2. merged[n].config = second[n].config
    BY <1>2, <2>1
  <2> QED BY <2>1, <2>2 DEF PluginConfigs
<1>5. ASSUME NEW n \in DOMAIN PluginConfigs(first) \ DOMAIN PluginConfigs(second)
      PROVE  PluginConfigs(merged)[n] = PluginConfigs(first)[n]
  <2>1. /\ n \in DOMAIN first /\ DOMAIN first[n].config # {} /\ n \in DOMAIN merged
        /\ n \in DOMAIN second => DOMAIN second[n].config = {}
    BY <1>1 DEF PluginConfigs
  <2>2. merged[n].config = first[n].config
    BY <1>2, <2>1
  <2> QED BY <2>1, <2>2 DEF PluginConfigs
<1> QED BY <1>3, <1>4, <1>5 DEF Overlays, merged

LEMMA MergedDrivers ==
  ASSUME NEW first, NEW second, \A p \in DOMAIN first : IsPlugin(first[p])
  PROVE  Overlays(Drivers(pluginConfigSetMerge(first, second)), Drivers(first), Drivers(second))
<1> DEFINE merged == pluginConfigSetMerge(first, second)
<1>1. DOMAIN merged = DOMAIN first \cup DOMAIN second
  BY MergedNames
<1>2. \A n \in DOMAIN merged :
        merged[n].driver = IF n \in DOMAIN first THEN first[n].driver ELSE second[n].driver
  BY <1>1, MergedPlugin
<1> HIDE DEF merged
<1> QED BY <1>1, <1>2 DEF Overlays, Drivers, merged

\* One merge of two configurations: of files of a directory, or of what was
\* read so far with the next path or the flags.
LEMMA MergeReflects ==
  ASSUME NEW a, NEW b, NEW w, NEW S, NEW T, ~ MergePanics(a, b), Precede(S, T),
         Reflects(a, w, S), Reflects(b, w, T), IsConfiguration(a)
  PROVE  Reflects(Merge(a, b), w, S \cup T)
<1> DEFINE c == Merge(a, b)
<1>1. LastGiven(c.top, [s \in DOMAIN w |-> w[s].top], S \cup T)
  <2>1. c.top = Over(b.top, a.top)
    BY DEF Merge
  <2>2. Overlays(c.top, b.top, a.top)
    BY <2>1, OverOverlays
  <2> QED BY <2>2, LaterOverEarlier DEF Reflects
<1>2. ASSUME NEW k \in Blocks
      PROVE  LastGiven(Fields(k, c[k]), [s \in DOMAIN w |-> Fields(k, w[s][k])], S \cup T)
  <2>1. b[k] # Nil => a[k] # Nil
    BY DEF MergePanics
  <2>2. Overlays(Fields(k, c[k]), Fields(k, b[k]), Fields(k, a[k]))
    BY <2>1, MergedFields
  <2> QED BY <2>2, LaterOverEarlier DEF Reflects
<1>3. LastGiven(EvalFields(c.eval), [s \in DOMAIN w |-> EvalFields(w[s].eval)], S \cup T)
  <2>1. b.eval # Nil => a.eval # Nil
    BY DEF MergePanics
  <2>2. Overlays(EvalFields(c.eval), EvalFields(b.eval), EvalFields(a.eval))
    BY <2>1, MergedEvalFields
  <2> QED BY <2>2, LaterOverEarlier DEF Reflects
<1>4. LastGiven(Workers(c.eval), [s \in DOMAIN w |-> Workers(w[s].eval)], S \cup T)
  BY MergedWorkers, LaterOverEarlier DEF Reflects
<1>5. ASSUME NEW k \in Kinds
      PROVE  /\ LastGiven(PluginConfigs(c[k]), [s \in DOMAIN w |-> PluginConfigs(w[s][k])], S \cup T)
             /\ FirstGiven(Drivers(c[k]), [s \in DOMAIN w |-> Drivers(w[s][k])], S \cup T)
  <2>1. c[k] = pluginConfigSetMerge(a[k], b[k])
    BY SMT DEF Merge, Kinds
  <2>2. \A n \in DOMAIN a[k] : IsPlugin(a[k][n])
    BY DEF IsConfiguration
  <2>3. Overlays(PluginConfigs(c[k]), PluginConfigs(b[k]), PluginConfigs(a[k]))
    BY <2>1, <2>2, MergedConfigs
  <2>4. Overlays(Drivers(c[k]), Drivers(a[k]), Drivers(b[k]))
    BY <2>1, <2>2, MergedDrivers
  <2> QED BY <2>3, <2>4, LaterOverEarlier, EarlierOverLater DEF Reflects
<1> HIDE DEF c
<1>6. Reflects(c, w, S \cup T)
  BY <1>1, <1>2, <1>3, <1>4, <1>5 DEF Reflects
<1> QED BY <1>6 DEF c

-----------------------------------------------------------------------------
(* Where settings come from *)

\* What is written in every source.
Written == [s \in Sources |-> WrittenIn(s)]

\* The sources read before path p, and the first n files of path p.
ReadBefore(p) == (UNION {FilesOf(q) : q \in {q \in DOMAIN input.paths : q < p}}) \cup {<<0, 0>>}

ReadOf(p, n) == {p} \X (1 .. n)

LEMMA InputPaths ==
  ASSUME input \in Inputs
  PROVE  /\ Len(input.paths) \in Nat /\ DOMAIN input.paths = 1 .. Len(input.paths)
         /\ \A p \in DOMAIN input.paths :
              /\ Len(input.paths[p]) \in Nat /\ DOMAIN input.paths[p] = 1 .. Len(input.paths[p])
              /\ \A f \in DOMAIN input.paths[p] : IsConfiguration(input.paths[p][f].cfg)
         /\ IsConfiguration(input.flags)
BY InputsAssumption DEF IsSequence, IsConfigFile

LEMMA WrittenInFile ==
  ASSUME input \in Inputs, NEW p \in DOMAIN input.paths, NEW f \in DOMAIN input.paths[p]
  PROVE  <<p, f>> \in Sources /\ Written[<<p, f>>] = input.paths[p][f].cfg
<1>1. <<p, f>> \in Sources
  BY SMT DEF Sources, FilesOf
<1>2. p # 0
  BY InputPaths, SMT
<1>3. WrittenIn(<<p, f>>) = input.paths[p][f].cfg
  BY <1>2, SMT DEF WrittenIn
<1> QED BY <1>1, <1>3 DEF Written

LEMMA WrittenInEnds ==
  ASSUME input \in Inputs
  PROVE  /\ <<0, 0>> \in Sources /\ Written[<<0, 0>>] = Default
         /\ <<Len(input.paths) + 1, 0>> \in Sources
         /\ Written[<<Len(input.paths) + 1, 0>>] = input.flags
<1>1. <<0, 0>> \in Sources /\ <<Len(input.paths) + 1, 0>> \in Sources
  BY SMT DEF Sources
<1>2. WrittenIn(<<0, 0>>) = Default
  BY InputPaths, SMT DEF WrittenIn
<1>3. Len(input.paths) + 1 # 0 /\ Len(input.paths) + 1 \notin DOMAIN input.paths
  BY InputPaths, SMT
<1>4. WrittenIn(<<Len(input.paths) + 1, 0>>) = input.flags
  BY <1>3, SMT DEF WrittenIn
<1> QED BY <1>1, <1>2, <1>4 DEF Written

\* The next file of a path comes after those read.
LEMMA NextFile ==
  ASSUME NEW p \in Nat, NEW n \in Nat
  PROVE  /\ Precede(ReadOf(p, n), {<<p, n + 1>>})
         /\ ReadOf(p, n) \cup {<<p, n + 1>>} = ReadOf(p, n + 1)
<1>1. Precede(ReadOf(p, n), {<<p, n + 1>>})
  BY SMT DEF Precede, ReadOf, Before
<1>2. (1 .. n) \cup {n + 1} = 1 .. (n + 1)
  BY SMT
<1>3. ReadOf(p, n) \cup {<<p, n + 1>>} = ReadOf(p, n + 1)
  BY <1>2, SMT DEF ReadOf
<1> QED BY <1>1, <1>3

\* All files of a path come after the paths before it.
LEMMA NextPath ==
  ASSUME input \in Inputs, NEW p \in DOMAIN input.paths
  PROVE  /\ Precede(ReadBefore(p), FilesOf(p))
         /\ ReadBefore(p) \cup FilesOf(p) = ReadBefore(p + 1)
         /\ FilesOf(p) = ReadOf(p, Len(input.paths[p]))
<1>0. p \in Nat /\ p > 0
  BY InputPaths, SMT
<1>1. ASSUME NEW s \in ReadBefore(p), NEW t \in FilesOf(p)
      PROVE  Before(s, t) /\ ~ Before(t, s)
  <2>1. t[1] = p
    BY SMT DEF FilesOf
  <2>2. s[1] \in Nat /\ s[1] < p
    <3>1. CASE s = <<0, 0>>
      BY <1>0, <3>1, SMT
    <3>2. CASE s # <<0, 0>>
      <4>1. PICK q \in DOMAIN input.paths : q < p /\ s \in FilesOf(q)
        BY <3>2 DEF ReadBefore
      <4>2. s[1] = q
        BY <4>1, SMT DEF FilesOf
      <4> QED BY <4>1, <4>2, InputPaths, SMT
    <3> QED BY <3>1, <3>2
  <2> QED BY <1>0, <2>1, <2>2, SMT DEF Before
<1>2. {q \in DOMAIN input.paths : q < p + 1} = {q \in DOMAIN input.paths : q < p} \cup {p}
  BY InputPaths, SMT
<1>3. ReadBefore(p) \cup FilesOf(p) = ReadBefore(p + 1)
  BY <1>2, SMT DEF ReadBefore
<1>4. FilesOf(p) = ReadOf(p, Len(input.paths[p]))
  BY InputPaths DEF FilesOf, ReadOf
<1> QED BY <1>1, <1>3, <1>4 DEF Precede

\* The flags come last.
LEMMA FlagsLast ==
  ASSUME input \in Inputs
  PROVE  LET n == Len(input.paths) + 1 IN
         /\ Precede(ReadBefore(n), {<<n, 0>>})
         /\ ReadBefore(n) \cup {<<n, 0>>} = Sources
<1> DEFINE n == Len(input.paths) + 1
<1>1. {q \in DOMAIN input.paths : q < n} = DOMAIN input.paths
  BY InputPaths, SMT
<1>2. ReadBefore(n) = (UNION {FilesOf(q) : q \in DOMAIN input.paths}) \cup {<<0, 0>>}
  BY <1>1 DEF ReadBefore
<1>3. ReadBefore(n) \cup {<<n, 0>>} = Sources
  BY <1>2, SMT DEF Sources
<1>4. ASSUME NEW s \in ReadBefore(n)
      PROVE  Before(s, <<n, 0>>) /\ ~ Before(<<n, 0>>, s)
  <2>1. s[1] \in Nat /\ s[1] < n
    <3>1. CASE s = <<0, 0>>
      BY <3>1, InputPaths, SMT
    <3>2. CASE s # <<0, 0>>
      <4>1. PICK q \in DOMAIN input.paths : s \in FilesOf(q)
        BY <1>2, <3>2
      <4>2. s[1] = q
        BY <4>1, SMT DEF FilesOf
      <4> QED BY <4>1, <4>2, InputPaths, SMT
    <3> QED BY <3>1, <3>2
  <2>2. n \in Nat /\ <<n, 0>>[1] = n
    BY InputPaths, SMT
  <2> QED BY <2>1, <2>2, SMT DEF Before
<1> QED BY <1>3, <1>4 DEF Precede

\* A source by itself: the first file of a path, the defaults, the flags.
LEMMA OneSourceReflects ==
  ASSUME NEW w, NEW p \in Nat, NEW n \in Nat, <<p, n>> \in DOMAIN w
  PROVE  Reflects(w[<<p, n>>], w, {<<p, n>>})
<1> DEFINE s == <<p, n>>
<1>1. ~ Before(s, s)
  BY SMT DEF Before
<1> HIDE DEF s
<1>2. ASSUME NEW G, s \in DOMAIN G
      PROVE  LastGiven(G[s], G, {s}) /\ FirstGiven(G[s], G, {s})
  BY <1>1 DEF LastGiven, FirstGiven
<1> DEFINE top   == [t \in DOMAIN w |-> w[t].top]
           of(k) == [t \in DOMAIN w |-> Fields(k, w[t][k])]
           eval  == [t \in DOMAIN w |-> EvalFields(w[t].eval)]
           work  == [t \in DOMAIN w |-> Workers(w[t].eval)]
           conf(k) == [t \in DOMAIN w |-> PluginConfigs(w[t][k])]
           driv(k) == [t \in DOMAIN w |-> Drivers(w[t][k])]
<1>3. s \in DOMAIN w
  BY DEF s
<1>4. /\ LastGiven(top[s], top, {s}) /\ top[s] = w[s].top
      /\ LastGiven(eval[s], eval, {s}) /\ eval[s] = EvalFields(w[s].eval)
      /\ LastGiven(work[s], work, {s}) /\ work[s] = Workers(w[s].eval)
  BY <1>2, <1>3
<1>5. \A k \in Blocks : LastGiven(of(k)[s], of(k), {s}) /\ of(k)[s] = Fields(k, w[s][k])
  BY <1>2, <1>3
<1>6. \A k \in Kinds : /\ LastGiven(conf(k)[s], conf(k), {s}) /\ conf(k)[s] = PluginConfigs(w[s][k])
                       /\ FirstGiven(driv(k)[s], driv(k), {s}) /\ driv(k)[s] = Drivers(w[s][k])
  BY <1>2, <1>3
<1>7. Reflects(w[s], w, {s})
  BY <1>4, <1>5, <1>6 DEF Reflects
<1> QED BY <1>7 DEF s

\* A directory without files.
LEMMA EmptyReflects ==
  ASSUME NEW w
  PROVE  Reflects(Empty, w, {})
<1>1. ASSUME NEW m, NEW G, DOMAIN m = {}
      PROVE  LastGiven(m, G, {}) /\ FirstGiven(m, G, {})
  BY <1>1 DEF LastGiven, FirstGiven
<1>2. /\ Empty.top = NoFields /\ Empty.eval = Nil
      /\ \A k \in Blocks : Empty[k] = Nil
      /\ \A k \in Kinds : Empty[k] = NoFields
  BY SMT DEF Empty, Blocks, Kinds
<1>3. DOMAIN NoFields = {}
  BY DEF NoFields
<1>4. DOMAIN EvalFields(Nil) = {} /\ DOMAIN Workers(Nil) = {}
  BY <1>3 DEF EvalFields, Workers
<1>5. \A k \in Blocks : DOMAIN Fields(k, Nil) = {}
  BY <1>3 DEF Fields, Restrict
<1>6. DOMAIN PluginConfigs(NoFields) = {} /\ DOMAIN Drivers(NoFields) = {}
  BY <1>3 DEF PluginConfigs, Drivers
<1> QED BY <1>1, <1>2, <1>3, <1>4, <1>5, <1>6 DEF Reflects

-----------------------------------------------------------------------------
(* The shape of the configuration *)

\* A configuration with all its blocks, as the defaults have them.
Complete(c) ==
  /\ \A k \in Blocks \cup {"eval"} : c[k] # Nil
  /\ c.eval[1].workers # Nil
  /\ "enable_hostname_label" \notin DOMAIN c.telemetry[1]
  /\ {"default_cooldown", "default_evaluation_interval"} \subseteq DOMAIN c.policy[1]

\* Only the files of a directory are ever merged through a nil pointer.
LEMMA CompleteMerges ==
  ASSUME NEW a, NEW b, Complete(a)
  PROVE  ~ MergePanics(a, b)
BY DEF Complete, MergePanics

LEMMA MergeComplete ==
  ASSUME NEW a, NEW b, Complete(a)
  PROVE  Complete(Merge(a, b))
<1> DEFINE c == Merge(a, b)
<1>0. \A x : Ptr(x) # Nil /\ Ptr(x)[1] = x
  BY SMT DEF Ptr, Nil
<1>1. ASSUME NEW k \in Blocks \cup {"eval"}
      PROVE  c[k] # Nil
  <2>1. c[k] = a[k] \/ \E x : c[k] = Ptr(x)
    BY SMT DEF Merge, MergeBlock, Blocks
  <2> QED BY <1>0, <2>1 DEF Complete
<1>2. c.eval[1].workers # Nil
  <2>1. CASE b.eval = Nil
    BY <2>1 DEF Merge, MergeBlock, Complete
  <2>2. CASE b.eval # Nil
    <3>1. c.eval[1] = PolicyEvalmerge(a.eval[1], b.eval[1])
      BY <1>0, <2>2 DEF Merge, MergeBlock
    <3>2. c.eval[1].workers = a.eval[1].workers \/ \E x : c.eval[1].workers = Ptr(x)
      BY <3>1, SMT DEF PolicyEvalmerge
    <3> QED BY <1>0, <3>2 DEF Complete
  <2> QED BY <2>1, <2>2
<1>3. "enable_hostname_label" \notin DOMAIN c.telemetry[1]
  <2>1. CASE b.telemetry = Nil
    BY <2>1 DEF Merge, MergeBlock, Complete
  <2>2. CASE b.telemetry # Nil
    <3>1. c.telemetry[1] = Telemetrymerge(a.telemetry[1], b.telemetry[1])
      BY <1>0, <2>2 DEF Merge, MergeBlock
    <3> QED BY <3>1 DEF Telemetrymerge, Over, Restrict, Complete
  <2> QED BY <2>1, <2>2
<1>4. {"default_cooldown", "default_evaluation_interval"} \subseteq DOMAIN c.policy[1]
  <2>1. CASE b.policy = Nil
    BY <2>1 DEF Merge, MergeBlock, Complete
  <2>2. CASE b.policy # Nil
    <3>1. c.policy[1] = Over(b.policy[1], a.policy[1])
      BY <1>0, <2>2 DEF Merge, MergeBlock, Policymerge
    <3> QED BY <3>1 DEF Over, Complete
  <2> QED BY <2>1, <2>2
<1> HIDE DEF c
<1>5. Complete(c)
  BY <1>1, <1>2, <1>3, <1>4 DEF Complete
<1> QED BY <1>5 DEF c

LEMMA MergeConfiguration ==
  ASSUME NEW a, NEW b, ~ MergePanics(a, b), IsConfiguration(a), IsConfiguration(b)
  PROVE  IsConfiguration(Merge(a, b))
<1> DEFINE c == Merge(a, b)
           intervals == {"default_cooldown", "default_evaluation_interval"}
<1>0. \A x : Ptr(x)[1] = x
  BY SMT DEF Ptr
<1>1. ASSUME NEW k \in Kinds, NEW n \in DOMAIN c[k]
      PROVE  IsPlugin(c[k][n])
  <2>1. c[k] = pluginConfigSetMerge(a[k], b[k])
    BY SMT DEF Merge, Kinds
  <2>2. n \in DOMAIN a[k] \cup DOMAIN b[k]
    BY <2>1, MergedNames
  <2>3. /\ n \in DOMAIN a[k] => IsPlugin(a[k][n])
        /\ n \in DOMAIN b[k] => IsPlugin(b[k][n])
    BY DEF IsConfiguration
  <2>4. CASE n \in DOMAIN a[k] \cap DOMAIN b[k]
    <3>1. c[k][n] = Pluginmerge(a[k][n], b[k][n])
      BY <2>1, <2>4 DEF pluginConfigSetMerge, Over
    <3>2. a[k][n] = [driver |-> a[k][n].driver, config |-> a[k][n].config]
      BY <2>3, <2>4 DEF IsPlugin
    <3> QED BY <3>1, <3>2, SMT DEF Pluginmerge, IsPlugin
  <2>5. CASE n \in DOMAIN a[k] /\ n \notin DOMAIN b[k]
    <3>1. c[k][n] = a[k][n]
      BY <2>1, <2>5 DEF pluginConfigSetMerge, Over
    <3> QED BY <2>3, <2>5, <3>1
  <2>6. CASE n \notin DOMAIN a[k] /\ n \in DOMAIN b[k]
    <3>1. c[k][n] = b[k][n]
      BY <2>1, <2>6 DEF pluginConfigSetMerge, Over
    <3> QED BY <2>3, <2>6, <3>1
  <2> QED BY <2>2, <2>4, <2>5, <2>6
<1>2. c.policy # Nil => \A f \in DOMAIN c.policy[1] \cap intervals : c.policy[1][f] \in Int \ {0}
  <2>1. CASE b.policy = Nil
    <3>1. c.policy = a.policy
      BY <2>1 DEF Merge, MergeBlock
    <3> QED BY <3>1 DEF IsConfiguration
  <2>2. CASE b.policy # Nil
    <3>1. c.policy[1] = Over(b.policy[1], a.policy[1])
      BY <1>0, <2>2 DEF Merge, MergeBlock, Policymerge
    <3>2. a.policy # Nil
      BY <2>2 DEF MergePanics, Blocks
    <3> QED BY <2>2, <3>1, <3>2 DEF Over, IsConfiguration
  <2> QED BY <2>1, <2>2
<1>3. c.nomad # Nil => \A f \in DOMAIN c.nomad[1] : c.nomad[1][f] \in Texts \ {<<>>}
  <2>1. CASE b.nomad = Nil
    <3>1. c.nomad = a.nomad
      BY <2>1 DEF Merge, MergeBlock
    <3> QED BY <3>1 DEF IsConfiguration
  <2>2. CASE b.nomad # Nil
    <3>1. c.nomad[1] = Over(b.nomad[1], a.nomad[1])
      BY <1>0, <2>2 DEF Merge, MergeBlock, Nomadmerge
    <3>2. a.nomad # Nil
      BY <2>2 DEF MergePanics, Blocks
    <3> QED BY <2>2, <3>1, <3>2 DEF Over, IsConfiguration
  <2> QED BY <2>1, <2>2
<1> HIDE DEF c
<1>4. IsConfiguration(c)
  BY <1>1, <1>2, <1>3 DEF IsConfiguration
<1> QED BY <1>4 DEF c

LEMMA DefaultShape ==
  /\ IsConfiguration(Default) /\ Complete(Default)
  /\ IsConfiguration(Empty)
<1>0. \A x : Ptr(x) # Nil /\ Ptr(x)[1] = x
  BY SMT DEF Ptr, Nil
<1>1. IsConfiguration(Empty)
  <2>1. \A k \in Kinds : Empty[k] = NoFields
    BY SMT DEF Empty, Kinds
  <2>2. Empty.policy = Nil /\ Empty.nomad = Nil
    BY DEF Empty
  <2> QED BY <2>1, <2>2 DEF IsConfiguration, NoFields
<1>2. Complete(Default)
  <2>1. \A k \in Blocks \cup {"eval"} : \E x : Default[k] = Ptr(x)
    BY SMT DEF Default, Blocks
  <2>2. /\ Default.eval[1].workers = Ptr([horizontal |-> 10, cluster |-> 10])
        /\ Default.telemetry[1] = [collection_interval |-> 1]
        /\ Default.policy[1] = [default_cooldown |-> 300, default_evaluation_interval |-> 10]
    BY SMT DEF Default, Ptr
  <2>3. "enable_hostname_label" \notin DOMAIN Default.telemetry[1]
    BY <2>2, SMT
  <2>4. {"default_cooldown", "default_evaluation_interval"} \subseteq DOMAIN Default.policy[1]
    BY <2>2, SMT
  <2>5. Default.eval[1].workers # Nil
    <3>1. Default.eval[1].workers = Ptr([horizontal |-> 10, cluster |-> 10])
      BY <2>2
    <3> QED BY <1>0, <3>1
  <2>6. ASSUME NEW k \in Blocks \cup {"eval"}
        PROVE  Default[k] # Nil
    <3>1. PICK x : Default[k] = Ptr(x)
      BY <2>1
    <3> QED BY <1>0, <3>1
  <2> QED BY <2>3, <2>4, <2>5, <2>6 DEF Complete
<1>3. IsConfiguration(Default)
  <2>1. ASSUME NEW k \in Kinds, NEW n \in DOMAIN Default[k]
        PROVE  IsPlugin(Default[k][n])
    <3>1. PICK m : Default[k] = Internal(m)
      BY SMT DEF Default, Kinds
    <3>2. Default[k][n] = [driver |-> m, config |-> NoFields]
      BY <3>1 DEF Internal
    <3> QED BY <3>2 DEF IsPlugin
  <2>2. Default.policy[1] = [default_cooldown |-> 300, default_evaluation_interval |-> 10]
    BY SMT DEF Default, Ptr
  <2>3. \A f \in DOMAIN Default.policy[1] \cap {"default_cooldown", "default_evaluation_interval"} :
          Default.policy[1][f] \in Int \ {0}
    BY <2>2, SMT
  <2>4. Default.nomad[1] = NoFields
    BY SMT DEF Default, Ptr
  <2> QED BY <2>1, <2>3, <2>4 DEF IsConfiguration, NoFields
<1> QED BY <1>1, <1>2, <1>3

-----------------------------------------------------------------------------
(* Reading the configuration *)

\* What holds while readConfig runs and of what it returns.
ConfigInv ==
  /\ input \in Inputs /\ paths = input.paths /\ flags = input.flags
  /\ path \in 1 .. (Len(paths) + 1)
  /\ read \in Nat
  /\ path \in DOMAIN paths => read <= Len(paths[path])
  /\ current = Nil => read = 0
  /\ current # Nil => IsConfiguration(current[1])
  /\ IsConfiguration(cfg) /\ Complete(cfg)
  /\ stage = "config" /\ current # Nil =>
       path \in DOMAIN paths /\ Reflects(current[1], Written, ReadOf(path, read))
  /\ stage = "config" /\ ~ validationErr => Reflects(cfg, Written, ReadBefore(path))
  /\ stage \in Configured => Reflects(cfg, Written, Sources)

\* The variables of readConfig.
readVars == <<input, paths, path, read, current, flags, cfg, validationErr>>

\* Every step after readConfig leaves what it built alone.
LEMMA LaterStep ==
  ASSUME Next, ~ readConfig
  PROVE  UNCHANGED readVars /\ stage \in Configured /\ stage' # "config"
<1>1. CASE StartAgent
  BY <1>1 DEF StartAgent, setupPluginsConfig, readVars, Configured
<1>2. CASE ReadNomadPolicy
  BY <1>2 DEF ReadNomadPolicy, configVars, readVars, Configured
<1>3. CASE ReadFilePolicy
  BY <1>3 DEF ReadFilePolicy, configVars, readVars, Configured
<1>4. CASE updateHandler
  BY <1>4 DEF updateHandler, configVars, readVars, Configured
<1>5. CASE generateEvaluation
  BY <1>5, SMT DEF generateEvaluation, configVars, readVars, Configured
<1>6. CASE checkHandlerStart
  BY <1>6 DEF checkHandlerStart, configVars, readVars, Configured
<1>7. CASE ListingFails
  BY <1>7 DEF ListingFails, configVars, readVars, Configured
<1>8. CASE ReadMetrics
  BY <1>8 DEF ReadMetrics, configVars, readVars, Configured
<1>9. CASE Answer
  BY <1>9 DEF Answer, configVars, readVars, Configured
<1>10. CASE Unanswered
  BY <1>10 DEF Unanswered, configVars, readVars, Configured
<1> QED BY <1>1, <1>2, <1>3, <1>4, <1>5, <1>6, <1>7, <1>8, <1>9, <1>10 DEF Next

LEMMA SourcesStay ==
  ASSUME input' = input
  PROVE  Written' = Written /\ Sources' = Sources
<1>1. Sources' = Sources
  BY DEF Sources, FilesOf
<1> QED BY <1>1, SMT DEF Written, WrittenIn

LEMMA ConfigInvInit == Init => ConfigInv
<1> HAVE Init
<1>1. /\ input \in Inputs /\ paths = input.paths /\ flags = input.flags
      /\ path = 1 /\ read = 0 /\ current = Nil /\ cfg = Default /\ stage = "config"
  BY DEF Init, ConfigInit
<1>2. path \in 1 .. (Len(paths) + 1) /\ read \in Nat /\ (path \in DOMAIN paths => read <= Len(paths[path]))
  BY <1>1, InputPaths, SMT
<1>3. IsConfiguration(cfg) /\ Complete(cfg)
  BY <1>1, DefaultShape
<1>4. {q \in DOMAIN input.paths : q < 1} = {}
  BY <1>1, InputPaths, SMT
<1>5. ReadBefore(1) = {<<0, 0>>}
  BY <1>4, SMT DEF ReadBefore
<1>6. Reflects(Default, Written, {<<0, 0>>})
  <2>1. <<0, 0>> \in DOMAIN Written /\ Written[<<0, 0>>] = Default
    BY <1>1, WrittenInEnds DEF Written
  <2>2. 0 \in Nat
    BY SMT
  <2> QED BY <2>1, <2>2, OneSourceReflects
<1>7. stage \notin Configured
  BY <1>1 DEF Configured
<1> QED BY <1>1, <1>2, <1>3, <1>5, <1>6, <1>7 DEF ConfigInv

\* One file of a path.
LEMMA LoadDirKeepsConfig ==
  ASSUME ConfigInv, loadDir, input' = input
  PROVE  ConfigInv'
<1> USE DEF ConfigInv
<1>0. Written' = Written
  BY SourcesStay
<1>1. /\ UNCHANGED <<input, paths, path, flags, cfg, validationErr>>
      /\ stage = "config" /\ path \in DOMAIN paths /\ read + 1 \in DOMAIN paths[path]
  BY DEF loadDir
<1>2. CASE stage' = "error" \/ stage' = "panic"
  <2>1. UNCHANGED <<read, current>>
    BY <1>1, <1>2 DEF loadDir
  <2>2. stage' # "config" /\ stage' \notin Configured
    BY <1>2 DEF Configured
  <2> QED BY <1>0, <1>1, <2>1, <2>2
<1>3. CASE stage' = stage /\ read' = read + 1
  <2> DEFINE parsed == parseFile(paths[path][read + 1])
             file   == paths[path][read + 1].cfg
  <2>1. /\ parsed # Nil
        /\ current # Nil => ~ MergePanics(current[1], parsed[1])
        /\ current' = IF current = Nil THEN parsed ELSE Ptr(Merge(current[1], parsed[1]))
    <3>1. stage' # "error" /\ stage' # "panic"
      BY <1>1, <1>3
    <3> QED BY <3>1 DEF loadDir
  <2>3. \A x : Ptr(x) # Nil /\ Ptr(x)[1] = x
    BY SMT DEF Ptr, Nil
  <2>2. parsed = Ptr(file) /\ parsed[1] = file
    <3>1. parsed = Ptr(file)
      BY <2>1 DEF parseFile
    <3> QED BY <2>3, <3>1
  <2>4. path \in Nat /\ read + 1 \in Nat /\ read + 1 <= Len(paths[path])
    BY <1>1, InputPaths, SMT
  <2>5. IsConfiguration(file)
    BY <1>1, InputPaths
  <2>6. Reflects(file, Written, {<<path, read + 1>>})
    <3>1. <<path, read + 1>> \in DOMAIN Written /\ Written[<<path, read + 1>>] = file
      BY <1>1, WrittenInFile DEF Written
    <3> QED BY <2>4, <3>1, OneSourceReflects
  <2>7. CASE current = Nil
    <3>1. read = 0 /\ current' = Ptr(file)
      BY <2>1, <2>2, <2>7
    <3>2. ReadOf(path, read + 1) = {<<path, read + 1>>}
      BY <2>4, <3>1, SMT DEF ReadOf
    <3>3. Reflects(current'[1], Written', ReadOf(path', read'))
      BY <1>0, <1>1, <1>3, <2>3, <2>6, <3>1, <3>2
    <3>4. current' # Nil /\ IsConfiguration(current'[1])
      BY <2>3, <2>5, <3>1
    <3> QED BY <1>0, <1>1, <1>3, <2>4, <3>3, <3>4 DEF Configured, ReadOf, ReadBefore, FilesOf
  <2>8. CASE current # Nil
    <3> DEFINE merged == Merge(current[1], file)
    <3>1. current' = Ptr(merged) /\ ~ MergePanics(current[1], file)
      BY <2>1, <2>2, <2>8
    <3>2. /\ Precede(ReadOf(path, read), {<<path, read + 1>>})
          /\ ReadOf(path, read) \cup {<<path, read + 1>>} = ReadOf(path, read + 1)
      BY <2>4, NextFile
    <3>3. Reflects(merged, Written, ReadOf(path, read + 1))
      <4>1. Reflects(current[1], Written, ReadOf(path, read)) /\ IsConfiguration(current[1])
        BY <1>1, <2>8
      <4>2. Reflects(merged, Written, ReadOf(path, read) \cup {<<path, read + 1>>})
        BY <2>6, <3>1, <3>2, <4>1, MergeReflects
      <4> QED BY <3>2, <4>2
    <3>4. IsConfiguration(merged)
      BY <2>5, <2>8, <3>1, MergeConfiguration
    <3> HIDE DEF merged
    <3>5. Reflects(current'[1], Written', ReadOf(path', read'))
      BY <1>0, <1>1, <1>3, <2>3, <3>1, <3>3
    <3>6. current' # Nil /\ IsConfiguration(current'[1])
      BY <2>3, <3>1, <3>4
    <3> QED BY <1>0, <1>1, <1>3, <2>4, <3>5, <3>6 DEF Configured, ReadOf, ReadBefore, FilesOf
  <2> QED BY <2>7, <2>8
<1> QED BY <1>2, <1>3 DEF loadDir

\* One turn of the loop over the paths.
LEMMA LoadPathKeepsConfig ==
  ASSUME ConfigInv, LoadPath, input' = input
  PROVE  ConfigInv'
<1> USE DEF ConfigInv
<1>0. Written' = Written
  BY SourcesStay
<1>1. /\ UNCHANGED <<input, paths, flags, stage>>
      /\ stage = "config" /\ path \in DOMAIN paths /\ read + 1 \notin DOMAIN paths[path]
      /\ path' = path + 1 /\ read' = 0 /\ current' = Nil
  BY DEF LoadPath
<1>2. read = Len(paths[path])
  BY <1>1, InputPaths, SMT
<1>3. path' \in 1 .. (Len(paths) + 1)
  BY <1>1, InputPaths, SMT
<1>4. read' \in Nat /\ (path' \in DOMAIN paths' => read' <= Len(paths'[path']))
  BY <1>1, InputPaths, SMT
<1>5. IsConfiguration(Loaded)
  BY DefaultShape DEF Loaded
<1>6. Reflects(Loaded, Written, FilesOf(path))
  <2>1. CASE current = Nil
    <3>1. read = 0
      BY <2>1
    <3>2. FilesOf(path) = {}
      BY <1>1, <1>2, <3>1, InputPaths, SMT DEF FilesOf
    <3> QED BY <2>1, <3>2, EmptyReflects DEF Loaded
  <2>2. CASE current # Nil
    <3>1. FilesOf(path) = ReadOf(path, read)
      BY <1>1, <1>2, NextPath
    <3> QED BY <1>1, <2>2, <3>1 DEF Loaded
  <2> QED BY <2>1, <2>2
<1>7. stage' \notin Configured
  BY <1>1 DEF Configured
<1>8. CASE validationErr' = TRUE /\ cfg' = cfg
  BY <1>0, <1>1, <1>3, <1>4, <1>7, <1>8
<1>9. CASE cfg' = Merge(cfg, Loaded) /\ validationErr' = validationErr
  <2>1. IsConfiguration(cfg') /\ Complete(cfg')
    BY <1>5, <1>9, CompleteMerges, MergeComplete, MergeConfiguration
  <2>2. /\ Precede(ReadBefore(path), FilesOf(path))
        /\ ReadBefore(path) \cup FilesOf(path) = ReadBefore(path + 1)
    BY <1>1, NextPath
  <2>3. ReadBefore(path)' = ReadBefore(path + 1)
    BY <1>1 DEF ReadBefore, FilesOf
  <2>4. ~ validationErr' => Reflects(cfg', Written', ReadBefore(path)')
    <3> HAVE ~ validationErr'
    <3>1. Reflects(cfg, Written, ReadBefore(path)) /\ IsConfiguration(cfg) /\ Complete(cfg)
      BY <1>1, <1>9
    <3>2. ~ MergePanics(cfg, Loaded)
      BY <3>1, CompleteMerges
    <3>3. Reflects(Merge(cfg, Loaded), Written, ReadBefore(path) \cup FilesOf(path))
      BY <1>6, <2>2, <3>1, <3>2, MergeReflects
    <3> QED BY <1>0, <1>9, <2>2, <2>3, <3>3
  <2> QED BY <1>0, <1>1, <1>3, <1>4, <1>7, <2>1, <2>4
<1> QED BY <1>8, <1>9 DEF LoadPath

\* The flags, over everything that was read.
LEMMA MergeFlagsKeepsConfig ==
  ASSUME ConfigInv, MergeFlags, input' = input
  PROVE  ConfigInv'
<1> USE DEF ConfigInv
<1> DEFINE last == Len(input.paths) + 1
<1>0. Written' = Written /\ Sources' = Sources
  BY SourcesStay
<1>1. /\ UNCHANGED <<input, paths, path, read, current, flags, validationErr>>
      /\ stage = "config" /\ ~ validationErr /\ path \notin DOMAIN paths
      /\ stage' = "agent" /\ cfg' = Merge(cfg, flags)
  BY DEF MergeFlags
<1>2. path = last /\ last \in Nat /\ 0 \in Nat
  BY <1>1, InputPaths, SMT
<1>3. IsConfiguration(flags)
  BY InputPaths
<1>4. IsConfiguration(cfg') /\ Complete(cfg')
  BY <1>1, <1>3, CompleteMerges, MergeComplete, MergeConfiguration
<1>5. Reflects(flags, Written, {<<last, 0>>})
  <2>1. <<last, 0>> \in DOMAIN Written /\ Written[<<last, 0>>] = flags
    BY WrittenInEnds DEF Written
  <2> QED BY <1>2, <2>1, OneSourceReflects
<1>6. Precede(ReadBefore(last), {<<last, 0>>}) /\ ReadBefore(last) \cup {<<last, 0>>} = Sources
  BY FlagsLast
<1>7. Reflects(cfg', Written', Sources')
  <2>1. Reflects(cfg, Written, ReadBefore(last)) /\ IsConfiguration(cfg) /\ ~ MergePanics(cfg, flags)
    BY <1>1, <1>2, CompleteMerges
  <2>2. Reflects(Merge(cfg, flags), Written, ReadBefore(last) \cup {<<last, 0>>})
    BY <1>5, <1>6, <2>1, MergeReflects
  <2> QED BY <1>0, <1>1, <1>6, <2>2
<1>8. stage' # "config"
  BY <1>1
<1> HIDE DEF last
<1> QED BY <1>0, <1>1, <1>4, <1>7, <1>8

LEMMA ConfigInvNext == ConfigInv /\ [Next]_vars => ConfigInv'
<1> SUFFICES ASSUME ConfigInv, [Next]_vars
             PROVE  ConfigInv'
  OBVIOUS
<1>1. CASE readConfig
  <2>0. input' = input
    BY <1>1 DEF readConfig
  <2>1. CASE loadDir
    BY <2>0, <2>1, LoadDirKeepsConfig
  <2>2. CASE LoadPath
    BY <2>0, <2>2, LoadPathKeepsConfig
  <2>3. CASE Rejected
    <3>1. UNCHANGED readVars /\ stage' = "error"
      BY <2>0, <2>3 DEF Rejected, configVars, readVars
    <3>2. Written' = Written /\ stage' # "config" /\ stage' \notin Configured
      BY <2>0, <3>1, SourcesStay DEF Configured
    <3> QED BY <3>1, <3>2 DEF ConfigInv, readVars
  <2>4. CASE MergeFlags
    BY <2>0, <2>4, MergeFlagsKeepsConfig
  <2> QED BY <1>1, <2>1, <2>2, <2>3, <2>4 DEF readConfig
<1>2. CASE Next /\ ~ readConfig
  <2>1. UNCHANGED readVars /\ stage \in Configured /\ stage' # "config"
    BY <1>2, LaterStep
  <2>2. input' = input
    BY <2>1 DEF readVars
  <2>3. Written' = Written /\ Sources' = Sources
    BY <2>2, SourcesStay
  <2> QED BY <2>1, <2>3 DEF ConfigInv, readVars
<1>3. CASE UNCHANGED vars
  <2>1. UNCHANGED readVars /\ stage' = stage
    BY <1>3 DEF vars, configVars, readVars
  <2>2. input' = input
    BY <2>1 DEF readVars
  <2>3. Written' = Written /\ Sources' = Sources
    BY <2>2, SourcesStay
  <2>4. ReadBefore(path)' = ReadBefore(path) /\ ReadOf(path, read)' = ReadOf(path, read)
    BY <2>1 DEF readVars, ReadBefore, ReadOf, FilesOf
  <2> QED BY <2>1, <2>3, <2>4 DEF ConfigInv, readVars
<1> QED BY <1>1, <1>2, <1>3

\* The configuration being built is well formed and is, of every field, the
\* last value of the sources read so far: the defaults, the paths and the files
\* in their order, and after readConfig the flags.
THEOREM ConfigurationBuilt == Spec => []ConfigInv
BY ConfigInvInit, ConfigInvNext, PTL DEF Spec

\* What a configuration that reflects all sources has.
LEMMA ConfigImpliesLastWins == ConfigInv => LastWins
<1> SUFFICES ASSUME ConfigInv, stage \in Configured
             PROVE  LastWins
  BY DEF LastWins
<1>1. Reflects(cfg, Written, Sources) /\ Complete(cfg)
  BY DEF ConfigInv
<1>2. DOMAIN Written = Sources /\ \A s \in Sources : Written[s] = WrittenIn(s)
  BY DEF Written
<1>3. LastGiven(cfg.top, [s \in Sources |-> WrittenIn(s).top], Sources)
  <2>1. [s \in DOMAIN Written |-> Written[s].top] = [s \in Sources |-> WrittenIn(s).top]
    BY <1>2
  <2> QED BY <1>1, <2>1 DEF Reflects
<1>4. ASSUME NEW k \in Blocks
      PROVE  LastGiven(cfg[k][1], [s \in Sources |-> Fields(k, WrittenIn(s)[k])], Sources)
  <2>1. [s \in DOMAIN Written |-> Fields(k, Written[s][k])]
          = [s \in Sources |-> Fields(k, WrittenIn(s)[k])]
    BY <1>2
  <2>2. cfg[k] # Nil
    BY <1>1 DEF Complete
  <2>3. k = "telemetry" => "enable_hostname_label" \notin DOMAIN cfg[k][1]
    BY <1>1 DEF Complete
  <2>4. DOMAIN Fields(k, cfg[k]) = DOMAIN cfg[k][1]
    BY <2>2, <2>3 DEF Fields, Restrict
  <2>5. \A f \in DOMAIN cfg[k][1] : Fields(k, cfg[k])[f] = cfg[k][1][f]
    BY <2>2, <2>3 DEF Fields, Restrict
  <2>6. LastGiven(Fields(k, cfg[k]), [s \in Sources |-> Fields(k, WrittenIn(s)[k])], Sources)
    BY <1>1, <2>1 DEF Reflects
  <2> DEFINE g == Fields(k, cfg[k])
             h == cfg[k][1]
             F == [s \in Sources |-> Fields(k, WrittenIn(s)[k])]
  <2> HIDE DEF F, g, h
  <2>7. DOMAIN g = DOMAIN h /\ \A f \in DOMAIN h : g[f] = h[f]
    BY <2>4, <2>5 DEF g, h
  <2>8. LastGiven(g, F, Sources)
    BY <2>6 DEF F, g
  <2>9. LastGiven(h, F, Sources)
    BY <2>7, <2>8 DEF LastGiven
  <2> QED BY <2>9 DEF F, h
<1>5. LastGiven(cfg.eval[1].fields, [s \in Sources |-> EvalFields(WrittenIn(s).eval)], Sources)
  <2>1. [s \in DOMAIN Written |-> EvalFields(Written[s].eval)]
          = [s \in Sources |-> EvalFields(WrittenIn(s).eval)]
    BY <1>2
  <2>2. EvalFields(cfg.eval) = cfg.eval[1].fields
    BY <1>1 DEF Complete, EvalFields
  <2> QED BY <1>1, <2>1, <2>2 DEF Reflects
<1>6. LastGiven(cfg.eval[1].workers[1], [s \in Sources |-> Workers(WrittenIn(s).eval)], Sources)
  <2>1. [s \in DOMAIN Written |-> Workers(Written[s].eval)]
          = [s \in Sources |-> Workers(WrittenIn(s).eval)]
    BY <1>2
  <2>2. Workers(cfg.eval) = cfg.eval[1].workers[1]
    BY <1>1 DEF Complete, Workers
  <2> QED BY <1>1, <2>1, <2>2 DEF Reflects
<1>7. ASSUME NEW k \in Kinds
      PROVE  /\ LastGiven(PluginConfigs(cfg[k]),
                          [s \in Sources |-> PluginConfigs(WrittenIn(s)[k])], Sources)
             /\ FirstGiven(Drivers(cfg[k]), [s \in Sources |-> Drivers(WrittenIn(s)[k])], Sources)
  <2>1. [s \in DOMAIN Written |-> PluginConfigs(Written[s][k])]
          = [s \in Sources |-> PluginConfigs(WrittenIn(s)[k])]
    BY <1>2
  <2>2. [s \in DOMAIN Written |-> Drivers(Written[s][k])] = [s \in Sources |-> Drivers(WrittenIn(s)[k])]
    BY <1>2
  <2> QED BY <1>1, <2>1, <2>2 DEF Reflects
<1> QED BY <1>3, <1>4, <1>5, <1>6, <1>7 DEF LastWins

\* Whatever the paths, files and flags, the configuration that readConfig
\* returns has the last value written for every field.
THEOREM LastValueWins == Spec => []LastWins
BY ConfigurationBuilt, ConfigImpliesLastWins, PTL

-----------------------------------------------------------------------------
(* What the agent makes of the configuration and of the policy *)

\* The stages of a policy that a handler monitors.
Monitored == {"monitor", "tick", "evaluate", "query", "answered"}

AgentClient == MergeDefaultWithAgentConfig(Environment, cfg.nomad[1])

PluginMaps ==
  [k \in Kinds |-> [n \in DOMAIN cfg[k] |-> setupPluginConfig(cfg[k][n].config, AgentClient)]]

NomadPolicy == canonicalizePolicy(parsePolicy(input.document.policy), Defaults, NomadAPMs)

FilePolicy ==
  CanonicalizeFilePolicy(ApplyPolicyDefaults(Translate(input.document.policy), Defaults), NomadAPMs)

\* The plugins and the handler have what the configuration and the document of
\* this behaviour give them.
AgentInv ==
  /\ current # Nil => read # 0
  /\ stage \in Configured \ {"agent"} => nomadCfg = Ptr(AgentClient) /\ pluginConfig = PluginMaps
  /\ stage \in Monitored => policy # Nil
  /\ policy # Nil =>
       /\ stage \in Monitored \cup {"idle", "panic"}
       /\ \/ /\ input.document.source = "nomad"
             /\ validateScalingPolicy(input.document.policy)
             /\ policy = Ptr(NomadPolicy)
          \/ /\ input.document.source = "file"
             /\ input.document.policy.doc # Nil
             /\ policy = Ptr(FilePolicy)

LEMMA AgentInvInit == Init => AgentInv
BY DEF Init, ConfigInit, AgentInv, Configured, Monitored

\* The same configuration gives the same policies.
LEMMA PoliciesStay ==
  ASSUME input' = input, cfg' = cfg
  PROVE  /\ AgentClient' = AgentClient /\ PluginMaps' = PluginMaps
         /\ NomadPolicy' = NomadPolicy /\ FilePolicy' = FilePolicy
<1>1. AgentClient' = AgentClient
  BY DEF AgentClient
<1>2. Defaults' = Defaults /\ NomadAPMs' = NomadAPMs
  BY DEF Defaults, NomadAPMs, getNomadAPMNames
<1> QED BY <1>1, <1>2 DEF PluginMaps, NomadPolicy, FilePolicy

\* A step that changes neither the policy nor the plugins.
LEMMA PolicyStays ==
  ASSUME AgentInv, UNCHANGED <<readVars, policy, nomadCfg, pluginConfig>>,
         stage \in Configured \ {"agent"},
         stage \in Monitored, stage' \in Monitored \cup {"idle", "panic"}
  PROVE  AgentInv'
<1>1. input' = input /\ cfg' = cfg /\ UNCHANGED <<current, read>>
  BY DEF readVars
<1> QED BY <1>1, PoliciesStay DEF AgentInv

LEMMA AgentInvNext == ConfigInv /\ AgentInv /\ [Next]_vars => AgentInv'
<1> SUFFICES ASSUME ConfigInv, AgentInv, [Next]_vars
             PROVE  AgentInv'
  OBVIOUS
<1>0. Monitored \subseteq Configured \ {"agent"}
  BY DEF Monitored, Configured
<1>1. CASE readConfig
  <2>1. UNCHANGED <<input, policy>> /\ stage = "config"
    BY <1>1 DEF readConfig, loadDir, LoadPath, Rejected, MergeFlags
  <2>2. policy = Nil
    BY <2>1 DEF AgentInv, Monitored
  <2>3. stage' \in {"config", "error", "panic", "agent"}
    BY <1>1, <2>1 DEF readConfig, loadDir, LoadPath, Rejected, MergeFlags
  <2>4. current' # Nil => read' # 0
    <3>1. CASE loadDir
      <4>1. read \in Nat
        BY DEF ConfigInv
      <4>2. read + 1 # 0
        BY <4>1, SMT
      <4> QED BY <3>1, <4>2 DEF loadDir, AgentInv
    <3>2. CASE LoadPath
      BY <3>2 DEF LoadPath
    <3>3. CASE Rejected \/ MergeFlags
      BY <3>3 DEF Rejected, MergeFlags, configVars, AgentInv
    <3> QED BY <1>1, <3>1, <3>2, <3>3 DEF readConfig
  <2>5. stage' \notin Configured \ {"agent"} /\ stage' \notin Monitored
    BY <2>3 DEF Configured, Monitored
  <2> QED BY <2>1, <2>2, <2>4, <2>5 DEF AgentInv
<1>2. CASE StartAgent
  <2>1. /\ UNCHANGED <<input, policy, current, read, cfg>> /\ stage = "agent" /\ stage' = "policy"
        /\ nomadCfg' = Ptr(AgentClient) /\ pluginConfig' = PluginMaps
    BY <1>2 DEF StartAgent, setupPluginsConfig, AgentClient, PluginMaps
  <2>2. policy = Nil /\ stage' \notin Monitored
    BY <2>1 DEF AgentInv, Monitored
  <2> QED BY <2>1, <2>2, PoliciesStay DEF AgentInv
<1>3. CASE ReadNomadPolicy
  <2>1. /\ UNCHANGED <<input, current, read, cfg, nomadCfg, pluginConfig>>
        /\ stage = "policy" /\ input.document.source = "nomad"
    BY <1>3 DEF ReadNomadPolicy, configVars
  <2>2. \/ /\ validateScalingPolicy(input.document.policy)
           /\ policy' = Ptr(NomadPolicy) /\ stage' = "monitor"
        \/ UNCHANGED policy /\ stage' = "refused"
    BY <1>3 DEF ReadNomadPolicy, NomadPolicy
  <2>3. policy = Nil /\ stage \in Configured \ {"agent"}
    BY <2>1 DEF AgentInv, Monitored, Configured
  <2>4. "monitor" \in Monitored /\ "refused" \notin Monitored /\ Ptr(NomadPolicy) # Nil
    BY SMT DEF Monitored, Ptr, Nil
  <2> QED BY <2>1, <2>2, <2>3, <2>4, PoliciesStay DEF AgentInv
<1>4. CASE ReadFilePolicy
  <2>1. /\ UNCHANGED <<input, current, read, cfg, nomadCfg, pluginConfig>>
        /\ stage = "policy" /\ input.document.source = "file"
    BY <1>4 DEF ReadFilePolicy, configVars
  <2>2. \/ input.document.policy.doc # Nil /\ policy' = Ptr(FilePolicy) /\ stage' = "monitor"
        \/ UNCHANGED policy /\ stage' \in {"refused", "panic"}
    BY <1>4 DEF ReadFilePolicy, FilePolicy
  <2>3. policy = Nil /\ stage \in Configured \ {"agent"}
    BY <2>1 DEF AgentInv, Monitored, Configured
  <2>4. "monitor" \in Monitored /\ "refused" \notin Monitored /\ "panic" \notin Monitored
        /\ Ptr(FilePolicy) # Nil
    BY SMT DEF Monitored, Ptr, Nil
  <2> QED BY <2>1, <2>2, <2>3, <2>4, PoliciesStay DEF AgentInv
<1>5. CASE updateHandler \/ generateEvaluation
  <2>1. stage' \in Monitored \cup {"idle", "panic"} /\ stage \in Monitored
    BY <1>5, SMT DEF updateHandler, generateEvaluation, Monitored
  <2>2. UNCHANGED <<readVars, policy, nomadCfg, pluginConfig>>
    BY <1>5 DEF updateHandler, generateEvaluation, configVars, readVars
  <2> QED BY <1>0, <2>1, <2>2, PolicyStays
<1>6. CASE checkHandlerStart \/ ListingFails
  <2>1. stage' \in Monitored \cup {"idle", "panic"} /\ stage \in Monitored
    BY <1>6 DEF checkHandlerStart, ListingFails, Monitored
  <2>2. UNCHANGED <<readVars, policy, nomadCfg, pluginConfig>>
    BY <1>6 DEF checkHandlerStart, ListingFails, configVars, readVars
  <2> QED BY <1>0, <2>1, <2>2, PolicyStays
<1>7. CASE ReadMetrics \/ Answer \/ Unanswered
  <2>1. stage' \in Monitored \cup {"idle", "panic"} /\ stage \in Monitored
    BY <1>7 DEF ReadMetrics, Answer, Unanswered, Monitored
  <2>2. UNCHANGED <<readVars, policy, nomadCfg, pluginConfig>>
    BY <1>7 DEF ReadMetrics, Answer, Unanswered, configVars, readVars
  <2> QED BY <1>0, <2>1, <2>2, PolicyStays
<1>8. CASE UNCHANGED vars
  <2>1. UNCHANGED <<input, current, read, cfg, stage, policy, nomadCfg, pluginConfig>>
    BY <1>8 DEF vars, configVars
  <2> QED BY <2>1, PoliciesStay DEF AgentInv
<1> QED BY <1>1, <1>2, <1>3, <1>4, <1>5, <1>6, <1>7, <1>8 DEF Next

\* Every plugin has the map made of its own configuration and the agent's, and
\* a handler monitors what its source made of a document that was accepted
\* (setupPluginsConfig, MonitorPolicy, handleIndividualPolicyRead).
THEOREM HandedOver == Spec => []AgentInv
BY ConfigurationBuilt, AgentInvInit, AgentInvNext, PTL DEF Spec

-----------------------------------------------------------------------------
(* The policy that a handler monitors *)

LEMMA Pointers == \A x : Ptr(x) # Nil /\ Ptr(x)[1] = x
BY SMT DEF Ptr, Nil

\* A check as the handler sees it: what was parsed under label l, with target t.
MonitoredCheck(l, s, q, w, st, t, A) ==
  LET source == IF s = <<>> THEN <<"nomad-apm">> ELSE s IN
  [name         |-> l,
   source       |-> source,
   query        |-> IF t # Nil /\ source \in A /\ isShortQuery(q) THEN Expanded(q, t[1]) ELSE q,
   query_window |-> Or(w, DefaultQueryWindow),
   strategy     |-> IF st = Nil THEN Ptr([name |-> "", config |-> NoBlocks]) ELSE st]

\* A parsed check under its label, with a query window.
Relabelled(c, l) ==
  [[c EXCEPT !.name = l] EXCEPT !.query_window = Or(@, DefaultQueryWindow)]

CheckOf(n, s, q, w, st) ==
  [name |-> n, source |-> s, query |-> q, query_window |-> w, strategy |-> st]

SeenAs(n, s, q, w, st, l, t, A) ==
  canonicalizeCheck(Relabelled(CheckOf(n, s, q, w, st), l), t, A)
    = MonitoredCheck(l, s, q, w, st, t, A)

LEMMA CanonicalCheck ==
  ASSUME NEW l, NEW s, NEW q, NEW w, NEW st, NEW t, NEW A, NEW n
  PROVE  SeenAs(n, s, q, w, st, l, t, A)
<1> DEFINE c == [name |-> n, source |-> s, query |-> q, query_window |-> w, strategy |-> st]
           none == Ptr([name |-> "", config |-> NoBlocks])
           named == [name |-> l, source |-> s, query |-> q, query_window |-> w, strategy |-> st]
           window == Or(w, DefaultQueryWindow)
           windowed == [name |-> l, source |-> s, query |-> q, query_window |-> window,
                        strategy |-> st]
           strategy == IF st = Nil THEN none ELSE st
           strategic == [name |-> l, source |-> s, query |-> q, query_window |-> window,
                         strategy |-> strategy]
           source == IF s = <<>> THEN <<"nomad-apm">> ELSE s
           sourced == [name |-> l, source |-> source, query |-> q, query_window |-> window,
                       strategy |-> strategy]
<1>1. [c EXCEPT !.name = l] = named
  BY SMT
<1>2. [named EXCEPT !.query_window = Or(@, DefaultQueryWindow)] = windowed
  <2>1. named.query_window = w
    BY SMT
  <2>2. [named EXCEPT !.query_window = window] = windowed
    <3> HIDE DEF window
    <3> QED BY SMT
  <2> QED BY <2>1, <2>2
<1> HIDE DEF window
<1>3. [windowed EXCEPT !.strategy = IF @ = Nil THEN none ELSE @] = strategic
  <2>1. windowed.strategy = st
    BY SMT
  <2>2. [windowed EXCEPT !.strategy = strategy] = strategic
    <3> HIDE DEF strategy
    <3> QED BY SMT
  <2> QED BY <2>1, <2>2
<1> HIDE DEF strategy
<1>4. [strategic EXCEPT !.source = IF @ = <<>> THEN <<"nomad-apm">> ELSE @] = sourced
  <2>1. strategic.source = s
    BY SMT
  <2>2. [strategic EXCEPT !.source = source] = sourced
    <3> HIDE DEF source
    <3> QED BY SMT
  <2> QED BY <2>1, <2>2
<1> HIDE DEF named, windowed, strategic
<1>5. canonicalizeCheck(windowed, t, A) = CanonicalizeAPMQuery(sourced, t, A)
  BY <1>3, <1>4 DEF canonicalizeCheck, CanonicalizeCheck
<1> HIDE DEF source
<1>6. sourced.source = source /\ sourced.query = q
  BY SMT
<1>7. CanonicalizeAPMQuery(sourced, t, A) =
        [name |-> l, source |-> source,
         query |-> IF t # Nil /\ source \in A /\ isShortQuery(q) THEN Expanded(q, t[1]) ELSE q,
         query_window |-> window, strategy |-> strategy]
  <2>1. CASE t # Nil /\ source \in A /\ isShortQuery(q)
    <3> DEFINE e == Expanded(q, t[1])
    <3>1. CanonicalizeAPMQuery(sourced, t, A) = [sourced EXCEPT !.query = e]
      <4> HIDE DEF sourced
      <4> QED BY <1>6, <2>1 DEF CanonicalizeAPMQuery
    <3> HIDE DEF e
    <3>2. [sourced EXCEPT !.query = e] = [name |-> l, source |-> source, query |-> e,
                                          query_window |-> window, strategy |-> strategy]
      BY SMT
    <3> QED BY <2>1, <3>1, <3>2 DEF e
  <2>2. CASE ~ (t # Nil /\ source \in A /\ isShortQuery(q))
    <3>1. CanonicalizeAPMQuery(sourced, t, A) = sourced
      <4> HIDE DEF sourced
      <4> QED BY <1>6, <2>2 DEF CanonicalizeAPMQuery
    <3> QED BY <2>2, <3>1
  <2> QED BY <2>1, <2>2
<1> HIDE DEF sourced
<1> HIDE DEF c
<1>8. Relabelled(c, l) = windowed
  BY <1>1, <1>2 DEF Relabelled
<1>9. canonicalizeCheck(Relabelled(c, l), t, A) = MonitoredCheck(l, s, q, w, st, t, A)
  BY <1>5, <1>7, <1>8 DEF MonitoredCheck, source, strategy, window
<1> QED BY <1>9 DEF SeenAs, CheckOf, c

LEMMA NotParsed == ASSUME NEW c, c.form # "list" PROVE parseCheck(c) = Nil
BY DEF parseCheck, parseBlock

\* A target as the handler sees it: what was parsed, or an empty one, under
\* the name of the Nomad target when a horizontal policy gives none.
TargetOrEmpty(t) == IF t = Nil THEN Ptr([name |-> "", config |-> NoBlocks]) ELSE t

MonitoredTarget(type, t) ==
  IF type = "horizontal" /\ t[1].name = ""
  THEN [t EXCEPT ![1].name = "nomad-target"]
  ELSE t

Horizontal(type) == IF type = "" THEN "horizontal" ELSE type

Windowed(checks) == {[c EXCEPT !.query_window = Or(@, DefaultQueryWindow)] : c \in checks}

CanonicalChecks(checks, t, A) == {canonicalizeCheck(c, t, A) : c \in Windowed(checks)}

MonitoredPolicy(id, type, mi, ma, en, iv, cd, cs, t, A) ==
  [id |-> id, type |-> type, min |-> mi, max |-> ma, enabled |-> en, interval |-> iv,
   cooldown |-> cd, checks |-> CanonicalChecks(cs, t, A), target |-> t]

BecomesMonitored(id, ty, mi, ma, en, iv, cd, cs, tg, d, A) ==
  canonicalizePolicy(
    [id |-> id, type |-> ty, min |-> mi, max |-> ma, enabled |-> en, interval |-> iv,
     cooldown |-> cd, checks |-> cs, target |-> tg], d, A) =
    MonitoredPolicy(id, Horizontal(ty), mi, ma, en, Or(iv, d.interval), Or(cd, d.cooldown),
                    cs, MonitoredTarget(Horizontal(ty), TargetOrEmpty(tg)), A)

LEMMA CanonicalPolicy ==
  ASSUME NEW id, NEW ty, NEW mi, NEW ma, NEW en, NEW iv, NEW cd, NEW cs, NEW tg, NEW d, NEW A
  PROVE  BecomesMonitored(id, ty, mi, ma, en, iv, cd, cs, tg, d, A)
<1> SUFFICES canonicalizePolicy(
               [id |-> id, type |-> ty, min |-> mi, max |-> ma, enabled |-> en, interval |-> iv,
                cooldown |-> cd, checks |-> cs, target |-> tg], d, A) =
             MonitoredPolicy(id, Horizontal(ty), mi, ma, en, Or(iv, d.interval),
                             Or(cd, d.cooldown), cs,
                             MonitoredTarget(Horizontal(ty), TargetOrEmpty(tg)), A)
  BY DEF BecomesMonitored
<1> DEFINE p == [id |-> id, type |-> ty, min |-> mi, max |-> ma, enabled |-> en, interval |-> iv,
                 cooldown |-> cd, checks |-> cs, target |-> tg]
           type == Horizontal(ty)
           typed == [id |-> id, type |-> type, min |-> mi, max |-> ma, enabled |-> en,
                     interval |-> iv, cooldown |-> cd, checks |-> cs, target |-> tg]
           iv2 == Or(iv, d.interval)
           cd2 == Or(cd, d.cooldown)
           cs2 == Windowed(cs)
           filled == [id |-> id, type |-> type, min |-> mi, max |-> ma, enabled |-> en,
                      interval |-> iv2, cooldown |-> cd2, checks |-> cs2, target |-> tg]
           t0 == TargetOrEmpty(tg)
           targeted == [id |-> id, type |-> type, min |-> mi, max |-> ma, enabled |-> en,
                        interval |-> iv2, cooldown |-> cd2, checks |-> cs2, target |-> t0]
           t == MonitoredTarget(type, t0)
           named == [id |-> id, type |-> type, min |-> mi, max |-> ma, enabled |-> en,
                     interval |-> iv2, cooldown |-> cd2, checks |-> cs2, target |-> t]
           cs3 == CanonicalChecks(cs, t, A)
           whole == [id |-> id, type |-> type, min |-> mi, max |-> ma, enabled |-> en,
                     interval |-> iv2, cooldown |-> cd2, checks |-> cs3, target |-> t]
<1>1. [p EXCEPT !.type = IF @ = "" THEN "horizontal" ELSE @] = typed
  <2>1. p.type = ty
    BY SMT
  <2>2. [p EXCEPT !.type = type] = typed
    <3> HIDE DEF type
    <3> QED BY SMT
  <2> QED BY <2>1, <2>2 DEF Horizontal
<1> HIDE DEF type
<1>2. ApplyPolicyDefaults(typed, d) = filled
  <2>1. typed.interval = iv /\ typed.cooldown = cd /\ typed.checks = cs
    BY SMT
  <2>2. [typed EXCEPT !.cooldown = cd2, !.interval = iv2, !.checks = cs2] = filled
    <3> HIDE DEF iv2, cd2, cs2
    <3> DEFINE r1 == [id |-> id, type |-> type, min |-> mi, max |-> ma, enabled |-> en,
                      interval |-> iv, cooldown |-> cd2, checks |-> cs, target |-> tg]
               r2 == [id |-> id, type |-> type, min |-> mi, max |-> ma, enabled |-> en,
                      interval |-> iv2, cooldown |-> cd2, checks |-> cs, target |-> tg]
    <3>1. [typed EXCEPT !.cooldown = cd2] = r1
      BY SMT
    <3>2. [r1 EXCEPT !.interval = iv2] = r2
      BY SMT
    <3>3. [r2 EXCEPT !.checks = cs2] = filled
      BY SMT
    <3> HIDE DEF typed, r1, r2, filled
    <3>4. [typed EXCEPT !.cooldown = cd2, !.interval = iv2, !.checks = cs2]
            = [[[typed EXCEPT !.cooldown = cd2] EXCEPT !.interval = iv2] EXCEPT !.checks = cs2]
      OBVIOUS
    <3> QED BY <3>1, <3>2, <3>3, <3>4
  <2>3. ApplyPolicyDefaults(typed, d) = [typed EXCEPT !.cooldown = cd2, !.interval = iv2, !.checks = cs2]
    <3> HIDE DEF typed
    <3> QED BY <2>1 DEF ApplyPolicyDefaults, Windowed
  <2> HIDE DEF typed, filled
  <2> QED BY <2>2, <2>3
<1> HIDE DEF iv2, cd2, cs2
<1>3. [filled EXCEPT !.target = IF @ = Nil THEN Ptr([name |-> "", config |-> NoBlocks]) ELSE @]
        = targeted
  <2>1. filled.target = tg
    BY SMT
  <2>2. [filled EXCEPT !.target = t0] = targeted
    <3> HIDE DEF t0
    <3> QED BY SMT
  <2> QED BY <2>1, <2>2 DEF TargetOrEmpty
<1> HIDE DEF t0
<1>4. canonicalizePolicyByType(targeted) = named
  <2>1. targeted.type = type /\ targeted.target = t0
    BY SMT
  <2>2. [targeted EXCEPT !.target = t] = named
    <3> HIDE DEF t
    <3> QED BY SMT
  <2>3. targeted = [targeted EXCEPT !.target = t0]
    BY SMT
  <2>4. CASE type = "horizontal" /\ t0[1].name = ""
    <3>1. [targeted EXCEPT !.target[1].name = "nomad-target"]
            = [targeted EXCEPT !.target = [t0 EXCEPT ![1].name = "nomad-target"]]
      <4> HIDE DEF targeted
      <4> QED BY <2>1
    <3>2. t = [t0 EXCEPT ![1].name = "nomad-target"]
      BY <2>4 DEF MonitoredTarget
    <3>3. canonicalizePolicyByType(targeted) = [targeted EXCEPT !.target[1].name = "nomad-target"]
      <4> HIDE DEF targeted
      <4> QED BY <2>1, <2>4 DEF canonicalizePolicyByType, canonicalizeHorizontalPolicy
    <3> HIDE DEF targeted, named
    <3> QED BY <2>2, <3>1, <3>2, <3>3
  <2>5. CASE ~ (type = "horizontal" /\ t0[1].name = "")
    <3>1. canonicalizePolicyByType(targeted) = targeted
      <4> HIDE DEF targeted
      <4> QED BY <2>1, <2>5 DEF canonicalizePolicyByType, canonicalizeHorizontalPolicy
    <3>2. t = t0
      BY <2>5 DEF MonitoredTarget
    <3> HIDE DEF targeted, named
    <3> QED BY <2>2, <2>3, <3>1, <3>2
  <2> QED BY <2>4, <2>5
<1> HIDE DEF t
<1>5. [named EXCEPT !.checks = {canonicalizeCheck(c, named.target, A) : c \in @}] = whole
  <2>1. named.checks = cs2 /\ named.target = t
    BY SMT
  <2>2. [named EXCEPT !.checks = cs3] = whole
    <3> HIDE DEF cs3
    <3> QED BY SMT
  <2>3. cs3 = {canonicalizeCheck(c, t, A) : c \in cs2}
    BY DEF CanonicalChecks, cs2
  <2> HIDE DEF named, whole, cs3
  <2> QED BY <2>1, <2>2, <2>3
<1> HIDE DEF p, typed, filled, targeted, named
<1>6. canonicalizePolicy(p, d, A) = whole
  <2> HIDE DEF whole
  <2> DEFINE p1 == [p EXCEPT !.type = IF @ = "" THEN "horizontal" ELSE @]
             p2 == [ApplyPolicyDefaults(p1, d) EXCEPT
                      !.target = IF @ = Nil THEN Ptr([name |-> "", config |-> NoBlocks]) ELSE @]
             p3 == canonicalizePolicyByType(p2)
  <2>1. p1 = typed
    BY <1>1
  <2> HIDE DEF p1
  <2>2. p2 = targeted
    BY <2>1, <1>2, <1>3
  <2>3. canonicalizePolicy(p, d, A)
          = [p3 EXCEPT !.checks = {canonicalizeCheck(c, p3.target, A) : c \in @}]
    BY DEF canonicalizePolicy, p1
  <2> HIDE DEF p2
  <2>4. p3 = named
    BY <2>2, <1>4
  <2> HIDE DEF p3
  <2>5. [p3 EXCEPT !.checks = {canonicalizeCheck(c, p3.target, A) : c \in @}]
          = [named EXCEPT !.checks = {canonicalizeCheck(c, named.target, A) : c \in @}]
    BY <2>4
  <2> QED BY <1>5, <2>3, <2>5, SMT
<1> QED BY <1>6 DEF MonitoredPolicy, p, type, iv2, cd2, t0, t

-----------------------------------------------------------------------------
(* Least and largest elements *)

LEMMA LeastExists ==
  ASSUME NEW T \in SUBSET Nat, T # {}
  PROVE  \E x \in T : \A y \in T : x <= y
<1>1. PICK x \in T : \A y \in T : ~ (<<y, x>> \in OpToRel(<, Nat))
  BY NatLessThanWellFounded, WFMin
<1>2. ASSUME NEW y \in T, ~ (x <= y)
      PROVE  FALSE
  <2>1. x \in Nat /\ y \in Nat
    BY <1>1
  <2>2. y < x
    BY <1>2, <2>1, SMT
  <2>3. <<y, x>> \in OpToRel(<, Nat)
    BY <2>1, <2>2, SMT DEF OpToRel
  <2> QED BY <1>1, <2>3
<1> QED BY <1>1, <1>2

LEMMA MinOfNaturals ==
  ASSUME NEW T \in SUBSET Nat, T # {}
  PROVE  Min(T) \in T /\ \A y \in T : Min(T) <= y
BY LeastExists DEF Min

LEMMA MaxOfBounded ==
  ASSUME NEW T \in SUBSET Nat, T # {}, NEW n \in Nat, \A y \in T : y <= n
  PROVE  Max(T) \in T /\ \A y \in T : Max(T) >= y
<1> DEFINE U == {n - y : y \in T}
<1>1. U \in SUBSET Nat /\ U # {}
  <2>1. \A y \in T : n - y \in Nat
    BY SMT
  <2> QED BY <2>1
<1>2. PICK u \in U : \A v \in U : u <= v
  <2> HIDE DEF U
  <2> QED BY <1>1, LeastExists
<1>3. PICK x \in T : u = n - x
  BY <1>2
<1>4. \A y \in T : x >= y
  BY <1>2, <1>3, SMT
<1> QED BY <1>3, <1>4 DEF Max

\* A block of a list is a block of one of its maps.
LEMMA FlattenedFrom ==
  ASSUME NEW blocks, IsSequence(blocks.maps), NEW l \in DOMAIN Flatten(blocks)
  PROVE  \E m \in MapsOf(blocks) : l \in DOMAIN m /\ Flatten(blocks)[l] = m[l]
<1> DEFINE H == {i \in DOMAIN blocks.maps : blocks.maps[i] # Nil /\ l \in DOMAIN blocks.maps[i][1]}
<1>1. \E x \in Range(blocks.maps) \ {Nil} : l \in DOMAIN x[1]
  BY DEF Flatten
<1>2. H # {}
  BY <1>1 DEF Range
<1>3. H \in SUBSET Nat /\ Len(blocks.maps) \in Nat /\ \A i \in H : i <= Len(blocks.maps)
  BY SMT DEF IsSequence
<1>4. Max(H) \in H
  <2> HIDE DEF H
  <2> QED BY <1>2, <1>3, MaxOfBounded
<1>5. Flatten(blocks)[l] = blocks.maps[Max(H)][1][l]
  BY DEF Flatten
<1>6. blocks.maps[Max(H)] \in Range(blocks.maps) \ {Nil} /\ l \in DOMAIN blocks.maps[Max(H)][1]
  BY <1>4 DEF Range
<1> QED BY <1>5, <1>6 DEF MapsOf

\* The blocks of a list of maps have what all blocks of the maps have.
LEMMA FlattenedChecks ==
  ASSUME NEW p, IsNomadPolicy(p), p.policy # Nil,
         NEW l \in DOMAIN Flatten(p.policy[1].check)
  PROVE  IsCheck(Flatten(p.policy[1].check)[l].body)
BY FlattenedFrom DEF IsNomadPolicy

LEMMA FlattenedTargets ==
  ASSUME NEW p, IsNomadPolicy(p), p.policy # Nil,
         NEW l \in DOMAIN Flatten(p.policy[1].target)
  PROVE  IsTargetBody(Flatten(p.policy[1].target)[l].body)
BY FlattenedFrom DEF IsNomadPolicy

-----------------------------------------------------------------------------
(* A Nomad policy that was accepted *)

LEMMA AcceptedShape ==
  ASSUME NEW p, validateScalingPolicy(p)
  PROVE  /\ p.policy # Nil /\ p.target # Nil
         /\ p.min # Nil /\ p.max # Nil /\ 0 <= p.min[1] /\ p.min[1] <= p.max[1]
         /\ p.policy[1].check.kind = "list"
         /\ Given(p.policy[1].target) => p.policy[1].target.kind = "list"
         /\ \A l \in DOMAIN Flatten(p.policy[1].check) :
              LET b == Flatten(p.policy[1].check)[l].body IN
              b.query.kind = "string" /\ b.query.val # <<>>
<1>1. validatePolicy(p.policy) /\ validateHorizontalPolicy(p) /\ p.target # Nil
  BY DEF validateScalingPolicy, validateScalingPolicyByType
<1>2. p.min # Nil /\ p.max # Nil /\ 0 <= p.min[1] /\ p.min[1] <= p.max[1]
  BY <1>1, SMT DEF validateHorizontalPolicy
<1>3. /\ p.policy # Nil /\ p.policy[1].check.kind = "list"
      /\ Given(p.policy[1].target) => p.policy[1].target.kind = "list"
  BY <1>1 DEF validatePolicy, validateBlocks
<1>4. ASSUME NEW l \in DOMAIN Flatten(p.policy[1].check)
      PROVE  LET b == Flatten(p.policy[1].check)[l].body IN
             b.query.kind = "string" /\ b.query.val # <<>>
  BY <1>1 DEF validatePolicy, validateChecks, validateCheck, validateHorizontalPolicy,
              validateChecksHorizontal, validateCheckHorizontal
<1> QED BY <1>1, <1>2, <1>3, <1>4

\* A target that was parsed: the keys of the one Nomad attached, and texts.
IsParsedTarget(t, attached) ==
  \E n, m : /\ t = Ptr([name |-> n, config |-> m])
            /\ DOMAIN attached \subseteq DOMAIN m
            /\ \A k \in DOMAIN m : m[k] \in Texts

LEMMA ParsedTargetBlock ==
  ASSUME NEW body, NEW attached, attached # Nil,
         \A k \in DOMAIN attached[1] : attached[1][k] \in Texts,
         body # Nil => IsTargetBody(body[1])
  PROVE  IsParsedTarget(parseTarget(body, attached), attached[1])
<1> DEFINE b == IF body = Nil THEN NoBlocks ELSE StringMap(body[1])
           m == Over(b, attached[1])
<1>1. parseTarget(body, attached) = Ptr([name |-> "", config |-> m])
  BY DEF parseTarget
<1>2. \A k \in DOMAIN b : b[k] \in Texts
  BY DEF NoBlocks, StringMap, IsTargetBody
<1> HIDE DEF b
<1>3. DOMAIN m = DOMAIN b \cup DOMAIN attached[1] /\ \A k \in DOMAIN m : m[k] \in Texts
  BY <1>2 DEF Over
<1> HIDE DEF m
<1> QED BY <1>1, <1>3 DEF IsParsedTarget

LEMMA ParsedTargetNamed ==
  ASSUME NEW t, NEW attached, IsParsedTarget(t, attached), NEW l
  PROVE  IsParsedTarget(Ptr([t[1] EXCEPT !.name = l]), attached)
<1>1. PICK n, m : /\ t = Ptr([name |-> n, config |-> m])
                  /\ DOMAIN attached \subseteq DOMAIN m
                  /\ \A k \in DOMAIN m : m[k] \in Texts
  BY DEF IsParsedTarget
<1>2. t[1] = [name |-> n, config |-> m]
  BY <1>1, Pointers
<1>3. [[name |-> n, config |-> m] EXCEPT !.name = l] = [name |-> l, config |-> m]
  BY SMT
<1>4. [t[1] EXCEPT !.name = l] = [name |-> l, config |-> m]
  BY <1>2, <1>3
<1> QED BY <1>1, <1>4 DEF IsParsedTarget

\* The target of a policy that was accepted is missing only when its target
\* list has no block.
LEMMA ParsedTarget ==
  ASSUME NEW p, validateScalingPolicy(p), IsNomadPolicy(p)
  PROVE  \/ IsParsedTarget(parsePolicy(p).target, p.target[1])
         \/ /\ Given(p.policy[1].target) /\ DOMAIN Flatten(p.policy[1].target) = {}
            /\ parsePolicy(p).target = Nil
<1> DEFINE body == p.policy[1]
           targets == parseBlocks(body.target)
           parsed == [l \in DOMAIN targets |-> parseTarget(parseBlock(targets[l]), p.target)]
           labels == {l \in DOMAIN parsed : parsed[l] # Nil}
<1>0. p.policy # Nil /\ p.target # Nil /\ \A k \in DOMAIN p.target[1] : p.target[1][k] \in Texts
  BY AcceptedShape DEF IsNomadPolicy
<1>1. parsePolicy(p).target = IF ~ Given(body.target) THEN parseTarget(Nil, p.target)
                                                     ELSE Labelled(parsed)
  BY DEF parsePolicy
<1>2. CASE ~ Given(body.target)
  BY <1>0, <1>1, <1>2, ParsedTargetBlock
<1>3. CASE Given(body.target)
  <2>1. targets = Flatten(body.target)
    BY <1>3, AcceptedShape DEF parseBlocks
  <2>2. ASSUME NEW l \in DOMAIN targets
        PROVE  parsed[l] # Nil /\ IsParsedTarget(parsed[l], p.target[1])
    <3>1. parseBlock(targets[l]) # Nil => parseBlock(targets[l])[1] = targets[l].body
      BY Pointers DEF parseBlock
    <3>2. IsTargetBody(targets[l].body)
      BY <1>0, <2>1, FlattenedTargets
    <3>3. IsParsedTarget(parseTarget(parseBlock(targets[l]), p.target), p.target[1])
      BY <1>0, <3>1, <3>2, ParsedTargetBlock
    <3> QED BY <3>3, Pointers DEF IsParsedTarget
  <2>3. labels = DOMAIN targets
    BY <2>2
  <2> HIDE DEF targets
  <2>4. CASE DOMAIN targets = {}
    <3>1. Labelled(parsed) = Nil
      BY <2>3, <2>4 DEF Labelled
    <3> QED BY <1>1, <1>3, <2>1, <2>4, <3>1
  <2>5. CASE DOMAIN targets # {}
    <3> DEFINE l == CHOOSE x \in labels : TRUE
    <3>1. l \in labels
      BY <2>3, <2>5
    <3>2. Labelled(parsed) = Ptr([parsed[l][1] EXCEPT !.name = l])
      <4> HIDE DEF parsed
      <4> QED BY <2>3, <2>5 DEF Labelled
    <3> HIDE DEF l, parsed
    <3>3. l \in DOMAIN targets
      BY <2>3, <3>1
    <3> HIDE DEF labels
    <3> QED BY <1>1, <1>3, <2>2, <3>2, <3>3, ParsedTargetNamed
  <2> QED BY <2>4, <2>5
<1> QED BY <1>2, <1>3

\* A target with configuration m, under a name when the policy is horizontal.
IsNamedTarget(t, type, m) ==
  /\ t # Nil /\ t[1].config = m
  /\ type = "horizontal" => t[1].name # ""

LEMMA MonitoredTargetShape ==
  ASSUME NEW type, NEW n, NEW m
  PROVE  IsNamedTarget(MonitoredTarget(type, Ptr([name |-> n, config |-> m])), type, m)
<1> DEFINE t0 == Ptr([name |-> n, config |-> m])
<1>1. t0[1].name = n /\ t0[1].config = m /\ t0 # Nil
  <2>1. t0[1] = [name |-> n, config |-> m] /\ t0 # Nil
    BY Pointers
  <2> HIDE DEF t0
  <2> QED BY <2>1, SMT
<1>2. CASE type = "horizontal" /\ n = ""
  <2>1. MonitoredTarget(type, t0) = [t0 EXCEPT ![1].name = "nomad-target"]
    <3> HIDE DEF t0
    <3> QED BY <1>1, <1>2 DEF MonitoredTarget
  <2>2. \A x : [t0 EXCEPT ![1].name = x] = Ptr([name |-> x, config |-> m])
    BY SMT DEF Ptr
  <2>3. MonitoredTarget(type, t0) = Ptr([name |-> "nomad-target", config |-> m])
    BY <2>1, <2>2
  <2> DEFINE t == MonitoredTarget(type, t0)
  <2>4. t[1] = [name |-> "nomad-target", config |-> m] /\ t # Nil
    BY <2>3, Pointers
  <2> HIDE DEF t
  <2>5. t # Nil /\ t[1].config = m /\ t[1].name # ""
    BY <2>4, SMT
  <2> QED BY <2>5 DEF t, IsNamedTarget
<1>3. CASE ~ (type = "horizontal" /\ n = "")
  <2>1. MonitoredTarget(type, t0) = t0
    <3> HIDE DEF t0
    <3> QED BY <1>1, <1>3 DEF MonitoredTarget
  <2> QED BY <1>1, <1>3, <2>1 DEF IsNamedTarget
<1> QED BY <1>2, <1>3

\* The check that the handler sees of block c under label l.
SeenCheck(l, c, t, A) ==
  MonitoredCheck(l, ParseString(c.body.source), ParseString(c.body.query),
                 ParseDuration(c.body.query_window), parseCheck(c)[1].strategy, t, A)

LEMMA SeenFromBlock ==
  ASSUME NEW l, NEW c, c.form = "list", NEW t, NEW A
  PROVE  /\ parseCheck(c) # Nil
         /\ canonicalizeCheck(Relabelled(parseCheck(c)[1], l), t, A) = SeenCheck(l, c, t, A)
<1> DEFINE b == c.body
           s == ParseString(b.source)
           q == ParseString(b.query)
           w == ParseDuration(b.query_window)
           strategies == parseBlocks(b.strategy)
           st == Labelled([m \in DOMAIN strategies |-> parseStrategy(strategies[m])])
           r == parseCheck(c)[1]
<1>1. parseBlock(c) # Nil /\ parseBlock(c)[1] = b
  BY Pointers DEF parseBlock
<1>2. parseCheck(c) = Ptr([name |-> "", source |-> s, query |-> q, query_window |-> w,
                           strategy |-> st])
  BY <1>1 DEF parseCheck
<1> HIDE DEF s, q, w, st
<1>3. parseCheck(c) # Nil /\ r = [name |-> "", source |-> s, query |-> q, query_window |-> w,
                                  strategy |-> st]
  BY <1>2, Pointers
<1> HIDE DEF r
<1>4. r.strategy = st
  <2>1. \A n : r = [name |-> n, source |-> s, query |-> q, query_window |-> w, strategy |-> st]
               => r.strategy = st
    BY SMT
  <2> QED BY <1>3, <2>1
<1>5. canonicalizeCheck(Relabelled(r, l), t, A) = MonitoredCheck(l, s, q, w, st, t, A)
  <2>1. SeenAs("", s, q, w, st, l, t, A)
    BY CanonicalCheck
  <2> QED BY <1>3, <2>1 DEF SeenAs, CheckOf
<1>6. SeenCheck(l, c, t, A) = MonitoredCheck(l, s, q, w, st, t, A)
  BY <1>4 DEF SeenCheck, s, q, w, r
<1> QED BY <1>3, <1>5, <1>6 DEF r

\* The labels of the blocks that Nomad returns, lists of one map.
ListBlocks(blocks) == {l \in DOMAIN blocks : blocks[l].form = "list"}

SeenIn(blocks, t, A) == {SeenCheck(l, blocks[l], t, A) : l \in ListBlocks(blocks)}

\* Every check written as a list block is seen, and nothing else.
LEMMA SeenChecks ==
  ASSUME NEW blocks, blocks.kind = "list", NEW t, NEW A
  PROVE  CanonicalChecks(parseChecks(blocks), t, A) = SeenIn(Flatten(blocks), t, A)
<1> DEFINE F == Flatten(blocks)
           W(l) == Relabelled(parseCheck(F[l])[1], l)
           P == {m \in DOMAIN F : parseCheck(F[m]) # Nil}
<1>1. parseChecks(blocks) = {[parseCheck(F[l])[1] EXCEPT !.name = l] : l \in P}
  BY DEF parseChecks, parseBlocks
<1>2. Windowed(parseChecks(blocks)) = {W(l) : l \in P}
  BY <1>1 DEF Windowed, Relabelled
<1>3. \A l \in DOMAIN F : F[l].form # "list" => parseCheck(F[l]) = Nil
  BY NotParsed
<1>4. \A l \in DOMAIN F : F[l].form = "list" => parseCheck(F[l]) # Nil
  BY SeenFromBlock
<1>5. P = ListBlocks(F)
  BY <1>3, <1>4 DEF ListBlocks
<1>6. \A l \in P : canonicalizeCheck(W(l), t, A) = SeenCheck(l, F[l], t, A)
  <2> SUFFICES ASSUME NEW l \in P
               PROVE  canonicalizeCheck(W(l), t, A) = SeenCheck(l, F[l], t, A)
    OBVIOUS
  <2>1. F[l].form = "list"
    BY <1>5 DEF ListBlocks
  <2> QED BY <2>1, SeenFromBlock
<1> HIDE DEF W, P, F
<1>7. {canonicalizeCheck(c, t, A) : c \in {W(l) : l \in P}} = {SeenCheck(l, F[l], t, A) : l \in P}
  BY <1>6
<1> QED BY <1>2, <1>5, <1>7 DEF F, CanonicalChecks, SeenIn

\* What the policy q that the handler gets has of the Nomad policy p.
MonitoredAs(p, q, A) ==
  /\ q.min = p.min[1] /\ q.max = p.max[1]
  /\ q.interval \in Int \ {0} /\ q.cooldown \in Int \ {0}
  /\ q.target # Nil
  /\ q.type = "horizontal" => q.target[1].name # ""
  /\ \A k \in DOMAIN q.target[1].config : q.target[1].config[k] \in Texts
  /\ \/ Given(p.policy[1].target) /\ DOMAIN Flatten(p.policy[1].target) = {}
     \/ DOMAIN p.target[1] \subseteq DOMAIN q.target[1].config
  /\ q.checks = SeenIn(Flatten(p.policy[1].check), q.target, A)

LEMMA AcceptedPolicy ==
  ASSUME NEW p, validateScalingPolicy(p), IsNomadPolicy(p),
         NEW d, d.interval \in Int \ {0}, d.cooldown \in Int \ {0}, NEW A, NEW q,
         q = canonicalizePolicy(parsePolicy(p), d, A)
  PROVE  MonitoredAs(p, q, A)
<1> DEFINE body == p.policy[1]
           mi == IF p.min = Nil THEN 0 ELSE p.min[1]
           ma == p.max[1]
           en == p.enabled = Nil \/ p.enabled[1]
           iv == ParseDuration(body.evaluation_interval)
           cd == ParseDuration(body.cooldown)
           cs == parseChecks(body.check)
           tg == parsePolicy(p).target
           type == Horizontal(p.type)
           t == MonitoredTarget(type, TargetOrEmpty(tg))
           checks == CanonicalChecks(cs, t, A)
<1>1. parsePolicy(p) =
        [id |-> p.id, type |-> p.type, min |-> mi, max |-> ma, enabled |-> en, interval |-> iv,
         cooldown |-> cd, checks |-> cs, target |-> tg]
  BY DEF parsePolicy
<1>2. p.policy # Nil /\ p.min # Nil /\ p.policy[1].check.kind = "list"
  BY AcceptedShape
<1>3. iv \in Int /\ cd \in Int
  <2>1. body.evaluation_interval.val \in Int /\ body.cooldown.val \in Int /\ 0 \in Int
    BY <1>2, SMT DEF IsNomadPolicy
  <2> QED BY <2>1 DEF ParseDuration
<1>4. mi = p.min[1]
  BY <1>2
<1>5. checks = SeenIn(Flatten(body.check), t, A)
  <2> HIDE DEF t
  <2> QED BY <1>2, SeenChecks
<1>6. PICK n, m : /\ TargetOrEmpty(tg) = Ptr([name |-> n, config |-> m])
                  /\ \A k \in DOMAIN m : m[k] \in Texts
                  /\ \/ Given(body.target) /\ DOMAIN Flatten(body.target) = {}
                     \/ DOMAIN p.target[1] \subseteq DOMAIN m
  <2> HIDE DEF tg
  <2>1. CASE IsParsedTarget(tg, p.target[1])
    <3>1. TargetOrEmpty(tg) = tg
      BY <2>1, Pointers DEF IsParsedTarget, TargetOrEmpty
    <3> QED BY <2>1, <3>1 DEF IsParsedTarget
  <2>2. CASE Given(body.target) /\ DOMAIN Flatten(body.target) = {} /\ tg = Nil
    <3>1. TargetOrEmpty(tg) = Ptr([name |-> "", config |-> NoBlocks])
      BY <2>2 DEF TargetOrEmpty
    <3>2. \A k \in DOMAIN NoBlocks : NoBlocks[k] \in Texts
      BY DEF NoBlocks
    <3> QED BY <2>2, <3>1, <3>2
  <2> QED BY <2>1, <2>2, ParsedTarget DEF tg
<1>7. /\ t # Nil /\ t[1].config = m
      /\ type = "horizontal" => t[1].name # ""
  <2> HIDE DEF tg, type
  <2>1. t = MonitoredTarget(type, Ptr([name |-> n, config |-> m]))
    BY <1>6
  <2>2. IsNamedTarget(MonitoredTarget(type, Ptr([name |-> n, config |-> m])), type, m)
    BY MonitoredTargetShape
  <2> HIDE DEF t
  <2> QED BY <2>1, <2>2 DEF IsNamedTarget
<1>8. Or(iv, d.interval) \in Int \ {0} /\ Or(cd, d.cooldown) \in Int \ {0}
  BY <1>3 DEF Or
<1> HIDE DEF mi, ma, en, iv, cd, cs, tg
<1>9. q = [id |-> p.id, type |-> type, min |-> mi, max |-> ma, enabled |-> en,
           interval |-> Or(iv, d.interval), cooldown |-> Or(cd, d.cooldown),
           checks |-> checks, target |-> t]
  <2>1. canonicalizePolicy(
          [id |-> p.id, type |-> p.type, min |-> mi, max |-> ma, enabled |-> en, interval |-> iv,
           cooldown |-> cd, checks |-> cs, target |-> tg], d, A) =
          MonitoredPolicy(p.id, type, mi, ma, en, Or(iv, d.interval), Or(cd, d.cooldown), cs, t, A)
    <3>1. BecomesMonitored(p.id, p.type, mi, ma, en, iv, cd, cs, tg, d, A)
      BY CanonicalPolicy
    <3> QED BY <3>1 DEF BecomesMonitored
  <2> HIDE DEF type, t
  <2> QED BY <1>1, <2>1 DEF MonitoredPolicy
<1> HIDE DEF type, t, checks
<1>10. /\ q.min = mi /\ q.max = ma /\ q.interval = Or(iv, d.interval)
       /\ q.cooldown = Or(cd, d.cooldown) /\ q.checks = checks /\ q.target = t /\ q.type = type
  BY <1>9, SMT
<1> QED BY <1>4, <1>5, <1>6, <1>7, <1>8, <1>10 DEF ma, MonitoredAs

\* The defaults of a configuration that readConfig returned.
LEMMA DefaultIntervals ==
  ASSUME ConfigInv
  PROVE  Defaults.interval \in Int \ {0} /\ Defaults.cooldown \in Int \ {0}
<1>1. {"default_cooldown", "default_evaluation_interval"} \subseteq DOMAIN cfg.policy[1]
      /\ cfg.policy # Nil
  BY DEF ConfigInv, Complete, Blocks
<1>2. /\ cfg.policy[1]["default_cooldown"] \in Int \ {0}
      /\ cfg.policy[1]["default_evaluation_interval"] \in Int \ {0}
  BY <1>1 DEF ConfigInv, IsConfiguration
<1> QED BY <1>2 DEF Defaults

LEMMA DocumentShape ==
  ASSUME ConfigInv
  PROVE  /\ input.document.source = "nomad" => IsNomadPolicy(input.document.policy)
         /\ input.document.source = "file" => IsFilePolicy(input.document.policy)
BY InputsAssumption DEF ConfigInv

\* A file policy's interval and target.
LEMMA FilePolicyFacts ==
  ASSUME NEW p, p.doc # Nil, IsFilePolicy(p), NEW d, d.interval \in Int \ {0}, NEW A, NEW q,
         q = CanonicalizeFilePolicy(ApplyPolicyDefaults(Translate(p), d), A)
  PROVE  q.interval \in Int \ {0}
<1> DEFINE iv == ParseDuration(p.doc[1].evaluation_interval)
           r == ApplyPolicyDefaults(Translate(p), d)
<1>1. iv \in Int
  <2>1. p.doc[1].evaluation_interval.val \in Int /\ 0 \in Int
    BY SMT DEF IsFilePolicy
  <2> QED BY <2>1 DEF ParseDuration
<1>2. Or(iv, d.interval) \in Int \ {0}
  BY <1>1 DEF Or
<1>3. Translate(p).interval = iv /\ "interval" \in DOMAIN Translate(p)
  BY DEF Translate
<1> HIDE DEF iv
<1>4. r.interval = Or(iv, d.interval) /\ "interval" \in DOMAIN r
  BY <1>3, SMT DEF ApplyPolicyDefaults
<1>6. q = CanonicalizeFilePolicy(r, A)
  OBVIOUS
<1> HIDE DEF r
<1>5. q.interval = r.interval
  <2>1. \A X : [r EXCEPT !.checks = X].interval = r.interval
    BY <1>4, SMT
  <2>2. q = [r EXCEPT !.checks = {CanonicalizeCheck(c, r.target, A) : c \in @}]
    BY <1>6 DEF CanonicalizeFilePolicy
  <2> QED BY <2>1, <2>2
<1> QED BY <1>2, <1>4, <1>5

\* A check that the handler sees is complete.
IsSeenCheck(c, l, q, t, A) ==
  /\ c.name = l /\ c.strategy # Nil /\ c.source # <<>> /\ c.query_window # 0
  /\ c.query = IF t # Nil /\ c.source \in A /\ isShortQuery(q) THEN Expanded(q, t[1]) ELSE q

LEMMA SeenCheckFacts ==
  ASSUME NEW l, NEW b, NEW t, NEW A
  PROVE  IsSeenCheck(SeenCheck(l, b, t, A), l, ParseString(b.body.query), t, A)
<1> DEFINE c == SeenCheck(l, b, t, A)
           s == ParseString(b.body.source)
           q == ParseString(b.body.query)
           w == ParseDuration(b.body.query_window)
           st == parseCheck(b)[1].strategy
           source == IF s = <<>> THEN <<"nomad-apm">> ELSE s
           window == Or(w, DefaultQueryWindow)
           strategy == IF st = Nil THEN Ptr([name |-> "", config |-> NoBlocks]) ELSE st
           query_ == IF t # Nil /\ source \in A /\ isShortQuery(q) THEN Expanded(q, t[1]) ELSE q
<1>1. c = [name |-> l, source |-> source, query |-> query_, query_window |-> window,
           strategy |-> strategy]
  BY DEF SeenCheck, MonitoredCheck
<1>2. source # <<>> /\ strategy # Nil
  <2>1. <<"nomad-apm">> # <<>>
    BY SMT
  <2> QED BY <2>1, Pointers
<1>3. window # 0
  BY SMT DEF Or, DefaultQueryWindow
<1> HIDE DEF c, source, window, strategy, query_
<1>4. c.name = l /\ c.source = source /\ c.query = query_ /\ c.query_window = window
      /\ c.strategy = strategy
  BY <1>1, SMT
<1>5. IsSeenCheck(c, l, q, t, A)
  BY <1>2, <1>3, <1>4 DEF query_, IsSeenCheck
<1> QED BY <1>5 DEF c

\* The checks of a policy are those of its list blocks.
LEMMA SeenInFacts ==
  ASSUME NEW blocks, NEW t, NEW A
  PROVE  /\ \A c \in SeenIn(blocks, t, A) : \E l \in ListBlocks(blocks) :
              IsSeenCheck(c, l, ParseString(blocks[l].body.query), t, A)
         /\ \A l \in ListBlocks(blocks) : \E c \in SeenIn(blocks, t, A) :
              IsSeenCheck(c, l, ParseString(blocks[l].body.query), t, A)
<1>1. \A l \in ListBlocks(blocks) :
        IsSeenCheck(SeenCheck(l, blocks[l], t, A), l, ParseString(blocks[l].body.query), t, A)
  BY SeenCheckFacts
<1> QED BY <1>1 DEF SeenIn

\* An expanded query is not empty.
LEMMA ExpandedNotEmpty ==
  ASSUME NEW q \in Texts, q # <<>>, NEW t, \A k \in DOMAIN t.config : t.config[k] \in Texts
  PROVE  Expanded(q, t) # <<>>
<1>1. ASSUME NEW a \in Texts, NEW b \in Texts
      PROVE  <<"taskgroup", "_">> \o q \o <<"/">> \o a \o <<"/">> \o b # <<>>
  BY SMT DEF Texts
<1>2. ASSUME NEW a \in Texts
      PROVE  <<"node", "_">> \o q \o <<"/">> \o a \o <<"/", "class">> # <<>>
  BY SMT DEF Texts
<1>3. CASE IsJobTaskGroupTarget(t)
  <2>1. t.config["Group"] \in Texts /\ t.config["Job"] \in Texts
    BY <1>3 DEF IsJobTaskGroupTarget
  <2>2. Expanded(q, t) = <<"taskgroup", "_">> \o q \o <<"/">> \o t.config["Group"] \o <<"/">>
                           \o t.config["Job"]
    BY <1>3 DEF Expanded
  <2> QED BY <1>1, <2>1, <2>2
<1>4. CASE ~ IsJobTaskGroupTarget(t) /\ IsNodePoolTarget(t)
  <2>1. t.config["node_class"] \in Texts
    BY <1>4 DEF IsNodePoolTarget
  <2>2. Expanded(q, t) = <<"node", "_">> \o q \o <<"/">> \o t.config["node_class"]
                           \o <<"/", "class">>
    BY <1>4 DEF Expanded
  <2> QED BY <1>2, <2>1, <2>2
<1>5. CASE ~ IsJobTaskGroupTarget(t) /\ ~ IsNodePoolTarget(t)
  <2>1. Expanded(q, t) = q
    BY <1>5 DEF Expanded
  <2> QED BY <2>1
<1> QED BY <1>3, <1>4, <1>5

\* The policy of a handler, as its document and the configuration determine it.
LEMMA HandledPolicy ==
  ASSUME ConfigInv, AgentInv, policy # Nil
  PROVE  /\ policy[1].interval \in Int \ {0}
         /\ input.document.source = "nomad" =>
              /\ validateScalingPolicy(input.document.policy)
              /\ IsNomadPolicy(input.document.policy)
              /\ MonitoredAs(input.document.policy, policy[1], NomadAPMs)
         /\ input.document.source \in {"nomad", "file"}
<1>1. CASE input.document.source = "nomad"
  <2>1. /\ validateScalingPolicy(input.document.policy) /\ policy[1] = NomadPolicy
        /\ IsNomadPolicy(input.document.policy)
    BY <1>1, Pointers, DocumentShape DEF AgentInv
  <2>2. policy[1] = canonicalizePolicy(parsePolicy(input.document.policy), Defaults, NomadAPMs)
    BY <2>1 DEF NomadPolicy
  <2>3. Defaults.interval \in Int \ {0} /\ Defaults.cooldown \in Int \ {0}
    BY DefaultIntervals
  <2>4. MonitoredAs(input.document.policy, policy[1], NomadAPMs)
    BY <2>1, <2>2, <2>3, AcceptedPolicy
  <2> QED BY <1>1, <2>1, <2>4 DEF MonitoredAs
<1>2. CASE input.document.source = "file"
  <2>1. /\ input.document.policy.doc # Nil /\ policy[1] = FilePolicy
        /\ IsFilePolicy(input.document.policy)
    BY <1>2, Pointers, DocumentShape DEF AgentInv
  <2>2. policy[1].interval \in Int \ {0}
    BY <2>1, DefaultIntervals, FilePolicyFacts DEF FilePolicy
  <2> QED BY <1>2, <2>2
<1> QED BY <1>1, <1>2 DEF AgentInv

\* A Nomad policy has a target, and each of its checks a strategy.
LEMMA NomadPolicyWhole ==
  ASSUME ConfigInv, AgentInv, policy # Nil, input.document.source = "nomad"
  PROVE  policy[1].target # Nil /\ \A c \in policy[1].checks : c.strategy # Nil
<1>1. MonitoredAs(input.document.policy, policy[1], NomadAPMs)
  BY HandledPolicy
<1>2. policy[1].target # Nil
  BY <1>1 DEF MonitoredAs
<1>3. ASSUME NEW c \in policy[1].checks
      PROVE  c.strategy # Nil
  <2> DEFINE blocks == Flatten(input.document.policy.policy[1].check)
  <2>1. c \in SeenIn(blocks, policy[1].target, NomadAPMs)
    BY <1>1 DEF MonitoredAs
  <2> HIDE DEF blocks
  <2>2. \E l, q : IsSeenCheck(c, l, q, policy[1].target, NomadAPMs)
    BY <2>1, SeenInFacts
  <2> QED BY <2>2 DEF IsSeenCheck
<1> QED BY <1>2, <1>3

LEMMA PanicInit == Init => PanicExplained
BY DEF Init, PanicExplained

LEMMA PanicNext == ConfigInv /\ AgentInv /\ PanicExplained /\ [Next]_vars => PanicExplained'
<1> SUFFICES ASSUME ConfigInv, AgentInv, PanicExplained, [Next]_vars, stage' = "panic"
             PROVE  PanicExplained'
  BY DEF PanicExplained
<1>1. CASE readConfig
  <2>1. UNCHANGED <<input, policy>> /\ loadDir
    BY <1>1 DEF readConfig, LoadPath, Rejected, MergeFlags
  <2>2. /\ stage = "config" /\ current # Nil
        /\ path \in DOMAIN paths /\ read + 1 \in DOMAIN paths[path]
    BY <2>1 DEF loadDir
  <2>3. policy = Nil
    BY <2>2 DEF AgentInv, Monitored
  <2>4. paths = input.paths /\ read \in Nat /\ read # 0
    BY <2>2 DEF ConfigInv, AgentInv
  <2>5. Len(input.paths[path]) > 1
    <3>1. Len(paths[path]) \in Nat /\ DOMAIN paths[path] = 1 .. Len(paths[path])
      BY <2>2, <2>4, InputPaths DEF ConfigInv, IsSequence
    <3> QED BY <2>2, <2>4, <3>1, SMT
  <2> QED BY <2>1, <2>2, <2>3, <2>4, <2>5 DEF PanicExplained
<1>2. CASE ReadFilePolicy
  <2>1. UNCHANGED <<input, policy>> /\ stage = "policy" /\ input.document.source = "file"
        /\ input.document.policy.doc = Nil
    BY <1>2 DEF ReadFilePolicy
  <2>2. policy = Nil
    BY <2>1 DEF AgentInv, Monitored
  <2> QED BY <2>1, <2>2 DEF PanicExplained
<1>3. CASE updateHandler
  <2>1. UNCHANGED <<input, policy>> /\ stage = "monitor" /\ ~ (policy[1].interval > 0)
    BY <1>3 DEF updateHandler
  <2>2. policy # Nil
    BY <2>1 DEF AgentInv, Monitored
  <2>3. policy[1].interval \in Int \ {0}
    BY <2>2, HandledPolicy
  <2>4. policy[1].interval < 0
    BY <2>1, <2>3, SMT
  <2> QED BY <2>1, <2>2, <2>4 DEF PanicExplained
<1>4. CASE generateEvaluation
  <2>1. UNCHANGED <<input, policy>> /\ stage = "tick" /\ policy[1].target = Nil
    BY <1>4 DEF generateEvaluation
  <2>2. policy # Nil
    BY <2>1 DEF AgentInv, Monitored
  <2>3. input.document.source = "file"
    BY <2>1, <2>2, HandledPolicy, NomadPolicyWhole
  <2> QED BY <2>1, <2>2, <2>3 DEF PanicExplained
<1>5. CASE checkHandlerStart
  <2>1. /\ UNCHANGED <<input, policy>> /\ stage = "evaluate"
        /\ \E c \in policy[1].checks : c.strategy = Nil
    BY <1>5 DEF checkHandlerStart
  <2>2. policy # Nil
    BY <2>1 DEF AgentInv, Monitored
  <2>3. input.document.source = "file"
    BY <2>1, <2>2, HandledPolicy, NomadPolicyWhole
  <2> QED BY <2>1, <2>2, <2>3 DEF PanicExplained
<1>6. CASE UNCHANGED vars
  BY <1>6 DEF vars, PanicExplained
<1>7. CASE StartAgent \/ ReadNomadPolicy
  BY <1>7 DEF StartAgent, setupPluginsConfig, ReadNomadPolicy
<1>8. CASE ListingFails \/ ReadMetrics \/ Answer \/ Unanswered
  BY <1>8 DEF ListingFails, ReadMetrics, Answer, Unanswered
<1> QED BY <1>1, <1>2, <1>3, <1>4, <1>5, <1>6, <1>7, <1>8 DEF Next

\* Whatever operators write, the agent goes down only in the five ways that
\* PanicExplained names (loadDir, decodePolicyDoc, updateHandler,
\* generateEvaluation, checkHandlerStart).
THEOREM PanicsAreExplained == Spec => []PanicExplained
<1>1. Init /\ [][Next]_vars /\ []ConfigInv /\ []AgentInv => []PanicExplained
  BY PanicInit, PanicNext, PTL
<1> QED BY <1>1, ConfigurationBuilt, HandedOver, PTL DEF Spec

LEMMA AcceptedComplete == ConfigInv /\ AgentInv => AcceptedIsComplete
<1> SUFFICES ASSUME ConfigInv, AgentInv, policy # Nil, input.document.source = "nomad"
             PROVE  AcceptedIsComplete
  BY DEF AcceptedIsComplete
<1> DEFINE p == input.document.policy
           q == policy[1]
           blocks == Flatten(p.policy[1].check)
<1>1. validateScalingPolicy(p) /\ IsNomadPolicy(p) /\ MonitoredAs(p, q, NomadAPMs)
  BY HandledPolicy
<1>2. /\ q.min = p.min[1] /\ q.max = p.max[1] /\ q.interval # 0 /\ q.cooldown # 0
      /\ q.type = "horizontal" => q.target[1].name # ""
      /\ \A k \in DOMAIN q.target[1].config : q.target[1].config[k] \in Texts
      /\ \/ Given(p.policy[1].target) /\ DOMAIN Flatten(p.policy[1].target) = {}
         \/ DOMAIN p.target[1] \subseteq DOMAIN q.target[1].config
      /\ q.checks = SeenIn(blocks, q.target, NomadAPMs)
  BY <1>1 DEF MonitoredAs
<1>3. 0 <= q.min /\ q.min <= q.max
  BY <1>1, <1>2, AcceptedShape
<1>4. ASSUME NEW l \in ListBlocks(blocks), NEW c,
             IsSeenCheck(c, l, ParseString(blocks[l].body.query), q.target, NomadAPMs)
      PROVE  c.name = l /\ c.query # <<>> /\ c.query_window # 0 /\ c.source # <<>>
  <2> DEFINE written == ParseString(blocks[l].body.query)
  <2>1. l \in DOMAIN blocks
    BY DEF ListBlocks
  <2>2. p.policy # Nil /\ blocks[l].body.query.kind = "string" /\ blocks[l].body.query.val # <<>>
    BY <1>1, <2>1, AcceptedShape
  <2>3. IsCheck(blocks[l].body)
    BY <1>1, <2>1, <2>2, FlattenedChecks
  <2>4. written \in Texts /\ written # <<>>
    BY <2>2, <2>3 DEF IsCheck, ParseString
  <2>5. Expanded(written, q.target[1]) # <<>>
    <3> HIDE DEF written
    <3> QED BY <1>2, <2>4, ExpandedNotEmpty
  <2>6. /\ c.name = l /\ c.source # <<>> /\ c.query_window # 0
        /\ c.query = written \/ c.query = Expanded(written, q.target[1])
    BY <1>4 DEF IsSeenCheck
  <2> QED BY <2>4, <2>5, <2>6
<1>5. /\ \A c \in q.checks : \E l \in ListBlocks(blocks) :
           IsSeenCheck(c, l, ParseString(blocks[l].body.query), q.target, NomadAPMs)
      /\ \A l \in ListBlocks(blocks) : \E c \in q.checks :
           IsSeenCheck(c, l, ParseString(blocks[l].body.query), q.target, NomadAPMs)
  <2> HIDE DEF blocks, q
  <2>1. q.checks = SeenIn(blocks, q.target, NomadAPMs)
    BY <1>2
  <2> QED BY <2>1, SeenInFacts
<1>6. {c.name : c \in q.checks} = {l \in DOMAIN blocks : blocks[l].form = "list"}
  <2> HIDE DEF blocks, q
  <2>1. \A c \in q.checks : c.name \in ListBlocks(blocks)
    BY <1>5 DEF IsSeenCheck
  <2>2. \A l \in ListBlocks(blocks) : \E c \in q.checks : c.name = l
    BY <1>5 DEF IsSeenCheck
  <2> QED BY <2>1, <2>2 DEF ListBlocks
<1>7. ASSUME NEW c \in q.checks
      PROVE  c.query # <<>> /\ c.query_window # 0 /\ c.source # <<>>
  <2> HIDE DEF blocks, q
  <2>1. PICK l \in ListBlocks(blocks) :
               IsSeenCheck(c, l, ParseString(blocks[l].body.query), q.target, NomadAPMs)
    BY <1>5
  <2> QED BY <1>4, <2>1
<1> QED BY <1>2, <1>3, <1>6, <1>7 DEF AcceptedIsComplete, WrittenChecks

\* Every Nomad policy that validateScalingPolicy accepts is monitored whole:
\* parsePolicy and canonicalizePolicy lose none of it but what
\* AcceptedIsComplete names.
THEOREM AcceptedPoliciesComplete == Spec => []AcceptedIsComplete
BY ConfigurationBuilt, HandedOver, AcceptedComplete, PTL

-----------------------------------------------------------------------------
(* Texts *)

\* Sequences.
LEMMA Lengths ==
  ASSUME NEW S, NEW s \in Seq(S)
  PROVE  Len(s) \in Nat /\ s \in [1 .. Len(s) -> S] /\ DOMAIN s = 1 .. Len(s)
BY SMT

LEMMA EmptySequence ==
  ASSUME NEW S
  PROVE  <<>> \in Seq(S) /\ Len(<<>>) = 0 /\ \A s \in Seq(S) : s # <<>> => Len(s) \in Nat \ {0}
BY SMT

LEMMA Concatenated ==
  ASSUME NEW S, NEW s \in Seq(S), NEW t \in Seq(S)
  PROVE  /\ s \o t \in Seq(S) /\ Len(s \o t) = Len(s) + Len(t)
         /\ \A i \in 1 .. Len(s) + Len(t) :
              (s \o t)[i] = IF i <= Len(s) THEN s[i] ELSE t[i - Len(s)]
BY SMT

LEMMA SameSequence ==
  ASSUME NEW S, NEW s \in Seq(S), NEW t \in Seq(S), Len(s) = Len(t),
         \A i \in 1 .. Len(s) : s[i] = t[i]
  PROVE  s = t
BY SMT

LEMMA ConcatenatedThrice ==
  ASSUME NEW S, NEW s \in Seq(S), NEW t \in Seq(S), NEW u \in Seq(S)
  PROVE  (s \o t) \o u = s \o (t \o u)
BY SMT

LEMMA ConcatenatedEmpty ==
  ASSUME NEW S, NEW s \in Seq(S)
  PROVE  s \o <<>> = s /\ <<>> \o s = s
BY SMT

\* The words of the texts, with those that the code writes itself.
Words == STRING \cup {"taskgroup", "_", "/", ":"} \cup TaskGroupOps \cup TaskGroupMetrics

AllTexts == Seq(Words)

LEMMA TextsAreWords == Texts \subseteq AllTexts
<1>1. \A S, T : Seq(S) \subseteq Seq(S \cup T)
  BY SMT
<1>2. Words = STRING \cup ({"taskgroup", "_", "/", ":"} \cup TaskGroupOps \cup TaskGroupMetrics)
  BY DEF Words
<1> QED BY <1>1, <1>2 DEF Texts, AllTexts

LEMMA IndexOfFirst ==
  ASSUME NEW s \in AllTexts, NEW sep, NEW i \in 1 .. Len(s), s[i] = sep,
         \A j \in 1 .. (i - 1) : s[j] # sep
  PROVE  Index(s, sep) = i
<1> DEFINE I == {j \in 1 .. Len(s) : s[j] = sep}
<1>1. Index(s, sep) = IF I # {} THEN Min(I) ELSE 0
  BY DEF Index
<1>2. I # {} /\ I \in SUBSET Nat /\ i \in I
  <2>1. \A j \in 1 .. Len(s) : j \in Nat
    BY SMT
  <2> QED BY <2>1
<1>3. \A j \in I : i <= j
  <2> SUFFICES ASSUME NEW j \in 1 .. Len(s), s[j] = sep
               PROVE  i <= j
    OBVIOUS
  <2>1. ~ (j \in 1 .. (i - 1))
    OBVIOUS
  <2>2. Len(s) \in Nat
    BY Lengths DEF AllTexts
  <2> QED BY <2>1, <2>2, SMT
<1> HIDE DEF I
<1>4. Min(I) \in I /\ Min(I) <= i
  BY <1>2, MinOfNaturals
<1>5. Min(I) = i
  <2>1. i <= Min(I) /\ i \in Nat /\ Min(I) \in Nat
    BY <1>2, <1>3, <1>4
  <2> QED BY <1>4, <2>1, SMT
<1> QED BY <1>1, <1>2, <1>5

LEMMA OneWord ==
  ASSUME NEW w \in Words
  PROVE  <<w>> \in AllTexts /\ Len(<<w>>) = 1 /\ <<w>>[1] = w
<1>1. ASSUME NEW S, NEW x \in S
      PROVE  <<x>> \in Seq(S) /\ Len(<<x>>) = 1 /\ <<x>>[1] = x
  BY SMT
<1> QED BY <1>1 DEF AllTexts

\* A text is cut at the first separator.
LEMMA CutAt ==
  ASSUME NEW a \in AllTexts, NEW b \in AllTexts, NEW sep \in Words,
         \A i \in 1 .. Len(a) : a[i] # sep
  PROVE  /\ Index(a \o <<sep>> \o b, sep) # 0
         /\ Cut(a \o <<sep>> \o b, sep) = <<a, b>>
<1> DEFINE m == <<sep>>
           c == a \o m
           s == c \o b
           n == Len(a) + 1
<1>1. Len(a) \in Nat /\ Len(b) \in Nat
  BY Lengths DEF AllTexts
<1>2. m \in AllTexts
  BY OneWord
<1>3. Len(m) = 1 /\ m[1] = sep
  BY OneWord
<1> HIDE DEF m
<1>4. /\ c \in AllTexts /\ Len(c) = Len(a) + Len(m)
      /\ \A i \in 1 .. Len(a) + Len(m) : c[i] = IF i <= Len(a) THEN a[i] ELSE m[i - Len(a)]
  BY <1>2, Concatenated DEF AllTexts
<1> HIDE DEF c
<1>5. /\ s \in AllTexts /\ Len(s) = Len(c) + Len(b)
      /\ \A i \in 1 .. Len(c) + Len(b) : s[i] = IF i <= Len(c) THEN c[i] ELSE b[i - Len(c)]
  <2>1. c \in AllTexts
    BY <1>4
  <2> QED BY <2>1, Concatenated DEF AllTexts
<1> HIDE DEF s
<1>6. Len(c) = n /\ Len(s) = n + Len(b) /\ n \in Nat /\ n # 0 /\ n \in 1 .. Len(s)
  BY <1>1, <1>3, <1>4, <1>5, SMT
<1>7. s[n] = sep
  <2>1. s[n] = c[n] /\ c[n] = m[n - Len(a)] /\ n - Len(a) = 1
    BY <1>1, <1>3, <1>4, <1>5, <1>6, SMT
  <2> QED BY <1>3, <2>1
<1>8. ASSUME NEW j \in 1 .. Len(a)
      PROVE  s[j] = a[j]
  BY <1>1, <1>3, <1>4, <1>5, <1>6, SMT
<1>9. ASSUME NEW j \in 1 .. Len(b)
      PROVE  s[n + j] = b[j]
  <2>1. n + j \in 1 .. Len(c) + Len(b) /\ ~ (n + j <= Len(c)) /\ (n + j) - Len(c) = j
    BY <1>1, <1>6, SMT
  <2> QED BY <1>5, <2>1
<1>10. Index(s, sep) = n
  <2>1. n - 1 = Len(a)
    BY <1>1, SMT
  <2>2. \A j \in 1 .. (n - 1) : s[j] # sep
    BY <1>8, <2>1
  <2> HIDE DEF n
  <2> QED BY <1>5, <1>6, <1>7, <2>2, IndexOfFirst
<1>11. SubSeq(s, 1, n - 1) = a
  BY <1>1, <1>5, <1>6, <1>8, SMT DEF AllTexts
<1>12. SubSeq(s, n + 1, Len(s)) = b
  BY <1>1, <1>5, <1>6, <1>9, SMT DEF AllTexts
<1> HIDE DEF n
<1>13. Cut(s, sep) = <<a, b>>
  BY <1>6, <1>10, <1>11, <1>12 DEF Cut
<1> QED BY <1>6, <1>10, <1>13 DEF s, c, m

LEMMA ConcatTwo ==
  ASSUME NEW a, NEW b
  PROVE  <<a>> \o <<b>> = <<a, b>>
<1> DEFINE S == {a, b}
           x == <<a>>
           y == <<b>>
           z == <<a, b>>
<1>1. x \in Seq(S) /\ Len(x) = 1 /\ x[1] = a
  BY SMT
<1>2. y \in Seq(S) /\ Len(y) = 1 /\ y[1] = b
  BY SMT
<1>3. z \in Seq(S) /\ Len(z) = 2 /\ z[1] = a /\ z[2] = b
  BY SMT
<1> HIDE DEF S, x, y, z
<1>4. /\ x \o y \in Seq(S) /\ Len(x \o y) = 2
      /\ (x \o y)[1] = a /\ (x \o y)[2] = b
  <2>1. /\ x \o y \in Seq(S) /\ Len(x \o y) = Len(x) + Len(y)
        /\ \A i \in 1 .. Len(x) + Len(y) :
             (x \o y)[i] = IF i <= Len(x) THEN x[i] ELSE y[i - Len(x)]
    BY <1>1, <1>2, Concatenated, Zenon
  <2> DEFINE w == x \o y
  <2> HIDE DEF w
  <2>2. /\ w \in Seq(S) /\ Len(w) = Len(x) + Len(y)
        /\ \A i \in 1 .. Len(x) + Len(y) : w[i] = IF i <= Len(x) THEN x[i] ELSE y[i - Len(x)]
    BY <2>1 DEF w
  <2> QED BY <1>1, <1>2, <2>2, SMT DEF w
<1>5. x \o y = z
  <2> DEFINE w == x \o y
  <2>1. w \in Seq(S) /\ Len(w) = Len(z)
    BY <1>3, <1>4
  <2>2. \A i \in 1 .. Len(w) : w[i] = z[i]
    <3>1. Len(w) = 2 /\ w[1] = a /\ w[2] = b
      BY <1>4
    <3> HIDE DEF w
    <3> QED BY <1>3, <3>1, SMT
  <2> HIDE DEF w
  <2>3. w = z
    BY <1>3, <2>1, <2>2, SameSequence
  <2> QED BY <2>3 DEF w
<1> QED BY <1>5 DEF x, y, z

LEMMA ConcatThree ==
  ASSUME NEW a, NEW b, NEW c
  PROVE  <<a>> \o <<b, c>> = <<a, b, c>>
<1> DEFINE S == {a, b, c}
           x == <<a>>
           y == <<b, c>>
           z == <<a, b, c>>
<1>1. x \in Seq(S) /\ Len(x) = 1 /\ x[1] = a
  BY SMT
<1>2. y \in Seq(S) /\ Len(y) = 2 /\ y[1] = b /\ y[2] = c
  BY SMT
<1>3. z \in Seq(S) /\ Len(z) = 3 /\ z[1] = a /\ z[2] = b /\ z[3] = c
  BY SMT
<1> HIDE DEF S, x, y, z
<1>4. /\ x \o y \in Seq(S) /\ Len(x \o y) = 3
      /\ (x \o y)[1] = a /\ (x \o y)[2] = b /\ (x \o y)[3] = c
  <2>1. /\ x \o y \in Seq(S) /\ Len(x \o y) = Len(x) + Len(y)
        /\ \A i \in 1 .. Len(x) + Len(y) :
             (x \o y)[i] = IF i <= Len(x) THEN x[i] ELSE y[i - Len(x)]
    BY <1>1, <1>2, Concatenated, Zenon
  <2> DEFINE w == x \o y
  <2> HIDE DEF w
  <2>2. /\ w \in Seq(S) /\ Len(w) = Len(x) + Len(y)
        /\ \A i \in 1 .. Len(x) + Len(y) : w[i] = IF i <= Len(x) THEN x[i] ELSE y[i - Len(x)]
    BY <2>1 DEF w
  <2> QED BY <1>1, <1>2, <2>2, SMT DEF w
<1>5. x \o y = z
  <2> DEFINE w == x \o y
  <2>1. w \in Seq(S) /\ Len(w) = Len(z)
    BY <1>3, <1>4
  <2>2. \A i \in 1 .. Len(w) : w[i] = z[i]
    <3>1. Len(w) = 3 /\ w[1] = a /\ w[2] = b /\ w[3] = c
      BY <1>4
    <3> HIDE DEF w
    <3> QED BY <1>3, <3>1, SMT
  <2> HIDE DEF w
  <2>3. w = z
    BY <1>3, <2>1, <2>2, SameSequence
  <2> QED BY <2>3 DEF w
<1> QED BY <1>5 DEF x, y, z

LEMMA ConcatOneByOne ==
  ASSUME NEW a, NEW b, NEW c
  PROVE  (<<a>> \o <<b>>) \o <<c>> = <<a, b, c>>
<1>1. <<a, b, c>> = <<a, b>> \o <<c>>
  BY SMT
<1> QED BY <1>1, ConcatTwo

LEMMA ConcatTexts ==
  ASSUME NEW x \in AllTexts, NEW y \in AllTexts
  PROVE  x \o y \in AllTexts
BY Concatenated DEF AllTexts

Associate(x, y, z) == (x \o y) \o z = x \o (y \o z)

LEMMA TextsAssociate ==
  ASSUME NEW x \in AllTexts, NEW y \in AllTexts, NEW z \in AllTexts
  PROVE  Associate(x, y, z)
<1>1. x \in Seq(Words) /\ y \in Seq(Words) /\ z \in Seq(Words)
  BY DEF AllTexts
<1> QED BY <1>1, ConcatenatedThrice, SMT DEF Associate

\* The separator is none of the words of the text.
Free(s, sep) == \A i \in 1 .. Len(s) : s[i] # sep

LEMMA FreeConcat ==
  ASSUME NEW x \in AllTexts, NEW y \in AllTexts, NEW sep, Free(x, sep), Free(y, sep)
  PROVE  Free(x \o y, sep)
<1> DEFINE w == x \o y
<1>1. /\ Len(w) = Len(x) + Len(y)
      /\ \A i \in 1 .. Len(x) + Len(y) : w[i] = IF i <= Len(x) THEN x[i] ELSE y[i - Len(x)]
  BY Concatenated DEF AllTexts
<1>2. Len(x) \in Nat /\ Len(y) \in Nat
  BY Lengths DEF AllTexts
<1> HIDE DEF w
<1> SUFFICES ASSUME NEW i \in 1 .. Len(w)
             PROVE  w[i] # sep
  BY DEF Free, w
<1>3. CASE i <= Len(x)
  <2>1. i \in 1 .. Len(x) /\ w[i] = x[i]
    BY <1>1, <1>2, <1>3, SMT
  <2> QED BY <2>1 DEF Free
<1>4. CASE ~ (i <= Len(x))
  <2>1. i - Len(x) \in 1 .. Len(y) /\ w[i] = y[i - Len(x)]
    BY <1>1, <1>2, <1>4, SMT
  <2> QED BY <2>1 DEF Free
<1> QED BY <1>3, <1>4

LEMMA FreeWord ==
  ASSUME NEW w \in Words, NEW sep, w # sep
  PROVE  Free(<<w>>, sep)
<1>1. Len(<<w>>) = 1 /\ <<w>>[1] = w
  BY OneWord
<1>2. 1 .. 1 = {1}
  BY SMT
<1> QED BY <1>1, <1>2 DEF Free

\* What SplitN makes of a text with one or two separators.
LEMMA SplitInTwo ==
  ASSUME NEW a \in AllTexts, NEW b \in AllTexts, NEW sep \in Words, Free(a, sep)
  PROVE  SplitN((a \o <<sep>>) \o b, sep, 2) = <<a, b>>
BY CutAt DEF SplitN, Free

LEMMA SplitInThree ==
  ASSUME NEW a \in AllTexts, NEW b \in AllTexts, NEW c \in AllTexts, NEW sep \in Words,
         Free(a, sep), Free(b, sep)
  PROVE  SplitN((a \o <<sep>>) \o ((b \o <<sep>>) \o c), sep, 3) = <<a, b, c>>
<1> DEFINE r == (b \o <<sep>>) \o c
           s == (a \o <<sep>>) \o r
<1>1. r \in AllTexts
  <2>1. <<sep>> \in AllTexts
    BY OneWord
  <2>2. b \o <<sep>> \in AllTexts
    BY <2>1, ConcatTexts
  <2> QED BY <2>2, ConcatTexts
<1>2. Cut(r, sep) = <<b, c>>
  BY CutAt DEF Free
<1> HIDE DEF r
<1>3. Index(s, sep) # 0 /\ Cut(s, sep) = <<a, r>>
  BY <1>1, CutAt DEF Free
<1> HIDE DEF s
<1>4. SplitN(s, sep, 3) = <<Cut(s, sep)[1]>> \o Cut(Cut(s, sep)[2], sep)
  <2>1. 3 # 2
    BY SMT
  <2> QED BY <1>3, <2>1 DEF SplitN
<1>5. Cut(s, sep)[1] = a /\ Cut(s, sep)[2] = r
  BY <1>3, SMT
<1>6. SplitN(s, sep, 3) = <<a>> \o <<b, c>>
  BY <1>2, <1>4, <1>5
<1>7. SplitN(s, sep, 3) = <<a, b, c>>
  BY <1>6, ConcatThree
<1> QED BY <1>7 DEF s, r

\* How a query splits whose type is k, whose operation is o and whose metric is
\* m, for the group G and the job J; us and sl are the two separators.
SplitsAs(k, us, sl, o, m, G, J) ==
  LET q == <<o, us, m>>
      e == <<k, us>> \o q \o <<sl>> \o G \o <<sl>> \o J
  IN  /\ SplitN(e, us, 2)[1] = <<k>>
      /\ SplitN(e, sl, 3) = <<<<k, us>> \o q, G, J>>
      /\ SplitN(<<k, us>> \o q, us, 3) = <<<<k>>, <<o>>, <<m>>>>
      /\ SplitN(q, us, 2) = <<<<o>>, <<m>>>>
      /\ Free(q, sl)

LEMMA ExpandedSplits ==
  ASSUME NEW k \in Words, NEW us \in Words, NEW sl \in Words, NEW o \in Words,
         NEW m \in Words, NEW G \in AllTexts, NEW J \in AllTexts,
         k # us, k # sl, us # sl, o # us, o # sl, m # sl, Free(G, sl)
  PROVE  SplitsAs(k, us, sl, o, m, G, J)
<1> DEFINE K == <<k>>
           U == <<us>>
           S == <<sl>>
           O == <<o>>
           M == <<m>>
           q == (O \o U) \o M
           H == (K \o U) \o q
           R == (G \o S) \o J
<1>1. K \in AllTexts /\ U \in AllTexts /\ S \in AllTexts /\ O \in AllTexts /\ M \in AllTexts
  BY OneWord
<1>2. /\ Free(K, us) /\ Free(K, sl) /\ Free(U, sl) /\ Free(O, us) /\ Free(O, sl)
      /\ Free(M, sl)
  BY FreeWord
<1>3. q = <<o, us, m>> /\ K \o U = <<k, us>>
  BY ConcatOneByOne, ConcatTwo
<1>4. SplitN((O \o U) \o M, us, 2) = <<O, M>>
  BY <1>1, <1>2, SplitInTwo
<1> HIDE DEF K, U, S, O, M
<1>5. SplitN((K \o U) \o ((O \o U) \o M), us, 3) = <<K, O, M>>
  BY <1>1, <1>2, SplitInThree DEF U
<1>6. q \in AllTexts /\ Free(q, sl)
  BY <1>1, <1>2, ConcatTexts, FreeConcat
<1>7. SplitN(q, us, 2) = <<O, M>> /\ SplitN(H, us, 3) = <<K, O, M>>
  BY <1>4, <1>5
<1> HIDE DEF q
<1>8. K \o U \in AllTexts /\ Free(K \o U, sl)
  BY <1>1, <1>2, ConcatTexts, FreeConcat
<1>9. H \in AllTexts /\ Free(H, sl)
  BY <1>6, <1>8, ConcatTexts, FreeConcat
<1>10. G \o S \in AllTexts /\ q \o S \in AllTexts
  BY <1>1, <1>6, ConcatTexts
<1>11. R \in AllTexts
  BY <1>10, ConcatTexts
<1>12. H \o S \in AllTexts
  BY <1>1, <1>9, ConcatTexts
<1>13. (((H \o S) \o G) \o S) \o J = (H \o S) \o R
  <2>1. ((H \o S) \o G) \o S = (H \o S) \o (G \o S)
    <3> DEFINE A == H \o S
    <3>1. A \in AllTexts
      BY <1>12
    <3> HIDE DEF A
    <3>2. Associate(A, G, S)
      BY <1>1, <3>1, TextsAssociate
    <3> QED BY <3>2 DEF A, Associate
  <2>2. Associate(H \o S, G \o S, J)
    BY <1>10, <1>12, TextsAssociate
  <2> QED BY <2>1, <2>2 DEF Associate
<1>14. SplitN((H \o S) \o ((G \o S) \o J), sl, 3) = <<H, G, J>>
  BY <1>2, <1>9, SplitInThree DEF S
<1>15. (H \o S) \o R = (K \o U) \o ((q \o S) \o R)
  <2>1. ((K \o U) \o q) \o S = (K \o U) \o (q \o S)
    <3> DEFINE A == K \o U
    <3>1. A \in AllTexts
      BY <1>8
    <3> HIDE DEF A
    <3>2. Associate(A, q, S)
      BY <1>1, <1>6, <3>1, TextsAssociate
    <3> QED BY <3>2 DEF A, Associate
  <2>2. ((K \o U) \o (q \o S)) \o R = (K \o U) \o ((q \o S) \o R)
    <3> DEFINE A == K \o U
               B == q \o S
    <3>1. A \in AllTexts /\ B \in AllTexts
      BY <1>8, <1>10
    <3> HIDE DEF A, B, R
    <3>2. Associate(A, B, R)
      BY <1>11, <3>1, TextsAssociate
    <3> QED BY <3>2 DEF A, B, Associate
  <2> QED BY <2>1, <2>2
<1>16. (q \o S) \o R \in AllTexts
  BY <1>10, <1>11, ConcatTexts
<1>17. SplitN((K \o U) \o ((q \o S) \o R), us, 2) = <<K, (q \o S) \o R>>
  BY <1>1, <1>2, <1>16, SplitInTwo DEF U
<1> DEFINE E == (((H \o S) \o G) \o S) \o J
<1>18. SplitN(E, us, 2)[1] = K
  <2> DEFINE T == (q \o S) \o R
  <2>1. SplitN(E, us, 2) = <<K, T>>
    BY <1>13, <1>15, <1>17
  <2> HIDE DEF T, E
  <2>2. \A y, z : <<y, z>>[1] = y
    BY SMT
  <2> QED BY <2>1, <2>2
<1>19. SplitN(E, sl, 3) = <<H, G, J>>
  BY <1>13, <1>14
<1>20. H = <<k, us>> \o q /\ E = ((((<<k, us>> \o q) \o <<sl>>) \o G) \o <<sl>>) \o J
  BY <1>3 DEF S
<1> HIDE DEF E, H
<1> QED BY <1>3, <1>6, <1>7, <1>18, <1>19, <1>20 DEF K, O, M, SplitsAs

IsTriple(s, a, b, c) == s = <<a, b, c>>

LEMMA Triples ==
  ASSUME NEW a, NEW b, NEW c, NEW s, IsTriple(s, a, b, c)
  PROVE  Len(s) = 3 /\ s[1] = a /\ s[2] = b /\ s[3] = c
BY SMT DEF IsTriple

IsBetween(s, a, c) == s[1] = a /\ s[3] = c

LEMMA Ends ==
  ASSUME NEW a, NEW b, NEW c, NEW s, IsTriple(s, a, b, c)
  PROVE  IsBetween(s, a, c)
BY Triples, SMT DEF IsBetween

LEMMA Separators ==
  /\ "taskgroup" \in Words /\ "_" \in Words /\ "/" \in Words
  /\ "taskgroup" # "_" /\ "taskgroup" # "/" /\ "_" # "/"
BY DEF Words

LEMMA QueryWords ==
  /\ \A op \in TaskGroupOps : op \in Words /\ op # "_" /\ op # "/"
  /\ \A m \in TaskGroupMetrics : m \in Words /\ m # "_" /\ m # "/"
<1>1. \A op \in TaskGroupOps : op # "_" /\ op # "/"
  BY DEF TaskGroupOps
<1>2. \A m \in TaskGroupMetrics : m # "_" /\ m # "/"
  BY DEF TaskGroupMetrics
<1> QED BY <1>1, <1>2 DEF Words

LEMMA ShortQueryWords ==
  ASSUME NEW q \in ShortQueries
  PROVE  \E op \in TaskGroupOps, m \in TaskGroupMetrics : IsTriple(q, op, "_", m)
BY DEF ShortQueries, IsTriple

\* The Nomad APM reads a short query back from the long one that the target
\* makes of it.
LEMMA ShortQueryRead ==
  ASSUME NEW op \in TaskGroupOps, NEW m \in TaskGroupMetrics, NEW t, IsJobTaskGroupTarget(t),
         t.config["Group"] \in Texts, t.config["Job"] \in Texts,
         ~ Contains(t.config["Group"], "/")
  PROVE  /\ isShortQuery(<<op, "_", m>>)
         /\ Query(Expanded(<<op, "_", m>>, t)) =
              Ptr([kind |-> "taskgroup", op |-> op, metric |-> m,
                   group |-> t.config["Group"], job |-> t.config["Job"]])
<1> DEFINE q == <<op, "_", m>>
           G == t.config["Group"]
           J == t.config["Job"]
           H == <<"taskgroup", "_">> \o q
           e == <<"taskgroup", "_">> \o q \o <<"/">> \o G \o <<"/">> \o J
<1>1. /\ op \in Words /\ op # "_" /\ op # "/"
      /\ m \in Words /\ m # "/"
  BY QueryWords
<1>2. Free(G, "/")
  BY DEF Free, Contains
<1>4. SplitsAs("taskgroup", "_", "/", op, m, G, J)
  <2> HIDE DEF G, J
  <2>1. G \in AllTexts /\ J \in AllTexts
    BY TextsAreWords DEF G, J
  <2> QED BY <1>1, <1>2, <2>1, Separators, ExpandedSplits
<1>5. /\ SplitN(e, "_", 2)[1] = <<"taskgroup">>
      /\ SplitN(e, "/", 3) = <<H, G, J>>
      /\ SplitN(H, "_", 3) = <<<<"taskgroup">>, <<op>>, <<m>>>>
      /\ SplitN(q, "_", 2) = <<<<op>>, <<m>>>>
      /\ Free(q, "/")
  BY <1>4 DEF SplitsAs
<1>6. \A a, b : Len(<<a, b>>) = 2
  BY SMT
<1>7. IsTriple(SplitN(e, "/", 3), H, G, J)
  BY <1>5 DEF IsTriple
<1>8. isShortQuery(q)
  <2> HIDE DEF q
  <2> QED BY <1>5, <1>6 DEF isShortQuery, Contains, Free
<1>9. Expanded(q, t) = e
  BY DEF Expanded
<1> HIDE DEF e, H, G, J, q
<1>10. Query(e) = parseTaskGroupQuery(e)
  <2>1. <<"taskgroup">> # <<"node">>
    BY SMT
  <2> QED BY <1>5, <2>1 DEF Query, QueryTypeTaskGroup, QueryTypeNode
<1>11. OpMetric(e) = <<<<"taskgroup">>, <<op>>, <<m>>>>
  <2>1. SplitN(e, "/", 3)[1] = H
    BY <1>7, Triples, SMT
  <2> QED BY <1>5, <2>1 DEF OpMetric
<1>12. Len(SplitN(e, "/", 3)) = 3 /\ SplitN(e, "/", 3)[2] = G /\ SplitN(e, "/", 3)[3] = J
  BY <1>7, Triples, SMT
<1>13. Len(OpMetric(e)) = 3 /\ OpMetric(e)[2] = <<op>> /\ OpMetric(e)[3] = <<m>>
  <2>1. IsTriple(OpMetric(e), <<"taskgroup">>, <<op>>, <<m>>)
    BY <1>11 DEF IsTriple
  <2> QED BY <2>1, Triples, SMT
<1>14. <<op>>[1] = op /\ <<m>>[1] = m
  BY SMT
<1>15. parseTaskGroupQuery(e) = Ptr([kind |-> "taskgroup", op |-> op, metric |-> m,
                                     group |-> G, job |-> J])
  BY <1>12, <1>13, <1>14 DEF parseTaskGroupQuery, QueryTypeTaskGroup
<1> QED BY <1>8, <1>9, <1>10, <1>15 DEF q, G, J

LEMMA ShortQueriesRead == ConfigInv /\ AgentInv => ShortQueryUnderstood
<1> DEFINE p == input.document.policy
           target == policy[1].target
           blocks == Flatten(p.policy[1].check)
           written(c) == blocks[c.name].body.query.val
<1> SUFFICES ASSUME ConfigInv, AgentInv, policy # Nil, input.document.source = "nomad",
                    NEW c \in policy[1].checks, c.source \in NomadAPMs,
                    IsJobTaskGroupTarget(target[1]),
                    ~ Contains(target[1].config["Group"], "/"),
                    written(c) \in ShortQueries
             PROVE  Query(c.query) =
                      Ptr([kind |-> "taskgroup", op |-> written(c)[1],
                           metric |-> written(c)[3], group |-> target[1].config["Group"],
                           job |-> target[1].config["Job"]])
  BY DEF ShortQueryUnderstood, WrittenChecks
<1>0. PICK op \in TaskGroupOps, m \in TaskGroupMetrics : IsTriple(written(c), op, "_", m)
  BY ShortQueryWords
<1>1. validateScalingPolicy(p) /\ IsNomadPolicy(p) /\ MonitoredAs(p, policy[1], NomadAPMs)
  BY HandledPolicy
<1>2. /\ target # Nil /\ \A k \in DOMAIN target[1].config : target[1].config[k] \in Texts
      /\ policy[1].checks = SeenIn(blocks, target, NomadAPMs)
  BY <1>1 DEF MonitoredAs
<1>3. target[1].config["Group"] \in Texts /\ target[1].config["Job"] \in Texts
  BY <1>2 DEF IsJobTaskGroupTarget
<1>4. PICK l \in ListBlocks(blocks) :
        IsSeenCheck(c, l, ParseString(blocks[l].body.query), target, NomadAPMs)
  <2> HIDE DEF blocks, target
  <2>1. c \in SeenIn(blocks, target, NomadAPMs)
    BY <1>2
  <2> QED BY <2>1, SeenInFacts
<1>5. blocks[l].body.query.kind = "string" /\ c.name = l
  <2>1. l \in DOMAIN blocks
    BY DEF ListBlocks
  <2> QED BY <1>1, <1>4, <2>1, AcceptedShape DEF IsSeenCheck
<1>6. ParseString(blocks[l].body.query) = <<op, "_", m>>
  BY <1>0, <1>5 DEF ParseString, IsTriple
<1>7. /\ isShortQuery(<<op, "_", m>>)
      /\ Query(Expanded(<<op, "_", m>>, target[1])) =
           Ptr([kind |-> "taskgroup", op |-> op, metric |-> m,
                group |-> target[1].config["Group"], job |-> target[1].config["Job"]])
  <2> HIDE DEF target
  <2> QED BY <1>3, ShortQueryRead
<1>8. c.query = Expanded(<<op, "_", m>>, target[1])
  <2> HIDE DEF blocks, target
  <2> QED BY <1>2, <1>4, <1>6, <1>7 DEF IsSeenCheck
<1>9. written(c)[1] = op /\ written(c)[3] = m
  <2>1. IsBetween(written(c), op, m)
    BY <1>0, Ends
  <2> QED BY <2>1 DEF IsBetween
<1> QED BY <1>7, <1>8, <1>9

\* The Nomad APM reads every short query as its policy meant it, for all names
\* of jobs and groups (CanonicalizeAPMQuery, parseTaskGroupQuery).
THEOREM ShortQueriesUnderstood == Spec => []ShortQueryUnderstood
BY ConfigurationBuilt, HandedOver, ShortQueriesRead, PTL

-----------------------------------------------------------------------------
(* The settings of the Nomad client, through the plugins' maps *)

\* A configuration of the Nomad client as the agent makes it.
IsClient(A) ==
  /\ DOMAIN A.strings \subseteq Strings
  /\ \A f \in DOMAIN A.strings : A.strings[f] # <<>>
  /\ A.insecure \in BOOLEAN
  /\ A.auth # Nil => \E u, pw \in Texts : /\ A.auth = Ptr([username |-> u, password |-> pw])
                                          /\ Free(u, ":")

\* The keys of m that the client A fills.
FilledStrings(m, A) == {k \in DOMAIN A.strings : Missing(m, k)}

FilledFlag(m, A) == {k \in {"skip_verify"} : A.insecure /\ Missing(m, k)}

FilledAuth(m, A) == {k \in {"http_auth"} : A.auth # Nil /\ Missing(m, k)}

\* They are distinct keys.
LEMMA FilledApart ==
  ASSUME NEW m, NEW A, IsClient(A)
  PROVE  \A k : /\ k \in FilledStrings(m, A) => k \notin FilledFlag(m, A) \cup FilledAuth(m, A)
                /\ k \in FilledFlag(m, A) => k \notin FilledAuth(m, A)
<1>1. "skip_verify" \notin Strings /\ "http_auth" \notin Strings
  BY DEF Strings
<1>2. "skip_verify" # "http_auth"
  OBVIOUS
<1> QED BY <1>1, <1>2 DEF IsClient, FilledStrings, FilledFlag, FilledAuth

IsMerged(r, m, A) ==
  /\ DOMAIN r = FilledStrings(m, A) \cup FilledFlag(m, A) \cup FilledAuth(m, A) \cup DOMAIN m
  /\ \A k \in FilledStrings(m, A) : r[k] = A.strings[k]
  /\ \A k \in FilledFlag(m, A) : r[k] = True
  /\ \A k \in FilledAuth(m, A) : r[k] = FormatAuth(A.auth[1])
  /\ \A k \in DOMAIN m : ~ Missing(m, k) => r[k] = m[k]
  /\ \A k \in DOMAIN r \ (FilledStrings(m, A) \cup FilledFlag(m, A) \cup FilledAuth(m, A)) :
       r[k] = m[k]

LEMMA MergedMap ==
  ASSUME NEW m, NEW A, IsClient(A)
  PROVE  IsMerged(MergeMapWithAgentConfig(m, A), m, A)
<1> DEFINE S == FilledStrings(m, A)
           F == FilledFlag(m, A)
           H == FilledAuth(m, A)
           r == MergeMapWithAgentConfig(m, A)
           auth == FormatAuth(A.auth[1])
           g == [k \in S \cup F \cup H \cup DOMAIN m |->
                   CASE k \in S -> A.strings[k]
                     [] k \in F -> True
                     [] k \in H -> auth
                     [] OTHER   -> m[k]]
<1>1. r = g
  BY DEF MergeMapWithAgentConfig, FilledStrings, FilledFlag, FilledAuth
<1>2. \A k : k \in S => k \notin F /\ k \notin H
  BY FilledApart
<1>3. \A k : k \in F => k \notin H
  BY FilledApart
<1>4. \A k : k \in S \/ k \in F \/ k \in H => Missing(m, k)
  BY DEF FilledStrings, FilledFlag, FilledAuth
<1> HIDE DEF S, F, H, auth, r
<1>5. DOMAIN r = S \cup F \cup H \cup DOMAIN m
  BY <1>1
<1>6. \A k \in S : r[k] = A.strings[k]
  BY <1>1, <1>2
<1>7. \A k \in F : r[k] = True
  BY <1>1, <1>2, <1>3
<1>8. \A k \in H : r[k] = auth
  BY <1>1, <1>2, <1>3
<1>9. \A k \in DOMAIN r \ (S \cup F \cup H) : r[k] = m[k]
  BY <1>1
<1>10. \A k \in DOMAIN m : ~ Missing(m, k) => r[k] = m[k]
  BY <1>4, <1>5, <1>9
<1> QED BY <1>5, <1>6, <1>7, <1>8, <1>9, <1>10 DEF S, F, H, auth, r, IsMerged

LEMMA NoSeparator ==
  ASSUME NEW s \in AllTexts, NEW sep, Free(s, sep)
  PROVE  Index(s, sep) = 0
<1> DEFINE I == {j \in 1 .. Len(s) : s[j] = sep}
<1>1. Index(s, sep) = IF I # {} THEN Min(I) ELSE 0
  BY DEF Index
<1>2. I = {}
  BY DEF Free
<1> QED BY <1>1, <1>2

\* The password of an HTTP authentication, from the parts of its text.
SecondPart(split) == IF Len(split) = 2 THEN split[2] ELSE <<>>

LEMMA AuthParts ==
  ASSUME NEW u, NEW pw
  PROVE  /\ <<u>>[1] = u /\ SecondPart(<<u>>) = <<>>
         /\ <<u, pw>>[1] = u /\ SecondPart(<<u, pw>>) = pw
BY SMT DEF SecondPart

\* A user name and a password survive the text form, unless both are empty.
LEMMA AuthRoundTrip ==
  ASSUME NEW u \in Texts, NEW pw \in Texts, Free(u, ":"), NEW a,
         a = [username |-> u, password |-> pw]
  PROVE  HTTPAuthFromString(FormatAuth(a)) = IF a = EmptyAuth THEN Nil ELSE Ptr(a)
<1>1. u \in AllTexts /\ pw \in AllTexts /\ ":" \in Words
  BY TextsAreWords DEF Words
<1>2. <<":">> \in AllTexts
  BY <1>1, OneWord
<1>3. a.username = u /\ a.password = pw
  OBVIOUS
<1>4. a = EmptyAuth <=> u = <<>> /\ pw = <<>>
  BY DEF EmptyAuth
<1> DEFINE parsed(t) == Ptr([username |-> SplitN(t, ":", 2)[1],
                           password |-> SecondPart(SplitN(t, ":", 2))])
<1>5. \A t : HTTPAuthFromString(t) = IF t = <<>> THEN Nil ELSE parsed(t)
  BY DEF HTTPAuthFromString, SecondPart
<1>6. CASE pw = <<>>
  <2>1. FormatAuth(a) = u \o <<>>
    BY <1>3, <1>6 DEF FormatAuth
  <2>2. u \o <<>> = u
    BY <1>1, ConcatenatedEmpty DEF AllTexts
  <2>3. Index(u, ":") = 0
    BY <1>1, NoSeparator
  <2>4. SplitN(u, ":", 2) = <<u>>
    BY <2>3 DEF SplitN, Cut
  <2>5. parsed(u) = Ptr([username |-> u, password |-> <<>>])
    BY <2>4, AuthParts
  <2> HIDE DEF parsed
  <2> QED BY <1>4, <1>5, <1>6, <2>1, <2>2, <2>5
<1>7. CASE pw # <<>>
  <2> DEFINE t == (u \o <<":">>) \o pw
  <2>1. FormatAuth(a) = u \o (<<":">> \o pw)
    BY <1>3, <1>7 DEF FormatAuth
  <2>2. FormatAuth(a) = t
    <3> DEFINE c == <<":">>
    <3>1. c \in AllTexts
      BY <1>2
    <3> HIDE DEF c
    <3>2. Associate(u, c, pw)
      BY <1>1, <3>1, TextsAssociate
    <3> QED BY <2>1, <3>2 DEF c, Associate
  <2>3. SplitN(t, ":", 2) = <<u, pw>>
    BY <1>1, SplitInTwo
  <2>4. t # <<>>
    <3>1. u \o <<":">> \in AllTexts
      BY <1>1, <1>2, ConcatTexts
    <3> DEFINE c == u \o <<":">>
    <3> HIDE DEF c
    <3>2. Len(c \o pw) = Len(c) + Len(pw)
      BY <1>1, <3>1, Concatenated DEF AllTexts, c
    <3>3. Len(pw) # 0 /\ Len(pw) \in Nat /\ Len(c) \in Nat
      BY <1>1, <1>7, <3>1, EmptySequence, Lengths DEF AllTexts, c
    <3>4. Len(c \o pw) # 0
      BY <3>2, <3>3, SMT
    <3>5. Len(<<>>) = 0
      BY SMT
    <3> QED BY <3>4, <3>5 DEF c
  <2>5. parsed(t) = Ptr([username |-> u, password |-> pw])
    <3> HIDE DEF t
    <3> QED BY <2>3, AuthParts
  <2> HIDE DEF parsed, t
  <2> QED BY <1>4, <1>5, <1>7, <2>2, <2>4, <2>5
<1> QED BY <1>6, <1>7

Inherits(own) ==
  ConfigKeyNomadConfigInherit \in DOMAIN own => own[ConfigKeyNomadConfigInherit] = True

\* What the plugin of the configuration own reads from the map m, when A is the
\* client of the agent.
StringsReadBack(own, A, m) ==
  \A f \in Strings :
    /\ ~ Missing(own, f) => ~ Missing(m, f) /\ m[f] = own[f]
    /\ Missing(own, f) /\ Inherits(own) /\ f \in DOMAIN A.strings =>
         ~ Missing(m, f) /\ m[f] = A.strings[f]
    /\ Missing(own, f) /\ ~ (Inherits(own) /\ f \in DOMAIN A.strings) => Missing(m, f)

FlagReadBack(own, A, m) ==
  ("skip_verify" \in DOMAIN m /\ m["skip_verify"] = True) =
    IF ~ Missing(own, "skip_verify") THEN own["skip_verify"] = True
                                     ELSE Inherits(own) /\ A.insecure

AuthReadBack(own, A, m) ==
  (IF "http_auth" \in DOMAIN m THEN HTTPAuthFromString(m["http_auth"]) ELSE Nil) =
    IF ~ Missing(own, "http_auth") THEN HTTPAuthFromString(own["http_auth"])
    ELSE IF Inherits(own) /\ A.auth # Ptr(EmptyAuth) THEN A.auth ELSE Nil

LEMMA StringsKept ==
  ASSUME NEW own, NEW A, IsClient(A), NEW m, m = setupPluginConfig(own, A)
  PROVE  StringsReadBack(own, A, m)
<1>1. CASE ~ Inherits(own)
  <2>1. m = own
    BY <1>1 DEF Inherits, setupPluginConfig
  <2> QED BY <1>1, <2>1 DEF StringsReadBack
<1>2. CASE Inherits(own)
  <2>0. m = MergeMapWithAgentConfig(own, A)
    BY <1>2 DEF Inherits, setupPluginConfig
  <2>1. IsMerged(m, own, A)
    BY <2>0, MergedMap
  <2> SUFFICES ASSUME NEW f \in Strings
               PROVE  /\ ~ Missing(own, f) => ~ Missing(m, f) /\ m[f] = own[f]
                      /\ Missing(own, f) /\ f \in DOMAIN A.strings =>
                           ~ Missing(m, f) /\ m[f] = A.strings[f]
                      /\ Missing(own, f) /\ f \notin DOMAIN A.strings => Missing(m, f)
    BY <1>2 DEF StringsReadBack
  <2>2. f \notin FilledFlag(own, A) /\ f \notin FilledAuth(own, A)
    BY DEF Strings, FilledFlag, FilledAuth
  <2>3. CASE ~ Missing(own, f)
    <3>1. f \in DOMAIN own /\ own[f] # <<>>
      BY <2>3 DEF Missing
    <3>2. f \in DOMAIN m /\ m[f] = own[f]
      BY <2>1, <2>3, <3>1 DEF IsMerged
    <3> QED BY <2>3, <3>1, <3>2 DEF Missing
  <2>4. CASE Missing(own, f) /\ f \in DOMAIN A.strings
    <3>1. f \in FilledStrings(own, A)
      BY <2>4 DEF FilledStrings
    <3>2. f \in DOMAIN m /\ m[f] = A.strings[f]
      BY <2>1, <3>1 DEF IsMerged
    <3>3. A.strings[f] # <<>>
      BY <2>4 DEF IsClient
    <3> QED BY <2>4, <3>2, <3>3 DEF Missing
  <2>5. CASE Missing(own, f) /\ f \notin DOMAIN A.strings
    <3>1. f \notin FilledStrings(own, A)
      BY <2>5 DEF FilledStrings
    <3>2. f \in DOMAIN m => f \in DOMAIN own /\ m[f] = own[f]
      BY <2>1, <2>2, <3>1 DEF IsMerged
    <3> QED BY <2>5, <3>2 DEF Missing
  <2> QED BY <2>3, <2>4, <2>5
<1> QED BY <1>1, <1>2

LEMMA TrueNotEmpty == True # <<>>
<1>1. \A x : <<x>> # <<>>
  BY SMT
<1> QED BY <1>1 DEF True

LEMMA FlagKept ==
  ASSUME NEW own, NEW A, IsClient(A), NEW m, m = setupPluginConfig(own, A)
  PROVE  FlagReadBack(own, A, m)
<1> DEFINE f == "skip_verify"
<1>0. A.insecure \in BOOLEAN
  BY DEF IsClient
<1>1. CASE ~ Inherits(own)
  <2>1. m = own
    BY <1>1 DEF Inherits, setupPluginConfig
  <2> QED BY <1>1, <2>1, TrueNotEmpty DEF FlagReadBack, Missing
<1>2. CASE Inherits(own)
  <2>0. m = MergeMapWithAgentConfig(own, A)
    BY <1>2 DEF Inherits, setupPluginConfig
  <2>1. IsMerged(m, own, A)
    BY <2>0, MergedMap
  <2>2. CASE ~ Missing(own, f)
    <3>1. f \in DOMAIN own
      BY <2>2 DEF Missing
    <3>2. f \in DOMAIN m /\ m[f] = own[f]
      BY <2>1, <2>2, <3>1 DEF IsMerged
    <3> QED BY <2>2, <3>2 DEF FlagReadBack
  <2>3. CASE Missing(own, f) /\ A.insecure
    <3>1. f \in FilledFlag(own, A)
      BY <2>3 DEF FilledFlag
    <3>2. f \in DOMAIN m /\ m[f] = True
      BY <2>1, <3>1 DEF IsMerged
    <3> QED BY <1>2, <2>3, <3>2 DEF FlagReadBack
  <2>4. CASE Missing(own, f) /\ ~ A.insecure
    <3>1. f \notin FilledFlag(own, A) /\ f \notin FilledAuth(own, A) /\ f \notin FilledStrings(own, A)
      BY <2>4 DEF FilledFlag, FilledAuth, FilledStrings, IsClient, Strings
    <3>2. f \in DOMAIN m => f \in DOMAIN own /\ m[f] = own[f]
      BY <2>1, <3>1 DEF IsMerged
    <3>3. ~ (f \in DOMAIN m /\ m[f] = True)
      BY <2>4, <3>2, TrueNotEmpty DEF Missing
    <3> QED BY <1>0, <2>4, <3>3 DEF FlagReadBack
  <2> QED BY <2>2, <2>3, <2>4
<1> QED BY <1>1, <1>2

LEMMA AuthKept ==
  ASSUME NEW own, NEW A, IsClient(A), NEW m, m = setupPluginConfig(own, A)
  PROVE  AuthReadBack(own, A, m)
<1> DEFINE f == "http_auth"
<1>0. HTTPAuthFromString(<<>>) = Nil
  BY DEF HTTPAuthFromString
<1>1. CASE ~ Inherits(own)
  <2>1. m = own
    BY <1>1 DEF Inherits, setupPluginConfig
  <2> QED BY <1>0, <1>1, <2>1 DEF AuthReadBack, Missing
<1>2. CASE Inherits(own)
  <2>0. m = MergeMapWithAgentConfig(own, A)
    BY <1>2 DEF Inherits, setupPluginConfig
  <2>1. IsMerged(m, own, A)
    BY <2>0, MergedMap
  <2>2. CASE ~ Missing(own, f)
    <3>1. f \in DOMAIN own
      BY <2>2 DEF Missing
    <3>2. f \in DOMAIN m /\ m[f] = own[f]
      BY <2>1, <2>2, <3>1 DEF IsMerged
    <3> QED BY <2>2, <3>2 DEF AuthReadBack
  <2>3. CASE Missing(own, f) /\ A.auth # Nil
    <3>1. f \in FilledAuth(own, A)
      BY <2>3 DEF FilledAuth
    <3>2. f \in DOMAIN m /\ m[f] = FormatAuth(A.auth[1])
      BY <2>1, <3>1 DEF IsMerged
    <3>3. PICK u \in Texts, pw \in Texts :
            A.auth = Ptr([username |-> u, password |-> pw]) /\ Free(u, ":")
      BY <2>3 DEF IsClient
    <3> DEFINE a == [username |-> u, password |-> pw]
    <3>4. HTTPAuthFromString(FormatAuth(a)) = IF a = EmptyAuth THEN Nil ELSE Ptr(a)
      BY <3>3, AuthRoundTrip
    <3>5. A.auth = Ptr(a)
      BY <3>3
    <3> HIDE DEF a
    <3>6. A.auth[1] = a /\ (A.auth = Ptr(EmptyAuth) <=> a = EmptyAuth)
      BY <3>5, Pointers
    <3> QED BY <1>2, <2>3, <3>2, <3>4, <3>5, <3>6 DEF AuthReadBack
  <2>4. CASE Missing(own, f) /\ A.auth = Nil
    <3>1. f \notin FilledFlag(own, A) /\ f \notin FilledAuth(own, A) /\ f \notin FilledStrings(own, A)
      BY <2>4 DEF FilledFlag, FilledAuth, FilledStrings, IsClient, Strings
    <3>2. f \in DOMAIN m => f \in DOMAIN own /\ m[f] = own[f]
      BY <2>1, <3>1 DEF IsMerged
    <3> QED BY <1>0, <2>4, <3>2 DEF AuthReadBack, Missing
  <2> QED BY <2>2, <2>3, <2>4
<1> QED BY <1>1, <1>2

\* The part before the first separator has none.
LEMMA BeforeSeparator ==
  ASSUME NEW s \in Texts, NEW sep, NEW i, i = Index(s, sep)
  PROVE  /\ i \in 0 .. Len(s)
         /\ i = 0 => Free(s, sep)
         /\ i # 0 => \A j \in 1 .. (i - 1) : s[j] # sep
<1> DEFINE I == {j \in 1 .. Len(s) : s[j] = sep}
<1>1. i = IF I # {} THEN Min(I) ELSE 0
  BY DEF Index
<1>2. Len(s) \in Nat
  BY Lengths DEF Texts
<1>3. I \in SUBSET Nat
  <2>1. \A j \in 1 .. Len(s) : j \in Nat
    BY SMT
  <2> QED BY <2>1
<1>4. CASE I = {}
  <2>1. i = 0
    BY <1>1, <1>4
  <2>2. 0 \in 0 .. Len(s)
    BY <1>2, SMT
  <2>3. Free(s, sep)
    BY <1>4 DEF Free
  <2> QED BY <2>1, <2>2, <2>3
<1>5. CASE I # {}
  <2>1. i \in I /\ \A j \in I : i <= j
    <3> HIDE DEF I
    <3>1. Min(I) \in I /\ \A y \in I : Min(I) <= y
      BY <1>3, <1>5, MinOfNaturals
    <3> QED BY <1>1, <1>5, <3>1
  <2>2. i \in 1 .. Len(s)
    BY <2>1
  <2>3. i \in 0 .. Len(s) /\ i # 0
    BY <1>2, <2>2, SMT
  <2>4. ASSUME NEW j \in 1 .. (i - 1)
        PROVE  s[j] # sep
    <3>1. j \in 1 .. Len(s) /\ ~ (i <= j)
      BY <1>2, <2>2, SMT
    <3> QED BY <2>1, <3>1
  <2> QED BY <2>3, <2>4
<1> QED BY <1>4, <1>5

\* An authentication that was read from a text.
LEMMA AuthRead ==
  ASSUME NEW s \in Texts, s # <<>>
  PROVE  \E u, pw \in Texts : /\ HTTPAuthFromString(s) = Ptr([username |-> u, password |-> pw])
                              /\ Free(u, ":")
<1> DEFINE split == SplitN(s, ":", 2)
<1>1. HTTPAuthFromString(s) = Ptr([username |-> split[1], password |-> SecondPart(split)])
  BY DEF HTTPAuthFromString, SecondPart
<1>2. split = Cut(s, ":")
  BY DEF SplitN
<1>3. <<>> \in Texts
  BY EmptySequence DEF Texts
<1>4. CASE Index(s, ":") = 0
  <2>1. split = <<s>>
    BY <1>2, <1>4 DEF Cut
  <2>2. split[1] = s /\ SecondPart(split) = <<>>
    BY <2>1, AuthParts
  <2>3. Free(s, ":")
    BY <1>4, BeforeSeparator
  <2> HIDE DEF split
  <2> QED BY <1>1, <1>3, <2>2, <2>3
<1>5. CASE Index(s, ":") # 0
  <2> DEFINE i == Index(s, ":")
             u == SubSeq(s, 1, i - 1)
             pw == SubSeq(s, i + 1, Len(s))
  <2>1. split = <<u, pw>>
    BY <1>2, <1>5 DEF Cut
  <2>2. i \in 0 .. Len(s) /\ i # 0 /\ \A j \in 1 .. (i - 1) : s[j] # ":"
    BY <1>5, BeforeSeparator
  <2> HIDE DEF i
  <2>3. Len(s) \in Nat
    BY Lengths DEF Texts
  <2>4. i \in Nat /\ i >= 1 /\ i <= Len(s)
    BY <2>2, <2>3, SMT
  <2>5. u \in Texts /\ Len(u) = i - 1 /\ \A j \in 1 .. (i - 1) : u[j] = s[j]
    BY <2>3, <2>4, SMT DEF Texts
  <2>6. pw \in Texts
    BY <2>3, <2>4, SMT DEF Texts
  <2> HIDE DEF u, pw
  <2>7. split[1] = u /\ SecondPart(split) = pw
    BY <2>1, AuthParts
  <2>8. Free(u, ":")
    BY <2>2, <2>5 DEF Free
  <2> HIDE DEF split
  <2> QED BY <1>1, <2>5, <2>6, <2>7, <2>8
<1> QED BY <1>4, <1>5

\* What the agent makes of the environment and of its nomad block.
LEMMA ClientShape ==
  ASSUME NEW n, \A f \in DOMAIN n : n[f] \in Texts \ {<<>>}
  PROVE  IsClient(MergeDefaultWithAgentConfig(Environment, n))
<1> DEFINE A == MergeDefaultWithAgentConfig(Environment, n)
           str == Over(Restrict(n, DOMAIN n \cap Strings), Environment.strings)
           ins == Environment.insecure \/ "skip_verify" \in DOMAIN n
           auth == IF "http_auth" \in DOMAIN n THEN HTTPAuthFromString(n["http_auth"])
                   ELSE Environment.auth
<1>1. A = [strings |-> str, insecure |-> ins, auth |-> auth]
  BY DEF MergeDefaultWithAgentConfig
<1>2. DOMAIN str \subseteq Strings /\ \A f \in DOMAIN str : str[f] # <<>>
  BY EnvironmentAssumption DEF Over, Restrict
<1>3. ins \in BOOLEAN
  OBVIOUS
<1>4. auth # Nil => \E u, pw \in Texts : /\ auth = Ptr([username |-> u, password |-> pw])
                                         /\ Free(u, ":")
  <2>1. CASE "http_auth" \in DOMAIN n
    <3>1. n["http_auth"] \in Texts /\ n["http_auth"] # <<>>
      BY <2>1
    <3> QED BY <2>1, <3>1, AuthRead
  <2>2. CASE "http_auth" \notin DOMAIN n
    BY <2>2, EnvironmentAssumption DEF Free, Contains
  <2> QED BY <2>1, <2>2
<1> HIDE DEF str, ins, auth, A
<1>5. A.strings = str /\ A.insecure = ins /\ A.auth = auth
  BY <1>1
<1>6. IsClient(A)
  BY <1>2, <1>3, <1>4, <1>5 DEF IsClient
<1> QED BY <1>6 DEF A

LEMMA SettingsKept == ConfigInv /\ AgentInv => PluginsKeepNomadSettings
<1> SUFFICES ASSUME ConfigInv, AgentInv, stage \in Configured \ {"agent"},
                    NEW k \in Kinds, NEW n \in DOMAIN cfg[k]
             PROVE  LET own      == cfg[k][n].config
                        client   == ConfigFromNamespacedMap(pluginConfig[k][n])
                        agent    == nomadCfg[1]
                    IN  /\ \A f \in Strings :
                             LET from == CASE ~ Missing(own, f) -> {own[f]}
                                           [] Missing(own, f) /\ Inherits(own)
                                              /\ f \in DOMAIN agent.strings ->
                                                {agent.strings[f]}
                                           [] OTHER -> {}
                             IN  from = IF f \in DOMAIN client.strings THEN {client.strings[f]}
                                                                       ELSE {}
                        /\ client.auth = IF ~ Missing(own, "http_auth")
                                         THEN HTTPAuthFromString(own["http_auth"])
                                         ELSE IF Inherits(own) /\ agent.auth # Ptr(EmptyAuth)
                                              THEN agent.auth ELSE Nil
                        /\ client.insecure = IF ~ Missing(own, "skip_verify")
                                             THEN own["skip_verify"] = True
                                             ELSE Inherits(own) /\ agent.insecure
  BY DEF PluginsKeepNomadSettings, Inherits
<1> DEFINE own == cfg[k][n].config
           m == pluginConfig[k][n]
           A == AgentClient
           client == ConfigFromNamespacedMap(m)
<1>1. nomadCfg[1] = A /\ m = setupPluginConfig(own, A)
  <2>1. nomadCfg = Ptr(AgentClient) /\ pluginConfig = PluginMaps
    BY DEF AgentInv
  <2>2. PluginMaps[k][n] = setupPluginConfig(cfg[k][n].config, AgentClient)
    BY DEF PluginMaps
  <2> QED BY <2>1, <2>2, Pointers
<1>2. IsClient(A)
  <2>1. cfg.nomad # Nil
    BY DEF ConfigInv, Complete, Blocks
  <2>2. \A f \in DOMAIN cfg.nomad[1] : cfg.nomad[1][f] \in Texts \ {<<>>}
    BY <2>1 DEF ConfigInv, IsConfiguration
  <2> QED BY <2>2, ClientShape DEF AgentClient
<1> HIDE DEF own, m, A
<1>3. StringsReadBack(own, A, m) /\ FlagReadBack(own, A, m) /\ AuthReadBack(own, A, m)
  BY <1>1, <1>2, StringsKept, FlagKept, AuthKept
<1>4. /\ client.strings = Restrict(m, {f \in DOMAIN m \cap Strings : m[f] # <<>>})
      /\ client.insecure = ("skip_verify" \in DOMAIN m /\ m["skip_verify"] = True)
      /\ client.auth = IF "http_auth" \in DOMAIN m THEN HTTPAuthFromString(m["http_auth"]) ELSE Nil
  BY DEF ConfigFromNamespacedMap
<1> HIDE DEF client
<1>5. ASSUME NEW f \in Strings
      PROVE  /\ f \in DOMAIN client.strings <=> ~ Missing(m, f)
             /\ f \in DOMAIN client.strings => client.strings[f] = m[f]
  BY <1>4 DEF Restrict, Missing
<1>6. ASSUME NEW f \in Strings
      PROVE  (CASE ~ Missing(own, f) -> {own[f]}
                [] Missing(own, f) /\ Inherits(own) /\ f \in DOMAIN A.strings -> {A.strings[f]}
                [] OTHER -> {})
               = IF f \in DOMAIN client.strings THEN {client.strings[f]} ELSE {}
  <2>1. CASE ~ Missing(own, f)
    BY <1>3, <1>5, <2>1 DEF StringsReadBack
  <2>2. CASE Missing(own, f) /\ Inherits(own) /\ f \in DOMAIN A.strings
    BY <1>3, <1>5, <2>2 DEF StringsReadBack
  <2>3. CASE Missing(own, f) /\ ~ (Inherits(own) /\ f \in DOMAIN A.strings)
    BY <1>3, <1>5, <2>3 DEF StringsReadBack
  <2> QED BY <2>1, <2>2, <2>3
<1>7. client.auth = IF ~ Missing(own, "http_auth") THEN HTTPAuthFromString(own["http_auth"])
                    ELSE IF Inherits(own) /\ A.auth # Ptr(EmptyAuth) THEN A.auth ELSE Nil
  BY <1>3, <1>4 DEF AuthReadBack
<1>8. client.insecure = IF ~ Missing(own, "skip_verify") THEN own["skip_verify"] = True
                                                         ELSE Inherits(own) /\ A.insecure
  BY <1>3, <1>4 DEF FlagReadBack
<1> QED BY <1>1, <1>6, <1>7, <1>8 DEF own, m, client

\* Every plugin that talks to Nomad gets the settings meant for it, whatever
\* texts they are (MergeMapWithAgentConfig, ConfigFromNamespacedMap).
THEOREM PluginSettingsKept == Spec => []PluginsKeepNomadSettings
BY ConfigurationBuilt, HandedOver, SettingsKept, PTL

-----------------------------------------------------------------------------
(* Sums, which do not depend on the order in which values are taken.  A       *)
(* statement about every finite set is proved by a smallest set that refutes  *)
(* it.                                                                        *)

\* The element of s that a sum takes first, and the rest.
First(s) == CHOOSE x \in s : TRUE

Rest(s) == s \ {First(s)}

\* What a sum of f over s is, when g sums over the rest.
Step(f, g, s) == IF s = {} THEN 0 ELSE f[First(s)] + g[Rest(s)]

Sums(f, g, D) == g = [s \in D |-> Step(f, g, s)]

UpTo(S, n) == {s \in SUBSET S : Cardinality(s) <= n}

LEMMA RestSmaller ==
  ASSUME NEW s, s # {}, IsFiniteSet(s)
  PROVE  /\ First(s) \in s /\ Rest(s) \subseteq s /\ IsFiniteSet(Rest(s))
         /\ Cardinality(s) \in Nat \ {0} /\ Cardinality(Rest(s)) = Cardinality(s) - 1
<1>1. First(s) \in s
  BY DEF First
<1>2. IsFiniteSet(Rest(s)) /\ Cardinality(Rest(s)) = Cardinality(s) - 1
  BY <1>1, FS_RemoveElement DEF Rest
<1>3. Cardinality(s) \in Nat /\ Cardinality(s) # 0
  BY FS_CardinalityType, FS_EmptySet
<1> QED BY <1>1, <1>2, <1>3 DEF Rest

\* Sums over the subsets of a finite set exist.
LEMMA SumsExist ==
  ASSUME NEW f, NEW S, IsFiniteSet(S), NEW n \in Nat
  PROVE  \E g : Sums(f, g, UpTo(S, n))
<1> DEFINE T == {k \in Nat : ~ \E g : Sums(f, g, UpTo(S, k))}
<1>1. CASE T = {}
  BY <1>1
<1>2. CASE T # {}
  <2>1. PICK k \in T : \A j \in T : k <= j
    <3>1. T \in SUBSET Nat
      OBVIOUS
    <3> HIDE DEF T
    <3> QED BY <1>2, <3>1, LeastExists
  <2>2. k \in Nat /\ ~ \E g : Sums(f, g, UpTo(S, k))
    BY <2>1
  <2>3. \A s \in SUBSET S : IsFiniteSet(s) /\ Cardinality(s) \in Nat
    BY FS_Subset, FS_CardinalityType
  <2>4. CASE k = 0
    <3> DEFINE g == [s \in UpTo(S, 0) |-> 0]
    <3>1. \A s \in UpTo(S, 0) : s = {}
      <4> SUFFICES ASSUME NEW s \in SUBSET S, Cardinality(s) <= 0
                   PROVE  s = {}
        BY DEF UpTo
      <4>1. Cardinality(s) = 0
        BY <2>3, SMT
      <4> QED BY <2>3, <4>1, FS_EmptySet
    <3>2. \A s \in UpTo(S, 0) : Step(f, g, s) = 0
      BY <3>1 DEF Step
    <3>3. Sums(f, g, UpTo(S, 0))
      BY <3>2 DEF Sums
    <3> QED BY <2>2, <2>4, <3>3
  <2>5. CASE k # 0
    <3>1. k - 1 \in Nat /\ ~ (k <= k - 1)
      BY <2>2, <2>5, SMT
    <3>2. PICK h : Sums(f, h, UpTo(S, k - 1))
      BY <2>1, <3>1
    <3> DEFINE g == [s \in UpTo(S, k) |-> Step(f, h, s)]
    <3>3. ASSUME NEW s \in UpTo(S, k)
          PROVE  Step(f, g, s) = Step(f, h, s)
      <4>1. CASE s = {}
        BY <4>1 DEF Step
      <4>2. CASE s # {}
        <5>1. s \in SUBSET S /\ Cardinality(s) <= k
          BY DEF UpTo
        <5>2. Rest(s) \in SUBSET S /\ Cardinality(Rest(s)) = Cardinality(s) - 1
              /\ Cardinality(s) \in Nat
          BY <2>3, <4>2, <5>1, RestSmaller
        <5>3. Cardinality(Rest(s)) <= k /\ Cardinality(Rest(s)) <= k - 1
          BY <2>2, <5>1, <5>2, SMT
        <5>4. Rest(s) \in UpTo(S, k) /\ Rest(s) \in UpTo(S, k - 1)
          BY <5>2, <5>3 DEF UpTo
        <5>5. g[Rest(s)] = Step(f, h, Rest(s))
          BY <5>4
        <5>6. h[Rest(s)] = Step(f, h, Rest(s))
          BY <3>2, <5>4 DEF Sums
        <5>7. g[Rest(s)] = h[Rest(s)]
          BY <5>5, <5>6
        <5> HIDE DEF g
        <5> QED BY <4>2, <5>7 DEF Step
      <4> QED BY <4>1, <4>2
    <3>4. Sums(f, g, UpTo(S, k))
      BY <3>3 DEF Sums
    <3> QED BY <2>2, <3>4
  <2> QED BY <2>4, <2>5
<1> QED BY <1>1, <1>2

LEMMA SumsOver ==
  ASSUME NEW f, NEW S, IsFiniteSet(S)
  PROVE  \E g : Sums(f, g, SUBSET S)
<1>1. Cardinality(S) \in Nat
  BY FS_CardinalityType
<1>2. UpTo(S, Cardinality(S)) = SUBSET S
  BY FS_Subset DEF UpTo
<1>3. \E g : Sums(f, g, UpTo(S, Cardinality(S)))
  BY <1>1, SumsExist
<1> QED BY <1>2, <1>3

\* The function that SumFunctionOnSet builds.
Iter(f, S) == CHOOSE g : Sums(f, g, SUBSET S)

LEMMA SumIsIter ==
  ASSUME NEW f, NEW S
  PROVE  SumFunctionOnSet(f, S) = Iter(f, S)[S]
BY DEF SumFunctionOnSet, FoldFunctionOnSet, MapThenFoldSet, Iter, Sums, Step, First, Rest

\* Sums over two families of sets agree on a set whose subsets are in both.
Agree(g, h, s) == g[s] = h[s]

LEMMA SumsAgree ==
  ASSUME NEW f, NEW S, NEW T \in SUBSET S, IsFiniteSet(S), NEW g, NEW h,
         Sums(f, g, SUBSET S), Sums(f, h, SUBSET T)
  PROVE  Agree(g, h, T)
<1> DEFINE B == {Cardinality(s) : s \in {t \in SUBSET T : g[t] # h[t]}}
<1>1. \A s \in SUBSET T : IsFiniteSet(s) /\ Cardinality(s) \in Nat /\ s \in SUBSET S
  BY FS_Subset, FS_CardinalityType
<1>2. CASE B = {}
  <2>1. T \in SUBSET T
    OBVIOUS
  <2> QED BY <1>2, <2>1 DEF Agree
<1>3. CASE B # {}
  <2>1. PICK k \in B : \A j \in B : k <= j
    <3>1. B \in SUBSET Nat
      BY <1>1
    <3> HIDE DEF B
    <3> QED BY <1>3, <3>1, LeastExists
  <2>2. PICK s \in SUBSET T : g[s] # h[s] /\ k = Cardinality(s)
    BY <2>1
  <2>3. g[s] = Step(f, g, s) /\ h[s] = Step(f, h, s)
    BY <1>1 DEF Sums
  <2>4. CASE s = {}
    BY <2>2, <2>3, <2>4 DEF Step
  <2>5. CASE s # {}
    <3>1. Rest(s) \in SUBSET T /\ Cardinality(Rest(s)) = Cardinality(s) - 1
          /\ Cardinality(s) \in Nat
      BY <1>1, <2>5, RestSmaller
    <3>2. ~ (k <= Cardinality(Rest(s)))
      BY <2>2, <3>1, SMT
    <3>3. g[Rest(s)] = h[Rest(s)]
      BY <2>1, <3>1, <3>2
    <3> QED BY <2>2, <2>3, <2>5, <3>3 DEF Step
  <2> QED BY <2>4, <2>5
<1> QED BY <1>2, <1>3

\* A sum is one of its terms and the sum of the rest.
LEMMA SumUnfolds ==
  ASSUME NEW f, NEW S, IsFiniteSet(S)
  PROVE  SumFunctionOnSet(f, S) =
           IF S = {} THEN 0 ELSE f[First(S)] + SumFunctionOnSet(f, Rest(S))
<1>1. Sums(f, Iter(f, S), SUBSET S)
  BY SumsOver DEF Iter
<1>2. SumFunctionOnSet(f, S) = Step(f, Iter(f, S), S)
  BY <1>1, SumIsIter DEF Sums
<1>3. CASE S = {}
  BY <1>2, <1>3 DEF Step
<1>4. CASE S # {}
  <2>1. Rest(S) \subseteq S /\ IsFiniteSet(Rest(S))
    BY <1>4, RestSmaller
  <2>2. Sums(f, Iter(f, Rest(S)), SUBSET Rest(S))
    BY <2>1, SumsOver DEF Iter
  <2>3. Iter(f, S)[Rest(S)] = Iter(f, Rest(S))[Rest(S)]
    <3> DEFINE G == Iter(f, S)
               H == Iter(f, Rest(S))
               R == Rest(S)
    <3>1. Sums(f, G, SUBSET S) /\ Sums(f, H, SUBSET R) /\ R \in SUBSET S
      BY <1>1, <2>1, <2>2
    <3> HIDE DEF G, H, R
    <3>2. Agree(G, H, R)
      BY <3>1, SumsAgree
    <3> QED BY <3>2 DEF G, H, R, Agree
  <2>4. SumFunctionOnSet(f, Rest(S)) = Iter(f, Rest(S))[Rest(S)]
    BY SumIsIter
  <2> QED BY <1>2, <1>4, <2>3, <2>4 DEF Step
<1> QED BY <1>3, <1>4

\* The terms of f over S are whole numbers.
Whole(f, S) == IsFiniteSet(S) /\ \A x \in S : f[x] \in Int

LEMMA SumIsWhole ==
  ASSUME NEW f, NEW S, Whole(f, S)
  PROVE  SumFunctionOnSet(f, S) \in Int
<1> DEFINE B == {Cardinality(s) : s \in {t \in SUBSET S : SumFunctionOnSet(f, t) \notin Int}}
<1>1. \A s \in SUBSET S : IsFiniteSet(s) /\ Cardinality(s) \in Nat
  BY FS_Subset, FS_CardinalityType DEF Whole
<1>2. CASE B = {}
  <2>1. S \in SUBSET S
    OBVIOUS
  <2> QED BY <1>2, <2>1
<1>3. CASE B # {}
  <2>1. PICK k \in B : \A j \in B : k <= j
    <3>1. B \in SUBSET Nat
      BY <1>1
    <3> HIDE DEF B
    <3> QED BY <1>3, <3>1, LeastExists
  <2>2. PICK s \in SUBSET S : SumFunctionOnSet(f, s) \notin Int /\ k = Cardinality(s)
    BY <2>1
  <2>3. SumFunctionOnSet(f, s) = IF s = {} THEN 0 ELSE f[First(s)] + SumFunctionOnSet(f, Rest(s))
    BY <1>1, SumUnfolds
  <2>4. CASE s = {}
    <3>1. 0 \in Int
      BY SMT
    <3> QED BY <2>2, <2>3, <2>4, <3>1
  <2>5. CASE s # {}
    <3>1. Rest(s) \in SUBSET S /\ Cardinality(Rest(s)) = Cardinality(s) - 1
          /\ Cardinality(s) \in Nat /\ First(s) \in S
      BY <1>1, <2>5, RestSmaller
    <3>2. ~ (k <= Cardinality(Rest(s)))
      BY <2>2, <3>1, SMT
    <3>3. SumFunctionOnSet(f, Rest(s)) \in Int /\ f[First(s)] \in Int
      BY <2>1, <3>1, <3>2 DEF Whole
    <3>4. f[First(s)] + SumFunctionOnSet(f, Rest(s)) \in Int
      BY <3>3, SMT
    <3> QED BY <2>2, <2>3, <2>5, <3>4
  <2> QED BY <2>4, <2>5
<1> QED BY <1>2, <1>3

\* Functions with the same terms have the same sum.
LEMMA SameSum ==
  ASSUME NEW f, NEW g, NEW S, IsFiniteSet(S), \A x \in S : f[x] = g[x]
  PROVE  SumFunctionOnSet(f, S) = SumFunctionOnSet(g, S)
<1> DEFINE B == {Cardinality(s) : s \in {t \in SUBSET S :
                                          SumFunctionOnSet(f, t) # SumFunctionOnSet(g, t)}}
<1>1. \A s \in SUBSET S : IsFiniteSet(s) /\ Cardinality(s) \in Nat
  BY FS_Subset, FS_CardinalityType
<1>2. CASE B = {}
  <2>1. S \in SUBSET S
    OBVIOUS
  <2> QED BY <1>2, <2>1
<1>3. CASE B # {}
  <2>1. PICK k \in B : \A j \in B : k <= j
    <3>1. B \in SUBSET Nat
      BY <1>1
    <3> HIDE DEF B
    <3> QED BY <1>3, <3>1, LeastExists
  <2>2. PICK s \in SUBSET S : /\ SumFunctionOnSet(f, s) # SumFunctionOnSet(g, s)
                              /\ k = Cardinality(s)
    BY <2>1
  <2>3. /\ SumFunctionOnSet(f, s) =
             IF s = {} THEN 0 ELSE f[First(s)] + SumFunctionOnSet(f, Rest(s))
        /\ SumFunctionOnSet(g, s) =
             IF s = {} THEN 0 ELSE g[First(s)] + SumFunctionOnSet(g, Rest(s))
    BY <1>1, SumUnfolds
  <2>4. CASE s = {}
    BY <2>2, <2>3, <2>4
  <2>5. CASE s # {}
    <3>1. Rest(s) \in SUBSET S /\ Cardinality(Rest(s)) = Cardinality(s) - 1
          /\ Cardinality(s) \in Nat /\ First(s) \in S
      BY <1>1, <2>5, RestSmaller
    <3>2. ~ (k <= Cardinality(Rest(s)))
      BY <2>2, <3>1, SMT
    <3>3. SumFunctionOnSet(f, Rest(s)) = SumFunctionOnSet(g, Rest(s))
      BY <2>1, <3>1, <3>2
    <3> QED BY <2>2, <2>3, <2>5, <3>1, <3>3
  <2> QED BY <2>4, <2>5
<1> QED BY <1>2, <1>3

\* Any of its terms can be taken first.
LEMMA SumTakes ==
  ASSUME NEW f, NEW S, Whole(f, S), NEW x \in S
  PROVE  SumFunctionOnSet(f, S) = f[x] + SumFunctionOnSet(f, S \ {x})
<1> DEFINE Takes(t, y) == SumFunctionOnSet(f, t) = f[y] + SumFunctionOnSet(f, t \ {y})
           B == {Cardinality(s) : s \in {t \in SUBSET S : \E y \in t : ~ Takes(t, y)}}
<1>1. \A s \in SUBSET S : IsFiniteSet(s) /\ Cardinality(s) \in Nat /\ Whole(f, s)
  BY FS_Subset, FS_CardinalityType DEF Whole
<1>2. CASE B = {}
  <2>1. S \in SUBSET S
    OBVIOUS
  <2> QED BY <1>2, <2>1
<1>3. CASE B # {}
  <2>1. PICK k \in B : \A j \in B : k <= j
    <3>1. B \in SUBSET Nat
      BY <1>1
    <3> HIDE DEF B
    <3> QED BY <1>3, <3>1, LeastExists
  <2>2. PICK s \in SUBSET S : (\E y \in s : ~ Takes(s, y)) /\ k = Cardinality(s)
    BY <2>1
  <2>3. PICK y \in s : ~ Takes(s, y)
    BY <2>2
  <2> DEFINE c == First(s)
  <2>4. c \in s /\ Takes(s, c)
    BY <1>1, RestSmaller, SumUnfolds DEF Rest
  <2> HIDE DEF c
  <2>5. y # c
    BY <2>3, <2>4
  <2>6. ASSUME NEW t \in SUBSET S, NEW z \in s, t = s \ {z}, NEW u \in t
        PROVE  Takes(t, u)
    <3>1. Cardinality(t) = Cardinality(s) - 1 /\ Cardinality(s) \in Nat
      BY <1>1, <2>6, FS_RemoveElement
    <3>2. ~ (k <= Cardinality(t))
      BY <2>2, <3>1, SMT
    <3> HIDE DEF Takes
    <3> QED BY <2>1, <3>2
  <2>7. Takes(s \ {c}, y) /\ Takes(s \ {y}, c)
    <3>1. /\ s \ {c} \in SUBSET S /\ y \in s \ {c}
          /\ s \ {y} \in SUBSET S /\ c \in s \ {y}
      BY <2>4, <2>5
    <3> HIDE DEF Takes
    <3> QED BY <2>4, <2>6, <3>1
  <2> DEFINE r == (s \ {c}) \ {y}
             both == SumFunctionOnSet(f, r)
  <2>8. (s \ {y}) \ {c} = r
    OBVIOUS
  <2>9. f[y] \in Int /\ f[c] \in Int /\ both \in Int
    <3>1. r \in SUBSET S
      OBVIOUS
    <3> HIDE DEF r
    <3>2. Whole(f, r)
      BY <1>1, <3>1
    <3> QED BY <2>4, <3>2, SumIsWhole DEF Whole
  <2>10. /\ SumFunctionOnSet(f, s) = f[c] + SumFunctionOnSet(f, s \ {c})
         /\ SumFunctionOnSet(f, s \ {c}) = f[y] + both
         /\ SumFunctionOnSet(f, s \ {y}) = f[c] + both
    BY <2>4, <2>7, <2>8
  <2> HIDE DEF both
  <2>11. SumFunctionOnSet(f, s) = f[y] + SumFunctionOnSet(f, s \ {y})
    BY <2>9, <2>10, SMT
  <2> QED BY <2>3, <2>11
<1> QED BY <1>2, <1>3

LEMMA SumOfNone == ASSUME NEW f PROVE SumFunctionOnSet(f, {}) = 0
BY SumUnfolds, FS_EmptySet

\* One more value reported adds itself to the total.
LEMMA SumAppend ==
  ASSUME NEW ms \in Seq(Int), NEW v \in Int
  PROVE  SumFunction(Append(ms, v)) = SumFunction(ms) + v
<1> DEFINE n == Len(ms)
           t == Append(ms, v)
<1>1. /\ n \in Nat /\ DOMAIN ms = 1 .. n /\ DOMAIN t = 1 .. (n + 1)
      /\ t[n + 1] = v /\ \A i \in 1 .. n : t[i] = ms[i] /\ ms[i] \in Int
  BY SMT
<1> HIDE DEF n, t
<1>2. /\ n + 1 \in 1 .. (n + 1) /\ (1 .. (n + 1)) \ {n + 1} = 1 .. n
      /\ \A i \in 1 .. (n + 1) : i = n + 1 \/ i \in 1 .. n
      /\ 1 \in Int /\ n \in Int /\ n + 1 \in Int
  BY <1>1, SMT
<1>3. IsFiniteSet(1 .. n) /\ IsFiniteSet(1 .. (n + 1))
  BY <1>2, FS_Interval
<1>4. Whole(t, 1 .. (n + 1)) /\ Whole(ms, 1 .. n)
  BY <1>1, <1>2, <1>3 DEF Whole
<1>5. SumFunctionOnSet(t, 1 .. (n + 1)) = t[n + 1] + SumFunctionOnSet(t, 1 .. n)
  <2> DEFINE S == 1 .. (n + 1)
             x == n + 1
  <2>1. x \in S /\ S \ {x} = 1 .. n /\ Whole(t, S)
    BY <1>2, <1>4
  <2> HIDE DEF S, x
  <2>2. SumFunctionOnSet(t, S) = t[x] + SumFunctionOnSet(t, S \ {x})
    BY <2>1, SumTakes, SMT
  <2> QED BY <2>1, <2>2 DEF S, x
<1>6. SumFunctionOnSet(t, 1 .. n) = SumFunctionOnSet(ms, 1 .. n)
  BY <1>1, <1>3, SameSum, SMT
<1>7. SumFunctionOnSet(ms, 1 .. n) \in Int
  BY <1>4, SumIsWhole
<1>8. SumFunction(t) = SumFunctionOnSet(t, 1 .. (n + 1)) /\ SumFunction(ms) = SumFunctionOnSet(ms, 1 .. n)
  BY <1>1 DEF SumFunction
<1>9. SumFunction(t) = v + SumFunction(ms) /\ SumFunction(ms) \in Int
  BY <1>1, <1>5, <1>6, <1>7, <1>8
<1>10. SumFunction(t) = SumFunction(ms) + v
  BY <1>9, SMT
<1> QED BY <1>10 DEF t

-----------------------------------------------------------------------------
(* What the Nomad APM reads *)

\* The allocations of cluster c that a task group query reads, those among them
\* that report when the ones in D are still to be read, and what they report.
Listed(c, q) ==
  {a \in DOMAIN c.allocs : c.allocs[a].client = "running" /\ c.allocs[a].group = q.group}

Reporting(c, q, D) == {a \in Listed(c, q) \ D : c.allocs[a].usage # Nil}

Reported(c, q) == [a \in DOMAIN c.allocs |-> metricFunc(q, c.allocs[a].usage[1])]

PoolNodes(c, q) == {n \in DOMAIN c.nodes : c.nodes[n].class = q.group}

NodeFree(c) == [n \in DOMAIN c.nodes |-> c.nodes[n].resources - c.nodes[n].reserved]

NodeUsed(c) == [n \in DOMAIN c.nodes |-> Allocated(c.nodes[n])]

\* The metrics ms are those of all the allocations that were read.
GroupRead(c, q, D, ms) ==
  /\ D \subseteq Listed(c, q)
  /\ ms \in Seq(Int)
  /\ Len(ms) = Cardinality(Reporting(c, q, D))
  /\ SumFunction(ms) = SumFunctionOnSet(Reported(c, q), Reporting(c, q, D))
  /\ Range(ms) = {Reported(c, q)[a] : a \in Reporting(c, q, D)}

PoolRead(c, q, D, allocatable, allocated) ==
  /\ D \subseteq PoolNodes(c, q)
  /\ allocatable = SumFunctionOnSet(NodeFree(c), PoolNodes(c, q) \ D)
  /\ allocated = SumFunctionOnSet(NodeUsed(c), PoolNodes(c, q) \ D)

LEMMA MetricBounds ==
  ASSUME NEW q, NEW u \in Nat, u * 100 <= MaxFloat
  PROVE  metricFunc(q, u) \in 0 .. MaxFloat
<1>1. u * 100 \in 0 .. MaxFloat /\ (u \div MiB) * 100 \in 0 .. MaxFloat /\ u \in 0 .. MaxFloat
  <2>1. MaxFloat \in Nat
    BY SMT DEF MaxFloat
  <2>2. u \div MiB \in Nat /\ u \div MiB <= u
    BY SMT DEF MiB
  <2> QED BY <2>1, <2>2, SMT
<1>2. metricFunc(q, u) \in {u * 100, (u \div MiB) * 100, u}
  <2>1. CASE q.metric = "cpu-allocated"
    BY <2>1 DEF metricFunc
  <2>2. CASE q.metric = "memory-allocated"
    BY <2>2 DEF metricFunc
  <2>3. CASE q.metric # "cpu-allocated" /\ q.metric # "memory-allocated"
    BY <2>3 DEF metricFunc
  <2> QED BY <2>1, <2>2, <2>3
<1> QED BY <1>1, <1>2

LEMMA ReportingFacts ==
  ASSUME NEW c, IsCluster(c), NEW q, NEW D
  PROVE  /\ IsFiniteSet(Reporting(c, q, D))
         /\ \A a \in Reporting(c, q, D) : Reported(c, q)[a] \in 0 .. MaxFloat
         /\ Whole(Reported(c, q), Reporting(c, q, D))
<1>1. Reporting(c, q, D) \in SUBSET DOMAIN c.allocs /\ IsFiniteSet(DOMAIN c.allocs)
  BY DEF Reporting, Listed, IsCluster
<1>2. IsFiniteSet(Reporting(c, q, D))
  BY <1>1, FS_Subset
<1>3. ASSUME NEW a \in Reporting(c, q, D)
      PROVE  Reported(c, q)[a] \in 0 .. MaxFloat
  <2>1. a \in DOMAIN c.allocs /\ c.allocs[a].usage # Nil
    BY DEF Reporting, Listed
  <2>2. c.allocs[a].usage[1] \in Nat /\ c.allocs[a].usage[1] * 100 <= MaxFloat
    BY <2>1 DEF IsCluster, IsAllocation
  <2>3. Reported(c, q)[a] = metricFunc(q, c.allocs[a].usage[1])
    BY <2>1 DEF Reported
  <2> QED BY <2>2, <2>3, MetricBounds
<1>4. \A i \in 0 .. MaxFloat : i \in Int
  BY SMT
<1> QED BY <1>2, <1>3, <1>4 DEF Whole

\* Nothing has been read yet.
LEMMA GroupListed ==
  ASSUME NEW c, NEW q
  PROVE  GroupRead(c, q, Listed(c, q), <<>>)
<1>1. Reporting(c, q, Listed(c, q)) = {}
  BY DEF Reporting
<1>2. <<>> \in Seq(Int) /\ Len(<<>>) = 0 /\ DOMAIN <<>> = {}
  BY SMT
<1>3. Range(<<>>) = {}
  BY <1>2 DEF Range
<1>4. SumFunction(<<>>) = 0
  BY <1>2, SumOfNone DEF SumFunction
<1>5. Cardinality({}) = 0
  BY FS_EmptySet
<1> QED BY <1>1, <1>2, <1>3, <1>4, <1>5, SumOfNone DEF GroupRead

LEMMA PoolListed ==
  ASSUME NEW c, NEW q
  PROVE  PoolRead(c, q, PoolNodes(c, q), 0, 0)
<1>1. PoolNodes(c, q) \ PoolNodes(c, q) = {}
  OBVIOUS
<1> QED BY <1>1, SumOfNone DEF PoolRead

\* One more allocation is read.
LEMMA GroupReadNext ==
  ASSUME NEW c, IsCluster(c), NEW q, NEW D, NEW a \in D, NEW ms, GroupRead(c, q, D, ms)
  PROVE  GroupRead(c, q, D \ {a}, IF c.allocs[a].usage = Nil THEN ms
                                  ELSE Append(ms, metricFunc(q, c.allocs[a].usage[1])))
<1> DEFINE f == Reported(c, q)
           R == Reporting(c, q, D)
           S == Reporting(c, q, D \ {a})
           v == metricFunc(q, c.allocs[a].usage[1])
<1>1. a \in Listed(c, q) /\ a \in DOMAIN c.allocs /\ D \ {a} \subseteq Listed(c, q)
  BY DEF GroupRead, Listed
<1>2. CASE c.allocs[a].usage = Nil
  <2>1. S = R
    BY <1>2 DEF Reporting
  <2> QED BY <1>1, <1>2, <2>1 DEF GroupRead
<1>3. CASE c.allocs[a].usage # Nil
  <2>1. S = R \cup {a} /\ a \notin R /\ a \in S /\ S \ {a} = R
    BY <1>1, <1>3 DEF Reporting
  <2>2. f[a] = v
    BY <1>1 DEF Reported
  <2>3. IsFiniteSet(R) /\ Whole(f, S) /\ f[a] \in Int /\ Cardinality(R) \in Nat
    BY <2>1, ReportingFacts, FS_CardinalityType DEF Whole
  <2> HIDE DEF f, R, S, v
  <2>4. /\ ms \in Seq(Int) /\ Len(ms) = Cardinality(R) /\ SumFunction(ms) = SumFunctionOnSet(f, R)
        /\ Range(ms) = {f[x] : x \in R}
    BY DEF GroupRead, f, R
  <2>5. Cardinality(S) = Cardinality(R) + 1
    BY <2>1, <2>3, FS_AddElement
  <2> DEFINE t == Append(ms, v)
  <2>6. t \in Seq(Int) /\ Len(t) = Len(ms) + 1
    BY <2>2, <2>3, <2>4, SMT
  <2>7. SumFunction(t) = SumFunction(ms) + v
    BY <2>2, <2>3, <2>4, SumAppend
  <2>8. SumFunctionOnSet(f, S) = f[a] + SumFunctionOnSet(f, R)
    <3>1. SumFunctionOnSet(f, S) = f[a] + SumFunctionOnSet(f, S \ {a})
      BY <2>1, <2>3, SumTakes, SMT
    <3> QED BY <2>1, <3>1
  <2>9. SumFunctionOnSet(f, R) \in Int
    <3>1. Whole(f, R)
      BY <2>1, <2>3 DEF Whole
    <3> QED BY <3>1, SumIsWhole
  <2>10. SumFunction(t) = SumFunctionOnSet(f, S)
    <3> HIDE DEF t
    <3> QED BY <2>2, <2>3, <2>4, <2>7, <2>8, <2>9, SMT
  <2>11. Range(t) = Range(ms) \cup {v}
    <3>1. /\ DOMAIN t = DOMAIN ms \cup {Len(ms) + 1} /\ t[Len(ms) + 1] = v
          /\ \A i \in DOMAIN ms : t[i] = ms[i]
      BY <2>2, <2>3, <2>4, SMT
    <3> HIDE DEF t
    <3>2. Range(t) = {t[i] : i \in DOMAIN ms} \cup {t[Len(ms) + 1]}
      BY <3>1 DEF Range
    <3>3. Range(ms) = {t[i] : i \in DOMAIN ms}
      BY <3>1 DEF Range
    <3> QED BY <3>1, <3>2, <3>3
  <2>12. Range(t) = {f[x] : x \in S}
    <3> HIDE DEF t
    <3> QED BY <2>1, <2>2, <2>4, <2>11
  <2>13. GroupRead(c, q, D \ {a}, t)
    <3> HIDE DEF t
    <3>1. Len(t) = Cardinality(S)
      BY <2>4, <2>5, <2>6
    <3> QED BY <1>1, <2>6, <2>10, <2>12, <3>1 DEF GroupRead, f, S
  <2> QED BY <1>3, <2>13 DEF t, v
<1> QED BY <1>2, <1>3

\* A node's allocations that have not ended are summed as whole numbers.
LEMMA NodeNumbers ==
  ASSUME NEW c, IsCluster(c), NEW n \in DOMAIN c.nodes
  PROVE  NodeFree(c)[n] \in Int /\ NodeUsed(c)[n] \in Int
<1> DEFINE node == c.nodes[n]
           f == [i \in DOMAIN node.allocs |-> node.allocs[i].size]
           live == {i \in DOMAIN node.allocs : /\ ~ isServerTerminalStatus(node.allocs[i])
                                               /\ ~ isClientTerminalStatus(node.allocs[i])}
<1>1. /\ node.resources \in Int /\ node.reserved \in Int
      /\ IsFiniteSet(DOMAIN node.allocs) /\ \A i \in DOMAIN node.allocs : node.allocs[i].size \in Int
  BY DEF IsCluster, IsNode
<1>2. NodeFree(c)[n] = node.resources - node.reserved
  BY DEF NodeFree
<1>3. NodeFree(c)[n] \in Int
  BY <1>1, <1>2, SMT
<1>4. live \in SUBSET DOMAIN node.allocs
  OBVIOUS
<1>5. Whole(f, live)
  <2>1. IsFiniteSet(live)
    BY <1>1, <1>4, FS_Subset
  <2>2. \A i \in live : f[i] \in Int
    BY <1>1
  <2> QED BY <2>1, <2>2 DEF Whole
<1>6. NodeUsed(c)[n] = SumFunctionOnSet(f, live)
  BY DEF NodeUsed, Allocated
<1>7. SumFunctionOnSet(f, live) \in Int
  BY <1>5, SumIsWhole
<1> QED BY <1>3, <1>6, <1>7

LEMMA PoolNumbers ==
  ASSUME NEW c, IsCluster(c), NEW S \in SUBSET DOMAIN c.nodes
  PROVE  Whole(NodeFree(c), S) /\ Whole(NodeUsed(c), S)
<1>1. IsFiniteSet(S)
  BY FS_Subset DEF IsCluster
<1> QED BY <1>1, NodeNumbers DEF Whole

\* One more node is read.
LEMMA PoolReadNext ==
  ASSUME NEW c, IsCluster(c), NEW q, NEW D, NEW n \in D, NEW x, NEW y, PoolRead(c, q, D, x, y)
  PROVE  PoolRead(c, q, D \ {n}, x + c.nodes[n].resources - c.nodes[n].reserved,
                  y + Allocated(c.nodes[n]))
<1> DEFINE P == PoolNodes(c, q) \ D
           S == PoolNodes(c, q) \ (D \ {n})
           u == NodeFree(c)
           v == NodeUsed(c)
           res == c.nodes[n].resources
           rsv == c.nodes[n].reserved
<1>1. n \in DOMAIN c.nodes /\ D \ {n} \subseteq PoolNodes(c, q) /\ n \in S /\ S \ {n} = P
  BY DEF PoolRead, PoolNodes
<1>2. P \in SUBSET DOMAIN c.nodes /\ S \in SUBSET DOMAIN c.nodes
  BY DEF PoolNodes
<1>3. Whole(u, P) /\ Whole(u, S) /\ Whole(v, P) /\ Whole(v, S)
  <2> HIDE DEF P, S
  <2> QED BY <1>2, PoolNumbers
<1>4. x = SumFunctionOnSet(u, P) /\ y = SumFunctionOnSet(v, P)
  BY DEF PoolRead
<1>5. u[n] = res - rsv /\ v[n] = Allocated(c.nodes[n])
  BY <1>1 DEF NodeFree, NodeUsed
<1>6. res \in Int /\ rsv \in Int
  BY <1>1 DEF IsCluster, IsNode
<1>7. v[n] \in Int
  BY <1>1, NodeNumbers
<1> HIDE DEF P, S, u, v, res, rsv
<1>8. SumFunctionOnSet(u, P) \in Int /\ SumFunctionOnSet(v, P) \in Int
  BY <1>3, SumIsWhole
<1>9. SumFunctionOnSet(u, S) = u[n] + SumFunctionOnSet(u, S \ {n})
  BY <1>1, <1>3, SumTakes, SMT
<1>10. SumFunctionOnSet(v, S) = v[n] + SumFunctionOnSet(v, S \ {n})
  BY <1>1, <1>3, SumTakes, SMT
<1>11. SumFunctionOnSet(u, S) = x + res - rsv
  <2>1. SumFunctionOnSet(u, S) = u[n] + x
    BY <1>1, <1>4, <1>9
  <2> QED BY <1>4, <1>5, <1>6, <1>8, <2>1, SMT
<1>12. SumFunctionOnSet(v, S) = y + v[n]
  <2>1. SumFunctionOnSet(v, S) = v[n] + y
    BY <1>1, <1>4, <1>10
  <2> QED BY <1>4, <1>7, <1>8, <2>1, SMT
<1> QED BY <1>1, <1>5, <1>11, <1>12 DEF PoolRead, S, u, v, res, rsv

\* A query that the APM understands.
IsQuery(q) ==
  \/ q.kind = "taskgroup" /\ q.op \in TaskGroupOps
  \/ q.kind = "node" /\ q.op = "percentage-allocated"

LEMMA QueryShape ==
  ASSUME NEW e, Query(e) # Nil
  PROVE  IsQuery(Query(e)[1])
<1> DEFINE main == SplitN(e, "/", 3)
           o == OpMetric(e)[2][1]
           m == OpMetric(e)[3][1]
           record(k) == [kind |-> k, op |-> o, metric |-> m, group |-> main[2], job |-> main[3]]
<1>1. CASE SplitN(e, "_", 2)[1] = <<"taskgroup">>
  <2>1. Query(e) = parseTaskGroupQuery(e)
    <3>1. <<"taskgroup">> # <<"node">>
      BY SMT
    <3> QED BY <1>1, <3>1 DEF Query, QueryTypeTaskGroup, QueryTypeNode
  <2>2. OpMetric(e)[2] \in {<<op>> : op \in TaskGroupOps} /\ Query(e) = Ptr(record("taskgroup"))
    BY <2>1 DEF parseTaskGroupQuery, QueryTypeTaskGroup
  <2>3. \A x : <<x>>[1] = x
    BY SMT
  <2>4. o \in TaskGroupOps
    BY <2>2, <2>3
  <2> HIDE DEF main, o, m
  <2>5. Query(e)[1] = record("taskgroup")
    BY <2>2, Pointers
  <2>6. record("taskgroup").kind = "taskgroup" /\ record("taskgroup").op = o
    OBVIOUS
  <2> HIDE DEF record
  <2>7. Query(e)[1].kind = "taskgroup" /\ Query(e)[1].op = o
    BY <2>5, <2>6
  <2> QED BY <2>4, <2>7 DEF IsQuery
<1>2. CASE SplitN(e, "_", 2)[1] = <<"node">> /\ SplitN(e, "_", 2)[1] # <<"taskgroup">>
  <2>1. Query(e) = parseNodePoolQuery(e)
    BY <1>2 DEF Query, QueryTypeTaskGroup, QueryTypeNode
  <2>2. OpMetric(e)[2] = <<"percentage-allocated">> /\ Query(e) = Ptr(record("node"))
    BY <2>1 DEF parseNodePoolQuery, QueryTypeNode
  <2>3. \A x : <<x>>[1] = x
    BY SMT
  <2>4. o = "percentage-allocated"
    BY <2>2, <2>3
  <2> HIDE DEF main, o, m
  <2>5. Query(e)[1] = record("node")
    BY <2>2, Pointers
  <2>6. record("node").kind = "node" /\ record("node").op = o
    OBVIOUS
  <2> HIDE DEF record
  <2>7. Query(e)[1].kind = "node" /\ Query(e)[1].op = o
    BY <2>5, <2>6
  <2> QED BY <2>4, <2>7 DEF IsQuery
<1>3. CASE SplitN(e, "_", 2)[1] # <<"node">> /\ SplitN(e, "_", 2)[1] # <<"taskgroup">>
  BY <1>3 DEF Query, QueryTypeTaskGroup, QueryTypeNode
<1> QED BY <1>1, <1>2, <1>3

-----------------------------------------------------------------------------
(* The answers of the Nomad APM *)

\* What was read is what the allocations or nodes that are not still to be read
\* have.
ReadSoFar(c, q, D, ms, r) ==
  /\ IsQuery(q)
  /\ q.kind = "taskgroup" => GroupRead(c, q, D, ms)
  /\ q.kind = "node" => PoolRead(c, q, D, r.allocatable, r.allocated)

\* Answer r is the one for a query whose reads are done.
IsAnswer(a, q, ms, r, den) ==
  \/ /\ q.kind = "taskgroup" /\ ms # <<>>
     /\ a = Ptr(calculateTaskGroupResult(q.op, ms, den))
  \/ /\ q.kind = "node"
     /\ a = Ptr(calculateNodePoolResult(r.allocated, r.allocatable))

NothingRead == [allocatable |-> 0, allocated |-> 0]

\* Until a query is listed nothing is read; while it is read, the metrics and
\* resources are those of what was read; and only a query with nothing left to
\* read is answered.
UsageInv ==
  /\ input \in Inputs /\ cluster = input.cluster
  /\ answer # Nil => stage = "answered"
  /\ stage \notin {"query", "answered", "idle"} => metrics = <<>> /\ resources = NothingRead
  /\ stage = "query" /\ query # Nil => ReadSoFar(cluster, query[1], todo, metrics, resources)
  /\ stage = "answered" =>
       /\ ReadSoFar(cluster, query[1], {}, metrics, resources)
       /\ IsAnswer(answer, query[1], metrics, resources, Denominator(query[1]))

LEMMA UsageInvInit == Init => UsageInv
BY DEF Init, UsageInv, APMInit, NothingRead

\* A step that reads nothing.
LEMMA NoReading ==
  ASSUME UsageInv, UNCHANGED <<input, apmVars>>, stage # "answered",
         stage' \notin {"query", "answered"}, stage' = "idle" \/ stage \notin {"query", "idle"}
  PROVE  UsageInv'
<1>1. UNCHANGED <<input, cluster, answer, metrics, resources>>
  BY DEF apmVars
<1>2. answer = Nil
  BY DEF UsageInv
<1> QED BY <1>1, <1>2 DEF UsageInv

\* The listing of a query.
LEMMA QueryListed ==
  ASSUME UsageInv, stage = "evaluate", UNCHANGED input, NEW e, Query(e) # Nil,
         ListAllocations(Query(e)[1]) \/ ListNodes(Query(e)[1]), stage' = "query"
  PROVE  UsageInv'
<1> DEFINE q == Query(e)[1]
<1>1. IsQuery(q)
  BY QueryShape
<1>2. metrics = <<>> /\ resources = NothingRead /\ answer = Nil
  BY DEF UsageInv
<1>3. UNCHANGED <<cluster, metrics, resources, answer>> /\ query' = Ptr(q)
  BY DEF ListAllocations, ListNodes
<1>4. \/ q.kind = "taskgroup" /\ todo' = Listed(cluster, q)
      \/ q.kind = "node" /\ todo' = PoolNodes(cluster, q)
  BY DEF ListAllocations, ListNodes, QueryTypeTaskGroup, QueryTypeNode, Listed, PoolNodes
<1> HIDE DEF q
<1>5. resources.allocatable = 0 /\ resources.allocated = 0
  BY <1>2 DEF NothingRead
<1>6. ReadSoFar(cluster, q, todo', metrics, resources)
  BY <1>1, <1>2, <1>4, <1>5, GroupListed, PoolListed DEF ReadSoFar
<1>7. query'[1] = q
  BY <1>3, Pointers
<1> QED BY <1>2, <1>3, <1>6, <1>7 DEF UsageInv

\* One allocation or node is read.
LEMMA MetricRead ==
  ASSUME UsageInv, stage = "query", UNCHANGED <<input, stage>>, NEW a \in todo,
         getTaskGroupResourceUsage(a) \/ getPoolResources(a)
  PROVE  UsageInv'
<1> DEFINE q == query[1]
<1>1. query # Nil /\ UNCHANGED <<cluster, query, answer>> /\ todo' = todo \ {a}
  BY DEF getTaskGroupResourceUsage, getPoolResources
<1>2. ReadSoFar(cluster, q, todo, metrics, resources)
  BY <1>1 DEF UsageInv
<1>3. IsCluster(cluster)
  BY InputsAssumption DEF UsageInv
<1>4. CASE getTaskGroupResourceUsage(a)
  <2> DEFINE usage == cluster.allocs[a].usage
             ms == IF usage = Nil THEN metrics ELSE Append(metrics, metricFunc(q, usage[1]))
  <2>1. q.kind = "taskgroup" /\ q.kind # "node" /\ metrics' = ms
    BY <1>4 DEF getTaskGroupResourceUsage, QueryTypeTaskGroup
  <2>2. GroupRead(cluster, q, todo, metrics)
    BY <1>2, <2>1 DEF ReadSoFar
  <2>3. GroupRead(cluster, q, todo \ {a}, ms)
    <3> HIDE DEF q
    <3> QED BY <1>3, <2>2, GroupReadNext
  <2> HIDE DEF ms, q
  <2>4. ReadSoFar(cluster, q, todo', metrics', resources')
    BY <1>1, <1>2, <2>1, <2>3 DEF ReadSoFar
  <2> QED BY <1>1, <2>4 DEF UsageInv, q
<1>5. CASE getPoolResources(a)
  <2> DEFINE node == cluster.nodes[a]
             r == [allocatable |-> resources.allocatable + node.resources - node.reserved,
                   allocated   |-> resources.allocated + Allocated(node)]
  <2>1. q.kind = "node" /\ q.kind # "taskgroup" /\ resources' = r
    BY <1>5 DEF getPoolResources, QueryTypeNode
  <2>2. PoolRead(cluster, q, todo, resources.allocatable, resources.allocated)
    BY <1>2, <2>1 DEF ReadSoFar
  <2>3. PoolRead(cluster, q, todo \ {a}, resources.allocatable + node.resources - node.reserved,
                 resources.allocated + Allocated(node))
    <3> HIDE DEF q
    <3> QED BY <1>3, <2>2, PoolReadNext
  <2>4. PoolRead(cluster, q, todo \ {a}, r.allocatable, r.allocated)
    <3> HIDE DEF q
    <3> QED BY <2>3
  <2> HIDE DEF r, q
  <2>5. ReadSoFar(cluster, q, todo', metrics', resources')
    BY <1>1, <1>2, <2>1, <2>4 DEF ReadSoFar
  <2> QED BY <1>1, <2>5 DEF UsageInv, q
<1> QED BY <1>4, <1>5

LEMMA UsageInvNext == UsageInv /\ [Next]_vars => UsageInv'
<1> SUFFICES ASSUME UsageInv, [Next]_vars
             PROVE  UsageInv'
  OBVIOUS
<1>1. CASE readConfig
  <2>1. UNCHANGED <<input, apmVars>> /\ stage = "config" /\ stage' \in {"config", "error", "panic", "agent"}
    BY <1>1 DEF readConfig, loadDir, LoadPath, Rejected, MergeFlags
  <2> QED BY <2>1, NoReading
<1>2. CASE StartAgent
  <2>1. UNCHANGED <<input, apmVars>> /\ stage = "agent" /\ stage' = "policy"
    BY <1>2 DEF StartAgent, setupPluginsConfig
  <2> QED BY <2>1, NoReading
<1>3. CASE ReadNomadPolicy
  <2>1. UNCHANGED <<input, apmVars>> /\ stage = "policy" /\ stage' \in {"monitor", "refused"}
    BY <1>3 DEF ReadNomadPolicy
  <2> QED BY <2>1, NoReading
<1>4. CASE ReadFilePolicy
  <2>1. UNCHANGED <<input, apmVars>> /\ stage = "policy" /\ stage' \in {"monitor", "refused", "panic"}
    BY <1>4 DEF ReadFilePolicy
  <2> QED BY <2>1, NoReading
<1>5. CASE updateHandler
  <2>1. UNCHANGED <<input, apmVars>> /\ stage = "monitor" /\ stage' \in {"tick", "panic"}
    BY <1>5 DEF updateHandler
  <2> QED BY <2>1, NoReading
<1>6. CASE generateEvaluation
  <2>1. UNCHANGED <<input, apmVars>> /\ stage = "tick" /\ stage' \in {"idle", "panic", "evaluate"}
    BY <1>6 DEF generateEvaluation
  <2> QED BY <2>1, NoReading
<1>7. CASE checkHandlerStart
  <2>1. UNCHANGED input /\ stage = "evaluate"
    BY <1>7 DEF checkHandlerStart
  <2>2. \/ UNCHANGED apmVars /\ stage' \in {"idle", "panic"}
        \/ /\ stage' = "query"
           /\ \E c \in policy[1].checks :
                /\ Query(c.query) # Nil
                /\ ListAllocations(Query(c.query)[1]) \/ ListNodes(Query(c.query)[1])
    BY <1>7 DEF checkHandlerStart
  <2>3. CASE UNCHANGED apmVars /\ stage' \in {"idle", "panic"}
    BY <2>1, <2>3, NoReading
  <2>4. CASE /\ stage' = "query"
             /\ \E c \in policy[1].checks :
                  /\ Query(c.query) # Nil
                  /\ ListAllocations(Query(c.query)[1]) \/ ListNodes(Query(c.query)[1])
    <3>1. PICK c \in policy[1].checks :
                  /\ Query(c.query) # Nil
                  /\ ListAllocations(Query(c.query)[1]) \/ ListNodes(Query(c.query)[1])
      BY <2>4
    <3> QED BY <2>1, <2>4, <3>1, QueryListed
  <2> QED BY <2>2, <2>3, <2>4
<1>8. CASE ListingFails
  <2>1. UNCHANGED <<input, apmVars>> /\ stage = "evaluate" /\ stage' = "idle"
    BY <1>8 DEF ListingFails
  <2> QED BY <2>1, NoReading
<1>9. CASE ReadMetrics
  <2>1. stage = "query" /\ UNCHANGED <<input, stage>>
    BY <1>9 DEF ReadMetrics
  <2>2. CASE \E a \in todo : getTaskGroupResourceUsage(a) \/ getPoolResources(a)
    BY <2>1, <2>2, MetricRead
  <2>3. CASE CallFails
    BY <2>1, <2>3 DEF CallFails, UsageInv
  <2> QED BY <1>9, <2>2, <2>3 DEF ReadMetrics
<1>10. CASE Answer
  <2>1. stage = "query" /\ UNCHANGED input /\ stage' = "answered"
    BY <1>10 DEF Answer
  <2>2. UNCHANGED <<cluster, query, todo, metrics, resources>> /\ query # Nil /\ todo = {}
    BY <1>10 DEF Answer, queryTaskGroup, queryNodePool
  <2>3. ReadSoFar(cluster, query[1], {}, metrics, resources)
    BY <2>1, <2>2 DEF UsageInv
  <2>4. IsAnswer(answer', query[1], metrics, resources, Denominator(query[1]))
    BY <1>10 DEF Answer, queryTaskGroup, queryNodePool, IsAnswer, QueryTypeTaskGroup, QueryTypeNode
  <2>5. Denominator(query[1])' = Denominator(query[1])
    BY <2>2 DEF Denominator
  <2> QED BY <2>1, <2>2, <2>3, <2>4, <2>5 DEF UsageInv
<1>11. CASE Unanswered
  <2>1. UNCHANGED <<input, apmVars>> /\ stage = "query" /\ stage' = "idle"
    BY <1>11 DEF Unanswered
  <2> QED BY <2>1, NoReading
<1>12. CASE UNCHANGED vars
  BY <1>12 DEF vars, apmVars, UsageInv, Denominator
<1> QED BY <1>1, <1>2, <1>3, <1>4, <1>5, <1>6, <1>7, <1>8, <1>9, <1>10, <1>11, <1>12 DEF Next

LEMMA FloatLimits == MaxFloat \in Nat /\ SmallestNonzero \in Nat /\ SmallestNonzero <= MaxFloat
BY SMT DEF MaxFloat, SmallestNonzero

\* The searches for the smallest and the largest value find them, but for the
\* value that the search for the largest starts from.
LEMMA SmallestFound ==
  ASSUME NEW T \in SUBSET (0 .. MaxFloat), T # {}
  PROVE  Min(T \cup {MaxFloat}) = Min(T)
<1> DEFINE U == T \cup {MaxFloat}
<1>1. MaxFloat \in Nat
  BY FloatLimits
<1>2. \A y \in T : y \in Nat /\ y <= MaxFloat
  BY <1>1, SMT
<1>3. T \in SUBSET Nat /\ U \in SUBSET Nat /\ U # {}
  BY <1>1, <1>2
<1>4. /\ Min(T) \in T /\ \A y \in T : Min(T) <= y
      /\ Min(U) \in U /\ \A y \in U : Min(U) <= y
  <2> HIDE DEF U
  <2> QED BY <1>3, MinOfNaturals
<1>5. Min(U) <= Min(T) /\ Min(T) <= Min(U)
  <2>1. Min(T) \in U
    BY <1>4
  <2>2. CASE Min(U) \in T
    BY <1>4, <2>1, <2>2
  <2>3. CASE Min(U) = MaxFloat
    BY <1>2, <1>4, <2>1, <2>3
  <2> QED BY <1>4, <2>2, <2>3
<1>6. Min(U) \in Nat /\ Min(T) \in Nat
  BY <1>3, <1>4
<1> QED BY <1>5, <1>6, SMT

LEMMA LargestFound ==
  ASSUME NEW T \in SUBSET (0 .. MaxFloat), T # {}
  PROVE  Max(T \cup {SmallestNonzero}) = IF T = {0} THEN SmallestNonzero ELSE Max(T)
<1> DEFINE U == T \cup {SmallestNonzero}
<1>1. MaxFloat \in Nat /\ SmallestNonzero \in Nat /\ SmallestNonzero <= MaxFloat
  BY FloatLimits
<1>2. \A y \in T : y \in Nat /\ y <= MaxFloat /\ (y = 0 \/ SmallestNonzero <= y)
  BY <1>1, SMT DEF SmallestNonzero
<1>3. T \in SUBSET Nat /\ U \in SUBSET Nat /\ U # {} /\ \A y \in U : y <= MaxFloat
  BY <1>1, <1>2
<1>4. /\ Max(T) \in T /\ \A y \in T : Max(T) >= y
      /\ Max(U) \in U /\ \A y \in U : Max(U) >= y
  <2> HIDE DEF U
  <2> QED BY <1>1, <1>2, <1>3, MaxOfBounded
<1>5. Max(U) \in Nat /\ Max(T) \in Nat /\ Max(U) >= Max(T) /\ Max(U) >= SmallestNonzero
  <2>1. Max(T) \in U /\ SmallestNonzero \in U
    BY <1>4
  <2> QED BY <1>3, <1>4, <2>1
<1>6. CASE T = {0}
  <2>1. Max(U) = 0 \/ Max(U) = SmallestNonzero
    BY <1>4, <1>6
  <2>2. ~ (0 >= SmallestNonzero)
    BY SMT DEF SmallestNonzero
  <2> QED BY <1>5, <1>6, <2>1, <2>2
<1>7. CASE T # {0}
  <2>1. PICK y \in T : y # 0
    BY <1>7
  <2>2. y \in Nat /\ SmallestNonzero <= y /\ Max(T) >= y
    BY <1>2, <1>4, <2>1
  <2>3. Max(T) >= SmallestNonzero
    BY <1>1, <1>5, <2>2, SMT
  <2>4. Max(T) >= Max(U)
    BY <1>4, <2>3
  <2>5. Max(T) = Max(U)
    BY <1>5, <2>4, SMT
  <2> QED BY <1>7, <2>5
<1> QED BY <1>6, <1>7

\* The value of a task group whose allocations report V.
IsGroupValue(r, op, V, den) ==
  /\ op \in {"sum", "avg"} => r.num = SumFunction(V)
  /\ op = "min" => r.num = Min(Range(V))
  /\ op = "max" => r.num = IF Range(V) = {0} THEN SmallestNonzero ELSE Max(Range(V))
  /\ op = "avg" => r.den = den * Cardinality(DOMAIN V)

LEMMA GroupAnswer ==
  ASSUME NEW c, IsCluster(c), NEW q, NEW ms, ms # <<>>, GroupRead(c, q, {}, ms), NEW den,
         q.op \in TaskGroupOps, NEW V,
         V = [a \in Reporting(c, q, {}) |-> metricFunc(q, c.allocs[a].usage[1])]
  PROVE  IsGroupValue(calculateTaskGroupResult(q.op, ms, den), q.op, V, den)
<1> DEFINE R == Reporting(c, q, {})
<1>1. DOMAIN V = R /\ \A a \in R : V[a] = Reported(c, q)[a]
  BY DEF Reporting, Listed, Reported
<1>2. /\ IsFiniteSet(R) /\ \A a \in R : Reported(c, q)[a] \in 0 .. MaxFloat
  BY ReportingFacts
<1> HIDE DEF R
<1>3. Total(ms) = SumFunction(V)
  <2>1. SumFunction(ms) = SumFunctionOnSet(Reported(c, q), R)
    BY DEF GroupRead, R
  <2>2. SumFunctionOnSet(V, R) = SumFunctionOnSet(Reported(c, q), R)
    <3> DEFINE f == Reported(c, q)
    <3>1. IsFiniteSet(R) /\ \A a \in R : V[a] = f[a]
      BY <1>1, <1>2
    <3> HIDE DEF f
    <3>2. SumFunctionOnSet(V, R) = SumFunctionOnSet(f, R)
      BY ONLY <3>1, SameSum
    <3> QED BY <3>2 DEF f
  <2> QED BY <1>1, <2>1, <2>2 DEF Total, SumFunction
<1>4. Range(ms) = Range(V)
  <2>1. Range(ms) = {Reported(c, q)[a] : a \in R}
    BY DEF GroupRead, R
  <2> QED BY <1>1, <2>1 DEF Range
<1>5. Range(V) \in SUBSET (0 .. MaxFloat)
  <2>1. \A a \in DOMAIN V : V[a] \in 0 .. MaxFloat
    BY <1>1, <1>2
  <2> QED BY <2>1 DEF Range
<1>6. Range(V) # {}
  <2>1. ms \in Seq(Int)
    BY DEF GroupRead
  <2>2. 1 \in DOMAIN ms
    BY <2>1, SMT
  <2> QED BY <1>4, <2>2 DEF Range
<1>7. Smallest(ms) = Min(Range(V))
  BY <1>4, <1>5, <1>6, SmallestFound DEF Smallest
<1>8. Largest(ms) = IF Range(V) = {0} THEN SmallestNonzero ELSE Max(Range(V))
  BY <1>4, <1>5, <1>6, LargestFound DEF Largest
<1>9. Len(ms) = Cardinality(DOMAIN V)
  BY <1>1 DEF GroupRead, R
<1> DEFINE r == calculateTaskGroupResult(q.op, ms, den)
<1>10. CASE q.op = "sum"
  <2>1. r.num = Total(ms)
    BY <1>10 DEF calculateTaskGroupResult
  <2> QED BY <1>3, <1>10, <2>1 DEF IsGroupValue
<1>11. CASE q.op = "avg"
  <2>1. r.num = Total(ms) /\ r.den = den * Len(ms)
    BY <1>11 DEF calculateTaskGroupResult
  <2> QED BY <1>3, <1>9, <1>11, <2>1 DEF IsGroupValue
<1>12. CASE q.op = "max"
  <2>1. r.num = Largest(ms)
    BY <1>12 DEF calculateTaskGroupResult
  <2> QED BY <1>8, <1>12, <2>1 DEF IsGroupValue
<1>13. CASE q.op = "min"
  <2>1. r.num = Smallest(ms)
    BY <1>13 DEF calculateTaskGroupResult
  <2> QED BY <1>7, <1>13, <2>1 DEF IsGroupValue
<1> QED BY <1>10, <1>11, <1>12, <1>13 DEF TaskGroupOps

\* The value of a pool whose nodes have Room and Used.
IsPoolValue(r, Used, Room) == r.num = 100 * SumFunction(Used) /\ r.den = SumFunction(Room)

LEMMA PoolAnswer ==
  ASSUME NEW c, IsCluster(c), NEW q, NEW x, NEW y, PoolRead(c, q, {}, x, y), NEW Used, NEW Room,
         DOMAIN Used = PoolNodes(c, q), \A n \in PoolNodes(c, q) : Used[n] = NodeUsed(c)[n],
         DOMAIN Room = PoolNodes(c, q), \A n \in PoolNodes(c, q) : Room[n] = NodeFree(c)[n]
  PROVE  IsPoolValue(calculateNodePoolResult(y, x), Used, Room)
<1> DEFINE P == PoolNodes(c, q)
<1>1. P \in SUBSET DOMAIN c.nodes /\ P \ {} = P
  BY DEF PoolNodes
<1>2. x = SumFunctionOnSet(NodeFree(c), P) /\ y = SumFunctionOnSet(NodeUsed(c), P)
  BY <1>1 DEF PoolRead
<1>3. IsFiniteSet(P) /\ Whole(NodeUsed(c), P)
  <2> HIDE DEF P
  <2> QED BY <1>1, PoolNumbers DEF Whole
<1> HIDE DEF P
<1>4. y \in Int
  BY <1>2, <1>3, SumIsWhole
<1>5. SumFunctionOnSet(Room, P) = SumFunctionOnSet(NodeFree(c), P)
  BY <1>3, SameSum DEF P
<1>6. SumFunctionOnSet(Used, P) = SumFunctionOnSet(NodeUsed(c), P)
  BY <1>3, SameSum DEF P
<1>7. x = SumFunction(Room) /\ y = SumFunction(Used)
  BY <1>2, <1>5, <1>6 DEF SumFunction, P
<1>8. y * 100 = 100 * y
  BY <1>4, SMT
<1>9. calculateNodePoolResult(y, x).num = y * 100 /\ calculateNodePoolResult(y, x).den = x
  BY DEF calculateNodePoolResult
<1> QED BY <1>7, <1>8, <1>9 DEF IsPoolValue

\* What UsageIsExact says of an answer, with its local definitions as parameters.
IsExact(r, q, V, Used, Room, den) ==
  /\ r.num = CASE q.kind = "node" -> 100 * SumFunction(Used)
               [] q.op \in {"sum", "avg"} -> SumFunction(V)
               [] q.op = "min" -> Min(Range(V))
               [] q.op = "max" -> IF Range(V) = {0} THEN SmallestNonzero ELSE Max(Range(V))
  /\ q.kind = "node" => r.den = SumFunction(Room)
  /\ q.op = "avg" => r.den = den * Cardinality(DOMAIN V)

LEMMA GroupIsExact ==
  ASSUME NEW r, NEW q, NEW V, NEW Used, NEW Room, NEW den, q.kind = "taskgroup",
         q.op \in TaskGroupOps, IsGroupValue(r, q.op, V, den)
  PROVE  IsExact(r, q, V, Used, Room, den)
<1>1. q.kind # "node"
  OBVIOUS
<1>2. CASE q.op = "sum"
  BY <1>1, <1>2 DEF IsExact, IsGroupValue
<1>3. CASE q.op = "avg"
  BY <1>1, <1>3 DEF IsExact, IsGroupValue
<1>4. CASE q.op = "max"
  BY <1>1, <1>4 DEF IsExact, IsGroupValue
<1>5. CASE q.op = "min"
  BY <1>1, <1>5 DEF IsExact, IsGroupValue
<1> QED BY <1>2, <1>3, <1>4, <1>5 DEF TaskGroupOps

LEMMA PoolIsExact ==
  ASSUME NEW r, NEW q, NEW V, NEW Used, NEW Room, NEW den, q.kind = "node",
         q.op = "percentage-allocated", IsPoolValue(r, Used, Room)
  PROVE  IsExact(r, q, V, Used, Room, den)
BY DEF IsExact, IsPoolValue

LEMMA UsageInvImpliesExact == UsageInv => UsageIsExact
<1> SUFFICES ASSUME UsageInv, answer # Nil
             PROVE  UsageIsExact
  BY DEF UsageIsExact
<1> DEFINE q == query[1]
           allocs == {a \in DOMAIN cluster.allocs :
                        /\ cluster.allocs[a].client = "running"
                        /\ cluster.allocs[a].group = q.group
                        /\ cluster.allocs[a].usage # Nil}
           V == [a \in allocs |-> metricFunc(q, cluster.allocs[a].usage[1])]
           pool == {n \in DOMAIN cluster.nodes : cluster.nodes[n].class = q.group}
           Room == [n \in pool |-> cluster.nodes[n].resources - cluster.nodes[n].reserved]
           Live(n) == {i \in DOMAIN cluster.nodes[n].allocs :
                         /\ cluster.nodes[n].allocs[i].desired = "run"
                         /\ cluster.nodes[n].allocs[i].client \notin {"complete", "failed", "lost"}}
           Used == [n \in pool |-> SumFunction([i \in Live(n) |-> cluster.nodes[n].allocs[i].size])]
           den == Denominator(q)
<1>1. IsCluster(cluster)
  BY InputsAssumption DEF UsageInv
<1>2. /\ ReadSoFar(cluster, q, {}, metrics, resources)
      /\ IsAnswer(answer, q, metrics, resources, den)
  BY DEF UsageInv
<1>3. allocs = Reporting(cluster, q, {}) /\ DOMAIN V = allocs
  BY DEF Reporting, Listed
<1>4. V = [a \in Reporting(cluster, q, {}) |-> metricFunc(q, cluster.allocs[a].usage[1])]
  BY <1>3
<1>5. pool = PoolNodes(cluster, q)
  BY DEF PoolNodes
<1>6. DOMAIN Room = pool /\ \A n \in pool : Room[n] = NodeFree(cluster)[n]
  BY DEF NodeFree
<1>7. DOMAIN Used = pool /\ \A n \in pool : Used[n] = NodeUsed(cluster)[n]
  <2>1. DOMAIN Used = pool
    OBVIOUS
  <2>2. ASSUME NEW n \in pool
        PROVE  Used[n] = NodeUsed(cluster)[n]
    <3> DEFINE node == cluster.nodes[n]
               L == Live(n)
               f == [i \in L |-> cluster.nodes[n].allocs[i].size]
               g == [i \in DOMAIN node.allocs |-> node.allocs[i].size]
    <3>1. Used[n] = SumFunction(f) /\ n \in DOMAIN cluster.nodes
      OBVIOUS
    <3>2. NodeUsed(cluster)[n] = Allocated(node)
      BY <3>1 DEF NodeUsed
    <3>3. L = {i \in DOMAIN node.allocs : /\ ~ isServerTerminalStatus(node.allocs[i])
                                          /\ ~ isClientTerminalStatus(node.allocs[i])}
      BY DEF isServerTerminalStatus, isClientTerminalStatus
    <3>4. Allocated(node) = SumFunctionOnSet(g, L)
      BY <3>3 DEF Allocated
    <3>5. IsFiniteSet(DOMAIN node.allocs)
      BY <1>1, <3>1 DEF IsCluster, IsNode
    <3>6. IsFiniteSet(L)
      BY <3>5, FS_Subset
    <3>7. DOMAIN f = L /\ \A i \in L : f[i] = g[i]
      OBVIOUS
    <3> HIDE DEF f, g, L
    <3>8. SumFunctionOnSet(f, L) = SumFunctionOnSet(g, L)
      BY <3>6, <3>7, SameSum
    <3> HIDE DEF node, Used
    <3> QED BY <3>1, <3>2, <3>4, <3>7, <3>8 DEF SumFunction
  <2> HIDE DEF Used
  <2> QED BY <2>1, <2>2
<1>8. ASSUME IsExact(answer[1], q, V, Used, Room, den)
      PROVE  UsageIsExact
  BY <1>3, <1>8 DEF UsageIsExact, IsExact
<1> HIDE DEF q, V, Used, Room, den, pool, allocs
<1>9. CASE /\ q.kind = "taskgroup" /\ metrics # <<>>
           /\ answer = Ptr(calculateTaskGroupResult(q.op, metrics, den))
  <2>1. q.op \in TaskGroupOps /\ GroupRead(cluster, q, {}, metrics)
    BY <1>2, <1>9 DEF ReadSoFar, IsQuery
  <2> DEFINE r == calculateTaskGroupResult(q.op, metrics, den)
  <2>2. IsGroupValue(r, q.op, V, den)
    BY <1>1, <1>4, <1>9, <2>1, GroupAnswer
  <2>3. answer[1] = r
    BY <1>9, Pointers
  <2> HIDE DEF r
  <2>4. IsExact(r, q, V, Used, Room, den)
    BY <1>9, <2>1, <2>2, GroupIsExact
  <2> QED BY <1>8, <2>3, <2>4
<1>10. CASE /\ q.kind = "node"
            /\ answer = Ptr(calculateNodePoolResult(resources.allocated, resources.allocatable))
  <2>1. /\ q.op = "percentage-allocated"
        /\ PoolRead(cluster, q, {}, resources.allocatable, resources.allocated)
    BY <1>2, <1>10 DEF ReadSoFar, IsQuery
  <2> DEFINE r == calculateNodePoolResult(resources.allocated, resources.allocatable)
  <2>2. IsPoolValue(r, Used, Room)
    BY <1>1, <1>5, <1>6, <1>7, <2>1, PoolAnswer
  <2>3. answer[1] = r
    BY <1>10, Pointers
  <2> HIDE DEF r
  <2>4. IsExact(r, q, V, Used, Room, den)
    BY <1>10, <2>1, <2>2, PoolIsExact
  <2> QED BY <1>8, <2>3, <2>4
<1> QED BY <1>2, <1>9, <1>10 DEF IsAnswer

\* Whatever calls of the Nomad API fail and in whatever order allocations and
\* nodes are read, the APM answers only with the value of all of them: no
\* allocation or node is left out or counted twice (queryTaskGroup,
\* getTaskGroupResourceUsage, queryNodePool, getPoolResources).
THEOREM UsageExact == Spec => []UsageIsExact
<1>1. Spec => []UsageInv
  BY UsageInvInit, UsageInvNext, PTL DEF Spec
<1> QED BY <1>1, UsageInvImpliesExact, PTL

=============================================================================
