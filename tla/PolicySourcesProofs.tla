------------------------ MODULE PolicySourcesProofs -------------------------
(***************************************************************************)
(* Proofs about PolicySources, for any policies, any of the two sources    *)
(* enabled and any capacity of the channels and bounds on the edits, the   *)
(* changes, the reloads and the handlers.                                  *)
(***************************************************************************)
EXTENDS PolicySources, TLAPS

\* Most steps are first-order; the others say SMT.
USE Zenon

-----------------------------------------------------------------------------
(* Lists on their way to the manager                                       *)

\* A source lists its own policies.
Lists == {l \in [source : {"file", "nomad"}, ids : SUBSET Policies] : l.ids \subseteq Of(l.source)}

ScanRecords ==
  [pc : {"read", "select", "complete"}, left : SUBSET Of("file"), found : SUBSET Of("file"),
   failed : BOOLEAN, reload : BOOLEAN]

WatchRecords == [pc : {"query", "list", "error"}, index : Nat, ids : SUBSET Of("nomad")]

ListTypes ==
  /\ lists \in Seq(Lists)
  /\ mgr \in Lists \union {Idle}
  /\ DOMAIN entry = Policies
  /\ scan \in ScanRecords
  /\ watch \in WatchRecords /\ index \in Nat

Entered(s) == {p \in Of(s) : entry[p] # None}

NoneWaits(s) == \A i \in DOMAIN lists : lists[i].source # s

\* The last list of source s that waits has the given IDs.
LastWaiting(s, ids) ==
  \A i \in DOMAIN lists :
    lists[i].source = s /\ (\A j \in DOMAIN lists : j > i => lists[j].source # s) =>
      lists[i].ids = ids

\* The last list of s that was sent has the given IDs: it waits, or the manager
\* has it, or the map was made to agree with it.
Latest(s, ids) ==
  /\ LastWaiting(s, ids)
  /\ NoneWaits(s) => IF mgr.source = s THEN mgr.ids = ids ELSE Entered(s) \subseteq ids

\* While a source scans, or has a list to send, older lists do not matter.
ListInv ==
  /\ ListTypes
  /\ scan.pc # "read" => Latest("file", scan.found)
  /\ watch.pc # "list" => Latest("nomad", watch.ids)

\* The manager takes a list from the channel.
LEMMA ReceiveKeepsLatest ==
  ASSUME ListTypes, ReceiveList, NEW s \in {"file", "nomad"}, NEW ids, Latest(s, ids)
  PROVE  Latest(s, ids)'
<1>1. /\ lists \in Seq(Lists) /\ lists # <<>> /\ lists' = Tail(lists) /\ mgr' = Head(lists)
      /\ mgr = Idle /\ entry' = entry
  BY DEF ListTypes, ReceiveList
<1>2. /\ Len(lists) \in Nat \ {0} /\ DOMAIN lists = 1 .. Len(lists)
      /\ DOMAIN lists' = 1 .. Len(lists) - 1
      /\ \A i \in DOMAIN lists' : lists'[i] = lists[i + 1] /\ i + 1 \in DOMAIN lists
      /\ mgr' = lists[1]
      /\ \A i \in DOMAIN lists : i \in Nat /\ (i = 1 \/ i - 1 \in DOMAIN lists')
  BY <1>1, SMT
<1>3. LastWaiting(s, ids)'
  <2> SUFFICES ASSUME NEW i \in DOMAIN lists', lists'[i].source = s,
                      \A j \in DOMAIN lists' : j > i => lists'[j].source # s
               PROVE  lists'[i].ids = ids
    BY DEF LastWaiting
  <2>1. lists[i + 1].source = s /\ i + 1 \in DOMAIN lists
    BY <1>2
  <2>2. ASSUME NEW j \in DOMAIN lists, j > i + 1 PROVE lists[j].source # s
    <3>1. j - 1 \in DOMAIN lists' /\ j - 1 > i /\ (j - 1) + 1 = j
      BY <1>2, <2>2, SMT
    <3> QED
      BY <1>2, <3>1
  <2>3. lists[i + 1].ids = ids
    BY <2>1, <2>2 DEF Latest, LastWaiting
  <2> QED
    BY <1>2, <2>3
<1>4. ASSUME NoneWaits(s)' PROVE IF mgr'.source = s THEN mgr'.ids = ids ELSE Entered(s)' \subseteq ids
  <2>1. \A j \in DOMAIN lists : j > 1 => lists[j].source # s
    <3> TAKE j \in DOMAIN lists
    <3> HAVE j > 1
    <3>1. j - 1 \in DOMAIN lists' /\ (j - 1) + 1 = j
      BY <1>2, SMT
    <3> QED
      BY <1>2, <1>4, <3>1 DEF NoneWaits
  <2>2. 1 \in DOMAIN lists
    BY <1>2, SMT
  <2>3. CASE lists[1].source = s
    BY <1>2, <2>1, <2>2, <2>3 DEF Latest, LastWaiting
  <2>4. CASE lists[1].source # s
    <3>1. NoneWaits(s)
      <4> SUFFICES ASSUME NEW i \in DOMAIN lists PROVE lists[i].source # s
        BY DEF NoneWaits
      <4>1. i = 1 \/ i > 1
        BY <1>2, SMT
      <4> QED
        BY <2>1, <2>4, <4>1
    <3>2. mgr.source # s
      BY <1>1 DEF Idle
    <3>3. Entered(s) \subseteq ids /\ Entered(s)' = Entered(s)
      BY <1>1, <3>1, <3>2 DEF Latest, Entered
    <3> QED
      BY <1>2, <2>4, <3>3
  <2> QED
    BY <2>3, <2>4
<1> QED
  BY <1>3, <1>4 DEF Latest

\* Another list joins the channel.
LEMMA AppendKeepsLatest ==
  ASSUME ListTypes, NEW l \in Lists, lists' = Append(lists, l), mgr' = mgr, entry' = entry
  PROVE  /\ Latest(l.source, l.ids)'
         /\ \A s, ids : s # l.source /\ Latest(s, ids) => Latest(s, ids)'
<1> DEFINE n == Len(lists) + 1
<1>1. /\ n \in Nat /\ DOMAIN lists = 1 .. n - 1 /\ DOMAIN lists' = 1 .. n
      /\ lists'[n] = l /\ \A i \in DOMAIN lists : lists'[i] = lists[i] /\ i \in DOMAIN lists' /\ n > i
      /\ \A i \in DOMAIN lists' : i # n => i \in DOMAIN lists
      /\ n \in DOMAIN lists'
  BY SMT DEF ListTypes
<1> HIDE DEF n
<1>2. Latest(l.source, l.ids)'
  <2>1. ~NoneWaits(l.source)'
    BY <1>1 DEF NoneWaits
  <2>2. ASSUME NEW i \in DOMAIN lists', \A j \in DOMAIN lists' : j > i => lists'[j].source # l.source
        PROVE  lists'[i].ids = l.ids
    <3>1. i = n
      BY <1>1, <2>2
    <3> QED
      BY <1>1, <3>1
  <2>3. LastWaiting(l.source, l.ids)'
    BY <2>2 DEF LastWaiting
  <2> QED
    BY <2>1, <2>3 DEF Latest
<1>3. ASSUME NEW s, NEW ids, s # l.source, Latest(s, ids) PROVE Latest(s, ids)'
  <2>1. ASSUME NEW i \in DOMAIN lists', lists'[i].source = s,
               \A j \in DOMAIN lists' : j > i => lists'[j].source # s
        PROVE  lists'[i].ids = ids
    <3>1. i # n
      BY <1>1, <1>3, <2>1
    <3>2. i \in DOMAIN lists /\ lists[i].source = s
      BY <1>1, <2>1, <3>1
    <3>3. \A j \in DOMAIN lists : j > i => lists[j].source # s
      BY <1>1, <2>1
    <3>4. lists[i].ids = ids
      BY <1>3, <3>2, <3>3 DEF Latest, LastWaiting
    <3> QED
      BY <1>1, <3>2, <3>4
  <2>2. LastWaiting(s, ids)'
    BY <2>1 DEF LastWaiting
  <2>3. NoneWaits(s)' => NoneWaits(s)
    BY <1>1 DEF NoneWaits
  <2>4. Entered(s)' = Entered(s)
    BY DEF Entered
  <2> QED
    BY <1>3, <2>2, <2>3, <2>4 DEF Latest
<1> QED
  BY <1>2, <1>3

\* The manager handles a list: it makes the map agree with it, as far as the
\* policies of that source go.
LEMMA ReconcileKeepsLatest ==
  ASSUME ListTypes, Reconcile, NEW s \in {"file", "nomad"}, NEW ids, Latest(s, ids)
  PROVE  Latest(s, ids)'
<1> DEFINE new  == {p \in mgr.ids : entry[p] = None}
           gone == {p \in Of(mgr.source) \ mgr.ids : entry[p] # None}
<1>1. /\ lists' = lists /\ mgr' = Idle /\ mgr # Idle
      /\ entry' = [p \in Policies |->
           IF p \in new THEN created[p] + 1 ELSE IF p \in gone THEN None ELSE entry[p]]
  BY DEF Reconcile
<1>2. mgr \in Lists /\ mgr.source \in {"file", "nomad"} /\ mgr.ids \subseteq Of(mgr.source)
  BY <1>1 DEF ListTypes, Lists
<1>3. LastWaiting(s, ids)'
  BY <1>1 DEF Latest, LastWaiting
<1>4. mgr'.source # s
  BY <1>1 DEF Idle
<1>5. ASSUME NoneWaits(s)' PROVE Entered(s)' \subseteq ids
  <2>1. IF mgr.source = s THEN mgr.ids = ids ELSE Entered(s) \subseteq ids
    BY <1>1, <1>5 DEF Latest, NoneWaits
  <2>2. ASSUME NEW p \in Of(s), entry'[p] # None PROVE p \in ids
    <3>1. p \in Policies /\ SourceOf[p] = s
      BY DEF Of
    <3>2. CASE mgr.source = s
      <4>1. p \notin gone
        BY <1>1, <1>2, <2>2, <3>1
      <4>2. p \in mgr.ids
        BY <1>1, <2>2, <3>1, <3>2, <4>1
      <4> QED
        BY <2>1, <3>2, <4>2
    <3>3. CASE mgr.source # s
      <4>1. p \notin Of(mgr.source)
        BY <3>1, <3>3 DEF Of
      <4>2. p \notin new /\ p \notin gone
        BY <1>2, <4>1
      <4>3. entry[p] # None
        BY <1>1, <2>2, <3>1, <4>2
      <4> QED
        BY <2>1, <2>2, <3>3, <4>3 DEF Entered
    <3> QED
      BY <3>2, <3>3
  <2> QED
    BY <2>2 DEF Entered
<1> QED
  BY <1>3, <1>4, <1>5 DEF Latest

\* Entries may go at any time.
LEMMA FewerKeepsLatest ==
  ASSUME lists' = lists, mgr' = mgr, \A p \in Policies : entry'[p] # None => entry[p] # None,
         NEW s, NEW ids, Latest(s, ids)
  PROVE  Latest(s, ids)'
<1>1. Entered(s)' \subseteq Entered(s)
  BY DEF Entered, Of
<1> QED
  BY <1>1 DEF Latest, LastWaiting, NoneWaits

\* The last lists stay what they were.
LEMMA LatestKept ==
  ASSUME ListInv, ListTypes', UNCHANGED <<scan, watch>>,
         \A s \in {"file", "nomad"} : \A ids : Latest(s, ids) => Latest(s, ids)'
  PROVE  ListInv'
<1>1. PICK f : f = scan.found
  OBVIOUS
<1>2. PICK w : w = watch.ids
  OBVIOUS
<1>3. scan'.found = f /\ watch'.ids = w /\ scan'.pc = scan.pc /\ watch'.pc = watch.pc
  BY <1>1, <1>2
<1>4. /\ scan.pc # "read" => Latest("file", f)
      /\ watch.pc # "list" => Latest("nomad", w)
  BY <1>1, <1>2 DEF ListInv
<1>5. /\ scan.pc # "read" => Latest("file", f)'
      /\ watch.pc # "list" => Latest("nomad", w)'
  BY <1>4
<1> QED
  BY <1>3, <1>5 DEF ListInv

\* Nothing happens to the lists, the map, the scan and the watch.
LEMMA AsideKeepsLists ==
  ASSUME ListInv, UNCHANGED <<lists, mgr, entry, scan, watch, index>>
  PROVE  ListInv'
<1>1. ListTypes'
  BY DEF ListInv, ListTypes
<1>2. \A s \in {"file", "nomad"} : \A ids : Latest(s, ids) => Latest(s, ids)'
  BY FewerKeepsLatest
<1> QED
  BY <1>1, <1>2, LatestKept

LEMMA ClientKeepsLists ==
  ASSUME ListInv, ByClient(ClientStep)
  PROVE  ListInv'
<1>1. ListTypes /\ UNCHANGED <<scan, watch, index>>
  BY DEF ListInv, ByClient, files, nomad
<1>2. CASE ReceiveList
  <2>1. lists' \in Seq(Lists) /\ mgr' \in Lists /\ entry' = entry
    <3>1. lists \in Seq(Lists) /\ lists # <<>>
      BY <1>1, <1>2 DEF ListTypes, ReceiveList
    <3>2. Tail(lists) \in Seq(Lists) /\ Head(lists) \in Lists
      BY <3>1, SMT
    <3> QED
      BY <1>2, <3>2 DEF ReceiveList
  <2>2. ListTypes'
    BY <1>1, <2>1 DEF ListTypes
  <2> QED
    BY <1>1, <1>2, <2>2, ReceiveKeepsLatest, LatestKept
<1>3. CASE Reconcile
  <2>1. ListTypes'
    BY <1>1, <1>3 DEF Reconcile, ListTypes
  <2> QED
    BY <1>1, <1>3, <2>1, ReconcileKeepsLatest, LatestKept
<1>4. ASSUME NEW h \in Handlers, Remove(h) PROVE ListInv'
  <2>1. lists' = lists /\ mgr' = mgr /\ entry' = [entry EXCEPT ![h[1]] = None]
    BY <1>4 DEF Remove
  <2>2. DOMAIN entry' = Policies /\ \A p \in Policies : entry'[p] # None => entry[p] # None
    BY <1>1, <2>1 DEF ListTypes
  <2>3. ListTypes'
    BY <1>1, <2>1, <2>2 DEF ListTypes
  <2>4. \A s \in {"file", "nomad"} : \A ids : Latest(s, ids) => Latest(s, ids)'
    BY <2>1, <2>2, FewerKeepsLatest
  <2> QED
    BY <1>1, <2>3, <2>4, LatestKept
<1>5. CASE UNCHANGED <<lists, mgr, entry>>
  BY <1>1, <1>5, AsideKeepsLists
<1>6. CASE ReceiveError \/ ReloadSources(enabled) \/ ReloadReturns
  BY <1>5, <1>6 DEF ReceiveError, ReloadSources, ReloadReturns
<1>7. ASSUME NEW h \in Handlers, StartHandler(h) \/ Receive(h) \/ TargetGone(h) \/ Leave(h)
      PROVE  ListInv'
  BY <1>5, <1>7 DEF StartHandler, Receive, TargetGone, Leave
<1> QED
  BY <1>2, <1>3, <1>4, <1>6, <1>7 DEF ByClient, ClientStep

\* A list is sent.
LEMMA SendTypes ==
  ASSUME ListTypes, NEW l \in Lists, lists' = Append(lists, l), mgr' = mgr, entry' = entry,
         scan' \in ScanRecords, watch' \in WatchRecords, index' = index
  PROVE  ListTypes'
<1>1. Append(lists, l) \in Seq(Lists)
  BY SMT DEF ListTypes
<1> QED
  BY <1>1 DEF ListTypes

\* The scan or the watch goes on, with nothing to say about its last list.
LEMMA ScanGoesOn ==
  ASSUME ListInv, UNCHANGED <<lists, mgr, entry, watch, index>>, scan' \in ScanRecords,
         scan'.pc # "read" => scan.pc # "read" /\ scan'.found = scan.found
  PROVE  ListInv'
<1>1. ListTypes'
  BY DEF ListInv, ListTypes
<1>2. \A s, ids : Latest(s, ids) => Latest(s, ids)'
  BY FewerKeepsLatest
<1>3. PICK f : f = scan.found
  OBVIOUS
<1>4. PICK w : w = watch.ids
  OBVIOUS
<1>5. /\ scan.pc # "read" => Latest("file", f)'
      /\ watch.pc # "list" => Latest("nomad", w)'
  BY <1>2, <1>3, <1>4 DEF ListInv
<1>6. /\ scan'.pc # "read" => scan.pc # "read" /\ scan'.found = f
      /\ watch'.ids = w /\ watch'.pc = watch.pc
  BY <1>3, <1>4
<1> QED
  BY <1>1, <1>5, <1>6 DEF ListInv

LEMMA WatchGoesOn ==
  ASSUME ListInv, UNCHANGED <<lists, mgr, entry, scan>>, watch' \in WatchRecords, index' \in Nat,
         watch'.pc # "list" => watch.pc # "list" /\ watch'.ids = watch.ids
  PROVE  ListInv'
<1>1. ListTypes'
  BY DEF ListInv, ListTypes
<1>2. \A s, ids : Latest(s, ids) => Latest(s, ids)'
  BY FewerKeepsLatest
<1>3. PICK f : f = scan.found
  OBVIOUS
<1>4. PICK w : w = watch.ids
  OBVIOUS
<1>5. /\ scan.pc # "read" => Latest("file", f)'
      /\ watch.pc # "list" => Latest("nomad", w)'
  BY <1>2, <1>3, <1>4 DEF ListInv
<1>6. /\ watch'.pc # "list" => watch.pc # "list" /\ watch'.ids = w
      /\ scan'.found = f /\ scan'.pc = scan.pc
  BY <1>3, <1>4
<1> QED
  BY <1>1, <1>5, <1>6 DEF ListInv

\* The file source sends the IDs of its scan.
LEMMA SendListKeepsLists ==
  ASSUME ListInv, SendList, UNCHANGED <<watch, index>>
  PROVE  ListInv'
<1> DEFINE l == [source |-> "file", ids |-> scan.found]
<1>1. ListTypes /\ scan \in ScanRecords
  BY DEF ListInv, ListTypes
<1>2. l \in Lists
  <2>1. scan.found \subseteq Of("file") /\ Of("file") \subseteq Policies
    BY <1>1 DEF ScanRecords, Of
  <2> QED
    BY <2>1 DEF Lists
<1>3. lists' = Append(lists, l) /\ mgr' = mgr /\ entry' = entry
  BY DEF SendList
<1>4. PICK k : k = l
  OBVIOUS
<1>5. k \in Lists /\ k.source = "file" /\ k.ids = scan.found
  BY <1>2, <1>4
<1>6. scan' = [scan EXCEPT !.pc = IF scan.reload THEN "complete" ELSE "select"]
  BY DEF SendList
<1>7. scan' \in ScanRecords /\ scan'.found = k.ids
  BY <1>1, <1>5, <1>6 DEF ScanRecords
<1>8. ListTypes'
  BY <1>1, <1>3, <1>4, <1>5, <1>7, SendTypes DEF ListTypes
<1>9. Latest("file", k.ids)' /\ \A ids : Latest("nomad", ids) => Latest("nomad", ids)'
  BY <1>1, <1>3, <1>4, <1>5, AppendKeepsLatest
<1>10. PICK w : w = watch.ids
  OBVIOUS
<1>11. watch'.pc # "list" => Latest("nomad", w)'
  BY <1>9, <1>10 DEF ListInv
<1> QED
  BY <1>7, <1>8, <1>9, <1>10, <1>11 DEF ListInv

\* The Nomad source sends the IDs of its query.
LEMMA SendIDsKeepsLists ==
  ASSUME ListInv, SendIDs, UNCHANGED scan
  PROVE  ListInv'
<1> DEFINE l == [source |-> "nomad", ids |-> watch.ids]
<1>1. ListTypes /\ watch \in WatchRecords
  BY DEF ListInv, ListTypes
<1>2. l \in Lists
  <2>1. watch.ids \subseteq Of("nomad") /\ Of("nomad") \subseteq Policies
    BY <1>1 DEF WatchRecords, Of
  <2> QED
    BY <2>1 DEF Lists
<1>3. lists' = Append(lists, l) /\ mgr' = mgr /\ entry' = entry /\ index' = index
  BY DEF SendIDs
<1>4. PICK k : k = l
  OBVIOUS
<1>5. k \in Lists /\ k.source = "nomad" /\ k.ids = watch.ids
  BY <1>2, <1>4
<1>6. watch' \in WatchRecords /\ watch'.ids = k.ids
  BY <1>1, <1>5 DEF SendIDs, WatchRecords
<1>7. ListTypes'
  BY <1>1, <1>3, <1>4, <1>5, <1>6, SendTypes DEF ListTypes
<1>8. Latest("nomad", k.ids)' /\ \A ids : Latest("file", ids) => Latest("file", ids)'
  BY <1>1, <1>3, <1>4, <1>5, AppendKeepsLatest
<1>9. PICK f : f = scan.found
  OBVIOUS
<1>10. scan'.pc # "read" => Latest("file", f)'
  BY <1>8, <1>9 DEF ListInv
<1> QED
  BY <1>6, <1>7, <1>8, <1>9, <1>10 DEF ListInv

LEMMA FileKeepsLists ==
  ASSUME ListInv, ByFile(FileStep)
  PROVE  ListInv'
<1>1. scan \in ScanRecords /\ UNCHANGED <<watch, index>>
  BY DEF ListInv, ListTypes, ByFile, nomad
<1>2. CASE UNCHANGED <<lists, mgr, entry, scan>>
  BY <1>1, <1>2, AsideKeepsLists
<1>3. ASSUME NEW p \in Of("file"), EditFile(p) PROVE ListInv'
  BY <1>2, <1>3 DEF EditFile, clients
<1>4. CASE ListDirFails
  <2>1. UNCHANGED <<lists, mgr, entry>> /\ scan.pc = "read"
    BY <1>4 DEF ListDirFails, clients
  <2>2. scan' \in ScanRecords /\ scan'.pc = "read"
    BY <1>1, <1>4, <2>1 DEF ListDirFails, ScanRecords
  <2> QED
    BY <1>1, <2>1, <2>2, ScanGoesOn
<1>5. ASSUME NEW p \in Of("file"), ReadFile(p) PROVE ListInv'
  <2>1. UNCHANGED <<lists, mgr, entry>> /\ scan.pc = "read"
    BY <1>5 DEF ReadFile, clients
  <2> DEFINE left == scan.left \ {p}
             found == IF disk[p] \in Contents THEN scan.found \union {p} ELSE scan.found
             failed == scan.failed \/ disk[p] = "invalid"
  <2>2. left \in SUBSET Of("file") /\ found \in SUBSET Of("file") /\ failed \in BOOLEAN
    BY <1>1 DEF ScanRecords
  <2>3. scan' = [scan EXCEPT !.left = left, !.found = found, !.failed = failed]
    BY <1>5 DEF ReadFile
  <2> HIDE DEF left, found, failed
  <2>4. scan' \in ScanRecords /\ scan'.pc = "read"
    BY <1>1, <2>1, <2>2, <2>3 DEF ScanRecords
  <2> QED
    BY <1>1, <2>1, <2>4, ScanGoesOn
<1>6. CASE SendScanError
  <2>1. UNCHANGED <<lists, mgr, entry>> /\ scan.pc = "read"
    BY <1>6 DEF SendScanError
  <2>2. scan' \in ScanRecords /\ scan'.pc = "read"
    BY <1>1, <1>6, <2>1 DEF SendScanError, ScanRecords
  <2> QED
    BY <1>1, <2>1, <2>2, ScanGoesOn
<1>7. CASE ReloadIDs
  <2>1. UNCHANGED <<lists, mgr, entry>> /\ scan' = Scanning(TRUE)
    BY <1>7 DEF ReloadIDs
  <2>2. scan' \in ScanRecords /\ scan'.pc = "read"
    BY <2>1 DEF Scanning, ScanRecords
  <2> QED
    BY <1>1, <2>1, <2>2, ScanGoesOn
<1>8. CASE ReloadComplete
  <2>1. UNCHANGED <<lists, mgr, entry>> /\ scan.pc = "complete"
    BY <1>8 DEF ReloadComplete
  <2>2. scan' \in ScanRecords /\ scan'.found = scan.found
    BY <1>1, <1>8 DEF ReloadComplete, ScanRecords
  <2> QED
    BY <1>1, <2>1, <2>2, ScanGoesOn
<1>9. ASSUME NEW h \in HandlersOf("file"), FileMonitorPolicy(h) PROVE ListInv'
  BY <1>2, <1>9 DEF FileMonitorPolicy, FirstRead, FirstSent, ReceiveReload, Reread, RereadSent,
                    FileMonitorEnds, Read, files
<1> QED
  BY <1>1, <1>3, <1>4, <1>5, <1>6, <1>7, <1>8, <1>9, SendListKeepsLists
     DEF ByFile, FileStep, FileMonitorIDs

LEMMA NomadKeepsLists ==
  ASSUME ListInv, ByNomad(NomadStep)
  PROVE  ListInv'
<1>1. watch \in WatchRecords /\ index \in Nat /\ UNCHANGED scan
  BY DEF ListInv, ListTypes, ByNomad, files
<1>2. ASSUME NEW p \in Of("nomad"), ChangePolicy(p) PROVE ListInv'
  <2>1. UNCHANGED <<lists, mgr, entry, watch>> /\ index' = index + 1
    BY <1>2 DEF ChangePolicy, clients
  <2>2. index' \in Nat
    BY <1>1, <2>1, SMT
  <2> QED
    BY <1>1, <2>1, <2>2, WatchGoesOn
<1>3. CASE ListPolicies
  <2>1. /\ UNCHANGED <<lists, mgr, entry, index>>
        /\ watch' = [pc |-> "list", index |-> index, ids |-> {p \in Of("nomad") : Listed(p)}]
    BY <1>3 DEF ListPolicies, clients
  <2>2. watch' \in WatchRecords /\ watch'.pc = "list"
    BY <1>1, <2>1 DEF WatchRecords
  <2> QED
    BY <1>1, <2>1, <2>2, WatchGoesOn
<1>4. CASE ListFails
  <2>1. UNCHANGED <<lists, mgr, entry, index>> /\ watch.pc = "query"
    BY <1>4 DEF ListFails, clients
  <2>2. watch' \in WatchRecords /\ watch'.ids = watch.ids
    BY <1>1, <1>4 DEF ListFails, WatchRecords
  <2> QED
    BY <1>1, <2>1, <2>2, WatchGoesOn
<1>5. CASE SendListError
  <2>1. UNCHANGED <<lists, mgr, entry, index>> /\ watch.pc = "error"
    BY <1>5 DEF SendListError
  <2>2. watch' \in WatchRecords /\ watch'.ids = watch.ids
    BY <1>1, <1>5 DEF SendListError, WatchRecords
  <2> QED
    BY <1>1, <2>1, <2>2, WatchGoesOn
<1>6. ASSUME NEW h \in HandlersOf("nomad"), NomadMonitorPolicy(h) PROVE ListInv'
  <2>1. UNCHANGED <<lists, mgr, entry, scan, watch, index>>
    BY <1>1, <1>6 DEF NomadMonitorPolicy, GetPolicy, GetPolicyFails, PolicySent, NomadMonitorEnds,
                      OnlyMonitor, nomad
  <2> QED
    BY <2>1, AsideKeepsLists
<1> QED
  BY <1>1, <1>2, <1>3, <1>4, <1>5, <1>6, SendIDsKeepsLists DEF ByNomad, NomadStep, NomadMonitorIDs

\* Once the lists of a source have been handled, the map has handlers only for the
\* policies of the last one, whatever was scanned, sent or removed meanwhile.
\* (Manager.Run, the MonitorIDs of both sources)
THEOREM MapFollowsLists == Spec => []TrackedIsListed
<1>1. Init => ListInv
  <2> HAVE Init
  <2>1. lists = <<>> /\ mgr = Idle /\ scan = Scanning(FALSE) /\ index = 2
        /\ watch = [pc |-> "query", index |-> 1, ids |-> {}] /\ entry = [p \in Policies |-> None]
    BY DEF Init, ClientsInit, FileInit, NomadInit, FirstIndex
  <2>2. lists \in Seq(Lists) /\ DOMAIN lists = {} /\ 1 \in Nat /\ index \in Nat
    BY <2>1, SMT
  <2>3. scan \in ScanRecords /\ scan.pc = "read" /\ watch \in WatchRecords
    BY <2>1, <2>2 DEF Scanning, ScanRecords, WatchRecords
  <2>4. ListTypes
    BY <2>1, <2>2, <2>3 DEF ListTypes
  <2>5. Latest("nomad", watch.ids)
    BY <2>1, <2>2 DEF Latest, LastWaiting, Entered, Of, Idle
  <2> QED
    BY <2>3, <2>4, <2>5 DEF ListInv
<1>2. ListInv /\ [Next]_vars => ListInv'
  <2> SUFFICES ASSUME ListInv, [Next]_vars PROVE ListInv'
    OBVIOUS
  <2>1. CASE UNCHANGED vars
    BY <2>1, AsideKeepsLists DEF vars, clients, files, nomad
  <2> QED
    BY <2>1, ClientKeepsLists, FileKeepsLists, NomadKeepsLists DEF Next
<1>3. ListInv => TrackedIsListed
  BY DEF ListInv, Latest, NoneWaits, Entered, TrackedIsListed, NoListPending
<1> QED
  BY <1>1, <1>2, <1>3, PTL DEF Spec

-----------------------------------------------------------------------------
(* What a handler of the file source has and what its monitor has read     *)

HandlerRecords ==
  [pc : {"free", "spawned", "loop", "exit", "dead"}, stop : BOOLEAN,
   policy : Values \union {NoPolicy}]

MonitorPlaces == {"off", "start", "first", "wait", "reload", "again", "ended", "query", "send"}

MonitorRecords == [pc : MonitorPlaces, read : Values \union {NoPolicy}, index : Nat]

ReadTypes ==
  /\ handler \in [Handlers -> HandlerRecords]
  /\ monitor \in [Handlers -> MonitorRecords]
  /\ offer \in [Handlers -> Values \union {Nothing, Error}]
  /\ created \in [Policies -> Nat]
  /\ disk \in [Of("file") -> States]
  /\ policyMap \in [Of("file") -> Values \union {"unknown", NoPolicy}]
  /\ server \in [Of("nomad") -> States]
  /\ modified \in [Of("nomad") -> Nat] /\ index \in Nat

\* A handler that has not started has no monitor, and one that was not made has
\* not started.
NotStarted ==
  \A h \in Handlers : /\ h[2] > created[h[1]] => handler[h].pc = "free"
                      /\ handler[h].pc \in {"free", "spawned"} => monitor[h].pc = "off"

Agrees(h) ==
  \/ handler[h].policy = monitor[h].read
  \/ monitor[h].read = policyMap[h[1]]
  \/ ReadByAnother(h)

\* What is sent is what was read; once it is received, or when nothing had to be
\* sent, the handler agrees with its monitor.  The first policy that is received
\* is about to be stored.
Informed(h) ==
  /\ monitor[h].pc \in {"off", "start"} => handler[h].policy = monitor[h].read
  /\ monitor[h].pc \notin {"first", "again"} => offer[h] = Nothing
  /\ offer[h] \notin {Nothing, Error} => offer[h] = monitor[h].read
  /\ offer[h] \in {Nothing, Error} =>
       /\ Agrees(h)
       /\ monitor[h].pc = "first" => handler[h].policy = monitor[h].read

ReadInv ==
  /\ ReadTypes
  /\ NotStarted
  /\ \A h \in HandlersOf("file") : Informed(h)

\* Handler h is as it was, for its monitor.
SameReader(h) ==
  handler'[h].policy = handler[h].policy /\ offer'[h] = offer[h] /\ monitor'[h] = monitor[h]

HasRead(h) == monitor[h].pc \notin {"off", "start", "first"}

\* What is stored for the policy of h is the same, or nothing was, or another
\* handler of that policy is past its first read.
StoredKept(h) ==
  \/ policyMap'[h[1]] = policyMap[h[1]]
  \/ policyMap[h[1]] = "unknown"
  \/ ReadByAnother(h)'

LEMMA MarksAreNoPolicies ==
  /\ Values \intersect {"unknown", "absent", "invalid", NoPolicy, Nothing, Error} = {}
  /\ States \ {"absent", "invalid"} \subseteq Values
  BY ContentsAssumption DEF Values, States, NoPolicy, Nothing, Error

LEMMA FileHandlers ==
  ASSUME NEW h \in HandlersOf("file")
  PROVE  h \in Handlers /\ h[1] \in Of("file")
<1>1. h \in Handlers /\ SourceOf[h[1]] = "file"
  BY DEF HandlersOf
<1>2. h[1] \in Policies
  BY <1>1, SMT DEF Handlers
<1> QED
  BY <1>1, <1>2 DEF Of

LEMMA HasReadIsKept ==
  ASSUME \A g \in HandlersOf("file") : HasRead(g) => HasRead(g)', NEW h
  PROVE  ReadByAnother(h) => ReadByAnother(h)'
  BY DEF ReadByAnother, HasRead

\* A step that a handler does not take leaves it informed.
LEMMA OtherIsInformed ==
  ASSUME ReadInv, NEW h \in HandlersOf("file"), SameReader(h), StoredKept(h),
         \A g \in HandlersOf("file") : HasRead(g) => HasRead(g)'
  PROVE  Informed(h)'
<1>1. Informed(h)
  BY DEF ReadInv
<1>2. monitor[h].read # "unknown"
  <2>1. monitor[h] \in MonitorRecords
    BY FileHandlers DEF ReadInv, ReadTypes
  <2>2. monitor[h].read \in Values \union {NoPolicy}
    BY <2>1 DEF MonitorRecords
  <2> QED
    BY <2>2, MarksAreNoPolicies DEF NoPolicy
<1>3. Agrees(h) => Agrees(h)'
  BY <1>2, HasReadIsKept DEF Agrees, SameReader, StoredKept
<1> QED
  BY <1>1, <1>3 DEF Informed, SameReader

\* One handler takes a step.
LEMMA OneReads ==
  ASSUME ReadInv, ReadTypes', NotStarted', NEW h \in HandlersOf("file"), Informed(h)',
         \A g \in HandlersOf("file") \ {h} : SameReader(g) /\ StoredKept(g),
         HasRead(h) => HasRead(h)'
  PROVE  ReadInv'
<1>1. \A g \in HandlersOf("file") : HasRead(g) => HasRead(g)'
  BY DEF SameReader, HasRead
<1>2. \A g \in HandlersOf("file") \ {h} : Informed(g)'
  BY <1>1, OtherIsInformed
<1> QED
  BY <1>2 DEF ReadInv

\* No handler of the file source takes a step.
LEMMA NoneReads ==
  ASSUME ReadInv, ReadTypes', NotStarted',
         \A g \in HandlersOf("file") : SameReader(g) /\ StoredKept(g)
  PROVE  ReadInv'
<1>1. \A g \in HandlersOf("file") : HasRead(g) => HasRead(g)'
  BY DEF SameReader, HasRead
<1>2. \A g \in HandlersOf("file") : Informed(g)'
  BY <1>1, OtherIsInformed
<1> QED
  BY <1>2 DEF ReadInv

\* Nothing that matters to handlers and monitors changes, or other files do.
LEMMA AsideKeepsReads ==
  ASSUME ReadInv, UNCHANGED <<handler, monitor, offer, created, policyMap>>,
         disk' \in [Of("file") -> States], server' \in [Of("nomad") -> States],
         modified' \in [Of("nomad") -> Nat], index' \in Nat
  PROVE  ReadInv'
<1>1. ReadTypes' /\ NotStarted'
  BY DEF ReadInv, ReadTypes, NotStarted
<1>2. \A g \in HandlersOf("file") : SameReader(g) /\ StoredKept(g)
  BY DEF SameReader, StoredKept
<1> QED
  BY <1>1, <1>2, NoneReads

LEMMA ReadFacts ==
  ASSUME ReadInv
  PROVE  /\ handler \in [Handlers -> HandlerRecords] /\ monitor \in [Handlers -> MonitorRecords]
         /\ offer \in [Handlers -> Values \union {Nothing, Error}] /\ created \in [Policies -> Nat]
         /\ disk \in [Of("file") -> States] /\ server \in [Of("nomad") -> States]
         /\ modified \in [Of("nomad") -> Nat] /\ index \in Nat
         /\ policyMap \in [Of("file") -> Values \union {"unknown", NoPolicy}]
         /\ \A h \in Handlers : h[1] \in Policies /\ h[2] \in Nat
<1>1. \A h \in Handlers : h[1] \in Policies /\ h[2] \in Nat
  BY PolicyClientsConstants, SMT DEF Handlers
<1> QED
  BY <1>1 DEF ReadInv, ReadTypes

\* New handlers, and stopped ones.
LEMMA ReconcileKeepsReads ==
  ASSUME ReadInv, Reconcile, UNCHANGED <<disk, policyMap, server, modified, index>>
  PROVE  ReadInv'
<1> DEFINE new  == {p \in mgr.ids : entry[p] = None}
           gone == {p \in Of(mgr.source) \ mgr.ids : entry[p] # None}
<1>1. /\ created' = [p \in Policies |-> IF p \in new THEN created[p] + 1 ELSE created[p]]
      /\ handler' = [h \in Handlers |->
           IF h[1] \in new /\ h[2] = created[h[1]] + 1 THEN [handler[h] EXCEPT !.pc = "spawned"]
           ELSE IF h[1] \in gone /\ InMap(h) /\ handler[h].pc = "loop"
           THEN [handler[h] EXCEPT !.stop = TRUE]
           ELSE handler[h]]
      /\ offer' = offer /\ monitor' = monitor
  BY DEF Reconcile
<1>2. \A p \in Policies : created[p] \in Nat /\ created[p] + 1 \in Nat
  BY ReadFacts, SMT
<1> HIDE DEF new, gone
<1>3. created' \in [Policies -> Nat]
  BY <1>1, <1>2
<1>4. ASSUME NEW h \in Handlers
      PROVE  /\ handler'[h] \in HandlerRecords /\ handler'[h].policy = handler[h].policy
             /\ \/ handler'[h].pc = handler[h].pc
                \/ handler'[h].pc = "spawned" /\ h[1] \in new /\ h[2] = created[h[1]] + 1
  <2>1. handler[h] \in HandlerRecords
    BY ReadFacts
  <2>2. CASE h[1] \in new /\ h[2] = created[h[1]] + 1
    <3>1. handler'[h] = [handler[h] EXCEPT !.pc = "spawned"]
      BY <1>1, <2>2
    <3> QED
      BY <2>1, <2>2, <3>1 DEF HandlerRecords
  <2>3. CASE ~(h[1] \in new /\ h[2] = created[h[1]] + 1) /\ h[1] \in gone /\ InMap(h) /\ handler[h].pc = "loop"
    <3>1. handler'[h] = [handler[h] EXCEPT !.stop = TRUE]
      BY <1>1, <2>3
    <3> QED
      BY <2>1, <3>1 DEF HandlerRecords
  <2>4. CASE handler'[h] = handler[h]
    BY <2>1, <2>4
  <2> QED
    BY <1>1, <2>2, <2>3, <2>4
<1>5. handler' \in [Handlers -> HandlerRecords]
  BY <1>1, <1>4
<1>6. NotStarted'
  <2> SUFFICES ASSUME NEW h \in Handlers
               PROVE  /\ h[2] > created'[h[1]] => handler'[h].pc = "free"
                      /\ handler'[h].pc \in {"free", "spawned"} => monitor'[h].pc = "off"
    BY DEF NotStarted
  <2>1. h[1] \in Policies /\ h[2] \in Nat /\ created[h[1]] \in Nat
    BY <1>2, ReadFacts
  <2>2. /\ h[2] > created[h[1]] => handler[h].pc = "free"
        /\ handler[h].pc \in {"free", "spawned"} => monitor[h].pc = "off"
    BY DEF ReadInv, NotStarted
  <2>3. created'[h[1]] = IF h[1] \in new THEN created[h[1]] + 1 ELSE created[h[1]]
    BY <1>1, <2>1
  <2>4. CASE handler'[h].pc = handler[h].pc
    <3>1. h[2] > created'[h[1]] => h[2] > created[h[1]]
      <4>1. h[2] > created[h[1]] + 1 => h[2] > created[h[1]]
        BY <2>1, SMT
      <4> QED
        BY <2>3, <4>1
    <3> QED
      BY <1>1, <2>2, <2>4, <3>1
  <2>5. CASE handler'[h].pc = "spawned" /\ h[1] \in new /\ h[2] = created[h[1]] + 1
    <3>1. h[2] > created[h[1]] /\ ~(h[2] > created[h[1]] + 1)
      BY <2>1, <2>5, SMT
    <3> QED
      BY <1>1, <2>2, <2>3, <2>5, <3>1
  <2> QED
    BY <1>4, <2>4, <2>5
<1>7. ReadTypes'
  BY <1>1, <1>3, <1>5, ReadFacts DEF ReadTypes
<1>8. \A g \in HandlersOf("file") : SameReader(g) /\ StoredKept(g)
  BY <1>1, <1>4, FileHandlers DEF SameReader, StoredKept
<1> QED
  BY <1>6, <1>7, <1>8, NoneReads

\* A handler starts, and so does its monitor.
LEMMA StartKeepsReads ==
  ASSUME ReadInv, NEW h \in Handlers, StartHandler(h),
         UNCHANGED <<disk, policyMap, server, modified, index>>
  PROVE  ReadInv'
<1>1. /\ handler[h].pc = "spawned" /\ handler' = [handler EXCEPT ![h].pc = "loop"]
      /\ monitor' = [monitor EXCEPT ![h].pc = "start"] /\ UNCHANGED <<offer, created>>
  BY DEF StartHandler, Move
<1>2. /\ handler' \in [Handlers -> HandlerRecords]
      /\ handler'[h].policy = handler[h].policy /\ handler'[h].pc = "loop"
      /\ \A g \in Handlers \ {h} : handler'[g] = handler[g]
  BY <1>1, ReadFacts DEF HandlerRecords
<1>3. /\ monitor' \in [Handlers -> MonitorRecords]
      /\ monitor'[h].read = monitor[h].read /\ monitor'[h].pc = "start"
      /\ \A g \in Handlers \ {h} : monitor'[g] = monitor[g]
  BY <1>1, ReadFacts DEF MonitorRecords, MonitorPlaces
<1>4. ReadTypes'
  BY <1>1, <1>2, <1>3, ReadFacts DEF ReadTypes
<1>5. NotStarted'
  BY <1>1, <1>2, <1>3 DEF ReadInv, NotStarted
<1>6. monitor[h].pc = "off"
  BY <1>1 DEF ReadInv, NotStarted
<1>7. \A g \in HandlersOf("file") \ {h} : SameReader(g) /\ StoredKept(g)
  BY <1>1, <1>2, <1>3, FileHandlers DEF SameReader, StoredKept
<1>8. CASE h \in HandlersOf("file")
  <2>1. Informed(h)
    BY <1>8 DEF ReadInv
  <2>2. Informed(h)'
    BY <1>1, <1>2, <1>3, <1>6, <2>1 DEF Informed, Agrees
  <2> QED
    BY <1>4, <1>5, <1>6, <1>7, <1>8, <2>2, OneReads DEF HasRead
<1> QED
  BY <1>4, <1>5, <1>7, <1>8, NoneReads

\* A handler receives what is sent to it.
LEMMA ReceiveKeepsReads ==
  ASSUME ReadInv, NEW h \in Handlers, Receive(h),
         UNCHANGED <<disk, policyMap, server, modified, index>>
  PROVE  ReadInv'
<1>1. /\ handler[h].pc = "loop" /\ offer[h] # Nothing /\ offer' = [offer EXCEPT ![h] = Nothing]
      /\ handler' = IF offer[h] = Error THEN handler ELSE [handler EXCEPT ![h].policy = offer[h]]
      /\ UNCHANGED <<monitor, created>>
  BY DEF Receive
<1>2. /\ offer' \in [Handlers -> Values \union {Nothing, Error}] /\ offer'[h] = Nothing
      /\ \A g \in Handlers \ {h} : offer'[g] = offer[g]
  BY <1>1, ReadFacts
<1>3. /\ handler' \in [Handlers -> HandlerRecords] /\ handler'[h].pc = "loop"
      /\ handler'[h].policy = IF offer[h] = Error THEN handler[h].policy ELSE offer[h]
      /\ \A g \in Handlers \ {h} : handler'[g] = handler[g]
  <2>1. CASE offer[h] = Error
    BY <1>1, <2>1, ReadFacts
  <2>2. CASE offer[h] # Error
    <3>1. offer[h] \in Values
      BY <1>1, <2>2, ReadFacts
    <3> QED
      BY <1>1, <2>2, <3>1, ReadFacts DEF HandlerRecords
  <2> QED
    BY <2>1, <2>2
<1>4. ReadTypes'
  BY <1>1, <1>2, <1>3, ReadFacts DEF ReadTypes
<1>5. NotStarted'
  BY <1>1, <1>3 DEF ReadInv, NotStarted
<1>6. \A g \in HandlersOf("file") \ {h} : SameReader(g) /\ StoredKept(g)
  BY <1>1, <1>2, <1>3, FileHandlers DEF SameReader, StoredKept
<1>7. CASE h \in HandlersOf("file")
  <2>1. Informed(h)
    BY <1>7 DEF ReadInv
  <2>2. Informed(h)'
    <3>1. CASE offer[h] = Error
      <4>1. Agrees(h)' /\ (monitor[h].pc = "first" => handler[h].policy = monitor[h].read)
        BY <1>1, <1>3, <2>1, <3>1 DEF Informed, Agrees, ReadByAnother
      <4> QED
        BY <1>1, <1>2, <1>3, <2>1, <3>1, <4>1 DEF Informed
    <3>2. CASE offer[h] # Error
      <4>1. handler'[h].policy = monitor'[h].read
        BY <1>1, <1>3, <2>1, <3>2 DEF Informed
      <4> QED
        BY <1>2, <4>1 DEF Informed, Agrees
    <3> QED
      BY <3>1, <3>2
  <2> QED
    BY <1>1, <1>4, <1>5, <1>6, <1>7, <2>2, OneReads DEF HasRead
<1> QED
  BY <1>4, <1>5, <1>6, <1>7, NoneReads

\* A handler stops, or ends.
LEMMA LeaveKeepsReads ==
  ASSUME ReadInv, NEW h \in Handlers, TargetGone(h) \/ Leave(h) \/ Remove(h),
         UNCHANGED <<disk, policyMap, server, modified, index>>
  PROVE  ReadInv'
<1>1. /\ handler[h].pc \in {"loop", "exit"} /\ UNCHANGED <<offer, monitor, created>>
      /\ \/ handler' = [handler EXCEPT ![h].stop = TRUE]
         \/ handler' = [handler EXCEPT ![h].pc = "exit"]
         \/ handler' = [handler EXCEPT ![h].pc = "dead"]
  BY DEF TargetGone, Leave, Remove, Move
<1>2. /\ handler' \in [Handlers -> HandlerRecords] /\ handler'[h].policy = handler[h].policy
      /\ handler'[h].pc \in {"loop", "exit", "dead"}
      /\ \A g \in Handlers \ {h} : handler'[g] = handler[g]
  <2>1. \A g \in Handlers \ {h} : handler'[g] = handler[g]
    BY <1>1, ReadFacts
  <2>2. handler[h] \in HandlerRecords
    BY ReadFacts
  <2>3. /\ \/ handler'[h] = [handler[h] EXCEPT !.stop = TRUE]
           \/ handler'[h] = [handler[h] EXCEPT !.pc = "exit"]
           \/ handler'[h] = [handler[h] EXCEPT !.pc = "dead"]
        /\ handler' = [handler EXCEPT ![h] = handler'[h]]
    BY <1>1, ReadFacts
  <2>4. /\ handler'[h] \in HandlerRecords /\ handler'[h].policy = handler[h].policy
        /\ handler'[h].pc \in {"loop", "exit", "dead"}
    <3>1. CASE handler'[h] = [handler[h] EXCEPT !.stop = TRUE]
      BY <1>1, <2>2, <3>1 DEF HandlerRecords
    <3>2. CASE handler'[h] = [handler[h] EXCEPT !.pc = "exit"]
      BY <2>2, <3>2 DEF HandlerRecords
    <3>3. CASE handler'[h] = [handler[h] EXCEPT !.pc = "dead"]
      BY <2>2, <3>3 DEF HandlerRecords
    <3> QED
      BY <2>3, <3>1, <3>2, <3>3
  <2>5. handler' \in [Handlers -> HandlerRecords]
    BY <2>3, <2>4, ReadFacts
  <2> QED
    BY <2>1, <2>4, <2>5
<1>3. ReadTypes'
  BY <1>1, <1>2, ReadFacts DEF ReadTypes
<1>4. NotStarted'
  BY <1>1, <1>2 DEF ReadInv, NotStarted
<1>5. \A g \in HandlersOf("file") : SameReader(g) /\ StoredKept(g)
  BY <1>1, <1>2, FileHandlers DEF SameReader, StoredKept
<1> QED
  BY <1>3, <1>4, <1>5, NoneReads

LEMMA ClientKeepsReads ==
  ASSUME ReadInv, ByClient(ClientStep)
  PROVE  ReadInv'
<1>1. UNCHANGED <<disk, policyMap, server, modified, index>>
  BY DEF ByClient, files, nomad
<1>2. CASE UNCHANGED <<handler, monitor, offer, created>>
  BY <1>1, <1>2, ReadFacts, AsideKeepsReads
<1>3. CASE ReceiveList \/ ReceiveError \/ ReloadSources(enabled) \/ ReloadReturns
  BY <1>2, <1>3 DEF ReceiveList, ReceiveError, ReloadSources, ReloadReturns
<1> QED
  BY <1>1, <1>3, ReconcileKeepsReads, StartKeepsReads, ReceiveKeepsReads, LeaveKeepsReads
     DEF ByClient, ClientStep

\* The monitor of handler h takes a step; it stores a policy only as it begins to
\* wait for reloads.
LEMMA MonitorMoves ==
  ASSUME ReadInv, NEW h \in HandlersOf("file"), monitor[h].pc # "off",
         NEW m \in MonitorRecords, m.pc \notin {"off", "start"},
         monitor' = [monitor EXCEPT ![h] = m],
         m.pc = "first" => ~HasRead(h),
         NEW o \in Values \union {Nothing, Error}, offer' = [offer EXCEPT ![h] = o],
         policyMap' \in [Of("file") -> Values \union {"unknown", NoPolicy}],
         \/ policyMap' = policyMap
         \/ m.pc = "wait" /\ \A p \in Of("file") \ {h[1]} : policyMap'[p] = policyMap[p],
         UNCHANGED <<handler, created, disk, server, modified, index>>,
         Informed(h)'
  PROVE  ReadInv'
<1>1. h \in Handlers /\ h[1] \in Of("file")
  BY FileHandlers
<1>2. /\ monitor' \in [Handlers -> MonitorRecords] /\ monitor'[h].pc = m.pc
      /\ offer' \in [Handlers -> Values \union {Nothing, Error}]
      /\ \A g \in Handlers \ {h} : monitor'[g] = monitor[g] /\ offer'[g] = offer[g]
  BY <1>1, ReadFacts
<1>3. ReadTypes'
  BY <1>2, ReadFacts DEF ReadTypes
<1>4. NotStarted'
  BY <1>1, <1>2 DEF ReadInv, NotStarted
<1>5. ASSUME NEW g \in HandlersOf("file") \ {h} PROVE SameReader(g) /\ StoredKept(g)
  <2>1. g \in Handlers \ {h} /\ g[1] \in Of("file")
    BY FileHandlers
  <2>2. SameReader(g)
    BY <1>2, <2>1 DEF SameReader
  <2>3. CASE policyMap'[g[1]] = policyMap[g[1]]
    BY <2>2, <2>3 DEF StoredKept
  <2>4. CASE policyMap'[g[1]] # policyMap[g[1]]
    <3>1. g[1] = h[1] /\ m.pc = "wait"
      BY <2>1, <2>4
    <3>2. ReadByAnother(g)'
      BY <1>2, <3>1 DEF ReadByAnother
    <3> QED
      BY <2>2, <3>2 DEF StoredKept
  <2> QED
    BY <2>3, <2>4
<1>6. HasRead(h) => HasRead(h)'
  BY <1>2 DEF HasRead
<1> QED
  BY <1>3, <1>4, <1>5, <1>6, OneReads

\* The monitor goes on without having read anything.
LEMMA MonitorPlaceMoves ==
  ASSUME ReadInv, NEW h \in HandlersOf("file"), offer[h] = Nothing,
         monitor[h].pc \in {"wait", "again"}, NEW to \in {"wait", "reload", "ended"},
         monitor' = [monitor EXCEPT ![h].pc = to],
         UNCHANGED <<handler, created, offer, policyMap, disk, server, modified, index>>
  PROVE  ReadInv'
<1> DEFINE m == [monitor[h] EXCEPT !.pc = to]
<1>1. h \in Handlers /\ h[1] \in Of("file") /\ Informed(h)
  BY FileHandlers DEF ReadInv
<1>2. monitor[h] \in MonitorRecords /\ to \in MonitorPlaces
  BY <1>1, ReadFacts DEF MonitorPlaces
<1>3. m \in MonitorRecords /\ m.pc = to /\ m.read = monitor[h].read
  BY <1>2 DEF MonitorRecords
<1>4. monitor' = [monitor EXCEPT ![h] = m]
  OBVIOUS
<1> HIDE DEF m
<1>5. monitor'[h] = m
  BY <1>1, <1>4, ReadFacts
<1>6. Agrees(h)'
  <2>1. \A g \in HandlersOf("file") \ {h} : monitor'[g] = monitor[g]
    BY <1>4, FileHandlers, ReadFacts
  <2>2. ReadByAnother(h) => ReadByAnother(h)'
    BY <2>1 DEF ReadByAnother
  <2> QED
    BY <1>1, <1>3, <1>5, <2>2 DEF Informed, Agrees
<1>7. Informed(h)'
  BY <1>3, <1>5, <1>6 DEF Informed
<1>8. offer' = [offer EXCEPT ![h] = Nothing] /\ Nothing \in Values \union {Nothing, Error}
  BY ReadFacts
<1> QED
  BY <1>3, <1>4, <1>7, <1>8, MonitorMoves, ReadFacts

\* The monitor reads the file.
LEMMA ReadKeepsReads ==
  ASSUME ReadInv, NEW h \in HandlersOf("file"), FirstRead(h) \/ Reread(h),
         UNCHANGED <<server, modified, index>>
  PROVE  ReadInv'
<1> DEFINE p == h[1]
           from == monitor[h].pc
           to == IF from = "start" THEN "first" ELSE "again"
           r == IF policyMap[p] = "unknown" THEN Error ELSE handleIndividualPolicyRead(p)
           pc == IF r = Nothing THEN "wait" ELSE to
           read == IF r = Error THEN monitor[h].read ELSE disk[p]
           m == [monitor[h] EXCEPT !.pc = pc, !.read = read]
<1>1. h \in Handlers /\ p \in Of("file") /\ Informed(h) /\ monitor[h] \in MonitorRecords
  BY FileHandlers, ReadFacts DEF ReadInv
<1>2. /\ from \in {"start", "reload"} /\ offer' = [offer EXCEPT ![h] = r]
      /\ monitor' = [monitor EXCEPT ![h].pc = pc, ![h].read = read]
      /\ UNCHANGED <<handler, created, disk, policyMap>>
  <2>1. CASE FirstRead(h)
    BY <2>1 DEF FirstRead, Read, files
  <2>2. CASE Reread(h)
    BY <2>2 DEF Reread, Read, files
  <2> QED
    BY <2>1, <2>2
<1>3. disk[p] \in States /\ monitor[h].read \in Values \union {NoPolicy}
  BY <1>1, ReadFacts DEF MonitorRecords
<1>4. Error # Nothing /\ Values \intersect {Nothing, Error} = {}
  BY MarksAreNoPolicies DEF Error, Nothing
<1>5. \/ r = Error
      \/ r = Nothing /\ disk[p] = policyMap[p] /\ disk[p] \in Values
      \/ r = disk[p] /\ disk[p] \in Values
  BY <1>3, MarksAreNoPolicies DEF handleIndividualPolicyRead
<1> HIDE DEF r
<1>6. /\ r \in Values \union {Nothing, Error} /\ read \in Values \union {NoPolicy}
      /\ pc \in MonitorPlaces /\ pc \in {"wait", to}
  BY <1>3, <1>5 DEF MonitorPlaces
<1>7. m \in MonitorRecords /\ m.pc = pc /\ m.read = read
  <2> HIDE DEF pc, read
  <2> QED
    BY <1>1, <1>6 DEF MonitorRecords
<1>8. monitor' = [monitor EXCEPT ![h] = m]
  <2> HIDE DEF pc, read
  <2> QED
    BY <1>1, <1>2 DEF MonitorRecords
<1> HIDE DEF m
<1>9. monitor'[h] = m /\ offer'[h] = r
  BY <1>1, <1>2, <1>8, ReadFacts
<1>10. Informed(h)'
  <2>1. CASE r = Error
    <3>1. pc = to /\ read = monitor[h].read /\ offer[h] = Nothing
      BY <1>1, <1>2, <1>4, <2>1 DEF Informed
    <3>2. \A g \in HandlersOf("file") \ {h} : monitor'[g] = monitor[g]
      BY <1>8, FileHandlers, ReadFacts
    <3>3. Agrees(h)'
      BY <1>1, <1>2, <1>7, <1>9, <3>1, <3>2 DEF Informed, Agrees, ReadByAnother
    <3>4. to = "first" => handler[h].policy = monitor[h].read
      BY <1>1, <1>2 DEF Informed
    <3>5. /\ monitor'[h].pc = to /\ to \in {"first", "again"} /\ offer'[h] = Error
          /\ monitor'[h].read = monitor[h].read /\ handler' = handler
      BY <1>2, <1>7, <1>9, <2>1, <3>1
    <3> QED
      BY <3>3, <3>4, <3>5 DEF Informed
  <2>2. CASE r = Nothing /\ disk[p] = policyMap[p]
    <3>1. pc = "wait" /\ read = policyMap'[p]
      BY <1>2, <1>4, <2>2
    <3>2. Agrees(h)'
      BY <1>7, <1>9, <3>1 DEF Agrees
    <3> QED
      BY <1>7, <1>9, <2>2, <3>1, <3>2 DEF Informed
  <2>3. CASE r = disk[p] /\ disk[p] \in Values
    <3>1. pc = to /\ read = r /\ r \notin {Nothing, Error}
      BY <1>4, <2>3
    <3> QED
      BY <1>7, <1>9, <3>1 DEF Informed
  <2> QED
    BY <1>5, <2>1, <2>2, <2>3
<1>11. monitor[h].pc # "off" /\ pc \notin {"off", "start"} /\ (pc = "first" => ~HasRead(h))
  BY <1>2, <1>6 DEF HasRead
<1>12. policyMap' \in [Of("file") -> Values \union {"unknown", NoPolicy}]
  BY <1>2, ReadFacts
<1> HIDE DEF pc, read
<1> QED
  BY <1>2, <1>6, <1>7, <1>8, <1>10, <1>11, <1>12, MonitorMoves

\* The first policy was received and is stored.
LEMMA FirstSentKeepsReads ==
  ASSUME ReadInv, NEW h \in HandlersOf("file"), FirstSent(h), UNCHANGED <<server, modified, index>>
  PROVE  ReadInv'
<1> DEFINE m == [monitor[h] EXCEPT !.pc = "wait"]
<1>1. h \in Handlers /\ h[1] \in Of("file") /\ Informed(h) /\ monitor[h] \in MonitorRecords
  BY FileHandlers, ReadFacts DEF ReadInv
<1>2. /\ monitor[h].pc = "first" /\ offer[h] = Nothing
      /\ monitor' = [monitor EXCEPT ![h].pc = "wait"]
      /\ policyMap' = IF monitor[h].read = NoPolicy THEN policyMap
                      ELSE [policyMap EXCEPT ![h[1]] = monitor[h].read]
      /\ UNCHANGED <<handler, created, offer, disk>>
  BY DEF FirstSent
<1>3. m \in MonitorRecords /\ m.pc = "wait" /\ m.read = monitor[h].read
  BY <1>1 DEF MonitorRecords, MonitorPlaces
<1>4. monitor' = [monitor EXCEPT ![h] = m]
  BY <1>2
<1> HIDE DEF m
<1>5. monitor'[h] = m
  BY <1>1, <1>4, ReadFacts
<1>6. handler[h].policy = monitor[h].read /\ monitor[h].read \in Values \union {NoPolicy}
  BY <1>1, <1>2 DEF Informed, MonitorRecords
<1>7. Informed(h)'
  BY <1>2, <1>3, <1>5, <1>6 DEF Informed, Agrees
<1>8. /\ policyMap' \in [Of("file") -> Values \union {"unknown", NoPolicy}]
      /\ \A p \in Of("file") \ {h[1]} : policyMap'[p] = policyMap[p]
  BY <1>1, <1>2, <1>6, ReadFacts
<1>9. offer' = [offer EXCEPT ![h] = Nothing] /\ Nothing \in Values \union {Nothing, Error}
  BY <1>2, ReadFacts
<1> QED
  BY <1>2, <1>3, <1>4, <1>7, <1>8, <1>9, MonitorMoves

LEMMA FileKeepsReads ==
  ASSUME ReadInv, ByFile(FileStep)
  PROVE  ReadInv'
<1>1. UNCHANGED <<server, modified, index>>
  BY DEF ByFile, nomad
<1>2. CASE UNCHANGED <<handler, monitor, offer, created, policyMap, disk>>
  BY <1>1, <1>2, AsideKeepsReads, ReadFacts
<1>3. ASSUME NEW p \in Of("file"), EditFile(p) PROVE ReadInv'
  <2>1. PICK v \in States : disk' = [disk EXCEPT ![p] = v]
    BY <1>3 DEF EditFile
  <2>2. disk' \in [Of("file") -> States]
    BY <2>1, ReadFacts
  <2> QED
    BY <1>1, <1>3, <2>2, AsideKeepsReads, ReadFacts DEF EditFile, clients
<1>4. ASSUME NEW p \in Of("file"), ReadFile(p) PROVE ReadInv'
  <2>1. UNCHANGED <<handler, monitor, offer, created, disk>>
    BY <1>4 DEF ReadFile, clients
  <2>2. policyMap' \in [Of("file") -> Values \union {"unknown", NoPolicy}]
    BY <1>4, ReadFacts DEF ReadFile
  <2>3. \A q \in Of("file") : policyMap'[q] = policyMap[q] \/ policyMap[q] = "unknown"
    BY <1>4, ReadFacts DEF ReadFile
  <2>4. ReadTypes' /\ NotStarted'
    BY <1>1, <2>1, <2>2 DEF ReadInv, ReadTypes, NotStarted
  <2>5. \A g \in HandlersOf("file") : SameReader(g) /\ StoredKept(g)
    BY <2>1, <2>3, FileHandlers DEF SameReader, StoredKept
  <2> QED
    BY <2>4, <2>5, NoneReads
<1>5. CASE ListDirFails \/ SendScanError \/ SendList \/ ReloadIDs \/ ReloadComplete
  BY <1>2, <1>5 DEF ListDirFails, SendScanError, SendList, ReloadIDs, ReloadComplete, clients
<1>6. ASSUME NEW h \in HandlersOf("file"), FileMonitorPolicy(h) PROVE ReadInv'
  <2>1. CASE FirstRead(h) \/ Reread(h)
    BY <1>1, <2>1, ReadKeepsReads
  <2>2. CASE FirstSent(h)
    BY <1>1, <2>2, FirstSentKeepsReads
  <2>3. CASE ReceiveReload(h) \/ RereadSent(h) \/ FileMonitorEnds(h)
    <3>1. UNCHANGED <<handler, created, offer, policyMap, disk, server, modified, index>>
      BY <1>1, <2>3 DEF ReceiveReload, RereadSent, FileMonitorEnds, files
    <3>2. offer[h] = Nothing
      BY <2>3 DEF ReceiveReload, RereadSent, FileMonitorEnds, ReadInv, Informed
    <3>3. CASE ReceiveReload(h)
      <4>1. /\ "reload" \in {"wait", "reload", "ended"} /\ monitor[h].pc \in {"wait", "again"}
            /\ monitor' = [monitor EXCEPT ![h].pc = "reload"]
        BY <3>3 DEF ReceiveReload
      <4> QED
        BY <3>1, <3>2, <4>1, MonitorPlaceMoves
    <3>4. CASE RereadSent(h)
      <4>1. /\ "wait" \in {"wait", "reload", "ended"} /\ monitor[h].pc \in {"wait", "again"}
            /\ monitor' = [monitor EXCEPT ![h].pc = "wait"]
        BY <3>4 DEF RereadSent
      <4> QED
        BY <3>1, <3>2, <4>1, MonitorPlaceMoves
    <3>5. CASE FileMonitorEnds(h)
      <4>1. /\ "ended" \in {"wait", "reload", "ended"} /\ monitor[h].pc \in {"wait", "again"}
            /\ monitor' = [monitor EXCEPT ![h].pc = "ended"]
        BY <3>5 DEF FileMonitorEnds
      <4> QED
        BY <3>1, <3>2, <4>1, MonitorPlaceMoves
    <3> QED
      BY <2>3, <3>3, <3>4, <3>5
  <2> QED
    BY <1>6, <2>1, <2>2, <2>3 DEF FileMonitorPolicy
<1> QED
  BY <1>3, <1>4, <1>5, <1>6 DEF ByFile, FileStep, FileMonitorIDs

\* A handler of the Nomad source is none of the file source.
LEMMA NomadHandlers ==
  ASSUME NEW h \in HandlersOf("nomad")
  PROVE  h \in Handlers \ HandlersOf("file") /\ h[1] \in Of("nomad")
  BY DEF HandlersOf, Handlers, Of

LEMMA NomadMonitorKeepsReads ==
  ASSUME ReadInv, NEW h \in HandlersOf("nomad"), NomadMonitorPolicy(h),
         UNCHANGED <<disk, policyMap>>
  PROVE  ReadInv'
<1>1. h \in Handlers \ HandlersOf("file") /\ h[1] \in Of("nomad")
  BY NomadHandlers
<1>2. UNCHANGED <<handler, created, disk, policyMap, server, modified, index>>
  BY DEF NomadMonitorPolicy, GetPolicy, GetPolicyFails, PolicySent, NomadMonitorEnds,
         OnlyMonitor, nomad
<1>3. monitor[h] \in MonitorRecords /\ modified[h[1]] \in Nat /\ server[h[1]] \in States
  BY <1>1, ReadFacts
<1>4. PICK m \in MonitorRecords : monitor' = [monitor EXCEPT ![h] = m]
  <2>1. ASSUME NEW to \in MonitorPlaces, monitor' = [monitor EXCEPT ![h].pc = to]
        PROVE  \E m \in MonitorRecords : monitor' = [monitor EXCEPT ![h] = m]
    <3>1. [monitor[h] EXCEPT !.pc = to] \in MonitorRecords
      BY <1>3 DEF MonitorRecords
    <3> QED
      BY <2>1, <3>1
  <2>2. ASSUME NEW to \in MonitorPlaces, NEW i \in Nat,
               monitor' = [monitor EXCEPT ![h].pc = to, ![h].index = i]
        PROVE  \E m \in MonitorRecords : monitor' = [monitor EXCEPT ![h] = m]
    <3> DEFINE m == [monitor[h] EXCEPT !.pc = to, !.index = i]
    <3>1. m \in MonitorRecords
      BY <1>3 DEF MonitorRecords
    <3>2. monitor' = [monitor EXCEPT ![h] = m]
      BY <1>1, <2>2, ReadFacts
    <3> QED
      BY <3>1, <3>2
  <2>3. {"send", "query", "ended"} \subseteq MonitorPlaces
    BY DEF MonitorPlaces
  <2>4. CASE GetPolicy(h)
    <3>1. monitor' = [monitor EXCEPT ![h].pc = "send", ![h].index = modified[h[1]]]
      BY <2>4 DEF GetPolicy
    <3>2. PICK i \in Nat : i = modified[h[1]]
      BY <1>3
    <3> QED
      BY <2>2, <2>3, <3>1, <3>2
  <2>5. CASE GetPolicyFails(h)
    BY <2>1, <2>3, <2>5 DEF GetPolicyFails
  <2>6. CASE PolicySent(h)
    BY <2>1, <2>3, <2>6 DEF PolicySent
  <2>7. CASE NomadMonitorEnds(h)
    BY <2>1, <2>3, <2>7 DEF NomadMonitorEnds
  <2> QED
    BY <2>4, <2>5, <2>6, <2>7 DEF NomadMonitorPolicy
<1>5. PICK o \in Values \union {Nothing, Error} : offer' = [offer EXCEPT ![h] = o]
  <2>1. CASE GetPolicy(h)
    <3>1. server[h[1]] = "invalid" \/ server[h[1]] \in Values
      BY <1>3, <2>1, MarksAreNoPolicies DEF GetPolicy
    <3> QED
      BY <2>1, <3>1 DEF GetPolicy
  <2>2. CASE GetPolicyFails(h)
    BY <2>2 DEF GetPolicyFails
  <2>3. CASE UNCHANGED offer
    <3>1. offer' = [offer EXCEPT ![h] = offer[h]] /\ offer[h] \in Values \union {Nothing, Error}
      BY <1>1, <2>3, ReadFacts
    <3> QED
      BY <3>1
  <2> QED
    BY <2>1, <2>2, <2>3 DEF NomadMonitorPolicy, PolicySent, NomadMonitorEnds
<1>6. /\ monitor' \in [Handlers -> MonitorRecords]
      /\ offer' \in [Handlers -> Values \union {Nothing, Error}]
      /\ \A g \in Handlers \ {h} : monitor'[g] = monitor[g] /\ offer'[g] = offer[g]
  BY <1>1, <1>4, <1>5, ReadFacts
<1>7. ReadTypes'
  BY <1>2, <1>6 DEF ReadInv, ReadTypes
<1>8. monitor[h].pc # "off"
  BY DEF NomadMonitorPolicy, GetPolicy, GetPolicyFails, PolicySent, NomadMonitorEnds, AtQuery
<1>9. NotStarted'
  BY <1>1, <1>2, <1>6, <1>8 DEF ReadInv, NotStarted
<1>10. \A g \in HandlersOf("file") : SameReader(g) /\ StoredKept(g)
  BY <1>1, <1>2, <1>6, FileHandlers DEF SameReader, StoredKept
<1> QED
  BY <1>7, <1>9, <1>10, NoneReads

LEMMA NomadKeepsReads ==
  ASSUME ReadInv, ByNomad(NomadStep)
  PROVE  ReadInv'
<1>1. UNCHANGED <<disk, policyMap>>
  BY DEF ByNomad, files
<1>2. ASSUME NEW p \in Of("nomad"), ChangePolicy(p) PROVE ReadInv'
  <2>1. PICK v \in States : server' = [server EXCEPT ![p] = v]
    BY <1>2 DEF ChangePolicy
  <2>2. index \in Nat /\ index' = index + 1 /\ modified' = [modified EXCEPT ![p] = index + 1]
    BY <1>2, ReadFacts DEF ChangePolicy
  <2>3. index' \in Nat /\ index + 1 \in Nat
    BY <2>2, SMT
  <2>4. server' \in [Of("nomad") -> States] /\ modified' \in [Of("nomad") -> Nat]
    BY <2>1, <2>2, <2>3, ReadFacts
  <2> QED
    BY <1>1, <1>2, <2>3, <2>4, AsideKeepsReads, ReadFacts DEF ChangePolicy, clients
<1>3. CASE NomadMonitorIDs
  <2>1. UNCHANGED <<handler, monitor, offer, created, server, modified, index>>
    BY <1>3 DEF NomadMonitorIDs, ListPolicies, ListFails, SendIDs, SendListError, clients
  <2> QED
    BY <1>1, <2>1, AsideKeepsReads, ReadFacts
<1> QED
  BY <1>1, <1>2, <1>3, NomadMonitorKeepsReads DEF ByNomad, NomadStep

\* A handler of the file source has the policy its monitor read last, unless that
\* one is the stored policy or another handler of the ID has read it: whatever is
\* edited, reloaded, stopped and started again in between.  (MonitorPolicy and
\* handleIndividualPolicyRead)
THEOREM StaleIsStored == Spec => []StaleOnlyIfStored
<1>1. Init => ReadInv
  <2> HAVE Init
  <2>1. /\ created = [p \in Policies |-> 0]
        /\ handler = [h \in Handlers |-> [pc |-> "free", stop |-> FALSE, policy |-> NoPolicy]]
        /\ offer = [h \in Handlers |-> Nothing]
        /\ monitor = [h \in Handlers |-> [pc |-> "off", read |-> NoPolicy, index |-> 1]]
        /\ disk \in [Of("file") -> States] /\ policyMap = [p \in Of("file") |-> "unknown"]
        /\ server \in [Of("nomad") -> States]
        /\ modified = [p \in Of("nomad") |-> 2] /\ index = 2
    BY DEF Init, ClientsInit, FileInit, NomadInit, FirstIndex
  <2>2. 0 \in Nat /\ 1 \in Nat /\ 2 \in Nat
    BY SMT
  <2>3. [pc |-> "off", read |-> NoPolicy, index |-> 1] \in MonitorRecords
    BY <2>2 DEF MonitorRecords, MonitorPlaces
  <2>4. [pc |-> "free", stop |-> FALSE, policy |-> NoPolicy] \in HandlerRecords
    BY DEF HandlerRecords
  <2>5. ReadTypes
    BY <2>1, <2>2, <2>3, <2>4 DEF ReadTypes
  <2>6. NotStarted
    BY <2>1 DEF NotStarted
  <2>7. \A h \in HandlersOf("file") : Informed(h)
    BY <2>1, FileHandlers DEF Informed, Agrees
  <2> QED
    BY <2>5, <2>6, <2>7 DEF ReadInv
<1>2. ReadInv /\ [Next]_vars => ReadInv'
  <2> SUFFICES ASSUME ReadInv, [Next]_vars PROVE ReadInv'
    OBVIOUS
  <2>1. CASE UNCHANGED vars
    BY <2>1, AsideKeepsReads, ReadFacts DEF vars, clients, files, nomad
  <2> QED
    BY <2>1, ClientKeepsReads, FileKeepsReads, NomadKeepsReads DEF Next
<1>3. ReadInv => StaleOnlyIfStored
  BY DEF ReadInv, Informed, Agrees, StaleOnlyIfStored, Quiet
<1> QED
  BY <1>1, <1>2, <1>3, PTL DEF Spec

=============================================================================
