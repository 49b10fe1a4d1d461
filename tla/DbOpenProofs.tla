---------------------------- MODULE DbOpenProofs ----------------------------
(***************************************************************************)
(* Whatever fails and whoever stops, for any set of processes and any      *)
(* bound on the file numbers: CURRENT names a manifest that recovery       *)
(* accepts, no number names a file in use, an open database can be         *)
(* recovered, and the directory goes from one installed state to the next. *)
(***************************************************************************)
EXTENDS DbOpen, TLAPS

-----------------------------------------------------------------------------
(* The inductive invariant.                                                *)

\* Where a process is: inside Open, and then it has taken LOCK, or not.
NewPcs == {"new create", "new write", "new sync", "new remove"}
TempPcs == {"temp write", "temp sync", "rename", "temp remove"}
RecoveredPcs == {"reuse", "logs", "new log"}
ApplyPcs == {"apply begin", "apply create", "apply snapshot", "apply edit", "apply sync",
             "apply remove"}
DonePcs == {"obsolete", "remove", "open"}
InsidePcs == {"exists", "recover"} \cup NewPcs \cup TempPcs \cup RecoveredPcs \cup ApplyPcs
             \cup DonePcs
OutsidePcs == {"lock", "down", "failed", "assert db_lock_", "assert descriptor_file_"} \cup Null
Pcs == InsidePcs \cup OutsidePcs
Inside(r) == r.pc \in InsidePcs

Records == [kind : {"snapshot", "edit"}, log : Nat, next : Nat]
Manifests == [exists : BOOLEAN, records : Seq(Records), synced : Nat]
Currents == [exists : BOOLEAN, names : Nat, synced : BOOLEAN]
FileNames ==
    [word : {"", "MANIFEST-", "LOCK", "CURRENT"}, numeral : Seq(Nat),
     suffix : {"", ".log", ".dbtmp"}]
\* A list of versions.
ListType ==
    [alive : SUBSET Versions, current : Int, refs : [Versions -> Int],
     next : [Versions -> Int], prev : [Versions -> Int]]
ProcRecords ==
    [pc : Pcs, create : BOOLEAN, error : BOOLEAN, manifest : Nat, next : Nat,
     log_number : Nat, log : Nat, save : BOOLEAN, installing : Nat,
     doomed : SUBSET FileNames, versions : ListType]

TypeOK ==
    /\ lock \in Procs \cup {NoProc}
    /\ current \in Currents
    /\ manifests \in [Numbers -> Manifests]
    /\ temps \in [Numbers -> {"absent", "written", "synced"}]
    /\ logs \in SUBSET Nat
    /\ procs \in [Procs -> ProcRecords]

\* The edit e is in the manifest m, and durable there.
HasEdit(m, e) == m.exists /\ e.kind = "edit" /\ \E i \in DOMAIN m.records : m.records[i] = e
DurableEdit(m, e) == m.exists /\ e.kind = "edit" /\ \E i \in 1..m.synced : m.records[i] = e

\* A manifest has one edit at most, which leaves the numbers after its own free.
ManifestOK(m, n) ==
    /\ m.synced <= Len(m.records)
    /\ \A i, j \in Edits(m.records) : i = j
    /\ \A i \in Edits(m.records) :
         /\ m.records[i].log < m.records[i].next
         /\ n < m.records[i].next /\ m.records[i].next <= n + 2

\* CURRENT, once there, is durable and names a manifest with a durable edit.
CurrentOK(c, ms) ==
    IF c.exists THEN /\ c.names \in Numbers /\ c.synced
                     /\ \E e \in Records : DurableEdit(ms[c.names], e)
                ELSE c = NoCurrent

Creating(r) == r.pc \in NewPcs \/ (r.pc \in TempPcs /\ r.installing = 1)
Applying(r) == r.pc \in ApplyPcs \/ (r.pc \in TempPcs /\ r.installing # 1)

\* NewDB creates a manifest in a directory without CURRENT.
CreatingOK(r, c, ms) ==
    Creating(r) =>
      /\ ~c.exists
      /\ r.pc = "new write" => ms[1] = Created
      /\ r.pc = "new sync" => HasEdit(ms[1], Edit(0, 2))
      /\ r.pc \in TempPcs \ {"temp remove"} => DurableEdit(ms[1], Edit(0, 2))

\* Recovery finds the numbers it found.
ExistsOK(r, c) ==
    /\ r.pc \in {"exists", "recover"} /\ c.exists => c.names + 3 <= MaxNumber
    /\ r.pc = "recover" => c.exists

\* What was recovered is what a recovery would still read.
LogNumberOK(r, c, ms) ==
    r.pc \in RecoveredPcs \cup DonePcs \/ Applying(r) =>
      /\ c.exists
      /\ \E e \in Records : DurableEdit(ms[c.names], e) /\ e.log = r.log_number

\* A new manifest and a new log have numbers behind all that is in use.
RecoveredOK(r, c, ls) ==
    r.pc \in RecoveredPcs =>
      /\ r.next > r.log_number
      /\ r.save \/ r.pc = "reuse" =>
           r.manifest \in Numbers /\ r.manifest > c.names /\ r.next = r.manifest + 1
      /\ ~r.save /\ r.pc # "reuse" => r.manifest = c.names
      /\ r.pc = "reuse" => ~r.save
      /\ r.pc = "new log" => \A n \in ls : n < r.log_number

\* log_any_apply fills a manifest that CURRENT does not name.
ApplyingOK(r, c, ms, ls) ==
    Applying(r) =>
      /\ r.manifest \in Numbers /\ r.manifest > c.names
      /\ r.log = r.manifest + 1 /\ r.next = r.manifest + 2 /\ r.log > r.log_number
      /\ r.log \in ls
      /\ r.pc = "apply snapshot" => ms[r.manifest] = Created
      /\ r.pc = "apply edit" => ms[r.manifest].exists /\ Edits(ms[r.manifest].records) = {}
      /\ r.pc = "apply sync" => HasEdit(ms[r.manifest], Edit(r.log, r.next))
      /\ r.pc \in TempPcs => r.installing = r.manifest
      /\ r.pc \in TempPcs \ {"temp remove"} =>
           DurableEdit(ms[r.manifest], Edit(r.log, r.next))

\* CURRENT is renamed from a synced file.
RenameOK(r, ts) == r.pc = "rename" => ts[r.installing] = "synced"

\* RemoveObsoleteFiles and the open database.
DoneOK(r, c, ls) ==
    /\ r.pc \in DonePcs =>
         c.names = r.manifest /\ r.log \in ls /\ r.log_number <= r.log
    /\ r.pc = "remove" =>
         \A name \in r.doomed :
           /\ name # CurrentFileName
           /\ name # DescriptorFileName(r.manifest)
           /\ name # LogFileName(r.log)

PlaceOK(r, c, ms, ts, ls) ==
    /\ CreatingOK(r, c, ms) /\ ExistsOK(r, c) /\ LogNumberOK(r, c, ms)
    /\ RecoveredOK(r, c, ls) /\ ApplyingOK(r, c, ms, ls)
    /\ RenameOK(r, ts) /\ DoneOK(r, c, ls)

DiskOK(c, ms) == (\A n \in Numbers : ManifestOK(ms[n], n)) /\ CurrentOK(c, ms)

\* The list runs through c alone, which the version_set counts once.
Alone(vs, c) ==
    /\ vs \in ListType /\ vs.alive = {Dummy, c} /\ vs.current = c
    /\ \A v \in Versions : vs.refs[v] = IF v = c THEN 1 ELSE 0
    /\ vs.next[Dummy] = c /\ vs.next[c] = Dummy /\ vs.prev[Dummy] = c /\ vs.prev[c] = Dummy

\* The same, with a version that is linked to itself or, as in the code, to nothing.
Building(vs, c, w) ==
    /\ vs \in ListType /\ vs.alive = {Dummy, c, w} /\ vs.current = c
    /\ \A v \in Versions : vs.refs[v] = IF v = c THEN 1 ELSE 0
    /\ vs.next[Dummy] = c /\ vs.next[c] = Dummy /\ vs.prev[Dummy] = c /\ vs.prev[c] = Dummy
    /\ vs.next[w] = vs.prev[w] /\ vs.prev[w] \in {w, NullVersion}

\* Which versions a process has, by its place.
VersionsOK(r) ==
    /\ r.pc \in {"lock", "exists", "recover"} \/ Creating(r) => Alone(r.versions, 1)
    /\ r.pc \in RecoveredPcs \cup {"apply begin"} => Alone(r.versions, 2)
    /\ (Applying(r) /\ r.pc # "apply begin") \/ r.pc = "null version" => Building(r.versions, 2, 3)
    /\ r.pc \in DonePcs => \E c \in {2, 3} : Alone(r.versions, c)
    /\ r.pc \in Ended \ ({"down", "open"} \cup Null) => \E c \in {1, 2} : Alone(r.versions, c)

IInv ==
    /\ TypeOK
    /\ \A p \in Procs : VersionsOK(procs[p])
    /\ DiskOK(current, manifests)
    /\ \A p \in Procs : Inside(procs[p]) =>
         lock = p /\ PlaceOK(procs[p], current, manifests, temps, logs)

-----------------------------------------------------------------------------
(* Manifests.                                                              *)

LEMMA NumbersFacts ==
    Numbers \subseteq Nat /\ 1 \in Numbers /\ 0 \notin Numbers /\ MaxNumber \in Nat
BY NumberAssumption DEF Numbers

LEMMA NewManifestOK ==
    ASSUME NEW n \in Numbers
    PROVE  /\ Absent \in Manifests /\ ManifestOK(Absent, n)
           /\ Created \in Manifests /\ ManifestOK(Created, n)
           /\ Created.exists /\ Edits(Created.records) = {}
<1>1. <<>> \in Seq(Records)
  OBVIOUS
<1>2. Absent \in Manifests
  BY <1>1 DEF Manifests, Absent
<1>3. Created \in Manifests /\ Created.exists /\ Created.records = Absent.records
      /\ Created.synced = Absent.synced
  BY <1>2 DEF Manifests, Created
<1>4. Absent.synced = 0 /\ Absent.records = <<>>
  BY DEF Absent
<1>5. Edits(<<>>) = {}
  BY DEF Edits
<1>6. ManifestOK(Absent, n) /\ ManifestOK(Created, n)
  BY <1>3, <1>4, <1>5 DEF ManifestOK
<1> QED
  BY <1>2, <1>3, <1>4, <1>5, <1>6

\* A record is appended to a manifest that has no edit.
LEMMA AppendOK ==
    ASSUME NEW n \in Numbers, NEW m \in Manifests, ManifestOK(m, n), m.exists,
           Edits(m.records) = {}, NEW e \in Records,
           e.kind = "edit" => e.log < e.next /\ n < e.next /\ e.next <= n + 2,
           NEW k, k = [m EXCEPT !.records = Append(@, e)]
    PROVE  /\ k \in Manifests /\ ManifestOK(k, n) /\ k.exists
           /\ e.kind = "edit" => HasEdit(k, e)
           /\ e.kind # "edit" => Edits(k.records) = {}
<1>1. /\ m.records \in Seq(Records) /\ m.synced \in Nat /\ m.synced <= Len(m.records)
      /\ Len(m.records) \in Nat
  BY DEF Manifests, ManifestOK
<1>2. k.exists = m.exists /\ k.records = Append(m.records, e) /\ k.synced = m.synced
  BY DEF Manifests
<1>3. /\ k.records \in Seq(Records) /\ Len(k.records) = Len(m.records) + 1
      /\ DOMAIN k.records = 1..(Len(m.records) + 1)
      /\ \A i \in 1..Len(m.records) : k.records[i] = m.records[i]
      /\ k.records[Len(m.records) + 1] = e
  BY <1>1, <1>2
<1>4. k \in Manifests
  BY <1>2, <1>3 DEF Manifests
<1>5. \A i \in Edits(k.records) : i = Len(m.records) + 1 /\ k.records[i] = e
  <2> SUFFICES ASSUME NEW i \in Edits(k.records), i # Len(m.records) + 1 PROVE FALSE
    BY <1>3
  <2>1. i \in 1..Len(m.records) /\ k.records[i].kind = "edit"
    BY <1>1, <1>3 DEF Edits
  <2>2. i \in Edits(m.records)
    BY <1>1, <1>3, <2>1 DEF Edits
  <2> QED
    BY <2>2
<1>6. ManifestOK(k, n)
  BY <1>1, <1>2, <1>3, <1>5 DEF ManifestOK, Edits
<1>7. e.kind = "edit" => HasEdit(k, e)
  BY <1>1, <1>2, <1>3 DEF HasEdit
<1>8. e.kind # "edit" => Edits(k.records) = {}
  BY <1>5 DEF Edits
<1> QED
  BY <1>2, <1>4, <1>6, <1>7, <1>8

LEMMA SyncOK ==
    ASSUME NEW n \in Numbers, NEW m \in Manifests, ManifestOK(m, n), NEW e, HasEdit(m, e),
           NEW k, k = [m EXCEPT !.synced = Len(m.records)]
    PROVE  k \in Manifests /\ ManifestOK(k, n) /\ DurableEdit(k, e)
<1>1. m.records \in Seq(Records) /\ m.synced \in Nat /\ Len(m.records) \in Nat
  BY DEF Manifests
<1>2. k.exists = m.exists /\ k.records = m.records /\ k.synced = Len(m.records)
  BY DEF Manifests
<1>3. k \in Manifests
  BY <1>1, <1>2 DEF Manifests
<1> QED
  BY <1>1, <1>2, <1>3 DEF ManifestOK, HasEdit, DurableEdit

\* What recovery reads from the durable records of a manifest.
LEMMA OneEdit ==
    ASSUME NEW n \in Numbers, NEW m \in Manifests, ManifestOK(m, n), NEW e \in Records,
           DurableEdit(m, e)
    PROVE  /\ Recoverable(m) /\ LastEdit(m.records) = e
           /\ Edits(SubSeq(m.records, 1, m.synced)) # {}
           /\ LastEdit(SubSeq(m.records, 1, m.synced)) = e
           /\ e.log < e.next /\ n < e.next /\ e.next <= n + 2
<1> DEFINE s == SubSeq(m.records, 1, m.synced)
<1>1. /\ m.records \in Seq(Records) /\ m.synced \in Nat /\ Len(m.records) \in Nat
      /\ m.synced <= Len(m.records) /\ DOMAIN m.records = 1..Len(m.records)
  BY DEF Manifests, ManifestOK
<1>2. s \in Seq(Records) /\ Len(s) = m.synced /\ DOMAIN s = 1..m.synced
      /\ \A i \in 1..m.synced : s[i] = m.records[i]
  BY <1>1
<1>3. PICK i \in 1..m.synced : m.records[i] = e
  BY DEF DurableEdit
<1>4. i \in Edits(m.records) /\ i \in Edits(s)
  BY <1>1, <1>2, <1>3 DEF DurableEdit, Edits
<1>5. \A j \in Edits(m.records) : j = i
  BY <1>4 DEF ManifestOK
<1>6. \A j \in Edits(s) : j = i
  BY <1>1, <1>2, <1>5 DEF Edits
<1>7. Edits(m.records) = {i} /\ Edits(s) = {i}
  BY <1>4, <1>5, <1>6
<1> HIDE DEF s
<1>8. \A t : Edits(t) = {i} => LastEdit(t) = t[i]
  <2> TAKE t
  <2> HAVE Edits(t) = {i}
  <2>1. (CHOOSE k \in Edits(t) : \A j \in Edits(t) : j <= k) = i
    BY <1>3
  <2> QED
    BY <2>1 DEF LastEdit
<1>9. LastEdit(m.records) = e /\ LastEdit(s) = e
  BY <1>2, <1>3, <1>7, <1>8
<1>10. e.log < e.next /\ n < e.next /\ e.next <= n + 2
  BY <1>3, <1>4 DEF ManifestOK
<1> QED
  BY <1>4, <1>9, <1>10 DEF Recoverable, DurableEdit, s

\* What a crash of the machine may leave of a manifest.
LEMMA SurvivorOK ==
    ASSUME NEW n \in Numbers, NEW m \in Manifests, ManifestOK(m, n), NEW k \in Survivors(m)
    PROVE  /\ k \in Manifests /\ ManifestOK(k, n)
           /\ \A e : DurableEdit(m, e) => DurableEdit(k, e)
<1>1. /\ m.records \in Seq(Records) /\ m.synced \in Nat /\ Len(m.records) \in Nat
      /\ m.synced <= Len(m.records) /\ DOMAIN m.records = 1..Len(m.records)
  BY DEF Manifests, ManifestOK
<1>2. CASE k = Absent /\ m.synced = 0
  BY <1>2, NewManifestOK DEF DurableEdit
<1>3. ASSUME NEW l \in m.synced..Len(m.records), k = [m EXCEPT !.records = SubSeq(@, 1, l)]
      PROVE  /\ k \in Manifests /\ ManifestOK(k, n)
             /\ \A e : DurableEdit(m, e) => DurableEdit(k, e)
  <2>1. l \in Nat /\ l <= Len(m.records) /\ m.synced <= l
    BY <1>1
  <2>2. k.exists = m.exists /\ k.records = SubSeq(m.records, 1, l) /\ k.synced = m.synced
    BY <1>3 DEF Manifests
  <2>3. k.records \in Seq(Records) /\ Len(k.records) = l /\ DOMAIN k.records = 1..l
        /\ \A i \in 1..l : k.records[i] = m.records[i]
    BY <1>1, <2>1, <2>2
  <2>4. k \in Manifests
    BY <1>1, <1>3, <2>2, <2>3 DEF Manifests
  <2>5. \A i \in Edits(k.records) : i \in Edits(m.records) /\ k.records[i] = m.records[i]
    BY <1>1, <2>1, <2>3 DEF Edits
  <2>6. ManifestOK(k, n)
    BY <1>1, <2>1, <2>2, <2>3, <2>5 DEF ManifestOK
  <2>7. \A e : DurableEdit(m, e) => DurableEdit(k, e)
    BY <1>1, <2>1, <2>2, <2>3 DEF DurableEdit
  <2> QED
    BY <2>4, <2>6, <2>7
<1> QED
  BY <1>2, <1>3 DEF Survivors

-----------------------------------------------------------------------------
(* One process moves.                                                      *)

\* Whatever was durable behind CURRENT stays so, and CURRENT stays.
Stable ==
    /\ current' = current
    /\ \A e \in Records : current.exists /\ DurableEdit(manifests[current.names], e)
                            => DurableEdit(manifests'[current.names], e)

OnlyMoves(p) == \A q \in Procs : q # p => procs'[q] = procs[q]

\* A record of a process that differs in pc only, as far as the invariant looks.
SameNumbers(r, s) ==
    /\ s.manifest = r.manifest /\ s.next = r.next /\ s.log_number = r.log_number
    /\ s.log = r.log /\ s.save = r.save /\ s.installing = r.installing /\ s.doomed = r.doomed

\* The process that holds LOCK moves.
LEMMA OwnerStep ==
    ASSUME IInv, NEW p \in Procs, Inside(procs[p]), UNCHANGED lock, OnlyMoves(p),
           TypeOK', DiskOK(current', manifests'), VersionsOK(procs'[p]),
           Inside(procs'[p]) => PlaceOK(procs'[p], current', manifests', temps', logs')
    PROVE  IInv'
<1>1. lock = p
  BY DEF IInv
<1>2. ASSUME NEW q \in Procs, Inside(procs'[q])
      PROVE  lock' = q /\ PlaceOK(procs'[q], current', manifests', temps', logs')
  <2>1. CASE q = p
    BY <1>1, <1>2, <2>1
  <2>2. CASE q # p
    <3>1. Inside(procs[q])
      BY <1>2, <2>2 DEF OnlyMoves
    <3> QED
      BY <1>1, <2>2, <3>1 DEF IInv
  <2> QED
    BY <2>1, <2>2
<1>3. \A q \in Procs : VersionsOK(procs'[q])
  BY DEF IInv, OnlyMoves
<1> QED
  BY <1>2, <1>3 DEF IInv

\* A process leaves Open, or was not inside: it may hold LOCK or let it go.
LEMMA IdleStep ==
    ASSUME IInv, NEW p \in Procs, UNCHANGED disk, OnlyMoves(p), procs' \in [Procs -> ProcRecords],
           ~Inside(procs'[p]), VersionsOK(procs'[p]), lock' = lock \/ (lock = p /\ lock' = NoProc)
    PROVE  IInv' /\ Stable
<1>1. /\ current' = current /\ manifests' = manifests /\ temps' = temps /\ logs' = logs
  BY DEF disk
<1>2. TypeOK' /\ DiskOK(current', manifests')
  BY <1>1 DEF IInv, TypeOK
<1>3. ASSUME NEW q \in Procs, Inside(procs'[q])
      PROVE  lock' = q /\ PlaceOK(procs'[q], current', manifests', temps', logs')
  <2>1. q # p /\ procs'[q] = procs[q]
    BY <1>3 DEF OnlyMoves
  <2>2. lock = q /\ PlaceOK(procs[q], current, manifests, temps, logs)
    BY <1>3, <2>1 DEF IInv
  <2> QED
    BY <1>1, <2>1, <2>2
<1>4. Stable
  BY <1>1 DEF Stable
<1>5. \A q \in Procs : VersionsOK(procs'[q])
  BY DEF IInv, OnlyMoves
<1> QED
  BY <1>2, <1>3, <1>4, <1>5 DEF IInv

LEMMA GotoEffect ==
    ASSUME procs \in [Procs -> ProcRecords], NEW p \in Procs, NEW x \in Pcs, Goto(p, x)
    PROVE  /\ procs' \in [Procs -> ProcRecords] /\ OnlyMoves(p)
           /\ procs'[p].pc = x /\ SameNumbers(procs[p], procs'[p])
           /\ procs'[p].versions = procs[p].versions
BY DEF Goto, ProcRecords, OnlyMoves, SameNumbers

\* A manifest is changed, or removed, that CURRENT does not name.
LEMMA ManifestChange ==
    ASSUME IInv, NEW n \in Numbers, NEW k \in Manifests, ManifestOK(k, n),
           current.exists => n # current.names,
           manifests' = [manifests EXCEPT ![n] = k], UNCHANGED current
    PROVE  /\ manifests' \in [Numbers -> Manifests] /\ manifests'[n] = k
           /\ DiskOK(current', manifests') /\ Stable
           /\ current.exists => manifests'[current.names] = manifests[current.names]
<1>1. manifests \in [Numbers -> Manifests] /\ DiskOK(current, manifests)
  BY DEF IInv, TypeOK
<1>2. /\ manifests' \in [Numbers -> Manifests] /\ manifests'[n] = k
      /\ \A i \in Numbers : i # n => manifests'[i] = manifests[i]
  BY <1>1
<1>3. \A i \in Numbers : ManifestOK(manifests'[i], i)
  BY <1>1, <1>2 DEF DiskOK
<1>4. current.exists =>
        current.names \in Numbers /\ manifests'[current.names] = manifests[current.names]
  BY <1>1, <1>2 DEF DiskOK, CurrentOK
<1>5. CurrentOK(current', manifests')
  BY <1>1, <1>4 DEF DiskOK, CurrentOK
<1>6. Stable
  BY <1>4 DEF Stable
<1> QED
  BY <1>2, <1>3, <1>4, <1>5, <1>6 DEF DiskOK

-----------------------------------------------------------------------------
(* Open, LOCK and CURRENT.                                                 *)

LEMMA UpdateEffect ==
    ASSUME procs \in [Procs -> ProcRecords], NEW p \in Procs, NEW s \in ProcRecords,
           procs' = [procs EXCEPT ![p] = s]
    PROVE  procs' \in [Procs -> ProcRecords] /\ OnlyMoves(p) /\ procs'[p] = s
BY DEF OnlyMoves

LEMMA UpdateType ==
    ASSUME NEW r \in ProcRecords, NEW x \in Pcs
    PROVE  /\ \A n \in Nat : [r EXCEPT !.pc = x, !.installing = n] \in ProcRecords
           /\ \A n \in Nat : [r EXCEPT !.pc = x, !.manifest = n] \in ProcRecords
           /\ \A b \in BOOLEAN : [r EXCEPT !.pc = x, !.save = b] \in ProcRecords
           /\ \A v \in ListType : [r EXCEPT !.pc = x, !.versions = v] \in ProcRecords
           /\ \A d \in SUBSET FileNames : [r EXCEPT !.pc = x, !.doomed = d] \in ProcRecords
           /\ \A d \in SUBSET FileNames : [r EXCEPT !.doomed = d] \in ProcRecords
           /\ \A n, m \in Nat : [r EXCEPT !.pc = x, !.log = n, !.next = m] \in ProcRecords
           /\ \A n \in Nat, v \in ListType :
                [r EXCEPT !.pc = x, !.log_number = n, !.versions = v] \in ProcRecords
           /\ \A n, m, l \in Nat, b \in BOOLEAN, v \in ListType :
                [r EXCEPT !.pc = x, !.manifest = n, !.next = m, !.log_number = l, !.save = b,
                          !.versions = v] \in ProcRecords
BY DEF ProcRecords

-----------------------------------------------------------------------------
(* The list of versions.                                                   *)

LEMMA VersionFacts ==
    /\ Versions = {0, 1, 2, 3} /\ Versions \subseteq Int
    /\ Dummy = 0 /\ FirstVersion = 1 /\ RecoveredVersion = 2 /\ AppliedVersion = 3
BY DEF Versions, Dummy, FirstVersion, RecoveredVersion, AppliedVersion

\* What the operations do to the fields.
LEMMA NewVersionFields ==
    ASSUME NEW vs \in ListType, NEW v \in Versions, NEW linked
    PROVE  LET n == NewVersion(vs, v, linked)
               link == IF v \in linked THEN v ELSE NullVersion
           IN /\ n \in ListType /\ n.alive = vs.alive \cup {v} /\ n.current = vs.current
              /\ n.refs = vs.refs
              /\ \A w \in Versions : /\ n.next[w] = IF w = v THEN link ELSE vs.next[w]
                                     /\ n.prev[w] = IF w = v THEN link ELSE vs.prev[w]
<1> DEFINE link == IF v \in linked THEN v ELSE NullVersion
<1>1. link \in Int
  BY VersionFacts DEF NullVersion
<1>2. NewVersion(vs, v, linked) = [vs EXCEPT !.alive = @ \cup {v}, !.next[v] = link, !.prev[v] = link]
  BY DEF NewVersion
<1> HIDE DEF link
<1> DEFINE n == [vs EXCEPT !.alive = @ \cup {v}, !.next[v] = link, !.prev[v] = link]
<1>3. n \in ListType
  BY <1>1 DEF ListType
<1>4. n.alive = vs.alive \cup {v} /\ n.current = vs.current /\ n.refs = vs.refs
  BY DEF ListType
<1>5. \A w \in Versions : /\ n.next[w] = IF w = v THEN link ELSE vs.next[w]
                         /\ n.prev[w] = IF w = v THEN link ELSE vs.prev[w]
  BY DEF ListType
<1> HIDE DEF n
<1> QED
  BY <1>2, <1>3, <1>4, <1>5 DEF link, n

LEMMA UnlinkFields ==
    ASSUME NEW vs \in ListType, NEW v \in Versions
    PROVE  LET n == Unlink(vs, v) IN
           /\ n \in ListType /\ n.alive = vs.alive \ {v} /\ n.current = vs.current
           /\ n.refs = vs.refs
           /\ \A w \in Versions :
                /\ n.next[w] = IF w = vs.prev[v] THEN vs.next[v] ELSE vs.next[w]
                /\ n.prev[w] = IF w = vs.next[v] THEN vs.prev[v] ELSE vs.prev[w]
BY DEF Unlink, ListType

LEMMA RefFields ==
    ASSUME NEW vs \in ListType, NEW v \in Versions
    PROVE  LET n == Ref(vs, v) IN
           /\ n \in ListType /\ n.alive = vs.alive /\ n.current = vs.current
           /\ n.next = vs.next /\ n.prev = vs.prev
           /\ \A w \in Versions : n.refs[w] = IF w = v THEN vs.refs[v] + 1 ELSE vs.refs[w]
BY DEF Ref, ListType

LEMMA UnRefFields ==
    ASSUME NEW vs \in ListType, NEW v \in Versions
    PROVE  LET n == UnRef(vs, v) IN
           /\ n \in ListType /\ n.current = vs.current
           /\ \A w \in Versions : n.refs[w] = IF w = v THEN vs.refs[v] - 1 ELSE vs.refs[w]
           /\ vs.refs[v] # 1 => n.alive = vs.alive /\ n.next = vs.next /\ n.prev = vs.prev
           /\ vs.refs[v] = 1 =>
                /\ n.alive = vs.alive \ {v}
                /\ \A w \in Versions :
                     /\ n.next[w] = IF w = vs.prev[v] THEN vs.next[v] ELSE vs.next[w]
                     /\ n.prev[w] = IF w = vs.next[v] THEN vs.prev[v] ELSE vs.prev[w]
<1> DEFINE less == [vs EXCEPT !.refs[v] = @ - 1]
<1>1. /\ less \in ListType /\ less.alive = vs.alive /\ less.current = vs.current
      /\ less.next = vs.next /\ less.prev = vs.prev
      /\ \A w \in Versions : less.refs[w] = IF w = v THEN vs.refs[v] - 1 ELSE vs.refs[w]
  BY DEF ListType
<1>2. UnRef(vs, v) = IF less.refs[v] = 0 THEN Unlink(less, v) ELSE less
  BY DEF UnRef
<1> HIDE DEF less
<1>3. less.refs[v] = 0 <=> vs.refs[v] = 1
  <2>1. vs.refs[v] \in Int
    BY DEF ListType
  <2> QED
    BY <1>1, <2>1
<1>4. CASE less.refs[v] = 0
  <2> DEFINE n == Unlink(less, v)
  <2>1. UnRef(vs, v) = n
    BY <1>2, <1>4
  <2>2. /\ n \in ListType /\ n.alive = vs.alive \ {v} /\ n.current = vs.current /\ n.refs = less.refs
        /\ \A w \in Versions :
             /\ n.next[w] = IF w = vs.prev[v] THEN vs.next[v] ELSE vs.next[w]
             /\ n.prev[w] = IF w = vs.next[v] THEN vs.prev[v] ELSE vs.prev[w]
    BY <1>1, UnlinkFields
  <2> HIDE DEF n
  <2> QED
    BY <1>1, <1>3, <1>4, <2>1, <2>2
<1>5. CASE less.refs[v] # 0
  BY <1>1, <1>2, <1>3, <1>5
<1> QED
  BY <1>4, <1>5

\* A new version takes the place of the current one, between last and Dummy.
LEMMA AppendFields ==
    ASSUME NEW vs \in ListType, NEW v \in Versions, NEW left \in ListType,
           left = IF vs.current = NullVersion THEN vs ELSE UnRef(vs, vs.current),
           NEW last \in Versions, last = left.prev[0]
    PROVE  LET n == AppendVersion(vs, v) IN
           /\ n \in ListType /\ n.alive = left.alive /\ n.current = v
           /\ \A w \in Versions :
                /\ n.refs[w] = IF w = v THEN left.refs[v] + 1 ELSE left.refs[w]
                /\ n.next[w] = IF w = last THEN v ELSE IF w = v THEN 0 ELSE left.next[w]
                /\ n.prev[w] = IF w = 0 THEN v ELSE IF w = v THEN last ELSE left.prev[w]
<1> DEFINE m == [left EXCEPT !.current = v, !.prev[v] = last, !.next[v] = 0,
                             !.next[last] = v, !.prev[0] = v]
<1>1. last \in Int /\ v \in Int /\ 0 \in Int /\ 0 \in Versions
  BY VersionFacts
<1>2. /\ m \in ListType /\ m.alive = left.alive /\ m.current = v /\ m.refs = left.refs
      /\ \A w \in Versions :
           /\ m.next[w] = IF w = last THEN v ELSE IF w = v THEN 0 ELSE left.next[w]
           /\ m.prev[w] = IF w = 0 THEN v ELSE IF w = v THEN last ELSE left.prev[w]
  BY <1>1 DEF ListType
<1>3. AppendVersion(vs, v) = Ref(m, v)
  BY DEF AppendVersion, Dummy
<1> HIDE DEF m
<1>4. m \in ListType
  BY <1>2
<1>5. LET n == Ref(m, v) IN
      /\ n \in ListType /\ n.alive = m.alive /\ n.current = m.current
      /\ n.next = m.next /\ n.prev = m.prev
      /\ \A w \in Versions : n.refs[w] = IF w = v THEN m.refs[v] + 1 ELSE m.refs[w]
  BY <1>4, RefFields
<1> QED
  BY <1>2, <1>3, <1>5

\* A head that is not linked to itself has no list to append to.
LEMMA HeadFields ==
    ASSUME NEW linked
    PROVE  LET h == HeadOnly(linked)
               link == IF Dummy \in linked THEN Dummy ELSE NullVersion
           IN /\ h \in ListType /\ h.alive = {0, 1} /\ h.current = NullVersion
              /\ \A v \in Versions : h.refs[v] = 0
              /\ h.next[0] = link /\ h.prev[0] = link
<1> DEFINE head == NewVersion(NoVersions, Dummy, linked)
           link == IF Dummy \in linked THEN Dummy ELSE NullVersion
<1>1. /\ NoVersions \in ListType /\ NoVersions.alive = {} /\ NoVersions.current = NullVersion
      /\ \A v \in Versions : NoVersions.refs[v] = 0
  BY DEF NoVersions, ListType, NullVersion
<1>2. /\ head \in ListType /\ head.alive = {Dummy} /\ head.current = NullVersion
      /\ \A v \in Versions : head.refs[v] = 0
      /\ head.next[Dummy] = link /\ head.prev[Dummy] = link
  BY <1>1, VersionFacts, NewVersionFields DEF ListType
<1> HIDE DEF link, head
<1>3. LET h == NewVersion(head, 1, linked) IN
      /\ h \in ListType /\ h.alive = {0, 1} /\ h.current = NullVersion
      /\ \A v \in Versions : h.refs[v] = 0
      /\ h.next[0] = link /\ h.prev[0] = link
  BY <1>2, VersionFacts, NewVersionFields DEF ListType
<1>4. HeadOnly(linked) = NewVersion(head, 1, linked)
  BY VersionFacts DEF HeadOnly, head
<1> QED
  BY <1>3, <1>4 DEF link

LEMMA FirstAlone ==
    ASSUME NEW linked, HeadOnly(linked).prev[Dummy] # NullVersion
    PROVE  Alone(NewVersionSet(linked), 1)
<1> DEFINE h == HeadOnly(linked)
           n == NewVersionSet(linked)
<1>1. /\ h \in ListType /\ h.alive = {0, 1} /\ h.current = NullVersion
      /\ \A v \in Versions : h.refs[v] = 0
      /\ h.next[0] = 0 /\ h.prev[0] = 0
  BY VersionFacts, HeadFields
<1>2. n = AppendVersion(h, 1)
  BY VersionFacts DEF NewVersionSet
<1> HIDE DEF h, n
<1>3. /\ n \in ListType /\ n.alive = h.alive /\ n.current = 1
      /\ \A w \in Versions :
           /\ n.refs[w] = IF w = 1 THEN h.refs[1] + 1 ELSE h.refs[w]
           /\ n.next[w] = IF w = 0 THEN 1 ELSE IF w = 1 THEN 0 ELSE h.next[w]
           /\ n.prev[w] = IF w = 0 THEN 1 ELSE IF w = 1 THEN 0 ELSE h.prev[w]
  BY <1>1, <1>2, VersionFacts, AppendFields
<1>4. Alone(n, 1)
  BY <1>1, <1>3, VersionFacts DEF Alone, ListType
<1> QED
  BY <1>4 DEF n

\* A builder comes and goes.
LEMMA BuilderAlone ==
    ASSUME NEW c \in {1, 2}, NEW vs, Alone(vs, c)
    PROVE  Alone(UnRef(Builder(vs), vs.current), c)
<1> DEFINE b == Ref(vs, c)
<1>1. /\ vs \in ListType /\ c \in Versions /\ vs.current = c
      /\ \A v \in Versions : vs.refs[v] = IF v = c THEN 1 ELSE 0
  BY VersionFacts DEF Alone
<1>2. /\ b \in ListType /\ b.alive = vs.alive /\ b.current = vs.current
      /\ b.next = vs.next /\ b.prev = vs.prev
      /\ \A w \in Versions : b.refs[w] = IF w = c THEN vs.refs[c] + 1 ELSE vs.refs[w]
  BY <1>1, RefFields
<1>3. Builder(vs) = b
  BY <1>1 DEF Builder
<1> HIDE DEF b
<1>4. \A v \in Versions : b.refs[v] = IF v = c THEN 2 ELSE 0
  BY <1>1, <1>2 DEF ListType
<1> DEFINE u == UnRef(b, c)
<1>5. b \in ListType /\ b.refs[c] # 1
  BY <1>1, <1>2, <1>4
<1>6. /\ u \in ListType /\ u.current = b.current
      /\ \A w \in Versions : u.refs[w] = IF w = c THEN b.refs[c] - 1 ELSE b.refs[w]
      /\ u.alive = b.alive /\ u.next = b.next /\ u.prev = b.prev
  BY <1>1, <1>5, UnRefFields
<1>7. \A v \in Versions : u.refs[v] = IF v = c THEN 1 ELSE 0
  BY <1>4, <1>5, <1>6 DEF ListType
<1> HIDE DEF u
<1>8. Alone(u, c)
  BY <1>2, <1>6, <1>7 DEF Alone
<1> QED
  BY <1>1, <1>3, <1>8 DEF u

\* recover's version takes the place of the first one, when its builder ends.
LEMMA SecondAlone ==
    ASSUME NEW vs, Alone(vs, 1), NEW linked
    PROVE  Alone(RecoverAppends(vs, linked), 2)
<1> DEFINE b == Ref(vs, 1)
           m == NewVersion(b, 2, linked)
           left == UnRef(m, 1)
           a == AppendVersion(m, 2)
           u == UnRef(a, 1)
<1>1. RecoverAppends(vs, linked) = u
  BY VersionFacts DEF RecoverAppends, Builder, Alone
<1>2. /\ b \in ListType /\ b.alive = {0, 1} /\ b.current = 1
      /\ \A v \in Versions : b.refs[v] = IF v = 1 THEN 2 ELSE 0
      /\ b.next[0] = 1 /\ b.next[1] = 0 /\ b.prev[0] = 1 /\ b.prev[1] = 0
  BY VersionFacts, RefFields DEF Alone, ListType
<1> HIDE DEF b
<1>3. /\ m \in ListType /\ m.alive = {0, 1, 2} /\ m.current = 1
      /\ \A v \in Versions : m.refs[v] = IF v = 1 THEN 2 ELSE 0
      /\ m.next[0] = 1 /\ m.next[1] = 0 /\ m.prev[0] = 1 /\ m.prev[1] = 0
  BY <1>2, VersionFacts, NewVersionFields DEF ListType
<1> HIDE DEF m
<1>4. /\ left \in ListType /\ left.alive = {0, 1, 2}
      /\ \A v \in Versions : left.refs[v] = IF v = 1 THEN 1 ELSE 0
      /\ left.next[0] = 1 /\ left.next[1] = 0 /\ left.prev[0] = 1 /\ left.prev[1] = 0
  <2>1. m.refs[1] = 2
    BY <1>3, VersionFacts
  <2>2. /\ left \in ListType
        /\ \A w \in Versions : left.refs[w] = IF w = 1 THEN m.refs[1] - 1 ELSE m.refs[w]
        /\ left.alive = m.alive /\ left.next = m.next /\ left.prev = m.prev
    BY <1>3, <2>1, VersionFacts, UnRefFields
  <2> QED
    BY <1>3, <2>2, VersionFacts DEF ListType
<1>5. left = IF m.current = NullVersion THEN m ELSE UnRef(m, m.current)
  BY <1>3 DEF NullVersion
<1> HIDE DEF left
<1>6. /\ a \in ListType /\ a.alive = left.alive /\ a.current = 2
      /\ \A w \in Versions :
           /\ a.refs[w] = IF w = 2 THEN left.refs[2] + 1 ELSE left.refs[w]
           /\ a.next[w] = IF w = 1 THEN 2 ELSE IF w = 2 THEN 0 ELSE left.next[w]
           /\ a.prev[w] = IF w = 0 THEN 2 ELSE IF w = 2 THEN 1 ELSE left.prev[w]
  BY <1>3, <1>4, <1>5, VersionFacts, AppendFields
<1> HIDE DEF a
<1>7. /\ a.alive = {0, 1, 2} /\ \A v \in Versions : a.refs[v] = IF v \in {1, 2} THEN 1 ELSE 0
      /\ a.next[0] = 1 /\ a.next[1] = 2 /\ a.next[2] = 0
      /\ a.prev[0] = 2 /\ a.prev[1] = 0 /\ a.prev[2] = 1
  BY <1>4, <1>6, VersionFacts DEF ListType
<1>8. /\ u \in ListType /\ u.current = 2 /\ u.alive = a.alive \ {1}
      /\ \A w \in Versions : /\ u.refs[w] = IF w = 1 THEN a.refs[1] - 1 ELSE a.refs[w]
                             /\ u.next[w] = IF w = 0 THEN 2 ELSE a.next[w]
                             /\ u.prev[w] = IF w = 2 THEN 0 ELSE a.prev[w]
  <2>1. a.refs[1] = 1 /\ a.prev[1] = 0 /\ a.next[1] = 2
    BY <1>7, VersionFacts
  <2> QED
    BY <1>6, <1>7, <2>1, VersionFacts, UnRefFields
<1> HIDE DEF u
<1>9. Alone(u, 2)
  BY <1>6, <1>7, <1>8, VersionFacts DEF Alone, ListType
<1> QED
  BY <1>1, <1>9

LEMMA BuildingBuilt ==
    ASSUME NEW vs, Alone(vs, 2), NEW linked
    PROVE  Building(ApplyBuilds(vs, linked), 2, 3)
<1> DEFINE m == NewVersion(vs, 3, linked)
           b == Ref(m, 2)
           u == UnRef(b, 2)
<1>1. /\ m \in ListType /\ m.alive = {0, 2, 3} /\ m.current = 2
      /\ \A v \in Versions : m.refs[v] = IF v = 2 THEN 1 ELSE 0
      /\ m.next[0] = 2 /\ m.next[2] = 0 /\ m.prev[0] = 2 /\ m.prev[2] = 0
      /\ m.next[3] = m.prev[3] /\ m.prev[3] \in {3, NullVersion}
  BY VersionFacts, NewVersionFields DEF ListType, Alone
<1>2. ApplyBuilds(vs, linked) = u
  BY <1>1, VersionFacts DEF ApplyBuilds, Builder, Alone
<1> HIDE DEF m
<1>3. /\ b \in ListType /\ b.alive = m.alive /\ b.current = 2 /\ b.next = m.next /\ b.prev = m.prev
      /\ \A v \in Versions : b.refs[v] = IF v = 2 THEN 2 ELSE 0
  BY <1>1, VersionFacts, RefFields DEF ListType
<1> HIDE DEF b
<1>4. /\ u \in ListType /\ u.alive = b.alive /\ u.current = 2 /\ u.next = b.next /\ u.prev = b.prev
      /\ \A w \in Versions : u.refs[w] = IF w = 2 THEN b.refs[2] - 1 ELSE b.refs[w]
  <2>1. b.refs[2] = 2
    BY <1>3, VersionFacts
  <2> QED
    BY <1>3, <2>1, VersionFacts, UnRefFields
<1>5. \A v \in Versions : u.refs[v] = IF v = 2 THEN 1 ELSE 0
  BY <1>3, <1>4, VersionFacts DEF ListType
<1> HIDE DEF u
<1>6. Building(u, 2, 3)
  BY <1>1, <1>3, <1>4, <1>5, VersionFacts DEF Building
<1> QED
  BY <1>2, <1>6

LEMMA ThirdAlone ==
    ASSUME NEW vs, Building(vs, 2, 3)
    PROVE  /\ Alone(ApplyAppends(vs), 3)
           /\ ~AppliedUnlinked(vs) => Alone(ApplyDeletes(vs), 2)
<1> DEFINE left == UnRef(vs, 2)
           a == AppendVersion(vs, 3)
           d == Unlink(vs, 3)
<1>1. /\ vs \in ListType /\ vs.alive = {0, 2, 3} /\ vs.current = 2
      /\ \A v \in Versions : vs.refs[v] = IF v = 2 THEN 1 ELSE 0
      /\ vs.next[0] = 2 /\ vs.next[2] = 0 /\ vs.prev[0] = 2 /\ vs.prev[2] = 0
      /\ vs.next[3] = vs.prev[3] /\ vs.prev[3] \in {3, NullVersion}
  BY VersionFacts DEF Building
<1>2. /\ left \in ListType /\ left.alive = vs.alive \ {2}
      /\ \A w \in Versions : /\ left.refs[w] = IF w = 2 THEN vs.refs[2] - 1 ELSE vs.refs[w]
                             /\ left.next[w] = IF w = 0 THEN 0 ELSE vs.next[w]
                             /\ left.prev[w] = IF w = 0 THEN 0 ELSE vs.prev[w]
  <2>1. vs.refs[2] = 1
    BY <1>1, VersionFacts
  <2> QED
    BY <1>1, <2>1, VersionFacts, UnRefFields
<1>3. left = IF vs.current = NullVersion THEN vs ELSE UnRef(vs, vs.current)
  BY <1>1 DEF NullVersion
<1> HIDE DEF left
<1>4. /\ \A v \in Versions : left.refs[v] = 0
      /\ left.alive = {0, 3} /\ left.prev[0] = 0
  BY <1>1, <1>2, VersionFacts DEF ListType
<1>5. /\ a \in ListType /\ a.alive = left.alive /\ a.current = 3
      /\ \A w \in Versions :
           /\ a.refs[w] = IF w = 3 THEN left.refs[3] + 1 ELSE left.refs[w]
           /\ a.next[w] = IF w = 0 THEN 3 ELSE IF w = 3 THEN 0 ELSE left.next[w]
           /\ a.prev[w] = IF w = 0 THEN 3 ELSE IF w = 3 THEN 0 ELSE left.prev[w]
  <2>1. 0 \in Versions /\ 3 \in Versions /\ vs \in ListType /\ left \in ListType /\ 0 = left.prev[0]
    BY <1>1, <1>2, <1>4, VersionFacts
  <2> QED
    BY <1>3, <2>1, AppendFields
<1>6. /\ d \in ListType /\ d.alive = vs.alive \ {3} /\ d.current = 2 /\ d.refs = vs.refs
      /\ \A w \in Versions : /\ d.next[w] = IF w = vs.prev[3] THEN vs.next[3] ELSE vs.next[w]
                             /\ d.prev[w] = IF w = vs.next[3] THEN vs.prev[3] ELSE vs.prev[w]
  BY <1>1, VersionFacts, UnlinkFields
<1> HIDE DEF a, d
<1>7. Alone(a, 3)
  BY <1>2, <1>4, <1>5, VersionFacts DEF Alone, ListType
<1>8. ~AppliedUnlinked(vs) => Alone(d, 2)
  BY <1>1, <1>6, VersionFacts DEF Alone, ListType, AppliedUnlinked
<1> QED
  BY <1>7, <1>8, VersionFacts DEF a, d, ApplyAppends, ApplyDeletes

\* A list is sound wherever a process has one.
LEMMA ListsExact ==
    ASSUME NEW vs
    PROVE  /\ \A c \in {1, 2, 3} : Alone(vs, c) => Exact(vs) /\ vs.alive = {Dummy, vs.current}
           /\ Building(vs, 2, 3) => Exact(vs)
<1>1. ASSUME NEW c \in {1, 2, 3}, Alone(vs, c)
      PROVE  Exact(vs) /\ vs.alive = {Dummy, vs.current}
  BY <1>1, VersionFacts DEF Alone, Exact
<1>2. ASSUME Building(vs, 2, 3) PROVE Exact(vs)
  BY <1>2, VersionFacts DEF Building, Exact
<1> QED
  BY <1>1, <1>2

-----------------------------------------------------------------------------
(* Open, LOCK and CURRENT.                                                 *)

USE DEF NewPcs, TempPcs, RecoveredPcs, ApplyPcs, DonePcs, InsidePcs, OutsidePcs, Pcs, Inside,
        Creating, Applying, Null

LEMMA DownType == Down \in ProcRecords
<1>1. NoVersions \in ListType
  BY DEF NoVersions, ListType, NullVersion
<1> QED
  BY <1>1 DEF Down, ProcRecords

LEMMA OpenStep ==
    ASSUME IInv, NEW p \in Procs, NEW create \in BOOLEAN, NEW error \in BOOLEAN,
           Open(p, create, error)
    PROVE  IInv' /\ Stable
<1> DEFINE s == [Constructed(p) EXCEPT !.create = create, !.error = error]
<1> DEFINE c == Constructed(p)
<1>1. Down \in ProcRecords
  BY DownType
<1>2. HeadOnly(SelfLinked[p]).prev[Dummy] # NullVersion => Alone(NewVersionSet(SelfLinked[p]), 1)
  BY FirstAlone
<1>3. c \in ProcRecords /\ c.pc \in {"null head", "lock"} /\ (c.pc = "lock" => Alone(c.versions, 1))
  BY <1>1, <1>2 DEF Constructed, ProcRecords, Alone, Null
<1> HIDE DEF c
<1>4. s \in ProcRecords /\ s.pc = c.pc /\ s.versions = c.versions
  BY <1>3 DEF ProcRecords, c
<1>5. procs \in [Procs -> ProcRecords] /\ procs' = [procs EXCEPT ![p] = s]
  BY DEF IInv, TypeOK, Open
<1> HIDE DEF s
<1>6. /\ procs' \in [Procs -> ProcRecords] /\ OnlyMoves(p)
      /\ procs'[p].pc \in {"null head", "lock"}
      /\ procs'[p].pc = "lock" => Alone(procs'[p].versions, 1)
  BY <1>3, <1>4, <1>5 DEF OnlyMoves
<1>7. ~Inside(procs'[p]) /\ VersionsOK(procs'[p])
  BY <1>6 DEF VersionsOK, Ended, Null
<1> QED
  BY <1>6, <1>7, IdleStep DEF Open, Keeps

LEMMA LockFileStep ==
    ASSUME IInv, NEW p \in Procs, LockFile(p)
    PROVE  IInv' /\ Stable
<1>1. procs \in [Procs -> ProcRecords] /\ procs[p].pc = "lock" /\ lock = NoProc /\ lock' = p
      /\ current' = current /\ manifests' = manifests /\ temps' = temps /\ logs' = logs
  BY DEF IInv, TypeOK, LockFile, At, disk
<1>2. /\ procs' \in [Procs -> ProcRecords] /\ OnlyMoves(p)
      /\ procs'[p].pc = "exists" /\ SameNumbers(procs[p], procs'[p])
      /\ procs'[p].versions = procs[p].versions
  BY <1>1, GotoEffect DEF LockFile
<1>3. VersionsOK(procs'[p])
  BY <1>1, <1>2 DEF IInv, VersionsOK, Ended
<1>4. TypeOK' /\ DiskOK(current', manifests')
  BY <1>1, <1>2 DEF IInv, TypeOK
<1>5. ASSUME NEW q \in Procs, q # p PROVE ~Inside(procs'[q]) /\ VersionsOK(procs'[q])
  BY <1>1, <1>2, <1>5, ProcAssumption DEF IInv, OnlyMoves
<1>6. current.exists => current.names + 3 <= MaxNumber
  <2> HAVE current.exists
  <2>1. current.names \in Numbers /\ manifests[current.names].exists
    BY DEF IInv, DiskOK, CurrentOK, DurableEdit
  <2> QED
    BY <2>1 DEF LockFile
<1>7. PlaceOK(procs'[p], current', manifests', temps', logs')
  BY <1>1, <1>2, <1>6 DEF PlaceOK, CreatingOK, ExistsOK, LogNumberOK, RecoveredOK, ApplyingOK,
       RenameOK, DoneOK
<1>8. Stable
  BY <1>1 DEF Stable
<1> QED
  BY <1>1, <1>3, <1>4, <1>5, <1>7, <1>8 DEF IInv

\* The process p changes nothing but its own record.
LEMMA KeepsStep ==
    ASSUME IInv, NEW p \in Procs, Keeps, Inside(procs[p]),
           procs' \in [Procs -> ProcRecords], OnlyMoves(p), VersionsOK(procs'[p]),
           Inside(procs'[p]) => PlaceOK(procs'[p], current, manifests, temps, logs)
    PROVE  IInv' /\ Stable
<1>1. current' = current /\ manifests' = manifests /\ temps' = temps /\ logs' = logs /\ lock' = lock
  BY DEF Keeps, disk
<1>2. TypeOK' /\ DiskOK(current', manifests')
  BY <1>1 DEF IInv, TypeOK
<1>3. Stable
  BY <1>1 DEF Stable
<1> QED
  BY <1>1, <1>2, <1>3, OwnerStep

\* Only the place changes.
LEMMA PlaceStep ==
    ASSUME IInv, NEW p \in Procs, NEW x \in Pcs, Goto(p, x), Keeps, Inside(procs[p]),
           VersionsOK(procs'[p]),
           Inside(procs'[p]) => PlaceOK(procs'[p], current, manifests, temps, logs)
    PROVE  IInv' /\ Stable
<1>1. procs' \in [Procs -> ProcRecords] /\ OnlyMoves(p)
  BY GotoEffect DEF IInv, TypeOK
<1> QED
  BY <1>1, KeepsStep

LEMMA FailedStep ==
    ASSUME IInv, NEW p \in Procs,
           NEW from \in {"lock", "new create", "recover", "logs", "new log"},
           Fails(p, from, "failed")
    PROVE  IInv' /\ Stable
<1>1. procs \in [Procs -> ProcRecords] /\ VersionsOK(procs[p]) /\ procs[p].pc = from
  BY DEF IInv, TypeOK, Fails, At
<1>2. /\ procs' \in [Procs -> ProcRecords] /\ OnlyMoves(p) /\ procs'[p].pc = "failed"
      /\ procs'[p].versions = procs[p].versions
  BY <1>1, GotoEffect DEF Fails
<1>3. \E c \in {1, 2} : Alone(procs[p].versions, c)
  BY <1>1 DEF VersionsOK
<1>4. ~Inside(procs'[p]) /\ VersionsOK(procs'[p])
  BY <1>1, <1>2, <1>3 DEF VersionsOK, Null
<1> QED
  BY <1>2, <1>4, IdleStep DEF Fails, Keeps

LEMMA ReadFailsStep ==
    ASSUME IInv, NEW p \in Procs, ReadFails(p)
    PROVE  IInv' /\ Stable
<1> DEFINE v == RecoverFailed(procs[p].versions)
           s == [procs[p] EXCEPT !.pc = "failed", !.versions = v]
<1>1. /\ procs \in [Procs -> ProcRecords] /\ VersionsOK(procs[p]) /\ procs[p].pc = "recover"
      /\ procs' = [procs EXCEPT ![p] = s]
  BY DEF IInv, TypeOK, ReadFails, At
<1>2. Alone(v, 1)
  BY <1>1, BuilderAlone DEF VersionsOK, RecoverFailed
<1> HIDE DEF v
<1>3. procs[p] \in ProcRecords /\ v \in ListType
  BY <1>1, <1>2 DEF Alone
<1>4. s \in ProcRecords /\ s.pc = "failed" /\ s.versions = v
  <2>1. s \in ProcRecords
    BY <1>3, UpdateType
  <2> QED
    BY <1>3, <2>1 DEF ProcRecords
<1> HIDE DEF s
<1>5. procs' \in [Procs -> ProcRecords] /\ OnlyMoves(p) /\ procs'[p] = s
  BY <1>1, <1>4, UpdateEffect
<1>6. ~Inside(procs'[p]) /\ VersionsOK(procs'[p])
  BY <1>2, <1>4, <1>5 DEF VersionsOK, Null
<1> QED
  BY <1>5, <1>6, IdleStep DEF ReadFails, Keeps

LEMMA CheckCurrentStep ==
    ASSUME IInv, NEW p \in Procs, CheckCurrent(p)
    PROVE  IInv' /\ Stable
<1>1. procs \in [Procs -> ProcRecords] /\ VersionsOK(procs[p]) /\ procs[p].pc = "exists"
  BY DEF IInv, TypeOK, CheckCurrent, At
<1>2. PICK x \in {"new create", "recover", "failed"} :
        /\ Goto(p, x)
        /\ x = "new create" => ~current.exists
        /\ x = "recover" => current.exists
  BY DEF CheckCurrent
<1>3. /\ procs'[p].pc = x /\ SameNumbers(procs[p], procs'[p])
      /\ procs'[p].versions = procs[p].versions
  BY <1>1, <1>2, GotoEffect
<1>4. VersionsOK(procs'[p])
  BY <1>1, <1>3 DEF VersionsOK
<1>5. Inside(procs[p]) /\ PlaceOK(procs[p], current, manifests, temps, logs)
  BY <1>1 DEF IInv
<1>6. Inside(procs'[p]) => PlaceOK(procs'[p], current, manifests, temps, logs)
  BY <1>1, <1>2, <1>3, <1>5 DEF PlaceOK, CreatingOK, ExistsOK, LogNumberOK, RecoveredOK, ApplyingOK,
       RenameOK, DoneOK
<1> QED
  BY <1>2, <1>4, <1>5, <1>6, PlaceStep DEF CheckCurrent

-----------------------------------------------------------------------------
(* NewDB.                                                                  *)

\* What is known of the process that moves.
LEMMA OwnerFacts ==
    ASSUME IInv, NEW p \in Procs, Inside(procs[p])
    PROVE  /\ procs \in [Procs -> ProcRecords] /\ procs[p] \in ProcRecords
           /\ manifests \in [Numbers -> Manifests] /\ current \in Currents
           /\ temps \in [Numbers -> {"absent", "written", "synced"}] /\ logs \in SUBSET Nat
           /\ lock = p /\ lock \in Procs \cup {NoProc}
           /\ \A n \in Numbers : ManifestOK(manifests[n], n)
           /\ CurrentOK(current, manifests)
           /\ VersionsOK(procs[p])
           /\ PlaceOK(procs[p], current, manifests, temps, logs)
BY DEF IInv, TypeOK, DiskOK

\* The process p writes the manifest n, which CURRENT does not name, and goes on.
LEMMA ManifestStep ==
    ASSUME IInv, NEW p \in Procs, Inside(procs[p]), NEW n \in Numbers, NEW k \in Manifests,
           ManifestOK(k, n), current.exists => n # current.names,
           manifests' = [manifests EXCEPT ![n] = k], UNCHANGED <<lock, current, temps, logs>>,
           OnlyMoves(p), procs' \in [Procs -> ProcRecords], VersionsOK(procs'[p]),
           Inside(procs'[p]) => PlaceOK(procs'[p], current, manifests', temps, logs)
    PROVE  IInv' /\ Stable
<1>1. /\ manifests' \in [Numbers -> Manifests] /\ DiskOK(current', manifests') /\ Stable
      /\ current' = current /\ temps' = temps /\ logs' = logs /\ lock' = lock
  BY ManifestChange
<1>2. TypeOK'
  BY <1>1 DEF IInv, TypeOK
<1> QED
  BY <1>1, <1>2, OwnerStep

LEMMA NewCreateStep ==
    ASSUME IInv, NEW p \in Procs, NewCreate(p)
    PROVE  IInv' /\ Stable
<1>1. procs[p].pc = "new create" /\ Inside(procs[p])
  BY DEF NewCreate, At
<1>2. /\ procs' \in [Procs -> ProcRecords] /\ OnlyMoves(p)
      /\ procs'[p].pc = "new write" /\ SameNumbers(procs[p], procs'[p])
      /\ procs'[p].versions = procs[p].versions
  BY <1>1, OwnerFacts, GotoEffect DEF NewCreate
<1>3. PlaceOK(procs[p], current, manifests, temps, logs) /\ VersionsOK(procs[p])
  BY <1>1, OwnerFacts
<1>4. ~current.exists
  BY <1>1, <1>3 DEF PlaceOK, CreatingOK
<1>5. manifests' = [manifests EXCEPT ![1] = Created] /\ manifests'[1] = Created
  BY <1>1, OwnerFacts, NumbersFacts DEF NewCreate
<1>6. VersionsOK(procs'[p])
  BY <1>1, <1>2, <1>3 DEF VersionsOK, Ended
<1>7. PlaceOK(procs'[p], current, manifests', temps, logs)
  BY <1>1, <1>2, <1>4, <1>5 DEF PlaceOK, CreatingOK, ExistsOK, LogNumberOK, RecoveredOK,
       ApplyingOK, RenameOK, DoneOK
<1> QED
  BY <1>1, <1>2, <1>4, <1>5, <1>6, <1>7, NumbersFacts, NewManifestOK, ManifestStep DEF NewCreate

LEMMA EditFacts ==
    /\ \A log, next \in Nat : /\ Edit(log, next) \in Records /\ Edit(log, next).kind = "edit"
                              /\ Edit(log, next).log = log /\ Edit(log, next).next = next
    /\ Snapshot \in Records /\ Snapshot.kind # "edit"
BY DEF Edit, Snapshot, Records

LEMMA NewWriteStep ==
    ASSUME IInv, NEW p \in Procs, NewWrite(p)
    PROVE  IInv' /\ Stable
<1> DEFINE e == Edit(0, 2)
           k == [manifests[1] EXCEPT !.records = Append(@, e)]
<1>1. procs[p].pc = "new write" /\ Inside(procs[p])
  BY DEF NewWrite, At
<1>2. /\ procs' \in [Procs -> ProcRecords] /\ OnlyMoves(p)
      /\ procs'[p].pc = "new sync" /\ SameNumbers(procs[p], procs'[p])
      /\ procs'[p].versions = procs[p].versions
  BY <1>1, OwnerFacts, GotoEffect DEF NewWrite
<1>3. PlaceOK(procs[p], current, manifests, temps, logs) /\ VersionsOK(procs[p])
  BY <1>1, OwnerFacts
<1>4. ~current.exists /\ manifests[1] = Created
  BY <1>1, <1>3 DEF PlaceOK, CreatingOK
<1>5. e \in Records /\ e.log = 0 /\ e.next = 2
  BY EditFacts
<1>6. k \in Manifests /\ ManifestOK(k, 1) /\ HasEdit(k, e)
  <2>1. /\ 1 \in Numbers /\ manifests[1] \in Manifests /\ ManifestOK(manifests[1], 1)
        /\ manifests[1].exists /\ Edits(manifests[1].records) = {}
    BY <1>4, NumbersFacts, NewManifestOK
  <2>2. e.log < e.next /\ 1 < e.next /\ e.next <= 1 + 2 /\ e.kind = "edit"
    BY <1>5, EditFacts
  <2> HIDE DEF e
  <2> QED
    BY <1>5, <2>1, <2>2, AppendOK
<1>7. manifests' = [manifests EXCEPT ![1] = k] /\ manifests'[1] = k
  BY <1>1, OwnerFacts, NumbersFacts DEF NewWrite, Write
<1> HIDE DEF k
<1>8. VersionsOK(procs'[p])
  BY <1>1, <1>2, <1>3 DEF VersionsOK, Ended
<1>9. PlaceOK(procs'[p], current, manifests', temps, logs)
  BY <1>1, <1>2, <1>4, <1>6, <1>7 DEF PlaceOK, CreatingOK, ExistsOK, LogNumberOK, RecoveredOK,
       ApplyingOK, RenameOK, DoneOK
<1> QED
  BY <1>1, <1>2, <1>4, <1>6, <1>7, <1>8, <1>9, NumbersFacts, ManifestStep DEF NewWrite

LEMMA NewSyncStep ==
    ASSUME IInv, NEW p \in Procs, NewSync(p)
    PROVE  IInv' /\ Stable
<1> DEFINE k == [manifests[1] EXCEPT !.synced = Len(manifests[1].records)]
<1>1. procs[p].pc = "new sync" /\ Inside(procs[p])
  BY DEF NewSync, At
<1>2. /\ procs' \in [Procs -> ProcRecords] /\ OnlyMoves(p)
      /\ procs'[p].pc = "temp write" /\ procs'[p].installing = 1
      /\ procs'[p].versions = procs[p].versions
  <2> DEFINE s == [procs[p] EXCEPT !.pc = "temp write", !.installing = 1]
  <2>1. procs \in [Procs -> ProcRecords] /\ procs' = [procs EXCEPT ![p] = s]
    BY <1>1, OwnerFacts DEF NewSync
  <2>2. s \in ProcRecords
    BY <2>1, UpdateType
  <2>3. s.pc = "temp write" /\ s.installing = 1 /\ s.versions = procs[p].versions
    BY <2>1 DEF ProcRecords
  <2> HIDE DEF s
  <2> QED
    BY <2>1, <2>2, <2>3, UpdateEffect
<1>3. PlaceOK(procs[p], current, manifests, temps, logs) /\ VersionsOK(procs[p])
  BY <1>1, OwnerFacts
<1>4. ~current.exists /\ HasEdit(manifests[1], Edit(0, 2))
  BY <1>1, <1>3 DEF PlaceOK, CreatingOK
<1>5. k \in Manifests /\ ManifestOK(k, 1) /\ DurableEdit(k, Edit(0, 2))
  BY <1>1, <1>4, OwnerFacts, NumbersFacts, SyncOK
<1>6. manifests' = [manifests EXCEPT ![1] = k] /\ manifests'[1] = k
  BY <1>1, OwnerFacts, NumbersFacts DEF NewSync, SyncFile
<1> HIDE DEF k
<1>7. VersionsOK(procs'[p])
  BY <1>1, <1>2, <1>3 DEF VersionsOK, Ended
<1>8. PlaceOK(procs'[p], current, manifests', temps, logs)
  BY <1>1, <1>2, <1>4, <1>5, <1>6 DEF PlaceOK, CreatingOK, ExistsOK, LogNumberOK, RecoveredOK,
       ApplyingOK, RenameOK, DoneOK
<1> QED
  BY <1>1, <1>2, <1>4, <1>5, <1>6, <1>7, <1>8, NumbersFacts, ManifestStep DEF NewSync

\* A call fails, and the process goes on to clean up.
LEMMA CleanUpStep ==
    ASSUME IInv, NEW p \in Procs, NEW from \in InsidePcs,
           NEW to \in {"new remove", "temp remove", "apply remove"},
           Fails(p, from, to),
           to = "new remove" => from \in {"new write", "new sync"},
           to = "temp remove" => from \in {"temp write", "temp sync", "rename"},
           to = "apply remove" => from \in ApplyPcs \ {"apply begin", "apply remove"}
    PROVE  IInv' /\ Stable
<1>1. procs[p].pc = from /\ Inside(procs[p])
  BY DEF Fails, At
<1>2. /\ procs'[p].pc = to /\ SameNumbers(procs[p], procs'[p])
      /\ procs'[p].versions = procs[p].versions
  BY <1>1, OwnerFacts, GotoEffect DEF Fails
<1>3. PlaceOK(procs[p], current, manifests, temps, logs) /\ VersionsOK(procs[p])
  BY <1>1, OwnerFacts
<1>4. VersionsOK(procs'[p])
  BY <1>1, <1>2, <1>3 DEF VersionsOK, Ended, SameNumbers
<1>5. PlaceOK(procs'[p], current, manifests, temps, logs)
  <2>1. CreatingOK(procs'[p], current, manifests)
    BY <1>1, <1>2, <1>3 DEF PlaceOK, CreatingOK, SameNumbers
  <2>2. ExistsOK(procs'[p], current)
    BY <1>1, <1>2, <1>3 DEF PlaceOK, ExistsOK, SameNumbers
  <2>3. LogNumberOK(procs'[p], current, manifests)
    BY <1>1, <1>2, <1>3 DEF PlaceOK, LogNumberOK, SameNumbers
  <2>4. RecoveredOK(procs'[p], current, logs)
    BY <1>1, <1>2, <1>3 DEF PlaceOK, RecoveredOK, SameNumbers
  <2>5. ApplyingOK(procs'[p], current, manifests, logs)
    BY <1>1, <1>2, <1>3 DEF PlaceOK, ApplyingOK, SameNumbers
  <2>6. RenameOK(procs'[p], temps)
    BY <1>1, <1>2, <1>3 DEF PlaceOK, RenameOK, SameNumbers
  <2>7. DoneOK(procs'[p], current, logs)
    BY <1>1, <1>2, <1>3 DEF PlaceOK, DoneOK, SameNumbers
  <2> QED
    BY <2>1, <2>2, <2>3, <2>4, <2>5, <2>6, <2>7 DEF PlaceOK
<1> QED
  BY <1>1, <1>4, <1>5, PlaceStep DEF Fails

LEMMA NewRemoveStep ==
    ASSUME IInv, NEW p \in Procs, NewRemove(p)
    PROVE  IInv' /\ Stable
<1>1. procs[p].pc = "new remove" /\ Inside(procs[p])
  BY DEF NewRemove, At
<1>2. /\ procs' \in [Procs -> ProcRecords] /\ OnlyMoves(p) /\ procs'[p].pc = "failed"
      /\ procs'[p].versions = procs[p].versions
  BY <1>1, OwnerFacts, GotoEffect DEF NewRemove
<1>3. PlaceOK(procs[p], current, manifests, temps, logs) /\ VersionsOK(procs[p])
  BY <1>1, OwnerFacts
<1>4. ~current.exists
  BY <1>1, <1>3 DEF PlaceOK, CreatingOK
<1>5. VersionsOK(procs'[p]) /\ ~Inside(procs'[p])
  BY <1>1, <1>2, <1>3 DEF VersionsOK
<1>6. PICK k \in {manifests[1], Absent} : manifests' = [manifests EXCEPT ![1] = k]
  <2>1. manifests = [manifests EXCEPT ![1] = manifests[1]]
    BY <1>1, OwnerFacts
  <2> QED
    BY <2>1 DEF NewRemove
<1>7. k \in Manifests /\ ManifestOK(k, 1)
  <2>1. manifests \in [Numbers -> Manifests] /\ ManifestOK(manifests[1], 1) /\ 1 \in Numbers
    BY <1>1, OwnerFacts, NumbersFacts
  <2>2. Absent \in Manifests /\ ManifestOK(Absent, 1)
    BY <2>1, NewManifestOK
  <2> QED
    BY <2>1, <2>2
<1> QED
  BY <1>1, <1>2, <1>4, <1>5, <1>6, <1>7, NumbersFacts, ManifestStep DEF NewRemove

-----------------------------------------------------------------------------
(* set_current_file.                                                       *)

\* The process p changes temporary files only, and goes on.
LEMMA TempStep ==
    ASSUME IInv, NEW p \in Procs, Inside(procs[p]), NEW x \in Pcs, Goto(p, x),
           temps' \in [Numbers -> {"absent", "written", "synced"}],
           UNCHANGED <<lock, current, manifests, logs>>, VersionsOK(procs'[p]),
           Inside(procs'[p]) => PlaceOK(procs'[p], current, manifests, temps', logs)
    PROVE  IInv' /\ Stable
<1>1. procs' \in [Procs -> ProcRecords] /\ OnlyMoves(p)
  BY OwnerFacts, GotoEffect
<1>2. current' = current /\ manifests' = manifests /\ logs' = logs /\ lock' = lock
  OBVIOUS
<1>3. TypeOK' /\ DiskOK(current', manifests')
  BY <1>1, <1>2 DEF IInv, TypeOK
<1>4. Stable
  BY <1>2 DEF Stable
<1> QED
  BY <1>1, <1>2, <1>3, <1>4, OwnerStep

\* set_current_file's number names a manifest.
LEMMA InstallingNumber ==
    ASSUME IInv, NEW p \in Procs, procs[p].pc \in TempPcs
    PROVE  procs[p].installing \in Numbers
BY OwnerFacts, NumbersFacts DEF PlaceOK, ApplyingOK

LEMMA TempWriteStep ==
    ASSUME IInv, NEW p \in Procs, TempWrite(p)
    PROVE  IInv' /\ Stable
<1>1. procs[p].pc = "temp write" /\ Inside(procs[p])
  BY DEF TempWrite, At
<1>2. /\ procs'[p].pc = "temp sync" /\ SameNumbers(procs[p], procs'[p])
      /\ procs'[p].versions = procs[p].versions
  BY <1>1, OwnerFacts, GotoEffect DEF TempWrite
<1>3. PlaceOK(procs[p], current, manifests, temps, logs) /\ VersionsOK(procs[p])
  BY <1>1, OwnerFacts
<1>4. temps' \in [Numbers -> {"absent", "written", "synced"}]
  BY <1>1, OwnerFacts DEF TempWrite
<1>5. VersionsOK(procs'[p])
  BY <1>1, <1>2, <1>3 DEF VersionsOK, Ended, SameNumbers
<1>6. PlaceOK(procs'[p], current, manifests, temps', logs)
  <2>1. CreatingOK(procs'[p], current, manifests)
    BY <1>1, <1>2, <1>3 DEF PlaceOK, CreatingOK, SameNumbers
  <2>2. ExistsOK(procs'[p], current)
    BY <1>1, <1>2, <1>3 DEF PlaceOK, ExistsOK, SameNumbers
  <2>3. LogNumberOK(procs'[p], current, manifests)
    BY <1>1, <1>2, <1>3 DEF PlaceOK, LogNumberOK, SameNumbers
  <2>4. RecoveredOK(procs'[p], current, logs)
    BY <1>1, <1>2, <1>3 DEF PlaceOK, RecoveredOK, SameNumbers
  <2>5. ApplyingOK(procs'[p], current, manifests, logs)
    BY <1>1, <1>2, <1>3 DEF PlaceOK, ApplyingOK, SameNumbers
  <2>6. RenameOK(procs'[p], temps')
    BY <1>1, <1>2, <1>3 DEF PlaceOK, RenameOK, SameNumbers
  <2>7. DoneOK(procs'[p], current, logs)
    BY <1>1, <1>2, <1>3 DEF PlaceOK, DoneOK, SameNumbers
  <2> QED
    BY <2>1, <2>2, <2>3, <2>4, <2>5, <2>6, <2>7 DEF PlaceOK
<1> QED
  BY <1>1, <1>4, <1>5, <1>6, TempStep DEF TempWrite

LEMMA TempSyncStep ==
    ASSUME IInv, NEW p \in Procs, TempSync(p)
    PROVE  IInv' /\ Stable
<1>1. procs[p].pc = "temp sync" /\ Inside(procs[p])
  BY DEF TempSync, At
<1>2. /\ procs'[p].pc = "rename" /\ SameNumbers(procs[p], procs'[p])
      /\ procs'[p].versions = procs[p].versions
  BY <1>1, OwnerFacts, GotoEffect DEF TempSync
<1>3. PlaceOK(procs[p], current, manifests, temps, logs) /\ VersionsOK(procs[p])
  BY <1>1, OwnerFacts
<1>4. /\ temps' \in [Numbers -> {"absent", "written", "synced"}]
      /\ temps'[procs[p].installing] = "synced"
  BY <1>1, OwnerFacts, InstallingNumber DEF TempSync
<1>5. VersionsOK(procs'[p])
  BY <1>1, <1>2, <1>3 DEF VersionsOK, Ended, SameNumbers
<1>6. PlaceOK(procs'[p], current, manifests, temps', logs)
  <2>1. CreatingOK(procs'[p], current, manifests)
    BY <1>1, <1>2, <1>3, <1>4 DEF PlaceOK, CreatingOK, SameNumbers
  <2>2. ExistsOK(procs'[p], current)
    BY <1>1, <1>2, <1>3, <1>4 DEF PlaceOK, ExistsOK, SameNumbers
  <2>3. LogNumberOK(procs'[p], current, manifests)
    BY <1>1, <1>2, <1>3, <1>4 DEF PlaceOK, LogNumberOK, SameNumbers
  <2>4. RecoveredOK(procs'[p], current, logs)
    BY <1>1, <1>2, <1>3, <1>4 DEF PlaceOK, RecoveredOK, SameNumbers
  <2>5. ApplyingOK(procs'[p], current, manifests, logs)
    BY <1>1, <1>2, <1>3, <1>4 DEF PlaceOK, ApplyingOK, SameNumbers
  <2>6. RenameOK(procs'[p], temps')
    BY <1>1, <1>2, <1>3, <1>4 DEF PlaceOK, RenameOK, SameNumbers
  <2>7. DoneOK(procs'[p], current, logs)
    BY <1>1, <1>2, <1>3, <1>4 DEF PlaceOK, DoneOK, SameNumbers
  <2> QED
    BY <2>1, <2>2, <2>3, <2>4, <2>5, <2>6, <2>7 DEF PlaceOK
<1> QED
  BY <1>1, <1>4, <1>5, <1>6, TempStep DEF TempSync

LEMMA TempRemoveStep ==
    ASSUME IInv, NEW p \in Procs, TempRemove(p)
    PROVE  IInv' /\ Stable
<1> DEFINE x == IF procs[p].installing = 1 THEN "failed" ELSE "apply remove"
<1>1. procs[p].pc = "temp remove" /\ Inside(procs[p]) /\ Goto(p, x) /\ x \in Pcs
  BY DEF TempRemove, At
<1>2. /\ procs'[p].pc = x /\ SameNumbers(procs[p], procs'[p])
      /\ procs'[p].versions = procs[p].versions
  BY <1>1, OwnerFacts, GotoEffect
<1>3. PlaceOK(procs[p], current, manifests, temps, logs) /\ VersionsOK(procs[p])
  BY <1>1, OwnerFacts
<1>4. temps' \in [Numbers -> {"absent", "written", "synced"}]
  BY <1>1, OwnerFacts DEF TempRemove
<1>5. VersionsOK(procs'[p])
  BY <1>1, <1>2, <1>3 DEF VersionsOK, Ended, SameNumbers
<1>6. Inside(procs'[p]) => PlaceOK(procs'[p], current, manifests, temps', logs)
  <2>1. Inside(procs'[p]) => CreatingOK(procs'[p], current, manifests)
    BY <1>1, <1>2, <1>3 DEF PlaceOK, CreatingOK, SameNumbers
  <2>2. Inside(procs'[p]) => ExistsOK(procs'[p], current)
    BY <1>1, <1>2, <1>3 DEF PlaceOK, ExistsOK, SameNumbers
  <2>3. Inside(procs'[p]) => LogNumberOK(procs'[p], current, manifests)
    BY <1>1, <1>2, <1>3 DEF PlaceOK, LogNumberOK, SameNumbers
  <2>4. Inside(procs'[p]) => RecoveredOK(procs'[p], current, logs)
    BY <1>1, <1>2, <1>3 DEF PlaceOK, RecoveredOK, SameNumbers
  <2>5. Inside(procs'[p]) => ApplyingOK(procs'[p], current, manifests, logs)
    BY <1>1, <1>2, <1>3 DEF PlaceOK, ApplyingOK, SameNumbers
  <2>6. Inside(procs'[p]) => RenameOK(procs'[p], temps')
    BY <1>1, <1>2, <1>3 DEF PlaceOK, RenameOK, SameNumbers
  <2>7. Inside(procs'[p]) => DoneOK(procs'[p], current, logs)
    BY <1>1, <1>2, <1>3 DEF PlaceOK, DoneOK, SameNumbers
  <2> QED
    BY <2>1, <2>2, <2>3, <2>4, <2>5, <2>6, <2>7 DEF PlaceOK
<1> HIDE DEF x
<1> QED
  BY <1>1, <1>4, <1>5, <1>6, TempStep DEF TempRemove

\* CURRENT goes from nothing to the empty database, or to a newer edit.
RenameEffect ==
    /\ current'.exists /\ manifests' = manifests
    /\ \/ /\ ~current.exists
          /\ DurableEdit(manifests'[current'.names], Edit(0, 2))
       \/ \E e, f \in Records :
            /\ current.exists /\ DurableEdit(manifests[current.names], e)
            /\ DurableEdit(manifests'[current'.names], f)
            /\ e.log < f.log

LEMMA RenameStep ==
    ASSUME IInv, NEW p \in Procs, Rename(p)
    PROVE  IInv' /\ RenameEffect
<1> DEFINE r == procs[p]
           n == r.installing
<1>1. r.pc = "rename" /\ Inside(r)
  BY DEF Rename, At
<1>2. PlaceOK(r, current, manifests, temps, logs) /\ VersionsOK(r) /\ r \in ProcRecords
  BY <1>1, OwnerFacts
<1>3. n \in Numbers /\ temps[n] = "synced"
  BY <1>1, <1>2, InstallingNumber DEF PlaceOK, RenameOK
<1>4. /\ current' = [exists |-> TRUE, names |-> n, synced |-> TRUE]
      /\ manifests' = manifests /\ logs' = logs /\ lock' = lock
      /\ current'.exists /\ current'.names = n /\ current'.synced
  BY <1>3 DEF Rename
<1>5. current' \in Currents /\ temps' \in [Numbers -> {"absent", "written", "synced"}]
  BY <1>1, <1>3, <1>4, NumbersFacts, OwnerFacts DEF Rename, Currents
<1>6. ASSUME n = 1
      PROVE  /\ procs' \in [Procs -> ProcRecords] /\ OnlyMoves(p)
             /\ DiskOK(current', manifests') /\ VersionsOK(procs'[p])
             /\ PlaceOK(procs'[p], current', manifests', temps', logs') /\ RenameEffect
  <2>1. ~current.exists /\ DurableEdit(manifests[1], Edit(0, 2))
    BY <1>1, <1>2, <1>6 DEF PlaceOK, CreatingOK
  <2>2. procs \in [Procs -> ProcRecords] /\ Goto(p, "recover")
    BY <1>1, <1>6, OwnerFacts DEF Rename, Goto
  <2>3. /\ procs' \in [Procs -> ProcRecords] /\ OnlyMoves(p) /\ procs'[p].pc = "recover"
        /\ SameNumbers(r, procs'[p]) /\ procs'[p].versions = r.versions
    BY <2>2, GotoEffect
  <2>4. DiskOK(current', manifests')
    BY <1>1, <1>4, <1>6, <2>1, OwnerFacts, EditFacts, NumbersFacts DEF DiskOK, CurrentOK
  <2>5. VersionsOK(procs'[p])
    BY <1>1, <1>2, <1>6, <2>3 DEF VersionsOK, Ended
  <2>6. PlaceOK(procs'[p], current', manifests', temps', logs')
    BY <1>4, <1>6, <2>3, NumberAssumption DEF PlaceOK, CreatingOK, ExistsOK, LogNumberOK,
         RecoveredOK, ApplyingOK, RenameOK, DoneOK
  <2>7. RenameEffect
    BY <1>4, <1>6, <2>1 DEF RenameEffect
  <2> QED
    BY <2>3, <2>4, <2>5, <2>6, <2>7
<1>7. ASSUME n # 1
      PROVE  /\ procs' \in [Procs -> ProcRecords] /\ OnlyMoves(p)
             /\ DiskOK(current', manifests') /\ VersionsOK(procs'[p])
             /\ PlaceOK(procs'[p], current', manifests', temps', logs') /\ RenameEffect
  <2> DEFINE s == [r EXCEPT !.pc = "obsolete", !.log_number = r.log,
                            !.versions = ApplyAppends(r.versions)]
             e == Edit(r.log, r.next)
  <2>1. /\ r.manifest = n /\ r.log \in logs /\ r.log > r.log_number
        /\ DurableEdit(manifests[n], e)
    BY <1>1, <1>2, <1>7 DEF PlaceOK, ApplyingOK
  <2>2. PICK f \in Records : DurableEdit(manifests[current.names], f) /\ f.log = r.log_number
    BY <1>1, <1>2, <1>7 DEF PlaceOK, LogNumberOK
  <2>3. current.exists
    BY <1>1, <1>2, <1>7 DEF PlaceOK, LogNumberOK
  <2>4. Alone(ApplyAppends(r.versions), 3) /\ ApplyAppends(r.versions) \in ListType
    <3>1. Building(r.versions, 2, 3)
      BY <1>1, <1>2, <1>7 DEF VersionsOK
    <3>2. Alone(ApplyAppends(r.versions), 3)
      BY <3>1, ThirdAlone
    <3> QED
      BY <3>2 DEF Alone
  <2>5. r.log \in Nat /\ r.next \in Nat /\ r.log_number \in Nat /\ r.manifest \in Nat
    BY <1>2 DEF ProcRecords
  <2>6. s \in ProcRecords
    BY <1>2, <2>4, <2>5, UpdateType
  <2>7. /\ s.pc = "obsolete" /\ s.manifest = n /\ s.log = r.log /\ s.log_number = r.log
        /\ Alone(s.versions, 3)
    BY <1>2, <2>1, <2>4 DEF ProcRecords
  <2>8. procs \in [Procs -> ProcRecords] /\ procs' = [procs EXCEPT ![p] = s]
    BY <1>1, <1>7, OwnerFacts DEF Rename
  <2> HIDE DEF s
  <2>9. procs' \in [Procs -> ProcRecords] /\ OnlyMoves(p) /\ procs'[p] = s
    BY <2>6, <2>8, UpdateEffect
  <2>10. e \in Records /\ e.log = r.log
    BY <2>5, EditFacts
  <2> HIDE DEF e
  <2>11. DiskOK(current', manifests')
    BY <1>1, <1>3, <1>4, <2>1, <2>10, OwnerFacts DEF DiskOK, CurrentOK
  <2>12. VersionsOK(procs'[p])
    BY <1>1, <1>2, <2>7, <2>9 DEF VersionsOK, Ended
  <2>13. PlaceOK(procs'[p], current', manifests', temps', logs')
    <3>1. LogNumberOK(s, current', manifests')
      BY <1>4, <2>1, <2>7, <2>10 DEF LogNumberOK
    <3>2. DoneOK(s, current', logs')
      BY <1>4, <2>1, <2>5, <2>7 DEF DoneOK
    <3>3. CreatingOK(s, current', manifests') /\ ExistsOK(s, current') /\ RecoveredOK(s, current', logs')
          /\ ApplyingOK(s, current', manifests', logs') /\ RenameOK(s, temps')
      BY <2>7 DEF CreatingOK, ExistsOK, RecoveredOK, ApplyingOK, RenameOK
    <3> QED
      BY <2>9, <3>1, <3>2, <3>3 DEF PlaceOK
  <2>14. RenameEffect
    BY <1>4, <2>1, <2>2, <2>3, <2>5, <2>10 DEF RenameEffect
  <2> QED
    BY <2>9, <2>11, <2>12, <2>13, <2>14
<1>8. TypeOK'
  BY <1>1, <1>4, <1>5, <1>6, <1>7, OwnerFacts DEF TypeOK
<1> QED
  BY <1>1, <1>4, <1>6, <1>7, <1>8, OwnerStep

-----------------------------------------------------------------------------
(* Recovery of the versions and of the logs.                               *)

\* What recovery reads behind CURRENT.
LEMMA CurrentEdit ==
    ASSUME IInv, current.exists
    PROVE  /\ current.names \in Numbers /\ current.synced
           /\ \E e \in Records : DurableEdit(manifests[current.names], e)
           /\ \A e \in Records : DurableEdit(manifests[current.names], e) =>
                /\ Recoverable(manifests[current.names])
                /\ LastEdit(manifests[current.names].records) = e
                /\ e.log < e.next /\ current.names < e.next /\ e.next <= current.names + 2
<1>1. /\ current.names \in Numbers /\ current.synced
      /\ \E e \in Records : DurableEdit(manifests[current.names], e)
  BY DEF IInv, DiskOK, CurrentOK
<1>2. manifests[current.names] \in Manifests /\ ManifestOK(manifests[current.names], current.names)
  BY <1>1 DEF IInv, TypeOK, DiskOK
<1> QED
  BY <1>1, <1>2, OneEdit

LEMMA RecoverVersionsStep ==
    ASSUME IInv, NEW p \in Procs, RecoverVersions(p)
    PROVE  IInv' /\ Stable
<1> DEFINE r == procs[p]
           m == manifests[current.names]
<1>1. r.pc = "recover" /\ Inside(r)
  BY DEF RecoverVersions, At
<1>2. PlaceOK(r, current, manifests, temps, logs) /\ VersionsOK(r) /\ r \in ProcRecords
      /\ procs \in [Procs -> ProcRecords]
  BY <1>1, OwnerFacts
<1>3. current.exists /\ current.names + 3 <= MaxNumber
  BY <1>1, <1>2 DEF PlaceOK, ExistsOK
<1>4. PICK e \in Records : DurableEdit(m, e)
  BY <1>3, CurrentEdit
<1>5. /\ current.names \in Numbers /\ Recoverable(m) /\ LastEdit(m.records) = e
      /\ e.log < e.next /\ current.names < e.next /\ e.next <= current.names + 2
  BY <1>3, <1>4, CurrentEdit
<1> DEFINE x == IF p \in ReuseLogs THEN "reuse" ELSE "logs"
           b == p \notin ReuseLogs
           v == RecoverAppends(r.versions, SelfLinked[p])
           s == [r EXCEPT !.pc = x, !.manifest = e.next, !.next = e.next + 1, !.log_number = e.log,
                          !.save = b, !.versions = v]
<1>6. procs' = [procs EXCEPT ![p] = s]
  BY <1>5, NumbersFacts DEF RecoverVersions
<1>7. Alone(v, 2) /\ v \in ListType
  <2>1. Alone(r.versions, 1)
    BY <1>1, <1>2 DEF VersionsOK
  <2>2. Alone(v, 2)
    BY <2>1, SecondAlone
  <2> QED
    BY <2>2 DEF Alone
<1>8. e.next \in Nat /\ e.next + 1 \in Nat /\ e.log \in Nat
  BY DEF Records
<1>9. x \in Pcs /\ b \in BOOLEAN /\ x \in {"reuse", "logs"} /\ (x = "reuse" <=> ~b)
  OBVIOUS
<1> HIDE DEF x, b, v
<1>10. s \in ProcRecords
  <2>1. \A n, k, l \in Nat, c \in BOOLEAN, w \in ListType :
          [r EXCEPT !.pc = x, !.manifest = n, !.next = k, !.log_number = l, !.save = c,
                    !.versions = w] \in ProcRecords
    BY <1>2, <1>9, UpdateType
  <2> QED
    BY <1>7, <1>8, <1>9, <2>1
<1>11. s.pc = x /\ s.manifest = e.next /\ s.next = e.next + 1 /\ s.log_number = e.log
       /\ s.save = b /\ s.versions = v
  BY <1>2 DEF ProcRecords
<1> HIDE DEF s
<1>12. procs' \in [Procs -> ProcRecords] /\ OnlyMoves(p) /\ procs'[p] = s
  BY <1>2, <1>6, <1>10, UpdateEffect
<1>13. VersionsOK(s)
  BY <1>1, <1>2, <1>7, <1>9, <1>11 DEF VersionsOK, Ended
<1>14. PlaceOK(s, current, manifests, temps, logs)
  <2>1. LogNumberOK(s, current, manifests)
    BY <1>3, <1>4, <1>11 DEF LogNumberOK
  <2>2. RecoveredOK(s, current, logs)
    <3>1. e.next \in Numbers
      BY <1>3, <1>5, <1>8, NumbersFacts DEF Numbers
    <3>2. e.next + 1 > e.log /\ e.next > current.names
      BY <1>5, <1>8, NumbersFacts
    <3> QED
      BY <1>9, <1>11, <3>1, <3>2 DEF RecoveredOK
  <2>3. /\ CreatingOK(s, current, manifests) /\ ExistsOK(s, current)
        /\ ApplyingOK(s, current, manifests, logs) /\ RenameOK(s, temps) /\ DoneOK(s, current, logs)
    BY <1>9, <1>11 DEF CreatingOK, ExistsOK, ApplyingOK, RenameOK, DoneOK
  <2> QED
    BY <2>1, <2>2, <2>3 DEF PlaceOK
<1> QED
  BY <1>1, <1>12, <1>13, <1>14, KeepsStep DEF RecoverVersions

LEMMA ReuseDeclinesStep ==
    ASSUME IInv, NEW p \in Procs, ReuseDeclines(p)
    PROVE  IInv' /\ Stable
<1> DEFINE r == procs[p]
           s == [r EXCEPT !.pc = "logs", !.save = TRUE]
<1>1. r.pc = "reuse" /\ Inside(r) /\ procs' = [procs EXCEPT ![p] = s]
  BY DEF ReuseDeclines, At
<1>2. PlaceOK(r, current, manifests, temps, logs) /\ VersionsOK(r) /\ r \in ProcRecords
      /\ procs \in [Procs -> ProcRecords]
  BY <1>1, OwnerFacts
<1>3. s \in ProcRecords
  BY <1>2, UpdateType
<1>4. /\ s.pc = "logs" /\ s.save /\ s.manifest = r.manifest /\ s.next = r.next
      /\ s.log_number = r.log_number /\ s.versions = r.versions
  BY <1>2 DEF ProcRecords
<1> HIDE DEF s
<1>5. procs' \in [Procs -> ProcRecords] /\ OnlyMoves(p) /\ procs'[p] = s
  BY <1>1, <1>2, <1>3, UpdateEffect
<1>6. VersionsOK(s)
  BY <1>1, <1>2, <1>4 DEF VersionsOK, Ended
<1>7. PlaceOK(s, current, manifests, temps, logs)
  BY <1>1, <1>2, <1>4 DEF PlaceOK, CreatingOK, ExistsOK, LogNumberOK, RecoveredOK, ApplyingOK,
       RenameOK, DoneOK
<1> QED
  BY <1>1, <1>5, <1>6, <1>7, KeepsStep DEF ReuseDeclines

LEMMA ReuseManifestStep ==
    ASSUME IInv, NEW p \in Procs, ReuseManifest(p)
    PROVE  IInv' /\ Stable
<1> DEFINE r == procs[p]
           s == [r EXCEPT !.pc = "logs", !.manifest = current.names]
<1>1. r.pc = "reuse" /\ Inside(r) /\ procs' = [procs EXCEPT ![p] = s]
  BY DEF ReuseManifest, At
<1>2. PlaceOK(r, current, manifests, temps, logs) /\ VersionsOK(r) /\ r \in ProcRecords
      /\ procs \in [Procs -> ProcRecords] /\ current.names \in Nat
  BY <1>1, OwnerFacts DEF Currents
<1>3. s \in ProcRecords
  BY <1>2, UpdateType
<1>4. /\ s.pc = "logs" /\ s.save = r.save /\ s.manifest = current.names /\ s.next = r.next
      /\ s.log_number = r.log_number /\ s.versions = r.versions
  BY <1>2 DEF ProcRecords
<1> HIDE DEF s
<1>5. procs' \in [Procs -> ProcRecords] /\ OnlyMoves(p) /\ procs'[p] = s
  BY <1>1, <1>2, <1>3, UpdateEffect
<1>6. VersionsOK(s)
  BY <1>1, <1>2, <1>4 DEF VersionsOK, Ended
<1>7. PlaceOK(s, current, manifests, temps, logs)
  BY <1>1, <1>2, <1>4 DEF PlaceOK, CreatingOK, ExistsOK, LogNumberOK, RecoveredOK, ApplyingOK,
       RenameOK, DoneOK
<1> QED
  BY <1>1, <1>5, <1>6, <1>7, KeepsStep DEF ReuseManifest

LEMMA ReuseUnsupportedStep ==
    ASSUME IInv, NEW p \in Procs, ReuseUnsupported(p)
    PROVE  IInv' /\ Stable
<1> DEFINE r == procs[p]
           x == IF p \in NDebug THEN "logs" ELSE "assert descriptor_file_"
           b == p \in NDebug
           s == [r EXCEPT !.pc = x, !.save = b]
<1>1. r.pc = "reuse" /\ Inside(r) /\ procs' = [procs EXCEPT ![p] = s]
  BY DEF ReuseUnsupported, At
<1>2. PlaceOK(r, current, manifests, temps, logs) /\ VersionsOK(r) /\ r \in ProcRecords
      /\ procs \in [Procs -> ProcRecords]
  BY <1>1, OwnerFacts
<1>3. x \in Pcs /\ b \in BOOLEAN /\ x \in {"logs", "assert descriptor_file_"} /\ (x = "logs" => b)
  OBVIOUS
<1> HIDE DEF x, b
<1>4. s \in ProcRecords
  BY <1>2, <1>3, UpdateType
<1>5. /\ s.pc = x /\ s.save = b /\ s.manifest = r.manifest /\ s.next = r.next
      /\ s.log_number = r.log_number /\ s.versions = r.versions
  BY <1>2 DEF ProcRecords
<1> HIDE DEF s
<1>6. procs' \in [Procs -> ProcRecords] /\ OnlyMoves(p) /\ procs'[p] = s
  BY <1>1, <1>2, <1>4, UpdateEffect
<1>7. VersionsOK(s)
  BY <1>1, <1>2, <1>3, <1>5 DEF VersionsOK, Ended
<1>8. Inside(s) => PlaceOK(s, current, manifests, temps, logs)
  BY <1>1, <1>2, <1>3, <1>5 DEF PlaceOK, CreatingOK, ExistsOK, LogNumberOK, RecoveredOK,
       ApplyingOK, RenameOK, DoneOK
<1> QED
  BY <1>1, <1>6, <1>7, <1>8, KeepsStep DEF ReuseUnsupported

\* How the names that recovery looks for are read back.
LEMMA ParseFacts ==
    /\ \A n \in Nat : /\ ParseFileName(LogFileName(n)).type = "kLogFile"
                      /\ ParseFileName(LogFileName(n)).number = n
                      /\ ParseFileName(DescriptorFileName(n)).type = "kDescriptorFile"
                      /\ ParseFileName(DescriptorFileName(n)).number = n
    /\ ParseFileName(CurrentFileName).type = "kCurrentFile"
BY DEF ParseFileName, LogFileName, DescriptorFileName, CurrentFileName, LockFileName, InfoLogFileName,
       OldInfoLogFileName, MakeFileName, Name, File, NoFile, StartsWithNumber, TypeOfSuffix

LEMMA OrderFacts ==
    /\ \A i, j \in Nat : ~(i >= j) => i < j
    /\ \A i, j \in Nat : i > j => i # j
    /\ \A i \in Nat : i + 1 < i + 2 /\ i < i + 2 /\ i + 2 <= i + 2 /\ i + 1 \in Nat /\ i + 2 \in Nat
OBVIOUS

LEMMA RecoverLogsStep ==
    ASSUME IInv, NEW p \in Procs, RecoverLogs(p)
    PROVE  IInv' /\ Stable
<1> DEFINE r == procs[p]
<1>1. r.pc = "logs" /\ Inside(r)
  BY DEF RecoverLogs, At
<1>2. PlaceOK(r, current, manifests, temps, logs) /\ VersionsOK(r) /\ r \in ProcRecords
      /\ procs \in [Procs -> ProcRecords] /\ logs \in SUBSET Nat
  BY <1>1, OwnerFacts
<1>3. PICK x \in {"new log", "failed", "assert db_lock_"} :
        Goto(p, x) /\ (x = "new log" => LogsToReplay(p) = {})
  BY DEF RecoverLogs
<1>4. /\ procs'[p].pc = x /\ SameNumbers(r, procs'[p])
      /\ procs'[p].versions = r.versions
  BY <1>2, <1>3, GotoEffect
<1>5. ASSUME LogsToReplay(p) = {}, NEW n \in logs
      PROVE  n < r.log_number
  <2>1. LogFileName(n) \in Children
    BY DEF Children
  <2>2. n \in Nat /\ r.log_number \in Nat
    BY <1>2 DEF ProcRecords
  <2>3. ParseFileName(LogFileName(n)).type = "kLogFile" /\ ParseFileName(LogFileName(n)).number = n
    BY <2>2, ParseFacts
  <2>4. ~(n >= r.log_number)
    BY <1>5, <2>1, <2>3 DEF LogsToReplay
  <2> QED
    BY <2>2, <2>4, OrderFacts
<1>6. VersionsOK(procs'[p])
  BY <1>1, <1>2, <1>4 DEF VersionsOK, Ended
<1>7. Inside(procs'[p]) => PlaceOK(procs'[p], current, manifests, temps, logs)
  BY <1>1, <1>2, <1>3, <1>4, <1>5 DEF PlaceOK, CreatingOK, ExistsOK, LogNumberOK, RecoveredOK,
       ApplyingOK, RenameOK, DoneOK, SameNumbers
<1> QED
  BY <1>1, <1>3, <1>6, <1>7, PlaceStep DEF RecoverLogs

-----------------------------------------------------------------------------
(* The new log and log_any_apply.                                          *)

LEMMA NewLogStep ==
    ASSUME IInv, NEW p \in Procs, NewLog(p)
    PROVE  IInv' /\ Stable
<1> DEFINE r == procs[p]
           x == IF r.save THEN "apply begin" ELSE "obsolete"
           s == [r EXCEPT !.pc = x, !.log = r.next, !.next = r.next + 1]
<1>1. r.pc = "new log" /\ Inside(r)
      /\ lock' = lock /\ current' = current /\ manifests' = manifests /\ temps' = temps
      /\ logs' = logs \cup {r.next}
  BY DEF NewLog, At
<1>2. PlaceOK(r, current, manifests, temps, logs) /\ VersionsOK(r) /\ r \in ProcRecords
      /\ procs \in [Procs -> ProcRecords] /\ logs \in SUBSET Nat
  BY <1>1, OwnerFacts
<1>3. procs' = [procs EXCEPT ![p] = s]
  BY DEF NewLog
<1>4. r.next \in Nat /\ r.next + 1 \in Nat /\ r.log_number \in Nat /\ r.manifest \in Nat
  <2>1. r.next \in Nat /\ r.log_number \in Nat /\ r.manifest \in Nat
    BY <1>2 DEF ProcRecords
  <2> QED
    BY <2>1
<1>5. x \in Pcs /\ x \in {"apply begin", "obsolete"} /\ (x = "apply begin" <=> r.save)
  OBVIOUS
<1> HIDE DEF x
<1>6. s \in ProcRecords
  BY <1>2, <1>4, <1>5, UpdateType
<1>7. /\ s.pc = x /\ s.log = r.next /\ s.next = r.next + 1 /\ s.manifest = r.manifest
      /\ s.log_number = r.log_number /\ s.versions = r.versions
  BY <1>2 DEF ProcRecords
<1> HIDE DEF s
<1>8. procs' \in [Procs -> ProcRecords] /\ OnlyMoves(p) /\ procs'[p] = s
  BY <1>2, <1>3, <1>6, UpdateEffect
<1>9. VersionsOK(s)
  BY <1>1, <1>2, <1>5, <1>7 DEF VersionsOK, Ended
<1>10. /\ current.exists /\ r.next > r.log_number
       /\ \E e \in Records : DurableEdit(manifests[current.names], e) /\ e.log = r.log_number
       /\ r.save => r.manifest \in Numbers /\ r.manifest > current.names /\ r.next = r.manifest + 1
       /\ ~r.save => r.manifest = current.names
  BY <1>1, <1>2 DEF PlaceOK, LogNumberOK, RecoveredOK
<1>11. PlaceOK(s, current, manifests, temps, logs')
  <2>1. LogNumberOK(s, current, manifests)
    BY <1>7, <1>10 DEF LogNumberOK
  <2>2. ApplyingOK(s, current, manifests, logs')
    <3>1. CASE s.pc = "apply begin"
      <4>1. /\ s.manifest \in Numbers /\ s.manifest > current.names /\ s.log = s.manifest + 1
            /\ s.log > s.log_number /\ s.log \in logs'
        BY <1>1, <1>5, <1>7, <1>10, <3>1
      <4>2. s.next = s.manifest + 2
        BY <1>4, <1>7, <1>10, <4>1
      <4> QED
        BY <3>1, <4>1, <4>2 DEF ApplyingOK
    <3>2. CASE s.pc = "obsolete"
      BY <3>2 DEF ApplyingOK
    <3> QED
      BY <1>5, <1>7, <3>1, <3>2
  <2>3. DoneOK(s, current, logs')
    <3>1. CASE s.pc = "apply begin"
      BY <3>1 DEF DoneOK
    <3>2. CASE s.pc = "obsolete"
      <4>1. s.manifest = current.names /\ s.log \in logs' /\ s.log_number <= s.log
        <5>1. ~r.save /\ s.manifest = current.names /\ s.log = r.next /\ s.log_number = r.log_number
          BY <1>5, <1>7, <1>10, <3>2
        <5>2. r.log_number <= r.next
          BY <1>4, <1>10
        <5> QED
          BY <1>1, <5>1, <5>2
      <4> QED
        BY <3>2, <4>1 DEF DoneOK
    <3> QED
      BY <1>5, <1>7, <3>1, <3>2
  <2>4. CreatingOK(s, current, manifests) /\ ExistsOK(s, current) /\ RecoveredOK(s, current, logs')
        /\ RenameOK(s, temps)
    BY <1>5, <1>7 DEF CreatingOK, ExistsOK, RecoveredOK, RenameOK
  <2> QED
    BY <2>1, <2>2, <2>3, <2>4 DEF PlaceOK
<1>12. TypeOK' /\ DiskOK(current', manifests') /\ Stable
  BY <1>1, <1>2, <1>4, <1>8 DEF IInv, TypeOK, Stable
<1> QED
  BY <1>1, <1>8, <1>9, <1>11, <1>12, OwnerStep

LEMMA ApplyBeginStep ==
    ASSUME IInv, NEW p \in Procs, ApplyBegin(p)
    PROVE  IInv' /\ Stable
<1> DEFINE r == procs[p]
           v == ApplyBuilds(r.versions, SelfLinked[p])
           s == [r EXCEPT !.pc = "apply create", !.versions = v]
<1>1. r.pc = "apply begin" /\ Inside(r) /\ procs' = [procs EXCEPT ![p] = s]
  BY DEF ApplyBegin, At
<1>2. PlaceOK(r, current, manifests, temps, logs) /\ VersionsOK(r) /\ r \in ProcRecords
      /\ procs \in [Procs -> ProcRecords]
  BY <1>1, OwnerFacts
<1>3. Building(v, 2, 3) /\ v \in ListType
  <2>1. Alone(r.versions, 2)
    BY <1>1, <1>2 DEF VersionsOK
  <2>2. Building(v, 2, 3)
    BY <2>1, BuildingBuilt
  <2> QED
    BY <2>2 DEF Building
<1> HIDE DEF v
<1>4. s \in ProcRecords
  BY <1>2, <1>3, UpdateType
<1>5. /\ s.pc = "apply create" /\ SameNumbers(r, s) /\ Building(s.versions, 2, 3)
  BY <1>2, <1>3 DEF ProcRecords, SameNumbers
<1> HIDE DEF s
<1>6. procs' \in [Procs -> ProcRecords] /\ OnlyMoves(p) /\ procs'[p] = s
  BY <1>1, <1>2, <1>4, UpdateEffect
<1>7. VersionsOK(s)
  BY <1>1, <1>2, <1>5 DEF VersionsOK, Ended
<1>8. PlaceOK(s, current, manifests, temps, logs)
  BY <1>1, <1>2, <1>5 DEF PlaceOK, CreatingOK, ExistsOK, LogNumberOK, RecoveredOK, ApplyingOK,
       RenameOK, DoneOK, SameNumbers
<1> QED
  BY <1>1, <1>6, <1>7, <1>8, KeepsStep DEF ApplyBegin

\* log_any_apply writes its own manifest.
LEMMA ApplyingFacts ==
    ASSUME IInv, NEW p \in Procs, procs[p].pc \in ApplyPcs
    PROVE  /\ Inside(procs[p]) /\ procs[p].manifest \in Numbers
           /\ current.exists => procs[p].manifest # current.names
           /\ procs[p].log \in Nat /\ procs[p].next \in Nat
           /\ procs[p].log < procs[p].next /\ procs[p].manifest < procs[p].next
           /\ procs[p].next <= procs[p].manifest + 2
           /\ manifests[procs[p].manifest] \in Manifests
           /\ ManifestOK(manifests[procs[p].manifest], procs[p].manifest)
<1>1. PlaceOK(procs[p], current, manifests, temps, logs) /\ procs[p] \in ProcRecords
      /\ manifests \in [Numbers -> Manifests] /\ \A n \in Numbers : ManifestOK(manifests[n], n)
      /\ CurrentOK(current, manifests)
  BY OwnerFacts
<1>2. /\ procs[p].manifest \in Numbers /\ procs[p].manifest > current.names
      /\ procs[p].log = procs[p].manifest + 1 /\ procs[p].next = procs[p].manifest + 2
  BY <1>1 DEF PlaceOK, ApplyingOK
<1>3. procs[p].manifest \in Nat
  BY <1>2, NumbersFacts
<1>4. current.exists => procs[p].manifest # current.names
  <2>1. current.exists => current.names \in Nat
    BY <1>1, NumbersFacts DEF CurrentOK
  <2> QED
    BY <1>2, <1>3, <2>1, OrderFacts
<1>5. /\ procs[p].log \in Nat /\ procs[p].next \in Nat
      /\ procs[p].log < procs[p].next /\ procs[p].manifest < procs[p].next
      /\ procs[p].next <= procs[p].manifest + 2
  BY <1>2, <1>3, OrderFacts
<1> QED
  BY <1>1, <1>2, <1>4, <1>5

\* The manifest of log_any_apply changes; nothing else that the invariant relates to it.
LEMMA ApplyPlace ==
    ASSUME NEW r, NEW s, NEW n, NEW k, SameNumbers(r, s), n = r.manifest,
           PlaceOK(r, current, manifests, temps, logs), r.pc \in ApplyPcs,
           current.exists => manifests'[current.names] = manifests[current.names],
           manifests'[n] = k,
           \/ s.pc = "apply snapshot" /\ k = Created
           \/ s.pc = "apply edit" /\ k.exists /\ Edits(k.records) = {}
           \/ s.pc = "apply sync" /\ HasEdit(k, Edit(s.log, s.next))
    PROVE  PlaceOK(s, current, manifests', temps, logs)
<1>1. /\ s.pc \in {"apply snapshot", "apply edit", "apply sync"}
      /\ s.manifest = r.manifest /\ s.next = r.next /\ s.log_number = r.log_number /\ s.log = r.log
  BY DEF SameNumbers
<1>2. LogNumberOK(s, current, manifests')
  BY <1>1 DEF PlaceOK, LogNumberOK
<1>3. ApplyingOK(s, current, manifests', logs)
  BY <1>1 DEF PlaceOK, ApplyingOK
<1>4. CreatingOK(s, current, manifests') /\ ExistsOK(s, current) /\ RecoveredOK(s, current, logs)
      /\ RenameOK(s, temps) /\ DoneOK(s, current, logs)
  BY <1>1 DEF CreatingOK, ExistsOK, RecoveredOK, RenameOK, DoneOK
<1> QED
  BY <1>2, <1>3, <1>4 DEF PlaceOK

LEMMA ApplyCreateStep ==
    ASSUME IInv, NEW p \in Procs, ApplyCreate(p)
    PROVE  IInv' /\ Stable
<1> DEFINE r == procs[p]
           n == r.manifest
<1>1. r.pc = "apply create" /\ Inside(r)
  BY DEF ApplyCreate, At
<1>2. /\ procs' \in [Procs -> ProcRecords] /\ OnlyMoves(p)
      /\ procs'[p].pc = "apply snapshot" /\ SameNumbers(r, procs'[p]) /\ procs'[p].versions = r.versions
  BY <1>1, OwnerFacts, GotoEffect DEF ApplyCreate
<1>3. PlaceOK(r, current, manifests, temps, logs) /\ VersionsOK(r)
  BY <1>1, OwnerFacts
<1>4. n \in Numbers /\ (current.exists => n # current.names)
  BY <1>1, ApplyingFacts
<1>5. manifests' = [manifests EXCEPT ![n] = Created] /\ current' = current
  BY DEF ApplyCreate
<1>6. /\ manifests'[n] = Created
      /\ current.exists => manifests'[current.names] = manifests[current.names]
  BY <1>4, <1>5, NewManifestOK, ManifestChange
<1>7. VersionsOK(procs'[p])
  BY <1>1, <1>2, <1>3 DEF VersionsOK, Ended
<1>8. PlaceOK(procs'[p], current, manifests', temps, logs)
  BY <1>1, <1>2, <1>3, <1>6, ApplyPlace
<1> QED
  BY <1>1, <1>2, <1>4, <1>5, <1>7, <1>8, NewManifestOK, ManifestStep DEF ApplyCreate

LEMMA ApplySnapshotStep ==
    ASSUME IInv, NEW p \in Procs, ApplySnapshot(p)
    PROVE  IInv' /\ Stable
<1> DEFINE r == procs[p]
           n == r.manifest
           k == [manifests[n] EXCEPT !.records = Append(@, Snapshot)]
<1>1. r.pc = "apply snapshot" /\ Inside(r)
  BY DEF ApplySnapshot, At
<1>2. /\ procs' \in [Procs -> ProcRecords] /\ OnlyMoves(p)
      /\ procs'[p].pc = "apply edit" /\ SameNumbers(r, procs'[p]) /\ procs'[p].versions = r.versions
  BY <1>1, OwnerFacts, GotoEffect DEF ApplySnapshot
<1>3. PlaceOK(r, current, manifests, temps, logs) /\ VersionsOK(r)
  BY <1>1, OwnerFacts
<1>4. /\ n \in Numbers /\ (current.exists => n # current.names)
      /\ manifests[n] \in Manifests /\ ManifestOK(manifests[n], n)
  BY <1>1, ApplyingFacts
<1>5. manifests[n] = Created
  BY <1>1, <1>3 DEF PlaceOK, ApplyingOK
<1>6. k \in Manifests /\ ManifestOK(k, n) /\ k.exists /\ Edits(k.records) = {}
  <2>1. manifests[n].exists /\ Edits(manifests[n].records) = {}
    BY <1>4, <1>5, NewManifestOK
  <2>2. Snapshot \in Records /\ Snapshot.kind # "edit"
    BY EditFacts
  <2> QED
    BY <1>4, <2>1, <2>2, AppendOK
<1>7. manifests' = [manifests EXCEPT ![n] = k] /\ current' = current
  BY <1>1, <1>4, OwnerFacts DEF ApplySnapshot, Write
<1> HIDE DEF k
<1>8. /\ manifests'[n] = k
      /\ current.exists => manifests'[current.names] = manifests[current.names]
  BY <1>4, <1>6, <1>7, ManifestChange
<1>9. VersionsOK(procs'[p])
  BY <1>1, <1>2, <1>3 DEF VersionsOK, Ended
<1>10. PlaceOK(procs'[p], current, manifests', temps, logs)
  BY <1>1, <1>2, <1>3, <1>6, <1>8, ApplyPlace
<1> QED
  BY <1>1, <1>2, <1>4, <1>6, <1>7, <1>9, <1>10, ManifestStep DEF ApplySnapshot

LEMMA ApplyEditStep ==
    ASSUME IInv, NEW p \in Procs, ApplyEdit(p)
    PROVE  IInv' /\ Stable
<1> DEFINE r == procs[p]
           n == r.manifest
           e == Edit(r.log, r.next)
           k == [manifests[n] EXCEPT !.records = Append(@, e)]
<1>1. r.pc = "apply edit" /\ Inside(r)
  BY DEF ApplyEdit, At
<1>2. /\ procs' \in [Procs -> ProcRecords] /\ OnlyMoves(p)
      /\ procs'[p].pc = "apply sync" /\ SameNumbers(r, procs'[p]) /\ procs'[p].versions = r.versions
  BY <1>1, OwnerFacts, GotoEffect DEF ApplyEdit
<1>3. PlaceOK(r, current, manifests, temps, logs) /\ VersionsOK(r)
  BY <1>1, OwnerFacts
<1>4. /\ n \in Numbers /\ (current.exists => n # current.names)
      /\ manifests[n] \in Manifests /\ ManifestOK(manifests[n], n)
      /\ r.log \in Nat /\ r.next \in Nat /\ r.log < r.next /\ n < r.next /\ r.next <= n + 2
  BY <1>1, ApplyingFacts
<1>5. manifests[n].exists /\ Edits(manifests[n].records) = {}
  BY <1>1, <1>3 DEF PlaceOK, ApplyingOK
<1>6. e \in Records /\ e.kind = "edit" /\ e.log < e.next /\ n < e.next /\ e.next <= n + 2
  BY <1>4, EditFacts
<1>7. manifests' = [manifests EXCEPT ![n] = k] /\ current' = current
  BY <1>1, <1>4, OwnerFacts DEF ApplyEdit, Write
<1>8. k \in Manifests /\ ManifestOK(k, n) /\ HasEdit(k, e)
  <2> HIDE DEF e
  <2> QED
    BY <1>4, <1>5, <1>6, AppendOK
<1> HIDE DEF k
<1>9. /\ manifests'[n] = k
      /\ current.exists => manifests'[current.names] = manifests[current.names]
  BY <1>4, <1>7, <1>8, ManifestChange
<1>10. VersionsOK(procs'[p])
  BY <1>1, <1>2, <1>3 DEF VersionsOK, Ended
<1>11. HasEdit(k, Edit(procs'[p].log, procs'[p].next))
  BY <1>2, <1>8 DEF SameNumbers
<1>12. PlaceOK(procs'[p], current, manifests', temps, logs)
  BY <1>1, <1>2, <1>3, <1>9, <1>11, ApplyPlace
<1> QED
  BY <1>1, <1>2, <1>4, <1>7, <1>8, <1>10, <1>12, ManifestStep DEF ApplyEdit

LEMMA ApplySyncStep ==
    ASSUME IInv, NEW p \in Procs, ApplySync(p)
    PROVE  IInv' /\ Stable
<1> DEFINE r == procs[p]
           n == r.manifest
           e == Edit(r.log, r.next)
           k == [manifests[n] EXCEPT !.synced = Len(manifests[n].records)]
           s == [r EXCEPT !.pc = "temp write", !.installing = n]
<1>1. r.pc = "apply sync" /\ Inside(r) /\ current' = current
      /\ procs' = [procs EXCEPT ![p] = s]
  BY DEF ApplySync, At
<1>2. PlaceOK(r, current, manifests, temps, logs) /\ VersionsOK(r) /\ r \in ProcRecords
      /\ procs \in [Procs -> ProcRecords] /\ CurrentOK(current, manifests)
  BY <1>1, OwnerFacts
<1>3. /\ n \in Numbers /\ n \in Nat /\ (current.exists => n # current.names)
      /\ manifests[n] \in Manifests /\ ManifestOK(manifests[n], n)
  BY <1>1, NumbersFacts, ApplyingFacts
<1>4. s \in ProcRecords
  BY <1>2, <1>3, UpdateType
<1>5. /\ s.pc = "temp write" /\ s.installing = n /\ s.manifest = n /\ s.log = r.log
      /\ s.next = r.next /\ s.log_number = r.log_number /\ s.versions = r.versions
  BY <1>2 DEF ProcRecords
<1> HIDE DEF s
<1>6. procs' \in [Procs -> ProcRecords] /\ OnlyMoves(p) /\ procs'[p] = s
  BY <1>1, <1>2, <1>4, UpdateEffect
<1>7. /\ HasEdit(manifests[n], e) /\ current.exists /\ n > current.names
      /\ r.log = n + 1 /\ r.next = n + 2 /\ r.log > r.log_number /\ r.log \in logs
      /\ \E f \in Records : DurableEdit(manifests[current.names], f) /\ f.log = r.log_number
  BY <1>1, <1>2 DEF PlaceOK, ApplyingOK, LogNumberOK
<1>8. k \in Manifests /\ ManifestOK(k, n) /\ DurableEdit(k, e)
  BY <1>3, <1>7, SyncOK
<1>9. manifests' = [manifests EXCEPT ![n] = k]
  BY <1>1, <1>3, OwnerFacts DEF ApplySync, SyncFile
<1> HIDE DEF k
<1>10. /\ manifests'[n] = k
       /\ current.exists => manifests'[current.names] = manifests[current.names]
  BY <1>1, <1>3, <1>8, <1>9, ManifestChange
<1>11. n # 1
  BY <1>2, <1>3, <1>7, NumbersFacts DEF CurrentOK, Numbers
<1>12. VersionsOK(s)
  BY <1>1, <1>2, <1>5, <1>11 DEF VersionsOK, Ended
<1>13. PlaceOK(s, current, manifests', temps, logs)
  <2>1. LogNumberOK(s, current, manifests')
    BY <1>5, <1>7, <1>10 DEF LogNumberOK
  <2>2. ApplyingOK(s, current, manifests', logs)
    BY <1>3, <1>5, <1>7, <1>8, <1>10 DEF ApplyingOK
  <2>3. CreatingOK(s, current, manifests') /\ ExistsOK(s, current) /\ RecoveredOK(s, current, logs)
        /\ RenameOK(s, temps) /\ DoneOK(s, current, logs)
    BY <1>5, <1>11 DEF CreatingOK, ExistsOK, RecoveredOK, RenameOK, DoneOK
  <2> QED
    BY <2>1, <2>2, <2>3 DEF PlaceOK
<1> QED
  BY <1>1, <1>3, <1>6, <1>8, <1>9, <1>12, <1>13, ManifestStep DEF ApplySync

LEMMA DeleteUnlinkedStep ==
    ASSUME IInv, NEW p \in Procs, DeleteUnlinked(p)
    PROVE  IInv' /\ Stable
<1>1. /\ procs \in [Procs -> ProcRecords] /\ VersionsOK(procs[p])
      /\ procs[p].pc = "apply remove"
  BY DEF IInv, TypeOK, DeleteUnlinked, Fails, At
<1>2. /\ procs' \in [Procs -> ProcRecords] /\ OnlyMoves(p) /\ procs'[p].pc = "null version"
      /\ procs'[p].versions = procs[p].versions
  BY <1>1, GotoEffect DEF DeleteUnlinked, Fails, Null
<1>3. ~Inside(procs'[p]) /\ VersionsOK(procs'[p])
  BY <1>1, <1>2 DEF VersionsOK, Null
<1> QED
  BY <1>2, <1>3, IdleStep DEF DeleteUnlinked, Fails, Keeps

LEMMA ApplyRemoveStep ==
    ASSUME IInv, NEW p \in Procs, ApplyRemove(p)
    PROVE  IInv' /\ Stable
<1> DEFINE r == procs[p]
           n == r.manifest
           v == ApplyDeletes(r.versions)
           s == [r EXCEPT !.pc = "failed", !.versions = v]
<1>1. r.pc = "apply remove" /\ Inside(r) /\ current' = current
      /\ procs' = [procs EXCEPT ![p] = s]
  BY DEF ApplyRemove, At
<1>2. VersionsOK(r) /\ r \in ProcRecords
      /\ procs \in [Procs -> ProcRecords] /\ manifests \in [Numbers -> Manifests]
  BY <1>1, OwnerFacts
<1>3. /\ n \in Numbers /\ (current.exists => n # current.names)
      /\ manifests[n] \in Manifests /\ ManifestOK(manifests[n], n)
  BY <1>1, ApplyingFacts
<1>4. Alone(v, 2) /\ v \in ListType
  <2>1. Building(r.versions, 2, 3)
    BY <1>1, <1>2 DEF VersionsOK
  <2>2. Alone(v, 2)
    BY <2>1, ThirdAlone DEF ApplyRemove
  <2> QED
    BY <2>2 DEF Alone
<1> HIDE DEF v
<1>5. s \in ProcRecords
  BY <1>2, <1>4, UpdateType
<1>6. s.pc = "failed" /\ Alone(s.versions, 2)
  BY <1>2, <1>4 DEF ProcRecords
<1> HIDE DEF s
<1>7. procs' \in [Procs -> ProcRecords] /\ OnlyMoves(p) /\ procs'[p] = s
  BY <1>1, <1>2, <1>5, UpdateEffect
<1>8. PICK k \in {manifests[n], Absent} : manifests' = [manifests EXCEPT ![n] = k]
  <2>1. manifests = [manifests EXCEPT ![n] = manifests[n]]
    BY <1>2
  <2> QED
    BY <2>1 DEF ApplyRemove
<1>9. k \in Manifests /\ ManifestOK(k, n)
  <2>1. Absent \in Manifests /\ ManifestOK(Absent, n)
    BY <1>3, NewManifestOK
  <2> QED
    BY <1>3, <2>1
<1>10. VersionsOK(s) /\ ~Inside(s)
  BY <1>1, <1>2, <1>6 DEF VersionsOK
<1> QED
  BY <1>1, <1>3, <1>7, <1>8, <1>9, <1>10, ManifestStep DEF ApplyRemove

-----------------------------------------------------------------------------
(* RemoveObsoleteFiles.                                                    *)

LEMMA ChildrenType ==
    ASSUME IInv
    PROVE  Children \subseteq FileNames
<1>1. Numbers \subseteq Nat /\ logs \subseteq Nat
  BY NumbersFacts DEF IInv, TypeOK
<1>2. \A n \in Nat : <<n>> \in Seq(Nat)
  OBVIOUS
<1>3. <<>> \in Seq(Nat)
  OBVIOUS
<1>4. \A n \in Nat : /\ LogFileName(n) \in FileNames /\ TempFileName(n) \in FileNames
                     /\ DescriptorFileName(n) \in FileNames
  BY <1>2 DEF LogFileName, TempFileName, DescriptorFileName, MakeFileName, Name, FileNames
<1>5. LockFileName \in FileNames /\ CurrentFileName \in FileNames
  BY <1>3 DEF LockFileName, CurrentFileName, Name, FileNames
<1> QED
  BY <1>1, <1>4, <1>5 DEF Children

LEMMA FindObsoleteStep ==
    ASSUME IInv, NEW p \in Procs, FindObsolete(p)
    PROVE  IInv' /\ Stable
<1> DEFINE r == procs[p]
<1>1. r.pc = "obsolete" /\ Inside(r)
  BY DEF FindObsolete, At
<1>2. PlaceOK(r, current, manifests, temps, logs) /\ VersionsOK(r) /\ r \in ProcRecords
      /\ procs \in [Procs -> ProcRecords]
  BY <1>1, OwnerFacts
<1>3. PICK doomed \in {Obsolete(p), {}} :
        procs' = [procs EXCEPT ![p].pc = "remove", ![p].doomed = doomed]
  BY DEF FindObsolete
<1> DEFINE s == [r EXCEPT !.pc = "remove", !.doomed = doomed]
<1>4. procs' = [procs EXCEPT ![p] = s]
  BY <1>3
<1>5. doomed \in SUBSET FileNames
  BY <1>3, ChildrenType DEF Obsolete
<1>6. s \in ProcRecords
  BY <1>2, <1>5, UpdateType
<1>7. /\ s.pc = "remove" /\ s.doomed = doomed /\ s.manifest = r.manifest /\ s.log = r.log
      /\ s.log_number = r.log_number /\ s.versions = r.versions
  BY <1>2 DEF ProcRecords
<1> HIDE DEF s
<1>8. procs' \in [Procs -> ProcRecords] /\ OnlyMoves(p) /\ procs'[p] = s
  BY <1>2, <1>4, <1>6, UpdateEffect
<1>9. VersionsOK(s)
  BY <1>1, <1>2, <1>7 DEF VersionsOK, Ended
<1>10. /\ current.names = r.manifest /\ r.log \in logs /\ r.log_number <= r.log
       /\ r.manifest \in Nat /\ r.log \in Nat /\ r.log_number \in Nat
  BY <1>1, <1>2 DEF PlaceOK, DoneOK, ProcRecords
<1>11. ASSUME NEW name \in doomed
       PROVE  /\ name # CurrentFileName /\ name # DescriptorFileName(r.manifest)
              /\ name # LogFileName(r.log)
  <2>1. ~Keep(p, ParseFileName(name))
    BY <1>3, <1>11 DEF Obsolete
  <2>2. Keep(p, ParseFileName(CurrentFileName))
    BY ParseFacts DEF Keep
  <2>3. r.manifest >= r.manifest /\ r.log >= r.log_number
    BY <1>10
  <2>4. Keep(p, ParseFileName(DescriptorFileName(r.manifest)))
    BY <1>10, <2>3, ParseFacts DEF Keep
  <2>5. Keep(p, ParseFileName(LogFileName(r.log)))
    BY <1>10, <2>3, ParseFacts DEF Keep
  <2> QED
    BY <2>1, <2>2, <2>4, <2>5
<1>12. PlaceOK(s, current, manifests, temps, logs)
  <2>1. LogNumberOK(s, current, manifests)
    BY <1>1, <1>2, <1>7 DEF PlaceOK, LogNumberOK
  <2>2. DoneOK(s, current, logs)
    BY <1>7, <1>10, <1>11 DEF DoneOK
  <2>3. CreatingOK(s, current, manifests) /\ ExistsOK(s, current) /\ RecoveredOK(s, current, logs)
        /\ ApplyingOK(s, current, manifests, logs) /\ RenameOK(s, temps)
    BY <1>7 DEF CreatingOK, ExistsOK, RecoveredOK, ApplyingOK, RenameOK
  <2> QED
    BY <2>1, <2>2, <2>3 DEF PlaceOK
<1> QED
  BY <1>1, <1>8, <1>9, <1>12, KeepsStep DEF FindObsolete

LEMMA RemoveObsoleteStep ==
    ASSUME IInv, NEW p \in Procs, RemoveObsolete(p)
    PROVE  IInv' /\ Stable
<1> DEFINE r == procs[p]
<1>1. r.pc = "remove" /\ Inside(r) /\ lock' = lock
  BY DEF RemoveObsolete, At
<1>2. /\ PlaceOK(r, current, manifests, temps, logs) /\ VersionsOK(r) /\ r \in ProcRecords
      /\ procs \in [Procs -> ProcRecords] /\ manifests \in [Numbers -> Manifests]
      /\ temps \in [Numbers -> {"absent", "written", "synced"}] /\ logs \in SUBSET Nat
      /\ current \in Currents /\ CurrentOK(current, manifests)
      /\ \A n \in Numbers : ManifestOK(manifests[n], n)
      /\ lock \in Procs \cup {NoProc}
  BY <1>1, OwnerFacts
<1>3. PICK name \in r.doomed : /\ procs' = [procs EXCEPT ![p].doomed = @ \ {name}]
                               /\ UNCHANGED disk \/ RemoveFile(name)
  BY DEF RemoveObsolete
<1> DEFINE d == r.doomed \ {name}
           s == [r EXCEPT !.doomed = d]
<1>4. procs' = [procs EXCEPT ![p] = s]
  BY <1>3
<1>5. d \in SUBSET FileNames
  BY <1>2 DEF ProcRecords
<1>6. s \in ProcRecords
  BY <1>1, <1>2, <1>5, UpdateType
<1>7. /\ s.pc = "remove" /\ s.doomed \subseteq r.doomed /\ s.manifest = r.manifest /\ s.log = r.log
      /\ s.log_number = r.log_number /\ s.versions = r.versions
  BY <1>1, <1>2 DEF ProcRecords
<1> HIDE DEF s
<1>8. procs' \in [Procs -> ProcRecords] /\ OnlyMoves(p) /\ procs'[p] = s
  BY <1>2, <1>4, <1>6, UpdateEffect
<1>9. VersionsOK(s)
  BY <1>1, <1>2, <1>7 DEF VersionsOK, Ended
<1>10. /\ current.names = r.manifest /\ r.log \in logs /\ r.log_number <= r.log /\ current.exists
       /\ \E e \in Records : DurableEdit(manifests[current.names], e) /\ e.log = r.log_number
       /\ \A n \in r.doomed : /\ n # CurrentFileName /\ n # DescriptorFileName(r.manifest)
                              /\ n # LogFileName(r.log)
  BY <1>1, <1>2 DEF PlaceOK, DoneOK, LogNumberOK
<1>11. current.names \in Numbers
  BY <1>2, <1>10 DEF CurrentOK
<1>12. /\ current' = current /\ manifests' \in [Numbers -> Manifests]
       /\ temps' \in [Numbers -> {"absent", "written", "synced"}] /\ logs' \in SUBSET Nat
       /\ \A n \in Numbers : ManifestOK(manifests'[n], n)
       /\ manifests'[current.names] = manifests[current.names]
       /\ r.log \in logs'
  <2>1. CASE UNCHANGED disk
    BY <1>2, <1>10, <2>1 DEF disk
  <2>2. CASE RemoveFile(name)
    <3>1. name # CurrentFileName /\ name # DescriptorFileName(current.names) /\ name # LogFileName(r.log)
      BY <1>3, <1>10
    <3>2. current' = current /\ r.log \in logs' /\ logs' \in SUBSET Nat
      BY <1>2, <1>10, <2>2, <3>1 DEF RemoveFile
    <3>3. temps' \in [Numbers -> {"absent", "written", "synced"}]
      BY <1>2, <2>2 DEF RemoveFile
    <3>4. manifests' = [n \in Numbers |-> IF name = DescriptorFileName(n) THEN Absent ELSE manifests[n]]
      BY <2>2 DEF RemoveFile
    <3>5. \A n \in Numbers : Absent \in Manifests /\ ManifestOK(Absent, n)
      BY NewManifestOK
    <3>6. manifests' \in [Numbers -> Manifests] /\ \A n \in Numbers : ManifestOK(manifests'[n], n)
      BY <1>2, <3>4, <3>5
    <3>7. manifests'[current.names] = manifests[current.names]
      BY <1>11, <3>1, <3>4
    <3> QED
      BY <3>2, <3>3, <3>6, <3>7
  <2> QED
    BY <1>3, <2>1, <2>2
<1>13. CurrentOK(current', manifests')
  BY <1>2, <1>10, <1>12 DEF CurrentOK
<1>14. TypeOK' /\ DiskOK(current', manifests')
  BY <1>1, <1>2, <1>8, <1>12, <1>13 DEF TypeOK, DiskOK
<1>15. PlaceOK(s, current', manifests', temps', logs')
  <2>1. LogNumberOK(s, current', manifests')
    BY <1>7, <1>10, <1>12 DEF LogNumberOK
  <2>2. DoneOK(s, current', logs')
    BY <1>7, <1>10, <1>12 DEF DoneOK
  <2>3. CreatingOK(s, current', manifests') /\ ExistsOK(s, current') /\ RecoveredOK(s, current', logs')
        /\ ApplyingOK(s, current', manifests', logs') /\ RenameOK(s, temps')
    BY <1>7 DEF CreatingOK, ExistsOK, RecoveredOK, ApplyingOK, RenameOK
  <2> QED
    BY <2>1, <2>2, <2>3 DEF PlaceOK
<1>16. Stable
  BY <1>12 DEF Stable
<1> QED
  BY <1>1, <1>8, <1>9, <1>14, <1>15, <1>16, OwnerStep

LEMMA OpenedStep ==
    ASSUME IInv, NEW p \in Procs, Opened(p)
    PROVE  IInv' /\ Stable
<1>1. procs[p].pc = "remove" /\ Inside(procs[p])
  BY DEF Opened, At
<1>2. /\ procs'[p].pc = "open" /\ SameNumbers(procs[p], procs'[p])
      /\ procs'[p].versions = procs[p].versions
  BY <1>1, OwnerFacts, GotoEffect DEF Opened
<1>3. PlaceOK(procs[p], current, manifests, temps, logs) /\ VersionsOK(procs[p])
  BY <1>1, OwnerFacts
<1>4. VersionsOK(procs'[p])
  BY <1>1, <1>2, <1>3 DEF VersionsOK, Ended
<1>5. PlaceOK(procs'[p], current, manifests, temps, logs)
  BY <1>1, <1>2, <1>3 DEF PlaceOK, CreatingOK, ExistsOK, LogNumberOK, RecoveredOK, ApplyingOK,
       RenameOK, DoneOK, SameNumbers
<1> QED
  BY <1>1, <1>4, <1>5, PlaceStep DEF Opened

-----------------------------------------------------------------------------
(* Processes and machines stop.                                            *)

LEMMA DownFacts ==
    Down \in ProcRecords /\ ~Inside(Down) /\ VersionsOK(Down)
<1>1. Down.pc = "down"
  BY DEF Down
<1>2. Down \in ProcRecords
  BY DownType
<1> QED
  BY <1>1, <1>2 DEF VersionsOK

LEMMA ExitStep ==
    ASSUME IInv, NEW p \in Procs, Exit(p)
    PROVE  IInv' /\ Stable
<1>1. procs \in [Procs -> ProcRecords] /\ procs' = [procs EXCEPT ![p] = Down]
  BY DEF IInv, TypeOK, Exit
<1>2. procs' \in [Procs -> ProcRecords] /\ OnlyMoves(p) /\ procs'[p] = Down
  BY <1>1, DownFacts, UpdateEffect
<1> QED
  BY <1>2, DownFacts, IdleStep DEF Exit

LEMMA MachineCrashStep ==
    ASSUME IInv, MachineCrash
    PROVE  IInv' /\ Stable
<1>1. /\ manifests \in [Numbers -> Manifests] /\ current \in Currents /\ logs \in SUBSET Nat
      /\ temps \in [Numbers -> {"absent", "written", "synced"}]
      /\ \A n \in Numbers : ManifestOK(manifests[n], n)
      /\ CurrentOK(current, manifests)
  BY DEF IInv, TypeOK, DiskOK
<1>2. current.synced
  BY <1>1 DEF CurrentOK, NoCurrent
<1>3. current' = current
  BY <1>2 DEF MachineCrash, CurrentSurvivors
<1>4. PICK left : /\ \A n \in Unsynced : left[n] \in Survivors(manifests[n])
                  /\ manifests' = [n \in Numbers |-> IF n \in Unsynced THEN left[n] ELSE manifests[n]]
  BY DEF MachineCrash
<1>5. \A n \in Numbers : manifests'[n] = manifests[n] \/ manifests'[n] \in Survivors(manifests[n])
  BY <1>4
<1>6. ASSUME NEW n \in Numbers
      PROVE  /\ manifests'[n] \in Manifests /\ ManifestOK(manifests'[n], n)
             /\ \A e : DurableEdit(manifests[n], e) => DurableEdit(manifests'[n], e)
  <2>1. manifests[n] \in Manifests /\ ManifestOK(manifests[n], n)
    BY <1>1
  <2>2. CASE manifests'[n] = manifests[n]
    BY <2>1, <2>2
  <2>3. CASE manifests'[n] \in Survivors(manifests[n])
    BY <2>1, <2>3, SurvivorOK
  <2> QED
    BY <1>5, <2>2, <2>3
<1>7. manifests' \in [Numbers -> Manifests]
  BY <1>4, <1>6
<1>8. current.exists => current.names \in Numbers
  BY <1>1 DEF CurrentOK
<1>9. Stable
  BY <1>3, <1>6, <1>8 DEF Stable
<1>10. CurrentOK(current', manifests')
  BY <1>1, <1>3, <1>6, <1>8 DEF CurrentOK
<1>11. temps' \in [Numbers -> {"absent", "written", "synced"}] /\ logs' \in SUBSET Nat
  BY <1>1 DEF MachineCrash
<1>12. procs' = [p \in Procs |-> Down] /\ lock' = NoProc
  BY DEF MachineCrash
<1>13. procs' \in [Procs -> ProcRecords]
       /\ \A p \in Procs : ~Inside(procs'[p]) /\ VersionsOK(procs'[p])
  BY <1>12, DownFacts
<1>14. TypeOK'
  BY <1>1, <1>3, <1>7, <1>11, <1>12, <1>13 DEF TypeOK
<1>15. DiskOK(current', manifests')
  BY <1>6, <1>10 DEF DiskOK
<1> QED
  BY <1>9, <1>13, <1>14, <1>15 DEF IInv

-----------------------------------------------------------------------------
(* Every step.                                                             *)

LEMMA InitOK == Init => IInv
<1> SUFFICES ASSUME Init PROVE IInv
  OBVIOUS
<1>1. NoCurrent \in Currents /\ ~NoCurrent.exists
  BY DEF NoCurrent, Currents
<1>2. \A n \in Numbers : Absent \in Manifests /\ ManifestOK(Absent, n)
  BY NewManifestOK
<1>3. TypeOK
  BY <1>1, <1>2, DownFacts DEF Init, TypeOK
<1>4. DiskOK(current, manifests)
  BY <1>1, <1>2 DEF Init, DiskOK, CurrentOK
<1>5. \A p \in Procs : ~Inside(procs[p]) /\ VersionsOK(procs[p])
  BY DownFacts DEF Init
<1> QED
  BY <1>3, <1>4, <1>5 DEF IInv

\* Every failing call of env leads out of Open, or to the clean-up.
LEMMA FailureStep ==
    ASSUME IInv, NEW p \in Procs,
           LockFails(p) \/ NewFails(p) \/ TempFails(p) \/ RecoverFails(p) \/ ApplyFails(p)
    PROVE  IInv' /\ Stable
<1>1. CASE LockFails(p) \/ RecoverFails(p)
  BY <1>1, FailedStep, ReadFailsStep DEF LockFails, RecoverFails
<1>2. CASE NewFails(p)
  <2>1. CASE Fails(p, "new create", "failed")
    BY <2>1, FailedStep
  <2>2. CASE Fails(p, "new write", "new remove") \/ Fails(p, "new sync", "new remove")
    BY <2>2, CleanUpStep
  <2> QED
    BY <1>2, <2>1, <2>2 DEF NewFails
<1>3. CASE TempFails(p)
  BY <1>3, CleanUpStep DEF TempFails
<1>4. CASE ApplyFails(p)
  <2>1. CASE Fails(p, "new log", "failed")
    BY <2>1, FailedStep
  <2>2. ASSUME NEW pc \in {"apply create", "apply snapshot", "apply edit", "apply sync"},
               Fails(p, pc, "apply remove")
        PROVE  IInv' /\ Stable
    BY <2>2, CleanUpStep
  <2> QED
    BY <1>4, <2>1, <2>2 DEF ApplyFails
<1> QED
  BY <1>1, <1>2, <1>3, <1>4

LEMMA NextStep ==
    ASSUME IInv, [Next]_vars
    PROVE  IInv' /\ (Stable \/ RenameEffect)
<1>1. CASE UNCHANGED vars
  <2>1. /\ lock' = lock /\ current' = current /\ manifests' = manifests /\ temps' = temps
        /\ logs' = logs /\ procs' = procs
    BY <1>1 DEF vars, disk
  <2> QED
    BY <2>1 DEF IInv, TypeOK, Stable
<1>2. ASSUME NEW p \in Procs, Step(p)
      PROVE  IInv' /\ (Stable \/ RenameEffect)
  <2>1. CASE LockFile(p)
    BY <2>1, LockFileStep
  <2>2. CASE LockFails(p) \/ NewFails(p) \/ TempFails(p) \/ RecoverFails(p) \/ ApplyFails(p)
    BY <2>2, FailureStep
  <2>3. CASE CheckCurrent(p)
    BY <2>3, CheckCurrentStep
  <2>4. CASE NewCreate(p) \/ NewWrite(p) \/ NewSync(p) \/ NewRemove(p)
    BY <2>4, NewCreateStep, NewWriteStep, NewSyncStep, NewRemoveStep
  <2>5. CASE TempWrite(p) \/ TempSync(p) \/ TempRemove(p)
    BY <2>5, TempWriteStep, TempSyncStep, TempRemoveStep
  <2>6. CASE Rename(p)
    BY <2>6, RenameStep
  <2>7. CASE RecoverVersions(p) \/ ReuseDeclines(p) \/ ReuseManifest(p) \/ ReuseUnsupported(p)
    BY <2>7, RecoverVersionsStep, ReuseDeclinesStep, ReuseManifestStep, ReuseUnsupportedStep
  <2>8. CASE RecoverLogs(p) \/ NewLog(p)
    BY <2>8, RecoverLogsStep, NewLogStep
  <2>9. CASE ApplyBegin(p) \/ ApplyCreate(p) \/ ApplySnapshot(p) \/ ApplyEdit(p) \/ ApplySync(p)
             \/ DeleteUnlinked(p) \/ ApplyRemove(p)
    BY <2>9, ApplyBeginStep, ApplyCreateStep, ApplySnapshotStep, ApplyEditStep, ApplySyncStep,
       DeleteUnlinkedStep, ApplyRemoveStep
  <2>10. CASE FindObsolete(p) \/ RemoveObsolete(p) \/ Opened(p)
    BY <2>10, FindObsoleteStep, RemoveObsoleteStep, OpenedStep
  <2> QED
    BY <1>2, <2>1, <2>2, <2>3, <2>4, <2>5, <2>6, <2>7, <2>8, <2>9, <2>10 DEF Step
<1>3. ASSUME NEW p \in Procs, Exit(p) \/ \E create, error \in BOOLEAN : Open(p, create, error)
      PROVE  IInv' /\ Stable
  BY <1>3, ExitStep, OpenStep
<1>4. CASE MachineCrash
  BY <1>4, MachineCrashStep
<1> QED
  BY <1>1, <1>2, <1>3, <1>4 DEF Next

\* The inductive invariant: every reachable state of the directory and of the
\* processes is one in which db::Open can go on or begin again.
THEOREM OpenInvariant == Spec => []IInv
<1>1. IInv /\ [Next]_vars => IInv'
  BY NextStep
<1> QED
  BY <1>1, InitOK, PTL DEF Spec

-----------------------------------------------------------------------------
(* The properties.                                                         *)

\* What Recovered is, read off the durable edit behind CURRENT.
RecoveredIs(c, ms, log) ==
    /\ ~c.exists => log = NoDb
    /\ c.exists => \A e \in Records : DurableEdit(ms[c.names], e) => log = e.log /\ log # NoDb

LEMMA RecoveredValue == IInv => RecoveredIs(current, manifests, Recovered)
<1> SUFFICES ASSUME IInv PROVE RecoveredIs(current, manifests, Recovered)
  OBVIOUS
<1>1. ASSUME ~current.exists PROVE Recovered = NoDb
  <2>1. CurrentOK(current, manifests)
    BY DEF IInv, DiskOK
  <2>2. current = NoCurrent
    BY <1>1, <2>1 DEF CurrentOK
  <2>3. current.names = 0
    BY <2>2 DEF NoCurrent
  <2> QED
    BY <2>3 DEF Recovered
<1>2. ASSUME current.exists, NEW e \in Records, DurableEdit(manifests[current.names], e)
      PROVE  Recovered = e.log /\ Recovered # NoDb
  <2> DEFINE m == manifests[current.names]
             records == SubSeq(m.records, 1, m.synced)
  <2>1. current.names \in Numbers /\ current.names # 0 /\ current.synced
    BY <1>2, CurrentEdit, NumbersFacts
  <2>2. m \in Manifests /\ ManifestOK(m, current.names)
    BY <2>1 DEF IInv, TypeOK, DiskOK
  <2>3. Edits(records) # {} /\ LastEdit(records) = e /\ m.exists
    BY <1>2, <2>1, <2>2, OneEdit DEF Recoverable
  <2>4. Recovered = e.log
    BY <2>1, <2>3 DEF Recovered
  <2>5. e.log \in Nat
    BY DEF Records
  <2> QED
    BY <2>4, <2>5 DEF NoDb
<1> QED
  BY <1>1, <1>2 DEF RecoveredIs

LEMMA RecoveredAfter == IInv' => RecoveredIs(current', manifests', Recovered')
<1> DEFINE R == RecoveredIs(current, manifests, Recovered)
<1>1. IInv => R
  BY RecoveredValue
<1> HIDE DEF R
<1>2. IInv' => R'
  BY <1>1, PTL
<1> QED
  BY <1>2 DEF R

\* Whatever fails, and whenever the machine stops, CURRENT names a manifest
\* that version_set::recover accepts.
THEOREM CurrentAlwaysRecovers == Spec => []CurrentRecovers
<1>1. IInv => CurrentRecovers
  BY CurrentEdit, RecoveredValue DEF RecoveredIs, CurrentRecovers
<1> QED
  BY <1>1, OpenInvariant, PTL

\* new_file_number and next_file never name a file that recovery needs, and
\* log_any_apply's assertions on the log number hold.
THEOREM NumbersAlwaysFresh == Spec => []NumbersFresh
<1>1. ASSUME IInv, NEW p \in Procs, At(p, "new log")
      PROVE  procs[p].next \notin logs
  <2>1. procs[p].pc = "new log"
    BY <1>1 DEF At
  <2>2. PlaceOK(procs[p], current, manifests, temps, logs) /\ procs[p] \in ProcRecords
        /\ logs \in SUBSET Nat
    BY <1>1, <2>1, OwnerFacts
  <2>3. procs[p].next > procs[p].log_number /\ \A n \in logs : n < procs[p].log_number
    BY <2>1, <2>2 DEF PlaceOK, RecoveredOK
  <2>4. procs[p].next \in Nat /\ procs[p].log_number \in Nat
    BY <2>2 DEF ProcRecords
  <2> QED
    BY <2>2, <2>3, <2>4
<1>2. ASSUME IInv, NEW p \in Procs, At(p, "apply begin")
      PROVE  /\ procs[p].log > procs[p].log_number /\ procs[p].log < procs[p].next
             /\ procs[p].manifest # current.names
  <2>1. procs[p].pc = "apply begin"
    BY <1>2 DEF At
  <2>2. PlaceOK(procs[p], current, manifests, temps, logs)
    BY <1>2, <2>1, OwnerFacts
  <2> QED
    BY <1>2, <2>1, <2>2, ApplyingFacts DEF PlaceOK, ApplyingOK, LogNumberOK
<1>3. IInv => NumbersFresh
  BY <1>1, <1>2 DEF NumbersFresh
<1> QED
  BY <1>3, OpenInvariant, PTL

\* What Open returned holds LOCK, and its log is one that a recovery replays.
THEOREM OpenIsAlwaysRecoverable == Spec => []OpenIsRecoverable
<1>1. ASSUME IInv, NEW p \in Procs, At(p, "open")
      PROVE  /\ lock = p /\ current.names = procs[p].manifest /\ procs[p].log \in logs
             /\ Recovered <= procs[p].log
  <2>1. procs[p].pc = "open" /\ lock = p /\ PlaceOK(procs[p], current, manifests, temps, logs)
    BY <1>1, OwnerFacts DEF At
  <2>2. /\ current.names = procs[p].manifest /\ procs[p].log \in logs
        /\ procs[p].log_number <= procs[p].log /\ current.exists
    BY <2>1 DEF PlaceOK, DoneOK, LogNumberOK
  <2>3. Recovered = procs[p].log_number
    BY <1>1, <2>1, RecoveredValue DEF RecoveredIs, PlaceOK, LogNumberOK
  <2> QED
    BY <2>1, <2>2, <2>3
<1>2. IInv => OpenIsRecoverable
  BY <1>1 DEF OpenIsRecoverable
<1> QED
  BY <1>2, OpenInvariant, PTL

\* What a recovery would find changes by whole steps, at the rename alone, and
\* only to something newer.
THEOREM OpenImplementsRegister == Spec => ImplementsRegister
<1>1. Init => Register!Init
  BY DEF Init, Register!Init, Recovered, NoCurrent
<1>2. ASSUME IInv, [Next]_vars, IInv'
      PROVE  [Register!Next]_Recovered
  <2>1. CASE Stable
    <3>1. CASE current.exists
      <4>1. PICK e \in Records : DurableEdit(manifests[current.names], e)
        BY <1>2, <3>1, CurrentEdit
      <4>2. Recovered = e.log
        BY <1>2, <3>1, <4>1, RecoveredValue DEF RecoveredIs
      <4>3. current'.exists /\ DurableEdit(manifests'[current'.names], e)
        BY <2>1, <3>1, <4>1 DEF Stable
      <4>4. Recovered' = e.log
        BY <1>2, <4>3, RecoveredAfter DEF RecoveredIs
      <4> QED
        BY <4>2, <4>4
    <3>2. CASE ~current.exists
      <4>1. ~current'.exists
        BY <2>1, <3>2 DEF Stable
      <4> QED
        BY <1>2, <3>2, <4>1, RecoveredValue, RecoveredAfter DEF RecoveredIs
    <3> QED
      BY <3>1, <3>2
  <2>2. CASE RenameEffect
    <3>1. CASE ~current.exists /\ DurableEdit(manifests'[current'.names], Edit(0, 2))
      <4>1. Recovered = NoDb
        BY <1>2, <3>1, RecoveredValue DEF RecoveredIs
      <4>2. Recovered' = 0
        BY <1>2, <2>2, <3>1, EditFacts, RecoveredAfter DEF RecoveredIs, RenameEffect
      <4> QED
        BY <4>1, <4>2 DEF Register!Next, Register!Create
    <3>2. ASSUME NEW e \in Records, NEW f \in Records, current.exists,
                 DurableEdit(manifests[current.names], e),
                 DurableEdit(manifests'[current'.names], f), e.log < f.log
          PROVE  Register!Next
      <4>1. Recovered = e.log /\ Recovered # NoDb
        BY <1>2, <3>2, RecoveredValue DEF RecoveredIs
      <4>2. Recovered' = f.log
        BY <1>2, <2>2, <3>2, RecoveredAfter DEF RecoveredIs, RenameEffect
      <4>3. f.log \in Nat /\ f.log > e.log
        BY <3>2 DEF Records
      <4> QED
        BY <4>1, <4>2, <4>3 DEF Register!Next, Register!Install
    <3> QED
      BY <2>2, <3>1, <3>2 DEF RenameEffect
  <2> QED
    BY <1>2, <2>1, <2>2, NextStep
<1> QED
  BY <1>1, <1>2, OpenInvariant, PTL DEF Spec, ImplementsRegister, Register!Spec

\* From the end of version_set's constructor on the list of versions is sound at
\* every place in Open, whatever fails and whatever constructors link, and where
\* Open ends without following a null pointer current_ is the only version left.
THEOREM VersionsAlwaysExact == Spec => []VersionsExact
<1>1. ASSUME IInv, NEW p \in Procs
      PROVE  /\ procs[p].pc \notin {"down", "null head"} => Exact(procs[p].versions)
             /\ procs[p].pc \in Ended \ ({"down"} \cup Null) =>
                  procs[p].versions.alive = {Dummy, procs[p].versions.current}
  <2>1. VersionsOK(procs[p]) /\ procs[p].pc \in Pcs
    BY <1>1 DEF IInv, TypeOK, ProcRecords
  <2>2. procs[p].pc \notin {"down", "null head"} =>
          (\E c \in {1, 2, 3} : Alone(procs[p].versions, c)) \/ Building(procs[p].versions, 2, 3)
    BY <2>1 DEF VersionsOK, Ended, Null
  <2>3. procs[p].pc \in Ended \ ({"down"} \cup Null) =>
          \E c \in {1, 2, 3} : Alone(procs[p].versions, c)
    BY <2>1 DEF VersionsOK, Ended, Null
  <2> QED
    BY <2>2, <2>3, ListsExact
<1>2. IInv => VersionsExact
  BY <1>1 DEF VersionsExact
<1> QED
  BY <1>2, OpenInvariant, PTL

=============================================================================
