------------------------------- MODULE DbOpen -------------------------------
(***************************************************************************)
(* db::Open and what it calls: db_impl::Recover, NewDB, RecoverLogFile and *)
(* RemoveObsoleteFiles (db_impl.cc), version_set::recover, log_any_apply,  *)
(* reuse_manifest (version_set.cc) and set_current_file (filename.cc), run *)
(* by several processes on one directory.  One action per call of env      *)
(* that may fail or that changes the directory.                            *)
(*                                                                         *)
(* The env is one the caller supplies in options.env: what was not synced, *)
(* a new file's name included, may be lost when the machine stops; renames *)
(* and removals are atomic and durable.  A file lock is exclusive and goes *)
(* with its process.  Tables do not exist (save_to is empty), and neither  *)
(* do records in the write-ahead logs (Write is empty).  The background    *)
(* work that MaybeScheduleCompaction may start is not part of this module. *)
(***************************************************************************)
EXTENDS Integers, Sequences, FiniteSets, Filename, VersionList

CONSTANTS Procs,       \* the processes that open the database
          NoProc,
          MaxNumber,   \* bound on the file numbers
          ReuseLogs,   \* the processes that set options.reuse_logs
          NDebug,      \* the processes built without assertions
          SelfLinked   \* by process, the versions a constructor links to themselves

ASSUME ProcAssumption == NoProc \notin Procs
ASSUME NumberAssumption == MaxNumber \in Nat /\ MaxNumber >= 4
ASSUME OptionAssumption == ReuseLogs \subseteq Procs /\ NDebug \subseteq Procs
ASSUME LinkAssumption == SelfLinked \in [Procs -> SUBSET Versions]

Numbers == 1..MaxNumber

VARIABLES lock,      \* the process that holds LOCK
          current,   \* CURRENT, and the manifest it names (0: its data is lost)
          manifests, \* the records of every MANIFEST, and how many are synced
          temps,     \* the .dbtmp files: "absent", "written" or "synced"
          logs,      \* the numbers of the .log files
          procs      \* the processes inside Open

disk == <<current, manifests, temps, logs>>
vars == <<lock, disk, procs>>

-----------------------------------------------------------------------------
(* version_edits, as far as recovery reads them.                           *)

NoCurrent == [exists |-> FALSE, names |-> 0, synced |-> TRUE]

Absent == [exists |-> FALSE, records |-> <<>>, synced |-> 0]
Created == [Absent EXCEPT !.exists = TRUE]

Snapshot == [kind |-> "snapshot", log |-> 0, next |-> 0]    \* only the comparator
Edit(log, next) == [kind |-> "edit", log |-> log, next |-> next]

\* The fields of the last edit; recover needs next file, log number and last
\* sequence, which every edit has and a snapshot has not.
Edits(records) == {i \in DOMAIN records : records[i].kind = "edit"}
LastEdit(records) == records[CHOOSE i \in Edits(records) : \A j \in Edits(records) : j <= i]
Recoverable(m) == m.exists /\ Edits(m.records) # {}

Write(n, record) == [manifests EXCEPT ![n].records = Append(@, record)]
SyncFile(n) == [manifests EXCEPT ![n].synced = Len(manifests[n].records)]

\* get_children and remove_file of the directory.
Children ==
    {LockFileName} \cup (IF current.exists THEN {CurrentFileName} ELSE {})
    \cup {DescriptorFileName(n) : n \in {n \in Numbers : manifests[n].exists}}
    \cup {TempFileName(n) : n \in {n \in Numbers : temps[n] # "absent"}}
    \cup {LogFileName(n) : n \in logs}
RemoveFile(name) ==
    /\ current' = IF name = CurrentFileName THEN NoCurrent ELSE current
    /\ manifests' = [n \in Numbers |-> IF name = DescriptorFileName(n) THEN Absent ELSE manifests[n]]
    /\ temps' = [n \in Numbers |-> IF name = TempFileName(n) THEN "absent" ELSE temps[n]]
    /\ logs' = {n \in logs : name # LogFileName(n)}

-----------------------------------------------------------------------------
(* A process: where it is in Open, and its version_set.                    *)

Down == [pc |-> "down", create |-> FALSE, error |-> FALSE, manifest |-> 0, next |-> 2,
         log_number |-> 0, log |-> 0, save |-> FALSE, installing |-> 0, doomed |-> {},
         versions |-> NoVersions]

At(p, pc) == procs[p].pc = pc
Goto(p, pc) == procs' = [procs EXCEPT ![p].pc = pc]
Keeps == UNCHANGED <<lock, disk>>

\* A call of env that changes nothing but fails, and where the code goes then.
Fails(p, from, to) == At(p, from) /\ Goto(p, to) /\ Keeps

\* The constructors: version_set appends a first version to dummy_versions_,
\* through dummy_versions_.prev_.
Constructed(p) ==
    IF HeadOnly(SelfLinked[p]).prev[Dummy] = NullVersion THEN [Down EXCEPT !.pc = "null head"]
    ELSE [Down EXCEPT !.pc = "lock", !.versions = NewVersionSet(SelfLinked[p])]

\* After a failure the caller may try again.
Open(p, create, error) ==
    /\ procs[p].pc \in {"down", "failed"}
    /\ procs' = [procs EXCEPT ![p] = [Constructed(p) EXCEPT !.create = create, !.error = error]]
    /\ Keeps

\* The bound on the numbers: an Open that takes LOCK has the two it needs.
LockFile(p) ==
    /\ At(p, "lock")
    /\ \A n \in Numbers : manifests[n].exists \/ n \in logs => n + 3 <= MaxNumber
    /\ lock = NoProc
    /\ lock' = p
    /\ Goto(p, "exists")
    /\ UNCHANGED disk

\* LOCK is taken, or the call fails.
LockFails(p) == Fails(p, "lock", "failed")

CheckCurrent(p) ==
    /\ At(p, "exists")
    /\ Goto(p, IF ~current.exists THEN IF procs[p].create THEN "new create" ELSE "failed"
               ELSE IF procs[p].error THEN "failed" ELSE "recover")
    /\ Keeps

-----------------------------------------------------------------------------
(* NewDB.                                                                  *)

NewCreate(p) ==
    /\ At(p, "new create")
    /\ manifests' = [manifests EXCEPT ![1] = Created]
    /\ Goto(p, "new write")
    /\ UNCHANGED <<lock, current, temps, logs>>

NewWrite(p) ==
    /\ At(p, "new write")
    /\ manifests' = Write(1, Edit(0, 2))
    /\ Goto(p, "new sync")
    /\ UNCHANGED <<lock, current, temps, logs>>

NewSync(p) ==
    /\ At(p, "new sync")
    /\ manifests' = SyncFile(1)
    /\ procs' = [procs EXCEPT ![p].pc = "temp write", ![p].installing = 1]
    /\ UNCHANGED <<lock, current, temps, logs>>

NewFails(p) ==
    \/ Fails(p, "new create", "failed")
    \/ Fails(p, "new write", "new remove")
    \/ Fails(p, "new sync", "new remove")

\* The result of remove_file is not looked at.
NewRemove(p) ==
    /\ At(p, "new remove")
    /\ manifests' \in {manifests, [manifests EXCEPT ![1] = Absent]}
    /\ Goto(p, "failed")
    /\ UNCHANGED <<lock, current, temps, logs>>

-----------------------------------------------------------------------------
(* set_current_file( installing ), called by NewDB and by log_any_apply.   *)

TempWrite(p) ==
    /\ At(p, "temp write")
    /\ temps' = [temps EXCEPT ![procs[p].installing] = "written"]
    /\ Goto(p, "temp sync")
    /\ UNCHANGED <<lock, current, manifests, logs>>

\* Mutant: set_current_file does not ask for a sync.
TempSync_Skips(p) == At(p, "temp sync") /\ Goto(p, "rename") /\ Keeps

TempSync(p) ==
    /\ At(p, "temp sync")
    /\ temps' = [temps EXCEPT ![procs[p].installing] = "synced"]
    /\ Goto(p, "rename")
    /\ UNCHANGED <<lock, current, manifests, logs>>

\* After the rename NewDB is done, and log_any_apply takes over the log number.
Rename(p) ==
    /\ At(p, "rename")
    /\ LET n == procs[p].installing IN
         /\ current' = [exists |-> TRUE, names |-> n, synced |-> temps[n] = "synced"]
         /\ temps' = [temps EXCEPT ![n] = "absent"]
         /\ procs' = [procs EXCEPT ![p] =
              IF n = 1 THEN [@ EXCEPT !.pc = "recover"]
              ELSE [@ EXCEPT !.pc = "obsolete", !.log_number = procs[p].log,
                             !.versions = ApplyAppends(procs[p].versions)]]
    /\ UNCHANGED <<lock, manifests, logs>>

TempFails(p) ==
    \/ Fails(p, "temp write", "temp remove")
    \/ Fails(p, "temp sync", "temp remove")
    \/ Fails(p, "rename", "temp remove")

TempRemove(p) ==
    /\ At(p, "temp remove")
    /\ temps' \in {temps, [temps EXCEPT ![procs[p].installing] = "absent"]}
    /\ Goto(p, IF procs[p].installing = 1 THEN "failed" ELSE "apply remove")
    /\ UNCHANGED <<lock, current, manifests, logs>>

-----------------------------------------------------------------------------
(* version_set::recover and the rest of db_impl::Recover.                  *)

\* CURRENT is read, and every record of the manifest it names.
\* Mutant: the new manifest gets the last number that was given out.
RecoverVersions_LastNumber(p) ==
    /\ At(p, "recover")
    /\ IF current.names # 0 /\ Recoverable(manifests[current.names])
         THEN LET edit == LastEdit(manifests[current.names].records) IN
              procs' = [procs EXCEPT ![p] =
                [@ EXCEPT !.pc = IF p \in ReuseLogs THEN "reuse" ELSE "logs",
                          !.manifest = edit.next - 1, !.next = edit.next + 1,
                          !.log_number = edit.log, !.save = p \notin ReuseLogs,
                          !.versions = RecoverAppends(procs[p].versions, SelfLinked[p])]]
         ELSE procs' = [procs EXCEPT ![p].pc = "failed",
                                     ![p].versions = RecoverFailed(procs[p].versions)]
    /\ Keeps

RecoverVersions(p) ==
    /\ At(p, "recover")
    /\ IF current.names # 0 /\ Recoverable(manifests[current.names])
         THEN LET edit == LastEdit(manifests[current.names].records) IN
              procs' = [procs EXCEPT ![p] =
                [@ EXCEPT !.pc = IF p \in ReuseLogs THEN "reuse" ELSE "logs",
                          !.manifest = edit.next, !.next = edit.next + 1,
                          !.log_number = edit.log, !.save = p \notin ReuseLogs,
                          !.versions = RecoverAppends(procs[p].versions, SelfLinked[p])]]
         ELSE procs' = [procs EXCEPT ![p].pc = "failed",
                                     ![p].versions = RecoverFailed(procs[p].versions)]
    /\ Keeps

\* reuse_manifest: the size of the manifest cannot be read.
ReuseDeclines(p) ==
    /\ At(p, "reuse")
    /\ procs' = [procs EXCEPT ![p].pc = "logs", ![p].save = TRUE]
    /\ Keeps

ReuseManifest(p) ==
    /\ At(p, "reuse")
    /\ procs' = [procs EXCEPT ![p].pc = "logs", ![p].manifest = current.names]
    /\ Keeps

\* new_appendable_file is not supported, env's default.  The assertion that
\* follows wants descriptor_file_ not to be null; without it a new manifest is
\* written.
ReuseUnsupported(p) ==
    /\ At(p, "reuse")
    /\ procs' = [procs EXCEPT ![p].pc = IF p \in NDebug THEN "logs" ELSE "assert descriptor_file_",
                              ![p].save = p \in NDebug]
    /\ Keeps

\* Every log at or after the log number is handed to RecoverLogFile, which
\* asserts that db_lock_ is null; without the assertion it locks LOCK again,
\* which is refused, whoever holds it.
LogsToReplay(p) ==
    {file \in {ParseFileName(name) : name \in Children} :
       file.type = "kLogFile" /\ (file.number >= procs[p].log_number \/ file.number = 0)}

RecoverLogs(p) ==
    /\ At(p, "logs")
    /\ Goto(p, IF LogsToReplay(p) = {} THEN "new log"
               ELSE IF p \in NDebug THEN "failed" ELSE "assert db_lock_")
    /\ Keeps

\* recover ends before it has a builder, at CURRENT or at the manifest's name; with
\* the builder, at a record; or RecoverLogFile does.
ReadFails(p) ==
    /\ At(p, "recover")
    /\ procs' = [procs EXCEPT ![p].pc = "failed",
                              ![p].versions = RecoverFailed(procs[p].versions)]
    /\ Keeps
RecoverFails(p) ==
    Fails(p, "recover", "failed") \/ ReadFails(p) \/ Fails(p, "logs", "failed")

-----------------------------------------------------------------------------
(* The rest of Open: the new log, and the new manifest (log_any_apply).    *)

NewLog(p) ==
    /\ At(p, "new log")
    /\ logs' = logs \cup {procs[p].next}
    /\ procs' = [procs EXCEPT ![p] =
         [@ EXCEPT !.pc = IF procs[p].save THEN "apply begin" ELSE "obsolete",
                   !.log = procs[p].next, !.next = procs[p].next + 1]]
    /\ UNCHANGED <<lock, current, manifests, temps>>

\* The assertions on the log number: NumbersFresh.
ApplyBegin(p) ==
    /\ At(p, "apply begin")
    /\ procs' = [procs EXCEPT ![p].pc = "apply create",
                              ![p].versions = ApplyBuilds(procs[p].versions, SelfLinked[p])]
    /\ Keeps

ApplyCreate(p) ==
    /\ At(p, "apply create")
    /\ manifests' = [manifests EXCEPT ![procs[p].manifest] = Created]
    /\ Goto(p, "apply snapshot")
    /\ UNCHANGED <<lock, current, temps, logs>>

ApplySnapshot(p) ==
    /\ At(p, "apply snapshot")
    /\ manifests' = Write(procs[p].manifest, Snapshot)
    /\ Goto(p, "apply edit")
    /\ UNCHANGED <<lock, current, temps, logs>>

ApplyEdit(p) ==
    /\ At(p, "apply edit")
    /\ manifests' = Write(procs[p].manifest, Edit(procs[p].log, procs[p].next))
    /\ Goto(p, "apply sync")
    /\ UNCHANGED <<lock, current, temps, logs>>

ApplySync(p) ==
    /\ At(p, "apply sync")
    /\ manifests' = SyncFile(procs[p].manifest)
    /\ procs' = [procs EXCEPT ![p].pc = "temp write", ![p].installing = procs[p].manifest]
    /\ UNCHANGED <<lock, current, temps, logs>>

ApplyFails(p) ==
    \/ Fails(p, "new log", "failed")
    \/ \E pc \in {"apply create", "apply snapshot", "apply edit", "apply sync"} :
         Fails(p, pc, "apply remove")

\* `delete v', which comes first, stores through the version's prev_ and next_.
DeleteUnlinked(p) ==
    /\ Fails(p, "apply remove", "null version")
    /\ AppliedUnlinked(procs[p].versions)

ApplyRemove(p) ==
    /\ At(p, "apply remove")
    /\ ~AppliedUnlinked(procs[p].versions)
    /\ manifests' \in {manifests, [manifests EXCEPT ![procs[p].manifest] = Absent]}
    /\ procs' = [procs EXCEPT ![p].pc = "failed",
                              ![p].versions = ApplyDeletes(procs[p].versions)]
    /\ UNCHANGED <<lock, current, temps, logs>>

-----------------------------------------------------------------------------
(* RemoveObsoleteFiles.                                                    *)

\* Mutant: the log whose number is log_number is not kept.
Keep_Later(p, file) ==
    CASE file.type = "kLogFile" -> file.number > procs[p].log_number
      [] file.type = "kDescriptorFile" -> file.number >= procs[p].manifest
      [] file.type \in {"kTableFile", "kTempFile"} -> FALSE
      [] OTHER -> TRUE

\* No table is live; prev_log_number is 0.
Keep(p, file) ==
    CASE file.type = "kLogFile" -> file.number >= procs[p].log_number \/ file.number = 0
      [] file.type = "kDescriptorFile" -> file.number >= procs[p].manifest
      [] file.type \in {"kTableFile", "kTempFile"} -> FALSE
      [] OTHER -> TRUE

Obsolete(p) == {name \in Children : /\ ParseFileName(name) # NoFile
                                    /\ ~Keep(p, ParseFileName(name))}

\* get_children leaves no names when it fails.
FindObsolete(p) ==
    /\ At(p, "obsolete")
    /\ \E doomed \in {Obsolete(p), {}} :
         procs' = [procs EXCEPT ![p].pc = "remove", ![p].doomed = doomed]
    /\ Keeps

\* Mutant: a file that could not be removed stays in the list.
RemoveObsolete_Retries(p) ==
    /\ At(p, "remove")
    /\ \E name \in procs[p].doomed : procs' = [procs EXCEPT ![p].log = procs[p].log]
    /\ Keeps

RemoveObsolete(p) ==
    /\ At(p, "remove")
    /\ \E name \in procs[p].doomed :
         /\ procs' = [procs EXCEPT ![p].doomed = @ \ {name}]
         /\ UNCHANGED disk \/ RemoveFile(name)     \* the call may fail
    /\ UNCHANGED lock

Opened(p) ==
    /\ At(p, "remove")
    /\ procs[p].doomed = {}
    /\ Goto(p, "open")
    /\ Keeps

-----------------------------------------------------------------------------
(* Processes and machines stop.                                            *)

\* The process exits, is killed, or dies of an assertion or of a null pointer;
\* nothing unlocks LOCK before (~db_impl is empty).
Exit(p) ==
    /\ ~At(p, "down")
    /\ procs' = [procs EXCEPT ![p] = Down]
    /\ lock' = IF lock = p THEN NoProc ELSE lock
    /\ UNCHANGED disk

\* What may be left of a manifest, and of CURRENT.
Survivors(m) ==
    {[m EXCEPT !.records = SubSeq(@, 1, k)] : k \in m.synced..Len(m.records)}
    \cup (IF m.synced = 0 THEN {Absent} ELSE {})
Unsynced ==
    {n \in Numbers : /\ manifests[n].exists
                     /\ manifests[n].synced = 0 \/ manifests[n].synced < Len(manifests[n].records)}
CurrentSurvivors ==
    {current} \cup (IF current.synced THEN {} ELSE {[current EXCEPT !.names = 0]})

\* A lost temporary file or log is one that was never synced.
MachineCrash ==
    /\ procs' = [p \in Procs |-> Down]
    /\ lock' = NoProc
    /\ \E left \in [Unsynced -> UNION {Survivors(manifests[n]) : n \in Unsynced}] :
         /\ \A n \in Unsynced : left[n] \in Survivors(manifests[n])
         /\ manifests' = [n \in Numbers |-> IF n \in Unsynced THEN left[n] ELSE manifests[n]]
    /\ \E lost \in SUBSET {n \in Numbers : temps[n] = "written"} :
         temps' = [n \in Numbers |-> IF n \in lost THEN "absent" ELSE temps[n]]
    /\ logs' \in SUBSET logs
    /\ current' \in CurrentSurvivors

-----------------------------------------------------------------------------
Init ==
    /\ lock = NoProc
    /\ current = NoCurrent
    /\ manifests = [n \in Numbers |-> Absent]
    /\ temps = [n \in Numbers |-> "absent"]
    /\ logs = {}
    /\ procs = [p \in Procs |-> Down]

\* What a process does by itself once it is inside Open.
Step(p) ==
    \/ LockFile(p) \/ LockFails(p) \/ CheckCurrent(p)
    \/ NewCreate(p) \/ NewWrite(p) \/ NewSync(p) \/ NewFails(p) \/ NewRemove(p)
    \/ TempWrite(p) \/ TempSync(p) \/ Rename(p) \/ TempFails(p) \/ TempRemove(p)
    \/ RecoverVersions(p) \/ ReuseDeclines(p) \/ ReuseManifest(p) \/ ReuseUnsupported(p)
    \/ RecoverLogs(p) \/ RecoverFails(p)
    \/ NewLog(p) \/ ApplyBegin(p) \/ ApplyCreate(p) \/ ApplySnapshot(p) \/ ApplyEdit(p) \/ ApplySync(p)
    \/ ApplyFails(p) \/ DeleteUnlinked(p) \/ ApplyRemove(p)
    \/ FindObsolete(p) \/ RemoveObsolete(p) \/ Opened(p)

Next ==
    \/ \E p \in Procs : Step(p) \/ Exit(p) \/ \E create, error \in BOOLEAN : Open(p, create, error)
    \/ MachineCrash

Spec == Init /\ [][Next]_vars

\* Every call of env returns, and the thread inside Open runs on.
FairSpec == Spec /\ \A p \in Procs : WF_vars(Step(p))

-----------------------------------------------------------------------------
(* Properties.                                                             *)

\* Where a process is when Open has ended, one way or the other.
Null == {"null head", "null version"}
Ended == {"down", "failed", "open", "assert db_lock_", "assert descriptor_file_"} \cup Null

\* The log number recovery would read if the machine stopped now; -1: none.
NoDb == -1
Recovered ==
    LET m == manifests[current.names]
        records == SubSeq(m.records, 1, m.synced)
    IN IF current.names # 0 /\ current.synced /\ m.exists /\ Edits(records) # {}
         THEN LastEdit(records).log
         ELSE NoDb

\* As soon as CURRENT exists, and whatever fails or stops afterwards, it names
\* a manifest whose durable records version_set::recover accepts.
CurrentRecovers == current.exists => Recovered # NoDb

\* The numbers new_file_number and next_file give out: the new log and the new
\* manifest never truncate a file that recovery needs, and the assertions at
\* version_set.cc:192-193 hold whenever Open gets there.
NumbersFresh ==
    \A p \in Procs :
        /\ At(p, "new log") => procs[p].next \notin logs
        /\ At(p, "apply begin") =>
             /\ procs[p].log > procs[p].log_number /\ procs[p].log < procs[p].next
             /\ procs[p].manifest # current.names

\* From the constructor's end on, the list of versions is sound and the version
\* current_ names is alive and counted once, whether log_any_apply's new version
\* is linked to itself or, as in the code, to nothing.  Where Open ends without
\* dying of a null pointer, current_ is the only version left.
VersionsExact ==
    \A p \in Procs :
        /\ procs[p].pc \notin {"down", "null head"} => Exact(procs[p].versions)
        /\ procs[p].pc \in Ended \ ({"down"} \cup Null) =>
             procs[p].versions.alive = {Dummy, procs[p].versions.current}

\* What Open returned holds LOCK, and a later recovery would replay its log:
\* the file is there, and not older than the log number of CURRENT.
OpenIsRecoverable ==
    \A p \in Procs : At(p, "open") =>
        /\ lock = p
        /\ current.names = procs[p].manifest
        /\ procs[p].log \in logs
        /\ Recovered <= procs[p].log

\* The directory goes from one installed state to the next, by whole steps.
Register == INSTANCE DbState WITH log_number <- Recovered
ImplementsRegister == Register!Spec

\* Every Open returns, unless its process dies.
OpenReturns == \A p \in Procs : procs[p].pc \notin Ended ~> procs[p].pc \in Ended

\* "Head of circular doubly-linked list of versions": version_set's constructor
\* can append to the list through the head's prev_.
HeadIsLinked == \A p \in Procs : ~At(p, "null head")

\* `assert( refs_ == 0 )' is all that ~version asks: a version that nobody counts,
\* such as log_any_apply's after a failure, can be deleted.
UncountedIsDeleted == \A p \in Procs : ~At(p, "null version")

\* assert( db_lock_ == nullptr ) of RecoverLogFile.
RecoverLogAssert == \A p \in Procs : ~At(p, "assert db_lock_")
=============================================================================
