---------------------------- MODULE RandomAccess ----------------------------
(***************************************************************************)
(* The files posix_env opens for random reads, and the limiters they share *)
(* (posix_env.cc): a file is mapped while the mmap limiter allows it, or   *)
(* keeps its descriptor while the descriptor limiter allows it, or opens   *)
(* the file again for every read.  Threads share nothing but the limiters, *)
(* whose acquire takes two atomic operations when it fails.  Every thread  *)
(* handles one file at a time.  get_file_size has no body and so no defined*)
(* result: here it fails, or it succeeds with any size.                    *)
(***************************************************************************)
EXTENDS Integers, FiniteSets

CONSTANTS Threads,
          MaxMmaps,      \* max_mmaps()
          MaxOpenFiles   \* max_open_files()

ASSUME ThreadsAssumption == IsFiniteSet(Threads)
ASSUME LimitAssumption == MaxMmaps \in Nat /\ MaxOpenFiles \in Nat

Limiters == {"mmap", "fd"}
MaxAcquires == [l \in Limiters |-> IF l = "mmap" THEN MaxMmaps ELSE MaxOpenFiles]

VARIABLES acquires_allowed,   \* of both limiters
          pc,                 \* where a thread is, "idle" between two calls
          files,              \* what its file is: "none", "mapped", "permanent", "reopened"
          fds,                \* how many descriptors it has open
          maps                \* how many mappings it has

accessVars == <<acquires_allowed, pc, files, fds, maps>>

At(t, place) == pc[t] = place
Goto(t, place) == pc' = [pc EXCEPT ![t] = place]
Opens(t) == fds' = [fds EXCEPT ![t] = @ + 1]
Closes(t) == fds' = [fds EXCEPT ![t] = @ - 1]
Becomes(t, kind) == files' = [files EXCEPT ![t] = kind]

-----------------------------------------------------------------------------
(* limiter.                                                                *)

Undo == [l \in Limiters |-> IF l = "mmap" THEN "undo mmap" ELSE "undo fd"]

\* Mutant: the old value is compared with >=.
Acquire_OffByOne(t, l, acquired) ==
    /\ acquires_allowed' = [acquires_allowed EXCEPT ![l] = @ - 1]
    /\ Goto(t, IF acquires_allowed[l] >= 0 THEN acquired ELSE Undo[l])

\* fetch_sub, and the test of the old value.
Acquire(t, l, acquired) ==
    /\ acquires_allowed' = [acquires_allowed EXCEPT ![l] = @ - 1]
    /\ Goto(t, IF acquires_allowed[l] > 0 THEN acquired ELSE Undo[l])

\* fetch_add, the second half of a failing acquire.
NotAcquired(t, l, next) ==
    /\ At(t, Undo[l])
    /\ acquires_allowed' = [acquires_allowed EXCEPT ![l] = @ + 1]
    /\ Goto(t, next)

Release(t, l) ==
    /\ acquires_allowed' = [acquires_allowed EXCEPT ![l] = @ + 1]
    /\ Goto(t, "idle")

-----------------------------------------------------------------------------
(* new_random_access_file.                                                 *)

Open(t) ==
    /\ At(t, "idle") /\ files[t] = "none"
    /\ Opens(t)
    /\ Goto(t, "acquire mmap")
    /\ UNCHANGED <<acquires_allowed, files, maps>>

AcquireMmap(t) ==
    /\ At(t, "acquire mmap")
    /\ Acquire(t, "mmap", "map")
    /\ UNCHANGED <<files, fds, maps>>

NoMmap(t) ==
    /\ NotAcquired(t, "mmap", "acquire fd")
    /\ UNCHANGED <<files, fds, maps>>

MapSucceeds(t) ==
    /\ At(t, "map")
    /\ maps' = [maps EXCEPT ![t] = 1]
    /\ Becomes(t, "mapped")
    /\ Goto(t, "close")
    /\ UNCHANGED <<acquires_allowed, fds>>

MapFails(t) ==
    /\ At(t, "map")
    /\ Goto(t, "close")
    /\ UNCHANGED <<acquires_allowed, files, fds, maps>>

\* Mutant: the limiter is not told of a mapping that failed.
CloseMapped_KeepsSlot(t) ==
    /\ At(t, "close")
    /\ Closes(t)
    /\ Goto(t, "idle")
    /\ UNCHANGED <<acquires_allowed, files, maps>>

\* The descriptor is closed, mapped or not.
CloseMapped(t) ==
    /\ At(t, "close")
    /\ Closes(t)
    /\ Goto(t, IF files[t] = "mapped" THEN "idle" ELSE "release mmap")
    /\ UNCHANGED <<acquires_allowed, files, maps>>

ReleaseMmap(t) ==
    /\ At(t, "release mmap")
    /\ Release(t, "mmap")
    /\ UNCHANGED <<files, fds, maps>>

\* The constructor of posix_random_access_file.
AcquireFd(t) ==
    /\ At(t, "acquire fd")
    /\ Acquire(t, "fd", "idle")
    /\ Becomes(t, IF acquires_allowed["fd"] > 0 THEN "permanent" ELSE "reopened")
    /\ UNCHANGED <<fds, maps>>

NoFd(t) ==
    /\ NotAcquired(t, "fd", "close fd")
    /\ UNCHANGED <<files, fds, maps>>

\* Mutant: the descriptor of a file that is to be opened again is not closed.
CloseFd_Forgets(t) ==
    /\ At(t, "close fd")
    /\ Goto(t, "idle")
    /\ UNCHANGED <<acquires_allowed, files, fds, maps>>

CloseFd(t) ==
    /\ At(t, "close fd")
    /\ Closes(t)
    /\ Goto(t, "idle")
    /\ UNCHANGED <<acquires_allowed, files, maps>>

-----------------------------------------------------------------------------
(* Reading, as far as it opens descriptors, and the destructors.           *)

ReadOpens(t) ==
    /\ At(t, "idle") /\ files[t] = "reopened"
    /\ Opens(t)
    /\ Goto(t, "pread")
    /\ UNCHANGED <<acquires_allowed, files, maps>>

\* Whether pread succeeds or not.
ReadCloses(t) ==
    /\ At(t, "pread")
    /\ Closes(t)
    /\ Goto(t, "idle")
    /\ UNCHANGED <<acquires_allowed, files, maps>>

DeletePermanent(t) ==
    /\ At(t, "idle") /\ files[t] = "permanent"
    /\ Closes(t)
    /\ Becomes(t, "none")
    /\ Goto(t, "release fd")
    /\ UNCHANGED <<acquires_allowed, maps>>

ReleaseFd(t) ==
    /\ At(t, "release fd")
    /\ Release(t, "fd")
    /\ UNCHANGED <<files, fds, maps>>

DeleteMapped(t) ==
    /\ At(t, "idle") /\ files[t] = "mapped"
    /\ maps' = [maps EXCEPT ![t] = 0]
    /\ Becomes(t, "none")
    /\ Goto(t, "release mmap")
    /\ UNCHANGED <<acquires_allowed, fds>>

DeleteReopened(t) ==
    /\ At(t, "idle") /\ files[t] = "reopened"
    /\ Becomes(t, "none")
    /\ UNCHANGED <<acquires_allowed, pc, fds, maps>>

-----------------------------------------------------------------------------
AccessInit ==
    /\ acquires_allowed = MaxAcquires
    /\ pc = [t \in Threads |-> "idle"]
    /\ files = [t \in Threads |-> "none"]
    /\ fds = [t \in Threads |-> 0]
    /\ maps = [t \in Threads |-> 0]

AccessNext == \E t \in Threads :
    \/ Open(t) \/ AcquireMmap(t) \/ NoMmap(t) \/ MapSucceeds(t) \/ MapFails(t)
    \/ CloseMapped(t) \/ ReleaseMmap(t) \/ AcquireFd(t) \/ NoFd(t) \/ CloseFd(t)
    \/ ReadOpens(t) \/ ReadCloses(t)
    \/ DeletePermanent(t) \/ ReleaseFd(t) \/ DeleteMapped(t) \/ DeleteReopened(t)

AccessSpec == AccessInit /\ [][AccessNext]_accessVars

-----------------------------------------------------------------------------
(* Properties.                                                             *)

Places == {"idle", "acquire mmap", "undo mmap", "map", "close", "release mmap",
           "acquire fd", "undo fd", "close fd", "pread", "release fd"}
Kinds == {"none", "mapped", "permanent", "reopened"}

\* Types of the limiters and of what threads have.
TypeOK ==
    /\ acquires_allowed \in [Limiters -> Int]
    /\ pc \in [Threads -> Places]
    /\ files \in [Threads -> Kinds]
    /\ fds \in [Threads -> 0..1]
    /\ maps \in [Threads -> 0..1]

\* The threads whose acquire has succeeded and that have not yet released, and
\* those in the middle of an acquire that fails.
Holds(l, place, kind) ==
    IF l = "mmap" THEN kind = "mapped" \/ place \in {"map", "close", "release mmap"}
    ELSE kind = "permanent" \/ place = "release fd"
Holders(l) == {t \in Threads : Holds(l, pc[t], files[t])}
Failing(l) == {t \in Threads : pc[t] = Undo[l]}

\* No slot is lost and none is given back twice, however calls interleave and
\* whatever fails in between: the counter always accounts for all of them.
\* The assertions of acquire and release (posix_env.cc:72 and 79) follow: a slot
\* that is being given back is one of those the counter is short of.
SlotsExact ==
    \A l \in Limiters :
      acquires_allowed[l] = MaxAcquires[l] - Cardinality(Holders(l)) - Cardinality(Failing(l))

\* What limiter is for: never more mappings than MaxMmaps, and between calls
\* never more open descriptors than MaxOpenFiles; a call has one more at most.
WithinLimits ==
    /\ Cardinality({t \in Threads : maps[t] > 0}) <= MaxMmaps
    /\ Cardinality({t \in Threads : fds[t] > 0 /\ pc[t] = "idle"}) <= MaxOpenFiles

\* Nothing leaks: between calls a descriptor belongs to a file that keeps one,
\* and a mapping to a file that is mapped.
NothingLeaked ==
    \A t \in Threads : pc[t] = "idle" =>
      /\ fds[t] = IF files[t] = "permanent" THEN 1 ELSE 0
      /\ maps[t] = IF files[t] = "mapped" THEN 1 ELSE 0
=============================================================================
