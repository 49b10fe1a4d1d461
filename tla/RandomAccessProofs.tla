------------------------- MODULE RandomAccessProofs -------------------------
(***************************************************************************)
(* For any finite set of threads and any limits: a limiter loses no slot   *)
(* and grants none too many, and nothing leaks.  A step changes the place  *)
(* and the file of one thread; what it takes from a counter must be what   *)
(* that thread comes to own.                                               *)
(***************************************************************************)
EXTENDS RandomAccess, FiniteSetTheorems, TLAPS

\* What a thread's file and descriptors may be, given where the thread is.
FileAt(place, kind) ==
    /\ place \in {"acquire mmap", "undo mmap", "map", "release mmap", "acquire fd", "release fd"}
         => kind = "none"
    /\ place = "close" => kind \in {"none", "mapped"}
    /\ place \in {"undo fd", "close fd", "pread"} => kind = "reopened"
HasFd(place, kind) ==
    IF place = "idle" THEN kind = "permanent" ELSE place \notin {"release mmap", "release fd"}

CoupledAt(t) ==
    /\ FileAt(pc[t], files[t])
    /\ fds[t] = IF HasFd(pc[t], files[t]) THEN 1 ELSE 0
    /\ maps[t] = IF files[t] = "mapped" THEN 1 ELSE 0
Coupled == \A t \in Threads : CoupledAt(t)

SlotsBounded == \A l \in Limiters : Cardinality(Holders(l)) <= MaxAcquires[l]

IInv == TypeOK /\ Coupled /\ SlotsExact /\ SlotsBounded

Count(b) == IF b THEN 1 ELSE 0
Owns(l, place, kind) == IF Holds(l, place, kind) \/ place = Undo[l] THEN 1 ELSE 0

-----------------------------------------------------------------------------
\* One thread enters a finite set of threads, leaves it, or neither.
LEMMA MoveOne ==
    ASSUME NEW S, IsFiniteSet(S), NEW T, NEW t, NEW enters \in BOOLEAN,
           T = IF enters THEN S \cup {t} ELSE S \ {t}
    PROVE  /\ Cardinality(S) \in Nat /\ Cardinality(T) \in Nat
           /\ Cardinality(T) = Cardinality(S) + Count(enters) - Count(t \in S)
<1>1. Cardinality(S) \in Nat
  BY FS_CardinalityType
<1>2. CASE enters
  BY <1>1, <1>2, FS_AddElement DEF Count
<1>3. CASE ~enters
  <2>1. IsFiniteSet(T) /\ Cardinality(T) = IF t \in S THEN Cardinality(S) - 1 ELSE Cardinality(S)
    BY <1>3, FS_RemoveElement
  <2>2. Cardinality(T) \in Nat
    BY <2>1, FS_CardinalityType
  <2> QED
    BY <1>1, <1>3, <2>1, <2>2 DEF Count
<1> QED
  BY <1>2, <1>3

LEMMA SetsAreFinite ==
    ASSUME NEW l
    PROVE  IsFiniteSet(Holders(l)) /\ IsFiniteSet(Failing(l))
BY ThreadsAssumption, FS_Subset DEF Holders, Failing

LEMMA LimitsAreNumbers == \A l \in Limiters : MaxAcquires[l] \in Nat
BY LimitAssumption DEF MaxAcquires, Limiters

\* A step of thread t: where the thread is before, and what it becomes.
Here(t, place, kind) ==
    /\ pc[t] = place /\ files[t] = kind
    /\ fds[t] = IF HasFd(place, kind) THEN 1 ELSE 0
Becoming(t, place, kind) ==
    /\ place \in Places /\ kind \in Kinds /\ FileAt(place, kind)
    /\ pc' = [pc EXCEPT ![t] = place]
    /\ files' = [files EXCEPT ![t] = kind]
    /\ fds' = [fds EXCEPT ![t] = IF HasFd(place, kind) THEN 1 ELSE 0]
    /\ maps' = [maps EXCEPT ![t] = IF kind = "mapped" THEN 1 ELSE 0]

\* It takes from every counter what the thread comes to own, and nothing from an
\* empty one.
Pays(from, kind, to, becomes) ==
    /\ acquires_allowed' \in [Limiters -> Int]
    /\ \A l \in Limiters :
         /\ acquires_allowed'[l] + Owns(l, to, becomes) = acquires_allowed[l] + Owns(l, from, kind)
         /\ Holds(l, to, becomes) /\ ~Holds(l, from, kind) => acquires_allowed[l] > 0

LEMMA UndoIs == Undo["mmap"] = "undo mmap" /\ Undo["fd"] = "undo fd"
BY DEF Undo, Limiters

\* Then the invariant is kept.
LEMMA StepKeeps ==
    ASSUME IInv, NEW t \in Threads, NEW from, NEW kind, NEW to, NEW becomes,
           Here(t, from, kind), Becoming(t, to, becomes), Pays(from, kind, to, becomes)
    PROVE  IInv'
<1>1. ASSUME NEW l \in Limiters
      PROVE  /\ acquires_allowed'[l] = MaxAcquires[l] - Cardinality(Holders(l)') - Cardinality(Failing(l)')
             /\ Cardinality(Holders(l)') <= MaxAcquires[l]
  <2> DEFINE H == Holders(l)
             F == Failing(l)
             holds == Holds(l, to, becomes)
             newH == {u \in Threads : Holds(l, pc'[u], files'[u])}
             newF == {u \in Threads : pc'[u] = Undo[l]}
  <2>1. newH = IF holds THEN H \cup {t} ELSE H \ {t}
    BY DEF Holders, Becoming, IInv, TypeOK
  <2>2. newF = IF to = Undo[l] THEN F \cup {t} ELSE F \ {t}
    BY DEF Failing, Becoming, IInv, TypeOK
  <2>3. IsFiniteSet(H) /\ IsFiniteSet(F)
    BY SetsAreFinite
  <2>4. (t \in H <=> Holds(l, from, kind)) /\ (t \in F <=> from = Undo[l])
    BY DEF Holders, Failing, Here
  <2>5. holds \in BOOLEAN
    BY DEF Holds
  <2>6. newH = Holders(l)' /\ newF = Failing(l)'
    BY DEF Holders, Failing
  <2>7. /\ acquires_allowed[l] = MaxAcquires[l] - Cardinality(H) - Cardinality(F)
        /\ Cardinality(H) <= MaxAcquires[l]
    BY DEF IInv, SlotsExact, SlotsBounded
  <2>8. /\ acquires_allowed'[l] + Owns(l, to, becomes) = acquires_allowed[l] + Owns(l, from, kind)
        /\ holds /\ ~Holds(l, from, kind) => acquires_allowed[l] > 0
        /\ acquires_allowed'[l] \in Int
    BY DEF Pays
  <2> HIDE DEF H, F, newH, newF, holds
  <2>9. /\ Cardinality(H) \in Nat /\ Cardinality(newH) \in Nat
        /\ Cardinality(newH) = Cardinality(H) + Count(holds) - Count(t \in H)
    BY <2>1, <2>3, <2>5, MoveOne
  <2>10. /\ Cardinality(F) \in Nat /\ Cardinality(newF) \in Nat
         /\ Cardinality(newF) = Cardinality(F) + Count(to = Undo[l]) - Count(t \in F)
    BY <2>2, <2>3, MoveOne
  <2>11. MaxAcquires[l] \in Nat
    BY LimitsAreNumbers
  <2>12. /\ Owns(l, to, becomes) = Count(holds) + Count(to = Undo[l])
         /\ Owns(l, from, kind) = Count(t \in H) + Count(t \in F)
    <3>1. ~(Holds(l, to, becomes) /\ to = Undo[l])
      BY UndoIs DEF Becoming, FileAt, Holds, Limiters
    <3>2. ~(Holds(l, from, kind) /\ from = Undo[l])
      BY UndoIs DEF Here, IInv, Coupled, CoupledAt, FileAt, Holds, Limiters
    <3> QED
      BY <2>4, <3>1, <3>2 DEF Owns, Count, holds
  <2>13. acquires_allowed'[l] = MaxAcquires[l] - Cardinality(newH) - Cardinality(newF)
    BY <2>7, <2>8, <2>9, <2>10, <2>11, <2>12 DEF Count
  <2>14. Cardinality(newH) <= MaxAcquires[l]
    BY <2>4, <2>7, <2>8, <2>9, <2>10, <2>11 DEF Count
  <2> QED
    BY <2>6, <2>13, <2>14
<1>2. SlotsExact' /\ SlotsBounded'
  BY <1>1 DEF SlotsExact, SlotsBounded
<1>3. TypeOK'
  BY DEF IInv, TypeOK, Becoming, Pays
<1>4. ASSUME NEW u \in Threads PROVE CoupledAt(u)'
  <2>1. CASE u = t
    BY <2>1 DEF IInv, TypeOK, Becoming, CoupledAt
  <2>2. CASE u # t
    BY <2>2 DEF IInv, TypeOK, Becoming, Coupled, CoupledAt
  <2> QED
    BY <2>1, <2>2
<1> QED
  BY <1>2, <1>3, <1>4 DEF IInv, Coupled

\* Descriptors are opened by threads that have none and closed by threads that
\* have one.
LEMMA OpenOrClose ==
    ASSUME NEW t \in Threads
    PROVE  /\ fds[t] = 0 /\ Opens(t) => fds' = [fds EXCEPT ![t] = 1]
           /\ fds[t] = 1 /\ Closes(t) => fds' = [fds EXCEPT ![t] = 0]
<1>1. fds[t] = 0 => fds[t] + 1 = 1
  OBVIOUS
<1>2. fds[t] = 1 => fds[t] - 1 = 0
  OBVIOUS
<1> QED
  BY <1>1, <1>2 DEF Opens, Closes

\* A step that leaves the counters alone, takes one from a counter or puts one
\* back pays for what the thread comes to own or gives up.
Same(l, from, kind, to, becomes) ==
    Owns(l, to, becomes) = Owns(l, from, kind) /\ (Holds(l, to, becomes) => Holds(l, from, kind))

LEMMA OwnsIsNumber == \A l, place, kind : Owns(l, place, kind) \in Int
BY DEF Owns

LEMMA KeepPays ==
    ASSUME IInv, NEW from, NEW kind, NEW to, NEW becomes,
           UNCHANGED acquires_allowed,
           \A l \in Limiters : Same(l, from, kind, to, becomes)
    PROVE  Pays(from, kind, to, becomes)
BY DEF IInv, TypeOK, Pays, Same

LEMMA TakePays ==
    ASSUME IInv, NEW from, NEW kind, NEW to, NEW becomes, NEW l \in Limiters,
           acquires_allowed' = [acquires_allowed EXCEPT ![l] = @ - 1],
           Owns(l, to, becomes) = 1 /\ Owns(l, from, kind) = 0,
           Holds(l, to, becomes) => acquires_allowed[l] > 0,
           \A m \in Limiters : m # l => Same(m, from, kind, to, becomes)
    PROVE  Pays(from, kind, to, becomes)
BY OwnsIsNumber DEF IInv, TypeOK, Pays, Same

LEMMA GivePays ==
    ASSUME IInv, NEW from, NEW kind, NEW to, NEW becomes, NEW l \in Limiters,
           acquires_allowed' = [acquires_allowed EXCEPT ![l] = @ + 1],
           Owns(l, to, becomes) = 0 /\ Owns(l, from, kind) = 1,
           ~Holds(l, to, becomes),
           \A m \in Limiters : m # l => Same(m, from, kind, to, becomes)
    PROVE  Pays(from, kind, to, becomes)
BY OwnsIsNumber DEF IInv, TypeOK, Pays, Same

-----------------------------------------------------------------------------
\* Every action is such a step.
LEMMA OpenKeeps ==
    ASSUME IInv, NEW t \in Threads, Open(t)
    PROVE  IInv'
<1>1. Here(t, "idle", "none")
  BY DEF Open, At, IInv, Coupled, CoupledAt, FileAt, Here
<1>2. Becoming(t, "acquire mmap", "none")
  BY ZenonT(30), <1>1, OpenOrClose
     DEF Open, Goto, Becomes, IInv, TypeOK, Coupled, CoupledAt, Here, Becoming, FileAt,
         HasFd, Places, Kinds
<1>3. UNCHANGED acquires_allowed
  BY DEF Open
<1>4. \A l \in Limiters : Same(l, "idle", "none", "acquire mmap", "none")
  BY DEF Same, Owns, Holds, Undo, Limiters
<1> QED
  BY <1>1, <1>2, <1>3, <1>4, KeepPays, StepKeeps

LEMMA AcquireMmapKeeps ==
    ASSUME IInv, NEW t \in Threads, AcquireMmap(t)
    PROVE  IInv'
<1>1. CASE acquires_allowed["mmap"] > 0
  <2>1. Here(t, "acquire mmap", "none")
    BY <1>1 DEF AcquireMmap, At, IInv, Coupled, CoupledAt, FileAt, Here
  <2>2. Becoming(t, "map", "none")
    BY <1>1, <2>1
       DEF AcquireMmap, Acquire, Goto, Becomes, IInv, TypeOK, Coupled, CoupledAt, Here,
           Becoming, FileAt, HasFd, Places, Kinds, Undo, Limiters
  <2>3. acquires_allowed' = [acquires_allowed EXCEPT !["mmap"] = @ - 1]
    BY <1>1 DEF AcquireMmap, Acquire
  <2>4. Owns("mmap", "map", "none") = 1
    BY UndoIs DEF Owns, Holds
  <2>5. Owns("mmap", "acquire mmap", "none") = 0
    BY UndoIs DEF Owns, Holds
  <2>6. Same("fd", "acquire mmap", "none", "map", "none")
    BY UndoIs DEF Same, Owns, Holds
  <2>7. Pays("acquire mmap", "none", "map", "none")
    BY <1>1, <2>3, <2>4, <2>5, <2>6, TakePays DEF Holds, Limiters
  <2> QED
    BY <2>1, <2>2, <2>7, StepKeeps
<1>2. CASE ~(acquires_allowed["mmap"] > 0)
  <2>1. Here(t, "acquire mmap", "none")
    BY <1>2 DEF AcquireMmap, At, IInv, Coupled, CoupledAt, FileAt, Here
  <2>2. Becoming(t, "undo mmap", "none")
    BY <1>2, <2>1
       DEF AcquireMmap, Acquire, Goto, Becomes, IInv, TypeOK, Coupled, CoupledAt, Here,
           Becoming, FileAt, HasFd, Places, Kinds, Undo, Limiters
  <2>3. acquires_allowed' = [acquires_allowed EXCEPT !["mmap"] = @ - 1]
    BY <1>2 DEF AcquireMmap, Acquire
  <2>4. Owns("mmap", "undo mmap", "none") = 1
    BY UndoIs DEF Owns, Holds
  <2>5. Owns("mmap", "acquire mmap", "none") = 0
    BY UndoIs DEF Owns, Holds
  <2>6. Same("fd", "acquire mmap", "none", "undo mmap", "none")
    BY UndoIs DEF Same, Owns, Holds
  <2>7. Pays("acquire mmap", "none", "undo mmap", "none")
    BY <1>2, <2>3, <2>4, <2>5, <2>6, TakePays DEF Holds, Limiters
  <2> QED
    BY <2>1, <2>2, <2>7, StepKeeps
<1> QED
  BY <1>1, <1>2

LEMMA NoMmapKeeps ==
    ASSUME IInv, NEW t \in Threads, NoMmap(t)
    PROVE  IInv'
<1>1. Here(t, "undo mmap", "none")
  BY DEF NoMmap, At, NotAcquired, Undo, Limiters, IInv, Coupled, CoupledAt, FileAt, Here
<1>2. Becoming(t, "acquire fd", "none")
  BY <1>1
     DEF NoMmap, NotAcquired, Goto, Becomes, IInv, TypeOK, Coupled, CoupledAt, Here,
         Becoming, FileAt, HasFd, Places, Kinds
<1>3. acquires_allowed' = [acquires_allowed EXCEPT !["mmap"] = @ + 1]
  BY DEF NoMmap, NotAcquired
<1>4. Owns("mmap", "acquire fd", "none") = 0
  BY UndoIs DEF Owns, Holds
<1>5. Owns("mmap", "undo mmap", "none") = 1
  BY UndoIs DEF Owns, Holds
<1>6. Same("fd", "undo mmap", "none", "acquire fd", "none")
  BY UndoIs DEF Same, Owns, Holds
<1>7. Pays("undo mmap", "none", "acquire fd", "none")
  BY <1>3, <1>4, <1>5, <1>6, GivePays DEF Holds, Limiters
<1> QED
  BY <1>1, <1>2, <1>7, StepKeeps

LEMMA MapSucceedsKeeps ==
    ASSUME IInv, NEW t \in Threads, MapSucceeds(t)
    PROVE  IInv'
<1>1. Here(t, "map", "none")
  BY DEF MapSucceeds, At, IInv, Coupled, CoupledAt, FileAt, Here
<1>2. Becoming(t, "close", "mapped")
  BY <1>1
     DEF MapSucceeds, Goto, Becomes, IInv, TypeOK, Coupled, CoupledAt, Here, Becoming,
         FileAt, HasFd, Places, Kinds
<1>3. UNCHANGED acquires_allowed
  BY DEF MapSucceeds
<1>4. \A l \in Limiters : Same(l, "map", "none", "close", "mapped")
  BY DEF Same, Owns, Holds, Undo, Limiters
<1> QED
  BY <1>1, <1>2, <1>3, <1>4, KeepPays, StepKeeps

LEMMA MapFailsKeeps ==
    ASSUME IInv, NEW t \in Threads, MapFails(t)
    PROVE  IInv'
<1>1. Here(t, "map", "none")
  BY DEF MapFails, At, IInv, Coupled, CoupledAt, FileAt, Here
<1>2. Becoming(t, "close", "none")
  BY <1>1
     DEF MapFails, Goto, Becomes, IInv, TypeOK, Coupled, CoupledAt, Here, Becoming, FileAt,
         HasFd, Places, Kinds
<1>3. UNCHANGED acquires_allowed
  BY DEF MapFails
<1>4. \A l \in Limiters : Same(l, "map", "none", "close", "none")
  BY DEF Same, Owns, Holds, Undo, Limiters
<1> QED
  BY <1>1, <1>2, <1>3, <1>4, KeepPays, StepKeeps

LEMMA CloseMappedKeeps ==
    ASSUME IInv, NEW t \in Threads, CloseMapped(t)
    PROVE  IInv'
<1>1. CASE files[t] = "mapped"
  <2>1. Here(t, "close", "mapped")
    BY <1>1 DEF CloseMapped, At, IInv, Coupled, CoupledAt, FileAt, Here
  <2>2. Becoming(t, "idle", "mapped")
    BY <1>1, <2>1, OpenOrClose
       DEF CloseMapped, Goto, Becomes, IInv, TypeOK, Coupled, CoupledAt, Here, Becoming,
           FileAt, HasFd, Places, Kinds
  <2>3. UNCHANGED acquires_allowed
    BY <1>1 DEF CloseMapped
  <2>4. \A l \in Limiters : Same(l, "close", "mapped", "idle", "mapped")
    BY DEF Same, Owns, Holds, Undo, Limiters
  <2> QED
    BY <2>1, <2>2, <2>3, <2>4, KeepPays, StepKeeps
<1>2. CASE files[t] = "none"
  <2>1. Here(t, "close", "none")
    BY <1>2 DEF CloseMapped, At, IInv, Coupled, CoupledAt, FileAt, Here
  <2>2. Becoming(t, "release mmap", "none")
    BY <1>2, <2>1, OpenOrClose
       DEF CloseMapped, Goto, Becomes, IInv, TypeOK, Coupled, CoupledAt, Here, Becoming,
           FileAt, HasFd, Places, Kinds
  <2>3. UNCHANGED acquires_allowed
    BY <1>2 DEF CloseMapped
  <2>4. \A l \in Limiters : Same(l, "close", "none", "release mmap", "none")
    BY DEF Same, Owns, Holds, Undo, Limiters
  <2> QED
    BY <2>1, <2>2, <2>3, <2>4, KeepPays, StepKeeps
<1>3. files[t] = "mapped" \/ files[t] = "none"
  BY DEF CloseMapped, At, IInv, Coupled, CoupledAt, FileAt
<1> QED
  BY <1>1, <1>2, <1>3

LEMMA ReleaseMmapKeeps ==
    ASSUME IInv, NEW t \in Threads, ReleaseMmap(t)
    PROVE  IInv'
<1>1. Here(t, "release mmap", "none")
  BY DEF ReleaseMmap, At, IInv, Coupled, CoupledAt, FileAt, Here
<1>2. Becoming(t, "idle", "none")
  BY <1>1
     DEF ReleaseMmap, Release, Goto, Becomes, IInv, TypeOK, Coupled, CoupledAt, Here,
         Becoming, FileAt, HasFd, Places, Kinds
<1>3. acquires_allowed' = [acquires_allowed EXCEPT !["mmap"] = @ + 1]
  BY DEF ReleaseMmap, Release
<1>4. Owns("mmap", "idle", "none") = 0
  BY UndoIs DEF Owns, Holds
<1>5. Owns("mmap", "release mmap", "none") = 1
  BY UndoIs DEF Owns, Holds
<1>6. Same("fd", "release mmap", "none", "idle", "none")
  BY UndoIs DEF Same, Owns, Holds
<1>7. Pays("release mmap", "none", "idle", "none")
  BY <1>3, <1>4, <1>5, <1>6, GivePays DEF Holds, Limiters
<1> QED
  BY <1>1, <1>2, <1>7, StepKeeps

LEMMA AcquireFdKeeps ==
    ASSUME IInv, NEW t \in Threads, AcquireFd(t)
    PROVE  IInv'
<1>1. CASE acquires_allowed["fd"] > 0
  <2>1. Here(t, "acquire fd", "none")
    BY <1>1 DEF AcquireFd, At, IInv, Coupled, CoupledAt, FileAt, Here
  <2>2. Becoming(t, "idle", "permanent")
    BY <1>1, <2>1
       DEF AcquireFd, Acquire, Goto, Becomes, IInv, TypeOK, Coupled, CoupledAt, Here,
           Becoming, FileAt, HasFd, Places, Kinds, Undo, Limiters
  <2>3. acquires_allowed' = [acquires_allowed EXCEPT !["fd"] = @ - 1]
    BY <1>1 DEF AcquireFd, Acquire
  <2>4. Owns("fd", "idle", "permanent") = 1
    BY UndoIs DEF Owns, Holds
  <2>5. Owns("fd", "acquire fd", "none") = 0
    BY UndoIs DEF Owns, Holds
  <2>6. Same("mmap", "acquire fd", "none", "idle", "permanent")
    BY UndoIs DEF Same, Owns, Holds
  <2>7. Pays("acquire fd", "none", "idle", "permanent")
    BY <1>1, <2>3, <2>4, <2>5, <2>6, TakePays DEF Holds, Limiters
  <2> QED
    BY <2>1, <2>2, <2>7, StepKeeps
<1>2. CASE ~(acquires_allowed["fd"] > 0)
  <2>1. Here(t, "acquire fd", "none")
    BY <1>2 DEF AcquireFd, At, IInv, Coupled, CoupledAt, FileAt, Here
  <2>2. Becoming(t, "undo fd", "reopened")
    BY <1>2, <2>1
       DEF AcquireFd, Acquire, Goto, Becomes, IInv, TypeOK, Coupled, CoupledAt, Here,
           Becoming, FileAt, HasFd, Places, Kinds, Undo, Limiters
  <2>3. acquires_allowed' = [acquires_allowed EXCEPT !["fd"] = @ - 1]
    BY <1>2 DEF AcquireFd, Acquire
  <2>4. Owns("fd", "undo fd", "reopened") = 1
    BY UndoIs DEF Owns, Holds
  <2>5. Owns("fd", "acquire fd", "none") = 0
    BY UndoIs DEF Owns, Holds
  <2>6. Same("mmap", "acquire fd", "none", "undo fd", "reopened")
    BY UndoIs DEF Same, Owns, Holds
  <2>7. Pays("acquire fd", "none", "undo fd", "reopened")
    BY <1>2, <2>3, <2>4, <2>5, <2>6, TakePays DEF Holds, Limiters
  <2> QED
    BY <2>1, <2>2, <2>7, StepKeeps
<1> QED
  BY <1>1, <1>2

LEMMA NoFdKeeps ==
    ASSUME IInv, NEW t \in Threads, NoFd(t)
    PROVE  IInv'
<1>1. Here(t, "undo fd", "reopened")
  BY DEF NoFd, At, NotAcquired, Undo, Limiters, IInv, Coupled, CoupledAt, FileAt, Here
<1>2. Becoming(t, "close fd", "reopened")
  BY <1>1
     DEF NoFd, NotAcquired, Goto, Becomes, IInv, TypeOK, Coupled, CoupledAt, Here, Becoming,
         FileAt, HasFd, Places, Kinds
<1>3. acquires_allowed' = [acquires_allowed EXCEPT !["fd"] = @ + 1]
  BY DEF NoFd, NotAcquired
<1>4. Owns("fd", "close fd", "reopened") = 0
  BY UndoIs DEF Owns, Holds
<1>5. Owns("fd", "undo fd", "reopened") = 1
  BY UndoIs DEF Owns, Holds
<1>6. Same("mmap", "undo fd", "reopened", "close fd", "reopened")
  BY UndoIs DEF Same, Owns, Holds
<1>7. Pays("undo fd", "reopened", "close fd", "reopened")
  BY <1>3, <1>4, <1>5, <1>6, GivePays DEF Holds, Limiters
<1> QED
  BY <1>1, <1>2, <1>7, StepKeeps

LEMMA CloseFdKeeps ==
    ASSUME IInv, NEW t \in Threads, CloseFd(t)
    PROVE  IInv'
<1>1. Here(t, "close fd", "reopened")
  BY DEF CloseFd, At, IInv, Coupled, CoupledAt, FileAt, Here
<1>2. Becoming(t, "idle", "reopened")
  BY <1>1, OpenOrClose
     DEF CloseFd, Goto, Becomes, IInv, TypeOK, Coupled, CoupledAt, Here, Becoming, FileAt,
         HasFd, Places, Kinds
<1>3. UNCHANGED acquires_allowed
  BY DEF CloseFd
<1>4. \A l \in Limiters : Same(l, "close fd", "reopened", "idle", "reopened")
  BY DEF Same, Owns, Holds, Undo, Limiters
<1> QED
  BY <1>1, <1>2, <1>3, <1>4, KeepPays, StepKeeps

LEMMA ReadOpensKeeps ==
    ASSUME IInv, NEW t \in Threads, ReadOpens(t)
    PROVE  IInv'
<1>1. Here(t, "idle", "reopened")
  BY DEF ReadOpens, At, IInv, Coupled, CoupledAt, FileAt, Here
<1>2. Becoming(t, "pread", "reopened")
  BY ZenonT(30), <1>1, OpenOrClose
     DEF ReadOpens, Goto, Becomes, IInv, TypeOK, Coupled, CoupledAt, Here, Becoming, FileAt,
         HasFd, Places, Kinds
<1>3. UNCHANGED acquires_allowed
  BY DEF ReadOpens
<1>4. \A l \in Limiters : Same(l, "idle", "reopened", "pread", "reopened")
  BY DEF Same, Owns, Holds, Undo, Limiters
<1> QED
  BY <1>1, <1>2, <1>3, <1>4, KeepPays, StepKeeps

LEMMA ReadClosesKeeps ==
    ASSUME IInv, NEW t \in Threads, ReadCloses(t)
    PROVE  IInv'
<1>1. Here(t, "pread", "reopened")
  BY DEF ReadCloses, At, IInv, Coupled, CoupledAt, FileAt, Here
<1>2. Becoming(t, "idle", "reopened")
  BY <1>1, OpenOrClose
     DEF ReadCloses, Goto, Becomes, IInv, TypeOK, Coupled, CoupledAt, Here, Becoming,
         FileAt, HasFd, Places, Kinds
<1>3. UNCHANGED acquires_allowed
  BY DEF ReadCloses
<1>4. \A l \in Limiters : Same(l, "pread", "reopened", "idle", "reopened")
  BY DEF Same, Owns, Holds, Undo, Limiters
<1> QED
  BY <1>1, <1>2, <1>3, <1>4, KeepPays, StepKeeps

LEMMA DeletePermanentKeeps ==
    ASSUME IInv, NEW t \in Threads, DeletePermanent(t)
    PROVE  IInv'
<1>1. Here(t, "idle", "permanent")
  BY DEF DeletePermanent, At, IInv, Coupled, CoupledAt, FileAt, Here
<1>2. Becoming(t, "release fd", "none")
  BY <1>1, OpenOrClose
     DEF DeletePermanent, Goto, Becomes, IInv, TypeOK, Coupled, CoupledAt, Here, Becoming,
         FileAt, HasFd, Places, Kinds
<1>3. UNCHANGED acquires_allowed
  BY DEF DeletePermanent
<1>4. \A l \in Limiters : Same(l, "idle", "permanent", "release fd", "none")
  BY DEF Same, Owns, Holds, Undo, Limiters
<1> QED
  BY <1>1, <1>2, <1>3, <1>4, KeepPays, StepKeeps

LEMMA ReleaseFdKeeps ==
    ASSUME IInv, NEW t \in Threads, ReleaseFd(t)
    PROVE  IInv'
<1>1. Here(t, "release fd", "none")
  BY DEF ReleaseFd, At, IInv, Coupled, CoupledAt, FileAt, Here
<1>2. Becoming(t, "idle", "none")
  BY <1>1
     DEF ReleaseFd, Release, Goto, Becomes, IInv, TypeOK, Coupled, CoupledAt, Here,
         Becoming, FileAt, HasFd, Places, Kinds
<1>3. acquires_allowed' = [acquires_allowed EXCEPT !["fd"] = @ + 1]
  BY DEF ReleaseFd, Release
<1>4. Owns("fd", "idle", "none") = 0
  BY UndoIs DEF Owns, Holds
<1>5. Owns("fd", "release fd", "none") = 1
  BY UndoIs DEF Owns, Holds
<1>6. Same("mmap", "release fd", "none", "idle", "none")
  BY UndoIs DEF Same, Owns, Holds
<1>7. Pays("release fd", "none", "idle", "none")
  BY <1>3, <1>4, <1>5, <1>6, GivePays DEF Holds, Limiters
<1> QED
  BY <1>1, <1>2, <1>7, StepKeeps

LEMMA DeleteMappedKeeps ==
    ASSUME IInv, NEW t \in Threads, DeleteMapped(t)
    PROVE  IInv'
<1>1. Here(t, "idle", "mapped")
  BY DEF DeleteMapped, At, IInv, Coupled, CoupledAt, FileAt, Here
<1>2. Becoming(t, "release mmap", "none")
  BY <1>1
     DEF DeleteMapped, Goto, Becomes, IInv, TypeOK, Coupled, CoupledAt, Here, Becoming,
         FileAt, HasFd, Places, Kinds
<1>3. UNCHANGED acquires_allowed
  BY DEF DeleteMapped
<1>4. \A l \in Limiters : Same(l, "idle", "mapped", "release mmap", "none")
  BY DEF Same, Owns, Holds, Undo, Limiters
<1> QED
  BY <1>1, <1>2, <1>3, <1>4, KeepPays, StepKeeps

LEMMA DeleteReopenedKeeps ==
    ASSUME IInv, NEW t \in Threads, DeleteReopened(t)
    PROVE  IInv'
<1>1. Here(t, "idle", "reopened")
  BY DEF DeleteReopened, At, IInv, Coupled, CoupledAt, FileAt, Here
<1>2. Becoming(t, "idle", "none")
  BY <1>1
     DEF DeleteReopened, Goto, Becomes, IInv, TypeOK, Coupled, CoupledAt, Here, Becoming,
         FileAt, HasFd, Places, Kinds
<1>3. UNCHANGED acquires_allowed
  BY DEF DeleteReopened
<1>4. \A l \in Limiters : Same(l, "idle", "reopened", "idle", "none")
  BY DEF Same, Owns, Holds, Undo, Limiters
<1> QED
  BY <1>1, <1>2, <1>3, <1>4, KeepPays, StepKeeps

-----------------------------------------------------------------------------
LEMMA InitHolds == AccessInit => IInv
<1> SUFFICES ASSUME AccessInit PROVE IInv
  OBVIOUS
<1>1. TypeOK
  BY LimitAssumption DEF AccessInit, TypeOK, MaxAcquires, Places, Kinds
<1>2. Coupled
  BY DEF AccessInit, Coupled, CoupledAt, FileAt, HasFd
<1>3. ASSUME NEW l \in Limiters
      PROVE  Holders(l) = {} /\ Failing(l) = {}
  BY DEF AccessInit, Holders, Holds, Failing, Undo, Limiters
<1>4. ASSUME NEW l \in Limiters
      PROVE  /\ acquires_allowed[l] = MaxAcquires[l] - Cardinality({}) - Cardinality({})
             /\ Cardinality({}) <= MaxAcquires[l]
  BY FS_EmptySet, LimitsAreNumbers DEF AccessInit
<1>5. SlotsExact /\ SlotsBounded
  BY <1>3, <1>4 DEF SlotsExact, SlotsBounded
<1> QED
  BY <1>1, <1>2, <1>5 DEF IInv

\* The inductive invariant.
THEOREM LimiterInvariant == AccessSpec => []IInv
<1>1. IInv /\ [AccessNext]_accessVars => IInv'
  <2> SUFFICES ASSUME IInv, [AccessNext]_accessVars PROVE IInv'
    OBVIOUS
  <2>1. CASE AccessNext
    BY <2>1, OpenKeeps, AcquireMmapKeeps, NoMmapKeeps, MapSucceedsKeeps,
       MapFailsKeeps, CloseMappedKeeps, ReleaseMmapKeeps, AcquireFdKeeps,
       NoFdKeeps, CloseFdKeeps, ReadOpensKeeps, ReadClosesKeeps,
       DeletePermanentKeeps, ReleaseFdKeeps, DeleteMappedKeeps,
       DeleteReopenedKeeps DEF AccessNext
  <2>2. CASE UNCHANGED accessVars
    BY <2>2
       DEF accessVars, IInv, TypeOK, Coupled, CoupledAt, SlotsExact, SlotsBounded, Holders,
           Failing
  <2> QED
    BY <2>1, <2>2
<1> QED
  BY <1>1, InitHolds, PTL DEF AccessSpec

-----------------------------------------------------------------------------
\* limiter::acquire and release (posix_env.cc:65-80) lose no slot and give none
\* back twice, for any number of threads and any limits.
THEOREM SlotsAreExact == AccessSpec => []SlotsExact
BY LimiterInvariant, PTL DEF IInv

\* Between calls no descriptor and no mapping is left over (posix_env.cc:127-188).
THEOREM NoLeak == AccessSpec => []NothingLeaked
<1>1. IInv => NothingLeaked
  BY DEF IInv, Coupled, CoupledAt, HasFd, NothingLeaked
<1> QED
  BY <1>1, LimiterInvariant, PTL

\* What the limiters are for: never more mappings, and between calls never more
\* descriptors, than they allow.
THEOREM LimitsHold == AccessSpec => []WithinLimits
<1>1. ASSUME IInv PROVE WithinLimits
  <2> DEFINE Mapped == {t \in Threads : maps[t] > 0}
             Kept == {t \in Threads : fds[t] > 0 /\ pc[t] = "idle"}
  <2>1. Mapped \subseteq Holders("mmap") /\ Kept \subseteq Holders("fd")
    <3>1. \A t \in Threads : CoupledAt(t)
      BY <1>1 DEF IInv, Coupled
    <3>2. \A t \in Threads : maps[t] > 0 => files[t] = "mapped"
      BY <3>1 DEF CoupledAt
    <3>3. \A t \in Threads : fds[t] > 0 /\ pc[t] = "idle" => files[t] = "permanent"
      <4>1. ASSUME NEW t \in Threads, pc[t] = "idle", files[t] # "permanent" PROVE fds[t] = 0
        BY <3>1, <4>1 DEF CoupledAt, HasFd
      <4> QED
        BY <4>1
    <3> QED
      BY <3>2, <3>3 DEF Holders, Holds
  <2>2. /\ IsFiniteSet(Holders("mmap")) /\ IsFiniteSet(Holders("fd"))
    BY SetsAreFinite
  <2>3. /\ Cardinality(Mapped) <= Cardinality(Holders("mmap"))
        /\ Cardinality(Kept) <= Cardinality(Holders("fd"))
    BY <2>1, <2>2, FS_Subset
  <2>4. /\ Cardinality(Holders("mmap")) <= MaxMmaps
        /\ Cardinality(Holders("fd")) <= MaxOpenFiles
    BY <1>1 DEF IInv, SlotsBounded, MaxAcquires, Limiters
  <2>5. /\ IsFiniteSet(Mapped) /\ IsFiniteSet(Kept)
    BY <2>1, <2>2, FS_Subset
  <2>6. /\ Cardinality(Mapped) \in Nat /\ Cardinality(Kept) \in Nat
        /\ Cardinality(Holders("mmap")) \in Nat /\ Cardinality(Holders("fd")) \in Nat
        /\ MaxMmaps \in Nat /\ MaxOpenFiles \in Nat
    BY <2>2, <2>5, FS_CardinalityType, LimitAssumption
  <2>7. Cardinality(Mapped) <= MaxMmaps /\ Cardinality(Kept) <= MaxOpenFiles
    BY <2>3, <2>4, <2>6
  <2> QED
    BY <2>7 DEF WithinLimits
<1> QED
  BY <1>1, LimiterInvariant, PTL
=============================================================================
