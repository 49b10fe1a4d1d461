--------------------------- MODULE MemTableProofs ---------------------------
(***************************************************************************)
(* For every set of keys, height and set of readers: no reader ever loads  *)
(* an uninitialized pointer, every pointer ever stored leads to a larger   *)
(* key, every search and every step of an iterator ends at the right place *)
(* beside a running insert, and the levels of the list nest.  And for      *)
(* every block size and size of the keys: the memory table runs its skip   *)
(* list as the list's own specification says, and no object in its arena   *)
(* overlaps another.                                                       *)
(***************************************************************************)
EXTENDS MemTable, TLAPS

-----------------------------------------------------------------------------
(* The inductive invariant of the list.                                    *)

\* The cell is initialized by one of the first v stores.
InitBy(n, l, v) == \E q \in StoresTo(n, l) : q <= v

\* A pointer to a node is stored only after the node's own pointers at that and
\* every lower level.
InitBeforeLink ==
    \A p \in DOMAIN stores : stores[p].val \in Keys =>
        \A j \in 0..stores[p].level : \E q \in StoresTo(stores[p].val, j) : q < p

\* Only the first store to a cell may be relaxed.
RelaxedIsFirst ==
    \A p \in DOMAIN stores : ~stores[p].release =>
        \A q \in StoresTo(stores[p].node, stores[p].level) : p <= q

\* The pointers of head_ are initialized before the list is shared.
HeadInit == Len(stores) >= MaxHeight /\ \A l \in Levels : InitBy(HeadNode, l, MaxHeight)

\* The newest values are values of the history.
NextInHistory ==
    \A n \in Nodes, l \in Levels :
        /\ next[n][l] = Junk => StoresTo(n, l) = {}
        /\ next[n][l] # Junk => \E p \in StoresTo(n, l) : next[n][l] = stores[p].val

Memory == /\ AlwaysSorted /\ InitBeforeLink /\ RelaxedIsFirst
          /\ HeadInit /\ NextInHistory

\* prev[l] is the place of the writer's key at level l.
PrevOK(l) ==
    /\ writer.prev[l] \in Nodes
    /\ writer.prev[l] < writer.key
    /\ next[writer.prev[l]][l] # Junk
    /\ next[writer.prev[l]][l] # Null => writer.key < next[writer.prev[l]][l]

\* The levels at which the writer's node is initialized.
OwnLevels(done) == \A l \in Levels : next[writer.key][l] # Junk <=> l \in done

WriterOK ==
    /\ writer.pc # "idle" => writer.key \in Keys
    /\ writer.pc = "find" =>
         /\ OwnLevels({})
         /\ writer.level < max_height
         /\ writer.x < writer.key
         /\ \A j \in 0..writer.level : next[writer.x][j] # Junk
         /\ \A l \in (writer.level + 1)..(max_height - 1) : PrevOK(l)
    /\ writer.pc = "height" =>
         /\ OwnLevels({}) /\ writer.level = 0
         /\ \A l \in 0..(max_height - 1) : PrevOK(l)
    /\ writer.pc \in {"init", "publish"} =>
         /\ writer.level < writer.height /\ writer.height <= max_height
         /\ \A l \in writer.level..(writer.height - 1) : PrevOK(l)
    /\ writer.pc = "init" => OwnLevels(0..(writer.level - 1))
    /\ writer.pc = "publish" => OwnLevels(0..writer.level)

\* Above the lists in use, head_ points nowhere.
HighLevelsEmpty ==
    \A l \in Levels : l >= max_height => next[HeadNode][l] = Null

\* Level 0 is initialized first.
BottomFirst == \A k \in Keys, l \in Levels : next[k][l] # Junk => next[k][0] # Junk

\* A reader's view covers the pointers of the nodes it stands on.
ReaderOK(r) ==
    /\ reader[r].view \in MaxHeight..Len(stores)
    /\ reader[r].pc # "fault"
    /\ reader[r].pc # Idle =>
         \A j \in 0..reader[r].level : InitBy(reader[r].x, j, reader[r].view)
    /\ reader[r].node # Null => InitBy(reader[r].node, 0, reader[r].view)

IInv == /\ TypeOK /\ Memory /\ HighLevelsEmpty /\ BottomFirst /\ WriterOK
        /\ \A r \in Readers : ReaderOK(r)

-----------------------------------------------------------------------------
(* Facts about one state.                                                  *)

\* The nodes are numbers, head_ the smallest, and no pointer value is one.
LEMMA Basics ==
    /\ HeadNode = 0 /\ HeadNode \in Nodes /\ HeadNode \notin Keys
    /\ Keys \subseteq Nat /\ Nodes \subseteq Nat /\ Null \notin Nodes /\ Junk \notin Nodes
    /\ \A k \in Keys : k > HeadNode
    /\ MaxHeight \in Nat /\ MaxHeight > 0 /\ 0 \in Levels /\ Levels \subseteq Nat
<1>1. /\ HeadNode = 0 /\ HeadNode \in Nodes /\ HeadNode \notin Keys
      /\ Keys \subseteq Nat /\ Nodes \subseteq Nat
  BY KeysAssumption DEF Nodes, HeadNode
<1>2. Null \notin Nodes /\ Junk \notin Nodes
  BY <1>1, NullAssumption
<1>3. \A k \in Keys : k > HeadNode
  BY <1>1
<1>4. MaxHeight \in Nat /\ MaxHeight > 0 /\ 0 \in Levels /\ Levels \subseteq Nat
  BY HeightAssumption DEF Levels
<1> QED
  BY <1>1, <1>2, <1>3, <1>4

\* What a pointer holds: nothing, or a larger key that is itself initialized.
LEMMA PointerOK ==
    ASSUME TypeOK, Memory, NEW n \in Nodes, NEW l \in Levels, next[n][l] # Junk
    PROVE  \/ next[n][l] = Null
           \/ /\ next[n][l] \in Keys /\ n < next[n][l]
              /\ \A j \in 0..l : next[next[n][l]][j] # Junk
<1> DEFINE m == next[n][l]
<1>1. PICK p \in StoresTo(n, l) : m = stores[p].val
  BY DEF Memory, NextInHistory
<1>2. p \in DOMAIN stores /\ stores[p].node = n /\ stores[p].level = l
  BY <1>1 DEF StoresTo
<1>3. m = Null \/ (m \in Keys /\ n < m)
  BY <1>1, <1>2 DEF Memory, AlwaysSorted
<1>4. ASSUME m \in Keys, NEW j \in 0..l
      PROVE  next[m][j] # Junk
  <2>1. StoresTo(m, j) # {}
    BY <1>1, <1>2, <1>4 DEF Memory, InitBeforeLink
  <2>2. m \in Nodes /\ j \in Levels
    BY <1>4, Basics DEF Nodes, Levels
  <2> QED
    BY <2>1, <2>2 DEF Memory, NextInHistory
<1> QED
  BY <1>3, <1>4

\* A load of a cell the view covers never returns Junk, and what it returns is
\* covered by the view it leaves.
LEMMA LoadOK ==
    ASSUME TypeOK, Memory, NEW n \in Nodes, NEW l \in Levels, NEW v \in Nat,
           v <= Len(stores), InitBy(n, l, v), NEW load \in Loads(n, l, v)
    PROVE  /\ load.view \in v..Len(stores)
           /\ load.val # Junk
           /\ \/ load.val = Null
              \/ /\ load.val \in Keys /\ n < load.val
                 /\ \A j \in 0..l : InitBy(load.val, j, load.view)
<1> DEFINE fresh == {p \in StoresTo(n, l) : \A q \in StoresTo(n, l) : q <= v => q <= p}
<1>1. PICK p \in fresh : load = [val |-> stores[p].val,
                                 view |-> IF stores[p].release /\ p > v THEN p ELSE v]
  BY DEF Loads, InitBy
<1>2. PICK q0 \in StoresTo(n, l) : q0 <= v
  BY DEF InitBy
<1>3. /\ p \in DOMAIN stores /\ p \in 1..Len(stores) /\ q0 \in 1..Len(stores)
      /\ stores[p].node = n /\ stores[p].level = l /\ stores[p].release \in BOOLEAN
  <2>1. stores \in Seq(StoreRecords) /\ DOMAIN stores = 1..Len(stores)
    BY DEF TypeOK
  <2>2. p \in StoresTo(n, l)
    OBVIOUS
  <2>3. p \in DOMAIN stores /\ stores[p].node = n /\ stores[p].level = l /\ q0 \in DOMAIN stores
    BY <2>2 DEF StoresTo
  <2>4. stores[p] \in StoreRecords
    BY <2>1, <2>3
  <2> QED
    BY <2>1, <2>3, <2>4 DEF StoreRecords
<1>4. /\ load.val = stores[p].val
      /\ load.view = IF stores[p].release /\ p > v THEN p ELSE v
  BY <1>1
<1>5. p <= load.view /\ load.view \in v..Len(stores)
  <2>1. CASE stores[p].release
    BY <1>3, <1>4, <2>1
  <2>2. CASE ~stores[p].release
    <3>1. p <= q0
      BY <1>2, <1>3, <2>2 DEF Memory, RelaxedIsFirst
    <3> QED
      BY <1>2, <1>3, <1>4, <2>2, <3>1
  <2> QED
    BY <1>3, <2>1, <2>2
<1>6. load.val = Null \/ (load.val \in Keys /\ n < load.val)
  BY <1>3, <1>4 DEF Memory, AlwaysSorted
<1>7. ASSUME load.val \in Keys, NEW j \in 0..l
      PROVE  InitBy(load.val, j, load.view)
  <2>1. PICK q \in StoresTo(load.val, j) : q < p
    BY <1>3, <1>4, <1>7 DEF Memory, InitBeforeLink
  <2>2. q \in Nat /\ load.view \in Nat
    BY <1>5 DEF StoresTo
  <2> QED
    BY <1>3, <1>5, <2>1, <2>2 DEF InitBy
<1>8. load.val # Junk
  BY <1>6, Basics, NullAssumption DEF Nodes
<1> QED
  BY <1>5, <1>6, <1>7, <1>8

-----------------------------------------------------------------------------
(* One store.                                                              *)

\* The history after a store: the same stores, and one more.
LEMMA AppendStores ==
    ASSUME stores \in Seq(StoreRecords), NEW s \in StoreRecords, stores' = Append(stores, s)
    PROVE  /\ stores' \in Seq(StoreRecords)
           /\ Len(stores') = Len(stores) + 1
           /\ DOMAIN stores' = 1..(Len(stores) + 1)
           /\ \A p \in 1..Len(stores) : stores'[p] = stores[p]
           /\ stores'[Len(stores) + 1] = s
           /\ \A n, l : StoresTo(n, l)' = StoresTo(n, l) \cup
                  (IF n = s.node /\ l = s.level THEN {Len(stores) + 1} ELSE {})
<1>1. /\ stores' \in Seq(StoreRecords)
      /\ Len(stores') = Len(stores) + 1
      /\ \A p \in 1..Len(stores) : stores'[p] = stores[p]
      /\ stores'[Len(stores) + 1] = s
  OBVIOUS
<1>2. DOMAIN stores' = 1..(Len(stores) + 1) /\ DOMAIN stores = 1..Len(stores) /\ Len(stores) \in Nat
  BY <1>1
<1>3. \A n, l : StoresTo(n, l)' = {p \in DOMAIN stores' : stores'[p].node = n /\ stores'[p].level = l}
  BY DEF StoresTo
<1>4. ASSUME NEW n, NEW l
      PROVE  StoresTo(n, l)' = StoresTo(n, l) \cup
               (IF n = s.node /\ l = s.level THEN {Len(stores) + 1} ELSE {})
  BY <1>1, <1>2, <1>3 DEF StoresTo
<1> QED
  BY <1>1, <1>2, <1>4

\* A cell initialized by the first v stores stays so.
LEMMA InitByStays ==
    ASSUME stores \in Seq(StoreRecords), NEW s \in StoreRecords, stores' = Append(stores, s),
           NEW n, NEW l, NEW v, InitBy(n, l, v)
    PROVE  InitBy(n, l, v)'
BY AppendStores DEF InitBy

\* A store keeps the invariants of memory when it follows the order of insert:
\* towards a larger node that is initialized, relaxed only if it is the first.
LEMMA StoreMemory ==
    ASSUME TypeOK, Memory, NEW n \in Nodes, NEW l \in Levels, NEW m \in Keys \cup {Null},
           NEW release \in BOOLEAN,
           stores' = Append(stores, StoreOf(n, l, m, release)),
           next' = [next EXCEPT ![n][l] = m],
           m \in Keys => n < m /\ \A j \in 0..l : next[m][j] # Junk,
           ~release => next[n][l] = Junk
    PROVE  Memory' /\ next' \in [Nodes -> [Levels -> Nodes \cup {Null, Junk}]]
<1> DEFINE s == StoreOf(n, l, m, release)
           N == Len(stores)
           After(a, b) == {q \in 1..(N + 1) : stores'[q].node = a /\ stores'[q].level = b}
<1>1. s \in StoreRecords /\ s.node = n /\ s.level = l /\ s.val = m /\ s.release = release
  BY Basics DEF StoreOf, StoreRecords, Nodes
<1> HIDE DEF s
<1>2. /\ stores \in Seq(StoreRecords) /\ stores' = Append(stores, s)
      /\ next \in [Nodes -> [Levels -> Nodes \cup {Null, Junk}]]
      /\ N \in Nat /\ DOMAIN stores = 1..N
  BY DEF TypeOK, s
<1>3. /\ stores' \in Seq(StoreRecords)
      /\ Len(stores') = N + 1
      /\ DOMAIN stores' = 1..(N + 1)
      /\ \A p \in 1..N : stores'[p] = stores[p]
      /\ stores'[N + 1] = s
      /\ \A a, b : StoresTo(a, b)' = StoresTo(a, b) \cup
            (IF a = n /\ b = l THEN {N + 1} ELSE {})
      /\ \A a, b : After(a, b) = StoresTo(a, b) \cup
            (IF a = n /\ b = l THEN {N + 1} ELSE {})
  <2>1. /\ stores' \in Seq(StoreRecords)
        /\ Len(stores') = N + 1
        /\ DOMAIN stores' = 1..(N + 1)
        /\ \A p \in 1..N : stores'[p] = stores[p]
        /\ stores'[N + 1] = s
        /\ \A a, b : StoresTo(a, b)' = StoresTo(a, b) \cup
              (IF a = n /\ b = l THEN {N + 1} ELSE {})
    BY <1>1, <1>2, AppendStores
  <2>2. ASSUME NEW a, NEW b
        PROVE  After(a, b) = StoresTo(a, b) \cup (IF a = n /\ b = l THEN {N + 1} ELSE {})
    BY <1>1, <1>2, <2>1 DEF StoresTo
  <2> QED
    BY <2>1, <2>2
<1>4. \A p \in 1..N : stores[p] \in StoreRecords
  BY <1>2
<1>5. AlwaysSorted'
  <2> SUFFICES ASSUME NEW p \in 1..(N + 1)
               PROVE  \/ stores'[p].val = Null
                      \/ stores'[p].val \in Keys /\ stores'[p].node < stores'[p].val
    BY <1>3 DEF AlwaysSorted
  <2>1. CASE p = N + 1
    BY <1>1, <1>3, <2>1
  <2>2. CASE p # N + 1
    BY <1>2, <1>3, <2>2 DEF Memory, AlwaysSorted
  <2> QED
    BY <2>1, <2>2
<1>6. InitBeforeLink'
  <2> SUFFICES ASSUME NEW p \in 1..(N + 1), stores'[p].val \in Keys,
                      NEW j \in 0..stores'[p].level
               PROVE  \E q \in After(stores'[p].val, j) : q < p
    BY <1>3 DEF InitBeforeLink, StoresTo
  <2> HIDE DEF After
  <2>1. CASE p = N + 1
    <3>1. m \in Keys /\ j \in 0..l /\ next[m][j] # Junk /\ stores'[p].val = m
      BY <1>1, <1>3, <2>1
    <3>2. m \in Nodes /\ j \in Levels
      BY <3>1, HeightAssumption DEF Nodes, Levels
    <3>3. PICK q \in StoresTo(m, j) : TRUE
      BY <3>1, <3>2 DEF Memory, NextInHistory
    <3>4. q \in 1..N
      BY <1>2, <3>3 DEF StoresTo
    <3>5. q \in After(m, j)
      BY <1>3, <3>3
    <3>6. q < p
      BY <1>2, <2>1, <3>4
    <3> QED
      BY <3>1, <3>5, <3>6
  <2>2. CASE p # N + 1
    <3>1. p \in 1..N /\ stores'[p] = stores[p]
      BY <1>2, <1>3, <2>2
    <3>2. PICK q \in StoresTo(stores[p].val, j) : q < p
      BY <1>2, <3>1 DEF Memory, InitBeforeLink
    <3> QED
      BY <1>3, <3>1, <3>2
  <2> QED
    BY <2>1, <2>2
<1>7. RelaxedIsFirst'
  <2> SUFFICES ASSUME NEW p \in 1..(N + 1), ~stores'[p].release,
                      NEW q \in After(stores'[p].node, stores'[p].level)
               PROVE  p <= q
    BY <1>3 DEF RelaxedIsFirst, StoresTo
  <2> HIDE DEF After
  <2>1. CASE p = N + 1
    <3>1. ~release /\ stores'[p].node = n /\ stores'[p].level = l
      BY <1>1, <1>3, <2>1
    <3>2. StoresTo(n, l) = {}
      BY <3>1 DEF Memory, NextInHistory
    <3> QED
      BY <1>2, <1>3, <2>1, <3>1, <3>2
  <2>2. CASE p # N + 1
    <3>1. p \in 1..N /\ stores'[p] = stores[p]
      BY <1>2, <1>3, <2>2
    <3>2. q \in StoresTo(stores[p].node, stores[p].level) \/ q = N + 1
      BY <1>3, <3>1
    <3> QED
      BY SMTT(20), <1>2, <3>1, <3>2 DEF Memory, RelaxedIsFirst
  <2> QED
    BY <2>1, <2>2
<1>8. HeadInit'
  <2>1. Len(stores) >= MaxHeight /\ \A b \in Levels : InitBy(HeadNode, b, MaxHeight)
    BY DEF Memory, HeadInit
  <2>2. \A b \in Levels : InitBy(HeadNode, b, MaxHeight)'
    BY <1>3, <2>1 DEF InitBy
  <2>3. Len(stores') >= MaxHeight
    BY <1>2, <1>3, <2>1, HeightAssumption
  <2> QED
    BY <2>2, <2>3 DEF HeadInit
<1>9. \A a \in Nodes, b \in Levels : next'[a][b] = IF a = n /\ b = l THEN m ELSE next[a][b]
  BY <1>2
<1>10. NextInHistory'
  <2> SUFFICES ASSUME NEW a \in Nodes, NEW b \in Levels
               PROVE  /\ next'[a][b] = Junk => StoresTo(a, b)' = {}
                      /\ next'[a][b] # Junk => \E p \in StoresTo(a, b)' : next'[a][b] = stores'[p].val
    BY DEF NextInHistory
  <2>1. CASE a = n /\ b = l
    <3>1. m # Junk
      BY Basics, NullAssumption DEF Nodes
    <3> QED
      BY <1>1, <1>3, <1>9, <2>1, <3>1
  <2>2. CASE ~(a = n /\ b = l)
    <3>1. next'[a][b] = next[a][b] /\ StoresTo(a, b)' = StoresTo(a, b)
      BY ZenonT(30), <1>3, <1>9, <2>2
    <3>2. \A p \in StoresTo(a, b) : stores'[p] = stores[p]
      BY <1>2, <1>3 DEF StoresTo
    <3>3. /\ next[a][b] = Junk => StoresTo(a, b) = {}
          /\ next[a][b] # Junk => \E p \in StoresTo(a, b) : next[a][b] = stores[p].val
      BY DEF Memory, NextInHistory
    <3> QED
      BY <3>1, <3>2, <3>3
  <2> QED
    BY <2>1, <2>2
<1>11. next' \in [Nodes -> [Levels -> Nodes \cup {Null, Junk}]]
  BY <1>2 DEF Nodes
<1> QED
  BY <1>5, <1>6, <1>7, <1>8, <1>10, <1>11 DEF Memory

\* A store does not disturb a reader that takes no step.
LEMMA ReaderStays ==
    ASSUME TypeOK, NEW s \in StoreRecords, stores' = Append(stores, s), reader' = reader,
           NEW r \in Readers, ReaderOK(r)
    PROVE  ReaderOK(r)'
<1>1. stores \in Seq(StoreRecords) /\ Len(stores) \in Nat /\ Len(stores') = Len(stores) + 1
  BY AppendStores DEF TypeOK
<1>2. \A n, l, v : InitBy(n, l, v) => InitBy(n, l, v)'
  BY <1>1, InitByStays
<1>3. reader[r].view \in MaxHeight..Len(stores')
  BY <1>1, HeightAssumption DEF ReaderOK
<1> QED
  BY <1>2, <1>3 DEF ReaderOK

-----------------------------------------------------------------------------
\* The constructor establishes the invariant.
LEMMA InitInv == Init => IInv
<1> SUFFICES ASSUME Init
             PROVE  IInv
  OBVIOUS
<1> USE DEF Init
<1>1. /\ MaxHeight \in Nat /\ DOMAIN stores = 1..MaxHeight /\ Len(stores) = MaxHeight
      /\ stores \in Seq(StoreRecords)
  <2>1. \A i \in 1..MaxHeight : StoreOf(HeadNode, i - 1, Null, TRUE) \in StoreRecords
    BY Basics, HeightAssumption DEF StoreOf, StoreRecords, Levels
  <2>2. MaxHeight \in Nat /\ stores \in [1..MaxHeight -> StoreRecords]
    BY <2>1, HeightAssumption
  <2> QED
    BY ONLY <2>2
<1>2. \A p \in 1..MaxHeight : stores[p] = StoreOf(HeadNode, p - 1, Null, TRUE)
  OBVIOUS
<1>3. \A p \in 1..MaxHeight : /\ stores[p].node = HeadNode /\ stores[p].level = p - 1
                              /\ stores[p].val = Null /\ stores[p].release = TRUE
  BY <1>2 DEF StoreOf
<1>4. \A n, l : StoresTo(n, l) = {p \in 1..MaxHeight : n = HeadNode /\ l = p - 1}
  BY <1>1, <1>3 DEF StoresTo
<1>5. \A n \in Nodes, l \in Levels : next[n][l] = IF n = HeadNode THEN Null ELSE Junk
  OBVIOUS
<1>6. \A l \in Levels : l + 1 \in 1..MaxHeight /\ l + 1 \in StoresTo(HeadNode, l)
  BY <1>1, <1>4 DEF Levels
<1>7. TypeOK
  <2>1. next \in [Nodes -> [Levels -> Nodes \cup {Null, Junk}]]
    OBVIOUS
  <2>2. writer \in WriterStates
    BY Basics DEF NoWriter, WriterStates
  <2>3. reader \in [Readers -> ReaderStates]
    BY Basics DEF ReaderStates, Idle
  <2>4. max_height \in 1..MaxHeight /\ heights \in SUBSET (1..MaxHeight)
    BY HeightAssumption
  <2> QED
    BY <1>1, <2>1, <2>2, <2>3, <2>4 DEF TypeOK
<1>8. Memory
  <2>1. AlwaysSorted
    BY <1>1, <1>3 DEF AlwaysSorted
  <2>2. InitBeforeLink
    BY <1>1, <1>3, Basics DEF InitBeforeLink, Nodes
  <2>3. RelaxedIsFirst
    BY <1>1, <1>3 DEF RelaxedIsFirst
  <2>4. HeadInit
    BY <1>1, <1>6 DEF HeadInit, InitBy
  <2>5. NextInHistory
    <3> SUFFICES ASSUME NEW n \in Nodes, NEW l \in Levels
                 PROVE  /\ next[n][l] = Junk => StoresTo(n, l) = {}
                        /\ next[n][l] # Junk => \E p \in StoresTo(n, l) : next[n][l] = stores[p].val
      BY DEF NextInHistory
    <3>1. CASE n = HeadNode
      BY <1>3, <1>5, <1>6, <3>1, NullAssumption
    <3>2. CASE n # HeadNode
      BY <1>4, <1>5, <3>2
    <3> QED
      BY <3>1, <3>2
  <2> QED
    BY <2>1, <2>2, <2>3, <2>4, <2>5 DEF Memory
<1>9. HighLevelsEmpty /\ BottomFirst
  BY <1>5, Basics DEF HighLevelsEmpty, BottomFirst, Nodes
<1>10. WriterOK
  BY DEF WriterOK, NoWriter
<1>11. ASSUME NEW r \in Readers
       PROVE  ReaderOK(r)
  BY <1>1 DEF ReaderOK, Idle
<1> QED
  BY <1>7, <1>8, <1>9, <1>10, <1>11 DEF IInv

-----------------------------------------------------------------------------
(* The writer's steps.                                                     *)

\* Memory stays as it is when nothing is stored.
LEMMA MemoryStays ==
    ASSUME Memory, UNCHANGED <<stores, next>>
    PROVE  Memory'
BY DEF Memory, AlwaysSorted, InitBeforeLink, RelaxedIsFirst, HeadInit, NextInHistory,
       InitBy, StoresTo

\* A reader that takes no step keeps its invariant when nothing is stored.
LEMMA ReadersStay ==
    ASSUME UNCHANGED <<stores, reader>>, NEW r \in Readers, ReaderOK(r)
    PROVE  ReaderOK(r)'
BY DEF ReaderOK, InitBy, StoresTo

\* head_ is initialized at every level.
LEMMA HeadReady ==
    ASSUME Memory, NEW l \in Levels
    PROVE  next[HeadNode][l] # Junk
BY Basics DEF Memory, HeadInit, InitBy, NextInHistory

\* What the fields of the writer range over.
LEMMA WriterFields ==
    ASSUME TypeOK
    PROVE  /\ writer \in WriterStates
           /\ writer.key \in Nodes /\ writer.key \in Nat
           /\ writer.x \in Nodes /\ writer.x \in Nat
           /\ writer.level \in Levels /\ writer.level \in Nat /\ writer.level < MaxHeight
           /\ writer.prev \in [Levels -> Nodes \cup {Junk}]
           /\ writer.height \in 0..MaxHeight
           /\ max_height \in Nat /\ max_height >= 1 /\ max_height <= MaxHeight
           /\ MaxHeight \in Nat
           /\ heights \in SUBSET (1..MaxHeight)
<1>1. writer \in WriterStates /\ max_height \in 1..MaxHeight /\ heights \in SUBSET (1..MaxHeight)
  BY DEF TypeOK
<1>2. /\ writer.key \in Nodes /\ writer.x \in Nodes /\ writer.level \in Levels
      /\ writer.prev \in [Levels -> Nodes \cup {Junk}] /\ writer.height \in 0..MaxHeight
  BY <1>1 DEF WriterStates
<1>3. writer.key \in Nat /\ writer.x \in Nat
  BY <1>2, Basics
<1>4. writer.level \in Nat /\ writer.level < MaxHeight
  BY <1>2, HeightAssumption DEF Levels
<1>5. max_height \in Nat /\ max_height >= 1 /\ max_height <= MaxHeight /\ MaxHeight \in Nat
  BY <1>1, HeightAssumption
<1> QED
  BY <1>1, <1>2, <1>3, <1>4, <1>5

\* The search of insert starts at head_, on the highest level in use.
LEMMA BeginInsertInv ==
    ASSUME IInv, NEW k \in Keys, BeginInsert(k)
    PROVE  IInv'
<1>1. /\ UNCHANGED <<stores, next, max_height, heights, reader>> /\ k \notin Linked
      /\ writer' = [NoWriter EXCEPT !.pc = "find", !.key = k, !.level = max_height - 1]
      /\ TypeOK /\ Memory /\ HighLevelsEmpty /\ BottomFirst
  BY DEF BeginInsert, IInv
<1>2. /\ writer'.pc = "find" /\ writer'.key = k /\ writer'.level = max_height - 1
      /\ writer'.x = HeadNode
  BY <1>1 DEF NoWriter
<1>3. max_height - 1 \in Levels /\ max_height \in 1..MaxHeight /\ MaxHeight \in Nat
  BY <1>1, HeightAssumption DEF TypeOK, Levels
<1>4. TypeOK'
  <2>1. NoWriter \in WriterStates
    BY Basics DEF NoWriter, WriterStates
  <2>2. k \in Nodes
    BY DEF Nodes
  <2> HIDE DEF NoWriter
  <2>3. writer' \in WriterStates
    BY <1>1, <1>3, <2>1, <2>2 DEF WriterStates
  <2> QED
    BY <1>1, <2>3 DEF TypeOK
<1>5. \A l \in Levels : next[k][l] = Junk
  BY <1>1 DEF Linked, BottomFirst
<1>6. \A j \in 0..(max_height - 1) : next[HeadNode][j] # Junk
  BY <1>1, <1>3, HeadReady DEF Levels
<1>7. WriterOK'
  <2>1. OwnLevels({})'
    BY <1>1, <1>2, <1>5 DEF OwnLevels
  <2>2. HeadNode < k
    BY Basics
  <2>3. \A l \in (writer'.level + 1)..(max_height - 1) : FALSE
    BY <1>2, <1>3
  <2>4. writer'.level < max_height
    BY <1>2, <1>3
  <2> QED
    BY <1>1, <1>2, <1>6, <2>1, <2>2, <2>3, <2>4 DEF WriterOK
<1>8. Memory' /\ HighLevelsEmpty' /\ BottomFirst'
  BY <1>1, MemoryStays DEF HighLevelsEmpty, BottomFirst
<1>9. ASSUME NEW r \in Readers
      PROVE  ReaderOK(r)'
  BY <1>1, ReadersStay DEF IInv
<1> QED
  BY <1>4, <1>7, <1>8, <1>9 DEF IInv

\* Going right keeps the node before the key; going down records it in prev.
LEMMA FindPrevInv ==
    ASSUME IInv, FindPrev
    PROVE  IInv'
<1> DEFINE x == writer.x
           level == writer.level
           key == writer.key
           after == next[x][level]
<1>1. /\ UNCHANGED <<stores, next, max_height, heights, reader>> /\ writer.pc = "find"
      /\ TypeOK /\ Memory /\ HighLevelsEmpty /\ BottomFirst /\ WriterOK
  BY DEF FindPrev, IInv
<1>2. /\ writer \in WriterStates /\ x \in Nodes /\ level \in Levels /\ level \in Nat /\ x \in Nat
      /\ writer.prev \in [Levels -> Nodes \cup {Junk}]
      /\ max_height \in Nat /\ max_height <= MaxHeight /\ MaxHeight \in Nat
  BY <1>1, WriterFields
<1>3. /\ key \in Keys /\ OwnLevels({}) /\ level < max_height /\ x < key
      /\ \A j \in 0..level : next[x][j] # Junk
      /\ \A l \in (level + 1)..(max_height - 1) : PrevOK(l)
  BY <1>1 DEF WriterOK
<1>4. after # Junk
  BY <1>2, <1>3
<1>5. \/ after = Null
      \/ after \in Keys /\ x < after /\ \A j \in 0..level : next[after][j] # Junk
  BY <1>1, <1>2, <1>4, PointerOK
<1>6. CASE KeyIsAfterNode(key, after)
  <2>1. writer' = [writer EXCEPT !.x = after]
    BY <1>6 DEF FindPrev
  <2>2. after \in Keys /\ after \in Nodes /\ after < key /\ \A j \in 0..level : next[after][j] # Junk
    BY <1>5, <1>6 DEF KeyIsAfterNode, Nodes
  <2>3. /\ writer' \in WriterStates /\ writer'.pc = "find" /\ writer'.key = key
        /\ writer'.level = level /\ writer'.x = after /\ writer'.prev = writer.prev
    BY <1>1, <1>2, <2>1, <2>2 DEF WriterStates
  <2>4. WriterOK'
    BY <1>1, <1>3, <2>2, <2>3 DEF WriterOK, OwnLevels, PrevOK
  <2> QED
    BY <1>1, <2>3, <2>4, MemoryStays, ReadersStay
    DEF IInv, TypeOK, HighLevelsEmpty, BottomFirst
<1>7. CASE ~KeyIsAfterNode(key, after)
  <2>1. writer' = [writer EXCEPT !.prev = [writer.prev EXCEPT ![level] = x],
                                 !.pc = IF level = 0 THEN "height" ELSE "find",
                                 !.level = IF level = 0 THEN 0 ELSE level - 1]
    BY <1>7 DEF FindPrev
  <2>2. (IF level = 0 THEN 0 ELSE level - 1) \in Levels
    BY <1>2, HeightAssumption DEF Levels
  <2>3. [writer.prev EXCEPT ![level] = x] \in [Levels -> Nodes \cup {Junk}]
    BY <1>2
  <2>4. /\ writer' \in WriterStates /\ writer'.key = key /\ writer'.x = x
        /\ writer'.pc = IF level = 0 THEN "height" ELSE "find"
        /\ writer'.level = IF level = 0 THEN 0 ELSE level - 1
        /\ writer'.prev = [writer.prev EXCEPT ![level] = x]
    BY <1>2, <2>1, <2>2, <2>3 DEF WriterStates
  <2>5. after # Null => key < after
    <3>1. after # key
      <4>1. 0 \in Levels /\ 0 \in 0..level
        BY <1>2, Basics
      <4>2. next[key][0] = Junk
        BY <1>3, <4>1 DEF OwnLevels
      <4>3. CASE after = Null
        BY <1>3, <4>3, Basics DEF Nodes
      <4>4. CASE after \in Keys /\ next[after][0] # Junk
        BY <4>2, <4>4
      <4> QED
        BY <1>5, <4>1, <4>3, <4>4
    <3>2. after # Null => after \in Nat /\ key \in Nat
      BY <1>3, <1>5, Basics
    <3> QED
      BY <1>7, <3>1, <3>2 DEF KeyIsAfterNode
  <2>6. ASSUME NEW l \in level..(max_height - 1)
        PROVE  PrevOK(l)'
    <3>1. l \in Levels
      BY <1>2, HeightAssumption DEF Levels
    <3>2. CASE l = level
      BY <1>1, <1>2, <1>3, <1>4, <2>4, <2>5, <3>2 DEF PrevOK
    <3>3. CASE l # level
      BY <1>1, <1>2, <1>3, <2>4, <3>1, <3>3 DEF PrevOK
    <3> QED
      BY <3>2, <3>3
  <2>7. WriterOK'
    <3>1. OwnLevels({})'
      BY <1>1, <1>3, <2>4 DEF OwnLevels
    <3>2. CASE level = 0
      <4>1. writer'.pc = "height" /\ writer'.level = 0 /\ max_height' = max_height
        BY <1>1, <2>4, <3>2
      <4> QED
        BY <1>3, <2>4, <2>6, <3>1, <3>2, <4>1 DEF WriterOK
    <3>3. CASE level # 0
      <4>1. /\ writer'.pc = "find" /\ writer'.level = level - 1 /\ max_height' = max_height
            /\ next' = next
        BY <1>1, <2>4, <3>3
      <4>2. \A j \in 0..(level - 1) : next[x][j] # Junk
        BY <1>2, <1>3
      <4>3. level - 1 < max_height /\ (level - 1) + 1 = level
        BY <1>2, <1>3
      <4> QED
        BY <1>3, <2>4, <2>6, <3>1, <4>1, <4>2, <4>3 DEF WriterOK
    <3> QED
      BY <3>2, <3>3
  <2> QED
    BY <1>1, <2>4, <2>7, MemoryStays, ReadersStay
    DEF IInv, TypeOK, HighLevelsEmpty, BottomFirst
<1> QED
  BY <1>6, <1>7

\* At a level that was not in use the place of any key is after head_.
LEMMA ChooseHeightInv ==
    ASSUME IInv, NEW h \in 1..MaxHeight, ChooseHeight(h)
    PROVE  IInv'
<1> DEFINE prev == [l \in Levels |-> IF l \in max_height..(h - 1) THEN HeadNode ELSE writer.prev[l]]
<1>1. /\ UNCHANGED <<stores, next, reader>> /\ writer.pc = "height"
      /\ writer' = [writer EXCEPT !.pc = "init", !.height = h, !.prev = prev]
      /\ max_height' = IF h > max_height THEN h ELSE max_height
      /\ heights' = heights \cup {max_height'}
      /\ TypeOK /\ Memory /\ HighLevelsEmpty /\ BottomFirst /\ WriterOK
  BY DEF ChooseHeight, IInv
<1>2. /\ writer \in WriterStates /\ writer.prev \in [Levels -> Nodes \cup {Junk}]
      /\ max_height \in Nat /\ max_height >= 1 /\ max_height <= MaxHeight
      /\ MaxHeight \in Nat /\ h \in 1..MaxHeight /\ heights \in SUBSET (1..MaxHeight)
  BY <1>1, WriterFields
<1>3. /\ max_height' \in Nat /\ max_height' >= max_height /\ max_height' >= h
      /\ max_height' \in 1..MaxHeight
  BY <1>1, <1>2
<1>4. prev \in [Levels -> Nodes \cup {Junk}]
  BY <1>2, Basics
<1>5. \A l \in Levels : prev[l] = IF l \in max_height..(h - 1) THEN HeadNode ELSE writer.prev[l]
  OBVIOUS
<1> HIDE DEF prev
<1>6. /\ writer' \in WriterStates /\ writer'.pc = "init" /\ writer'.height = h
      /\ writer'.prev = prev /\ writer'.key = writer.key /\ writer'.level = writer.level
  <2>1. h \in 0..MaxHeight
    BY <1>2
  <2> QED
    BY <1>1, <1>2, <1>4, <2>1 DEF WriterStates
<1>7. /\ writer.key \in Keys /\ writer.level = 0 /\ OwnLevels({})
      /\ \A l \in 0..(max_height - 1) : PrevOK(l)
  BY <1>1 DEF WriterOK
<1>8. ASSUME NEW l \in 0..(h - 1)
      PROVE  PrevOK(l)'
  <2>1. l \in Levels /\ l \in Nat
    BY <1>2 DEF Levels
  <2>2. CASE l >= max_height
    <3>1. prev[l] = HeadNode
      BY <1>2, <1>5, <2>1, <2>2
    <3>2. next[HeadNode][l] = Null
      BY <1>1, <2>1, <2>2 DEF HighLevelsEmpty
    <3> QED
      BY <1>1, <1>6, <1>7, <3>1, <3>2, Basics, NullAssumption DEF PrevOK
  <2>3. CASE ~(l >= max_height)
    <3>1. PrevOK(l) /\ prev[l] = writer.prev[l]
      BY <1>2, <1>5, <1>7, <2>1, <2>3
    <3> QED
      BY <1>1, <1>6, <3>1 DEF PrevOK
  <2> QED
    BY <2>2, <2>3
<1>9. WriterOK'
  <2>1. OwnLevels(0..(writer.level - 1))'
    BY <1>1, <1>6, <1>7 DEF OwnLevels
  <2> QED
    BY <1>2, <1>3, <1>6, <1>7, <1>8, <2>1 DEF WriterOK
<1>10. TypeOK'
  BY <1>1, <1>2, <1>3, <1>6 DEF TypeOK
<1>11. Memory' /\ BottomFirst'
  BY <1>1, MemoryStays DEF BottomFirst
<1>12. HighLevelsEmpty'
  <2> SUFFICES ASSUME NEW l \in Levels, l >= max_height'
               PROVE  next'[HeadNode][l] = Null
    BY DEF HighLevelsEmpty
  <2>0. l \in Nat
    BY Basics
  <2>1. l >= max_height
    BY <1>2, <1>3, <2>0
  <2> QED
    BY <1>1, <2>1 DEF HighLevelsEmpty
<1>13. ASSUME NEW r \in Readers
       PROVE  ReaderOK(r)'
  BY <1>1, ReadersStay DEF IInv
<1> QED
  BY <1>9, <1>10, <1>11, <1>12, <1>13 DEF IInv

\* The writer's own node gets its pointer at this level, the first store to it.
LEMMA InitNextInv ==
    ASSUME IInv, InitNext
    PROVE  IInv'
<1> DEFINE key == writer.key
           level == writer.level
           after == next[writer.prev[level]][level]
<1>1. /\ stores' = Append(stores, StoreOf(key, level, after, FALSE))
      /\ next' = [next EXCEPT ![key][level] = after]
      /\ writer' = [writer EXCEPT !.pc = "publish"]
      /\ UNCHANGED <<max_height, heights, reader>> /\ writer.pc = "init"
      /\ TypeOK /\ Memory /\ HighLevelsEmpty /\ BottomFirst /\ WriterOK
  BY DEF InitNext, NoBarrierSetNext, IInv
<1>2. /\ writer \in WriterStates /\ key \in Nodes /\ key \in Nat
      /\ level \in Levels /\ level \in Nat
      /\ writer.prev \in [Levels -> Nodes \cup {Junk}]
      /\ writer.height \in Nat /\ writer.height <= MaxHeight /\ MaxHeight \in Nat
      /\ max_height \in Nat
  BY <1>1, WriterFields
<1>3. /\ key \in Keys /\ level < writer.height /\ OwnLevels(0..(level - 1))
      /\ writer.height <= max_height
      /\ \A l \in level..(writer.height - 1) : PrevOK(l)
  BY <1>1 DEF WriterOK
<1>4. level \in level..(writer.height - 1)
  BY <1>2, <1>3
<1>5. /\ writer.prev[level] \in Nodes /\ after # Junk /\ (after # Null => key < after)
  BY <1>3, <1>4 DEF PrevOK
<1>6. \/ after = Null
      \/ after \in Keys /\ \A j \in 0..level : next[after][j] # Junk
  BY <1>1, <1>2, <1>5, PointerOK
<1>7. next[key][level] = Junk
  BY <1>2, <1>3 DEF OwnLevels
<1>8. /\ after \in Keys \cup {Null}
      /\ after \in Keys => key < after /\ \A j \in 0..level : next[after][j] # Junk
  BY <1>5, <1>6, Basics DEF Nodes
<1> HIDE DEF after
<1>9. Memory' /\ next' \in [Nodes -> [Levels -> Nodes \cup {Null, Junk}]]
  BY <1>1, <1>2, <1>7, <1>8, StoreMemory
<1>10. \A n \in Nodes, l \in Levels :
         next'[n][l] = IF n = key /\ l = level THEN after ELSE next[n][l]
  BY <1>1, <1>2 DEF TypeOK
<1>11. /\ writer' \in WriterStates /\ writer'.pc = "publish" /\ writer'.key = key
       /\ writer'.level = level /\ writer'.prev = writer.prev /\ writer'.height = writer.height
  BY <1>1, <1>2 DEF WriterStates
<1>12. StoreOf(key, level, after, FALSE) \in StoreRecords
  BY <1>2, <1>8 DEF StoreOf, StoreRecords, Nodes
<1>13. TypeOK'
  <2>1. stores' \in Seq(StoreRecords)
    BY <1>1, <1>12, AppendStores DEF TypeOK
  <2> QED
    BY <1>1, <1>9, <1>11, <2>1 DEF TypeOK
<1>14. HighLevelsEmpty'
  BY <1>1, <1>3, <1>10, Basics DEF HighLevelsEmpty
<1>15. BottomFirst'
  <2> SUFFICES ASSUME NEW k \in Keys, NEW l \in Levels, next'[k][l] # Junk
               PROVE  next'[k][0] # Junk
    BY DEF BottomFirst
  <2>1. k \in Nodes /\ 0 \in Levels
    BY Basics DEF Nodes
  <2>2. CASE k = key /\ level = 0
    BY <1>5, <1>10, <2>1, <2>2 DEF after
  <2>3. CASE k = key /\ level # 0
    <3>1. 0 \in 0..(level - 1)
      BY <1>2, <2>3
    <3>2. next[key][0] # Junk
      BY <1>3, <2>1, <3>1 DEF OwnLevels
    <3> QED
      BY <1>10, <2>1, <2>3, <3>2
  <2>4. CASE k # key
    BY <1>1, <1>10, <2>1, <2>4 DEF BottomFirst
  <2> QED
    BY <2>2, <2>3, <2>4
<1>16. WriterOK'
  <2>1. OwnLevels(0..level)'
    <3> SUFFICES ASSUME NEW l \in Levels
                 PROVE  next'[key][l] # Junk <=> l \in 0..level
      BY <1>11 DEF OwnLevels
    <3>1. l \in Nat
      BY Basics
    <3>2. CASE l = level
      BY <1>2, <1>5, <1>10, <3>2 DEF after
    <3>3. CASE l # level
      BY <1>2, <1>3, <1>10, <3>1, <3>3 DEF OwnLevels
    <3> QED
      BY <3>2, <3>3
  <2>2. ASSUME NEW l \in level..(writer.height - 1)
        PROVE  PrevOK(l)'
    <3>1. l \in Levels /\ PrevOK(l)
      BY <1>2, <1>3 DEF Levels
    <3>2. writer.prev[l] \in Nodes /\ writer.prev[l] < key /\ writer.prev[l] # key
      BY <1>2, <3>1, Basics DEF PrevOK
    <3>3. next'[writer.prev[l]][l] = next[writer.prev[l]][l]
      BY <1>10, <3>1, <3>2
    <3> QED
      BY <1>11, <3>1, <3>3 DEF PrevOK
  <2> QED
    BY <1>1, <1>3, <1>11, <2>1, <2>2 DEF WriterOK
<1>17. ASSUME NEW r \in Readers
       PROVE  ReaderOK(r)'
  BY <1>1, <1>12, ReaderStays DEF IInv
<1> QED
  BY <1>9, <1>13, <1>14, <1>15, <1>16, <1>17 DEF IInv

\* The predecessor's pointer is turned to a node initialized at every level
\* a search may go on from.
LEMMA PublishInv ==
    ASSUME IInv, Publish
    PROVE  IInv'
<1> DEFINE key == writer.key
           level == writer.level
           before == writer.prev[level]
<1>1. /\ stores' = Append(stores, StoreOf(before, level, key, TRUE))
      /\ next' = [next EXCEPT ![before][level] = key]
      /\ writer' = IF level + 1 < writer.height
                     THEN [writer EXCEPT !.pc = "init", !.level = level + 1]
                     ELSE NoWriter
      /\ UNCHANGED <<max_height, heights, reader>> /\ writer.pc = "publish"
      /\ TypeOK /\ Memory /\ HighLevelsEmpty /\ BottomFirst /\ WriterOK
  BY DEF Publish, SetNext, IInv
<1>2. /\ writer \in WriterStates /\ key \in Nodes /\ key \in Nat
      /\ level \in Levels /\ level \in Nat
      /\ writer.prev \in [Levels -> Nodes \cup {Junk}]
      /\ writer.height \in Nat /\ writer.height <= MaxHeight /\ MaxHeight \in Nat
      /\ max_height \in Nat
  BY <1>1, WriterFields
<1>3. /\ key \in Keys /\ level < writer.height /\ OwnLevels(0..level)
      /\ writer.height <= max_height
      /\ \A l \in level..(writer.height - 1) : PrevOK(l)
  BY <1>1 DEF WriterOK
<1>4. level \in level..(writer.height - 1)
  BY <1>2, <1>3
<1>5. before \in Nodes /\ before < key /\ next[before][level] # Junk
  BY <1>3, <1>4 DEF PrevOK
<1>6. \A j \in 0..level : j \in Levels /\ next[key][j] # Junk
  BY <1>2, <1>3 DEF Levels, OwnLevels
<1>7. before # key
  BY <1>2, <1>5, Basics
<1> HIDE DEF before
<1>8. Memory' /\ next' \in [Nodes -> [Levels -> Nodes \cup {Null, Junk}]]
  BY <1>1, <1>2, <1>3, <1>5, <1>6, StoreMemory
<1>9. \A n \in Nodes, l \in Levels :
        next'[n][l] = IF n = before /\ l = level THEN key ELSE next[n][l]
  BY <1>1, <1>2, <1>5 DEF TypeOK
<1>10. StoreOf(before, level, key, TRUE) \in StoreRecords
  BY <1>2, <1>5 DEF StoreOf, StoreRecords
<1>11. writer' \in WriterStates
  <2>1. NoWriter \in WriterStates
    BY Basics DEF NoWriter, WriterStates
  <2>2. CASE level + 1 < writer.height
    <3>1. level + 1 \in Levels
      BY <1>2, <2>2 DEF Levels
    <3> QED
      BY <1>1, <1>2, <2>2, <3>1 DEF WriterStates
  <2> QED
    BY <1>1, <2>1, <2>2
<1>12. TypeOK'
  <2>1. stores' \in Seq(StoreRecords)
    BY <1>1, <1>10, AppendStores DEF TypeOK
  <2> QED
    BY <1>1, <1>8, <1>11, <2>1 DEF TypeOK
<1>13. HighLevelsEmpty'
  <2> SUFFICES ASSUME NEW l \in Levels, l >= max_height
               PROVE  next'[HeadNode][l] = Null
    BY <1>1 DEF HighLevelsEmpty
  <2>1. l # level
    BY <1>2, <1>3
  <2> QED
    BY <1>1, <1>9, <2>1, Basics DEF HighLevelsEmpty
<1>14. BottomFirst'
  <2> SUFFICES ASSUME NEW k \in Keys, NEW l \in Levels, next'[k][l] # Junk
               PROVE  next'[k][0] # Junk
    BY DEF BottomFirst
  <2>1. k \in Nodes /\ 0 \in Levels /\ key # Junk
    BY <1>2, Basics DEF Nodes
  <2>2. next[k][l] # Junk
    BY <1>5, <1>9, <2>1
  <2>3. next[k][0] # Junk
    BY <1>1, <2>2 DEF BottomFirst
  <2> QED
    BY <1>9, <2>1, <2>3
<1>15. WriterOK'
  <2>1. CASE level + 1 < writer.height
    <3>1. /\ writer'.pc = "init" /\ writer'.key = key /\ writer'.level = level + 1
          /\ writer'.prev = writer.prev /\ writer'.height = writer.height
      BY <1>1, <1>2, <2>1 DEF WriterStates
    <3>2. ASSUME NEW l \in (level + 1)..(writer.height - 1)
          PROVE  PrevOK(l)'
      <4>1. l \in Levels /\ l # level /\ PrevOK(l)
        BY <1>2, <1>3 DEF Levels
      <4>2. next'[writer.prev[l]][l] = next[writer.prev[l]][l]
        BY <1>9, <4>1 DEF PrevOK
      <4> QED
        BY <3>1, <4>1, <4>2 DEF PrevOK
    <3>3. OwnLevels(0..(writer.level - 1))'
      <4>1. 0..(writer'.level - 1) = 0..level
        BY <1>2, <3>1
      <4>2. \A l \in Levels : next'[key][l] # Junk <=> l \in 0..level
        BY <1>2, <1>3, <1>7, <1>9 DEF OwnLevels
      <4> QED
        BY <3>1, <4>1, <4>2 DEF OwnLevels
    <3>4. max_height' = max_height
      BY <1>1
    <3> QED
      BY <1>3, <2>1, <3>1, <3>2, <3>3, <3>4 DEF WriterOK
  <2>2. CASE ~(level + 1 < writer.height)
    <3>1. writer'.pc = "idle"
      BY <1>1, <2>2 DEF NoWriter
    <3> QED
      BY <3>1 DEF WriterOK
  <2> QED
    BY <2>1, <2>2
<1>16. ASSUME NEW r \in Readers
       PROVE  ReaderOK(r)'
  BY <1>1, <1>10, ReaderStays DEF IInv
<1> QED
  BY <1>8, <1>12, <1>13, <1>14, <1>15, <1>16 DEF IInv

-----------------------------------------------------------------------------
(* The readers' steps.                                                     *)

\* What the fields of a reader range over.
LEMMA ReaderFields ==
    ASSUME IInv, NEW r \in Readers
    PROVE  /\ reader[r] \in ReaderStates
           /\ reader[r].x \in Nodes /\ reader[r].target \in Nodes
           /\ reader[r].level \in Levels /\ reader[r].level \in Nat
           /\ reader[r].view \in Nat /\ reader[r].view \in MaxHeight..Len(stores)
           /\ reader[r].node \in Nodes \cup {Null}
           /\ Len(stores) \in Nat /\ MaxHeight \in Nat
<1>1. reader[r] \in ReaderStates /\ stores \in Seq(StoreRecords) /\ ReaderOK(r)
  BY DEF IInv, TypeOK
<1>2. /\ reader[r].x \in Nodes /\ reader[r].target \in Nodes
      /\ reader[r].level \in Levels /\ reader[r].view \in Nat
      /\ reader[r].node \in Nodes \cup {Null}
  BY <1>1 DEF ReaderStates
<1>3. Len(stores) \in Nat
  BY <1>1
<1>5. MaxHeight \in Nat /\ reader[r].level \in Nat
  BY <1>2, Basics
<1>4. reader[r].view \in MaxHeight..Len(stores)
  BY <1>1 DEF ReaderOK
<1> QED
  BY <1>1, <1>2, <1>3, <1>4, <1>5

\* A larger view covers what a smaller one does.
LEMMA ViewGrows ==
    ASSUME IInv, NEW n, NEW l, NEW v \in Nat, NEW w \in Nat, v <= w, InitBy(n, l, v)
    PROVE  InitBy(n, l, w)
<1>1. \A q \in StoresTo(n, l) : q \in Nat
  BY DEF IInv, TypeOK, StoresTo
<1> QED
  BY <1>1 DEF InitBy

\* A reader's step disturbs nothing but its own state.
LEMMA ReaderMoves ==
    ASSUME IInv, NEW r \in Readers, NEW new \in ReaderStates,
           UNCHANGED writerVars, reader' = [reader EXCEPT ![r] = new],
           new.view \in MaxHeight..Len(stores), new.pc # "fault",
           new.pc # Idle => \A j \in 0..new.level : InitBy(new.x, j, new.view),
           new.node # Null => InitBy(new.node, 0, new.view)
    PROVE  IInv'
<1>1. /\ UNCHANGED <<stores, next, max_height, heights, writer>>
      /\ TypeOK /\ Memory /\ HighLevelsEmpty /\ BottomFirst /\ WriterOK
      /\ \A q \in Readers : ReaderOK(q)
      /\ reader \in [Readers -> ReaderStates]
  BY DEF IInv, writerVars, TypeOK
<1>2. TypeOK'
  BY <1>1 DEF TypeOK
<1>3. Memory' /\ HighLevelsEmpty' /\ BottomFirst' /\ WriterOK'
  BY <1>1, MemoryStays DEF HighLevelsEmpty, BottomFirst, WriterOK, OwnLevels, PrevOK
<1>4. ASSUME NEW q \in Readers
      PROVE  ReaderOK(q)'
  <2>1. \A n, l, v : InitBy(n, l, v) => \E p \in StoresTo(n, l)' : p <= v
    BY <1>1 DEF InitBy, StoresTo
  <2>2. CASE q = r
    <3>1. reader'[q] = new
      BY <1>1, <2>2
    <3> QED
      BY <1>1, <3>1, <2>1 DEF ReaderOK, InitBy
  <2>3. CASE q # r
    <3>1. reader'[q] = reader[q] /\ ReaderOK(q)
      BY <1>1, <2>3
    <3> QED
      BY <1>1, <3>1, <2>1 DEF ReaderOK, InitBy
  <2> QED
    BY <2>2, <2>3
<1> QED
  BY <1>2, <1>3, <1>4 DEF IInv

\* A search starts at head_, whose pointers every view covers.
LEMMA StartSearchInv ==
    ASSUME IInv, NEW r \in Readers, NEW target \in Nodes,
           NEW search \in {"find_greater_or_equal", "find_less_than", "find_last"},
           StartSearch(r, search, target)
    PROVE  IInv'
<1>1. PICK h \in heights, v \in reader[r].view..Len(stores) :
        reader' = [reader EXCEPT ![r] =
          [reader[r] EXCEPT !.pc = search, !.target = target, !.x = HeadNode,
                            !.level = h - 1, !.view = v, !.start = v]]
  BY DEF StartSearch
<1> DEFINE new == [reader[r] EXCEPT !.pc = search, !.target = target, !.x = HeadNode,
                                    !.level = h - 1, !.view = v, !.start = v]
<1>2. /\ reader[r] \in ReaderStates /\ reader[r].view \in MaxHeight..Len(stores)
      /\ Len(stores) \in Nat /\ MaxHeight \in Nat
  BY ReaderFields
<1>3. h - 1 \in Levels /\ h \in 1..MaxHeight
  BY <1>2 DEF IInv, TypeOK, Levels
<1>4. v \in Nat /\ v \in MaxHeight..Len(stores) /\ reader[r].view <= v
  BY <1>2
<1>5. /\ new \in ReaderStates /\ new.pc = search /\ new.x = HeadNode /\ new.level = h - 1
      /\ new.view = v /\ new.node = reader[r].node
  BY <1>2, <1>3, <1>4, Basics DEF ReaderStates
<1>6. \A j \in 0..(h - 1) : InitBy(HeadNode, j, v)
  <2> SUFFICES ASSUME NEW j \in 0..(h - 1)
               PROVE  InitBy(HeadNode, j, v)
    OBVIOUS
  <2>1. j \in Levels
    BY <1>2, <1>3 DEF Levels
  <2>2. InitBy(HeadNode, j, MaxHeight)
    BY <2>1 DEF IInv, Memory, HeadInit
  <2>3. MaxHeight <= v
    BY <1>2, <1>4
  <2> QED
    BY <1>2, <1>4, <2>2, <2>3, ViewGrows
<1>7. reader[r].node # Null => InitBy(reader[r].node, 0, v)
  BY <1>2, <1>4, ViewGrows DEF IInv, ReaderOK
<1>8. reader' = [reader EXCEPT ![r] = new] /\ UNCHANGED writerVars
  BY <1>1 DEF StartSearch
<1> HIDE DEF new
<1>9. new.pc # "fault"
  BY <1>5
<1> QED
  BY <1>4, <1>5, <1>6, <1>7, <1>8, <1>9, ReaderMoves

\* An iteration of a search loads a pointer its view covers.
LEMMA SearchStepInv ==
    ASSUME IInv, NEW r \in Readers, SearchStep(r)
    PROVE  IInv'
<1> DEFINE x == reader[r].x
           level == reader[r].level
           view == reader[r].view
           node == reader[r].node
<1>1. PICK load \in Loads(x, level, view) :
        LET m == load.val
            moved == [reader[r] EXCEPT !.view = load.view]
        IN  reader' = [reader EXCEPT ![r] =
              IF m = Junk THEN [moved EXCEPT !.pc = "fault"]
              ELSE IF SearchOn(r, m) THEN [moved EXCEPT !.x = m]
              ELSE IF level > 0 THEN [moved EXCEPT !.level = moved.level - 1]
              ELSE [moved EXCEPT !.pc = Idle, !.node = SearchResult(r, m)]]
  BY DEF SearchStep
<1> DEFINE m == load.val
           w == load.view
           moved == [reader[r] EXCEPT !.view = w]
<1>2. /\ reader[r] \in ReaderStates /\ x \in Nodes /\ level \in Levels /\ level \in Nat
      /\ view \in Nat /\ view \in MaxHeight..Len(stores) /\ node \in Nodes \cup {Null}
      /\ Len(stores) \in Nat /\ MaxHeight \in Nat
  BY ReaderFields
<1>3. /\ UNCHANGED writerVars /\ reader[r].pc # Idle /\ reader[r].pc # "fault"
      /\ TypeOK /\ Memory /\ ReaderOK(r)
  BY DEF SearchStep, IInv
<1>4. /\ \A j \in 0..level : InitBy(x, j, view)
      /\ node # Null => InitBy(node, 0, view)
  BY <1>3 DEF ReaderOK
<1>5. /\ w \in view..Len(stores) /\ m # Junk
      /\ \/ m = Null
         \/ m \in Keys /\ x < m /\ \A j \in 0..level : InitBy(m, j, w)
  <2>1. level \in 0..level /\ view <= Len(stores)
    BY <1>2
  <2>2. InitBy(x, level, view)
    BY <1>4, <2>1
  <2> QED
    BY <1>2, <1>3, <2>1, <2>2, LoadOK
<1>6. w \in Nat /\ w \in MaxHeight..Len(stores) /\ view <= w
  BY <1>2, <1>5
<1>7. /\ \A j \in 0..level : InitBy(x, j, w)
      /\ node # Null => InitBy(node, 0, w)
  BY <1>2, <1>4, <1>6, ViewGrows
<1>8. /\ moved \in ReaderStates /\ moved.pc = reader[r].pc /\ moved.x = x
      /\ moved.level = level /\ moved.view = w /\ moved.node = node
  BY <1>2, <1>6 DEF ReaderStates
<1>9. reader' = [reader EXCEPT ![r] =
              IF SearchOn(r, m) THEN [moved EXCEPT !.x = m]
              ELSE IF level > 0 THEN [moved EXCEPT !.level = level - 1]
              ELSE [moved EXCEPT !.pc = Idle, !.node = SearchResult(r, m)]]
  BY <1>1, <1>5
<1> HIDE DEF x, level, view, node, m, w, moved
<1>10. CASE SearchOn(r, m)
  <2> DEFINE new == [moved EXCEPT !.x = m]
  <2>1. m \in Keys /\ m \in Nodes /\ \A j \in 0..level : InitBy(m, j, w)
    BY <1>5, <1>10 DEF SearchOn, KeyIsAfterNode, Nodes
  <2>2. /\ new \in ReaderStates /\ new.pc = reader[r].pc /\ new.x = m
        /\ new.level = level /\ new.view = w /\ new.node = node
    BY <1>8, <2>1 DEF ReaderStates
  <2>3. reader' = [reader EXCEPT ![r] = new]
    BY <1>9, <1>10
  <2> HIDE DEF new
  <2> QED
    BY <1>3, <1>6, <1>7, <2>1, <2>2, <2>3, ReaderMoves
<1>11. CASE ~SearchOn(r, m) /\ level > 0
  <2> DEFINE new == [moved EXCEPT !.level = level - 1]
  <2>1. level - 1 \in Levels /\ \A j \in 0..(level - 1) : j \in 0..level
    BY <1>2, <1>11 DEF Levels
  <2>2. /\ new \in ReaderStates /\ new.pc = reader[r].pc /\ new.x = x
        /\ new.level = level - 1 /\ new.view = w /\ new.node = node
    BY <1>8, <2>1 DEF ReaderStates
  <2>3. reader' = [reader EXCEPT ![r] = new]
    BY <1>9, <1>11
  <2>4. \A j \in 0..(level - 1) : InitBy(x, j, w)
    BY <1>7, <2>1
  <2> HIDE DEF new
  <2> QED
    BY <1>3, <1>6, <1>7, <2>2, <2>3, <2>4, ReaderMoves
<1>12. CASE ~SearchOn(r, m) /\ ~(level > 0)
  <2> DEFINE new == [moved EXCEPT !.pc = Idle, !.node = SearchResult(r, m)]
  <2>1. 0 \in 0..level
    BY <1>2
  <2>2. \/ SearchResult(r, m) = Null
        \/ SearchResult(r, m) \in Nodes /\ InitBy(SearchResult(r, m), 0, w)
    BY <1>2, <1>5, <1>7, <2>1 DEF SearchResult, Nodes, x
  <2>3. /\ new \in ReaderStates /\ new.pc = Idle /\ new.view = w
        /\ new.node = SearchResult(r, m)
    BY <1>8, <2>2 DEF ReaderStates, Idle
  <2>4. reader' = [reader EXCEPT ![r] = new]
    BY <1>9, <1>12
  <2> HIDE DEF new
  <2>5. new.pc # "fault"
    BY <2>3 DEF Idle
  <2> QED
    BY <1>3, <1>6, <2>2, <2>3, <2>4, <2>5, ReaderMoves
<1> QED
  BY <1>10, <1>11, <1>12

\* iterator::next loads a pointer its view covers.
LEMMA NextEntryInv ==
    ASSUME IInv, NEW r \in Readers, NextEntry(r)
    PROVE  IInv'
<1> DEFINE node == reader[r].node
           view == reader[r].view
<1>1. PICK load \in Loads(node, 0, view) :
        reader' = [reader EXCEPT ![r] =
          IF load.val = Junk THEN [reader[r] EXCEPT !.pc = "fault"]
          ELSE [reader[r] EXCEPT !.node = load.val, !.view = load.view]]
  BY DEF NextEntry
<1> DEFINE m == load.val
           w == load.view
           new == [reader[r] EXCEPT !.node = m, !.view = w]
<1>2. /\ reader[r] \in ReaderStates /\ view \in Nat /\ view \in MaxHeight..Len(stores)
      /\ node \in Nodes \cup {Null} /\ Len(stores) \in Nat /\ MaxHeight \in Nat
  BY ReaderFields
<1>3. /\ UNCHANGED writerVars /\ reader[r].pc = Idle /\ node # Null
      /\ TypeOK /\ Memory /\ ReaderOK(r)
  BY DEF NextEntry, IInv
<1>4. /\ w \in view..Len(stores) /\ m # Junk
      /\ \/ m = Null
         \/ m \in Keys /\ node < m /\ \A j \in 0..0 : InitBy(m, j, w)
  <2>1. InitBy(node, 0, view) /\ view <= Len(stores)
    BY <1>2, <1>3 DEF ReaderOK
  <2> QED
    BY <1>2, <1>3, <2>1, LoadOK, Basics
<1>5. w \in Nat /\ w \in MaxHeight..Len(stores)
  BY <1>2, <1>4
<1>6. m \in Nodes \cup {Null} /\ (m # Null => InitBy(m, 0, w))
  BY <1>4 DEF Nodes
<1>7. new \in ReaderStates /\ new.pc = Idle /\ new.view = w /\ new.node = m
  BY <1>2, <1>3, <1>5, <1>6 DEF ReaderStates
<1>8. reader' = [reader EXCEPT ![r] = new]
  BY <1>1, <1>4
<1>9. new.pc # "fault"
  BY <1>7 DEF Idle
<1> HIDE DEF m, w, new
<1> QED
  BY <1>3, <1>5, <1>6, <1>7, <1>8, <1>9, ReaderMoves

-----------------------------------------------------------------------------
(* The theorems.                                                           *)

\* Every step of the writer and of a reader keeps the invariant.
LEMMA StepInv == IInv /\ [Next]_vars => IInv'
<1> SUFFICES ASSUME IInv, [Next]_vars
             PROVE  IInv'
  OBVIOUS
<1>1. ASSUME NEW k \in Keys, BeginInsert(k)
      PROVE  IInv'
  BY <1>1, BeginInsertInv
<1>2. CASE FindPrev
  BY <1>2, FindPrevInv
<1>3. ASSUME NEW h \in 1..MaxHeight, ChooseHeight(h)
      PROVE  IInv'
  BY <1>3, ChooseHeightInv
<1>4. CASE InitNext
  BY <1>4, InitNextInv
<1>5. CASE Publish
  BY <1>5, PublishInv
<1>6. ASSUME NEW r \in Readers, NEW k \in Keys, Seek(r, k)
      PROVE  IInv'
  BY <1>6, StartSearchInv DEF Seek, Nodes
<1>7. ASSUME NEW r \in Readers, Prev(r)
      PROVE  IInv'
  BY <1>7, StartSearchInv, ReaderFields DEF Prev
<1>8. ASSUME NEW r \in Readers, SeekToLast(r)
      PROVE  IInv'
  BY <1>8, StartSearchInv, Basics DEF SeekToLast
<1>9. ASSUME NEW r \in Readers, SearchStep(r)
      PROVE  IInv'
  BY <1>9, SearchStepInv
<1>10. ASSUME NEW r \in Readers, NextEntry(r)
       PROVE  IInv'
  BY <1>10, NextEntryInv
<1>11. CASE UNCHANGED vars
  <2>1. UNCHANGED <<stores, next, max_height, heights, writer, reader>>
    BY <1>11 DEF vars
  <2> QED
    BY <2>1, MemoryStays, ReadersStay
    DEF IInv, TypeOK, HighLevelsEmpty, BottomFirst, WriterOK, OwnLevels, PrevOK
<1> QED
  BY <1>1, <1>2, <1>3, <1>4, <1>5, <1>6, <1>7, <1>8, <1>9, <1>10, <1>11
  DEF Next, WriterStep, ReaderStep

\* The invariant that ties the history of stores, the writer's position and the
\* readers' views together holds in every reachable state.
THEOREM ListInvariant == Spec => []IInv
BY InitInv, StepInv, PTL DEF Spec

\* The memory, the writer and the readers stay within their types.
THEOREM TypeIsOK == Spec => []TypeOK
<1>1. IInv => TypeOK
  BY DEF IInv
<1> QED
  BY <1>1, ListInvariant, PTL

\* However the readers' loads interleave with insert, and however stale the
\* values they return, none is uninitialized memory.
THEOREM ReadersSafe == Spec => []NoUninitializedLoad
<1>1. IInv => NoUninitializedLoad
  BY DEF IInv, ReaderOK, NoUninitializedLoad
<1> QED
  BY <1>1, ListInvariant, PTL

\* Every pointer that was ever in the list leads to a larger key.
THEOREM PointersSorted == Spec => []AlwaysSorted
<1>1. IInv => AlwaysSorted
  BY DEF IInv, Memory
<1> QED
  BY <1>1, ListInvariant, PTL

-----------------------------------------------------------------------------
(* No key is overlooked: the invariant.                                    *)

\* Store q puts key k into the list at level 0.
Publishes(q, k) == stores[q].level = 0 /\ stores[q].release /\ stores[q].val = k

\* None of the first v stores replaced store p: a load may still return it to a
\* thread that knows of no more than these.
Current(p, v) == \A o \in StoresTo(stores[p].node, stores[p].level) : o <= v => o <= p

\* A pointer that may still be loaded leads no further than any key published by
\* then that lies beyond its node.
NoneSkipped ==
    \A p, q \in DOMAIN stores, k \in Keys :
        stores[p].level = 0 /\ Publishes(q, k) /\ stores[p].node < k /\ Current(p, q)
        => stores[p].val \in Keys /\ stores[p].val <= k

\* The newest value of a pointer is that of its last store.
NewestIsNext ==
    \A n \in Nodes, l \in Levels : next[n][l] # Junk =>
        \E p \in StoresTo(n, l) : next[n][l] = stores[p].val /\ \A q \in StoresTo(n, l) : q <= p

\* A node whose lowest pointer is set has been published, but for the one insert
\* is about to publish.
InitializedListed ==
    \A k \in Keys : next[k][0] # Junk =>
        \/ \E q \in DOMAIN stores : Publishes(q, k)
        \/ k = writer.key /\ writer.pc = "publish" /\ writer.level = 0

\* The writer's node points where its predecessor does; above level 0 it is in
\* the list one level below.
LinkingOK ==
    /\ writer.pc = "publish" =>
         next[writer.key][writer.level] = next[writer.prev[writer.level]][writer.level]
    /\ writer.pc \in {"init", "publish"} /\ writer.level > 0 =>
         \E m \in Nodes : next[m][writer.level - 1] = writer.key

\* A search stands before its target, and its thread has forgotten nothing.
SearchOK(r) ==
    reader[r].pc # Idle =>
        /\ reader[r].start <= reader[r].view
        /\ reader[r].pc # "find_last" =>
             reader[r].x = HeadNode \/ reader[r].x < reader[r].target

History == NoneSkipped /\ NewestIsNext /\ InitializedListed

XInv == LevelsNest /\ LinkingOK /\ History /\ \A r \in Readers : SearchOK(r)

-----------------------------------------------------------------------------
(* Facts about one state.                                                  *)

\* The keys of the list are those some store has published.
LEMMA ListedIsPublished ==
    ASSUME TypeOK, AlwaysSorted, NEW v \in Nat, v <= Len(stores), NEW k \in InListAt(v)
    PROVE  k \in Keys /\ \E q \in DOMAIN stores : q <= v /\ Publishes(q, k)
<1>1. /\ k # Null
      /\ k \in {stores[p].val : p \in {q \in 1..v : stores[q].level = 0 /\ stores[q].release}}
  BY DEF InListAt
<1>2. PICK q \in 1..v : stores[q].level = 0 /\ stores[q].release /\ k = stores[q].val
  BY <1>1
<1>3. stores \in Seq(StoreRecords) /\ Len(stores) \in Nat /\ DOMAIN stores = 1..Len(stores)
  BY DEF TypeOK
<1>4. q \in DOMAIN stores /\ q <= v
  BY <1>2, <1>3
<1>5. k \in Keys
  BY <1>1, <1>2, <1>4 DEF AlwaysSorted
<1> QED
  BY <1>2, <1>4, <1>5 DEF Publishes

\* The newest pointer of a node leads no further than any key of the list.
LEMMA NextSkipsNone ==
    ASSUME IInv, History, NEW x \in Nodes, next[x][0] # Junk,
           NEW q \in DOMAIN stores, NEW k \in Keys, Publishes(q, k), x < k
    PROVE  next[x][0] \in Keys /\ next[x][0] <= k
<1>1. PICK p \in StoresTo(x, 0) : next[x][0] = stores[p].val /\ \A o \in StoresTo(x, 0) : o <= p
  BY Basics DEF History, NewestIsNext
<1>2. p \in DOMAIN stores /\ stores[p].node = x /\ stores[p].level = 0
  BY <1>1 DEF StoresTo
<1>3. Current(p, q)
  BY <1>1, <1>2 DEF Current
<1> QED
  BY <1>1, <1>2, <1>3 DEF History, NoneSkipped

-----------------------------------------------------------------------------
(* One store.                                                              *)

\* A store keeps the order of the list when its value skips no key of the list,
\* and no pointer then in use skips the key it publishes.
LEMMA StoreHistory ==
    ASSUME IInv, History, NEW n \in Nodes, NEW l \in Levels, NEW m \in Keys \cup {Null},
           NEW release \in BOOLEAN,
           stores' = Append(stores, StoreOf(n, l, m, release)),
           next' = [next EXCEPT ![n][l] = m],
           l = 0 => \A q \in DOMAIN stores, k \in Keys :
                      Publishes(q, k) /\ n < k => m \in Keys /\ m <= k,
           l = 0 /\ release => \A x \in Nodes :
                      x # n /\ next[x][0] # Junk /\ x < m => next[x][0] \in Keys /\ next[x][0] <= m
    PROVE  NoneSkipped' /\ NewestIsNext'
<1> DEFINE s == StoreOf(n, l, m, release)
           N == Len(stores)
           After(a, b) == {q \in 1..(N + 1) : stores'[q].node = a /\ stores'[q].level = b}
<1>1. s \in StoreRecords /\ s.node = n /\ s.level = l /\ s.val = m /\ s.release = release
  BY Basics DEF StoreOf, StoreRecords, Nodes
<1> HIDE DEF s
<1>2. /\ stores \in Seq(StoreRecords) /\ stores' = Append(stores, s)
      /\ next \in [Nodes -> [Levels -> Nodes \cup {Null, Junk}]]
      /\ N \in Nat /\ DOMAIN stores = 1..N /\ TypeOK /\ Memory
  BY DEF IInv, TypeOK, s
<1>3. /\ DOMAIN stores' = 1..(N + 1)
      /\ \A p \in 1..N : stores'[p] = stores[p]
      /\ stores'[N + 1] = s
      /\ \A a, b : StoresTo(a, b)' = StoresTo(a, b) \cup
            (IF a = n /\ b = l THEN {N + 1} ELSE {})
      /\ \A a, b : After(a, b) = StoresTo(a, b)'
  <2>1. /\ DOMAIN stores' = 1..(N + 1)
        /\ \A p \in 1..N : stores'[p] = stores[p]
        /\ stores'[N + 1] = s
        /\ \A a, b : StoresTo(a, b)' = StoresTo(a, b) \cup
              (IF a = n /\ b = l THEN {N + 1} ELSE {})
    BY <1>1, <1>2, AppendStores
  <2>2. \A a, b : After(a, b) = StoresTo(a, b)'
    BY <2>1 DEF StoresTo
  <2> QED
    BY <2>1, <2>2
<1>4. \A a, b : StoresTo(a, b) \subseteq 1..N
  BY <1>2 DEF StoresTo
<1>5. \A a \in Nodes, b \in Levels : next'[a][b] = IF a = n /\ b = l THEN m ELSE next[a][b]
  BY <1>2
<1>6. NewestIsNext'
  <2> SUFFICES ASSUME NEW a \in Nodes, NEW b \in Levels, next'[a][b] # Junk
               PROVE  \E p \in StoresTo(a, b)' : /\ next'[a][b] = stores'[p].val
                                                 /\ \A q \in StoresTo(a, b)' : q <= p
    BY DEF NewestIsNext
  <2>1. CASE a = n /\ b = l
    <3>1. N + 1 \in StoresTo(a, b)' /\ next'[a][b] = stores'[N + 1].val
      BY <1>1, <1>3, <1>5, <2>1
    <3>2. \A q \in StoresTo(a, b)' : q <= N + 1
      BY <1>2, <1>3, <1>4
    <3> QED
      BY <3>1, <3>2
  <2>2. CASE ~(a = n /\ b = l)
    <3>1. next'[a][b] = next[a][b] /\ StoresTo(a, b)' = StoresTo(a, b)
      <4>1. \A c, d : StoresTo(c, d)' = StoresTo(c, d) \cup
              (IF c = n /\ d = l THEN {N + 1} ELSE {})
        BY ONLY <1>3
      <4>2. StoresTo(a, b)' = StoresTo(a, b) \cup (IF a = n /\ b = l THEN {N + 1} ELSE {})
        BY ONLY <4>1
      <4>3. StoresTo(a, b)' = StoresTo(a, b)
        BY ONLY <2>2, <4>2
      <4> QED
        BY <1>5, <2>2, <4>3
    <3>2. PICK p \in StoresTo(a, b) : /\ next[a][b] = stores[p].val
                                      /\ \A q \in StoresTo(a, b) : q <= p
      BY <3>1 DEF History, NewestIsNext
    <3>3. stores'[p] = stores[p]
      BY <1>3, <1>4, <3>2
    <3> QED
      BY <3>1, <3>2, <3>3
  <2> QED
    BY <2>1, <2>2
<1>7. NoneSkipped'
  <2> SUFFICES ASSUME NEW p \in 1..(N + 1), NEW q \in 1..(N + 1), NEW k \in Keys,
                      stores'[p].level = 0, stores'[q].level = 0, stores'[q].release,
                      stores'[q].val = k, stores'[p].node < k,
                      \A o \in After(stores'[p].node, 0) : o <= q => o <= p
               PROVE  stores'[p].val \in Keys /\ stores'[p].val <= k
    BY <1>3 DEF NoneSkipped, Publishes, Current, StoresTo
  <2> HIDE DEF After
  <2>1. CASE p = N + 1 /\ q = N + 1
    BY <1>3, <2>1, Basics
  <2>2. CASE p = N + 1 /\ q \in 1..N
    <3>1. l = 0 /\ n < k /\ Publishes(q, k) /\ stores'[p].val = m
      BY <1>1, <1>3, <2>2 DEF Publishes
    <3> QED
      BY <1>2, <2>2, <3>1
  <2>3. CASE p \in 1..N /\ q = N + 1
    <3> DEFINE x == stores[p].node
    <3>1. stores'[p] = stores[p] /\ l = 0 /\ release /\ m = k /\ x < m /\ stores[p].level = 0
      BY <1>1, <1>3, <2>3
    <3>2. \A o \in After(x, 0) : o <= p
      BY <1>2, <1>3, <1>4, <2>3, <3>1
    <3>3. x # n
      <4>1. x = n => N + 1 \in After(x, 0)
        BY <1>3, <3>1
      <4> QED
        BY <1>2, <2>3, <3>2, <4>1
    <3>4. x \in Nodes /\ p \in StoresTo(x, 0)
      <4>1. stores[p] \in StoreRecords
        BY <1>2, <2>3
      <4> QED
        BY <1>2, <2>3, <3>1, <4>1 DEF StoreRecords, StoresTo
    <3>5. stores[p].val # Junk
      <4>1. stores[p].val = Null \/ stores[p].val \in Keys
        BY <1>2, <2>3 DEF Memory, AlwaysSorted
      <4> QED
        BY <4>1, Basics, NullAssumption DEF Nodes
    <3>6. next[x][0] = stores[p].val
      <4>1. next[x][0] # Junk
        BY <1>2, <3>4, Basics DEF Memory, NextInHistory
      <4>2. PICK o \in StoresTo(x, 0) : /\ next[x][0] = stores[o].val
                                        /\ \A i \in StoresTo(x, 0) : i <= o
        BY <3>4, <4>1, Basics DEF History, NewestIsNext
      <4>3. o <= p /\ p <= o /\ o \in 1..N
        BY <1>3, <1>4, <3>2, <3>4, <4>2
      <4> QED
        BY <1>2, <2>3, <4>2, <4>3
    <3> QED
      BY <3>1, <3>3, <3>4, <3>5, <3>6
  <2>4. CASE p \in 1..N /\ q \in 1..N
    <3>1. stores'[p] = stores[p] /\ stores'[q] = stores[q]
      BY <1>3, <2>4
    <3>2. Publishes(q, k) /\ stores[p].level = 0 /\ stores[p].node < k
      BY <3>1 DEF Publishes
    <3>3. Current(p, q)
      BY <1>3, <3>1, <3>2 DEF Current
    <3> QED
      BY <1>2, <2>4, <3>1, <3>2, <3>3 DEF History, NoneSkipped
  <2> QED
    BY <1>2, <2>1, <2>2, <2>3, <2>4
<1> QED
  BY <1>6, <1>7

-----------------------------------------------------------------------------
(* The steps.                                                              *)

\* The constructor establishes the invariant: the list is empty.
LEMMA InitXInv == Init => XInv
<1> SUFFICES ASSUME Init
             PROVE  XInv
  OBVIOUS
<1>1. /\ DOMAIN stores = 1..MaxHeight /\ MaxHeight \in Nat
      /\ \A p \in 1..MaxHeight : stores[p] = StoreOf(HeadNode, p - 1, Null, TRUE)
  BY Basics DEF Init
<1>2. \A p \in 1..MaxHeight : /\ stores[p].node = HeadNode /\ stores[p].level = p - 1
                              /\ stores[p].val = Null
  BY <1>1 DEF StoreOf
<1>3. \A n \in Nodes, l \in Levels : next[n][l] = IF n = HeadNode THEN Null ELSE Junk
  BY DEF Init
<1>4. NoneSkipped
  BY <1>1, <1>2, Basics, NullAssumption DEF NoneSkipped, Publishes, Nodes
<1>5. NewestIsNext
  <2> SUFFICES ASSUME NEW n \in Nodes, NEW l \in Levels, next[n][l] # Junk
               PROVE  \E p \in StoresTo(n, l) : /\ next[n][l] = stores[p].val
                                                /\ \A q \in StoresTo(n, l) : q <= p
    BY DEF NewestIsNext
  <2>1. n = HeadNode /\ next[n][l] = Null
    BY <1>3
  <2>2. l + 1 \in 1..MaxHeight /\ l \in Nat
    BY <1>1 DEF Levels
  <2>3. l + 1 \in StoresTo(n, l)
    BY <1>1, <1>2, <2>1, <2>2 DEF StoresTo
  <2>4. \A q \in StoresTo(n, l) : q <= l + 1
    BY <1>1, <1>2, <2>2 DEF StoresTo
  <2> QED
    BY <1>2, <2>1, <2>2, <2>3, <2>4
<1>6. InitializedListed
  BY <1>3, Basics DEF InitializedListed, Nodes
<1>7. LevelsNest
  BY <1>3, Basics, NullAssumption DEF LevelsNest, Nodes
<1>8. LinkingOK
  BY DEF Init, LinkingOK, NoWriter
<1>9. ASSUME NEW r \in Readers
      PROVE  SearchOK(r)
  BY DEF Init, SearchOK, Idle
<1> QED
  BY <1>4, <1>5, <1>6, <1>7, <1>8, <1>9 DEF XInv, History

\* The history stays in order when nothing is stored.
LEMMA HistoryStays ==
    ASSUME History, UNCHANGED <<stores, next>>, writer.pc # "publish" \/ writer' = writer
    PROVE  History'
<1>1. NoneSkipped' /\ NewestIsNext'
  BY DEF History, NoneSkipped, NewestIsNext, Publishes, Current, StoresTo
<1>2. InitializedListed'
  BY DEF History, InitializedListed, Publishes
<1> QED
  BY <1>1, <1>2 DEF History

\* A step of the writer that stores nothing disturbs nothing of this.
LEMMA NoStoreX ==
    ASSUME XInv, UNCHANGED <<stores, next, reader>>, writer.pc # "publish" \/ writer' = writer,
           LinkingOK'
    PROVE  XInv'
<1>1. History'
  BY HistoryStays DEF XInv
<1>2. LevelsNest'
  BY DEF XInv, LevelsNest
<1>3. \A r \in Readers : SearchOK(r)'
  BY DEF XInv, SearchOK
<1> QED
  BY <1>1, <1>2, <1>3 DEF XInv

LEMMA BeginInsertX ==
    ASSUME IInv, XInv, NEW k \in Keys, BeginInsert(k)
    PROVE  XInv'
<1>1. UNCHANGED <<stores, next, reader>> /\ writer.pc = "idle" /\ writer'.pc = "find"
  BY DEF BeginInsert, NoWriter
<1>2. LinkingOK'
  BY <1>1 DEF LinkingOK
<1> QED
  BY <1>1, <1>2, NoStoreX

LEMMA FindPrevX ==
    ASSUME IInv, XInv, FindPrev
    PROVE  XInv'
<1>1. UNCHANGED <<stores, next, reader>> /\ writer.pc = "find" /\ writer \in WriterStates
  BY DEF FindPrev, IInv, TypeOK
<1>2. writer'.pc \in {"find", "height"}
  BY <1>1 DEF FindPrev, WriterStates
<1>3. LinkingOK'
  BY <1>2 DEF LinkingOK
<1> QED
  BY <1>1, <1>3, NoStoreX

LEMMA ChooseHeightX ==
    ASSUME IInv, XInv, NEW h \in 1..MaxHeight, ChooseHeight(h)
    PROVE  XInv'
<1>1. /\ UNCHANGED <<stores, next, reader>> /\ writer.pc = "height" /\ writer \in WriterStates
      /\ writer.level = 0
  BY DEF ChooseHeight, IInv, TypeOK, WriterOK
<1>2. writer'.pc = "init" /\ writer'.level = 0
  BY <1>1 DEF ChooseHeight, WriterStates
<1>3. LinkingOK'
  BY <1>2 DEF LinkingOK
<1> QED
  BY <1>1, <1>3, NoStoreX

\* The new node is given the rest of the list after its predecessor: every key
\* beyond it, at the level below too.
LEMMA InitNextX ==
    ASSUME IInv, XInv, InitNext
    PROVE  XInv'
<1> DEFINE key == writer.key
           level == writer.level
           before == writer.prev[level]
           after == next[before][level]
<1>1. /\ stores' = Append(stores, StoreOf(key, level, after, FALSE))
      /\ next' = [next EXCEPT ![key][level] = after]
      /\ writer' = [writer EXCEPT !.pc = "publish"]
      /\ UNCHANGED reader /\ writer.pc = "init"
      /\ TypeOK /\ Memory /\ WriterOK /\ History /\ LevelsNest /\ LinkingOK
  BY DEF InitNext, NoBarrierSetNext, IInv, XInv
<1>2. /\ writer \in WriterStates /\ key \in Nodes /\ key \in Nat
      /\ level \in Levels /\ level \in Nat /\ writer.height \in 0..MaxHeight /\ MaxHeight \in Nat
  BY <1>1, WriterFields
<1>3. /\ key \in Keys /\ level < writer.height /\ OwnLevels(0..(level - 1)) /\ PrevOK(level)
  <2>1. level \in level..(writer.height - 1)
    BY <1>1, <1>2 DEF WriterOK
  <2> QED
    BY <1>1, <2>1 DEF WriterOK
<1>4. /\ before \in Nodes /\ before < key /\ before # key
      /\ after # Junk /\ (after # Null => key < after)
  BY <1>2, <1>3, Basics DEF PrevOK
<1>5. after \in Keys \cup {Null}
  BY <1>1, <1>2, <1>4, PointerOK
<1>6. next[key][level] = Junk
  BY <1>2, <1>3 DEF OwnLevels
<1>7. /\ writer'.pc = "publish" /\ writer'.key = key /\ writer'.level = level
      /\ writer'.prev = writer.prev
  BY <1>1, <1>2 DEF WriterStates
<1>8. \A n \in Nodes, l \in Levels :
        next'[n][l] = IF n = key /\ l = level THEN after ELSE next[n][l]
  BY <1>1, <1>2 DEF TypeOK
<1>9. ASSUME level = 0, NEW q \in DOMAIN stores, NEW k \in Keys, Publishes(q, k), key < k
      PROVE  after \in Keys /\ after <= k
  <2>0. before \in Nat /\ k \in Nat
    BY <1>4, Basics
  <2>1. before < k
    BY <1>2, <1>4, <1>9, <2>0
  <2> QED
    BY <1>1, <1>4, <1>9, <2>1, NextSkipsNone
<1>10. NoneSkipped' /\ NewestIsNext'
  <2>1. level = 0 => \A q \in DOMAIN stores, k \in Keys :
                       Publishes(q, k) /\ key < k => after \in Keys /\ after <= k
    BY <1>9
  <2> HIDE DEF after
  <2> QED
    BY <1>1, <1>2, <1>5, <2>1, StoreHistory
<1>11. InitializedListed'
  <2> SUFFICES ASSUME NEW k \in Keys, next'[k][0] # Junk
               PROVE  \/ \E q \in DOMAIN stores' : Publishes(q, k)'
                      \/ k = key /\ level = 0
    BY <1>7 DEF InitializedListed
  <2>1. CASE k = key /\ level = 0
    BY <2>1
  <2>2. CASE ~(k = key /\ level = 0)
    <3>1. next[k][0] # Junk
      BY <1>8, <2>2, Basics DEF Nodes
    <3>2. PICK q \in DOMAIN stores : Publishes(q, k)
      BY <1>1, <3>1 DEF History, InitializedListed
    <3>3. q \in DOMAIN stores' /\ stores'[q] = stores[q]
      <4>1. StoreOf(key, level, after, FALSE) \in StoreRecords
        BY <1>2, <1>5 DEF StoreOf, StoreRecords, Nodes
      <4>2. stores \in Seq(StoreRecords) /\ DOMAIN stores = 1..Len(stores) /\ Len(stores) \in Nat
        BY <1>1 DEF TypeOK
      <4>3. stores' = Append(stores, StoreOf(key, level, after, FALSE))
        BY <1>1
      <4> HIDE DEF after
      <4> QED
        BY SMTT(30), <4>1, <4>2, <4>3, AppendStores
    <3> QED
      BY <3>2, <3>3 DEF Publishes
  <2> QED
    BY <2>1, <2>2
<1>12. LevelsNest'
  <2> SUFFICES ASSUME NEW l \in Levels \ {0}, NEW n \in Nodes, next'[n][l] \in Keys
               PROVE  \E m \in Nodes : next'[m][l - 1] = next'[n][l]
    BY DEF LevelsNest
  <2>1. l \in Levels /\ l - 1 \in Levels /\ l \in Nat /\ l - 1 # l
    BY HeightAssumption DEF Levels
  <2>2. PICK o \in Nodes : next'[n][l] = next[o][l]
    BY <1>4, <1>8, <2>1
  <2>3. PICK m \in Nodes : next[m][l - 1] = next[o][l]
    BY <1>1, <2>2 DEF LevelsNest
  <2>4. ~(m = key /\ l - 1 = level)
    BY <1>6, <2>2, <2>3, Basics, NullAssumption DEF Nodes
  <2>5. next'[m][l - 1] = next[m][l - 1]
    BY <1>8, <2>1, <2>4
  <2> QED
    BY <2>2, <2>3, <2>5
<1>13. LinkingOK'
  <2>1. next'[key][level] = next'[before][level]
    BY <1>2, <1>4, <1>8
  <2>2. ASSUME level > 0
        PROVE  \E m \in Nodes : next'[m][level - 1] = key
    <3>1. PICK m \in Nodes : next[m][level - 1] = key
      BY <1>1, <2>2 DEF LinkingOK
    <3>2. level - 1 \in Levels /\ level - 1 # level
      BY <1>2, <2>2, HeightAssumption DEF Levels
    <3> QED
      BY <1>8, <3>1, <3>2
  <2> QED
    BY <1>7, <2>1, <2>2 DEF LinkingOK
<1>14. \A r \in Readers : SearchOK(r)'
  BY <1>1 DEF XInv, SearchOK
<1> QED
  BY <1>10, <1>11, <1>12, <1>13, <1>14 DEF XInv, History

\* Turned to the new node, the predecessor skips no key; and no other pointer in
\* use skips the new one, for each leads to the predecessor or to a node before it.
LEMMA PublishX ==
    ASSUME IInv, XInv, Publish
    PROVE  XInv'
<1> DEFINE key == writer.key
           level == writer.level
           before == writer.prev[level]
           after == next[before][level]
           N == Len(stores)
<1>1. /\ stores' = Append(stores, StoreOf(before, level, key, TRUE))
      /\ next' = [next EXCEPT ![before][level] = key]
      /\ writer' = IF level + 1 < writer.height
                     THEN [writer EXCEPT !.pc = "init", !.level = level + 1]
                     ELSE NoWriter
      /\ UNCHANGED reader /\ writer.pc = "publish"
      /\ TypeOK /\ Memory /\ WriterOK /\ History /\ LevelsNest /\ LinkingOK
  BY DEF Publish, SetNext, IInv, XInv
<1>2. /\ writer \in WriterStates /\ key \in Nodes /\ key \in Nat
      /\ level \in Levels /\ level \in Nat /\ writer.height \in 0..MaxHeight /\ MaxHeight \in Nat
  BY <1>1, WriterFields
<1>3. /\ key \in Keys /\ level < writer.height /\ OwnLevels(0..level) /\ PrevOK(level)
  <2>1. level \in level..(writer.height - 1)
    BY <1>1, <1>2 DEF WriterOK
  <2> QED
    BY <1>1, <2>1 DEF WriterOK
<1>4. /\ before \in Nodes /\ before < key /\ before # key
      /\ after # Junk /\ (after # Null => key < after)
  BY <1>2, <1>3, Basics DEF PrevOK
<1>5. next[key][level] = after
  BY <1>1 DEF LinkingOK
<1>6. \A n \in Nodes, l \in Levels :
        next'[n][l] = IF n = before /\ l = level THEN key ELSE next[n][l]
  BY <1>1, <1>2, <1>4 DEF TypeOK
<1>7. ASSUME level = 0, NEW q \in DOMAIN stores, NEW k \in Keys, Publishes(q, k), before < k
      PROVE  key \in Keys /\ key <= k
  <2>1. after \in Keys /\ after <= k
    BY <1>1, <1>4, <1>7, NextSkipsNone
  <2>2. key < after
    BY <1>4, <2>1, Basics DEF Nodes
  <2> QED
    BY <1>2, <1>3, <2>1, <2>2, Basics
<1>8. ASSUME level = 0, NEW x \in Nodes, x # before, next[x][0] # Junk, x < key
      PROVE  next[x][0] \in Keys /\ next[x][0] <= key
  <2>0. x \in Nat /\ before \in Nat /\ x # key
    <3>1. x \in Nat /\ before \in Nat
      BY <1>4, Basics
    <3> QED
      BY <1>2, <1>8, <3>1
  <2>1. \A k \in Keys : k # key /\ next[k][0] # Junk => \E q \in DOMAIN stores : Publishes(q, k)
    BY <1>1 DEF History, InitializedListed
  <2>2. CASE x < before
    <3>1. before \in Keys
      BY <1>4, <2>0, <2>2 DEF Nodes, HeadNode
    <3>2. PICK q \in DOMAIN stores : Publishes(q, before)
      BY <1>4, <1>8, <2>1, <3>1
    <3>3. next[x][0] \in Keys /\ next[x][0] <= before
      BY <1>1, <1>8, <2>2, <3>1, <3>2, NextSkipsNone
    <3>4. next[x][0] \in Nat
      BY <3>3, Basics
    <3> QED
      BY <1>2, <1>4, <2>0, <3>3, <3>4
  <2>3. CASE ~(x < before)
    <3>1. before < x
      BY <1>8, <2>0, <2>3
    <3>2. x \in Keys
      BY <2>0, <3>1, <1>8 DEF Nodes, HeadNode
    <3>3. PICK q \in DOMAIN stores : Publishes(q, x)
      BY <1>8, <2>0, <2>1, <3>2
    <3>4. after \in Keys /\ after <= x
      BY <1>1, <1>4, <1>8, <3>1, <3>2, <3>3, NextSkipsNone
    <3>5. key < after
      BY <1>4, <3>4, Basics DEF Nodes
    <3>6. after \in Nat
      BY <3>4, Basics
    <3> QED
      BY <1>2, <1>8, <2>0, <3>4, <3>5, <3>6
  <2> QED
    BY <2>2, <2>3
<1>9. NoneSkipped' /\ NewestIsNext'
  <2>1. level = 0 => \A q \in DOMAIN stores, k \in Keys :
                       Publishes(q, k) /\ before < k => key \in Keys /\ key <= k
    BY <1>7
  <2>2. level = 0 => \A x \in Nodes :
          x # before /\ next[x][0] # Junk /\ x < key => next[x][0] \in Keys /\ next[x][0] <= key
    BY <1>8
  <2>3. key \in Keys \cup {Null} /\ TRUE \in BOOLEAN
    BY <1>3
  <2> HIDE DEF before, key, level
  <2> QED
    BY <1>1, <1>2, <1>4, <2>1, <2>2, <2>3, StoreHistory
<1>10. /\ DOMAIN stores' = 1..(N + 1) /\ N \in Nat /\ DOMAIN stores = 1..N
       /\ \A p \in 1..N : stores'[p] = stores[p]
       /\ stores'[N + 1] = StoreOf(before, level, key, TRUE)
  <2>1. StoreOf(before, level, key, TRUE) \in StoreRecords
    BY <1>2, <1>4 DEF StoreOf, StoreRecords
  <2>2. stores \in Seq(StoreRecords) /\ DOMAIN stores = 1..N /\ N \in Nat
    BY <1>1 DEF TypeOK
  <2> QED
    BY <1>1, <2>1, <2>2, AppendStores
<1>11. InitializedListed'
  <2> SUFFICES ASSUME NEW k \in Keys, next'[k][0] # Junk
               PROVE  \E q \in DOMAIN stores' : Publishes(q, k)'
    BY DEF InitializedListed
  <2>1. CASE k = key /\ level = 0
    <3>1. PICK q \in DOMAIN stores' : q = N + 1
      BY <1>10
    <3>2. stores'[q] = StoreOf(before, level, key, TRUE)
      BY <1>10, <3>1
    <3>3. Publishes(q, k)'
      BY <2>1, <3>2 DEF Publishes, StoreOf
    <3> QED
      BY <3>1, <3>3
  <2>2. CASE ~(k = key /\ level = 0)
    <3>1. next[k][0] # Junk
      <4>1. k \in Nodes /\ 0 \in Levels
        BY Basics DEF Nodes
      <4>2. k = before /\ level = 0 => next[k][0] # Junk
        BY <1>4
      <4> QED
        BY <1>6, <4>1, <4>2
    <3>2. PICK q \in DOMAIN stores : Publishes(q, k)
      BY <1>1, <2>2, <3>1 DEF History, InitializedListed
    <3>3. q \in DOMAIN stores' /\ stores'[q] = stores[q]
      BY <1>10
    <3> QED
      BY <3>2, <3>3 DEF Publishes
  <2> QED
    BY <2>1, <2>2
<1>12. LevelsNest'
  <2> SUFFICES ASSUME NEW l \in Levels \ {0}, NEW n \in Nodes, next'[n][l] \in Keys
               PROVE  \E m \in Nodes : next'[m][l - 1] = next'[n][l]
    BY DEF LevelsNest
  <2>1. l \in Levels /\ l - 1 \in Levels /\ l \in Nat /\ l - 1 # l /\ l > 0
    BY HeightAssumption DEF Levels
  <2>2. CASE n = before /\ l = level
    <3>1. next'[n][l] = key
      BY <1>6, <2>1, <2>2
    <3>2. PICK m \in Nodes : next[m][level - 1] = key
      BY <1>1, <2>1, <2>2 DEF LinkingOK
    <3>3. next'[m][l - 1] = key
      BY <1>6, <2>1, <2>2, <3>2
    <3> QED
      BY <3>1, <3>3
  <2>3. CASE ~(n = before /\ l = level)
    <3>1. next'[n][l] = next[n][l]
      BY <1>6, <2>1, <2>3
    <3>2. PICK m \in Nodes : next[m][l - 1] = next[n][l]
      BY <1>1, <3>1 DEF LevelsNest
    <3>3. CASE m = before /\ l - 1 = level
      <4>1. next'[key][level] = next[key][level]
        BY <1>2, <1>4, <1>6
      <4> QED
        BY <1>2, <1>5, <3>1, <3>2, <3>3, <4>1
    <3>4. CASE ~(m = before /\ l - 1 = level)
      BY <1>6, <2>1, <3>1, <3>2, <3>4
    <3> QED
      BY <3>3, <3>4
  <2> QED
    BY <2>2, <2>3
<1>13. LinkingOK'
  <2>1. CASE level + 1 < writer.height
    <3>1. writer'.pc = "init" /\ writer'.level = level + 1 /\ writer'.key = key
      BY <1>1, <1>2, <2>1 DEF WriterStates
    <3>2. next'[before][level] = key /\ (level + 1) - 1 = level
      BY <1>2, <1>4, <1>6
    <3> QED
      BY <1>4, <3>1, <3>2 DEF LinkingOK
  <2>2. CASE ~(level + 1 < writer.height)
    <3>1. writer'.pc = "idle"
      BY <1>1, <2>2 DEF NoWriter
    <3> QED
      BY <3>1 DEF LinkingOK
  <2> QED
    BY <2>1, <2>2
<1>14. \A r \in Readers : SearchOK(r)'
  BY <1>1 DEF XInv, SearchOK
<1> QED
  BY <1>9, <1>11, <1>12, <1>13, <1>14 DEF XInv, History

\* A reader's step disturbs nothing but its own search.
LEMMA ReaderMovesX ==
    ASSUME IInv, XInv, NEW r \in Readers, NEW new,
           UNCHANGED writerVars, reader' = [reader EXCEPT ![r] = new],
           new.pc # Idle =>
               /\ new.start <= new.view
               /\ new.pc # "find_last" => new.x = HeadNode \/ new.x < new.target
    PROVE  XInv'
<1>1. /\ UNCHANGED <<stores, next, max_height, heights, writer>>
      /\ reader \in [Readers -> ReaderStates]
  BY DEF IInv, writerVars, TypeOK
<1>2. History' /\ LevelsNest' /\ LinkingOK'
  BY <1>1, HistoryStays DEF XInv, LevelsNest, LinkingOK
<1>3. ASSUME NEW q \in Readers
      PROVE  SearchOK(q)'
  <2>1. CASE q = r
    <3>1. reader'[q] = new
      BY <1>1, <2>1
    <3> QED
      BY <3>1 DEF SearchOK
  <2>2. CASE q # r
    <3>1. reader'[q] = reader[q]
      BY <1>1, <2>2
    <3> QED
      BY <3>1 DEF SearchOK, XInv
  <2> QED
    BY <2>1, <2>2
<1> QED
  BY <1>2, <1>3 DEF XInv

LEMMA StartSearchX ==
    ASSUME IInv, XInv, NEW r \in Readers, NEW target \in Nodes,
           NEW search \in {"find_greater_or_equal", "find_less_than", "find_last"},
           StartSearch(r, search, target)
    PROVE  XInv'
<1>1. PICK h \in heights, v \in reader[r].view..Len(stores) :
        reader' = [reader EXCEPT ![r] =
          [reader[r] EXCEPT !.pc = search, !.target = target, !.x = HeadNode,
                            !.level = h - 1, !.view = v, !.start = v]]
  BY DEF StartSearch
<1> DEFINE new == [reader[r] EXCEPT !.pc = search, !.target = target, !.x = HeadNode,
                                    !.level = h - 1, !.view = v, !.start = v]
<1>2. reader[r] \in ReaderStates /\ reader[r].view \in Nat /\ Len(stores) \in Nat
  BY ReaderFields
<1>3. new.start = v /\ new.view = v /\ new.x = HeadNode /\ v <= v
  BY <1>2 DEF ReaderStates
<1>4. UNCHANGED writerVars /\ reader' = [reader EXCEPT ![r] = new]
  BY <1>1 DEF StartSearch
<1> HIDE DEF new
<1> QED
  BY <1>3, <1>4, ReaderMovesX

\* What one iteration of a search does, and what it has loaded: a pointer that
\* skips no key the reader's view holds.
LEMMA SearchLoads ==
    ASSUME IInv, XInv, NEW r \in Readers, SearchStep(r)
    PROVE  \E load \in Loads(reader[r].x, reader[r].level, reader[r].view) :
             LET m == load.val
                 moved == [reader[r] EXCEPT !.view = load.view]
             IN  /\ m \in Keys \cup {Null} /\ m # Junk
                 /\ load.view \in Nat /\ reader[r].view <= load.view
                 /\ reader' = [reader EXCEPT ![r] =
                      IF SearchOn(r, m) THEN [moved EXCEPT !.x = m]
                      ELSE IF reader[r].level > 0 THEN [moved EXCEPT !.level = reader[r].level - 1]
                      ELSE [moved EXCEPT !.pc = Idle, !.node = SearchResult(r, m)]]
<1> DEFINE x == reader[r].x
           level == reader[r].level
           view == reader[r].view
<1>1. PICK load \in Loads(x, level, view) :
        LET m == load.val
            moved == [reader[r] EXCEPT !.view = load.view]
        IN  reader' = [reader EXCEPT ![r] =
              IF m = Junk THEN [moved EXCEPT !.pc = "fault"]
              ELSE IF SearchOn(r, m) THEN [moved EXCEPT !.x = m]
              ELSE IF level > 0 THEN [moved EXCEPT !.level = moved.level - 1]
              ELSE [moved EXCEPT !.pc = Idle, !.node = SearchResult(r, m)]]
  BY DEF SearchStep
<1>2. /\ reader[r] \in ReaderStates /\ x \in Nodes /\ level \in Levels /\ level \in Nat
      /\ view \in Nat /\ view \in MaxHeight..Len(stores) /\ Len(stores) \in Nat
  BY ReaderFields
<1>3. reader[r].pc # Idle /\ TypeOK /\ Memory /\ ReaderOK(r)
  BY DEF SearchStep, IInv
<1>4. InitBy(x, level, view) /\ view <= Len(stores)
  <2>1. level \in 0..level
    BY <1>2
  <2> QED
    BY <1>2, <1>3, <2>1 DEF ReaderOK
<1>5. /\ load.view \in view..Len(stores) /\ load.val # Junk
      /\ load.val = Null \/ load.val \in Keys
  BY <1>2, <1>3, <1>4, LoadOK
<1>6. load.view \in Nat /\ view <= load.view
  BY <1>2, <1>5
<1>7. [reader[r] EXCEPT !.view = load.view].level = level
  BY <1>2 DEF ReaderStates
<1> QED
  BY <1>1, <1>5, <1>6, <1>7

LEMMA SearchStepX ==
    ASSUME IInv, XInv, NEW r \in Readers, SearchStep(r)
    PROVE  XInv'
<1>1. PICK load \in Loads(reader[r].x, reader[r].level, reader[r].view) :
        LET m == load.val
            moved == [reader[r] EXCEPT !.view = load.view]
        IN  /\ m \in Keys \cup {Null} /\ m # Junk
            /\ load.view \in Nat /\ reader[r].view <= load.view
            /\ reader' = [reader EXCEPT ![r] =
                 IF SearchOn(r, m) THEN [moved EXCEPT !.x = m]
                 ELSE IF reader[r].level > 0 THEN [moved EXCEPT !.level = reader[r].level - 1]
                 ELSE [moved EXCEPT !.pc = Idle, !.node = SearchResult(r, m)]]
  BY SearchLoads
<1> DEFINE m == load.val
           moved == [reader[r] EXCEPT !.view = load.view]
<1>2. /\ reader[r] \in ReaderStates /\ reader[r].view \in Nat
      /\ UNCHANGED writerVars /\ reader[r].pc # Idle /\ SearchOK(r)
  BY ReaderFields DEF SearchStep, XInv
<1>3. /\ moved.pc = reader[r].pc /\ moved.x = reader[r].x /\ moved.view = load.view
      /\ moved.start = reader[r].start /\ moved.target = reader[r].target
      /\ moved \in ReaderStates
  BY <1>1, <1>2 DEF ReaderStates
<1>4. reader[r].start \in Nat /\ reader[r].start <= load.view
  BY <1>1, <1>2 DEF ReaderStates, SearchOK
<1>5. reader' = [reader EXCEPT ![r] =
                 IF SearchOn(r, m) THEN [moved EXCEPT !.x = m]
                 ELSE IF reader[r].level > 0 THEN [moved EXCEPT !.level = reader[r].level - 1]
                 ELSE [moved EXCEPT !.pc = Idle, !.node = SearchResult(r, m)]]
  BY <1>1
<1> HIDE DEF m, moved
<1>6. CASE SearchOn(r, m)
  <2> DEFINE new == [moved EXCEPT !.x = m]
  <2>1. /\ new.pc = reader[r].pc /\ new.start = reader[r].start /\ new.view = load.view
        /\ new.x = m /\ new.target = reader[r].target
    BY <1>3 DEF ReaderStates
  <2>2. new.pc # "find_last" => new.x < new.target
    BY <1>6, <2>1 DEF SearchOn, KeyIsAfterNode
  <2>3. reader' = [reader EXCEPT ![r] = new]
    BY <1>5, <1>6
  <2> HIDE DEF new
  <2> QED
    BY <1>2, <1>4, <2>1, <2>2, <2>3, ReaderMovesX
<1>7. CASE ~SearchOn(r, m) /\ reader[r].level > 0
  <2> DEFINE new == [moved EXCEPT !.level = reader[r].level - 1]
  <2>1. /\ new.pc = reader[r].pc /\ new.start = reader[r].start /\ new.view = load.view
        /\ new.x = reader[r].x /\ new.target = reader[r].target
    BY <1>3 DEF ReaderStates
  <2>2. reader' = [reader EXCEPT ![r] = new]
    BY <1>5, <1>7
  <2> HIDE DEF new
  <2>3. new.pc # "find_last" => new.x = HeadNode \/ new.x < new.target
    BY <1>2, <2>1 DEF SearchOK
  <2> QED
    BY <1>2, <1>4, <2>1, <2>2, <2>3, ReaderMovesX
<1>8. CASE ~SearchOn(r, m) /\ ~(reader[r].level > 0)
  <2> DEFINE new == [moved EXCEPT !.pc = Idle, !.node = SearchResult(r, m)]
  <2>1. new.pc = Idle
    BY <1>3 DEF ReaderStates
  <2>2. reader' = [reader EXCEPT ![r] = new]
    BY <1>5, <1>8
  <2> HIDE DEF new
  <2> QED
    BY <1>2, <2>1, <2>2, ReaderMovesX
<1> QED
  BY <1>6, <1>7, <1>8

LEMMA NextEntryX ==
    ASSUME IInv, XInv, NEW r \in Readers, NextEntry(r)
    PROVE  XInv'
<1>1. PICK load \in Loads(reader[r].node, 0, reader[r].view) :
        reader' = [reader EXCEPT ![r] =
          IF load.val = Junk THEN [reader[r] EXCEPT !.pc = "fault"]
          ELSE [reader[r] EXCEPT !.node = load.val, !.view = load.view]]
  BY DEF NextEntry
<1> DEFINE new == [reader[r] EXCEPT !.node = load.val, !.view = load.view]
<1>2. /\ reader[r] \in ReaderStates /\ UNCHANGED writerVars /\ reader[r].pc = Idle
      /\ reader[r].node # Null /\ reader[r].node \in Nodes
      /\ reader[r].view \in Nat /\ reader[r].view <= Len(stores)
      /\ TypeOK /\ Memory /\ ReaderOK(r)
  BY ReaderFields DEF NextEntry, IInv
<1>3. load.val # Junk
  BY <1>2, LoadOK, Basics DEF ReaderOK
<1>4. new.pc = Idle /\ reader' = [reader EXCEPT ![r] = new]
  BY <1>1, <1>2, <1>3 DEF ReaderStates
<1> HIDE DEF new
<1> QED
  BY <1>2, <1>4, ReaderMovesX

LEMMA StepXInv == IInv /\ XInv /\ [Next]_vars => XInv'
<1> SUFFICES ASSUME IInv, XInv, [Next]_vars
             PROVE  XInv'
  OBVIOUS
<1>1. ASSUME NEW k \in Keys, BeginInsert(k)
      PROVE  XInv'
  BY <1>1, BeginInsertX
<1>2. CASE FindPrev
  BY <1>2, FindPrevX
<1>3. ASSUME NEW h \in 1..MaxHeight, ChooseHeight(h)
      PROVE  XInv'
  BY <1>3, ChooseHeightX
<1>4. CASE InitNext
  BY <1>4, InitNextX
<1>5. CASE Publish
  BY <1>5, PublishX
<1>6. ASSUME NEW r \in Readers, NEW k \in Keys, Seek(r, k)
      PROVE  XInv'
  BY <1>6, StartSearchX DEF Seek, Nodes
<1>7. ASSUME NEW r \in Readers, Prev(r)
      PROVE  XInv'
  BY <1>7, StartSearchX, ReaderFields DEF Prev
<1>8. ASSUME NEW r \in Readers, SeekToLast(r)
      PROVE  XInv'
  BY <1>8, StartSearchX, Basics DEF SeekToLast
<1>9. ASSUME NEW r \in Readers, SearchStep(r)
      PROVE  XInv'
  BY <1>9, SearchStepX
<1>10. ASSUME NEW r \in Readers, NextEntry(r)
       PROVE  XInv'
  BY <1>10, NextEntryX
<1>11. CASE UNCHANGED vars
  <2>1. UNCHANGED <<stores, next, max_height, heights, writer, reader>>
    BY <1>11 DEF vars
  <2> QED
    BY <2>1, NoStoreX DEF XInv, LinkingOK
<1> QED
  BY <1>1, <1>2, <1>3, <1>4, <1>5, <1>6, <1>7, <1>8, <1>9, <1>10, <1>11
  DEF Next, WriterStep, ReaderStep

\* The order of the history of stores holds in every reachable state.
THEOREM HistoryInvariant == Spec => [](IInv /\ XInv)
<1>1. Init => IInv /\ XInv
  BY InitInv, InitXInv
<1>2. IInv /\ XInv /\ [Next]_vars => (IInv /\ XInv)'
  BY StepInv, StepXInv
<1> QED
  BY <1>1, <1>2, PTL DEF Spec

\* A node linked at some level is linked at every lower one, but for the node
\* insert is linking.
THEOREM ListLevelsNest == Spec => []LevelsNest
<1>1. XInv => LevelsNest
  BY DEF XInv
<1> QED
  BY <1>1, HistoryInvariant, PTL

-----------------------------------------------------------------------------
(* What a search and a step of an iterator find.                           *)

\* A load skips no key that was in the list when the thread's view was made.
LEMMA LoadSkipsNone ==
    ASSUME IInv, XInv, NEW x \in Nodes, NEW v \in Nat, v <= Len(stores), InitBy(x, 0, v),
           NEW load \in Loads(x, 0, v), NEW w \in Nat, w <= v, NEW k \in InListAt(w), x < k
    PROVE  k \in Keys /\ load.val \in Keys /\ load.val <= k
<1>1. /\ TypeOK /\ AlwaysSorted /\ NoneSkipped
      /\ stores \in Seq(StoreRecords) /\ Len(stores) \in Nat /\ DOMAIN stores = 1..Len(stores)
  BY DEF IInv, XInv, Memory, History, TypeOK
<1>2. k \in Keys /\ \E q \in DOMAIN stores : q <= w /\ Publishes(q, k)
  BY <1>1, ListedIsPublished
<1>3. PICK q \in DOMAIN stores : q <= w /\ Publishes(q, k)
  BY <1>2
<1> DEFINE fresh == {p \in StoresTo(x, 0) : \A o \in StoresTo(x, 0) : o <= v => o <= p}
<1>4. PICK p \in fresh : load.val = stores[p].val
  BY DEF Loads, InitBy
<1>5. p \in DOMAIN stores /\ stores[p].node = x /\ stores[p].level = 0
  BY <1>4 DEF StoresTo
<1>6. Current(p, q)
  <2>1. \A o \in StoresTo(x, 0) : o \in Nat
    BY <1>1 DEF StoresTo
  <2>2. \A o \in StoresTo(x, 0) : o <= q => o <= v
    BY <1>1, <1>3, <2>1
  <2> QED
    BY <1>4, <1>5, <2>2 DEF Current
<1> QED
  BY <1>1, <1>2, <1>3, <1>4, <1>5, <1>6 DEF NoneSkipped

\* What the end of a search promises of its result.
Found(r) ==
    LET found == reader'[r].node
        target == reader[r].target
        there == InListAt(reader[r].start)
    IN CASE reader[r].pc = "find_greater_or_equal" ->
              /\ found # Null => found \in Keys /\ found >= target
              /\ \A k \in there : k >= target => found # Null /\ found <= k
         [] reader[r].pc = "find_less_than" ->
              /\ found # Null => found \in Keys /\ found < target
              /\ \A k \in there : k < target => found # Null /\ k <= found
         [] OTHER -> \A k \in there : found # Null /\ k <= found

\* The node the search stopped at and the pointer that stopped it enclose the
\* place of the target, and no key lies between them.
LEMMA SearchFinds ==
    ASSUME IInv, XInv, NEW r \in Readers, SearchStep(r), reader'[r].pc = Idle
    PROVE  Found(r)
<1> DEFINE x == reader[r].x
           view == reader[r].view
           start == reader[r].start
           target == reader[r].target
           pc == reader[r].pc
<1>1. PICK load \in Loads(x, reader[r].level, view) :
        LET m == load.val
            moved == [reader[r] EXCEPT !.view = load.view]
        IN  /\ m \in Keys \cup {Null} /\ m # Junk
            /\ load.view \in Nat /\ view <= load.view
            /\ reader' = [reader EXCEPT ![r] =
                 IF SearchOn(r, m) THEN [moved EXCEPT !.x = m]
                 ELSE IF reader[r].level > 0 THEN [moved EXCEPT !.level = reader[r].level - 1]
                 ELSE [moved EXCEPT !.pc = Idle, !.node = SearchResult(r, m)]]
  BY SearchLoads
<1> DEFINE m == load.val
           moved == [reader[r] EXCEPT !.view = load.view]
<1>2. /\ reader[r] \in ReaderStates /\ x \in Nodes /\ target \in Nodes /\ view \in Nat
      /\ reader[r].level \in Nat /\ view <= Len(stores) /\ Len(stores) \in Nat
      /\ reader \in [Readers -> ReaderStates]
  BY ReaderFields DEF IInv, TypeOK
<1>3. pc # Idle /\ pc # "fault" /\ SearchOK(r) /\ ReaderOK(r)
  BY DEF SearchStep, XInv, IInv
<1>4. pc \in {"find_greater_or_equal", "find_less_than", "find_last"}
  BY <1>2, <1>3 DEF ReaderStates, Idle
<1>5. start \in Nat /\ start <= view /\ (pc # "find_last" => x = HeadNode \/ x < target)
  BY <1>2, <1>3 DEF ReaderStates, SearchOK
<1>6. ~SearchOn(r, m) /\ reader[r].level = 0 /\ reader'[r].node = SearchResult(r, m)
  <2>1. moved.pc = pc /\ moved \in ReaderStates
    BY <1>1, <1>2 DEF ReaderStates
  <2>2. reader'[r] = IF SearchOn(r, m) THEN [moved EXCEPT !.x = m]
                     ELSE IF reader[r].level > 0
                            THEN [moved EXCEPT !.level = reader[r].level - 1]
                     ELSE [moved EXCEPT !.pc = Idle, !.node = SearchResult(r, m)]
    BY <1>1, <1>2
  <2>3. ~SearchOn(r, m)
    BY <1>3, <2>1, <2>2 DEF ReaderStates
  <2>4. ~(reader[r].level > 0)
    BY <1>3, <2>1, <2>2, <2>3 DEF ReaderStates
  <2>5. reader'[r] = [moved EXCEPT !.pc = Idle, !.node = SearchResult(r, m)]
    BY <2>2, <2>3, <2>4
  <2> QED
    BY <1>2, <2>1, <2>3, <2>4, <2>5 DEF ReaderStates
<1>7. InitBy(x, 0, view)
  BY <1>3, <1>6 DEF ReaderOK
<1>8. ASSUME NEW k \in InListAt(start), x < k
      PROVE  m \in Keys /\ m <= k
  BY <1>1, <1>2, <1>5, <1>6, <1>7, <1>8, LoadSkipsNone
<1>9. /\ x \in Nat /\ target \in Nat /\ m \in Keys \cup {Null}
      /\ \A k \in InListAt(start) : k \in Keys /\ k \in Nat /\ k > HeadNode
  <2>1. start <= Len(stores) /\ TypeOK /\ AlwaysSorted
    BY <1>2, <1>5 DEF IInv, Memory
  <2>2. \A k \in InListAt(start) : k \in Keys
    BY <1>5, <2>1, ListedIsPublished
  <2> QED
    BY <1>1, <1>2, <2>2, Basics
<1>10. Null \notin Nodes /\ Keys \subseteq Nat /\ Keys \subseteq Nodes /\ HeadNode = 0
  BY Basics DEF Nodes
<1> HIDE DEF m, x, start, target, view
<1>11. CASE pc = "find_greater_or_equal"
  <2>1. reader'[r].node = m /\ (m # Null => m >= target)
    BY <1>6, <1>9, <1>10, <1>11 DEF SearchResult, SearchOn, KeyIsAfterNode, target
  <2>2. ASSUME NEW k \in InListAt(start), k >= target
        PROVE  m # Null /\ m <= k
    <3>1. x < k
      BY <1>5, <1>9, <1>10, <1>11, <2>2
    <3> QED
      BY <1>8, <1>10, <3>1
  <2> QED
    BY <1>9, <1>11, <2>1, <2>2 DEF Found, start, target
<1>12. CASE pc = "find_less_than"
  <2>1. reader'[r].node = IF x = HeadNode THEN Null ELSE x
    BY <1>6, <1>12 DEF SearchResult, x
  <2>2. x # HeadNode => x \in Keys /\ x < target
    BY <1>2, <1>5, <1>12 DEF Nodes
  <2>3. ASSUME NEW k \in InListAt(start), k < target
        PROVE  k <= x
    <3>1. CASE x < k
      <4>1. m \in Keys /\ m <= k
        BY <1>8, <3>1
      <4>2. m \in Nat /\ k \in Nat
        BY <1>9, <1>10, <4>1
      <4>3. m # Null /\ m < target
        BY <1>9, <1>10, <2>3, <4>1, <4>2
      <4> QED
        BY <1>6, <1>12, <4>3 DEF SearchOn, KeyIsAfterNode, target
    <3> QED
      BY <1>9, <3>1
  <2>4. ASSUME NEW k \in InListAt(start), k < target
        PROVE  reader'[r].node # Null /\ k <= reader'[r].node
    BY <1>9, <1>10, <2>1, <2>2, <2>3, <2>4
  <2>5. reader'[r].node # Null => reader'[r].node \in Keys /\ reader'[r].node < target
    BY <2>1, <2>2
  <2> QED
    BY <1>12, <2>4, <2>5 DEF Found, start, target
<1>13. CASE pc = "find_last"
  <2>1. reader'[r].node = (IF x = HeadNode THEN Null ELSE x) /\ m = Null
    BY <1>6, <1>13 DEF SearchResult, SearchOn, x
  <2>2. ASSUME NEW k \in InListAt(start)
        PROVE  reader'[r].node # Null /\ k <= reader'[r].node
    <3>1. ~(x < k)
      BY <1>8, <1>10, <2>1, <2>2
    <3>2. k <= x /\ x # HeadNode
      BY <1>9, <1>10, <2>2, <3>1
    <3>3. reader'[r].node = x /\ x # Null
      BY <1>2, <1>10, <2>1, <3>2
    <3> QED
      BY <3>2, <3>3
  <2> QED
    BY <1>13, <2>2 DEF Found, start
<1> QED
  BY <1>4, <1>11, <1>12, <1>13

\* What a step of an iterator promises of the node it moves to.
Moved(r) ==
    \A k \in InListAt(reader[r].view) :
        k > reader[r].node => reader'[r].node # Null /\ reader[r].node < reader'[r].node
                              /\ reader'[r].node <= k

LEMMA NextEntryMoves ==
    ASSUME IInv, XInv, NEW r \in Readers, NextEntry(r), reader'[r].pc = Idle
    PROVE  Moved(r)
<1>1. PICK load \in Loads(reader[r].node, 0, reader[r].view) :
        reader' = [reader EXCEPT ![r] =
          IF load.val = Junk THEN [reader[r] EXCEPT !.pc = "fault"]
          ELSE [reader[r] EXCEPT !.node = load.val, !.view = load.view]]
  BY DEF NextEntry
<1>2. /\ reader[r] \in ReaderStates /\ reader[r].node # Null /\ reader[r].node \in Nodes
      /\ reader[r].view \in Nat /\ reader[r].view <= Len(stores)
      /\ TypeOK /\ Memory /\ ReaderOK(r) /\ reader \in [Readers -> ReaderStates]
  BY ReaderFields DEF NextEntry, IInv, TypeOK
<1>3. InitBy(reader[r].node, 0, reader[r].view)
  BY <1>2 DEF ReaderOK
<1>4. /\ load.val # Junk
      /\ load.val = Null \/ (load.val \in Keys /\ reader[r].node < load.val)
  BY <1>2, <1>3, LoadOK, Basics
<1>5. reader'[r].node = load.val
  <2>1. reader'[r] = [reader[r] EXCEPT !.node = load.val, !.view = load.view]
    BY <1>1, <1>2, <1>4
  <2> QED
    BY <1>2, <2>1 DEF ReaderStates
<1> SUFFICES ASSUME NEW k \in InListAt(reader[r].view), k > reader[r].node
             PROVE  /\ reader'[r].node # Null /\ reader[r].node < reader'[r].node
                    /\ reader'[r].node <= k
  BY DEF Moved
<1>6. load.val \in Keys /\ load.val <= k
  BY <1>2, <1>3, LoadSkipsNone
<1>7. load.val # Null
  BY <1>6, Basics DEF Nodes
<1> QED
  BY <1>4, <1>5, <1>6, <1>7

-----------------------------------------------------------------------------
\* A step that leaves a reader alone.
LEMMA OthersStay ==
    ASSUME IInv, NEW q \in Readers, NEW r \in Readers, ReaderStep(q), q # r
    PROVE  reader'[r] = reader[r]
<1>1. reader \in [Readers -> ReaderStates]
  BY DEF IInv, TypeOK
<1> QED
  BY <1>1 DEF ReaderStep, Seek, Prev, SeekToLast, StartSearch, SearchStep, NextEntry

\* A step that starts a search.
LEMMA StartIsNotIdle ==
    ASSUME IInv, NEW r \in Readers, (\E k \in Keys : Seek(r, k)) \/ Prev(r) \/ SeekToLast(r)
    PROVE  reader[r].pc = Idle /\ reader'[r].pc # Idle
<1>1. reader \in [Readers -> ReaderStates]
  BY DEF IInv, TypeOK
<1>2. PICK search \in {"find_greater_or_equal", "find_less_than", "find_last"},
           target \in Nodes : StartSearch(r, search, target)
  BY ReaderFields, Basics DEF Seek, Prev, SeekToLast, Nodes
<1>3. reader[r].pc = Idle /\ reader[r] \in ReaderStates
  BY <1>1, <1>2 DEF StartSearch
<1>4. PICK h \in heights, v \in reader[r].view..Len(stores) :
        reader'[r] = [reader[r] EXCEPT !.pc = search, !.target = target, !.x = HeadNode,
                                       !.level = h - 1, !.view = v, !.start = v]
  BY <1>1, <1>2 DEF StartSearch
<1>5. reader'[r].pc = search
  BY <1>3, <1>4 DEF ReaderStates
<1> QED
  BY <1>3, <1>5 DEF Idle

\* Whatever the writer links while a search runs, and however stale the pointers
\* the search loads, it ends at the right place among the keys that were in the
\* list when it began.
THEOREM SearchesExact == Spec => SearchExact
<1>1. ASSUME IInv, XInv, [Next]_vars, NEW r \in Readers,
             reader[r].pc \notin {Idle, "fault"}, reader'[r].pc = Idle
      PROVE  Found(r)
  <2>1. reader'[r] # reader[r]
    BY <1>1
  <2>2. PICK q \in Readers : ReaderStep(q)
    BY <1>1, <2>1
    DEF Next, WriterStep, BeginInsert, FindPrev, ChooseHeight, InitNext, Publish, vars
  <2>3. q = r
    BY <1>1, <2>1, <2>2, OthersStay
  <2>4. SearchStep(r) \/ NextEntry(r)
    BY <1>1, <2>2, <2>3, StartIsNotIdle DEF ReaderStep
  <2>5. SearchStep(r)
    BY <1>1, <2>4 DEF NextEntry
  <2> QED
    BY <1>1, <2>5, SearchFinds
<1>2. IInv /\ XInv /\ [Next]_vars =>
        [\A r \in Readers :
           /\ reader[r].pc \notin {Idle, "fault"} /\ reader'[r].pc = Idle
           => Found(r)]_vars
  BY <1>1
<1> QED
  BY <1>2, HistoryInvariant, PTL DEF Spec, SearchExact, Found

\* An iterator's step goes to a larger key and skips none its thread knows of.
THEOREM IterationsExact == Spec => IterationExact
<1>1. ASSUME IInv, XInv, [Next]_vars, NEW r \in Readers,
             reader[r].pc = Idle, reader'[r].pc = Idle, reader'[r].node # reader[r].node
      PROVE  Moved(r)
  <2>1. reader'[r] # reader[r]
    BY <1>1
  <2>2. PICK q \in Readers : ReaderStep(q)
    BY <1>1, <2>1
    DEF Next, WriterStep, BeginInsert, FindPrev, ChooseHeight, InitNext, Publish, vars
  <2>3. q = r
    BY <1>1, <2>1, <2>2, OthersStay
  <2>4. SearchStep(r) \/ NextEntry(r)
    BY <1>1, <2>2, <2>3, StartIsNotIdle DEF ReaderStep
  <2>5. NextEntry(r)
    BY <1>1, <2>4 DEF SearchStep
  <2> QED
    BY <1>1, <2>5, NextEntryMoves
<1>2. IInv /\ XInv /\ [Next]_vars =>
        [\A r \in Readers :
           reader[r].pc = Idle /\ reader'[r].pc = Idle /\ reader'[r].node # reader[r].node
           => Moved(r)]_vars
  BY <1>1
<1> QED
  BY <1>2, HistoryInvariant, PTL DEF Spec, IterationExact, Moved

-----------------------------------------------------------------------------
(* The arena.                                                              *)

Regions == [block : Nat, start : Nat, bytes : Sizes]
Arenas == [blocks : Seq(Nat), block : Nat, alloc_ptr : Nat, alloc_bytes_remaining : Nat,
           memory_usage : Nat, handed : Seq(Regions)]

\* What is left of the current block lies between alloc_ptr and the block's end.
CurrentBlock(a) ==
    /\ a.block = 0 => a.alloc_ptr = 0 /\ a.alloc_bytes_remaining = 0
    /\ a.block # 0 => /\ a.block \in DOMAIN a.blocks
                      /\ a.alloc_ptr + a.alloc_bytes_remaining = a.blocks[a.block]

\* Nothing was handed out from there.
HandedBefore(a) ==
    \A i \in DOMAIN a.handed : a.handed[i].block = a.block => End(a.handed[i]) <= a.alloc_ptr

ArenaOK(a) == a \in Arenas /\ CurrentBlock(a) /\ HandedBefore(a) /\ RegionsApart(a)

LEMMA EmptyOK == ArenaOK(EmptyArena)
BY DEF EmptyArena, ArenaOK, Arenas, CurrentBlock, HandedBefore, RegionsApart

\* Appending a number to the blocks, or a region to what was handed out.
LEMMA AppendFacts ==
    ASSUME NEW S, NEW s \in Seq(S), NEW e \in S
    PROVE  /\ Append(s, e) \in Seq(S) /\ Len(Append(s, e)) = Len(s) + 1
           /\ Len(s) \in Nat /\ DOMAIN s = 1..Len(s)
           /\ DOMAIN Append(s, e) = 1..(Len(s) + 1)
           /\ \A i \in DOMAIN s : Append(s, e)[i] = s[i]
           /\ Append(s, e)[Len(s) + 1] = e
OBVIOUS

\* An object that begins at alloc_ptr or later, and fits, is apart from the others.
LEMMA CutOK ==
    ASSUME NEW a, ArenaOK(a), NEW slop \in Nat, NEW bytes \in Sizes,
           slop + bytes <= a.alloc_bytes_remaining
    PROVE  /\ ArenaOK(Cut(a, slop, bytes))
           /\ LastHanded(Cut(a, slop, bytes)) = Region(a.block, a.alloc_ptr + slop, bytes)
<1> DEFINE b == Cut(a, slop, bytes)
           new == Region(a.block, a.alloc_ptr + slop, bytes)
<1>1. /\ a.block \in Nat /\ a.alloc_ptr \in Nat /\ a.alloc_bytes_remaining \in Nat
      /\ a.blocks \in Seq(Nat) /\ a.handed \in Seq(Regions) /\ a.memory_usage \in Nat
  BY DEF ArenaOK, Arenas
<1>2. bytes \in Nat /\ bytes > 0
  BY DEF Sizes
<1>3. /\ a.block # 0 /\ a.block \in DOMAIN a.blocks
      /\ a.alloc_ptr + a.alloc_bytes_remaining = a.blocks[a.block]
  BY <1>1, <1>2 DEF ArenaOK, CurrentBlock
<1>4. new \in Regions /\ new.block = a.block /\ new.start = a.alloc_ptr + slop /\ new.bytes = bytes
  BY <1>1, <1>2 DEF Region, Regions
<1>5. /\ b.blocks = a.blocks /\ b.block = a.block /\ b.memory_usage = a.memory_usage
      /\ b.alloc_ptr = a.alloc_ptr + slop + bytes
      /\ b.alloc_bytes_remaining = a.alloc_bytes_remaining - (slop + bytes)
      /\ b.handed = Append(a.handed, new)
  BY DEF Cut, ArenaOK, Arenas
<1>6. /\ b.handed \in Seq(Regions) /\ Len(a.handed) \in Nat /\ DOMAIN a.handed = 1..Len(a.handed)
      /\ DOMAIN b.handed = 1..(Len(a.handed) + 1) /\ Len(b.handed) = Len(a.handed) + 1
      /\ \A i \in DOMAIN a.handed : b.handed[i] = a.handed[i]
      /\ b.handed[Len(a.handed) + 1] = new
  BY <1>1, <1>4, <1>5, AppendFacts
<1>7. b.alloc_ptr \in Nat /\ b.alloc_bytes_remaining \in Nat
  <2>1. slop \in Nat /\ bytes \in Nat /\ slop + bytes <= a.alloc_bytes_remaining
    BY <1>2
  <2>2. a.alloc_ptr + slop + bytes \in Nat
    BY <1>1, <2>1
  <2>3. a.alloc_bytes_remaining - (slop + bytes) \in Nat
    BY <1>1, <2>1
  <2> QED
    BY <1>5, <2>2, <2>3
<1>8. b \in Arenas
  BY <1>1, <1>5, <1>6, <1>7 DEF Arenas, Cut, ArenaOK
<1>9. CurrentBlock(b)
  <2>1. b.alloc_ptr + b.alloc_bytes_remaining = b.blocks[b.block]
    <3>1. slop + bytes \in Nat /\ b.alloc_ptr = a.alloc_ptr + (slop + bytes)
      BY SMTT(20), <1>1, <1>2, <1>5
    <3>2. b.alloc_ptr + b.alloc_bytes_remaining = a.alloc_ptr + a.alloc_bytes_remaining
      BY <1>1, <1>5, <3>1
    <3> QED
      BY <1>3, <1>5, <3>2
  <2>2. b.block # 0 /\ b.block \in DOMAIN b.blocks
    BY <1>3, <1>5
  <2> HIDE DEF b
  <2> QED
    BY <2>1, <2>2 DEF CurrentBlock
<1>10. \A i \in DOMAIN a.handed : a.handed[i] \in Regions
  BY <1>1
<1>11. End(new) = b.alloc_ptr
  BY <1>1, <1>2, <1>4, <1>5 DEF End
<1>12. \A i \in DOMAIN a.handed : a.handed[i].block = a.block => End(a.handed[i]) <= a.alloc_ptr
  BY DEF ArenaOK, HandedBefore
<1>13. HandedBefore(b)
  <2> SUFFICES ASSUME NEW i \in DOMAIN b.handed, b.handed[i].block = b.block
               PROVE  End(b.handed[i]) <= b.alloc_ptr
    BY DEF HandedBefore
  <2>1. CASE i \in DOMAIN a.handed
    <3>1. End(a.handed[i]) <= a.alloc_ptr
      BY <1>5, <1>6, <1>12, <2>1
    <3>2. End(a.handed[i]) \in Nat
      BY <1>10, <2>1 DEF End, Regions, Sizes
    <3> QED
      BY <1>1, <1>2, <1>5, <1>6, <2>1, <3>1, <3>2
  <2>2. CASE i = Len(a.handed) + 1
    BY <1>6, <1>7, <1>11, <2>2
  <2> QED
    BY <1>6, <2>1, <2>2
<1>14. \A i \in DOMAIN b.handed : /\ b.handed[i].block \in DOMAIN b.blocks
                                  /\ End(b.handed[i]) <= b.blocks[b.handed[i].block]
  <2> SUFFICES ASSUME NEW i \in DOMAIN b.handed
               PROVE  /\ b.handed[i].block \in DOMAIN b.blocks
                      /\ End(b.handed[i]) <= b.blocks[b.handed[i].block]
    OBVIOUS
  <2>1. CASE i \in DOMAIN a.handed
    BY <1>5, <1>6, <2>1 DEF ArenaOK, RegionsApart
  <2>2. CASE i = Len(a.handed) + 1
    <3>1. b.alloc_ptr + b.alloc_bytes_remaining = b.blocks[b.block]
      BY <1>3, <1>5, <1>9 DEF CurrentBlock
    <3> QED
      BY <1>3, <1>4, <1>5, <1>6, <1>7, <1>11, <2>2, <3>1
  <2> QED
    BY <1>6, <2>1, <2>2
<1>15. ASSUME NEW i \in DOMAIN b.handed, NEW j \in DOMAIN b.handed, i < j
       PROVE  Apart(b.handed[i], b.handed[j])
  <2>1. i \in DOMAIN a.handed
    BY <1>6, <1>15
  <2>2. CASE j \in DOMAIN a.handed
    BY <1>6, <1>15, <2>1, <2>2 DEF ArenaOK, RegionsApart
  <2>3. CASE j = Len(a.handed) + 1
    <3>1. a.handed[i].block = a.block => End(a.handed[i]) <= new.start
      <4>1. End(a.handed[i]) \in Nat
        BY <1>10, <2>1 DEF End, Regions, Sizes
      <4> QED
        BY <1>1, <1>4, <1>12, <2>1, <4>1
    <3> QED
      BY <1>4, <1>6, <2>1, <2>3, <3>1 DEF Apart
  <2> QED
    BY <1>6, <2>2, <2>3
<1> QED
  BY <1>6, <1>8, <1>9, <1>13, <1>14, <1>15 DEF ArenaOK, RegionsApart, LastHanded

\* A new block is what the arena already had, and one more.
LEMMA NewBlockFacts ==
    ASSUME NEW a, ArenaOK(a), NEW bytes \in Nat
    PROVE  LET b == AllocateNewBlock(a, bytes) IN
           /\ b \in Arenas
           /\ b.block = a.block /\ b.alloc_ptr = a.alloc_ptr /\ b.handed = a.handed
           /\ b.alloc_bytes_remaining = a.alloc_bytes_remaining
           /\ Len(a.blocks) \in Nat /\ DOMAIN a.blocks = 1..Len(a.blocks)
           /\ DOMAIN b.blocks = 1..(Len(a.blocks) + 1)
           /\ \A i \in DOMAIN a.blocks : b.blocks[i] = a.blocks[i]
           /\ b.blocks[Len(a.blocks) + 1] = bytes
<1> DEFINE b == AllocateNewBlock(a, bytes)
<1>1. a \in Arenas
  BY DEF ArenaOK
<1>2. /\ b.blocks = Append(a.blocks, bytes)
      /\ b.memory_usage = a.memory_usage + bytes + PointerSize
      /\ b.block = a.block /\ b.alloc_ptr = a.alloc_ptr /\ b.handed = a.handed
      /\ b.alloc_bytes_remaining = a.alloc_bytes_remaining
  BY <1>1 DEF AllocateNewBlock, Arenas
<1>3. a.blocks \in Seq(Nat) /\ a.memory_usage \in Nat /\ PointerSize \in Nat
  BY <1>1, BlockAssumption DEF Arenas
<1>4. /\ b.blocks \in Seq(Nat)
      /\ Len(a.blocks) \in Nat /\ DOMAIN a.blocks = 1..Len(a.blocks)
      /\ DOMAIN b.blocks = 1..(Len(a.blocks) + 1)
      /\ \A i \in DOMAIN a.blocks : b.blocks[i] = a.blocks[i]
      /\ b.blocks[Len(a.blocks) + 1] = bytes
  BY SMTT(20), <1>2, <1>3, AppendFacts
<1>5. b \in Arenas
  <2>1. b.memory_usage \in Nat
    BY <1>2, <1>3
  <2> QED
    BY <1>1, <1>2, <1>4, <2>1 DEF AllocateNewBlock, Arenas
<1> QED
  BY <1>2, <1>4, <1>5

\* A large object has its block to itself.
LEMMA LargeOK ==
    ASSUME NEW a, ArenaOK(a), NEW bytes \in Sizes
    PROVE  /\ ArenaOK(AllocateLarge(a, bytes))
           /\ LastHanded(AllocateLarge(a, bytes)) = Region(Len(a.blocks) + 1, 0, bytes)
<1> DEFINE n == AllocateNewBlock(a, bytes)
           b == AllocateLarge(a, bytes)
           new == Region(Len(a.blocks) + 1, 0, bytes)
<1>1. bytes \in Nat /\ bytes > 0
  BY DEF Sizes
<1>2. /\ n \in Arenas
      /\ n.block = a.block /\ n.alloc_ptr = a.alloc_ptr /\ n.handed = a.handed
      /\ n.alloc_bytes_remaining = a.alloc_bytes_remaining
      /\ Len(a.blocks) \in Nat /\ DOMAIN a.blocks = 1..Len(a.blocks)
      /\ DOMAIN n.blocks = 1..(Len(a.blocks) + 1)
      /\ \A i \in DOMAIN a.blocks : n.blocks[i] = a.blocks[i]
      /\ n.blocks[Len(a.blocks) + 1] = bytes
  BY <1>1, NewBlockFacts
<1> HIDE DEF n
<1>3. new \in Regions /\ new.block = Len(a.blocks) + 1 /\ End(new) = bytes
  BY <1>1, <1>2 DEF Region, Regions, End, Sizes
<1>4. /\ b.blocks = n.blocks /\ b.block = n.block /\ b.alloc_ptr = n.alloc_ptr
      /\ b.alloc_bytes_remaining = n.alloc_bytes_remaining
      /\ b.handed = Append(a.handed, new)
  BY <1>2 DEF AllocateLarge, Arenas, n
<1>5. a.handed \in Seq(Regions)
  BY DEF ArenaOK, Arenas
<1>6. /\ b.handed \in Seq(Regions) /\ Len(a.handed) \in Nat /\ DOMAIN a.handed = 1..Len(a.handed)
      /\ DOMAIN b.handed = 1..(Len(a.handed) + 1) /\ Len(b.handed) = Len(a.handed) + 1
      /\ \A i \in DOMAIN a.handed : b.handed[i] = a.handed[i]
      /\ b.handed[Len(a.handed) + 1] = new
  BY <1>3, <1>4, <1>5, AppendFacts
<1>7. b \in Arenas
  BY <1>2, <1>4, <1>6 DEF AllocateLarge, Arenas, n
<1>8. /\ \A i \in DOMAIN a.handed : a.handed[i].block \in 1..Len(a.blocks)
      /\ a.block # 0 => a.block \in 1..Len(a.blocks)
  BY <1>2 DEF ArenaOK, RegionsApart, CurrentBlock
<1> HIDE DEF b, new
<1>9. CurrentBlock(b)
  BY <1>2, <1>4 DEF ArenaOK, CurrentBlock
<1>10. HandedBefore(b)
  <2> SUFFICES ASSUME NEW i \in DOMAIN b.handed, b.handed[i].block = b.block
               PROVE  End(b.handed[i]) <= b.alloc_ptr
    BY DEF HandedBefore
  <2>1. i # Len(a.handed) + 1
    <3>1. a.block # Len(a.blocks) + 1
      BY <1>2, <1>8
    <3> QED
      BY <1>2, <1>3, <1>4, <1>6, <3>1
  <2>2. i \in DOMAIN a.handed
    BY <1>6, <2>1
  <2> QED
    BY <1>2, <1>4, <1>6, <2>2 DEF ArenaOK, HandedBefore
<1>11. ASSUME NEW i \in DOMAIN b.handed
       PROVE  /\ b.handed[i].block \in DOMAIN b.blocks
              /\ End(b.handed[i]) <= b.blocks[b.handed[i].block]
  <2>1. CASE i \in DOMAIN a.handed
    <3>1. /\ a.handed[i].block \in DOMAIN a.blocks
          /\ End(a.handed[i]) <= a.blocks[a.handed[i].block]
      BY <2>1 DEF ArenaOK, RegionsApart
    <3> QED
      BY SMTT(20), <1>2, <1>4, <1>6, <2>1, <3>1
  <2>2. CASE i = Len(a.handed) + 1
    BY <1>1, <1>2, <1>3, <1>4, <1>6, <2>2
  <2> QED
    BY <1>6, <2>1, <2>2
<1>12. ASSUME NEW i \in DOMAIN b.handed, NEW j \in DOMAIN b.handed, i < j
       PROVE  Apart(b.handed[i], b.handed[j])
  <2>1. i \in DOMAIN a.handed
    BY <1>6, <1>12
  <2>2. CASE j \in DOMAIN a.handed
    BY <1>6, <1>12, <2>1, <2>2 DEF ArenaOK, RegionsApart
  <2>3. CASE j = Len(a.handed) + 1
    <3>1. b.handed[i].block # b.handed[j].block
      <4>1. b.handed[i].block \in 1..Len(a.blocks)
        BY <1>6, <1>8, <2>1
      <4>2. b.handed[j].block = Len(a.blocks) + 1
        BY <1>3, <1>6, <2>3
      <4> QED
        BY <1>2, <4>1, <4>2
    <3> QED
      BY <3>1 DEF Apart
  <2> QED
    BY <1>6, <2>2, <2>3
<1>13. LastHanded(b) = new
  BY <1>6 DEF LastHanded
<1> QED
  BY <1>7, <1>9, <1>10, <1>11, <1>12, <1>13 DEF ArenaOK, RegionsApart, b, new

\* A new current block has been used for nothing.
LEMMA NewCurrentOK ==
    ASSUME NEW a, ArenaOK(a)
    PROVE  /\ ArenaOK(NewCurrentBlock(a))
           /\ NewCurrentBlock(a).alloc_bytes_remaining = BlockSize
           /\ NewCurrentBlock(a).alloc_ptr = 0
<1> DEFINE n == AllocateNewBlock(a, BlockSize)
           b == NewCurrentBlock(a)
<1>1. BlockSize \in Nat
  BY BlockAssumption
<1>2. /\ n \in Arenas
      /\ n.block = a.block /\ n.alloc_ptr = a.alloc_ptr /\ n.handed = a.handed
      /\ Len(a.blocks) \in Nat /\ DOMAIN a.blocks = 1..Len(a.blocks)
      /\ DOMAIN n.blocks = 1..(Len(a.blocks) + 1)
      /\ \A i \in DOMAIN a.blocks : n.blocks[i] = a.blocks[i]
      /\ n.blocks[Len(a.blocks) + 1] = BlockSize
  BY <1>1, NewBlockFacts
<1> HIDE DEF n
<1>3. /\ b.blocks = n.blocks /\ b.handed = a.handed
      /\ b.block = Len(a.blocks) + 1 /\ b.alloc_ptr = 0 /\ b.alloc_bytes_remaining = BlockSize
  BY <1>2 DEF NewCurrentBlock, Arenas, n
<1>4. b \in Arenas
  <2>1. /\ n.blocks \in Seq(Nat) /\ n.memory_usage \in Nat /\ n.handed \in Seq(Regions)
        /\ Len(a.blocks) + 1 \in Nat
    BY <1>2 DEF Arenas
  <2>2. b = [n EXCEPT !.block = Len(a.blocks) + 1, !.alloc_ptr = 0,
                      !.alloc_bytes_remaining = BlockSize]
    BY DEF NewCurrentBlock, n
  <2> HIDE DEF b
  <2> QED
    BY <1>1, <1>2, <2>1, <2>2 DEF Arenas
<1> HIDE DEF b
<1>5. CurrentBlock(b)
  BY <1>1, <1>2, <1>3 DEF CurrentBlock
<1>6. \A i \in DOMAIN a.handed :
         a.handed[i].block \in 1..Len(a.blocks) /\ End(a.handed[i]) <= a.blocks[a.handed[i].block]
  BY <1>2 DEF ArenaOK, RegionsApart
<1>7. HandedBefore(b)
  BY <1>2, <1>3, <1>6 DEF HandedBefore
<1>8. RegionsApart(b)
  <2>1. \A i, j \in DOMAIN a.handed : i < j => Apart(a.handed[i], a.handed[j])
    BY DEF ArenaOK, RegionsApart
  <2>2. \A i \in DOMAIN a.handed : /\ a.handed[i].block \in DOMAIN b.blocks
                                   /\ End(a.handed[i]) <= b.blocks[a.handed[i].block]
    BY <1>2, <1>3, <1>6
  <2> QED
    BY <1>3, <2>1, <2>2 DEF RegionsApart
<1> QED
  BY <1>3, <1>4, <1>5, <1>7, <1>8 DEF ArenaOK, b

\* A quarter of a block fits in a new one.
LEMMA FallbackOK ==
    ASSUME NEW a, ArenaOK(a), NEW bytes \in Sizes
    PROVE  /\ ArenaOK(AllocateFallback(a, bytes))
           /\ \E b \in Nat : LastHanded(AllocateFallback(a, bytes)) = Region(b, 0, bytes)
<1>1. CASE bytes > BlockSize \div 4
  <2>1. Len(a.blocks) + 1 \in Nat
    BY DEF ArenaOK, Arenas
  <2> QED
    BY <1>1, <2>1, LargeOK DEF AllocateFallback
<1>2. CASE ~(bytes > BlockSize \div 4)
  <2> DEFINE n == NewCurrentBlock(a)
  <2>1. ArenaOK(n) /\ n.alloc_bytes_remaining = BlockSize /\ n.alloc_ptr = 0 /\ n.block \in Nat
    BY NewCurrentOK DEF ArenaOK, Arenas
  <2> HIDE DEF n
  <2>2. bytes \in Nat /\ bytes <= BlockSize
    BY <1>2, BlockAssumption DEF Sizes
  <2>3. 0 + bytes <= n.alloc_bytes_remaining
    BY <2>1, <2>2
  <2>4. /\ ArenaOK(Cut(n, 0, bytes))
        /\ LastHanded(Cut(n, 0, bytes)) = Region(n.block, 0, bytes)
    BY <2>1, <2>3, CutOK
  <2>5. AllocateFallback(a, bytes) = Cut(n, 0, bytes)
    BY <1>2 DEF AllocateFallback, n
  <2> QED
    BY <2>1, <2>4, <2>5
<1> QED
  BY <1>1, <1>2

LEMMA AllocateOK ==
    ASSUME NEW a, ArenaOK(a), NEW bytes \in Sizes
    PROVE  ArenaOK(Allocate(a, bytes))
<1>1. CASE bytes <= a.alloc_bytes_remaining
  <2>1. 0 \in Nat /\ 0 + bytes <= a.alloc_bytes_remaining
    BY <1>1 DEF Sizes
  <2> QED
    BY <1>1, <2>1, CutOK DEF Allocate
<1>2. CASE ~(bytes <= a.alloc_bytes_remaining)
  BY <1>2, FallbackOK DEF Allocate
<1> QED
  BY <1>1, <1>2

\* The next multiple of a number.
LEMMA RoundedUp ==
    ASSUME NEW p \in Nat, NEW n \in Nat \ {0}
    PROVE  LET slop == IF p % n = 0 THEN 0 ELSE n - (p % n) IN
           slop \in Nat /\ (p + slop) % n = 0
<1>1. p % n \in 0..(n - 1)
  OBVIOUS
<1>2. CASE p % n = 0
  BY <1>2
<1>3. CASE p % n # 0
  <2> DEFINE q == p \div n
             r == p % n
  <2>1. q \in Int /\ r \in Int /\ p = n * q + r
    OBVIOUS
  <2>2. p + (n - r) = n * (q + 1)
    <3> HIDE DEF q, r
    <3>1. n * (q + 1) = n * q + n
      BY <2>1
    <3> QED
      BY <2>1, <3>1
  <2>3. (n * (q + 1)) % n = 0
    <3> HIDE DEF q, r
    <3> QED
      BY <2>1
  <2> QED
    BY <1>1, <1>3, <2>2, <2>3
<1> QED
  BY <1>2, <1>3

LEMMA AllocateAlignedOK ==
    ASSUME NEW a, ArenaOK(a), NEW bytes \in Sizes
    PROVE  /\ ArenaOK(AllocateAligned(a, bytes))
           /\ \E b, at \in Nat : /\ at % Align = 0
                                /\ LastHanded(AllocateAligned(a, bytes)) = Region(b, at, bytes)
<1> DEFINE slop == IF a.alloc_ptr % Align = 0 THEN 0 ELSE Align - (a.alloc_ptr % Align)
<1>1. a.alloc_ptr \in Nat /\ a.block \in Nat
  BY DEF ArenaOK, Arenas
<1>2. slop \in Nat /\ (a.alloc_ptr + slop) % Align = 0
  BY <1>1, RoundedUp, AlignAssumption
<1>3. AllocateAligned(a, bytes) = IF slop + bytes <= a.alloc_bytes_remaining
                                    THEN Cut(a, slop, bytes) ELSE AllocateFallback(a, bytes)
  BY DEF AllocateAligned
<1> HIDE DEF slop
<1>4. CASE slop + bytes <= a.alloc_bytes_remaining
  <2>1. /\ ArenaOK(Cut(a, slop, bytes))
        /\ LastHanded(Cut(a, slop, bytes)) = Region(a.block, a.alloc_ptr + slop, bytes)
    BY <1>2, <1>4, CutOK
  <2>2. a.alloc_ptr + slop \in Nat
    BY <1>1, <1>2
  <2> QED
    BY <1>1, <1>2, <1>3, <1>4, <2>1, <2>2
<1>5. CASE ~(slop + bytes <= a.alloc_bytes_remaining)
  <2>1. 0 \in Nat /\ 0 % Align = 0
    BY AlignAssumption
  <2> QED
    BY <1>3, <1>5, <2>1, FallbackOK
<1> QED
  BY <1>4, <1>5

-----------------------------------------------------------------------------
(* The memory table runs its list.                                         *)

\* Every step of the memory table is a step of the list, or none of it.
LEMMA MemStep == [MemNext]_memVars => [Next]_vars
BY DEF MemNext, memVars, Add, NewNodeOfHeight, ListStep, Next, WriterStep

\* The memory table is the list: what is proved of the list's specification holds
\* of it in its memory table.
THEOREM MemTableRunsList == MemSpec => Spec
<1>1. MemInit => Init
  BY DEF MemInit
<1> QED
  BY <1>1, MemStep, PTL DEF MemSpec, Spec

\* What the list promises its readers it promises the readers of the table: a search
\* ends at the right place and an iterator skips nothing, while Add runs beside them.
THEOREM TableReadsExact == MemSpec => SearchExact /\ IterationExact
BY MemTableRunsList, SearchesExact, IterationsExact, PTL

-----------------------------------------------------------------------------
(* The inductive invariant of the memory.                                  *)

\* A node has the memory of its height, and room for every pointer stored in it.
NodeMemory ==
    /\ nodeAt \in [Nodes -> Regions \cup {NoRegion}]
    /\ \A n \in Nodes : nodeAt[n] # NoRegion => Aligned(nodeAt[n])
    /\ \A p \in DOMAIN stores : Holds(stores[p].node, stores[p].level)
    /\ writer.pc \in {"init", "publish"} =>
         \A l \in 0..(writer.height - 1) : Holds(writer.key, l)

MInv == IInv /\ ArenaOK(arena) /\ NodeMemory

LEMMA NodeSizes ==
    ASSUME NEW h \in Nat \ {0}
    PROVE  NodeSize(h) \in Sizes /\ \A l \in 0..(h - 1) : EndOfLink(l) <= NodeSize(h)
<1>1. PointerSize \in Nat /\ PointerSize > 0
  BY BlockAssumption
<1>2. PointerSize * (h - 1) \in Nat
  BY <1>1
<1>3. ASSUME NEW l \in 0..(h - 1)
      PROVE  EndOfLink(l) <= NodeSize(h)
  <2>1. PointerSize * l <= PointerSize * (h - 1)
    BY <1>1
  <2>2. PointerSize * (l + 1) = PointerSize * l + PointerSize /\ PointerSize * l \in Nat
    BY <1>1
  <2> QED
    BY <1>1, <1>2, <2>1, <2>2 DEF EndOfLink, NodeSize
<1> QED
  BY <1>1, <1>2, <1>3 DEF NodeSize, Sizes

\* What allocate_aligned returns is a node's memory.
LEMMA NodeRegion ==
    ASSUME NEW a, ArenaOK(a), NEW h \in 1..MaxHeight
    PROVE  LET r == LastHanded(AllocateAligned(a, NodeSize(h))) IN
           /\ ArenaOK(AllocateAligned(a, NodeSize(h)))
           /\ r \in Regions /\ r # NoRegion /\ Aligned(r)
           /\ \A l \in 0..(h - 1) : EndOfLink(l) <= r.bytes
<1> DEFINE r == LastHanded(AllocateAligned(a, NodeSize(h)))
<1>1. NodeSize(h) \in Sizes /\ \A l \in 0..(h - 1) : EndOfLink(l) <= NodeSize(h)
  BY NodeSizes, Basics
<1>2. PICK b \in Nat, at \in Nat : at % Align = 0 /\ r = Region(b, at, NodeSize(h))
  BY <1>1, AllocateAlignedOK
<1>3. ArenaOK(AllocateAligned(a, NodeSize(h)))
  BY <1>1, AllocateAlignedOK
<1> HIDE DEF r
<1>4. /\ r \in Regions /\ r.bytes = NodeSize(h) /\ Aligned(r) /\ r # NoRegion
  BY <1>1, <1>2 DEF Region, Regions, NoRegion, Aligned, Sizes
<1> QED
  BY <1>1, <1>3, <1>4 DEF r

LEMMA InitMInv == MemInit => MInv
<1> SUFFICES ASSUME MemInit
             PROVE  MInv
  OBVIOUS
<1> DEFINE r == LastHanded(arena)
<1>1. MaxHeight \in 1..MaxHeight /\ Levels = 0..(MaxHeight - 1)
  BY Basics DEF Levels
<1>2. /\ ArenaOK(arena) /\ r \in Regions /\ r # NoRegion /\ Aligned(r)
      /\ \A l \in 0..(MaxHeight - 1) : EndOfLink(l) <= r.bytes
  BY <1>1, EmptyOK, NodeRegion DEF MemInit
<1>3. nodeAt = [n \in Nodes |-> IF n = HeadNode THEN r ELSE NoRegion]
  BY DEF MemInit
<1> HIDE DEF r
<1>4. \A l \in Levels : Holds(HeadNode, l)
  BY <1>1, <1>2, <1>3, Basics DEF Holds
<1>5. \A p \in DOMAIN stores : stores[p].node = HeadNode /\ stores[p].level \in Levels
  <2>1. stores = [i \in 1..MaxHeight |-> StoreOf(HeadNode, i - 1, Null, TRUE)]
    BY DEF MemInit, Init
  <2> QED
    BY <1>1, <2>1, Basics DEF StoreOf
<1>6. writer.pc = "idle"
  BY DEF MemInit, Init, NoWriter
<1>7. NodeMemory
  BY <1>2, <1>3, <1>4, <1>5, <1>6 DEF NodeMemory
<1> QED
  BY <1>2, <1>7, InitInv DEF MInv, MemInit

\* Steps that leave the nodes' memory and its contents alone.
LEMMA NodesStay ==
    ASSUME NodeMemory, UNCHANGED <<stores, nodeAt>>,
           \/ writer'.pc \notin {"init", "publish"}
           \/ UNCHANGED writer
    PROVE  NodeMemory'
BY DEF NodeMemory, Holds

LEMMA AddMemory ==
    ASSUME MInv, NEW k \in Keys, Add(k)
    PROVE  ArenaOK(arena)' /\ NodeMemory'
<1>1. ArenaOK(arena')
  BY AllocateOK, EntryAssumption DEF MInv, Add
<1>2. NodeMemory'
  <2>1. /\ UNCHANGED <<stores, nodeAt>>
        /\ writer' = [NoWriter EXCEPT !.pc = "find", !.key = k, !.level = max_height - 1]
    BY DEF Add, BeginInsert
  <2>2. writer'.pc = "find"
    BY <2>1 DEF NoWriter
  <2> QED
    BY <2>1, <2>2, NodesStay DEF MInv
<1> QED
  BY <1>1, <1>2

LEMMA NewNodeMemory ==
    ASSUME MInv, NEW h \in 1..MaxHeight, NewNodeOfHeight(h)
    PROVE  ArenaOK(arena)' /\ NodeMemory'
<1> DEFINE key == writer.key
           r == LastHanded(arena')
<1>1. /\ UNCHANGED stores /\ writer.pc = "height"
      /\ arena' = AllocateAligned(arena, NodeSize(h))
      /\ nodeAt' = [nodeAt EXCEPT ![key] = r]
  BY DEF NewNodeOfHeight, NewNode, ChooseHeight
<1>2. key \in Keys /\ key \in Nodes /\ OwnLevels({})
  BY <1>1 DEF MInv, IInv, WriterOK, Nodes
<1>3. writer'.height = h /\ writer'.key = key
  <2>1. writer \in WriterStates
    BY DEF MInv, IInv, TypeOK
  <2> DEFINE prev == [l \in Levels |-> IF l \in max_height..(h - 1) THEN HeadNode ELSE writer.prev[l]]
  <2>2. writer' = [writer EXCEPT !.pc = "init", !.height = h, !.prev = prev]
    BY DEF NewNodeOfHeight, ChooseHeight
  <2> HIDE DEF prev
  <2> QED
    BY <2>1, <2>2 DEF WriterStates
<1>4. /\ ArenaOK(arena') /\ r \in Regions /\ r # NoRegion /\ Aligned(r)
      /\ \A l \in 0..(h - 1) : EndOfLink(l) <= r.bytes
  BY <1>1, NodeRegion DEF MInv
<1> HIDE DEF r
<1>5. \A p \in DOMAIN stores : stores[p].node # key /\ stores[p].node \in Nodes
  <2> SUFFICES ASSUME NEW p \in DOMAIN stores
               PROVE  stores[p].node # key /\ stores[p].node \in Nodes
    OBVIOUS
  <2>1. stores[p] \in StoreRecords
    BY DEF MInv, IInv, TypeOK
  <2>2. stores[p].level \in Levels /\ stores[p].node \in Nodes
    BY <2>1 DEF StoreRecords
  <2>3. stores[p].node = key => StoresTo(key, stores[p].level) # {}
    BY DEF StoresTo
  <2>4. next[key][stores[p].level] = Junk
    BY <1>2, <2>2 DEF OwnLevels
  <2> QED
    BY <1>2, <2>2, <2>3, <2>4 DEF MInv, IInv, Memory, NextInHistory
<1>6. /\ nodeAt' \in [Nodes -> Regions \cup {NoRegion}]
      /\ nodeAt'[key] = r
      /\ \A n \in Nodes : n # key => nodeAt'[n] = nodeAt[n]
  BY <1>1, <1>2, <1>4 DEF MInv, NodeMemory
<1>7. \A n \in Nodes : nodeAt'[n] # NoRegion => Aligned(nodeAt'[n])
  BY <1>4, <1>6 DEF MInv, NodeMemory
<1>8. \A p \in DOMAIN stores : Holds(stores[p].node, stores[p].level)'
  BY <1>1, <1>5, <1>6 DEF MInv, NodeMemory, Holds
<1>9. \A l \in 0..(writer'.height - 1) : Holds(writer.key, l)'
  BY <1>2, <1>3, <1>4, <1>6 DEF Holds
<1>10. NodeMemory'
  BY <1>1, <1>6, <1>7, <1>8, <1>9 DEF NodeMemory
<1> QED
  BY <1>4, <1>10

\* A store lies in its node's memory.
LEMMA StoreInside ==
    ASSUME MInv, NEW n \in Nodes, NEW l \in Levels, Holds(n, l), NEW m \in Nodes \cup {Null},
           NEW release \in BOOLEAN, stores' = Append(stores, StoreOf(n, l, m, release)),
           UNCHANGED nodeAt
    PROVE  (\A p \in DOMAIN stores : Holds(stores[p].node, stores[p].level))'
<1> DEFINE s == StoreOf(n, l, m, release)
<1>1. s \in StoreRecords /\ s.node = n /\ s.level = l
  BY DEF StoreOf, StoreRecords
<1> HIDE DEF s
<1>2. stores \in Seq(StoreRecords) /\ stores' = Append(stores, s)
  BY DEF MInv, IInv, TypeOK, s
<1>3. /\ DOMAIN stores' = 1..(Len(stores) + 1) /\ DOMAIN stores = 1..Len(stores)
      /\ \A p \in DOMAIN stores : stores'[p] = stores[p]
      /\ stores'[Len(stores) + 1] = s
      /\ Len(stores) \in Nat
  BY <1>1, <1>2, AppendFacts
<1> SUFFICES ASSUME NEW p \in DOMAIN stores'
             PROVE  /\ nodeAt[stores'[p].node] # NoRegion
                    /\ EndOfLink(stores'[p].level) <= nodeAt[stores'[p].node].bytes
  BY DEF Holds
<1>4. CASE p \in DOMAIN stores
  BY <1>3, <1>4 DEF MInv, NodeMemory, Holds
<1>5. CASE p = Len(stores) + 1
  BY <1>1, <1>3, <1>5 DEF Holds
<1> QED
  BY <1>3, <1>4, <1>5

LEMMA InitNextMemory ==
    ASSUME MInv, InitNext, UNCHANGED <<arena, nodeAt>>
    PROVE  NodeMemory'
<1> DEFINE key == writer.key
           l == writer.level
           m == next[writer.prev[l]][l]
<1>1. /\ key \in Keys /\ key \in Nodes /\ l \in Levels /\ l \in 0..(writer.height - 1)
      /\ PrevOK(l) /\ writer.pc = "init" /\ writer.height \in Nat
  <2>1. writer \in WriterStates /\ writer.pc = "init"
    BY DEF MInv, IInv, TypeOK, InitNext
  <2>2. l \in Levels /\ l \in Nat /\ writer.height \in Nat
    BY <2>1, Basics DEF WriterStates, Levels
  <2>3. key \in Keys /\ l < writer.height /\ \A i \in l..(writer.height - 1) : PrevOK(i)
    BY <2>1 DEF MInv, IInv, WriterOK
  <2>4. l \in l..(writer.height - 1) /\ l \in 0..(writer.height - 1)
    BY <2>2, <2>3
  <2> QED
    BY <2>1, <2>2, <2>3, <2>4 DEF Nodes
<1>2. m \in Nodes \cup {Null}
  BY <1>1 DEF MInv, IInv, TypeOK, PrevOK
<1>3. /\ stores' = Append(stores, StoreOf(key, l, m, FALSE)) /\ FALSE \in BOOLEAN
      /\ writer' = [writer EXCEPT !.pc = "publish"]
  BY DEF InitNext, NoBarrierSetNext
<1>4. writer'.height = writer.height /\ writer'.key = key
  BY <1>3 DEF MInv, IInv, TypeOK, WriterStates
<1>5. \A i \in 0..(writer.height - 1) : Holds(key, i)
  BY <1>1 DEF MInv, NodeMemory
<1>6. Holds(key, l)
  BY <1>1, <1>5
<1> HIDE DEF m
<1>7. (\A p \in DOMAIN stores : Holds(stores[p].node, stores[p].level))'
  <2> HIDE DEF key, l
  <2> QED
    BY <1>1, <1>2, <1>3, <1>6, StoreInside
<1>8. \A i \in 0..(writer'.height - 1) : Holds(writer.key, i)'
  BY <1>4, <1>5 DEF Holds
<1> QED
  BY <1>7, <1>8 DEF MInv, NodeMemory

LEMMA PublishMemory ==
    ASSUME MInv, Publish, UNCHANGED <<arena, nodeAt>>
    PROVE  NodeMemory'
<1> DEFINE key == writer.key
           l == writer.level
           n == writer.prev[l]
<1>1. /\ key \in Keys /\ key \in Nodes /\ l \in Levels
      /\ PrevOK(l) /\ writer.pc = "publish"
  <2>1. writer \in WriterStates /\ writer.pc = "publish"
    BY DEF MInv, IInv, TypeOK, Publish
  <2>2. l \in Levels /\ l \in Nat /\ writer.height \in Nat
    BY <2>1, Basics DEF WriterStates, Levels
  <2>3. key \in Keys /\ l < writer.height /\ \A i \in l..(writer.height - 1) : PrevOK(i)
    BY <2>1 DEF MInv, IInv, WriterOK
  <2>4. l \in l..(writer.height - 1)
    BY <2>2, <2>3
  <2> QED
    BY <2>1, <2>2, <2>3, <2>4 DEF Nodes
<1>2. n \in Nodes /\ next[n][l] # Junk
  BY <1>1 DEF PrevOK
<1>3. PICK p \in StoresTo(n, l) : TRUE
  BY <1>1, <1>2 DEF MInv, IInv, Memory, NextInHistory
<1>4. Holds(n, l)
  BY <1>3 DEF StoresTo, MInv, NodeMemory
<1>5. /\ stores' = Append(stores, StoreOf(n, l, key, TRUE)) /\ TRUE \in BOOLEAN
      /\ writer' = IF writer.level + 1 < writer.height
                     THEN [writer EXCEPT !.pc = "init", !.level = @ + 1] ELSE NoWriter
  BY DEF Publish, SetNext
<1>6. (\A q \in DOMAIN stores : Holds(stores[q].node, stores[q].level))'
  <2> HIDE DEF n, l, key
  <2>1. key \in Nodes \cup {Null}
    BY <1>1
  <2> QED
    BY <1>1, <1>2, <1>4, <1>5, <2>1, StoreInside
<1>7. writer'.pc \in {"init", "publish"} => writer'.height = writer.height /\ writer'.key = key
  BY <1>5 DEF MInv, IInv, TypeOK, WriterStates, NoWriter
<1>8. \A i \in 0..(writer.height - 1) : Holds(key, i)
  BY <1>1 DEF MInv, NodeMemory
<1>9. writer'.pc \in {"init", "publish"} => \A i \in 0..(writer'.height - 1) : Holds(writer.key, i)'
  BY <1>7, <1>8 DEF Holds
<1> QED
  BY <1>6, <1>7, <1>9 DEF MInv, NodeMemory

LEMMA StepMInv == MInv /\ [MemNext]_memVars => MInv'
<1> SUFFICES ASSUME MInv, [MemNext]_memVars
             PROVE  MInv'
  OBVIOUS
<1>1. IInv'
  BY MemStep, StepInv DEF MInv
<1>2. ASSUME NEW k \in Keys, Add(k)
      PROVE  ArenaOK(arena)' /\ NodeMemory'
  BY <1>2, AddMemory
<1>3. ASSUME NEW h \in 1..MaxHeight, NewNodeOfHeight(h)
      PROVE  ArenaOK(arena)' /\ NodeMemory'
  BY <1>3, NewNodeMemory
<1>4. ASSUME UNCHANGED <<arena, nodeAt>>
      PROVE  ArenaOK(arena)'
  BY <1>4 DEF MInv
<1>5. ASSUME FindPrev, UNCHANGED <<arena, nodeAt>>
      PROVE  NodeMemory'
  <2>1. UNCHANGED stores /\ writer.pc = "find" /\ writer \in WriterStates
    BY <1>5 DEF FindPrev, MInv, IInv, TypeOK
  <2>2. writer'.pc \in {"find", "height"}
    BY <1>5, <2>1 DEF FindPrev, WriterStates
  <2> QED
    BY <1>5, <2>1, <2>2, NodesStay DEF MInv
<1>6. ASSUME InitNext, UNCHANGED <<arena, nodeAt>>
      PROVE  NodeMemory'
  BY <1>6, InitNextMemory
<1>7. ASSUME Publish, UNCHANGED <<arena, nodeAt>>
      PROVE  NodeMemory'
  BY <1>7, PublishMemory
<1>8. ASSUME NEW r \in Readers, ReaderStep(r), UNCHANGED <<arena, nodeAt>>
      PROVE  NodeMemory'
  <2>1. UNCHANGED <<stores, writer>>
    BY <1>8 DEF ReaderStep, Seek, Prev, SeekToLast, StartSearch, SearchStep, NextEntry, writerVars
  <2> QED
    BY <1>8, <2>1, NodesStay DEF MInv
<1>9. ASSUME UNCHANGED memVars
      PROVE  ArenaOK(arena)' /\ NodeMemory'
  <2>1. UNCHANGED <<stores, nodeAt, writer, arena>>
    BY <1>9 DEF memVars, vars
  <2> QED
    BY <2>1, NodesStay DEF MInv
<1> QED
  BY <1>1, <1>2, <1>3, <1>4, <1>5, <1>6, <1>7, <1>8, <1>9 DEF MemNext, ListStep, MInv

THEOREM MemTableInvariant == MemSpec => []MInv
BY InitMInv, StepMInv, PTL DEF MemSpec

\* However objects of whatever sizes follow one another, none overlaps another or
\* passes the end of its block, and every pointer a list stores or a reader loads
\* lies in the memory of its node.
THEOREM MemoryIsSafe == MemSpec => []MemorySafe
<1>1. MInv => MemorySafe
  <2> SUFFICES ASSUME MInv
               PROVE  MemorySafe
    OBVIOUS
  <2>1. ObjectsApart
    BY DEF MInv, ArenaOK, NodeMemory, ObjectsApart
  <2>2. ASSUME NEW r \in Readers, reader[r].pc \notin {Idle, "fault"}
        PROVE  Holds(reader[r].x, reader[r].level)
    <3>1. reader[r].level \in 0..reader[r].level
      BY ReaderFields, Basics DEF MInv, Levels, IInv
    <3>2. InitBy(reader[r].x, reader[r].level, reader[r].view)
      BY <2>2, <3>1 DEF MInv, IInv, ReaderOK
    <3>3. PICK q \in StoresTo(reader[r].x, reader[r].level) : TRUE
      BY <3>2 DEF InitBy
    <3> QED
      BY <3>3 DEF StoresTo, MInv, NodeMemory
  <2>3. \A p \in DOMAIN stores : Holds(stores[p].node, stores[p].level)
    BY DEF MInv, NodeMemory
  <2> QED
    BY <2>1, <2>2, <2>3 DEF MemorySafe, LinksInside
<1> QED
  BY <1>1, MemTableInvariant, PTL
=============================================================================
