------------------------------- MODULE SkipList -------------------------------
(***************************************************************************)
(* skip_list of src/include/leveldb/__detail/skip_list.h: one writer       *)
(* (insert needs external synchronization) and readers that take no lock.  *)
(*                                                                         *)
(* A node is identified with its key.  Shared memory is the history of the *)
(* stores to the next_ pointers, in the order the writer performs them: a  *)
(* reader may load a stale value, but never one older than what its view   *)
(* (the prefix of the history known to happen before it) contains; loading *)
(* a release store extends the view to it, loading a relaxed one does not. *)
(* A load of a cell none of whose stores is in the view may also return    *)
(* the uninitialized memory of the arena (Junk).                           *)
(***************************************************************************)
EXTENDS Integers, Sequences

CONSTANTS Keys,       \* the keys that may be inserted
          MaxHeight,  \* kMaxHeight
          Readers,
          Null,       \* nullptr
          Junk        \* an uninitialized pointer

HeadNode == 0             \* head_, before every key

ASSUME KeysAssumption == Keys \subseteq Nat \ {HeadNode}
ASSUME HeightAssumption == MaxHeight \in Nat \ {0}
ASSUME NullAssumption == Null \notin Nat /\ Junk \notin Nat /\ Null # Junk

Nodes == Keys \cup {HeadNode}
Levels == 0..(MaxHeight - 1)

VARIABLES stores,     \* every store to a next_ pointer, oldest first
          next,       \* the newest value of every next_ pointer
          max_height, \* max_height_
          heights,    \* every value max_height_ has had
          writer,     \* the thread inside insert
          reader      \* the iterators and the searches they run

vars == <<stores, next, max_height, heights, writer, reader>>
writerVars == <<stores, next, max_height, heights, writer>>

-----------------------------------------------------------------------------
(* Memory.                                                                 *)

StoreOf(n, l, m, release) == [node |-> n, level |-> l, val |-> m, release |-> release]

\* Mutant: the new node is published with a relaxed store.
SetNext_Relaxed(n, l, m) ==
    /\ stores' = Append(stores, StoreOf(n, l, m, FALSE))
    /\ next' = [next EXCEPT ![n][l] = m]

SetNext(n, l, m) ==
    /\ stores' = Append(stores, StoreOf(n, l, m, TRUE))
    /\ next' = [next EXCEPT ![n][l] = m]

NoBarrierSetNext(n, l, m) ==
    /\ stores' = Append(stores, StoreOf(n, l, m, FALSE))
    /\ next' = [next EXCEPT ![n][l] = m]

\* The stores to one cell.
StoresTo(n, l) == {p \in DOMAIN stores : stores[p].node = n /\ stores[p].level = l}

\* What an acquire load of a cell may return to a thread with this view, and
\* the view the load leaves it with.
Loads(n, l, view) ==
    LET cell == StoresTo(n, l)
        fresh == {p \in cell : \A q \in cell : q <= view => q <= p}
    IN  {[val |-> stores[p].val,
          view |-> IF stores[p].release /\ p > view THEN p ELSE view] : p \in fresh}
        \cup (IF \E p \in cell : p <= view THEN {} ELSE {[val |-> Junk, view |-> view]})

\* Mutant: the comparison is the wrong way round.
KeyIsAfterNode_Reversed(k, n) == n # Null /\ k < n

\* key_is_after_node; null is infinite.
KeyIsAfterNode(k, n) == n # Null /\ n < k

-----------------------------------------------------------------------------
(* insert.  The writer's own loads see its last stores.                    *)

NoWriter == [pc |-> "idle", key |-> HeadNode, x |-> HeadNode, level |-> 0,
             prev |-> [l \in Levels |-> Junk], height |-> 0]

Linked == {k \in Keys : next[k][0] # Junk}

\* REQUIRES: nothing that compares equal to key is currently in the list.
BeginInsert(k) ==
    /\ writer.pc = "idle"
    /\ k \notin Linked
    /\ writer' = [NoWriter EXCEPT !.pc = "find", !.key = k, !.level = max_height - 1]
    /\ UNCHANGED <<stores, next, max_height, heights, reader>>

\* One iteration of find_greater_or_equal( key, prev ).
FindPrev ==
    /\ writer.pc = "find"
    /\ LET after == next[writer.x][writer.level] IN
         \/ /\ KeyIsAfterNode(writer.key, after)
            /\ writer' = [writer EXCEPT !.x = after]
         \/ /\ ~KeyIsAfterNode(writer.key, after)
            /\ writer' = [writer EXCEPT !.prev[writer.level] = writer.x,
                                        !.pc = IF writer.level = 0 THEN "height" ELSE "find",
                                        !.level = IF writer.level = 0 THEN 0 ELSE @ - 1]
    /\ UNCHANGED <<stores, next, max_height, heights, reader>>

\* Mutant: linking starts at the highest level of the new node.
ChooseHeight_StartsAtTop(h) ==
    /\ writer.pc = "height"
    /\ writer' = [writer EXCEPT !.pc = "init", !.height = h, !.level = h - 1,
                                !.prev = [l \in Levels |-> IF l \in max_height..(h - 1)
                                                             THEN HeadNode ELSE writer.prev[l]]]
    /\ max_height' = IF h > max_height THEN h ELSE max_height
    /\ heights' = heights \cup {max_height'}
    /\ UNCHANGED <<stores, next, reader>>

\* random_height, and the new levels start at head_.
ChooseHeight(h) ==
    /\ writer.pc = "height"
    /\ writer' = [writer EXCEPT !.pc = "init", !.height = h,
                                !.prev = [l \in Levels |-> IF l \in max_height..(h - 1)
                                                             THEN HeadNode ELSE writer.prev[l]]]
    /\ max_height' = IF h > max_height THEN h ELSE max_height
    /\ heights' = heights \cup {max_height'}
    /\ UNCHANGED <<stores, next, reader>>

\* Mutants: the new node does not point to the rest of the list; its pointer is
\* copied from the predecessor after the predecessor was redirected to it.
InitNext_NullNext ==
    /\ writer.pc = "init"
    /\ NoBarrierSetNext(writer.key, writer.level, Null)
    /\ writer' = [writer EXCEPT !.pc = "publish"]
    /\ UNCHANGED <<max_height, heights, reader>>
InitNext_AfterPublish ==
    /\ writer.pc = "init"
    /\ NoBarrierSetNext(writer.key, writer.level, writer.key)
    /\ writer' = [writer EXCEPT !.pc = "publish"]
    /\ UNCHANGED <<max_height, heights, reader>>

InitNext ==
    /\ writer.pc = "init"
    /\ NoBarrierSetNext(writer.key, writer.level, next[writer.prev[writer.level]][writer.level])
    /\ writer' = [writer EXCEPT !.pc = "publish"]
    /\ UNCHANGED <<max_height, heights, reader>>

Publish ==
    /\ writer.pc = "publish"
    /\ SetNext(writer.prev[writer.level], writer.level, writer.key)
    /\ writer' = IF writer.level + 1 < writer.height
                   THEN [writer EXCEPT !.pc = "init", !.level = @ + 1]
                   ELSE NoWriter
    /\ UNCHANGED <<max_height, heights, reader>>

-----------------------------------------------------------------------------
(* Readers: iterator and the searches behind it.                           *)

Idle == "idle"

\* A search starts at head_, at a level some value of max_height_ gives.  The
\* thread may have synchronized with the writer since its last operation.
StartSearch(r, search, target) ==
    /\ reader[r].pc = Idle
    /\ \E h \in heights, v \in reader[r].view..Len(stores) :
         reader' = [reader EXCEPT ![r] = [@ EXCEPT !.pc = search, !.target = target, !.x = HeadNode,
                                                   !.level = h - 1, !.view = v, !.start = v]]
    /\ UNCHANGED writerVars

Seek(r, k) == StartSearch(r, "find_greater_or_equal", k)
Prev(r) == reader[r].node # Null /\ StartSearch(r, "find_less_than", reader[r].node)
SeekToLast(r) == StartSearch(r, "find_last", HeadNode)

\* Go on past node m in this search?
SearchOn(r, m) ==
    IF reader[r].pc = "find_last" THEN m # Null ELSE KeyIsAfterNode(reader[r].target, m)

\* What the search leaves in the iterator, having stopped at x before m.
SearchResult(r, m) ==
    IF reader[r].pc = "find_greater_or_equal" THEN m
    ELSE IF reader[r].x = HeadNode THEN Null ELSE reader[r].x

\* One iteration of a search.
SearchStep(r) ==
    /\ reader[r].pc \notin {Idle, "fault"}
    /\ \E load \in Loads(reader[r].x, reader[r].level, reader[r].view) :
         LET m == load.val
             moved == [reader[r] EXCEPT !.view = load.view]
         IN  reader' = [reader EXCEPT ![r] =
               IF m = Junk THEN [moved EXCEPT !.pc = "fault"]
               ELSE IF SearchOn(r, m) THEN [moved EXCEPT !.x = m]
               ELSE IF reader[r].level > 0 THEN [moved EXCEPT !.level = @ - 1]
               ELSE [moved EXCEPT !.pc = Idle, !.node = SearchResult(r, m)]]
    /\ UNCHANGED writerVars

\* iterator::next follows the lowest link of its node.
NextEntry(r) ==
    /\ reader[r].pc = Idle
    /\ reader[r].node # Null
    /\ \E load \in Loads(reader[r].node, 0, reader[r].view) :
         reader' = [reader EXCEPT ![r] =
           IF load.val = Junk THEN [@ EXCEPT !.pc = "fault"]
           ELSE [@ EXCEPT !.node = load.val, !.view = load.view]]
    /\ UNCHANGED writerVars

-----------------------------------------------------------------------------
\* The constructor stores nullptr in every pointer of head_ before the list is
\* shared.
Init ==
    /\ stores = [i \in 1..MaxHeight |-> StoreOf(HeadNode, i - 1, Null, TRUE)]
    /\ next = [n \in Nodes |-> [l \in Levels |-> IF n = HeadNode THEN Null ELSE Junk]]
    /\ max_height = 1
    /\ heights = {1}
    /\ writer = NoWriter
    /\ reader = [r \in Readers |-> [pc |-> Idle, target |-> HeadNode, x |-> HeadNode, level |-> 0,
                                    view |-> MaxHeight, start |-> MaxHeight, node |-> Null]]

WriterStep == \/ \E k \in Keys : BeginInsert(k)
              \/ FindPrev
              \/ \E h \in 1..MaxHeight : ChooseHeight(h)
              \/ InitNext
              \/ Publish

ReaderStep(r) == \/ \E k \in Keys : Seek(r, k)
                 \/ Prev(r)
                 \/ SeekToLast(r)
                 \/ SearchStep(r)
                 \/ NextEntry(r)

Next == WriterStep \/ \E r \in Readers : ReaderStep(r)

Spec == Init /\ [][Next]_vars

\* A thread inside a search keeps running it.
FairSpec == Spec /\ \A r \in Readers : WF_vars(SearchStep(r))

-----------------------------------------------------------------------------
(* Properties.                                                             *)

StoreRecords == [node : Nodes, level : Levels, val : Nodes \cup {Null, Junk}, release : BOOLEAN]
WriterStates ==
    [pc : {"idle", "find", "height", "init", "publish"}, key : Nodes, x : Nodes,
     level : Levels, prev : [Levels -> Nodes \cup {Junk}], height : 0..MaxHeight]
ReaderStates ==
    [pc : {"idle", "fault", "find_greater_or_equal", "find_less_than", "find_last"},
     target : Nodes, x : Nodes, level : Levels, view : Nat, start : Nat,
     node : Nodes \cup {Null}]

\* Type invariant of the memory, the writer and the readers.
TypeOK ==
    /\ stores \in Seq(StoreRecords)
    /\ next \in [Nodes -> [Levels -> Nodes \cup {Null, Junk}]]
    /\ max_height \in 1..MaxHeight
    /\ heights \in SUBSET (1..MaxHeight)
    /\ writer \in WriterStates
    /\ reader \in [Readers -> ReaderStates]

\* Lines 22-26 and 154-161: the release-store of a pointer to a node makes the
\* node's own pointers visible, at every level a search may descend to, so that
\* no reader ever follows an uninitialized pointer.
NoUninitializedLoad == \A r \in Readers : reader[r].pc # "fault"

\* Every pointer ever stored leads to a larger key: whatever mixture of old and
\* new pointers a reader sees, it moves forward.
AlwaysSorted ==
    \A p \in DOMAIN stores : LET s == stores[p] IN
        s.val = Null \/ (s.val \in Keys /\ s.node < s.val)

\* The nodes of a level also are in every lower level, with the exception of the
\* node insert is linking (prev[] and the descent of a search rely on it).
LevelsNest ==
    \A l \in Levels \ {0}, n \in Nodes :
        next[n][l] \in Keys => \E m \in Nodes : next[m][l - 1] = next[n][l]

\* The keys in the list at level 0 when the history had v stores.
InListAt(v) == {stores[p].val : p \in {q \in 1..v : stores[q].level = 0 /\ stores[q].release}} \ {Null}

\* A search that began when the writer's first v stores were known to its thread
\* ends at the right place: it overlooks no key that was in the list by then,
\* however the links change under it.
SearchExact ==
    [][\A r \in Readers :
         /\ reader[r].pc \notin {Idle, "fault"} /\ reader'[r].pc = Idle
         => LET found == reader'[r].node
                target == reader[r].target
                there == InListAt(reader[r].start)
            IN CASE reader[r].pc = "find_greater_or_equal" ->
                      /\ found # Null => found \in Keys /\ found >= target
                      /\ \A k \in there : k >= target => found # Null /\ found <= k
                 [] reader[r].pc = "find_less_than" ->
                      /\ found # Null => found \in Keys /\ found < target
                      /\ \A k \in there : k < target => found # Null /\ k <= found
                 [] OTHER -> \A k \in there : found # Null /\ k <= found]_vars

\* next() moves to a larger key and skips none its thread knows to be there.
IterationExact ==
    [][\A r \in Readers :
         reader[r].pc = Idle /\ reader'[r].pc = Idle /\ reader'[r].node # reader[r].node
         => \A k \in InListAt(reader[r].view) :
              k > reader[r].node => reader'[r].node # Null /\ reader[r].node < reader'[r].node
                                    /\ reader'[r].node <= k]_vars

\* Every search ends, although insert goes on beside it.
SearchesEnd == \A r \in Readers : reader[r].pc \notin {Idle, "fault"} ~> reader[r].pc = Idle
=============================================================================
