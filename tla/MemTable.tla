------------------------------- MODULE MemTable ------------------------------
(***************************************************************************)
(* mem_table of src/include/leveldb/__detail/memory_table.h: a skip list   *)
(* over an arena.  The list asks the arena for every node, of a size that  *)
(* depends on the node's height, and the bytes a key points to lie in the  *)
(* same arena.  Only the writer allocates; readers follow pointers into    *)
(* what it has allocated.                                                  *)
(***************************************************************************)
EXTENDS SkipList, Arena

CONSTANT EntrySize  \* the bytes of a key

ASSUME EntryAssumption == EntrySize \in [Keys -> Sizes]

VARIABLES arena,   \* arena_
          nodeAt   \* the memory of every node

memVars == <<vars, arena, nodeAt>>

NoRegion == Region(0, 0, 0)

\* node::next_[ l ] behind key, the first member.
EndOfLink(l) == PointerSize + PointerSize * (l + 1)

\* sizeof( node ), with one pointer in it, and height - 1 more.
NodeSize(height) == 2 * PointerSize + PointerSize * (height - 1)

\* new_node; the node's place is what the arena returned.
NewNode(k, height) ==
    /\ arena' = AllocateAligned(arena, NodeSize(height))
    /\ nodeAt' = [nodeAt EXCEPT ![k] = LastHanded(arena')]

\* The bytes of a key are allocated and insert is called.
Add(k) ==
    /\ BeginInsert(k)
    /\ arena' = Allocate(arena, EntrySize[k])
    /\ UNCHANGED nodeAt

NewNodeOfHeight(h) == ChooseHeight(h) /\ NewNode(writer.key, h)

ListStep == FindPrev \/ InitNext \/ Publish \/ \E r \in Readers : ReaderStep(r)

\* The members are constructed in their order: arena_, then table_, whose
\* constructor allocates head_ with every level.
MemInit ==
    /\ Init
    /\ arena = AllocateAligned(EmptyArena, NodeSize(MaxHeight))
    /\ nodeAt = [n \in Nodes |-> IF n = HeadNode THEN LastHanded(arena) ELSE NoRegion]

MemNext ==
    \/ \E k \in Keys : Add(k)
    \/ \E h \in 1..MaxHeight : NewNodeOfHeight(h)
    \/ ListStep /\ UNCHANGED <<arena, nodeAt>>

MemSpec == MemInit /\ [][MemNext]_memVars

MemFairSpec ==
    MemSpec /\ \A r \in Readers : WF_memVars(SearchStep(r) /\ UNCHANGED <<arena, nodeAt>>)

-----------------------------------------------------------------------------
(* Properties.                                                             *)

\* The memory the arena hands out is cut so that no two objects overlap and none
\* passes the end of its block, whatever was wasted before it; nodes are aligned.
ObjectsApart ==
    /\ RegionsApart(arena)
    /\ \A n \in Nodes : nodeAt[n] # NoRegion => Aligned(nodeAt[n])

Holds(n, l) == nodeAt[n] # NoRegion /\ EndOfLink(l) <= nodeAt[n].bytes

\* new_node sizes a node by its height and next_ is indexed beyond its declared
\* length: every pointer stored in a node, or read by a search, lies in the node's
\* own memory.
LinksInside ==
    /\ \A p \in DOMAIN stores : Holds(stores[p].node, stores[p].level)
    /\ \A r \in Readers : reader[r].pc \notin {Idle, "fault"} => Holds(reader[r].x, reader[r].level)

\* The list's memory is its own: no pointer is stored into another object's.
MemorySafe == ObjectsApart /\ LinksInside
=============================================================================
