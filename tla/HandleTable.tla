----------------------------- MODULE HandleTable -----------------------------
(***************************************************************************)
(* handle_table of cache.cc: an array of buckets, each a chain of entries  *)
(* linked through next_hash.  A slot (lru_handle** in the code) is either  *)
(* a bucket, written as its number, or the next_hash field of an entry,    *)
(* written as the entry.  The walk along a chain and the moves of resize   *)
(* take one step each; lru_cache's mutex keeps other calls out meanwhile.  *)
(***************************************************************************)
EXTENDS Integers, FiniteSets

CONSTANTS Keys,
          Handles,        \* the entries lru_cache may pass
          Null,           \* nullptr
          KeyOf,          \* the key of an entry
          HashOf,         \* the hash of a key
          InitialLength   \* the length of the smallest table

ASSUME EntriesAssumption == KeyOf \in [Handles -> Keys] /\ HashOf \in [Keys -> Nat]
ASSUME NullAssumption == Null \notin Handles
ASSUME HandlesAssumption == IsFiniteSet(Handles) /\ Handles \cap Nat = {}
ASSUME LengthAssumption == InitialLength \in Nat \ {0}

VARIABLES length,     \* length_
          elems,      \* elems_
          list,       \* list_
          next_hash,  \* of every entry, those outside the table included
          call,       \* the call in progress and its ptr
          resize,     \* the locals of resize
          result      \* what the last call returned

vars == <<length, elems, list, next_hash, call, resize, result>>

NoCall == [pc |-> "idle"]
NoResize == [pc |-> "idle"]
Resize == [pc |-> "grow", length |-> InitialLength]
Bucket(k, len) == HashOf[k] % len       \* hash & ( len - 1 ), len a power of two

Content(slot) == IF slot \in Handles THEN next_hash[slot] ELSE list[slot]
Store(slot, e, chains) ==
    /\ list' = IF slot \in Handles THEN list ELSE [list EXCEPT ![slot] = e]
    /\ next_hash' = IF slot \in Handles THEN [chains EXCEPT ![slot] = e] ELSE chains

-----------------------------------------------------------------------------
(* Where an entry can be reached.                                          *)

\* The chain that begins with e; on a cycle, every entry once.
Chain(e) ==
    LET from[left \in SUBSET Handles] ==
          [x \in Handles \cup {Null} |->
             IF x \in left THEN {x} \cup from[left \ {x}][next_hash[x]] ELSE {}]
    IN  from[Handles][e]

InBuckets(buckets) == UNION {Chain(buckets[b]) : b \in DOMAIN buckets}
InTable ==
    IF resize.pc # "move" THEN InBuckets(list)
    ELSE InBuckets(resize.list) \cup Chain(resize.entry)
         \cup InBuckets([b \in (resize.i + 1)..(length - 1) |-> list[b]])

-----------------------------------------------------------------------------
\* find_pointer starts at the bucket of the key.
Begin(kind, k, e) ==
    /\ call = NoCall /\ resize = NoResize
    /\ call' = [pc |-> "find", kind |-> kind, key |-> k, entry |-> e, ptr |-> Bucket(k, length)]
    /\ UNCHANGED <<length, elems, list, next_hash, resize, result>>

LookUp(k) == Begin("look_up", k, Null)
Insert(h) == Begin("insert", KeyOf[h], h) /\ h \notin InTable   \* a new entry
Remove(k) == Begin("remove", k, Null)

Matches(e) == e # Null => KeyOf[e] = call.key

\* The loop of find_pointer.
Walk ==
    /\ call # NoCall
    /\ ~Matches(Content(call.ptr))
    /\ call' = [call EXCEPT !.ptr = Content(call.ptr)]
    /\ UNCHANGED <<length, elems, list, next_hash, resize, result>>

Found(kind) ==
    /\ call # NoCall /\ call.kind = kind
    /\ Matches(Content(call.ptr))
    /\ result' = Content(call.ptr)
    /\ call' = NoCall

LookUpFound ==
    /\ Found("look_up")
    /\ UNCHANGED <<length, elems, list, next_hash, resize>>

\* Mutants: the entry that is displaced takes the rest of the chain with it;
\* a link from an earlier stay is not reset.
InsertFound_DropsRest ==
    /\ Found("insert")
    /\ Store(call.ptr, call.entry, [next_hash EXCEPT ![call.entry] = Null])
    /\ elems' = IF result' = Null THEN elems + 1 ELSE elems
    /\ resize' = IF elems' > length THEN Resize ELSE NoResize
    /\ UNCHANGED length
InsertFound_StaleLink ==
    /\ Found("insert")
    /\ Store(call.ptr, call.entry,
             IF result' = Null THEN next_hash
             ELSE [next_hash EXCEPT ![call.entry] = next_hash[result']])
    /\ elems' = IF result' = Null THEN elems + 1 ELSE elems
    /\ resize' = IF elems' > length THEN Resize ELSE NoResize
    /\ UNCHANGED length

\* The new entry takes the place of the one with its key, or the end of the chain.
InsertFound ==
    /\ Found("insert")
    /\ Store(call.ptr, call.entry,
             [next_hash EXCEPT ![call.entry] = IF result' = Null THEN Null ELSE next_hash[result']])
    /\ elems' = IF result' = Null THEN elems + 1 ELSE elems
    /\ resize' = IF elems' > length THEN Resize ELSE NoResize
    /\ UNCHANGED length

\* Mutant: elems_ is not reduced.
RemoveFound_KeepsElems ==
    /\ Found("remove")
    /\ IF result' = Null THEN UNCHANGED <<list, next_hash>>
       ELSE Store(call.ptr, next_hash[result'], next_hash)
    /\ UNCHANGED <<length, elems, resize>>

RemoveFound ==
    /\ Found("remove")
    /\ IF result' = Null THEN UNCHANGED <<list, next_hash, elems>>
       ELSE Store(call.ptr, next_hash[result'], next_hash) /\ elems' = elems - 1
    /\ UNCHANGED <<length, resize>>

-----------------------------------------------------------------------------
(* resize.                                                                 *)

\* The new length doubles until it is not smaller than elems_.
GrowLength ==
    /\ resize.pc = "grow"
    /\ resize.length < elems
    /\ resize' = [resize EXCEPT !.length = 2 * @]
    /\ UNCHANGED <<length, elems, list, next_hash, call, result>>

ResizeStart ==
    /\ resize.pc = "grow"
    /\ ~(resize.length < elems)
    /\ resize' = [pc |-> "move", length |-> resize.length,
                  list |-> [b \in 0..(resize.length - 1) |-> Null],
                  i |-> 0, entry |-> list[0], count |-> 0]
    /\ UNCHANGED <<length, elems, list, next_hash, call, result>>

MoveEntry ==
    /\ resize.pc = "move"
    /\ resize.entry # Null
    /\ LET e == resize.entry
           b == Bucket(KeyOf[e], resize.length)
       IN  /\ next_hash' = [next_hash EXCEPT ![e] = resize.list[b]]
           /\ resize' = [resize EXCEPT !.list[b] = e, !.entry = next_hash[e], !.count = @ + 1]
    /\ UNCHANGED <<length, elems, list, call, result>>

NextBucket ==
    /\ resize.pc = "move"
    /\ resize.entry = Null
    /\ resize.i + 1 < length
    /\ resize' = [resize EXCEPT !.i = @ + 1, !.entry = list[resize.i + 1]]
    /\ UNCHANGED <<length, elems, list, next_hash, call, result>>

ResizeDone ==
    /\ resize.pc = "move"
    /\ resize.entry = Null
    /\ resize.i + 1 = length
    /\ list' = resize.list
    /\ length' = resize.length
    /\ resize' = NoResize
    /\ UNCHANGED <<elems, next_hash, call, result>>

-----------------------------------------------------------------------------
\* The constructor calls resize on the table of length 0.
Init ==
    /\ length = InitialLength
    /\ elems = 0
    /\ list = [b \in 0..(InitialLength - 1) |-> Null]
    /\ next_hash = [h \in Handles |-> Null]
    /\ call = NoCall
    /\ resize = NoResize
    /\ result = Null

Inner == Walk \/ LookUpFound \/ InsertFound \/ RemoveFound
         \/ GrowLength \/ ResizeStart \/ MoveEntry \/ NextBucket \/ ResizeDone

Next == \/ \E k \in Keys : LookUp(k) \/ Remove(k)
        \/ \E h \in Handles : Insert(h)
        \/ Inner

Spec == Init /\ [][Next]_vars

\* A thread inside a call runs on.
FairSpec == Spec /\ WF_vars(Inner)

-----------------------------------------------------------------------------
(* Properties.                                                             *)

\* The table implements a map from keys to entries, whatever its chains look
\* like and while resize takes them apart: lru_cache's LRUCache relies on it.
EntryOf(k) ==
    LET there == IF resize.pc # "move" THEN Chain(list[Bucket(k, length)]) ELSE InTable
        found == {e \in there : KeyOf[e] = k}
    IN  IF found = {} THEN Null ELSE CHOOSE e \in found : TRUE
Table == INSTANCE TableSpec WITH
    mapping <- [k \in Keys |-> EntryOf(k)],
    request <- IF call = NoCall THEN [kind |-> "none"]
               ELSE [kind |-> call.kind, key |-> call.key, entry |-> call.entry]
ImplementsMap == Table!TableContract

\* "assert( elems_ == count )" of resize (cache.cc:147), and its cause: elems_ is
\* the number of entries in the table, at every step of a resize too.
ElemsExact ==
    /\ elems = Cardinality(InTable)
    /\ resize.pc = "move" /\ resize.entry = Null /\ resize.i + 1 = length => resize.count = elems

\* Every call returns: no chain becomes a cycle, in resize either.
CallsEnd == call # NoCall \/ resize # NoResize ~> call = NoCall /\ resize = NoResize
=============================================================================
