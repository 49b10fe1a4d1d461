------------------------------- MODULE LRUCache -------------------------------
(***************************************************************************)
(* One shard of the cache: lru_cache and lru_handle of                     *)
(* src/src/leveldb/cache.cc.  Every operation runs under the shard's       *)
(* mutex, so it is one action, except the two eviction loops (of insert    *)
(* and of prune): they take one step per iteration with the mutex held     *)
(* (running # "none"), and no other operation may start meanwhile.         *)
(*                                                                         *)
(* The shard is a record.  The operators below are its member functions,   *)
(* from a shard to the shard they leave.                                   *)
(***************************************************************************)
EXTENDS Integers, Sequences, FiniteSets

CONSTANTS Keys,       \* keys that hash to this shard
          Handles,    \* addresses malloc can return
          NoHandle,   \* nullptr
          Capacities, \* the capacities a cache is created with
          Charges,    \* the charges callers pass
          MaxHeld     \* bound on the handles a client keeps of one entry

ASSUME KeysAssumption == Keys # {}
ASSUME NoHandleAssumption == NoHandle \notin Handles
ASSUME CapacitiesAssumption == Capacities \subseteq Nat
ASSUME ChargesAssumption == Charges \subseteq Nat
ASSUME MaxHeldAssumption == MaxHeld \in Nat

VARIABLES shard,      \* the lru_cache object and the heap of its entries
          held,       \* handles returned to clients and not yet released
          running,    \* "insert" or "prune" while their loop holds mutex_
          open        \* FALSE once ~lru_cache has run

vars == <<shard, held, running, open>>

-----------------------------------------------------------------------------
(* The shard: live is the set of allocated entries; lru is the LRU list,   *)
(* oldest first (lru_.next); in_use is the other list, whose order is      *)
(* immaterial; table is the hash table.                                    *)

EmptyShard(capacity) ==
    [capacity |-> capacity,
     live     |-> {},
     key      |-> [h \in Handles |-> CHOOSE k \in Keys : TRUE],
     charge   |-> [h \in Handles |-> 0],
     refs     |-> [h \in Handles |-> 0],
     in_cache |-> {},
     lru      |-> <<>>,
     in_use   |-> {},
     table    |-> [k \in Keys |-> NoHandle],
     usage    |-> 0]

Elements(list) == {list[i] : i \in DOMAIN list}

Unlink(list, e) ==
    LET i == CHOOSE j \in DOMAIN list : list[j] = e
    IN  [n \in 1..(Len(list) - 1) |-> IF n < i THEN list[n] ELSE list[n + 1]]

\* lru_remove takes e out of whichever list it is linked in.
LruRemove(s, e) ==
    [s EXCEPT !.lru = IF e \in Elements(s.lru) THEN Unlink(s.lru, e) ELSE s.lru,
              !.in_use = s.in_use \ {e}]

LruAppend(s, e) == [s EXCEPT !.lru = Append(s.lru, e)]
InUseAppend(s, e) == [s EXCEPT !.in_use = s.in_use \cup {e}]

\* Mutant: the entry stays in the LRU list.
Ref_KeepsList(s, e) == [s EXCEPT !.refs[e] = s.refs[e] + 1]

Ref(s, e) ==
    LET moved == IF s.refs[e] = 1 /\ e \in s.in_cache
                   THEN InUseAppend(LruRemove(s, e), e)
                   ELSE s
    IN  [moved EXCEPT !.refs[e] = s.refs[e] + 1]

\* Mutant: an entry that is no longer in use does not return to the LRU list.
UnRef_KeepsList(s, e) ==
    IF s.refs[e] = 1
      THEN [s EXCEPT !.refs[e] = 0, !.live = s.live \ {e}]
      ELSE [s EXCEPT !.refs[e] = s.refs[e] - 1]

UnRef(s, e) ==
    LET dropped == [s EXCEPT !.refs[e] = s.refs[e] - 1]
    IN  IF s.refs[e] = 1
          THEN [dropped EXCEPT !.live = s.live \ {e}]         \* deleter, free
          ELSE IF e \in s.in_cache /\ s.refs[e] = 2
            THEN LruAppend(LruRemove(dropped, e), e)
            ELSE dropped

\* Mutants: in_cache is not reset; usage_ is not reduced; a held entry is freed.
FinishErase_KeepsInCache(s, e) ==
    UnRef([LruRemove(s, e) EXCEPT !.usage = s.usage - s.charge[e]], e)
FinishErase_KeepsUsage(s, e) ==
    UnRef([LruRemove(s, e) EXCEPT !.in_cache = s.in_cache \ {e}], e)
FinishErase_Frees(s, e) ==
    [LruRemove(s, e) EXCEPT !.in_cache = s.in_cache \ {e}, !.refs[e] = 0,
                            !.usage = s.usage - s.charge[e], !.live = s.live \ {e}]

\* e is not nullptr and has left the hash table.
FinishErase(s, e) ==
    UnRef([LruRemove(s, e) EXCEPT !.in_cache = s.in_cache \ {e},
                                  !.usage = s.usage - s.charge[e]], e)

\* table_.remove followed by finish_erase, which does nothing for nullptr.
EraseKey(s, k) ==
    IF s.table[k] = NoHandle
      THEN s
      ELSE FinishErase([s EXCEPT !.table[k] = NoHandle], s.table[k])

\* A new entry with the reference of the handle that insert returns.
Allocate(s, h, k, c) ==
    [s EXCEPT !.live = s.live \cup {h}, !.key[h] = k, !.charge[h] = c, !.refs[h] = 1]

\* Mutant: the entry displaced from the table is not finished.
CacheEntry_KeepsOld(s, h, k, c) ==
    [InUseAppend(s, h) EXCEPT !.refs[h] = 2, !.in_cache = s.in_cache \cup {h},
                              !.usage = s.usage + c, !.table[k] = h]

\* The entry gets the cache's reference and displaces an entry of its key.
CacheEntry(s, h, k, c) ==
    LET cached == [InUseAppend(s, h) EXCEPT !.refs[h] = 2,
                                            !.in_cache = s.in_cache \cup {h},
                                            !.usage = s.usage + c,
                                            !.table[k] = h]
    IN  IF s.table[k] = NoHandle THEN cached ELSE FinishErase(cached, s.table[k])

-----------------------------------------------------------------------------
Init ==
    /\ \E capacity \in Capacities : shard = EmptyShard(capacity)
    /\ held = [h \in Handles |-> 0]
    /\ running = "none"
    /\ open = TRUE

MutexFree == open /\ running = "none"

Insert(k, h, c) ==
    /\ MutexFree
    /\ h \notin shard.live
    /\ shard' = LET s == Allocate(shard, h, k, c)
                IN  IF shard.capacity > 0 THEN CacheEntry(s, h, k, c) ELSE s
    /\ held' = [held EXCEPT ![h] = 1]
    /\ running' = "insert"
    /\ UNCHANGED open

LookUp(k) ==
    /\ MutexFree
    /\ LET e == shard.table[k] IN
         /\ e # NoHandle
         /\ held[e] < MaxHeld
         /\ shard' = Ref(shard, e)
         /\ held' = [held EXCEPT ![e] = @ + 1]
    /\ UNCHANGED <<running, open>>

\* Clients release only handles they were given.
Release(h) ==
    /\ MutexFree
    /\ held[h] > 0
    /\ shard' = UnRef(shard, h)
    /\ held' = [held EXCEPT ![h] = @ - 1]
    /\ UNCHANGED <<running, open>>

Erase(k) ==
    /\ MutexFree
    /\ shard' = EraseKey(shard, k)
    /\ UNCHANGED <<held, running, open>>

Prune ==
    /\ MutexFree
    /\ running' = "prune"
    /\ UNCHANGED <<shard, held, open>>

\* Mutant: the loop tolerates one unit too many.
MustEvict_OffByOne ==
    /\ shard.lru # <<>>
    /\ running = "insert" => shard.usage > shard.capacity + 1

\* The loop conditions of insert and of prune.
MustEvict ==
    /\ shard.lru # <<>>
    /\ running = "insert" => shard.usage > shard.capacity

\* One iteration: the key of the oldest entry is removed from the table.
EvictOldest ==
    /\ running \in {"insert", "prune"}
    /\ MustEvict
    /\ shard' = EraseKey(shard, shard.key[Head(shard.lru)])
    /\ UNCHANGED <<held, running, open>>

LoopDone ==
    /\ running \in {"insert", "prune"}
    /\ ~MustEvict
    /\ running' = "none"
    /\ UNCHANGED <<shard, held, open>>

\* ~lru_cache, called when every handle is released: every entry of the LRU
\* list loses its last reference.
Destroy ==
    /\ MutexFree
    /\ \A h \in Handles : held[h] = 0
    /\ open' = FALSE
    /\ LET gone == Elements(shard.lru) IN
         shard' = [shard EXCEPT !.live = shard.live \ gone,
                                !.in_cache = shard.in_cache \ gone,
                                !.refs = [h \in Handles |-> IF h \in gone THEN 0 ELSE @[h]],
                                !.table = [k \in Keys |-> NoHandle]]
    /\ UNCHANGED <<held, running>>

Terminated == ~open /\ UNCHANGED vars

Next ==
    \/ \E k \in Keys, h \in Handles, c \in Charges : Insert(k, h, c)
    \/ \E k \in Keys : LookUp(k) \/ Erase(k)
    \/ \E h \in Handles : Release(h)
    \/ Prune \/ EvictOldest \/ LoopDone \/ Destroy
    \/ Terminated

\* A thread inside insert or prune keeps running its loop.
Fairness == WF_vars(EvictOldest) /\ WF_vars(LoopDone)

Spec == Init /\ [][Next]_vars
FairSpec == Spec /\ Fairness
-----------------------------------------------------------------------------
(* Properties.                                                             *)

Shards ==
    [capacity : Nat,
     live     : SUBSET Handles,
     key      : [Handles -> Keys],
     charge   : [Handles -> Nat],
     refs     : [Handles -> Nat],
     in_cache : SUBSET Handles,
     lru      : Seq(Handles),
     in_use   : SUBSET Handles,
     table    : [Keys -> Handles \cup {NoHandle}],
     usage    : Int]

\* Type invariant of the shard, its clients' handles and the mutex.
TypeOK ==
    /\ shard \in Shards
    /\ held \in [Handles -> Nat]
    /\ running \in {"none", "insert", "prune"}
    /\ open \in BOOLEAN

\* "refs: References, including cache reference, if present" (cache.cc:55):
\* the count of an allocated entry is the number of handles clients hold plus
\* one for the cache, and what a client holds is never freed.
RefsExact ==
    \A h \in Handles :
        /\ h \in shard.live =>
             /\ shard.refs[h] = held[h] + (IF h \in shard.in_cache THEN 1 ELSE 0)
             /\ shard.refs[h] > 0
        /\ h \notin shard.live => held[h] = 0 /\ h \notin shard.in_cache

\* Comments at cache.cc:30-39 and 189-196: the LRU list holds exactly the
\* cached entries with refs == 1, each once; the in-use list exactly the cached
\* entries with refs >= 2; an erased entry that is still held is in neither.
ListsMatchRefs ==
    open =>
      /\ Elements(shard.lru) = {h \in shard.in_cache : held[h] = 0}
      /\ \A i, j \in DOMAIN shard.lru : shard.lru[i] = shard.lru[j] => i = j
      /\ shard.in_use = {h \in shard.in_cache : held[h] > 0}

\* An entry is in the hash table, under its own key, exactly while in_cache is
\* set (handle_table and in_cache are updated in different places).
TableIsCache ==
    /\ \A k \in Keys : LET e == shard.table[k] IN
         e # NoHandle => e \in shard.in_cache /\ shard.key[e] = k
    /\ \A h \in shard.in_cache : shard.table[shard.key[h]] = h

\* The charge of a set of entries, one element for each unit.
Units(charge, entries) == UNION {{h} \X (1..charge[h]) : h \in entries}

\* usage_ is the total charge of the cached entries: no path adds a charge
\* twice or forgets to subtract it, which would make the shard evict forever
\* or never.
UsageIsCharge ==
    open => shard.usage = Cardinality(Units(shard.charge, shard.in_cache))

\* After ~lru_cache no entry is left allocated: every deleter has run.
NothingLeaked == ~open => shard.live = {}

\* An insert leaves the shard within its capacity, unless every cached entry is
\* held by a client: the eviction loop may stop early only for want of evictable
\* entries.  (A release may exceed it again: un_ref does not evict.)
CapacityKept ==
    [][running = "insert" /\ running' = "none" =>
         shard.usage <= shard.capacity \/ \A h \in shard.in_cache : held[h] > 0]_vars

\* The loops of insert and prune give the mutex back, an insert when the capacity
\* is kept.
CapacityRestored == (running # "none" ~> running = "none") /\ CapacityKept

\* The shard implements what the cache promises its callers.
Contract == INSTANCE CacheSpec WITH
    mapping <- shard.table, pins <- held, values <- shard.live
ImplementsContract == Contract!CacheContract
=============================================================================
