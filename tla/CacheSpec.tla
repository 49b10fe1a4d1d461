------------------------------ MODULE CacheSpec ------------------------------
(***************************************************************************)
(* What one shard of the block/table cache promises its callers            *)
(* (cache.h:15-33): a key maps to at most one entry; a handle returned by  *)
(* insert or look_up pins its entry; the deleter of an entry runs exactly  *)
(* when the entry is neither mapped nor pinned any more; eviction takes an *)
(* entry nobody has pinned, and only while an insert or a prune runs.      *)
(* LRUCache implements this specification.                                 *)
(***************************************************************************)
EXTENDS Integers

CONSTANTS Keys,       \* keys of the shard
          Handles,    \* identities of the entries ever allocated
          NoHandle    \* the null handle, not one of them

VARIABLES mapping,    \* the entry a look_up of the key returns
          pins,       \* handles given out and not released, per entry
          values,     \* entries whose deleter has not run
          running,    \* the looping operation that holds the mutex
          open        \* FALSE once the cache is destroyed

specVars == <<mapping, pins, values, running, open>>

Mapped(m) == {h \in Handles : \E k \in Keys : m[k] = h}
Pinned(p) == {h \in Handles : p[h] > 0}

\* The deleter runs in the very step that makes an entry unreachable.
Reclaim(candidates) == values' = candidates \cap (Mapped(mapping') \cup Pinned(pins'))

SpecInit ==
    /\ mapping = [k \in Keys |-> NoHandle]
    /\ pins = [h \in Handles |-> 0]
    /\ values = {}
    /\ running = "none"
    /\ open = TRUE

SpecInsert(k, h) ==
    /\ open /\ running = "none"
    /\ h \notin values
    /\ mapping' \in {mapping, [mapping EXCEPT ![k] = h]}   \* capacity 0: not cached
    /\ pins' = [pins EXCEPT ![h] = 1]
    /\ Reclaim(values \cup {h})
    /\ running' = "insert"
    /\ UNCHANGED open

SpecLookUp(k) ==
    /\ open /\ running = "none"
    /\ mapping[k] # NoHandle
    /\ pins' = [pins EXCEPT ![mapping[k]] = @ + 1]
    /\ UNCHANGED <<mapping, values, running, open>>

SpecRelease(h) ==
    /\ open /\ running = "none"
    /\ pins[h] > 0
    /\ pins' = [pins EXCEPT ![h] = @ - 1]
    /\ mapping' = mapping
    /\ Reclaim(values)
    /\ UNCHANGED <<running, open>>

SpecErase(k) ==
    /\ open /\ running = "none"
    /\ mapping' = [mapping EXCEPT ![k] = NoHandle]
    /\ pins' = pins
    /\ Reclaim(values)
    /\ UNCHANGED <<running, open>>

SpecPrune == open /\ running = "none" /\ running' = "prune" /\ UNCHANGED <<mapping, pins, values, open>>

SpecEvict(k) ==
    /\ open /\ running # "none"
    /\ mapping[k] # NoHandle
    /\ pins[mapping[k]] = 0
    /\ mapping' = [mapping EXCEPT ![k] = NoHandle]
    /\ pins' = pins
    /\ Reclaim(values)
    /\ UNCHANGED <<running, open>>

SpecDone == open /\ running # "none" /\ running' = "none" /\ UNCHANGED <<mapping, pins, values, open>>

SpecDestroy ==
    /\ open /\ running = "none"
    /\ Pinned(pins) = {}
    /\ mapping' = [k \in Keys |-> NoHandle]
    /\ values' = {}
    /\ open' = FALSE
    /\ UNCHANGED <<pins, running>>

SpecNext ==
    \/ \E k \in Keys, h \in Handles : SpecInsert(k, h)
    \/ \E k \in Keys : SpecLookUp(k) \/ SpecErase(k) \/ SpecEvict(k)
    \/ \E h \in Handles : SpecRelease(h)
    \/ SpecPrune \/ SpecDone \/ SpecDestroy

CacheContract == SpecInit /\ [][SpecNext]_specVars
=============================================================================
