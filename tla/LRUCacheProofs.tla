--------------------------- MODULE LRUCacheProofs ---------------------------
(***************************************************************************)
(* The invariants of a cache shard hold for every set of keys, handles,    *)
(* charges and capacities.                                                 *)
(***************************************************************************)
EXTENDS LRUCache, FiniteSetTheorems, TLAPS

NoDup(list) == \A i, j \in DOMAIN list : list[i] = list[j] => i = j

\* Unlinking e from a list keeps the other elements, each once.
LEMMA UnlinkElements ==
    ASSUME NEW S, NEW list \in Seq(S), NoDup(list), NEW e \in Elements(list)
    PROVE  /\ Unlink(list, e) \in Seq(S)
           /\ NoDup(Unlink(list, e))
           /\ Elements(Unlink(list, e)) = Elements(list) \ {e}
<1> DEFINE i == CHOOSE j \in DOMAIN list : list[j] = e
           out == Unlink(list, e)
<1>1. i \in 1..Len(list) /\ list[i] = e
  BY DEF Elements
<1>2. out = [n \in 1..(Len(list) - 1) |-> IF n < i THEN list[n] ELSE list[n + 1]]
  BY DEF Unlink
<1> HIDE DEF i, out
<1>3. /\ out \in Seq(S)
      /\ DOMAIN out = 1..(Len(list) - 1)
      /\ \A n \in 1..(Len(list) - 1) : out[n] = IF n < i THEN list[n] ELSE list[n + 1]
  <2>1. Len(list) - 1 \in Nat
    BY <1>1
  <2>2. \A n \in 1..(Len(list) - 1) : out[n] \in S
    BY <1>1, <1>2
  <2> QED
    BY <1>2, <2>1, <2>2
<1>4. NoDup(out)
  <2> SUFFICES ASSUME NEW m \in 1..(Len(list) - 1), NEW n \in 1..(Len(list) - 1),
                      out[m] = out[n]
               PROVE  m = n
    BY <1>3 DEF NoDup
  <2> DEFINE at(k) == IF k < i THEN k ELSE k + 1
  <2>1. at(m) \in DOMAIN list /\ at(n) \in DOMAIN list
    BY <1>1
  <2>2. list[at(m)] = list[at(n)]
    BY <1>3
  <2>3. at(m) = at(n)
    BY <2>1, <2>2 DEF NoDup
  <2> QED
    BY <1>1, <2>3
<1>5. Elements(out) \subseteq Elements(list) \ {e}
  <2> SUFFICES ASSUME NEW n \in 1..(Len(list) - 1)
               PROVE  out[n] \in Elements(list) \ {e}
    BY <1>3 DEF Elements
  <2> DEFINE at == IF n < i THEN n ELSE n + 1
  <2>1. at \in DOMAIN list /\ at # i /\ i \in DOMAIN list
    BY <1>1
  <2>2. out[n] = list[at]
    BY <1>3
  <2>3. list[at] # list[i]
    BY <2>1 DEF NoDup
  <2> QED
    BY <1>1, <2>1, <2>2, <2>3 DEF Elements
<1>6. Elements(list) \ {e} \subseteq Elements(out)
  <2> SUFFICES ASSUME NEW x \in Elements(list), x # e
               PROVE  \E m \in DOMAIN out : out[m] = x
    BY DEF Elements
  <2> PICK n \in DOMAIN list : list[n] = x
    BY DEF Elements
  <2>1. CASE n < i
    BY <1>1, <1>3, <2>1
  <2>2. CASE n > i
    <3>1. n - 1 \in 1..(Len(list) - 1) /\ ~(n - 1 < i) /\ (n - 1) + 1 = n
      BY <1>1, <2>2
    <3> QED
      BY <1>3, <3>1
  <2> QED
    BY <1>1, <2>1, <2>2
<1> QED
  BY <1>3, <1>4, <1>5, <1>6 DEF out

\* Appending a new element to a list keeps its elements distinct.
LEMMA AppendElements ==
    ASSUME NEW S, NEW list \in Seq(S), NoDup(list), NEW e \in S, e \notin Elements(list)
    PROVE  /\ Append(list, e) \in Seq(S)
           /\ NoDup(Append(list, e))
           /\ Elements(Append(list, e)) = Elements(list) \cup {e}
<1>1. /\ Append(list, e) \in Seq(S)
      /\ Len(Append(list, e)) = Len(list) + 1
      /\ \A n \in 1..(Len(list) + 1) :
           Append(list, e)[n] = IF n = Len(list) + 1 THEN e ELSE list[n]
  OBVIOUS
<1>2. NoDup(Append(list, e))
  BY <1>1 DEF NoDup, Elements
<1>3. Elements(Append(list, e)) = Elements(list) \cup {e}
  BY <1>1 DEF Elements
<1> QED
  BY <1>1, <1>2, <1>3

-----------------------------------------------------------------------------
(* The inductive invariant, of a shard s and the handles p its clients     *)
(* hold; d is the entry that has left the table and is about to be         *)
(* finished, NoHandle when there is none.                                  *)

Counted(s, p) ==
    \A h \in Handles :
        /\ h \in s.live =>
             /\ s.refs[h] = p[h] + (IF h \in s.in_cache THEN 1 ELSE 0)
             /\ s.refs[h] > 0
        /\ h \notin s.live => p[h] = 0 /\ h \notin s.in_cache

Listed(s, p) ==
    /\ Elements(s.lru) = {h \in s.in_cache : p[h] = 0}
    /\ NoDup(s.lru)
    /\ s.in_use = {h \in s.in_cache : p[h] > 0}

Tabled(s, d) ==
    /\ \A k \in Keys : s.table[k] # NoHandle =>
         s.table[k] \in s.in_cache \ {d} /\ s.key[s.table[k]] = k
    /\ \A h \in s.in_cache \ {d} : s.table[s.key[h]] = h

ShardInv(s, p, d) ==
    /\ s \in Shards
    /\ p \in [Handles -> Nat]
    /\ Counted(s, p)
    /\ Listed(s, p)
    /\ Tabled(s, d)

\* The types of a shard's fields.
LEMMA FieldTypes ==
    ASSUME NEW s \in Shards
    PROVE  /\ s.live \in SUBSET Handles /\ s.in_cache \in SUBSET Handles
           /\ s.in_use \in SUBSET Handles /\ s.lru \in Seq(Handles)
           /\ s.key \in [Handles -> Keys] /\ s.charge \in [Handles -> Nat]
           /\ s.refs \in [Handles -> Nat]
           /\ s.table \in [Keys -> Handles \cup {NoHandle}]
           /\ s.usage \in Int /\ s.capacity \in Nat
BY DEF Shards

\* lru_remove takes an entry out of its list and changes nothing else.
LEMMA LruRemoveEffect ==
    ASSUME NEW s \in Shards, NoDup(s.lru), NEW e \in Handles
    PROVE  /\ LruRemove(s, e) \in Shards
           /\ LruRemove(s, e) = [s EXCEPT !.lru = LruRemove(s, e).lru,
                                          !.in_use = s.in_use \ {e}]
           /\ NoDup(LruRemove(s, e).lru)
           /\ Elements(LruRemove(s, e).lru) = Elements(s.lru) \ {e}
<1>1. s.lru \in Seq(Handles)
  BY DEF Shards
<1>2. CASE e \in Elements(s.lru)
  <2>1. /\ Unlink(s.lru, e) \in Seq(Handles)
        /\ NoDup(Unlink(s.lru, e))
        /\ Elements(Unlink(s.lru, e)) = Elements(s.lru) \ {e}
    BY <1>1, <1>2, UnlinkElements
  <2>2. LruRemove(s, e) = [s EXCEPT !.lru = Unlink(s.lru, e), !.in_use = s.in_use \ {e}]
    BY <1>2 DEF LruRemove
  <2> QED
    BY <2>1, <2>2 DEF Shards
<1>3. CASE e \notin Elements(s.lru)
  <2>1. LruRemove(s, e) = [s EXCEPT !.lru = s.lru, !.in_use = s.in_use \ {e}]
    BY <1>3 DEF LruRemove
  <2> QED
    BY ZenonT(30), <1>3, <2>1 DEF Shards
<1> QED
  BY <1>2, <1>3

\* finish_erase restores the invariant for the entry that left the table.
LEMMA FinishEraseInv ==
    ASSUME NEW s, NEW p, NEW d \in Handles, ShardInv(s, p, d), d \in s.in_cache
    PROVE  ShardInv(FinishErase(s, d), p, NoHandle)
<1> DEFINE r == LruRemove(s, d)
           a == [r EXCEPT !.in_cache = s.in_cache \ {d}, !.usage = s.usage - s.charge[d]]
           f == FinishErase(s, d)
<1>1. s \in Shards /\ p \in [Handles -> Nat] /\ NoDup(s.lru)
  BY DEF ShardInv, Listed
<1>2. /\ r \in Shards
      /\ r = [s EXCEPT !.lru = r.lru, !.in_use = s.in_use \ {d}]
      /\ NoDup(r.lru)
      /\ Elements(r.lru) = Elements(s.lru) \ {d}
  BY <1>1, LruRemoveEffect
<1> HIDE DEF r
<1>3. /\ a.live = s.live /\ a.key = s.key /\ a.refs = s.refs /\ a.table = s.table
      /\ a.lru = r.lru /\ a.in_use = s.in_use \ {d} /\ a.in_cache = s.in_cache \ {d}
      /\ a \in Shards
  <2>1. s.usage - s.charge[d] \in Int /\ s.in_cache \ {d} \in SUBSET Handles
    BY <1>1 DEF Shards
  <2>2. /\ r \in Shards
        /\ r.live = s.live /\ r.key = s.key /\ r.refs = s.refs /\ r.table = s.table
        /\ r.in_use = s.in_use \ {d}
    <3>1. s \in Shards /\ r = [s EXCEPT !.lru = r.lru, !.in_use = s.in_use \ {d}]
      BY <1>1, <1>2
    <3> QED
      BY <1>2, <3>1 DEF Shards
  <2> QED
    BY <2>1, <2>2 DEF Shards
<1>4. f = UnRef(a, d)
  BY DEF FinishErase, r
<1> HIDE DEF a, f
<1>5. d \in s.live /\ s.refs[d] = p[d] + 1
  BY <1>1 DEF ShardInv, Counted
<1>6. Listed(a, p) /\ Tabled(a, NoHandle)
  <2>1. Listed(a, p)
    BY <1>2, <1>3 DEF ShardInv, Listed
  <2>2. Tabled(a, NoHandle)
    BY <1>3, NoHandleAssumption DEF ShardInv, Tabled, Shards
  <2> QED
    BY <2>1, <2>2
<1>7. /\ f \in Shards /\ f.key = a.key /\ f.table = a.table /\ f.in_cache = a.in_cache
      /\ f.lru = a.lru /\ f.in_use = a.in_use
      /\ f.refs = [s.refs EXCEPT ![d] = p[d]]
      /\ f.live = IF p[d] = 0 THEN s.live \ {d} ELSE s.live
  <2>1. p[d] \in Nat /\ a.refs[d] = p[d] + 1 /\ d \notin a.in_cache
    BY <1>1, <1>3, <1>5
  <2> DEFINE b == [a EXCEPT !.refs[d] = a.refs[d] - 1]
  <2>2. b \in Shards /\ b = [a EXCEPT !.refs = [s.refs EXCEPT ![d] = p[d]]]
    <3>1. b = [a EXCEPT !.refs = [a.refs EXCEPT ![d] = a.refs[d] - 1]]
      OBVIOUS
    <3>2. a.refs[d] - 1 = p[d] /\ a.refs = s.refs
      BY <1>3, <2>1
    <3>3. [s.refs EXCEPT ![d] = p[d]] \in [Handles -> Nat]
      BY <1>1, <2>1, FieldTypes
    <3> QED
      BY <1>3, <3>1, <3>2, <3>3 DEF Shards
  <2>3. /\ b.key = a.key /\ b.table = a.table /\ b.in_cache = a.in_cache /\ b.live = a.live
        /\ b.lru = a.lru /\ b.in_use = a.in_use /\ b.refs = [s.refs EXCEPT ![d] = p[d]]
    BY <1>3, <2>2 DEF Shards
  <2>4. f = IF p[d] = 0 THEN [b EXCEPT !.live = a.live \ {d}] ELSE b
    BY <1>4, <2>1 DEF UnRef
  <2> HIDE DEF b
  <2> QED
    BY <1>3, <2>2, <2>3, <2>4 DEF Shards
<1>8. Counted(f, p)
  <2>1. s.refs \in [Handles -> Nat]
    BY <1>1, FieldTypes
  <2>2. \A h \in Handles : f.refs[h] = IF h = d THEN p[d] ELSE s.refs[h]
    BY <1>7, <2>1
  <2>3. \A h \in Handles \ {d} : h \in f.live <=> h \in s.live
    BY <1>7
  <2>4. \A h \in Handles \ {d} : h \in f.in_cache <=> h \in s.in_cache
    BY <1>3, <1>7
  <2>5. d \notin f.in_cache /\ (d \in f.live <=> p[d] # 0) /\ f.refs[d] = p[d]
    BY <1>3, <1>5, <1>7, <2>2
  <2>6. Counted(s, p) /\ p[d] \in Nat
    BY <1>1 DEF ShardInv
  <2>7. ASSUME NEW h \in Handles
        PROVE  /\ h \in f.live => /\ f.refs[h] = p[h] + (IF h \in f.in_cache THEN 1 ELSE 0)
                                  /\ f.refs[h] > 0
               /\ h \notin f.live => p[h] = 0 /\ h \notin f.in_cache
    <3>1. CASE h = d
      BY <2>5, <2>6, <3>1
    <3>2. CASE h # d
      BY <2>2, <2>3, <2>4, <2>6, <3>2 DEF Counted
    <3> QED
      BY <3>1, <3>2
  <2> QED
    BY <2>7 DEF Counted
<1>9. Listed(f, p) /\ Tabled(f, NoHandle)
  BY <1>6, <1>7 DEF Listed, Tabled
<1> QED
  BY <1>1, <1>7, <1>8, <1>9 DEF ShardInv, f

\* table_.remove and finish_erase keep the invariant, whatever the key maps to.
LEMMA EraseKeyInv ==
    ASSUME NEW s, NEW p, NEW k \in Keys, ShardInv(s, p, NoHandle)
    PROVE  ShardInv(EraseKey(s, k), p, NoHandle)
<1>1. CASE s.table[k] = NoHandle
  BY <1>1 DEF EraseKey
<1>2. CASE s.table[k] # NoHandle
  <2> DEFINE d == s.table[k]
             a == [s EXCEPT !.table[k] = NoHandle]
  <2>1. s \in Shards /\ d \in s.in_cache /\ d \in Handles /\ s.key[d] = k
    BY <1>2 DEF ShardInv, Tabled, Shards
  <2>2. /\ a \in Shards
        /\ a.live = s.live /\ a.key = s.key /\ a.refs = s.refs /\ a.in_cache = s.in_cache
        /\ a.lru = s.lru /\ a.in_use = s.in_use
        /\ a.table = [s.table EXCEPT ![k] = NoHandle]
    BY <2>1 DEF Shards
  <2>3. EraseKey(s, k) = FinishErase(a, d)
    BY <1>2 DEF EraseKey
  <2> HIDE DEF a
  <2>4. Tabled(a, d)
    <3>1. ASSUME NEW j \in Keys, a.table[j] # NoHandle
          PROVE  a.table[j] \in a.in_cache \ {d} /\ a.key[a.table[j]] = j
      BY <2>1, <2>2, <3>1 DEF ShardInv, Tabled, Shards
    <3>2. ASSUME NEW h \in a.in_cache \ {d}
          PROVE  a.table[a.key[h]] = h
      <4>1. h \in s.in_cache /\ h \in Handles /\ h # NoHandle
        BY <2>1, <2>2, FieldTypes, NoHandleAssumption
      <4>2. s.table[s.key[h]] = h /\ s.key[h] \in Keys
        BY <2>1, <4>1, FieldTypes DEF ShardInv, Tabled
      <4>3. s.key[h] # k
        BY <4>2
      <4> QED
        BY <2>1, <2>2, <4>2, <4>3, FieldTypes
    <3> QED
      BY <3>1, <3>2 DEF Tabled
  <2>5. ShardInv(a, p, d)
    BY <2>2, <2>4 DEF ShardInv, Counted, Listed
  <2> QED
    BY <2>1, <2>2, <2>3, <2>5, FinishEraseInv
<1> QED
  BY <1>1, <1>2

\* look_up gives out one more handle of a cached entry.
LEMMA RefInv ==
    ASSUME NEW s, NEW p, NEW e \in Handles, ShardInv(s, p, NoHandle), e \in s.in_cache
    PROVE  ShardInv(Ref(s, e), [p EXCEPT ![e] = @ + 1], NoHandle)
<1> DEFINE q == [p EXCEPT ![e] = @ + 1]
           m == IF p[e] = 0 THEN InUseAppend(LruRemove(s, e), e) ELSE s
           f == [m EXCEPT !.refs = [s.refs EXCEPT ![e] = s.refs[e] + 1]]
<1>1. /\ s \in Shards /\ p \in [Handles -> Nat] /\ NoDup(s.lru)
      /\ e \in s.live /\ s.refs[e] = p[e] + 1 /\ p[e] \in Nat
  BY DEF ShardInv, Listed, Counted
<1>2. /\ m \in Shards /\ m.live = s.live /\ m.key = s.key /\ m.refs = s.refs
      /\ m.table = s.table /\ m.in_cache = s.in_cache
      /\ m.in_use = IF p[e] = 0 THEN s.in_use \cup {e} ELSE s.in_use
      /\ NoDup(m.lru)
      /\ Elements(m.lru) = IF p[e] = 0 THEN Elements(s.lru) \ {e} ELSE Elements(s.lru)
  <2> DEFINE r == LruRemove(s, e)
  <2>1. /\ r \in Shards /\ NoDup(r.lru) /\ Elements(r.lru) = Elements(s.lru) \ {e}
        /\ r = [s EXCEPT !.lru = r.lru, !.in_use = s.in_use \ {e}]
    BY <1>1, LruRemoveEffect
  <2> HIDE DEF r
  <2>2. /\ r.live = s.live /\ r.key = s.key /\ r.refs = s.refs /\ r.table = s.table
        /\ r.in_cache = s.in_cache /\ r.in_use = s.in_use \ {e}
    BY <1>1, <2>1 DEF Shards
  <2>3. InUseAppend(r, e) \in Shards
    BY <2>1 DEF InUseAppend, Shards
  <2>4. /\ InUseAppend(r, e).live = s.live /\ InUseAppend(r, e).key = s.key
        /\ InUseAppend(r, e).refs = s.refs /\ InUseAppend(r, e).table = s.table
        /\ InUseAppend(r, e).in_cache = s.in_cache /\ InUseAppend(r, e).lru = r.lru
        /\ InUseAppend(r, e).in_use = s.in_use \cup {e}
    BY <2>1, <2>2 DEF InUseAppend, Shards
  <2> QED
    BY <1>1, <2>1, <2>3, <2>4 DEF r
<1>3. Ref(s, e) = f
  BY <1>1, <1>2 DEF Ref
<1> HIDE DEF m
<1>4. s.refs \in [Handles -> Nat] /\ [s.refs EXCEPT ![e] = s.refs[e] + 1] \in [Handles -> Nat]
  BY <1>1, FieldTypes
<1>5. /\ f \in Shards /\ f.live = s.live /\ f.key = s.key /\ f.table = s.table
      /\ f.in_cache = s.in_cache /\ f.in_use = m.in_use /\ f.lru = m.lru
      /\ f.refs = [s.refs EXCEPT ![e] = s.refs[e] + 1]
  BY <1>2, <1>4 DEF Shards
<1> HIDE DEF f
<1>6. q \in [Handles -> Nat] /\ q[e] = p[e] + 1 /\ \A h \in Handles \ {e} : q[h] = p[h]
  BY <1>1
<1> HIDE DEF q
<1>7. Counted(f, q)
  BY <1>1, <1>4, <1>5, <1>6 DEF ShardInv, Counted
<1>8. Listed(f, q)
  <2>1. s.in_cache \in SUBSET Handles
    BY <1>1, FieldTypes
  <2> QED
    BY <1>1, <1>2, <1>5, <1>6, <2>1 DEF ShardInv, Listed
<1>9. Tabled(f, NoHandle)
  BY <1>5 DEF ShardInv, Tabled
<1> QED
  BY <1>3, <1>5, <1>6, <1>7, <1>8, <1>9 DEF ShardInv, q

\* release takes back one handle: the entry is freed, returns to the LRU list,
\* or stays where it is.
LEMMA UnRefInv ==
    ASSUME NEW s, NEW p, NEW e \in Handles, ShardInv(s, p, NoHandle), p[e] > 0
    PROVE  ShardInv(UnRef(s, e), [p EXCEPT ![e] = @ - 1], NoHandle)
<1> DEFINE q == [p EXCEPT ![e] = @ - 1]
           b == [s EXCEPT !.refs = [s.refs EXCEPT ![e] = s.refs[e] - 1]]
           f == UnRef(s, e)
<1>1. /\ s \in Shards /\ p \in [Handles -> Nat] /\ NoDup(s.lru)
      /\ e \in s.live /\ p[e] \in Nat
      /\ s.refs[e] = p[e] + (IF e \in s.in_cache THEN 1 ELSE 0)
  BY DEF ShardInv, Listed, Counted
<1>2. s.refs \in [Handles -> Nat] /\ [s.refs EXCEPT ![e] = s.refs[e] - 1] \in [Handles -> Nat]
  BY <1>1, FieldTypes
<1>3. /\ b \in Shards /\ b.live = s.live /\ b.key = s.key /\ b.table = s.table
      /\ b.in_cache = s.in_cache /\ b.in_use = s.in_use /\ b.lru = s.lru
      /\ b.refs = [s.refs EXCEPT ![e] = s.refs[e] - 1]
  BY <1>1, <1>2 DEF Shards
<1>4. q \in [Handles -> Nat] /\ q[e] = p[e] - 1 /\ \A h \in Handles \ {e} : q[h] = p[h]
  BY <1>1
<1>5. /\ s.in_cache \in SUBSET Handles /\ s.live \in SUBSET Handles
      /\ e \notin Elements(s.lru)
      /\ e \in s.in_cache <=> e \in s.in_use
  BY <1>1, FieldTypes DEF ShardInv, Listed
<1>6. CASE s.refs[e] = 1
  <2>1. f = [b EXCEPT !.live = s.live \ {e}]
    BY <1>6 DEF UnRef
  <2>2. p[e] = 1 /\ e \notin s.in_cache
    BY <1>1, <1>6
  <2> HIDE DEF b, f, q
  <2>3. /\ f \in Shards /\ f.live = s.live \ {e} /\ f.key = s.key /\ f.table = s.table
        /\ f.in_cache = s.in_cache /\ f.in_use = s.in_use /\ f.lru = s.lru
        /\ f.refs = b.refs
    BY <1>3, <2>1 DEF Shards
  <2>4. Counted(f, q)
    BY <1>1, <1>2, <1>3, <1>4, <2>2, <2>3 DEF ShardInv, Counted
  <2>5. Listed(f, q)
    BY <1>4, <1>5, <2>2, <2>3 DEF ShardInv, Listed
  <2>6. Tabled(f, NoHandle)
    BY <2>3 DEF ShardInv, Tabled
  <2> QED
    BY <1>4, <2>3, <2>4, <2>5, <2>6 DEF ShardInv, f, q
<1>7. CASE e \in s.in_cache /\ s.refs[e] = 2
  <2> DEFINE r == LruRemove(b, e)
  <2>1. f = LruAppend(r, e)
    BY <1>7 DEF UnRef
  <2>2. p[e] = 1
    BY <1>1, <1>7
  <2> HIDE DEF b, f, q
  <2>3. /\ r \in Shards /\ NoDup(r.lru) /\ Elements(r.lru) = Elements(b.lru) \ {e}
        /\ r = [b EXCEPT !.lru = r.lru, !.in_use = b.in_use \ {e}]
    BY <1>1, <1>3, LruRemoveEffect
  <2> HIDE DEF r
  <2>4. /\ Append(r.lru, e) \in Seq(Handles) /\ NoDup(Append(r.lru, e))
        /\ Elements(Append(r.lru, e)) = Elements(r.lru) \cup {e}
    <3>1. r.lru \in Seq(Handles) /\ e \notin Elements(r.lru)
      BY <2>3, FieldTypes
    <3> QED
      BY <2>3, <3>1, AppendElements
  <2>5. /\ r.live = s.live /\ r.key = s.key /\ r.table = s.table /\ r.in_cache = s.in_cache
        /\ r.in_use = s.in_use \ {e} /\ r.refs = b.refs
    BY <1>3, <2>3 DEF Shards
  <2>6. /\ f \in Shards /\ f.live = s.live /\ f.key = s.key /\ f.table = s.table
        /\ f.in_cache = s.in_cache /\ f.in_use = s.in_use \ {e}
        /\ f.lru = Append(r.lru, e) /\ f.refs = b.refs
    BY <2>1, <2>3, <2>4, <2>5 DEF LruAppend, Shards
  <2>7. Counted(f, q)
    BY <1>1, <1>2, <1>3, <1>4, <1>7, <2>2, <2>6 DEF ShardInv, Counted
  <2>8. Listed(f, q)
    BY <1>3, <1>4, <1>5, <1>7, <2>2, <2>3, <2>4, <2>6 DEF ShardInv, Listed
  <2>9. Tabled(f, NoHandle)
    BY <2>6 DEF ShardInv, Tabled
  <2> QED
    BY <1>4, <2>6, <2>7, <2>8, <2>9 DEF ShardInv, f, q
<1>8. CASE s.refs[e] # 1 /\ ~(e \in s.in_cache /\ s.refs[e] = 2)
  <2>1. f = b
    BY <1>8 DEF UnRef
  <2>2. p[e] > 1
    BY <1>1, <1>8
  <2> HIDE DEF b, f, q
  <2>3. Counted(f, q)
    BY <1>1, <1>2, <1>3, <1>4, <2>1, <2>2 DEF ShardInv, Counted
  <2>4. Listed(f, q)
    BY <1>3, <1>4, <1>5, <2>1, <2>2 DEF ShardInv, Listed
  <2>5. Tabled(f, NoHandle)
    BY <1>3, <2>1 DEF ShardInv, Tabled
  <2> QED
    BY <1>3, <1>4, <2>1, <2>3, <2>4, <2>5 DEF ShardInv, f, q
<1> QED
  BY <1>6, <1>7, <1>8

\* A new entry belongs to its caller alone.
LEMMA AllocateInv ==
    ASSUME NEW s, NEW p, NEW h \in Handles, NEW k \in Keys, NEW c \in Nat,
           ShardInv(s, p, NoHandle), h \notin s.live
    PROVE  ShardInv(Allocate(s, h, k, c), [p EXCEPT ![h] = 1], NoHandle)
<1> DEFINE q == [p EXCEPT ![h] = 1]
           f == Allocate(s, h, k, c)
<1>1. /\ s \in Shards /\ p \in [Handles -> Nat] /\ p[h] = 0 /\ h \notin s.in_cache
  BY DEF ShardInv, Counted
<1>2. /\ f = [s EXCEPT !.live = s.live \cup {h}, !.key = [s.key EXCEPT ![h] = k],
                       !.charge = [s.charge EXCEPT ![h] = c],
                       !.refs = [s.refs EXCEPT ![h] = 1]]
  BY DEF Allocate
<1>3. /\ s.live \cup {h} \in SUBSET Handles
      /\ [s.key EXCEPT ![h] = k] \in [Handles -> Keys]
      /\ [s.charge EXCEPT ![h] = c] \in [Handles -> Nat]
      /\ [s.refs EXCEPT ![h] = 1] \in [Handles -> Nat]
      /\ s.key \in [Handles -> Keys] /\ s.refs \in [Handles -> Nat]
      /\ s.in_cache \in SUBSET Handles
  BY <1>1, FieldTypes
<1> HIDE DEF f
<1>4. /\ f \in Shards /\ f.live = s.live \cup {h} /\ f.key = [s.key EXCEPT ![h] = k]
      /\ f.refs = [s.refs EXCEPT ![h] = 1] /\ f.in_cache = s.in_cache
      /\ f.table = s.table /\ f.lru = s.lru /\ f.in_use = s.in_use
  BY <1>1, <1>2, <1>3 DEF Shards
<1>5. q \in [Handles -> Nat] /\ q[h] = 1 /\ \A g \in Handles \ {h} : q[g] = p[g]
  BY <1>1
<1> HIDE DEF q
<1>6. Counted(f, q)
  BY <1>1, <1>3, <1>4, <1>5 DEF ShardInv, Counted
<1>7. Listed(f, q)
  BY <1>1, <1>3, <1>4, <1>5 DEF ShardInv, Listed
<1>8. Tabled(f, NoHandle)
  <2>1. \A g \in s.in_cache : f.key[g] = s.key[g]
    BY <1>1, <1>3, <1>4
  <2> QED
    BY <1>4, <2>1 DEF ShardInv, Tabled
<1> QED
  BY <1>4, <1>5, <1>6, <1>7, <1>8 DEF ShardInv, q, f

\* Inserting an entry into the cache displaces the entry of the same key.
LEMMA CacheEntryInv ==
    ASSUME NEW s, NEW p, NEW h \in Handles, NEW k \in Keys, NEW c \in Nat,
           ShardInv(s, p, NoHandle), h \in s.live, h \notin s.in_cache,
           p[h] = 1, s.key[h] = k
    PROVE  ShardInv(CacheEntry(s, h, k, c), p, NoHandle)
<1> DEFINE d == s.table[k]
           u == InUseAppend(s, h)
           a == [u EXCEPT !.refs[h] = 2, !.in_cache = s.in_cache \cup {h},
                          !.usage = s.usage + c, !.table[k] = h]
<1>1. s \in Shards /\ p \in [Handles -> Nat]
  BY DEF ShardInv
<1>2. /\ s.in_cache \cup {h} \in SUBSET Handles /\ s.in_use \cup {h} \in SUBSET Handles
      /\ s.usage + c \in Int
      /\ [s.refs EXCEPT ![h] = 2] \in [Handles -> Nat]
      /\ [s.table EXCEPT ![k] = h] \in [Keys -> Handles \cup {NoHandle}]
      /\ s.refs \in [Handles -> Nat] /\ s.key \in [Handles -> Keys]
      /\ s.table \in [Keys -> Handles \cup {NoHandle}] /\ s.in_cache \in SUBSET Handles
  BY <1>1, FieldTypes
<1>3. /\ u \in Shards /\ u.refs = s.refs /\ u.table = s.table /\ u.live = s.live
      /\ u.key = s.key /\ u.lru = s.lru /\ u.in_use = s.in_use \cup {h}
  BY <1>1, <1>2 DEF InUseAppend, Shards
<1>4. a = [u EXCEPT !.refs = [s.refs EXCEPT ![h] = 2], !.in_cache = s.in_cache \cup {h},
                    !.usage = s.usage + c, !.table = [s.table EXCEPT ![k] = h]]
  BY <1>3
<1>5. CacheEntry(s, h, k, c) = IF d = NoHandle THEN a ELSE FinishErase(a, d)
  BY DEF CacheEntry
<1> HIDE DEF a, u
<1>6. /\ a \in Shards /\ a.live = s.live /\ a.key = s.key /\ a.lru = s.lru
      /\ a.in_use = s.in_use \cup {h} /\ a.in_cache = s.in_cache \cup {h}
      /\ a.refs = [s.refs EXCEPT ![h] = 2] /\ a.table = [s.table EXCEPT ![k] = h]
  BY <1>2, <1>3, <1>4 DEF Shards
<1>7. Counted(a, p)
  BY <1>1, <1>2, <1>6 DEF ShardInv, Counted
<1>8. Listed(a, p)
  BY <1>1, <1>2, <1>6 DEF ShardInv, Listed
<1>9. d # h /\ (d # NoHandle => d \in s.in_cache /\ s.key[d] = k)
  BY <1>2, NoHandleAssumption DEF ShardInv, Tabled
<1>10. Tabled(a, d)
  <2>1. ASSUME NEW j \in Keys, a.table[j] # NoHandle
        PROVE  a.table[j] \in a.in_cache \ {d} /\ a.key[a.table[j]] = j
    <3>1. CASE j = k
      BY <1>2, <1>6, <1>9, <3>1
    <3>2. CASE j # k
      <4>1. a.table[j] = s.table[j]
        BY <1>2, <1>6, <3>2
      <4> QED
        BY <1>6, <1>9, <2>1, <3>2, <4>1 DEF ShardInv, Tabled
    <3> QED
      BY <3>1, <3>2
  <2>2. ASSUME NEW g \in a.in_cache \ {d}
        PROVE  a.table[a.key[g]] = g
    <3>1. CASE g = h
      BY <1>2, <1>6, <3>1
    <3>2. CASE g # h
      <4>1. g \in s.in_cache /\ g \in Handles /\ g # NoHandle
        BY <1>2, <1>6, <3>2, NoHandleAssumption
      <4>2. s.table[s.key[g]] = g /\ s.key[g] \in Keys
        BY <1>2, <4>1 DEF ShardInv, Tabled
      <4> QED
        BY <1>2, <1>6, <4>2
    <3> QED
      BY <3>1, <3>2
  <2> QED
    BY <2>1, <2>2 DEF Tabled
<1>11. ShardInv(a, p, d)
  BY <1>1, <1>6, <1>7, <1>8, <1>10 DEF ShardInv
<1>12. CASE d = NoHandle
  BY <1>5, <1>11, <1>12
<1>13. CASE d # NoHandle
  <2>1. d \in Handles /\ d \in a.in_cache
    BY <1>2, <1>6, <1>9, <1>13
  <2> QED
    BY <1>5, <1>11, <1>13, <2>1, FinishEraseInv
<1> QED
  BY <1>12, <1>13

-----------------------------------------------------------------------------
\* The inductive invariant.  RefsExact, ListsMatchRefs and TableIsCache need one
\* another: the lists are chosen by the count, the entry that leaves the table is
\* found through it, and a count is exact only while in_cache is.
IInv ==
    /\ TypeOK
    /\ RefsExact
    /\ ListsMatchRefs
    /\ TableIsCache
    /\ NothingLeaked
    /\ ~open => running = "none"

\* While the cache is open, IInv is what the lemmas preserve.
LEMMA OpenInv == open => (IInv <=> /\ ShardInv(shard, held, NoHandle)
                                   /\ running \in {"none", "insert", "prune"}
                                   /\ open \in BOOLEAN)
<1> SUFFICES ASSUME open
             PROVE  IInv <=> /\ ShardInv(shard, held, NoHandle)
                             /\ running \in {"none", "insert", "prune"}
                             /\ open \in BOOLEAN
  OBVIOUS
<1>1. RefsExact <=> Counted(shard, held)
  BY DEF RefsExact, Counted
<1>2. ListsMatchRefs <=> Listed(shard, held)
  BY DEF ListsMatchRefs, Listed, NoDup
<1>3. ASSUME shard \in Shards
      PROVE  TableIsCache <=> Tabled(shard, NoHandle)
  <2>1. NoHandle \notin shard.in_cache
    BY <1>3, FieldTypes, NoHandleAssumption
  <2> QED
    BY <2>1 DEF TableIsCache, Tabled
<1> QED
  BY <1>1, <1>2, <1>3 DEF IInv, TypeOK, ShardInv, NothingLeaked

\* A new shard is empty.
LEMMA InitInv == Init => IInv
<1> SUFFICES ASSUME NEW capacity \in Capacities, shard = EmptyShard(capacity),
                    held = [h \in Handles |-> 0], running = "none", open = TRUE
             PROVE  IInv
  BY DEF Init
<1> DEFINE anyKey == CHOOSE k \in Keys : TRUE
<1>1. anyKey \in Keys /\ capacity \in Nat
  BY KeysAssumption, CapacitiesAssumption
<1>2. /\ shard.live = {} /\ shard.in_cache = {} /\ shard.lru = <<>> /\ shard.in_use = {}
      /\ shard.table = [k \in Keys |-> NoHandle]
  BY DEF EmptyShard
<1>3. shard \in Shards
  <2>1. shard = [capacity |-> capacity, live |-> {}, key |-> [h \in Handles |-> anyKey],
                 charge |-> [h \in Handles |-> 0], refs |-> [h \in Handles |-> 0],
                 in_cache |-> {}, lru |-> <<>>, in_use |-> {},
                 table |-> [k \in Keys |-> NoHandle], usage |-> 0]
    BY DEF EmptyShard
  <2>2. <<>> \in Seq(Handles)
    OBVIOUS
  <2> HIDE DEF anyKey
  <2> QED
    BY <1>1, <2>1, <2>2 DEF Shards
<1>4. TypeOK
  BY <1>3 DEF TypeOK
<1>5. RefsExact /\ TableIsCache /\ NothingLeaked
  BY <1>2 DEF RefsExact, TableIsCache, NothingLeaked
<1>6. ListsMatchRefs
  BY <1>2 DEF ListsMatchRefs, Elements
<1> QED
  BY <1>4, <1>5, <1>6 DEF IInv

\* Every step of the shard keeps the invariant.
LEMMA StepInv == IInv /\ [Next]_vars => IInv'
<1> SUFFICES ASSUME IInv, [Next]_vars
             PROVE  IInv'
  OBVIOUS
<1> DEFINE Good(s, p) == ShardInv(s, p, NoHandle)
<1>1. open /\ open' = open /\ running' \in {"none", "insert", "prune"} /\ Good(shard', held') => IInv'
  <2> SUFFICES ASSUME open, open' = open, running' \in {"none", "insert", "prune"},
                      Good(shard', held')
               PROVE  IInv'
    OBVIOUS
  <2>1. open'
    OBVIOUS
  <2>2. (IInv <=> /\ ShardInv(shard, held, NoHandle)
                  /\ running \in {"none", "insert", "prune"} /\ open \in BOOLEAN)'
    BY <2>1, OpenInv, PTL
  <2>3. open \in BOOLEAN
    BY DEF IInv, TypeOK
  <2> QED
    BY <2>2, <2>3
<1>2. open => Good(shard, held) /\ running \in {"none", "insert", "prune"}
  BY OpenInv
<1>3. /\ shard \in Shards /\ held \in [Handles -> Nat] /\ RefsExact
      /\ shard.table \in [Keys -> Handles \cup {NoHandle}]
  BY FieldTypes DEF IInv, TypeOK
<1> HIDE DEF Good
<1>4. ASSUME NEW k \in Keys, NEW h \in Handles, NEW c \in Charges, Insert(k, h, c)
      PROVE  IInv'
  <2> DEFINE s == Allocate(shard, h, k, c)
  <2>1. open /\ open' = open /\ running' = "insert" /\ h \notin shard.live /\ c \in Nat
    BY <1>4, ChargesAssumption DEF Insert, MutexFree
  <2>2. Good(s, held')
    BY <1>2, <1>4, <2>1, AllocateInv DEF Insert, Good
  <2>3. CASE shard.capacity > 0
    <3>1. shard' = CacheEntry(s, h, k, c)
      BY <1>4, <2>3 DEF Insert
    <3>2. h \in s.live /\ h \notin s.in_cache /\ s.key[h] = k /\ held'[h] = 1
      BY <1>3, <1>4, <2>1, FieldTypes DEF Allocate, RefsExact, Insert, Shards
    <3>3. Good(shard', held')
      BY <2>1, <2>2, <3>1, <3>2, CacheEntryInv DEF Good
    <3> QED
      BY <1>1, <2>1, <3>3
  <2>4. CASE ~(shard.capacity > 0)
    BY <1>1, <1>4, <2>1, <2>2, <2>4 DEF Insert
  <2> QED
    BY <2>3, <2>4
<1>5. ASSUME NEW k \in Keys, LookUp(k)
      PROVE  IInv'
  <2> DEFINE e == shard.table[k]
  <2>1. /\ open /\ open' = open /\ running' = running /\ e \in Handles
        /\ shard' = Ref(shard, e) /\ held' = [held EXCEPT ![e] = @ + 1]
    BY <1>3, <1>5 DEF LookUp, MutexFree
  <2>2. e \in shard.in_cache
    BY <1>5 DEF LookUp, IInv, TableIsCache
  <2>3. Good(shard', held')
    BY <1>2, <2>1, <2>2, RefInv DEF Good
  <2> QED
    BY <1>1, <1>2, <2>1, <2>3
<1>6. ASSUME NEW h \in Handles, Release(h)
      PROVE  IInv'
  <2>1. /\ open /\ open' = open /\ running' = running /\ held[h] > 0
        /\ shard' = UnRef(shard, h) /\ held' = [held EXCEPT ![h] = @ - 1]
    BY <1>6 DEF Release, MutexFree
  <2>2. Good(shard', held')
    BY <1>2, <2>1, UnRefInv DEF Good
  <2> QED
    BY <1>1, <1>2, <2>1, <2>2
<1>7. ASSUME NEW k \in Keys, Erase(k)
      PROVE  IInv'
  <2>1. open /\ open' = open /\ running' = running /\ shard' = EraseKey(shard, k) /\ held' = held
    BY <1>7 DEF Erase, MutexFree
  <2>2. Good(shard', held')
    BY <1>2, <2>1, EraseKeyInv DEF Good
  <2> QED
    BY <1>1, <1>2, <2>1, <2>2
<1>8. ASSUME Prune \/ LoopDone
      PROVE  IInv'
  <2>1. /\ shard' = shard /\ held' = held /\ open' = open
        /\ running' \in {"none", "insert", "prune"}
    BY <1>8 DEF Prune, LoopDone
  <2> QED
    BY <1>8, <2>1 DEF IInv, TypeOK, RefsExact, ListsMatchRefs, TableIsCache, NothingLeaked,
                      Prune, LoopDone, MutexFree
<1>9. ASSUME EvictOldest
      PROVE  IInv'
  <2> DEFINE k == shard.key[Head(shard.lru)]
  <2>1. /\ open' = open /\ running' = running /\ held' = held
        /\ shard' = EraseKey(shard, k) /\ shard.lru # <<>>
    BY <1>9 DEF EvictOldest, MustEvict
  <2>2. k \in Keys
    BY <1>3, <2>1, FieldTypes
  <2>3. CASE open
    <3>1. Good(shard', held')
      BY <1>2, <2>1, <2>2, <2>3, EraseKeyInv DEF Good
    <3> QED
      BY <1>1, <1>2, <2>1, <2>3, <3>1
  <2>4. CASE ~open
    BY <1>9, <2>4 DEF EvictOldest, IInv
  <2> QED
    BY <2>3, <2>4
<1>10. ASSUME Destroy
       PROVE  IInv'
  <2> DEFINE gone == Elements(shard.lru)
             f == [shard EXCEPT !.live = shard.live \ gone, !.in_cache = shard.in_cache \ gone,
                    !.refs = [h \in Handles |-> IF h \in gone THEN 0 ELSE shard.refs[h]],
                    !.table = [k \in Keys |-> NoHandle]]
  <2>1. /\ open /\ running = "none" /\ open' = FALSE /\ held' = held /\ running' = running
        /\ \A h \in Handles : held[h] = 0
        /\ shard' = f
    BY <1>10 DEF Destroy, MutexFree
  <2>2. /\ [h \in Handles |-> IF h \in gone THEN 0 ELSE shard.refs[h]] \in [Handles -> Nat]
        /\ shard.live \in SUBSET Handles /\ shard.in_cache \in SUBSET Handles
    BY <1>3, FieldTypes
  <2>3. gone = shard.in_cache
    BY <2>1, <2>2 DEF IInv, ListsMatchRefs
  <2>4. shard.live \subseteq gone
    BY <1>3, <2>1, <2>2, <2>3 DEF RefsExact
  <2>5. shard' \in Shards /\ shard'.live = {} /\ shard'.in_cache = {}
    BY <1>3, <2>1, <2>2, <2>3, <2>4 DEF Shards
  <2>6. \A k \in Keys : shard'.table[k] = NoHandle
    BY <1>3, <2>1 DEF Shards
  <2> HIDE DEF f, gone
  <2>7. TypeOK'
    BY <1>3, <2>1, <2>5 DEF TypeOK
  <2> QED
    BY <2>1, <2>5, <2>6, <2>7
    DEF IInv, RefsExact, ListsMatchRefs, TableIsCache, NothingLeaked
<1>11. ASSUME UNCHANGED vars
       PROVE  IInv'
  BY <1>11 DEF vars, IInv, TypeOK, RefsExact, ListsMatchRefs, TableIsCache, NothingLeaked
<1> QED
  BY <1>4, <1>5, <1>6, <1>7, <1>8, <1>9, <1>10, <1>11 DEF Next, Terminated

-----------------------------------------------------------------------------
\* The inductive invariant holds in every state the shard can reach.
THEOREM ShardInvariant == Spec => []IInv
<1>1. Init => IInv
  BY InitInv
<1>2. IInv /\ [Next]_vars => IInv'
  BY StepInv
<1> QED
  BY <1>1, <1>2, PTL DEF Spec

\* The reference count of every entry is exact (cache.cc:55), so no entry is
\* freed while a client holds it, and none is kept when nobody does.
THEOREM RefsAreExact == Spec => []RefsExact
<1>1. IInv => RefsExact
  BY DEF IInv
<1> QED
  BY <1>1, ShardInvariant, PTL

\* The comments on the two lists (cache.cc:30-39, 189-196) hold.
THEOREM ListsAreRight == Spec => []ListsMatchRefs
<1>1. IInv => ListsMatchRefs
  BY DEF IInv
<1> QED
  BY <1>1, ShardInvariant, PTL

\* The hash table and in_cache agree on what is cached.
THEOREM TableIsRight == Spec => []TableIsCache
<1>1. IInv => TableIsCache
  BY DEF IInv
<1> QED
  BY <1>1, ShardInvariant, PTL

\* Destroying an idle cache frees every entry ever inserted.
THEOREM NoLeak == Spec => []NothingLeaked
<1>1. IInv => NothingLeaked
  BY DEF IInv
<1> QED
  BY <1>1, ShardInvariant, PTL
-----------------------------------------------------------------------------
(* usage_.  The charge of a set of entries is the number of its units: the *)
(* units of one entry are apart from those of the others.                  *)

\* The units of one entry.
LEMMA UnitsOfOne ==
    ASSUME NEW h, NEW c \in Nat
    PROVE  IsFiniteSet({h} \X (1..c)) /\ Cardinality({h} \X (1..c)) = c
<1>1. IsFiniteSet({h}) /\ Cardinality({h}) = 1
  BY FS_Singleton
<1>2. IsFiniteSet(1..c) /\ Cardinality(1..c) = c
  BY FS_Interval
<1>3. /\ IsFiniteSet({h} \X (1..c))
      /\ Cardinality({h} \X (1..c)) = Cardinality({h}) * Cardinality(1..c)
  BY <1>1, <1>2, FS_Product
<1> QED
  BY <1>1, <1>2, <1>3

\* A set of entries and one entry more.
LEMMA UnitsOfMore ==
    ASSUME NEW charge \in [Handles -> Nat], NEW entries \in SUBSET Handles,
           NEW h \in Handles, h \notin entries, IsFiniteSet(Units(charge, entries))
    PROVE  /\ IsFiniteSet(Units(charge, entries \cup {h}))
           /\ Cardinality(Units(charge, entries \cup {h}))
                = Cardinality(Units(charge, entries)) + charge[h]
<1> DEFINE old == Units(charge, entries)
           new == {h} \X (1..charge[h])
<1>1. Units(charge, entries \cup {h}) = old \cup new
  BY DEF Units
<1>2. old \cap new = {}
  <2> SUFFICES ASSUME NEW u \in old, u \in new
               PROVE  FALSE
    OBVIOUS
  <2>1. PICK g \in entries : u \in {g} \X (1..charge[g])
    BY DEF Units
  <2> QED
    BY <2>1
<1>3. charge[h] \in Nat
  OBVIOUS
<1>4. IsFiniteSet(new) /\ Cardinality(new) = charge[h]
  BY <1>3, UnitsOfOne
<1>5. IsFiniteSet(old)
  OBVIOUS
<1> HIDE DEF old, new
<1>6. /\ IsFiniteSet(old \cup new)
      /\ Cardinality(old \cup new)
           = Cardinality(old) + Cardinality(new) - Cardinality(old \cap new)
  BY <1>4, <1>5, FS_Union
<1>7. Cardinality(old \cap new) = 0
  BY <1>2, FS_EmptySet
<1>8. Cardinality(old) \in Nat
  BY <1>5, FS_CardinalityType
<1>9. Cardinality(old \cup new) = Cardinality(old) + charge[h]
  BY <1>3, <1>4, <1>6, <1>7, <1>8
<1> QED
  BY <1>1, <1>6, <1>9 DEF old

\* A set of entries and one entry less.
LEMMA UnitsOfLess ==
    ASSUME NEW charge \in [Handles -> Nat], NEW entries \in SUBSET Handles,
           NEW h \in entries, IsFiniteSet(Units(charge, entries))
    PROVE  /\ IsFiniteSet(Units(charge, entries \ {h}))
           /\ Cardinality(Units(charge, entries \ {h}))
                = Cardinality(Units(charge, entries)) - charge[h]
<1> DEFINE rest == entries \ {h}
<1>1. rest \in SUBSET Handles /\ h \in Handles /\ h \notin rest /\ rest \cup {h} = entries
  OBVIOUS
<1>2. Units(charge, rest) \in SUBSET Units(charge, entries)
  BY DEF Units
<1>3. IsFiniteSet(Units(charge, rest))
  BY <1>2, FS_Subset
<1> HIDE DEF rest
<1>4. Cardinality(Units(charge, rest \cup {h})) = Cardinality(Units(charge, rest)) + charge[h]
  BY <1>1, <1>3, UnitsOfMore
<1>5. Cardinality(Units(charge, rest)) \in Nat /\ charge[h] \in Nat
  BY <1>1, <1>3, FS_CardinalityType
<1>6. Cardinality(Units(charge, entries)) = Cardinality(Units(charge, rest)) + charge[h]
  BY ONLY <1>1, <1>4
<1>7. Cardinality(Units(charge, rest)) = Cardinality(Units(charge, entries)) - charge[h]
  BY <1>5, <1>6
<1> QED
  BY <1>3, <1>7 DEF rest

\* Of a shard: usage_ counts the units of what is cached.
Charged(s) ==
    /\ IsFiniteSet(Units(s.charge, s.in_cache))
    /\ s.usage = Cardinality(Units(s.charge, s.in_cache))

SameCharges(s, f) ==
    f.charge = s.charge /\ f.in_cache = s.in_cache /\ f.usage = s.usage

\* A reference taken or dropped changes no charge, and neither what is cached.
LEMMA SameCharged ==
    ASSUME NEW s, NEW f, SameCharges(s, f), Charged(s)
    PROVE  Charged(f)
BY DEF SameCharges, Charged

LEMMA LruRemoveCharges ==
    ASSUME NEW s \in Shards, NEW e
    PROVE  SameCharges(s, LruRemove(s, e))
BY DEF SameCharges, LruRemove, Shards

LEMMA RefCharges ==
    ASSUME NEW s \in Shards, NEW e \in Handles
    PROVE  SameCharges(s, Ref(s, e))
<1>1. SameCharges(s, InUseAppend(LruRemove(s, e), e))
  BY DEF SameCharges, LruRemove, InUseAppend, Shards
<1> QED
  BY <1>1 DEF SameCharges, Ref, InUseAppend, LruRemove, Shards

LEMMA UnRefCharges ==
    ASSUME NEW s \in Shards, NEW e \in Handles
    PROVE  SameCharges(s, UnRef(s, e))
BY DEF SameCharges, UnRef, LruAppend, LruRemove, Shards

\* finish_erase takes off the charge of the entry that it takes out of the cache.
LEMMA FinishEraseCharged ==
    ASSUME NEW s \in Shards, NoDup(s.lru), NEW e \in s.in_cache, Charged(s)
    PROVE  Charged(FinishErase(s, e))
<1> DEFINE r == LruRemove(s, e)
           a == [r EXCEPT !.in_cache = s.in_cache \ {e}, !.usage = s.usage - s.charge[e]]
<1>1. r \in Shards /\ r.charge = s.charge
  BY FieldTypes, LruRemoveEffect, LruRemoveCharges DEF SameCharges
<1>2. s.in_cache \ {e} \in SUBSET Handles /\ s.usage - s.charge[e] \in Int /\ e \in Handles
  BY FieldTypes
<1> HIDE DEF r
<1>3. /\ a \in Shards /\ a.charge = s.charge /\ a.in_cache = s.in_cache \ {e}
      /\ a.usage = s.usage - s.charge[e]
  BY <1>1, <1>2 DEF Shards
<1> HIDE DEF a
<1>4. FinishErase(s, e) = UnRef(a, e)
  BY DEF FinishErase, a, r
<1>5. Charged(a)
  <2>1. s.charge \in [Handles -> Nat] /\ s.in_cache \in SUBSET Handles
    BY FieldTypes
  <2>2. /\ IsFiniteSet(Units(s.charge, s.in_cache \ {e}))
        /\ Cardinality(Units(s.charge, s.in_cache \ {e}))
             = Cardinality(Units(s.charge, s.in_cache)) - s.charge[e]
    BY <2>1, UnitsOfLess DEF Charged
  <2> QED
    BY <1>3, <2>2 DEF Charged
<1> QED
  BY <1>2, <1>3, <1>4, <1>5, UnRefCharges, SameCharged

LEMMA EraseKeyCharged ==
    ASSUME NEW s, NEW p, NEW k \in Keys, ShardInv(s, p, NoHandle), Charged(s)
    PROVE  Charged(EraseKey(s, k))
<1>1. CASE s.table[k] = NoHandle
  BY <1>1 DEF EraseKey
<1>2. CASE s.table[k] # NoHandle
  <2> DEFINE d == s.table[k]
             a == [s EXCEPT !.table[k] = NoHandle]
  <2>1. s \in Shards /\ d \in s.in_cache /\ NoDup(s.lru)
    BY <1>2 DEF ShardInv, Tabled, Listed
  <2>2. a \in Shards /\ a.lru = s.lru /\ SameCharges(s, a)
    BY <2>1 DEF SameCharges, Shards
  <2>3. EraseKey(s, k) = FinishErase(a, d)
    BY <1>2 DEF EraseKey
  <2> HIDE DEF a, d
  <2>4. Charged(a) /\ d \in a.in_cache /\ NoDup(a.lru)
    BY <2>1, <2>2, SameCharged DEF SameCharges
  <2> QED
    BY <2>2, <2>3, <2>4, FinishEraseCharged
<1> QED
  BY <1>1, <1>2

\* An entry that is not cached yet counts for nothing, whatever it is charged.
LEMMA AllocateCharged ==
    ASSUME NEW s \in Shards, NEW h \in Handles, NEW k \in Keys, NEW c \in Nat,
           h \notin s.in_cache, Charged(s)
    PROVE  /\ Charged(Allocate(s, h, k, c))
           /\ Allocate(s, h, k, c).charge[h] = c
           /\ Allocate(s, h, k, c).in_cache = s.in_cache
<1> DEFINE f == Allocate(s, h, k, c)
<1>1. s.charge \in [Handles -> Nat] /\ s.in_cache \in SUBSET Handles
  BY FieldTypes
<1>2. /\ f.charge = [s.charge EXCEPT ![h] = c]
      /\ f.in_cache = s.in_cache /\ f.usage = s.usage
  BY DEF Allocate, Shards
<1> HIDE DEF f
<1>3. Units(f.charge, f.in_cache) = Units(s.charge, s.in_cache)
  <2>1. \A g \in s.in_cache : f.charge[g] = s.charge[g]
    BY <1>1, <1>2
  <2> QED
    BY <1>2, <2>1 DEF Units
<1>4. f.charge[h] = c
  BY <1>1, <1>2
<1> QED
  BY <1>2, <1>3, <1>4 DEF Charged, f

\* insert adds the charge of the new entry, and takes off that of the entry it displaces.
LEMMA CacheEntryCharged ==
    ASSUME NEW s, NEW p, NEW h \in Handles, NEW k \in Keys, NEW c \in Nat,
           ShardInv(s, p, NoHandle), h \notin s.in_cache, s.charge[h] = c, Charged(s)
    PROVE  Charged(CacheEntry(s, h, k, c))
<1> DEFINE d == s.table[k]
           u == InUseAppend(s, h)
           a == [u EXCEPT !.refs[h] = 2, !.in_cache = s.in_cache \cup {h},
                          !.usage = s.usage + c, !.table[k] = h]
<1>1. s \in Shards /\ NoDup(s.lru) /\ (d # NoHandle => d \in s.in_cache)
  BY DEF ShardInv, Tabled, Listed
<1>2. /\ s.in_cache \cup {h} \in SUBSET Handles /\ s.in_use \cup {h} \in SUBSET Handles
      /\ s.usage + c \in Int /\ s.charge \in [Handles -> Nat]
      /\ [s.refs EXCEPT ![h] = 2] \in [Handles -> Nat]
      /\ [s.table EXCEPT ![k] = h] \in [Keys -> Handles \cup {NoHandle}]
  BY <1>1, FieldTypes
<1>3. u \in Shards /\ u.refs = s.refs /\ u.table = s.table /\ u.lru = s.lru /\ u.charge = s.charge
  BY <1>1, <1>2 DEF InUseAppend, Shards
<1>4. a = [u EXCEPT !.refs = [s.refs EXCEPT ![h] = 2], !.in_cache = s.in_cache \cup {h},
                    !.usage = s.usage + c, !.table = [s.table EXCEPT ![k] = h]]
  BY <1>3
<1>5. CacheEntry(s, h, k, c) = IF d = NoHandle THEN a ELSE FinishErase(a, d)
  BY DEF CacheEntry
<1> HIDE DEF a, u
<1>6. /\ a \in Shards /\ a.lru = s.lru /\ a.charge = s.charge
      /\ a.in_cache = s.in_cache \cup {h} /\ a.usage = s.usage + c
  BY <1>2, <1>3, <1>4 DEF Shards
<1>7. Charged(a)
  <2>1. s.in_cache \in SUBSET Handles
    BY <1>1, FieldTypes
  <2>2. /\ IsFiniteSet(Units(s.charge, s.in_cache \cup {h}))
        /\ Cardinality(Units(s.charge, s.in_cache \cup {h}))
             = Cardinality(Units(s.charge, s.in_cache)) + s.charge[h]
    BY <1>2, <2>1, UnitsOfMore DEF Charged
  <2> QED
    BY <1>6, <2>2 DEF Charged
<1> HIDE DEF d
<1>8. CASE d = NoHandle
  BY <1>5, <1>7, <1>8
<1>9. CASE d # NoHandle
  <2>1. d \in a.in_cache /\ NoDup(a.lru)
    BY <1>1, <1>6, <1>9
  <2>2. Charged(FinishErase(a, d))
    BY <1>6, <1>7, <2>1, FinishEraseCharged
  <2> QED
    BY <1>5, <1>9, <2>2
<1> QED
  BY <1>8, <1>9

\* With IInv, the inductive invariant of usage_.  (~lru_cache does not keep count.)
ChargeInv == open => Charged(shard)

LEMMA InitCharge == Init => ChargeInv
<1> SUFFICES ASSUME NEW capacity \in Capacities, shard = EmptyShard(capacity)
             PROVE  Charged(shard)
  BY DEF Init, ChargeInv
<1>1. shard.in_cache = {} /\ shard.usage = 0
  BY DEF EmptyShard
<1>2. Units(shard.charge, shard.in_cache) = {}
  BY <1>1 DEF Units
<1> QED
  BY <1>1, <1>2, FS_EmptySet DEF Charged

LEMMA StepCharge == IInv /\ ChargeInv /\ [Next]_vars => ChargeInv'
<1> SUFFICES ASSUME IInv, Charged(shard), open, open', [Next]_vars
             PROVE  Charged(shard')
  <2>1. ASSUME ~open, IInv, [Next]_vars
        PROVE  ~open'
    BY <2>1 DEF IInv, Next, Terminated, Insert, LookUp, Release, Erase, Prune, EvictOldest,
                LoopDone, Destroy, MutexFree, vars
  <2> QED
    BY <2>1 DEF ChargeInv, Charged
<1>1. /\ shard \in Shards /\ held \in [Handles -> Nat] /\ ShardInv(shard, held, NoHandle)
      /\ shard.table \in [Keys -> Handles \cup {NoHandle}] /\ shard.key \in [Handles -> Keys]
      /\ shard.lru \in Seq(Handles)
  BY OpenInv, FieldTypes DEF IInv, TypeOK
<1>2. ASSUME NEW k \in Keys, NEW h \in Handles, NEW c \in Charges, Insert(k, h, c)
      PROVE  Charged(shard')
  <2> DEFINE s == Allocate(shard, h, k, c)
  <2>1. h \notin shard.live /\ c \in Nat /\ held' = [held EXCEPT ![h] = 1]
        /\ shard' = IF shard.capacity > 0 THEN CacheEntry(s, h, k, c) ELSE s
    BY <1>2, ChargesAssumption DEF Insert
  <2>2. h \notin shard.in_cache
    BY <2>1 DEF IInv, RefsExact
  <2>3. Charged(s) /\ s.charge[h] = c /\ h \notin s.in_cache
    BY <1>1, <2>1, <2>2, AllocateCharged
  <2>4. ShardInv(s, held', NoHandle)
    BY <1>1, <2>1, AllocateInv
  <2> HIDE DEF s
  <2>5. Charged(CacheEntry(s, h, k, c))
    BY <2>1, <2>3, <2>4, CacheEntryCharged
  <2> QED
    BY <2>1, <2>3, <2>5
<1>3. ASSUME NEW k \in Keys, LookUp(k)
      PROVE  Charged(shard')
  <2>1. shard.table[k] \in Handles /\ shard' = Ref(shard, shard.table[k])
    BY <1>1, <1>3 DEF LookUp
  <2> QED
    BY <1>1, <2>1, RefCharges, SameCharged
<1>4. ASSUME NEW h \in Handles, Release(h)
      PROVE  Charged(shard')
  BY <1>1, <1>4, UnRefCharges, SameCharged DEF Release
<1>5. ASSUME NEW k \in Keys, Erase(k)
      PROVE  Charged(shard')
  BY <1>1, <1>5, EraseKeyCharged DEF Erase
<1>6. CASE EvictOldest
  <2>1. shard.key[Head(shard.lru)] \in Keys
    BY <1>1, <1>6 DEF EvictOldest, MustEvict
  <2> QED
    BY <1>1, <1>6, <2>1, EraseKeyCharged DEF EvictOldest
<1>7. CASE Prune \/ LoopDone \/ Terminated \/ UNCHANGED vars
  BY <1>7 DEF Prune, LoopDone, Terminated, vars
<1>8. CASE Destroy
  BY <1>8 DEF Destroy
<1> QED
  BY <1>2, <1>3, <1>4, <1>5, <1>6, <1>7, <1>8 DEF Next

\* usage_ is the total charge of what is cached, in every state of an open shard.
THEOREM UsageIsExact == Spec => []UsageIsCharge
<1>1. Init => IInv /\ ChargeInv
  BY InitInv, InitCharge
<1>2. (IInv /\ ChargeInv) /\ [Next]_vars => (IInv /\ ChargeInv)'
  BY StepInv, StepCharge
<1>3. IInv /\ ChargeInv => UsageIsCharge
  BY DEF ChargeInv, Charged, UsageIsCharge
<1> QED
  BY <1>1, <1>2, <1>3, PTL DEF Spec

\* The loop of insert stops early only for want of entries that nobody holds.
THEOREM InsertKeepsCapacity == Spec => CapacityKept
<1>1. ASSUME IInv, [Next]_vars, running = "insert", running' = "none"
      PROVE  shard.usage <= shard.capacity \/ \A h \in shard.in_cache : held[h] > 0
  <2>1. LoopDone
    BY <1>1 DEF Next, Terminated, Insert, LookUp, Release, Erase, Prune, EvictOldest, Destroy,
                MutexFree, vars
  <2>2. /\ open /\ shard.usage \in Int /\ shard.capacity \in Nat
        /\ held \in [Handles -> Nat] /\ shard.in_cache \in SUBSET Handles
    BY <1>1, FieldTypes DEF IInv, TypeOK
  <2>3. CASE shard.lru = <<>>
    <3>1. Elements(shard.lru) = {}
      BY <2>3 DEF Elements
    <3> QED
      BY <1>1, <2>2, <3>1 DEF IInv, ListsMatchRefs
  <2>4. CASE shard.lru # <<>>
    BY <1>1, <2>1, <2>2, <2>4 DEF LoopDone, MustEvict
  <2> QED
    BY <2>3, <2>4
<1>2. IInv /\ [Next]_vars =>
        [running = "insert" /\ running' = "none" =>
           shard.usage <= shard.capacity \/ \A h \in shard.in_cache : held[h] > 0]_vars
  BY <1>1
<1> QED
  BY <1>2, ShardInvariant, PTL DEF Spec, CapacityKept
-----------------------------------------------------------------------------
(* The shard implements what cache.h promises.  An entry is allocated      *)
(* exactly while it can be reached, so that a step deletes what it makes   *)
(* unreachable and nothing else: what remains is what every operation does *)
(* to the table.                                                           *)

Mapped(table) == {h \in Handles : \E k \in Keys : table[k] = h}
Pinned(p) == {h \in Handles : p[h] > 0}

\* What is allocated is mapped or pinned.
LEMMA LiveIsReachable == IInv /\ open => shard.live = Mapped(shard.table) \cup Pinned(held)
<1> SUFFICES ASSUME IInv, open
             PROVE  shard.live = Mapped(shard.table) \cup Pinned(held)
  OBVIOUS
<1>1. /\ shard.live \in SUBSET Handles /\ shard.in_cache \in SUBSET Handles
      /\ shard.key \in [Handles -> Keys] /\ held \in [Handles -> Nat]
  BY FieldTypes DEF IInv, TypeOK
<1>2. shard.in_cache = Mapped(shard.table)
  <2>1. ASSUME NEW h \in shard.in_cache PROVE h \in Mapped(shard.table)
    BY <1>1 DEF IInv, TableIsCache, Mapped
  <2>2. ASSUME NEW h \in Mapped(shard.table) PROVE h \in shard.in_cache
    BY NoHandleAssumption DEF IInv, TableIsCache, Mapped
  <2> QED
    BY <2>1, <2>2
<1>3. ASSUME NEW h \in Handles
      PROVE  h \in shard.live <=> h \in shard.in_cache \/ held[h] > 0
  <2>1. CASE h \in shard.live
    BY <1>1, <2>1 DEF IInv, RefsExact
  <2>2. CASE h \notin shard.live
    BY <2>2 DEF IInv, RefsExact
  <2> QED
    BY <2>1, <2>2
<1> QED
  BY <1>1, <1>2, <1>3 DEF Pinned

\* Whatever becomes unreachable is deleted, if nothing becomes reachable but the
\* entries of the set more.
LEMMA Reclaimed ==
    ASSUME IInv, IInv', open, open', NEW more \in SUBSET Handles,
           Mapped(shard'.table) \subseteq Mapped(shard.table) \cup more,
           Pinned(held') \subseteq Pinned(held) \cup more
    PROVE  shard'.live = (shard.live \cup more) \cap (Mapped(shard'.table) \cup Pinned(held'))
<1>1. shard.live = Mapped(shard.table) \cup Pinned(held)
  BY LiveIsReachable
<1>2. (IInv /\ open => shard.live = Mapped(shard.table) \cup Pinned(held))'
  BY LiveIsReachable, PTL
<1> QED
  BY <1>1, <1>2

\* A count that changes, and with it the list, leaves the table alone.
LEMMA RefTable ==
    ASSUME NEW s \in Shards, NEW e \in Handles
    PROVE  Ref(s, e).table = s.table
<1>1. InUseAppend(LruRemove(s, e), e).table = s.table
  BY DEF LruRemove, InUseAppend, Shards
<1> QED
  BY <1>1 DEF Ref, InUseAppend, LruRemove, Shards

LEMMA UnRefTable ==
    ASSUME NEW s \in Shards, NEW e \in Handles
    PROVE  UnRef(s, e).table = s.table
BY DEF UnRef, LruAppend, LruRemove, Shards

LEMMA FinishEraseTable ==
    ASSUME NEW s \in Shards, NoDup(s.lru), NEW e \in Handles
    PROVE  FinishErase(s, e).table = s.table
<1> DEFINE r == LruRemove(s, e)
           a == [r EXCEPT !.in_cache = s.in_cache \ {e}, !.usage = s.usage - s.charge[e]]
<1>1. r \in Shards /\ r.table = s.table
  BY LruRemoveEffect DEF LruRemove, Shards
<1>2. s.in_cache \ {e} \in SUBSET Handles /\ s.usage - s.charge[e] \in Int
  BY FieldTypes
<1> HIDE DEF r
<1>3. a \in Shards /\ a.table = r.table
  BY <1>1, <1>2 DEF Shards
<1> HIDE DEF a
<1>4. FinishErase(s, e) = UnRef(a, e)
  BY DEF FinishErase, a, r
<1> QED
  BY <1>1, <1>3, <1>4, UnRefTable

\* An erased key maps to nothing, an inserted one to the new entry.
LEMMA EraseKeyTable ==
    ASSUME NEW s \in Shards, NoDup(s.lru), NEW k \in Keys
    PROVE  EraseKey(s, k).table = [s.table EXCEPT ![k] = NoHandle]
<1>1. s.table \in [Keys -> Handles \cup {NoHandle}]
  BY FieldTypes
<1>2. CASE s.table[k] = NoHandle
  BY <1>1, <1>2 DEF EraseKey
<1>3. CASE s.table[k] # NoHandle
  <2> DEFINE a == [s EXCEPT !.table[k] = NoHandle]
  <2>1. s.table[k] \in Handles
    BY <1>1, <1>3
  <2>2. a \in Shards /\ a.lru = s.lru /\ a.table = [s.table EXCEPT ![k] = NoHandle]
    BY <1>1 DEF Shards
  <2>3. EraseKey(s, k) = FinishErase(a, s.table[k])
    BY <1>3 DEF EraseKey
  <2> HIDE DEF a
  <2> QED
    BY <2>1, <2>2, <2>3, FinishEraseTable
<1> QED
  BY <1>2, <1>3

LEMMA CacheEntryTable ==
    ASSUME NEW s \in Shards, NoDup(s.lru), NEW h \in Handles, NEW k \in Keys, NEW c \in Nat
    PROVE  CacheEntry(s, h, k, c).table = [s.table EXCEPT ![k] = h]
<1> DEFINE u == InUseAppend(s, h)
           a == [u EXCEPT !.refs[h] = 2, !.in_cache = s.in_cache \cup {h},
                          !.usage = s.usage + c, !.table[k] = h]
<1>1. /\ s.table \in [Keys -> Handles \cup {NoHandle}] /\ s.refs \in [Handles -> Nat]
      /\ s.in_cache \cup {h} \in SUBSET Handles /\ s.in_use \cup {h} \in SUBSET Handles
      /\ s.usage + c \in Int
      /\ [s.refs EXCEPT ![h] = 2] \in [Handles -> Nat]
      /\ [s.table EXCEPT ![k] = h] \in [Keys -> Handles \cup {NoHandle}]
  BY FieldTypes
<1>2. u \in Shards /\ u.refs = s.refs /\ u.table = s.table /\ u.lru = s.lru
  BY <1>1 DEF InUseAppend, Shards
<1>3. a = [u EXCEPT !.refs = [s.refs EXCEPT ![h] = 2], !.in_cache = s.in_cache \cup {h},
                    !.usage = s.usage + c, !.table = [s.table EXCEPT ![k] = h]]
  BY <1>2
<1>4. CacheEntry(s, h, k, c) = IF s.table[k] = NoHandle THEN a ELSE FinishErase(a, s.table[k])
  BY DEF CacheEntry
<1> HIDE DEF u, a
<1>5. a \in Shards /\ a.lru = s.lru /\ a.table = [s.table EXCEPT ![k] = h]
  BY <1>1, <1>2, <1>3 DEF Shards
<1>6. CASE s.table[k] = NoHandle
  BY <1>4, <1>5, <1>6
<1>7. CASE s.table[k] # NoHandle
  <2>1. s.table[k] \in Handles
    BY <1>1, <1>7
  <2> QED
    BY <1>4, <1>5, <1>7, <2>1, FinishEraseTable
<1> QED
  BY <1>6, <1>7

\* Erasing a key unmaps an entry at most, and deletes it unless it is pinned.
LEMMA EraseKeyReclaims ==
    ASSUME IInv, IInv', open, open', NEW k \in Keys, shard' = EraseKey(shard, k), held' = held
    PROVE  /\ shard'.table = [shard.table EXCEPT ![k] = NoHandle]
           /\ Contract!Reclaim(shard.live)
<1>1. /\ shard \in Shards /\ NoDup(shard.lru) /\ {} \in SUBSET Handles
      /\ shard.table \in [Keys -> Handles \cup {NoHandle}]
  BY FieldTypes DEF IInv, TypeOK, ListsMatchRefs, NoDup
<1>2. shard'.table = [shard.table EXCEPT ![k] = NoHandle]
  BY <1>1, EraseKeyTable
<1>3. Mapped(shard'.table) \subseteq Mapped(shard.table)
  BY <1>1, <1>2, NoHandleAssumption DEF Mapped
<1>4. shard'.live = shard.live \cap (Mapped(shard'.table) \cup Pinned(held'))
  BY <1>1, <1>3, Reclaimed
<1> QED
  BY <1>2, <1>4 DEF Contract!Reclaim, Contract!Mapped, Contract!Pinned, Mapped, Pinned

LEMMA InsertImplements ==
    ASSUME IInv, IInv', NEW k \in Keys, NEW h \in Handles, NEW c \in Charges, Insert(k, h, c)
    PROVE  Contract!SpecInsert(k, h)
<1> DEFINE s == Allocate(shard, h, k, c)
<1>1. /\ open /\ open' /\ open' = open /\ running = "none" /\ running' = "insert"
      /\ h \notin shard.live /\ c \in Nat
      /\ held' = [held EXCEPT ![h] = 1] /\ held \in [Handles -> Nat]
      /\ ShardInv(shard, held, NoHandle)
      /\ shard.table \in [Keys -> Handles \cup {NoHandle}]
  BY ChargesAssumption, OpenInv, FieldTypes DEF Insert, MutexFree, IInv, TypeOK
<1>2. s \in Shards /\ NoDup(s.lru)
  BY <1>1, AllocateInv DEF ShardInv, Listed
<1>3. s.table = shard.table
  BY DEF IInv, TypeOK, Allocate, Shards
<1>4. shard'.table \in {shard.table, [shard.table EXCEPT ![k] = h]}
  <2>1. CASE shard.capacity > 0
    <3>1. shard' = CacheEntry(s, h, k, c)
      BY <2>1 DEF Insert
    <3>2. CacheEntry(s, h, k, c).table = [s.table EXCEPT ![k] = h]
      BY <1>1, <1>2, CacheEntryTable
    <3> QED
      BY <1>3, <3>1, <3>2
  <2>2. CASE ~(shard.capacity > 0)
    BY <1>3, <2>2 DEF Insert
  <2> QED
    BY <2>1, <2>2
<1>5. /\ Mapped(shard'.table) \subseteq Mapped(shard.table) \cup {h}
      /\ Pinned(held') \subseteq Pinned(held) \cup {h}
  <2>1. Mapped(shard'.table) \subseteq Mapped(shard.table) \cup {h}
    BY <1>1, <1>4 DEF Mapped
  <2>2. Pinned(held') \subseteq Pinned(held) \cup {h}
    BY <1>1 DEF Pinned
  <2> QED
    BY <2>1, <2>2
<1>6. shard'.live = (shard.live \cup {h}) \cap (Mapped(shard'.table) \cup Pinned(held'))
  <2>1. {h} \in SUBSET Handles /\ open /\ open'
    BY <1>1
  <2> QED
    BY <1>5, <2>1, Reclaimed
<1>7. Contract!Reclaim(shard.live \cup {h})
  BY <1>6 DEF Contract!Reclaim, Contract!Mapped, Contract!Pinned, Mapped, Pinned
<1> QED
  BY <1>1, <1>4, <1>7 DEF Contract!SpecInsert

LEMMA LookUpImplements ==
    ASSUME IInv, IInv', NEW k \in Keys, LookUp(k)
    PROVE  Contract!SpecLookUp(k)
<1> DEFINE e == shard.table[k]
<1>1. /\ open /\ open' /\ open' = open /\ running = "none" /\ running' = running
      /\ shard \in Shards /\ held \in [Handles -> Nat]
      /\ shard.table \in [Keys -> Handles \cup {NoHandle}]
      /\ e # NoHandle /\ shard' = Ref(shard, e) /\ held' = [held EXCEPT ![e] = @ + 1]
  BY FieldTypes DEF LookUp, MutexFree, IInv, TypeOK
<1>2. e \in Handles /\ shard'.table = shard.table
  BY <1>1, RefTable
<1>3. e \in Mapped(shard.table)
  BY <1>2 DEF Mapped
<1>4. Pinned(held') \subseteq Pinned(held) \cup {e}
  BY <1>1, <1>2 DEF Pinned
<1>5. shard'.live = (shard.live \cup {e}) \cap (Mapped(shard'.table) \cup Pinned(held'))
  <2>1. /\ {e} \in SUBSET Handles /\ open /\ open'
        /\ Mapped(shard'.table) \subseteq Mapped(shard.table) \cup {e}
    BY <1>1, <1>2
  <2> HIDE DEF e
  <2> QED
    BY <1>4, <2>1, Reclaimed
<1>6. shard.live = Mapped(shard.table) \cup Pinned(held)
  BY <1>1, LiveIsReachable
<1>7. Pinned(held) \subseteq Pinned(held')
  BY <1>1, <1>2 DEF Pinned
<1>8. shard'.live = shard.live
  BY <1>2, <1>3, <1>5, <1>6, <1>7
<1> QED
  BY <1>1, <1>2, <1>8 DEF Contract!SpecLookUp

LEMMA ReleaseImplements ==
    ASSUME IInv, IInv', NEW h \in Handles, Release(h)
    PROVE  Contract!SpecRelease(h)
<1>1. /\ open /\ open' /\ open' = open /\ running = "none" /\ running' = running
      /\ shard \in Shards /\ held \in [Handles -> Nat] /\ {} \in SUBSET Handles
      /\ held[h] > 0 /\ shard' = UnRef(shard, h) /\ held' = [held EXCEPT ![h] = @ - 1]
  BY DEF Release, MutexFree, IInv, TypeOK
<1>2. shard'.table = shard.table
  BY <1>1, UnRefTable
<1>3. Pinned(held') \subseteq Pinned(held)
  BY <1>1 DEF Pinned
<1>4. shard'.live = shard.live \cap (Mapped(shard'.table) \cup Pinned(held'))
  BY <1>1, <1>2, <1>3, Reclaimed
<1> QED
  BY <1>1, <1>2, <1>4
     DEF Contract!SpecRelease, Contract!Reclaim, Contract!Mapped, Contract!Pinned, Mapped, Pinned

LEMMA EraseImplements ==
    ASSUME IInv, IInv', NEW k \in Keys, Erase(k)
    PROVE  Contract!SpecErase(k)
<1>1. /\ open /\ open' /\ open' = open /\ running = "none" /\ running' = running
      /\ shard' = EraseKey(shard, k) /\ held' = held
  BY DEF Erase, MutexFree
<1> QED
  BY <1>1, EraseKeyReclaims DEF Contract!SpecErase

LEMMA EvictImplements ==
    ASSUME IInv, IInv', EvictOldest
    PROVE  \E k \in Keys : Contract!SpecEvict(k)
<1> DEFINE h == Head(shard.lru)
           k == shard.key[h]
<1>1. /\ open /\ open' /\ open' = open /\ running # "none" /\ running' = running
      /\ shard' = EraseKey(shard, k) /\ held' = held /\ shard.lru # <<>>
      /\ shard.lru \in Seq(Handles) /\ shard.key \in [Handles -> Keys]
  BY FieldTypes DEF EvictOldest, MustEvict, IInv, TypeOK
<1>2. h \in Handles /\ h \in Elements(shard.lru)
  <2>1. 1 \in DOMAIN shard.lru /\ h = shard.lru[1]
    BY <1>1
  <2> QED
    BY <1>1, <2>1 DEF Elements
<1>3. k \in Keys /\ h \in shard.in_cache /\ held[h] = 0
  BY <1>1, <1>2 DEF IInv, ListsMatchRefs
<1>4. shard.table[k] = h /\ h # NoHandle
  BY <1>2, <1>3, NoHandleAssumption DEF IInv, TableIsCache
<1>5. /\ shard'.table = [shard.table EXCEPT ![k] = NoHandle]
      /\ Contract!Reclaim(shard.live)
  BY <1>1, <1>3, EraseKeyReclaims
<1> HIDE DEF h, k
<1>6. Contract!SpecEvict(k)
  BY <1>1, <1>3, <1>4, <1>5 DEF Contract!SpecEvict
<1> QED
  BY <1>3, <1>6

LEMMA DestroyImplements ==
    ASSUME IInv, IInv', Destroy
    PROVE  Contract!SpecDestroy
<1>1. /\ open /\ running = "none" /\ open' = FALSE /\ held' = held /\ running' = running
      /\ \A h \in Handles : held[h] = 0
  BY DEF Destroy, MutexFree
<1>2. shard'.table = [k \in Keys |-> NoHandle]
  BY DEF Destroy, IInv, TypeOK, Shards
<1>3. shard'.live = {}
  BY <1>1 DEF IInv, NothingLeaked
<1> QED
  BY <1>1, <1>2, <1>3 DEF Contract!SpecDestroy, Contract!Pinned

\* Every step of the shard is a step of the contract, or changes nothing it sees.
LEMMA StepImplements ==
    ASSUME IInv, IInv', [Next]_vars
    PROVE  [Contract!SpecNext]_(Contract!specVars)
<1>1. ASSUME NEW k \in Keys, NEW h \in Handles, NEW c \in Charges, Insert(k, h, c)
      PROVE  Contract!SpecNext
  BY <1>1, InsertImplements DEF Contract!SpecNext
<1>2. ASSUME NEW k \in Keys, LookUp(k) \/ Erase(k)
      PROVE  Contract!SpecNext
  BY <1>2, LookUpImplements, EraseImplements DEF Contract!SpecNext
<1>3. ASSUME NEW h \in Handles, Release(h)
      PROVE  Contract!SpecNext
  BY <1>3, ReleaseImplements DEF Contract!SpecNext
<1>4. CASE Prune
  BY <1>4 DEF Prune, MutexFree, Contract!SpecPrune, Contract!SpecNext
<1>5. CASE EvictOldest
  BY <1>5, EvictImplements DEF Contract!SpecNext
<1>6. CASE LoopDone
  BY <1>6 DEF LoopDone, IInv, Contract!SpecDone, Contract!SpecNext
<1>7. CASE Destroy
  BY <1>7, DestroyImplements DEF Contract!SpecNext
<1>8. CASE Terminated \/ UNCHANGED vars
  BY <1>8 DEF Terminated, vars, Contract!specVars
<1> QED
  BY <1>1, <1>2, <1>3, <1>4, <1>5, <1>6, <1>7, <1>8 DEF Next

\* cache.h:15-33, for any keys, capacities and charges: a mapped or pinned entry is
\* never deleted, every other one is deleted at once, and only an insert or a prune
\* evicts, and only what nobody has pinned.
THEOREM ShardImplementsContract == Spec => ImplementsContract
<1>1. Init => Contract!SpecInit
  BY DEF Init, EmptyShard, Contract!SpecInit
<1>2. IInv /\ IInv' /\ [Next]_vars => [Contract!SpecNext]_(Contract!specVars)
  BY StepImplements
<1> QED
  BY <1>1, <1>2, ShardInvariant, PTL DEF Spec, ImplementsContract, Contract!CacheContract
=============================================================================
