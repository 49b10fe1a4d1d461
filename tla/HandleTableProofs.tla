-------------------------- MODULE HandleTableProofs --------------------------
(***************************************************************************)
(* For every set of keys and entries and every hash: no chain of the table *)
(* has a cycle or shares an entry with another, elems_ counts the entries, *)
(* and the table behaves as the map from keys to entries that lru_cache    *)
(* takes it for, at every step of a resize too.                            *)
(***************************************************************************)
EXTENDS HandleTable, FiniteSetTheorems, WellFoundedInduction, TLAPS

-----------------------------------------------------------------------------
(* What links lead to.  A set is closed when no link leaves it; what can   *)
(* be reached from an entry is the least closed set that has it.           *)

Ends == Handles \cup {Null}
Links == [Handles -> Ends]

Closed(next, S) == \A s \in S : next[s] # Null => next[s] \in S
Reach(next, x) ==
    {h \in Handles : \A S \in SUBSET Handles :
                        Closed(next, S) /\ (x # Null => x \in S) => h \in S}

LEMMA ReachLeast ==
    ASSUME NEW next \in Links, NEW x \in Ends, NEW S \in SUBSET Handles,
           Closed(next, S), x # Null => x \in S
    PROVE  Reach(next, x) \subseteq S
BY DEF Reach

LEMMA ReachClosed ==
    ASSUME NEW next \in Links, NEW x \in Ends
    PROVE  /\ Reach(next, x) \in SUBSET Handles
           /\ Closed(next, Reach(next, x))
           /\ x # Null => x \in Reach(next, x)
<1>1. Reach(next, x) \in SUBSET Handles
  BY DEF Reach
<1>2. x # Null => x \in Reach(next, x)
  BY DEF Reach, Ends
<1>3. ASSUME NEW s \in Reach(next, x), next[s] # Null
      PROVE  next[s] \in Reach(next, x)
  <2>1. next[s] \in Handles
    BY <1>1, <1>3 DEF Links, Ends
  <2>2. ASSUME NEW S \in SUBSET Handles, Closed(next, S), x # Null => x \in S
        PROVE  next[s] \in S
    <3>1. s \in S
      BY <2>2 DEF Reach
    <3> QED
      BY <1>3, <2>2, <3>1 DEF Closed
  <2> QED
    BY <2>1, <2>2 DEF Reach
<1> QED
  BY <1>1, <1>2, <1>3 DEF Closed

LEMMA ReachNull ==
    ASSUME NEW next \in Links
    PROVE  Reach(next, Null) = {}
<1>1. Closed(next, {}) /\ {} \in SUBSET Handles
  BY DEF Closed
<1> QED
  BY <1>1 DEF Reach

\* What lies behind a member lies in the same set.
LEMMA ReachTrans ==
    ASSUME NEW next \in Links, NEW x \in Ends, NEW y \in Reach(next, x)
    PROVE  Reach(next, y) \subseteq Reach(next, x)
<1>1. Reach(next, x) \in SUBSET Handles /\ Closed(next, Reach(next, x))
  BY ReachClosed
<1>2. y \in Ends
  BY <1>1 DEF Ends
<1> QED
  BY <1>1, <1>2, ReachLeast

\* The first entry, and what its link leads to.
LEMMA ReachStep ==
    ASSUME NEW next \in Links, NEW x \in Handles
    PROVE  Reach(next, x) = {x} \cup Reach(next, next[x])
<1>1. x \in Ends /\ next[x] \in Ends /\ x # Null
  BY NullAssumption DEF Ends, Links
<1>2. /\ Reach(next, x) \in SUBSET Handles /\ Closed(next, Reach(next, x)) /\ x \in Reach(next, x)
      /\ Reach(next, next[x]) \in SUBSET Handles /\ Closed(next, Reach(next, next[x]))
      /\ next[x] # Null => next[x] \in Reach(next, next[x])
  BY <1>1, ReachClosed
<1>3. Reach(next, x) \subseteq {x} \cup Reach(next, next[x])
  <2>1. Closed(next, {x} \cup Reach(next, next[x]))
    BY <1>2 DEF Closed
  <2> QED
    BY <1>1, <1>2, <2>1, ReachLeast
<1>4. Reach(next, next[x]) \subseteq Reach(next, x)
  <2>1. next[x] # Null => next[x] \in Reach(next, x)
    BY <1>2 DEF Closed
  <2> QED
    BY <1>1, <1>2, <2>1, ReachLeast
<1> QED
  BY <1>2, <1>3, <1>4

\* Of two entries of a chain, one lies behind the other.
LEMMA ReachLinear ==
    ASSUME NEW next \in Links, NEW x \in Ends, NEW a \in Reach(next, x), NEW b \in Reach(next, x)
    PROVE  a \in Reach(next, b) \/ b \in Reach(next, a)
<1> DEFINE S == {s \in Reach(next, x) : s \in Reach(next, b) \/ b \in Reach(next, s)}
<1>1. /\ Reach(next, x) \in SUBSET Handles /\ Closed(next, Reach(next, x))
      /\ x # Null => x \in Reach(next, x)
  BY ReachClosed
<1>2. x # Null => x \in S
  BY <1>1
<1>3. Closed(next, S)
  <2> SUFFICES ASSUME NEW s \in S, next[s] # Null
               PROVE  next[s] \in S
    BY DEF Closed
  <2>1. s \in Handles /\ next[s] \in Reach(next, x) /\ b \in Ends /\ b \in Handles /\ b # Null
    BY <1>1, NullAssumption DEF Closed, Ends
  <2>2. b \in Reach(next, b) /\ Closed(next, Reach(next, b))
    BY <2>1, ReachClosed
  <2>3. CASE s \in Reach(next, b)
    BY <2>1, <2>2, <2>3 DEF Closed
  <2>4. CASE b \in Reach(next, s)
    <3>1. b = s \/ b \in Reach(next, next[s])
      BY <2>1, <2>4, ReachStep
    <3> QED
      BY <2>1, <2>2, <3>1 DEF Closed
  <2> QED
    BY <2>3, <2>4
<1>4. S \in SUBSET Handles
  BY <1>1
<1> HIDE DEF S
<1>5. Reach(next, x) \subseteq S
  BY <1>2, <1>3, <1>4, ReachLeast
<1> QED
  BY <1>5 DEF S

\* A link outside a chain changes nothing in it.
LEMMA ReachElsewhere ==
    ASSUME NEW next \in Links, NEW x \in Ends, NEW s \in Handles, NEW e \in Ends,
           s \notin Reach(next, x)
    PROVE  Reach([next EXCEPT ![s] = e], x) = Reach(next, x)
<1> DEFINE new == [next EXCEPT ![s] = e]
<1>1. new \in Links /\ \A h \in Handles \ {s} : new[h] = next[h]
  BY DEF Links
<1> HIDE DEF new
<1>2. /\ Reach(next, x) \in SUBSET Handles /\ Closed(next, Reach(next, x))
      /\ x # Null => x \in Reach(next, x)
      /\ Reach(new, x) \in SUBSET Handles /\ Closed(new, Reach(new, x))
      /\ x # Null => x \in Reach(new, x)
  BY <1>1, ReachClosed
<1>3. Reach(new, x) \subseteq Reach(next, x)
  <2>1. Closed(new, Reach(next, x))
    BY <1>1, <1>2 DEF Closed
  <2> QED
    BY <1>1, <1>2, <2>1, ReachLeast
<1>4. Reach(next, x) \subseteq Reach(new, x)
  <2>1. Closed(next, Reach(new, x))
    BY <1>1, <1>2, <1>3 DEF Closed
  <2> QED
    BY <1>1, <1>2, <2>1, ReachLeast
<1> QED
  BY <1>3, <1>4 DEF new

\* The entries of the chain of x in front of s.
Before(next, x, s) == Reach(next, x) \ Reach(next, s)

\* An entry that is not behind itself: no cycle goes through it.
Straight(next, s) == s \notin Reach(next, next[s])

\* In front of s, links lead to entries in front of s and to s.
LEMMA BeforeNext ==
    ASSUME NEW next \in Links, NEW x \in Ends, NEW s \in Reach(next, x), Straight(next, s),
           NEW b \in Before(next, x, s)
    PROVE  next[b] \in Before(next, x, s) \cup {s}
<1>1. /\ Reach(next, x) \in SUBSET Handles /\ Closed(next, Reach(next, x))
  BY ReachClosed
<1>2. /\ s \in Handles /\ b \in Handles /\ b \in Reach(next, x) /\ b \notin Reach(next, s)
      /\ s \in Ends /\ next[s] \in Ends
  BY <1>1 DEF Before, Links, Ends
<1>3. s \in Reach(next, s)
  BY <1>2, NullAssumption, ReachClosed
<1>4. s \in Reach(next, b)
  BY <1>2, ReachLinear
<1>5. s \in Reach(next, next[b])
  BY <1>2, <1>3, <1>4, ReachStep
<1>6. next[b] \in Handles /\ next[b] \in Reach(next, x)
  <2>1. next[b] # Null
    BY <1>5, ReachNull
  <2> QED
    BY <1>1, <1>2, <2>1 DEF Closed
<1>7. CASE next[b] \in Reach(next, s)
  <2>1. next[b] = s \/ next[b] \in Reach(next, next[s])
    BY <1>2, <1>7, ReachStep
  <2>2. CASE next[b] \in Reach(next, next[s])
    <3>1. Reach(next, next[b]) \subseteq Reach(next, next[s])
      BY <1>2, <2>2, ReachTrans
    <3> QED
      BY <1>5, <3>1 DEF Straight
  <2> QED
    BY <2>1, <2>2
<1> QED
  BY <1>6, <1>7 DEF Before

\* A chain whose link at s is changed: its part up to s, and what the link leads to.
LEMMA ReachThrough ==
    ASSUME NEW next \in Links, NEW x \in Ends, NEW s \in Reach(next, x), Straight(next, s),
           NEW e \in Ends
    PROVE  Reach([next EXCEPT ![s] = e], x)
             = Before(next, x, s) \cup {s} \cup Reach([next EXCEPT ![s] = e], e)
<1> DEFINE new == [next EXCEPT ![s] = e]
           front == Before(next, x, s)
<1>1. /\ Reach(next, x) \in SUBSET Handles /\ Closed(next, Reach(next, x))
      /\ x # Null => x \in Reach(next, x)
  BY ReachClosed
<1>2. s \in Handles /\ s \in Ends /\ next[s] \in Ends
  BY <1>1 DEF Links, Ends
<1>3. new \in Links /\ new[s] = e /\ \A h \in Handles \ {s} : new[h] = next[h]
  BY <1>2 DEF Links
<1>4. s \in Reach(next, s) /\ Reach(next, s) = {s} \cup Reach(next, next[s])
  BY <1>2, NullAssumption, ReachClosed, ReachStep
<1>5. front \in SUBSET Handles /\ s \notin front
  BY <1>1, <1>4 DEF Before
<1>6. \A b \in front : next[b] \in front \cup {s}
  BY BeforeNext
<1>7. x # Null /\ x \in front \cup {s}
  <2>1. x # Null
    BY ReachNull
  <2>2. CASE x \in Reach(next, s)
    <3>1. CASE x \in Reach(next, next[s])
      <4>1. Reach(next, x) \subseteq Reach(next, next[s])
        BY <1>2, <3>1, ReachTrans
      <4> QED
        BY <4>1 DEF Straight
    <3> QED
      BY <1>4, <2>1, <2>2, <3>1
  <2> QED
    BY <1>1, <2>1, <2>2 DEF Before
<1> HIDE DEF new
<1>8. /\ Reach(new, e) \in SUBSET Handles /\ Closed(new, Reach(new, e))
      /\ e # Null => e \in Reach(new, e)
      /\ Reach(new, x) \in SUBSET Handles /\ Closed(new, Reach(new, x))
      /\ x \in Reach(new, x)
      /\ Reach(next, next[s]) \in SUBSET Handles /\ Closed(next, Reach(next, next[s]))
      /\ next[s] # Null => next[s] \in Reach(next, next[s])
  BY <1>2, <1>3, <1>7, ReachClosed
<1>9. Reach(new, x) \subseteq front \cup {s} \cup Reach(new, e)
  <2> DEFINE S == front \cup {s} \cup Reach(new, e)
  <2>1. Closed(new, S)
    <3> SUFFICES ASSUME NEW h \in S, new[h] # Null
                 PROVE  new[h] \in S
      BY DEF Closed
    <3>1. CASE h \in front
      BY <1>3, <1>5, <1>6, <3>1
    <3>2. CASE h = s
      BY <1>3, <1>8, <3>2
    <3>3. CASE h \in Reach(new, e)
      BY <1>8, <3>3 DEF Closed
    <3> QED
      BY <3>1, <3>2, <3>3
  <2>2. S \in SUBSET Handles /\ x \in S
    BY <1>2, <1>5, <1>7, <1>8
  <2> HIDE DEF S
  <2>3. Reach(new, x) \subseteq S
    BY <1>3, <2>1, <2>2, ReachLeast
  <2> QED
    BY <2>3 DEF S
<1>10. front \cup {s} \subseteq Reach(new, x)
  <2> DEFINE S == ((front \cup {s}) \cap Reach(new, x)) \cup Reach(next, next[s])
  <2>1. Closed(next, S)
    <3> SUFFICES ASSUME NEW h \in S, next[h] # Null
                 PROVE  next[h] \in S
      BY DEF Closed
    <3>1. CASE h \in front /\ h \in Reach(new, x)
      <4>1. next[h] \in front \cup {s} /\ new[h] = next[h]
        BY <1>3, <1>5, <1>6, <3>1
      <4>2. next[h] \in Reach(new, x)
        BY <1>8, <3>1, <4>1 DEF Closed
      <4> QED
        BY <4>1, <4>2
    <3>2. CASE h = s
      BY <1>8, <3>2
    <3>3. CASE h \in Reach(next, next[s])
      BY <1>8, <3>3 DEF Closed
    <3> QED
      BY <3>1, <3>2, <3>3
  <2>2. S \in SUBSET Handles /\ x \in S
    BY <1>7, <1>8
  <2> HIDE DEF S
  <2>3. Reach(next, x) \subseteq S
    BY <2>1, <2>2, ReachLeast
  <2>4. front \cap Reach(next, next[s]) = {} /\ front \subseteq Reach(next, x)
    BY <1>4 DEF Before
  <2>5. s \notin Reach(next, next[s])
    BY DEF Straight
  <2> QED
    BY <2>3, <2>4, <2>5 DEF S
<1>11. Reach(new, e) \subseteq Reach(new, x)
  <2>1. e # Null => e \in Reach(new, x)
    BY <1>3, <1>8, <1>10 DEF Closed
  <2> QED
    BY <1>3, <1>8, <2>1, ReachLeast
<1> QED
  BY <1>9, <1>10, <1>11 DEF new

-----------------------------------------------------------------------------
(* Chain computes what can be reached.  Its recursion takes one entry out  *)
(* of a finite set at each step; the entries it can still reach within     *)
(* that set solve the same equation.                                       *)

\* A non-empty set of subsets of Handles has a smallest member.
LEMMA Smallest ==
    ASSUME NEW T \in SUBSET SUBSET Handles, T # {}
    PROVE  \E m \in T : \A U \in T : ~(U \subseteq m /\ U # m)
<1>1. IsWellFoundedOn(StrictSubsetOrdering(Handles), SUBSET Handles)
  <2>1. IsFiniteSet(Handles)
    BY HandlesAssumption
  <2>2. FiniteSubsetsOf(Handles) = SUBSET Handles
    BY <2>1, FS_FiniteSubsetsOfFinite
  <2>3. IsWellFoundedOn(StrictSubsetOrdering(Handles), FiniteSubsetsOf(Handles))
    BY FS_StrictSubsetOrderingWellFounded
  <2> QED
    BY <2>2, <2>3
<1>2. T \subseteq SUBSET Handles
  OBVIOUS
<1>3. \E m \in T : \A U \in T : ~(<<U, m>> \in StrictSubsetOrdering(Handles))
  BY ONLY <1>1, <1>2, T # {}, WFMin
<1> QED
  BY <1>3 DEF StrictSubsetOrdering

Within(next, left, x) ==
    {h \in left : \A S \in SUBSET left :
       /\ x \in left => x \in S
       /\ \A s \in S : next[s] \in left => next[s] \in S
       => h \in S}

LEMMA WithinStep ==
    ASSUME NEW next \in Links, NEW left \in SUBSET Handles, NEW x \in Ends
    PROVE  Within(next, left, x)
             = IF x \in left THEN {x} \cup Within(next, left \ {x}, next[x]) ELSE {}
<1>1. CASE x \notin left
  <2>1. {} \in SUBSET left
    OBVIOUS
  <2> QED
    BY <1>1, <2>1 DEF Within
<1>2. CASE x \in left
  <2> DEFINE A == Within(next, left, x)
             B == Within(next, left \ {x}, next[x])
  <2>1. /\ A \in SUBSET left /\ x \in A
        /\ \A s \in A : next[s] \in left => next[s] \in A
        /\ \A S \in SUBSET left : x \in S /\ (\A s \in S : next[s] \in left => next[s] \in S)
             => A \subseteq S
    BY <1>2 DEF Within
  <2>2. /\ B \in SUBSET (left \ {x}) /\ (next[x] \in left \ {x} => next[x] \in B)
        /\ \A s \in B : next[s] \in left \ {x} => next[s] \in B
        /\ \A S \in SUBSET (left \ {x}) :
             /\ next[x] \in left \ {x} => next[x] \in S
             /\ \A s \in S : next[s] \in left \ {x} => next[s] \in S
             => B \subseteq S
    BY DEF Within
  <2> HIDE DEF A, B
  <2>3. A \subseteq {x} \cup B
    <3>1. {x} \cup B \in SUBSET left
      BY <1>2, <2>2
    <3>2. \A s \in {x} \cup B : next[s] \in left => next[s] \in {x} \cup B
      BY <2>2
    <3> QED
      BY <2>1, <3>1, <3>2
  <2>4. B \subseteq A
    <3>1. A \ {x} \in SUBSET (left \ {x})
      BY <2>1
    <3>2. next[x] \in left \ {x} => next[x] \in A \ {x}
      BY <2>1
    <3>3. \A s \in A \ {x} : next[s] \in left \ {x} => next[s] \in A \ {x}
      BY <2>1
    <3> QED
      BY <2>2, <3>1, <3>2, <3>3
  <2> QED
    BY <1>2, <2>1, <2>3, <2>4 DEF A, B
<1> QED
  BY <1>1, <1>2

LEMMA WithinAll ==
    ASSUME NEW next \in Links, NEW x \in Ends
    PROVE  Within(next, Handles, x) = Reach(next, x)
<1>1. x \in Handles <=> x # Null
  BY NullAssumption DEF Ends
<1>2. \A S \in SUBSET Handles :
        (\A s \in S : next[s] \in Handles => next[s] \in S) <=> Closed(next, S)
  BY NullAssumption DEF Closed, Links, Ends
<1> QED
  BY <1>1, <1>2 DEF Within, Reach

LEMMA ChainIsReach ==
    ASSUME next_hash \in Links, NEW e \in Ends
    PROVE  Chain(e) = Reach(next_hash, e)
<1> DEFINE F(g) == [left \in SUBSET Handles |->
                      [x \in Handles \cup {Null} |->
                        IF x \in left THEN {x} \cup g[left \ {x}][next_hash[x]] ELSE {}]]
           G == [left \in SUBSET Handles |->
                   [x \in Handles \cup {Null} |-> Within(next_hash, left, x)]]
           f == CHOOSE g : g = F(g)
<1>1. G = F(G)
  <2>1. ASSUME NEW left \in SUBSET Handles, NEW x \in Handles \cup {Null}
        PROVE  Within(next_hash, left, x)
                 = IF x \in left THEN {x} \cup G[left \ {x}][next_hash[x]] ELSE {}
    <3>1. x \in left => G[left \ {x}][next_hash[x]] = Within(next_hash, left \ {x}, next_hash[x])
      BY DEF Links, Ends
    <3>2. Within(next_hash, left, x)
            = IF x \in left THEN {x} \cup Within(next_hash, left \ {x}, next_hash[x]) ELSE {}
      BY WithinStep DEF Ends
    <3> QED
      BY <3>1, <3>2
  <2>2. ASSUME NEW left \in SUBSET Handles
        PROVE  G[left] = F(G)[left]
    <3>1. G[left] = [x \in Handles \cup {Null} |-> Within(next_hash, left, x)]
      OBVIOUS
    <3>2. F(G)[left] = [x \in Handles \cup {Null} |->
                          IF x \in left THEN {x} \cup G[left \ {x}][next_hash[x]] ELSE {}]
      OBVIOUS
    <3> HIDE DEF F, G
    <3>3. \A x \in Handles \cup {Null} :
            Within(next_hash, left, x)
              = IF x \in left THEN {x} \cup G[left \ {x}][next_hash[x]] ELSE {}
      BY <2>1
    <3> QED
      BY ONLY <3>1, <3>2, <3>3
  <2>3. /\ G = [left \in SUBSET Handles |-> G[left]]
        /\ F(G) = [left \in SUBSET Handles |-> F(G)[left]]
    OBVIOUS
  <2> HIDE DEF F, G
  <2> QED
    BY <2>2, <2>3
<1>2. f = F(f)
  BY <1>1
<1>3. Chain(e) = f[Handles][e]
  BY DEF Chain
<1> HIDE DEF f
<1>4. \A left \in SUBSET Handles : \A x \in Ends : f[left][x] = Within(next_hash, left, x)
  <2> DEFINE bad == {left \in SUBSET Handles :
                       \E x \in Ends : f[left][x] # Within(next_hash, left, x)}
  <2> SUFFICES ASSUME bad # {}
               PROVE  FALSE
    OBVIOUS
  <2>1. PICK m \in bad : \A U \in bad : ~(U \subseteq m /\ U # m)
    <3>1. bad \in SUBSET SUBSET Handles /\ bad # {}
      OBVIOUS
    <3> HIDE DEF bad
    <3> QED
      BY <3>1, Smallest
  <2>2. PICK x \in Ends : f[m][x] # Within(next_hash, m, x)
    OBVIOUS
  <2>3. f[m][x] = IF x \in m THEN {x} \cup f[m \ {x}][next_hash[x]] ELSE {}
    <3>1. f[m][x] = F(f)[m][x]
      BY <1>2, Zenon
    <3>2. m \in SUBSET Handles /\ x \in Handles \cup {Null}
      BY DEF Ends
    <3>3. F(f)[m] = [z \in Handles \cup {Null} |->
                       IF z \in m THEN {z} \cup f[m \ {z}][next_hash[z]] ELSE {}]
      BY ONLY <3>2
    <3>4. F(f)[m][x] = IF x \in m THEN {x} \cup f[m \ {x}][next_hash[x]] ELSE {}
      BY ONLY <3>2, <3>3
    <3> QED
      BY ONLY <3>1, <3>4
  <2>4. Within(next_hash, m, x)
          = IF x \in m THEN {x} \cup Within(next_hash, m \ {x}, next_hash[x]) ELSE {}
    BY WithinStep
  <2>5. CASE x \in m
    <3>1. m \ {x} \in SUBSET Handles /\ m \ {x} \subseteq m /\ m \ {x} # m /\ x \in Handles
      BY <2>5
    <3>2. m \ {x} \notin bad
      BY <2>1, <3>1
    <3>3. next_hash[x] \in Ends
      BY <3>1 DEF Links
    <3> QED
      BY <2>2, <2>3, <2>4, <2>5, <3>1, <3>2, <3>3
  <2> QED
    BY <2>2, <2>3, <2>4, <2>5
<1> QED
  BY <1>3, <1>4, WithinAll

-----------------------------------------------------------------------------
(* Chains: heads gives the first entry of each.                            *)

StraightFrom(next, x) == \A h \in Reach(next, x) : Straight(next, h)

Sound(heads, next) ==
    /\ next \in Links
    /\ \A d \in DOMAIN heads : heads[d] \in Ends /\ StraightFrom(next, heads[d])
    /\ \A c, d \in DOMAIN heads : c # d => Reach(next, heads[c]) \cap Reach(next, heads[d]) = {}

Members(heads, next) == UNION {Reach(next, heads[d]) : d \in DOMAIN heads}

\* A slot of chain d: the bucket itself or the link of a member.
SlotOf(heads, next, d, ptr) ==
    d \in DOMAIN heads /\ d \notin Handles /\ (ptr = d \/ ptr \in Reach(next, heads[d]))
At(heads, next, ptr) == IF ptr \in Handles THEN next[ptr] ELSE heads[ptr]
Front(heads, next, d, ptr) == IF ptr = d THEN {} ELSE Before(next, heads[d], ptr) \cup {ptr}

\* A chain is what is in front of a slot and what the slot leads to.
LEMMA Split ==
    ASSUME NEW heads, NEW next, Sound(heads, next), NEW d, NEW ptr, SlotOf(heads, next, d, ptr)
    PROVE  /\ At(heads, next, ptr) \in Ends
           /\ Reach(next, heads[d])
                = Front(heads, next, d, ptr) \cup Reach(next, At(heads, next, ptr))
           /\ Front(heads, next, d, ptr) \cap Reach(next, At(heads, next, ptr)) = {}
<1>1. /\ next \in Links /\ d \in DOMAIN heads /\ d \notin Handles /\ heads[d] \in Ends
      /\ StraightFrom(next, heads[d])
  BY DEF Sound, SlotOf
<1>2. CASE ptr = d
  BY <1>1, <1>2 DEF At, Front
<1>3. CASE ptr # d
  <2>1. ptr \in Reach(next, heads[d]) /\ Straight(next, ptr)
    BY <1>1, <1>3 DEF SlotOf, StraightFrom
  <2>2. Reach(next, heads[d]) \in SUBSET Handles
    BY <1>1, ReachClosed
  <2>3. ptr \in Handles /\ next[ptr] \in Ends
    BY <1>1, <2>1, <2>2 DEF Links
  <2>4. Reach(next, ptr) = {ptr} \cup Reach(next, next[ptr])
    BY <1>1, <2>3, ReachStep
  <2>5. Reach(next, ptr) \subseteq Reach(next, heads[d])
    BY <1>1, <2>1, ReachTrans
  <2>6. At(heads, next, ptr) = next[ptr]
    BY <2>3 DEF At
  <2> QED
    BY <1>3, <2>1, <2>3, <2>4, <2>5, <2>6 DEF Front, Before, Straight
<1> QED
  BY <1>2, <1>3

\* What lies behind an entry of a chain is part of the chain and has no cycle.
LEMMA Behind ==
    ASSUME NEW next \in Links, NEW x \in Ends, StraightFrom(next, x), NEW h \in Reach(next, x)
    PROVE  /\ h \in Handles /\ next[h] \in Ends
           /\ Reach(next, h) = {h} \cup Reach(next, next[h])
           /\ h \notin Reach(next, next[h])
           /\ Reach(next, h) \subseteq Reach(next, x)
           /\ StraightFrom(next, h) /\ StraightFrom(next, next[h])
<1>1. h \in Handles /\ next[h] \in Ends
  BY ReachClosed DEF Links
<1>2. Reach(next, h) = {h} \cup Reach(next, next[h])
  BY <1>1, ReachStep
<1>3. Reach(next, h) \subseteq Reach(next, x)
  BY ReachTrans
<1> QED
  BY <1>1, <1>2, <1>3 DEF StraightFrom, Straight

\* A link elsewhere leaves a chain as it was,
LEMMA StoreElsewhere ==
    ASSUME NEW next \in Links, NEW x \in Ends, StraightFrom(next, x),
           NEW s \in Handles, s \notin Reach(next, x), NEW e \in Ends
    PROVE  /\ Reach([next EXCEPT ![s] = e], x) = Reach(next, x)
           /\ StraightFrom([next EXCEPT ![s] = e], x)
<1> DEFINE new == [next EXCEPT ![s] = e]
<1>1. Reach(new, x) = Reach(next, x)
  BY ReachElsewhere
<1>2. ASSUME NEW h \in Reach(next, x)
      PROVE  Straight(new, h)
  <2>1. /\ next[h] \in Ends /\ Reach(next, next[h]) \subseteq Reach(next, x)
        /\ h \notin Reach(next, next[h]) /\ h # s /\ h \in Handles
    BY <1>2, Behind
  <2>2. s \notin Reach(next, next[h])
    BY <2>1
  <2>3. Reach(new, next[h]) = Reach(next, next[h])
    BY <2>1, <2>2, ReachElsewhere
  <2>4. new[h] = next[h]
    BY <2>1 DEF Links
  <2> QED
    BY <2>1, <2>3, <2>4 DEF Straight
<1> QED
  BY <1>1, <1>2 DEF StraightFrom

\* a link inside replaces what is behind it.
LEMMA StoreInside ==
    ASSUME NEW next \in Links, NEW x \in Ends, StraightFrom(next, x), NEW s \in Reach(next, x),
           NEW e \in Ends, StraightFrom(next, e),
           Reach(next, e) \cap (Before(next, x, s) \cup {s}) = {}
    PROVE  /\ Reach([next EXCEPT ![s] = e], x) = Before(next, x, s) \cup {s} \cup Reach(next, e)
           /\ StraightFrom([next EXCEPT ![s] = e], x)
<1> DEFINE new == [next EXCEPT ![s] = e]
<1>1. Straight(next, s) /\ s \in Handles /\ s \notin Reach(next, e)
  BY ReachClosed DEF StraightFrom
<1>2. Reach(new, e) = Reach(next, e) /\ StraightFrom(new, e)
  BY <1>1, StoreElsewhere
<1>3. Reach(new, x) = Before(next, x, s) \cup {s} \cup Reach(next, e)
  BY <1>1, <1>2, ReachThrough
<1>4. new[s] = e /\ \A h \in Handles \ {s} : new[h] = next[h]
  BY <1>1 DEF Links
<1>5. ASSUME NEW h \in Before(next, x, s)
      PROVE  Straight(new, h)
  <2>1. h \in Reach(next, x) /\ h \notin Reach(next, s)
    BY <1>5 DEF Before
  <2>2. /\ h \in Handles /\ next[h] \in Ends /\ h \notin Reach(next, next[h])
        /\ Reach(next, h) = {h} \cup Reach(next, next[h])
    BY <2>1, Behind
  <2>3. s \in Reach(next, s)
    BY <1>1, ReachClosed, NullAssumption DEF Ends
  <2>4. h # s
    BY <2>1, <2>3
  <2>5. s \in Reach(next, h)
    BY <2>1, ReachLinear
  <2>6. s \in Reach(next, next[h])
    BY <2>2, <2>4, <2>5
  <2>7. Reach(new, next[h]) = Before(next, next[h], s) \cup {s} \cup Reach(new, e)
    BY <1>1, <2>2, <2>6, ReachThrough
  <2>8. h \notin Before(next, next[h], s) /\ h \notin Reach(next, e)
    BY <1>5, <2>2 DEF Before
  <2>9. new[h] = next[h]
    BY <1>4, <2>2, <2>4
  <2> HIDE DEF new
  <2> QED
    BY <1>2, <2>4, <2>7, <2>8, <2>9 DEF Straight
<1>6. Straight(new, s)
  <2>1. new[s] = e
    BY <1>4
  <2> HIDE DEF new
  <2> QED
    BY <1>1, <1>2, <2>1 DEF Straight
<1> HIDE DEF new
<1>7. StraightFrom(new, x)
  BY <1>2, <1>3, <1>5, <1>6 DEF StraightFrom
<1> QED
  BY <1>3, <1>7 DEF new

\* What a store to a slot does to all chains.
NewHeads(heads, ptr, y) == IF ptr \in Handles THEN heads ELSE [heads EXCEPT ![ptr] = y]
NewNext(next, ptr, y) == IF ptr \in Handles THEN [next EXCEPT ![ptr] = y] ELSE next

LEMMA StoreSound ==
    ASSUME NEW D, NEW heads \in [D -> Ends], NEW next, Sound(heads, next),
           NEW d, NEW ptr, SlotOf(heads, next, d, ptr),
           NEW y \in Ends, StraightFrom(next, y),
           Reach(next, y) \cap Front(heads, next, d, ptr) = {},
           \A c \in D : c # d => Reach(next, y) \cap Reach(next, heads[c]) = {}
    PROVE  /\ Sound(NewHeads(heads, ptr, y), NewNext(next, ptr, y))
           /\ NewHeads(heads, ptr, y) \in [D -> Ends]
           /\ Reach(NewNext(next, ptr, y), NewHeads(heads, ptr, y)[d])
                = Front(heads, next, d, ptr) \cup Reach(next, y)
           /\ \A c \in D : c # d =>
                Reach(NewNext(next, ptr, y), NewHeads(heads, ptr, y)[c]) = Reach(next, heads[c])
<1> DEFINE H == NewHeads(heads, ptr, y)
           N == NewNext(next, ptr, y)
           front == Front(heads, next, d, ptr)
<1>1. /\ next \in Links /\ d \in D /\ d \notin Handles
      /\ \A c \in D : heads[c] \in Ends /\ StraightFrom(next, heads[c])
      /\ \A a, c \in D : a # c => Reach(next, heads[a]) \cap Reach(next, heads[c]) = {}
      /\ DOMAIN heads = D
  BY DEF Sound, SlotOf
<1>2. front \subseteq Reach(next, heads[d]) /\ Reach(next, y) \cap front = {}
  BY Split
<1>3. /\ N \in Links /\ H \in [D -> Ends]
      /\ Reach(N, H[d]) = front \cup Reach(next, y)
      /\ StraightFrom(N, H[d])
      /\ \A c \in D : c # d => Reach(N, H[c]) = Reach(next, heads[c]) /\ StraightFrom(N, H[c])
  <2>1. CASE ptr = d
    <3>1. N = next /\ H = [heads EXCEPT ![d] = y] /\ front = {}
      BY <1>1, <2>1 DEF NewNext, NewHeads, Front
    <3>2. H[d] = y /\ \A c \in D : c # d => H[c] = heads[c]
      BY <1>1, <3>1
    <3>3. H \in [D -> Ends]
      BY <1>1, <3>1
    <3> HIDE DEF H, N, front
    <3> QED
      BY <1>1, <3>1, <3>2, <3>3
  <2>2. CASE ptr # d
    <3>1. ptr \in Reach(next, heads[d])
      BY <2>2 DEF SlotOf
    <3>2. ptr \in Handles
      BY <1>1, <3>1, ReachClosed
    <3>3. /\ N = [next EXCEPT ![ptr] = y] /\ H = heads
          /\ front = Before(next, heads[d], ptr) \cup {ptr}
      BY <2>2, <3>2 DEF NewNext, NewHeads, Front
    <3> HIDE DEF H, N, front
    <3>4. N \in Links
      BY <1>1, <3>2, <3>3 DEF Links
    <3>5. Reach(N, heads[d]) = front \cup Reach(next, y) /\ StraightFrom(N, heads[d])
      <4>1. heads[d] \in Ends /\ StraightFrom(next, heads[d])
        BY <1>1
      <4>2. Reach(next, y) \cap (Before(next, heads[d], ptr) \cup {ptr}) = {}
        BY <1>2, <3>3
      <4>3. /\ Reach([next EXCEPT ![ptr] = y], heads[d])
                 = Before(next, heads[d], ptr) \cup {ptr} \cup Reach(next, y)
            /\ StraightFrom([next EXCEPT ![ptr] = y], heads[d])
        <5>1. next \in Links /\ y \in Ends /\ StraightFrom(next, y)
          BY <1>1
        <5> QED
          BY ONLY <5>1, <3>1, <4>1, <4>2, StoreInside
      <4> QED
        BY <3>3, <4>3
    <3>6. ASSUME NEW c \in D, c # d
          PROVE  Reach(N, heads[c]) = Reach(next, heads[c]) /\ StraightFrom(N, heads[c])
      <4>1. heads[c] \in Ends /\ StraightFrom(next, heads[c]) /\ ptr \notin Reach(next, heads[c])
        BY <1>1, <3>1, <3>6
      <4>2. next \in Links /\ y \in Ends
        BY <1>1
      <4>3. /\ Reach([next EXCEPT ![ptr] = y], heads[c]) = Reach(next, heads[c])
            /\ StraightFrom([next EXCEPT ![ptr] = y], heads[c])
        BY ONLY <3>2, <4>1, <4>2, StoreElsewhere
      <4> QED
        BY <3>3, <4>3
    <3> QED
      BY <3>3, <3>4, <3>5, <3>6
  <2> QED
    BY <2>1, <2>2
<1> HIDE DEF H, N
<1>4. DOMAIN H = D /\ \A c \in D : H[c] \in Ends
  BY <1>3
<1>5. \A c \in D : c # d => Reach(N, H[c]) \cap Reach(N, H[d]) = {}
  BY <1>1, <1>2, <1>3
<1>6. \A a, c \in D : a # c => Reach(N, H[a]) \cap Reach(N, H[c]) = {}
  BY <1>1, <1>3, <1>5
<1>7. Sound(H, N)
  BY <1>3, <1>4, <1>6 DEF Sound
<1> QED
  BY <1>3, <1>7 DEF H, N, front

-----------------------------------------------------------------------------
(* The inductive invariant.                                                *)

\* The chains: of the buckets, with those of the new table at negative numbers
\* while resize moves the entries.  A bucket that has been emptied has none.
Heads ==
    IF resize.pc # "move" THEN list
    ELSE [d \in (-resize.length)..(length - 1) |->
            IF d < 0 THEN resize.list[-1 - d]
            ELSE IF d < resize.i THEN Null
            ELSE IF d = resize.i THEN resize.entry ELSE list[d]]

Home(k, d) == IF d < 0 THEN Bucket(k, resize.length) = -1 - d ELSE Bucket(k, length) = d

\* The entries in the table, and those that resize has moved.
Present == Members(Heads, next_hash)
Moved == Members(resize.list, next_hash)

TableTypes ==
    /\ length \in Nat \ {0} /\ elems \in Int /\ result \in Ends
    /\ list \in [0..(length - 1) -> Ends]

ResizeOK ==
    /\ resize.pc \in {"idle", "grow", "move"}
    /\ resize.pc = "idle" => resize = NoResize
    /\ resize.pc # "idle" => call = NoCall
    /\ resize.pc = "grow" => resize \in [pc : {"grow"}, length : Nat \ {0}]
    /\ resize.pc = "move" =>
         /\ resize = [pc |-> "move", length |-> resize.length, list |-> resize.list,
                      i |-> resize.i, entry |-> resize.entry, count |-> resize.count]
         /\ resize.length \in Nat \ {0} /\ resize.list \in [0..(resize.length - 1) -> Ends]
         /\ resize.i \in 0..(length - 1) /\ resize.entry \in Ends

\* An entry is in the chain of its bucket, and the only one of its key.
Placed == \A d \in DOMAIN Heads : \A h \in Reach(next_hash, Heads[d]) : Home(KeyOf[h], d)
Unique == \A g, h \in Members(Heads, next_hash) : KeyOf[g] = KeyOf[h] => g = h

Counted ==
    /\ elems = Cardinality(Members(Heads, next_hash))
    /\ resize.pc = "move" => resize.count = Cardinality(Moved)

\* find_pointer stands in the bucket of the key and has not passed the key.
CallOK ==
    call # NoCall =>
      LET b == Bucket(call.key, length) IN
      /\ resize = NoResize
      /\ call = [pc |-> "find", kind |-> call.kind, key |-> call.key, entry |-> call.entry,
                 ptr |-> call.ptr]
      /\ call.kind \in {"look_up", "insert", "remove"}
      /\ call.key \in Keys /\ call.entry \in Ends
      /\ call.kind = "insert" =>
           /\ call.entry \in Handles /\ KeyOf[call.entry] = call.key
           /\ call.entry \notin Members(list, next_hash)
      /\ SlotOf(list, next_hash, b, call.ptr)
      /\ \A h \in Reach(next_hash, list[b]) :
           KeyOf[h] = call.key => h \in Reach(next_hash, At(list, next_hash, call.ptr))

IInv ==
    /\ TableTypes
    /\ ResizeOK
    /\ Sound(Heads, next_hash)
    /\ Placed
    /\ Unique
    /\ Counted
    /\ CallOK

-----------------------------------------------------------------------------
(* What insert and remove do to the chains.                                *)

TableOK(heads, next, len, n) ==
    /\ Sound(heads, next)
    /\ \A d \in DOMAIN heads : \A h \in Reach(next, heads[d]) : Bucket(KeyOf[h], len) = d
    /\ \A g, h \in Members(heads, next) : KeyOf[g] = KeyOf[h] => g = h
    /\ n = Cardinality(Members(heads, next))

\* The entries of a table are entries, finitely many.
LEMMA MembersFinite ==
    ASSUME NEW heads, NEW next, Sound(heads, next)
    PROVE  /\ Members(heads, next) \in SUBSET Handles
           /\ IsFiniteSet(Members(heads, next))
           /\ Cardinality(Members(heads, next)) \in Nat
<1>1. \A d \in DOMAIN heads : Reach(next, heads[d]) \in SUBSET Handles
  BY ReachClosed DEF Sound
<1>2. Members(heads, next) \in SUBSET Handles
  BY <1>1 DEF Members
<1>3. IsFiniteSet(Members(heads, next))
  BY <1>2, HandlesAssumption, FS_Subset
<1> QED
  BY <1>2, <1>3, FS_CardinalityType

\* Chain d loses the entries gone and gains those of new; the others stay.
OneChanges(D, heads, next, d, h2, n2, gone, new) ==
    /\ heads \in [D -> Ends] /\ Sound(heads, next) /\ d \in D /\ h2 \in [D -> Ends]
    /\ gone \subseteq Reach(next, heads[d])
    /\ Reach(n2, h2[d]) = (Reach(next, heads[d]) \ gone) \cup new
    /\ \A c \in D : c # d => Reach(n2, h2[c]) = Reach(next, heads[c])

LEMMA MembersChange ==
    ASSUME NEW D, NEW heads, NEW next, NEW d, NEW h2, NEW n2, NEW gone, NEW new,
           OneChanges(D, heads, next, d, h2, n2, gone, new)
    PROVE  Members(h2, n2) = (Members(heads, next) \ gone) \cup new
<1> USE DEF OneChanges
<1>1. DOMAIN heads = D /\ DOMAIN h2 = D
  OBVIOUS
<1>2. \A c \in D : c # d => Reach(next, heads[c]) \cap gone = {}
  BY <1>1 DEF Sound
<1>3. Members(h2, n2) \subseteq (Members(heads, next) \ gone) \cup new
  <2> SUFFICES ASSUME NEW c \in D, NEW h \in Reach(n2, h2[c])
               PROVE  h \in (Members(heads, next) \ gone) \cup new
    BY <1>1 DEF Members
  <2>1. CASE c = d
    BY <1>1, <2>1 DEF Members
  <2>2. CASE c # d
    BY <1>1, <1>2, <2>2 DEF Members
  <2> QED
    BY <2>1, <2>2
<1>4. (Members(heads, next) \ gone) \cup new \subseteq Members(h2, n2)
  <2>1. ASSUME NEW h \in Members(heads, next), h \notin gone
        PROVE  h \in Members(h2, n2)
    <3>1. PICK c \in D : h \in Reach(next, heads[c])
      BY <1>1 DEF Members
    <3>2. h \in Reach(n2, h2[c])
      BY <2>1, <3>1
    <3> QED
      BY <1>1, <3>2 DEF Members
  <2>2. new \subseteq Members(h2, n2)
    BY <1>1 DEF Members
  <2> QED
    BY <2>1, <2>2
<1> QED
  BY <1>3, <1>4

LEMMA RemoveTable ==
    ASSUME NEW D, NEW heads \in [D -> Ends], NEW next, NEW len, NEW n,
           TableOK(heads, next, len, n), NEW d, NEW ptr, SlotOf(heads, next, d, ptr),
           NEW x \in Handles, At(heads, next, ptr) = x
    PROVE  /\ NewHeads(heads, ptr, next[x]) \in [D -> Ends]
           /\ TableOK(NewHeads(heads, ptr, next[x]), NewNext(next, ptr, next[x]), len, n - 1)
           /\ Members(NewHeads(heads, ptr, next[x]), NewNext(next, ptr, next[x]))
                = Members(heads, next) \ {x}
           /\ x \in Members(heads, next)
<1> DEFINE y == next[x]
           H == NewHeads(heads, ptr, y)
           N == NewNext(next, ptr, y)
           front == Front(heads, next, d, ptr)
<1>1. /\ Sound(heads, next) /\ next \in Links /\ d \in D /\ DOMAIN heads = D
      /\ \A c \in D : heads[c] \in Ends /\ StraightFrom(next, heads[c])
      /\ \A a, c \in D : a # c => Reach(next, heads[a]) \cap Reach(next, heads[c]) = {}
  BY DEF TableOK, Sound, SlotOf
<1>2. Reach(next, heads[d]) = front \cup Reach(next, x) /\ front \cap Reach(next, x) = {}
  BY <1>1, Split
<1>3. /\ y \in Ends /\ Reach(next, x) = {x} \cup Reach(next, y) /\ x \notin Reach(next, y)
      /\ StraightFrom(next, y)
  <2>1. x \in Ends /\ x # Null
    BY NullAssumption DEF Ends
  <2>2. x \in Reach(next, x)
    BY <1>1, <2>1, ReachClosed
  <2>3. x \in Reach(next, heads[d]) /\ heads[d] \in Ends /\ StraightFrom(next, heads[d])
    BY <1>1, <1>2, <2>2
  <2> QED
    BY <1>1, <2>3, Behind
<1> HIDE DEF y, front
<1>4. Reach(next, y) \cap front = {}
  BY <1>2, <1>3
<1>5. \A c \in D : c # d => Reach(next, y) \cap Reach(next, heads[c]) = {}
  BY <1>1, <1>2, <1>3
<1>6. /\ Sound(H, N) /\ H \in [D -> Ends]
      /\ Reach(N, H[d]) = front \cup Reach(next, y)
      /\ \A c \in D : c # d => Reach(N, H[c]) = Reach(next, heads[c])
  BY <1>1, <1>3, <1>4, <1>5, StoreSound DEF front
<1> HIDE DEF H, N
<1>7. Reach(N, H[d]) = (Reach(next, heads[d]) \ {x}) \cup {}
  BY <1>2, <1>3, <1>6
<1>8. x \in Reach(next, heads[d]) /\ {x} \subseteq Reach(next, heads[d])
  BY <1>2, <1>3
<1>9. Members(H, N) = (Members(heads, next) \ {x}) \cup {}
  <2>1. OneChanges(D, heads, next, d, H, N, {x}, {})
    BY <1>1, <1>6, <1>7, <1>8 DEF OneChanges
  <2> QED
    BY ONLY <2>1, MembersChange
<1>10. x \in Members(heads, next)
  BY <1>1, <1>8 DEF Members
<1>11. DOMAIN H = D /\ \A c \in D : \A h \in Reach(N, H[c]) : Bucket(KeyOf[h], len) = c
  BY <1>1, <1>6, <1>7 DEF TableOK
<1>12. \A g, h \in Members(H, N) : KeyOf[g] = KeyOf[h] => g = h
  BY <1>9 DEF TableOK
<1>13. n - 1 = Cardinality(Members(H, N))
  <2>1. IsFiniteSet(Members(heads, next))
    BY <1>1, MembersFinite
  <2>2. Cardinality(Members(heads, next) \ {x}) = Cardinality(Members(heads, next)) - 1
    BY <1>10, <2>1, FS_RemoveElement
  <2>3. Members(H, N) = Members(heads, next) \ {x}
    BY <1>9
  <2> QED
    BY <2>2, <2>3 DEF TableOK
<1>14. TableOK(H, N, len, n - 1)
  BY <1>6, <1>11, <1>12, <1>13 DEF TableOK
<1> QED
  BY <1>6, <1>9, <1>10, <1>14 DEF H, N, y

\* insert stores entry e, new to the table, where find_pointer has stopped: next1
\* has its link set to what is behind the entry x of its key, if there is one.
InsertArgs(D, heads, next, len, n, d, ptr, x, e, next1) ==
    /\ heads \in [D -> Ends] /\ TableOK(heads, next, len, n)
    /\ SlotOf(heads, next, d, ptr) /\ At(heads, next, ptr) = x
    /\ e \in Handles /\ e \notin Members(heads, next) /\ Bucket(KeyOf[e], len) = d
    /\ x # Null => KeyOf[x] = KeyOf[e]
    /\ x = Null => \A h \in Members(heads, next) : KeyOf[h] # KeyOf[e]
    /\ next1 = [next EXCEPT ![e] = IF x = Null THEN Null ELSE next[x]]

LEMMA InsertTable ==
    ASSUME NEW D, NEW heads, NEW next, NEW len, NEW n, NEW d, NEW ptr, NEW x, NEW e, NEW next1,
           InsertArgs(D, heads, next, len, n, d, ptr, x, e, next1)
    PROVE  /\ NewHeads(heads, ptr, e) \in [D -> Ends]
           /\ TableOK(NewHeads(heads, ptr, e), NewNext(next1, ptr, e), len,
                      IF x = Null THEN n + 1 ELSE n)
           /\ Members(NewHeads(heads, ptr, e), NewNext(next1, ptr, e))
                = (Members(heads, next) \ {x}) \cup {e}
           /\ x # Null => x \in Members(heads, next)
<1>a. /\ heads \in [D -> Ends] /\ TableOK(heads, next, len, n)
      /\ SlotOf(heads, next, d, ptr) /\ At(heads, next, ptr) = x
      /\ e \in Handles /\ e \notin Members(heads, next) /\ Bucket(KeyOf[e], len) = d
      /\ x # Null => KeyOf[x] = KeyOf[e]
      /\ x = Null => \A h \in Members(heads, next) : KeyOf[h] # KeyOf[e]
      /\ next1 = [next EXCEPT ![e] = IF x = Null THEN Null ELSE next[x]]
  BY DEF InsertArgs
<1> USE <1>a
<1> DEFINE z == IF x = Null THEN Null ELSE next[x]
           H == NewHeads(heads, ptr, e)
           N == NewNext(next1, ptr, e)
           front == Front(heads, next, d, ptr)
           chain == Reach(next, heads[d])
<1>1. /\ Sound(heads, next) /\ next \in Links /\ d \in D /\ DOMAIN heads = D /\ d \notin Handles
      /\ \A c \in D : heads[c] \in Ends /\ StraightFrom(next, heads[c])
      /\ \A a, c \in D : a # c => Reach(next, heads[a]) \cap Reach(next, heads[c]) = {}
      /\ \A c \in D : e \notin Reach(next, heads[c])
      /\ e \in Ends
  BY DEF TableOK, Sound, SlotOf, Members, Ends
<1>2. x \in Ends /\ chain = front \cup Reach(next, x) /\ front \cap Reach(next, x) = {}
  BY <1>1, Split
<1>3. /\ z \in Ends /\ Reach(next, x) = (IF x = Null THEN {} ELSE {x}) \cup Reach(next, z)
      /\ x \notin Reach(next, z) /\ StraightFrom(next, z)
      /\ x # Null => x \in chain
  <2>1. CASE x = Null
    <3>1. Reach(next, Null) = {}
      BY <1>1, ReachNull
    <3> QED
      BY <2>1, <3>1 DEF StraightFrom, Ends
  <2>2. CASE x # Null
    <3>1. x \in Reach(next, x)
      BY <1>1, <1>2, <2>2, ReachClosed
    <3>2. x \in Reach(next, heads[d]) /\ heads[d] \in Ends /\ StraightFrom(next, heads[d])
      BY <1>1, <1>2, <3>1
    <3> QED
      BY <1>1, <2>2, <3>2, Behind
  <2> QED
    BY <2>1, <2>2
<1>4. next1 = [next EXCEPT ![e] = z] /\ next1 \in Links /\ next1[e] = z
  BY <1>1, <1>3 DEF Links
<1> HIDE DEF z, front
<1>5. ASSUME NEW w \in Ends, StraightFrom(next, w), e \notin Reach(next, w)
      PROVE  Reach(next1, w) = Reach(next, w) /\ StraightFrom(next1, w)
  <2>1. /\ Reach([next EXCEPT ![e] = z], w) = Reach(next, w)
        /\ StraightFrom([next EXCEPT ![e] = z], w)
    BY ONLY e \in Handles, <1>1, <1>3, <1>5, StoreElsewhere
  <2> QED
    BY ONLY <1>4, <2>1
<1>6. \A c \in D : Reach(next1, heads[c]) = Reach(next, heads[c]) /\ StraightFrom(next1, heads[c])
  BY <1>1, <1>5
<1>7. Sound(heads, next1)
  BY <1>1, <1>4, <1>6 DEF Sound
<1>8. SlotOf(heads, next1, d, ptr)
  BY <1>1, <1>6 DEF SlotOf
<1>9. Front(heads, next1, d, ptr) = front
  <2>1. CASE ptr = d
    BY <2>1 DEF Front, front
  <2>2. CASE ptr # d
    <3>1. ptr \in chain
      BY <2>2 DEF SlotOf
    <3>2. heads[d] \in Ends /\ StraightFrom(next, heads[d])
      BY <1>1
    <3>3. ptr \in Handles /\ Reach(next, ptr) \subseteq chain /\ StraightFrom(next, ptr)
      BY <1>1, <3>1, <3>2, Behind
    <3>4. ptr \in Ends /\ e \notin Reach(next, ptr)
      BY <1>1, <3>3 DEF Ends
    <3>5. Reach(next1, ptr) = Reach(next, ptr)
      BY <1>5, <3>3, <3>4
    <3> QED
      BY <1>1, <1>6, <2>2, <3>5 DEF Front, front, Before
  <2> QED
    BY <2>1, <2>2
<1>10. e \notin Reach(next, z) /\ e \notin front
  BY <1>1, <1>2, <1>3
<1>11. Reach(next1, z) = Reach(next, z) /\ StraightFrom(next1, z)
  BY <1>3, <1>5, <1>10
<1>12. Reach(next1, e) = {e} \cup Reach(next, z)
  BY <1>4, <1>11, ReachStep
<1>13. StraightFrom(next1, e)
  BY <1>4, <1>10, <1>11, <1>12 DEF StraightFrom, Straight
<1>14. Reach(next1, e) \cap Front(heads, next1, d, ptr) = {}
  <2>1. Reach(next, z) \cap front = {}
    BY ONLY <1>2, <1>3
  <2> QED
    BY ONLY <2>1, <1>9, <1>10, <1>12
<1>15. \A c \in D : c # d => Reach(next1, e) \cap Reach(next1, heads[c]) = {}
  <2> SUFFICES ASSUME NEW c \in D, c # d
               PROVE  Reach(next1, e) \cap Reach(next1, heads[c]) = {}
    OBVIOUS
  <2>1. Reach(next, z) \subseteq chain
    BY ONLY <1>2, <1>3
  <2>2. chain \cap Reach(next, heads[c]) = {} /\ e \notin Reach(next, heads[c])
    BY <1>1
  <2>3. Reach(next1, heads[c]) = Reach(next, heads[c])
    BY <1>6
  <2> QED
    BY ONLY <1>12, <2>1, <2>2, <2>3
<1>16. /\ Sound(H, N) /\ H \in [D -> Ends]
       /\ Reach(N, H[d]) = Front(heads, next1, d, ptr) \cup Reach(next1, e)
       /\ \A c \in D : c # d => Reach(N, H[c]) = Reach(next1, heads[c])
  BY ONLY heads \in [D -> Ends], <1>1, <1>7, <1>8, <1>13, <1>14, <1>15, StoreSound
<1> HIDE DEF H, N
<1>17. \A c \in D : c # d => Reach(N, H[c]) = Reach(next, heads[c])
  BY <1>6, <1>16
<1> DEFINE gone == IF x = Null THEN {} ELSE {x}
<1>18. Reach(N, H[d]) = (chain \ gone) \cup {e} /\ gone \subseteq chain
  BY <1>2, <1>3, <1>9, <1>12, <1>16
<1> HIDE DEF gone
<1>19. Members(H, N) = (Members(heads, next) \ gone) \cup {e}
  <2>1. OneChanges(D, heads, next, d, H, N, gone, {e})
    BY <1>1, <1>16, <1>17, <1>18 DEF OneChanges
  <2> QED
    BY ONLY <2>1, MembersChange
<1>20. Members(heads, next) \in SUBSET Handles
  BY <1>1, MembersFinite
<1>21. /\ Members(H, N) = (Members(heads, next) \ {x}) \cup {e}
       /\ x # Null => x \in Members(heads, next)
  BY <1>1, <1>3, <1>19, <1>20, NullAssumption DEF gone, Members
<1>22. DOMAIN H = D /\ \A c \in D : \A h \in Reach(N, H[c]) : Bucket(KeyOf[h], len) = c
  BY <1>1, <1>16, <1>17, <1>18 DEF TableOK
<1>23. \A h \in Members(heads, next) \ {x} : KeyOf[h] # KeyOf[e]
  BY <1>21 DEF TableOK
<1>24. \A g, h \in Members(H, N) : KeyOf[g] = KeyOf[h] => g = h
  BY <1>21, <1>23 DEF TableOK
<1>25. (IF x = Null THEN n + 1 ELSE n) = Cardinality(Members(H, N))
  <2> DEFINE M == Members(heads, next)
  <2>1. IsFiniteSet(M) /\ Cardinality(M) \in Nat /\ n = Cardinality(M) /\ e \notin M
    BY <1>1, MembersFinite DEF TableOK
  <2> HIDE DEF M
  <2>2. /\ IsFiniteSet(M \ {x})
        /\ Cardinality(M \ {x}) = IF x \in M THEN Cardinality(M) - 1 ELSE Cardinality(M)
    BY <2>1, FS_RemoveElement
  <2>3. Cardinality((M \ {x}) \cup {e}) = Cardinality(M \ {x}) + 1
    BY <2>1, <2>2, FS_AddElement
  <2>4. x \in M <=> x # Null
    BY <1>20, <1>21, NullAssumption DEF M
  <2>5. Members(H, N) = (M \ {x}) \cup {e}
    BY <1>21 DEF M
  <2> QED
    BY <2>1, <2>2, <2>3, <2>4, <2>5
<1>26. TableOK(H, N, len, IF x = Null THEN n + 1 ELSE n)
  BY <1>16, <1>22, <1>24, <1>25 DEF TableOK
<1> QED
  BY <1>16, <1>21, <1>26 DEF H, N

-----------------------------------------------------------------------------
(* Between resizes the buckets are the chains.                             *)

LEMMA BucketType ==
    ASSUME NEW k \in Keys, NEW len \in Nat \ {0}
    PROVE  Bucket(k, len) \in 0..(len - 1) /\ Bucket(k, len) \notin Handles
<1>1. HashOf[k] \in Nat
  BY EntriesAssumption
<1>2. HashOf[k] % len \in 0..(len - 1)
  BY <1>1
<1> QED
  BY <1>2, HandlesAssumption DEF Bucket

BucketsOK == TableOK(list, next_hash, length, elems)

LEMMA QuietIs ==
    ASSUME TableTypes, resize.pc # "move"
    PROVE  Sound(Heads, next_hash) /\ Placed /\ Unique /\ Counted <=> BucketsOK
<1>1. Heads = list
  BY DEF Heads
<1>2. DOMAIN list = 0..(length - 1) /\ \A d \in 0..(length - 1) : ~(d < 0)
  BY DEF TableTypes
<1>3. \A k : \A d \in DOMAIN list : Home(k, d) <=> Bucket(k, length) = d
  BY <1>2 DEF Home
<1> QED
  BY <1>1, <1>3 DEF BucketsOK, TableOK, Placed, Unique, Counted

\* The chains have the entries that the model finds in the table.
LEMMA InTableIs ==
    ASSUME TableTypes, ResizeOK, Sound(Heads, next_hash)
    PROVE  InTable = Members(Heads, next_hash)
<1>1. \A e \in Ends : Chain(e) = Reach(next_hash, e)
  BY ChainIsReach DEF Sound
<1>2. CASE resize.pc # "move"
  <2>1. Heads = list /\ \A d \in DOMAIN list : list[d] \in Ends
    BY <1>2 DEF Heads, TableTypes
  <2>2. \A d \in DOMAIN list : Chain(list[d]) = Reach(next_hash, list[d])
    BY <1>1, <2>1
  <2>3. InTable = UNION {Chain(list[d]) : d \in DOMAIN list}
    BY <1>2 DEF InTable, InBuckets
  <2>4. Members(Heads, next_hash) = UNION {Reach(next_hash, list[d]) : d \in DOMAIN list}
    BY <2>1 DEF Members
  <2> QED
    BY ONLY <2>2, <2>3, <2>4
<1>3. CASE resize.pc = "move"
  <2> DEFINE rest == [b \in (resize.i + 1)..(length - 1) |-> list[b]]
             R(e) == Reach(next_hash, e)
  <2>1. /\ resize.length \in Nat \ {0} /\ resize.list \in [0..(resize.length - 1) -> Ends]
        /\ resize.i \in 0..(length - 1) /\ resize.entry \in Ends /\ length \in Nat \ {0}
        /\ list \in [0..(length - 1) -> Ends] /\ next_hash \in Links
    BY <1>3 DEF ResizeOK, TableTypes, Sound
  <2>2. /\ DOMAIN Heads = (-resize.length)..(length - 1)
        /\ \A d \in DOMAIN Heads :
             Heads[d] = IF d < 0 THEN resize.list[-1 - d]
                        ELSE IF d < resize.i THEN Null
                        ELSE IF d = resize.i THEN resize.entry ELSE list[d]
    BY <1>3 DEF Heads
  <2>3. InTable = InBuckets(resize.list) \cup Chain(resize.entry) \cup InBuckets(rest)
    BY <1>3 DEF InTable
  <2>4. \A h : h \in InBuckets(resize.list)
                 <=> \E b \in 0..(resize.length - 1) : h \in R(resize.list[b])
    <3>1. DOMAIN resize.list = 0..(resize.length - 1)
      BY <2>1
    <3>2. \A b \in 0..(resize.length - 1) : Chain(resize.list[b]) = R(resize.list[b])
      BY <1>1, <2>1
    <3> HIDE DEF R
    <3> QED
      BY <3>1, <3>2 DEF InBuckets
  <2>5. \A h : h \in InBuckets(rest)
                 <=> \E b \in (resize.i + 1)..(length - 1) : h \in R(list[b])
    <3>1. /\ DOMAIN rest = (resize.i + 1)..(length - 1)
          /\ \A b \in (resize.i + 1)..(length - 1) : rest[b] = list[b] /\ list[b] \in Ends
      BY <2>1
    <3>2. \A b \in (resize.i + 1)..(length - 1) : Chain(rest[b]) = R(list[b])
      BY <1>1, <3>1
    <3> HIDE DEF R, rest
    <3> QED
      BY <3>1, <3>2 DEF InBuckets
  <2>6. Chain(resize.entry) = R(resize.entry)
    BY <1>1, <2>1
  <2> HIDE DEF rest
  <2>7. ASSUME NEW h \in InTable
        PROVE  h \in Members(Heads, next_hash)
    <3>1. CASE h \in InBuckets(resize.list)
      <4>1. PICK b \in 0..(resize.length - 1) : h \in R(resize.list[b])
        BY <2>4, <3>1
      <4>2. -1 - b \in DOMAIN Heads /\ -1 - b < 0 /\ -1 - (-1 - b) = b
        BY <2>1, <2>2
      <4>3. Heads[-1 - b] = resize.list[b]
        BY <2>2, <4>2
      <4> QED
        BY <4>1, <4>2, <4>3 DEF Members
    <3>2. CASE h \in R(resize.entry)
      <4>1. resize.i \in DOMAIN Heads /\ Heads[resize.i] = resize.entry
        BY <2>1, <2>2
      <4> QED
        BY <3>2, <4>1 DEF Members
    <3>3. CASE h \in InBuckets(rest)
      <4>1. PICK b \in (resize.i + 1)..(length - 1) : h \in R(list[b])
        BY <2>5, <3>3
      <4>2. b \in DOMAIN Heads /\ Heads[b] = list[b]
        BY <2>1, <2>2
      <4> QED
        BY <4>1, <4>2 DEF Members
    <3> QED
      BY <2>3, <2>6, <2>7, <3>1, <3>2, <3>3
  <2>8. ASSUME NEW h \in Members(Heads, next_hash)
        PROVE  h \in InTable
    <3>1. PICK d \in DOMAIN Heads : h \in R(Heads[d])
      BY DEF Members
    <3>2. CASE d < 0
      <4>1. -1 - d \in 0..(resize.length - 1) /\ Heads[d] = resize.list[-1 - d]
        BY <2>1, <2>2, <3>2
      <4> QED
        BY <2>3, <2>4, <3>1, <4>1
    <3>3. CASE ~(d < 0) /\ d < resize.i
      <4>1. R(Heads[d]) = {}
        BY <2>1, <2>2, <3>3, ReachNull
      <4> QED
        BY <3>1, <4>1
    <3>4. CASE d = resize.i
      <4>1. Heads[d] = resize.entry
        BY <2>1, <2>2, <3>4
      <4> QED
        BY <2>3, <2>6, <3>1, <4>1
    <3>5. CASE ~(d < 0) /\ ~(d < resize.i) /\ d # resize.i
      <4>1. d \in (resize.i + 1)..(length - 1) /\ Heads[d] = list[d]
        BY <2>1, <2>2, <3>5
      <4> QED
        BY <2>3, <2>5, <3>1, <4>1
    <3> QED
      BY <3>2, <3>3, <3>4, <3>5
  <2> QED
    BY <2>7, <2>8
<1> QED
  BY <1>2, <1>3

-----------------------------------------------------------------------------
(* The steps outside of resize.                                            *)

LEMMA InitInv == Init => IInv
<1> SUFFICES ASSUME Init
             PROVE  IInv
  OBVIOUS
<1>1. /\ next_hash \in Links /\ TableTypes /\ resize.pc # "move"
      /\ \A d \in DOMAIN list : list[d] = Null /\ list[d] \in Ends
  BY LengthAssumption DEF Init, TableTypes, Links, Ends, NoResize
<1>2. \A d \in DOMAIN list : Reach(next_hash, list[d]) = {}
  BY <1>1, ReachNull
<1>3. Members(list, next_hash) = {}
  BY <1>2 DEF Members
<1>4. Sound(list, next_hash)
  BY <1>1, <1>2 DEF Sound, StraightFrom
<1>5. BucketsOK
  <2>1. elems = Cardinality(Members(list, next_hash))
    BY <1>3, FS_EmptySet DEF Init
  <2>2. \A d \in DOMAIN list : \A h \in Reach(next_hash, list[d]) : Bucket(KeyOf[h], length) = d
    BY <1>2
  <2>3. \A g, h \in Members(list, next_hash) : KeyOf[g] = KeyOf[h] => g = h
    BY <1>3
  <2> QED
    BY <1>4, <2>1, <2>2, <2>3 DEF BucketsOK, TableOK
<1>6. ResizeOK /\ CallOK
  BY DEF Init, ResizeOK, CallOK, NoResize, NoCall
<1> QED
  BY <1>1, <1>5, <1>6, QuietIs DEF IInv

\* A step that leaves the table as it is and does not begin to move entries.
LEMMA QuietStep ==
    ASSUME IInv, resize.pc # "move", resize'.pc # "move", TableTypes', ResizeOK', CallOK',
           UNCHANGED <<length, elems, list, next_hash>>
    PROVE  IInv' /\ Present' = Present
<1>1. BucketsOK
  BY QuietIs DEF IInv
<1>2. BucketsOK'
  BY <1>1 DEF BucketsOK, TableOK
<1>3. (TableTypes /\ resize.pc # "move"
        => (Sound(Heads, next_hash) /\ Placed /\ Unique /\ Counted <=> BucketsOK))'
  BY QuietIs, PTL
<1>4. Present' = Present
  BY DEF Present, Heads
<1> QED
  BY <1>2, <1>3, <1>4 DEF IInv

\* In a call: the slot, what it leads to, and where the entries of the key are.
LEMMA InCall ==
    ASSUME IInv, call # NoCall
    PROVE  LET b == Bucket(call.key, length) IN
           /\ resize = NoResize /\ resize.pc # "move" /\ resize.pc = "idle"
           /\ BucketsOK /\ next_hash \in Links
           /\ b \in DOMAIN list /\ b \in 0..(length - 1) /\ b \notin Handles
           /\ SlotOf(list, next_hash, b, call.ptr)
           /\ Content(call.ptr) = At(list, next_hash, call.ptr)
           /\ Content(call.ptr) \in Ends
           /\ Reach(next_hash, Content(call.ptr)) \subseteq Reach(next_hash, list[b])
           /\ \A h \in Members(list, next_hash) :
                KeyOf[h] = call.key => h \in Reach(next_hash, Content(call.ptr))
<1> DEFINE b == Bucket(call.key, length)
<1>1. resize = NoResize /\ call.key \in Keys /\ SlotOf(list, next_hash, b, call.ptr)
  BY DEF IInv, CallOK
<1>2. resize.pc # "move" /\ resize.pc = "idle"
  BY <1>1 DEF NoResize
<1>3. BucketsOK
  BY <1>2, QuietIs DEF IInv
<1>4. b \in 0..(length - 1) /\ b \notin Handles /\ DOMAIN list = 0..(length - 1)
  BY <1>1, BucketType DEF IInv, TableTypes
<1>5. Content(call.ptr) = At(list, next_hash, call.ptr)
  BY DEF Content, At
<1>6. Sound(list, next_hash) /\ next_hash \in Links
  BY <1>3 DEF BucketsOK, TableOK, Sound
<1>7. /\ At(list, next_hash, call.ptr) \in Ends
      /\ Reach(next_hash, list[b]) = Front(list, next_hash, b, call.ptr)
                                      \cup Reach(next_hash, At(list, next_hash, call.ptr))
  BY <1>1, <1>6, Split
<1>8. ASSUME NEW h \in Members(list, next_hash), KeyOf[h] = call.key
      PROVE  h \in Reach(next_hash, Content(call.ptr))
  <2>1. PICK d \in DOMAIN list : h \in Reach(next_hash, list[d])
    BY DEF Members
  <2>2. d = b
    BY <1>3, <1>8, <2>1 DEF BucketsOK, TableOK
  <2>3. \A g \in Reach(next_hash, list[b]) :
           KeyOf[g] = call.key => g \in Reach(next_hash, At(list, next_hash, call.ptr))
    BY DEF IInv, CallOK
  <2> QED
    BY <1>5, <1>8, <2>1, <2>2, <2>3
<1> QED
  BY <1>1, <1>2, <1>3, <1>4, <1>5, <1>6, <1>7, <1>8

LEMMA BeginInv ==
    ASSUME IInv, NEW kind \in {"look_up", "insert", "remove"}, NEW k \in Keys, NEW e \in Ends,
           kind = "insert" => e \in Handles /\ KeyOf[e] = k /\ e \notin InTable,
           Begin(kind, k, e)
    PROVE  IInv' /\ Present' = Present
<1>1. resize = NoResize /\ resize.pc # "move" /\ resize'.pc # "move" /\ Heads = list
  BY DEF Begin, NoResize, Heads
<1>2. TableTypes' /\ ResizeOK'
  BY <1>1 DEF IInv, TableTypes, ResizeOK, Begin, NoResize
<1>3. CallOK'
  <2> DEFINE b == Bucket(k, length)
  <2>1. InTable = Members(list, next_hash)
    BY <1>1, InTableIs DEF IInv
  <2>2. b \in DOMAIN list /\ b \notin Handles
    BY BucketType DEF IInv, TableTypes
  <2>3. SlotOf(list, next_hash, b, b) /\ At(list, next_hash, b) = list[b]
    BY <2>2 DEF SlotOf, At
  <2>4. call' = [pc |-> "find", kind |-> kind, key |-> k, entry |-> e, ptr |-> b]
    BY DEF Begin
  <2>5. /\ call'.kind = kind /\ call'.key = k /\ call'.entry = e /\ call'.ptr = b
        /\ call' = [pc |-> "find", kind |-> call'.kind, key |-> call'.key, entry |-> call'.entry,
                    ptr |-> call'.ptr]
    BY <2>4
  <2>6. UNCHANGED <<list, next_hash, length, resize>>
    BY DEF Begin
  <2>7. Bucket(call'.key, length') = b
    BY <2>5, <2>6
  <2> HIDE DEF b
  <2> QED
    BY <1>1, <2>1, <2>3, <2>5, <2>6, <2>7 DEF CallOK
<1>4. UNCHANGED <<length, elems, list, next_hash>>
  BY DEF Begin
<1> QED
  BY <1>1, <1>2, <1>3, <1>4, QuietStep

LEMMA WalkInv == IInv /\ Walk => IInv' /\ Present' = Present
<1> SUFFICES ASSUME IInv, Walk
             PROVE  IInv' /\ Present' = Present
  OBVIOUS
<1> DEFINE b == Bucket(call.key, length)
           x == Content(call.ptr)
<1>1. call # NoCall
  BY DEF Walk
<1>2. /\ resize = NoResize /\ resize.pc # "move" /\ resize.pc = "idle" /\ BucketsOK
      /\ next_hash \in Links /\ b \in DOMAIN list /\ b \notin Handles /\ x \in Ends
      /\ Reach(next_hash, x) \subseteq Reach(next_hash, list[b])
      /\ \A h \in Members(list, next_hash) : KeyOf[h] = call.key => h \in Reach(next_hash, x)
  BY <1>1, InCall
<1>3. x # Null /\ KeyOf[x] # call.key
  BY DEF Walk, Matches
<1>4. x \in Handles /\ Reach(next_hash, x) = {x} \cup Reach(next_hash, next_hash[x])
  BY <1>2, <1>3, ReachStep DEF Ends
<1>5. /\ call = [pc |-> "find", kind |-> call.kind, key |-> call.key, entry |-> call.entry,
                 ptr |-> call.ptr]
      /\ call.kind \in {"look_up", "insert", "remove"} /\ call.key \in Keys /\ call.entry \in Ends
      /\ call.kind = "insert" => /\ call.entry \in Handles /\ KeyOf[call.entry] = call.key
                                 /\ call.entry \notin Members(list, next_hash)
  BY <1>1 DEF IInv, CallOK
<1>6. call' = [call EXCEPT !.ptr = x]
  BY DEF Walk
<1>7. /\ call'.kind = call.kind /\ call'.key = call.key /\ call'.entry = call.entry /\ call'.ptr = x
      /\ call' = [pc |-> "find", kind |-> call'.kind, key |-> call'.key, entry |-> call'.entry,
                  ptr |-> call'.ptr]
  BY <1>5, <1>6
<1>8. UNCHANGED <<length, elems, list, next_hash, resize, result>>
  BY DEF Walk
<1>9. SlotOf(list, next_hash, b, x)
  BY <1>2, <1>4 DEF SlotOf
<1>10. \A h \in Reach(next_hash, list[b]) :
          KeyOf[h] = call.key => h \in Reach(next_hash, At(list, next_hash, x))
  <2>1. \A h \in Reach(next_hash, list[b]) : h \in Members(list, next_hash)
    BY <1>2 DEF Members
  <2>2. At(list, next_hash, x) = next_hash[x]
    BY <1>4 DEF At
  <2> HIDE DEF x
  <2> QED
    BY <1>2, <1>3, <1>4, <2>1, <2>2
<1>11. CallOK'
  <2>1. Bucket(call'.key, length') = b
    BY <1>7, <1>8
  <2> HIDE DEF b, x
  <2> QED
    BY <1>2, <1>5, <1>7, <1>8, <1>9, <1>10, <2>1 DEF CallOK
<1>12. TableTypes' /\ ResizeOK' /\ resize'.pc # "move"
  BY <1>2, <1>8 DEF IInv, TableTypes, ResizeOK, NoResize
<1> QED
  BY <1>2, <1>8, <1>11, <1>12, QuietStep

LEMMA LookUpFoundInv == IInv /\ LookUpFound => IInv' /\ Present' = Present
<1> SUFFICES ASSUME IInv, LookUpFound
             PROVE  IInv' /\ Present' = Present
  OBVIOUS
<1>1. call # NoCall /\ call' = NoCall /\ UNCHANGED <<length, elems, list, next_hash, resize>>
      /\ result' = Content(call.ptr)
  BY DEF LookUpFound, Found
<1>2. Content(call.ptr) \in Ends /\ resize = NoResize /\ resize.pc # "move"
  BY <1>1, InCall
<1>3. TableTypes' /\ ResizeOK' /\ CallOK' /\ resize'.pc # "move"
  BY <1>1, <1>2 DEF IInv, TableTypes, ResizeOK, CallOK, NoResize
<1> QED
  BY <1>1, <1>2, <1>3, QuietStep

LEMMA GrowLengthInv == IInv /\ GrowLength => IInv' /\ Present' = Present
<1> SUFFICES ASSUME IInv, GrowLength
             PROVE  IInv' /\ Present' = Present
  OBVIOUS
<1>1. resize.pc = "grow" /\ resize.pc # "move" /\ resize \in [pc : {"grow"}, length : Nat \ {0}]
      /\ call = NoCall
  BY DEF GrowLength, IInv, ResizeOK
<1>2. /\ resize' = [resize EXCEPT !.length = 2 * @]
      /\ UNCHANGED <<length, elems, list, next_hash, call, result>>
  BY DEF GrowLength
<1>3. resize' \in [pc : {"grow"}, length : Nat \ {0}] /\ resize'.pc = "grow"
  BY <1>1, <1>2
<1>4. TableTypes' /\ ResizeOK' /\ CallOK' /\ resize'.pc # "move"
  BY <1>1, <1>2, <1>3 DEF IInv, TableTypes, ResizeOK, CallOK
<1> QED
  BY <1>1, <1>2, <1>4, QuietStep

\* The invariant between resizes.
LEMMA QuietInv ==
    ASSUME TableTypes, ResizeOK, CallOK, resize.pc # "move", BucketsOK
    PROVE  IInv
BY QuietIs DEF IInv

LEMMA QuietNext ==
    ASSUME TableTypes', ResizeOK', CallOK', resize'.pc # "move", BucketsOK'
    PROVE  IInv'
<1>1. (TableTypes /\ ResizeOK /\ CallOK /\ resize.pc # "move" /\ BucketsOK => IInv)'
  BY QuietInv, PTL
<1> QED
  BY <1>1

LEMMA RemoveFoundInv == IInv /\ RemoveFound => IInv' /\ Present' = Present \ {Content(call.ptr)}
<1> SUFFICES ASSUME IInv, RemoveFound
             PROVE  IInv' /\ Present' = Present \ {Content(call.ptr)}
  OBVIOUS
<1> DEFINE b == Bucket(call.key, length)
           x == Content(call.ptr)
           D == 0..(length - 1)
<1>1. /\ call # NoCall /\ call' = NoCall /\ result' = x /\ UNCHANGED <<length, resize>>
  BY DEF RemoveFound, Found
<1>2. /\ resize = NoResize /\ resize.pc # "move" /\ BucketsOK /\ x \in Ends
      /\ b \in D /\ b \notin Handles
      /\ SlotOf(list, next_hash, b, call.ptr) /\ x = At(list, next_hash, call.ptr)
      /\ next_hash \in Links
  BY <1>1, InCall
<1>3. ResizeOK' /\ CallOK' /\ resize'.pc # "move"
  BY <1>1, <1>2 DEF IInv, ResizeOK, CallOK, NoResize
<1>4. CASE x = Null
  <2>1. UNCHANGED <<length, elems, list, next_hash>>
    BY <1>1, <1>4 DEF RemoveFound
  <2>2. TableTypes'
    BY <1>1, <1>2, <2>1 DEF IInv, TableTypes
  <2>3. Null \notin Present
    <3>1. Present = Members(list, next_hash) /\ Sound(list, next_hash)
      BY <1>2 DEF Present, Heads, BucketsOK, TableOK
    <3> QED
      BY <3>1, MembersFinite, NullAssumption
  <2> QED
    BY <1>2, <1>3, <1>4, <2>1, <2>2, <2>3, QuietStep
<1>5. CASE x # Null
  <2>1. x \in Handles
    BY <1>2, <1>5 DEF Ends
  <2>2. /\ list' = NewHeads(list, call.ptr, next_hash[x])
        /\ next_hash' = NewNext(next_hash, call.ptr, next_hash[x])
        /\ elems' = elems - 1 /\ length' = length
    BY <1>1, <1>5 DEF RemoveFound, Store, NewHeads, NewNext
  <2>3. list \in [D -> Ends] /\ TableOK(list, next_hash, length, elems)
    BY <1>2 DEF IInv, TableTypes, BucketsOK
  <2> HIDE DEF x, b, D
  <2>4. /\ NewHeads(list, call.ptr, next_hash[x]) \in [D -> Ends]
        /\ TableOK(NewHeads(list, call.ptr, next_hash[x]),
                   NewNext(next_hash, call.ptr, next_hash[x]), length, elems - 1)
        /\ Members(NewHeads(list, call.ptr, next_hash[x]),
                   NewNext(next_hash, call.ptr, next_hash[x])) = Members(list, next_hash) \ {x}
    BY ONLY <1>2, <2>1, <2>3, RemoveTable
  <2>5. list' \in [D -> Ends] /\ BucketsOK'
    BY <2>2, <2>4 DEF BucketsOK
  <2>6. TableTypes'
    BY <1>1, <1>2, <2>2, <2>5 DEF IInv, TableTypes, D
  <2>7. Present' = Present \ {x}
    BY <1>2, <1>3, <2>2, <2>4 DEF Present, Heads
  <2> QED
    BY <1>3, <2>5, <2>6, <2>7, QuietNext DEF x
<1> QED
  BY <1>4, <1>5

LEMMA InsertFoundInv ==
    IInv /\ InsertFound => IInv' /\ Present' = (Present \ {Content(call.ptr)}) \cup {call.entry}
<1> SUFFICES ASSUME IInv, InsertFound
             PROVE  IInv' /\ Present' = (Present \ {Content(call.ptr)}) \cup {call.entry}
  OBVIOUS
<1> DEFINE b == Bucket(call.key, length)
           x == Content(call.ptr)
           e == call.entry
           D == 0..(length - 1)
           next1 == [next_hash EXCEPT ![e] = IF x = Null THEN Null ELSE next_hash[x]]
           n == IF x = Null THEN elems + 1 ELSE elems
<1>1. /\ call # NoCall /\ call' = NoCall /\ result' = x /\ length' = length
      /\ elems' = n /\ resize' = IF elems' > length THEN Resize ELSE NoResize
      /\ call.kind = "insert" /\ (x # Null => KeyOf[x] = call.key)
  BY DEF InsertFound, Found, Matches
<1>2. /\ resize = NoResize /\ resize.pc # "move" /\ BucketsOK /\ x \in Ends
      /\ b \in D /\ b \notin Handles
      /\ SlotOf(list, next_hash, b, call.ptr) /\ x = At(list, next_hash, call.ptr)
      /\ next_hash \in Links
      /\ \A h \in Members(list, next_hash) : KeyOf[h] = call.key => h \in Reach(next_hash, x)
  BY <1>1, InCall
<1>3. /\ resize'.pc \in {"idle", "grow"} /\ resize'.pc # "move"
      /\ resize'.pc = "idle" => resize' = NoResize
      /\ resize'.pc = "grow" => resize' \in [pc : {"grow"}, length : Nat \ {0}]
  BY <1>1, LengthAssumption DEF NoResize, Resize
<1>4. ResizeOK' /\ CallOK'
  BY <1>1, <1>3 DEF ResizeOK, CallOK
<1>5. e \in Handles /\ KeyOf[e] = call.key /\ e \notin Members(list, next_hash)
  BY <1>1 DEF IInv, CallOK
<1>6. /\ Bucket(KeyOf[e], length) = b /\ (x # Null => KeyOf[x] = KeyOf[e])
      /\ (x = Null => \A h \in Members(list, next_hash) : KeyOf[h] # KeyOf[e])
  <2>1. Reach(next_hash, Null) = {}
    BY <1>2, ReachNull
  <2> QED
    BY <1>1, <1>2, <1>5, <2>1
<1>7. /\ list' = NewHeads(list, call.ptr, e)
      /\ next_hash' = NewNext(next1, call.ptr, e)
  BY <1>1 DEF InsertFound, Store, NewHeads, NewNext
<1>8. list \in [D -> Ends] /\ TableOK(list, next_hash, length, elems) /\ elems \in Int
  BY <1>2 DEF IInv, TableTypes, BucketsOK
<1>9. next1 = [next_hash EXCEPT ![e] = IF x = Null THEN Null ELSE next_hash[x]]
  OBVIOUS
<1> HIDE DEF x, b, e, D, next1
<1>10. /\ NewHeads(list, call.ptr, e) \in [D -> Ends]
       /\ TableOK(NewHeads(list, call.ptr, e), NewNext(next1, call.ptr, e), length, n)
       /\ Members(NewHeads(list, call.ptr, e), NewNext(next1, call.ptr, e))
            = (Members(list, next_hash) \ {x}) \cup {e}
  <2>1. InsertArgs(D, list, next_hash, length, elems, b, call.ptr, x, e, next1)
    BY <1>2, <1>5, <1>6, <1>8, <1>9 DEF InsertArgs
  <2> QED
    BY <2>1, InsertTable
<1>11. list' \in [D -> Ends] /\ BucketsOK'
  BY <1>1, <1>7, <1>10 DEF BucketsOK
<1>12. TableTypes'
  BY <1>1, <1>2, <1>8, <1>11 DEF IInv, TableTypes, D
<1>13. Present' = (Present \ {x}) \cup {e}
  BY <1>2, <1>3, <1>7, <1>10 DEF Present, Heads
<1> QED
  BY <1>3, <1>4, <1>11, <1>12, <1>13, QuietNext DEF x, e

-----------------------------------------------------------------------------
(* The steps of resize.                                                    *)

\* The chains while the entries move.
HeadsForm ==
    /\ Heads \in [(-resize.length)..(length - 1) -> Ends]
    /\ \A d \in (-resize.length)..(length - 1) :
         Heads[d] = IF d < 0 THEN resize.list[-1 - d]
                    ELSE IF d < resize.i THEN Null
                    ELSE IF d = resize.i THEN resize.entry ELSE list[d]

LEMMA HeadsMove ==
    ASSUME TableTypes, ResizeOK, resize.pc = "move"
    PROVE  /\ resize.length \in Nat \ {0} /\ resize.list \in [0..(resize.length - 1) -> Ends]
           /\ resize.i \in 0..(length - 1) /\ resize.entry \in Ends /\ length \in Nat \ {0}
           /\ list \in [0..(length - 1) -> Ends] /\ call = NoCall
           /\ HeadsForm
<1>1. /\ resize.length \in Nat \ {0} /\ resize.list \in [0..(resize.length - 1) -> Ends]
      /\ resize.i \in 0..(length - 1) /\ resize.entry \in Ends /\ length \in Nat \ {0}
      /\ list \in [0..(length - 1) -> Ends] /\ call = NoCall
  BY DEF TableTypes, ResizeOK
<1>2. Heads = [d \in (-resize.length)..(length - 1) |->
                 IF d < 0 THEN resize.list[-1 - d]
                 ELSE IF d < resize.i THEN Null
                 ELSE IF d = resize.i THEN resize.entry ELSE list[d]]
  BY DEF Heads
<1>3. \A d \in (-resize.length)..(length - 1) : d < 0 => -1 - d \in 0..(resize.length - 1)
  BY <1>1
<1>4. \A d \in (-resize.length)..(length - 1) : ~(d < 0) => d \in 0..(length - 1)
  BY <1>1
<1>5. Null \in Ends
  BY DEF Ends
<1> QED
  BY <1>1, <1>2, <1>3, <1>4, <1>5 DEF HeadsForm

LEMMA HeadsMoveNext ==
    ASSUME TableTypes', ResizeOK', resize'.pc = "move"
    PROVE  /\ Heads' \in [(-resize'.length)..(length' - 1) -> Ends]
           /\ \A d \in (-resize'.length)..(length' - 1) :
                Heads'[d] = IF d < 0 THEN resize'.list[-1 - d]
                            ELSE IF d < resize'.i THEN Null
                            ELSE IF d = resize'.i THEN resize'.entry ELSE list'[d]
<1>1. HeadsForm'
  <2>1. (TableTypes /\ ResizeOK /\ resize.pc = "move" => HeadsForm)'
    BY HeadsMove, PTL
  <2> QED
    BY <2>1
<1> QED
  BY <1>1 DEF HeadsForm

LEMMA ResizeStartInv == IInv /\ ResizeStart => IInv' /\ Present' = Present
<1> SUFFICES ASSUME IInv, ResizeStart
             PROVE  IInv' /\ Present' = Present
  OBVIOUS
<1> DEFINE L == resize.length
           null == [b \in 0..(L - 1) |-> Null]
<1>1. /\ resize.pc = "grow" /\ resize.pc # "move" /\ L \in Nat \ {0} /\ call = NoCall
      /\ length \in Nat \ {0} /\ list \in [0..(length - 1) -> Ends] /\ TableTypes
  BY DEF ResizeStart, IInv, ResizeOK, TableTypes
<1>2. /\ resize' = [pc |-> "move", length |-> L, list |-> null, i |-> 0, entry |-> list[0],
                     count |-> 0]
      /\ UNCHANGED <<length, elems, list, next_hash, call, result>>
  BY DEF ResizeStart
<1>3. BucketsOK
  BY <1>1, QuietIs DEF IInv
<1>4. /\ resize'.pc = "move" /\ resize'.length = L /\ resize'.list = null /\ resize'.i = 0
      /\ resize'.entry = list[0] /\ resize'.count = 0
      /\ resize' = [pc |-> "move", length |-> resize'.length, list |-> resize'.list,
                    i |-> resize'.i, entry |-> resize'.entry, count |-> resize'.count]
  BY <1>2
<1>5. null \in [0..(L - 1) -> Ends] /\ list[0] \in Ends /\ 0 \in 0..(length - 1)
  BY <1>1 DEF Ends
<1>6. TableTypes' /\ ResizeOK' /\ CallOK'
  <2>1. TableTypes'
    BY <1>1, <1>2 DEF TableTypes
  <2>2. CallOK'
    BY <1>1, <1>2 DEF CallOK
  <2> HIDE DEF null, L
  <2>3. ResizeOK'
    BY <1>1, <1>2, <1>4, <1>5 DEF ResizeOK
  <2> QED
    BY <2>1, <2>2, <2>3
<1>7. /\ DOMAIN Heads' = (-L)..(length - 1)
      /\ \A d \in (-L)..(length - 1) : Heads'[d] = IF d < 0 THEN Null ELSE list[d]
  <2>1. /\ Heads' \in [(-L)..(length - 1) -> Ends]
        /\ \A d \in (-L)..(length - 1) :
             Heads'[d] = IF d < 0 THEN null[-1 - d]
                         ELSE IF d < 0 THEN Null
                         ELSE IF d = 0 THEN list[0] ELSE list[d]
    BY ONLY <1>2, <1>4, <1>6, HeadsMoveNext
  <2>2. \A d \in (-L)..(length - 1) : d < 0 => null[-1 - d] = Null
    BY <1>1
  <2> QED
    BY <2>1, <2>2
<1>8. /\ next_hash \in Links /\ DOMAIN list = 0..(length - 1)
      /\ \A d \in 0..(length - 1) : d \in (-L)..(length - 1) /\ ~(d < 0)
      /\ \A d \in (-L)..(length - 1) : ~(d < 0) => d \in 0..(length - 1)
      /\ Reach(next_hash, Null) = {} /\ Null \in Ends
  BY <1>1, <1>3, ReachNull DEF BucketsOK, TableOK, Sound, Ends
<1>9. \A d \in (-L)..(length - 1) :
         Reach(next_hash, Heads'[d]) = IF d < 0 THEN {} ELSE Reach(next_hash, list[d])
  BY <1>7, <1>8
<1>10. Sound(Heads', next_hash)
  <2>1. ASSUME NEW d \in (-L)..(length - 1)
        PROVE  Heads'[d] \in Ends /\ StraightFrom(next_hash, Heads'[d])
    BY <1>3, <1>7, <1>8, <1>9 DEF BucketsOK, TableOK, Sound, StraightFrom
  <2>2. ASSUME NEW c \in (-L)..(length - 1), NEW d \in (-L)..(length - 1), c # d
        PROVE  Reach(next_hash, Heads'[c]) \cap Reach(next_hash, Heads'[d]) = {}
    BY <1>3, <1>8, <1>9, <2>2 DEF BucketsOK, TableOK, Sound
  <2> QED
    BY <1>7, <1>8, <2>1, <2>2 DEF Sound
<1>11. Members(Heads', next_hash) = Members(list, next_hash)
  <2>1. ASSUME NEW h \in Members(list, next_hash)
        PROVE  h \in Members(Heads', next_hash)
    <3>1. PICK d \in 0..(length - 1) : h \in Reach(next_hash, list[d])
      BY <1>8 DEF Members
    <3>2. d \in DOMAIN Heads' /\ Reach(next_hash, Heads'[d]) = Reach(next_hash, list[d])
      BY <1>7, <1>8, <1>9
    <3> QED
      BY <3>1, <3>2 DEF Members
  <2>2. ASSUME NEW h \in Members(Heads', next_hash)
        PROVE  h \in Members(list, next_hash)
    <3>1. PICK d \in (-L)..(length - 1) : h \in Reach(next_hash, Heads'[d])
      BY <1>7 DEF Members
    <3>2. d \in DOMAIN list /\ h \in Reach(next_hash, list[d])
      BY <1>8, <1>9, <3>1
    <3> QED
      BY <3>2 DEF Members
  <2> QED
    BY <2>1, <2>2
<1>12. Placed'
  <2> SUFFICES ASSUME NEW d \in DOMAIN Heads', NEW h \in Reach(next_hash', Heads'[d])
               PROVE  Home(KeyOf[h], d)'
    BY DEF Placed
  <2>1. d \in (-L)..(length - 1) /\ ~(d < 0) /\ h \in Reach(next_hash, list[d])
    BY <1>2, <1>7, <1>9
  <2>2. Bucket(KeyOf[h], length) = d
    BY <1>3, <1>8, <2>1 DEF BucketsOK, TableOK
  <2> QED
    BY <1>2, <2>1, <2>2 DEF Home
<1>13. Unique'
  BY <1>2, <1>3, <1>11 DEF Unique, BucketsOK, TableOK
<1>14. Members(null, next_hash) = {}
  <2>1. \A d \in DOMAIN null : Reach(next_hash, null[d]) = {}
    BY <1>8
  <2> HIDE DEF null
  <2> QED
    BY <2>1 DEF Members
<1>15. Counted'
  <2>1. Moved' = {}
    BY <1>2, <1>4, <1>14 DEF Moved
  <2>2. Cardinality({}) = 0
    BY FS_EmptySet
  <2>3. elems = Cardinality(Members(Heads', next_hash))
    BY <1>3, <1>11 DEF BucketsOK, TableOK
  <2> QED
    BY <1>2, <1>4, <2>1, <2>2, <2>3 DEF Counted
<1>16. Present' = Present
  BY <1>1, <1>2, <1>11 DEF Present, Heads
<1> QED
  BY <1>2, <1>6, <1>10, <1>12, <1>13, <1>15, <1>16 DEF IInv

\* The first entry of chain i becomes the first of chain d.
MoveArgs(D, heads, next, i, d, e, h2, n2) ==
    /\ heads \in [D -> Ends] /\ Sound(heads, next)
    /\ i \in D /\ d \in D /\ i # d /\ e \in Handles /\ heads[i] = e
    /\ h2 = [heads EXCEPT ![i] = next[e], ![d] = e]
    /\ n2 = [next EXCEPT ![e] = heads[d]]

LEMMA MoveSound ==
    ASSUME NEW D, NEW heads, NEW next, NEW i, NEW d, NEW e, NEW h2, NEW n2,
           MoveArgs(D, heads, next, i, d, e, h2, n2)
    PROVE  /\ Sound(h2, n2) /\ h2 \in [D -> Ends]
           /\ e \in Reach(next, heads[i])
           /\ Reach(n2, h2[i]) = Reach(next, heads[i]) \ {e}
           /\ Reach(n2, h2[d]) = Reach(next, heads[d]) \cup {e}
           /\ \A c \in D : c # i /\ c # d => Reach(n2, h2[c]) = Reach(next, heads[c])
<1>a. /\ heads \in [D -> Ends] /\ Sound(heads, next)
      /\ i \in D /\ d \in D /\ i # d /\ e \in Handles /\ heads[i] = e
      /\ h2 = [heads EXCEPT ![i] = next[e], ![d] = e]
      /\ n2 = [next EXCEPT ![e] = heads[d]]
  BY DEF MoveArgs
<1> USE <1>a
<1>1. /\ next \in Links /\ DOMAIN heads = D /\ e \in Ends /\ e # Null
      /\ \A c \in D : heads[c] \in Ends /\ StraightFrom(next, heads[c])
      /\ \A a, c \in D : a # c => Reach(next, heads[a]) \cap Reach(next, heads[c]) = {}
  BY NullAssumption DEF Sound, Ends
<1>2. e \in Reach(next, heads[i])
  BY <1>1, ReachClosed
<1>3. /\ next[e] \in Ends /\ Reach(next, e) = {e} \cup Reach(next, next[e])
      /\ e \notin Reach(next, next[e]) /\ StraightFrom(next, next[e])
  BY <1>1, <1>2, Behind
<1>4. ASSUME NEW w \in Ends, StraightFrom(next, w), e \notin Reach(next, w)
      PROVE  Reach(n2, w) = Reach(next, w) /\ StraightFrom(n2, w)
  <2>1. heads[d] \in Ends
    BY <1>1
  <2>2. /\ Reach([next EXCEPT ![e] = heads[d]], w) = Reach(next, w)
        /\ StraightFrom([next EXCEPT ![e] = heads[d]], w)
    BY ONLY <1>1, <1>4, <2>1, e \in Handles, StoreElsewhere
  <2> QED
    BY <2>2
<1>5. \A c \in D : c # i => /\ Reach(n2, heads[c]) = Reach(next, heads[c])
                            /\ StraightFrom(n2, heads[c]) /\ e \notin Reach(next, heads[c])
  <2> SUFFICES ASSUME NEW c \in D, c # i
               PROVE  /\ Reach(n2, heads[c]) = Reach(next, heads[c])
                      /\ StraightFrom(n2, heads[c]) /\ e \notin Reach(next, heads[c])
    OBVIOUS
  <2>1. e \notin Reach(next, heads[c])
    BY <1>1, <1>2
  <2> QED
    BY <1>1, <1>4, <2>1
<1>6. Reach(n2, next[e]) = Reach(next, next[e]) /\ StraightFrom(n2, next[e])
  BY <1>3, <1>4
<1>7. n2 \in Links /\ n2[e] = heads[d]
  BY <1>1 DEF Links
<1>8. Reach(n2, e) = {e} \cup Reach(next, heads[d])
  <2>1. Reach(n2, e) = {e} \cup Reach(n2, n2[e])
    BY ONLY e \in Handles, <1>7, ReachStep
  <2> QED
    BY <1>5, <1>7, <2>1
<1>9. StraightFrom(n2, e)
  <2>1. /\ Reach(n2, heads[d]) = Reach(next, heads[d]) /\ StraightFrom(n2, heads[d])
        /\ e \notin Reach(next, heads[d])
    BY <1>5
  <2>2. Straight(n2, e)
    BY <1>7, <2>1 DEF Straight
  <2>3. \A h \in Reach(next, heads[d]) : Straight(n2, h)
    BY <2>1 DEF StraightFrom
  <2> QED
    BY <1>8, <2>2, <2>3 DEF StraightFrom
<1>10. /\ h2 \in [D -> Ends] /\ h2[i] = next[e] /\ h2[d] = e
       /\ \A c \in D : c # i /\ c # d => h2[c] = heads[c]
  BY <1>1, <1>3
<1>11. /\ Reach(n2, h2[i]) = Reach(next, heads[i]) \ {e}
       /\ Reach(n2, h2[d]) = Reach(next, heads[d]) \cup {e}
       /\ \A c \in D : c # i /\ c # d => Reach(n2, h2[c]) = Reach(next, heads[c])
  <2>1. Reach(next, heads[i]) = {e} \cup Reach(next, next[e])
    BY <1>3
  <2>2. Reach(n2, h2[i]) = Reach(next, next[e])
    BY <1>6, <1>10
  <2>3. Reach(n2, h2[i]) = Reach(next, heads[i]) \ {e}
    BY <1>3, <2>1, <2>2
  <2>4. Reach(n2, h2[d]) = Reach(next, heads[d]) \cup {e}
    BY <1>8, <1>10
  <2>5. \A c \in D : c # i /\ c # d => Reach(n2, h2[c]) = Reach(next, heads[c])
    BY <1>5, <1>10
  <2> QED
    BY <2>3, <2>4, <2>5
<1>12. \A c \in D : h2[c] \in Ends /\ StraightFrom(n2, h2[c])
  BY <1>5, <1>6, <1>9, <1>10
<1>13. ASSUME NEW a \in D, NEW c \in D, a # c
       PROVE  Reach(n2, h2[a]) \cap Reach(n2, h2[c]) = {}
  <2>1. Reach(next, heads[a]) \cap Reach(next, heads[c]) = {}
    BY <1>1, <1>13
  <2>2. /\ a # i => e \notin Reach(next, heads[a])
        /\ c # i => e \notin Reach(next, heads[c])
    BY <1>5
  <2>3. /\ a = i \/ a = d \/ Reach(n2, h2[a]) = Reach(next, heads[a])
        /\ c = i \/ c = d \/ Reach(n2, h2[c]) = Reach(next, heads[c])
    BY <1>11
  <2> QED
    BY ONLY <1>11, <1>13, <2>1, <2>2, <2>3, i # d
<1>14. DOMAIN h2 = D
  BY <1>10
<1>15. Sound(h2, n2)
  BY <1>7, <1>12, <1>13, <1>14 DEF Sound
<1> QED
  BY <1>2, <1>10, <1>11, <1>15

\* The new table has the chains at negative numbers.
LEMMA MovedIs ==
    ASSUME TableTypes, ResizeOK, resize.pc = "move"
    PROVE  \A h : h \in Moved <=> \E d \in (-resize.length)..(-1) : h \in Reach(next_hash, Heads[d])
<1> DEFINE L == resize.length
           R(x) == Reach(next_hash, x)
<1>1. /\ L \in Nat \ {0} /\ resize.list \in [0..(L - 1) -> Ends] /\ length \in Nat \ {0}
      /\ \A d \in (-L)..(length - 1) : d < 0 => Heads[d] = resize.list[-1 - d]
  BY HeadsMove DEF HeadsForm
<1>2. \A d \in (-L)..(-1) : -1 - d \in 0..(L - 1) /\ Heads[d] = resize.list[-1 - d]
  BY <1>1
<1>3. \A b \in 0..(L - 1) : -1 - b \in (-L)..(-1) /\ -1 - (-1 - b) = b
  BY <1>1
<1>4. \A h : h \in Moved <=> \E b \in 0..(L - 1) : h \in R(resize.list[b])
  <2>1. DOMAIN resize.list = 0..(L - 1)
    BY <1>1
  <2> QED
    BY <2>1 DEF Moved, Members
<1> HIDE DEF R, L
<1>5. \A b \in 0..(L - 1) : Heads[-1 - b] = resize.list[b]
  BY <1>2, <1>3
<1>6. \A h : h \in Moved <=> \E d \in (-L)..(-1) : h \in R(Heads[d])
  <2>1. ASSUME NEW h, NEW b \in 0..(L - 1), h \in R(resize.list[b])
        PROVE  \E d \in (-L)..(-1) : h \in R(Heads[d])
    BY ONLY <1>3, <1>5, <2>1
  <2>2. ASSUME NEW h, NEW d \in (-L)..(-1), h \in R(Heads[d])
        PROVE  \E b \in 0..(L - 1) : h \in R(resize.list[b])
    BY ONLY <1>2, <2>2
  <2> QED
    BY ONLY <1>4, <2>1, <2>2
<1> QED
  BY <1>6 DEF R, L

LEMMA MoveEntryInv == IInv /\ MoveEntry => IInv' /\ Present' = Present
<1> SUFFICES ASSUME IInv, MoveEntry
             PROVE  IInv' /\ Present' = Present
  OBVIOUS
<1> DEFINE L == resize.length
           e == resize.entry
           i == resize.i
           nb == Bucket(KeyOf[e], L)
           d0 == -1 - nb
           D == (-L)..(length - 1)
           moved == [resize.list EXCEPT ![nb] = e]
<1>1. /\ resize.pc = "move" /\ TableTypes /\ ResizeOK
      /\ Sound(Heads, next_hash) /\ Placed /\ Unique /\ Counted
      /\ elems \in Int /\ result \in Ends
  BY DEF MoveEntry, IInv, TableTypes
<1>2. /\ L \in Nat \ {0} /\ resize.list \in [0..(L - 1) -> Ends] /\ i \in 0..(length - 1)
      /\ e \in Handles /\ e \in Ends /\ length \in Nat \ {0} /\ list \in [0..(length - 1) -> Ends]
      /\ call = NoCall /\ Heads \in [D -> Ends]
      /\ \A d \in D : Heads[d] = IF d < 0 THEN resize.list[-1 - d]
                                 ELSE IF d < i THEN Null ELSE IF d = i THEN e ELSE list[d]
  <2>1. e \in Ends /\ e # Null
    BY <1>1, HeadsMove DEF MoveEntry
  <2>2. e \in Handles
    BY <2>1 DEF Ends
  <2> QED
    BY <1>1, <2>1, <2>2, HeadsMove DEF HeadsForm
<1>3. KeyOf[e] \in Keys /\ nb \in 0..(L - 1)
  BY <1>2, EntriesAssumption, BucketType
<1>4. next_hash \in Links /\ next_hash[e] \in Ends
  BY <1>1, <1>2 DEF Sound, Links
<1>5. /\ next_hash' = [next_hash EXCEPT ![e] = resize.list[nb]]
      /\ resize' = [resize EXCEPT !.list[nb] = e, !.entry = next_hash[e], !.count = @ + 1]
      /\ UNCHANGED <<length, elems, list, call, result>>
  BY DEF MoveEntry
<1>6. resize = [pc |-> "move", length |-> L, list |-> resize.list, i |-> i, entry |-> e,
                count |-> resize.count]
  BY <1>1 DEF ResizeOK
<1>7. resize' = [pc |-> "move", length |-> L, list |-> moved, i |-> i,
                 entry |-> next_hash[e], count |-> resize.count + 1]
  <2> DEFINE r == [pc |-> "move", length |-> L, list |-> resize.list, i |-> i, entry |-> e,
                   count |-> resize.count]
  <2>1. resize' = [r EXCEPT !.list = moved, !.entry = next_hash[e], !.count = resize.count + 1]
    <3>1. resize = r
      BY <1>6
    <3>2. resize' = [resize EXCEPT !.list = moved, !.entry = next_hash[e],
                                   !.count = resize.count + 1]
      BY <1>5
    <3> QED
      BY ONLY <3>1, <3>2, Zenon
  <2> HIDE DEF L, e, i, moved
  <2> QED
    BY ONLY <2>1
<1>8. /\ resize'.pc = "move" /\ resize'.length = L /\ resize'.list = moved
      /\ resize'.i = i /\ resize'.entry = next_hash[e] /\ resize'.count = resize.count + 1
      /\ resize' = [pc |-> "move", length |-> resize'.length, list |-> resize'.list,
                    i |-> resize'.i, entry |-> resize'.entry, count |-> resize'.count]
  BY <1>7
<1>9. /\ moved \in [0..(L - 1) -> Ends]
      /\ \A b \in 0..(L - 1) : moved[b] = IF b = nb THEN e ELSE resize.list[b]
  BY <1>2, <1>3
<1>10. d0 \in D /\ i \in D /\ d0 # i /\ d0 < 0 /\ -1 - d0 = nb /\ ~(i < 0)
  BY <1>2, <1>3
<1>11. Heads[i] = e /\ Heads[d0] = resize.list[nb]
  BY <1>2, <1>10
<1>12. \A d \in D : d < 0 => -1 - d \in 0..(L - 1) /\ (-1 - d = nb <=> d = d0)
  BY <1>2, <1>3
<1> HIDE DEF L, e, i, nb, d0, D, moved
<1>13. TableTypes' /\ ResizeOK' /\ CallOK'
  <2>1. TableTypes'
    BY <1>2, <1>1, <1>5 DEF TableTypes
  <2>2. CallOK'
    BY <1>2, <1>5 DEF CallOK
  <2>3. ResizeOK'
    BY <1>2, <1>4, <1>5, <1>8, <1>9 DEF ResizeOK
  <2> QED
    BY <2>1, <2>2, <2>3
<1>14. /\ Heads' \in [D -> Ends]
       /\ \A d \in D : Heads'[d] = IF d < 0 THEN moved[-1 - d]
                                   ELSE IF d < i THEN Null
                                   ELSE IF d = i THEN next_hash[e] ELSE list[d]
  <2>1. /\ Heads' \in [(-resize'.length)..(length' - 1) -> Ends]
        /\ \A d \in (-resize'.length)..(length' - 1) :
             Heads'[d] = IF d < 0 THEN resize'.list[-1 - d]
                         ELSE IF d < resize'.i THEN Null
                         ELSE IF d = resize'.i THEN resize'.entry ELSE list'[d]
    BY <1>8, <1>13, HeadsMoveNext
  <2> QED
    BY <1>5, <1>8, <2>1 DEF D
<1>15. Heads' = [Heads EXCEPT ![i] = next_hash[e], ![d0] = e]
  <2>1. \A d \in D : Heads'[d] = IF d = d0 THEN e ELSE IF d = i THEN next_hash[e] ELSE Heads[d]
    <3> SUFFICES ASSUME NEW d \in D
                 PROVE  Heads'[d] = IF d = d0 THEN e ELSE IF d = i THEN next_hash[e] ELSE Heads[d]
      OBVIOUS
    <3>1. CASE d < 0
      <4>1. Heads'[d] = moved[-1 - d] /\ Heads[d] = resize.list[-1 - d]
        BY <1>2, <1>14, <3>1
      <4>2. -1 - d \in 0..(L - 1) /\ (-1 - d = nb <=> d = d0) /\ d # i
        BY <1>10, <1>12, <3>1
      <4>3. moved[-1 - d] = IF -1 - d = nb THEN e ELSE resize.list[-1 - d]
        BY <1>9, <4>2
      <4> QED
        BY <4>1, <4>2, <4>3
    <3>2. CASE ~(d < 0)
      BY <1>2, <1>10, <1>14, <3>2
    <3> QED
      BY <3>1, <3>2
  <2> QED
    BY <1>2, <1>10, <1>14, <2>1
<1>16. next_hash' = [next_hash EXCEPT ![e] = Heads[d0]]
  BY <1>5, <1>11
<1>17. /\ Sound(Heads', next_hash')
       /\ e \in Reach(next_hash, Heads[i])
       /\ Reach(next_hash', Heads'[i]) = Reach(next_hash, Heads[i]) \ {e}
       /\ Reach(next_hash', Heads'[d0]) = Reach(next_hash, Heads[d0]) \cup {e}
       /\ \A c \in D : c # i /\ c # d0 => Reach(next_hash', Heads'[c]) = Reach(next_hash, Heads[c])
  <2>1. MoveArgs(D, Heads, next_hash, i, d0, e, Heads', next_hash')
    BY <1>1, <1>2, <1>10, <1>11, <1>15, <1>16 DEF MoveArgs
  <2> QED
    BY <2>1, MoveSound
<1>18. DOMAIN Heads = D /\ DOMAIN Heads' = D
  BY <1>2, <1>14
<1>19. Members(Heads', next_hash') = Members(Heads, next_hash)
  <2>1. ASSUME NEW h \in Members(Heads, next_hash)
        PROVE  h \in Members(Heads', next_hash')
    <3>1. PICK d \in D : h \in Reach(next_hash, Heads[d])
      BY <1>18 DEF Members
    <3>2. CASE h = e
      BY <1>10, <1>17, <1>18, <3>2 DEF Members
    <3>3. CASE h # e
      <4>1. h \in Reach(next_hash', Heads'[d])
        BY <1>17, <3>1, <3>3
      <4> QED
        BY <1>18, <4>1 DEF Members
    <3> QED
      BY <3>2, <3>3
  <2>2. ASSUME NEW h \in Members(Heads', next_hash')
        PROVE  h \in Members(Heads, next_hash)
    <3>1. PICK d \in D : h \in Reach(next_hash', Heads'[d])
      BY <1>18 DEF Members
    <3>2. h \in Reach(next_hash, Heads[d]) \/ h \in Reach(next_hash, Heads[i])
      BY <1>17, <3>1
    <3> QED
      BY <1>10, <1>18, <3>2 DEF Members
  <2> QED
    BY <2>1, <2>2
<1>20. Placed'
  <2> SUFFICES ASSUME NEW d \in D, NEW h \in Reach(next_hash', Heads'[d])
               PROVE  Home(KeyOf[h], d)'
    BY <1>18 DEF Placed
  <2>1. CASE h \in Reach(next_hash, Heads[d])
    <3>1. Home(KeyOf[h], d)
      BY <1>1, <1>18, <2>1 DEF Placed
    <3> QED
      BY <1>5, <1>8, <3>1 DEF Home, L
  <2>2. CASE d = d0 /\ h = e
    <3>1. Bucket(KeyOf[h], L) = -1 - d
      BY <1>10, <2>2 DEF nb
    <3> QED
      BY <1>8, <1>10, <2>2, <3>1 DEF Home
  <2> QED
    BY <1>17, <2>1, <2>2
<1>21. Unique'
  BY <1>1, <1>19 DEF Unique
<1>22. Counted'
  <2>1. \A h : h \in Moved <=> \E d \in (-L)..(-1) : h \in Reach(next_hash, Heads[d])
    BY <1>1, MovedIs DEF L
  <2>2. \A h : h \in Moved' <=> \E d \in (-L)..(-1) : h \in Reach(next_hash', Heads'[d])
    <3>1. (TableTypes /\ ResizeOK /\ resize.pc = "move" =>
            \A h : h \in Moved <=>
                     \E d \in (-resize.length)..(-1) : h \in Reach(next_hash, Heads[d]))'
      BY MovedIs, PTL
    <3> QED
      BY <1>8, <1>13, <3>1
  <2>3. d0 \in (-L)..(-1) /\ \A d \in (-L)..(-1) : d \in D /\ d # i
    BY <1>2, <1>10 DEF D
  <2>4. e \notin Moved /\ Moved' = Moved \cup {e}
    <3>1. \A d \in D : d # i => e \notin Reach(next_hash, Heads[d])
      BY <1>1, <1>10, <1>17, <1>18 DEF Sound
    <3>2. e \notin Moved
      BY <2>1, <2>3, <3>1
    <3>3. \A h : h \in Moved' <=> h \in Moved \/ h = e
      BY <1>17, <2>1, <2>2, <2>3
    <3> QED
      BY <3>2, <3>3
  <2>5. Moved \in SUBSET Handles
    <3>1. Members(Heads, next_hash) \in SUBSET Handles
      BY <1>1, MembersFinite
    <3>2. Moved \subseteq Members(Heads, next_hash)
      BY <1>18, <2>1, <2>3 DEF Members
    <3> QED
      BY <3>1, <3>2
  <2>6. IsFiniteSet(Moved)
    BY <2>5, HandlesAssumption, FS_Subset
  <2>7. Cardinality(Moved') = Cardinality(Moved) + 1
    BY <2>4, <2>6, FS_AddElement
  <2>8. resize'.count = Cardinality(Moved')
    BY <1>1, <1>8, <2>7 DEF Counted
  <2>9. elems' = Cardinality(Members(Heads', next_hash'))
    BY <1>1, <1>5, <1>19 DEF Counted
  <2> QED
    BY <2>8, <2>9 DEF Counted
<1> QED
  BY <1>13, <1>17, <1>19, <1>20, <1>21, <1>22 DEF IInv, Present

LEMMA NextBucketInv == IInv /\ NextBucket => IInv' /\ Present' = Present
<1> SUFFICES ASSUME IInv, NextBucket
             PROVE  IInv' /\ Present' = Present
  OBVIOUS
<1> DEFINE D == (-resize.length)..(length - 1)
           i == resize.i
<1>1. /\ resize.pc = "move" /\ TableTypes /\ ResizeOK
      /\ Sound(Heads, next_hash) /\ Placed /\ Unique /\ Counted
      /\ resize.entry = Null /\ i + 1 < length
  BY DEF NextBucket, IInv
<1>2. /\ resize.length \in Nat \ {0} /\ resize.list \in [0..(resize.length - 1) -> Ends]
      /\ i \in 0..(length - 1) /\ length \in Nat \ {0} /\ list \in [0..(length - 1) -> Ends]
      /\ call = NoCall /\ Heads \in [D -> Ends]
      /\ \A d \in D : Heads[d] = IF d < 0 THEN resize.list[-1 - d]
                                 ELSE IF d < i THEN Null ELSE IF d = i THEN Null ELSE list[d]
  BY <1>1, HeadsMove DEF HeadsForm
<1>3. i + 1 \in 0..(length - 1) /\ list[i + 1] \in Ends
  BY <1>1, <1>2
<1>4. /\ resize' = [resize EXCEPT !.i = @ + 1, !.entry = list[resize.i + 1]]
      /\ UNCHANGED <<length, elems, list, next_hash, call, result>>
  BY DEF NextBucket
<1>5. resize = [pc |-> "move", length |-> resize.length, list |-> resize.list, i |-> i,
                entry |-> resize.entry, count |-> resize.count]
  BY <1>1 DEF ResizeOK
<1>6. resize' = [pc |-> "move", length |-> resize.length, list |-> resize.list, i |-> i + 1,
                 entry |-> list[i + 1], count |-> resize.count]
  <2> DEFINE r == [pc |-> "move", length |-> resize.length, list |-> resize.list, i |-> i,
                   entry |-> resize.entry, count |-> resize.count]
  <2>1. resize' = [r EXCEPT !.i = i + 1, !.entry = list[i + 1]]
    <3>1. resize = r
      BY <1>5
    <3>2. resize' = [resize EXCEPT !.i = i + 1, !.entry = list[i + 1]]
      BY <1>4
    <3> QED
      BY ONLY <3>1, <3>2, Zenon
  <2> HIDE DEF i
  <2> QED
    BY ONLY <2>1
<1>7. /\ resize'.pc = "move" /\ resize'.length = resize.length /\ resize'.list = resize.list
      /\ resize'.i = i + 1 /\ resize'.entry = list[i + 1] /\ resize'.count = resize.count
      /\ resize' = [pc |-> "move", length |-> resize'.length, list |-> resize'.list,
                    i |-> resize'.i, entry |-> resize'.entry, count |-> resize'.count]
  BY <1>6
<1> HIDE DEF i
<1>8. TableTypes' /\ ResizeOK' /\ CallOK'
  <2>1. TableTypes'
    BY <1>1, <1>4 DEF TableTypes
  <2>2. CallOK'
    BY <1>2, <1>4 DEF CallOK
  <2>3. ResizeOK'
    BY <1>2, <1>3, <1>4, <1>7 DEF ResizeOK
  <2> QED
    BY <2>1, <2>2, <2>3
<1>9. /\ Heads' \in [D -> Ends]
      /\ \A d \in D : Heads'[d] = IF d < 0 THEN resize.list[-1 - d]
                                  ELSE IF d < i + 1 THEN Null
                                  ELSE IF d = i + 1 THEN list[i + 1] ELSE list[d]
  <2>1. /\ Heads' \in [(-resize'.length)..(length' - 1) -> Ends]
        /\ \A d \in (-resize'.length)..(length' - 1) :
             Heads'[d] = IF d < 0 THEN resize'.list[-1 - d]
                         ELSE IF d < resize'.i THEN Null
                         ELSE IF d = resize'.i THEN resize'.entry ELSE list'[d]
    BY <1>7, <1>8, HeadsMoveNext
  <2> QED
    BY <1>4, <1>7, <2>1
<1>10. Heads' = Heads
  <2>1. \A d \in D : Heads'[d] = Heads[d]
    <3> SUFFICES ASSUME NEW d \in D
                 PROVE  Heads'[d] = Heads[d]
      OBVIOUS
    <3>1. d \in Int /\ i \in Int
      BY <1>2
    <3>2. d < i + 1 <=> d < i \/ d = i
      BY <3>1
    <3> QED
      BY <1>2, <1>9, <3>2
  <2> QED
    BY <1>2, <1>9, <2>1
<1>11. Sound(Heads', next_hash') /\ Unique'
  BY <1>1, <1>4, <1>10 DEF Unique
<1>12. Placed'
  <2>1. \A k : \A d : Home(k, d)' <=> Home(k, d)
    BY <1>4, <1>7 DEF Home
  <2> QED
    BY <1>1, <1>4, <1>10, <2>1 DEF Placed
<1>13. Counted'
  <2>1. Moved' = Moved
    BY <1>4, <1>7 DEF Moved
  <2> QED
    BY <1>1, <1>4, <1>7, <1>10, <2>1 DEF Counted
<1>14. Present' = Present
  BY <1>4, <1>10 DEF Present
<1> QED
  BY <1>8, <1>11, <1>12, <1>13, <1>14 DEF IInv

LEMMA ResizeDoneInv == IInv /\ ResizeDone => IInv' /\ Present' = Present
<1> SUFFICES ASSUME IInv, ResizeDone
             PROVE  IInv' /\ Present' = Present
  OBVIOUS
<1> DEFINE L == resize.length
           D == (-L)..(length - 1)
           R(x) == Reach(next_hash, x)
<1>1. /\ resize.pc = "move" /\ TableTypes /\ ResizeOK
      /\ Sound(Heads, next_hash) /\ Placed /\ Unique /\ Counted
      /\ resize.entry = Null /\ resize.i + 1 = length /\ elems \in Int /\ result \in Ends
  BY DEF ResizeDone, IInv, TableTypes
<1>2. /\ L \in Nat \ {0} /\ resize.list \in [0..(L - 1) -> Ends]
      /\ resize.i \in 0..(length - 1) /\ length \in Nat \ {0}
      /\ call = NoCall /\ Heads \in [D -> Ends]
      /\ \A d \in D : Heads[d] = IF d < 0 THEN resize.list[-1 - d]
                                 ELSE IF d < resize.i THEN Null
                                 ELSE IF d = resize.i THEN Null ELSE list[d]
  BY <1>1, HeadsMove DEF HeadsForm
<1>3. /\ list' = resize.list /\ length' = L /\ resize' = NoResize /\ call' = call
      /\ elems' = elems /\ next_hash' = next_hash /\ result' = result
  BY DEF ResizeDone
<1>4. TableTypes' /\ ResizeOK' /\ CallOK' /\ resize'.pc # "move"
  <2>1. TableTypes'
    BY <1>1, <1>2, <1>3 DEF TableTypes
  <2>2. ResizeOK' /\ CallOK' /\ resize'.pc # "move"
    BY <1>2, <1>3 DEF ResizeOK, CallOK, NoResize
  <2> QED
    BY <2>1, <2>2
<1>5. \A b \in 0..(L - 1) : -1 - b \in D /\ -1 - b < 0 /\ -1 - (-1 - b) = b
  BY <1>2
<1>6. \A d \in D : d < 0 => -1 - d \in 0..(L - 1)
  BY <1>2
<1>7. \A b \in 0..(L - 1) : Heads[-1 - b] = resize.list[b]
  BY <1>2, <1>5
<1>8. \A d \in D : ~(d < 0) => Heads[d] = Null
  BY <1>1, <1>2
<1>9. next_hash \in Links /\ R(Null) = {} /\ DOMAIN Heads = D /\ DOMAIN resize.list = 0..(L - 1)
  BY <1>1, <1>2, ReachNull DEF Sound
<1>10. Sound(resize.list, next_hash)
  <2>1. ASSUME NEW b \in 0..(L - 1)
        PROVE  resize.list[b] \in Ends /\ StraightFrom(next_hash, resize.list[b])
    <3>1. -1 - b \in DOMAIN Heads /\ Heads[-1 - b] = resize.list[b]
      BY <1>5, <1>7, <1>9
    <3> QED
      BY <1>1, <3>1 DEF Sound
  <2>2. ASSUME NEW b \in 0..(L - 1), NEW c \in 0..(L - 1), b # c
        PROVE  Reach(next_hash, resize.list[b]) \cap Reach(next_hash, resize.list[c]) = {}
    <3>1. /\ -1 - b \in DOMAIN Heads /\ -1 - c \in DOMAIN Heads /\ -1 - b # -1 - c
          /\ Heads[-1 - b] = resize.list[b] /\ Heads[-1 - c] = resize.list[c]
      BY <1>5, <1>7, <1>9, <2>2
    <3> QED
      BY <1>1, <3>1 DEF Sound
  <2> QED
    BY <1>9, <2>1, <2>2 DEF Sound
<1>11. Members(resize.list, next_hash) = Members(Heads, next_hash)
  <2>1. ASSUME NEW h \in Members(resize.list, next_hash)
        PROVE  h \in Members(Heads, next_hash)
    <3>1. PICK b \in 0..(L - 1) : h \in R(resize.list[b])
      BY <1>9 DEF Members
    <3>2. -1 - b \in D /\ Heads[-1 - b] = resize.list[b]
      BY <1>5, <1>7
    <3> QED
      BY <1>9, <3>1, <3>2 DEF Members
  <2>2. ASSUME NEW h \in Members(Heads, next_hash)
        PROVE  h \in Members(resize.list, next_hash)
    <3>1. PICK d \in D : h \in R(Heads[d])
      BY <1>9 DEF Members
    <3>2. d < 0
      BY <1>8, <1>9, <3>1
    <3>3. -1 - d \in 0..(L - 1) /\ Heads[d] = resize.list[-1 - d]
      BY <1>2, <1>6, <3>2
    <3> QED
      BY <1>9, <3>1, <3>3 DEF Members
  <2> QED
    BY <2>1, <2>2
<1>12. \A b \in 0..(L - 1) : \A h \in R(resize.list[b]) : Bucket(KeyOf[h], L) = b
  <2> SUFFICES ASSUME NEW b \in 0..(L - 1), NEW h \in R(resize.list[b])
               PROVE  Bucket(KeyOf[h], L) = b
    OBVIOUS
  <2>1. -1 - b \in DOMAIN Heads /\ -1 - b < 0 /\ h \in R(Heads[-1 - b])
    BY <1>5, <1>7, <1>9
  <2>2. Home(KeyOf[h], -1 - b)
    BY <1>1, <2>1 DEF Placed
  <2>3. Bucket(KeyOf[h], L) = -1 - (-1 - b)
    BY <2>1, <2>2 DEF Home
  <2> QED
    BY <1>5, <2>3
<1>13. TableOK(resize.list, next_hash, L, elems)
  BY <1>1, <1>9, <1>10, <1>11, <1>12 DEF TableOK, Unique, Counted
<1>14. BucketsOK'
  BY <1>3, <1>13 DEF BucketsOK
<1>15. Present' = Present
  BY <1>3, <1>4, <1>11 DEF Present, Heads
<1> QED
  BY <1>4, <1>14, <1>15, QuietNext

-----------------------------------------------------------------------------
(* The theorems.                                                           *)

\* A step keeps the invariant, and only insert and remove change what is present.
LEMMA StepInv ==
    ASSUME IInv, [Next]_vars
    PROVE  /\ IInv'
           /\ \/ Present' = Present
              \/ InsertFound /\ Present' = (Present \ {Content(call.ptr)}) \cup {call.entry}
              \/ RemoveFound /\ Present' = Present \ {Content(call.ptr)}
<1>1. ASSUME NEW k \in Keys, LookUp(k) \/ Remove(k)
      PROVE  IInv' /\ Present' = Present
  <2>1. Null \in Ends
    BY DEF Ends
  <2>2. PICK kind \in {"look_up", "remove"} : Begin(kind, k, Null)
    BY <1>1 DEF LookUp, Remove
  <2> QED
    BY <2>1, <2>2, BeginInv
<1>2. ASSUME NEW h \in Handles, Insert(h)
      PROVE  IInv' /\ Present' = Present
  <2>1. h \in Ends /\ KeyOf[h] \in Keys
    BY EntriesAssumption DEF Ends
  <2> QED
    BY <1>2, <2>1, BeginInv DEF Insert
<1>3. CASE Inner
  BY <1>3, WalkInv, LookUpFoundInv, InsertFoundInv, RemoveFoundInv, GrowLengthInv,
     ResizeStartInv, MoveEntryInv, NextBucketInv, ResizeDoneInv DEF Inner
<1>4. CASE UNCHANGED vars
  <2>1. UNCHANGED <<length, elems, list, next_hash, call, resize, result>>
    BY <1>4 DEF vars
  <2>2. Heads' = Heads /\ Present' = Present /\ Moved' = Moved
    BY <2>1 DEF Heads, Present, Moved
  <2>3. TableTypes' /\ ResizeOK' /\ CallOK'
    BY <2>1 DEF IInv, TableTypes, ResizeOK, CallOK
  <2>4. Sound(Heads', next_hash') /\ Placed' /\ Unique' /\ Counted'
    BY <2>1, <2>2 DEF IInv, Placed, Unique, Counted, Home
  <2> QED
    BY <2>2, <2>3, <2>4 DEF IInv
<1> QED
  BY <1>1, <1>2, <1>3, <1>4 DEF Next

\* Every chain ends, holds only entries of its bucket and shares none with another;
\* no two entries have the same key; a step of resize keeps all of it.
THEOREM TableInvariant == Spec => []IInv
<1>1. Init => IInv
  BY InitInv
<1>2. IInv /\ [Next]_vars => IInv'
  BY StepInv
<1> QED
  BY <1>1, <1>2, PTL DEF Spec

LEMMA PresentFinite ==
    ASSUME IInv
    PROVE  InTable = Present /\ Present \in SUBSET Handles /\ IsFiniteSet(Present)
BY InTableIs, MembersFinite DEF IInv, Present

\* elems_ counts the entries at every step, and the assertion of resize holds.
THEOREM ElemsAreExact == Spec => []ElemsExact
<1>1. IInv => ElemsExact
  <2> SUFFICES ASSUME IInv
               PROVE  ElemsExact
    OBVIOUS
  <2>1. elems = Cardinality(InTable)
    BY PresentFinite DEF IInv, Counted, Present
  <2>2. ASSUME resize.pc = "move", resize.entry = Null, resize.i + 1 = length
        PROVE  resize.count = elems
    <3> DEFINE D == (-resize.length)..(length - 1)
    <3>1. TableTypes /\ ResizeOK /\ Sound(Heads, next_hash) /\ Counted
      BY DEF IInv
    <3>2. /\ resize.length \in Nat \ {0} /\ length \in Nat \ {0} /\ DOMAIN Heads = D
          /\ \A d \in D : ~(d < 0) => Heads[d] = Null
      BY <2>2, <3>1, HeadsMove DEF HeadsForm
    <3>3. Reach(next_hash, Null) = {}
      BY <3>1, ReachNull DEF Sound
    <3>4. \A d \in D : d < 0 <=> d \in (-resize.length)..(-1)
      BY <3>2
    <3>5. (-resize.length)..(-1) \subseteq D
      BY <3>2
    <3>6. \A h : h \in Moved <=> \E d \in (-resize.length)..(-1) : h \in Reach(next_hash, Heads[d])
      BY <2>2, <3>1, MovedIs
    <3> HIDE DEF D
    <3>7. \A h : h \in Present <=> \E d \in D : h \in Reach(next_hash, Heads[d])
      BY <3>2 DEF Present, Members
    <3>8. \A h : h \in Present <=> h \in Moved
      BY <3>2, <3>3, <3>4, <3>5, <3>6, <3>7
    <3>9. Present = Moved
      <4>1. Present \subseteq Moved /\ Moved \subseteq Present
        BY <3>8
      <4> QED
        BY <4>1
    <3> QED
      BY <2>2, <3>1, <3>9 DEF Counted, Present
  <2> QED
    BY <2>1, <2>2 DEF ElemsExact
<1> QED
  BY <1>1, TableInvariant, PTL

\* The entry of key k among those of M.
IsEntry(M, k, e) == IF \E h \in M : KeyOf[h] = k THEN e \in M /\ KeyOf[e] = k ELSE e = Null
OnePerKey(M) == \A g, h \in M : KeyOf[g] = KeyOf[h] => g = h

LEMMA IsEntryOnce ==
    ASSUME NEW M, OnePerKey(M), NEW k, NEW e, NEW f, IsEntry(M, k, e), IsEntry(M, k, f)
    PROVE  e = f
BY DEF OnePerKey, IsEntry

EntriesAre == OnePerKey(Present) /\ \A k \in Keys : IsEntry(Present, k, EntryOf(k))

LEMMA EntryIs == IInv => EntriesAre
<1> SUFFICES ASSUME IInv
             PROVE  EntriesAre
  OBVIOUS
<1>1. OnePerKey(Present)
  BY DEF IInv, Unique, OnePerKey, Present
<1>2. ASSUME NEW k \in Keys
      PROVE  IsEntry(Present, k, EntryOf(k))
  <2> DEFINE there == IF resize.pc # "move" THEN Chain(list[Bucket(k, length)]) ELSE InTable
             found == {e \in there : KeyOf[e] = k}
  <2>1. \A h : h \in there /\ KeyOf[h] = k <=> h \in Present /\ KeyOf[h] = k
    <3>1. CASE resize.pc = "move"
      BY <3>1, PresentFinite
    <3>2. CASE resize.pc # "move"
      <4> DEFINE b == Bucket(k, length)
      <4>1. BucketsOK /\ Heads = list
        BY <3>2, QuietIs DEF IInv, Heads
      <4>2. b \in DOMAIN list /\ list[b] \in Ends /\ next_hash \in Links
        BY <4>1, BucketType DEF IInv, TableTypes, Sound
      <4>3. there = Reach(next_hash, list[b])
        BY <3>2, <4>2, ChainIsReach
      <4>4. \A d \in DOMAIN list : \A h \in Reach(next_hash, list[d]) : KeyOf[h] = k => d = b
        BY <4>1 DEF BucketsOK, TableOK
      <4>5. \A h : h \in Present <=> \E d \in DOMAIN list : h \in Reach(next_hash, list[d])
        BY <4>1 DEF Present, Members
      <4> HIDE DEF there, b
      <4> QED
        BY <4>2, <4>3, <4>4, <4>5
    <3> QED
      BY <3>1, <3>2
  <2>2. EntryOf(k) = IF found = {} THEN Null ELSE CHOOSE e \in found : TRUE
    BY DEF EntryOf
  <2> HIDE DEF there
  <2>3. \A h : h \in found <=> h \in Present /\ KeyOf[h] = k
    BY <2>1
  <2> HIDE DEF found
  <2>4. CASE found = {}
    BY <2>2, <2>3, <2>4 DEF IsEntry
  <2>5. CASE found # {}
    <3>1. EntryOf(k) \in found
      BY <2>2, <2>5
    <3> QED
      BY <2>3, <3>1 DEF IsEntry
  <2> QED
    BY <2>4, <2>5
<1> QED
  BY <1>1, <1>2 DEF EntriesAre

\* What a call that ends returns is the entry of its key.
LEMMA FoundIs ==
    ASSUME IInv, NEW kind, Found(kind)
    PROVE  /\ call.key \in Keys /\ Content(call.ptr) = EntryOf(call.key)
           /\ IsEntry(Present, call.key, Content(call.ptr))
<1> DEFINE x == Content(call.ptr)
<1>1. call # NoCall /\ (x # Null => KeyOf[x] = call.key)
  BY DEF Found, Matches
<1>2. /\ resize.pc # "move" /\ BucketsOK /\ x \in Ends /\ next_hash \in Links
      /\ Bucket(call.key, length) \in DOMAIN list
      /\ Reach(next_hash, x) \subseteq Reach(next_hash, list[Bucket(call.key, length)])
      /\ \A h \in Members(list, next_hash) : KeyOf[h] = call.key => h \in Reach(next_hash, x)
  BY <1>1, InCall
<1>3. Present = Members(list, next_hash)
  BY <1>2 DEF Present, Heads
<1>4. call.key \in Keys
  BY <1>1 DEF IInv, CallOK
<1> HIDE DEF x
<1>5. IsEntry(Present, call.key, x)
  <2>1. CASE x = Null
    <3>1. Reach(next_hash, x) = {}
      BY <1>2, <2>1, ReachNull
    <3> QED
      BY <1>2, <1>3, <2>1, <3>1 DEF IsEntry
  <2>2. CASE x # Null
    <3>1. x \in Reach(next_hash, x)
      BY <1>2, <2>2, ReachClosed
    <3>2. x \in Present
      BY <1>2, <1>3, <3>1 DEF Members
    <3> QED
      BY <1>1, <2>2, <3>2 DEF IsEntry
  <2> QED
    BY <2>1, <2>2
<1>6. x = EntryOf(call.key)
  BY <1>4, <1>5, EntryIs, IsEntryOnce DEF EntriesAre
<1> QED
  BY <1>4, <1>5, <1>6 DEF x

Mapping == [k \in Keys |-> EntryOf(k)]
Request == IF call = NoCall THEN [kind |-> "none"]
           ELSE [kind |-> call.kind, key |-> call.key, entry |-> call.entry]

\* An entry that the same entries decide.
LEMMA MappingNext ==
    ASSUME IInv, IInv', NEW k0, NEW e0,
           \A k \in Keys : IsEntry(Present', k, IF k = k0 THEN e0 ELSE EntryOf(k))
    PROVE  Mapping' = [Mapping EXCEPT ![k0] = e0]
<1>1. EntriesAre'
  <2>1. (IInv => EntriesAre)'
    BY EntryIs, PTL
  <2> QED
    BY <2>1
<1>2. ASSUME NEW k \in Keys
      PROVE  EntryOf(k)' = IF k = k0 THEN e0 ELSE EntryOf(k)
  <2>1. OnePerKey(Present') /\ IsEntry(Present', k, EntryOf(k)')
    BY <1>1 DEF EntriesAre, OnePerKey, IsEntry
  <2>2. IsEntry(Present', k, IF k = k0 THEN e0 ELSE EntryOf(k))
    OBVIOUS
  <2> QED
    BY ONLY <2>1, <2>2, IsEntryOnce
<1> QED
  BY <1>2 DEF Mapping

LEMMA MappingStays ==
    ASSUME IInv, IInv', Present' = Present
    PROVE  Mapping' = Mapping
<1>1. EntriesAre /\ EntriesAre'
  <2>1. (IInv => EntriesAre)'
    BY EntryIs, PTL
  <2> QED
    BY <2>1, EntryIs
<1>2. ASSUME NEW k \in Keys
      PROVE  EntryOf(k)' = EntryOf(k)
  <2>1. /\ OnePerKey(Present) /\ IsEntry(Present, k, EntryOf(k)')
        /\ IsEntry(Present, k, EntryOf(k))
    BY <1>1 DEF EntriesAre, OnePerKey, IsEntry
  <2> QED
    BY ONLY <2>1, IsEntryOnce
<1> QED
  BY <1>2 DEF Mapping

\* In the contract, a call that begins is Call,
LEMMA BeginIsCall ==
    ASSUME IInv, IInv', NEW kind \in {"look_up", "insert", "remove"}, NEW k \in Keys,
           NEW e \in Ends, kind = "insert" => e \in Handles /\ KeyOf[e] = k,
           Begin(kind, k, e), Present' = Present
    PROVE  Table!Call
<1>1. Mapping' = Mapping
  BY MappingStays
<1>2. /\ call = NoCall /\ result' = result
      /\ call' = [pc |-> "find", kind |-> kind, key |-> k, entry |-> e, ptr |-> Bucket(k, length)]
  BY DEF Begin
<1>3. call' # NoCall /\ call'.kind = kind /\ call'.key = k /\ call'.entry = e
  BY <1>2 DEF NoCall
<1>4. Request = [kind |-> "none"] /\ Request' = [kind |-> kind, key |-> k, entry |-> e]
  BY <1>2, <1>3 DEF Request
<1>5. Request' \in [kind : {"look_up", "insert", "remove"}, key : Keys, entry : Handles \cup {Null}]
  BY <1>4 DEF Ends
<1> QED
  BY <1>1, <1>2, <1>4, <1>5 DEF Table!Call, Table!NoRequest, Table!Requests, Mapping, Request

\* and one that ends is Return;
LEMMA FoundIsReturn ==
    ASSUME IInv, IInv', LookUpFound \/ InsertFound \/ RemoveFound,
           LookUpFound => Present' = Present,
           InsertFound => Present' = (Present \ {Content(call.ptr)}) \cup {call.entry},
           RemoveFound => Present' = Present \ {Content(call.ptr)}
    PROVE  Table!Return
<1> DEFINE x == Content(call.ptr)
           k0 == call.key
           stored == CASE call.kind = "look_up" -> Mapping[k0]
                       [] call.kind = "insert"  -> call.entry
                       [] call.kind = "remove"  -> Null
<1>1. PICK kind \in {"look_up", "insert", "remove"} : Found(kind)
  BY DEF LookUpFound, InsertFound, RemoveFound
<1>2. call # NoCall /\ call.kind = kind /\ result' = x /\ call' = NoCall
  BY <1>1 DEF Found
<1>3. k0 \in Keys /\ x = EntryOf(k0) /\ IsEntry(Present, k0, x)
  BY <1>1, FoundIs
<1>4. EntriesAre
  BY EntryIs
<1>5. /\ Request = [kind |-> call.kind, key |-> k0, entry |-> call.entry]
      /\ Request' = [kind |-> "none"]
  BY <1>2 DEF Request
<1>6. Request.kind = call.kind /\ Request.key = k0 /\ Request.entry = call.entry
  BY <1>5
<1>7. Request # [kind |-> "none"]
  <2>1. call.kind # "none"
    BY <1>2
  <2> QED
    BY <1>6, <2>1
<1>a. Null \notin Present
  BY PresentFinite, NullAssumption
<1>8. Mapping[k0] = x
  BY <1>3 DEF Mapping
<1> HIDE DEF x, k0
<1>9. Mapping' = [Mapping EXCEPT ![k0] = stored]
  <2>1. CASE kind = "look_up"
    <3>1. LookUpFound
      BY <1>2, <2>1 DEF InsertFound, RemoveFound, Found
    <3>2. Mapping' = Mapping
      BY <3>1, MappingStays
    <3>3. stored = Mapping[k0]
      BY <1>2, <2>1
    <3> QED
      BY <3>2, <3>3 DEF Mapping
  <2>2. CASE kind = "insert"
    <3>1. InsertFound
      BY <1>2, <2>2 DEF LookUpFound, RemoveFound, Found
    <3>2. Present' = (Present \ {x}) \cup {call.entry} /\ KeyOf[call.entry] = k0
      BY <1>2, <2>2, <3>1 DEF x, k0, IInv, CallOK
    <3>3. ASSUME NEW k \in Keys
          PROVE  IsEntry(Present', k, IF k = k0 THEN call.entry ELSE EntryOf(k))
      <4>1. CASE k = k0
        BY <3>2, <4>1 DEF IsEntry
      <4>2. CASE k # k0
        <5>1. IsEntry(Present, k, EntryOf(k))
          BY <1>4 DEF EntriesAre
        <5>2. \A h : KeyOf[h] = k => (h \in Present' <=> h \in Present)
          BY <1>3, <1>a, <3>2, <4>2 DEF IsEntry
        <5> QED
          BY <4>2, <5>1, <5>2 DEF IsEntry
      <4> QED
        BY <4>1, <4>2
    <3>4. Mapping' = [Mapping EXCEPT ![k0] = call.entry]
      BY <3>3, MappingNext
    <3>5. stored = call.entry
      BY <1>2, <2>2
    <3> QED
      BY <3>4, <3>5
  <2>3. CASE kind = "remove"
    <3>1. RemoveFound
      BY <1>2, <2>3 DEF LookUpFound, InsertFound, Found
    <3>2. Present' = Present \ {x}
      BY <3>1 DEF x
    <3>3. ASSUME NEW k \in Keys
          PROVE  IsEntry(Present', k, IF k = k0 THEN Null ELSE EntryOf(k))
      <4>1. CASE k = k0
        BY <1>3, <1>4, <3>2, <4>1 DEF IsEntry, EntriesAre, OnePerKey
      <4>2. CASE k # k0
        <5>1. IsEntry(Present, k, EntryOf(k))
          BY <1>4 DEF EntriesAre
        <5>2. \A h : KeyOf[h] = k /\ h \in Present => h \in Present'
          BY <1>3, <1>a, <3>2, <4>2 DEF IsEntry
        <5> QED
          BY <3>2, <4>2, <5>1, <5>2 DEF IsEntry
      <4> QED
        BY <4>1, <4>2
    <3>4. Mapping' = [Mapping EXCEPT ![k0] = Null]
      BY <3>3, MappingNext
    <3>5. stored = Null
      BY <1>2, <2>3
    <3> QED
      BY <3>4, <3>5
  <2> QED
    BY <2>1, <2>2, <2>3
<1> QED
  BY <1>2, <1>5, <1>6, <1>7, <1>8, <1>9 DEF Table!Return, Table!NoRequest, Mapping, Request, x

\* the other steps are not seen.
LEMMA InnerIsHidden ==
    ASSUME IInv, IInv', Present' = Present,
           \/ Walk \/ GrowLength \/ ResizeStart \/ MoveEntry \/ NextBucket \/ ResizeDone
           \/ UNCHANGED vars
    PROVE  UNCHANGED <<Mapping, Request, result>>
<1>1. Mapping' = Mapping
  BY MappingStays
<1>2. CASE Walk
  <2>1. /\ call # NoCall /\ call' = [call EXCEPT !.ptr = Content(call.ptr)] /\ result' = result
    BY <1>2 DEF Walk
  <2>2. call = [pc |-> "find", kind |-> call.kind, key |-> call.key, entry |-> call.entry,
                ptr |-> call.ptr]
    BY <2>1 DEF IInv, CallOK
  <2>3. /\ call'.kind = call.kind /\ call'.key = call.key /\ call'.entry = call.entry
        /\ call'.pc = "find"
    BY <2>1, <2>2
  <2>4. call' # NoCall
    BY <2>3 DEF NoCall
  <2> QED
    BY <1>1, <2>1, <2>3, <2>4 DEF Request
<1>3. CASE ~Walk
  <2>1. call' = call /\ result' = result
    BY <1>3 DEF GrowLength, ResizeStart, MoveEntry, NextBucket, ResizeDone, vars
  <2> QED
    BY <1>1, <2>1 DEF Request
<1> QED
  BY <1>2, <1>3

LEMMA StepIsOfMap ==
    ASSUME IInv, [Next]_vars
    PROVE  [Table!Call \/ Table!Return]_(Table!specVars)
<1>1. IInv'
  BY StepInv
<1>2. ASSUME NEW k \in Keys, LookUp(k) \/ Remove(k)
      PROVE  Table!Call
  <2>1. Null \in Ends
    BY DEF Ends
  <2>2. PICK kind \in {"look_up", "remove"} : Begin(kind, k, Null)
    BY <1>2 DEF LookUp, Remove
  <2>3. Present' = Present
    BY <2>1, <2>2, BeginInv
  <2> QED
    BY <1>1, <2>1, <2>2, <2>3, BeginIsCall
<1>3. ASSUME NEW h \in Handles, Insert(h)
      PROVE  Table!Call
  <2>1. h \in Ends /\ KeyOf[h] \in Keys
    BY EntriesAssumption DEF Ends
  <2>2. Begin("insert", KeyOf[h], h) /\ h \notin InTable
    BY <1>3 DEF Insert
  <2>3. Present' = Present
    BY <2>1, <2>2, BeginInv
  <2> QED
    BY <1>1, <2>1, <2>2, <2>3, BeginIsCall
<1>4. CASE LookUpFound \/ InsertFound \/ RemoveFound
  BY <1>1, <1>4, LookUpFoundInv, InsertFoundInv, RemoveFoundInv, FoundIsReturn
<1>5. CASE \/ Walk \/ GrowLength \/ ResizeStart \/ MoveEntry \/ NextBucket \/ ResizeDone
           \/ UNCHANGED vars
  <2>1. Present' = Present
    <3>1. CASE UNCHANGED vars
      BY <3>1 DEF vars, Present, Heads
    <3> QED
      BY <1>5, <3>1, WalkInv, GrowLengthInv, ResizeStartInv, MoveEntryInv, NextBucketInv,
         ResizeDoneInv
  <2>2. UNCHANGED <<Mapping, Request, result>>
    BY <1>1, <1>5, <2>1, InnerIsHidden
  <2> QED
    BY <2>2 DEF Table!specVars, Mapping, Request
<1> QED
  BY <1>2, <1>3, <1>4, <1>5 DEF Next, Inner

\* The table is the map that lru_cache takes it for: insert and remove return the
\* entry they displace, and resize, whatever it does to the chains, is not seen.
THEOREM TableImplementsMap == Spec => ImplementsMap
<1>1. Init => Table!SpecInit
  <2> SUFFICES ASSUME Init
               PROVE  Table!SpecInit
    OBVIOUS
  <2>1. IInv /\ EntriesAre
    BY InitInv, EntryIs
  <2>2. Present = {}
    <3>1. Heads = list /\ next_hash \in Links /\ \A d \in DOMAIN list : list[d] = Null
      BY DEF Init, Heads, NoResize, Links, Ends
    <3>2. \A d \in DOMAIN list : Reach(next_hash, list[d]) = {}
      BY <3>1, ReachNull
    <3> QED
      BY <3>1, <3>2 DEF Present, Members
  <2>3. \A k \in Keys : EntryOf(k) = Null
    BY <2>1, <2>2 DEF EntriesAre, IsEntry
  <2>4. call = NoCall /\ result = Null
    BY DEF Init
  <2> QED
    BY <2>3, <2>4 DEF Table!SpecInit, Table!NoRequest
<1>2. IInv /\ [Next]_vars => [Table!Call \/ Table!Return]_(Table!specVars)
  BY StepIsOfMap
<1> QED
  BY <1>1, <1>2, TableInvariant, PTL DEF Spec, ImplementsMap, Table!TableContract
=============================================================================
