----------------------------- MODULE UtilityProofs -----------------------------
(***************************************************************************)
(* The generator of random numbers, the comparator of internal keys, the   *)
(* encoding of version edits and the checksum.                             *)
(*                                                                         *)
(* The generator computes the product modulo M for every modulus and       *)
(* multiplier that Random allows; the comparator shortens a key without    *)
(* moving it past anything it has to separate, for every order of the user *)
(* keys; decode_from undoes encode_to for every edit callers can build, of *)
(* any number of files, every base and every width of the varints; Extend  *)
(* computes the remainder of all bytes at every address, for every         *)
(* polynomial and every width of a byte, and Unmask undoes Mask.           *)
(***************************************************************************)
EXTENDS Random, InternalKey, VersionEdit, Crc32c, SequenceTheorems, WellFoundedInduction, TLAPS

-----------------------------------------------------------------------------
(* The generator: arithmetic.                                              *)

\* A positive multiple is no smaller than the number itself.
LEMMA MultipleAtLeast ==
    ASSUME NEW d \in Int, NEW m \in Nat, d >= 1
    PROVE  d * m \in Int /\ d * m >= m
<1>1. d - 1 \in Nat
  OBVIOUS
<1>2. (d - 1) * m \in Nat
  BY <1>1
<1>3. d * m = (d - 1) * m + m
  OBVIOUS
<1> QED
  BY <1>2, <1>3

\* Division with a remainder.
LEMMA Division ==
    ASSUME NEW p \in Int, NEW m \in Nat \ {0}
    PROVE  /\ p \div m \in Int
           /\ p % m \in 0..(m - 1)
           /\ p = (p \div m) * m + (p % m)
  OBVIOUS

\* What is left of p between 0 and m once multiples of m are taken away is p % m.
LEMMA RemainderUnique ==
    ASSUME NEW p \in Int, NEW m \in Nat \ {0}, NEW q \in Int, NEW t \in 0..(m - 1),
           p = q * m + t
    PROVE  p % m = t
<1> DEFINE d == q - (p \div m)
           u == p % m
<1>1. /\ p \div m \in Int
      /\ u \in 0..(m - 1)
      /\ p = (p \div m) * m + u
  BY Division
<1>2. d \in Int
  BY <1>1
<1>3. d * m = u - t
  BY <1>1
<1> HIDE DEF d, u
<1>4. CASE d >= 1
  <2>1. d * m >= m
    BY <1>2, <1>4, MultipleAtLeast
  <2> QED
    BY <2>1, <1>1, <1>3
<1>5. CASE d <= -1
  <2>1. (-d) * m >= m /\ (-d) * m \in Int
    BY <1>2, <1>5, MultipleAtLeast
  <2>2. (-d) * m = -(d * m)
    BY <1>2
  <2> QED
    BY <2>1, <2>2, <1>1, <1>3
<1>6. CASE d = 0
  <2>1. u = t
    BY <1>1, <1>3, <1>6
  <2> QED
    BY <2>1 DEF u
<1> QED
  BY <1>2, <1>4, <1>5, <1>6

-----------------------------------------------------------------------------
(* The generator: the steps.                                               *)

\* The constructor stores a seed that next() does not map to itself.
LEMMA ConstructSeeds ==
    ASSUME NEW s \in 0..(2 * Modulus + 1), Construct(s)
    PROVE  seed' \in GoodSeeds
<1> DEFINE low == s % (Modulus + 1)
<1>1. Modulus \in Nat /\ Modulus >= 2
  BY ModulusAssumption
<1>2. low \in 0..Modulus
  <2>1. s \in Int /\ Modulus + 1 \in Nat \ {0} /\ (Modulus + 1) - 1 = Modulus
    BY <1>1
  <2>2. low \in 0..((Modulus + 1) - 1)
    BY <2>1, Division
  <2> QED
    BY <2>1, <2>2
<1>3. seed' = IF low \in {0, Modulus} THEN 1 ELSE low
  BY DEF Construct
<1> HIDE DEF low
<1> QED
  BY <1>1, <1>2, <1>3 DEF GoodSeeds

\* next: the sum of quotient and remainder by M + 1 is congruent to the product,
\* less than 2 M, and no multiple of M.
LEMMA NextSeedIsModular ==
    ASSUME seed \in GoodSeeds, NextSeed
    PROVE  seed' \in GoodSeeds /\ seed' = (seed * Multiplier) % Modulus
<1> DEFINE M == Modulus
           product == seed * Multiplier
           q == product \div (M + 1)
           r == product % (M + 1)
<1>1. M \in Nat /\ M >= 2 /\ seed \in 1..(M - 1) /\ Multiplier \in 1..(M - 1)
  BY ModulusAssumption DEF GoodSeeds
<1>2. product % M # 0
  BY ModulusAssumption DEF GoodSeeds
<1>3. product \in Int /\ product >= 0 /\ product <= (M - 1) * (M - 1)
  <2>1. product \in Nat
    BY <1>1
  <2>2. ((M - 1) - seed) * Multiplier \in Nat
    BY <1>1
  <2>3. (M - 1) * ((M - 1) - Multiplier) \in Nat
    BY <1>1
  <2>4. (M - 1) * (M - 1) = product + ((M - 1) - seed) * Multiplier
                            + (M - 1) * ((M - 1) - Multiplier)
    BY <1>1
  <2>5. (M - 1) * (M - 1) \in Int
    BY <1>1
  <2> QED
    BY <2>1, <2>2, <2>3, <2>4, <2>5
<1>4. q \in Int /\ r \in 0..M /\ product = q * (M + 1) + r
  <2>1. M + 1 \in Nat \ {0} /\ (M + 1) - 1 = M
    BY <1>1
  <2> QED
    BY <2>1, <1>3, Division
<1>5. seed' = IF q + r > M THEN (q + r) - M ELSE q + r
  BY DEF NextSeed
<1> HIDE DEF q, r, product
<1>6. q >= 0
  <2> SUFFICES ASSUME q <= -1 PROVE FALSE
    BY <1>4
  <2>1. (-q) * (M + 1) >= M + 1 /\ (-q) * (M + 1) \in Int
    BY <1>1, <1>4, MultipleAtLeast
  <2>2. (-q) * (M + 1) = -(q * (M + 1)) /\ q * (M + 1) \in Int
    BY <1>1, <1>4
  <2> QED
    BY <2>1, <2>2, <1>1, <1>3, <1>4
<1>7. q <= M - 2
  <2> SUFFICES ASSUME q >= M - 1 PROVE FALSE
    BY <1>1, <1>4
  <2>1. (q - (M - 1)) * (M + 1) \in Nat
    BY <1>1, <1>4
  <2>2. q * (M + 1) = (q - (M - 1)) * (M + 1) + (M - 1) * (M + 1)
    BY <1>1, <1>4
  <2>3. (M - 1) * (M + 1) = (M - 1) * (M - 1) + 2 * (M - 1)
    BY <1>1
  <2>4. (M - 1) * (M - 1) \in Int /\ q * (M + 1) \in Int /\ (M - 1) * (M + 1) \in Int
    BY <1>1, <1>4
  <2> QED
    BY <2>1, <2>2, <2>3, <2>4, <1>1, <1>3, <1>4
<1>8. product = q * M + (q + r)
  BY <1>1, <1>4
<1>9. CASE q + r < M
  <2>1. product % M = q + r
    BY <1>1, <1>3, <1>4, <1>6, <1>8, <1>9, RemainderUnique
  <2> QED
    BY <2>1, <1>1, <1>2, <1>4, <1>5, <1>6, <1>9 DEF GoodSeeds, product
<1>10. CASE q + r >= M
  <2> DEFINE k == q + 1
             t == (q + r) - M
  <2>1. product = k * M + t
    BY <1>1, <1>4, <1>8
  <2>2. t \in 0..(M - 1) /\ k \in Int /\ M \in Nat \ {0}
    BY <1>1, <1>4, <1>6, <1>7, <1>10
  <2> HIDE DEF k, t
  <2>3. product % M = t
    BY <2>1, <2>2, <1>3, RemainderUnique
  <2>4. q + r > M
    BY <2>3, <1>2, <1>1, <1>4, <1>10 DEF t
  <2> QED
    BY <2>2, <2>3, <2>4, <1>1, <1>2, <1>5 DEF GoodSeeds, product, t
<1> QED
  BY <1>1, <1>4, <1>9, <1>10

\* Once constructed, the generator has a good seed.
SeedOK == seed = NoSeed \/ seed \in GoodSeeds

\* random: next() computes (seed_ * A) % M without a division, and seed_ is never
\* 0 or M, whatever the modulus.
THEOREM RandomComputesModulo == SeedSpec => RandomIsModular
<1> DEFINE Step == /\ seed' \in GoodSeeds
                   /\ seed # NoSeed => seed' = (seed * Multiplier) % Modulus
<1>1. SeedInit => SeedOK
  BY DEF SeedInit, SeedOK
<1>2. SeedOK /\ [SeedNext]_seed => SeedOK' /\ [Step]_seed
  <2> SUFFICES ASSUME SeedOK, SeedNext PROVE SeedOK' /\ Step
    BY DEF SeedOK
  <2>1. CASE \E s \in 0..(2 * Modulus + 1) : Construct(s)
    <3>1. seed' \in GoodSeeds
      BY <2>1, ConstructSeeds
    <3>2. seed = NoSeed
      BY <2>1 DEF Construct
    <3> QED
      BY <3>1, <3>2 DEF SeedOK
  <2>2. CASE NextSeed
    <3>1. seed \in GoodSeeds
      BY <2>2 DEF SeedOK, NextSeed
    <3> QED
      BY <3>1, <2>2, NextSeedIsModular DEF SeedOK
  <2> QED
    BY <2>1, <2>2 DEF SeedNext
<1> QED
  BY <1>1, <1>2, PTL DEF SeedSpec, RandomIsModular

-----------------------------------------------------------------------------
(* The comparator: the packed numbers.                                     *)

\* No internal key has a number after the one that is used to seek.
LEMMA SeekNumberIsLargest ==
    /\ SeekNumber \in {Pack(s, t) : s \in 0..MaxSequence, t \in Types}
    /\ SeekNumber \in Int
    /\ \A k \in InternalKeys : k.number \in Int /\ k.number <= SeekNumber
<1>1. MaxSequence \in Nat /\ TypeRange \in Nat /\ TypeRange > 1
  BY PackAssumption DEF kValueTypeForSeek, kTypeValue
<1>2. SeekNumber = MaxSequence * TypeRange + 1
  BY DEF SeekNumber, Pack, kValueTypeForSeek, kTypeValue
<1>3. SeekNumber \in {Pack(s, t) : s \in 0..MaxSequence, t \in Types}
  BY <1>1 DEF SeekNumber, Types, kValueTypeForSeek
<1>4. ASSUME NEW s \in 0..MaxSequence, NEW t \in Types
      PROVE  Pack(s, t) \in Int /\ Pack(s, t) <= SeekNumber
  <2>1. (MaxSequence - s) * TypeRange \in Nat
    BY <1>1
  <2>2. MaxSequence * TypeRange = (MaxSequence - s) * TypeRange + s * TypeRange
    BY <1>1
  <2>3. s * TypeRange \in Int /\ MaxSequence * TypeRange \in Int /\ t \in {0, 1}
    BY <1>1 DEF Types, kTypeDeletion, kTypeValue
  <2> QED
    BY <2>1, <2>2, <2>3, <1>2 DEF Pack
<1>5. SeekNumber \in Int
  BY <1>1, <1>2
<1>6. ASSUME NEW k \in InternalKeys
      PROVE  k.number \in Int /\ k.number <= SeekNumber
  <2>1. k.number \in {Pack(s, t) : s \in 0..MaxSequence, t \in Types}
    BY DEF InternalKeys
  <2> QED
    BY <2>1, <1>4
<1> QED
  BY <1>3, <1>5, <1>6

\* The order of internal keys is transitive.
LEMMA KeyLessTransitive ==
    ASSUME NEW a \in InternalKeys, NEW b \in InternalKeys, NEW c \in InternalKeys,
           KeyLess(a, b), KeyLess(b, c)
    PROVE  KeyLess(a, c)
<1>1. /\ a.user_key \in UserKeys /\ b.user_key \in UserKeys /\ c.user_key \in UserKeys
      /\ a.number \in Int /\ b.number \in Int /\ c.number \in Int
  BY SeekNumberIsLargest DEF InternalKeys
<1>2. \A x, y, z \in UserKeys : UserLess(x, y) /\ UserLess(y, z) => UserLess(x, z)
  BY OrderAssumption
<1>3. CASE a.user_key = b.user_key /\ b.user_key = c.user_key
  <2>1. ~UserLess(a.user_key, a.user_key)
    BY <1>1, OrderAssumption
  <2> QED
    BY <2>1, <1>1, <1>3 DEF KeyLess
<1>4. CASE UserLess(a.user_key, b.user_key) /\ b.user_key = c.user_key
  BY <1>4 DEF KeyLess
<1>5. CASE a.user_key = b.user_key /\ UserLess(b.user_key, c.user_key)
  BY <1>5 DEF KeyLess
<1>6. CASE UserLess(a.user_key, b.user_key) /\ UserLess(b.user_key, c.user_key)
  BY <1>1, <1>2, <1>6 DEF KeyLess
<1> QED
  BY <1>3, <1>4, <1>5, <1>6 DEF KeyLess

-----------------------------------------------------------------------------
(* The comparator: the invariant.                                          *)

\* A shortened key carries the seek number: no later call can shorten it twice
\* into one that sorts differently.
KeyInv ==
    key # NoKey =>
      /\ key \in InternalKeys /\ from \in InternalKeys
      /\ limit = NoKey \/ limit \in InternalKeys
      /\ key = from \/ (KeyLess(from, key) /\ key.number = SeekNumber)
      /\ limit # NoKey => KeyLess(key, limit)

\* A longer user key in front stays there; the number does not matter then.
LEMMA ShortenAfter ==
    ASSUME KeyInv, key # NoKey, NEW tmp \in UserKeys, Shorten(tmp)
    PROVE  /\ key' \in InternalKeys
           /\ key' = key \/ (key'.user_key = tmp /\ key'.number = SeekNumber)
           /\ key' = from \/ (KeyLess(from, key') /\ key'.number = SeekNumber)
<1>1. CASE key' = key
  BY <1>1 DEF KeyInv
<1>2. CASE /\ UserLess(key.user_key, tmp)
           /\ key' = [user_key |-> tmp, number |-> SeekNumber]
  <2>1. key' \in InternalKeys /\ key'.user_key = tmp /\ key'.number = SeekNumber
    BY <1>2, SeekNumberIsLargest DEF InternalKeys
  <2>2. KeyLess(key, key')
    BY <1>2, <2>1 DEF KeyLess
  <2>3. KeyLess(from, key')
    BY <2>1, <2>2, KeyLessTransitive DEF KeyInv
  <2> QED
    BY <2>1, <2>3
<1> QED
  BY <1>1, <1>2 DEF Shorten

LEMMA KeyInvInductive == KeyInv /\ [KeyNext]_keyVars => KeyInv'
<1> SUFFICES ASSUME KeyInv, KeyNext \/ UNCHANGED keyVars PROVE KeyInv'
  OBVIOUS
<1>1. CASE \E a, b \in InternalKeys : Take(a, b)
  <2>1. PICK a, b \in InternalKeys : Take(a, b)
    BY <1>1
  <2>2. key' = a /\ from' = a /\ limit' = b /\ KeyLess(key', limit')
    BY <2>1 DEF Take
  <2> QED
    BY <2>2 DEF KeyInv
<1>2. CASE FindShortestSeparator
  <2>1. PICK tmp \in UserSeparators(key.user_key, limit.user_key) : Shorten(tmp)
    BY <1>2 DEF FindShortestSeparator
  <2>2. /\ key # NoKey /\ limit # NoKey /\ from' = from /\ limit' = limit
        /\ key \in InternalKeys /\ from \in InternalKeys /\ limit \in InternalKeys
        /\ key.user_key \in UserKeys /\ limit.user_key \in UserKeys
        /\ KeyLess(key, limit)
    BY <1>2 DEF FindShortestSeparator, KeyInv, InternalKeys
  <2>3. tmp \in UserKeys /\ (tmp = key.user_key \/ UserLess(tmp, limit.user_key))
    BY <2>1, <2>2 DEF UserSeparators
  <2>4. /\ key' \in InternalKeys
        /\ key' = key \/ (key'.user_key = tmp /\ key'.number = SeekNumber)
        /\ key' = from \/ (KeyLess(from, key') /\ key'.number = SeekNumber)
    BY <2>1, <2>2, <2>3, ShortenAfter
  <2>5. KeyLess(key', limit)
    <3>1. CASE key' = key
      BY <3>1, <2>2
    <3>2. CASE key' # key
      <4>1. UserLess(key.user_key, tmp)
        BY <2>1, <3>2 DEF Shorten
      <4>2. tmp # key.user_key
        BY <4>1, <2>2, OrderAssumption
      <4> QED
        BY <4>2, <2>3, <2>4, <3>2 DEF KeyLess
    <3> QED
      BY <3>1, <3>2
  <2> QED
    BY <2>2, <2>4, <2>5 DEF KeyInv
<1>3. CASE FindShortSuccessor
  <2>1. PICK tmp \in UserSuccessors(key.user_key) : Shorten(tmp)
    BY <1>3 DEF FindShortSuccessor
  <2>2. /\ key # NoKey /\ limit' = NoKey /\ from' = from
        /\ key \in InternalKeys /\ from \in InternalKeys /\ key.user_key \in UserKeys
    BY <1>3 DEF FindShortSuccessor, KeyInv, InternalKeys
  <2>3. tmp \in UserKeys
    BY <2>1, <2>2 DEF UserSuccessors
  <2>4. /\ key' \in InternalKeys
        /\ key' = from \/ (KeyLess(from, key') /\ key'.number = SeekNumber)
    BY <2>1, <2>2, <2>3, ShortenAfter
  <2> QED
    BY <2>2, <2>4 DEF KeyInv
<1>4. CASE UNCHANGED keyVars
  BY <1>4 DEF keyVars, KeyInv
<1> QED
  BY <1>1, <1>2, <1>3, <1>4 DEF KeyNext

\* What the invariant says of a key that has been shortened.
LEMMA KeyInvSeparates == KeyInv => KeysSeparate
<1> SUFFICES ASSUME KeyInv, key # NoKey, key # from,
                    NEW k \in InternalKeys, k.user_key = key.user_key
             PROVE  ~KeyLess(k, key)
  BY DEF KeyInv, KeysSeparate
<1>1. k.number \in Int /\ k.number <= SeekNumber /\ SeekNumber \in Int
  BY SeekNumberIsLargest
<1>2. key.number = SeekNumber /\ key.user_key \in UserKeys
  BY DEF KeyInv, InternalKeys
<1>3. ~UserLess(k.user_key, key.user_key)
  BY <1>2, OrderAssumption
<1> QED
  BY <1>1, <1>2, <1>3 DEF KeyLess

\* find_shortest_separator and find_short_successor, over any number of calls: the
\* assertions of both hold, and a shortened key sorts before every entry of its
\* user key.
THEOREM KeysAlwaysSeparate == KeySpec => []KeysSeparate
<1>1. KeyInit => KeyInv
  BY DEF KeyInit, KeyInv
<1> QED
  BY <1>1, KeyInvInductive, KeyInvSeparates, PTL DEF KeySpec

-----------------------------------------------------------------------------
(* Version edits: functions defined by recursion.                          *)

\* A set of natural numbers that is not empty has a least member.
LEMMA LeastNumber ==
    ASSUME NEW S \in SUBSET Nat, S # {}
    PROVE  \E x \in S : \A y \in S : x <= y
<1>1. IsWellFoundedOn(OpToRel(<, Nat), Nat)
  BY NatLessThanWellFounded
<1>2. PICK x \in S : \A y \in S : ~(<<y, x>> \in OpToRel(<, Nat))
  BY <1>1, WFMin
<1>3. \A y \in S : ~(y < x)
  BY <1>2 DEF OpToRel
<1> QED
  BY <1>3

\* The value of a function at d is base[d], or is made from that at down[d], of a
\* lower rank.
RecursionArgs(D, V, rank, down, base, next) ==
    /\ rank \in [D -> Nat] /\ down \in [D -> D]
    /\ base \in [D -> V] /\ next \in [D \X V -> V]
    /\ \A d \in D : rank[d] > 0 => rank[down[d]] < rank[d]

Recursive(f, D, V, rank, down, base, next) ==
    /\ f \in [D -> V]
    /\ \A d \in D : f[d] = IF rank[d] = 0 THEN base[d] ELSE next[<<d, f[down[d]]>>]

\* Such a function exists.
LEMMA Recursion ==
    ASSUME NEW D, NEW V, NEW rank, NEW down, NEW base, NEW next,
           RecursionArgs(D, V, rank, down, base, next)
    PROVE  \E f : Recursive(f, D, V, rank, down, base, next)
<1> USE DEF RecursionArgs
<1> DEFINE Step(f, d) == IF rank[d] = 0 THEN base[d] ELSE next[<<d, f[down[d]]>>]
           IsPart(f, n) == f \in [D -> V] /\ \A d \in D : rank[d] < n => f[d] = Step(f, d)
<1>1. \A f \in [D -> V], d \in D : Step(f, d) \in V
  OBVIOUS
<1>2. \A n \in Nat : \E f \in [D -> V] : IsPart(f, n)
  <2> DEFINE Bad == {n \in Nat : ~\E f \in [D -> V] : IsPart(f, n)}
  <2>1. SUFFICES ASSUME Bad # {} PROVE FALSE
    OBVIOUS
  <2>2. PICK x \in Bad : \A y \in Bad : x <= y
    BY <2>1, LeastNumber
  <2>3. x \in Nat /\ x # 0
    <3>1. IsPart(base, 0)
      OBVIOUS
    <3> QED
      BY <3>1, <2>2
  <2>4. PICK g \in [D -> V] : IsPart(g, x - 1)
    <3>1. x - 1 \in Nat /\ x - 1 \notin Bad
      BY <2>2, <2>3
    <3> QED
      BY <3>1
  <2> DEFINE f == [d \in D |-> Step(g, d)]
  <2>5. f \in [D -> V]
    BY <1>1
  <2>6. ASSUME NEW d \in D, rank[d] < x
        PROVE  f[d] = Step(f, d)
    <3>1. CASE rank[d] = 0
      BY <3>1
    <3>2. CASE rank[d] > 0
      <4>1. down[d] \in D /\ rank[down[d]] < x - 1
        BY <3>2, <2>3, <2>6
      <4>2. g[down[d]] = Step(g, down[d])
        BY <4>1, <2>4
      <4>3. f[down[d]] = g[down[d]]
        BY <4>1, <4>2
      <4> QED
        BY <4>3
    <3> QED
      BY <3>1, <3>2
  <2>7. IsPart(f, x)
    BY <2>5, <2>6
  <2> QED
    BY <2>7, <2>5, <2>2
<1>3. ASSUME NEW m \in Nat, NEW n \in Nat, NEW f, NEW g, IsPart(f, m), IsPart(g, n)
      PROVE  \A d \in D : rank[d] < m /\ rank[d] < n => f[d] = g[d]
  <2> DEFINE Different == {d \in D : rank[d] < m /\ rank[d] < n /\ f[d] # g[d]}
             Ranks == {rank[d] : d \in Different}
  <2>1. SUFFICES ASSUME Ranks # {} PROVE FALSE
    OBVIOUS
  <2>2. Ranks \in SUBSET Nat
    OBVIOUS
  <2>3. PICK x \in Ranks : \A y \in Ranks : x <= y
    BY <2>1, <2>2, LeastNumber
  <2>4. PICK d \in Different : rank[d] = x
    BY <2>3
  <2>5. f[d] = Step(f, d) /\ g[d] = Step(g, d)
    BY <2>4, <1>3
  <2>6. CASE rank[d] = 0
    BY <2>4, <2>5, <2>6
  <2>7. CASE rank[d] > 0
    <3>1. down[d] \in D /\ rank[down[d]] < rank[d] /\ rank[down[d]] \in Nat
      BY <2>4, <2>7
    <3>2. rank[down[d]] \notin Ranks
      <4>1. x \in Nat
        BY <2>2, <2>3
      <4> HIDE DEF Ranks
      <4> QED
        BY <4>1, <3>1, <2>3, <2>4
    <3>3. down[d] \notin Different
      BY <3>2
    <3>4. f[down[d]] = g[down[d]]
      BY <3>1, <3>3, <2>4
    <3> QED
      BY <3>4, <2>4, <2>5
  <2> QED
    BY <2>6, <2>7, <2>4
<1> DEFINE part == [n \in Nat |-> CHOOSE f \in [D -> V] : IsPart(f, n)]
           F == [d \in D |-> part[rank[d] + 1][d]]
<1>4. \A n \in Nat : IsPart(part[n], n)
  BY <1>2
<1> HIDE DEF part
<1>5. ASSUME NEW d \in D
      PROVE  F[d] \in V /\ F[d] = Step(F, d)
  <2> DEFINE n == rank[d] + 1
  <2>1. n \in Nat /\ rank[d] < n
    OBVIOUS
  <2>2. IsPart(part[n], n)
    BY <2>1, <1>4
  <2>3. F[d] = part[n][d] /\ F[d] = Step(part[n], d) /\ F[d] \in V
    BY <2>1, <2>2
  <2>4. CASE rank[d] = 0
    BY <2>3, <2>4
  <2>5. CASE rank[d] > 0
    <3> DEFINE k == rank[down[d]] + 1
    <3>1. k \in Nat /\ down[d] \in D /\ rank[down[d]] < k /\ rank[down[d]] < n
      BY <2>5
    <3>2. IsPart(part[k], k)
      BY <3>1, <1>4
    <3>3. part[k][down[d]] = part[n][down[d]]
      <4> HIDE DEF IsPart, n, k
      <4> QED
        BY <3>1, <3>2, <2>1, <2>2, <1>3
    <3>4. F[down[d]] = part[k][down[d]]
      BY <3>1
    <3> QED
      BY <3>3, <3>4, <2>3, <2>5
  <2> QED
    BY <2>4, <2>5
<1>6. F \in [D -> V]
  BY <1>5
<1> HIDE DEF F
<1> QED
  BY <1>5, <1>6 DEF Recursive

-----------------------------------------------------------------------------
(* Numbers and varints.                                                    *)

\* A number that is not below the base has a quotient between it and zero, which
\* is below c when the number is below c times the base.
LEMMA Quotient ==
    ASSUME NEW v \in Nat, v >= Base
    PROVE  /\ v \div Base \in Nat /\ v \div Base > 0 /\ v \div Base < v
           /\ \A c \in Nat : v < Base * c => v \div Base < c
<1> DEFINE q == v \div Base
           r == v % Base
<1>1. Base \in Nat /\ Base > 1
  BY BaseAssumption
<1>2. q \in Int /\ r \in 0..(Base - 1) /\ v = q * Base + r
  BY <1>1, Division
<1> HIDE DEF q, r
<1>3. q > 0
  <2>1. SUFFICES ASSUME -q >= 0 PROVE FALSE
    BY <1>2
  <2>2. (-q) * Base >= 0 /\ (-q) * Base = -(q * Base) /\ q * Base \in Int
    BY <2>1, <1>1, <1>2
  <2> QED
    BY <2>2, <1>1, <1>2
<1>4. q * Base >= q + q
  <2>1. Base - 2 \in Nat /\ q * (Base - 2) >= 0 /\ q * (Base - 2) \in Int
    BY <1>1, <1>2, <1>3
  <2>2. q * Base = q * (Base - 2) + q + q
    BY <1>1, <1>2
  <2> QED
    BY <2>1, <2>2, <1>2
<1>5. q < v
  <2>1. q * Base \in Int
    BY <1>1, <1>2
  <2> QED
    BY <2>1, <1>2, <1>3, <1>4
<1>6. ASSUME NEW c \in Nat, v < Base * c
      PROVE  q < c
  <2>1. SUFFICES ASSUME q - c >= 0 PROVE FALSE
    BY <1>2
  <2>2. (q - c) * Base >= 0 /\ (q - c) * Base \in Int
    BY <2>1, <1>1, <1>2
  <2>3. (q - c) * Base = q * Base - Base * c /\ q * Base \in Int /\ Base * c \in Int
    BY <1>1, <1>2
  <2> QED
    BY <2>2, <2>3, <1>1, <1>2, <1>6
<1>7. q \in Nat
  BY <1>2, <1>3
<1> QED
  BY <1>3, <1>5, <1>6, <1>7 DEF q

\* The recursive definition of Varint has a solution.
LEMMA VarintDefined ==
    /\ Varint \in [Nat -> Seq(Nat)]
    /\ \A v \in Nat : v < Base => Varint[v] = <<v>>
    /\ \A v \in Nat : v >= Base => Varint[v] = <<(v % Base) + Base>> \o Varint[v \div Base]
<1> DEFINE rank == [v \in Nat |-> IF v < Base THEN 0 ELSE v]
           down == [v \in Nat |-> IF v < Base THEN v ELSE v \div Base]
           base == [v \in Nat |-> <<v>>]
           next == [p \in Nat \X Seq(Nat) |-> <<(p[1] % Base) + Base>> \o p[2]]
<1>1. Base \in Nat /\ Base > 1
  BY BaseAssumption
<1>2. \A v \in Nat : v >= Base => v \div Base \in Nat /\ v \div Base < v
  BY Quotient
<1>3. rank \in [Nat -> Nat] /\ down \in [Nat -> Nat] /\ base \in [Nat -> Seq(Nat)]
  BY <1>1, <1>2
<1>4. next \in [Nat \X Seq(Nat) -> Seq(Nat)]
  <2>1. ASSUME NEW v \in Nat, NEW s \in Seq(Nat)
        PROVE  <<(v % Base) + Base>> \o s \in Seq(Nat)
    <3>1. (v % Base) + Base \in Nat
      BY <1>1
    <3>2. <<(v % Base) + Base>> \in Seq(Nat)
      BY <3>1
    <3> QED
      BY <3>2, ConcatProperties
  <2> QED
    BY <2>1
<1>5. \A v \in Nat : rank[v] > 0 => rank[down[v]] < rank[v]
  BY <1>1, <1>2
<1>6. PICK f : Recursive(f, Nat, Seq(Nat), rank, down, base, next)
  <2>1. RecursionArgs(Nat, Seq(Nat), rank, down, base, next)
    BY <1>3, <1>4, <1>5 DEF RecursionArgs
  <2> HIDE DEF rank, down, base, next
  <2> QED
    BY <2>1, Recursion
<1>7. \A v \in Nat :
         f[v] = IF v < Base THEN <<v>> ELSE <<(v % Base) + Base>> \o f[v \div Base]
  <2>1. SUFFICES ASSUME NEW v \in Nat
                 PROVE  f[v] = IF v < Base THEN <<v>>
                               ELSE <<(v % Base) + Base>> \o f[v \div Base]
    OBVIOUS
  <2>2. CASE v < Base
    BY <2>2, <1>6 DEF Recursive
  <2>3. CASE v >= Base
    <3>1. rank[v] # 0 /\ down[v] = v \div Base /\ down[v] \in Nat
      BY <2>3, <1>1, <1>2
    <3>2. f[v] = next[<<v, f[v \div Base]>>] /\ f[v \div Base] \in Seq(Nat)
      BY <3>1, <1>6 DEF Recursive
    <3>3. next[<<v, f[v \div Base]>>] = <<(v % Base) + Base>> \o f[v \div Base]
      BY <3>2
    <3>4. ~(v < Base)
      BY <2>3, <1>1
    <3> QED
      BY <3>2, <3>3, <3>4
  <2> QED
    BY <2>2, <2>3, <1>1
<1>8. f = [v \in Nat |->
             IF v < Base THEN <<v>> ELSE <<(v % Base) + Base>> \o f[v \div Base]]
  <2>1. f \in [Nat -> Seq(Nat)]
    BY <1>6 DEF Recursive
  <2> QED
    BY <2>1, <1>7, Zenon
<1>9. Varint = [v \in Nat |->
             IF v < Base THEN <<v>> ELSE <<(v % Base) + Base>> \o Varint[v \div Base]]
  <2> DEFINE E(g) == [v \in Nat |->
             IF v < Base THEN <<v>> ELSE <<(v % Base) + Base>> \o g[v \div Base]]
  <2>1. Varint = CHOOSE g : g = E(g)
    BY DEF Varint
  <2>2. f = E(f)
    BY <1>8
  <2> HIDE DEF E
  <2>3. Varint = E(Varint)
    BY <2>1, <2>2
  <2> QED
    BY <2>3 DEF E
<1>10. \A v \in Nat : v < Base => Varint[v] = <<v>>
  BY <1>9, Zenon
<1>11. \A v \in Nat : v >= Base => Varint[v] = <<(v % Base) + Base>> \o Varint[v \div Base]
  <2>1. \A v \in Nat : v >= Base => ~(v < Base)
    BY <1>1
  <2> QED
    BY <2>1, <1>9, Zenon
<1>12. \A v \in Nat : Varint[v] \in Seq(Nat)
  <2> DEFINE Bad == {v \in Nat : Varint[v] \notin Seq(Nat)}
  <2>1. SUFFICES ASSUME Bad # {} PROVE FALSE
    OBVIOUS
  <2>2. PICK v \in Bad : \A w \in Bad : v <= w
    BY <2>1, LeastNumber
  <2>3. CASE v < Base
    <3>1. <<v>> \in Seq(Nat) /\ Varint[v] = <<v>>
      BY <2>2, <2>3, <1>10
    <3> QED
      BY <3>1, <2>2
  <2>4. CASE v >= Base
    <3>1. v \div Base \in Nat /\ v \div Base < v
      BY <2>2, <2>4, <1>2
    <3>2. Varint[v \div Base] \in Seq(Nat)
      BY <2>2, <3>1
    <3>3. Varint[v] = <<(v % Base) + Base>> \o Varint[v \div Base]
      BY <2>2, <2>4, <1>11
    <3>4. (v % Base) + Base \in Nat
      BY <1>1, <2>2
    <3>5. <<(v % Base) + Base>> \in Seq(Nat)
      BY <3>4
    <3>6. <<(v % Base) + Base>> \o Varint[v \div Base] \in Seq(Nat)
      BY <3>2, <3>5, ConcatProperties
    <3> QED
      BY <2>2, <3>3, <3>6
  <2> QED
    BY <2>2, <2>3, <2>4, <1>1
<1>13. Varint \in [Nat -> Seq(Nat)]
  BY <1>9, <1>12, Zenon
<1> QED
  BY <1>10, <1>11, <1>13

\* The recursive definition of VarintValue has a solution.
LEMMA VarintValueDefined ==
    /\ VarintValue \in [Seq(Bytes) -> Nat]
    /\ VarintValue[<<>>] = 0
    /\ \A s \in Seq(Bytes) :
         s # <<>> => VarintValue[s] = (Head(s) % Base) + Base * VarintValue[Tail(s)]
<1> DEFINE D == Seq(Bytes)
           rank == [s \in D |-> Len(s)]
           down == [s \in D |-> IF s = <<>> THEN s ELSE Tail(s)]
           base == [s \in D |-> 0]
           next == [p \in D \X Nat |->
                      IF p[1] = <<>> THEN 0 ELSE (Head(p[1]) % Base) + Base * p[2]]
           E(g) == [s \in D |->
                      IF s = <<>> THEN 0 ELSE (Head(s) % Base) + Base * g[Tail(s)]]
<1>1. Base \in Nat /\ Base > 1
  BY BaseAssumption
<1>2. ASSUME NEW s \in D, s # <<>>
      PROVE  /\ Head(s) \in Nat /\ Head(s) % Base \in Nat /\ Tail(s) \in D
             /\ Len(s) \in Nat /\ Len(s) > 0 /\ Len(Tail(s)) = Len(s) - 1
  <2>1. Head(s) \in Bytes /\ Tail(s) \in D /\ Len(Tail(s)) = Len(s) - 1
    BY <1>2, HeadTailProperties
  <2>2. Len(s) \in Nat \ {0}
    BY <1>2, EmptySeq
  <2>3. Head(s) \in Nat
    BY <2>1, <1>1 DEF Bytes
  <2> QED
    BY <2>1, <2>2, <2>3, <1>1
<1>3. RecursionArgs(D, Nat, rank, down, base, next)
  <2>1. rank \in [D -> Nat] /\ down \in [D -> D] /\ base \in [D -> Nat]
    BY <1>2, LenProperties
  <2>2. ASSUME NEW s \in D, NEW n \in Nat
        PROVE  (IF s = <<>> THEN 0 ELSE (Head(s) % Base) + Base * n) \in Nat
    BY <1>1, <1>2
  <2>3. next \in [D \X Nat -> Nat]
    BY <2>2
  <2>4. \A s \in D : rank[s] > 0 => rank[down[s]] < rank[s]
    <3>1. SUFFICES ASSUME NEW s \in D, Len(s) > 0 PROVE Len(down[s]) < Len(s) /\ down[s] \in D
      OBVIOUS
    <3>2. s # <<>>
      BY <3>1
    <3> QED
      BY <3>2, <1>2
  <2> HIDE DEF rank, down, base, next, D
  <2> QED
    BY <2>1, <2>3, <2>4 DEF RecursionArgs
<1>4. PICK f : Recursive(f, D, Nat, rank, down, base, next)
  <2> HIDE DEF rank, down, base, next, D
  <2> QED
    BY <1>3, Recursion
<1>5. f \in [D -> Nat]
  BY <1>4 DEF Recursive
<1>6. \A s \in D : f[s] = IF s = <<>> THEN 0 ELSE (Head(s) % Base) + Base * f[Tail(s)]
  <2>1. SUFFICES ASSUME NEW s \in D
                 PROVE  f[s] = IF s = <<>> THEN 0 ELSE (Head(s) % Base) + Base * f[Tail(s)]
    OBVIOUS
  <2>2. CASE s = <<>>
    <3>1. rank[s] = 0 /\ base[s] = 0
      BY <2>2
    <3> QED
      BY <3>1, <2>2, <1>4 DEF Recursive
  <2>3. CASE s # <<>>
    <3>1. rank[s] # 0 /\ down[s] = Tail(s) /\ Tail(s) \in D
      BY <2>3, <1>2
    <3>2. f[s] = next[<<s, f[Tail(s)]>>] /\ f[Tail(s)] \in Nat
      BY <3>1, <1>4, <1>5 DEF Recursive
    <3>3. next[<<s, f[Tail(s)]>>] = (Head(s) % Base) + Base * f[Tail(s)]
      BY <3>2, <2>3
    <3> QED
      BY <3>2, <3>3, <2>3
  <2> QED
    BY <2>2, <2>3
<1>7. f = E(f)
  BY <1>5, <1>6, Zenon
<1>8. VarintValue = E(VarintValue)
  <2>1. VarintValue = CHOOSE g : g = E(g)
    BY DEF VarintValue
  <2> HIDE DEF E
  <2> QED
    BY <2>1, <1>7
<1>9. VarintValue[<<>>] = 0
  <2>1. <<>> \in D
    OBVIOUS
  <2> QED
    BY <2>1, <1>8, Zenon
<1>10. \A s \in D : s # <<>> => VarintValue[s] = (Head(s) % Base) + Base * VarintValue[Tail(s)]
  BY <1>8, Zenon
<1>11. \A s \in D : VarintValue[s] \in Nat
  <2> DEFINE Bad == {s \in D : VarintValue[s] \notin Nat}
             Sizes == {Len(s) : s \in Bad}
  <2>1. SUFFICES ASSUME Sizes # {} PROVE FALSE
    OBVIOUS
  <2>2. Sizes \in SUBSET Nat
    BY LenProperties
  <2>3. PICK n \in Sizes : \A m \in Sizes : n <= m
    BY <2>1, <2>2, LeastNumber
  <2>4. PICK s \in Bad : Len(s) = n
    BY <2>3
  <2>5. s \in D /\ s # <<>>
    BY <2>4, <1>9
  <2>6. Tail(s) \in D /\ Len(Tail(s)) < n /\ Len(Tail(s)) \in Nat /\ n \in Nat
    BY <2>4, <2>5, <1>2
  <2>7. Len(Tail(s)) \notin Sizes
    <3> HIDE DEF Sizes
    <3> QED
      BY <2>3, <2>6
  <2>8. VarintValue[Tail(s)] \in Nat
    BY <2>6, <2>7
  <2>9. VarintValue[s] \in Nat
    BY <2>5, <2>8, <1>1, <1>2, <1>10
  <2> QED
    BY <2>4, <2>9
<1>12. VarintValue \in [D -> Nat]
  BY <1>8, <1>11, Zenon
<1> QED
  BY <1>9, <1>10, <1>12

\* The recursive definition of Capacity has a solution.
LEMMA CapacityDefined ==
    /\ Capacity \in [Nat -> Nat]
    /\ Capacity[0] = 1
    /\ \A n \in Nat \ {0} : Capacity[n] = Base * Capacity[n - 1]
<1> DEFINE rank == [n \in Nat |-> n]
           down == [n \in Nat |-> IF n = 0 THEN 0 ELSE n - 1]
           base == [n \in Nat |-> 1]
           next == [p \in Nat \X Nat |-> Base * p[2]]
           E(g) == [n \in Nat |-> IF n = 0 THEN 1 ELSE Base * g[n - 1]]
<1>1. Base \in Nat
  BY BaseAssumption
<1>2. RecursionArgs(Nat, Nat, rank, down, base, next)
  <2>1. rank \in [Nat -> Nat] /\ down \in [Nat -> Nat] /\ base \in [Nat -> Nat]
    OBVIOUS
  <2>2. next \in [Nat \X Nat -> Nat]
    <3>1. \A n \in Nat : Base * n \in Nat
      BY <1>1
    <3> QED
      BY <3>1
  <2>3. \A n \in Nat : rank[n] > 0 => rank[down[n]] < rank[n]
    OBVIOUS
  <2> HIDE DEF rank, down, base, next
  <2> QED
    BY <2>1, <2>2, <2>3 DEF RecursionArgs
<1>3. PICK f : Recursive(f, Nat, Nat, rank, down, base, next)
  <2> HIDE DEF rank, down, base, next
  <2> QED
    BY <1>2, Recursion
<1>4. f \in [Nat -> Nat]
  BY <1>3 DEF Recursive
<1>5. \A n \in Nat : f[n] = IF n = 0 THEN 1 ELSE Base * f[n - 1]
  <2>1. SUFFICES ASSUME NEW n \in Nat
                 PROVE  f[n] = IF n = 0 THEN 1 ELSE Base * f[n - 1]
    OBVIOUS
  <2>2. CASE n = 0
    BY <2>2, <1>3 DEF Recursive
  <2>3. CASE n # 0
    <3>1. rank[n] # 0 /\ down[n] = n - 1 /\ n - 1 \in Nat
      BY <2>3
    <3>2. f[n] = next[<<n, f[n - 1]>>] /\ f[n - 1] \in Nat
      BY <3>1, <1>3, <1>4 DEF Recursive
    <3> QED
      BY <3>2, <2>3
  <2> QED
    BY <2>2, <2>3
<1>6. f = E(f)
  BY <1>4, <1>5, Zenon
<1>7. Capacity = E(Capacity)
  <2>1. Capacity = CHOOSE g : g = E(g)
    BY DEF Capacity
  <2> HIDE DEF E
  <2> QED
    BY <2>1, <1>6
<1>8. Capacity[0] = 1 /\ \A n \in Nat \ {0} : Capacity[n] = Base * Capacity[n - 1]
  BY <1>7
<1>9. \A n \in Nat : Capacity[n] \in Nat
  <2> DEFINE Bad == {n \in Nat : Capacity[n] \notin Nat}
  <2>1. SUFFICES ASSUME Bad # {} PROVE FALSE
    OBVIOUS
  <2>2. PICK n \in Bad : \A m \in Bad : n <= m
    BY <2>1, LeastNumber
  <2>3. n \in Nat \ {0}
    BY <2>2, <1>8
  <2>4. Capacity[n - 1] \in Nat
    BY <2>2, <2>3
  <2>5. Base * Capacity[n - 1] \in Nat
    BY <2>4, <1>1
  <2> QED
    BY <2>2, <2>3, <2>5, <1>8
<1>10. Capacity \in [Nat -> Nat]
  BY <1>7, <1>9, Zenon
<1> QED
  BY <1>8, <1>10

\* The bytes of a varint: the last one, and no other, has its top bit clear.
Word(w) ==
    /\ w \in Seq(Bytes) /\ Len(w) > 0
    /\ w[Len(w)] < Base
    /\ \A i \in 1..(Len(w) - 1) : w[i] >= Base

\* One byte more in front of a word.
LEMMA LongerWord ==
    ASSUME NEW w, Word(w), NEW b \in Bytes, b >= Base
    PROVE  /\ Word(<<b>> \o w) /\ Len(<<b>> \o w) = Len(w) + 1
           /\ <<b>> \o w # <<>> /\ Head(<<b>> \o w) = b /\ Tail(<<b>> \o w) = w
<1> DEFINE u == <<b>> \o w
<1>1. /\ w \in Seq(Bytes) /\ <<b>> \in Seq(Bytes) /\ Len(<<b>>) = 1
      /\ Len(w) \in Nat
  BY DEF Word
<1>2. /\ u \in Seq(Bytes) /\ Len(u) = 1 + Len(w)
      /\ \A i \in 1..(1 + Len(w)) : u[i] = IF i <= 1 THEN <<b>>[i] ELSE w[i - 1]
  BY <1>1, ConcatProperties
<1>3. u[1] = b /\ \A i \in 2..(1 + Len(w)) : u[i] = w[i - 1]
  BY <1>1, <1>2
<1> HIDE DEF u
<1>4. Word(u)
  <2>1. u[Len(u)] = w[Len(w)] /\ w[Len(w)] < Base
    BY <1>1, <1>2, <1>3 DEF Word
  <2>2. ASSUME NEW i \in 1..(Len(u) - 1)
        PROVE  u[i] >= Base
    <3>1. CASE i = 1
      BY <3>1, <1>3
    <3>2. CASE i # 1
      <4>1. u[i] = w[i - 1] /\ i - 1 \in 1..(Len(w) - 1)
        BY <3>2, <1>1, <1>2, <1>3
      <4> QED
        BY <4>1 DEF Word
    <3> QED
      BY <3>1, <3>2
  <2> QED
    BY <2>1, <2>2, <1>1, <1>2 DEF Word
<1>5. u # <<>> /\ Head(u) = b
  BY <1>1, <1>2, <1>3
<1>6. Tail(u) = w
  <2>1. /\ Tail(u) \in Seq(Bytes) /\ Len(Tail(u)) = Len(u) - 1
        /\ \A i \in 1..Len(Tail(u)) : Tail(u)[i] = u[i + 1]
    BY <1>2, <1>5, HeadTailProperties
  <2>2. Len(Tail(u)) = Len(w) /\ \A i \in 1..Len(w) : Tail(u)[i] = w[i]
    BY <2>1, <1>1, <1>2, <1>3
  <2> QED
    BY <2>1, <2>2, <1>1, SeqEqual
<1> QED
  BY <1>1, <1>2, <1>4, <1>5, <1>6 DEF u

\* A varint is a word that holds its number, in as many groups as the number needs.
VarintIsExact(v) ==
    /\ Word(Varint[v]) /\ VarintValue[Varint[v]] = v
    /\ \A n \in Nat \ {0} : v < Capacity[n] => Len(Varint[v]) <= n

\* Every varint has the shape of a word and holds its number.
LEMMA VarintExact == \A v \in Nat : VarintIsExact(v)
<1> DEFINE Bad == {v \in Nat : ~VarintIsExact(v)}
<1>1. SUFFICES ASSUME Bad # {} PROVE FALSE
  OBVIOUS
<1>2. Base \in Nat /\ Base > 1
  BY BaseAssumption
<1>3. PICK v \in Bad : \A m \in Bad : v <= m
  BY <1>1, LeastNumber
<1>4. v \in Nat
  BY <1>3
<1>5. CASE v < Base
  <2>1. Varint[v] = <<v>> /\ v \in Bytes
    BY <1>2, <1>4, <1>5, VarintDefined DEF Bytes
  <2>2. <<v>> \in Seq(Bytes) /\ Len(<<v>>) = 1 /\ <<v>>[1] = v
    BY <2>1
  <2>3. Word(<<v>>)
    BY <2>2, <1>5 DEF Word
  <2>4. VarintValue[<<v>>] = v
    <3>1. <<v>> # <<>> /\ Head(<<v>>) = v /\ Tail(<<v>>) = <<>>
      OBVIOUS
    <3>2. VarintValue[<<v>>] = (v % Base) + Base * VarintValue[<<>>]
      BY <3>1, <2>2, VarintValueDefined
    <3>3. v % Base = v /\ Base * 0 = 0
      BY <1>2, <1>4, <1>5
    <3> QED
      BY <3>2, <3>3, <1>4, VarintValueDefined
  <2>5. \A n \in Nat \ {0} : Len(<<v>>) <= n
    BY <2>2
  <2> QED
    BY <2>1, <2>3, <2>4, <2>5, <1>3 DEF VarintIsExact
<1>6. CASE v >= Base
  <2> DEFINE q == v \div Base
             b == (v % Base) + Base
             w == Varint[q]
  <2>1. /\ q \in Nat /\ q < v
        /\ \A c \in Nat : v < Base * c => q < c
    BY <1>4, <1>6, Quotient
  <2>2. v = q * Base + (v % Base) /\ v % Base \in 0..(Base - 1)
    BY <1>2, <1>4, Division
  <2>3. VarintIsExact(q)
    BY <2>1, <1>3
  <2>4. Varint[v] = <<b>> \o w
    BY <1>4, <1>6, VarintDefined
  <2>5. b \in Bytes /\ b >= Base
    BY <2>2, <1>2 DEF Bytes
  <2> HIDE DEF q, b, w
  <2>6. Word(w) /\ w \in Seq(Bytes) /\ VarintValue[w] = q /\ Len(w) \in Nat
    BY <2>3 DEF VarintIsExact, Word, w
  <2>7. /\ Word(<<b>> \o w) /\ Len(<<b>> \o w) = Len(w) + 1
        /\ <<b>> \o w # <<>> /\ Head(<<b>> \o w) = b /\ Tail(<<b>> \o w) = w
    BY <2>5, <2>6, LongerWord
  <2>8. VarintValue[<<b>> \o w] = v
    <3>1. VarintValue[<<b>> \o w] = (b % Base) + Base * q
      BY <2>6, <2>7, VarintValueDefined DEF Word
    <3>2. b % Base = v % Base
      BY <2>2, <1>2, RemainderUnique DEF b
    <3> QED
      BY <3>1, <3>2, <2>1, <2>2, <1>2
  <2>9. ASSUME NEW n \in Nat \ {0}, v < Capacity[n]
        PROVE  Len(<<b>> \o w) <= n
    <3>1. n # 1
      <4>1. Capacity[1] = Base * 1
        BY CapacityDefined
      <4> QED
        BY <4>1, <2>9, <1>2, <1>6, <1>4
    <3>2. n - 1 \in Nat \ {0} /\ Capacity[n - 1] \in Nat
      BY <3>1, CapacityDefined
    <3>3. v < Base * Capacity[n - 1]
      BY <2>9, CapacityDefined
    <3>4. q < Capacity[n - 1]
      BY <3>2, <3>3, <2>1
    <3>5. Len(w) <= n - 1
      BY <3>2, <3>4, <2>3 DEF VarintIsExact, w
    <3> QED
      BY <3>5, <2>6, <2>7
  <2> QED
    BY <2>4, <2>7, <2>8, <2>9, <1>3 DEF VarintIsExact
<1> QED
  BY <1>2, <1>4, <1>5, <1>6

-----------------------------------------------------------------------------
(* Reading what was written.                                               *)

\* Both parts of a concatenation can be cut out again.
LEMMA CutConcat ==
    ASSUME NEW s \in Seq(Bytes), NEW u \in Seq(Bytes)
    PROVE  /\ SubSeq(s \o u, 1, Len(s)) = s
           /\ SubSeq(s \o u, Len(s) + 1, Len(s \o u)) = u
<1> DEFINE c == s \o u
           first == SubSeq(c, 1, Len(s))
           second == SubSeq(c, Len(s) + 1, Len(c))
<1>1. /\ Len(s) \in Nat /\ Len(u) \in Nat
      /\ c \in Seq(Bytes) /\ Len(c) = Len(s) + Len(u)
      /\ \A i \in 1..(Len(s) + Len(u)) : c[i] = IF i <= Len(s) THEN s[i] ELSE u[i - Len(s)]
  BY ConcatProperties, LenProperties
<1> HIDE DEF c
<1>2. \A i \in 1..Len(c) : c[i] \in Bytes
  BY <1>1, ElementOfSeq
<1>3. /\ first \in Seq(Bytes) /\ Len(first) = Len(s)
      /\ \A i \in 1..Len(s) : first[i] = c[i]
  <2>1. \A i \in 1..Len(s) : c[i] \in Bytes
    BY <1>1, <1>2
  <2> QED
    BY <1>1, <2>1, SubSeqProperties
<1>4. /\ second \in Seq(Bytes) /\ Len(second) = Len(u)
      /\ \A i \in 1..Len(u) : second[i] = c[i + Len(s)]
  <2>1. \A i \in (Len(s) + 1)..Len(c) : c[i] \in Bytes
    BY <1>1, <1>2
  <2>2. /\ second \in Seq(Bytes)
        /\ Len(second) = IF Len(s) + 1 <= Len(c) THEN Len(c) - (Len(s) + 1) + 1 ELSE 0
        /\ \A i \in 1..(Len(c) - (Len(s) + 1) + 1) : second[i] = c[Len(s) + 1 + i - 1]
    BY <1>1, <2>1, SubSeqProperties
  <2> HIDE DEF second
  <2>3. Len(c) - (Len(s) + 1) + 1 = Len(u)
    BY <1>1
  <2>4. Len(second) = Len(u)
    BY <1>1, <2>2
  <2>5. ASSUME NEW i \in 1..Len(u)
        PROVE  second[i] = c[i + Len(s)]
    <3>1. second[i] = c[Len(s) + 1 + i - 1]
      BY <2>2, <2>3
    <3>2. Len(s) + 1 + i - 1 = i + Len(s)
      BY <1>1
    <3> QED
      BY <3>1, <3>2
  <2> QED
    BY <2>2, <2>4, <2>5
<1>5. first = s
  <2>1. \A i \in 1..Len(first) : first[i] = s[i]
    BY <1>1, <1>3
  <2> QED
    BY <1>3, <2>1, SeqEqual
<1>6. second = u
  <2>1. ASSUME NEW i \in 1..Len(second)
        PROVE  second[i] = u[i]
    <3>1. /\ i \in 1..Len(u) /\ i + Len(s) \in 1..(Len(s) + Len(u))
          /\ ~(i + Len(s) <= Len(s)) /\ i + Len(s) - Len(s) = i
      BY <1>1, <1>4
    <3>2. second[i] = c[i + Len(s)]
      BY <1>4, <3>1
    <3>3. c[i + Len(s)] = u[i + Len(s) - Len(s)]
      BY <1>1, <3>1
    <3> QED
      BY <3>1, <3>2, <3>3
  <2> QED
    BY <1>4, <2>1, SeqEqual
<1> QED
  BY <1>5, <1>6 DEF c

\* An input q, which t would continue, of what begins with a.
Begins(q, t, a, b) ==
    /\ q \in Seq(Bytes) /\ t \in Seq(Bytes) /\ a \in Seq(Bytes) /\ b \in Seq(Bytes)
    /\ q \o t = a \o b

EndsInside(q, t, a) == t # <<>> /\ \E u \in Seq(Bytes) : u # <<>> /\ a = q \o u
HasAll(q, t, a, b) == \E u \in Seq(Bytes) : q = a \o u /\ u \o t = b

\* It ends inside a, or begins with all of a.
LEMMA SplitBeginning ==
    ASSUME NEW q, NEW t, NEW a, NEW b, Begins(q, t, a, b)
    PROVE  EndsInside(q, t, a) \/ HasAll(q, t, a, b)
<1> USE DEF Begins
<1>1. /\ Len(q) \in Nat /\ Len(t) \in Nat /\ Len(a) \in Nat /\ Len(b) \in Nat
      /\ Len(q \o t) = Len(q) + Len(t) /\ Len(a \o b) = Len(a) + Len(b)
      /\ q \o t \in Seq(Bytes)
  BY ConcatProperties, LenProperties
<1>2. \A i \in 1..(Len(q) + Len(t)) :
         (q \o t)[i] = IF i <= Len(q) THEN q[i] ELSE t[i - Len(q)]
  BY ConcatProperties
<1>3. \A i \in 1..(Len(a) + Len(b)) :
         (a \o b)[i] = IF i <= Len(a) THEN a[i] ELSE b[i - Len(a)]
  BY ConcatProperties
<1>4. Len(q) + Len(t) = Len(a) + Len(b)
  BY <1>1
<1>5. \A i \in 1..Len(q) : i <= Len(a) => q[i] = a[i]
  BY <1>1, <1>2, <1>3, <1>4
<1>6. ASSUME NEW c \in Seq(Bytes), NEW d \in Seq(Bytes), Len(c) <= Len(d),
             \A i \in 1..Len(c) : c[i] = d[i]
      PROVE  \E u \in Seq(Bytes) : d = c \o u /\ Len(u) = Len(d) - Len(c)
  <2> DEFINE front == SubSeq(d, 1, Len(c))
             u == SubSeq(d, Len(c) + 1, Len(d))
  <2>1. Len(c) \in Nat /\ Len(d) \in Nat
    BY LenProperties
  <2>2. \A i \in 1..Len(d) : d[i] \in Bytes
    BY ElementOfSeq
  <2>3. front \in Seq(Bytes) /\ Len(front) = Len(c) /\ \A i \in 1..Len(c) : front[i] = d[i]
    <3>1. \A i \in 1..Len(c) : d[i] \in Bytes
      BY <2>1, <2>2, <1>6
    <3> QED
      BY <2>1, <3>1, SubSeqProperties
  <2>4. front = c
    BY <2>3, <1>6, SeqEqual
  <2>5. u \in Seq(Bytes)
    <3>1. \A i \in (Len(c) + 1)..Len(d) : d[i] \in Bytes
      BY <2>1, <2>2
    <3> QED
      BY <2>1, <3>1, SubSeqProperties
  <2>6. front \o u = d
    <3>1. /\ 1 \in 1..(Len(d) + 1) /\ Len(c) \in (1 - 1)..Len(d)
          /\ Len(d) \in Len(c)..Len(d)
      BY <2>1, <1>6
    <3>2. front \o u = SubSeq(d, 1, Len(d))
      BY <3>1, ConcatAdjacentSubSeq
    <3> QED
      BY <3>2, SubSeqFull
  <2>7. d = c \o u
    BY <2>4, <2>6
  <2> HIDE DEF u
  <2>8. Len(u) = Len(d) - Len(c)
    <3>1. Len(c \o u) = Len(c) + Len(u) /\ Len(u) \in Nat
      BY <2>5, ConcatProperties, LenProperties
    <3> QED
      BY <3>1, <2>1, <2>7
  <2> QED
    BY <2>5, <2>7, <2>8
<1>7. CASE Len(q) < Len(a)
  <2>1. PICK u \in Seq(Bytes) : a = q \o u /\ Len(u) = Len(a) - Len(q)
    <3>1. Len(q) <= Len(a) /\ \A i \in 1..Len(q) : q[i] = a[i]
      BY <1>1, <1>5, <1>7
    <3> QED
      BY <3>1, <1>6
  <2>2. u # <<>> /\ t # <<>>
    BY <2>1, <1>1, <1>4, <1>7
  <2> QED
    BY <2>1, <2>2 DEF EndsInside
<1>8. CASE Len(q) >= Len(a)
  <2>1. PICK u \in Seq(Bytes) : q = a \o u
    <3>1. Len(a) <= Len(q) /\ \A i \in 1..Len(a) : a[i] = q[i]
      BY <1>1, <1>5, <1>8
    <3> QED
      BY <3>1, <1>6
  <2>2. a \o (u \o t) = a \o b
    <3>1. (a \o u) \o t = a \o (u \o t)
      <4>1. a \in Seq(Bytes) /\ u \in Seq(Bytes) /\ t \in Seq(Bytes)
        BY <2>1
      <4> QED
        BY ONLY <4>1, ConcatAssociative
    <3>2. (a \o u) \o t = a \o b
      BY <2>1, Zenon
    <3> QED
      BY <3>1, <3>2, Zenon
  <2>3. u \o t \in Seq(Bytes)
    BY ConcatProperties
  <2>4. u \o t = b
    <3>1. a \in Seq(Bytes) /\ b \in Seq(Bytes)
      OBVIOUS
    <3> QED
      BY <2>2, <2>3, <3>1, ConcatSimplifications
  <2> QED
    BY <2>1, <2>4 DEF HasAll
<1> QED
  <2>1. Len(q) < Len(a) \/ Len(q) >= Len(a)
    BY <1>1
  <2> QED
    BY <2>1, <1>7, <1>8, Zenon

\* What get_... makes of an input that t would continue, when b follows the value:
\* the value, and what is there of b; or nothing, because something is missing.
Outcome(result, value, b, t) ==
    \/ /\ result = Success(value, result.rest)
       /\ result.rest \in Seq(Bytes) /\ result.rest \o t = b
    \/ ~result.ok /\ t # <<>>

\* A varint is read back, or is not there completely.
LEMMA ReadsWord ==
    ASSUME NEW q, NEW t, NEW b, NEW w, Word(w), Begins(q, t, w, b),
           NEW groups \in Nat, Len(w) <= groups, NEW max
    PROVE  Outcome(GetVarint(q, groups, max), VarintValue[w] % max, b, t)
<1> DEFINE ends == {n \in 1..groups : n <= Len(q) /\ q[n] < Base}
<1> USE DEF Begins
<1>1. /\ w \in Seq(Bytes) /\ Len(w) \in Nat /\ Len(q) \in Nat /\ Base \in Nat
      /\ \A i \in 1..Len(w) : w[i] \in Nat
  <2>1. w \in Seq(Bytes) /\ Base \in Nat
    BY BaseAssumption DEF Word
  <2>2. \A i \in 1..Len(w) : w[i] \in Bytes
    BY <2>1, ElementOfSeq
  <2> QED
    BY <2>1, <2>2, LenProperties DEF Bytes
<1>2. CASE EndsInside(q, t, w)
  <2>1. PICK u \in Seq(Bytes) : u # <<>> /\ w = q \o u
    BY <1>2 DEF EndsInside
  <2>2. /\ Len(u) \in Nat \ {0} /\ Len(w) = Len(q) + Len(u)
        /\ \A i \in 1..Len(q) : w[i] = q[i]
    <3>1. /\ Len(q \o u) = Len(q) + Len(u)
          /\ \A i \in 1..(Len(q) + Len(u)) :
               (q \o u)[i] = IF i <= Len(q) THEN q[i] ELSE u[i - Len(q)]
      BY ConcatProperties
    <3>2. Len(u) \in Nat \ {0}
      BY <2>1, EmptySeq
    <3> QED
      BY <3>1, <3>2, <2>1, <1>1
  <2>3. \A i \in 1..Len(q) : q[i] >= Base /\ q[i] \in Nat
    BY <2>2, <1>1 DEF Word
  <2>4. ends = {}
    BY <2>3, <1>1
  <2>5. GetVarint(q, groups, max) = Failure(q)
    BY <2>4 DEF GetVarint
  <2> QED
    BY <2>5, <1>2 DEF Outcome, Failure, EndsInside
<1>3. CASE HasAll(q, t, w, b)
  <2> DEFINE n == Len(w)
  <2>1. PICK u \in Seq(Bytes) : q = w \o u /\ u \o t = b
    BY <1>3 DEF HasAll
  <2>2. /\ Len(u) \in Nat /\ Len(q) = n + Len(u)
        /\ \A i \in 1..n : q[i] = w[i]
    <3>1. /\ Len(w \o u) = Len(w) + Len(u)
          /\ \A i \in 1..(Len(w) + Len(u)) :
               (w \o u)[i] = IF i <= Len(w) THEN w[i] ELSE u[i - Len(w)]
      BY <1>1, ConcatProperties
    <3> QED
      BY <3>1, <2>1, <1>1
  <2>3. n \in ends /\ \A i \in ends : n <= i
    <3>1. n > 0 /\ n <= groups /\ n \in 1..groups /\ n <= Len(q)
      BY <2>2, <1>1 DEF Word
    <3>2. q[n] < Base
      <4>1. n \in 1..n /\ w[n] < Base
        BY <3>1, <1>1 DEF Word
      <4>2. q[n] = w[n]
        BY <4>1, <2>2
      <4> QED
        BY <4>1, <4>2
    <3>3. ASSUME NEW i \in ends, i < n
          PROVE  FALSE
      <4>1. i \in 1..(Len(w) - 1) /\ i \in 1..n /\ q[i] < Base
        BY <1>1, <3>3
      <4>2. w[i] >= Base /\ q[i] = w[i] /\ w[i] \in Nat
        BY <4>1, <1>1, <2>2 DEF Word
      <4> QED
        BY <4>1, <4>2, <1>1
    <3> QED
      BY <3>1, <3>2, <3>3, <1>1
  <2>4. Min(ends) = n
    <3>1. ends \subseteq Nat
      OBVIOUS
    <3> HIDE DEF ends, n
    <3>2. n \in Nat
      BY <1>1 DEF n
    <3>3. \A x \in ends : (\A y \in ends : x <= y) => x = n
      BY <2>3, <3>1, <3>2
    <3> QED
      BY <2>3, <3>3 DEF Min
  <2>5. ends # {}
    BY <2>3
  <2>6. GetVarint(q, groups, max)
          = Success(VarintValue[SubSeq(q, 1, n)] % max, SubSeq(q, n + 1, Len(q)))
    BY <2>4, <2>5 DEF GetVarint
  <2>7. SubSeq(q, 1, n) = w /\ SubSeq(q, n + 1, Len(q)) = u
    BY <2>1, <1>1, CutConcat
  <2>8. GetVarint(q, groups, max) = Success(VarintValue[w] % max, u)
    BY <2>6, <2>7
  <2>9. GetVarint(q, groups, max).rest = u
    BY <2>8 DEF Success
  <2> QED
    BY <2>1, <2>8, <2>9 DEF Outcome
<1> QED
  <2>1. EndsInside(q, t, w) \/ HasAll(q, t, w, b)
    BY SplitBeginning
  <2> QED
    BY <2>1, <1>2, <1>3

\* Varints and what follows their length are bytes.
LEMMA EncodingsAreBytes ==
    /\ \A v \in Nat : EncodeVarint(v) \in Seq(Bytes) /\ EncodeVarint(v) # <<>>
    /\ \A s \in Seq(Bytes) : PutLengthPrefixedSlice(s) \in Seq(Bytes)
<1>1. ASSUME NEW v \in Nat
      PROVE  EncodeVarint(v) \in Seq(Bytes) /\ EncodeVarint(v) # <<>>
  <2>1. Word(Varint[v])
    BY VarintExact DEF VarintIsExact
  <2> QED
    BY <2>1, EmptySeq DEF Word, EncodeVarint
<1>2. ASSUME NEW s \in Seq(Bytes)
      PROVE  PutLengthPrefixedSlice(s) \in Seq(Bytes)
  <2>1. EncodeVarint(Len(s)) \in Seq(Bytes)
    BY <1>1, LenProperties
  <2> QED
    BY <2>1, ConcatProperties DEF PutLengthPrefixedSlice
<1> QED
  BY <1>1, <1>2

\* What begins with a \o c begins with a.
LEMMA BeginsFirst ==
    ASSUME NEW q, NEW t, NEW a \in Seq(Bytes), NEW c \in Seq(Bytes), NEW b,
           Begins(q, t, a \o c, b)
    PROVE  Begins(q, t, a, c \o b)
<1>1. q \in Seq(Bytes) /\ t \in Seq(Bytes) /\ b \in Seq(Bytes) /\ q \o t = (a \o c) \o b
  BY DEF Begins
<1>2. (a \o c) \o b = a \o (c \o b) /\ c \o b \in Seq(Bytes)
  <2>1. b \in Seq(Bytes) /\ a \in Seq(Bytes) /\ c \in Seq(Bytes)
    BY <1>1
  <2> QED
    BY ONLY <2>1, ConcatAssociative, ConcatProperties
<1> QED
  BY <1>1, <1>2 DEF Begins

\* Behind a there is c.
LEMMA BeginsSecond ==
    ASSUME NEW result, NEW value, NEW c, NEW b, NEW q, NEW t, NEW a,
           Begins(q, t, a, c \o b), c \in Seq(Bytes), b \in Seq(Bytes),
           Outcome(result, value, c \o b, t)
    PROVE  \/ ~result.ok /\ t # <<>>
           \/ result = Success(value, result.rest) /\ Begins(result.rest, t, c, b)
  BY DEF Begins, Outcome

\* get_varint32 and get_varint64.
LEMMA ReadsVarint ==
    ASSUME NEW q, NEW t, NEW b, NEW v \in Nat, Begins(q, t, EncodeVarint(v), b)
    PROVE  /\ v < Max32 => Outcome(GetVarint32(q), v, b, t)
           /\ v < Max64 => Outcome(GetVarint64(q), v, b, t)
<1> DEFINE w == EncodeVarint(v)
<1>1. /\ Word(w) /\ VarintValue[w] = v
      /\ \A n \in Nat \ {0} : v < Capacity[n] => Len(w) <= n
  BY VarintExact DEF VarintIsExact, EncodeVarint
<1>2. Begins(q, t, w, b)
  OBVIOUS
<1> HIDE DEF w
<1>3. ASSUME NEW groups \in Nat \ {0}, NEW max \in Nat, v < max, max <= Capacity[groups]
      PROVE  Outcome(GetVarint(q, groups, max), v, b, t)
  <2>1. v < Capacity[groups]
    BY <1>3, CapacityDefined
  <2>2. Len(w) <= groups /\ groups \in Nat
    BY <2>1, <1>1
  <2>3. Outcome(GetVarint(q, groups, max), VarintValue[w] % max, b, t)
    BY <1>1, <1>2, <2>2, ReadsWord
  <2>4. v % max = v
    BY <1>3
  <2> QED
    BY <2>3, <2>4, <1>1
<1>4. ASSUME v < Max32 PROVE Outcome(GetVarint32(q), v, b, t)
  BY <1>3, <1>4, GroupsAssumption DEF GetVarint32
<1>5. ASSUME v < Max64 PROVE Outcome(GetVarint64(q), v, b, t)
  BY <1>3, <1>5, GroupsAssumption DEF GetVarint64
<1> QED
  BY <1>4, <1>5

\* get_length_prefixed_slice.
LEMMA ReadsSlice ==
    ASSUME NEW q, NEW t, NEW b, NEW s \in Seq(Bytes), Len(s) < Max32,
           Begins(q, t, PutLengthPrefixedSlice(s), b)
    PROVE  Outcome(GetLengthPrefixedSlice(q), s, b, t)
<1> DEFINE a == EncodeVarint(Len(s))
           size == GetVarint32(q)
           u == size.rest
<1>1. Len(s) \in Nat /\ a \in Seq(Bytes)
  BY EncodingsAreBytes, LenProperties
<1>2. Begins(q, t, a, s \o b) /\ b \in Seq(Bytes) /\ t \in Seq(Bytes)
  <2>1. Begins(q, t, a \o s, b)
    BY DEF PutLengthPrefixedSlice
  <2> HIDE DEF a
  <2>2. Begins(q, t, a, s \o b)
    BY <2>1, <1>1, BeginsFirst
  <2> QED
    BY <2>1, <2>2 DEF Begins
<1>3. Outcome(size, Len(s), s \o b, t)
  BY <1>1, <1>2, ReadsVarint
<1> HIDE DEF a, size
<1>4. \/ ~size.ok /\ t # <<>>
      \/ size = Success(Len(s), u) /\ Begins(u, t, s, b)
  BY <1>2, <1>3, BeginsSecond
<1>5. CASE ~size.ok /\ t # <<>>
  BY <1>5 DEF GetLengthPrefixedSlice, size, Outcome, Failure
<1>6. CASE size = Success(Len(s), u) /\ Begins(u, t, s, b)
  <2>1. size.ok /\ size.value = Len(s)
    BY <1>6 DEF Success
  <2>2. u \in Seq(Bytes) /\ Len(u) \in Nat
    BY <1>6, LenProperties DEF Begins
  <2>3. GetLengthPrefixedSlice(q)
          = IF Len(u) < Len(s) THEN Failure(q)
            ELSE Success(SubSeq(u, 1, Len(s)), SubSeq(u, Len(s) + 1, Len(u)))
    BY <2>1 DEF GetLengthPrefixedSlice, size
  <2> HIDE DEF u
  <2>4. EndsInside(u, t, s) \/ HasAll(u, t, s, b)
    BY <1>6, SplitBeginning
  <2>5. CASE EndsInside(u, t, s)
    <3>1. PICK d \in Seq(Bytes) : d # <<>> /\ s = u \o d /\ t # <<>>
      BY <2>5 DEF EndsInside
    <3>2. Len(u \o d) = Len(u) + Len(d) /\ Len(d) \in Nat \ {0}
      BY <3>1, <2>2, ConcatProperties, EmptySeq
    <3>3. Len(u) < Len(s)
      BY <3>1, <3>2, <2>2
    <3> QED
      BY <3>1, <3>3, <2>3 DEF Outcome, Failure
  <2>6. CASE HasAll(u, t, s, b)
    <3>1. PICK d \in Seq(Bytes) : u = s \o d /\ d \o t = b
      BY <2>6 DEF HasAll
    <3>2. Len(s \o d) = Len(s) + Len(d) /\ Len(d) \in Nat
      BY <3>1, ConcatProperties, LenProperties
    <3>3. ~(Len(u) < Len(s))
      BY <3>1, <3>2, <1>1
    <3>4. SubSeq(u, 1, Len(s)) = s /\ SubSeq(u, Len(s) + 1, Len(u)) = d
      BY <3>1, CutConcat
    <3>5. GetLengthPrefixedSlice(q) = Success(s, d)
      BY <3>3, <3>4, <2>3
    <3> QED
      BY <3>1, <3>5 DEF Outcome, Success
  <2> QED
    BY <2>4, <2>5, <2>6
<1> QED
  BY <1>4, <1>5, <1>6

\* get_level and get_internal_key.
LEMMA ReadsLevel ==
    ASSUME NEW q, NEW t, NEW b, NEW level \in 0..(NumLevels - 1),
           Begins(q, t, EncodeVarint(level), b)
    PROVE  Outcome(GetLevel(q), level, b, t)
<1>1. level \in Nat /\ level < Max32 /\ level < NumLevels
  BY LevelsAssumption, GroupsAssumption
<1>2. Outcome(GetVarint32(q), level, b, t)
  BY <1>1, ReadsVarint
<1> DEFINE v == GetVarint32(q)
<1>3. GetLevel(q) = IF v.ok /\ v.value < NumLevels THEN v ELSE Failure(q)
  BY DEF GetLevel
<1> HIDE DEF v
<1>4. CASE ~v.ok /\ t # <<>>
  BY <1>3, <1>4 DEF Outcome, Failure
<1>5. CASE v = Success(level, v.rest)
  <2>1. v.ok /\ v.value = level
    BY <1>5 DEF Success
  <2>2. GetLevel(q) = v
    BY <2>1, <1>1, <1>3
  <2> QED
    BY <2>2, <1>2 DEF v
<1> QED
  BY <1>2, <1>4, <1>5 DEF Outcome, v

\* get_internal_key.
LEMMA ReadsInternalKey ==
    ASSUME NEW q, NEW t, NEW b, NEW k \in Keys, Begins(q, t, PutLengthPrefixedSlice(k), b)
    PROVE  Outcome(GetInternalKey(q), k, b, t)
<1>1. k \in Seq(Bytes) /\ Len(k) < Max32 /\ k # <<>>
  BY KeysAssumption
<1>2. Outcome(GetLengthPrefixedSlice(q), k, b, t)
  BY <1>1, ReadsSlice
<1> DEFINE str == GetLengthPrefixedSlice(q)
<1>3. GetInternalKey(q) = IF str.ok /\ str.value # <<>> THEN str ELSE Failure(q)
  BY DEF GetInternalKey
<1> HIDE DEF str
<1>4. CASE ~str.ok /\ t # <<>>
  BY <1>3, <1>4 DEF Outcome, Failure
<1>5. CASE str = Success(k, str.rest)
  <2>1. str.ok /\ str.value = k
    BY <1>5 DEF Success
  <2>2. GetInternalKey(q) = str
    BY <2>1, <1>1, <1>3
  <2> QED
    BY <2>2, <1>2 DEF str
<1> QED
  BY <1>2, <1>4, <1>5 DEF Outcome, str

-----------------------------------------------------------------------------
(* Fields.                                                                 *)

\* The files and the edits that callers build.
Files == [level : Levels, number : Numbers, file_size : Numbers, smallest : Keys, largest : Keys]

Optional(S) == {None} \cup {<<x>> : x \in S}

Edits == [comparator : Optional(Names), log_number : Optional(Numbers),
          prev_log_number : Optional(Numbers), next_file_number : Optional(Numbers),
          last_sequence : Optional(Numbers), deleted_files : {{}}, new_files : Seq(Files)]

\* What PutFile writes behind the tag.
FileBody(f) ==
    EncodeVarint(f.level) \o (EncodeVarint(f.number) \o (EncodeVarint(f.file_size)
    \o (PutLengthPrefixedSlice(f.smallest) \o PutLengthPrefixedSlice(f.largest))))

\* The constants are bytes and numbers that fit.
LEMMA ArgumentsFit ==
    /\ \A n \in Numbers : n \in Nat /\ n < Max64
    /\ \A level \in Levels : level \in 0..(NumLevels - 1) /\ level \in Nat
    /\ \A name \in Names : name \in Seq(Bytes) /\ Len(name) < Max32
    /\ \A k \in Keys : k \in Seq(Bytes)
  BY NumbersAssumption, GroupsAssumption, LevelsAssumption, NamesAssumption, KeysAssumption

\* The parts of a file's bytes, and how they are put together.
LEMMA FileIsBytes ==
    ASSUME NEW f \in Files
    PROVE  /\ EncodeVarint(f.level) \in Seq(Bytes) /\ EncodeVarint(f.number) \in Seq(Bytes)
           /\ EncodeVarint(f.file_size) \in Seq(Bytes)
           /\ PutLengthPrefixedSlice(f.smallest) \in Seq(Bytes)
           /\ PutLengthPrefixedSlice(f.largest) \in Seq(Bytes)
           /\ FileBody(f) \in Seq(Bytes) /\ PutFile(f) \in Seq(Bytes)
           /\ PutFile(f) = EncodeVarint(kNewFile) \o FileBody(f)
<1> DEFINE S == Seq(Bytes)
           t == EncodeVarint(kNewFile)
           a == EncodeVarint(f.level)
           b == EncodeVarint(f.number)
           c == EncodeVarint(f.file_size)
           d == PutLengthPrefixedSlice(f.smallest)
           g == PutLengthPrefixedSlice(f.largest)
<1>1. /\ f.level \in Nat /\ f.number \in Nat /\ f.file_size \in Nat
      /\ f.smallest \in Seq(Bytes) /\ f.largest \in Seq(Bytes)
  BY ArgumentsFit DEF Files
<1>2. t \in S /\ a \in S /\ b \in S /\ c \in S /\ d \in S /\ g \in S
  BY <1>1, EncodingsAreBytes DEF kNewFile
<1>3. PutFile(f) = ((((t \o a) \o b) \o c) \o d) \o g /\ FileBody(f) = a \o (b \o (c \o (d \o g)))
  BY DEF PutFile, FileBody
<1> HIDE DEF t, a, b, c, d, g
<1>4. \A x, y \in S : x \o y \in S
  BY ConcatProperties
<1> HIDE DEF S
<1> DEFINE dg == d \o g
           cdg == c \o dg
           bcdg == b \o cdg
           ta == t \o a
           tab == ta \o b
           tabc == tab \o c
<1>6. dg \in S /\ ta \in S
  BY <1>2, <1>4
<1>7. cdg \in S /\ tab \in S
  <2> HIDE DEF dg, ta
  <2> QED
    BY <1>2, <1>4, <1>6
<1>8. bcdg \in S /\ tabc \in S
  <2> HIDE DEF cdg, tab
  <2> QED
    BY <1>2, <1>4, <1>7
<1>9. a \o bcdg \in S
  <2> HIDE DEF bcdg
  <2> QED
    BY <1>2, <1>4, <1>8
<1>10. (tabc \o d) \o g = tabc \o (d \o g)
  <2>1. tabc \in S /\ d \in S /\ g \in S
    BY <1>2, <1>8
  <2> HIDE DEF tabc
  <2> QED
    BY ONLY <2>1, ConcatAssociative DEF S
<1>11. (tab \o c) \o dg = tab \o (c \o dg)
  <2>1. tab \in S /\ c \in S /\ dg \in S
    BY <1>2, <1>6, <1>7
  <2> HIDE DEF tab, dg
  <2> QED
    BY ONLY <2>1, ConcatAssociative DEF S
<1>12. (ta \o b) \o cdg = ta \o (b \o cdg)
  <2>1. ta \in S /\ b \in S /\ cdg \in S
    BY <1>2, <1>6, <1>7
  <2> HIDE DEF ta, cdg
  <2> QED
    BY ONLY <2>1, ConcatAssociative DEF S
<1>13. (t \o a) \o bcdg = t \o (a \o bcdg)
  <2>1. t \in S /\ a \in S /\ bcdg \in S
    BY <1>2, <1>8
  <2> HIDE DEF bcdg
  <2> QED
    BY ONLY <2>1, ConcatAssociative DEF S
<1>14. PutFile(f) = t \o FileBody(f)
  BY <1>3, <1>10, <1>11, <1>12, <1>13, Zenon
<1>15. FileBody(f) \in S /\ t \o FileBody(f) \in S
  <2>1. FileBody(f) \in S
    BY <1>3, <1>9
  <2> QED
    BY <2>1, <1>2, <1>4
<1> QED
  BY <1>2, <1>14, <1>15 DEF S, t, a, b, c, d, g

\* GetFile reads back what PutFile wrote behind the tag.
LEMMA ReadsFile ==
    ASSUME NEW q, NEW t, NEW b, NEW f \in Files, NEW e, Begins(q, t, FileBody(f), b)
    PROVE  Outcome(GetFile(q, e), [e EXCEPT !.new_files = Append(@, f)], b, t)
<1> DEFINE w1 == EncodeVarint(f.level)
           w2 == EncodeVarint(f.number)
           w3 == EncodeVarint(f.file_size)
           w4 == PutLengthPrefixedSlice(f.smallest)
           w5 == PutLengthPrefixedSlice(f.largest)
           level    == GetLevel(q)
           number   == GetVarint64(level.rest)
           size     == GetVarint64(number.rest)
           smallest == GetInternalKey(size.rest)
           largest  == GetInternalKey(smallest.rest)
           file     == File(level.value, number.value, size.value, smallest.value, largest.value)
           Missing(r) == ~r.ok /\ t # <<>>
<1>1. /\ w1 \in Seq(Bytes) /\ w2 \in Seq(Bytes) /\ w3 \in Seq(Bytes)
      /\ w4 \in Seq(Bytes) /\ w5 \in Seq(Bytes)
  BY FileIsBytes
<1>2. /\ w4 \o w5 \in Seq(Bytes)
      /\ w3 \o (w4 \o w5) \in Seq(Bytes)
      /\ w2 \o (w3 \o (w4 \o w5)) \in Seq(Bytes)
  BY ONLY <1>1, ConcatProperties
<1>3. /\ f.level \in 0..(NumLevels - 1)
      /\ f.number \in Nat /\ f.number < Max64 /\ f.file_size \in Nat /\ f.file_size < Max64
      /\ f.smallest \in Keys /\ f.largest \in Keys
  BY ArgumentsFit DEF Files
<1>4. /\ GetFile(q, e) =
           IF level.ok /\ number.ok /\ size.ok /\ smallest.ok /\ largest.ok
             THEN Success([e EXCEPT !.new_files = Append(@, file)], largest.rest)
             ELSE Failure(q)
      /\ b \in Seq(Bytes)
  BY DEF GetFile, Begins
<1>5. Begins(q, t, w1 \o (w2 \o (w3 \o (w4 \o w5))), b)
  BY DEF FileBody
<1>6. ASSUME Missing(level) \/ Missing(number) \/ Missing(size)
             \/ Missing(smallest) \/ Missing(largest)
      PROVE  Outcome(GetFile(q, e), [e EXCEPT !.new_files = Append(@, f)], b, t)
  <2>1. GetFile(q, e) = Failure(q) /\ t # <<>>
    BY <1>4, <1>6
  <2> QED
    BY <2>1 DEF Outcome, Failure
<1>7. \/ Missing(level)
      \/ level = Success(f.level, level.rest) /\ Begins(level.rest, t, w2 \o (w3 \o (w4 \o w5)), b)
  <2>1. Begins(q, t, w1, (w2 \o (w3 \o (w4 \o w5))) \o b)
    BY <1>1, <1>2, <1>5, BeginsFirst
  <2>2. Outcome(level, f.level, (w2 \o (w3 \o (w4 \o w5))) \o b, t)
    BY <1>3, <2>1, ReadsLevel
  <2> HIDE DEF w1, w2, w3, w4, w5, level
  <2> QED
    BY <1>2, <1>4, <2>1, <2>2, BeginsSecond
<1>8. CASE Missing(level)
  BY <1>6, <1>8
<1>9. CASE /\ level = Success(f.level, level.rest)
           /\ Begins(level.rest, t, w2 \o (w3 \o (w4 \o w5)), b)
  <2>1. \/ Missing(number)
        \/ number = Success(f.number, number.rest) /\ Begins(number.rest, t, w3 \o (w4 \o w5), b)
    <3>1. Begins(level.rest, t, w2, (w3 \o (w4 \o w5)) \o b)
      BY <1>1, <1>2, <1>9, BeginsFirst
    <3>2. Outcome(number, f.number, (w3 \o (w4 \o w5)) \o b, t)
      BY <1>3, <3>1, ReadsVarint
    <3> HIDE DEF w1, w2, w3, w4, w5, level, number
    <3> QED
      BY <1>2, <1>4, <3>1, <3>2, BeginsSecond
  <2>2. CASE Missing(number)
    BY <1>6, <2>2
  <2>3. CASE number = Success(f.number, number.rest)
             /\ Begins(number.rest, t, w3 \o (w4 \o w5), b)
    <3>1. \/ Missing(size)
          \/ size = Success(f.file_size, size.rest) /\ Begins(size.rest, t, w4 \o w5, b)
      <4>1. Begins(number.rest, t, w3, (w4 \o w5) \o b)
        BY <1>1, <1>2, <2>3, BeginsFirst
      <4>2. Outcome(size, f.file_size, (w4 \o w5) \o b, t)
        BY <1>3, <4>1, ReadsVarint
      <4> HIDE DEF w1, w2, w3, w4, w5, number, size
      <4> QED
        BY <1>2, <1>4, <4>1, <4>2, BeginsSecond
    <3>2. CASE Missing(size)
      BY <1>6, <3>2
    <3>3. CASE size = Success(f.file_size, size.rest) /\ Begins(size.rest, t, w4 \o w5, b)
      <4>1. \/ Missing(smallest)
            \/ smallest = Success(f.smallest, smallest.rest) /\ Begins(smallest.rest, t, w5, b)
        <5>1. Begins(size.rest, t, w4, w5 \o b)
          BY <1>1, <3>3, BeginsFirst
        <5>2. Outcome(smallest, f.smallest, w5 \o b, t)
          BY <1>3, <5>1, ReadsInternalKey
        <5> HIDE DEF w1, w2, w3, w4, w5, size, smallest
        <5> QED
          BY <1>1, <1>4, <5>1, <5>2, BeginsSecond
      <4>2. CASE Missing(smallest)
        BY <1>6, <4>2
      <4>3. CASE smallest = Success(f.smallest, smallest.rest) /\ Begins(smallest.rest, t, w5, b)
        <5>1. Outcome(largest, f.largest, b, t)
          BY <1>3, <4>3, ReadsInternalKey
        <5>2. CASE Missing(largest)
          BY <1>6, <5>2
        <5>3. CASE /\ largest = Success(f.largest, largest.rest)
                   /\ largest.rest \in Seq(Bytes) /\ largest.rest \o t = b
          <6> HIDE DEF level, number, size, smallest, largest
          <6>1. /\ level.ok /\ number.ok /\ size.ok /\ smallest.ok /\ largest.ok
                /\ level.value = f.level /\ number.value = f.number /\ size.value = f.file_size
                /\ smallest.value = f.smallest /\ largest.value = f.largest
            BY <1>9, <2>3, <3>3, <4>3, <5>3 DEF Success
          <6>2. file = f
            <7>1. f = [level |-> f.level, number |-> f.number, file_size |-> f.file_size,
                       smallest |-> f.smallest, largest |-> f.largest]
              BY DEF Files
            <7> QED
              BY <6>1, <7>1, Zenon DEF File
          <6> HIDE DEF file
          <6>3. GetFile(q, e) = Success([e EXCEPT !.new_files = Append(@, f)], largest.rest)
            BY <1>4, <6>1, <6>2
          <6>4. GetFile(q, e).rest = largest.rest
            BY <6>3 DEF Success
          <6> QED
            BY <5>3, <6>3, <6>4 DEF Outcome
        <5> QED
          BY <5>1, <5>2, <5>3 DEF Outcome
      <4> QED
        BY <4>1, <4>2, <4>3
    <3> QED
      BY <3>1, <3>2, <3>3
  <2> QED
    BY <2>1, <2>2, <2>3
<1> QED
  BY <1>7, <1>8, <1>9

-----------------------------------------------------------------------------
(* The fields of an edit, in the order they are written.                   *)

FieldTag(k) == IF k <= 5 THEN <<kComparator, 2, 9, 3, 4>>[k] ELSE kNewFile

FieldCount(e) == 5 + Len(e.new_files)

IsSet(e, k) ==
    CASE k = 1 -> e.comparator # None
      [] k \in 2..5 -> e[NumberField[FieldTag(k)]] # None
      [] OTHER -> TRUE

Body(e, k) ==
    CASE k = 1 -> PutLengthPrefixedSlice(e.comparator[1])
      [] k \in 2..5 -> EncodeVarint(e[NumberField[FieldTag(k)]][1])
      [] OTHER -> FileBody(e.new_files[k - 5])

Field(e, k) == IF IsSet(e, k) THEN EncodeVarint(FieldTag(k)) \o Body(e, k) ELSE <<>>

\* The edit with its first k fields only.
EditOf(name, log, prev, next, last, files) ==
    [comparator |-> name, log_number |-> log, prev_log_number |-> prev,
     next_file_number |-> next, last_sequence |-> last,
     deleted_files |-> {}, new_files |-> files]

Part(e, k) ==
    EditOf(IF k >= 1 THEN e.comparator ELSE None,
           IF k >= 2 THEN e.log_number ELSE None,
           IF k >= 3 THEN e.prev_log_number ELSE None,
           IF k >= 4 THEN e.next_file_number ELSE None,
           IF k >= 5 THEN e.last_sequence ELSE None,
           SubSeq(e.new_files, 1, k - 5))

\* Setting one field.
SetField(e, field, x) == [e EXCEPT ![field] = x]

\* What setting a field does to an edit given by its fields.
LEMMA SettingFields ==
    ASSUME NEW c, NEW l, NEW p, NEW n, NEW s, NEW f, NEW x
    PROVE  /\ SetField(EditOf(c, l, p, n, s, f), "comparator", x) = EditOf(x, l, p, n, s, f)
           /\ SetField(EditOf(c, l, p, n, s, f), "log_number", x) = EditOf(c, x, p, n, s, f)
           /\ SetField(EditOf(c, l, p, n, s, f), "prev_log_number", x) = EditOf(c, l, x, n, s, f)
           /\ SetField(EditOf(c, l, p, n, s, f), "next_file_number", x) = EditOf(c, l, p, x, s, f)
           /\ SetField(EditOf(c, l, p, n, s, f), "last_sequence", x) = EditOf(c, l, p, n, x, f)
           /\ SetField(EditOf(c, l, p, n, s, f), "new_files", x) = EditOf(c, l, p, n, s, x)
<1> USE DEF SetField, EditOf
<1>1. SetField(EditOf(c, l, p, n, s, f), "comparator", x) = EditOf(x, l, p, n, s, f)
  OBVIOUS
<1>2. SetField(EditOf(c, l, p, n, s, f), "log_number", x) = EditOf(c, x, p, n, s, f)
  OBVIOUS
<1>3. SetField(EditOf(c, l, p, n, s, f), "prev_log_number", x) = EditOf(c, l, x, n, s, f)
  OBVIOUS
<1>4. SetField(EditOf(c, l, p, n, s, f), "next_file_number", x) = EditOf(c, l, p, x, s, f)
  OBVIOUS
<1>5. SetField(EditOf(c, l, p, n, s, f), "last_sequence", x) = EditOf(c, l, p, n, x, f)
  OBVIOUS
<1>6. SetField(EditOf(c, l, p, n, s, f), "new_files", x) = EditOf(c, l, p, n, s, x)
  OBVIOUS
<1> QED
  BY <1>1, <1>2, <1>3, <1>4, <1>5, <1>6

\* The first parts.
LEMMA FirstParts ==
    ASSUME NEW e
    PROVE  /\ Part(e, 0) = EditOf(None, None, None, None, None, <<>>)
           /\ Part(e, 1) = EditOf(e.comparator, None, None, None, None, <<>>)
           /\ Part(e, 2) = EditOf(e.comparator, e.log_number, None, None, None, <<>>)
           /\ Part(e, 3) = EditOf(e.comparator, e.log_number, e.prev_log_number, None, None, <<>>)
           /\ Part(e, 4) = EditOf(e.comparator, e.log_number, e.prev_log_number,
                                  e.next_file_number, None, <<>>)
           /\ Part(e, 5) = EditOf(e.comparator, e.log_number, e.prev_log_number,
                                  e.next_file_number, e.last_sequence, <<>>)
<1> DEFINE f(k) == SubSeq(e.new_files, 1, k - 5)
<1>1. f(0) = <<>> /\ f(1) = <<>> /\ f(2) = <<>> /\ f(3) = <<>> /\ f(4) = <<>> /\ f(5) = <<>>
  BY SubSeqEmpty
<1>2. \A k : Part(e, k) = EditOf(IF k >= 1 THEN e.comparator ELSE None,
                                 IF k >= 2 THEN e.log_number ELSE None,
                                 IF k >= 3 THEN e.prev_log_number ELSE None,
                                 IF k >= 4 THEN e.next_file_number ELSE None,
                                 IF k >= 5 THEN e.last_sequence ELSE None, f(k))
  BY DEF Part
<1> HIDE DEF f
<1> QED
  BY <1>1, <1>2

\* The names of the fields.
LEMMA FieldNames ==
    /\ FieldTag(1) = 1 /\ FieldTag(2) = 2 /\ FieldTag(3) = 9
    /\ FieldTag(4) = 3 /\ FieldTag(5) = 4
    /\ DOMAIN NumberField = {2, 3, 4, 9}
    /\ NumberField[2] = "log_number" /\ NumberField[9] = "prev_log_number"
    /\ NumberField[3] = "next_file_number" /\ NumberField[4] = "last_sequence"
  BY DEF FieldTag, NumberField, kComparator

\* What is set is one of the values callers pass.
LEMMA SetFields ==
    ASSUME NEW e \in Edits
    PROVE  /\ e.comparator # None => \E name \in Names : e.comparator = <<name>>
           /\ \A tag \in {2, 3, 4, 9} :
                e[NumberField[tag]] # None => \E n \in Numbers : e[NumberField[tag]] = <<n>>
           /\ Len(e.new_files) \in Nat
           /\ \A i \in 1..Len(e.new_files) : e.new_files[i] \in Files
<1>1. \A S : \A x \in Optional(S) : x # None => \E y \in S : x = <<y>>
  BY DEF Optional
<1>2. /\ e.comparator \in Optional(Names)
      /\ e.log_number \in Optional(Numbers) /\ e.prev_log_number \in Optional(Numbers)
      /\ e.next_file_number \in Optional(Numbers) /\ e.last_sequence \in Optional(Numbers)
      /\ e.new_files \in Seq(Files)
  BY DEF Edits
<1>3. \A tag \in {2, 3, 4, 9} : e[NumberField[tag]] \in Optional(Numbers)
  BY <1>2, FieldNames
<1>4. Len(e.new_files) \in Nat /\ \A i \in 1..Len(e.new_files) : e.new_files[i] \in Files
  BY <1>2, LenProperties, ElementOfSeq
<1> QED
  BY <1>1, <1>2, <1>3, <1>4

\* GetField reads back a name, a number and a file.
LEMMA ReadsName ==
    ASSUME NEW q, NEW t, NEW b, NEW e, NEW name \in Names,
           Begins(q, t, PutLengthPrefixedSlice(name), b)
    PROVE  Outcome(GetField(kComparator, q, e), SetField(e, "comparator", <<name>>), b, t)
<1> DEFINE str == GetLengthPrefixedSlice(q)
           g == GetField(kComparator, q, e)
           filled == SetField(e, "comparator", <<name>>)
<1>1. Outcome(str, name, b, t)
  BY ArgumentsFit, ReadsSlice
<1>2. g = IF str.ok THEN Success([e EXCEPT !.comparator = <<str.value>>], str.rest) ELSE str
  <2>1. kComparator \notin DOMAIN NumberField /\ kComparator # kCompactPointer
        /\ kComparator # kNewFile
    BY FieldNames DEF kComparator, kCompactPointer, kNewFile
  <2> QED
    BY <2>1 DEF GetField
<1>3. SUFFICES Outcome(g, filled, b, t)
  OBVIOUS
<1> HIDE DEF str, g, filled
<1>4. CASE ~str.ok /\ t # <<>>
  <2>1. g = str
    BY <1>2, <1>4
  <2> QED
    BY <2>1, <1>4 DEF Outcome
<1>5. CASE str = Success(name, str.rest) /\ str.rest \in Seq(Bytes) /\ str.rest \o t = b
  <2>1. str.ok /\ str.value = name
    BY <1>5 DEF Success
  <2>2. g = Success(filled, str.rest)
    BY <1>2, <2>1 DEF filled, SetField
  <2>3. g.rest = str.rest
    BY <2>2 DEF Success
  <2> QED
    BY <1>5, <2>2, <2>3 DEF Outcome
<1> QED
  BY <1>1, <1>4, <1>5 DEF Outcome

LEMMA ReadsNumber ==
    ASSUME NEW q, NEW t, NEW b, NEW e, NEW tag \in {2, 3, 4, 9}, NEW n \in Numbers,
           Begins(q, t, EncodeVarint(n), b)
    PROVE  Outcome(GetField(tag, q, e), SetField(e, NumberField[tag], <<n>>), b, t)
<1> DEFINE v == GetVarint64(q)
           g == GetField(tag, q, e)
           filled == SetField(e, NumberField[tag], <<n>>)
<1>1. Outcome(v, n, b, t)
  BY ArgumentsFit, ReadsVarint
<1>2. g = IF v.ok THEN Success([e EXCEPT ![NumberField[tag]] = <<v.value>>], v.rest) ELSE v
  <2>1. tag # kComparator /\ tag \in DOMAIN NumberField
    BY FieldNames DEF kComparator
  <2>2. tag # kCompactPointer /\ tag # kNewFile
    BY DEF kCompactPointer, kNewFile
  <2> QED
    BY <2>1, <2>2 DEF GetField
<1>3. SUFFICES Outcome(g, filled, b, t)
  OBVIOUS
<1> HIDE DEF v, g, filled
<1>4. CASE ~v.ok /\ t # <<>>
  <2>1. g = v
    BY <1>2, <1>4
  <2> QED
    BY <2>1, <1>4 DEF Outcome
<1>5. CASE v = Success(n, v.rest) /\ v.rest \in Seq(Bytes) /\ v.rest \o t = b
  <2>1. v.ok /\ v.value = n
    BY <1>5 DEF Success
  <2>2. g = Success(filled, v.rest)
    BY <1>2, <2>1 DEF filled, SetField
  <2>3. g.rest = v.rest
    BY <2>2 DEF Success
  <2> QED
    BY <1>5, <2>2, <2>3 DEF Outcome
<1> QED
  BY <1>1, <1>4, <1>5 DEF Outcome

LEMMA ReadsNewFile ==
    ASSUME NEW q, NEW t, NEW b, NEW e, NEW f \in Files, Begins(q, t, FileBody(f), b)
    PROVE  Outcome(GetField(kNewFile, q, e), SetField(e, "new_files", Append(e.new_files, f)), b, t)
<1>1. GetField(kNewFile, q, e) = GetFile(q, e)
  <2>1. kNewFile = 7 /\ kComparator = 1 /\ kCompactPointer = 5 /\ 7 \notin DOMAIN NumberField
    BY FieldNames DEF kNewFile, kComparator, kCompactPointer
  <2> QED
    BY <2>1 DEF GetField
<1> QED
  BY <1>1, ReadsFile DEF SetField

\* The edit with one field more.
LEMMA NextPart ==
    ASSUME NEW e \in Edits, NEW k \in 1..FieldCount(e)
    PROVE  /\ k = 1 => Part(e, k) = SetField(Part(e, k - 1), "comparator", e.comparator)
           /\ k \in 2..5 => LET f == NumberField[FieldTag(k)] IN
                              Part(e, k) = SetField(Part(e, k - 1), f, e[f])
           /\ k > 5 => Part(e, k) = SetField(Part(e, k - 1), "new_files",
                              Append(Part(e, k - 1).new_files, e.new_files[k - 5]))
<1> DEFINE files == e.new_files
<1>1. files \in Seq(Files) /\ Len(files) \in Nat /\ k \in Nat
  BY LenProperties DEF Edits, FieldCount
<1>2. /\ Part(e, 1) = SetField(Part(e, 0), "comparator", e.comparator)
      /\ Part(e, 2) = SetField(Part(e, 1), "log_number", e.log_number)
      /\ Part(e, 3) = SetField(Part(e, 2), "prev_log_number", e.prev_log_number)
      /\ Part(e, 4) = SetField(Part(e, 3), "next_file_number", e.next_file_number)
      /\ Part(e, 5) = SetField(Part(e, 4), "last_sequence", e.last_sequence)
  BY FirstParts, SettingFields
<1>3. CASE k = 1
  <2>1. k - 1 = 0
    BY <1>3
  <2> QED
    BY <2>1, <1>2, <1>3
<1>4. CASE k \in 2..5
  <2> DEFINE f == NumberField[FieldTag(k)]
  <2>1. SUFFICES Part(e, k) = SetField(Part(e, k - 1), f, e[f])
    BY <1>4
  <2>2. CASE k = 2
    <3>1. k - 1 = 1 /\ f = "log_number"
      BY <2>2, FieldNames
    <3> QED
      BY <3>1, <1>2, <2>2
  <2>3. CASE k = 3
    <3>1. k - 1 = 2 /\ f = "prev_log_number"
      BY <2>3, FieldNames
    <3> QED
      BY <3>1, <1>2, <2>3
  <2>4. CASE k = 4
    <3>1. k - 1 = 3 /\ f = "next_file_number"
      BY <2>4, FieldNames
    <3> QED
      BY <3>1, <1>2, <2>4
  <2>5. CASE k = 5
    <3>1. k - 1 = 4 /\ f = "last_sequence"
      BY <2>5, FieldNames
    <3> QED
      BY <3>1, <1>2, <2>5
  <2> QED
    BY <1>4, <2>2, <2>3, <2>4, <2>5
<1>5. CASE k > 5
  <2>1. SubSeq(files, 1, k - 5) = Append(SubSeq(files, 1, k - 6), files[k - 5])
    <3>1. 1 \in 1..Len(files) /\ k - 5 \in 1..Len(files)
      BY <1>1, <1>5 DEF FieldCount
    <3>2. SubSeq(files, 1, k - 5) = SubSeq(files, 1, k - 5 - 1) \o <<files[k - 5]>>
      BY <1>1, <3>1, SubSeqRecursiveSecond
    <3>3. k - 5 - 1 = k - 6 /\ k - 6 \in Int
      BY <1>1
    <3>4. SubSeq(files, 1, k - 6) \in Seq(Files) /\ files[k - 5] \in Files
      <4>1. \A i \in 1..(k - 6) : files[i] \in Files
        BY <1>1, <3>1, ElementOfSeq
      <4> QED
        BY <1>1, <3>1, <3>3, <4>1, ElementOfSeq, SubSeqProperties
    <3> QED
      BY <3>2, <3>3, <3>4, AppendIsConcat
  <2>2. k - 1 - 5 = k - 6 /\ k - 1 >= 5
    BY <1>1, <1>5
  <2> DEFINE fs == SubSeq(files, 1, k - 6)
             x == files[k - 5]
             numbers(g) == EditOf(e.comparator, e.log_number, e.prev_log_number,
                                  e.next_file_number, e.last_sequence, g)
  <2>3. Part(e, k) = numbers(SubSeq(files, 1, k - 5))
    BY <1>1, <1>5 DEF Part
  <2>4. Part(e, k - 1) = numbers(SubSeq(files, 1, k - 1 - 5))
    BY <2>2, <1>1 DEF Part
  <2>5. Part(e, k) = numbers(Append(fs, x)) /\ Part(e, k - 1) = numbers(fs)
    BY <2>1, <2>2, <2>3, <2>4
  <2> HIDE DEF fs, x
  <2>6. Part(e, k - 1).new_files = fs
    BY <2>5 DEF EditOf
  <2>7. Part(e, k) = SetField(Part(e, k - 1), "new_files", Append(fs, x))
    BY <2>5, SettingFields
  <2> QED
    BY <2>6, <2>7, <1>1, <1>5 DEF x
<1> QED
  BY <1>1, <1>3, <1>4, <1>5

\* A field that is set is written with its tag; one that is not adds nothing.
LEMMA FieldIsBytes ==
    ASSUME NEW e \in Edits, NEW k \in 1..FieldCount(e)
    PROVE  /\ FieldTag(k) \in Nat /\ FieldTag(k) < Max32
           /\ Field(e, k) \in Seq(Bytes)
           /\ IsSet(e, k) => /\ Body(e, k) \in Seq(Bytes)
                             /\ Field(e, k) = EncodeVarint(FieldTag(k)) \o Body(e, k)
                             /\ Field(e, k) # <<>>
           /\ ~IsSet(e, k) => Field(e, k) = <<>> /\ Part(e, k) = Part(e, k - 1)
<1>1. k \in Nat /\ Len(e.new_files) \in Nat
  BY SetFields DEF FieldCount
<1>2. k = 1 \/ k = 2 \/ k = 3 \/ k = 4 \/ k = 5 \/ k > 5
  BY <1>1
<1>3. FieldTag(k) \in Nat /\ FieldTag(k) < 10 /\ (k \in 2..5 => FieldTag(k) \in {2, 3, 4, 9})
  BY <1>1, <1>2, FieldNames DEF FieldTag, kNewFile
<1>4. ASSUME IsSet(e, k)
      PROVE  Body(e, k) \in Seq(Bytes)
  <2>1. CASE k = 1
    <3>1. PICK name \in Names : e.comparator = <<name>>
      BY <1>4, <2>1, SetFields DEF IsSet
    <3>2. Body(e, k) = PutLengthPrefixedSlice(name)
      BY <3>1, <2>1 DEF Body
    <3> QED
      BY <3>2, ArgumentsFit, EncodingsAreBytes
  <2>2. CASE k \in 2..5
    <3> DEFINE field == e[NumberField[FieldTag(k)]]
    <3>1. field # None
      BY <1>4, <2>2 DEF IsSet
    <3>2. PICK n \in Numbers : field = <<n>>
      BY <3>1, <2>2, <1>3, SetFields
    <3>3. Body(e, k) = EncodeVarint(field[1])
      BY <2>2 DEF Body
    <3> HIDE DEF field
    <3>4. Body(e, k) = EncodeVarint(n)
      BY <3>2, <3>3
    <3> QED
      BY <3>4, ArgumentsFit, EncodingsAreBytes
  <2>3. CASE k > 5
    <3>1. k - 5 \in 1..Len(e.new_files)
      BY <2>3, <1>1 DEF FieldCount
    <3>2. e.new_files[k - 5] \in Files
      BY <3>1, SetFields
    <3>3. Body(e, k) = FileBody(e.new_files[k - 5])
      BY <2>3, <1>1 DEF Body
    <3> QED
      BY <3>2, <3>3, FileIsBytes
  <2> QED
    BY <1>2, <2>1, <2>2, <2>3
<1>5. EncodeVarint(FieldTag(k)) \in Seq(Bytes) /\ EncodeVarint(FieldTag(k)) # <<>>
  BY <1>3, EncodingsAreBytes
<1>6. ASSUME IsSet(e, k)
      PROVE  /\ Field(e, k) = EncodeVarint(FieldTag(k)) \o Body(e, k)
             /\ Field(e, k) \in Seq(Bytes) /\ Field(e, k) # <<>>
  <2> DEFINE w == EncodeVarint(FieldTag(k))
             b == Body(e, k)
  <2>1. w \in Seq(Bytes) /\ w # <<>> /\ b \in Seq(Bytes) /\ Field(e, k) = w \o b
    BY <1>4, <1>5, <1>6 DEF Field
  <2> HIDE DEF w, b
  <2>2. w \o b \in Seq(Bytes) /\ w \o b # <<>>
    BY <2>1, ConcatProperties, ConcatEqualIffEmpty
  <2> QED
    BY <2>1, <2>2 DEF w, b
<1>7. ASSUME ~IsSet(e, k)
      PROVE  Field(e, k) = <<>> /\ Part(e, k) = Part(e, k - 1)
  <2>1. Field(e, k) = <<>>
    BY <1>7 DEF Field
  <2>2. CASE k = 1
    <3>1. e.comparator = None
      BY <1>7, <2>2 DEF IsSet
    <3>2. Part(e, 1) = Part(e, 0)
      BY <3>1, FirstParts
    <3>3. k - 1 = 0
      BY <2>2
    <3> QED
      BY <2>1, <2>2, <3>2, <3>3
  <2>3. CASE k = 2
    <3>1. e.log_number = None
      BY <1>7, <2>3, FieldNames DEF IsSet
    <3>2. Part(e, 2) = Part(e, 1)
      BY <3>1, FirstParts
    <3>3. k - 1 = 1
      BY <2>3
    <3> QED
      BY <2>1, <2>3, <3>2, <3>3
  <2>4. CASE k = 3
    <3>1. e.prev_log_number = None
      BY <1>7, <2>4, FieldNames DEF IsSet
    <3>2. Part(e, 3) = Part(e, 2)
      BY <3>1, FirstParts
    <3>3. k - 1 = 2
      BY <2>4
    <3> QED
      BY <2>1, <2>4, <3>2, <3>3
  <2>5. CASE k = 4
    <3>1. e.next_file_number = None
      BY <1>7, <2>5, FieldNames DEF IsSet
    <3>2. Part(e, 4) = Part(e, 3)
      BY <3>1, FirstParts
    <3>3. k - 1 = 3
      BY <2>5
    <3> QED
      BY <2>1, <2>5, <3>2, <3>3
  <2>6. CASE k = 5
    <3>1. e.last_sequence = None
      BY <1>7, <2>6, FieldNames DEF IsSet
    <3>2. Part(e, 5) = Part(e, 4)
      BY <3>1, FirstParts
    <3>3. k - 1 = 4
      BY <2>6
    <3> QED
      BY <2>1, <2>6, <3>2, <3>3
  <2>7. CASE k > 5
    BY <1>1, <1>7, <2>7 DEF IsSet
  <2> QED
    BY <1>2, <2>2, <2>3, <2>4, <2>5, <2>6, <2>7
<1>8. Field(e, k) \in Seq(Bytes)
  BY <1>6, <1>7, EmptySeq
<1> QED
  BY <1>3, <1>4, <1>6, <1>7, <1>8, TagsAssumption, GroupsAssumption

\* One pass of decode_from's loop reads back one field.
LEMMA ReadsField ==
    ASSUME NEW e \in Edits, NEW k \in 1..FieldCount(e), IsSet(e, k),
           NEW q, NEW t, NEW b, Begins(q, t, Field(e, k), b)
    PROVE  LET tag == GetVarint32(q)
               field == GetField(tag.value, tag.rest, Part(e, k - 1))
           IN  \/ ~tag.ok /\ t # <<>>
               \/ tag.ok /\ Outcome(field, Part(e, k), b, t)
<1> DEFINE tag == GetVarint32(q)
           rest == tag.rest
           w == EncodeVarint(FieldTag(k))
           body == Body(e, k)
           part == Part(e, k - 1)
           field == GetField(FieldTag(k), rest, part)
<1>1. /\ FieldTag(k) \in Nat /\ FieldTag(k) < Max32
      /\ w \in Seq(Bytes) /\ body \in Seq(Bytes) /\ Field(e, k) = w \o body
  BY FieldIsBytes, EncodingsAreBytes
<1>2. b \in Seq(Bytes)
  BY DEF Begins
<1>3. Begins(q, t, w, body \o b)
  <2>1. Begins(q, t, w \o body, b)
    BY <1>1
  <2> HIDE DEF w, body
  <2> QED
    BY <1>1, <2>1, BeginsFirst
<1>4. Outcome(tag, FieldTag(k), body \o b, t)
  BY <1>1, <1>3, ReadsVarint
<1>5. \/ ~tag.ok /\ t # <<>>
      \/ tag = Success(FieldTag(k), rest) /\ Begins(rest, t, body, b)
  <2> HIDE DEF tag, w, body
  <2> QED
    BY <1>1, <1>2, <1>3, <1>4, BeginsSecond
<1>6. CASE ~tag.ok /\ t # <<>>
  BY <1>6
<1>7. CASE tag = Success(FieldTag(k), rest) /\ Begins(rest, t, body, b)
  <2>1. tag.ok /\ tag.value = FieldTag(k)
    BY <1>7 DEF Success
  <2>2. k \in Nat /\ Len(e.new_files) \in Nat
    BY SetFields DEF FieldCount
  <2>3. Outcome(field, Part(e, k), b, t)
    <3>1. CASE k = 1
      <4>1. PICK name \in Names : e.comparator = <<name>>
        BY <3>1, SetFields DEF IsSet
      <4>2. body = PutLengthPrefixedSlice(name) /\ FieldTag(k) = kComparator
        BY <3>1, <4>1, FieldNames DEF Body, kComparator
      <4>3. Begins(rest, t, PutLengthPrefixedSlice(name), b)
        BY <1>7, <4>2
      <4>4. Outcome(GetField(kComparator, rest, part), SetField(part, "comparator", <<name>>), b, t)
        BY <4>3, ReadsName
      <4>5. Part(e, k) = SetField(part, "comparator", <<name>>)
        BY <3>1, <4>1, NextPart
      <4> QED
        BY <4>2, <4>4, <4>5
    <3>2. CASE k \in 2..5
      <4> DEFINE f == NumberField[FieldTag(k)]
      <4>1. FieldTag(k) \in {2, 3, 4, 9}
        BY <3>2, FieldNames
      <4>2. e[f] # None
        BY <3>2 DEF IsSet
      <4>3. PICK n \in Numbers : e[f] = <<n>>
        BY <4>1, <4>2, SetFields
      <4>4. body = EncodeVarint(e[f][1])
        BY <3>2 DEF Body
      <4>5. Part(e, k) = SetField(part, f, e[f])
        BY <3>2, NextPart
      <4> HIDE DEF body
      <4>6. Begins(rest, t, EncodeVarint(n), b)
        <5>1. e[f][1] = n
          BY <4>3
        <5> QED
          BY <1>7, <4>4, <5>1
      <4>7. Outcome(field, SetField(part, f, <<n>>), b, t)
        BY <4>1, <4>6, ReadsNumber
      <4> QED
        BY <4>3, <4>5, <4>7
    <3>3. CASE k > 5
      <4> DEFINE f == e.new_files[k - 5]
      <4>1. f \in Files
        <5>1. k - 5 \in 1..Len(e.new_files)
          BY <2>2, <3>3 DEF FieldCount
        <5> QED
          BY <5>1, SetFields
      <4>2. body = FileBody(f) /\ FieldTag(k) = kNewFile
        BY <2>2, <3>3 DEF Body, FieldTag
      <4>3. Part(e, k) = SetField(part, "new_files", Append(part.new_files, f))
        BY <3>3, NextPart
      <4> HIDE DEF f, body
      <4>4. Begins(rest, t, FileBody(f), b)
        BY <1>7, <4>2
      <4>5. Outcome(GetField(kNewFile, rest, part),
                    SetField(part, "new_files", Append(part.new_files, f)), b, t)
        BY <4>1, <4>4, ReadsNewFile
      <4> QED
        BY <4>2, <4>3, <4>5
    <3> QED
      BY <2>2, <3>1, <3>2, <3>3
  <2> QED
    BY <2>1, <2>3
<1> QED
  BY <1>5, <1>6, <1>7

-----------------------------------------------------------------------------
(* The encoding grows field by field.                                      *)

\* FlattenSeq is defined by a recursion along its argument.
Flattening(f, seqs) ==
    /\ f \in [1..Len(seqs) -> Seq(Bytes)]
    /\ \A i \in 1..Len(seqs) : f[i] = IF i = 1 THEN seqs[i] ELSE f[i - 1] \o seqs[i]

\* So its value is that of a function of this kind.
LEMMA FlattenDefined ==
    ASSUME NEW seqs \in Seq(Seq(Bytes)), Len(seqs) > 0
    PROVE  \E f : Flattening(f, seqs) /\ FlattenSeq(seqs) = f[Len(seqs)]
<1> DEFINE D == 1..Len(seqs)
           V == Seq(Bytes)
           rank == [i \in D |-> i - 1]
           down == [i \in D |-> IF i = 1 THEN 1 ELSE i - 1]
           base == [i \in D |-> seqs[i]]
           next == [p \in D \X V |-> p[2] \o seqs[p[1]]]
           E(g) == [i \in D |-> IF i = 1 THEN seqs[i] ELSE g[i - 1] \o seqs[i]]
<1>1. Len(seqs) \in Nat /\ \A i \in D : seqs[i] \in V
  BY ElementOfSeq, LenProperties
<1>2. RecursionArgs(D, V, rank, down, base, next)
  <2>1. rank \in [D -> Nat] /\ down \in [D -> D] /\ base \in [D -> V]
    BY <1>1
  <2>2. \A i \in D, v \in V : v \o seqs[i] \in V
    BY <1>1, ConcatProperties
  <2>3. next \in [D \X V -> V]
    <3> HIDE DEF V, D
    <3> QED
      BY <2>2
  <2>4. \A i \in D : rank[i] > 0 => rank[down[i]] < rank[i]
    BY <1>1
  <2> HIDE DEF rank, down, base, next, D, V
  <2> QED
    BY <2>1, <2>3, <2>4 DEF RecursionArgs
<1>3. PICK f : Recursive(f, D, V, rank, down, base, next)
  <2> HIDE DEF rank, down, base, next, D, V
  <2> QED
    BY <1>2, Recursion
<1>4. f \in [D -> V]
  BY <1>3 DEF Recursive
<1>5. \A i \in D : f[i] = IF i = 1 THEN seqs[i] ELSE f[i - 1] \o seqs[i]
  <2>1. SUFFICES ASSUME NEW i \in D
                 PROVE  f[i] = IF i = 1 THEN seqs[i] ELSE f[i - 1] \o seqs[i]
    OBVIOUS
  <2>2. CASE i = 1
    <3>1. rank[i] = 0 /\ base[i] = seqs[i]
      BY <2>2, <1>1
    <3> HIDE DEF rank, base
    <3> QED
      BY <2>2, <3>1, <1>3 DEF Recursive
  <2>3. CASE i # 1
    <3>1. rank[i] # 0 /\ down[i] = i - 1 /\ i - 1 \in D
      BY <2>3, <1>1
    <3>2. f[i] = next[<<i, f[i - 1]>>] /\ f[i - 1] \in V
      BY <3>1, <1>3, <1>4 DEF Recursive
    <3>3. next[<<i, f[i - 1]>>] = f[i - 1] \o seqs[i]
      BY <3>2
    <3> QED
      BY <3>2, <3>3, <2>3
  <2> QED
    BY <2>2, <2>3
<1>6. f = E(f)
  BY <1>4, <1>5, Zenon
<1> DEFINE g == CHOOSE h : h = E(h)
<1>7. g = E(g)
  <2> HIDE DEF E
  <2> QED
    BY <1>6
<1>8. FlattenSeq(seqs) = g[Len(seqs)]
  BY <1>1 DEF FlattenSeq
<1> HIDE DEF g
<1>9. \A i \in D : g[i] = IF i = 1 THEN seqs[i] ELSE g[i - 1] \o seqs[i]
  BY <1>7, Zenon
<1>10. \A i \in D : g[i] \in V
  <2> DEFINE Bad == {i \in D : g[i] \notin V}
  <2>1. SUFFICES ASSUME Bad # {} PROVE FALSE
    OBVIOUS
  <2>2. Bad \in SUBSET Nat
    OBVIOUS
  <2>3. PICK i \in Bad : \A j \in Bad : i <= j
    BY <2>1, <2>2, LeastNumber
  <2>4. i # 1
    BY <2>3, <1>1, <1>9
  <2>5. i - 1 \in D /\ i - 1 \notin Bad
    BY <2>3, <2>4
  <2>6. g[i - 1] \in V /\ g[i] = g[i - 1] \o seqs[i] /\ seqs[i] \in V
    BY <2>3, <2>4, <2>5, <1>1, <1>9
  <2> QED
    BY <2>3, <2>6, ConcatProperties
<1>11. g \in [D -> V]
  BY <1>7, <1>10, Zenon
<1> QED
  BY <1>8, <1>9, <1>11 DEF Flattening

\* One sequence more.
LEMMA FlattenAppend ==
    ASSUME NEW seqs \in Seq(Seq(Bytes)), NEW x \in Seq(Bytes)
    PROVE  /\ FlattenSeq(<<>>) = <<>>
           /\ FlattenSeq(seqs) \in Seq(Bytes)
           /\ FlattenSeq(Append(seqs, x)) = FlattenSeq(seqs) \o x
<1> DEFINE more == Append(seqs, x)
           n == Len(seqs)
<1>1. FlattenSeq(<<>>) = <<>>
  BY DEF FlattenSeq
<1>2. /\ more \in Seq(Seq(Bytes)) /\ Len(more) = n + 1 /\ n \in Nat
      /\ \A i \in 1..n : more[i] = seqs[i]
      /\ more[n + 1] = x
  BY AppendProperties, LenProperties
<1> HIDE DEF more
<1>3. PICK g : Flattening(g, more) /\ FlattenSeq(more) = g[n + 1]
  <2>1. Len(more) > 0
    BY <1>2
  <2>2. PICK g : Flattening(g, more) /\ FlattenSeq(more) = g[Len(more)]
    BY <1>2, <2>1, FlattenDefined
  <2> QED
    BY <2>2, <1>2
<1>4. CASE n = 0
  <2>1. seqs = <<>>
    BY <1>4, EmptySeq
  <2>2. g[1] = more[1]
    BY <1>2, <1>3, <1>4 DEF Flattening
  <2>3. FlattenSeq(more) = x /\ FlattenSeq(seqs) = <<>>
    BY <1>1, <1>2, <1>3, <1>4, <2>1, <2>2
  <2>4. <<>> \o x = x /\ <<>> \in Seq(Bytes)
    BY ConcatEmptySeq, EmptySeq
  <2> QED
    BY <2>3, <2>4, <1>1 DEF more
<1>5. CASE n # 0
  <2>1. PICK f : Flattening(f, seqs) /\ FlattenSeq(seqs) = f[n]
    <3>1. Len(seqs) > 0
      BY <1>2, <1>5
    <3> QED
      BY <3>1, FlattenDefined
  <2>2. \A i \in 1..n : f[i] = g[i]
    <3> DEFINE Bad == {i \in 1..n : f[i] # g[i]}
    <3>1. SUFFICES ASSUME Bad # {} PROVE FALSE
      OBVIOUS
    <3>2. Bad \in SUBSET Nat
      OBVIOUS
    <3>3. PICK i \in Bad : \A j \in Bad : i <= j
      BY <3>1, <3>2, LeastNumber
    <3>4. i \in 1..n /\ f[i] # g[i] /\ i \in 1..(n + 1) /\ seqs[i] = more[i]
      BY <3>3, <1>2
    <3>5. /\ f[i] = IF i = 1 THEN seqs[i] ELSE f[i - 1] \o seqs[i]
          /\ g[i] = IF i = 1 THEN more[i] ELSE g[i - 1] \o more[i]
      BY <3>4, <2>1, <1>2, <1>3 DEF Flattening
    <3>6. CASE i = 1
      BY <3>4, <3>5, <3>6
    <3>7. CASE i # 1
      <4>1. i - 1 \in 1..n /\ i - 1 \notin Bad
        BY <3>3, <3>4, <3>7, <1>2
      <4>2. f[i - 1] = g[i - 1]
        BY <4>1
      <4> QED
        BY <3>4, <3>5, <3>7, <4>2
    <3> QED
      BY <3>6, <3>7
  <2>3. g[n + 1] = g[n] \o x
    <3>1. n + 1 \in 1..Len(more) /\ n + 1 # 1 /\ n + 1 - 1 = n
      BY <1>2, <1>5
    <3>2. \A i \in 1..Len(more) : g[i] = IF i = 1 THEN more[i] ELSE g[i - 1] \o more[i]
      BY <1>3, Zenon DEF Flattening
    <3> DEFINE m == n + 1
    <3> HIDE DEF m
    <3>3. m \in 1..Len(more) /\ m # 1 /\ m - 1 = n /\ more[m] = x
      BY <3>1, <1>2 DEF m
    <3>4. g[m] = g[m - 1] \o more[m]
      BY <3>2, <3>3, Zenon
    <3>5. g[m] = g[n] \o x
      BY <3>3, <3>4, Zenon
    <3> QED
      BY <3>5 DEF m
  <2>4. n \in 1..n /\ f[n] = g[n] /\ f[n] \in Seq(Bytes)
    <3>1. n \in 1..n
      BY <1>2, <1>5
    <3> QED
      BY <3>1, <2>1, <2>2 DEF Flattening
  <2>5. FlattenSeq(more) = FlattenSeq(seqs) \o x
    BY <1>3, <2>1, <2>3, <2>4
  <2> QED
    BY <1>1, <2>1, <2>4, <2>5 DEF more
<1> QED
  BY <1>4, <1>5

-----------------------------------------------------------------------------
(* What encode_to writes, field by field.                                  *)

NameBytes(x) ==
    IF x = None THEN <<>> ELSE EncodeVarint(kComparator) \o PutLengthPrefixedSlice(x[1])
NumberBytes(tag, x) ==
    IF x = None THEN <<>> ELSE EncodeVarint(tag) \o EncodeVarint(x[1])
FilesBytes(files) == [i \in DOMAIN files |-> PutFile(files[i])]

\* encode_to's bytes are those of the fields, one after the other.
LEMMA EncodingOfEdit ==
    ASSUME NEW c, NEW l, NEW p, NEW n, NEW s, NEW files
    PROVE  Encoding(EditOf(c, l, p, n, s, files))
             = NameBytes(c) \o NumberBytes(2, l) \o NumberBytes(9, p) \o NumberBytes(3, n)
               \o NumberBytes(4, s) \o FlattenSeq(FilesBytes(files))
<1> DEFINE e == EditOf(c, l, p, n, s, files)
<1>1. /\ e.comparator = c /\ e.log_number = l /\ e.prev_log_number = p
      /\ e.next_file_number = n /\ e.last_sequence = s /\ e.new_files = files
  BY DEF EditOf
<1> HIDE DEF e
<1>2. /\ PutNumber(e, 2) = NumberBytes(2, l) /\ PutNumber(e, 9) = NumberBytes(9, p)
      /\ PutNumber(e, 3) = NumberBytes(3, n) /\ PutNumber(e, 4) = NumberBytes(4, s)
  BY <1>1, FieldNames DEF PutNumber, NumberBytes
<1> QED
  BY <1>1, <1>2 DEF Encoding, NameBytes, FilesBytes, e

\* The fields are those pieces.
LEMMA FieldsWritten ==
    ASSUME NEW e \in Edits
    PROVE  /\ Field(e, 1) = NameBytes(e.comparator)
           /\ Field(e, 2) = NumberBytes(2, e.log_number)
           /\ Field(e, 3) = NumberBytes(9, e.prev_log_number)
           /\ Field(e, 4) = NumberBytes(3, e.next_file_number)
           /\ Field(e, 5) = NumberBytes(4, e.last_sequence)
           /\ \A i \in 1..Len(e.new_files) : Field(e, i + 5) = PutFile(e.new_files[i])
<1>1. Field(e, 1) = NameBytes(e.comparator)
  BY FieldNames DEF Field, IsSet, Body, NameBytes, kComparator
<1>2. ASSUME NEW k \in 2..5
      PROVE  Field(e, k) = NumberBytes(FieldTag(k), e[NumberField[FieldTag(k)]])
  BY <1>2 DEF Field, IsSet, Body, NumberBytes
<1>3. /\ Field(e, 2) = NumberBytes(2, e.log_number)
      /\ Field(e, 3) = NumberBytes(9, e.prev_log_number)
      /\ Field(e, 4) = NumberBytes(3, e.next_file_number)
      /\ Field(e, 5) = NumberBytes(4, e.last_sequence)
  BY <1>2, FieldNames
<1>4. ASSUME NEW i \in 1..Len(e.new_files)
      PROVE  Field(e, i + 5) = PutFile(e.new_files[i])
  <2>1. i \in Nat /\ e.new_files[i] \in Files
    BY SetFields
  <2>2. i + 5 > 5 /\ i + 5 - 5 = i
    BY <2>1
  <2>3. FieldTag(i + 5) = kNewFile /\ IsSet(e, i + 5)
    BY <2>2 DEF FieldTag, IsSet
  <2>4. Body(e, i + 5) = FileBody(e.new_files[i + 5 - 5])
    BY <2>2 DEF Body
  <2>5. Field(e, i + 5) = EncodeVarint(kNewFile) \o FileBody(e.new_files[i])
    BY <2>2, <2>3, <2>4 DEF Field
  <2> QED
    BY <2>1, <2>5, FileIsBytes
<1> QED
  BY <1>1, <1>3, <1>4

\* The files' bytes, one file at a time.
LEMMA FilesAreBytes ==
    ASSUME NEW files \in Seq(Files), NEW f \in Files
    PROVE  /\ FilesBytes(<<>>) = <<>>
           /\ FilesBytes(files) \in Seq(Seq(Bytes))
           /\ FilesBytes(Append(files, f)) = Append(FilesBytes(files), PutFile(f))
<1> DEFINE n == Len(files)
           more == Append(files, f)
<1>1. FilesBytes(<<>>) = <<>>
  BY DEF FilesBytes
<1>2. n \in Nat /\ DOMAIN files = 1..n /\ \A i \in 1..n : files[i] \in Files
  BY LenProperties, ElementOfSeq
<1>3. /\ more \in Seq(Files) /\ Len(more) = n + 1 /\ DOMAIN more = 1..(n + 1)
      /\ more[n + 1] = f /\ \A i \in 1..n : more[i] = files[i]
  BY AppendProperties, LenProperties
<1> HIDE DEF more
<1>4. \A x \in Files : PutFile(x) \in Seq(Bytes)
  BY FileIsBytes
<1>5. FilesBytes(files) \in Seq(Seq(Bytes)) /\ Len(FilesBytes(files)) = n
      /\ \A i \in 1..n : FilesBytes(files)[i] = PutFile(files[i])
  <2>1. FilesBytes(files) = [i \in 1..n |-> PutFile(files[i])]
    BY <1>2 DEF FilesBytes
  <2>2. \A i \in 1..n : PutFile(files[i]) \in Seq(Bytes)
    BY <1>2, <1>4
  <2> HIDE DEF n
  <2> QED
    BY <1>2, <2>1, <2>2
<1>6. /\ FilesBytes(more) \in Seq(Seq(Bytes)) /\ Len(FilesBytes(more)) = n + 1
      /\ \A i \in 1..(n + 1) : FilesBytes(more)[i] = PutFile(more[i])
  <2>1. FilesBytes(more) = [i \in 1..(n + 1) |-> PutFile(more[i])]
    BY <1>3 DEF FilesBytes
  <2>2. \A i \in 1..(n + 1) : PutFile(more[i]) \in Seq(Bytes)
    BY <1>3, <1>4, ElementOfSeq
  <2> HIDE DEF n
  <2> QED
    BY <1>2, <2>1, <2>2
<1> DEFINE s == FilesBytes(files)
           x == PutFile(f)
<1>7. s \in Seq(Seq(Bytes)) /\ x \in Seq(Bytes) /\ Len(s) = n
  BY <1>4, <1>5
<1>8. \A i \in 1..n : s[i] = FilesBytes(more)[i]
  BY <1>2, <1>3, <1>5, <1>6
<1>9. FilesBytes(more)[n + 1] = x
  BY <1>2, <1>3, <1>6
<1> HIDE DEF s, x, n
<1>10. /\ Append(s, x) \in Seq(Seq(Bytes)) /\ Len(Append(s, x)) = n + 1
       /\ \A i \in 1..n : Append(s, x)[i] = s[i]
       /\ Append(s, x)[n + 1] = x
  BY <1>7, AppendProperties
<1>11. \A i \in 1..(n + 1) : FilesBytes(more)[i] = Append(s, x)[i]
  BY <1>2, <1>8, <1>9, <1>10
<1>12. FilesBytes(more) = Append(s, x)
  BY <1>6, <1>10, <1>11, SeqEqual
<1> QED
  BY <1>1, <1>5, <1>12 DEF s, x, more

\* The encoding of the first k fields is that of the first k - 1 and the field's bytes.
LEMMA EncodingGrows ==
    ASSUME NEW e \in Edits
    PROVE  /\ Encoding(Part(e, 0)) = <<>>
           /\ \A k \in 0..FieldCount(e) : Encoding(Part(e, k)) \in Seq(Bytes)
           /\ \A k \in 1..FieldCount(e) :
                Encoding(Part(e, k)) = Encoding(Part(e, k - 1)) \o Field(e, k)
<1> DEFINE S == Seq(Bytes)
           files == e.new_files
           n == Len(files)
           a == Field(e, 1)
           b == Field(e, 2)
           c == Field(e, 3)
           d == Field(e, 4)
           f == Field(e, 5)
           numbers == a \o b \o c \o d \o f
           first(i) == SubSeq(files, 1, i)
           flat(i) == FlattenSeq(FilesBytes(first(i)))
<1>1. n \in Nat /\ files \in Seq(Files) /\ FieldCount(e) = 5 + n
  BY SetFields DEF FieldCount, Edits
<1>2. a \in S /\ b \in S /\ c \in S /\ d \in S /\ f \in S
  <2>1. /\ 1 \in 1..FieldCount(e) /\ 2 \in 1..FieldCount(e) /\ 3 \in 1..FieldCount(e)
        /\ 4 \in 1..FieldCount(e) /\ 5 \in 1..FieldCount(e)
    BY <1>1
  <2> QED
    BY <2>1, FieldIsBytes
<1>3. /\ NameBytes(None) = <<>> /\ \A tag : NumberBytes(tag, None) = <<>>
      /\ FlattenSeq(FilesBytes(<<>>)) = <<>>
  <2>1. FilesBytes(<<>>) = <<>>
    BY DEF FilesBytes
  <2>2. FlattenSeq(<<>>) = <<>>
    BY DEF FlattenSeq
  <2> QED
    BY <2>1, <2>2 DEF NameBytes, NumberBytes
<1>4. \A x \in S : x \o <<>> = x /\ <<>> \o x = x
  BY ConcatEmptySeq
<1>5. <<>> \in S /\ a \o b \in S /\ a \o b \o c \in S /\ a \o b \o c \o d \in S /\ numbers \in S
  <2>1. \A x, y \in S : x \o y \in S
    BY ConcatProperties
  <2>2. <<>> \in S
    BY EmptySeq
  <2> HIDE DEF a, b, c, d, f, S
  <2> QED
    BY <1>2, <2>1, <2>2
<1>6. /\ Encoding(Part(e, 0)) = <<>>
      /\ Encoding(Part(e, 1)) = a
      /\ Encoding(Part(e, 2)) = a \o b
      /\ Encoding(Part(e, 3)) = a \o b \o c
      /\ Encoding(Part(e, 4)) = a \o b \o c \o d
      /\ Encoding(Part(e, 5)) = numbers
  <2> DEFINE r(v, w, x, y, z) ==
               EditOf(v, w, x, y, z, <<>>)
             bytes(v, w, x, y, z) ==
               NameBytes(v) \o NumberBytes(2, w) \o NumberBytes(9, x) \o NumberBytes(3, y)
               \o NumberBytes(4, z) \o <<>>
  <2>1. \A v, w, x, y, z : Encoding(r(v, w, x, y, z)) = bytes(v, w, x, y, z)
    <3>1. SUFFICES ASSUME NEW v, NEW w, NEW x, NEW y, NEW z
                   PROVE  Encoding(r(v, w, x, y, z)) = bytes(v, w, x, y, z)
      OBVIOUS
    <3>2. Encoding(EditOf(v, w, x, y, z, <<>>))
            = NameBytes(v) \o NumberBytes(2, w) \o NumberBytes(9, x) \o NumberBytes(3, y)
              \o NumberBytes(4, z) \o FlattenSeq(FilesBytes(<<>>))
      BY EncodingOfEdit
    <3> QED
      BY <1>3, <3>2
  <2> DEFINE l == e.log_number
             p == e.prev_log_number
             m == e.next_file_number
             q == e.last_sequence
             o == e.comparator
  <2>2. /\ Part(e, 0) = r(None, None, None, None, None)
        /\ Part(e, 1) = r(o, None, None, None, None)
        /\ Part(e, 2) = r(o, l, None, None, None)
        /\ Part(e, 3) = r(o, l, p, None, None)
        /\ Part(e, 4) = r(o, l, p, m, None)
        /\ Part(e, 5) = r(o, l, p, m, q)
    BY FirstParts
  <2>3. /\ NameBytes(o) = a /\ NumberBytes(2, l) = b /\ NumberBytes(9, p) = c
        /\ NumberBytes(3, m) = d /\ NumberBytes(4, q) = f
    BY FieldsWritten
  <2> HIDE DEF r, l, p, m, q, o, a, b, c, d, f
  <2>4. Encoding(Part(e, 0)) = <<>>
    <3>1. Encoding(r(None, None, None, None, None)) = bytes(None, None, None, None, None)
      BY <2>1
    <3>2. bytes(None, None, None, None, None)
            = <<>> \o <<>> \o <<>> \o <<>> \o <<>> \o <<>>
      BY <1>3, <2>3
    <3>3. <<>> \o <<>> \o <<>> \o <<>> \o <<>> \o <<>> = <<>>
      BY <1>2, <1>4, <1>5
    <3> QED
      BY <2>2, <3>1, <3>2, <3>3
  <2>5. Encoding(Part(e, 1)) = a
    <3>1. Encoding(r(o, None, None, None, None)) = bytes(o, None, None, None, None)
      BY <2>1
    <3>2. bytes(o, None, None, None, None)
            = a \o <<>> \o <<>> \o <<>> \o <<>> \o <<>>
      BY <1>3, <2>3
    <3>3. a \o <<>> \o <<>> \o <<>> \o <<>> \o <<>> = a
      BY <1>2, <1>4, <1>5
    <3> QED
      BY <2>2, <3>1, <3>2, <3>3
  <2>6. Encoding(Part(e, 2)) = a \o b
    <3>1. Encoding(r(o, l, None, None, None)) = bytes(o, l, None, None, None)
      BY <2>1
    <3>2. bytes(o, l, None, None, None)
            = a \o b \o <<>> \o <<>> \o <<>> \o <<>>
      BY <1>3, <2>3
    <3>3. a \o b \o <<>> \o <<>> \o <<>> \o <<>> = a \o b
      BY <1>2, <1>4, <1>5
    <3> QED
      BY <2>2, <3>1, <3>2, <3>3
  <2>7. Encoding(Part(e, 3)) = a \o b \o c
    <3>1. Encoding(r(o, l, p, None, None)) = bytes(o, l, p, None, None)
      BY <2>1
    <3>2. bytes(o, l, p, None, None)
            = a \o b \o c \o <<>> \o <<>> \o <<>>
      BY <1>3, <2>3
    <3>3. a \o b \o c \o <<>> \o <<>> \o <<>> = a \o b \o c
      BY <1>2, <1>4, <1>5
    <3> QED
      BY <2>2, <3>1, <3>2, <3>3
  <2>8. Encoding(Part(e, 4)) = a \o b \o c \o d
    <3>1. Encoding(r(o, l, p, m, None)) = bytes(o, l, p, m, None)
      BY <2>1
    <3>2. bytes(o, l, p, m, None)
            = a \o b \o c \o d \o <<>> \o <<>>
      BY <1>3, <2>3
    <3>3. a \o b \o c \o d \o <<>> \o <<>> = a \o b \o c \o d
      BY <1>2, <1>4, <1>5
    <3> QED
      BY <2>2, <3>1, <3>2, <3>3
  <2>9. Encoding(Part(e, 5)) = a \o b \o c \o d \o f
    <3>1. Encoding(r(o, l, p, m, q)) = bytes(o, l, p, m, q)
      BY <2>1
    <3>2. bytes(o, l, p, m, q)
            = a \o b \o c \o d \o f \o <<>>
      BY <1>3, <2>3
    <3>3. a \o b \o c \o d \o f \o <<>> = a \o b \o c \o d \o f
      BY <1>2, <1>4, <1>5
    <3> QED
      BY <2>2, <3>1, <3>2, <3>3
  <2> QED
    BY <2>4, <2>5, <2>6, <2>7, <2>8, <2>9
<1>7. ASSUME NEW i \in 0..n PROVE Encoding(Part(e, i + 5)) = numbers \o flat(i)
  <2>1. i + 5 >= 5 /\ i + 5 - 5 = i
    OBVIOUS
  <2>2. Part(e, i + 5) = EditOf(e.comparator, e.log_number, e.prev_log_number,
                                e.next_file_number, e.last_sequence, first(i))
    BY <2>1 DEF Part
  <2> DEFINE g == first(i)
  <2> HIDE DEF g, a, b, c, d, f
  <2>3. Encoding(Part(e, i + 5))
          = NameBytes(e.comparator) \o NumberBytes(2, e.log_number)
            \o NumberBytes(9, e.prev_log_number) \o NumberBytes(3, e.next_file_number)
            \o NumberBytes(4, e.last_sequence) \o FlattenSeq(FilesBytes(g))
    <3>1. Part(e, i + 5) = EditOf(e.comparator, e.log_number, e.prev_log_number,
                                  e.next_file_number, e.last_sequence, g)
      BY <2>2 DEF g
    <3>2. Encoding(EditOf(e.comparator, e.log_number, e.prev_log_number,
                          e.next_file_number, e.last_sequence, g))
            = NameBytes(e.comparator) \o NumberBytes(2, e.log_number)
              \o NumberBytes(9, e.prev_log_number) \o NumberBytes(3, e.next_file_number)
              \o NumberBytes(4, e.last_sequence) \o FlattenSeq(FilesBytes(g))
      BY EncodingOfEdit
    <3> QED
      BY <3>1, <3>2
  <2>4. Encoding(Part(e, i + 5)) = numbers \o FlattenSeq(FilesBytes(g))
    BY <2>3, FieldsWritten DEF a, b, c, d, f
  <2> QED
    BY <2>4 DEF g
<1>8. \A i \in 0..n : first(i) \in Seq(Files)
  BY <1>1, SubSeqProperties
<1>9. ASSUME NEW i \in 1..n
      PROVE  flat(i) = flat(i - 1) \o Field(e, i + 5) /\ flat(i - 1) \in S /\ Field(e, i + 5) \in S
  <2>1. i - 1 \in 0..n /\ files[i] \in Files
    BY <1>1, SetFields
  <2>2. first(i) = Append(first(i - 1), files[i])
    <3>1. first(i) = SubSeq(files, 1, i - 1) \o <<files[i]>>
      <4>1. 1 \in 1..n
        BY <1>1
      <4> QED
        BY <1>1, <4>1, SubSeqRecursiveSecond
    <3> QED
      BY <3>1, <2>1, <1>8, AppendIsConcat
  <2> DEFINE g == first(i - 1)
             x == PutFile(files[i])
  <2>3. g \in Seq(Files)
    BY <2>1, <1>8
  <2> HIDE DEF g
  <2>4. /\ FilesBytes(g) \in Seq(Seq(Bytes)) /\ x \in Seq(Bytes)
        /\ FilesBytes(Append(g, files[i])) = Append(FilesBytes(g), x)
    BY <2>1, <2>3, FilesAreBytes, FileIsBytes
  <2>5. /\ FlattenSeq(FilesBytes(g)) \in S
        /\ FlattenSeq(FilesBytes(Append(g, files[i]))) = FlattenSeq(FilesBytes(g)) \o x
    BY <2>4, FlattenAppend
  <2>6. x = Field(e, i + 5)
    BY FieldsWritten
  <2> HIDE DEF x, first
  <2> QED
    BY <2>2, <2>4, <2>5, <2>6 DEF g
<1>10. ASSUME NEW i \in 0..n PROVE flat(i) \in S
  <2>1. CASE i = n
    <3>1. FilesBytes(first(n)) \in Seq(Seq(Bytes))
      <4>1. first(n) = files
        BY <1>1, SubSeqFull
      <4> HIDE DEF first
      <4>2. CASE n = 0
        <5>1. files = <<>>
          BY <4>2, <1>1, EmptySeq
        <5>2. FilesBytes(<<>>) = <<>>
          BY DEF FilesBytes
        <5> QED
          BY <4>1, <5>1, <5>2, EmptySeq
      <4>3. CASE n # 0
        BY <4>1, <4>3, <1>1, FilesAreBytes, SetFields
      <4> QED
        BY <4>2, <4>3
    <3> QED
      BY <2>1, <3>1, <1>5, FlattenAppend
  <2>2. CASE i # n
    <3>1. i + 1 \in 1..n /\ i + 1 - 1 = i
      BY <1>1, <2>2
    <3> HIDE DEF flat
    <3> QED
      BY <3>1, <1>9
  <2> QED
    BY <2>1, <2>2
<1>11. ASSUME NEW k \in 0..FieldCount(e) PROVE Encoding(Part(e, k)) \in S
  <2>1. k = 0 \/ k = 1 \/ k = 2 \/ k = 3 \/ k = 4 \/ k > 4
    BY <1>1
  <2>2. CASE k > 4
    <3>1. k - 5 \in 0..n /\ k - 5 + 5 = k
      BY <1>1, <2>2
    <3>2. Encoding(Part(e, k)) = numbers \o flat(k - 5) /\ flat(k - 5) \in S
      BY <3>1, <1>7, <1>10
    <3> HIDE DEF numbers, flat
    <3> QED
      BY <3>2, <1>5, ConcatProperties
  <2> QED
    BY <2>1, <2>2, <1>2, <1>5, <1>6
<1>12. ASSUME NEW k \in 1..FieldCount(e)
       PROVE  Encoding(Part(e, k)) = Encoding(Part(e, k - 1)) \o Field(e, k)
  <2>1. k = 1 \/ k = 2 \/ k = 3 \/ k = 4 \/ k = 5 \/ k > 5
    BY <1>1
  <2>2. CASE k = 1
    <3>1. k - 1 = 0
      BY <2>2
    <3> HIDE DEF a, b, c, d, f
    <3> QED
      BY <2>2, <3>1, <1>2, <1>4, <1>6 DEF a, b, c, d, f
  <2>3. CASE k = 2
    <3>1. k - 1 = 1
      BY <2>3
    <3> HIDE DEF a, b, c, d, f
    <3> QED
      BY <2>3, <3>1, <1>6 DEF a, b, c, d, f
  <2>4. CASE k = 3
    <3>1. k - 1 = 2
      BY <2>4
    <3> HIDE DEF a, b, c, d, f
    <3> QED
      BY <2>4, <3>1, <1>6 DEF a, b, c, d, f
  <2>5. CASE k = 4
    <3>1. k - 1 = 3
      BY <2>5
    <3> HIDE DEF a, b, c, d, f
    <3> QED
      BY <2>5, <3>1, <1>6 DEF a, b, c, d, f
  <2>6. CASE k = 5
    <3>1. k - 1 = 4
      BY <2>6
    <3> HIDE DEF a, b, c, d, f
    <3> QED
      BY <2>6, <3>1, <1>6 DEF a, b, c, d, f
  <2>7. CASE k > 5
    <3> DEFINE i == k - 5
               x == flat(i - 1)
               y == Field(e, k)
    <3>1. i \in 1..n /\ i \in 0..n /\ i - 1 \in 0..n /\ i + 5 = k /\ i - 1 + 5 = k - 1
      BY <1>1, <2>7
    <3>2. /\ Encoding(Part(e, k)) = numbers \o flat(i)
          /\ Encoding(Part(e, k - 1)) = numbers \o x
      BY <3>1, <1>7
    <3>3. flat(i) = x \o y /\ x \in S /\ y \in S /\ numbers \in S
      BY <3>1, <1>5, <1>9
    <3> HIDE DEF numbers, x, y, flat
    <3>4. numbers \o (x \o y) = (numbers \o x) \o y
      <4>1. numbers \in Seq(Bytes) /\ x \in Seq(Bytes) /\ y \in Seq(Bytes)
        BY <3>3
      <4> QED
        BY ONLY <4>1, ConcatAssociative
    <3> QED
      BY <3>2, <3>3, <3>4 DEF y
  <2> QED
    BY <2>1, <2>2, <2>3, <2>4, <2>5, <2>6, <2>7
<1> QED
  BY <1>6, <1>11, <1>12

\* No fields are the cleared edit, and all of them the edit.
LEMMA WholeEdit ==
    ASSUME NEW e \in Edits
    PROVE  Part(e, 0) = Cleared /\ Part(e, FieldCount(e)) = e
<1>1. Part(e, 0) = Cleared
  BY FirstParts DEF EditOf, Cleared
<1>2. SubSeq(e.new_files, 1, Len(e.new_files)) = e.new_files
  BY SubSeqFull DEF Edits
<1>3. Part(e, FieldCount(e)) = EditOf(e.comparator, e.log_number, e.prev_log_number,
                                      e.next_file_number, e.last_sequence, e.new_files)
  <2> DEFINE n == FieldCount(e)
  <2>1. n \in Nat /\ n >= 5 /\ n - 5 = Len(e.new_files)
    BY SetFields DEF FieldCount
  <2> HIDE DEF n
  <2>2. n >= 1 /\ n >= 2 /\ n >= 3 /\ n >= 4
    BY <2>1
  <2> QED
    BY <2>1, <2>2, <1>2 DEF Part, n
<1>4. e = EditOf(e.comparator, e.log_number, e.prev_log_number,
                 e.next_file_number, e.last_sequence, e.new_files)
  BY DEF Edits, EditOf
<1> QED
  BY <1>1, <1>3, <1>4

\* The fields that are not set are skipped.
LEMMA SkipUnset ==
    ASSUME NEW e \in Edits, NEW k \in 0..FieldCount(e)
    PROVE  \E j \in 0..FieldCount(e) :
             Part(e, j) = Part(e, k) /\ (j = FieldCount(e) \/ IsSet(e, j + 1))
<1> DEFINE n == FieldCount(e)
           T == {j \in k..n : j = n \/ IsSet(e, j + 1)}
<1>1. n \in Nat /\ k \in Nat /\ k <= n
  BY SetFields DEF FieldCount
<1> HIDE DEF n
<1>2. PICK j \in T : \A i \in T : j <= i
  <2>1. n \in T /\ T \in SUBSET Nat
    BY <1>1
  <2> HIDE DEF T
  <2> QED
    BY <2>1, LeastNumber
<1> DEFINE Bad == {i \in k..j : Part(e, i) # Part(e, k)}
<1>3. Bad = {}
  <2>1. SUFFICES ASSUME Bad # {} PROVE FALSE
    OBVIOUS
  <2>2. Bad \in SUBSET Nat
    BY <1>1, <1>2
  <2>3. PICK i \in Bad : \A h \in Bad : i <= h
    <3> HIDE DEF Bad
    <3> QED
      BY <2>1, <2>2, LeastNumber
  <2>4. i \in Nat /\ i >= k /\ i <= j /\ j <= n /\ Part(e, i) # Part(e, k)
    BY <1>1, <1>2, <2>3
  <2>5. i # k
    BY <2>4
  <2>6. i - 1 \in k..j /\ i - 1 \notin Bad
    BY <1>1, <2>3, <2>4, <2>5
  <2>7. Part(e, i - 1) = Part(e, k)
    BY <2>6
  <2>8. i - 1 \in k..n /\ i - 1 \notin T /\ i - 1 + 1 = i
    BY <1>1, <1>2, <2>4, <2>5
  <2>9. ~IsSet(e, i)
    BY <2>8
  <2>10. i \in 1..FieldCount(e)
    BY <1>1, <2>4, <2>5 DEF n
  <2> QED
    BY <2>4, <2>7, <2>9, <2>10, FieldIsBytes
<1>4. j \in k..j /\ j \in 0..n
  BY <1>1, <1>2
<1> QED
  BY <1>2, <1>3, <1>4 DEF n

\* What the first fields write is the beginning of what the edit writes.
LEMMA RestOfEncoding ==
    ASSUME NEW e \in Edits, NEW k \in 0..FieldCount(e)
    PROVE  \E z \in Seq(Bytes) : Encoding(e) = Encoding(Part(e, k)) \o z
<1> DEFINE n == FieldCount(e)
           Begun(i) == \E z \in Seq(Bytes) : Encoding(e) = Encoding(Part(e, i)) \o z
           Bad == {m \in 0..n : ~Begun(n - m)}
<1>1. n \in Nat /\ k \in Nat /\ k <= n
  BY SetFields DEF FieldCount
<1>2. Begun(n)
  <2>1. Encoding(e) \in Seq(Bytes) /\ Part(e, n) = e
    <3>1. Part(e, n) = e /\ n \in 0..n
      BY <1>1, WholeEdit
    <3> QED
      BY <3>1, EncodingGrows
  <2>2. Encoding(e) = Encoding(e) \o <<>> /\ <<>> \in Seq(Bytes)
    BY <2>1, ConcatEmptySeq, EmptySeq
  <2> HIDE DEF n
  <2> QED
    BY <2>1, <2>2
<1>3. Bad = {}
  <2>1. SUFFICES ASSUME Bad # {} PROVE FALSE
    OBVIOUS
  <2>2. Bad \in SUBSET Nat
    BY <1>1
  <2>3. PICK m \in Bad : \A h \in Bad : m <= h
    <3> HIDE DEF Bad
    <3> QED
      BY <2>1, <2>2, LeastNumber
  <2> HIDE DEF Begun, n
  <2>4. m \in 0..n /\ ~Begun(n - m)
    BY <2>3
  <2>5. m # 0
    <3>1. n - 0 = n
      BY <1>1
    <3> QED
      BY <1>2, <2>4, <3>1
  <2>6. m - 1 \in 0..n /\ m - 1 \notin Bad
    BY <1>1, <2>3, <2>4, <2>5
  <2> DEFINE i == n - m
  <2>7. i \in 0..n /\ i + 1 \in 1..n /\ i + 1 - 1 = i /\ n - (m - 1) = i + 1
    BY <1>1, <2>4, <2>5
  <2>8. Begun(i + 1)
    BY <2>6, <2>7
  <2> HIDE DEF i
  <2> DEFINE a == Encoding(Part(e, i))
             b == Field(e, i + 1)
  <2>9. PICK z \in Seq(Bytes) : Encoding(e) = Encoding(Part(e, i + 1)) \o z
    BY <2>8 DEF Begun
  <2>10. Encoding(Part(e, i + 1)) = a \o b /\ a \in Seq(Bytes) /\ b \in Seq(Bytes)
    BY <2>7, EncodingGrows, FieldIsBytes DEF n
  <2> HIDE DEF a, b
  <2>11. b \o z \in Seq(Bytes) /\ (a \o b) \o z = a \o (b \o z)
    <3>1. a \in Seq(Bytes) /\ b \in Seq(Bytes) /\ z \in Seq(Bytes)
      BY <2>9, <2>10
    <3> QED
      BY ONLY <3>1, ConcatAssociative, ConcatProperties
  <2>12. Encoding(e) = a \o (b \o z)
    BY <2>9, <2>10, <2>11
  <2>13. Begun(i)
    BY <2>11, <2>12 DEF Begun, a
  <2> QED
    BY <2>4, <2>13 DEF i
<1>4. n - k \in 0..n /\ n - (n - k) = k
  BY <1>1
<1> HIDE DEF Begun, n
<1>5. Begun(k)
  BY <1>3, <1>4
<1> QED
  BY <1>5 DEF Begun

Associate(x, y, z) == (x \o y) \o z = x \o (y \o z)

\* Bytes are put together in any grouping.
LEMMA BytesAssociate == \A x, y, z \in Seq(Bytes) : Associate(x, y, z)
<1>1. SUFFICES ASSUME NEW x \in Seq(Bytes), NEW y \in Seq(Bytes), NEW z \in Seq(Bytes)
               PROVE  Associate(x, y, z)
  OBVIOUS
<1>2. (x \o y) \o z = x \o (y \o z)
  BY ONLY ConcatAssociative, <1>1
<1> QED
  BY <1>2 DEF Associate

\* One step of decode_from: it reads the next field that is set; or it cannot, because
\* the rest of the record is missing or everything has been read.
LEMMA DecodesField ==
    ASSUME NEW e \in Edits, NEW k \in 0..FieldCount(e), NEW q \in Seq(Bytes),
           NEW t \in Seq(Bytes), Encoding(e) = (Encoding(Part(e, k)) \o q) \o t
    PROVE  LET tag == GetVarint32(q)
               field == GetField(tag.value, tag.rest, Part(e, k))
           IN  \/ ~tag.ok /\ t # <<>>
               \/ ~tag.ok /\ q = <<>> /\ t = <<>> /\ Part(e, k) = e
               \/ tag.ok /\ ~field.ok /\ t # <<>>
               \/ /\ tag.ok /\ field.ok /\ field.rest \in Seq(Bytes)
                  /\ \E j \in 0..FieldCount(e) :
                       /\ field.value = Part(e, j)
                       /\ Encoding(Part(e, k)) \o q = Encoding(Part(e, j)) \o field.rest
<1> DEFINE n == FieldCount(e)
           tag == GetVarint32(q)
           a == Encoding(Part(e, k))
<1>1. PICK j \in 0..n : Part(e, j) = Part(e, k) /\ (j = n \/ IsSet(e, j + 1))
  BY SkipUnset
<1>2. PICK z \in Seq(Bytes) : Encoding(e) = a \o z
  BY RestOfEncoding
<1>3. a \in Seq(Bytes) /\ n \in Nat /\ q \o t \in Seq(Bytes)
  <2>1. a \in Seq(Bytes)
    BY EncodingGrows
  <2>2. n \in Nat
    BY SetFields DEF FieldCount
  <2>3. q \o t \in Seq(Bytes)
    BY ConcatProperties
  <2> QED
    BY <2>1, <2>2, <2>3
<1>4. q \o t = z
  <2> HIDE DEF a
  <2>1. (a \o q) \o t = a \o (q \o t)
    <3>1. a \in Seq(Bytes) /\ q \in Seq(Bytes) /\ t \in Seq(Bytes)
      BY <1>3
    <3>2. Associate(a, q, t)
      BY <3>1, BytesAssociate
    <3> QED
      BY ONLY <3>2 DEF Associate
  <2>2. a \o (q \o t) = a \o z
    BY <1>2, <2>1 DEF a
  <2> QED
    BY <1>2, <1>3, <2>2, ConcatSimplifications
<1>5. CASE j = n
  <2>1. Part(e, k) = e
    BY <1>1, <1>5, WholeEdit
  <2>2. z = <<>>
    BY <1>2, <1>3, <2>1, ConcatEqualIffEmpty
  <2>3. q = <<>> /\ t = <<>>
    <3>1. Len(q \o t) = Len(q) + Len(t) /\ Len(q) \in Nat /\ Len(t) \in Nat /\ Len(<<>>) = 0
      BY ConcatProperties, LenProperties, EmptySeq
    <3>2. Len(q) = 0 /\ Len(t) = 0
      BY <1>4, <2>2, <3>1
    <3> QED
      BY <3>2, EmptySeq
  <2>4. ~tag.ok
    <3>1. ~(\E i \in 1..Groups32 : i <= Len(<<>>) /\ <<>>[i] < Base)
      BY EmptySeq, GroupsAssumption
    <3> QED
      BY <2>3, <3>1 DEF GetVarint32, GetVarint, Failure
  <2> QED
    BY <2>1, <2>3, <2>4
<1>6. CASE j # n
  <2> DEFINE i == j + 1
             c == Field(e, i)
             field == GetField(tag.value, tag.rest, Part(e, k))
  <2>1. i \in 1..n /\ i \in 0..n /\ IsSet(e, i) /\ i - 1 = j
    BY <1>1, <1>3, <1>6
  <2> HIDE DEF i
  <2>2. PICK y \in Seq(Bytes) : Encoding(e) = Encoding(Part(e, i)) \o y
    BY <2>1, RestOfEncoding
  <2>3. Encoding(Part(e, i)) = a \o c /\ c \in Seq(Bytes)
    BY <1>1, <2>1, EncodingGrows, FieldIsBytes
  <2>4. z = c \o y /\ c \o y \in Seq(Bytes)
    <3> HIDE DEF a, c
    <3>1. (a \o c) \o y = a \o (c \o y)
      <4>1. a \in Seq(Bytes) /\ c \in Seq(Bytes) /\ y \in Seq(Bytes)
        BY <1>3, <2>3
      <4>2. Associate(a, c, y)
        BY <4>1, BytesAssociate
      <4> QED
        BY ONLY <4>2 DEF Associate
    <3>2. c \o y \in Seq(Bytes)
      BY <2>3, ConcatProperties
    <3>3. a \o z = a \o (c \o y)
      BY <1>2, <2>2, <2>3, <3>1
    <3> QED
      BY <1>3, <3>2, <3>3, ConcatSimplifications
  <2>5. Begins(q, t, c, y)
    BY <1>4, <2>3, <2>4 DEF Begins
  <2>6. \/ ~tag.ok /\ t # <<>>
        \/ tag.ok /\ Outcome(field, Part(e, i), y, t)
    BY <1>1, <2>1, <2>5, ReadsField
  <2>7. CASE ~tag.ok /\ t # <<>>
    BY <2>7
  <2>8. CASE tag.ok /\ ~field.ok /\ t # <<>>
    BY <2>8
  <2>9. CASE /\ tag.ok /\ field = Success(Part(e, i), field.rest)
             /\ field.rest \in Seq(Bytes) /\ field.rest \o t = y
    <3> DEFINE r == field.rest
    <3>1. field.ok /\ field.value = Part(e, i)
      BY <2>9 DEF Success
    <3> HIDE DEF field, a, c, tag
    <3>2. r \in Seq(Bytes) /\ r \o t = y
      BY <2>9
    <3> HIDE DEF r
    <3>3. a \o q = (a \o c) \o r
      <4>1. /\ a \in Seq(Bytes) /\ c \in Seq(Bytes) /\ q \in Seq(Bytes)
            /\ r \in Seq(Bytes) /\ t \in Seq(Bytes)
        BY <1>3, <2>3, <3>2
      <4>2. c \o r \in Seq(Bytes) /\ (c \o r) \o t = c \o (r \o t) /\ (a \o c) \o r = a \o (c \o r)
        <5>1. c \o r \in Seq(Bytes)
          BY <4>1, ConcatProperties
        <5>2. Associate(c, r, t)
          BY <4>1, BytesAssociate
        <5>3. Associate(a, c, r)
          BY <4>1, BytesAssociate
        <5> QED
          BY ONLY <5>1, <5>2, <5>3 DEF Associate
      <4>3. q \o t = (c \o r) \o t
        BY <1>4, <2>4, <3>2, <4>2
      <4>4. q = c \o r
        BY <4>1, <4>2, <4>3, ConcatSimplifications
      <4> QED
        BY <4>2, <4>4
    <3>4. a \o q = Encoding(Part(e, i)) \o r
      BY <2>3, <3>3
    <3> QED
      BY <2>1, <2>9, <3>1, <3>2, <3>4 DEF a, r, field, tag
  <2> QED
    BY <2>6, <2>7, <2>8, <2>9 DEF Outcome
<1> QED
  BY <1>5, <1>6

-----------------------------------------------------------------------------
(* The invariant of an edit that is filled, encoded and decoded.           *)

Decoding == pc \in {"decode", "done"}

\* What decode_from was given is the beginning of what encode_to wrote.
GivenBeginning ==
    /\ edit \in Edits
    /\ pc # "fill" => record = Encoding(edit) /\ record \in Seq(Bytes)
    /\ Decoding => taken \in Seq(Bytes) /\ \E t \in Seq(Bytes) : record = taken \o t

\* What it has read without an error are the edit's first fields, and nothing else.
ReadFirstFields ==
    Decoding /\ ~msg =>
      /\ input \in Seq(Bytes)
      /\ \E k \in 0..FieldCount(edit) :
           decoded = Part(edit, k) /\ taken = Encoding(Part(edit, k)) \o input

\* It fails only when something is missing, and ends when everything has been read.
EndsExactly ==
    /\ Decoding /\ msg => taken # record
    /\ pc = "done" /\ ~msg => input = <<>> /\ (taken = record => decoded = edit)

EditInv ==
    /\ pc \in {"fill", "encoded", "decode", "done"} /\ msg \in BOOLEAN
    /\ GivenBeginning /\ ReadFirstFields /\ EndsExactly

\* The edits callers build: each setter leaves one.
LEMMA BuiltEdits ==
    ASSUME NEW e \in Edits
    PROVE  /\ Cleared \in Edits
           /\ \A name \in Names : [e EXCEPT !.comparator = <<name>>] \in Edits
           /\ \A tag \in DOMAIN NumberField, n \in Numbers :
                [e EXCEPT ![NumberField[tag]] = <<n>>] \in Edits
           /\ \A f \in Files : [e EXCEPT !.new_files = Append(@, f)] \in Edits
<1>1. Cleared \in Edits
  BY EmptySeq DEF Cleared, Edits, Optional
<1>2. ASSUME NEW name \in Names PROVE [e EXCEPT !.comparator = <<name>>] \in Edits
  BY DEF Edits, Optional
<1>3. ASSUME NEW tag \in DOMAIN NumberField, NEW n \in Numbers
      PROVE  [e EXCEPT ![NumberField[tag]] = <<n>>] \in Edits
  <2>1. <<n>> \in Optional(Numbers)
    BY DEF Optional
  <2>2. /\ [e EXCEPT !["log_number"] = <<n>>] \in Edits
        /\ [e EXCEPT !["prev_log_number"] = <<n>>] \in Edits
        /\ [e EXCEPT !["next_file_number"] = <<n>>] \in Edits
        /\ [e EXCEPT !["last_sequence"] = <<n>>] \in Edits
    BY <2>1 DEF Edits
  <2> QED
    BY <2>2, FieldNames
<1>4. ASSUME NEW f \in Files PROVE [e EXCEPT !.new_files = Append(@, f)] \in Edits
  <2>1. Append(e.new_files, f) \in Seq(Files)
    BY AppendProperties DEF Edits
  <2> QED
    BY <2>1 DEF Edits
<1> QED
  BY <1>1, <1>2, <1>3, <1>4

\* The invariant holds at first, and each action keeps it.
LEMMA EditInvInit == Init => EditInv
<1>1. Cleared \in Edits
  BY EmptySeq DEF Cleared, Edits, Optional
<1> QED
  BY <1>1 DEF Init, EditInv, GivenBeginning, ReadFirstFields, EndsExactly, Decoding

LEMMA EditInvFill ==
    EditInv /\ (\/ \E name \in Names : SetComparatorName(name)
                \/ \E tag \in DOMAIN NumberField, n \in Numbers : SetNumber(tag, n)
                \/ \E level \in Levels, number, size \in Numbers, smallest, largest \in Keys :
                     AddFile(level, number, size, smallest, largest)) => EditInv'
<1>1. ASSUME edit' \in Edits, pc = "fill", UNCHANGED <<pc, msg>>, EditInv PROVE EditInv'
  BY <1>1 DEF EditInv, GivenBeginning, ReadFirstFields, EndsExactly, Decoding
<1>2. ASSUME EditInv, NEW name \in Names, SetComparatorName(name) PROVE EditInv'
  <2>1. edit' \in Edits
    BY <1>2, BuiltEdits DEF SetComparatorName, EditInv, GivenBeginning
  <2> QED
    BY <1>1, <1>2, <2>1 DEF SetComparatorName
<1>3. ASSUME EditInv, NEW tag \in DOMAIN NumberField, NEW n \in Numbers, SetNumber(tag, n)
      PROVE  EditInv'
  <2>1. edit' \in Edits
    BY <1>3, BuiltEdits DEF SetNumber, EditInv, GivenBeginning
  <2> QED
    BY <1>1, <1>3, <2>1 DEF SetNumber
<1>4. ASSUME EditInv, NEW level \in Levels, NEW number \in Numbers, NEW size \in Numbers,
             NEW smallest \in Keys, NEW largest \in Keys,
             AddFile(level, number, size, smallest, largest)
      PROVE  EditInv'
  <2>1. File(level, number, size, smallest, largest) \in Files
    BY DEF File, Files
  <2>2. edit' \in Edits
    BY <1>4, <2>1, BuiltEdits DEF AddFile, EditInv, GivenBeginning
  <2> QED
    BY <1>1, <1>4, <2>2 DEF AddFile
<1> QED
  BY <1>2, <1>3, <1>4

LEMMA EditInvEncode == EditInv /\ EncodeTo => EditInv'
<1>1. SUFFICES ASSUME EditInv, EncodeTo PROVE EditInv'
  OBVIOUS
<1>2. edit \in Edits /\ edit' = edit /\ record' = Encoding(edit)
      /\ pc' = "encoded" /\ msg' = msg /\ msg \in BOOLEAN
  BY <1>1 DEF EncodeTo, EditInv, GivenBeginning
<1>3. Encoding(edit) \in Seq(Bytes)
  <2>1. ASSUME NEW e \in Edits PROVE Encoding(e) \in Seq(Bytes)
    <3>1. Part(e, FieldCount(e)) = e /\ FieldCount(e) \in 0..FieldCount(e)
      BY WholeEdit, SetFields DEF FieldCount
    <3> QED
      BY <3>1, EncodingGrows
  <2> QED
    BY <1>2, <2>1
<1> QED
  BY <1>2, <1>3 DEF EditInv, GivenBeginning, ReadFirstFields, EndsExactly, Decoding

LEMMA EditInvBegin ==
    EditInv /\ (\E n \in 0..Len(record) : DecodeFrom(n)) => EditInv'
<1>1. SUFFICES ASSUME EditInv, NEW n \in 0..Len(record), DecodeFrom(n) PROVE EditInv'
  OBVIOUS
<1>2. /\ edit \in Edits /\ edit' = edit /\ record' = record /\ msg' = FALSE /\ pc' = "decode"
      /\ taken' = SubSeq(record, 1, n) /\ input' = taken' /\ decoded' = Cleared
      /\ record = Encoding(edit) /\ record \in Seq(Bytes)
  BY <1>1 DEF DecodeFrom, EditInv, GivenBeginning
<1>3. \A r \in Seq(Bytes) : \A i \in 0..Len(r) :
        /\ SubSeq(r, 1, i) \in Seq(Bytes) /\ SubSeq(r, i + 1, Len(r)) \in Seq(Bytes)
        /\ r = SubSeq(r, 1, i) \o SubSeq(r, i + 1, Len(r))
  <2>1. SUFFICES ASSUME NEW r \in Seq(Bytes), NEW i \in 0..Len(r)
                 PROVE  /\ SubSeq(r, 1, i) \in Seq(Bytes)
                        /\ SubSeq(r, i + 1, Len(r)) \in Seq(Bytes)
                        /\ r = SubSeq(r, 1, i) \o SubSeq(r, i + 1, Len(r))
    OBVIOUS
  <2>2. Len(r) \in Nat /\ \A j \in 1..Len(r) : r[j] \in Bytes
    BY LenProperties, ElementOfSeq
  <2>3. SubSeq(r, 1, i) \in Seq(Bytes) /\ SubSeq(r, i + 1, Len(r)) \in Seq(Bytes)
    BY <2>2, SubSeqProperties
  <2>4. r = SubSeq(r, 1, i) \o SubSeq(r, i + 1, Len(r))
    <3>1. 1 \in 1..(Len(r) + 1) /\ i \in (1 - 1)..Len(r) /\ Len(r) \in i..Len(r)
      BY <2>2
    <3>2. SubSeq(r, 1, i) \o SubSeq(r, i + 1, Len(r)) = SubSeq(r, 1, Len(r))
      BY <3>1, ConcatAdjacentSubSeq
    <3> QED
      BY <3>2, SubSeqFull
  <2> QED
    BY <2>3, <2>4
<1>4. taken' \in Seq(Bytes) /\ \E t \in Seq(Bytes) : record' = taken' \o t
  BY <1>2, <1>3
<1>5. /\ 0 \in 0..FieldCount(edit) /\ decoded' = Part(edit, 0)
      /\ taken' = Encoding(Part(edit, 0)) \o input'
  <2>1. ASSUME NEW e \in Edits
        PROVE  0 \in 0..FieldCount(e) /\ Part(e, 0) = Cleared /\ Encoding(Part(e, 0)) = <<>>
    BY WholeEdit, EncodingGrows, SetFields DEF FieldCount
  <2>2. <<>> \o taken' = taken'
    BY <1>4, ConcatEmptySeq
  <2> QED
    BY <1>2, <2>1, <2>2
<1> QED
  BY <1>2, <1>4, <1>5 DEF EditInv, GivenBeginning, ReadFirstFields, EndsExactly, Decoding

\* What decode_from makes of its next input q, when it was given g of all.
Progress(e, part, q, g, all) ==
    LET tag == GetVarint32(q)
        field == GetField(tag.value, tag.rest, part)
    IN  \/ ~tag.ok /\ g # all
        \/ ~tag.ok /\ q = <<>> /\ part = e
        \/ tag.ok /\ ~field.ok /\ g # all
        \/ /\ tag.ok /\ field.ok /\ field.rest \in Seq(Bytes)
           /\ \E j \in 0..FieldCount(e) :
                field.value = Part(e, j) /\ g = Encoding(Part(e, j)) \o field.rest

\* The next field is read from the state of the decoding.
LEMMA DecodesNext ==
    ASSUME EditInv, pc = "decode", ~msg
    PROVE  Progress(edit, decoded, input, taken, record)
<1>1. ASSUME NEW e \in Edits, NEW k \in 0..FieldCount(e), NEW q \in Seq(Bytes),
             NEW t \in Seq(Bytes), NEW all, NEW g, g \in Seq(Bytes),
             all = Encoding(e), all = g \o t, g = Encoding(Part(e, k)) \o q
      PROVE  Progress(e, Part(e, k), q, g, all)
  <2> DEFINE tag == GetVarint32(q)
             field == GetField(tag.value, tag.rest, Part(e, k))
  <2>1. t # <<>> => g # all
    BY <1>1, ConcatEqualIffEmpty
  <2>2. Encoding(e) = (Encoding(Part(e, k)) \o q) \o t
    BY <1>1
  <2>3. \/ ~tag.ok /\ t # <<>>
        \/ ~tag.ok /\ q = <<>> /\ t = <<>> /\ Part(e, k) = e
        \/ tag.ok /\ ~field.ok /\ t # <<>>
        \/ /\ tag.ok /\ field.ok /\ field.rest \in Seq(Bytes)
           /\ \E j \in 0..FieldCount(e) :
                /\ field.value = Part(e, j)
                /\ Encoding(Part(e, k)) \o q = Encoding(Part(e, j)) \o field.rest
    BY <2>2, DecodesField
  <2> HIDE DEF tag, field
  <2>4. \/ ~tag.ok /\ g # all
        \/ ~tag.ok /\ q = <<>> /\ Part(e, k) = e
        \/ tag.ok /\ ~field.ok /\ g # all
        \/ /\ tag.ok /\ field.ok /\ field.rest \in Seq(Bytes)
           /\ \E j \in 0..FieldCount(e) :
                field.value = Part(e, j) /\ g = Encoding(Part(e, j)) \o field.rest
    BY <2>1, <2>3, <1>1
  <2> QED
    BY <2>4 DEF tag, field, Progress
<1>2. /\ edit \in Edits /\ record = Encoding(edit) /\ taken \in Seq(Bytes) /\ input \in Seq(Bytes)
      /\ \E t \in Seq(Bytes) : record = taken \o t
      /\ \E k \in 0..FieldCount(edit) :
           decoded = Part(edit, k) /\ taken = Encoding(Part(edit, k)) \o input
  BY DEF EditInv, GivenBeginning, ReadFirstFields, Decoding
<1>3. PICK t \in Seq(Bytes) : record = taken \o t
  BY <1>2
<1>4. PICK k \in 0..FieldCount(edit) :
        decoded = Part(edit, k) /\ taken = Encoding(Part(edit, k)) \o input
  BY <1>2
<1>5. Progress(edit, Part(edit, k), input, taken, record)
  BY <1>1, <1>2, <1>3, <1>4
<1> QED
  BY <1>4, <1>5

LEMMA EditInvField == EditInv /\ DecodeField => EditInv'
<1>1. SUFFICES ASSUME EditInv, DecodeField PROVE EditInv'
  OBVIOUS
<1> DEFINE tag == GetVarint32(input)
           field == GetField(tag.value, tag.rest, decoded)
<1>2. /\ pc = "decode" /\ ~msg /\ tag.ok /\ input' = field.rest
      /\ IF field.ok THEN decoded' = field.value /\ msg' = msg ELSE msg' = TRUE
      /\ edit' = edit /\ record' = record /\ taken' = taken /\ pc' = pc
  BY <1>1 DEF DecodeField
<1>3. \/ ~tag.ok
      \/ tag.ok /\ ~field.ok /\ taken # record
      \/ /\ tag.ok /\ field.ok /\ field.rest \in Seq(Bytes)
         /\ \E j \in 0..FieldCount(edit) :
              field.value = Part(edit, j) /\ taken = Encoding(Part(edit, j)) \o field.rest
  BY <1>1, <1>2, DecodesNext DEF Progress
<1> HIDE DEF tag, field
<1>4. GivenBeginning'
  BY <1>1, <1>2 DEF EditInv, GivenBeginning, Decoding
<1>5. ReadFirstFields' /\ EndsExactly' /\ msg' \in BOOLEAN
  <2>1. CASE ~field.ok /\ taken # record
    BY <2>1, <1>2 DEF ReadFirstFields, EndsExactly, Decoding
  <2>2. CASE field.ok
    <3>1. PICK j \in 0..FieldCount(edit) :
            field.value = Part(edit, j) /\ taken = Encoding(Part(edit, j)) \o field.rest
      BY <2>2, <1>2, <1>3
    <3>2. /\ decoded' = Part(edit', j) /\ taken' = Encoding(Part(edit', j)) \o input'
          /\ j \in 0..FieldCount(edit') /\ input' \in Seq(Bytes)
      BY <2>2, <3>1, <1>2, <1>3
    <3>3. ReadFirstFields'
      BY <3>2 DEF ReadFirstFields
    <3> QED
      BY <2>2, <3>3, <1>1, <1>2 DEF EditInv, EndsExactly, Decoding
  <2> QED
    BY <2>1, <2>2, <1>2, <1>3
<1> QED
  BY <1>1, <1>2, <1>4, <1>5 DEF EditInv

LEMMA EditInvDone == EditInv /\ DecodingDone => EditInv'
<1>1. SUFFICES ASSUME EditInv, DecodingDone PROVE EditInv'
  OBVIOUS
<1> DEFINE tag == GetVarint32(input)
<1>2. /\ pc = "decode" /\ (msg \/ ~tag.ok) /\ msg' = (msg \/ input # <<>>) /\ pc' = "done"
      /\ edit' = edit /\ record' = record /\ taken' = taken
      /\ input' = input /\ decoded' = decoded
  BY <1>1 DEF DecodingDone
<1>3. CASE msg
  BY <1>1, <1>2, <1>3 DEF EditInv, GivenBeginning, ReadFirstFields, EndsExactly, Decoding
<1>4. CASE ~msg
  <2>1. taken # record \/ (input = <<>> /\ decoded = edit)
    BY <1>1, <1>2, <1>4, DecodesNext DEF Progress
  <2> HIDE DEF tag
  <2>2. GivenBeginning'
    BY <1>1, <1>2 DEF EditInv, GivenBeginning, Decoding
  <2>3. ReadFirstFields'
    BY <1>1, <1>2, <1>4 DEF EditInv, ReadFirstFields, Decoding
  <2>4. EndsExactly'
    BY <1>2, <1>4, <2>1 DEF EndsExactly, Decoding
  <2> QED
    BY <1>1, <1>2, <2>2, <2>3, <2>4 DEF EditInv
<1> QED
  BY <1>3, <1>4

\* The decoder has always read the edit's first fields, or has stopped at something
\* that is missing from what encode_to wrote.
THEOREM EditInvariant == Spec => []EditInv
<1>1. EditInv /\ UNCHANGED vars => EditInv'
  <2>1. SUFFICES ASSUME EditInv, UNCHANGED vars PROVE EditInv'
    OBVIOUS
  <2>2. /\ edit' = edit /\ record' = record /\ taken' = taken /\ input' = input
        /\ decoded' = decoded /\ pc' = pc /\ msg' = msg
    BY <2>1 DEF vars
  <2>3. GivenBeginning'
    BY <2>1, <2>2 DEF EditInv, GivenBeginning, Decoding
  <2>4. ReadFirstFields'
    BY <2>1, <2>2 DEF EditInv, ReadFirstFields, Decoding
  <2>5. EndsExactly'
    BY <2>1, <2>2 DEF EditInv, EndsExactly, Decoding
  <2> QED
    BY <2>1, <2>2, <2>3, <2>4, <2>5 DEF EditInv
<1>2. EditInv /\ [Next]_vars => EditInv'
  BY <1>1, EditInvFill, EditInvEncode, EditInvBegin, EditInvField, EditInvDone DEF Next
<1> QED
  BY EditInvInit, <1>2, PTL DEF Spec

\* decode_from undoes encode_to: a whole record is decoded without an error to the
\* edit that was written, for all fields but the compact pointers, which nothing
\* fills, and all files and numbers.
THEOREM EditsRoundTrip == Spec => []RoundTrip
<1>1. EditInv => RoundTrip
  BY DEF EditInv, EndsExactly, RoundTrip, Decoding
<1> QED
  BY <1>1, EditInvariant, PTL

\* Of a part of a record decode_from accepts nothing but whole fields.
THEOREM OnlyWholeEdits == Spec => []AcceptedExactly
<1>1. EditInv => AcceptedExactly
  <2>1. SUFFICES ASSUME EditInv, pc = "done", ~msg PROVE Encoding(decoded) = taken
    BY DEF AcceptedExactly
  <2>2. PICK k \in 0..FieldCount(edit) :
          decoded = Part(edit, k) /\ taken = Encoding(Part(edit, k)) \o input
    BY <2>1 DEF EditInv, ReadFirstFields, Decoding
  <2>3. input = <<>> /\ edit \in Edits
    BY <2>1 DEF EditInv, EndsExactly, GivenBeginning
  <2>4. ASSUME NEW e \in Edits, NEW i \in 0..FieldCount(e)
        PROVE  Encoding(Part(e, i)) \o <<>> = Encoding(Part(e, i))
    BY EncodingGrows, ConcatEmptySeq
  <2> QED
    BY <2>2, <2>3, <2>4
<1> QED
  BY <1>1, EditInvariant, PTL

-----------------------------------------------------------------------------
(* The checksum: functions defined by recursion along the numbers.         *)

NatRecursive(f, V, b, next) ==
    f \in [Nat -> V] /\ f[0] = b /\ \A n \in Nat \ {0} : f[n] = next[<<n, f[n - 1]>>]

IsNatFunction(g) == g = [n \in Nat |-> g[n]]

LEMMA NatRecursion ==
    ASSUME NEW V, NEW b \in V, NEW next \in [Nat \X V -> V]
    PROVE  \E f : NatRecursive(f, V, b, next)
<1> DEFINE rank == [n \in Nat |-> n]
           down == [n \in Nat |-> IF n = 0 THEN 0 ELSE n - 1]
           base == [n \in Nat |-> b]
<1>1. RecursionArgs(Nat, V, rank, down, base, next)
  BY DEF RecursionArgs
<1>2. /\ \A n \in Nat : n # 0 => rank[n] # 0 /\ down[n] = n - 1
      /\ rank[0] = 0 /\ base[0] = b
  OBVIOUS
<1> HIDE DEF rank, down, base
<1>3. PICK f : Recursive(f, Nat, V, rank, down, base, next)
  BY <1>1, Recursion
<1>4. f \in [Nat -> V] /\ f[0] = b
  BY <1>2, <1>3 DEF Recursive
<1>5. \A n \in Nat \ {0} : f[n] = next[<<n, f[n - 1]>>]
  BY <1>2, <1>3 DEF Recursive
<1> QED
  BY <1>4, <1>5 DEF NatRecursive

\* What differs from such a function at some number differs at a least one.
LEMMA NatUnique ==
    ASSUME NEW V, NEW b, NEW next, NEW f, NEW g, NatRecursive(f, V, b, next),
           IsNatFunction(g), g[0] = b,
           \A n \in Nat \ {0} : g[n - 1] \in V => g[n] = next[<<n, g[n - 1]>>]
    PROVE  g = f
<1> DEFINE Bad == {n \in Nat : g[n] # f[n]}
<1>1. Bad = {}
  <2>1. SUFFICES ASSUME Bad # {} PROVE FALSE
    OBVIOUS
  <2>2. PICK n \in Bad : \A m \in Bad : n <= m
    BY <2>1, LeastNumber
  <2>3. n \in Nat \ {0}
    BY <2>2 DEF NatRecursive
  <2>4. n - 1 \in Nat /\ n - 1 \notin Bad
    BY <2>2, <2>3
  <2>5. g[n - 1] = f[n - 1] /\ f[n - 1] \in V
    BY <2>4 DEF NatRecursive
  <2> QED
    BY <2>2, <2>3, <2>5 DEF NatRecursive
<1>2. \A n \in Nat : g[n] = f[n]
  BY <1>1
<1>3. f = [n \in Nat |-> f[n]]
  BY DEF NatRecursive
<1>4. g = [n \in Nat |-> g[n]]
  BY DEF IsNatFunction
<1> QED
  BY <1>2, <1>3, <1>4, Zenon

-----------------------------------------------------------------------------
(* Words: exclusive or and shifts.                                         *)

LEMMA WidthIsNat ==
    ByteBits \in Nat \ {0} /\ WordBits = 4 * ByteBits /\ WordBits \in Nat \ {0}
  BY WordAssumption DEF WordBits, WordBytes

LEMMA XorIsWord ==
    ASSUME NEW a \in Words, NEW b \in Words
    PROVE  a ^^ b \in Words
  BY DEF Words, ^^

LEMMA ZeroIsWord == {} \in Words /\ \A a : a ^^ {} = a /\ {} ^^ a = a
  BY DEF Words, ^^

LEMMA BytesAreWords == ByteValues \subseteq Words
  BY WidthIsNat DEF ByteValues, Words, AllOnes

LEMMA ShiftMembers ==
    ASSUME NEW w \in Words, NEW n \in Nat
    PROVE  /\ \A b : b \in Shift(w, n) <=> b \in AllOnes /\ b + n \in w
           /\ Shift(w, n) \in Words
<1>1. ASSUME NEW b, b \in Shift(w, n) PROVE b \in AllOnes /\ b + n \in w
  <2>1. PICK c \in w : c >= n /\ b = c - n
    BY <1>1 DEF Shift
  <2>2. c \in AllOnes
    BY DEF Words
  <2>3. c \in Int /\ c >= 0 /\ c <= WordBits - 1 /\ WordBits \in Nat
    BY <2>2, WidthIsNat DEF AllOnes
  <2>4. b + n = c /\ b \in 0..(WordBits - 1)
    BY <2>1, <2>3
  <2> QED
    BY <2>4 DEF AllOnes
<1>2. ASSUME NEW b \in AllOnes, b + n \in w PROVE b \in Shift(w, n)
  <2>1. b \in Nat
    BY WidthIsNat DEF AllOnes
  <2>2. b + n >= n /\ b = (b + n) - n
    BY <2>1
  <2> QED
    BY <1>2, <2>2 DEF Shift
<1> QED
  BY <1>1, <1>2 DEF Words

LEMMA ShiftXor ==
    ASSUME NEW a \in Words, NEW b \in Words, NEW n \in Nat
    PROVE  Shift(a ^^ b, n) = Shift(a, n) ^^ Shift(b, n)
<1>1. a ^^ b \in Words
  BY XorIsWord
<1>2. ASSUME NEW x PROVE x \in Shift(a ^^ b, n) <=> x \in Shift(a, n) ^^ Shift(b, n)
  <2>1. x \in Shift(a ^^ b, n) <=> x \in AllOnes /\ x + n \in a ^^ b
    BY <1>1, ShiftMembers
  <2>2. /\ x \in Shift(a, n) <=> x \in AllOnes /\ x + n \in a
        /\ x \in Shift(b, n) <=> x \in AllOnes /\ x + n \in b
    BY ShiftMembers
  <2>3. x + n \in a ^^ b <=> (x + n \in a /\ x + n \notin b) \/ (x + n \in b /\ x + n \notin a)
    BY DEF ^^
  <2> QED
    BY <2>1, <2>2, <2>3 DEF ^^
<1> QED
  BY <1>2

-----------------------------------------------------------------------------
(* Remainders: carrying is linear, and over high bits only it is a shift.  *)

LEMMA CarryBitLinear ==
    /\ \A a \in Words : CarryBit(a) \in Words
    /\ \A a, b \in Words : CarryBit(a ^^ b) = CarryBit(a) ^^ CarryBit(b)
    /\ \A a \in Words : 0 \notin a => CarryBit(a) = Shift(a, 1)
<1> DEFINE top(a) == IF 0 \in a THEN Poly ELSE {}
<1>1. Poly \in Words
  BY WordAssumption DEF Words, AllOnes
<1>2. ASSUME NEW a \in Words PROVE CarryBit(a) \in Words
  <2>1. Shift(a, 1) \in Words /\ top(a) \in Words
    BY <1>1, ShiftMembers, ZeroIsWord
  <2> QED
    BY <2>1, XorIsWord DEF CarryBit
<1>3. ASSUME NEW a \in Words, NEW b \in Words
      PROVE  CarryBit(a ^^ b) = CarryBit(a) ^^ CarryBit(b)
  <2>1. Shift(a ^^ b, 1) = Shift(a, 1) ^^ Shift(b, 1)
    BY ShiftXor
  <2>2. top(a ^^ b) = top(a) ^^ top(b)
    BY DEF ^^
  <2> DEFINE s == Shift(a, 1)
             t == Shift(b, 1)
             u == top(a)
             v == top(b)
  <2>3. CarryBit(a ^^ b) = (s ^^ t) ^^ (u ^^ v) /\ CarryBit(a) = s ^^ u /\ CarryBit(b) = t ^^ v
    BY <2>1, <2>2 DEF CarryBit
  <2> HIDE DEF s, t, u, v
  <2>4. (s ^^ t) ^^ (u ^^ v) = (s ^^ u) ^^ (t ^^ v)
    BY DEF ^^
  <2> QED
    BY <2>3, <2>4
<1>4. ASSUME NEW a \in Words, 0 \notin a PROVE CarryBit(a) = Shift(a, 1)
  BY <1>4, ZeroIsWord DEF CarryBit
<1> QED
  BY <1>2, <1>3, <1>4

LEMMA CarriedDefined ==
    /\ Carried \in [Nat -> [Words -> Words]]
    /\ \A l \in Words : Carried[0][l] = l
    /\ \A n \in Nat, l \in Words : Carried[n + 1][l] = CarryBit(Carried[n][l])
<1> DEFINE V == [Words -> Words]
           b == [l \in Words |-> l]
           next == [p \in Nat \X V |-> [l \in Words |-> CarryBit(p[2][l])]]
           E(g) == [n \in Nat |->
                      [l \in Words |-> IF n = 0 THEN l ELSE CarryBit(g[n - 1][l])]]
<1>1. b \in V
  OBVIOUS
<1>2. next \in [Nat \X V -> V]
  <2>1. \A v \in V : [l \in Words |-> CarryBit(v[l])] \in V
    BY CarryBitLinear
  <2> QED
    BY <2>1
<1>3. PICK f : NatRecursive(f, V, b, next)
  <2> HIDE DEF V, b, next
  <2> QED
    BY <1>1, <1>2, NatRecursion
<1>4. \A n \in Nat \ {0} : \A v \in V : next[<<n, v>>] = [l \in Words |-> CarryBit(v[l])]
  OBVIOUS
<1>5. f \in [Nat -> V] /\ f[0] = b /\ \A n \in Nat \ {0} : f[n] = next[<<n, f[n - 1]>>]
  BY <1>3 DEF NatRecursive
<1> HIDE DEF next
<1>6. \A n \in Nat : f[n] = [l \in Words |-> IF n = 0 THEN l ELSE CarryBit(f[n - 1][l])]
  <2>1. SUFFICES ASSUME NEW n \in Nat
                 PROVE  f[n] = [l \in Words |-> IF n = 0 THEN l ELSE CarryBit(f[n - 1][l])]
    OBVIOUS
  <2>2. CASE n = 0
    BY <2>2, <1>5
  <2>3. CASE n # 0
    <3>1. n - 1 \in Nat /\ n \in Nat \ {0}
      BY <2>3
    <3>2. f[n - 1] \in V /\ f[n] = next[<<n, f[n - 1]>>]
      BY <3>1, <1>5
    <3>3. f[n] = [l \in Words |-> CarryBit(f[n - 1][l])]
      <4> HIDE DEF V
      <4> QED
        BY <3>1, <3>2, <1>4
    <3> QED
      BY <3>3, <2>3
  <2> QED
    BY <2>2, <2>3
<1>7. f = E(f)
  <2>1. f = [n \in Nat |-> f[n]]
    BY <1>5
  <2> QED
    BY <2>1, <1>6, Zenon
<1>8. Carried = E(Carried)
  <2>1. Carried = CHOOSE g : g = E(g)
    BY DEF Carried
  <2> HIDE DEF E
  <2> QED
    BY <2>1, <1>7
<1> DEFINE g == Carried
<1> HIDE DEF g
<1>9. g = E(g)
  BY <1>8 DEF g
<1>10. \A n \in Nat : g[n] = [l \in Words |-> IF n = 0 THEN l ELSE CarryBit(g[n - 1][l])]
  BY <1>9, Zenon
<1>11. g = f
  <2>1. IsNatFunction(g)
    BY <1>9, Zenon DEF IsNatFunction
  <2>2. g[0] = b
    BY <1>10
  <2>3. \A n \in Nat \ {0} : g[n - 1] \in V => g[n] = next[<<n, g[n - 1]>>]
    <3>1. SUFFICES ASSUME NEW n \in Nat \ {0}, g[n - 1] \in V
                   PROVE  g[n] = next[<<n, g[n - 1]>>]
      OBVIOUS
    <3>2. g[n] = [l \in Words |-> CarryBit(g[n - 1][l])]
      BY <1>10
    <3> HIDE DEF V
    <3> QED
      BY <3>1, <3>2, <1>4
  <2> HIDE DEF b, V
  <2> QED
    BY <2>1, <2>2, <2>3, <1>3, NatUnique
<1>12. \A l \in Words : f[0][l] = l
  BY <1>5
<1>13. \A n \in Nat, l \in Words : f[n + 1][l] = CarryBit(f[n][l])
  <2>1. SUFFICES ASSUME NEW n \in Nat, NEW l \in Words PROVE f[n + 1][l] = CarryBit(f[n][l])
    OBVIOUS
  <2>2. n + 1 \in Nat /\ n + 1 # 0 /\ n + 1 - 1 = n
    OBVIOUS
  <2>3. f[n + 1] = [h \in Words |-> IF n + 1 = 0 THEN h ELSE CarryBit(f[n + 1 - 1][h])]
    BY <2>2, <1>6
  <2> QED
    BY <2>2, <2>3
<1> QED
  BY <1>5, <1>11, <1>12, <1>13 DEF g

LEMMA CarriedIsWord ==
    ASSUME NEW n \in Nat, NEW l \in Words
    PROVE  Carried[n][l] \in Words
  BY CarriedDefined

\* Carrying over m bits and then over n.
LEMMA CarriedTwice ==
    ASSUME NEW m \in Nat, NEW n \in Nat, NEW l \in Words
    PROVE  Carried[m + n][l] = Carried[n][Carried[m][l]]
<1> DEFINE Bad == {k \in Nat : Carried[m + k][l] # Carried[k][Carried[m][l]]}
<1>1. Carried[m][l] \in Words
  BY CarriedIsWord
<1>2. Bad = {}
  <2>1. SUFFICES ASSUME Bad # {} PROVE FALSE
    OBVIOUS
  <2>2. PICK k \in Bad : \A j \in Bad : k <= j
    BY <2>1, LeastNumber
  <2>3. k # 0
    <3>1. m + 0 = m
      OBVIOUS
    <3> QED
      BY <3>1, <1>1, <2>2, CarriedDefined
  <2> DEFINE j == k - 1
             h == m + j
  <2>4. j \in Nat /\ h \in Nat /\ h + 1 = m + k /\ j + 1 = k
    BY <2>3
  <2>5. Carried[h][l] = Carried[j][Carried[m][l]]
    BY <2>2, <2>4
  <2> HIDE DEF h, j, Bad
  <2>6. /\ Carried[h + 1][l] = CarryBit(Carried[h][l])
        /\ Carried[j + 1][Carried[m][l]] = CarryBit(Carried[j][Carried[m][l]])
    BY <1>1, <2>4, CarriedDefined
  <2>7. Carried[m + k][l] = Carried[k][Carried[m][l]]
    BY <2>4, <2>5, <2>6
  <2> QED
    BY <2>2, <2>7 DEF Bad
<1> QED
  BY <1>2

LEMMA CarriedLinear ==
    ASSUME NEW n \in Nat, NEW a \in Words, NEW b \in Words
    PROVE  Carried[n][a ^^ b] = Carried[n][a] ^^ Carried[n][b]
<1> DEFINE c == a ^^ b
           Bad == {k \in Nat : Carried[k][c] # Carried[k][a] ^^ Carried[k][b]}
<1>1. c \in Words
  BY XorIsWord
<1>2. Bad = {}
  <2>1. SUFFICES ASSUME Bad # {} PROVE FALSE
    OBVIOUS
  <2>2. PICK k \in Bad : \A j \in Bad : k <= j
    BY <2>1, LeastNumber
  <2>3. k # 0
    BY <1>1, <2>2, CarriedDefined
  <2> DEFINE j == k - 1
  <2>4. j \in Nat /\ j + 1 = k
    BY <2>3
  <2>5. Carried[j][c] = Carried[j][a] ^^ Carried[j][b]
    BY <2>2, <2>4
  <2> HIDE DEF j, c
  <2> DEFINE u == Carried[j][a]
             v == Carried[j][b]
  <2>6. u \in Words /\ v \in Words
    BY <2>4, CarriedIsWord
  <2>7. /\ Carried[j + 1][c] = CarryBit(Carried[j][c])
        /\ Carried[j + 1][a] = CarryBit(u) /\ Carried[j + 1][b] = CarryBit(v)
    BY <1>1, <2>4, CarriedDefined
  <2> HIDE DEF u, v
  <2>8. CarryBit(u ^^ v) = CarryBit(u) ^^ CarryBit(v)
    BY <2>6, CarryBitLinear
  <2>9. Carried[k][c] = Carried[k][a] ^^ Carried[k][b]
    BY <2>4, <2>5, <2>7, <2>8 DEF u, v
  <2> QED
    BY <2>2, <2>9 DEF c
<1> QED
  BY <1>2

\* Over high bits there is nothing to divide.
LEMMA CarriedHigh ==
    ASSUME NEW n \in Nat, NEW l \in Words, \A b \in l : b >= n
    PROVE  Carried[n][l] = Shift(l, n)
<1> DEFINE Bad == {k \in 0..n : Carried[k][l] # Shift(l, k)}
<1>1. l \subseteq AllOnes /\ AllOnes \subseteq Nat
  BY WidthIsNat DEF Words, AllOnes
<1>2. Bad = {}
  <2>1. SUFFICES ASSUME Bad # {} PROVE FALSE
    OBVIOUS
  <2>2. PICK k \in Bad : \A j \in Bad : k <= j
    <3>1. Bad \in SUBSET Nat
      OBVIOUS
    <3> HIDE DEF Bad
    <3> QED
      BY <2>1, <3>1, LeastNumber
  <2>3. k # 0
    <3>1. Carried[0][l] = l
      BY CarriedDefined
    <3>2. ASSUME NEW b PROVE b \in Shift(l, 0) <=> b \in l
      <4>1. b \in Shift(l, 0) <=> b \in AllOnes /\ b + 0 \in l
        BY ShiftMembers
      <4>2. ASSUME b \in AllOnes PROVE b + 0 = b
        <5>1. b \in Nat
          BY <1>1, <4>2
        <5> QED
          BY <5>1
      <4> QED
        BY <4>1, <4>2, <1>1
    <3>3. Shift(l, 0) = l
      BY <3>2
    <3> QED
      BY <2>2, <3>1, <3>3
  <2> DEFINE j == k - 1
             s == Shift(l, j)
  <2>4. j \in Nat /\ j + 1 = k /\ j < n
    BY <2>2, <2>3
  <2>5. Carried[j][l] = s
    BY <2>2, <2>4
  <2> HIDE DEF j
  <2>6. s \in Words /\ \A b : b \in s <=> b \in AllOnes /\ b + j \in l
    BY <2>4, ShiftMembers
  <2> HIDE DEF s
  <2>7. 0 \notin s
    <3>1. 0 + j = j
      BY <2>4
    <3> QED
      BY <3>1, <2>4, <2>6
  <2>8. Carried[k][l] = Shift(s, 1)
    <3>1. Carried[j + 1][l] = CarryBit(Carried[j][l])
      BY <2>4, CarriedDefined
    <3> QED
      BY <2>4, <2>5, <2>6, <2>7, <3>1, CarryBitLinear
  <2>9. ASSUME NEW b PROVE b \in Shift(s, 1) <=> b \in Shift(l, k)
    <3>1. b \in Shift(s, 1) <=> b \in AllOnes /\ b + 1 \in AllOnes /\ (b + 1) + j \in l
      BY <2>6, ShiftMembers
    <3>2. b \in Shift(l, k) <=> b \in AllOnes /\ b + k \in l
      BY <2>4, ShiftMembers
    <3>3. ASSUME b \in AllOnes PROVE (b + 1) + j = b + k /\ (b + k \in l => b + 1 \in AllOnes)
      <4>1. b \in Nat
        BY <1>1, <3>3
      <4>2. ASSUME b + k \in l PROVE b + 1 \in AllOnes
        <5>1. b + k \in 0..(WordBits - 1)
          BY <1>1, <4>2 DEF AllOnes
        <5> QED
          BY <5>1, <4>1, <2>4, WidthIsNat DEF AllOnes
      <4> QED
        BY <4>1, <4>2, <2>4
    <3> QED
      BY <3>1, <3>2, <3>3
  <2>10. Shift(s, 1) = Shift(l, k)
    BY <2>9
  <2> QED
    BY <2>2, <2>8, <2>10
<1>3. n \in 0..n
  OBVIOUS
<1> QED
  BY <1>2, <1>3

-----------------------------------------------------------------------------
(* Words, carried over bytes.                                              *)

CarriedBytes(n, l) == Carried[n * ByteBits][l]

LEMMA CarriedBytesIsWord ==
    ASSUME NEW n \in Nat, NEW l \in Words
    PROVE  CarriedBytes(n, l) \in Words
<1>1. n * ByteBits \in Nat
  BY WidthIsNat
<1> QED
  BY <1>1, CarriedIsWord DEF CarriedBytes

LEMMA CarriedBytesTwice ==
    ASSUME NEW m \in Nat, NEW n \in Nat, NEW l \in Words
    PROVE  CarriedBytes(m + n, l) = CarriedBytes(n, CarriedBytes(m, l))
<1> DEFINE s == m * ByteBits
           t == n * ByteBits
<1>1. s \in Nat /\ t \in Nat /\ (m + n) * ByteBits = s + t
  BY WidthIsNat
<1> HIDE DEF s, t
<1>2. Carried[s + t][l] = Carried[t][Carried[s][l]]
  BY <1>1, CarriedTwice
<1> QED
  BY <1>1, <1>2 DEF CarriedBytes, s, t

LEMMA CarriedBytesLinear ==
    ASSUME NEW n \in Nat, NEW a \in Words, NEW b \in Words
    PROVE  CarriedBytes(n, a ^^ b) = CarriedBytes(n, a) ^^ CarriedBytes(n, b)
<1>1. n * ByteBits \in Nat
  BY WidthIsNat
<1> QED
  BY <1>1, CarriedLinear DEF CarriedBytes

LEMMA CarriedBytesFew ==
    ASSUME NEW l \in Words
    PROVE  CarriedBytes(0, l) = l /\ CarriedBytes(1, l) = CarryByte(l)
<1>1. 0 * ByteBits = 0 /\ 1 * ByteBits = ByteBits
  BY WidthIsNat
<1> QED
  BY <1>1, CarriedDefined DEF CarriedBytes, CarryByte

\* The bytes of a word.
LEMMA ByteOfMembers ==
    ASSUME NEW w \in Words, NEW i \in Nat
    PROVE  /\ ByteOf(w, i) \in ByteValues
           /\ \A b : b \in ByteOf(w, i) <=> b \in 0..(ByteBits - 1) /\ b + i * ByteBits \in w
<1> DEFINE n == i * ByteBits
<1>1. n \in Nat
  BY WidthIsNat
<1>2. ByteOf(w, i) = {b \in Shift(w, n) : b < ByteBits}
  BY DEF ByteOf
<1> HIDE DEF n
<1>3. \A b : b \in Shift(w, n) <=> b \in AllOnes /\ b + n \in w
  BY <1>1, ShiftMembers
<1>4. \A b : b \in 0..(ByteBits - 1) <=> b \in AllOnes /\ b < ByteBits
  BY WidthIsNat DEF AllOnes
<1>5. \A b : b \in ByteOf(w, i) <=> b \in 0..(ByteBits - 1) /\ b + n \in w
  BY <1>2, <1>3, <1>4
<1>6. ByteOf(w, i) \in ByteValues
  BY <1>5 DEF ByteValues
<1> QED
  BY <1>5, <1>6 DEF n

LEMMA LowByte ==
    ASSUME NEW w \in Words
    PROVE  /\ ByteOf(w, 0) \in ByteValues
           /\ \A b : b \in ByteOf(w, 0) <=> b \in w /\ b < ByteBits
<1>1. 0 * ByteBits = 0
  BY WidthIsNat
<1>2. \A b : b \in w => b \in Nat
  BY WidthIsNat DEF Words, AllOnes
<1>3. \A b : b \in 0..(ByteBits - 1) => b \in Nat /\ b < ByteBits
  BY WidthIsNat
<1>4. \A b \in Nat : b + 0 = b
  OBVIOUS
<1>5. \A b \in Nat : b < ByteBits => b \in 0..(ByteBits - 1)
  BY WidthIsNat
<1>6. \A b : b \in ByteOf(w, 0) <=> b \in 0..(ByteBits - 1) /\ b + 0 \in w
  BY <1>1, ByteOfMembers
<1>7. ByteOf(w, 0) \in ByteValues
  BY ByteOfMembers
<1> QED
  BY <1>2, <1>3, <1>4, <1>5, <1>6, <1>7

\* One round of the loop of STEP4W: the table looks up the low byte, the others move.
LEMMA StepWCarries ==
    ASSUME NEW w \in Words
    PROVE  StepW(w) = CarriedBytes(1, w)
<1> DEFINE low == ByteOf(w, 0)
           rest == w \ low
<1>1. low \in ByteValues /\ \A b : b \in low <=> b \in w /\ b < ByteBits
  BY LowByte
<1>2. low \in Words /\ rest \in Words /\ w = rest ^^ low
  <2> HIDE DEF low
  <2> QED
    BY <1>1, BytesAreWords DEF Words, ^^
<1>3. w \subseteq Nat
  BY WidthIsNat DEF Words, AllOnes
<1>4. \A b \in rest : b >= ByteBits
  <2> HIDE DEF low
  <2> QED
    BY <1>1, <1>3, WidthIsNat
<1>5. Shift(rest, ByteBits) = Shift(w, ByteBits)
  <2>1. {c \in rest : c >= ByteBits} = {c \in w : c >= ByteBits}
    <3>1. ASSUME NEW c \in w, c >= ByteBits PROVE c \notin low
      <4>1. c \in Nat /\ ~(c < ByteBits)
        BY <1>3, <3>1, WidthIsNat
      <4> QED
        BY <1>1, <4>1
    <3> HIDE DEF low
    <3> QED
      BY <3>1
  <2> QED
    BY <2>1 DEF Shift
<1>6. ByteExtensionTable[low] = CarryByte(low)
  BY <1>1 DEF ByteExtensionTable
<1>7. StepW(w) = Shift(rest, ByteBits) ^^ CarryByte(low)
  BY <1>5, <1>6 DEF StepW
<1> HIDE DEF low, rest
<1>8. Carried[ByteBits][rest] = Shift(rest, ByteBits)
  BY <1>2, <1>4, WidthIsNat, CarriedHigh
<1>9. Carried[ByteBits][rest ^^ low] = Carried[ByteBits][rest] ^^ Carried[ByteBits][low]
  BY <1>2, WidthIsNat, CarriedLinear
<1>10. CarriedBytes(1, w) = CarryByte(w)
  BY CarriedBytesFew
<1> QED
  BY <1>2, <1>7, <1>8, <1>9, <1>10 DEF CarryByte

\* STEP1 divides the byte that it reads and the low byte of the remainder at once.
LEMMA Step1Carries ==
    ASSUME NEW l \in Words, NEW byte \in ByteValues
    PROVE  Step1(l, byte) = CarriedBytes(1, l ^^ byte) /\ Step1(l, byte) \in Words
<1> DEFINE w == l ^^ byte
<1>1. byte \in Words /\ w \in Words
  BY BytesAreWords, XorIsWord
<1>2. ByteOf(w, 0) = ByteOf(l, 0) ^^ byte
  <2>1. \A b : b \in ByteOf(w, 0) <=> b \in w /\ b < ByteBits
    BY <1>1, LowByte
  <2>2. \A b : b \in ByteOf(l, 0) <=> b \in l /\ b < ByteBits
    BY LowByte
  <2>3. \A b \in byte : b < ByteBits
    BY WidthIsNat DEF ByteValues
  <2> QED
    BY <2>1, <2>2, <2>3 DEF ^^
<1>3. Shift(w, ByteBits) = Shift(l, ByteBits)
  <2>1. {c \in w : c >= ByteBits} = {c \in l : c >= ByteBits}
    <3>1. \A b \in byte : ~(b >= ByteBits)
      BY WidthIsNat DEF ByteValues
    <3> QED
      BY <3>1 DEF ^^
  <2> QED
    BY <2>1 DEF Shift
<1> DEFINE s == Shift(w, ByteBits)
           t == ByteExtensionTable[ByteOf(w, 0)]
<1>4. StepW(w) = s ^^ t
  BY DEF StepW
<1>5. Step1(l, byte) = t ^^ s
  BY <1>2, <1>3 DEF Step1
<1> HIDE DEF s, t
<1>6. s ^^ t = t ^^ s
  BY DEF ^^
<1> HIDE DEF w
<1>7. StepW(w) = CarriedBytes(1, w) /\ CarriedBytes(1, w) \in Words
  BY <1>1, StepWCarries, CarriedBytesIsWord
<1> QED
  BY <1>4, <1>5, <1>6, <1>7 DEF w

LEMMA Step4WCarries ==
    ASSUME NEW l \in Words, NEW w \in Words
    PROVE  Step4W(l, w) = CarriedBytes(4, w ^^ l) /\ Step4W(l, w) \in Words
<1> DEFINE u == w ^^ l
<1>1. u \in Words
  BY XorIsWord
<1> HIDE DEF u
<1> DEFINE c1 == CarriedBytes(1, u)
           c2 == CarriedBytes(2, u)
           c3 == CarriedBytes(3, u)
           c4 == CarriedBytes(4, u)
<1>2. c1 \in Words /\ c2 \in Words /\ c3 \in Words /\ c4 \in Words
  BY <1>1, CarriedBytesIsWord
<1>3. /\ CarriedBytes(1 + 1, u) = CarriedBytes(1, c1)
      /\ CarriedBytes(2 + 1, u) = CarriedBytes(1, c2)
      /\ CarriedBytes(3 + 1, u) = CarriedBytes(1, c3)
  BY <1>1, CarriedBytesTwice
<1>4. 1 + 1 = 2 /\ 2 + 1 = 3 /\ 3 + 1 = 4
  OBVIOUS
<1>5. c2 = CarriedBytes(1, c1) /\ c3 = CarriedBytes(1, c2) /\ c4 = CarriedBytes(1, c3)
  BY <1>3, <1>4
<1>6. c1 = CarriedBytes(1, u)
  OBVIOUS
<1> HIDE DEF c1, c2, c3, c4
<1>7. /\ StepW(u) = CarriedBytes(1, u) /\ StepW(c1) = CarriedBytes(1, c1)
      /\ StepW(c2) = CarriedBytes(1, c2) /\ StepW(c3) = CarriedBytes(1, c3)
  BY <1>1, <1>2, StepWCarries
<1>8. Step4W(l, w) = StepW(StepW(StepW(StepW(u))))
  BY DEF Step4W, u
<1>9. Step4W(l, w) = c4 /\ c4 \in Words
  BY <1>2, <1>5, <1>6, <1>7, <1>8
<1> QED
  BY <1>9 DEF c4, u

-----------------------------------------------------------------------------
(* A word and its four bytes.                                              *)

\* A byte, moved up by i bytes.
Up(d, i) == {b + i * ByteBits : b \in d}

Composed(d0, d1, d2, d3) == (Up(d0, 0) ^^ Up(d1, 1)) ^^ (Up(d2, 2) ^^ Up(d3, 3))

LEMMA UpIsWord ==
    ASSUME NEW d \in ByteValues, NEW i \in 0..3
    PROVE  /\ Up(d, i) \in Words
           /\ \A b \in Up(d, i) : b \in Nat /\ b >= i * ByteBits /\ b < (i + 1) * ByteBits
           /\ CarriedBytes(i, Up(d, i)) = d
<1> DEFINE n == i * ByteBits
           u == Up(d, i)
<1>1. n \in Nat /\ (i + 1) * ByteBits = n + ByteBits /\ n + ByteBits <= WordBits
  <2>1. i = 0 \/ i = 1 \/ i = 2 \/ i = 3
    OBVIOUS
  <2> QED
    BY <2>1, WidthIsNat
<1>2. d \subseteq Nat /\ \A b \in d : b < ByteBits
  BY WidthIsNat DEF ByteValues
<1>3. u = {b + n : b \in d}
  BY DEF Up
<1> HIDE DEF n, u
<1>4. \A b \in u : b \in Nat /\ b >= n /\ b < n + ByteBits
  BY <1>1, <1>2, <1>3, WidthIsNat
<1>5. u \in Words
  BY <1>1, <1>4, WidthIsNat DEF Words, AllOnes
<1>6. Carried[n][u] = Shift(u, n)
  BY <1>1, <1>4, <1>5, CarriedHigh
<1>7. Shift(u, n) = d
  <2>1. ASSUME NEW b PROVE b \in Shift(u, n) => b \in d
    <3>1. SUFFICES ASSUME b \in Shift(u, n) PROVE b \in d
      OBVIOUS
    <3>2. PICK c \in u : b = c - n
      BY <3>1 DEF Shift
    <3>3. PICK e \in d : c = e + n
      BY <1>3
    <3>4. e \in Nat
      BY <1>2
    <3>5. b = e
      BY <1>1, <3>2, <3>3, <3>4
    <3> QED
      BY <3>5
  <2>2. ASSUME NEW b \in d PROVE b \in Shift(u, n)
    <3>1. b \in Nat /\ b + n \in u
      BY <1>2, <1>3
    <3>2. b + n >= n /\ (b + n) - n = b
      BY <1>1, <3>1
    <3> QED
      BY <3>1, <3>2 DEF Shift
  <2> QED
    BY <2>1, <2>2
<1>8. CarriedBytes(i, u) = d
  BY <1>6, <1>7 DEF CarriedBytes, n
<1> QED
  BY <1>1, <1>4, <1>5, <1>8 DEF n, u

\* The bytes of a word do not overlap.
LEMMA ComposedMembers ==
    ASSUME NEW d0 \in ByteValues, NEW d1 \in ByteValues,
           NEW d2 \in ByteValues, NEW d3 \in ByteValues
    PROVE  Composed(d0, d1, d2, d3) = Up(d0, 0) \cup Up(d1, 1) \cup Up(d2, 2) \cup Up(d3, 3)
<1> DEFINE u0 == Up(d0, 0)
           u1 == Up(d1, 1)
           u2 == Up(d2, 2)
           u3 == Up(d3, 3)
<1>1. /\ \A b \in u0 : b \in Nat /\ b < ByteBits
      /\ \A b \in u1 : b \in Nat /\ b >= ByteBits /\ b < 2 * ByteBits
      /\ \A b \in u2 : b \in Nat /\ b >= 2 * ByteBits /\ b < 3 * ByteBits
      /\ \A b \in u3 : b \in Nat /\ b >= 3 * ByteBits
  <2>1. \A b \in u0 : b \in Nat /\ b >= 0 * ByteBits /\ b < (0 + 1) * ByteBits
    BY UpIsWord
  <2>2. \A b \in u1 : b \in Nat /\ b >= 1 * ByteBits /\ b < (1 + 1) * ByteBits
    BY UpIsWord
  <2>3. \A b \in u2 : b \in Nat /\ b >= 2 * ByteBits /\ b < (2 + 1) * ByteBits
    BY UpIsWord
  <2>4. \A b \in u3 : b \in Nat /\ b >= 3 * ByteBits /\ b < (3 + 1) * ByteBits
    BY UpIsWord
  <2> HIDE DEF u0, u1, u2, u3
  <2>5. /\ (0 + 1) * ByteBits = ByteBits /\ 1 * ByteBits = ByteBits
        /\ (1 + 1) * ByteBits = 2 * ByteBits /\ (2 + 1) * ByteBits = 3 * ByteBits
    BY WidthIsNat
  <2> QED
    BY <2>1, <2>2, <2>3, <2>4, <2>5
<1>2. Composed(d0, d1, d2, d3) = (u0 ^^ u1) ^^ (u2 ^^ u3)
  BY DEF Composed
<1> HIDE DEF u0, u1, u2, u3
<1>3. /\ u0 \cap u1 = {} /\ u0 \cap u2 = {} /\ u0 \cap u3 = {}
      /\ u1 \cap u2 = {} /\ u1 \cap u3 = {} /\ u2 \cap u3 = {}
  BY <1>1, WidthIsNat
<1>4. (u0 ^^ u1) ^^ (u2 ^^ u3) = u0 \cup u1 \cup u2 \cup u3
  BY <1>3 DEF ^^
<1> QED
  BY <1>2, <1>4 DEF u0, u1, u2, u3

LEMMA WordOfBytes ==
    ASSUME NEW w \in Words
    PROVE  w = Composed(ByteOf(w, 0), ByteOf(w, 1), ByteOf(w, 2), ByteOf(w, 3))
<1> DEFINE U(i) == Up(ByteOf(w, i), i)
<1>1. \A i \in 0..3 : ByteOf(w, i) \in ByteValues
  BY ByteOfMembers
<1>2. Composed(ByteOf(w, 0), ByteOf(w, 1), ByteOf(w, 2), ByteOf(w, 3))
        = U(0) \cup U(1) \cup U(2) \cup U(3)
  BY <1>1, ComposedMembers
<1>3. ASSUME NEW i \in 0..3, NEW c PROVE c \in U(i) => c \in w
  <2>1. SUFFICES ASSUME c \in U(i) PROVE c \in w
    OBVIOUS
  <2>2. PICK b \in ByteOf(w, i) : c = b + i * ByteBits
    BY <2>1 DEF Up
  <2> QED
    BY <2>2, ByteOfMembers
<1>4. ASSUME NEW i \in 0..3, NEW c \in w, c >= i * ByteBits, c < (i + 1) * ByteBits
      PROVE  c \in U(i)
  <2> DEFINE n == i * ByteBits
             b == c - n
  <2>1. c \in Nat /\ n \in Nat /\ (i + 1) * ByteBits = n + ByteBits
    BY WidthIsNat DEF Words, AllOnes
  <2>2. b \in 0..(ByteBits - 1) /\ b + n = c
    BY <2>1, <1>4, WidthIsNat
  <2>3. b \in ByteOf(w, i)
    BY <2>2, ByteOfMembers
  <2>4. b + i * ByteBits = c
    BY <2>2
  <2> HIDE DEF b, n
  <2> QED
    BY <2>3, <2>4 DEF Up
<1>5. ASSUME NEW c \in w PROVE \E i \in 0..3 : c \in U(i)
  <2>1. c \in Nat /\ c < 4 * ByteBits
    BY WidthIsNat DEF Words, AllOnes
  <2>2. \/ c >= 0 * ByteBits /\ c < (0 + 1) * ByteBits
        \/ c >= 1 * ByteBits /\ c < (1 + 1) * ByteBits
        \/ c >= 2 * ByteBits /\ c < (2 + 1) * ByteBits
        \/ c >= 3 * ByteBits /\ c < (3 + 1) * ByteBits
    BY <2>1, WidthIsNat
  <2>3. 0 \in 0..3 /\ 1 \in 0..3 /\ 2 \in 0..3 /\ 3 \in 0..3
    OBVIOUS
  <2> HIDE DEF U
  <2> QED
    BY <2>2, <2>3, <1>4
<1>6. \A i \in 0..3 : i = 0 \/ i = 1 \/ i = 2 \/ i = 3
  OBVIOUS
<1>7. 0 \in 0..3 /\ 1 \in 0..3 /\ 2 \in 0..3 /\ 3 \in 0..3
  OBVIOUS
<1> HIDE DEF U
<1>8. ASSUME NEW c PROVE c \in w <=> c \in U(0) \cup U(1) \cup U(2) \cup U(3)
  BY <1>3, <1>5, <1>6, <1>7
<1> QED
  BY <1>2, <1>8

\* What the four bytes of a word amount to once the word is carried over n bytes.
LEMMA ComposedCarries ==
    ASSUME NEW d0 \in ByteValues, NEW d1 \in ByteValues,
           NEW d2 \in ByteValues, NEW d3 \in ByteValues, NEW n \in Nat, n >= 3
    PROVE  /\ Composed(d0, d1, d2, d3) \in Words
           /\ CarriedBytes(n, Composed(d0, d1, d2, d3))
                = (CarriedBytes(n, d0) ^^ CarriedBytes(n - 1, d1))
                    ^^ (CarriedBytes(n - 2, d2) ^^ CarriedBytes(n - 3, d3))
<1>1. ASSUME NEW d \in ByteValues, NEW i \in 0..3
      PROVE  Up(d, i) \in Words /\ CarriedBytes(n, Up(d, i)) = CarriedBytes(n - i, d)
  <2> DEFINE k == n - i
             u == Up(d, i)
  <2>1. k \in Nat /\ i \in Nat /\ i + k = n
    OBVIOUS
  <2>2. u \in Words /\ CarriedBytes(i, u) = d
    BY UpIsWord
  <2> HIDE DEF k, u
  <2>3. CarriedBytes(i + k, u) = CarriedBytes(k, CarriedBytes(i, u))
    BY <2>1, <2>2, CarriedBytesTwice
  <2>4. u \in Words /\ CarriedBytes(n, u) = CarriedBytes(k, d)
    BY <2>1, <2>2, <2>3
  <2> QED
    BY <2>4 DEF k, u
<1> DEFINE u0 == Up(d0, 0)
           u1 == Up(d1, 1)
           u2 == Up(d2, 2)
           u3 == Up(d3, 3)
<1>2. /\ u0 \in Words /\ CarriedBytes(n, u0) = CarriedBytes(n - 0, d0)
      /\ u1 \in Words /\ CarriedBytes(n, u1) = CarriedBytes(n - 1, d1)
      /\ u2 \in Words /\ CarriedBytes(n, u2) = CarriedBytes(n - 2, d2)
      /\ u3 \in Words /\ CarriedBytes(n, u3) = CarriedBytes(n - 3, d3)
  BY <1>1
<1>3. n - 0 = n
  OBVIOUS
<1>4. Composed(d0, d1, d2, d3) = (u0 ^^ u1) ^^ (u2 ^^ u3)
  BY DEF Composed
<1> HIDE DEF u0, u1, u2, u3
<1> DEFINE v == u0 ^^ u1
           w == u2 ^^ u3
<1>5. v \in Words /\ w \in Words
  BY <1>2, XorIsWord
<1>6. /\ CarriedBytes(n, v) = CarriedBytes(n, u0) ^^ CarriedBytes(n, u1)
      /\ CarriedBytes(n, w) = CarriedBytes(n, u2) ^^ CarriedBytes(n, u3)
  BY <1>2, CarriedBytesLinear
<1>7. Composed(d0, d1, d2, d3) = v ^^ w
  BY <1>4
<1> HIDE DEF v, w
<1>8. v ^^ w \in Words /\ CarriedBytes(n, v ^^ w) = CarriedBytes(n, v) ^^ CarriedBytes(n, w)
  BY <1>5, XorIsWord, CarriedBytesLinear
<1> QED
  BY <1>2, <1>3, <1>6, <1>7, <1>8

\* STEP4 carries a lane over sixteen bytes, byte by byte.
LEMMA Step4Carries ==
    ASSUME NEW lane \in Words, NEW word \in Words
    PROVE  /\ Step4(lane, word) = word ^^ CarriedBytes(16, lane)
           /\ Step4(lane, word) \in Words
<1> DEFINE d0 == ByteOf(lane, 0)
           d1 == ByteOf(lane, 1)
           d2 == ByteOf(lane, 2)
           d3 == ByteOf(lane, 3)
           carried == [i \in 0..3 |-> StrideExtensionTable[3 - i][ByteOf(lane, i)]]
<1>1. d0 \in ByteValues /\ d1 \in ByteValues /\ d2 \in ByteValues /\ d3 \in ByteValues
  BY ByteOfMembers
<1>2. ASSUME NEW i \in 0..3 PROVE carried[i] = CarriedBytes(16 - i, ByteOf(lane, i))
  <2>1. carried[i] = StrideExtensionTable[3 - i][ByteOf(lane, i)]
    OBVIOUS
  <2>2. 3 - i \in 0..3 /\ 13 + (3 - i) = 16 - i
    OBVIOUS
  <2>3. ByteOf(lane, i) \in ByteValues
    BY ByteOfMembers
  <2> DEFINE j == 3 - i
             c == ByteOf(lane, i)
  <2> HIDE DEF j, c
  <2>4. StrideExtensionTable[j][c] = Carried[(13 + j) * ByteBits][c]
    BY <2>2, <2>3 DEF StrideExtensionTable, j, c
  <2> QED
    BY <2>1, <2>2, <2>4 DEF CarriedBytes, j, c
<1>3. /\ carried[0] = CarriedBytes(16 - 0, d0) /\ carried[1] = CarriedBytes(16 - 1, d1)
      /\ carried[2] = CarriedBytes(16 - 2, d2) /\ carried[3] = CarriedBytes(16 - 3, d3)
  BY <1>2
<1>4. Step4(lane, word) = word ^^ ((carried[0] ^^ carried[1]) ^^ (carried[2] ^^ carried[3]))
  BY DEF Step4
<1>5. lane = Composed(d0, d1, d2, d3)
  BY WordOfBytes
<1> HIDE DEF carried, d0, d1, d2, d3
<1>6. CarriedBytes(16, Composed(d0, d1, d2, d3))
        = (CarriedBytes(16, d0) ^^ CarriedBytes(16 - 1, d1))
            ^^ (CarriedBytes(16 - 2, d2) ^^ CarriedBytes(16 - 3, d3))
  BY <1>1, ComposedCarries
<1>7. 16 - 0 = 16
  OBVIOUS
<1>8. Step4(lane, word) = word ^^ CarriedBytes(16, lane)
  BY <1>3, <1>4, <1>5, <1>6, <1>7
<1> QED
  BY <1>8, CarriedBytesIsWord, XorIsWord

-----------------------------------------------------------------------------
(* The remainder that the bytes really have.                               *)

\* The remainder before every byte from first to last.
Running(r, l, first, last) ==
    /\ r[first] = l /\ \A i \in first..last : r[i] \in Words
    /\ \A i \in (first + 1)..last : r[i] = CarriedBytes(1, r[i - 1] ^^ data[i])

InData(first, last) ==
    data \in Seq(ByteValues) /\ first \in Nat /\ last \in Nat /\ first <= last /\ last <= Len(data)

LEMMA ExtendedRuns ==
    ASSUME NEW l \in Words, NEW first, NEW last, InData(first, last)
    PROVE  \E r : Running(r, l, first, last) /\ Extended(l, first, last) = r[last]
<1> DEFINE D == first..last
           V == Words
           rank == [i \in D |-> i - first]
           down == [i \in D |-> IF i = first THEN first ELSE i - 1]
           base == [i \in D |-> l]
           next == [p \in D \X V |-> IF p[1] = first THEN l ELSE CarryByte(p[2] ^^ data[p[1]])]
           E(g) == [i \in D |-> IF i = first THEN l ELSE CarryByte(g[i - 1] ^^ data[i])]
<1>1. /\ first \in Nat /\ last \in Nat /\ first <= last /\ first \in D /\ last \in D
      /\ \A i \in D : i # first => i - 1 \in D /\ i \in (first + 1)..last
      /\ \A i \in D : i \in Nat
  BY DEF InData
<1>2. \A i \in D : i # first => data[i] \in Words
  <2>1. SUFFICES ASSUME NEW i \in D, i # first PROVE data[i] \in Words
    OBVIOUS
  <2>2. i \in 1..Len(data) /\ data \in Seq(ByteValues)
    BY <2>1, <1>1 DEF InData
  <2>3. data[i] \in ByteValues
    <3> HIDE DEF D
    <3> QED
      BY <2>2, ElementOfSeq
  <2> QED
    BY <2>3, BytesAreWords
<1>3. \A i \in D, w \in V : i # first => CarryByte(w ^^ data[i]) \in V
  <2>1. SUFFICES ASSUME NEW i \in D, NEW w \in V, i # first PROVE CarryByte(w ^^ data[i]) \in V
    OBVIOUS
  <2>2. w ^^ data[i] \in Words
    BY <2>1, <1>2, XorIsWord
  <2> QED
    BY <2>2, CarriedIsWord, WidthIsNat DEF CarryByte
<1>4. RecursionArgs(D, V, rank, down, base, next)
  <2>1. rank \in [D -> Nat] /\ down \in [D -> D] /\ base \in [D -> V]
    BY <1>1
  <2>2. next \in [D \X V -> V]
    <3> HIDE DEF V, D
    <3> QED
      BY <1>3 DEF V
  <2>3. \A i \in D : rank[i] > 0 => rank[down[i]] < rank[i]
    BY <1>1
  <2> HIDE DEF rank, down, base, next, D, V
  <2> QED
    BY <2>1, <2>2, <2>3 DEF RecursionArgs
<1>5. PICK f : Recursive(f, D, V, rank, down, base, next)
  <2> HIDE DEF rank, down, base, next, D, V
  <2> QED
    BY <1>4, Recursion
<1>6. f \in [D -> V]
  BY <1>5 DEF Recursive
<1>7. \A i \in D : f[i] = IF i = first THEN l ELSE CarryByte(f[i - 1] ^^ data[i])
  <2>1. SUFFICES ASSUME NEW i \in D
                 PROVE  f[i] = IF i = first THEN l ELSE CarryByte(f[i - 1] ^^ data[i])
    OBVIOUS
  <2>2. CASE i = first
    <3>1. rank[i] = 0 /\ base[i] = l
      BY <2>2, <1>1
    <3> HIDE DEF rank, base, D
    <3> QED
      BY <2>2, <3>1, <1>5 DEF Recursive
  <2>3. CASE i # first
    <3>1. rank[i] # 0 /\ down[i] = i - 1 /\ i - 1 \in D
      BY <2>3, <1>1
    <3>2. f[i] = next[<<i, f[i - 1]>>] /\ f[i - 1] \in V
      <4> HIDE DEF rank, down, base, next, D, V
      <4> QED
        BY <3>1, <1>5, <1>6 DEF Recursive
    <3>3. next[<<i, f[i - 1]>>] = CarryByte(f[i - 1] ^^ data[i])
      <4> HIDE DEF D, V
      <4> QED
        BY <3>2, <2>3
    <3> QED
      BY <3>2, <3>3, <2>3
  <2> QED
    BY <2>2, <2>3
<1>8. f = E(f)
  BY <1>6, <1>7, Zenon
<1> DEFINE g == CHOOSE h : h = E(h)
<1>9. g = E(g)
  <2> HIDE DEF E
  <2> QED
    BY <1>8
<1>10. Extended(l, first, last) = g[last]
  BY DEF Extended
<1> HIDE DEF g
<1>11. \A i \in D : g[i] = IF i = first THEN l ELSE CarryByte(g[i - 1] ^^ data[i])
  BY <1>9, Zenon
<1>12. \A i \in D : g[i] \in V
  <2> DEFINE Bad == {i \in D : g[i] \notin V}
  <2>1. SUFFICES ASSUME Bad # {} PROVE FALSE
    OBVIOUS
  <2>2. Bad \in SUBSET Nat
    BY <1>1
  <2>3. PICK i \in Bad : \A j \in Bad : i <= j
    <3> HIDE DEF Bad
    <3> QED
      BY <2>1, <2>2, LeastNumber
  <2>4. i # first
    BY <2>3, <1>1, <1>11
  <2>5. i \in D /\ i \in Nat /\ i - 1 \in D /\ i - 1 \notin Bad
    BY <2>3, <2>4, <1>1
  <2>6. g[i - 1] \in V /\ g[i] = CarryByte(g[i - 1] ^^ data[i])
    BY <2>4, <2>5, <1>11
  <2> QED
    BY <2>3, <2>4, <2>5, <2>6, <1>3
<1>13. g[first] = l
  BY <1>1, <1>11
<1>14. \A i \in (first + 1)..last : g[i] = CarriedBytes(1, g[i - 1] ^^ data[i])
  <2>1. SUFFICES ASSUME NEW i \in (first + 1)..last
                 PROVE  g[i] = CarriedBytes(1, g[i - 1] ^^ data[i])
    OBVIOUS
  <2>2. i \in D /\ i # first /\ i - 1 \in D
    BY <1>1
  <2>3. g[i] = CarryByte(g[i - 1] ^^ data[i]) /\ g[i - 1] ^^ data[i] \in Words
    BY <2>2, <1>2, <1>11, <1>12, XorIsWord
  <2> QED
    BY <2>3, CarriedBytesFew
<1>15. Running(g, l, first, last)
  BY <1>12, <1>13, <1>14 DEF Running
<1> QED
  BY <1>10, <1>15

\* ReadUint32LE puts four bytes together, the first of them lowest.
LEMMA ReadIsComposed ==
    ASSUME NEW p, InData(p, p + 4)
    PROVE  /\ data[p + 1] \in ByteValues /\ data[p + 2] \in ByteValues
           /\ data[p + 3] \in ByteValues /\ data[p + 4] \in ByteValues
           /\ ReadUint32LE(p) = Composed(data[p + 1], data[p + 2], data[p + 3], data[p + 4])
           /\ ReadUint32LE(p) \in Words
<1>1. p \in Nat /\ \A i \in 1..4 : p + i \in 1..Len(data)
  BY DEF InData
<1>2. \A i \in 1..4 : data[p + i] \in ByteValues
  BY <1>1, ElementOfSeq DEF InData
<1> DEFINE U(i) == {b + i * ByteBits : b \in data[p + i + 1]}
<1>3. 0..(WordBytes - 1) = {0, 1, 2, 3}
  BY DEF WordBytes
<1>4. ReadUint32LE(p) = UNION {U(i) : i \in 0..(WordBytes - 1)}
  BY DEF ReadUint32LE
<1>5. p + 0 + 1 = p + 1 /\ p + 1 + 1 = p + 2 /\ p + 2 + 1 = p + 3 /\ p + 3 + 1 = p + 4
  BY <1>1
<1>6. /\ U(0) = Up(data[p + 1], 0) /\ U(1) = Up(data[p + 2], 1)
      /\ U(2) = Up(data[p + 3], 2) /\ U(3) = Up(data[p + 4], 3)
  BY <1>5 DEF Up
<1> HIDE DEF U
<1>7. UNION {U(i) : i \in {0, 1, 2, 3}} = U(0) \cup U(1) \cup U(2) \cup U(3)
  OBVIOUS
<1>8. /\ data[p + 1] \in ByteValues /\ data[p + 2] \in ByteValues
      /\ data[p + 3] \in ByteValues /\ data[p + 4] \in ByteValues
  BY <1>2
<1>9. ReadUint32LE(p) = Composed(data[p + 1], data[p + 2], data[p + 3], data[p + 4])
  BY <1>3, <1>4, <1>6, <1>7, <1>8, ComposedMembers
<1>10. Composed(data[p + 1], data[p + 2], data[p + 3], data[p + 4]) \in Words
  BY <1>8, ComposedCarries
<1> QED
  BY <1>8, <1>9, <1>10

-----------------------------------------------------------------------------
(* Four bytes at a time, and sixteen.                                      *)

LEMMA XorLaws ==
    /\ \A a, b : a ^^ b = b ^^ a
    /\ \A a, b, c : (a ^^ b) ^^ c = a ^^ (b ^^ c)
    /\ \A a, b : (a ^^ b) ^^ b = a
  BY DEF ^^

\* Carrying over one byte more what a byte was added to.
LEMMA CarryOn ==
    ASSUME NEW n \in Nat, NEW r \in Words, NEW d \in ByteValues
    PROVE  CarriedBytes(n, CarriedBytes(1, r ^^ d))
             = CarriedBytes(1 + n, r) ^^ CarriedBytes(1 + n, d)
<1>1. d \in Words /\ r ^^ d \in Words
  BY BytesAreWords, XorIsWord
<1>2. CarriedBytes(1 + n, r ^^ d) = CarriedBytes(n, CarriedBytes(1, r ^^ d))
  BY <1>1, CarriedBytesTwice
<1>3. 1 + n \in Nat
  OBVIOUS
<1>4. CarriedBytes(1 + n, r ^^ d) = CarriedBytes(1 + n, r) ^^ CarriedBytes(1 + n, d)
  BY <1>1, <1>3, CarriedBytesLinear
<1> QED
  BY <1>2, <1>4

\* A word read at once is four bytes, one after the other.
LEMMA RunsByWords ==
    ASSUME NEW l, NEW first, NEW last, NEW r, Running(r, l, first, last), InData(first, last),
           NEW p \in Nat, first <= p, p + 4 <= last
    PROVE  /\ r[p] \in Words /\ r[p + 4] \in Words
           /\ ReadUint32LE(p) \in Words
           /\ r[p + 4] = CarriedBytes(4, ReadUint32LE(p) ^^ r[p])
<1>1. InData(p, p + 4)
  BY DEF InData
<1>2. r[p] \in Words /\ r[p + 1] \in Words /\ r[p + 2] \in Words /\ r[p + 3] \in Words
        /\ r[p + 4] \in Words
  <2>1. \A i \in 0..4 : p + i \in first..last
    BY DEF InData
  <2>2. \A i \in 0..4 : r[p + i] \in Words
    BY <2>1 DEF Running
  <2>3. p + 0 = p
    OBVIOUS
  <2> QED
    BY <2>2, <2>3
<1> DEFINE d0 == data[p + 1]
           d1 == data[p + 2]
           d2 == data[p + 3]
           d3 == data[p + 4]
           r0 == r[p]
           r1 == r[p + 1]
           r2 == r[p + 2]
           r3 == r[p + 3]
           r4 == r[p + 4]
<1>3. /\ r1 = CarriedBytes(1, r0 ^^ d0) /\ r2 = CarriedBytes(1, r1 ^^ d1)
      /\ r3 = CarriedBytes(1, r2 ^^ d2) /\ r4 = CarriedBytes(1, r3 ^^ d3)
  <2>1. /\ p + 1 \in (first + 1)..last /\ (p + 1) - 1 = p
        /\ p + 2 \in (first + 1)..last /\ (p + 2) - 1 = p + 1
        /\ p + 3 \in (first + 1)..last /\ (p + 3) - 1 = p + 2
        /\ p + 4 \in (first + 1)..last /\ (p + 4) - 1 = p + 3
    BY DEF InData
  <2>2. /\ r[p + 1] = CarriedBytes(1, r[(p + 1) - 1] ^^ data[p + 1])
        /\ r[p + 2] = CarriedBytes(1, r[(p + 2) - 1] ^^ data[p + 2])
        /\ r[p + 3] = CarriedBytes(1, r[(p + 3) - 1] ^^ data[p + 3])
        /\ r[p + 4] = CarriedBytes(1, r[(p + 4) - 1] ^^ data[p + 4])
    BY <2>1 DEF Running
  <2> QED
    BY <2>1, <2>2
<1>4. /\ d0 \in ByteValues /\ d1 \in ByteValues /\ d2 \in ByteValues /\ d3 \in ByteValues
      /\ ReadUint32LE(p) = Composed(d0, d1, d2, d3) /\ ReadUint32LE(p) \in Words
  BY <1>1, ReadIsComposed
<1>5. r0 \in Words /\ r1 \in Words /\ r2 \in Words /\ r3 \in Words /\ r4 \in Words
  BY <1>2
<1> DEFINE w == ReadUint32LE(p)
<1> HIDE DEF d0, d1, d2, d3, r0, r1, r2, r3, r4, w
<1>6. /\ CarriedBytes(0, CarriedBytes(1, r3 ^^ d3))
           = CarriedBytes(1 + 0, r3) ^^ CarriedBytes(1 + 0, d3)
      /\ CarriedBytes(1, CarriedBytes(1, r2 ^^ d2))
           = CarriedBytes(1 + 1, r2) ^^ CarriedBytes(1 + 1, d2)
      /\ CarriedBytes(2, CarriedBytes(1, r1 ^^ d1))
           = CarriedBytes(1 + 2, r1) ^^ CarriedBytes(1 + 2, d1)
      /\ CarriedBytes(3, CarriedBytes(1, r0 ^^ d0))
           = CarriedBytes(1 + 3, r0) ^^ CarriedBytes(1 + 3, d0)
  BY <1>4, <1>5, CarryOn
<1>7. 1 + 0 = 1 /\ 1 + 1 = 2 /\ 1 + 2 = 3 /\ 1 + 3 = 4
  OBVIOUS
<1>8. CarriedBytes(0, r4) = r4
  BY <1>5, CarriedBytesFew
<1> DEFINE e0 == CarriedBytes(4, d0)
           e1 == CarriedBytes(3, d1)
           e2 == CarriedBytes(2, d2)
           e3 == CarriedBytes(1, d3)
           e == CarriedBytes(4, r0)
<1>9. r4 = (((e ^^ e0) ^^ e1) ^^ e2) ^^ e3
  BY <1>3, <1>6, <1>7, <1>8
<1>10. CarriedBytes(4, w) = (e0 ^^ e1) ^^ (e2 ^^ e3)
  <2>1. CarriedBytes(4, Composed(d0, d1, d2, d3))
          = (CarriedBytes(4, d0) ^^ CarriedBytes(4 - 1, d1))
              ^^ (CarriedBytes(4 - 2, d2) ^^ CarriedBytes(4 - 3, d3))
    BY <1>4, ComposedCarries
  <2>2. 4 - 1 = 3 /\ 4 - 2 = 2 /\ 4 - 3 = 1
    OBVIOUS
  <2> QED
    BY <1>4, <2>1, <2>2 DEF w
<1>11. CarriedBytes(4, w ^^ r0) = CarriedBytes(4, w) ^^ e
  BY <1>4, <1>5, CarriedBytesLinear DEF w
<1> HIDE DEF e, e0, e1, e2, e3
<1>12. (((e ^^ e0) ^^ e1) ^^ e2) ^^ e3 = e ^^ ((e0 ^^ e1) ^^ (e2 ^^ e3))
  BY XorLaws
<1>13. e ^^ ((e0 ^^ e1) ^^ (e2 ^^ e3)) = ((e0 ^^ e1) ^^ (e2 ^^ e3)) ^^ e
  BY XorLaws
<1>14. r4 = CarriedBytes(4, w ^^ r0)
  BY <1>9, <1>10, <1>11, <1>12, <1>13
<1> QED
  BY <1>4, <1>5, <1>14 DEF w, r0, r4

\* Four lanes, one word after the other.
Nested(a, b, c, d) ==
    CarriedBytes(4, d ^^ CarriedBytes(4, c ^^ CarriedBytes(4, b ^^ CarriedBytes(4, a))))

LEMMA CombinedNests ==
    ASSUME NEW lanes, lanes[1] \in Words, lanes[2] \in Words,
           lanes[3] \in Words, lanes[4] \in Words
    PROVE  Combined(lanes) = Nested(lanes[1], lanes[2], lanes[3], lanes[4])
<1> DEFINE a == lanes[1]
           b == lanes[2]
           c == lanes[3]
           d == lanes[4]
<1>1. a \in Words /\ b \in Words /\ c \in Words /\ d \in Words
  OBVIOUS
<1>2. Combined(lanes) = Step4W(Step4W(Step4W(Step4W({}, a), b), c), d)
  BY DEF Combined
<1> HIDE DEF a, b, c, d
<1> DEFINE x == Step4W({}, a)
           y == Step4W(x, b)
           z == Step4W(y, c)
<1>3. x = CarriedBytes(4, a) /\ x \in Words
  <2>1. a ^^ {} = a /\ {} \in Words
    BY ZeroIsWord
  <2>2. x = CarriedBytes(4, a ^^ {}) /\ x \in Words
    BY <1>1, <2>1, Step4WCarries
  <2> QED
    BY <2>1, <2>2
<1> HIDE DEF x
<1>4. y = CarriedBytes(4, b ^^ x) /\ y \in Words
  BY <1>1, <1>3, Step4WCarries
<1> HIDE DEF y
<1>5. z = CarriedBytes(4, c ^^ y) /\ z \in Words
  BY <1>1, <1>4, Step4WCarries
<1> HIDE DEF z
<1>6. Step4W(z, d) = CarriedBytes(4, d ^^ z)
  BY <1>1, <1>5, Step4WCarries
<1>7. Combined(lanes) = CarriedBytes(4, d ^^ z)
  BY <1>2, <1>6 DEF x, y, z
<1>8. CarriedBytes(4, d ^^ z) = Nested(a, b, c, d)
  BY <1>3, <1>4, <1>5 DEF Nested
<1> QED
  BY <1>7, <1>8 DEF a, b, c, d

LEMMA NestedStep ==
    ASSUME NEW a \in Words, NEW b \in Words, NEW x \in Words, NEW y \in Words
    PROVE  /\ (a ^^ b) ^^ (x ^^ y) = (a ^^ x) ^^ (b ^^ y)
           /\ CarriedBytes(4, (a ^^ b) ^^ (x ^^ y))
                = CarriedBytes(4, a ^^ x) ^^ CarriedBytes(4, b ^^ y)
           /\ CarriedBytes(4, a ^^ x) \in Words
<1>1. (a ^^ b) ^^ (x ^^ y) = (a ^^ x) ^^ (b ^^ y)
  BY DEF ^^
<1>2. a ^^ x \in Words /\ b ^^ y \in Words
  BY XorIsWord
<1>3. CarriedBytes(4, (a ^^ x) ^^ (b ^^ y)) = CarriedBytes(4, a ^^ x) ^^ CarriedBytes(4, b ^^ y)
  BY <1>2, CarriedBytesLinear
<1> QED
  BY <1>1, <1>2, <1>3, CarriedBytesIsWord

LEMMA NestedIsWord ==
    ASSUME NEW a \in Words, NEW b \in Words, NEW c \in Words, NEW d \in Words
    PROVE  Nested(a, b, c, d) \in Words
<1> DEFINE x == CarriedBytes(4, a)
           y == CarriedBytes(4, b ^^ x)
           z == CarriedBytes(4, c ^^ y)
<1>1. x \in Words
  BY CarriedBytesIsWord
<1> HIDE DEF x
<1>2. y \in Words
  BY <1>1, XorIsWord, CarriedBytesIsWord
<1> HIDE DEF y
<1>3. z \in Words
  BY <1>2, XorIsWord, CarriedBytesIsWord
<1> HIDE DEF z
<1>4. CarriedBytes(4, d ^^ z) \in Words
  BY <1>3, XorIsWord, CarriedBytesIsWord
<1> QED
  BY <1>4 DEF Nested, x, y, z

FourWords(a, b, c, d) == a \in Words /\ b \in Words /\ c \in Words /\ d \in Words

LEMMA NestedLinear ==
    ASSUME NEW a, NEW b, NEW c, NEW d, FourWords(a, b, c, d),
           NEW e, NEW f, NEW g, NEW h, FourWords(e, f, g, h)
    PROVE  Nested(a ^^ e, b ^^ f, c ^^ g, d ^^ h) = Nested(a, b, c, d) ^^ Nested(e, f, g, h)
<1> DEFINE x1 == CarriedBytes(4, a)
           x2 == CarriedBytes(4, e)
           y1 == CarriedBytes(4, b ^^ x1)
           y2 == CarriedBytes(4, f ^^ x2)
           z1 == CarriedBytes(4, c ^^ y1)
           z2 == CarriedBytes(4, g ^^ y2)
<1>0. /\ a \in Words /\ b \in Words /\ c \in Words /\ d \in Words
      /\ e \in Words /\ f \in Words /\ g \in Words /\ h \in Words
  BY DEF FourWords
<1>1. x1 \in Words /\ x2 \in Words /\ CarriedBytes(4, a ^^ e) = x1 ^^ x2
  BY <1>0, CarriedBytesIsWord, CarriedBytesLinear
<1> HIDE DEF x1, x2
<1>2. CarriedBytes(4, (b ^^ f) ^^ (x1 ^^ x2)) = y1 ^^ y2 /\ y1 \in Words /\ y2 \in Words
  BY <1>0, <1>1, NestedStep
<1> HIDE DEF y1, y2
<1>3. CarriedBytes(4, (c ^^ g) ^^ (y1 ^^ y2)) = z1 ^^ z2 /\ z1 \in Words /\ z2 \in Words
  BY <1>0, <1>2, NestedStep
<1> HIDE DEF z1, z2
<1>4. CarriedBytes(4, (d ^^ h) ^^ (z1 ^^ z2))
        = CarriedBytes(4, d ^^ z1) ^^ CarriedBytes(4, h ^^ z2)
  BY <1>0, <1>3, NestedStep
<1>5. Nested(a ^^ e, b ^^ f, c ^^ g, d ^^ h) = CarriedBytes(4, (d ^^ h) ^^ (z1 ^^ z2))
  BY <1>1, <1>2, <1>3 DEF Nested
<1>6. Nested(a, b, c, d) = CarriedBytes(4, d ^^ z1)
  BY DEF Nested, x1, y1, z1
<1>7. Nested(e, f, g, h) = CarriedBytes(4, h ^^ z2)
  BY DEF Nested, x2, y2, z2
<1> QED
  BY <1>4, <1>5, <1>6, <1>7

\* Carrying four lanes over one stride carries what they amount to.
LEMMA CarriedCommutes ==
    ASSUME NEW u \in Words, NEW x \in Words
    PROVE  /\ CarriedBytes(4, CarriedBytes(16, u)) = CarriedBytes(16, CarriedBytes(4, u))
           /\ CarriedBytes(4, CarriedBytes(16, u) ^^ CarriedBytes(16, x))
                = CarriedBytes(16, CarriedBytes(4, u ^^ x))
<1>1. ASSUME NEW v \in Words
      PROVE  CarriedBytes(4, CarriedBytes(16, v)) = CarriedBytes(16, CarriedBytes(4, v))
  <2>1. /\ CarriedBytes(16 + 4, v) = CarriedBytes(4, CarriedBytes(16, v))
        /\ CarriedBytes(4 + 16, v) = CarriedBytes(16, CarriedBytes(4, v))
    BY CarriedBytesTwice
  <2>2. 16 + 4 = 4 + 16
    OBVIOUS
  <2> QED
    BY <2>1, <2>2
<1>2. u ^^ x \in Words
  BY XorIsWord
<1>3. CarriedBytes(16, u ^^ x) = CarriedBytes(16, u) ^^ CarriedBytes(16, x)
  BY CarriedBytesLinear
<1>4. CarriedBytes(4, CarriedBytes(16, u ^^ x)) = CarriedBytes(16, CarriedBytes(4, u ^^ x))
  BY <1>1, <1>2
<1> QED
  BY <1>1, <1>3, <1>4

LEMMA NestedCarried ==
    ASSUME NEW a \in Words, NEW b \in Words, NEW c \in Words, NEW d \in Words
    PROVE  Nested(CarriedBytes(16, a), CarriedBytes(16, b), CarriedBytes(16, c),
                  CarriedBytes(16, d))
             = CarriedBytes(16, Nested(a, b, c, d))
<1> DEFINE x == CarriedBytes(4, a)
           y == CarriedBytes(4, b ^^ x)
           z == CarriedBytes(4, c ^^ y)
           n == CarriedBytes(4, d ^^ z)
<1>1. x \in Words /\ CarriedBytes(4, CarriedBytes(16, a)) = CarriedBytes(16, x)
  BY CarriedBytesIsWord, CarriedCommutes
<1> HIDE DEF x
<1>2. /\ y \in Words
      /\ CarriedBytes(4, CarriedBytes(16, b) ^^ CarriedBytes(16, x)) = CarriedBytes(16, y)
  BY <1>1, XorIsWord, CarriedBytesIsWord, CarriedCommutes
<1> HIDE DEF y
<1>3. /\ z \in Words
      /\ CarriedBytes(4, CarriedBytes(16, c) ^^ CarriedBytes(16, y)) = CarriedBytes(16, z)
  BY <1>2, XorIsWord, CarriedBytesIsWord, CarriedCommutes
<1> HIDE DEF z
<1>4. CarriedBytes(4, CarriedBytes(16, d) ^^ CarriedBytes(16, z)) = CarriedBytes(16, n)
  BY <1>3, CarriedCommutes
<1> HIDE DEF n
<1>5. Nested(CarriedBytes(16, a), CarriedBytes(16, b), CarriedBytes(16, c), CarriedBytes(16, d))
        = CarriedBytes(16, n)
  BY <1>1, <1>2, <1>3, <1>4 DEF Nested
<1>6. Nested(a, b, c, d) = n
  BY DEF Nested, x, y, z, n
<1> QED
  BY <1>5, <1>6

\* A remainder in the first lane counts as if carried over all four words.
LEMMA NestedFirst ==
    ASSUME NEW a \in Words, NEW b \in Words, NEW c \in Words, NEW d \in Words,
           NEW e \in Words
    PROVE  /\ Nested(a ^^ e, b, c, d) = Nested(a, b, c, d) ^^ CarriedBytes(16, e)
           /\ Nested({}, b, c, d) = CarriedBytes(4, d ^^ CarriedBytes(4, c ^^ CarriedBytes(4, b)))
<1>1. {} \in Words /\ \A v : v ^^ {} = v /\ {} ^^ v = v
  BY ZeroIsWord
<1>2. Nested(a ^^ e, b ^^ {}, c ^^ {}, d ^^ {}) = Nested(a, b, c, d) ^^ Nested(e, {}, {}, {})
  <2>1. FourWords(a, b, c, d) /\ FourWords(e, {}, {}, {})
    BY <1>1 DEF FourWords
  <2> QED
    BY <2>1, NestedLinear
<1>3. Nested(e, {}, {}, {}) = CarriedBytes(16, e)
  <2> DEFINE x == CarriedBytes(4, e)
             y == CarriedBytes(8, e)
             z == CarriedBytes(12, e)
             n == CarriedBytes(16, e)
  <2>1. /\ CarriedBytes(4 + 4, e) = CarriedBytes(4, x)
        /\ CarriedBytes(8 + 4, e) = CarriedBytes(4, y)
        /\ CarriedBytes(12 + 4, e) = CarriedBytes(4, z)
    BY CarriedBytesTwice
  <2>2. 4 + 4 = 8 /\ 8 + 4 = 12 /\ 12 + 4 = 16
    OBVIOUS
  <2>3. y = CarriedBytes(4, x) /\ z = CarriedBytes(4, y) /\ n = CarriedBytes(4, z)
    BY <2>1, <2>2
  <2>4. x = CarriedBytes(4, e)
    OBVIOUS
  <2> HIDE DEF x, y, z, n
  <2>5. Nested(e, {}, {}, {}) = n
    BY <1>1, <2>3, <2>4 DEF Nested
  <2> QED
    BY <2>5 DEF n
<1>4. b ^^ {} = b /\ c ^^ {} = c /\ d ^^ {} = d
  BY <1>1
<1>5. CarriedBytes(4, {}) = {}
  <2>1. CarriedBytes(4, {} ^^ {}) = CarriedBytes(4, {}) ^^ CarriedBytes(4, {})
    BY <1>1, CarriedBytesLinear
  <2>2. \A v : v ^^ v = {}
    BY DEF ^^
  <2> QED
    BY <1>1, <2>1, <2>2
<1>6. Nested({}, b, c, d) = CarriedBytes(4, d ^^ CarriedBytes(4, c ^^ CarriedBytes(4, b)))
  BY <1>1, <1>5 DEF Nested
<1> QED
  BY <1>2, <1>3, <1>4, <1>6

\* STEP16: four lanes that amount to e, moved on by a stride, amount to e moved on.
LEMMA StrideKeeps ==
    ASSUME NEW a, NEW b, NEW c, NEW d, FourWords(a, b, c, d),
           NEW s, NEW t, NEW u, NEW v, FourWords(s, t, u, v)
    PROVE  Nested(s ^^ CarriedBytes(16, a), t ^^ CarriedBytes(16, b),
                  u ^^ CarriedBytes(16, c), v ^^ CarriedBytes(16, d))
             = Nested(s ^^ Nested(a, b, c, d), t, u, v)
<1> DEFINE ka == CarriedBytes(16, a)
           kb == CarriedBytes(16, b)
           kc == CarriedBytes(16, c)
           kd == CarriedBytes(16, d)
           e == Nested(a, b, c, d)
<1>0. /\ a \in Words /\ b \in Words /\ c \in Words /\ d \in Words
      /\ s \in Words /\ t \in Words /\ u \in Words /\ v \in Words
  BY DEF FourWords
<1>1. ka \in Words /\ kb \in Words /\ kc \in Words /\ kd \in Words
  BY <1>0, CarriedBytesIsWord
<1>2. e \in Words
  BY <1>0, NestedIsWord
<1>3. Nested(ka, kb, kc, kd) = CarriedBytes(16, e)
  BY <1>0, NestedCarried
<1> HIDE DEF ka, kb, kc, kd, e
<1>4. Nested(s ^^ ka, t ^^ kb, u ^^ kc, v ^^ kd) = Nested(s, t, u, v) ^^ Nested(ka, kb, kc, kd)
  <2>1. FourWords(s, t, u, v) /\ FourWords(ka, kb, kc, kd)
    BY <1>0, <1>1 DEF FourWords
  <2> QED
    BY <2>1, NestedLinear
<1>5. Nested(s ^^ e, t, u, v) = Nested(s, t, u, v) ^^ CarriedBytes(16, e)
  BY <1>0, <1>2, NestedFirst
<1>6. Nested(s ^^ ka, t ^^ kb, u ^^ kc, v ^^ kd) = Nested(s ^^ e, t, u, v)
  BY <1>3, <1>4, <1>5
<1> QED
  BY <1>6 DEF ka, kb, kc, kd, e

\* The first lane alone, moved on by a stride, becomes the last.
LEMMA WordKeeps ==
    ASSUME NEW a, NEW b, NEW c, NEW d, FourWords(a, b, c, d), NEW w \in Words
    PROVE  Nested(b, c, d, w ^^ CarriedBytes(16, a)) = CarriedBytes(4, w ^^ Nested(a, b, c, d))
<1> DEFINE k == CarriedBytes(16, a)
           q == CarriedBytes(4, d ^^ CarriedBytes(4, c ^^ CarriedBytes(4, b)))
<1>0. a \in Words /\ b \in Words /\ c \in Words /\ d \in Words
  BY DEF FourWords
<1>1. {} \in Words /\ {} ^^ a = a
  BY ZeroIsWord
<1>2. Nested({} ^^ a, b, c, d) = Nested({}, b, c, d) ^^ k /\ Nested({}, b, c, d) = q
  BY <1>0, <1>1, NestedFirst
<1>3. Nested(b, c, d, w ^^ k) = CarriedBytes(4, (w ^^ k) ^^ q)
  BY DEF Nested
<1> HIDE DEF k, q
<1>4. (w ^^ k) ^^ q = w ^^ (q ^^ k)
  BY XorLaws
<1>5. Nested(b, c, d, w ^^ k) = CarriedBytes(4, w ^^ Nested(a, b, c, d))
  BY <1>1, <1>2, <1>3, <1>4
<1> QED
  BY <1>5 DEF k

LEMMA ExtendedByByte ==
    ASSUME NEW l \in Words, NEW p, InData(p, p + 1)
    PROVE  /\ Extended(l, p, p + 1) = CarriedBytes(1, l ^^ data[p + 1])
           /\ data[p + 1] \in ByteValues /\ Extended(l, p, p + 1) \in Words
<1>1. PICK r : Running(r, l, p, p + 1) /\ Extended(l, p, p + 1) = r[p + 1]
  BY ExtendedRuns
<1>2. /\ p \in Nat /\ p + 1 \in 1..Len(data) /\ p + 1 \in (p + 1)..(p + 1)
      /\ p + 1 \in p..(p + 1) /\ (p + 1) - 1 = p
  BY DEF InData
<1>3. data[p + 1] \in ByteValues
  BY <1>2, ElementOfSeq DEF InData
<1> QED
  BY <1>1, <1>2, <1>3 DEF Running

LEMMA ExtendedByWord ==
    ASSUME NEW l \in Words, NEW p, InData(p, p + 4)
    PROVE  /\ Extended(l, p, p + 4) = CarriedBytes(4, ReadUint32LE(p) ^^ l)
           /\ ReadUint32LE(p) \in Words /\ Extended(l, p, p + 4) \in Words
<1>1. PICK r : Running(r, l, p, p + 4) /\ Extended(l, p, p + 4) = r[p + 4]
  BY ExtendedRuns
<1>2. p \in Nat /\ p <= p /\ p + 4 <= p + 4
  BY DEF InData
<1>3. /\ r[p + 4] \in Words /\ ReadUint32LE(p) \in Words
      /\ r[p + 4] = CarriedBytes(4, ReadUint32LE(p) ^^ r[p])
  BY <1>1, <1>2, RunsByWords
<1> QED
  BY <1>1, <1>3 DEF Running

LEMMA ExtendedByStride ==
    ASSUME NEW l \in Words, NEW p, InData(p, p + 16)
    PROVE  /\ Extended(l, p, p + 16)
                = Nested(ReadUint32LE(p) ^^ l, ReadUint32LE(p + 4), ReadUint32LE(p + 8),
                         ReadUint32LE(p + 12))
           /\ ReadUint32LE(p) \in Words /\ ReadUint32LE(p + 4) \in Words
           /\ ReadUint32LE(p + 8) \in Words /\ ReadUint32LE(p + 12) \in Words
           /\ Extended(l, p, p + 16) \in Words
<1> DEFINE last == p + 16
<1>1. PICK r : Running(r, l, p, last) /\ Extended(l, p, last) = r[last]
  BY ExtendedRuns
<1>2. /\ InData(p, last) /\ p \in Nat /\ last = p + 16
      /\ p + 4 \in Nat /\ p + 8 \in Nat /\ p + 12 \in Nat /\ p <= p /\ p <= p + 4
      /\ p <= p + 8 /\ p <= p + 12 /\ p + 4 <= last /\ (p + 4) + 4 <= last
      /\ (p + 8) + 4 <= last /\ (p + 12) + 4 <= last
      /\ (p + 4) + 4 = p + 8 /\ (p + 8) + 4 = p + 12 /\ (p + 12) + 4 = last
  BY DEF InData
<1> HIDE DEF last
<1>3. /\ ReadUint32LE(p) \in Words /\ r[p + 4] = CarriedBytes(4, ReadUint32LE(p) ^^ r[p])
  BY <1>1, <1>2, RunsByWords
<1>4. /\ ReadUint32LE(p + 4) \in Words
      /\ r[(p + 4) + 4] = CarriedBytes(4, ReadUint32LE(p + 4) ^^ r[p + 4])
  BY <1>1, <1>2, RunsByWords
<1>5. /\ ReadUint32LE(p + 8) \in Words
      /\ r[(p + 8) + 4] = CarriedBytes(4, ReadUint32LE(p + 8) ^^ r[p + 8])
  BY <1>1, <1>2, RunsByWords
<1>6. /\ ReadUint32LE(p + 12) \in Words /\ r[(p + 12) + 4] \in Words
      /\ r[(p + 12) + 4] = CarriedBytes(4, ReadUint32LE(p + 12) ^^ r[p + 12])
  BY <1>1, <1>2, RunsByWords
<1>7. r[p] = l
  BY <1>1 DEF Running
<1>8. Extended(l, p, last)
        = Nested(ReadUint32LE(p) ^^ l, ReadUint32LE(p + 4), ReadUint32LE(p + 8),
                 ReadUint32LE(p + 12))
  BY <1>1, <1>2, <1>3, <1>4, <1>5, <1>6, <1>7 DEF Nested
<1> QED
  BY <1>1, <1>2, <1>3, <1>4, <1>5, <1>6, <1>8

-----------------------------------------------------------------------------
(* The invariant of Extend.                                                *)

Lanes == [1..4 -> Words]

CrcInv ==
    /\ data \in Seq(ByteValues) /\ aligned \in 0..3
    /\ crc \in [pc : {"idle", "align", "stride", "swath", "tail"}, p : Nat, l : Words,
                lanes : Lanes, exact : Words]
    /\ crc.p <= Len(data)
    /\ crc.pc = "align" => crc.p <= aligned /\ aligned <= Len(data)
    /\ crc.pc # "swath" => crc.l = crc.exact
    /\ crc.pc = "swath" => Combined(crc.lanes) = crc.exact

LEMMA LanesCombine ==
    ASSUME NEW lanes \in Lanes
    PROVE  /\ lanes[1] \in Words /\ lanes[2] \in Words /\ lanes[3] \in Words
           /\ lanes[4] \in Words
           /\ Combined(lanes) = Nested(lanes[1], lanes[2], lanes[3], lanes[4])
<1>1. /\ lanes[1] \in Words /\ lanes[2] \in Words /\ lanes[3] \in Words
      /\ lanes[4] \in Words
  BY DEF Lanes
<1> QED
  BY <1>1, CombinedNests

LEMMA QuietLanes == <<{}, {}, {}, {}>> \in Lanes
<1>1. {} \in Words
  BY ZeroIsWord
<1> QED
  BY <1>1 DEF Lanes

LEMMA CrcInitial == CrcInit => CrcInv
<1>1. SUFFICES ASSUME CrcInit PROVE CrcInv
  OBVIOUS
<1>2. {} \in Words
  BY ZeroIsWord
<1>3. <<{}, {}, {}, {}>> \in Lanes
  BY QuietLanes
<1>4. data \in Seq(ByteValues) /\ Len(data) = 0
  BY <1>1 DEF CrcInit
<1> QED
  BY <1>1, <1>2, <1>3, <1>4 DEF CrcInit, CrcInv, Quiet

LEMMA BeginKeeps ==
    ASSUME CrcInv, NEW init_crc \in Words, NEW bytes \in Seq(ByteValues),
           NEW at \in 0..(WordBytes - 1), Begin(init_crc, bytes, at)
    PROVE  CrcInv'
<1>1. AllOnes \in Words /\ init_crc ^^ AllOnes \in Words /\ {} \in Words
  BY ZeroIsWord, XorIsWord DEF Words
<1>2. <<{}, {}, {}, {}>> \in Lanes
  BY QuietLanes
<1>3. data' = bytes /\ aligned' \in 0..3
  BY DEF Begin, WordBytes
<1> DEFINE phase == IF aligned' <= Len(bytes) THEN "align" ELSE "stride"
           l == init_crc ^^ AllOnes
<1>4. crc' = [pc |-> phase, p |-> 0, l |-> l, lanes |-> <<{}, {}, {}, {}>>, exact |-> l]
  BY DEF Begin, Quiet
<1>5. Len(bytes) \in Nat
  BY LenProperties
<1>6. phase \in {"align", "stride"} /\ (phase = "align" => aligned' <= Len(bytes))
  OBVIOUS
<1> HIDE DEF phase, l
<1>7. l \in Words
  BY <1>1 DEF l
<1> QED
  BY <1>2, <1>3, <1>4, <1>5, <1>6, <1>7 DEF CrcInv

\* What a step that reads n bytes keeps whatever it does to the registers.
LEMMA MovedKeeps ==
    ASSUME CrcInv, NEW n \in Nat, InData(crc.p, crc.p + n), NEW l \in Words,
           NEW lanes \in Lanes, NEW phase \in {"align", "swath", "tail"},
           Extended(crc.exact, crc.p, crc.p + n) \in Words,
           crc' = [pc |-> phase, p |-> crc.p + n, l |-> l, lanes |-> lanes,
                   exact |-> Extended(crc.exact, crc.p, crc.p + n)],
           UNCHANGED <<data, aligned>>,
           phase = "align" => crc.p + n <= aligned /\ aligned <= Len(data),
           phase # "swath" => l = Extended(crc.exact, crc.p, crc.p + n),
           phase = "swath" => Combined(lanes) = Extended(crc.exact, crc.p, crc.p + n)
    PROVE  CrcInv'
<1> DEFINE exact == Extended(crc.exact, crc.p, crc.p + n)
           q == crc.p + n
<1>1. q \in Nat /\ q <= Len(data)
  BY DEF InData
<1>2. crc' = [pc |-> phase, p |-> q, l |-> l, lanes |-> lanes, exact |-> exact]
  OBVIOUS
<1>3. exact \in Words /\ (phase # "swath" => l = exact)
        /\ (phase = "swath" => Combined(lanes) = exact)
        /\ (phase = "align" => q <= aligned /\ aligned <= Len(data))
  OBVIOUS
<1>4. phase \in {"idle", "align", "stride", "swath", "tail"}
  OBVIOUS
<1> HIDE DEF exact, q
<1>5. /\ crc'.pc = phase /\ crc'.p = q /\ crc'.l = l /\ crc'.lanes = lanes
      /\ crc'.exact = exact
      /\ crc' \in [pc : {"idle", "align", "stride", "swath", "tail"}, p : Nat, l : Words,
                   lanes : Lanes, exact : Words]
  BY <1>1, <1>2, <1>3, <1>4
<1> QED
  BY <1>1, <1>3, <1>5 DEF CrcInv

\* The record after an update of its fields.
LEMMA UpdatedRecord ==
    ASSUME NEW c, NEW T1, NEW T2, NEW T3, NEW T4, NEW T5,
           c \in [pc : T1, p : T2, l : T3, lanes : T4, exact : T5],
           NEW q, NEW x, NEW phase, NEW l, NEW lanes
    PROVE  /\ [[c EXCEPT !.p = q, !.exact = x] EXCEPT !.l = l]
                = [pc |-> c.pc, p |-> q, l |-> l, lanes |-> c.lanes, exact |-> x]
           /\ [[c EXCEPT !.p = q, !.exact = x] EXCEPT !.lanes = lanes]
                = [pc |-> c.pc, p |-> q, l |-> c.l, lanes |-> lanes, exact |-> x]
           /\ [[c EXCEPT !.p = q, !.exact = x] EXCEPT !.pc = phase, !.lanes = lanes]
                = [pc |-> phase, p |-> q, l |-> c.l, lanes |-> lanes, exact |-> x]
           /\ [c EXCEPT !.pc = phase]
                = [pc |-> phase, p |-> c.p, l |-> c.l, lanes |-> c.lanes, exact |-> c.exact]
           /\ [c EXCEPT !.pc = phase, !.l = l]
                = [pc |-> phase, p |-> c.p, l |-> l, lanes |-> c.lanes, exact |-> c.exact]
<1> DEFINE p1 == [c EXCEPT !.p = q]
           pc1 == [c EXCEPT !.pc = phase]
<1>1. p1 = [pc |-> c.pc, p |-> q, l |-> c.l, lanes |-> c.lanes, exact |-> c.exact]
  OBVIOUS
<1>2. pc1 = [pc |-> phase, p |-> c.p, l |-> c.l, lanes |-> c.lanes, exact |-> c.exact]
  OBVIOUS
<1>3. /\ [c EXCEPT !.p = q, !.exact = x] = [p1 EXCEPT !.exact = x]
      /\ [c EXCEPT !.pc = phase, !.l = l] = [pc1 EXCEPT !.l = l]
  OBVIOUS
<1>4. [c EXCEPT !.pc = phase]
        = [pc |-> phase, p |-> c.p, l |-> c.l, lanes |-> c.lanes, exact |-> c.exact]
  BY <1>2
<1> HIDE DEF p1, pc1
<1>5. [pc1 EXCEPT !.l = l]
        = [pc |-> phase, p |-> c.p, l |-> l, lanes |-> c.lanes, exact |-> c.exact]
  BY <1>2
<1> DEFINE m == [p1 EXCEPT !.exact = x]
<1>6. m = [pc |-> c.pc, p |-> q, l |-> c.l, lanes |-> c.lanes, exact |-> x]
  BY <1>1
<1> HIDE DEF m
<1>7. [m EXCEPT !.l = l] = [pc |-> c.pc, p |-> q, l |-> l, lanes |-> c.lanes, exact |-> x]
  BY <1>6
<1>8. [m EXCEPT !.lanes = lanes]
        = [pc |-> c.pc, p |-> q, l |-> c.l, lanes |-> lanes, exact |-> x]
  BY <1>6
<1> DEFINE k == [m EXCEPT !.pc = phase]
<1>9. k = [pc |-> phase, p |-> q, l |-> c.l, lanes |-> c.lanes, exact |-> x]
  BY <1>6
<1>10. [m EXCEPT !.pc = phase, !.lanes = lanes] = [k EXCEPT !.lanes = lanes]
  OBVIOUS
<1> HIDE DEF k
<1>11. [k EXCEPT !.lanes = lanes]
         = [pc |-> phase, p |-> q, l |-> c.l, lanes |-> lanes, exact |-> x]
  BY <1>9
<1>12. [c EXCEPT !.p = q, !.exact = x] = m
  BY <1>3 DEF m
<1> QED
  BY <1>3, <1>4, <1>5, <1>7, <1>8, <1>10, <1>11, <1>12

LEMMA CrcFields ==
    ASSUME CrcInv
    PROVE  /\ crc.p \in Nat /\ crc.l \in Words /\ crc.lanes \in Lanes /\ crc.exact \in Words
           /\ crc.p <= Len(data) /\ Len(data) \in Nat /\ Left = Len(data) - crc.p
           /\ \A n \in Nat : n <= Left => InData(crc.p, crc.p + n)
<1>1. /\ crc.p \in Nat /\ crc.l \in Words /\ crc.lanes \in Lanes /\ crc.exact \in Words
      /\ crc.p <= Len(data) /\ data \in Seq(ByteValues)
  BY DEF CrcInv
<1>2. Len(data) \in Nat /\ Left = Len(data) - crc.p
  BY <1>1, LenProperties DEF Left
<1>3. ASSUME NEW n \in Nat, n <= Left PROVE InData(crc.p, crc.p + n)
  BY <1>1, <1>2, <1>3 DEF InData
<1> QED
  BY <1>1, <1>2, <1>3

\* AlignByte and TailByte: STEP1.
LEMMA ByteKeeps ==
    ASSUME CrcInv, Left > 0, crc.pc \in {"align", "tail"},
           crc.pc = "align" => crc.p # aligned,
           crc' = [Moved(crc.p + 1) EXCEPT !.l = Step1(crc.l, data[crc.p + 1])],
           UNCHANGED <<data, aligned>>
    PROVE  CrcInv'
<1> DEFINE x == Extended(crc.exact, crc.p, crc.p + 1)
           s == Step1(crc.l, data[crc.p + 1])
<1>1. InData(crc.p, crc.p + 1) /\ crc.exact \in Words /\ crc.lanes \in Lanes /\ crc.p \in Nat
  <2>1. 1 \in Nat /\ 1 <= Left
    BY CrcFields
  <2> QED
    BY <2>1, CrcFields
<1>2. crc.l = crc.exact
  BY DEF CrcInv
<1>3. /\ x = CarriedBytes(1, crc.exact ^^ data[crc.p + 1]) /\ x \in Words
      /\ data[crc.p + 1] \in ByteValues
  BY <1>1, ExtendedByByte
<1>4. s = x
  BY <1>1, <1>2, <1>3, Step1Carries
<1>5. crc' = [pc |-> crc.pc, p |-> crc.p + 1, l |-> s, lanes |-> crc.lanes, exact |-> x]
  <2>1. crc' = [[crc EXCEPT !.p = crc.p + 1, !.exact = x] EXCEPT !.l = s]
    BY DEF Moved
  <2>2. crc \in [pc : {"idle", "align", "stride", "swath", "tail"}, p : Nat, l : Words,
                 lanes : Lanes, exact : Words]
    BY DEF CrcInv
  <2> HIDE DEF s, x
  <2> QED
    BY <2>1, <2>2, UpdatedRecord
<1>6. crc.pc = "align" => crc.p + 1 <= aligned /\ aligned <= Len(data)
  BY <1>1 DEF CrcInv
<1>7. crc.pc \in {"align", "swath", "tail"} /\ crc.pc # "swath"
  OBVIOUS
<1> HIDE DEF s, x
<1>8. s \in Words
  BY <1>3, <1>4
<1>9. /\ Extended(crc.exact, crc.p, crc.p + 1) \in Words
      /\ crc' = [pc |-> crc.pc, p |-> crc.p + 1, l |-> s, lanes |-> crc.lanes,
                 exact |-> Extended(crc.exact, crc.p, crc.p + 1)]
      /\ s = Extended(crc.exact, crc.p, crc.p + 1)
  BY <1>3, <1>4, <1>5 DEF x
<1>10. 1 \in Nat
  OBVIOUS
<1> QED
  BY <1>1, <1>6, <1>7, <1>8, <1>9, <1>10, MovedKeeps

\* IsAligned and FewBytes.
LEMMA PhaseKeeps ==
    ASSUME CrcInv, crc.pc # "swath", NEW phase \in {"stride", "tail"},
           crc' = [crc EXCEPT !.pc = phase], UNCHANGED <<data, aligned>>
    PROVE  CrcInv'
<1>1. crc \in [pc : {"idle", "align", "stride", "swath", "tail"}, p : Nat, l : Words,
               lanes : Lanes, exact : Words]
  BY DEF CrcInv
<1>2. crc' = [pc |-> phase, p |-> crc.p, l |-> crc.l, lanes |-> crc.lanes, exact |-> crc.exact]
  BY <1>1, UpdatedRecord
<1> QED
  BY <1>1, <1>2 DEF CrcInv

LEMMA CombineKeeps ==
    ASSUME CrcInv, Combine
    PROVE  CrcInv'
<1>1. crc \in [pc : {"idle", "align", "stride", "swath", "tail"}, p : Nat, l : Words,
               lanes : Lanes, exact : Words]
  BY DEF CrcInv
<1> DEFINE l == Combined(crc.lanes)
<1>2. crc.pc = "swath" /\ l = crc.exact
  BY DEF CrcInv, Combine
<1>3. crc' = [crc EXCEPT !.pc = "tail", !.l = l] /\ UNCHANGED <<data, aligned>>
  BY DEF Combine
<1> HIDE DEF l
<1>4. crc' = [pc |-> "tail", p |-> crc.p, l |-> l, lanes |-> crc.lanes, exact |-> crc.exact]
  BY <1>1, <1>3, UpdatedRecord
<1> QED
  BY <1>1, <1>2, <1>3, <1>4 DEF CrcInv

\* The four lanes that start at p.
LEMMA NewLanes ==
    ASSUME NEW f, f = [s \in 1..4 |-> f[s]],
           f[1] \in Words, f[2] \in Words, f[3] \in Words, f[4] \in Words
    PROVE  f \in Lanes
<1>1. \A s \in 1..4 : s = 1 \/ s = 2 \/ s = 3 \/ s = 4
  OBVIOUS
<1>2. \A s \in 1..4 : f[s] \in Words
  BY <1>1
<1> QED
  BY <1>2 DEF Lanes

LEMMA LoadKeeps ==
    ASSUME CrcInv, LoadSwath
    PROVE  CrcInv'
<1> DEFINE p == crc.p
           x == Extended(crc.exact, crc.p, crc.p + 16)
           f == [s \in 1..4 |-> ReadUint32LE(crc.p + 4 * (s - 1))
                                  ^^ (IF s = 1 THEN crc.l ELSE {})]
<1>1. InData(crc.p, crc.p + 16) /\ crc.exact \in Words /\ p \in Nat /\ crc.l \in Words
  <2>1. 16 \in Nat /\ 16 <= Left
    BY CrcFields DEF LoadSwath
  <2> QED
    BY <2>1, CrcFields
<1>2. crc.l = crc.exact
  BY DEF CrcInv, LoadSwath
<1>3. /\ x = Nested(ReadUint32LE(p) ^^ crc.exact, ReadUint32LE(p + 4), ReadUint32LE(p + 8),
                    ReadUint32LE(p + 12))
      /\ ReadUint32LE(p) \in Words /\ ReadUint32LE(p + 4) \in Words
      /\ ReadUint32LE(p + 8) \in Words /\ ReadUint32LE(p + 12) \in Words /\ x \in Words
  BY <1>1, ExtendedByStride
<1>4. /\ p + 4 * (1 - 1) = p /\ p + 4 * (2 - 1) = p + 4
      /\ p + 4 * (3 - 1) = p + 8 /\ p + 4 * (4 - 1) = p + 12
  BY <1>1
<1>5. /\ f[1] = ReadUint32LE(p) ^^ crc.l /\ f[2] = ReadUint32LE(p + 4) ^^ {}
      /\ f[3] = ReadUint32LE(p + 8) ^^ {} /\ f[4] = ReadUint32LE(p + 12) ^^ {}
  BY <1>4
<1>6. crc' = [pc |-> "swath", p |-> crc.p + 16, l |-> crc.l, lanes |-> f, exact |-> x]
  <2>1. crc' = [[crc EXCEPT !.p = crc.p + 16, !.exact = x] EXCEPT !.pc = "swath", !.lanes = f]
    BY DEF LoadSwath, Moved
  <2>2. crc \in [pc : {"idle", "align", "stride", "swath", "tail"}, p : Nat, l : Words,
                 lanes : Lanes, exact : Words]
    BY DEF CrcInv
  <2> HIDE DEF f, x
  <2> QED
    BY <2>1, <2>2, UpdatedRecord
<1>7. f = [s \in 1..4 |-> f[s]]
  OBVIOUS
<1>8. UNCHANGED <<data, aligned>>
  BY DEF LoadSwath
<1> HIDE DEF f, x
<1>9. /\ f[1] = ReadUint32LE(p) ^^ crc.exact /\ f[2] = ReadUint32LE(p + 4)
      /\ f[3] = ReadUint32LE(p + 8) /\ f[4] = ReadUint32LE(p + 12)
  BY <1>2, <1>5, ZeroIsWord
<1> HIDE DEF p
<1>10. f[1] \in Words /\ f[2] \in Words /\ f[3] \in Words /\ f[4] \in Words
  BY <1>1, <1>3, <1>9, XorIsWord
<1>11. f \in Lanes /\ Combined(f) = x
  <2>1. f \in Lanes
    BY <1>7, <1>10, NewLanes
  <2>2. Combined(f) = Nested(f[1], f[2], f[3], f[4])
    BY <2>1, LanesCombine
  <2> QED
    BY <2>1, <2>2, <1>3, <1>9
<1>12. /\ Extended(crc.exact, crc.p, crc.p + 16) \in Words
       /\ crc' = [pc |-> "swath", p |-> crc.p + 16, l |-> crc.l, lanes |-> f,
                  exact |-> Extended(crc.exact, crc.p, crc.p + 16)]
       /\ Combined(f) = Extended(crc.exact, crc.p, crc.p + 16)
  BY <1>3, <1>6, <1>11 DEF x
<1>13. 16 \in Nat
  OBVIOUS
<1> QED
  BY <1>1, <1>8, <1>11, <1>12, <1>13, MovedKeeps

LEMMA StrideStepKeeps ==
    ASSUME CrcInv, StepSwath
    PROVE  CrcInv'
<1> DEFINE p == crc.p
           x == Extended(crc.exact, crc.p, crc.p + 16)
           old == crc.lanes
           f == [s \in 1..4 |-> Step4(crc.lanes[s], ReadUint32LE(crc.p + 4 * (s - 1)))]
<1>1. /\ InData(crc.p, crc.p + 16) /\ crc.exact \in Words /\ p \in Nat /\ crc.l \in Words
      /\ old \in Lanes
  <2>1. 16 \in Nat /\ 16 <= Left
    BY CrcFields DEF StepSwath
  <2> QED
    BY <2>1, CrcFields
<1>2. crc.pc = "swath" /\ Combined(old) = crc.exact
  BY DEF CrcInv, StepSwath
<1>3. /\ x = Nested(ReadUint32LE(p) ^^ crc.exact, ReadUint32LE(p + 4), ReadUint32LE(p + 8),
                    ReadUint32LE(p + 12))
      /\ ReadUint32LE(p) \in Words /\ ReadUint32LE(p + 4) \in Words
      /\ ReadUint32LE(p + 8) \in Words /\ ReadUint32LE(p + 12) \in Words /\ x \in Words
  BY <1>1, ExtendedByStride
<1>4. /\ p + 4 * (1 - 1) = p /\ p + 4 * (2 - 1) = p + 4
      /\ p + 4 * (3 - 1) = p + 8 /\ p + 4 * (4 - 1) = p + 12
  BY <1>1
<1>5. /\ f[1] = Step4(old[1], ReadUint32LE(p)) /\ f[2] = Step4(old[2], ReadUint32LE(p + 4))
      /\ f[3] = Step4(old[3], ReadUint32LE(p + 8))
      /\ f[4] = Step4(old[4], ReadUint32LE(p + 12))
  BY <1>4
<1>6. crc' = [pc |-> crc.pc, p |-> crc.p + 16, l |-> crc.l, lanes |-> f, exact |-> x]
  <2>1. crc' = [[crc EXCEPT !.p = crc.p + 16, !.exact = x] EXCEPT !.lanes = f]
    BY DEF StepSwath, Moved
  <2>2. crc \in [pc : {"idle", "align", "stride", "swath", "tail"}, p : Nat, l : Words,
                 lanes : Lanes, exact : Words]
    BY DEF CrcInv
  <2> HIDE DEF f, x
  <2> QED
    BY <2>1, <2>2, UpdatedRecord
<1>7. f = [s \in 1..4 |-> f[s]]
  OBVIOUS
<1>8. UNCHANGED <<data, aligned>>
  BY DEF StepSwath
<1>9. /\ old[1] \in Words /\ old[2] \in Words /\ old[3] \in Words /\ old[4] \in Words
      /\ crc.exact = Nested(old[1], old[2], old[3], old[4])
  BY <1>1, <1>2, LanesCombine
<1> HIDE DEF f, x, p, old
<1>10. /\ f[1] = ReadUint32LE(p) ^^ CarriedBytes(16, old[1])
       /\ f[2] = ReadUint32LE(p + 4) ^^ CarriedBytes(16, old[2])
       /\ f[3] = ReadUint32LE(p + 8) ^^ CarriedBytes(16, old[3])
       /\ f[4] = ReadUint32LE(p + 12) ^^ CarriedBytes(16, old[4])
       /\ f[1] \in Words /\ f[2] \in Words /\ f[3] \in Words /\ f[4] \in Words
  BY <1>3, <1>5, <1>9, Step4Carries
<1>11. f \in Lanes /\ Combined(f) = x
  <2> DEFINE w1 == ReadUint32LE(p)
             w2 == ReadUint32LE(p + 4)
             w3 == ReadUint32LE(p + 8)
             w4 == ReadUint32LE(p + 12)
  <2>1. f \in Lanes
    BY <1>7, <1>10, NewLanes
  <2>2. Combined(f) = Nested(f[1], f[2], f[3], f[4])
    BY <2>1, LanesCombine
  <2>3. w1 \in Words /\ w2 \in Words /\ w3 \in Words /\ w4 \in Words
    BY <1>3
  <2>4. /\ f[1] = w1 ^^ CarriedBytes(16, old[1]) /\ f[2] = w2 ^^ CarriedBytes(16, old[2])
        /\ f[3] = w3 ^^ CarriedBytes(16, old[3]) /\ f[4] = w4 ^^ CarriedBytes(16, old[4])
    BY <1>10
  <2>5. x = Nested(w1 ^^ crc.exact, w2, w3, w4)
    BY <1>3
  <2> HIDE DEF w1, w2, w3, w4
  <2>6. FourWords(old[1], old[2], old[3], old[4]) /\ FourWords(w1, w2, w3, w4)
    BY <1>9, <2>3 DEF FourWords
  <2>7. Nested(w1 ^^ CarriedBytes(16, old[1]), w2 ^^ CarriedBytes(16, old[2]),
               w3 ^^ CarriedBytes(16, old[3]), w4 ^^ CarriedBytes(16, old[4]))
          = Nested(w1 ^^ Nested(old[1], old[2], old[3], old[4]), w2, w3, w4)
    BY <2>6, StrideKeeps
  <2> QED
    BY <2>1, <2>2, <2>4, <2>5, <2>7, <1>9
<1>12. /\ Extended(crc.exact, crc.p, crc.p + 16) \in Words
       /\ crc' = [pc |-> crc.pc, p |-> crc.p + 16, l |-> crc.l, lanes |-> f,
                  exact |-> Extended(crc.exact, crc.p, crc.p + 16)]
       /\ Combined(f) = Extended(crc.exact, crc.p, crc.p + 16)
  BY <1>3, <1>6, <1>11 DEF x
<1>13. 16 \in Nat /\ crc.pc \in {"align", "swath", "tail"} /\ crc.pc # "align"
  BY <1>2
<1> QED
  BY <1>1, <1>2, <1>8, <1>11, <1>12, <1>13, MovedKeeps

\* Four lanes as a sequence: the first is taken off, a fourth is appended.
LEMMA LanesAreSeqs ==
    ASSUME NEW f \in Lanes
    PROVE  f \in Seq(Words) /\ Len(f) = 4
<1>1. \A i \in 1..4 : f[i] \in Words
  BY DEF Lanes
<1>2. [i \in 1..4 |-> f[i]] \in Seq(Words)
  BY <1>1, IsASeq
<1>3. [i \in 1..4 |-> f[i]] = f
  BY DEF Lanes
<1>4. f \in Seq(Words)
  BY <1>2, <1>3
<1> QED
  BY <1>4, LenProperties DEF Lanes

LEMMA TailOfFour ==
    ASSUME NEW W, NEW f \in Seq(W), Len(f) = 4
    PROVE  Tail(f) \in Seq(W) /\ Len(Tail(f)) = 3 /\ \A i \in 1..3 : Tail(f)[i] = f[i + 1]
<1>1. f # <<>>
  <2>1. Len(<<>>) = 0
    OBVIOUS
  <2> QED
    BY <2>1
<1>2. /\ Tail(f) \in Seq(W) /\ Len(Tail(f)) = Len(f) - 1
      /\ \A i \in 1..Len(Tail(f)) : Tail(f)[i] = f[i + 1]
  BY <1>1, HeadTailProperties
<1>3. Len(f) - 1 = 3
  OBVIOUS
<1>4. Len(Tail(f)) = 3
  BY <1>2, <1>3
<1> QED
  BY <1>2, <1>4

Appended(s, x, r, W) ==
    /\ r \in Seq(W) /\ Len(r) = Len(s) + 1 /\ r[Len(s) + 1] = x
    /\ \A i \in 1..Len(s) : r[i] = s[i]

LEMMA AppendAppends ==
    ASSUME NEW W, NEW t \in Seq(W), NEW y \in W
    PROVE  Appended(t, y, Append(t, y), W)
<1>1. Append(t, y) \in Seq(W) /\ Len(Append(t, y)) = Len(t) + 1 /\ Append(t, y)[Len(t) + 1] = y
  BY AppendProperties
<1>2. \A i \in 1..Len(t) : Append(t, y)[i] = t[i]
  BY AppendProperties
<1> QED
  BY <1>1, <1>2 DEF Appended

LEMMA AppendToThree ==
    ASSUME NEW W, NEW t \in Seq(W), Len(t) = 3, NEW x \in W
    PROVE  /\ Append(t, x) \in Seq(W) /\ Len(Append(t, x)) = 4
           /\ \A i \in 1..3 : Append(t, x)[i] = t[i]
           /\ Append(t, x)[4] = x
<1> DEFINE r == Append(t, x)
<1>1. Appended(t, x, r, W)
  BY AppendAppends
<1> HIDE DEF r
<1>2. r \in Seq(W) /\ Len(r) = 4 /\ r[4] = x /\ \A i \in 1..3 : r[i] = t[i]
  BY <1>1 DEF Appended
<1> QED
  BY <1>2 DEF r

LEMMA WordStepKeeps ==
    ASSUME CrcInv, StepWord
    PROVE  CrcInv'
<1> DEFINE p == crc.p
           x == Extended(crc.exact, crc.p, crc.p + 4)
           old == crc.lanes
           w == ReadUint32LE(crc.p)
           s == Step4(crc.lanes[1], ReadUint32LE(crc.p))
           f == Append(Tail(crc.lanes), s)
<1>1. /\ InData(crc.p, crc.p + 4) /\ crc.exact \in Words /\ p \in Nat /\ crc.l \in Words
      /\ old \in Lanes
  <2>1. 4 \in Nat /\ 4 <= Left
    BY CrcFields DEF StepWord
  <2> QED
    BY <2>1, CrcFields
<1>2. crc.pc = "swath" /\ Combined(old) = crc.exact
  BY DEF CrcInv, StepWord
<1>3. x = CarriedBytes(4, w ^^ crc.exact) /\ w \in Words /\ x \in Words
  BY <1>1, ExtendedByWord
<1>4. crc' = [pc |-> crc.pc, p |-> crc.p + 4, l |-> crc.l, lanes |-> f, exact |-> x]
  <2>1. crc' = [[crc EXCEPT !.p = crc.p + 4, !.exact = x] EXCEPT !.lanes = f]
    BY DEF StepWord, Moved
  <2>2. crc \in [pc : {"idle", "align", "stride", "swath", "tail"}, p : Nat, l : Words,
                 lanes : Lanes, exact : Words]
    BY DEF CrcInv
  <2> HIDE DEF f, x
  <2> QED
    BY <2>1, <2>2, UpdatedRecord
<1>5. UNCHANGED <<data, aligned>>
  BY DEF StepWord
<1>6. /\ old[1] \in Words /\ old[2] \in Words /\ old[3] \in Words /\ old[4] \in Words
      /\ crc.exact = Nested(old[1], old[2], old[3], old[4])
  BY <1>1, <1>2, LanesCombine
<1>7. s = Step4(old[1], w) /\ f = Append(Tail(old), s)
  OBVIOUS
<1> HIDE DEF f, s, w, x, p, old
<1>8. s = w ^^ CarriedBytes(16, old[1]) /\ s \in Words
  BY <1>3, <1>6, <1>7, Step4Carries
<1>9. /\ f \in Lanes /\ f[1] = old[2] /\ f[2] = old[3] /\ f[3] = old[4] /\ f[4] = s
  <2>1. old \in Seq(Words) /\ Len(old) = 4
    BY <1>1, LanesAreSeqs
  <2> DEFINE t == Tail(old)
  <2>2. t \in Seq(Words) /\ Len(t) = 3 /\ \A i \in 1..3 : t[i] = old[i + 1]
    BY <2>1, TailOfFour
  <2> HIDE DEF t
  <2>3. t[1] = old[2] /\ t[2] = old[3] /\ t[3] = old[4]
    BY <2>2
  <2>4. /\ Append(t, s) \in Seq(Words) /\ Len(Append(t, s)) = 4
        /\ \A i \in 1..3 : Append(t, s)[i] = t[i]
        /\ Append(t, s)[4] = s
    BY <2>2, <1>8, AppendToThree
  <2>5. f = Append(t, s)
    BY <1>7 DEF t
  <2>6. f \in Seq(Words) /\ Len(f) = 4 /\ f[1] = old[2] /\ f[2] = old[3] /\ f[3] = old[4]
          /\ f[4] = s
    BY <2>3, <2>4, <2>5
  <2>7. f \in [1..Len(f) -> Words]
    BY <2>6, LenProperties
  <2> QED
    BY <2>6, <2>7 DEF Lanes
<1>10. Combined(f) = x
  <2>1. Combined(f) = Nested(f[1], f[2], f[3], f[4])
    BY <1>9, LanesCombine
  <2>2. Nested(old[2], old[3], old[4], w ^^ CarriedBytes(16, old[1]))
          = CarriedBytes(4, w ^^ Nested(old[1], old[2], old[3], old[4]))
    <3>1. FourWords(old[1], old[2], old[3], old[4])
      BY <1>6 DEF FourWords
    <3> QED
      BY <3>1, <1>3, WordKeeps
  <2> QED
    BY <2>1, <2>2, <1>3, <1>6, <1>8, <1>9
<1>11. /\ Extended(crc.exact, crc.p, crc.p + 4) \in Words
       /\ crc' = [pc |-> crc.pc, p |-> crc.p + 4, l |-> crc.l, lanes |-> f,
                  exact |-> Extended(crc.exact, crc.p, crc.p + 4)]
       /\ Combined(f) = Extended(crc.exact, crc.p, crc.p + 4)
  BY <1>3, <1>4, <1>10 DEF x
<1>12. 4 \in Nat /\ crc.pc \in {"align", "swath", "tail"} /\ crc.pc # "align"
  BY <1>2
<1> QED
  BY <1>1, <1>2, <1>5, <1>9, <1>11, <1>12, MovedKeeps

-----------------------------------------------------------------------------
(* Words as numbers.                                                       *)

LEMMA PowerDefined ==
    /\ Power \in [Nat -> Nat] /\ Power[0] = 1
    /\ \A n \in Nat : Power[n + 1] = 2 * Power[n] /\ Power[n] \in Nat \ {0}
<1> DEFINE next == [p \in Nat \X Nat |-> 2 * p[2]]
           E(g) == [n \in Nat |-> IF n = 0 THEN 1 ELSE 2 * g[n - 1]]
<1>1. next \in [Nat \X Nat -> Nat] /\ \A n \in Nat, v \in Nat : next[<<n, v>>] = 2 * v
  OBVIOUS
<1> HIDE DEF next
<1>2. PICK f : NatRecursive(f, Nat, 1, next)
  <2>1. 1 \in Nat
    OBVIOUS
  <2> QED
    BY <1>1, <2>1, NatRecursion
<1>3. f \in [Nat -> Nat] /\ f[0] = 1 /\ \A n \in Nat \ {0} : f[n] = next[<<n, f[n - 1]>>]
  BY <1>2 DEF NatRecursive
<1>4. \A n \in Nat \ {0} : f[n] = 2 * f[n - 1]
  <2>1. SUFFICES ASSUME NEW n \in Nat \ {0} PROVE f[n] = 2 * f[n - 1]
    OBVIOUS
  <2>2. n - 1 \in Nat
    OBVIOUS
  <2>3. f[n - 1] \in Nat /\ f[n] = next[<<n, f[n - 1]>>]
    BY <2>2, <1>3
  <2> QED
    BY <2>3, <1>1
<1>5. \A n \in Nat : f[n] = IF n = 0 THEN 1 ELSE 2 * f[n - 1]
  BY <1>3, <1>4
<1>6. f = E(f)
  <2>1. f = [n \in Nat |-> f[n]]
    BY <1>3
  <2> QED
    BY <2>1, <1>5, Zenon
<1>7. Power = E(Power)
  <2>1. Power = CHOOSE g : g = E(g)
    BY DEF Power
  <2> HIDE DEF E
  <2> QED
    BY <2>1, <1>6
<1> DEFINE g == Power
<1> HIDE DEF g
<1>8. g = E(g)
  BY <1>7 DEF g
<1>9. \A n \in Nat : g[n] = IF n = 0 THEN 1 ELSE 2 * g[n - 1]
  BY <1>8, Zenon
<1>10. g = f
  <2>1. IsNatFunction(g)
    BY <1>8, Zenon DEF IsNatFunction
  <2>2. g[0] = 1
    BY <1>9
  <2>3. \A n \in Nat \ {0} : g[n - 1] \in Nat => g[n] = next[<<n, g[n - 1]>>]
    <3>1. SUFFICES ASSUME NEW n \in Nat \ {0}, g[n - 1] \in Nat
                   PROVE  g[n] = next[<<n, g[n - 1]>>]
      OBVIOUS
    <3>2. g[n] = 2 * g[n - 1]
      BY <1>9
    <3> QED
      BY <3>1, <3>2, <1>1
  <2> QED
    BY <2>1, <2>2, <2>3, <1>2, NatUnique
<1>11. ASSUME NEW n \in Nat PROVE f[n + 1] = 2 * f[n]
  <2>1. n + 1 \in Nat \ {0} /\ n + 1 - 1 = n
    OBVIOUS
  <2> QED
    BY <2>1, <1>4
<1>12. \A n \in Nat : f[n] # 0
  <2> DEFINE Bad == {n \in Nat : f[n] = 0}
  <2>1. SUFFICES ASSUME Bad # {} PROVE FALSE
    OBVIOUS
  <2>2. PICK n \in Bad : \A m \in Bad : n <= m
    BY <2>1, LeastNumber
  <2>3. n \in Nat \ {0} /\ f[n] = 0
    BY <2>2, <1>3
  <2>4. n - 1 \in Nat /\ n - 1 \notin Bad
    BY <2>2, <2>3
  <2>5. f[n - 1] \in Nat /\ f[n - 1] # 0 /\ f[n] = 2 * f[n - 1]
    BY <2>3, <2>4, <1>3, <1>4
  <2> QED
    BY <2>3, <2>5
<1>13. /\ f \in [Nat -> Nat] /\ f[0] = 1
       /\ \A n \in Nat : f[n + 1] = 2 * f[n] /\ f[n] \in Nat \ {0}
  BY <1>3, <1>11, <1>12
<1> QED
  BY <1>10, <1>13 DEF g

\* The sums that Number makes, bit by bit.
BitValue(w, n) == IF n \in w THEN Power[n] ELSE 0

Summing(s, w) ==
    /\ s \in [Nat -> Nat] /\ s[0] = 0
    /\ \A n \in Nat : s[n + 1] = s[n] + BitValue(w, n)

LEMMA BitValueIsNat == \A w : \A n \in Nat : BitValue(w, n) \in Nat
  BY PowerDefined DEF BitValue

LEMMA NumberSums ==
    ASSUME NEW w \in Words
    PROVE  \E s : Summing(s, w) /\ Number(w) = s[WordBits]
<1> DEFINE bit == [n \in Nat |-> BitValue(w, n)]
           next == [p \in Nat \X Nat |-> p[2] + (IF p[1] = 0 THEN 0 ELSE bit[p[1] - 1])]
           E(g) == [n \in Nat |-> IF n = 0 THEN 0
                                   ELSE g[n - 1] + (IF n - 1 \in w THEN Power[n - 1] ELSE 0)]
<1>1. bit \in [Nat -> Nat]
  BY BitValueIsNat
<1>2. \A n \in Nat : bit[n] = IF n \in w THEN Power[n] ELSE 0
  BY DEF BitValue
<1>3. \A n \in Nat : bit[n] = BitValue(w, n)
  OBVIOUS
<1> HIDE DEF bit
<1>4. next \in [Nat \X Nat -> Nat]
  <2>1. \A n, v \in Nat : v + (IF n = 0 THEN 0 ELSE bit[n - 1]) \in Nat
    <3>1. SUFFICES ASSUME NEW n \in Nat, NEW v \in Nat
                   PROVE  v + (IF n = 0 THEN 0 ELSE bit[n - 1]) \in Nat
      OBVIOUS
    <3>2. n # 0 => n - 1 \in Nat
      OBVIOUS
    <3>3. n # 0 => bit[n - 1] \in Nat
      BY <3>2, <1>1
    <3> QED
      BY <3>3
  <2> QED
    BY <2>1
<1>5. \A n \in Nat \ {0}, v \in Nat : next[<<n, v>>] = v + bit[n - 1]
  OBVIOUS
<1> HIDE DEF next
<1>6. PICK f : NatRecursive(f, Nat, 0, next)
  <2>1. 0 \in Nat
    OBVIOUS
  <2> QED
    BY <1>4, <2>1, NatRecursion
<1>7. f \in [Nat -> Nat] /\ f[0] = 0 /\ \A n \in Nat \ {0} : f[n] = next[<<n, f[n - 1]>>]
  BY <1>6 DEF NatRecursive
<1>8. ASSUME NEW n \in Nat \ {0} PROVE f[n] = f[n - 1] + bit[n - 1] /\ n - 1 \in Nat
  <2>1. n - 1 \in Nat
    OBVIOUS
  <2>2. f[n - 1] \in Nat /\ f[n] = next[<<n, f[n - 1]>>]
    BY <2>1, <1>7
  <2> QED
    BY <2>1, <2>2, <1>5
<1>9. \A n \in Nat : f[n] = IF n = 0 THEN 0
                             ELSE f[n - 1] + (IF n - 1 \in w THEN Power[n - 1] ELSE 0)
  BY <1>2, <1>7, <1>8
<1>10. f = E(f)
  <2>1. f = [n \in Nat |-> f[n]]
    BY <1>7
  <2> QED
    BY <2>1, <1>9, Zenon
<1> DEFINE g == CHOOSE h : h = E(h)
<1>11. g = E(g)
  <2> HIDE DEF E
  <2> QED
    BY <1>10
<1>12. Number(w) = g[WordBits]
  BY DEF Number
<1> HIDE DEF g
<1>13. \A n \in Nat : g[n] = IF n = 0 THEN 0
                              ELSE g[n - 1] + (IF n - 1 \in w THEN Power[n - 1] ELSE 0)
  BY <1>11, Zenon
<1>14. g = f
  <2>1. IsNatFunction(g)
    BY <1>11, Zenon DEF IsNatFunction
  <2>2. g[0] = 0
    BY <1>13
  <2>3. \A n \in Nat \ {0} : g[n - 1] \in Nat => g[n] = next[<<n, g[n - 1]>>]
    <3>1. SUFFICES ASSUME NEW n \in Nat \ {0}, g[n - 1] \in Nat
                   PROVE  g[n] = next[<<n, g[n - 1]>>]
      OBVIOUS
    <3>2. n - 1 \in Nat
      OBVIOUS
    <3>3. g[n] = g[n - 1] + bit[n - 1]
      BY <3>2, <1>2, <1>13
    <3> QED
      BY <3>1, <3>3, <1>5
  <2> QED
    BY <2>1, <2>2, <2>3, <1>6, NatUnique
<1>15. ASSUME NEW n \in Nat PROVE f[n + 1] = f[n] + BitValue(w, n)
  <2>1. n + 1 \in Nat \ {0} /\ n + 1 - 1 = n
    OBVIOUS
  <2>2. f[n + 1] = f[n + 1 - 1] + bit[n + 1 - 1]
    BY <2>1, <1>8
  <2> QED
    BY <2>1, <2>2, <1>3
<1>16. Summing(f, w)
  BY <1>7, <1>15 DEF Summing
<1> QED
  BY <1>12, <1>14, <1>16

\* What a quotient is.
LEMMA QuotientUnique ==
    ASSUME NEW p \in Int, NEW m \in Nat \ {0}, NEW q \in Int, NEW t \in 0..(m - 1),
           p = q * m + t
    PROVE  p \div m = q /\ p % m = t
<1> DEFINE k == p \div m
           d == k - q
<1>1. k \in Int /\ p % m = t /\ p = k * m + (p % m)
  BY Division, RemainderUnique
<1>2. d \in Int
  BY <1>1
<1>3. d * m = 0
  BY <1>1
<1> HIDE DEF d
<1>4. CASE d >= 1
  <2>1. d * m >= m
    BY <1>2, <1>4, MultipleAtLeast
  <2> QED
    BY <2>1, <1>3
<1>5. CASE d <= -1
  <2>1. (-d) * m >= m /\ (-d) * m = -(d * m)
    BY <1>2, <1>5, MultipleAtLeast
  <2> QED
    BY <2>1, <1>3
<1>6. CASE d = 0
  BY <1>1, <1>6 DEF d
<1> QED
  BY <1>2, <1>4, <1>5, <1>6

\* The sum of the low n bits is below the next power.
LEMMA SumsAreSmall ==
    ASSUME NEW w, NEW s, Summing(s, w), NEW n \in Nat
    PROVE  s[n] \in 0..(Power[n] - 1)
<1> DEFINE Bad == {k \in Nat : s[k] \notin 0..(Power[k] - 1)}
<1>1. Bad = {}
  <2>1. SUFFICES ASSUME Bad # {} PROVE FALSE
    OBVIOUS
  <2>2. PICK k \in Bad : \A j \in Bad : k <= j
    BY <2>1, LeastNumber
  <2>3. k # 0
    BY <2>2, PowerDefined DEF Summing
  <2> DEFINE j == k - 1
  <2>4. j \in Nat /\ j + 1 = k
    BY <2>3
  <2>5. s[j] \in 0..(Power[j] - 1)
    BY <2>2, <2>4
  <2> HIDE DEF j, Bad
  <2>6. s[j + 1] = s[j] + BitValue(w, j) /\ Power[j + 1] = 2 * Power[j] /\ Power[j] \in Nat
    BY <2>4, PowerDefined DEF Summing
  <2>7. BitValue(w, j) \in {0, Power[j]}
    BY DEF BitValue
  <2>8. s[j + 1] \in 0..(Power[j + 1] - 1)
    BY <2>5, <2>6, <2>7
  <2> QED
    BY <2>2, <2>4, <2>8 DEF Bad
<1> QED
  BY <1>1

LEMMA NumberIsSmall ==
    ASSUME NEW w \in Words
    PROVE  Number(w) \in 0..(Power[WordBits] - 1)
<1>1. PICK s : Summing(s, w) /\ Number(w) = s[WordBits]
  BY NumberSums
<1> QED
  BY <1>1, SumsAreSmall, WidthIsNat

LEMMA BitsIsWord == \A n : Bits(n) \in Words
  BY DEF Bits, Words

\* The bits of the number of a word are those of the word.
LEMMA BitsOfNumber ==
    ASSUME NEW w \in Words
    PROVE  Bits(Number(w)) = w
<1>1. PICK s : Summing(s, w) /\ Number(w) = s[WordBits]
  BY NumberSums
<1> DEFINE n == Number(w)
<1>2. n \in Nat /\ WordBits \in Nat /\ n = s[WordBits]
  BY <1>1, WidthIsNat DEF Summing
<1> HIDE DEF n
<1> DEFINE Splits(k) == \E q \in Nat : n = q * Power[k] + s[k]
<1>3. \A j \in 0..WordBits : Splits(WordBits - j)
  <2> DEFINE Bad == {j \in 0..WordBits : ~Splits(WordBits - j)}
  <2>1. SUFFICES ASSUME Bad # {} PROVE FALSE
    OBVIOUS
  <2>2. PICK j \in Bad : \A i \in Bad : j <= i
    <3>1. Bad \in SUBSET Nat
      BY <1>2
    <3> HIDE DEF Bad
    <3> QED
      BY <2>1, <3>1, LeastNumber
  <2>3. j \in Nat /\ j <= WordBits
    BY <2>2, <1>2
  <2>4. j # 0
    <3>1. n = 0 * Power[WordBits] + s[WordBits] /\ WordBits - 0 = WordBits
      BY <1>2, PowerDefined
    <3>2. Splits(WordBits - 0)
      BY <3>1
    <3> HIDE DEF Splits
    <3> QED
      BY <2>2, <3>2
  <2> DEFINE k == WordBits - j
  <2>5. k \in Nat /\ WordBits - (j - 1) = k + 1 /\ j - 1 \in 0..WordBits
    BY <2>3, <2>4, <1>2
  <2>6. Splits(k + 1)
    <3>1. j - 1 \notin Bad
      BY <2>2, <2>3
    <3> HIDE DEF Splits
    <3> QED
      BY <3>1, <2>5
  <2> HIDE DEF k
  <2>7. PICK q \in Nat : n = q * Power[k + 1] + s[k + 1]
    BY <2>6
  <2>8. /\ s[k + 1] = s[k] + BitValue(w, k) /\ s[k] \in Nat
        /\ Power[k + 1] = 2 * Power[k] /\ Power[k] \in Nat
    BY <1>1, <2>5, PowerDefined DEF Summing
  <2> DEFINE p == Power[k]
             e == IF k \in w THEN 1 ELSE 0
  <2>9. BitValue(w, k) = e * p /\ e \in Nat
    BY <2>8 DEF BitValue
  <2>10. p \in Nat
    BY <2>8
  <2>11. n = q * (2 * p) + (s[k] + e * p)
    BY <2>7, <2>8, <2>9
  <2> HIDE DEF p, e
  <2>12. n = (2 * q + e) * p + s[k] /\ 2 * q + e \in Nat
    BY <2>8, <2>9, <2>10, <2>11
  <2>13. Splits(k)
    BY <2>12 DEF p
  <2> HIDE DEF Splits
  <2> QED
    BY <2>2, <2>13 DEF k
<1>4. ASSUME NEW b \in AllOnes PROVE (n \div Power[b]) % 2 = 1 <=> b \in w
  <2>1. b \in Nat /\ WordBits - (b + 1) \in 0..WordBits /\ WordBits - (WordBits - (b + 1)) = b + 1
    BY <1>2 DEF AllOnes
  <2>2. Splits(b + 1)
    <3>1. Splits(WordBits - (WordBits - (b + 1)))
      <4> HIDE DEF Splits
      <4> QED
        BY <2>1, <1>3
    <3> HIDE DEF Splits
    <3> QED
      BY <2>1, <3>1
  <2>3. PICK q \in Nat : n = q * Power[b + 1] + s[b + 1]
    BY <2>2
  <2>4. /\ s[b + 1] = s[b] + BitValue(w, b) /\ s[b] \in Nat
        /\ Power[b + 1] = 2 * Power[b] /\ Power[b] \in Nat \ {0}
    BY <1>1, <2>1, PowerDefined DEF Summing
  <2>5. s[b] \in 0..(Power[b] - 1)
    BY <1>1, <2>1, SumsAreSmall
  <2> DEFINE p == Power[b]
             e == IF b \in w THEN 1 ELSE 0
  <2>6. BitValue(w, b) = e * p /\ e \in {0, 1} /\ (e = 1 <=> b \in w)
    BY <2>4 DEF BitValue
  <2>7. p \in Nat \ {0} /\ s[b] \in 0..(p - 1)
    BY <2>4, <2>5
  <2>8. n = q * (2 * p) + (s[b] + e * p)
    BY <2>3, <2>4, <2>6
  <2>9. Power[b] = p
    OBVIOUS
  <2> HIDE DEF p, e
  <2>10. n = (2 * q + e) * p + s[b] /\ 2 * q + e \in Int
    BY <2>4, <2>6, <2>7, <2>8
  <2>11. n \div p = 2 * q + e
    <3> DEFINE v == 2 * q + e
    <3>1. n = v * p + s[b] /\ v \in Int /\ n \in Int
      BY <1>2, <2>10
    <3> HIDE DEF v
    <3>2. n \div p = v
      BY <3>1, <2>7, QuotientUnique
    <3> QED
      BY <3>2 DEF v
  <2>12. (2 * q + e) % 2 = e
    BY <2>6
  <2> QED
    BY <2>6, <2>9, <2>11, <2>12
<1>5. w \subseteq AllOnes
  BY DEF Words
<1> QED
  BY <1>4, <1>5 DEF Bits, n

\* The number of the bits of a number is that number.
LEMMA NumberOfBits ==
    ASSUME NEW n \in 0..(Power[WordBits] - 1)
    PROVE  Number(Bits(n)) = n
<1> DEFINE w == Bits(n)
<1>1. w \in Words
  BY BitsIsWord
<1>2. n \in Nat /\ n < Power[WordBits] /\ WordBits \in Nat /\ Power[WordBits] \in Nat \ {0}
  BY WidthIsNat, PowerDefined
<1>3. \A b \in AllOnes : b \in w <=> (n \div Power[b]) % 2 = 1
  BY DEF Bits
<1> HIDE DEF w
<1>4. PICK s : Summing(s, w) /\ Number(w) = s[WordBits]
  BY <1>1, NumberSums
<1> DEFINE Bad == {k \in 0..WordBits : s[k] # n % Power[k]}
<1>5. Bad = {}
  <2>1. SUFFICES ASSUME Bad # {} PROVE FALSE
    OBVIOUS
  <2>2. PICK k \in Bad : \A j \in Bad : k <= j
    <3>1. Bad \in SUBSET Nat
      BY <1>2
    <3> HIDE DEF Bad
    <3> QED
      BY <2>1, <3>1, LeastNumber
  <2>3. k # 0
    <3>1. n % 1 = 0
      BY <1>2
    <3> QED
      BY <2>2, <3>1, <1>4, PowerDefined DEF Summing
  <2> DEFINE j == k - 1
  <2>4. j \in Nat /\ j + 1 = k /\ j \in 0..WordBits /\ j \in AllOnes
    BY <2>2, <2>3, <1>2 DEF AllOnes
  <2>5. s[j] = n % Power[j]
    BY <2>2, <2>4
  <2> HIDE DEF j, Bad
  <2>6. /\ s[j + 1] = s[j] + BitValue(w, j)
        /\ Power[j + 1] = 2 * Power[j] /\ Power[j] \in Nat \ {0}
    BY <1>4, <2>4, PowerDefined DEF Summing
  <2> DEFINE p == Power[j]
             q == n \div p
             r == n % p
             h == q \div 2
             e == q % 2
  <2>7. p \in Nat \ {0}
    BY <2>6
  <2>9. e = 1 <=> j \in w
    BY <2>4, <1>3
  <2>10. s[j] = r /\ BitValue(w, j) = IF j \in w THEN p ELSE 0
    BY <2>5 DEF BitValue
  <2>11. Power[j + 1] = 2 * p /\ s[j + 1] = s[j] + BitValue(w, j)
    BY <2>6
  <2> HIDE DEF p
  <2>8. q \in Int /\ r \in 0..(p - 1) /\ n = q * p + r
    BY <1>2, <2>7, Division
  <2> HIDE DEF q, r
  <2>12. h \in Int /\ e \in 0..1 /\ q = 2 * h + e
    BY <2>8
  <2> HIDE DEF h, e
  <2>13. n = h * (2 * p) + (e * p + r)
    BY <2>7, <2>8, <2>12
  <2>14. e * p + r \in 0..(2 * p - 1)
    <3>1. e = 0 \/ e = 1
      BY <2>12
    <3> QED
      BY <3>1, <2>7, <2>8
  <2>15. n % (2 * p) = e * p + r
    <3> DEFINE m == 2 * p
               t == e * p + r
    <3>1. m \in Nat \ {0} /\ t \in 0..(m - 1) /\ n = h * m + t /\ n \in Int /\ h \in Int
      BY <1>2, <2>7, <2>12, <2>13, <2>14
    <3> HIDE DEF m, t
    <3>2. n % m = t
      BY <3>1, RemainderUnique
    <3> QED
      BY <3>2 DEF m, t
  <2>16. BitValue(w, j) = e * p
    BY <2>7, <2>9, <2>10, <2>12
  <2>17. s[j + 1] = n % Power[j + 1]
    BY <2>7, <2>8, <2>10, <2>11, <2>12, <2>15, <2>16
  <2> QED
    BY <2>2, <2>4, <2>17 DEF Bad
<1>6. WordBits \in 0..WordBits
  BY <1>2
<1>7. s[WordBits] = n % Power[WordBits]
  BY <1>5, <1>6
<1>8. n % Power[WordBits] = n
  <2> DEFINE m == Power[WordBits]
  <2>1. n = 0 * m + n /\ n \in 0..(m - 1) /\ m \in Nat \ {0} /\ 0 \in Int /\ n \in Int
    BY <1>2
  <2> HIDE DEF m
  <2>2. n % m = n
    BY <2>1, RemainderUnique
  <2> QED
    BY <2>2 DEF m
<1> QED
  BY <1>4, <1>7, <1>8 DEF w

LEMMA RotatesBack ==
    ASSUME NEW w \in Words, NEW n \in 0..WordBits
    PROVE  /\ RotateRight(w, n) \in Words
           /\ RotateRight(RotateRight(w, n), WordBits - n) = w
<1>1. ASSUME NEW x \in Nat, x < WordBits PROVE x % WordBits = x /\ (x + WordBits) % WordBits = x
  <2>1. WordBits \in Nat \ {0} /\ x \in 0..(WordBits - 1) /\ x = 0 * WordBits + x
          /\ x + WordBits = 1 * WordBits + x /\ x \in Int /\ x + WordBits \in Int
    BY <1>1, WidthIsNat
  <2>2. x % WordBits = x
    BY <2>1, RemainderUnique
  <2>3. (x + WordBits) % WordBits = x
    <3> DEFINE y == x + WordBits
    <3>1. y \in Int /\ y = 1 * WordBits + x /\ 1 \in Int
      BY <2>1
    <3> HIDE DEF y
    <3>2. y % WordBits = x
      BY <2>1, <3>1, RemainderUnique
    <3> QED
      BY <3>2 DEF y
  <2> QED
    BY <2>2, <2>3
<1> DEFINE turned(b) == (b + WordBits - n) % WordBits
<1>2. ASSUME NEW b \in w
      PROVE  turned(b) \in AllOnes /\ (turned(b) + WordBits - (WordBits - n)) % WordBits = b
  <2>1. b \in Nat /\ b < WordBits /\ WordBits \in Nat /\ n \in Nat /\ n <= WordBits
    BY WidthIsNat DEF Words, AllOnes
  <2>2. CASE b >= n
    <3>1. b - n \in Nat /\ b - n < WordBits /\ b + WordBits - n = (b - n) + WordBits
      BY <2>1, <2>2
    <3>2. turned(b) = b - n
      BY <3>1, <1>1
    <3>3. (b - n) + WordBits - (WordBits - n) = b /\ b - n \in 0..(WordBits - 1)
      BY <2>1, <3>1
    <3>4. b % WordBits = b
      BY <2>1, <1>1
    <3> HIDE DEF turned
    <3> QED
      BY <3>2, <3>3, <3>4 DEF AllOnes
  <2>3. CASE b < n
    <3>1. b + WordBits - n \in Nat /\ b + WordBits - n < WordBits
      BY <2>1, <2>3
    <3>2. turned(b) = b + WordBits - n
      BY <3>1, <1>1
    <3>3. /\ (b + WordBits - n) + WordBits - (WordBits - n) = b + WordBits
          /\ b + WordBits - n \in 0..(WordBits - 1)
      BY <2>1, <3>1
    <3>4. (b + WordBits) % WordBits = b
      BY <2>1, <1>1
    <3> HIDE DEF turned
    <3> QED
      BY <3>2, <3>3, <3>4 DEF AllOnes
  <2> QED
    BY <2>1, <2>2, <2>3
<1> DEFINE v == RotateRight(w, n)
<1>3. v = {turned(b) : b \in w}
  BY DEF RotateRight
<1>4. v \in Words
  BY <1>2, <1>3 DEF Words
<1>5. RotateRight(v, WordBits - n) = {(c + WordBits - (WordBits - n)) % WordBits : c \in v}
  BY DEF RotateRight
<1> DEFINE back(c) == (c + WordBits - (WordBits - n)) % WordBits
<1>6. \A b \in w : turned(b) \in v /\ back(turned(b)) = b
  BY <1>2, <1>3
<1>7. RotateRight(v, WordBits - n) = {back(c) : c \in v}
  BY <1>5
<1> HIDE DEF back, turned, v
<1>8. {back(c) : c \in v} = w
  BY <1>3, <1>6
<1> QED
  BY <1>4, <1>7, <1>8 DEF v

\* crc32c.h: Unmask undoes Mask, on every word.
THEOREM UnmaskUndoesMask ==
    ASSUME NEW w \in Words
    PROVE  Unmask(Mask(w)) = w
<1> DEFINE P == Power[WordBits]
           v == RotateRight(w, MaskShift)
           x == Number(v)
           m == (x + MaskDelta) % P
           y == (m + P - MaskDelta) % P
<1>1. MaskShift \in 0..WordBits
  BY WordAssumption
<1>2. v \in Words /\ RotateRight(v, WordBits - MaskShift) = w
  BY <1>1, RotatesBack
<1>3. P \in Nat \ {0} /\ MaskDelta \in 0..(P - 1)
  BY WordAssumption, WidthIsNat, PowerDefined
<1>4. Mask(w) = Bits(m)
  BY DEF Mask
<1>5. x \in 0..(P - 1) /\ Bits(x) = v
  <2> HIDE DEF v
  <2> QED
    BY <1>2, NumberIsSmall, BitsOfNumber
<1>6. Unmask(Mask(w)) = RotateRight(Bits((Number(Bits(m)) + P - MaskDelta) % P),
                                    WordBits - MaskShift)
  <2> HIDE DEF m
  <2> QED
    BY <1>4 DEF Unmask
<1>7. m \in 0..(P - 1) => Number(Bits(m)) = m
  <2> HIDE DEF m
  <2> QED
    BY NumberOfBits
<1> DEFINE u == IF x + MaskDelta < P THEN x + MaskDelta ELSE x + MaskDelta - P
<1>8. m = u /\ u \in 0..(P - 1)
  <2> HIDE DEF P, x
  <2>1. /\ x + MaskDelta \in Int /\ u \in 0..(P - 1)
        /\ \E k \in Int : x + MaskDelta = k * P + u
    <3>1. x + MaskDelta = 0 * P + u \/ x + MaskDelta = 1 * P + u
      BY <1>3, <1>5
    <3> QED
      BY <3>1, <1>3, <1>5
  <2> DEFINE z == x + MaskDelta
  <2>2. PICK k \in Int : z = k * P + u
    BY <2>1
  <2>3. m = z % P
    OBVIOUS
  <2>4. z \in Int /\ u \in 0..(P - 1)
    BY <2>1
  <2> HIDE DEF z, u, m
  <2>5. m = u
    BY <2>2, <2>3, <2>4, <1>3, RemainderUnique
  <2> QED
    BY <2>4, <2>5
<1>9. y = x
  <2>1. y = (u + P - MaskDelta) % P
    BY <1>8
  <2> HIDE DEF P, x, m, y
  <2> DEFINE z == u + P - MaskDelta
  <2>2. /\ z \in Int /\ x \in 0..(P - 1)
        /\ (z = 1 * P + x \/ z = 0 * P + x)
    BY <1>3, <1>5
  <2>3. PICK k \in Int : z = k * P + x
    BY <2>2
  <2>4. y = z % P
    BY <2>1
  <2> HIDE DEF z, u
  <2> QED
    BY <2>2, <2>3, <2>4, <1>3, RemainderUnique
<1> HIDE DEF u
<1>10. Number(Bits(m)) = m
  <2> HIDE DEF m
  <2> QED
    BY <1>7, <1>8
<1>11. Unmask(Mask(w)) = RotateRight(Bits(y), WordBits - MaskShift)
  <2> HIDE DEF m
  <2> QED
    BY <1>6, <1>10
<1> HIDE DEF y, x, v, m
<1> QED
  BY <1>2, <1>5, <1>9, <1>11

-----------------------------------------------------------------------------
(* The invariant, and what it says.                                        *)

\* Any checksum is extended, over any bytes, at any address.
AnyBegin ==
    \E init_crc \in Words, bytes \in Seq(ByteValues), at \in 0..(WordBytes - 1) :
        Begin(init_crc, bytes, at)

AnyNext ==
    \/ AnyBegin
    \/ AlignByte \/ IsAligned \/ LoadSwath \/ StepSwath \/ StepWord \/ Combine
    \/ FewBytes \/ TailByte \/ Return

AnySpec == CrcInit /\ [][AnyNext]_crcVars

LEMMA CrcInductive == CrcInv /\ [AnyNext]_crcVars => CrcInv'
<1> SUFFICES ASSUME CrcInv, [AnyNext]_crcVars PROVE CrcInv'
  OBVIOUS
<1>1. CASE AnyBegin
  BY <1>1, BeginKeeps DEF AnyBegin
<1>2. CASE AlignByte
  <2>1. crc.pc = "align" /\ crc.p # aligned
    BY <1>2 DEF AlignByte
  <2>2. Left > 0
    <3>1. crc.p <= aligned /\ aligned <= Len(data) /\ aligned \in 0..3
      BY <2>1 DEF CrcInv
    <3> QED
      BY <2>1, <3>1, CrcFields
  <2> QED
    BY <1>2, <2>1, <2>2, ByteKeeps DEF AlignByte
<1>3. CASE IsAligned
  BY <1>3, PhaseKeeps DEF IsAligned
<1>4. CASE LoadSwath
  BY <1>4, LoadKeeps
<1>5. CASE StepSwath
  BY <1>5, StrideStepKeeps
<1>6. CASE StepWord
  BY <1>6, WordStepKeeps
<1>7. CASE Combine
  BY <1>7, CombineKeeps
<1>8. CASE FewBytes
  BY <1>8, PhaseKeeps DEF FewBytes
<1>9. CASE TailByte
  <2>1. crc.pc = "tail" /\ Left > 0
    BY <1>9 DEF TailByte
  <2> QED
    BY <1>9, <2>1, ByteKeeps DEF TailByte
<1>10. CASE Return
  <2>1. <<{}, {}, {}, {}>> \in Lanes
    BY QuietLanes
  <2>2. {} \in Words
    BY ZeroIsWord
  <2>3. data' \in Seq(ByteValues) /\ Len(data') = 0
    BY <1>10 DEF Return
  <2> QED
    BY <1>10, <2>1, <2>2, <2>3 DEF Return, CrcInv, Quiet
<1>11. CASE UNCHANGED crcVars
  <2>1. data' = data /\ aligned' = aligned /\ crc' = crc
    BY <1>11 DEF crcVars
  <2> QED
    BY <2>1 DEF CrcInv
<1> QED
  BY <1>1, <1>2, <1>3, <1>4, <1>5, <1>6, <1>7, <1>8, <1>9, <1>10, <1>11 DEF AnyNext

LEMMA CrcInvExact == CrcInv => ChecksumExact
<1> SUFFICES ASSUME CrcInv PROVE ChecksumExact
  OBVIOUS
<1>1. AllOnes \in Words
  BY DEF Words
<1>2. Result \in Words
  BY <1>1, CrcFields, XorIsWord DEF Result
<1>3. Unmask(Mask(Result)) = Result
  BY <1>2, UnmaskUndoesMask
<1> QED
  BY <1>3 DEF CrcInv, ChecksumExact

\* Whatever the bytes, the checksum that is extended and the address, the registers
\* of Extend hold the remainder of the bytes read.
THEOREM AllDataExact == AnySpec => []ChecksumExact
<1>1. AnySpec => []CrcInv
  BY CrcInitial, CrcInductive, PTL DEF AnySpec
<1> QED
  BY <1>1, CrcInvExact, PTL

\* Data that is all zeros but for one bit is such data.
LEMMA OneBitIsData == [CrcNext]_crcVars => [AnyNext]_crcVars
<1> SUFFICES ASSUME CrcNext PROVE AnyNext
  OBVIOUS
<1>1. {} \in ByteValues /\ {} \in Words
  BY ZeroIsWord DEF ByteValues
<1>2. \A n \in Lengths : n \in Nat /\ Zeros(n) \in Seq(ByteValues) /\ Len(Zeros(n)) = n
  <2>1. SUFFICES ASSUME NEW n \in Lengths
                 PROVE  n \in Nat /\ Zeros(n) \in Seq(ByteValues) /\ Len(Zeros(n)) = n
    OBVIOUS
  <2>2. n \in Nat
    BY WordAssumption
  <2>3. [i \in 1..n |-> {}] \in Seq(ByteValues)
    BY <1>1, <2>2, IsASeq
  <2>4. Len([i \in 1..n |-> {}]) = n
    BY <2>2
  <2> QED
    BY <2>2, <2>3, <2>4 DEF Zeros
<1>3. ASSUME NEW n \in Lengths, NEW at \in 0..(WordBytes - 1), NEW b \in AllOnes,
             Begin({b}, Zeros(n), at)
      PROVE  AnyBegin
  <2>1. {b} \in Words
    BY DEF Words
  <2> QED
    BY <2>1, <1>2, <1>3 DEF AnyBegin
<1>4. ASSUME NEW n \in Lengths, NEW at \in 0..(WordBytes - 1), NEW i \in 1..n,
             NEW b \in 0..(ByteBits - 1), Begin({}, [Zeros(n) EXCEPT ![i] = {b}], at)
      PROVE  AnyBegin
  <2>1. {b} \in ByteValues
    BY DEF ByteValues
  <2>2. Zeros(n) \in Seq(ByteValues) /\ i \in 1..Len(Zeros(n))
    BY <1>2
  <2> DEFINE bytes == [Zeros(n) EXCEPT ![i] = {b}]
  <2>3. bytes \in Seq(ByteValues)
    BY <2>1, <2>2, ExceptSeq
  <2>4. Begin({}, bytes, at)
    BY <1>4
  <2> HIDE DEF bytes
  <2> QED
    BY <1>1, <2>3, <2>4 DEF AnyBegin
<1> QED
  BY <1>3, <1>4 DEF CrcNext, AnyNext

\* Extend computes the checksum of the data of the runs, and Unmask undoes Mask on it.
THEOREM ChecksumsAreExact == CrcSpec => []ChecksumExact
<1>1. CrcSpec => AnySpec
  BY OneBitIsData, PTL DEF CrcSpec, AnySpec
<1> QED
  BY <1>1, AllDataExact, PTL

\* The remainder of a run is that of any longer one, and can be taken up anywhere.
LEMMA RunsAgree ==
    ASSUME NEW l, NEW first, NEW mid, NEW last, NEW r, NEW t,
           first \in Nat, mid \in Nat, last \in Nat, first <= mid, mid <= last,
           Running(r, l, first, mid), Running(t, l, first, last)
    PROVE  r[mid] = t[mid]
<1> DEFINE Bad == {i \in first..mid : r[i] # t[i]}
<1>1. Bad = {}
  <2>1. SUFFICES ASSUME Bad # {} PROVE FALSE
    OBVIOUS
  <2>2. PICK i \in Bad : \A j \in Bad : i <= j
    <3>1. Bad \in SUBSET Nat
      OBVIOUS
    <3> HIDE DEF Bad
    <3> QED
      BY <2>1, <3>1, LeastNumber
  <2>3. i # first
    BY <2>2 DEF Running
  <2>4. /\ i \in (first + 1)..mid /\ i \in (first + 1)..last
        /\ i - 1 \in first..mid /\ ~(i <= i - 1)
    BY <2>2, <2>3
  <2>5. r[i - 1] = t[i - 1]
    BY <2>2, <2>4
  <2>6. /\ r[i] = CarriedBytes(1, r[i - 1] ^^ data[i])
        /\ t[i] = CarriedBytes(1, t[i - 1] ^^ data[i])
    BY <2>4 DEF Running
  <2>7. r[i] = t[i]
    BY <2>5, <2>6
  <2> QED
    BY <2>2, <2>7
<1> QED
  BY <1>1

\* crc32c.h: the checksum of a concatenation is that of its first part, extended by
\* the second.
THEOREM ExtendedComposes ==
    ASSUME NEW l \in Words, NEW first, NEW mid, NEW last, mid \in Nat,
           InData(first, last), first <= mid, mid <= last
    PROVE  Extended(l, first, last) = Extended(Extended(l, first, mid), mid, last)
<1>1. /\ first \in Nat /\ last \in Nat /\ InData(first, mid) /\ InData(mid, last)
      /\ mid <= mid /\ last <= last /\ first <= last
  BY DEF InData
<1>2. PICK t : Running(t, l, first, last) /\ Extended(l, first, last) = t[last]
  BY ExtendedRuns
<1>3. PICK r : Running(r, l, first, mid) /\ Extended(l, first, mid) = r[mid]
  BY <1>1, ExtendedRuns
<1>4. r[mid] = t[mid] /\ t[mid] \in Words
  <2>1. mid \in first..last
    BY <1>1
  <2>2. r[mid] = t[mid]
    BY <1>1, <1>2, <1>3, RunsAgree
  <2> QED
    BY <2>1, <2>2, <1>2 DEF Running
<1>5. PICK s : Running(s, t[mid], mid, last) /\ Extended(t[mid], mid, last) = s[last]
  BY <1>1, <1>4, ExtendedRuns
<1>6. Running(t, t[mid], mid, last)
  <2>1. mid..last \subseteq first..last /\ (mid + 1)..last \subseteq (first + 1)..last
    BY <1>1
  <2> QED
    BY <2>1, <1>2 DEF Running
<1>7. s[last] = t[last]
  BY <1>1, <1>5, <1>6, RunsAgree
<1> QED
  BY <1>2, <1>3, <1>4, <1>5, <1>7
================================================================================
