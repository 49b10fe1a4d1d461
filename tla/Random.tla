-------------------------------- MODULE Random --------------------------------
(***************************************************************************)
(* random of src/include/util/random.h, from which skip_list draws the     *)
(* heights of its nodes.                                                   *)
(***************************************************************************)
EXTENDS Integers

CONSTANTS Modulus,     \* M, 2^31 - 1
          Multiplier,  \* A
          NoSeed       \* a generator that is not constructed

\* M is a prime, and of the form 2^n - 1: the shift and the mask of next() are
\* the quotient and the remainder of a division by M + 1.
ASSUME ModulusAssumption ==
    /\ Modulus \in Nat \ {0, 1}
    /\ Multiplier \in 1..(Modulus - 1)
    /\ \A seed \in 1..(Modulus - 1) : (seed * Multiplier) % Modulus # 0
ASSUME NoSeedAssumption == NoSeed \notin Nat

VARIABLE seed  \* seed_

GoodSeeds == 1..(Modulus - 1)

\* The constructor avoids the seeds that next() would never leave.
Construct(s) ==
    LET low == s % (Modulus + 1)
    IN  /\ seed = NoSeed
        /\ seed' = IF low \in {0, Modulus} THEN 1 ELSE low

\* Mutant: the second reduction is forgotten.
NextSeed_OneReduction ==
    LET product == seed * Multiplier
    IN  /\ seed # NoSeed
        /\ seed' = (product \div (Modulus + 1)) + (product % (Modulus + 1))

\* next: the high and the low bits of the product are added; their sum may pass M
\* by one bit.
NextSeed ==
    LET product == seed * Multiplier
        sum == (product \div (Modulus + 1)) + (product % (Modulus + 1))
    IN  /\ seed # NoSeed
        /\ seed' = IF sum > Modulus THEN sum - Modulus ELSE sum

SeedInit == seed = NoSeed

\* The argument of the constructor has one bit more than seed_ keeps.
SeedNext == (\E s \in 0..(2 * Modulus + 1) : Construct(s)) \/ NextSeed

SeedSpec == SeedInit /\ [][SeedNext]_seed

-----------------------------------------------------------------------------
\* The comments of next(): without a division it computes the product modulo M;
\* "mod == M is not possible", and neither is 0, from which it would never return.
RandomIsModular ==
    [][/\ seed' \in GoodSeeds
       /\ seed # NoSeed => seed' = (seed * Multiplier) % Modulus]_seed
=============================================================================
