------------------------------- MODULE Coding -------------------------------
(***************************************************************************)
(* coding.cc: numbers and byte strings as bytes.  A varint is written in   *)
(* groups of bits, the least significant first, with the top bit of every  *)
(* byte but the last one set.  The sizes are constants, 128 and 2^32 and   *)
(* 2^64 in the code, so that an instance can cover all numbers.            *)
(***************************************************************************)
EXTENDS Integers, Sequences, SequencesExt

CONSTANTS Base,                 \* the numbers one group holds: 128
          Max32, Groups32,      \* 2^32, and the longest varint32: 5 bytes
          Max64, Groups64,      \* 2^64 and 10
          Fixed32, Fixed64      \* the bytes of a fixed number: 4 and 8

ASSUME BaseAssumption == Base \in Nat /\ Base > 1

\* How many numbers n groups hold.
Capacity[n \in Nat] == IF n = 0 THEN 1 ELSE Base * Capacity[n - 1]

ASSUME GroupsAssumption ==
    /\ Max32 \in Nat /\ Groups32 \in Nat \ {0}
    /\ Capacity[Groups32 - 1] < Max32 /\ Max32 <= Capacity[Groups32]
    /\ Max64 \in Nat /\ Groups64 \in Nat \ {0}
    /\ Capacity[Groups64 - 1] < Max64 /\ Max64 <= Capacity[Groups64]
ASSUME FixedAssumption ==
    Fixed32 \in Nat /\ Max32 = (2 * Base) ^ Fixed32 /\ Fixed64 \in Nat /\ Max64 = (2 * Base) ^ Fixed64

Bytes == 0..(2 * Base - 1)

Digit(v, base, i) == (v \div base ^ (i - 1)) % base

-----------------------------------------------------------------------------
(* encode_varint32 (a cascade of comparisons) and encode_varint64 (a loop) *)
(* write the same bytes.                                                   *)

Varint[v \in Nat] ==
    IF v < Base THEN <<v>> ELSE <<(v % Base) + Base>> \o Varint[v \div Base]

\* Mutant: the comparison is off by one.
EncodeVarint_OffByOne(v) == IF v <= Base THEN <<v>> ELSE Varint[v]

EncodeVarint(v) == Varint[v]

EncodeFixed(v, bytes) == [i \in 1..bytes |-> Digit(v, 2 * Base, i)]
DecodeFixed(data) ==
    FoldLeft(LAMBDA sum, i : sum + data[i] * (2 * Base) ^ (i - 1), 0, [i \in DOMAIN data |-> i])

PutLengthPrefixedSlice(data) == EncodeVarint(Len(data)) \o data

-----------------------------------------------------------------------------
(* What get_... returns: whether there was one, its value and what is left. *)

Failure(input) == [ok |-> FALSE, value |-> 0, rest |-> input]
Success(value, rest) == [ok |-> TRUE, value |-> value, rest |-> rest]

\* The number whose groups the bytes hold.
VarintValue[data \in Seq(Bytes)] ==
    IF data = <<>> THEN 0 ELSE (Head(data) % Base) + Base * VarintValue[Tail(data)]

\* A varint ends at the first byte without the top bit; one of too many groups
\* is none.  What does not fit into the number's width is cut off.
GetVarint(input, groups, max) ==
    LET ends == {n \in 1..groups : n <= Len(input) /\ input[n] < Base} IN
    IF ends = {} THEN Failure(input)
    ELSE LET n == Min(ends)
         IN  Success(VarintValue[SubSeq(input, 1, n)] % max, SubSeq(input, n + 1, Len(input)))

GetVarint32(input) == GetVarint(input, Groups32, Max32)
GetVarint64(input) == GetVarint(input, Groups64, Max64)

GetLengthPrefixedSlice(input) ==
    LET size == GetVarint32(input) IN
    IF ~size.ok \/ Len(size.rest) < size.value THEN Failure(input)
    ELSE Success(SubSeq(size.rest, 1, size.value),
                 SubSeq(size.rest, size.value + 1, Len(size.rest)))
=============================================================================
