---------------------------- MODULE MCVersionEdit ----------------------------
(* Edits, checksums, internal keys and random numbers share no state: each *)
(* behaviour exercises one of them.                                        *)
(*                                                                         *)
(* Groups of 2 bits: 4 is the smallest number of two bytes, tags and levels*)
(* lie on both sides of it; 511 is the largest number and uses half of its *)
(* last group, as 2^64 - 1 does.  The name's length takes two bytes.       *)
EXTENDS VersionEdit, InternalKey, Random, Crc32c

VARIABLE subject

MCNumbers == {4, 511}
MCNames == {<<1, 6, 0, 7, 2>>}
MCLevels == {6}
MCKeys == {<<7>>}

\* The user keys of up to three letters, in the order of a dictionary.
MCUserKeys == UNION {[1..n -> {1, 2}] : n \in 0..3}
MCUserLess(a, b) == \E n \in 0..2 :
    /\ Len(b) > n /\ Len(a) >= n /\ SubSeq(a, 1, n) = SubSeq(b, 1, n)
    /\ Len(a) > n => a[n + 1] < b[n + 1]
MCSize(u) == Len(u)

\* A primitive polynomial for a word of four bytes of three bits.
MCPoly == {11, 10, 9, 3}

\* From every address: no aligned byte, no swath, one and two of them, then up to
\* three words, and up to three bytes.
MCLengths == {2, 18, 35, 47}

mcVars == <<subject, vars, crcVars, keyVars, seed>>
MCInit == subject \in {"edit", "crc", "key", "seed"} /\ Init /\ CrcInit /\ KeyInit /\ SeedInit
MCNext ==
    /\ UNCHANGED subject
    /\ \/ subject = "edit" /\ Next /\ UNCHANGED <<crcVars, keyVars, seed>>
       \/ subject = "crc" /\ CrcNext /\ UNCHANGED <<vars, keyVars, seed>>
       \/ subject = "key" /\ KeyNext /\ UNCHANGED <<vars, crcVars, seed>>
       \/ subject = "seed" /\ SeedNext /\ UNCHANGED <<vars, crcVars, keyVars>>
MCSpec == MCInit /\ [][MCNext]_mcVars
=============================================================================
