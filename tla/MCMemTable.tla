----------------------------- MODULE MCMemTable -----------------------------
(* A small instance of MemTable for TLC.                                   *)
EXTENDS MemTable

MCKeys == 1..3

\* Around a quarter of the block: two objects that share a block, one that gets
\* a block of its own.
MCEntrySize == [k \in MCKeys |-> 26 + k]
=============================================================================
