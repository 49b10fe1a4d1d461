------------------------------- MODULE MCLog -------------------------------
(* Small instances of Log for TLC.  A block of 7 bytes with headers of 3   *)
(* holds 4 bytes of payload: a record of 1 leaves room for an empty        *)
(* fragment, one of 6 takes two blocks and leaves a trailer of 2, two of 0 *)
(* leave one of 1.                                                         *)
EXTENDS Log

MCLengths == {0, 1, 6}
=============================================================================
