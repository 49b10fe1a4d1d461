---------------------------- MODULE MCWriteBatch ----------------------------
(* Groups of 2 bits; one Put is enough.                                    *)
EXTENDS WriteBatch

MCData == {<<1>>, <<>>}
=============================================================================
