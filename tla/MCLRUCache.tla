----------------------------- MODULE MCLRUCache -----------------------------
(* Small instances of LRUCache for TLC.                                    *)
EXTENDS LRUCache

CONSTANTS k1, k2, h1, h2, h3

MCKeys == {k1, k2}
MCHandles == {h1, h2, h3}
MCCharges == {1, 2}
MCCapacities == {0, 2}   \* 0 turns caching off

=============================================================================
