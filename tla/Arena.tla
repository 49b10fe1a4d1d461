-------------------------------- MODULE Arena --------------------------------
(***************************************************************************)
(* arena of src/include/util/arena.h and src/src/util/arena.cc: memory is  *)
(* cut from the current block front to back, and freed all at once.        *)
(*                                                                         *)
(* An address is a block and an offset in it.  operator new[] returns      *)
(* memory aligned for any object, so that an offset is aligned exactly     *)
(* when the address is; block 0 is the null pointer of an arena without    *)
(* blocks.  What the arena has handed out is kept to state its promises.   *)
(***************************************************************************)
EXTENDS Integers, Sequences

CONSTANTS BlockSize,   \* kBlockSize
          Align,       \* the alignment of allocate_aligned
          PointerSize  \* sizeof( char* )

ASSUME BlockAssumption == BlockSize \in Nat \ {0} /\ PointerSize \in Nat \ {0}
ASSUME AlignAssumption == Align \in Nat \ {0}

Sizes == Nat \ {0}  \* allocate asserts bytes > 0

\* arena::arena
EmptyArena == [blocks |-> <<>>, block |-> 0, alloc_ptr |-> 0, alloc_bytes_remaining |-> 0,
               memory_usage |-> 0, handed |-> <<>>]

Region(b, at, bytes) == [block |-> b, start |-> at, bytes |-> bytes]

AllocateNewBlock(a, block_bytes) ==
    [a EXCEPT !.blocks = Append(@, block_bytes),
              !.memory_usage = @ + block_bytes + PointerSize]

\* Cut bytes from the current block, behind slop bytes that are wasted.
Cut(a, slop, bytes) ==
    [a EXCEPT !.alloc_ptr = @ + slop + bytes,
              !.alloc_bytes_remaining = @ - (slop + bytes),
              !.handed = Append(@, Region(a.block, a.alloc_ptr + slop, bytes))]

\* A large object gets a block of its own and leaves the current one alone.
AllocateLarge(a, bytes) ==
    [AllocateNewBlock(a, bytes) EXCEPT
       !.handed = Append(@, Region(Len(a.blocks) + 1, 0, bytes))]

\* The rest of the current block is given up.
NewCurrentBlock(a) ==
    [AllocateNewBlock(a, BlockSize) EXCEPT
       !.block = Len(a.blocks) + 1, !.alloc_ptr = 0, !.alloc_bytes_remaining = BlockSize]

AllocateFallback(a, bytes) ==
    IF bytes > BlockSize \div 4 THEN AllocateLarge(a, bytes) ELSE Cut(NewCurrentBlock(a), 0, bytes)

Allocate(a, bytes) ==
    IF bytes <= a.alloc_bytes_remaining THEN Cut(a, 0, bytes) ELSE AllocateFallback(a, bytes)

\* Mutant: the slop is skipped without being counted.
AllocateAligned_SlopUncounted(a, bytes) ==
    LET current_mod == a.alloc_ptr % Align
        slop == IF current_mod = 0 THEN 0 ELSE Align - current_mod
    IN  IF slop + bytes <= a.alloc_bytes_remaining
          THEN [Cut(a, slop, bytes) EXCEPT !.alloc_ptr = a.alloc_ptr + bytes]
          ELSE AllocateFallback(a, bytes)

AllocateAligned(a, bytes) ==
    LET current_mod == a.alloc_ptr % Align
        slop == IF current_mod = 0 THEN 0 ELSE Align - current_mod
    IN  IF slop + bytes <= a.alloc_bytes_remaining THEN Cut(a, slop, bytes)
                                                   ELSE AllocateFallback(a, bytes)

-----------------------------------------------------------------------------
(* What an arena promises.                                                 *)

End(r) == r.start + r.bytes

Apart(r, s) == r.block # s.block \/ End(r) <= s.start \/ End(s) <= r.start

\* Everything handed out lies inside a block, and no two objects overlap.
RegionsApart(a) ==
    /\ \A i \in DOMAIN a.handed :
         /\ a.handed[i].block \in DOMAIN a.blocks
         /\ End(a.handed[i]) <= a.blocks[a.handed[i].block]
    /\ \A i, j \in DOMAIN a.handed : i < j => Apart(a.handed[i], a.handed[j])

Aligned(r) == r.start % Align = 0

LastHanded(a) == a.handed[Len(a.handed)]

=============================================================================
