--------------------------- MODULE BlockAllocator ---------------------------
(***************************************************************************)
(* What the physical memory manager (kernel/src/pmm.rs) promises its       *)
(* callers: once, at boot, a region of memory is fixed; from then on every *)
(* block handed out lies inside the region, starts at a multiple of the    *)
(* alignment asked for, has room for the bytes asked for, and shares no    *)
(* byte with any block handed out before.  Blocks are never taken back.    *)
(***************************************************************************)
EXTENDS Integers, Sequences

VARIABLES
  region,   \* [lo, hi) of the memory managed; lo = hi while there is none
  blocks    \* the sequence of blocks handed out

absVars == <<region, blocks>>

Span == [lo : Nat, hi : Nat]

(* A block [lo, hi) together with the request it serves.                   *)
Block == [lo : Nat, hi : Nat, size : Nat, align : Nat]

Overlap(a, b) == a.lo < b.hi /\ b.lo < a.hi

AbsInit ==
  /\ region = [lo |-> 0, hi |-> 0]
  /\ blocks = <<>>

FixRegion ==
  /\ region.lo = region.hi
  /\ blocks = <<>>
  /\ region' \in Span
  /\ region'.lo < region'.hi
  /\ UNCHANGED blocks

(* b joins the blocks handed out.                                          *)
HandOut(b) ==
  /\ b \in Block
  /\ region.lo <= b.lo /\ b.lo + b.size <= b.hi /\ b.hi <= region.hi
  /\ b.lo % b.align = 0
  /\ \A i \in 1 .. Len(blocks) : ~Overlap(b, blocks[i])
  /\ blocks' = Append(blocks, b)
  /\ UNCHANGED region

AbsNext ==
  \/ FixRegion
  \/ /\ Len(blocks') = Len(blocks) + 1
     /\ HandOut(blocks'[Len(blocks) + 1])

AbsSpec == AbsInit /\ [][AbsNext]_absVars
=============================================================================
