-------------------------------- MODULE Pmm --------------------------------
(***************************************************************************)
(* The physical memory manager of kernel/src/pmm.rs: a bump allocator over *)
(* the largest usable region of the BIOS memory map.                       *)
(*                                                                         *)
(* `init' scans the map entry by entry (one Scan step per loop iteration)  *)
(* and then stores NEXT_FREE and LIMIT.  `alloc_aligned' is a              *)
(* compare-and-exchange loop: each caller loads NEXT_FREE, computes the    *)
(* block it would get, and installs the new NEXT_FREE only if nobody moved *)
(* it meanwhile.  The steps of different callers interleave.               *)
(*                                                                         *)
(* u64 arithmetic wraps modulo U64, as in the release build the Makefile   *)
(* makes.                                                                  *)
(*                                                                         *)
(* An operator named X_Y after a comment that starts with "Fault:" is a    *)
(* deliberately wrong variant Y of X; no specification uses it.            *)
(***************************************************************************)
EXTENDS Integers, Sequences

CONSTANTS
  PAGE_SIZE,   \* 4096 in the code
  U64,         \* 2^64 in the code: the modulus of u64 arithmetic
  Callers,     \* execution contexts that may be inside alloc_aligned
  Requests,    \* the (size, align) pairs callers pass to alloc_aligned
  MemoryMaps,  \* the memory maps the boot code may hand over
  MaxBlocks    \* bound: no call starts once this many blocks are out

Entry == [base_addr : Nat, length : Nat, usable : BOOLEAN]

Request == [size : Nat, align : Nat]

(* align != 0 and align & (align - 1) == 0: the only odd divisor is 1.     *)
IsPowerOfTwo(n) ==
  n # 0 /\ \A d \in 1 .. n : n % d = 0 => (d = 1 \/ d % 2 = 0)

PageMax(align) == IF align > PAGE_SIZE THEN align ELSE PAGE_SIZE

(***************************************************************************)
(* The constants: requests are small enough for size + align not to wrap,  *)
(* the memory map ends early enough for rounding up not to wrap, and       *)
(* alignments and the page size, being powers of two, divide one another.  *)
(***************************************************************************)
ASSUME PmmAssumption ==
  /\ PAGE_SIZE \in Nat \ {0}
  /\ U64 \in Nat \ {0}
  /\ Requests \subseteq Request /\ Requests # {}
  /\ \A r \in Requests : r.size + r.align + PAGE_SIZE <= U64
  /\ \A r \in Requests : IsPowerOfTwo(r.align) =>
        (PAGE_SIZE % r.align = 0 \/ r.align % PAGE_SIZE = 0)
  /\ MemoryMaps \subseteq Seq(Entry)
  /\ \A m \in MemoryMaps : \A i \in 1 .. Len(m) :
        /\ m[i].base_addr + m[i].length + PAGE_SIZE <= U64
        /\ \A r \in Requests :
              m[i].base_addr + m[i].length + r.align <= U64

VARIABLES
  memory_map,  \* the map found at boot; never changes
  scan,        \* [i, best_base, best_len]: the local state of `init'
  booted,      \* `init' has returned
  NEXT_FREE,
  LIMIT,
  pc,          \* per caller: "idle", "load", "cas"
  req,         \* per caller: the request being served
  current,     \* per caller: the value of NEXT_FREE it loaded
  result,      \* per caller: what its last call returned
  allocated    \* history: the blocks returned, each with its request

vars == <<memory_map, scan, booted, NEXT_FREE, LIMIT,
          pc, req, current, result, allocated>>

bootVars == <<memory_map, scan, booted, LIMIT>>
-----------------------------------------------------------------------------
align_down(value, align) == value - (value % align)

align_up(value, align) == align_down((value + align - 1) % U64, align)

(* The page-aligned part of a map entry: start and end in `init'.          *)
UsableStart(e) == align_up(e.base_addr, PAGE_SIZE)

(* Fault: the end of the entry rounded up to a page.                       *)
UsableEnd_RoundedUp(e) == align_up((e.base_addr + e.length) % U64, PAGE_SIZE)

UsableEnd(e) == align_down((e.base_addr + e.length) % U64, PAGE_SIZE)

(* Fault: Scan without the `end <= start' test, the difference wrapping.   *)
Scan_Wrapping ==
  /\ ~booted
  /\ scan.i <= Len(memory_map)
  /\ LET e      == memory_map[scan.i]
         start  == UsableStart(e)
         usable == (UsableEnd(e) - start) % U64
     IN  scan' = IF e.usable /\ usable > scan.best_len
                   THEN [i |-> scan.i + 1, best_base |-> start,
                         best_len |-> usable]
                   ELSE [scan EXCEPT !.i = @ + 1]
  /\ UNCHANGED <<memory_map, booted, NEXT_FREE, LIMIT,
                 pc, req, current, result, allocated>>

(* One iteration of the loop over the memory map.                          *)
Scan ==
  /\ ~booted
  /\ scan.i <= Len(memory_map)
  /\ LET e      == memory_map[scan.i]
         start  == UsableStart(e)
         end    == UsableEnd(e)
         better == e.usable /\ end > start /\ end - start > scan.best_len
     IN  scan' = IF better
                   THEN [i |-> scan.i + 1, best_base |-> start,
                         best_len |-> end - start]
                   ELSE [scan EXCEPT !.i = @ + 1]
  /\ UNCHANGED <<memory_map, booted, NEXT_FREE, LIMIT,
                 pc, req, current, result, allocated>>

(* The end of `init': publish the region, or leave both cells zero.        *)
StoreRegion ==
  /\ ~booted
  /\ scan.i > Len(memory_map)
  /\ booted' = TRUE
  /\ IF scan.best_len >= PAGE_SIZE
       THEN /\ NEXT_FREE' = scan.best_base
            /\ LIMIT' = (scan.best_base + scan.best_len) % U64
       ELSE UNCHANGED <<NEXT_FREE, LIMIT>>
  /\ UNCHANGED <<memory_map, scan, pc, req, current, result, allocated>>
-----------------------------------------------------------------------------
NoBlock == [lo |-> 0, hi |-> 0, size |-> 0, align |-> 1]

adj_size(r) == align_up(r.size, PageMax(r.align))

(* alloc_aligned up to its loop.                                           *)
Enter(c, r) ==
  /\ booted
  /\ Len(allocated) < MaxBlocks
  /\ pc[c] = "idle"
  /\ req' = [req EXCEPT ![c] = r]
  /\ IF IsPowerOfTwo(r.align)
       THEN pc' = [pc EXCEPT ![c] = "load"] /\ UNCHANGED result
       ELSE result' = [result EXCEPT ![c] = NoBlock] /\ UNCHANGED pc
  /\ UNCHANGED <<bootVars, NEXT_FREE, current, allocated>>

(* Fault: rounding NEXT_FREE down instead of up.                           *)
Candidate_RoundedDown(cur, r) ==
  LET aligned == align_down(cur, r.align)
  IN  [lo |-> aligned, hi |-> aligned + adj_size(r),
       size |-> r.size, align |-> r.align]

(* The block a caller that loaded `cur' would take: aligned and end.       *)
Candidate(cur, r) ==
  LET aligned == align_up(cur, r.align)
  IN  [lo |-> aligned, hi |-> aligned + adj_size(r),
       size |-> r.size, align |-> r.align]

(* Fault: no test of the end of the block against LIMIT.                   *)
CannotServe_NoEndTest(cur, r) ==
  cur = 0 \/ cur >= LIMIT \/ Candidate(cur, r).hi >= U64

(* The early returns of the loop body; the sum is checked_add's.           *)
CannotServe(cur, r) ==
  \/ cur = 0
  \/ cur >= LIMIT
  \/ Candidate(cur, r).hi >= U64
  \/ Candidate(cur, r).hi > LIMIT

(* The loads and the tests of one loop iteration.  LIMIT does not change   *)
(* once callers run, so both loads are one step.                           *)
Load(c) ==
  /\ pc[c] = "load"
  /\ IF CannotServe(NEXT_FREE, req[c])
       THEN /\ pc' = [pc EXCEPT ![c] = "idle"]
            /\ result' = [result EXCEPT ![c] = NoBlock]
            /\ UNCHANGED current
       ELSE /\ pc' = [pc EXCEPT ![c] = "cas"]
            /\ current' = [current EXCEPT ![c] = NEXT_FREE]
            /\ UNCHANGED result
  /\ UNCHANGED <<bootVars, NEXT_FREE, req, allocated>>

(* Fault: a plain store in place of compare_exchange.                      *)
CompareExchange_Store(c) ==
  /\ pc[c] = "cas"
  /\ LET b == Candidate(current[c], req[c])
     IN  /\ NEXT_FREE' = b.hi
         /\ pc' = [pc EXCEPT ![c] = "idle"]
         /\ result' = [result EXCEPT ![c] = b]
         /\ allocated' = Append(allocated, b)
  /\ UNCHANGED <<bootVars, req, current>>

(* Fault: a failed compare_exchange is retried without loading again.      *)
CompareExchange_NoReload(c) ==
  /\ pc[c] = "cas"
  /\ LET b == Candidate(current[c], req[c])
     IN  IF NEXT_FREE = current[c]
           THEN /\ NEXT_FREE' = b.hi
                /\ pc' = [pc EXCEPT ![c] = "idle"]
                /\ result' = [result EXCEPT ![c] = b]
                /\ allocated' = Append(allocated, b)
           ELSE UNCHANGED <<pc, NEXT_FREE, result, allocated>>
  /\ UNCHANGED <<bootVars, req, current>>

(* compare_exchange(current, end): on failure the loop starts again.       *)
CompareExchange(c) ==
  /\ pc[c] = "cas"
  /\ LET b == Candidate(current[c], req[c])
     IN  IF NEXT_FREE = current[c]
           THEN /\ NEXT_FREE' = b.hi
                /\ pc' = [pc EXCEPT ![c] = "idle"]
                /\ result' = [result EXCEPT ![c] = b]
                /\ allocated' = Append(allocated, b)
           ELSE /\ pc' = [pc EXCEPT ![c] = "load"]
                /\ UNCHANGED <<NEXT_FREE, result, allocated>>
  /\ UNCHANGED <<bootVars, req, current>>

free_kib == IF NEXT_FREE = 0 \/ LIMIT <= NEXT_FREE
              THEN 0
              ELSE (LIMIT - NEXT_FREE) \div 1024
-----------------------------------------------------------------------------
Init ==
  /\ memory_map \in MemoryMaps
  /\ scan = [i |-> 1, best_base |-> 0, best_len |-> 0]
  /\ booted = FALSE
  /\ NEXT_FREE = 0
  /\ LIMIT = 0
  /\ pc = [c \in Callers |-> "idle"]
  /\ req = [c \in Callers |-> CHOOSE r \in Requests : TRUE]
  /\ current = [c \in Callers |-> 0]
  /\ result = [c \in Callers |-> NoBlock]
  /\ allocated = <<>>

Step(c) == (\E r \in Requests : Enter(c, r)) \/ Load(c) \/ CompareExchange(c)

Next ==
  \/ Scan
  \/ StoreRegion
  \/ \E c \in Callers : Step(c)

Spec == Init /\ [][Next]_vars

(* A caller inside alloc_aligned keeps running: nothing blocks in it.      *)
FairSpec == Spec /\ \A c \in Callers : WF_vars(Load(c) \/ CompareExchange(c))
-----------------------------------------------------------------------------
Word == 0 .. (U64 - 1)

Grant == [lo : Word, hi : Word, size : Nat, align : Nat \ {0}]

(* Every cell holds a u64, every local variable of a call is one it can    *)
(* have there, and no u64 sum of `init' wrapped.                           *)
TypeOK ==
  /\ memory_map \in MemoryMaps
  /\ scan \in [i : 1 .. Len(memory_map) + 1, best_base : Word, best_len : Word]
  /\ scan.best_base + scan.best_len \in Word
  /\ booted \in BOOLEAN
  /\ NEXT_FREE \in Word
  /\ LIMIT \in Word
  /\ pc \in [Callers -> {"idle", "load", "cas"}]
  /\ req \in [Callers -> Requests]
  /\ current \in [Callers -> Word]
  /\ result \in [Callers -> Grant]
  /\ allocated \in Seq(Grant)

Overlap(a, b) == a.lo < b.hi /\ b.lo < a.hi

(* No two successful calls of alloc_aligned return blocks that share a     *)
(* byte, however the callers' loads and compare_exchanges interleave.      *)
BlocksDisjoint ==
  \A i, j \in 1 .. Len(allocated) :
     i # j => ~Overlap(allocated[i], allocated[j])

(* Every block lies in the region `init' chose, starts on a page and at a  *)
(* multiple of the requested alignment, and has the requested size.        *)
BlocksWellPlaced ==
  \A i \in 1 .. Len(allocated) :
     LET b == allocated[i]
     IN  /\ scan.best_base <= b.lo /\ b.hi <= LIMIT
         /\ b.lo + b.size <= b.hi
         /\ b.lo % b.align = 0 /\ b.lo % PAGE_SIZE = 0

(***************************************************************************)
(* The inductive strengthening of BlocksDisjoint and BlocksWellPlaced:     *)
(* NEXT_FREE is a page boundary inside the region and above every block,   *)
(* nothing is handed out before `init' ends, and a caller about to         *)
(* compare_exchange has passed the tests of the loop for the value it      *)
(* loaded.                                                                 *)
(***************************************************************************)
PmmInv ==
  /\ TypeOK
  /\ BlocksDisjoint
  /\ BlocksWellPlaced
  /\ scan.best_base % PAGE_SIZE = 0
  /\ \A r \in Requests : scan.best_base + scan.best_len + r.align <= U64
  /\ ~booted => NEXT_FREE = 0 /\ LIMIT = 0 /\ allocated = <<>>
  /\ NEXT_FREE % PAGE_SIZE = 0
  /\ IF LIMIT = 0
       THEN NEXT_FREE = 0
       ELSE /\ LIMIT = scan.best_base + scan.best_len
            /\ scan.best_base <= NEXT_FREE /\ NEXT_FREE <= LIMIT
  /\ \A i \in 1 .. Len(allocated) : allocated[i].hi <= NEXT_FREE
  /\ \A c \in Callers : pc[c] # "idle" => booted /\ IsPowerOfTwo(req[c].align)
  /\ \A c \in Callers : pc[c] = "cas" => ~CannotServe(current[c], req[c])

(* The region `init' publishes is whole pages of one usable map entry, and *)
(* no usable entry of the map has more.                                    *)
LargestRegion ==
  booted =>
    /\ \A i \in 1 .. Len(memory_map) :
         memory_map[i].usable =>
           UsableEnd(memory_map[i]) - UsableStart(memory_map[i]) <= scan.best_len
    /\ LIMIT > 0 => \E i \in 1 .. Len(memory_map) :
         /\ memory_map[i].usable
         /\ memory_map[i].base_addr <= scan.best_base
         /\ LIMIT <= memory_map[i].base_addr + memory_map[i].length

(* The free space the shell and the agent are shown never grows once the   *)
(* allocator is up: NEXT_FREE only moves forward.                          *)
FreeSpaceShrinks == [][booted => free_kib' <= free_kib /\ NEXT_FREE <= NEXT_FREE']_vars

(* A call of alloc_aligned returns: the compare_exchange loop cannot go    *)
(* round forever, because every failure means that another call finished.  *)
CallsReturn == \A c \in Callers : pc[c] # "idle" ~> pc[c] = "idle"

(* The allocator implements BlockAllocator.                                *)
Abstract == INSTANCE BlockAllocator WITH
  region <- IF LIMIT = 0 THEN [lo |-> 0, hi |-> 0]
                         ELSE [lo |-> scan.best_base, hi |-> LIMIT],
  blocks <- allocated

ImplementsBlockAllocator == Abstract!AbsSpec
=============================================================================
