---------------------------- MODULE MCPmmKernel ----------------------------
(* The allocator at its real size on the memory map of a PC with 128 MiB,  *)
(* serving the requests xhci.rs makes (everything at alignment 64).  U64   *)
(* is cut to 2^30, above every address of the map.                         *)
EXTENDS Pmm

MCRequests == { [size |-> s, align |-> 64] : s \in {1024, 4096} }

MCMemoryMaps == {
  << [base_addr |-> 0, length |-> 654336, usable |-> TRUE],           \* 0-0x9fc00
     [base_addr |-> 654336, length |-> 1024, usable |-> FALSE],
     [base_addr |-> 983040, length |-> 65536, usable |-> FALSE],
     [base_addr |-> 1048576, length |-> 133038080, usable |-> TRUE],  \* 0x100000-0x7fe0000
     [base_addr |-> 134086656, length |-> 131072, usable |-> FALSE] >> }

(* linker.ld:12 places the kernel at 0x00100000; .text comes first and     *)
(* fills at least one page.                                                *)
KernelFirstPage == [lo |-> 1048576, hi |-> 1048576 + PAGE_SIZE]

(* No block the allocator hands out covers the code of the running kernel, *)
(* which linker.ld places at 0x00100000.                                   *)
KernelImageIntact ==
  \A i \in 1 .. Len(allocated) : ~Overlap(allocated[i], KernelFirstPage)
=============================================================================
