------------------------------- MODULE MCPmm -------------------------------
(* A small machine: 4-byte pages, u64 of 6 bits, two callers, and maps     *)
(* with unusable entries, entries smaller than a page, unaligned entries   *)
(* and entries in either order of size.                                    *)
EXTENDS Pmm

MCRequests == { [size |-> s, align |-> a] : s \in {0, 5}, a \in {2, 8} }
              \cup { [size |-> 4, align |-> 4], [size |-> 4, align |-> 6] }

E(base, len, usable) == [base_addr |-> base, length |-> len, usable |-> usable]

MCMemoryMaps == {
  << E(0, 9, TRUE), E(10, 6, FALSE), E(17, 30, TRUE) >>,
  << E(17, 26, TRUE), E(2, 11, TRUE), E(44, 3, TRUE) >>,
  << E(5, 2, TRUE), E(16, 24, FALSE) >>,
  << E(0, 9, TRUE) >> }
=============================================================================
