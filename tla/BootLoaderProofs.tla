-------------------------- MODULE BootLoaderProofs --------------------------
(***************************************************************************)
(* Proofs about BootLoader, for every disk, BIOS and size of a sector, a   *)
(* chunk and the table.  The argument follows the boot: what               *)
(* ata_read_lba28 reads in one chunk is the disk's bytes in order; so the  *)
(* buffer holds the front of the kernel's file, each segment copied from   *)
(* it is in place, and nothing that is written later lies over it.         *)
(***************************************************************************)
EXTENDS BootLoader, WellFoundedInduction, TLAPS

LEMMA Constants ==
  /\ SECTOR \in Nat \ {0} /\ CHUNK \in Nat \ {0} /\ INITRD_DEST \in Nat \ {0}
  /\ KERNEL_LBA \in Nat /\ KERNEL_BUFFER \in Nat /\ TOP \in Nat
  /\ MAX_KERNEL_SECTORS \in Nat /\ E820_MAX_ENTRIES \in Nat
  /\ INITIAL_KERNEL_SECTORS \in 0 .. CHUNK /\ INITIAL_KERNEL_SECTORS <= MAX_KERNEL_SECTORS
  /\ Zero = -1 /\ Old = -2
BY BootAssumption DEF Zero, Old

LEMMA DiskFields ==
  ASSUME NEW d \in Disks
  PROVE  /\ d.phoff \in Nat /\ d.phentsize \in Nat /\ d.size \in Nat /\ d.initrd \in Nat
         /\ Len(d.phdrs) \in Nat
         /\ \A i \in 1 .. Len(d.phdrs) :
              /\ d.phdrs[i].offset \in Nat /\ d.phdrs[i].filesz \in Nat
              /\ d.phdrs[i].memsz \in Nat /\ d.phdrs[i].dest \in Nat
<1>1. d \in [magic : BOOLEAN, phoff : Nat, phentsize : Nat, phdrs : Seq(ProgramHeaders),
             size : Nat, initrd : Nat]
  BY BootAssumption
<1>2. d.phdrs \in Seq(ProgramHeaders)
  BY <1>1
<1>3. Len(d.phdrs) \in Nat /\ \A i \in 1 .. Len(d.phdrs) : d.phdrs[i] \in ProgramHeaders
  BY <1>2
<1>4. QED
  BY <1>1, <1>3 DEF ProgramHeaders

(* Every non-empty set of natural numbers has a least element: induction,  *)
(* without an operator to instantiate.                                     *)
LEMMA LeastNumber ==
  ASSUME NEW T \in SUBSET Nat, T # {}
  PROVE  \E m \in T : \A k \in T : m <= k
<1> DEFINE Less == {p \in Nat \X Nat : p[1] < p[2]}
<1>1. IsWellFoundedOn(Less, Nat)
  BY NatLessThanWellFounded DEF OpToRel
<1>2. \A j, k \in Nat : j < k => <<j, k>> \in Less
  OBVIOUS
<1> HIDE DEF Less
<1>3. PICK m \in T : \A k \in T : ~(<<k, m>> \in Less)
  BY <1>1, WFMin
<1>4. \A k \in T : ~(k < m)
  BY <1>2, <1>3, Zenon
<1>5. QED
  BY <1>4

(* A bounded set of natural numbers has a largest element.                 *)
LEMMA LargestNumber ==
  ASSUME NEW S \in SUBSET Nat, S # {}, NEW b \in Nat, \A x \in S : x <= b
  PROVE  Max(S) \in S /\ \A x \in S : x <= Max(S)
<1> DEFINE T == {b - x : x \in S}
<1>1. T \in SUBSET Nat
  OBVIOUS
<1>2. PICK s \in S : TRUE
  OBVIOUS
<1>3. b - s \in T
  OBVIOUS
<1>4. PICK t \in T : \A k \in T : t <= k
  BY <1>1, <1>3, LeastNumber
<1>5. PICK m \in S : t = b - m
  BY <1>4
<1>6. \A x \in S : m >= x
  <2> TAKE x \in S
  <2>1. b - x \in T /\ t <= b - x
    BY <1>4
  <2>2. QED
    BY <1>5, <2>1
<1>7. Max(S) \in S /\ \A x \in S : Max(S) >= x
  BY <1>5, <1>6, Zenon DEF Max
<1>8. QED
  BY <1>7

LEMMA MinOfTwo ==
  ASSUME NEW a \in Nat, NEW b \in Nat
  PROVE  Min({a, b}) = IF a <= b THEN a ELSE b
BY DEF Min
-----------------------------------------------------------------------------
(* Quotients.                                                              *)

LEMMA DivMod ==
  ASSUME NEW a \in Nat \ {0}, NEW x \in Nat
  PROVE  /\ x = (a * (x \div a)) + (x % a)
         /\ x \div a \in Nat
         /\ x % a \in 0 .. (a - 1)
OBVIOUS

LEMMA Times ==
  ASSUME NEW a \in Nat, NEW x \in Nat, NEW y \in Nat, x <= y
  PROVE  /\ x * a \in Nat /\ y * a \in Nat
         /\ x * a <= y * a
         /\ (y - x) * a = y * a - x * a
<1>1. PICK d \in Nat : y = x + d
  BY y - x \in Nat
<1>2. y * a = x * a + d * a /\ x * a \in Nat /\ d * a \in Nat
  BY <1>1
<1>3. QED
  BY <1>1, <1>2

LEMMA DivBound ==
  ASSUME NEW a \in Nat \ {0}, NEW x \in Nat, NEW n \in Nat, x < n * a
  PROVE  x \div a < n
<1> DEFINE q == x \div a
<1>1. q \in Nat /\ x >= q * a
  BY DivMod
<1> HIDE DEF q
<1>2. CASE n <= q
  <2>1. n * a <= q * a /\ q * a \in Nat /\ n * a \in Nat
    BY <1>1, <1>2, Times
  <2>2. QED
    BY <1>1, <2>1
<1>3. QED
  BY <1>1, <1>2 DEF q

LEMMA DivMonotone ==
  ASSUME NEW a \in Nat \ {0}, NEW x \in Nat, NEW y \in Nat, x <= y
  PROVE  x \div a <= y \div a
<1> DEFINE q == y \div a
<1>1. q \in Nat /\ y < q * a + a
  BY DivMod
<1> HIDE DEF q
<1>2. (q + 1) * a = q * a + a
  BY <1>1
<1>3. x < (q + 1) * a /\ q + 1 \in Nat
  BY <1>1, <1>2
<1>4. x \div a < q + 1 /\ x \div a \in Nat
  BY <1>3, DivBound, DivMod
<1>5. QED
  BY <1>1, <1>4 DEF q

(* Sectors(n) sectors hold n bytes, and more bytes need no fewer sectors.  *)
LEMMA SectorsHold ==
  ASSUME NEW n \in Nat
  PROVE  Sectors(n) \in Nat /\ n <= Sectors(n) * SECTOR
<1> DEFINE q == Sectors(n)
<1>1. n + SECTOR - 1 \in Nat /\ SECTOR \in Nat \ {0}
  BY Constants
<1>2. q \in Nat /\ n + SECTOR - 1 <= (SECTOR * q) + (SECTOR - 1)
  BY <1>1, DivMod DEF Sectors
<1> HIDE DEF q
<1>3. SECTOR * q \in Nat /\ SECTOR * q = q * SECTOR
  BY <1>1, <1>2
<1>4. QED
  BY <1>1, <1>2, <1>3 DEF q

LEMMA SectorsGrow ==
  ASSUME NEW m \in Nat, NEW n \in Nat, m <= n
  PROVE  Sectors(m) <= Sectors(n)
<1>1. m + SECTOR - 1 \in Nat /\ n + SECTOR - 1 \in Nat /\ m + SECTOR - 1 <= n + SECTOR - 1
  BY Constants
<1>2. QED
  BY <1>1, Constants, DivMonotone DEF Sectors
-----------------------------------------------------------------------------
(* Reading from the disk.                                                  *)

(* The recursion that defines ChunkStart has a solution, by induction on   *)
(* the number of chunks it is cut off at.                                  *)
LEMMA ChunkStarts ==
  ASSUME NEW lba \in Nat, NEW chunks \in Nat, NEW status \in Nat
  PROVE  /\ ChunkStart(lba, chunks, status)[0] = lba
         /\ \A c \in 0 .. chunks : ChunkStart(lba, chunks, status)[c] \in Nat
<1> DEFINE After(x) == x - (x % 256) + status + CHUNK
           Solves(g, k) == g = [c \in 0 .. k |-> IF c = 0 THEN lba ELSE After(g[c - 1])]
           T == {k \in 0 .. chunks : ~ \E g : Solves(g, k)}
           start == ChunkStart(lba, chunks, status)
<1> HIDE DEF After
<1>1. T = {}
  <2> SUFFICES ASSUME T # {} PROVE FALSE
    OBVIOUS
  <2>1. PICK m \in T : \A k \in T : m <= k
    <3>1. T \in SUBSET Nat
      OBVIOUS
    <3>2. QED
      BY <3>1, LeastNumber
  <2>2. CASE m = 0
    <3> DEFINE g == [c \in 0 .. 0 |-> lba]
    <3>1. Solves(g, 0)
      OBVIOUS
    <3>2. QED
      BY <2>1, <2>2, <3>1
  <2>3. CASE m # 0
    <3>1. m - 1 \in 0 .. chunks /\ m - 1 \notin T /\ m \in Nat \ {0}
      BY <2>1, <2>3
    <3>2. PICK g : Solves(g, m - 1)
      BY <3>1
    <3> DEFINE f == [c \in 0 .. m |-> IF c = m THEN After(g[m - 1]) ELSE g[c]]
    <3>3. \A c \in 0 .. m : f[c] = IF c = 0 THEN lba ELSE After(f[c - 1])
      <4> SUFFICES ASSUME NEW c \in 0 .. m
                   PROVE  f[c] = IF c = 0 THEN lba ELSE After(f[c - 1])
        OBVIOUS
      <4>1. CASE c = m
        <5>1. f[c] = After(g[m - 1]) /\ f[c - 1] = g[m - 1] /\ c # 0
          BY <3>1, <4>1
        <5>2. QED
          BY <5>1
      <4>2. CASE c # m
        <5>1. f[c] = g[c] /\ (c # 0 => f[c - 1] = g[c - 1]) /\ c \in 0 .. m - 1
          BY <3>1, <4>2
        <5>2. g[c] = IF c = 0 THEN lba ELSE After(g[c - 1])
          BY <3>2, <5>1
        <5>3. QED
          BY <5>1, <5>2
      <4>3. QED
        BY <4>1, <4>2
    <3>4. Solves(f, m)
      BY <3>3
    <3>5. QED
      BY <2>1, <3>4
  <2>4. QED
    BY <2>2, <2>3
<1>2. \E g : Solves(g, chunks)
  <2>1. chunks \in 0 .. chunks
    OBVIOUS
  <2>2. chunks \notin T
    <3> HIDE DEF T
    <3> QED
      BY <1>1
  <2>3. QED
    BY <2>1, <2>2, Zenon
<1>3. start = CHOOSE g : Solves(g, chunks)
  BY Zenon DEF ChunkStart, After
<1>4. Solves(start, chunks)
  <2> HIDE DEF start
  <2> QED
    BY <1>2, <1>3, Zenon
<1> HIDE DEF start
<1>5. start[0] = lba
  BY <1>4
<1>6. \A c \in 1 .. chunks : start[c] = After(start[c - 1])
  BY <1>4
<1>7. \A x \in Nat : After(x) \in Nat
  <2> TAKE x \in Nat
  <2>1. x - (x % 256) \in Nat
    OBVIOUS
  <2>2. QED
    BY <2>1, Constants DEF After
<1>8. \A c \in 0 .. chunks : start[c] \in Nat
  <2> DEFINE U == {c \in 0 .. chunks : start[c] \notin Nat}
  <2> SUFFICES ASSUME U # {} PROVE FALSE
    OBVIOUS
  <2>1. PICK m \in U : \A k \in U : m <= k
    <3>1. U \in SUBSET Nat
      OBVIOUS
    <3>2. QED
      BY <3>1, LeastNumber
  <2>2. m \in 1 .. chunks /\ m - 1 \in 0 .. chunks /\ m - 1 \notin U
    BY <1>5, <2>1
  <2>3. QED
    BY <1>6, <1>7, <2>1, <2>2
<1>9. QED
  BY <1>5, <1>8 DEF start

(* Whatever is read, bytes of the disk go to the destination.              *)
LEMMA ReadTyped ==
  ASSUME NEW lba \in Nat, NEW n \in Nat, NEW dest \in Nat, NEW status \in Statuses,
         mem \in [Memory -> Nat \cup {Zero, Old}]
  PROVE  LET read == ata_read_lba28(lba, n, dest, status) IN
         /\ read \in [Memory -> Nat \cup {Zero, Old}]
         /\ \A a \in Memory : a \notin dest .. dest + (n * SECTOR) - 1 => read[a] = mem[a]
<1> DEFINE start == ChunkStart(lba, n \div CHUNK, status)
           At(i) == (start[(i \div SECTOR) \div CHUNK] + ((i \div SECTOR) % CHUNK)) * SECTOR
                      + (i % SECTOR)
<1>1. ata_read_lba28(lba, n, dest, status) =
        [a \in Memory |-> IF a \in dest .. dest + (n * SECTOR) - 1 THEN At(a - dest) ELSE mem[a]]
  BY Zenon DEF ata_read_lba28
<1>2. \A c \in 0 .. n \div CHUNK : start[c] \in Nat
  <2>1. n \div CHUNK \in Nat /\ status \in Nat
    BY Constants, DivMod, BootAssumption
  <2>2. QED
    BY <2>1, ChunkStarts
<1> HIDE DEF start
<1>3. ASSUME NEW i \in Nat, i < n * SECTOR
      PROVE  At(i) \in Nat
  <2> DEFINE s == i \div SECTOR
  <2>1. s \in Nat /\ s < n /\ i % SECTOR \in Nat
    BY <1>3, Constants, DivBound, DivMod
  <2> HIDE DEF s
  <2>2. s \div CHUNK <= n \div CHUNK /\ s \div CHUNK \in Nat /\ s % CHUNK \in Nat /\ n \div CHUNK \in Nat
    BY <2>1, Constants, DivMonotone, DivMod
  <2>3. start[s \div CHUNK] \in Nat
    BY <1>2, <2>2
  <2>4. (start[s \div CHUNK] + (s % CHUNK)) * SECTOR + (i % SECTOR) \in Nat
    BY <2>1, <2>2, <2>3, Constants
  <2>5. QED
    BY <2>4 DEF s
<1> HIDE DEF At
<1>4. \A a \in Memory : a \in dest .. dest + (n * SECTOR) - 1 => At(a - dest) \in Nat
  BY <1>3, Constants DEF Memory
<1>5. QED
  BY <1>1, <1>4

(* One chunk is read in the order of the disk.                             *)
LEMMA ReadChunk ==
  ASSUME NEW lba \in Nat, NEW n \in Nat, n <= CHUNK, NEW dest \in Nat, NEW status \in Statuses
  PROVE  \A a \in Memory : a \in dest .. dest + (n * SECTOR) - 1 =>
           ata_read_lba28(lba, n, dest, status)[a] = lba * SECTOR + (a - dest)
<1> DEFINE start == ChunkStart(lba, n \div CHUNK, status)
           At(i) == (start[(i \div SECTOR) \div CHUNK] + ((i \div SECTOR) % CHUNK)) * SECTOR
                      + (i % SECTOR)
<1>1. ata_read_lba28(lba, n, dest, status) =
        [a \in Memory |-> IF a \in dest .. dest + (n * SECTOR) - 1 THEN At(a - dest) ELSE mem[a]]
  BY Zenon DEF ata_read_lba28
<1>2. start[0] = lba
  <2>1. n \div CHUNK \in Nat /\ status \in Nat
    BY Constants, DivMod, BootAssumption
  <2>2. QED
    BY <2>1, ChunkStarts
<1> HIDE DEF start
<1>3. ASSUME NEW i \in Nat, i < n * SECTOR
      PROVE  At(i) = lba * SECTOR + i
  <2> DEFINE s == i \div SECTOR
             r == i % SECTOR
  <2>1. s \in Nat /\ s < CHUNK /\ r \in Nat /\ i = (SECTOR * s) + r
    BY <1>3, Constants, DivBound, DivMod
  <2> HIDE DEF s, r
  <2>2. s \div CHUNK = 0 /\ s % CHUNK = s
    BY <2>1, Constants
  <2>3. (start[s \div CHUNK] + (s % CHUNK)) * SECTOR + r = (lba + s) * SECTOR + r
    BY <1>2, <2>2
  <2>4. (lba + s) * SECTOR = lba * SECTOR + SECTOR * s
    BY <2>1, Constants
  <2>5. (start[s \div CHUNK] + (s % CHUNK)) * SECTOR + r = lba * SECTOR + i
    BY <2>1, <2>3, <2>4, Constants
  <2>6. QED
    BY <2>5 DEF s, r
<1> HIDE DEF At
<1>4. \A a \in Memory : a \in dest .. dest + (n * SECTOR) - 1 =>
        At(a - dest) = lba * SECTOR + (a - dest)
  BY <1>3, Constants DEF Memory
<1>5. QED
  BY <1>1, <1>4
-----------------------------------------------------------------------------
(* The inductive invariant, one part for each of the promises.             *)

Loading == {"read_headers", "headers_ready", "read_segments", "load_loop"}
Copied == {"load_initrd", "load_memory_map", "kernel"}

(* Entry i of the table is the BIOS's; what was counted is all of them, or *)
(* all that fit.                                                           *)
MapInv ==
  /\ \A i \in 1 .. e820_count : e820[i] = i
  /\ pc = "detect_memory" => di = e820_count + 1 /\ e820_count <= bios.entries
  /\ pc # "detect_memory" => e820_count = Min({bios.entries, E820_MAX_ENTRIES})
  /\ memory_map = IF pc = "kernel" THEN [i \in 1 .. e820_count |-> i] ELSE <<>>

(* The first sectors are loaded, and no more than are required; once the   *)
(* segments were looked at, the required sectors hold them.                *)
SectorsInv ==
  /\ pc \in Loading =>
       /\ TableEnd < TOP
       /\ INITIAL_KERNEL_SECTORS <= kernel_loaded_sectors
       /\ kernel_loaded_sectors = INITIAL_KERNEL_SECTORS
            \/ kernel_loaded_sectors <= kernel_required_sectors
  /\ pc \in {"read_headers", "headers_ready"} => kernel_required_sectors = Sectors(TableEnd)
  /\ pc \in {"read_segments", "load_loop"} \cup Copied =>
       /\ kernel_required_sectors <= MAX_KERNEL_SECTORS
       /\ \A i \in Loadable :
            disk.phdrs[i].offset + disk.phdrs[i].filesz <= kernel_required_sectors * SECTOR
  /\ pc = "load_loop" => kernel_required_sectors <= kernel_loaded_sectors

(* The buffer holds the front of the kernel's file.                        *)
BufferInv ==
  pc \in Loading /\ kernel_loaded_sectors <= INITIAL_KERNEL_SECTORS + CHUNK =>
    \A a \in Memory :
      a \in KERNEL_BUFFER .. KERNEL_BUFFER + kernel_loaded_sectors * SECTOR - 1 =>
        mem[a] = KERNEL_LBA * SECTOR + (a - KERNEL_BUFFER)

(* The segments that load_loop has passed are in memory and in place.      *)
SegmentInv ==
  /\ pc \notin Copied \cup {"load_loop", "load_fail"} => ph = 1
  /\ pc \in Copied => ph = Len(disk.phdrs) + 1
  /\ \A i \in Loadable : i < ph =>
       /\ disk.phdrs[i].filesz <= disk.phdrs[i].memsz
       /\ disk.phdrs[i].dest + disk.phdrs[i].memsz < TOP
  /\ /\ pc # "load_fail"
     /\ kernel_required_sectors <= INITIAL_KERNEL_SECTORS + CHUNK
     /\ SegmentsApart
     => \A i \in Loadable : i < ph => InPlace(disk.phdrs[i])

InitrdInv ==
  /\ pc \notin {"load_memory_map", "kernel"} => initrd_base = 0
  /\ ShortInitrdReported

LEMMA ConstantsKept == [Next]_vars => UNCHANGED <<disk, bios>>
BY Zenon DEF Next, vars, detect_memory, load_stage2, load_kernel, ReadHeaders, scan_loop, ReadSegments,
   load_loop, ph_done, load_initrd, load_memory_map, Rest

LEMMA InitHolds == Init => TypeOK /\ MapInv /\ SectorsInv /\ BufferInv /\ SegmentInv /\ InitrdInv
<1> SUFFICES ASSUME Init
             PROVE  TypeOK /\ MapInv /\ SectorsInv /\ BufferInv /\ SegmentInv /\ InitrdInv
  OBVIOUS
<1>1. Len(disk.phdrs) \in Nat /\ bios.entries \in Nat
  BY DiskFields, BootAssumption DEF Init
<1>2. TypeOK
  BY <1>1, Constants DEF Init, TypeOK
<1>3. MapInv
  BY <1>1 DEF Init, MapInv
<1>4. SectorsInv /\ BufferInv
  BY DEF Init, SectorsInv, BufferInv, Loading, Copied
<1>5. SegmentInv
  BY DEF Init, SegmentInv, Copied, Loadable
<1>6. InitrdInv
  BY DEF Init, InitrdInv, ShortInitrdReported, InitrdReported
<1>7. QED
  BY <1>2, <1>3, <1>4, <1>5, <1>6
-----------------------------------------------------------------------------
(* The memory map.                                                         *)

BiosTyped ==
  /\ e820 \in [1 .. E820_MAX_ENTRIES + 1 -> 0 .. E820_MAX_ENTRIES + 1]
  /\ e820_count \in 0 .. E820_MAX_ENTRIES /\ di \in 1 .. E820_MAX_ENTRIES + 1

LEMMA MapStep ==
  ASSUME TypeOK, MapInv, [Next]_vars
  PROVE  MapInv' /\ BiosTyped'
<1> DEFINE N == bios.entries
           M == E820_MAX_ENTRIES
<1>1. UNCHANGED bios /\ N \in Nat /\ M \in Nat
  BY ConstantsKept, BootAssumption DEF TypeOK
<1>2. Min({N, M}) = IF N <= M THEN N ELSE M
  BY <1>1, MinOfTwo
<1>3. BiosTyped
  BY DEF TypeOK, BiosTyped
<1>4. CASE detect_memory
  <2>1. /\ pc = "detect_memory" /\ di = e820_count + 1 /\ e820_count <= N /\ memory_map = <<>>
        /\ \A i \in 1 .. e820_count : e820[i] = i
    BY <1>4 DEF detect_memory, MapInv
  <2>2. UNCHANGED memory_map /\ pc' # "kernel"
    BY <1>4 DEF detect_memory, infoVars
  <2>3. CASE di > N
    <3>1. pc' = "load_stage2" /\ UNCHANGED <<e820, e820_count, di>>
      BY <1>4, <2>3 DEF detect_memory, biosVars
    <3>2. e820_count = Min({N, M})
      BY <1>1, <1>2, <1>3, <2>1, <2>3 DEF BiosTyped
    <3>3. QED
      BY <1>1, <1>3, <2>1, <2>2, <3>1, <3>2 DEF MapInv, BiosTyped
  <2>4. CASE di <= N
    <3>1. e820' = [e820 EXCEPT ![di] = di]
      BY <1>1, <1>3, <1>4, <2>4 DEF detect_memory, BiosTyped
    <3>2. /\ e820' \in [1 .. M + 1 -> 0 .. M + 1]
          /\ \A i \in 1 .. e820_count + 1 : e820'[i] = i
      BY <1>1, <1>3, <2>1, <3>1 DEF BiosTyped
    <3>3. CASE e820_count >= M
      <4>1. pc' = "load_stage2" /\ UNCHANGED <<e820_count, di>>
        BY <1>1, <1>3, <1>4, <2>4, <3>3 DEF detect_memory, BiosTyped
      <4>2. e820_count = Min({N, M})
        BY <1>1, <1>2, <1>3, <2>1, <2>4, <3>3 DEF BiosTyped
      <4>3. \A i \in 1 .. e820_count : e820'[i] = i
        BY <1>3, <3>2 DEF BiosTyped
      <4>4. QED
        BY <1>1, <1>3, <2>1, <2>2, <3>2, <4>1, <4>2, <4>3 DEF MapInv, BiosTyped
    <3>4. CASE e820_count < M
      <4>1. e820_count' = e820_count + 1 /\ e820_count' \in 0 .. M
        BY <1>1, <1>3, <1>4, <2>4, <3>4 DEF detect_memory, BiosTyped
      <4>2. \/ di = N /\ pc' = "load_stage2" /\ UNCHANGED di
            \/ ~(di = N /\ bios.ends = "zero") /\ di' = di + 1 /\ UNCHANGED pc
        BY <1>1, <1>3, <1>4, <2>4, <3>4 DEF detect_memory, BiosTyped
      <4>3. \A i \in 1 .. e820_count' : e820'[i] = i
        BY <3>2, <4>1
      <4>4. CASE di = N /\ pc' = "load_stage2" /\ UNCHANGED di
        <5>1. e820_count' = Min({N, M})
          BY <1>1, <1>2, <1>3, <2>1, <3>4, <4>1, <4>4 DEF BiosTyped
        <5>2. QED
          BY <1>1, <1>3, <2>1, <2>2, <3>2, <4>1, <4>3, <4>4, <5>1 DEF MapInv, BiosTyped
      <4>5. CASE di' = di + 1 /\ UNCHANGED pc
        <5>1. di' = e820_count' + 1 /\ e820_count' <= N /\ di' \in 1 .. M + 1
          BY <1>1, <1>3, <2>1, <2>4, <4>1, <4>5 DEF BiosTyped
        <5>2. QED
          BY <1>1, <2>1, <2>2, <3>2, <4>1, <4>3, <4>5, <5>1 DEF MapInv, BiosTyped
      <4>6. QED
        BY <4>2, <4>4, <4>5
    <3>5. QED
      BY <1>1, <1>3, <3>3, <3>4 DEF BiosTyped
  <2>5. QED
    BY <1>1, <1>3, <2>3, <2>4 DEF BiosTyped
<1>5. CASE load_memory_map
  <2>1. pc = "load_memory_map" /\ pc' = "kernel" /\ UNCHANGED <<e820, e820_count, di>>
    BY <1>5 DEF load_memory_map, biosVars
  <2>2. memory_map' = [i \in 1 .. e820_count |-> e820[i]]
    BY <1>1, <1>3, <1>5 DEF load_memory_map, BiosTyped
  <2>3. /\ \A i \in 1 .. e820_count : e820[i] = i
        /\ e820_count = Min({N, M})
    BY <2>1 DEF MapInv
  <2>4. memory_map' = [i \in 1 .. e820_count |-> i]
    BY <2>2, <2>3
  <2>5. QED
    BY <1>1, <1>3, <2>1, <2>3, <2>4 DEF MapInv, BiosTyped
<1>6. ASSUME UNCHANGED <<e820, e820_count, di, memory_map>>,
             \/ UNCHANGED pc
             \/ pc # "detect_memory" /\ pc' # "detect_memory" /\ pc # "kernel" /\ pc' # "kernel"
      PROVE  MapInv' /\ BiosTyped'
  BY <1>1, <1>3, <1>6 DEF MapInv, BiosTyped
<1>7. \/ detect_memory \/ load_memory_map
      \/ /\ UNCHANGED <<e820, e820_count, di, memory_map>>
         /\ \/ UNCHANGED pc
            \/ pc # "detect_memory" /\ pc' # "detect_memory" /\ pc # "kernel" /\ pc' # "kernel"
  BY DEF Next, vars, load_stage2, load_kernel, ReadHeaders, ReadMore, Fail, scan_loop, ReadSegments,
     load_loop, ph_done, load_initrd, Rest, biosVars, infoVars
<1>8. QED
  BY <1>4, <1>5, <1>6, <1>7

-----------------------------------------------------------------------------
(* The kernel and the initrd, one lemma for each action.                   *)

KernelTyped ==
  /\ disk \in Disks
  /\ mem \in [Memory -> Nat \cup {Zero, Old}]
  /\ kernel_required_sectors \in Nat /\ kernel_loaded_sectors \in Nat
  /\ ph \in 1 .. Len(disk.phdrs) + 1
  /\ initrd_base \in {0, INITRD_DEST} /\ initrd_len \in Nat

KernelInv == KernelTyped /\ SectorsInv /\ BufferInv /\ SegmentInv /\ InitrdInv

(* What the program headers say.                                           *)
LEMMA TableTyped ==
  ASSUME KernelTyped
  PROVE  /\ TableEnd \in Nat /\ Len(disk.phdrs) \in Nat
         /\ disk.initrd \in Nat /\ disk.size \in Nat
         /\ \A i \in Loadable :
              /\ i \in 1 .. Len(disk.phdrs) /\ disk.phdrs[i].type = "load"
              /\ disk.phdrs[i].offset \in Nat /\ disk.phdrs[i].filesz \in Nat
              /\ disk.phdrs[i].memsz \in Nat /\ disk.phdrs[i].dest \in Nat
<1>1. disk \in Disks
  BY DEF KernelTyped
<1>2. /\ disk.phoff \in Nat /\ disk.phentsize \in Nat /\ disk.size \in Nat /\ disk.initrd \in Nat
      /\ Len(disk.phdrs) \in Nat
  BY <1>1, DiskFields
<1>3. TableEnd \in Nat
  BY <1>2 DEF TableEnd
<1>4. \A i \in 1 .. Len(disk.phdrs) :
        /\ disk.phdrs[i].offset \in Nat /\ disk.phdrs[i].filesz \in Nat
        /\ disk.phdrs[i].memsz \in Nat /\ disk.phdrs[i].dest \in Nat
  BY <1>1, DiskFields
<1>5. QED
  BY <1>2, <1>3, <1>4 DEF Loadable

(* A step that leaves memory and the counters alone.                       *)
LEMMA QuietStep ==
  ASSUME KernelInv, UNCHANGED <<disk, mem, kernelVars, initrd_base, initrd_len>>,
         \/ UNCHANGED pc
         \/ pc' = "load_fail" /\ pc \notin {"load_memory_map", "kernel"}
         \/ /\ pc \in {"detect_memory", "load_stage2"}
            /\ pc' \in {"detect_memory", "load_stage2", "load_kernel", "disk_error"}
         \/ pc = "load_loop" /\ ph = Len(disk.phdrs) + 1 /\ pc' = "load_initrd"
         \/ pc = "load_initrd" /\ pc' = "load_memory_map"
         \/ pc = "load_memory_map" /\ pc' = "kernel"
  PROVE  KernelInv'
<1>1. KernelTyped'
  BY DEF KernelInv, KernelTyped, kernelVars
<1>2. SectorsInv'
  BY DEF KernelInv, SectorsInv, kernelVars, TableEnd, Loadable, Loading, Copied
<1>3. BufferInv'
  BY DEF KernelInv, BufferInv, kernelVars, Loading
<1>4. SegmentInv'
  <2>1. SegmentsApart' = SegmentsApart /\ Loadable' = Loadable
    BY DEF SegmentsApart, Loadable
  <2>2. \A p : InPlace(p)' = InPlace(p)
    BY DEF InPlace
  <2>3. QED
    BY <2>1, <2>2 DEF KernelInv, SegmentInv, kernelVars, Copied, InPlace
<1>5. InitrdInv'
  BY DEF KernelInv, InitrdInv, ShortInitrdReported, InitrdReported
<1>6. QED
  BY <1>1, <1>2, <1>3, <1>4, <1>5 DEF KernelInv

LEMMA LoadKernelStep ==
  ASSUME KernelInv, load_kernel
  PROVE  KernelInv'
<1>1. pc = "load_kernel" /\ UNCHANGED <<disk, initrd_base, initrd_len>>
  BY DEF load_kernel, infoVars
<1>2. CASE Fail
  BY <1>1, <1>2, QuietStep DEF Fail
<1>3. CASE ~Fail
  <2>1. PICK status \in Statuses :
          /\ TableEnd < TOP
          /\ mem' = ata_read_lba28(KERNEL_LBA, INITIAL_KERNEL_SECTORS, KERNEL_BUFFER, status)
          /\ kernel_loaded_sectors' = INITIAL_KERNEL_SECTORS
          /\ kernel_required_sectors' = Sectors(TableEnd)
          /\ pc' = "read_headers"
          /\ UNCHANGED ph
    BY <1>3 DEF load_kernel
  <2>2. ph = 1 /\ initrd_base = 0
    BY <1>1 DEF KernelInv, SegmentInv, InitrdInv, Copied
  <2>3. TableEnd' = TableEnd /\ TableEnd \in Nat /\ Sectors(TableEnd) \in Nat
    BY <1>1, TableTyped, SectorsHold DEF KernelInv, TableEnd
  <2>4. mem' \in [Memory -> Nat \cup {Zero, Old}]
    BY <2>1, Constants, ReadTyped DEF KernelInv, KernelTyped
  <2>5. KernelTyped'
    BY <1>1, <2>1, <2>3, <2>4, Constants DEF KernelInv, KernelTyped
  <2>6. SectorsInv'
    BY <1>1, <2>1, <2>3, Constants DEF SectorsInv, Loading, Copied, Sectors
  <2>7. BufferInv'
    BY <2>1, Constants, ReadChunk DEF BufferInv
  <2>8. SegmentInv'
    BY <1>1, <2>1, <2>2 DEF SegmentInv, Copied, Loadable
  <2>9. InitrdInv'
    BY <1>1, <2>1, <2>2 DEF InitrdInv, ShortInitrdReported, InitrdReported
  <2>10. QED
    BY <2>5, <2>6, <2>7, <2>8, <2>9 DEF KernelInv
<1>4. QED
  BY <1>2, <1>3

LEMMA ReadMoreStep ==
  ASSUME KernelInv, NEW next, UNCHANGED <<disk, initrd_base, initrd_len>>,
         \/ pc = "read_headers" /\ next = "headers_ready"
         \/ pc = "read_segments" /\ next = "load_loop",
         ReadMore(next)
  PROVE  KernelInv'
<1> DEFINE r == kernel_required_sectors
           l == kernel_loaded_sectors
<1>1. /\ ph = 1 /\ initrd_base = 0 /\ r \in Nat /\ l \in Nat
      /\ INITIAL_KERNEL_SECTORS <= l
  BY DEF KernelInv, KernelTyped, SectorsInv, SegmentInv, InitrdInv, Copied, Loading
<1>2. ASSUME pc' = next, UNCHANGED <<kernel_required_sectors, ph>>, l' = r \/ (l' = l /\ l >= r),
             BufferInv', mem' \in [Memory -> Nat \cup {Zero, Old}], INITIAL_KERNEL_SECTORS <= l'
      PROVE  KernelInv'
  <2>1. KernelTyped'
    BY <1>1, <1>2 DEF KernelInv, KernelTyped
  <2>2. SectorsInv'
    BY <1>1, <1>2 DEF KernelInv, SectorsInv, TableEnd, Loadable, Loading, Copied
  <2>3. SegmentInv'
    BY <1>1, <1>2 DEF SegmentInv, Copied, Loadable
  <2>4. InitrdInv'
    BY <1>1, <1>2 DEF InitrdInv, ShortInitrdReported, InitrdReported
  <2>5. QED
    BY <1>2, <2>1, <2>2, <2>3, <2>4 DEF KernelInv
<1>3. CASE l >= r /\ pc' = next /\ UNCHANGED <<mem, kernelVars>>
  <2>1. BufferInv' /\ mem' \in [Memory -> Nat \cup {Zero, Old}]
    BY <1>3 DEF KernelInv, KernelTyped, BufferInv, kernelVars, Loading
  <2>2. QED
    BY <1>1, <1>2, <1>3, <2>1 DEF kernelVars
<1>4. CASE Fail
  BY <1>4, QuietStep DEF Fail
<1>5. ASSUME NEW status \in Statuses, l < r,
             mem' = ata_read_lba28(KERNEL_LBA + l, r - l, KERNEL_BUFFER + l * SECTOR, status),
             l' = r, pc' = next, UNCHANGED <<kernel_required_sectors, ph>>
      PROVE  KernelInv'
  <2> DEFINE lS == l * SECTOR
             rS == r * SECTOR
             K == KERNEL_LBA * SECTOR
  <2>1. /\ lS \in Nat /\ rS \in Nat /\ K \in Nat /\ lS <= rS
        /\ (r - l) * SECTOR = rS - lS
        /\ (KERNEL_LBA + l) * SECTOR = K + lS
    BY <1>1, <1>5, Times, Constants
  <2>2. KERNEL_LBA + l \in Nat /\ r - l \in Nat /\ KERNEL_BUFFER + lS \in Nat
    BY <1>1, <1>5, <2>1, Constants
  <2>3. /\ mem' \in [Memory -> Nat \cup {Zero, Old}]
        /\ \A a \in Memory :
             a \notin KERNEL_BUFFER + lS .. KERNEL_BUFFER + lS + (rS - lS) - 1 => mem'[a] = mem[a]
    <3> HIDE DEF l, r, lS, rS, K
    <3>1. mem \in [Memory -> Nat \cup {Zero, Old}]
      BY DEF KernelInv, KernelTyped
    <3>2. /\ mem' \in [Memory -> Nat \cup {Zero, Old}]
          /\ \A a \in Memory :
               a \notin KERNEL_BUFFER + lS .. KERNEL_BUFFER + lS + ((r - l) * SECTOR) - 1 =>
                 mem'[a] = mem[a]
      BY <1>5, <2>2, <3>1, ReadTyped DEF lS
    <3>3. QED
      BY <2>1, <3>2
  <2>4. ASSUME r <= INITIAL_KERNEL_SECTORS + CHUNK
        PROVE  \A a \in Memory : a \in KERNEL_BUFFER .. KERNEL_BUFFER + rS - 1 =>
                 mem'[a] = K + (a - KERNEL_BUFFER)
    <3>1. r - l <= CHUNK /\ l <= INITIAL_KERNEL_SECTORS + CHUNK
      BY <1>1, <1>5, <2>4, Constants
    <3>2. \A a \in Memory :
            a \in KERNEL_BUFFER + lS .. KERNEL_BUFFER + lS + (rS - lS) - 1 =>
              mem'[a] = (K + lS) + (a - (KERNEL_BUFFER + lS))
      BY <1>5, <2>1, <2>2, <3>1, ReadChunk
    <3>3. \A a \in Memory : a \in KERNEL_BUFFER .. KERNEL_BUFFER + lS - 1 =>
            mem[a] = K + (a - KERNEL_BUFFER)
      BY <3>1 DEF KernelInv, BufferInv, Loading
    <3> HIDE DEF lS, rS, K
    <3>4. QED
      BY <2>1, <2>3, <3>2, <3>3, Constants DEF Memory
  <2>5. BufferInv'
    BY <1>5, <2>4 DEF BufferInv
  <2>6. INITIAL_KERNEL_SECTORS <= l'
    BY <1>1, <1>5, Constants
  <2>7. QED
    BY <1>2, <1>5, <2>3, <2>5, <2>6
<1>6. QED
  BY <1>3, <1>4, <1>5 DEF ReadMore

LEMMA ScanStep ==
  ASSUME KernelInv, scan_loop
  PROVE  KernelInv'
<1> DEFINE Ends == {disk.phdrs[i].offset + disk.phdrs[i].filesz : i \in Loadable}
           S == Ends \cup {TableEnd}
<1>1. pc = "headers_ready" /\ UNCHANGED <<disk, initrd_base, initrd_len>>
  BY DEF scan_loop, infoVars
<1>2. CASE Fail
  BY <1>1, <1>2, QuietStep DEF Fail
<1>3. CASE ~Fail
  <2>1. /\ \A e \in Ends : ~(e >= TOP)
        /\ ~(Sectors(Max(S)) > MAX_KERNEL_SECTORS)
        /\ kernel_required_sectors' = Sectors(Max(S))
        /\ pc' = "read_segments"
        /\ UNCHANGED <<mem, kernel_loaded_sectors, ph>>
    BY <1>3 DEF scan_loop
  <2>2. /\ TableEnd \in Nat /\ TableEnd < TOP /\ TableEnd' = TableEnd /\ Loadable' = Loadable
        /\ kernel_required_sectors = Sectors(TableEnd)
        /\ ph = 1 /\ initrd_base = 0
    BY <1>1, TableTyped DEF KernelInv, SectorsInv, SegmentInv, InitrdInv, TableEnd, Loadable, Loading,
       Copied
  <2>3. \A i \in Loadable : disk.phdrs[i].offset + disk.phdrs[i].filesz \in Nat
    BY TableTyped DEF KernelInv
  <2>4. S \in SUBSET Nat /\ TableEnd \in S
    BY <2>2, <2>3
  <2>5. \A x \in S : x <= TOP
    BY <2>1, <2>2, <2>4, Constants
  <2> HIDE DEF S
  <2>6. Max(S) \in Nat /\ \A x \in S : x <= Max(S)
    BY <2>4, <2>5, Constants, LargestNumber
  <2>7. /\ Sectors(Max(S)) \in Nat /\ Max(S) <= Sectors(Max(S)) * SECTOR
        /\ Sectors(TableEnd) \in Nat /\ Sectors(TableEnd) <= Sectors(Max(S))
    BY <2>2, <2>4, <2>6, SectorsHold, SectorsGrow
  <2>8. \A i \in Loadable :
          disk.phdrs[i].offset + disk.phdrs[i].filesz <= kernel_required_sectors' * SECTOR
    <3> TAKE i \in Loadable
    <3>1. disk.phdrs[i].offset + disk.phdrs[i].filesz <= Max(S)
      BY <2>6 DEF S
    <3>2. Sectors(Max(S)) * SECTOR \in Nat
      BY <2>7, Constants
    <3>3. QED
      BY <2>1, <2>3, <2>6, <2>7, <3>1, <3>2
  <2>9. KernelTyped'
    BY <1>1, <2>1, <2>7 DEF KernelInv, KernelTyped
  <2>10. SectorsInv'
    <3>1. /\ INITIAL_KERNEL_SECTORS <= kernel_loaded_sectors /\ kernel_loaded_sectors \in Nat
          /\ kernel_loaded_sectors = INITIAL_KERNEL_SECTORS
               \/ kernel_loaded_sectors <= kernel_required_sectors
      BY <1>1 DEF KernelInv, KernelTyped, SectorsInv, Loading
    <3>2. kernel_required_sectors' <= MAX_KERNEL_SECTORS
      BY <2>1, <2>7, Constants
    <3>3. kernel_loaded_sectors = INITIAL_KERNEL_SECTORS
            \/ kernel_loaded_sectors <= kernel_required_sectors'
      BY <2>1, <2>2, <2>7, <3>1
    <3>4. QED
      BY <1>1, <2>1, <2>2, <2>8, <3>1, <3>2, <3>3 DEF SectorsInv, Loading, Copied
  <2>11. BufferInv'
    BY <1>1, <2>1 DEF KernelInv, BufferInv, Loading
  <2>12. SegmentInv'
    BY <1>1, <2>1, <2>2 DEF SegmentInv, Copied, Loadable
  <2>13. InitrdInv'
    BY <1>1, <2>1, <2>2 DEF InitrdInv, ShortInitrdReported, InitrdReported
  <2>14. QED
    BY <2>9, <2>10, <2>11, <2>12, <2>13 DEF KernelInv
<1>4. QED
  BY <1>2, <1>3

(* What the copy of one segment finds, and what it leaves.                 *)
LEMMA LoadLoopStep ==
  ASSUME KernelInv, load_loop
  PROVE  KernelInv'
<1> DEFINE p == disk.phdrs[ph]
           Front == p.dest .. p.dest + p.filesz - 1
           Clear == p.dest + p.filesz .. p.dest + p.memsz - 1
<1>1. pc = "load_loop" /\ ph <= Len(disk.phdrs) /\ UNCHANGED <<disk, initrd_base, initrd_len>>
  BY DEF load_loop, infoVars
<1>2. initrd_base = 0 /\ ph \in 1 .. Len(disk.phdrs) /\ Len(disk.phdrs) \in Nat
  BY <1>1, TableTyped DEF KernelInv, KernelTyped, InitrdInv
<1>3. Loadable' = Loadable /\ SegmentsApart' = SegmentsApart /\ Loadable \subseteq Nat
  BY <1>1, <1>2 DEF Loadable, SegmentsApart
<1>4. ASSUME pc' = pc, ph' = ph + 1, UNCHANGED <<kernel_required_sectors, kernel_loaded_sectors>>,
             mem' \in [Memory -> Nat \cup {Zero, Old}], BufferInv', SegmentInv'
      PROVE  KernelInv'
  <2>1. KernelTyped'
    BY <1>1, <1>2, <1>4 DEF KernelInv, KernelTyped
  <2>2. SectorsInv'
    BY <1>1, <1>4 DEF KernelInv, SectorsInv, TableEnd, Loadable, Loading, Copied
  <2>3. InitrdInv'
    BY <1>1, <1>2, <1>4 DEF InitrdInv, ShortInitrdReported, InitrdReported
  <2>4. QED
    BY <1>4, <2>1, <2>2, <2>3 DEF KernelInv
<1>5. CASE p.type # "load"
  <2>1. pc' = pc /\ ph' = ph + 1
        /\ UNCHANGED <<kernel_required_sectors, kernel_loaded_sectors, mem>>
    BY <1>5 DEF load_loop
  <2>2. mem' \in [Memory -> Nat \cup {Zero, Old}] /\ BufferInv'
    BY <1>1, <2>1 DEF KernelInv, KernelTyped, BufferInv, Loading
  <2>3. \A i \in Loadable : i < ph + 1 => i < ph
    BY <1>2, <1>3, <1>5 DEF Loadable
  <2>4. SegmentInv'
    <3>1. \A i \in Loadable : InPlace(disk.phdrs[i])' = InPlace(disk.phdrs[i])
      BY <1>1, <2>1 DEF InPlace
    <3>2. QED
      BY <1>1, <1>3, <2>1, <2>3, <3>1 DEF KernelInv, SegmentInv, Copied
  <2>5. QED
    BY <1>4, <2>1, <2>2, <2>4
<1>6. CASE p.type = "load" /\ Fail
  BY <1>1, <1>6, QuietStep DEF Fail
<1>7. CASE p.type = "load" /\ ~Fail
  <2>1. /\ ~(p.memsz < p.filesz) /\ ~(p.dest + p.memsz >= TOP)
        /\ mem' = [a \in Memory |->
                     IF a \in Front THEN mem[KERNEL_BUFFER + p.offset + (a - p.dest)]
                     ELSE IF a \in Clear THEN Zero ELSE mem[a]]
        /\ ph' = ph + 1
        /\ UNCHANGED <<pc, kernel_required_sectors, kernel_loaded_sectors>>
    BY <1>7, Zenon DEF load_loop
  <2>2. /\ ph \in Loadable
        /\ p.offset \in Nat /\ p.filesz \in Nat /\ p.memsz \in Nat /\ p.dest \in Nat
    BY <1>2, <1>7, TableTyped DEF KernelInv, Loadable
  <2>3. p.filesz <= p.memsz /\ p.dest + p.memsz < TOP
    BY <2>1, <2>2, Constants
  <2>4. Place(p) \cap Buffer = {}
    BY <1>2, <1>7, BootAssumption DEF KernelInv, KernelTyped
  <2> DEFINE rS == kernel_required_sectors * SECTOR
             lS == kernel_loaded_sectors * SECTOR
             mS == MAX_KERNEL_SECTORS * SECTOR
  <2>5. /\ kernel_loaded_sectors \in Nat /\ kernel_required_sectors \in Nat
        /\ kernel_required_sectors <= MAX_KERNEL_SECTORS
        /\ kernel_required_sectors <= kernel_loaded_sectors
        /\ kernel_loaded_sectors = INITIAL_KERNEL_SECTORS
             \/ kernel_loaded_sectors <= kernel_required_sectors
        /\ p.offset + p.filesz <= rS
    BY <1>1, <2>2 DEF KernelInv, KernelTyped, SectorsInv, Loading, Copied
  <2>6. kernel_loaded_sectors <= MAX_KERNEL_SECTORS
    BY <2>5, Constants
  <2>7. /\ rS \in Nat /\ lS \in Nat /\ mS \in Nat /\ rS <= lS /\ lS <= mS
        /\ KERNEL_BUFFER + mS <= TOP
    BY <2>5, <2>6, Times, Constants, BootAssumption
  <2>8. mem \in [Memory -> Nat \cup {Zero, Old}]
    BY DEF KernelInv, KernelTyped
  <2>9. Buffer = KERNEL_BUFFER .. KERNEL_BUFFER + mS - 1
    BY DEF Buffer
  <2> HIDE DEF rS, lS, mS, p
  <2>10. \A a \in Front : KERNEL_BUFFER + p.offset + (a - p.dest) \in Memory
    BY <2>2, <2>5, <2>7, Constants DEF Memory
  <2>11. mem' \in [Memory -> Nat \cup {Zero, Old}]
    BY <2>1, <2>8, <2>10
  <2>12. \A a \in Memory : a \notin Place(p) => mem'[a] = mem[a]
    BY <2>1, <2>2, <2>3 DEF Place
  <2>13. BufferInv'
    <3> SUFFICES ASSUME kernel_loaded_sectors <= INITIAL_KERNEL_SECTORS + CHUNK,
                        NEW a \in Memory, a \in KERNEL_BUFFER .. KERNEL_BUFFER + lS - 1
                 PROVE  mem'[a] = KERNEL_LBA * SECTOR + (a - KERNEL_BUFFER)
      BY <1>1, <2>1 DEF BufferInv, lS
    <3>1. a \in Buffer
      BY <2>7, <2>9, Constants DEF Memory
    <3>2. mem'[a] = mem[a]
      BY <2>4, <2>12, <3>1
    <3>3. QED
      BY <1>1, <3>2 DEF KernelInv, BufferInv, Loading, lS
  <2>14. SegmentInv'
    <3>1. \A i \in Loadable : i < ph + 1 =>
            disk.phdrs[i].filesz <= disk.phdrs[i].memsz /\ disk.phdrs[i].dest + disk.phdrs[i].memsz < TOP
      <4> TAKE i \in Loadable
      <4>1. CASE i = ph
        BY <2>3, <4>1 DEF p
      <4>2. CASE i # ph
        BY <1>2, <1>3, <4>2 DEF KernelInv, SegmentInv
      <4>3. QED
        BY <4>1, <4>2
    <3>2. ASSUME kernel_required_sectors <= INITIAL_KERNEL_SECTORS + CHUNK, SegmentsApart,
                 NEW i \in Loadable, i < ph
          PROVE  InPlace(disk.phdrs[i])'
      <4> DEFINE q == disk.phdrs[i]
      <4>1. /\ q.offset \in Nat /\ q.filesz \in Nat /\ q.memsz \in Nat /\ q.dest \in Nat
            /\ q.filesz <= q.memsz /\ q.dest + q.memsz < TOP
        BY <1>1, <3>2, TableTyped DEF KernelInv, SegmentInv
      <4>2. Place(q) \cap Place(p) = {}
        <5>1. i # ph
          BY <1>2, <1>3, <3>2
        <5>2. QED
          BY <2>2, <3>2, <5>1 DEF SegmentsApart, p
      <4>3. InPlace(q)
        BY <1>1, <3>2 DEF KernelInv, SegmentInv
      <4>4. q' = q
        BY <1>1
      <4> HIDE DEF q
      <4>5. \A j \in 0 .. q.memsz - 1 : mem'[q.dest + j] = mem[q.dest + j]
        <5> TAKE j \in 0 .. q.memsz - 1
        <5>1. q.dest + j \in Memory /\ q.dest + j \in Place(q)
          BY <4>1, Constants DEF Memory, Place
        <5>2. QED
          BY <2>12, <4>2, <5>1
      <4>6. /\ \A j \in 0 .. q.filesz - 1 : mem'[q.dest + j] = KERNEL_LBA * SECTOR + q.offset + j
            /\ \A j \in q.filesz .. q.memsz - 1 : mem'[q.dest + j] = Zero
        BY <4>1, <4>3, <4>5 DEF InPlace
      <4>7. QED
        BY <4>4, <4>6 DEF InPlace, q
    <3>3. ASSUME kernel_required_sectors <= INITIAL_KERNEL_SECTORS + CHUNK,
                 NEW i \in Loadable, i = ph
          PROVE  InPlace(disk.phdrs[i])'
      <4>1. kernel_loaded_sectors <= INITIAL_KERNEL_SECTORS + CHUNK
        BY <2>5, <3>3, Constants
      <4>2. ASSUME NEW j \in 0 .. p.filesz - 1
            PROVE  mem'[p.dest + j] = KERNEL_LBA * SECTOR + p.offset + j
        <5> DEFINE b == KERNEL_BUFFER + p.offset + j
        <5>1. p.dest + j \in Front /\ p.dest + j \in Memory
          BY <2>2, <2>3, Constants DEF Memory
        <5>2. (p.dest + j) - p.dest = j
          BY <2>2
        <5>3. mem'[p.dest + j] = mem[b]
          BY <2>1, <5>1, <5>2
        <5>4. /\ b \in Memory /\ b \in KERNEL_BUFFER .. KERNEL_BUFFER + lS - 1
              /\ b - KERNEL_BUFFER = p.offset + j
          BY <2>2, <2>5, <2>7, Constants DEF Memory
        <5> HIDE DEF b
        <5>5. mem[b] = KERNEL_LBA * SECTOR + (p.offset + j)
          BY <1>1, <4>1, <5>4 DEF KernelInv, BufferInv, Loading, lS
        <5>6. KERNEL_LBA * SECTOR \in Nat
          BY Constants
        <5>7. QED
          BY <2>2, <5>3, <5>5, <5>6
      <4>3. ASSUME NEW j \in p.filesz .. p.memsz - 1
            PROVE  mem'[p.dest + j] = Zero
        <5>1. p.dest + j \in Clear /\ p.dest + j \notin Front /\ p.dest + j \in Memory
          BY <2>2, <2>3, Constants DEF Memory
        <5>2. QED
          BY <2>1, <5>1
      <4>4. disk'.phdrs[i] = p
        BY <1>1, <3>3 DEF p
      <4>5. QED
        BY <4>2, <4>3, <4>4 DEF InPlace
    <3>4. \A i \in Loadable : i < ph + 1 <=> i < ph \/ i = ph
      BY <1>2, <1>3
    <3>5. QED
      BY <1>1, <1>3, <2>1, <3>1, <3>2, <3>3, <3>4 DEF SegmentInv, Copied
  <2>15. QED
    BY <1>4, <2>1, <2>11, <2>13, <2>14
<1>8. QED
  BY <1>5, <1>6, <1>7

(* The initrd's sectors, all or some, are read where no segment is.        *)
LEMMA LoadInitrdStep ==
  ASSUME KernelInv, load_initrd
  PROVE  KernelInv'
<1> DEFINE lba == KERNEL_LBA + kernel_required_sectors
           all == Sectors(disk.initrd)
<1>1. /\ pc = "load_initrd" /\ pc' = "load_memory_map"
      /\ UNCHANGED <<disk, kernel_required_sectors, kernel_loaded_sectors, ph>>
  BY DEF load_initrd, kernelVars
<1>2. initrd_base = 0 /\ disk.initrd \in Nat /\ all \in Nat /\ disk.initrd <= all * SECTOR
  BY <1>1, TableTyped, SectorsHold DEF KernelInv, InitrdInv
<1>3. lba \in Nat
  BY Constants DEF KernelInv, KernelTyped
<1>4. ASSUME NEW n \in 0 .. all, NEW status \in Statuses,
             mem' = ata_read_lba28(lba + 1, n, INITRD_DEST, status),
             initrd_base' \in {0, INITRD_DEST}, initrd_len' \in Nat, ShortInitrdReported'
      PROVE  KernelInv'
  <2> DEFINE nS == n * SECTOR
             aS == all * SECTOR
  <2>1. nS \in Nat /\ aS \in Nat /\ nS <= aS
    BY <1>2, Times, Constants
  <2>2. mem \in [Memory -> Nat \cup {Zero, Old}]
    BY DEF KernelInv, KernelTyped
  <2>3. lba + 1 \in Nat /\ INITRD_DEST \in Nat /\ n \in Nat
    BY <1>2, <1>3, Constants
  <2> HIDE DEF lba, all
  <2>4. /\ mem' \in [Memory -> Nat \cup {Zero, Old}]
        /\ \A a \in Memory : a \notin INITRD_DEST .. INITRD_DEST + nS - 1 => mem'[a] = mem[a]
    <3> DEFINE from == lba + 1
    <3>1. from \in Nat /\ mem' = ata_read_lba28(from, n, INITRD_DEST, status)
      BY <1>4, <2>3
    <3> HIDE DEF from
    <3>2. QED
      BY <2>2, <2>3, <3>1, ReadTyped
  <2>5. KernelTyped'
    BY <1>1, <1>4, <2>4 DEF KernelInv, KernelTyped
  <2>6. SectorsInv'
    BY <1>1 DEF KernelInv, SectorsInv, TableEnd, Loadable, Loading, Copied
  <2>7. BufferInv'
    BY <1>1 DEF BufferInv, Loading
  <2>8. SegmentInv'
    <3>1. Loadable' = Loadable /\ SegmentsApart' = SegmentsApart
      BY <1>1 DEF Loadable, SegmentsApart
    <3>2. ASSUME kernel_required_sectors <= INITIAL_KERNEL_SECTORS + CHUNK, SegmentsApart,
                 NEW i \in Loadable, i < ph
          PROVE  InPlace(disk.phdrs[i])'
      <4> DEFINE q == disk.phdrs[i]
      <4>1. /\ q.offset \in Nat /\ q.filesz \in Nat /\ q.memsz \in Nat /\ q.dest \in Nat
            /\ q.filesz <= q.memsz /\ q.dest + q.memsz < TOP
        BY <1>1, <3>2, TableTyped DEF KernelInv, SegmentInv
      <4>2. Place(q) \cap (INITRD_DEST .. INITRD_DEST + aS - 1) = {}
        BY <3>2 DEF SegmentsApart, all
      <4>3. InPlace(q)
        BY <1>1, <3>2 DEF KernelInv, SegmentInv
      <4>4. q' = q
        BY <1>1
      <4> HIDE DEF q, nS, aS
      <4>5. \A j \in 0 .. q.memsz - 1 : mem'[q.dest + j] = mem[q.dest + j]
        <5> TAKE j \in 0 .. q.memsz - 1
        <5>1. q.dest + j \in Memory /\ q.dest + j \in Place(q)
          BY <4>1, Constants DEF Memory, Place
        <5>2. q.dest + j \notin INITRD_DEST .. INITRD_DEST + nS - 1
          BY <2>1, <4>1, <4>2, <5>1, Constants
        <5>3. QED
          BY <2>4, <5>1, <5>2
      <4>6. /\ \A j \in 0 .. q.filesz - 1 : mem'[q.dest + j] = KERNEL_LBA * SECTOR + q.offset + j
            /\ \A j \in q.filesz .. q.memsz - 1 : mem'[q.dest + j] = Zero
        BY <4>1, <4>3, <4>5 DEF InPlace
      <4>7. QED
        BY <4>4, <4>6 DEF InPlace, q
    <3>3. QED
      BY <1>1, <3>1, <3>2 DEF KernelInv, SegmentInv, Copied
  <2>9. InitrdInv'
    BY <1>1, <1>4 DEF InitrdInv
  <2>10. QED
    BY <2>5, <2>6, <2>7, <2>8, <2>9 DEF KernelInv
<1>5. CASE UNCHANGED <<mem, initrd_base, initrd_len>>
  BY <1>1, <1>5, QuietStep DEF kernelVars
<1>6. ASSUME NEW n \in 0 .. all - 1, ReadInitrd(lba, n), UNCHANGED <<initrd_base, initrd_len>>
      PROVE  KernelInv'
  <2>1. ShortInitrdReported'
    BY <1>2, <1>6 DEF ShortInitrdReported, InitrdReported
  <2>2. PICK status \in Statuses : mem' = ata_read_lba28(lba + 1, n, INITRD_DEST, status)
    BY <1>6 DEF ReadInitrd
  <2>3. n \in 0 .. all /\ initrd_base' \in {0, INITRD_DEST} /\ initrd_len' \in Nat
    BY <1>2, <1>6 DEF KernelInv, KernelTyped
  <2> HIDE DEF lba, all
  <2>4. QED
    BY <1>4, <2>1, <2>2, <2>3
<1>7. ASSUME lba = InitrdLba(disk), ReadInitrd(lba, all),
             initrd_base' = INITRD_DEST, initrd_len' = disk.initrd
      PROVE  KernelInv'
  <2>1. PICK status \in Statuses : mem' = ata_read_lba28(lba + 1, all, INITRD_DEST, status)
    BY <1>7 DEF ReadInitrd
  <2>2. ASSUME all <= CHUNK
        PROVE  \A j \in 0 .. disk.initrd - 1 : mem'[INITRD_DEST + j] = (lba + 1) * SECTOR + j
    <3> TAKE j \in 0 .. disk.initrd - 1
    <3> DEFINE aS == all * SECTOR
               cS == CHUNK * SECTOR
               a == INITRD_DEST + j
    <3>1. aS \in Nat /\ cS \in Nat /\ aS <= cS /\ INITRD_DEST + cS <= TOP
      BY <1>2, <2>2, Times, Constants, BootAssumption
    <3>2. lba + 1 \in Nat /\ INITRD_DEST \in Nat
      BY <1>3, Constants
    <3>3. disk.initrd <= aS
      BY <1>2
    <3> HIDE DEF lba, all
    <3>4. \A b \in Memory : b \in INITRD_DEST .. INITRD_DEST + aS - 1 =>
            mem'[b] = (lba + 1) * SECTOR + (b - INITRD_DEST)
      BY <1>2, <2>1, <2>2, <3>2, ReadChunk
    <3> HIDE DEF aS, cS
    <3>5. a \in Memory /\ a \in INITRD_DEST .. INITRD_DEST + aS - 1 /\ a - INITRD_DEST = j
      BY <1>2, <3>1, <3>2, <3>3, Constants DEF Memory
    <3> HIDE DEF a
    <3>6. mem'[a] = (lba + 1) * SECTOR + j
      BY <3>4, <3>5
    <3>7. QED
      BY <3>6 DEF a
  <2>3. ShortInitrdReported'
    <3>1. InitrdLba(disk)' = lba /\ Sectors(disk.initrd)' = all /\ disk' = disk
      BY <1>1, <1>7 DEF InitrdLba, Sectors
    <3> HIDE DEF lba, all
    <3>2. QED
      BY <1>7, <2>2, <3>1 DEF ShortInitrdReported, InitrdReported
  <2>4. all \in 0 .. all
    BY <1>2
  <2> HIDE DEF lba, all
  <2>5. QED
    BY <1>2, <1>4, <1>7, <2>1, <2>3, <2>4
<1>8. \/ UNCHANGED <<mem, initrd_base, initrd_len>>
      \/ \E n \in 0 .. all - 1 : ReadInitrd(lba, n) /\ UNCHANGED <<initrd_base, initrd_len>>
      \/ /\ lba = InitrdLba(disk) /\ ReadInitrd(lba, all)
         /\ initrd_base' = INITRD_DEST /\ initrd_len' = disk.initrd
  BY Zenon DEF load_initrd
<1>9. QED
  BY <1>5, <1>6, <1>7, <1>8, Zenon

LEMMA KernelStep ==
  ASSUME KernelInv, [Next]_vars
  PROVE  KernelInv'
<1>1. UNCHANGED disk
  BY ConstantsKept
<1>2. CASE detect_memory \/ load_stage2 \/ load_memory_map \/ Rest \/ UNCHANGED vars
  <2>1. UNCHANGED <<mem, kernelVars, initrd_base, initrd_len>>
    BY <1>2 DEF detect_memory, load_stage2, load_memory_map, Rest, vars, kernelVars, infoVars
  <2>2. \/ UNCHANGED pc
        \/ /\ pc \in {"detect_memory", "load_stage2"}
           /\ pc' \in {"detect_memory", "load_stage2", "load_kernel", "disk_error"}
        \/ pc = "load_memory_map" /\ pc' = "kernel"
    BY <1>2 DEF detect_memory, load_stage2, load_memory_map, Rest, vars
  <2>3. QED
    BY <1>1, <2>1, <2>2, QuietStep
<1>3. CASE ReadHeaders
  BY <1>3, ReadMoreStep DEF ReadHeaders, infoVars
<1>4. CASE ReadSegments
  BY <1>4, ReadMoreStep DEF ReadSegments, infoVars
<1>5. CASE ph_done
  <2>1. ph = Len(disk.phdrs) + 1
    BY <1>5, TableTyped DEF ph_done, KernelInv, KernelTyped
  <2>2. QED
    BY <1>5, <2>1, QuietStep DEF ph_done, infoVars
<1>6. QED
  BY <1>2, <1>3, <1>4, <1>5, LoadKernelStep, ScanStep, LoadLoopStep, LoadInitrdStep DEF Next
-----------------------------------------------------------------------------
BootInv == TypeOK /\ MapInv /\ SectorsInv /\ BufferInv /\ SegmentInv /\ InitrdInv

LEMMA BootStep == BootInv /\ [Next]_vars => BootInv'
<1> SUFFICES ASSUME BootInv, [Next]_vars PROVE BootInv'
  OBVIOUS
<1>1. MapInv' /\ BiosTyped'
  BY MapStep DEF BootInv
<1>2. KernelInv
  BY DEF BootInv, KernelInv, KernelTyped, TypeOK
<1>3. KernelInv'
  BY <1>2, KernelStep
<1>4. bios' \in Bioses
  BY ConstantsKept DEF BootInv, TypeOK
<1>5. pc' \in {"detect_memory", "load_stage2", "disk_error", "load_kernel", "read_headers",
            "headers_ready", "read_segments", "load_loop", "load_initrd", "load_memory_map",
            "kernel", "load_fail"}
  BY DEF BootInv, TypeOK, Next, vars, detect_memory, load_stage2, load_kernel, ReadHeaders, ReadMore,
     Fail, scan_loop, ReadSegments, load_loop, ph_done, load_initrd, load_memory_map, Rest
<1>6. Len(memory_map') <= E820_MAX_ENTRIES
  BY <1>1, Constants DEF MapInv, BiosTyped
<1>7. TypeOK'
  BY <1>1, <1>3, <1>4, <1>5, <1>6 DEF TypeOK, BiosTyped, KernelInv, KernelTyped
<1>8. QED
  BY <1>1, <1>3, <1>7 DEF BootInv, KernelInv

LEMMA BootInvariant == Spec => []BootInv
<1>1. Init => BootInv
  BY InitHolds DEF BootInv
<1>2. QED
  BY <1>1, BootStep, PTL DEF Spec

(* The types of the loader's state: the table is never overrun by more     *)
(* than the one entry it has room for, and memory holds only bytes of the  *)
(* disk, zeros and what was there.                                         *)
THEOREM BootTyped == Spec => []TypeOK
<1>1. BootInv => TypeOK
  BY DEF BootInv
<1>2. QED
  BY <1>1, BootInvariant, PTL

(* On every disk, a kernel that is entered has its segments in place, when *)
(* they lie apart and its file is the first sectors and one chunk.         *)
THEOREM KernelInPlace == Spec => []KernelLoaded
<1>1. BootInv => KernelLoaded
  <2> SUFFICES ASSUME BootInv, pc = "kernel", SegmentsApart,
                      kernel_required_sectors <= INITIAL_KERNEL_SECTORS + CHUNK,
                      NEW i \in Loadable
               PROVE  InPlace(disk.phdrs[i])
    BY DEF KernelLoaded
  <2>1. ph = Len(disk.phdrs) + 1 /\ i \in 1 .. Len(disk.phdrs) /\ Len(disk.phdrs) \in Nat
    BY DiskFields DEF BootInv, TypeOK, SegmentInv, Copied, Loadable
  <2>2. i < ph
    BY <2>1
  <2>3. QED
    BY <2>2 DEF BootInv, SegmentInv
<1>2. QED
  BY <1>1, BootInvariant, PTL

(* An initrd of one chunk that boot_info reports is in memory, all of it   *)
(* and in order, on every disk.                                            *)
THEOREM ShortInitrdInPlace == Spec => []ShortInitrdReported
<1>1. BootInv => ShortInitrdReported
  BY DEF BootInv, InitrdInv
<1>2. QED
  BY <1>1, BootInvariant, PTL

(* The kernel's memory map is the BIOS's, up to the size of the table,     *)
(* however many entries there are and however the BIOS ends.               *)
THEOREM MemoryMapKept == Spec => []MemoryMapFaithful
<1>1. BootInv => MemoryMapFaithful
  BY DEF BootInv, MapInv, MemoryMapFaithful
<1>2. QED
  BY <1>1, BootInvariant, PTL
=============================================================================
