----------------------------- MODULE BootLoader -----------------------------
(***************************************************************************)
(* From power-on to the kernel: boot/boot.asm reads the memory map from    *)
(* the BIOS and loads the second stage; stage2/stage2.asm reads the kernel *)
(* file and the initrd from disk, copies the kernel's segments to their    *)
(* places, and fills in the boot information.  The Makefile lays the disk  *)
(* out.                                                                    *)
(*                                                                         *)
(* The byte at position p of the disk is written p; a byte of memory holds *)
(* such a position, Zero, or Old for what was there before.  Descriptor    *)
(* tables, page tables and the mode switches are left out.                 *)
(*                                                                         *)
(* An operator named X_Y after a comment that starts with "Fault:" is a    *)
(* deliberately wrong variant Y of X; no specification uses it.            *)
(***************************************************************************)
EXTENDS Integers, Sequences, FiniteSetsExt

CONSTANTS
  SECTOR,                  \* bytes: 512
  CHUNK,                   \* sectors read at once: 0x80
  INITIAL_KERNEL_SECTORS, MAX_KERNEL_SECTORS,   \* 64, 1024
  KERNEL_LBA,
  KERNEL_BUFFER, INITRD_DEST,                   \* addresses
  TOP,                     \* 2^32
  E820_MAX_ENTRIES,        \* 64
  Statuses,                \* what the disk's status register may show, no error
  Disks,                   \* the disk images
  Bioses                   \* what the BIOS answers: entries, and how it ends

Memory == 0 .. TOP - 1

(* A program header; every type but PT_LOAD is skipped.                    *)
ProgramHeaders == [type : {"load", "note"}, offset : Nat, filesz : Nat, memsz : Nat, dest : Nat]

(* Where a segment goes, and the buffer the kernel's file is read to.      *)
Place(p) == p.dest .. p.dest + p.memsz - 1
Buffer == KERNEL_BUFFER .. KERNEL_BUFFER + MAX_KERNEL_SECTORS * SECTOR - 1

(* The last condition is one that nothing in stage2.asm tests: no segment  *)
(* is copied over the buffer, where load_loop reads the program headers    *)
(* that are taken from the disk here.                                      *)
ASSUME BootAssumption ==
  /\ {SECTOR, CHUNK, INITRD_DEST} \subseteq Nat \ {0}
  /\ {KERNEL_LBA, KERNEL_BUFFER, TOP, MAX_KERNEL_SECTORS, E820_MAX_ENTRIES} \subseteq Nat
  /\ INITIAL_KERNEL_SECTORS \in 0 .. CHUNK /\ INITIAL_KERNEL_SECTORS <= MAX_KERNEL_SECTORS
  /\ KERNEL_BUFFER + MAX_KERNEL_SECTORS * SECTOR <= TOP
  /\ INITRD_DEST + CHUNK * SECTOR <= TOP
  /\ Statuses \subseteq Nat
  /\ Bioses \subseteq [entries : Nat, ends : {"zero", "error"}]
  /\ Disks \subseteq [magic : BOOLEAN, phoff : Nat, phentsize : Nat, phdrs : Seq(ProgramHeaders),
                      size : Nat, initrd : Nat]
  /\ \A d \in Disks : \A i \in 1 .. Len(d.phdrs) :
       d.phdrs[i].type = "load" => Place(d.phdrs[i]) \cap Buffer = {}

VARIABLES
  disk, bios,
  pc,
  e820, e820_count, di,    \* the memory map as boot.asm collects it
  mem,
  kernel_required_sectors, kernel_loaded_sectors,
  ph,                      \* the program header load_loop looks at
  initrd_base, initrd_len, \* of boot_info
  memory_map               \* of boot_info

vars == <<disk, bios, pc, e820, e820_count, di, mem, kernel_required_sectors,
          kernel_loaded_sectors, ph, initrd_base, initrd_len, memory_map>>
biosVars == <<e820, e820_count, di>>
kernelVars == <<kernel_required_sectors, kernel_loaded_sectors, ph>>
infoVars == <<initrd_base, initrd_len, memory_map>>

Zero == -1
Old == -2

(* (n + 511) >> 9                                                          *)
Sectors(n) == (n + SECTOR - 1) \div SECTOR

(* The Makefile writes the initrd's header into the sector after the whole *)
(* kernel file, and its data after that.                                   *)
InitrdLba(d) == KERNEL_LBA + Sectors(d.size)

(* The first sector of each chunk that ata_read_lba28 reads.  EAX counts   *)
(* the sectors, but AL is also where the status register is read to: the   *)
(* count goes on from the last status.                                     *)
ChunkStart(lba, chunks, status) ==
  LET start[c \in 0 .. chunks] ==
        IF c = 0 THEN lba
        ELSE start[c - 1] - (start[c - 1] % 256) + status + CHUNK
  IN  start

(* Memory after n sectors from lba were read to dest.                      *)
ata_read_lba28(lba, n, dest, status) ==
  LET start == ChunkStart(lba, n \div CHUNK, status)
      At(i) == LET s == i \div SECTOR IN
               (start[s \div CHUNK] + (s % CHUNK)) * SECTOR + (i % SECTOR)
  IN  [a \in Memory |-> IF a \in dest .. dest + (n * SECTOR) - 1 THEN At(a - dest)
                        ELSE mem[a]]

Init ==
  /\ disk \in Disks /\ bios \in Bioses
  /\ pc = "detect_memory"
  /\ e820 = [i \in 1 .. E820_MAX_ENTRIES + 1 |-> 0]
  /\ e820_count = 0 /\ di = 1
  /\ mem = [a \in Memory |-> Old]
  /\ kernel_required_sectors = 0 /\ kernel_loaded_sectors = 0
  /\ ph = 1
  /\ initrd_base = 0 /\ initrd_len = 0
  /\ memory_map = <<>>

(* Fault: the entry is counted before the BIOS has said that it is one.    *)
detect_memory_CountsFirst ==
  /\ pc = "detect_memory"
  /\ IF di > bios.entries \/ e820_count >= E820_MAX_ENTRIES
     THEN /\ pc' = "load_stage2"
          /\ e820_count' = IF e820_count < E820_MAX_ENTRIES THEN e820_count + 1
                           ELSE e820_count
          /\ UNCHANGED <<e820, di>>
     ELSE /\ e820' = [e820 EXCEPT ![di] = di]
          /\ e820_count' = e820_count + 1
          /\ di' = di + 1
          /\ UNCHANGED pc
  /\ UNCHANGED <<disk, bios, mem, kernelVars, infoVars>>

(* Fault: the number of entries is not tested.                             *)
detect_memory_Unbounded ==
  /\ pc = "detect_memory"
  /\ IF di > bios.entries
     THEN pc' = "load_stage2" /\ UNCHANGED biosVars
     ELSE /\ e820' = [e820 EXCEPT ![di] = di]
          /\ e820_count' = e820_count + 1
          /\ di' = di + 1
          /\ UNCHANGED pc
  /\ UNCHANGED <<disk, bios, mem, kernelVars, infoVars>>

(* One call of the BIOS.  It ends the map by a zero continuation with the  *)
(* last entry, or by an error after it.  The entry beyond the last that    *)
(* fits is written, and not counted.                                       *)
detect_memory ==
  /\ pc = "detect_memory"
  /\ IF di > bios.entries
     THEN pc' = "load_stage2" /\ UNCHANGED biosVars
     ELSE /\ e820' = [e820 EXCEPT ![di] = di]
          /\ IF e820_count >= E820_MAX_ENTRIES
             THEN pc' = "load_stage2" /\ UNCHANGED <<e820_count, di>>
             ELSE /\ e820_count' = e820_count + 1
                  /\ IF di = bios.entries /\ bios.ends = "zero"
                     THEN pc' = "load_stage2" /\ UNCHANGED di
                     ELSE di' = di + 1 /\ UNCHANGED pc
  /\ UNCHANGED <<disk, bios, mem, kernelVars, infoVars>>

load_stage2 ==
  /\ pc = "load_stage2"
  /\ pc' \in {"load_kernel", "disk_error"}
  /\ UNCHANGED <<disk, bios, biosVars, mem, kernelVars, infoVars>>
-----------------------------------------------------------------------------
(* load_kernel.                                                            *)

Fail == pc' = "load_fail" /\ UNCHANGED <<mem, kernelVars>>

TableEnd == disk.phoff + disk.phentsize * Len(disk.phdrs)

Loadable == {i \in 1 .. Len(disk.phdrs) : disk.phdrs[i].type = "load"}

(* The first sectors; the ELF header and the place of the program headers. *)
load_kernel ==
  /\ pc = "load_kernel"
  /\ \/ Fail
     \/ \E status \in Statuses :
          /\ disk.magic
          /\ disk.phentsize > 0 /\ disk.phdrs # <<>>
          /\ TableEnd < TOP
          /\ mem' = ata_read_lba28(KERNEL_LBA, INITIAL_KERNEL_SECTORS, KERNEL_BUFFER, status)
          /\ kernel_loaded_sectors' = INITIAL_KERNEL_SECTORS
          /\ kernel_required_sectors' = Sectors(TableEnd)
          /\ pc' = "read_headers"
          /\ UNCHANGED ph
  /\ UNCHANGED <<disk, bios, biosVars, infoVars>>

(* Read what is still missing of the sectors required.                     *)
ReadMore(next) ==
  \/ /\ kernel_loaded_sectors >= kernel_required_sectors
     /\ pc' = next
     /\ UNCHANGED <<mem, kernelVars>>
  \/ /\ kernel_loaded_sectors < kernel_required_sectors
     /\ \/ Fail
        \/ \E status \in Statuses :
             /\ mem' = ata_read_lba28(KERNEL_LBA + kernel_loaded_sectors,
                                      kernel_required_sectors - kernel_loaded_sectors,
                                      KERNEL_BUFFER + kernel_loaded_sectors * SECTOR, status)
             /\ kernel_loaded_sectors' = kernel_required_sectors
             /\ pc' = next
             /\ UNCHANGED <<kernel_required_sectors, ph>>

ReadHeaders ==
  /\ pc = "read_headers"
  /\ ReadMore("headers_ready")
  /\ UNCHANGED <<disk, bios, biosVars, infoVars>>

(* Fault: a last sector that is not full is not counted.                   *)
scan_loop_RoundsDown ==
  /\ pc = "headers_ready"
  /\ LET Ends == {disk.phdrs[i].offset + disk.phdrs[i].filesz : i \in Loadable}
         file_end == Max(Ends \cup {TableEnd})
     IN  IF (\E e \in Ends : e >= TOP) \/ file_end \div SECTOR > MAX_KERNEL_SECTORS
         THEN Fail
         ELSE /\ kernel_required_sectors' = file_end \div SECTOR
              /\ pc' = "read_segments"
              /\ UNCHANGED <<mem, kernel_loaded_sectors, ph>>
  /\ UNCHANGED <<disk, bios, biosVars, infoVars>>

(* How far the file's segments and its program headers reach.              *)
scan_loop ==
  /\ pc = "headers_ready"
  /\ LET Ends == {disk.phdrs[i].offset + disk.phdrs[i].filesz : i \in Loadable}
         file_end == Max(Ends \cup {TableEnd})
     IN  IF (\E e \in Ends : e >= TOP) \/ Sectors(file_end) > MAX_KERNEL_SECTORS
         THEN Fail
         ELSE /\ kernel_required_sectors' = Sectors(file_end)
              /\ pc' = "read_segments"
              /\ UNCHANGED <<mem, kernel_loaded_sectors, ph>>
  /\ UNCHANGED <<disk, bios, biosVars, infoVars>>

ReadSegments ==
  /\ pc = "read_segments"
  /\ ReadMore("load_loop")
  /\ UNCHANGED <<disk, bios, biosVars, infoVars>>

(* One program header: its bytes are copied, the rest of it is cleared.    *)
load_loop ==
  /\ pc = "load_loop" /\ ph <= Len(disk.phdrs)
  /\ LET p == disk.phdrs[ph] IN
     IF p.type # "load"
     THEN ph' = ph + 1 /\ UNCHANGED <<pc, mem, kernel_required_sectors, kernel_loaded_sectors>>
     ELSE IF p.memsz < p.filesz \/ p.dest + p.memsz >= TOP
     THEN Fail
     ELSE /\ mem' = [a \in Memory |->
                       IF a \in p.dest .. p.dest + p.filesz - 1
                       THEN mem[KERNEL_BUFFER + p.offset + (a - p.dest)]
                       ELSE IF a \in p.dest + p.filesz .. p.dest + p.memsz - 1 THEN Zero
                       ELSE mem[a]]
          /\ ph' = ph + 1
          /\ UNCHANGED <<pc, kernel_required_sectors, kernel_loaded_sectors>>
  /\ UNCHANGED <<disk, bios, biosVars, infoVars>>

ph_done ==
  /\ pc = "load_loop" /\ ph > Len(disk.phdrs)
  /\ pc' = "load_initrd"
  /\ UNCHANGED <<disk, bios, biosVars, mem, kernelVars, infoVars>>
-----------------------------------------------------------------------------
(* The sectors of the initrd that were read: all, or those before an error. *)
ReadInitrd(lba, n) ==
  \E status \in Statuses : mem' = ata_read_lba28(lba + 1, n, INITRD_DEST, status)

(* Fault: a failed read of the data goes unnoticed.                        *)
load_initrd_NoCarry ==
  /\ pc = "load_initrd"
  /\ pc' = "load_memory_map"
  /\ LET lba == KERNEL_LBA + kernel_required_sectors IN
     \/ UNCHANGED <<mem, initrd_base, initrd_len>>
     \/ /\ lba = InitrdLba(disk) /\ disk.initrd > 0
        /\ \E n \in 0 .. Sectors(disk.initrd) : ReadInitrd(lba, n)
        /\ initrd_base' = INITRD_DEST
        /\ initrd_len' = disk.initrd
  /\ UNCHANGED <<disk, bios, biosVars, kernelVars, memory_map>>

(* The initrd is looked for after the sectors the kernel required.  A      *)
(* header that cannot be read or is not one, and an error in the data,     *)
(* leave boot_info without an initrd.                                      *)
load_initrd ==
  /\ pc = "load_initrd"
  /\ pc' = "load_memory_map"
  /\ LET lba == KERNEL_LBA + kernel_required_sectors
         found == lba = InitrdLba(disk) /\ disk.initrd > 0
     IN  \/ UNCHANGED <<mem, initrd_base, initrd_len>>
         \/ /\ found
            /\ \E n \in 0 .. Sectors(disk.initrd) - 1 : ReadInitrd(lba, n)
            /\ UNCHANGED <<initrd_base, initrd_len>>
         \/ /\ found
            /\ ReadInitrd(lba, Sectors(disk.initrd))
            /\ initrd_base' = INITRD_DEST
            /\ initrd_len' = disk.initrd
  /\ UNCHANGED <<disk, bios, biosVars, kernelVars, memory_map>>

(* Clamped once more, and copied; then the kernel's entry point.           *)
load_memory_map ==
  /\ pc = "load_memory_map"
  /\ LET n == IF e820_count <= E820_MAX_ENTRIES THEN e820_count ELSE E820_MAX_ENTRIES
     IN  memory_map' = [i \in 1 .. n |-> e820[i]]
  /\ pc' = "kernel"
  /\ UNCHANGED <<disk, bios, biosVars, mem, kernelVars, initrd_base, initrd_len>>

(* The kernel has the machine, or nothing has: hlt in a loop.              *)
Rest == pc \in {"kernel", "load_fail", "disk_error"} /\ UNCHANGED vars

Next ==
  \/ detect_memory \/ load_stage2
  \/ load_kernel \/ ReadHeaders \/ scan_loop \/ ReadSegments \/ load_loop \/ ph_done
  \/ load_initrd \/ load_memory_map \/ Rest

Spec == Init /\ [][Next]_vars
-----------------------------------------------------------------------------
TypeOK ==
  /\ disk \in Disks /\ bios \in Bioses
  /\ pc \in {"detect_memory", "load_stage2", "disk_error", "load_kernel", "read_headers",
            "headers_ready", "read_segments", "load_loop", "load_initrd", "load_memory_map",
            "kernel", "load_fail"}
  /\ e820 \in [1 .. E820_MAX_ENTRIES + 1 -> 0 .. E820_MAX_ENTRIES + 1]
  /\ e820_count \in 0 .. E820_MAX_ENTRIES /\ di \in 1 .. E820_MAX_ENTRIES + 1
  /\ mem \in [Memory -> Nat \cup {Zero, Old}]
  /\ kernel_required_sectors \in Nat /\ kernel_loaded_sectors \in Nat
  /\ ph \in 1 .. Len(disk.phdrs) + 1
  /\ initrd_base \in {0, INITRD_DEST} /\ initrd_len \in Nat
  /\ Len(memory_map) <= E820_MAX_ENTRIES

(* The segments lie apart from each other and from the initrd.             *)
SegmentsApart ==
  \A i \in Loadable :
    /\ \A j \in Loadable \ {i} : Place(disk.phdrs[i]) \cap Place(disk.phdrs[j]) = {}
    /\ Place(disk.phdrs[i]) \cap (INITRD_DEST .. INITRD_DEST + Sectors(disk.initrd) * SECTOR - 1) = {}

InPlace(p) ==
  /\ \A j \in 0 .. p.filesz - 1 : mem[p.dest + j] = KERNEL_LBA * SECTOR + p.offset + j
  /\ \A j \in p.filesz .. p.memsz - 1 : mem[p.dest + j] = Zero

(* The kernel starts on its own image: when load_kernel has returned and   *)
(* the kernel is entered, every loadable segment is in its place, its      *)
(* bytes those of the file and the rest zero (stage2.asm, load_loop).      *)
(* That is so when the segments lie apart and what remains after the first *)
(* sectors is one chunk of ata_read_lba28.                                 *)
KernelLoaded ==
  /\ pc = "kernel"
  /\ kernel_required_sectors <= INITIAL_KERNEL_SECTORS + CHUNK
  /\ SegmentsApart
  => \A i \in Loadable : InPlace(disk.phdrs[i])

(* An initrd that load_initrd reports in boot_info is in memory, all of it *)
(* and in order.                                                           *)
InitrdReported ==
  initrd_base # 0 =>
    /\ initrd_len = disk.initrd
    /\ \A j \in 0 .. initrd_len - 1 :
         mem[initrd_base + j] = (InitrdLba(disk) + 1) * SECTOR + j

(* The same of an initrd that is one chunk of ata_read_lba28.              *)
ShortInitrdReported == Sectors(disk.initrd) <= CHUNK => InitrdReported

(* The kernel gets the memory map the BIOS gave, entry by entry, cut off   *)
(* only where the table ends, however the BIOS marks the end               *)
(* (boot.asm, detect_memory; stage2.asm, load_memory_map).                 *)
MemoryMapFaithful ==
  pc = "kernel" =>
    memory_map = [i \in 1 .. Min({bios.entries, E820_MAX_ENTRIES}) |-> i]
=============================================================================
