---------------------------- MODULE MCBootLoader ----------------------------
(* Small disks for BootLoader: sectors of two bytes, a program header of   *)
(* one byte, segments that lie below the buffer, some over each other.     *)
EXTENDS BootLoader

Load(offset, filesz, memsz, dest) ==
  [type |-> "load", offset |-> offset, filesz |-> filesz, memsz |-> memsz, dest |-> dest]

Note == [type |-> "note", offset |-> 0, filesz |-> 1, memsz |-> 1, dest |-> 0]

Elf(phoff, phdrs, size, initrd) ==
  [magic |-> TRUE, phoff |-> phoff, phentsize |-> 1, phdrs |-> phdrs, size |-> size,
   initrd |-> initrd]

First == {Load(o, f, m, 0) : o \in {0, 3}, f \in {0, 1, 4}, m \in {2, 4}} \cup {Note}
Second == {Load(o, f, 3, 4) : o \in {2, 6, 9}, f \in {0, 3}}

End(p) == p.offset + p.filesz

(* Files that end with their last segment, and files that go on after it   *)
(* (section headers).                                                      *)
Whole ==
  {d \in {Elf(h, <<p, q>>, n, i) : h \in {1, 3}, p \in First, q \in Second,
                                  n \in {7, 10, 12}, i \in {0, 1, 5}} :
     \A k \in 1 .. 2 : End(d.phdrs[k]) <= d.size}

(* Files that load_kernel refuses.                                         *)
Refused ==
  {[Elf(1, <<Note>>, 4, 0) EXCEPT !.magic = FALSE],
   [Elf(1, <<Note>>, 4, 0) EXCEPT !.phentsize = 0],
   Elf(1, <<>>, 4, 0), Elf(TOP, <<Note>>, 4, 0),
   Elf(1, <<Load(TOP - 1, 1, 1, 0)>>, 4, 0), Elf(1, <<Load(10, 1, 1, 0)>>, 11, 0),
   Elf(1, <<Load(0, 2, 1, 0)>>, 4, 0), Elf(1, <<Load(0, 1, 2, TOP - 2)>>, 4, 0)}

(* Segments that lie over each other, or where the initrd goes.            *)
Overlapping ==
  {Elf(1, <<Load(0, 4, 4, 0), Load(2, 3, 3, p)>>, 7, 5) : p \in {2, INITRD_DEST + 4}}

MCDisks == Whole \cup Refused \cup Overlapping

MCBioses == {[entries |-> 3, ends |-> "zero"]}

MCAllBioses == [entries : {0, 2, 4}, ends : {"zero", "error"}]

(* Disks whose initrd is longer than one chunk.                            *)
MCLongInitrds == {Elf(1, <<Load(3, 4, 4, 0)>>, 7, 8)}
=============================================================================
