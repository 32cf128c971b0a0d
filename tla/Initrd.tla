------------------------------- MODULE Initrd -------------------------------
(***************************************************************************)
(* The initial RAM disk, a cpio archive in the "newc" format, and the two  *)
(* parsers that walk it: cpio_find of kernel/src/ai_initrd.rs, with which  *)
(* kernel_main looks for the model at boot, and for_each of                *)
(* kernel/src/ramfs.rs, which the shell's ls, cat and hexdump use later.   *)
(* A walk takes one step per header it looks at.                           *)
(*                                                                         *)
(* An operator named X_Y after a comment that starts with "Fault:" is a    *)
(* deliberately wrong variant Y of X; no specification uses it.            *)
(***************************************************************************)
EXTENDS Integers, Sequences

CONSTANTS
  Archives,   \* the contents of the RAM disk: records [len, at, model]
  Bases,      \* file names without a leading "./"
  TRAILER     \* the base of the name that ends an archive, "TRAILER!!!"

HEADER == 110

(* A name, with or without a leading "./".                                 *)
Name(dot, base) == [dot |-> dot, base |-> base]
Names == [dot : BOOLEAN, base : Bases \cup {TRAILER}]

(* A header: whether its magic is right, its two size fields (BadHex when  *)
(* a character of the field is not a digit), and the name after it.        *)
BadHex == -1
Headers == [magic : BOOLEAN, namesize : Nat \cup {BadHex}, filesize : Nat \cup {BadHex},
            name : Names]

(* What the walks look at: "at" tells the header that starts at an offset, *)
(* and elsewhere the magic is wrong.                                       *)
ASSUME InitrdAssumption ==
  /\ TRAILER \notin Bases
  /\ \A r \in Archives :
       /\ r.len \in Nat
       /\ DOMAIN r.at \subseteq Nat
       /\ \A off \in DOMAIN r.at : r.at[off] \in Headers

VARIABLES
  archive,    \* the RAM disk; nothing writes to it
  finder,     \* the walk of cpio_find
  lister      \* the walk of for_each, with the closure of find

initrdVars == <<archive, finder, lister>>

NoData == -1

(* "path" and "seen" are the offsets of the headers that cpio_find has     *)
(* passed over and of those that for_each has handed to its closure.       *)
NoFind == [state |-> "idle", off |-> 0, path |-> <<>>, want |-> TRAILER, found |-> NoData]
NoList == [state |-> "idle", off |-> 0, seen |-> <<>>, want |-> TRAILER, out |-> NoData]

Align4(n) == ((n + 3) \div 4) * 4

(* Of the archive r, the header at an offset, where the data after it      *)
(* starts and ends, and where the next header should be.                   *)
At(r, off) == r.at[off]
DataOff(r, off) == Align4(off + HEADER + At(r, off).namesize)
DataEnd(r, off) == DataOff(r, off) + At(r, off).filesize
Following(r, off) == Align4(DataEnd(r, off))

(* Both walks stop unless there is room for a header, a header, sizes that *)
(* are numbers and a name that fits, which is not the trailer's.           *)
HasEntry(r, off) ==
  /\ off + HEADER <= r.len
  /\ off \in DOMAIN r.at
  /\ At(r, off).magic
  /\ BadHex \notin {At(r, off).namesize, At(r, off).filesize}
  /\ off + HEADER + At(r, off).namesize <= r.len
  /\ At(r, off).name # Name(FALSE, TRAILER)

IsWhole(r, off) == DataEnd(r, off) <= r.len

(* The names under which cpio_find knows a file.                           *)
Aliases(want) == {Name(FALSE, want), Name(TRUE, want)}
Matches(r, off, want) == At(r, off).name \in Aliases(want)
-----------------------------------------------------------------------------
cpio_find(want) ==
  /\ finder.state = "idle"
  /\ finder' = [NoFind EXCEPT !.state = "walking", !.want = want]
  /\ UNCHANGED <<archive, lister>>

FindEnds ==
  /\ finder.state = "walking"
  /\ ~HasEntry(archive, finder.off)
  /\ finder' = [finder EXCEPT !.state = "done"]
  /\ UNCHANGED <<archive, lister>>

FindMatches ==
  /\ finder.state = "walking"
  /\ HasEntry(archive, finder.off) /\ Matches(archive, finder.off, finder.want)
  /\ finder' = [finder EXCEPT !.state = "done",
                              !.found = IF IsWhole(archive, finder.off) THEN DataOff(archive, finder.off)
                                        ELSE NoData]
  /\ UNCHANGED <<archive, lister>>

(* Fault: the next header is looked for right after the data.              *)
FindSkips_Unaligned ==
  /\ finder.state = "walking"
  /\ HasEntry(archive, finder.off) /\ ~Matches(archive, finder.off, finder.want)
  /\ finder' = [finder EXCEPT !.path = Append(@, finder.off), !.off = DataEnd(archive, finder.off)]
  /\ UNCHANGED <<archive, lister>>

FindSkips ==
  /\ finder.state = "walking"
  /\ HasEntry(archive, finder.off) /\ ~Matches(archive, finder.off, finder.want)
  /\ finder' = [finder EXCEPT !.path = Append(@, finder.off), !.off = Following(archive, finder.off)]
  /\ UNCHANGED <<archive, lister>>

FindStep == FindEnds \/ FindMatches \/ FindSkips
-----------------------------------------------------------------------------
(* for_each, on behalf of find(want).                                      *)
for_each(want) ==
  /\ lister.state # "walking"
  /\ lister' = [NoList EXCEPT !.state = "walking", !.want = want]
  /\ UNCHANGED <<archive, finder>>

ListEnds ==
  /\ lister.state = "walking"
  /\ ~(HasEntry(archive, lister.off) /\ IsWhole(archive, lister.off))
  /\ lister' = [lister EXCEPT !.state = "done"]
  /\ UNCHANGED <<archive, finder>>

(* The closure keeps the first entry of exactly the name it looks for.     *)
ListEntry ==
  /\ lister.state = "walking"
  /\ HasEntry(archive, lister.off) /\ IsWhole(archive, lister.off)
  /\ lister' = [lister EXCEPT
                  !.seen = Append(@, lister.off),
                  !.out = IF @ = NoData /\ At(archive, lister.off).name = Name(FALSE, lister.want)
                          THEN DataOff(archive, lister.off) ELSE @,
                  !.off = Following(archive, lister.off)]
  /\ UNCHANGED <<archive, finder>>

ListStep == ListEnds \/ ListEntry

(* The caller has used what the walk returned.                             *)
Forget ==
  /\ lister.state = "done"
  /\ lister' = NoList
  /\ UNCHANGED <<archive, finder>>
-----------------------------------------------------------------------------
InitrdInit ==
  /\ archive \in Archives
  /\ finder = NoFind
  /\ lister = NoList

(* The walks on their own, in any order and interleaving.                  *)
InitrdNext ==
  \/ \E want \in Bases : cpio_find(want) \/ for_each(want)
  \/ FindStep \/ ListStep \/ Forget

InitrdSpec == InitrdInit /\ [][InitrdNext]_initrdVars
-----------------------------------------------------------------------------
(* What a search through a listing of r for some names should return: the  *)
(* data of the first entry that has one of them.                           *)
FirstOf(r, seen, names, data) ==
  \/ /\ data = NoData
     /\ \A i \in 1 .. Len(seen) : At(r, seen[i]).name \notin names
  \/ \E i \in 1 .. Len(seen) :
        /\ At(r, seen[i]).name \in names
        /\ \A j \in 1 .. i - 1 : At(r, seen[j]).name \notin names
        /\ data = DataOff(r, seen[i])

(* The two parsers agree: what the agent found at boot is the first file   *)
(* of that name, with or without a leading "./", that the shell lists, and *)
(* nothing if it lists none; and cat and hexdump open the first file of    *)
(* exactly the name they are given (cpio_find, for_each, find).            *)
WalksAgree ==
  lister.state = "done" =>
    /\ FirstOf(archive, lister.seen, {Name(FALSE, lister.want)}, lister.out)
    /\ finder.state = "done" =>
         FirstOf(archive, lister.seen, Aliases(finder.want), finder.found)
-----------------------------------------------------------------------------
(* A walk: the offsets it has passed and, last, the one it is at.  Each is *)
(* where the one before says that the next header is.                      *)
Trail(passed, off) == Append(passed, off)
IsTrail(r, trail) ==
  /\ trail[1] = 0
  /\ \A i \in 1 .. Len(trail) - 1 : trail[i + 1] = Following(r, trail[i])

Agree(s, t) == \A i \in 1 .. Len(s) : i <= Len(t) => s[i] = t[i]

FinderInv ==
  /\ finder \in [state : {"idle", "walking", "done"}, off : Nat, path : Seq(Nat),
                 want : Bases \cup {TRAILER}, found : Nat \cup {NoData}]
  /\ finder.state = "idle" => finder = NoFind
  /\ \A i \in 1 .. Len(finder.path) :
       /\ HasEntry(archive, finder.path[i])
       /\ ~Matches(archive, finder.path[i], finder.want)
  /\ finder.state = "done" /\ HasEntry(archive, finder.off) =>
       Matches(archive, finder.off, finder.want)
  /\ finder.found =
       IF /\ finder.state = "done"
          /\ HasEntry(archive, finder.off) /\ IsWhole(archive, finder.off)
       THEN DataOff(archive, finder.off) ELSE NoData

ListerInv ==
  /\ lister \in [state : {"idle", "walking", "done"}, off : Nat, seen : Seq(Nat),
                 want : Bases \cup {TRAILER}, out : Nat \cup {NoData}]
  /\ \A i \in 1 .. Len(lister.seen) :
       HasEntry(archive, lister.seen[i]) /\ IsWhole(archive, lister.seen[i])
  /\ lister.state = "done" => ~(HasEntry(archive, lister.off) /\ IsWhole(archive, lister.off))
  /\ FirstOf(archive, lister.seen, {Name(FALSE, lister.want)}, lister.out)

(* The walks visit the same offsets as far as both have come.              *)
WalkInv ==
  /\ archive \in Archives /\ FinderInv /\ ListerInv
  /\ IsTrail(archive, Trail(finder.path, finder.off))
  /\ IsTrail(archive, Trail(lister.seen, lister.off))
  /\ Agree(Trail(finder.path, finder.off), Trail(lister.seen, lister.off))
=============================================================================
