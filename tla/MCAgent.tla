------------------------------ MODULE MCAgent ------------------------------
(* Archives of up to two files, with a trailer, cut short, or followed by  *)
(* something that is not a header; and one file for each kind of model     *)
(* header.                                                                 *)
EXTENDS Agent

MCBases == {"ai.mod", "notes"}
MCTRAILER == "TRAILER!!!"

(* The length of a name and its NUL.                                       *)
NameSize(name) ==
  (CASE name.base = "ai.mod" -> 7 [] name.base = "notes" -> 6 [] OTHER -> 11)
    + (IF name.dot THEN 2 ELSE 0)

File(dot, base, size) ==
  [magic |-> TRUE, namesize |-> NameSize(Name(dot, base)), filesize |-> size,
   name |-> Name(dot, base)]

Trailer == File(FALSE, MCTRAILER, 0)
Garbled == [File(FALSE, "notes", 0) EXCEPT !.filesize = BadHex]
Foreign == [File(FALSE, "notes", 0) EXCEPT !.magic = FALSE]
Overlong == [File(FALSE, "notes", 0) EXCEPT !.namesize = 500]

(* Where the i-th header of a sequence is.                                 *)
RECURSIVE Start(_, _)
Start(files, i) ==
  IF i = 1 THEN 0
  ELSE Align4(Align4(Start(files, i - 1) + HEADER + files[i - 1].namesize)
              + files[i - 1].filesize)

Archive(files, cut, model) ==
  [len |-> Start(files, Len(files) + 1) - cut,
   at |-> [off \in {Start(files, i) : i \in DOMAIN files} |->
             files[CHOOSE i \in DOMAIN files : Start(files, i) = off]],
   model |-> model]

Model(nl, hidden, vocab, dtype) ==
  [magic |-> TRUE, n_layers |-> nl, hidden |-> hidden, vocab |-> vocab, dtype |-> dtype]

Small == Model(2, 2, 3, 0)

Files == {File(FALSE, "notes", 5), File(FALSE, "ai.mod", 46), File(TRUE, "ai.mod", 18)}
Sequences(n) == [1 .. n -> Files]

MCArchives ==
  {Archive(Append(two, Trailer), 0, Small) : two \in Sequences(2)}
    \cup {Archive(Append(one, last), 0, Small) :
            one \in Sequences(1), last \in {Garbled, Foreign, Overlong}}
    \cup {Archive(files, cut, Small) :
            files \in Sequences(1) \cup Sequences(2), cut \in {1, 30}}
    \cup {Archive(<<File(FALSE, "ai.mod", size), Trailer>>, 0, model) :
            size \in {0, 16, 2000, 100000},
            model \in {Model(2, 2, 300, 0), Model(1, 300, 0, 0), Model(1, 1, 0, 1),
                       Model(1, 0, 0, 0)}}
    \cup {[len |-> 0, at |-> <<>>, model |-> Small]}

MCTaskFns == {"step", "other"}
MCFreeKbs == {0, 8192, 524288}
MCNeurons == {0, 127}
MCManyTicks == {2, 400}
MCSleeps == {0, 2}
=============================================================================
