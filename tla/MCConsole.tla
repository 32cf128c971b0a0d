----------------------------- MODULE MCConsole -----------------------------
(* Messages and numbers for a screen of a few cells.                       *)
EXTENDS Console

MCBytes == {"a", LF, CR, SP}
MCTexts == {<<"a">>}
MCNumbers == {<<"a">>}
=============================================================================
