--------------------------- MODULE MCApplyAction ---------------------------
(* Three proposals around every boundary of the checks, with 25-bit words  *)
(* in place of 32-bit ones: a quantum is cut to the word, a trim is not.   *)
EXTENDS ApplyAction

MCActions ==
  [kind : {"SetQuantum"}, param1 : {99, 100, 50000, 50001, U32 + 200}]
    \cup [kind : {"TrimCache"}, param1 : {0, TrimLimit, TrimLimit + 1}]
    \cup [kind : {"Reboot"}, param1 : {0}]
=============================================================================
