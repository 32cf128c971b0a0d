------------------------------- MODULE MCXhci -------------------------------
(* The xHCI driver with one device, a short event ring that wraps, and     *)
(* rings of commands and transfers just long enough.                       *)
EXTENDS Xhci

MCNoEvent == [type |-> "none"]
=============================================================================
