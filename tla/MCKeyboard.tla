----------------------------- MODULE MCKeyboard -----------------------------
(* A ring of three slots, a line of one character, and one scancode of     *)
(* each kind handle_scancode distinguishes.                                *)
EXTENDS Keyboard

MCScancodes == {224,        \* extended prefix
                42, 182,    \* left shift down, right shift up
                29, 157,    \* ctrl down, up
                45, 174,    \* X down, C up
                14, 15, 28, \* backspace, tab, enter
                30, 158,    \* A down, up
                59}         \* F1, outside the maps
=============================================================================
