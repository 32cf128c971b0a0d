------------------------------ MODULE AiModel ------------------------------
(***************************************************************************)
(* The header of a model file and the layout of the weights after it       *)
(* (kernel/src/ai_model.rs).  Sums and products saturate in the code; no   *)
(* header makes them reach 2^64.                                           *)
(***************************************************************************)
EXTENDS Integers

(* A header; dtype 0 is int8, the only one with a layout.                  *)
ModelHeaders == [magic : BOOLEAN, n_layers : Nat, hidden : Nat, vocab : Nat, dtype : Nat]

SIZE == 16
PAYLOAD_OFFSET == 16

valid(h) == h.magic /\ h.n_layers >= 1 /\ h.hidden >= 1 /\ h.dtype \in {0, 1}

Layers(h) == 0 .. h.n_layers - 1
last_out(h) == IF h.vocab # 0 THEN h.vocab ELSE h.hidden

in_dim(h, l) == h.hidden
out_dim(h, l) == IF l + 1 = h.n_layers THEN last_out(h) ELSE h.hidden

(* Int8 weights, then an i32 bias for each output.                         *)
WeightBytes(h, l) == in_dim(h, l) * out_dim(h, l)
BiasBytes(h, l) == 4 * out_dim(h, l)
LayerBytes(h, l) == WeightBytes(h, l) + BiasBytes(h, l)

(* The bytes before each layer, counting from the end of the header, and   *)
(* in all.                                                                 *)
Offsets(h) ==
  LET offset[l \in 0 .. h.n_layers] ==
        IF l = 0 THEN 0 ELSE offset[l - 1] + LayerBytes(h, l - 1)
  IN  offset

compute(h) == Offsets(h)[h.n_layers]

(* Where the weights and the biases of a layer start, from the header on.  *)
layer_ptr_int8(h, l) == PAYLOAD_OFFSET + Offsets(h)[l]
bias_ptr_i32(h, l) == layer_ptr_int8(h, l) + WeightBytes(h, l)
=============================================================================
