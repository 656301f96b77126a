--------------------------- MODULE MCPolicySearch ---------------------------
(* Small machines: some on which nothing fits, some bounded by the memory   *)
(* of the GPU or of the CPU, some with room for all experts, one with room  *)
(* for micro-batches of 36; the slowest part is the copy of the experts,    *)
(* the attention or the MoE.                                                *)
EXTENDS PolicySearch

Machine(wi, gmem, cmem, attention, weights) ==
  [l |-> 4, wi |-> wi, w_other |-> 2, gmem |-> gmem, cmem |-> cmem,
   decode |-> 1, prefill |-> 1, buffer |-> 1, inter |-> 1, cache |-> 1,
   attention |-> attention, flops |-> 1, bytes |-> 1, weights |-> weights]

MCConfigs ==
  {Machine(3, g, c, a, w) : g \in {9, 20, 27, 40}, c \in {14, 25, 30, 45}, a \in {1, 2}, w \in {0, 3}}
    \cup {Machine(12, g, c, 1, 3) : g \in {30, 40, 60}, c \in {80, 100}}
    \cup {Machine(3, 125, 60, 1, 30)}
=============================================================================
