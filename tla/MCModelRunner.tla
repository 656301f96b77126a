---------------------------- MODULE MCModelRunner ----------------------------
(***************************************************************************)
(* Two ranks that share out four query and two key heads, and the experts  *)
(* of two layers, for each class of model; and four ranks with more ranks  *)
(* than key heads, for two classes.                                        *)
(***************************************************************************)
EXTENDS ModelRunner

MCConfigs ==
  {[model |-> m, tp_size |-> 2, layers |-> 2, experts |-> 2, heads |-> 4, kv_heads |-> 2,
    head_size |-> 2, hidden |-> 3, intermediate |-> 4] : m \in Models}
  \union
  {[model |-> m, tp_size |-> 4, layers |-> 1, experts |-> 0, heads |-> 8, kv_heads |-> 2,
    head_size |-> 2, hidden |-> 3, intermediate |-> 4] : m \in {"mixtral", "phi"}}
=============================================================================
