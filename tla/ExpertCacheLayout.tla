-------------------------- MODULE ExpertCacheLayout --------------------------
(***************************************************************************)
(* The rows of ExecutionContext.experts_cache.  The first                  *)
(* NumLayers * NumGpuExperts rows are persistent, NumGpuExperts of them    *)
(* per layer; the rest is two pages of NumExperts - NumGpuExperts rows     *)
(* that the layers share, even layers one page and odd layers the other.   *)
(* (The optimizer only yields policies with eg = num_local_experts, so a   *)
(* layer's remaining experts fill exactly one page.)                       *)
(***************************************************************************)
EXTENDS Integers

CONSTANTS
  NumLayers,       \* model_config.num_hidden_layers
  NumExperts,      \* model_config.num_local_experts
  NumGpuExperts    \* int(num_local_experts * policy.wg)

ASSUME LayoutAssumption ==
  /\ NumLayers \in Nat \ {0}
  /\ NumExperts \in Nat \ {0}
  /\ NumGpuExperts \in 0 .. NumExperts

Layers == 0 .. NumLayers - 1
Experts == 0 .. NumExperts - 1
Keys == Layers \X Experts       \* <<layer_id, expert_id>>

NoSlot == -1                    \* ExpertLocation.cache_slot of a CPU expert

PageSize == NumExperts - NumGpuExperts
CacheRows == NumLayers * NumGpuExperts + 2 * PageSize

PersistentRows == 0 .. NumLayers * NumGpuExperts - 1

\* The persistent rows of layer l.
LayerSlots(l) == (l * NumGpuExperts) .. (l * NumGpuExperts + NumGpuExperts - 1)

\* init_gpu_experts: the slot the tracker starts with, and the cache row the
\* mapping starts with (a persistent row or a row of the layer's page).
InitialSlot(k) ==
  IF k[2] < NumGpuExperts THEN k[1] * NumGpuExperts + k[2] ELSE NoSlot

PageRow(k) ==
  NumLayers * NumGpuExperts + (k[1] % 2) * PageSize + (k[2] - NumGpuExperts)

InitialRow(k) == IF k[2] < NumGpuExperts THEN InitialSlot(k) ELSE PageRow(k)
=============================================================================
