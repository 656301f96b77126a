---------------------------- MODULE WeightLoading ----------------------------
(***************************************************************************)
(* Loading a checkpoint into the models (models/*-offload.py with the      *)
(* layers of layers/linear.py).  Every tensor-parallel rank reads the      *)
(* whole checkpoint at its own pace and keeps its part of each tensor:     *)
(* rows of the projections that produce heads, columns of the one that     *)
(* consumes them, and of every expert one page [w1, w3, w2].               *)
(*                                                                         *)
(* A parameter is a function from places to the elements they were copied  *)
(* from; embeddings, norms and biases are left out.                        *)
(***************************************************************************)
EXTENDS Integers, SequencesExt

CONSTANTS
  Configs     \* records: model, tp_size, layers, experts, heads, kv_heads,
              \* head_size, hidden, intermediate

Models == {"mixtral", "phi", "dbrx"}

\* The attention's assertions: key heads are dealt out, or each is to go to
\* several ranks.  phi's projections of keys and values deal out rows, and assert
\* no more than that the ranks divide them.
HeadsShared(c) ==
  /\ c.heads % c.tp_size = 0
  /\ IF c.kv_heads >= c.tp_size THEN c.kv_heads % c.tp_size = 0
                                ELSE c.tp_size % c.kv_heads = 0

MixtralHeads(c) == HeadsShared(c)
PhiHeads(c) == HeadsShared(c) /\ (c.kv_heads * c.head_size) % c.tp_size = 0
DbrxHeads(c) == HeadsShared(c)

ASSUME ConfigAssumption ==
  \A c \in Configs :
    /\ c.model \in Models
    /\ {c.tp_size, c.layers, c.heads, c.kv_heads, c.head_size, c.hidden, c.intermediate}
         \subseteq Nat \ {0}
    /\ c.experts \in Nat
    /\ c.heads % c.kv_heads = 0 /\ c.intermediate % c.tp_size = 0
    /\ c.model = "mixtral" => MixtralHeads(c)
    /\ c.model = "phi" => PhiHeads(c)
    /\ c.model = "dbrx" => DbrxHeads(c)

VARIABLES
  config,
  names,        \* hf_model_weights_iterator: the checkpoint's tensors in its order
  loaded,       \* how many each rank has loaded
  params        \* rank to place to the element it holds

loading_vars == <<config, names, loaded, params>>

Ranks == 0 .. config.tp_size - 1
LayersOf(c) == 0 .. c.layers - 1
ExpertsOf(c) == 0 .. c.experts - 1
head_size == config.head_size
hidden_size == config.hidden

-----------------------------------------------------------------------------
(* The checkpoint: tensors <<name, layer, expert>> *)

LayerTensors(c, l) ==
  IF c.model = "dbrx"
    THEN << <<"gate", l, 0>>, <<"Wqkv", l, 0>>, <<"o", l, 0>>,
            <<"w1", l, 0>>, <<"w3", l, 0>>, <<"w2", l, 0>> >>
    ELSE << <<"gate", l, 0>>, <<"q", l, 0>>, <<"k", l, 0>>, <<"v", l, 0>>, <<"o", l, 0>> >>
         \o FlattenSeq([e \in 1 .. c.experts |->
              << <<"w1", l, e - 1>>, <<"w2", l, e - 1>>, <<"w3", l, e - 1>> >>])

Checkpoint(c) == FlattenSeq([l \in 1 .. c.layers |-> LayerTensors(c, l - 1)])

LoadingInit ==
  /\ config \in Configs
  /\ names \in {Checkpoint(config), Reverse(Checkpoint(config))}
  /\ loaded = [r \in Ranks |-> 0]
  /\ params = [r \in Ranks |-> <<>>]

\* Copying elements to places of a parameter.
CopiedTo(param, shard) ==
  [place \in DOMAIN param \union DOMAIN shard |->
     IF place \in DOMAIN shard THEN shard[place] ELSE param[place]]

-----------------------------------------------------------------------------
(* QKVParallelLinear *)

num_heads == config.heads \div config.tp_size

num_kv_heads ==
  IF config.tp_size >= config.kv_heads THEN 1 ELSE config.kv_heads \div config.tp_size

\* Mutation: key heads are dealt out although there are fewer than ranks.
num_kv_head_replicas_mutant == 1

num_kv_head_replicas ==
  IF config.tp_size >= config.kv_heads THEN config.tp_size \div config.kv_heads ELSE 1

\* Part of the parameter and rows of the tensor for "q", "k" and "v".
shard_offset(id) ==
  CASE id = "q" -> 0
    [] id = "k" -> num_heads * head_size
    [] id = "v" -> (num_heads + num_kv_heads) * head_size
shard_size(id) == head_size * (IF id = "q" THEN num_heads ELSE num_kv_heads)
shard_id(r, id) == IF id = "q" THEN r ELSE r \div num_kv_head_replicas

\* Rows of tensor t from `first` on that shard id takes, `t` named id.
QKVShard(r, t, first) ==
  [place \in {<<"qkv", t[2], 0, shard_offset(t[1]) + x>> : x \in 0 .. shard_size(t[1]) - 1} |->
     <<t[1], t[2], 0, first + shard_id(r, t[1]) * shard_size(t[1]) + place[4] - shard_offset(t[1]), 0>>]

\* A packed tensor is cut in three first; the elements are named by the part.
PackedQKV(r, l) ==
  CopiedTo(CopiedTo(QKVShard(r, <<"q", l>>, 0), QKVShard(r, <<"k", l>>, 0)),
           QKVShard(r, <<"v", l>>, 0))

(* ColumnParallelLinear, phi's projections of their own *)
ColumnSize(name) == ((IF name = "q" THEN config.heads ELSE config.kv_heads) * head_size)
                      \div config.tp_size

ColumnShard(r, t) ==
  [place \in {<<t[1], t[2], 0, x>> : x \in 0 .. ColumnSize(t[1]) - 1} |->
     <<t[1], t[2], 0, r * ColumnSize(t[1]) + place[4], 0>>]

(* RowParallelLinear: columns of the output projection *)
RowSize == (config.heads * head_size) \div config.tp_size

RowShard(r, t) ==
  [place \in {<<"o", t[2], 0, x>> : x \in 0 .. RowSize - 1} |->
     <<"o", t[2], 0, 0, r * RowSize + place[4]>>]

(* StackedLinear *)
GateWeight(t) == [place \in {<<"gate", t[2], 0, 0>>} |-> <<"gate", t[2], 0, 0, 0>>]

-----------------------------------------------------------------------------
(* The experts' weight_loader: one page for each layer and expert *)

intermediate_size == config.intermediate \div config.tp_size
w3_offset == intermediate_size * hidden_size
w2_offset == 2 * intermediate_size * hidden_size

\* Places of a page, and the element (x of the shard, y of hidden) at each.
RowMajor(offset) ==
  [p \in offset .. offset + w3_offset - 1 |->
     <<(p - offset) \div hidden_size, (p - offset) % hidden_size>>]

\* Mutation: columns laid out as rows are.
ColumnMajor_mutant(offset) == RowMajor(offset)

ColumnMajor(offset) ==
  [p \in offset .. offset + w3_offset - 1 |->
     <<(p - offset) % intermediate_size, (p - offset) \div intermediate_size>>]

Page(r, name, l, e) ==
  LET at == CASE name = "w1" -> RowMajor(0)
              [] name = "w3" -> RowMajor(w3_offset)
              [] name = "w2" -> ColumnMajor(w2_offset)
  IN  [place \in {<<"ws", l, e, p>> : p \in DOMAIN at} |->
         LET xy == at[place[4]]
         IN  <<name, l, e, r * intermediate_size + xy[1], xy[2]>>]

MixtralMoE_weight_loader(r, t) == Page(r, t[1], t[2], t[3])
PhiMoE_weight_loader(r, t) == Page(r, t[1], t[2], t[3])

\* A tensor of dbrx holds all experts of its layer, and w2 is transposed.
DbrxExperts_weight_loader(r, t) ==
  [place \in UNION {DOMAIN Page(r, t[1], t[2], e) : e \in ExpertsOf(config)} |->
     Page(r, t[1], t[2], place[3])[place]]

-----------------------------------------------------------------------------
(* load_weights: which loader takes a tensor *)

Experts == {"w1", "w2", "w3"}

Mixtral_load_weights(r, t) ==
  CASE t[1] = "gate" -> GateWeight(t)
    [] t[1] \in {"q", "k", "v"} -> QKVShard(r, t, 0)
    [] t[1] \in Experts -> MixtralMoE_weight_loader(r, t)
    [] t[1] = "o" -> RowShard(r, t)

Phi_load_weights(r, t) ==
  CASE t[1] = "gate" -> GateWeight(t)
    [] t[1] \in {"q", "k", "v"} -> ColumnShard(r, t)
    [] t[1] \in Experts -> PhiMoE_weight_loader(r, t)
    [] t[1] = "o" -> RowShard(r, t)

Dbrx_load_weights(r, t) ==
  CASE t[1] = "gate" -> GateWeight(t)
    [] t[1] \in Experts -> DbrxExperts_weight_loader(r, t)
    [] t[1] = "Wqkv" -> PackedQKV(r, t[2])
    [] t[1] = "o" -> RowShard(r, t)

Stored(r, t) ==
  CASE config.model = "mixtral" -> Mixtral_load_weights(r, t)
    [] config.model = "phi" -> Phi_load_weights(r, t)
    [] config.model = "dbrx" -> Dbrx_load_weights(r, t)

LoadNext(r) ==
  /\ loaded[r] < Len(names)
  /\ params' = [params EXCEPT ![r] = CopiedTo(params[r], Stored(r, names[loaded[r] + 1]))]
  /\ loaded' = [loaded EXCEPT ![r] = loaded[r] + 1]
  /\ UNCHANGED <<config, names>>

AllLoaded == \A r \in Ranks : loaded[r] = Len(names)

-----------------------------------------------------------------------------
(* How the model reads its parameters *)

\* The attention's own counts of heads, by which it splits what QKVParallelLinear
\* returns (phi has the parts from projections of their own).
q_heads == config.heads \div config.tp_size
kv_heads == Max({1, config.kv_heads \div config.tp_size})

QElement(r, l, x) ==
  IF config.model = "phi" THEN params[r][<<"q", l, 0, x>>] ELSE params[r][<<"qkv", l, 0, x>>]
KVPlace(l, name, x) ==
  IF config.model = "phi"
    THEN <<name, l, 0, x>>
    ELSE <<"qkv", l, 0, (q_heads + (IF name = "k" THEN 0 ELSE kv_heads)) * head_size + x>>
KVElement(r, l, name, x) == params[r][KVPlace(l, name, x)]

\* Key head a local query head attends with: the kernels' kv_group_num.
LocalKVHead(h) == h \div (q_heads \div kv_heads)

-----------------------------------------------------------------------------
(* Properties *)

\* The projections leave every rank whole key heads: phi's do not when there are
\* fewer of them than ranks, though its constructor means to "replicate the KV
\* heads across multiple tensor parallel GPUs" (phimoe-offload.py:336).
WholeHeads == config.model = "phi" => config.kv_heads >= config.tp_size

\* On every rank, each query head it produces meets the columns of the output
\* projection that consume it and, where ranks have whole key heads, the keys and
\* values of the head that query belongs to; where they have not, the rank has
\* fewer rows than a head. Every query head is on one rank.
HeadsMeet ==
  AllLoaded =>
    \A r \in Ranks : \A l \in LayersOf(config) :
      \A h \in 0 .. q_heads - 1 : \A x \in 0 .. head_size - 1 :
        LET head == r * q_heads + h
            kv_head == head \div (config.heads \div config.kv_heads)
        IN  /\ QElement(r, l, h * head_size + x) = <<"q", l, 0, head * head_size + x, 0>>
            /\ \A name \in {"k", "v"} :
                 IF WholeHeads
                 THEN KVElement(r, l, name, LocalKVHead(h) * head_size + x)
                        = <<name, l, 0, kv_head * head_size + x, 0>>
                 ELSE KVPlace(l, name, head_size - 1) \notin DOMAIN params[r]
            /\ params[r][<<"o", l, 0, h * head_size + x>>]
                 = <<"o", l, 0, 0, head * head_size + x>>

\* A page of a rank holds w1, w3 and w2 of one layer's expert as the MoE
\* kernel views them, restricted to the same intermediate elements.
PagesMatch ==
  AllLoaded =>
    \A r \in Ranks : \A l \in LayersOf(config) : \A e \in ExpertsOf(config) :
      \A x \in 0 .. intermediate_size - 1 : \A y \in 0 .. hidden_size - 1 :
        LET element == r * intermediate_size + x
            At(place) == params[r][<<"ws", l, e, place>>]
        IN  /\ At(x * hidden_size + y) = <<"w1", l, e, element, y>>
            /\ At((intermediate_size + x) * hidden_size + y) = <<"w3", l, e, element, y>>
            /\ At(2 * hidden_size * intermediate_size + y * intermediate_size + x)
                 = <<"w2", l, e, element, y>>
=============================================================================
