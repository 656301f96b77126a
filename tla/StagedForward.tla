---------------------------- MODULE StagedForward ----------------------------
(***************************************************************************)
(* One micro-batch through the model's layers, as the engine calls them:   *)
(* a prefill layer in one piece (ALL), a decode layer in three (PREATTN on *)
(* the GPU, CPU_ATTN on the host, POSTATTN on the GPU) with the partial    *)
(* results kept in the batch and in pinned buffers between the calls.      *)
(*                                                                         *)
(* Tensors are symbolic: a hidden state is the set of terms it is the sum  *)
(* of, each term naming the layer and the values it was computed from.     *)
(* The prompt is one token at row 0 of the batch's part of the KV pool.    *)
(***************************************************************************)
EXTENDS Integers, Sequences

CONSTANTS
  Layers,          \* num_hidden_layers
  DecodeSteps      \* bound: tokens decoded after the prompt's

ASSUME ForwardAssumption == Layers \in Nat \ {0} /\ DecodeSteps \in Nat

VARIABLES
  class,           \* the model's class
  layer,           \* being computed
  stage,           \* the call that is next
  input_ids, seq_lens, decode_out_cache_loc,        \* the batch's: the number
                                                    \* of the token, rows
  hidden_states, residual, qkv,
  qkv_pin, hidden_pin,                              \* the engine's
  kv,              \* layer to row to the keys and values stored there
  logits           \* of every token

tokens == <<input_ids, seq_lens, decode_out_cache_loc>>
forward_vars == <<class, layer, stage, tokens, hidden_states, residual, qkv,
                  qkv_pin, hidden_pin, kv, logits>>

None == {<<"none", 0, {}>>}
Rows == 0 .. DecodeSteps

ForwardInit(model) ==
  /\ class = model
  /\ layer = 0 /\ stage = "prefill"
  /\ input_ids = 0 /\ seq_lens = 1 /\ decode_out_cache_loc = 0
  /\ hidden_states = None /\ residual = None /\ qkv = None
  /\ qkv_pin = None /\ hidden_pin = None
  /\ kv = [l \in 0 .. Layers - 1 |-> [row \in Rows |-> None]]
  /\ logits = <<>>

-----------------------------------------------------------------------------
(* Values *)

Embedding(t) == {<<"embed", t, {}>>}
Norm(l, name, x) == {<<name, l, x>>}
OProj(l, x) == {<<"o", l, x>>}
LMHead(x) == {<<"lm_head", Layers, x>>}
MoE(l, x) == {<<"moe", l, x>>}

\* A term that is there twice would count twice.
Plus(x, y) == IF x \intersect y = {} THEN x \union y ELSE {<<"twice", 0, {}>>}

\* The projections, rotated by the token's position: one matrix, three, or one
\* with its result clipped.
QKV(model, l, x, position) ==
  {<<"position", position, {}>>} \union
    CASE model = "mixtral" -> {<<"qkv", l, x>>}
      [] model = "phi" -> {<<name, l, x>> : name \in {"q", "k", "v"}}
      [] model = "dbrx" -> {<<"clip", l, {<<"qkv", l, x>>}>>}

\* Attention of a query over stored keys and values, by their rows.
Attended(l, q, keys) == {<<"attn", l, {<<"q", l, q>>, <<"kv", l, keys>>}>>}
Pool(l, store) == {<<row, store[l][row]>> : row \in 0 .. seq_lens - 1}

\* InputMetadata's positions for the part of a call.
positions == IF stage = "prefill" THEN 0 ELSE seq_lens - 1

-----------------------------------------------------------------------------
(* layers/attention.py *)

\* store_kv_cache and store_kv_cache_cpu: where a token's key and value go.
store_kv_cache(l, q) == [kv EXCEPT ![l][0] = q]
store_kv_cache_cpu(l, q) == [kv EXCEPT ![l][decode_out_cache_loc] = q]

\* A prompt's attention is over the projections at hand, a decoded token's over
\* the pool, its own key included.
prefill_forward(l, q) == Attended(l, q, {<<0, q>>})
cpu_decode_forward_cpp(l) == Attended(l, qkv_pin, Pool(l, store_kv_cache_cpu(l, qkv_pin)))

-----------------------------------------------------------------------------
(* The models' forward, by the part of it a call runs.  A result is the    *)
(* hidden states (or qkv, or the attention's output) and the residual.     *)

Out(h, r) == [hidden |-> h, residual |-> r]

Before(part) == part \in {"ALL", "PREATTN"}
After(part) == part \in {"ALL", "POSTATTN"}

\* attention.forward, with q the projection of x.
Staged(l, part, x, q) ==
  CASE part = "PREATTN"  -> q
    [] part = "CPU_ATTN" -> cpu_decode_forward_cpp(l)
    [] part = "POSTATTN" -> OProj(l, x)
    [] part = "ALL"      -> OProj(l, prefill_forward(l, q))

MixtralAttention(l, part, x) == Staged(l, part, x, QKV("mixtral", l, x, positions))
PhiAttention(l, part, x) == Staged(l, part, x, QKV("phi", l, x, positions))
DbrxAttention(l, part, x) == Staged(l, part, x, QKV("dbrx", l, x, positions))

\* With a residual the sum is normed, and is the new residual (RMSNorm, too).
LayerNormWithResidual(l, name, h, r) ==
  LET sum == IF r = None THEN h ELSE Plus(h, r) IN Out(Norm(l, name, sum), sum)
RMSNorm(l, name, h, r) == LayerNormWithResidual(l, name, h, r)

MixtralDecoderLayer(l, part, h, r) ==
  LET in == IF Before(part) THEN RMSNorm(l, "norm1", h, r) ELSE Out(h, r)
      attn == MixtralAttention(l, part, in.hidden)
      post == RMSNorm(l, "norm2", attn, in.residual)
  IN  IF After(part) THEN Out(MoE(l, post.hidden), post.residual)
                     ELSE Out(attn, in.residual)

PhiDecoderLayer(l, part, h, r) ==
  LET in == IF Before(part) /\ h # None THEN LayerNormWithResidual(l, "norm1", h, r)
                                        ELSE Out(h, r)
      attn == PhiAttention(l, part, in.hidden)
      post == LayerNormWithResidual(l, "norm2", attn, in.residual)
  IN  IF After(part) THEN Out(MoE(l, post.hidden), post.residual)
                     ELSE Out(attn, in.residual)

\* dbrx keeps the whole sum in the hidden states between layers.
DbrxFusedNormAttention(l, part, h, r) ==
  LET in == IF Before(part) THEN Out(Norm(l, "norm1", h), h) ELSE Out(h, r)
      attn == DbrxAttention(l, part, in.hidden)
      sum == Plus(in.residual, attn)
  IN  IF After(part) THEN Out(Norm(l, "norm2", sum), sum) ELSE Out(attn, in.residual)

DbrxBlock(l, part, h, r) ==
  LET out == DbrxFusedNormAttention(l, part, h, IF After(part) THEN r ELSE None)
  IN  IF After(part) THEN Out(Plus(MoE(l, out.hidden), out.residual), None) ELSE out

\* Tokens are embedded when nothing is carried on; CPU_ATTN passes none.
Entering(part, h, r) ==
  IF h = None /\ part # "CPU_ATTN" THEN Out(Embedding(input_ids), None) ELSE Out(h, r)

\* model.forward, a norm after the last layer.
IsLast(l, part) == After(part) /\ l = Layers - 1

MixtralModel(l, part, h, r) ==
  LET in == Entering(part, h, r)
      out == MixtralDecoderLayer(l, part, in.hidden, in.residual)
  IN  IF IsLast(l, part) THEN RMSNorm(Layers, "norm", out.hidden, out.residual) ELSE out

PhiModel(l, part, h, r) ==
  LET in == Entering(part, h, r)
      out == PhiDecoderLayer(l, part, in.hidden, in.residual)
  IN  IF IsLast(l, part) THEN LayerNormWithResidual(Layers, "norm", out.hidden, out.residual)
                         ELSE out

\* Here the residual stays what it was.
DbrxModel(l, part, h, r) ==
  LET out == DbrxBlock(l, part, Entering(part, h, r).hidden, r)
  IN  IF IsLast(l, part) THEN Out(Norm(Layers, "norm", out.hidden), None) ELSE out

\* The ForCausalLM classes' forward: logits after the last layer.
LogitsProcessor(l, part, out) == IF IsLast(l, part) THEN Out(LMHead(out.hidden), None) ELSE out

MixtralForCausalLMOff(l, part, h, r) == LogitsProcessor(l, part, MixtralModel(l, part, h, r))
PhiMoEForCausalLMOff(l, part, h, r) == LogitsProcessor(l, part, PhiModel(l, part, h, r))
DbrxForCausalLMOff(l, part, h, r) == LogitsProcessor(l, part, DbrxModel(l, part, h, r))

model_forward(part, h, r) ==
  CASE class = "mixtral" -> MixtralForCausalLMOff(layer, part, h, r)
    [] class = "phi" -> PhiMoEForCausalLMOff(layer, part, h, r)
    [] class = "dbrx" -> DbrxForCausalLMOff(layer, part, h, r)

-----------------------------------------------------------------------------
(* ModelRunner: what the parts are given *)

forward_prefill == model_forward("ALL", hidden_states, residual)
forward_pre_attn == model_forward("PREATTN", hidden_states, residual)
forward_cpu_attn == model_forward("CPU_ATTN", None, None)
forward_post_attn == model_forward("POSTATTN", hidden_states, residual)

-----------------------------------------------------------------------------
(* Calls of the engine *)

\* After the last layer the batch keeps nothing for the next token.
\* Mutation: the hidden states stay.
Kept_mutant(x) == x

Kept(x) == None

\* What follows a layer that left `out`: the next layer, or the next token.
AfterLayer(out, next_stage) ==
  IF layer < Layers - 1
    THEN /\ hidden_states' = out.hidden /\ residual' = out.residual
         /\ layer' = layer + 1 /\ stage' = next_stage
         /\ UNCHANGED logits
    ELSE /\ logits' = Append(logits, out.hidden)
         /\ hidden_states' = Kept(out.hidden) /\ residual' = Kept(out.residual)
         /\ layer' = 0 /\ stage' = "prepare_for_decode"

\* The attention on the way stores the projections that PREATTN would return.
prefill ==
  /\ stage = "prefill"
  /\ kv' = store_kv_cache(layer, forward_pre_attn.hidden)
  /\ AfterLayer(forward_prefill, "prefill")
  /\ UNCHANGED <<class, tokens, qkv, qkv_pin, hidden_pin>>

prepare_for_decode ==
  /\ stage = "prepare_for_decode" /\ input_ids < DecodeSteps
  /\ input_ids' = input_ids + 1
  /\ seq_lens' = seq_lens + 1
  /\ decode_out_cache_loc' = decode_out_cache_loc + 1
  /\ stage' = "pre_attention"
  /\ UNCHANGED <<class, layer, hidden_states, residual, qkv, qkv_pin, hidden_pin, kv, logits>>

pre_attention ==
  /\ stage = "pre_attention"
  /\ qkv' = forward_pre_attn.hidden
  /\ residual' = forward_pre_attn.residual
  /\ stage' = "offload_qkv"
  /\ UNCHANGED <<class, layer, tokens, hidden_states, qkv_pin, hidden_pin, kv, logits>>

offload_qkv ==
  /\ stage = "offload_qkv"
  /\ qkv_pin' = qkv
  /\ stage' = "cpu_attention"
  /\ UNCHANGED <<class, layer, tokens, hidden_states, residual, qkv, hidden_pin, kv, logits>>

cpu_attention ==
  /\ stage = "cpu_attention"
  /\ kv' = store_kv_cache_cpu(layer, qkv_pin)
  /\ hidden_pin' = forward_cpu_attn.hidden
  /\ stage' = "load_hidden"
  /\ UNCHANGED <<class, layer, tokens, hidden_states, residual, qkv, qkv_pin, logits>>

load_hidden ==
  /\ stage = "load_hidden"
  /\ hidden_states' = hidden_pin
  /\ stage' = "post_attention"
  /\ UNCHANGED <<class, layer, tokens, residual, qkv, qkv_pin, hidden_pin, kv, logits>>

post_attention ==
  /\ stage = "post_attention"
  /\ AfterLayer(forward_post_attn, "pre_attention")
  /\ UNCHANGED <<class, tokens, qkv, qkv_pin, hidden_pin, kv>>

ForwardNext ==
  \/ prefill \/ prepare_for_decode \/ pre_attention \/ offload_qkv
  \/ cpu_attention \/ load_hidden \/ post_attention

-----------------------------------------------------------------------------
(* Properties *)

\* The transformer by its definition: the sum of the embedding and of every
\* layer's attention, over all tokens so far, and mixture of experts.  Here s is
\* the stream below layer l, of every token.
Key(l, s, u) == QKV(class, l, Norm(l, "norm1", s[u]), u)
WithAttention(l, s, t) ==
  s[t] \union OProj(l, Attended(l, Key(l, s, t), {<<u, Key(l, s, u)>> : u \in 0 .. t}))
WithExperts(l, s, t) ==
  LET mid == WithAttention(l, s, t) IN mid \union MoE(l, Norm(l, "norm2", mid))

Stream[l \in Nat] ==
  [t \in Nat |-> IF l = 0 THEN Embedding(t) ELSE WithExperts(l - 1, Stream[l - 1], t)]

\* Each token's logits are the transformer's over all tokens before it, at
\* their positions, for every class of model and however the layer was cut
\* into calls.
LogitsExact ==
  \A t \in 0 .. Len(logits) - 1 :
    logits[t + 1] = LMHead(Norm(Layers, "norm", Stream[Layers][t]))
=============================================================================
