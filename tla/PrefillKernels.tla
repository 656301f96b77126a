---------------------------- MODULE PrefillKernels ----------------------------
(***************************************************************************)
(* The GPU kernels of one layer of a micro-batch's prefill, in stream      *)
(* order: attention over the prompts, then the mixture of experts over     *)
(* their tokens; after the last layer the hidden state of every prompt's   *)
(* last token goes to the output head.                                     *)
(***************************************************************************)
EXTENDS ContextAttention, FusedMoE

VARIABLE last_hidden     \* token picked for each prompt by LogitsProcessor

layer_vars == <<attn_vars, moe_vars, last_hidden>>

ASSUME TokensAssumption == Tokens = 0 .. M - 1

Init ==
  /\ ContextInit /\ MoEInit
  /\ launch = "attention"
  /\ last_hidden = [b \in Batches |-> -1]

Attend ==
  /\ launch = "attention"
  /\ \E pid \in AttentionGrid : AttentionProgram(pid)
  /\ UNCHANGED <<moe_vars, last_hidden>>

\* The attention's launch is over; stack_fused_moe follows.
StartMoE ==
  /\ launch = "attention" /\ attended = AttentionGrid
  /\ launch' = "align"
  /\ UNCHANGED <<attn_vars, pairing, ran, intermediate_cache1, intermediate_cache2,
                 intermediate_cache3, moe_out, last_hidden>>

Mix == MoENext /\ UNCHANGED <<attn_vars, last_hidden>>

\* torch.cumsum(seq_lens) - 1.
\* Mutation: the sums without the prompt itself.
last_index_mutant(b) == MapThenSumSet(LAMBDA c : b_seq_len[c], 0 .. b - 1)

last_index(b) == MapThenSumSet(LAMBDA c : b_seq_len[c], 0 .. b) - 1

PickLast ==
  /\ launch = "done" /\ last_hidden[0] = -1
  /\ last_hidden' = [b \in Batches |-> last_index(b)]
  /\ UNCHANGED <<attn_vars, moe_vars>>

Next == Attend \/ StartMoE \/ Mix \/ PickLast

\* The stream runs what is queued on it.
Spec == Init /\ [][Next]_layer_vars /\ WF_layer_vars(Next)

-----------------------------------------------------------------------------
(* Properties *)

\* Every attention output is the softmax by its definition, and the MoE
\* starts with all of them there.
AttentionExact ==
  /\ ContextExact
  /\ launch # "attention" => \A row \in Tokens : \A h \in QHeads : Out[row][h] # NoOutput

\* In the end the output head has the last token of every prompt.
LayerEnds == <>[](\A b \in Batches : last_hidden[b] = b_start_loc[b] + b_seq_len[b] - 1)
=============================================================================
