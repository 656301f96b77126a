------------------------------- MODULE FusedMoE -------------------------------
(***************************************************************************)
(* A mixture-of-experts layer on the GPU, stack_fused_moe of               *)
(* layers/stacked_fused_moe.py: one grouped product for the gate and up    *)
(* projections of every (token, expert) pair, the activation, a second     *)
(* product for the down projection, and the sum over a token's experts.    *)
(* The programs of a launch run in any order; launches follow each other   *)
(* on the stream.                                                          *)
(*                                                                         *)
(* Values are symbolic: an entry of a result names the rows of the two     *)
(* matrices it is the product of.  What matters is which addresses a       *)
(* program reads and writes: pages of the expert cache hold [w1, w3, w2]   *)
(* and each launch views them with rows of another length.                 *)
(***************************************************************************)
EXTENDS Integers, SequencesExt, SortedSets

CONSTANTS
  M, topk, E,             \* tokens, experts per token, experts
  H, inter,               \* hidden size, rows of w1 and of w3 on this rank
  BLOCK_SIZE_M, BLOCK_SIZE_N, BLOCK_SIZE_K, GROUP_SIZE_M,
  indicies,               \* experts' pages in the cache
  Calls                   \* records: model, and topk_ids from token to its
                          \* sequence of experts

ASSUME MoEAssumption ==
  /\ {M, topk, E, H, inter, BLOCK_SIZE_M, BLOCK_SIZE_N, BLOCK_SIZE_K, GROUP_SIZE_M}
       \subseteq Nat \ {0}
  /\ indicies \in [0 .. E - 1 -> Nat]
  /\ \A c \in Calls :
       /\ c.model \in {"mixtral", "phi", "dbrx"}
       /\ c.topk_ids \in [0 .. M - 1 -> [1 .. topk -> 0 .. E - 1]]
       /\ \A t \in 0 .. M - 1 : IsInjective(c.topk_ids[t])

page_size == 3 * inter * H
N == ((2 * page_size) \div 3) \div H
numel == M * topk

cdiv(a, b) == (a + b - 1) \div b

Unwritten == <<>>
Blank(size) == [address \in 0 .. size - 1 |-> Unwritten]

VARIABLES
  model,                        \* class of the model
  topk_ids,                     \* experts of each token
  sorted_token_ids, expert_ids, num_tokens_post_padded,    \* the aligned pairs
  launch,                       \* what the stream is running
  ran,                          \* programs of the launch that have run
  intermediate_cache1,          \* M * topk rows of N
  intermediate_cache2,          \* M * topk rows of N / 2
  intermediate_cache3,          \* M * topk rows of H
  moe_out                       \* hidden_states: for each token its terms

pairing == <<model, topk_ids, sorted_token_ids, expert_ids, num_tokens_post_padded>>
moe_vars == <<pairing, launch, ran, intermediate_cache1, intermediate_cache2,
              intermediate_cache3, moe_out>>

MoEInit ==
  /\ \E c \in Calls : model = c.model /\ topk_ids = c.topk_ids
  /\ sorted_token_ids = Unwritten /\ expert_ids = Unwritten
  /\ num_tokens_post_padded = 0
  /\ ran = {}
  /\ intermediate_cache1 = Blank(numel * N)
  /\ intermediate_cache2 = Blank(numel * (N \div 2))
  /\ intermediate_cache3 = Blank(numel * H)
  /\ moe_out = [t \in 0 .. M - 1 |-> Unwritten]

-----------------------------------------------------------------------------
(* moe_align_block_size *)

\* Pairs (token, one of its experts) are numbered token by token.
ExpertOf(pair) == topk_ids[pair \div topk][1 + (pair % topk)]

Pairs(e) == {pair \in 0 .. numel - 1 : ExpertOf(pair) = e}
BlocksOf(e) == cdiv(Cardinality(Pairs(e)), BLOCK_SIZE_M)

\* Each expert's pairs fill whole blocks, the rest of a block is padding.
aligned ==
  FlattenSeq([x \in 1 .. E |->
    LET pairs == Sorted(Pairs(x - 1))
    IN  [y \in 1 .. BLOCK_SIZE_M * BlocksOf(x - 1) |->
           IF y <= Len(pairs) THEN pairs[y] ELSE numel]])

EM == numel + E * (BLOCK_SIZE_M - 1)

moe_align_block_size ==
  /\ launch = "align"
  /\ num_tokens_post_padded' = Len(aligned)
  /\ sorted_token_ids' =
       LET pairs == aligned
       IN  [x \in 0 .. EM - 1 |-> IF x < Len(pairs) THEN pairs[x + 1] ELSE numel]
  /\ expert_ids' = FlattenSeq([x \in 1 .. E |-> [y \in 1 .. BlocksOf(x - 1) |-> x - 1]])
  /\ launch' = "gate_up"
  /\ UNCHANGED <<model, topk_ids, ran, intermediate_cache1, intermediate_cache2,
                 intermediate_cache3, moe_out>>

-----------------------------------------------------------------------------
(* fused_moe_kernel: a launch with results of `cols` columns that are      *)
(* products of K numbers                                                   *)

num_pid_m == cdiv(EM, BLOCK_SIZE_M)
num_pid_n(cols) == cdiv(cols, BLOCK_SIZE_N)
Grid(cols) == 0 .. num_pid_m * num_pid_n(cols) - 1

num_pid_in_group(cols) == GROUP_SIZE_M * num_pid_n(cols)
first_pid_m(pid, cols) == GROUP_SIZE_M * (pid \div num_pid_in_group(cols))

group_size_m(pid, cols) ==
  IF num_pid_m - first_pid_m(pid, cols) < GROUP_SIZE_M
    THEN num_pid_m - first_pid_m(pid, cols)
    ELSE GROUP_SIZE_M

pid_m(pid, cols) ==
  first_pid_m(pid, cols) + ((pid % num_pid_in_group(cols)) % group_size_m(pid, cols))
pid_n(pid, cols) == (pid % num_pid_in_group(cols)) \div group_size_m(pid, cols)

\* Mutation: programs beyond the last block go on.
HasTokens_mutant(pid, cols) == TRUE

HasTokens(pid, cols) == pid_m(pid, cols) * BLOCK_SIZE_M < num_tokens_post_padded

offs_token_id(pid, cols) ==
  {pid_m(pid, cols) * BLOCK_SIZE_M + x : x \in 0 .. BLOCK_SIZE_M - 1}
offs_token(pid, cols) == {sorted_token_ids[x] : x \in offs_token_id(pid, cols)}
token_mask(token) == token < numel

\* Mutation: columns are masked as tokens are not.
c_mask_mutant(col, cols) == TRUE

c_mask(col, cols) == col < cols

offs_cn(pid, cols) ==
  {pid_n(pid, cols) * BLOCK_SIZE_N + y : y \in 0 .. BLOCK_SIZE_N - 1}

\* The numbers of a row the loop over k adds up.
Accumulated(K) ==
  UNION {{k * BLOCK_SIZE_K + x : x \in {y \in 0 .. BLOCK_SIZE_K - 1 : y < K - k * BLOCK_SIZE_K}} :
           k \in 0 .. cdiv(K, BLOCK_SIZE_K) - 1}

\* C after a program: addresses are those of a row-major matrix.  w2_off is
\* where the launch's weights start in a page, in rows of the launch's view.
Stored(C, pid, cols, K, top_k, w2_off, weighted) ==
  LET page == indicies[expert_ids[1 + pid_m(pid, cols)]]
      numbers == Accumulated(K)
      tokens == {t \in offs_token(pid, cols) : token_mask(t)}
      written == {tc \in tokens \X offs_cn(pid, cols) : c_mask(tc[2], cols)}
      Address(tc) == tc[1] * cols + tc[2]
      Product(t, c) == [a |-> t \div top_k,
                        page |-> page,
                        b |-> (w2_off + (c % cols)) * K,
                        over |-> numbers,
                        weight |-> IF weighted THEN t ELSE numel]
  IN  [address \in DOMAIN C \union {Address(tc) : tc \in written} |->
         IF \E tc \in written : address = Address(tc)
           THEN LET tc == CHOOSE tc \in written : address = Address(tc)
                IN  Product(tc[1], tc[2])
           ELSE C[address]]

-----------------------------------------------------------------------------
(* The two products of a layer, as the models launch them: columns of the  *)
(* result, numbers in a product, rows of the result for each row of A,     *)
(* where the weights start in a page, whether the result is weighted       *)

stack_fused_moe ==
  [gate_up |-> [cols |-> N, K |-> H, top_k |-> topk, w2_off |-> 0, weighted |-> FALSE],
   down |-> [cols |-> H, K |-> N \div 2, top_k |-> 1, w2_off |-> 2 * H, weighted |-> TRUE]]

\* phi's copy, to tell the tracker the routing.
_stack_fused_moe_with_routing_info ==
  [gate_up |-> [cols |-> N, K |-> H, top_k |-> topk, w2_off |-> 0, weighted |-> FALSE],
   down |-> [cols |-> H, K |-> N \div 2, top_k |-> 1, w2_off |-> 2 * H, weighted |-> TRUE]]

MixtralMoE_forward == stack_fused_moe
DbrxExperts_forward == stack_fused_moe
\* Assignments computed in advance are looked for in InputMetadata, which has
\* no field for them: that branch is never taken.
PhiMoE_forward == _stack_fused_moe_with_routing_info

Launched(name) ==
  CASE model = "mixtral" -> MixtralMoE_forward[name]
    [] model = "dbrx" -> DbrxExperts_forward[name]
    [] model = "phi" -> PhiMoE_forward[name]

\* fused_moe_kernel, one program of launch `name`.
Program(name, C, pid) ==
  LET x == Launched(name)
  IN  IF HasTokens(pid, x.cols) THEN Stored(C, pid, x.cols, x.K, x.top_k, x.w2_off, x.weighted)
                                ELSE C

GateUpProgram(pid) ==
  /\ launch = "gate_up" /\ pid \notin ran
  /\ ran' = ran \union {pid}
  /\ intermediate_cache1' = Program("gate_up", intermediate_cache1, pid)
  /\ UNCHANGED <<pairing, launch, intermediate_cache2, intermediate_cache3, moe_out>>

silu_and_mul ==
  /\ launch = "gate_up" /\ ran = Grid(N)
  /\ intermediate_cache2' =
       [address \in DOMAIN intermediate_cache2 |->
          LET row == address \div (N \div 2)
              col == address % (N \div 2)
          IN  <<intermediate_cache1[row * N + col],
                intermediate_cache1[row * N + N \div 2 + col]>>]
  /\ launch' = "down"
  /\ ran' = {}
  /\ UNCHANGED <<pairing, intermediate_cache1, intermediate_cache3, moe_out>>

DownProgram(pid) ==
  /\ launch = "down" /\ pid \notin ran
  /\ ran' = ran \union {pid}
  /\ intermediate_cache3' = Program("down", intermediate_cache3, pid)
  /\ UNCHANGED <<pairing, launch, intermediate_cache1, intermediate_cache2, moe_out>>

\* torch.sum over a token's experts, into hidden_states.
SumExperts ==
  /\ launch = "down" /\ ran = Grid(H)
  /\ moe_out' = [t \in 0 .. M - 1 |-> [h \in 0 .. H - 1 |->
       {intermediate_cache3[(t * topk + x) * H + h] : x \in 0 .. topk - 1}]]
  /\ launch' = "done"
  /\ UNCHANGED <<pairing, ran, intermediate_cache1, intermediate_cache2,
                 intermediate_cache3>>

MoENext ==
  \/ moe_align_block_size
  \/ \E pid \in Grid(N) : GateUpProgram(pid)
  \/ silu_and_mul
  \/ \E pid \in Grid(H) : DownProgram(pid)
  \/ SumExperts

-----------------------------------------------------------------------------
(* Properties *)

\* Row of an expert's w1, w3 or w2, by the layout of a page.
w1(row) == row * H
w3(row) == inter * H + row * H
w2(row) == 2 * inter * H + row * inter

Gate(pair, x) ==
  [a |-> pair \div topk, page |-> indicies[ExpertOf(pair)], b |-> w1(x),
   over |-> 0 .. H - 1, weight |-> numel]
Up(pair, x) == [Gate(pair, x) EXCEPT !.b = w3(x)]
Down(pair, h) ==
  [a |-> pair, page |-> indicies[ExpertOf(pair)], b |-> w2(h),
   over |-> 0 .. inter - 1, weight |-> pair]

\* The MoE computes what it should: the activation of every pair is made of
\* its expert's gate and up rows, and a token gets the weighted sum of exactly
\* its experts' down rows, over whole rows.
MoEExact ==
  /\ launch = "down" =>
       \A pair \in 0 .. numel - 1 : \A x \in 0 .. inter - 1 :
         intermediate_cache2[pair * (N \div 2) + x] = <<Gate(pair, x), Up(pair, x)>>
  /\ launch = "done" =>
       \A t \in 0 .. M - 1 : \A h \in 0 .. H - 1 :
         moe_out[t][h] = {Down(t * topk + x, h) : x \in 0 .. topk - 1}

\* A program that goes on finds its tokens and its expert inside the arrays.
LoadsInBounds ==
  launch \in {"gate_up", "down"} => \A cols \in {N, H} : \A pid \in Grid(cols) :
    HasTokens(pid, cols) =>
      /\ offs_token_id(pid, cols) \subseteq 0 .. EM - 1
      /\ pid_m(pid, cols) < Len(expert_ids)
=============================================================================
