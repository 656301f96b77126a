--------------------------- MODULE ContextAttention ---------------------------
(***************************************************************************)
(* The prefill attention on the GPU, _fwd_kernel of                        *)
(* layers/context_flashattention_nopad.py: a program takes a block of      *)
(* queries of one sequence and head through the blocks of keys up to the   *)
(* diagonal, with the output normalised after every block.                 *)
(*                                                                         *)
(* A head has one element, powers are of 2 and fixed-point: One stands for *)
(* 1 and is large enough for every shift to be exact.  Outputs are         *)
(* fractions.                                                              *)
(***************************************************************************)
EXTENDS Integers, FiniteSetsExt, Functions

CONSTANTS
  batch, head, kv_group_num,
  BLOCK,                \* of queries and of keys
  b_seq_len, b_start_loc,
  Q,                    \* row to head to its element
  Keys,                 \* functions from row to its key, the same in every head
  Bits, NegInf

Batches == 0 .. batch - 1
QHeads == 0 .. head - 1
Tokens == UNION {b_start_loc[b] .. b_start_loc[b] + b_seq_len[b] - 1 : b \in Batches}

ASSUME ContextAssumption ==
  /\ {batch, head, kv_group_num, BLOCK, Bits} \subseteq Nat \ {0}
  /\ b_seq_len \in [Batches -> Nat \ {0}]
  /\ b_start_loc \in [Batches -> Nat]

VARIABLES
  K,            \* keys of this layer
  attended,     \* programs that have run
  Out           \* row to head to <<numerator, denominator>>

attn_vars == <<K, attended, Out>>

One == 2^Bits
NoOutput == <<0, 0>>
V(row, kv_head) == 1 + row + 2 * kv_head

ContextInit ==
  /\ K \in Keys
  /\ attended = {}
  /\ Out = [row \in Tokens |-> [h \in QHeads |-> NoOutput]]

exp2(d) == IF d < -Bits THEN 0 ELSE 2^(Bits + d)
SumUp(S, f(_)) == MapThenSumSet(f, S)

-----------------------------------------------------------------------------
\* Mutation: one block less, the grid is rounded down.
AttentionGrid_mutant == Batches \X QHeads \X (0 .. Max(Range(b_seq_len)) \div BLOCK - 1)

AttentionGrid == Batches \X QHeads \X (0 .. (Max(Range(b_seq_len)) + BLOCK - 1) \div BLOCK - 1)

cur_kv_head(h) == h \div kv_group_num

\* Queries see the keys at and before their own place.
causal(m, n) == m >= n

\* qk[m, start_n + x], masked; keys past the sequence are zero.
qk(b, h, m, n) ==
  IF ~causal(m, n)
    THEN NegInf
    ELSE IF n < b_seq_len[b] THEN Q[b_start_loc[b] + m][h] * K[b_start_loc[b] + n] ELSE 0

NoKeys == [m_i |-> NegInf, l_i |-> 0, acc |-> <<0, 1>>]

alpha(m_i, m_i_new) == exp2(m_i - m_i_new)

\* One turn of the loop for query m, over the keys start_n .. start_n + BLOCK - 1.
Block(s, b, h, m, start_n) ==
  LET keys == start_n .. start_n + BLOCK - 1
      m_ij == Max({qk(b, h, m, n) : n \in keys})
      p(n) == exp2(qk(b, h, m, n) - m_ij)
      l_ij == SumUp(keys, p)
      m_i_new == Max({s.m_i, m_ij})
      al == alpha(s.m_i, m_i_new)
      be == exp2(m_ij - m_i_new)
      l_i_new == (al * s.l_i + be * l_ij) \div One
      pv == SumUp({n \in keys : n < b_seq_len[b]},
                  LAMBDA n : p(n) * V(b_start_loc[b] + n, cur_kv_head(h)))
  IN  [m_i |-> m_i_new,
       l_i |-> l_i_new,
       acc |-> <<s.acc[1] * s.l_i * al + s.acc[2] * pv * be, s.acc[2] * l_i_new * One>>]

\* The loop, block_mask * (start_m + 1) * BLOCK_M keys in all.
Loop(b, h, start_m, m) ==
  LET after[x \in 0 .. start_m + 1] ==
        IF x = 0 THEN NoKeys ELSE Block(after[x - 1], b, h, m, (x - 1) * BLOCK)
  IN  after[IF start_m * BLOCK < b_seq_len[b] THEN start_m + 1 ELSE 0]

\* _fwd_kernel: the rows of a block past the sequence are not stored.
AttentionProgram(pid) ==
  LET b == pid[1]
      h == pid[2]
      rows == {m \in pid[3] * BLOCK .. (pid[3] + 1) * BLOCK - 1 : m < b_seq_len[b]}
  IN  /\ pid \in AttentionGrid \ attended
      /\ attended' = attended \union {pid}
      /\ Out' = [row \in Tokens |->
           IF row - b_start_loc[b] \in rows
             THEN [Out[row] EXCEPT ![h] = Loop(b, h, pid[3], row - b_start_loc[b]).acc]
             ELSE Out[row]]
      /\ UNCHANGED K

-----------------------------------------------------------------------------
(* Properties *)

ContextScore(b, h, m, n) == Q[b_start_loc[b] + m][h] * K[b_start_loc[b] + n]
Weight(b, h, m, n) ==
  exp2(ContextScore(b, h, m, n) - Max({ContextScore(b, h, m, x) : x \in 0 .. m}))

\* Every stored output is the softmax of its query over its own sequence up
\* to itself, by the definition.
ContextExact ==
  \A b \in Batches : \A h \in QHeads : \A m \in 0 .. b_seq_len[b] - 1 :
    LET o == Out[b_start_loc[b] + m][h]
    IN  o # NoOutput =>
          o[1] * SumUp(0 .. m, LAMBDA n : Weight(b, h, m, n))
            = o[2] * SumUp(0 .. m, LAMBDA n : Weight(b, h, m, n)
                                              * V(b_start_loc[b] + n, cur_kv_head(h)))
=============================================================================
