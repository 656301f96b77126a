----------------------------- MODULE CPUAttention -----------------------------
(***************************************************************************)
(* The decode attention on the CPU, cpu_flash_decode_gqa of                *)
(* csrc/flashattention.cpp: parallel_for deals the (sequence, key head)    *)
(* tasks to threads, and each task computes the outputs of the query heads *)
(* that share the key head, block of keys by block of keys, correcting sum *)
(* and output when a block raises the maximum (the online softmax).        *)
(*                                                                         *)
(* A head has one element.  Powers are of 2 instead of e, and fixed-point: *)
(* One stands for 1 and is large enough for every shift to be exact.  Keys *)
(* and values of the whole micro-batch are rows of one array, and rows no  *)
(* sequence owns hold whatever earlier ones left there.                    *)
(***************************************************************************)
EXTENDS Integers, FiniteSetsExt, Functions

CONSTANTS
  batchSize, num_kv_head, kv_group_num,
  kvSplitSize,     \* 1024
  vec_size,        \* floats in a vector register
  NumThreads,
  Layouts,         \* where sequences lie: records of seq_lens and start_loc
  Queries,         \* functions from sequence to query head to its element
  Keys,            \* functions from row to key head to its element
  Bits,            \* One = 2^Bits
  NegInf           \* below every score by more than Bits

Sequences == 0 .. batchSize - 1
Heads == 0 .. num_kv_head * kv_group_num - 1
Threads == 0 .. NumThreads - 1
Rows(l) == UNION {l.start_loc[i] .. l.start_loc[i] + l.seq_lens[i] - 1 : i \in Sequences}

ASSUME AttentionAssumption ==
  /\ {batchSize, num_kv_head, kv_group_num, kvSplitSize, vec_size, NumThreads, Bits}
       \subseteq Nat \ {0}
  /\ \A l \in Layouts : /\ l.seq_lens \in [Sequences -> Nat \ {0}]
                        /\ l.start_loc \in [Sequences -> Nat]
  /\ \A q \in Queries : \A i \in Sequences, h \in Heads : q[i][h] \in Nat

VARIABLES
  layout, query, key,      \* the call's tensors
  place,                   \* where each thread is in its loop
  task,                    \* z, and the end of its range
  index,                   \* i and j
  n,                       \* first key of the block
  qk_data, qk_max_data, qk_sum_data, dst_data,   \* each thread's part of buf
  output                   \* <<dst, sum>> standing for dst / sum

vars == <<layout, query, key, place, task, index, n,
          qk_data, qk_max_data, qk_sum_data, dst_data, output>>

One == 2^Bits
Unwritten == <<0, 0>>
Group == 0 .. kv_group_num - 1

\* The element of a value row, unlike that of any other row and head.
value(row, j) == 1 + row * num_kv_head + j

-----------------------------------------------------------------------------
(* Arithmetic of the vector kernels *)

\* x * 2^d for d <= 0.
Scaled(x, d) == IF d < -Bits THEN 0 ELSE x \div 2^(-d)

SumOver(S, f(_)) == MapThenSumSet(f, S)

\* The registers' part and the rest.
_vec_max_kernel(a, size) ==
  LET whole == vec_size * (size \div vec_size)
      Top(S) == Max({NegInf} \union {a[x] : x \in S})
  IN  Max({Top(0 .. whole - 1), Top(whole .. size - 1)})

_exp_reduce_sum_fusion_kernel(a, size, val) ==
  LET whole == vec_size * (size \div vec_size)
      out == [x \in 0 .. size - 1 |-> Scaled(One, a[x] - val)]
      Part(S) == SumOver(S, LAMBDA x : out[x])
  IN  [out |-> out, val |-> Part(0 .. whole - 1) + Part(whole .. size - 1)]

-----------------------------------------------------------------------------
(* Dealing out the tasks *)

NumTasks == batchSize * num_kv_head
Chunk == (NumTasks + NumThreads - 1) \div NumThreads
Begin(t) == Min({t * Chunk, NumTasks})
End(t) == Min({(t + 1) * Chunk, NumTasks})

data_index_init(z) == [i |-> (z \div num_kv_head) % batchSize, j |-> z % num_kv_head]

\* Mutation: the outer index runs first.
data_index_step_mutant(x) ==
  IF x.i + 1 = batchSize
    THEN [i |-> 0, j |-> (x.j + 1) % num_kv_head]
    ELSE [x EXCEPT !.i = x.i + 1]

data_index_step(x) ==
  IF x.j + 1 = num_kv_head
    THEN [i |-> (x.i + 1) % batchSize, j |-> 0]
    ELSE [x EXCEPT !.j = x.j + 1]

Init ==
  /\ layout \in Layouts /\ query \in Queries /\ key \in Keys
  /\ place = [t \in Threads |-> "task"]
  /\ task = [t \in Threads |-> [z |-> Begin(t), end |-> End(t)]]
  /\ index = [t \in Threads |-> data_index_init(Begin(t))]
  /\ n = [t \in Threads |-> 0]
  /\ qk_data = [t \in Threads |-> [row \in Group |-> [x \in 0 .. kvSplitSize - 1 |-> 0]]]
  /\ qk_max_data = [t \in Threads |-> [row \in Group |-> 0]]
  /\ qk_sum_data = qk_max_data
  /\ dst_data = qk_max_data
  /\ output = [i \in Sequences |-> [h \in Heads |-> Unwritten]]

-----------------------------------------------------------------------------
(* One task of thread t *)

i(t) == index[t].i
j(t) == index[t].j
m(t) == j(t) * kv_group_num
num_keys(t) == layout.seq_lens[i(t)]
start_pos(t) == layout.start_loc[i(t)]
kvBlockSize(t) == Min({kvSplitSize, num_keys(t) - n[t]})

StartTask(t) ==
  /\ place[t] = "task" /\ task[t].z < task[t].end
  /\ qk_max_data' = [qk_max_data EXCEPT ![t] = [row \in Group |-> NegInf]]
  /\ qk_sum_data' = [qk_sum_data EXCEPT ![t] = [row \in Group |-> 0]]
  /\ n' = [n EXCEPT ![t] = 0]
  /\ place' = [place EXCEPT ![t] = "scores"]
  /\ UNCHANGED <<layout, query, key, task, index, qk_data, dst_data, output>>

\* gemm: queries of the group against the keys of the block.
Scores(t) ==
  /\ place[t] = "scores" /\ n[t] < num_keys(t)
  /\ qk_data' = [qk_data EXCEPT ![t] =
       [row \in Group |-> [x \in 0 .. kvBlockSize(t) - 1 |->
          query[i(t)][m(t) + row] * key[start_pos(t) + n[t] + x][j(t)]]]]
  /\ place' = [place EXCEPT ![t] = "softmax"]
  /\ UNCHANGED <<layout, query, key, task, index, n,
                 qk_max_data, qk_sum_data, dst_data, output>>

tmp_max(t, row) ==
  Max({qk_max_data[t][row], _vec_max_kernel(qk_data[t][row], kvBlockSize(t))})

\* Mutation: what was summed under the old maximum stays as it is.
Corrected_mutant(t, row, x) == x

Corrected(t, row, x) == Scaled(x, qk_max_data[t][row] - tmp_max(t, row))

Softmax(t) ==
  LET weights == [row \in Group |->
        _exp_reduce_sum_fusion_kernel(qk_data[t][row], kvBlockSize(t), tmp_max(t, row))]
  IN  /\ place[t] = "softmax"
      /\ qk_data' = [qk_data EXCEPT ![t] = [row \in Group |-> weights[row].out]]
      /\ qk_sum_data' = [qk_sum_data EXCEPT ![t] =
           [row \in Group |-> weights[row].val + Corrected(t, row, qk_sum_data[t][row])]]
      /\ dst_data' = [dst_data EXCEPT ![t] =
           [row \in Group |-> IF n[t] > 0 THEN Corrected(t, row, dst_data[t][row])
                                          ELSE dst_data[t][row]]]
      /\ qk_max_data' = [qk_max_data EXCEPT ![t] = [row \in Group |-> tmp_max(t, row)]]
      /\ place' = [place EXCEPT ![t] = "weigh"]
      /\ UNCHANGED <<layout, query, key, task, index, n, output>>

beta(t) == IF n[t] = 0 THEN 0 ELSE 1

\* gemm: the weights against the values of the block, and to the next block.
Weigh(t) ==
  /\ place[t] = "weigh"
  /\ dst_data' = [dst_data EXCEPT ![t] = [row \in Group |->
       SumOver(0 .. kvBlockSize(t) - 1,
               LAMBDA x : qk_data[t][row][x] * value(start_pos(t) + n[t] + x, j(t)))
       + beta(t) * dst_data[t][row]]]
  /\ n' = [n EXCEPT ![t] = n[t] + kvSplitSize]
  /\ place' = [place EXCEPT ![t] = "scores"]
  /\ UNCHANGED <<layout, query, key, task, index,
                 qk_data, qk_max_data, qk_sum_data, output>>

\* Divide by the sums, store, move to the next task.
Store(t) ==
  /\ place[t] = "scores" /\ ~(n[t] < num_keys(t))
  /\ output' = [output EXCEPT ![i(t)] = [h \in Heads |->
       IF h - m(t) \in Group
         THEN <<dst_data[t][h - m(t)], qk_sum_data[t][h - m(t)]>>
         ELSE output[i(t)][h]]]
  /\ index' = [index EXCEPT ![t] = data_index_step(index[t])]
  /\ task' = [task EXCEPT ![t].z = task[t].z + 1]
  /\ place' = [place EXCEPT ![t] = "task"]
  /\ UNCHANGED <<layout, query, key, n, qk_data, qk_max_data, qk_sum_data, dst_data>>

ThreadStep(t) == StartTask(t) \/ Scores(t) \/ Softmax(t) \/ Weigh(t) \/ Store(t)

Next == \E t \in Threads : ThreadStep(t)

\* OpenMP runs every thread of the team to its end.
Spec == Init /\ [][Next]_vars /\ \A t \in Threads : WF_vars(ThreadStep(t))

-----------------------------------------------------------------------------
(* Properties *)

\* Attention by its definition over the first `count` keys of a sequence.
Score(s, h, x) == query[s][h] * key[layout.start_loc[s] + x][h \div kv_group_num]

Attention(s, h, count) ==
  LET top == Max({Score(s, h, x) : x \in 0 .. count - 1})
      Weight(x) == Scaled(One, Score(s, h, x) - top)
  IN  [num |-> SumOver(0 .. count - 1,
                       LAMBDA x : Weight(x) * value(layout.start_loc[s] + x,
                                                    h \div kv_group_num)),
       den |-> SumOver(0 .. count - 1, Weight)]

Equals(pair, a) == pair[2] > 0 /\ pair[1] * a.den = a.num * pair[2]

\* What is stored for a sequence and a head is its attention over its own
\* rows, and nobody overwrites it with another's.
OutputExact ==
  \A s \in Sequences : \A h \in Heads :
    output[s][h] # Unwritten => Equals(output[s][h], Attention(s, h, layout.seq_lens[s]))

\* The threads together cover every sequence and head, and end.
AllWritten ==
  <>[](/\ \A t \in Threads : task[t].z = task[t].end
       /\ \A s \in Sequences : \A h \in Heads : output[s][h] # Unwritten)
=============================================================================
