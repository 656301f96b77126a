---------------------------- MODULE MCCPUAttention ----------------------------
(***************************************************************************)
(* Three sequences of one, three and two keys on three rows of threads'    *)
(* tasks, blocks of two keys: blocks that are full, cut short and alone,   *)
(* a chunk that crosses from one sequence to the next, and a row between   *)
(* two sequences that belongs to none.                                     *)
(***************************************************************************)
EXTENDS CPUAttention, TLC

MCLayouts == {[seq_lens |-> (0 :> 1 @@ 1 :> 3 @@ 2 :> 2),
               start_loc |-> (0 :> 0 @@ 1 :> 2 @@ 2 :> 5)]}

MCQueries == {[s \in 0 .. 2 |-> [h \in 0 .. 3 |-> 1 + ((s + h) % 2)]]}

\* Scores that rise, fall and repeat from row to row, heads told apart.
MCKeys ==
  LET Row(b) == 0 :> 1 @@ 1 :> 2 @@ 2 :> b[1] @@ 3 :> b[2] @@ 4 :> b[3] @@ 5 :> 2 - b[1] @@ 6 :> b[3]
  IN  {[r \in 0 .. 6 |-> 0 :> Row(b)[r] @@ 1 :> 2 - Row(b)[r]] : b \in [1 .. 3 -> 0 .. 2]}

MCNegInf == -100
=============================================================================
