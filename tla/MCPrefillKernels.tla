--------------------------- MODULE MCPrefillKernels ---------------------------
(***************************************************************************)
(* Two prompts of three tokens and one, two query heads on one key head,   *)
(* blocks of two: a program on the diagonal, one that crosses the end of   *)
(* its prompt, one with nothing to do.  Four tokens for three experts: an  *)
(* expert with a full block and one with none, and columns that do not     *)
(* fill their last block.                                                  *)
(***************************************************************************)
EXTENDS PrefillKernels, TLC

MCSeqLen == 0 :> 3 @@ 1 :> 1
MCStartLoc == 0 :> 0 @@ 1 :> 3
MCQ == [row \in 0 .. 3 |-> [h \in 0 .. 1 |-> 1 + h]]
MCKeys == {0 :> 1 @@ 1 :> x @@ 2 :> 2 - x @@ 3 :> 2 : x \in {0, 2}}
MCNegInf == -100

MCIndicies == 0 :> 5 @@ 1 :> 2 @@ 2 :> 0
MCCalls ==
  {[model |-> "phi",
    topk_ids |-> 0 :> <<0, 1>> @@ 1 :> <<1, 0>> @@ 2 :> <<0, 2>> @@ 3 :> <<1, 0>>],
   [model |-> "mixtral",
    topk_ids |-> 0 :> <<2, 1>> @@ 1 :> <<1, 2>> @@ 2 :> <<2, 1>> @@ 3 :> <<2, 1>>]}
=============================================================================
