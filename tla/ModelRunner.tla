----------------------------- MODULE ModelRunner -----------------------------
(***************************************************************************)
(* The life of the model under a ModelRunner: every rank loads its part of *)
(* the checkpoint, and once all of them have, the ranks run the engine's   *)
(* calls together (the collectives at the end of attention and MoE keep    *)
(* them in step).                                                          *)
(***************************************************************************)
EXTENDS WeightLoading, StagedForward

vars == <<loading_vars, forward_vars>>

Init == LoadingInit /\ ForwardInit(config.model)

Load == (\E r \in Ranks : LoadNext(r)) /\ UNCHANGED forward_vars
Forward == AllLoaded /\ ForwardNext /\ UNCHANGED loading_vars

Next == Load \/ Forward

\* Ranks and the engine keep going.
Spec == Init /\ [][Next]_vars /\ WF_vars(Next)
=============================================================================
