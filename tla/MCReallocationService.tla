------------------------ MODULE MCReallocationService ------------------------
(* One movable expert on the GPU and one in CPU memory, two handler threads; *)
(* single requests, a batch that swaps the experts, and an empty one.        *)
EXTENDS ReallocationService

CONSTANTS t1, t2

MCThreads == {t1, t2}
MCMovable == {<<0, 0>>, <<0, 1>>}
MCSingles == {<<"move_to_gpu", <<0, 1>>>>, <<"preload_cache", <<0, 1>>>>}
MCSwap == << <<"move_to_cpu", <<0, 0>>>>, <<"move_to_gpu", <<0, 1>>>> >>
MCBatches == {<<>>, MCSwap}
=============================================================================
