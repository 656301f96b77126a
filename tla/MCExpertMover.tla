---------------------------- MODULE MCExpertMover ----------------------------
(* Two layers, clients move two of the three experts of layer 0, two handler threads. *)
EXTENDS ExpertMover

CONSTANTS t1, t2

MCThreads == {t1, t2}
MCMovable == {<<0, 1>>, <<0, 2>>}
=============================================================================
