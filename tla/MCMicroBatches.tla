--------------------------- MODULE MCMicroBatches ---------------------------
(* Three micro-batches of two, lines of 12 tokens.  Alone, r1 and r9 are below *)
(* ubs, r9 is longer than a line and than the context; r2 and r3 leave the     *)
(* last partition empty; four requests fill a partition; five abort two.       *)
EXTENDS MicroBatches

CONSTANTS r1, r2, r3, r4, r5, r6, r7, r8, r9

MCRequests == {r1, r2, r3, r4, r5, r6, r7, r8, r9}
MCLengths ==
  [r \in MCRequests |->
     CASE r \in {r1, r2, r4} -> 2 [] r \in {r3, r5} -> 3 [] r = r6 -> 5
       [] r = r7 -> 6 [] r = r8 -> 9 [] r = r9 -> 30]
MCAsked == [r \in MCRequests |-> CASE r = r1 -> 128 [] r = r4 -> 2 [] OTHER -> 3]
MCSends == {<<r1>>, <<r9>>, <<r2, r3>>, <<r4, r5, r6, r7>>, <<r5, r4, r7, r6, r8>>}
=============================================================================
