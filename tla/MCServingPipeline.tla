-------------------------- MODULE MCServingPipeline --------------------------
(* A single call, a stream, a batch of one and a list of two. *)
EXTENDS ServingPipeline

CONSTANTS single, stream, batch, list, r1, r2, r3, r4, r5

MCCalls == {single, stream, batch, list}
MCKind ==
  [c \in MCCalls |-> CASE c = single -> "single" [] c = stream -> "stream"
                       [] c = batch -> "batch" [] c = list -> "list"]
MCRids ==
  [c \in MCCalls |-> CASE c = single -> <<r1>> [] c = stream -> <<r2>>
                       [] c = batch -> <<r3>> [] c = list -> <<r4, r5>>]
=============================================================================
