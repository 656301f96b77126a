--------------------------- MODULE DecodePipeline ---------------------------
(***************************************************************************)
(* The decode loop of batch_forward_step: the main thread launches work on *)
(* the CUDA streams (compute, offload, load, prefetch) and on two          *)
(* executors of one worker each (CPU attention, copy to the pin) and waits *)
(* for some of it; each stream and each executor runs its work in order.   *)
(* The cold experts and the pin are on a second GPU, cuda:1: a copy from   *)
(* there runs on that GPU's own stream, in step with the stream that       *)
(* launched it.  Experts are in pages of one layer (num_pages_cpu = 1, the *)
(* only policy the optimizer yields), a page arrives in num_mb slots.      *)
(*                                                                         *)
(* Layers are counted on over the decode steps.  A buffer holds the number *)
(* of the layer it was last filled for; which weights that brings is not   *)
(* modelled (the copies leave layer_id unused).                            *)
(***************************************************************************)
EXTENDS Integers, FiniteSets, SequencesExt

CONSTANTS
  NumLayers,   \* model_config.num_hidden_layers
  num_mb,      \* micro-batches; the warm-up has one, a policy more
  Steps        \* bound: decode steps

ASSUME DecodeAssumption ==
  /\ NumLayers \in Nat \ {0} /\ NumLayers % 2 = 0   \* asserted by init_gpu_experts
  /\ num_mb \in Nat /\ num_mb >= 3
  /\ Steps \in Nat

MicroBatchIds == 0 .. num_mb - 1

VARIABLES
  pos,                             \* the main thread: place in Program
  cur, offload, load, prefetch,    \* the streams: queued work, oldest first
  cold,                            \* the default stream of cuda:1
  cpu_executor, copy_executor,     \* the executors: queued tasks
  gpu_page,                        \* weights_prefetch_page_gpu
  first_page,                      \* what it was as the step, its prefill, started
  pages,                           \* the two prefetch pages, slot by slot
  pin,                             \* experts_pin, slot by slot
  qkv_pin, hidden_pin,             \* the pinned buffers of each micro-batch
  hidden_states                    \* the attention output back on the GPU

queues == <<cur, offload, load, prefetch, cold, cpu_executor, copy_executor>>
buffers == <<pages, pin, qkv_pin, hidden_pin, hidden_states>>
vars == <<pos, queues, gpu_page, first_page, buffers>>

Op(op, layer, k) == [op |-> op, layer |-> layer, mb |-> k]

-----------------------------------------------------------------------------
(* The calls of one decode step, in order; `first` is its layer 0. *)

Attention(n, k) ==
  <<Op("pre_attention", n, k), Op("offload_qkv", n, k), Op("cpu_attention", n, k)>>

Prologue(first, k) == Attention(first, k) \o <<Op("to_pin", first + 1, k)>>

\* Micro-batches start their attention two turns ahead.
Ahead(first, n, k) ==
  IF k + 2 < num_mb THEN Attention(n, k + 2)
  ELSE IF n < first + NumLayers - 1 THEN Attention(n + 1, (k + 2) % num_mb)
  ELSE <<>>

\* Mutation: one turn ahead within a layer, two at its end.
get_prefetch_e2p_idx_mutant(first, n, k) ==
  IF k + 2 < num_mb THEN <<Op("to_pin", n + 1, k + 1)>>
  ELSE IF n < first + NumLayers - 1 THEN <<Op("to_pin", n + 2, (k + 2) % num_mb)>>
  ELSE <<>>

\* The slot that is copied to the pin two turns ahead of its use; the next
\* step's prologue has its first two.
get_prefetch_e2p_idx(first, n, k) ==
  IF k + 2 < num_mb THEN <<Op("to_pin", n + 1, k + 2)>>
  ELSE IF n < first + NumLayers - 1 THEN <<Op("to_pin", n + 2, (k + 2) % num_mb)>>
  ELSE <<>>

\* Sampling a token of the last layer waits for the compute stream.
Turn(first, n, k) ==
  <<Op("load_hidden", n, k), Op("prefetch", n + 1, k), Op("post_attention", n, k)>>
    \o (IF n = first + NumLayers - 1 THEN <<Op("sample", n, k)>> ELSE <<>>)
    \o Ahead(first, n, k)
    \o get_prefetch_e2p_idx(first, n, k)

DecodeStep(first) ==
  Prologue(first, 0) \o Prologue(first, 1)
    \o FlattenSeq([t \in 1 .. NumLayers * num_mb |->
                     Turn(first, first + (t - 1) \div num_mb, (t - 1) % num_mb)])

Program == FlattenSeq([s \in 1 .. Steps |-> DecodeStep((s - 1) * NumLayers)])

-----------------------------------------------------------------------------
Layers == -1 .. Steps * NumLayers + 1

\* The prefill has launched the prefetch of layer 0 and has not waited for it:
\* it is in slot 0's event.  Layer -1 stands for what the prefill left behind.
\* The prefill's prefetches, an odd number, took the pages in turn from the one
\* the pointer was at, either one: see PrefillPipeline's Init.
Init ==
  /\ pos = 1
  /\ cur = <<>> /\ offload = <<>> /\ load = <<>>
  /\ prefetch = <<Op("page", 0, 0)>> /\ cold = <<Op("page", 0, 0)>>
  /\ cpu_executor = <<>> /\ copy_executor = <<>>
  /\ first_page \in {0, 1} /\ gpu_page = 1 - first_page
  /\ pages = [p \in {0, 1} |-> [s \in MicroBatchIds |-> -1]]
  /\ pin = [s \in MicroBatchIds |-> -1]
  /\ qkv_pin = [k \in MicroBatchIds |-> -1]
  /\ hidden_pin = [k \in MicroBatchIds |-> -1]
  /\ hidden_states = [k \in MicroBatchIds |-> -1]

-----------------------------------------------------------------------------
(* The pages *)

\* The page experts_mapping has a layer's experts on, and the page the
\* prefetches bring them to.
experts_mapping(n) == n % 2
PageTaken(n) == (n + first_page) % 2

-----------------------------------------------------------------------------
(* The main thread *)

Call(op) == pos <= Len(Program) /\ Program[pos].op = op /\ pos' = pos + 1
Now == Program[pos]

pre_attention ==
  /\ Call("pre_attention")
  /\ cur' = Append(cur, Now)
  /\ UNCHANGED <<offload, load, prefetch, cold, cpu_executor, copy_executor, gpu_page, first_page, buffers>>

offload_qkv ==
  /\ Call("offload_qkv")
  /\ offload' = Append(offload, Now)
  /\ UNCHANGED <<cur, load, prefetch, cold, cpu_executor, copy_executor, gpu_page, first_page, buffers>>

cpu_attention ==
  /\ Call("cpu_attention")
  /\ cpu_executor' = Append(cpu_executor, Now)
  /\ UNCHANGED <<cur, offload, load, prefetch, cold, copy_executor, gpu_page, first_page, buffers>>

prefetch_experts_to_pin ==
  /\ Call("to_pin")
  /\ copy_executor' = Append(copy_executor, Now)
  /\ UNCHANGED <<cur, offload, load, prefetch, cold, cpu_executor, gpu_page, first_page, buffers>>

\* The futures are None until a first task is submitted.
Submitted(op, k) == \E i \in 1 .. pos - 1 : Program[i].op = op /\ Program[i].mb = k

\* No task of micro-batch or slot k is left: the future has its result.
Done(executor, k) == \A x \in Range(executor) : x.mb # k

\* Mutation: the attention is not waited for.
AttentionDone_mutant(k) == TRUE

AttentionDone(k) == Submitted("cpu_attention", k) /\ Done(cpu_executor, k)

load_hidden ==
  /\ Call("load_hidden")
  /\ AttentionDone(Now.mb)
  /\ load' = Append(load, Now)
  /\ UNCHANGED <<cur, offload, prefetch, cold, cpu_executor, copy_executor, gpu_page, first_page, buffers>>

NextPage(k) == IF k = num_mb - 1 THEN 1 - gpu_page ELSE gpu_page

\* Mutation: the copy to the pin is not waited for.
CopyDone_mutant(k) == TRUE

CopyDone(k) == Submitted("to_pin", k) /\ Done(copy_executor, k)

\* The copy is launched on the load stream; its event is recorded on the
\* prefetch stream.
prefetch_experts ==
  /\ Call("prefetch")
  /\ CopyDone(Now.mb)
  /\ LET copy == [op |-> "prefetch", layer |-> Now.layer, mb |-> Now.mb, page |-> gpu_page]
     IN  load' = Append(load, copy) /\ cold' = Append(cold, copy)
  /\ prefetch' = Append(prefetch, Op("record", Now.layer, Now.mb))
  /\ gpu_page' = NextPage(Now.mb)
  /\ UNCHANGED <<cur, offload, cpu_executor, copy_executor, first_page, buffers>>

post_attention ==
  /\ Call("post_attention")
  /\ cur' = Append(cur, Now)
  /\ UNCHANGED <<offload, load, prefetch, cold, cpu_executor, copy_executor, gpu_page, first_page, buffers>>

sample ==
  /\ Call("sample")
  /\ cur = <<>>
  /\ UNCHANGED <<queues, gpu_page, first_page, buffers>>

-----------------------------------------------------------------------------
(* The streams and the executors: the head of a queue runs when the events  *)
(* it waits for are complete.                                               *)

Queued(q, op, n, k) == \E x \in Range(q) : x.op = op /\ x.layer = n /\ x.mb = k

\* prefetch_events[s], as recorded up to the call for layer n.
Prefetched(s, n) ==
  \A x \in Range(prefetch) : ~(x.mb = s /\ x.layer <= n)

\* Mutation: the compute stream does not wait for the hidden states.
HiddenLoaded_mutant(n, k) == TRUE

HiddenLoaded(n, k) == ~Queued(load, "load_hidden", n, k)

MayCompute(x) ==
  x.op = "post_attention" =>
    /\ HiddenLoaded(x.layer, x.mb)
    /\ x.mb = 0 => Prefetched(num_mb - 1, x.layer)

RunCompute ==
  /\ cur # <<>> /\ MayCompute(Head(cur))
  /\ cur' = Tail(cur)
  /\ UNCHANGED <<pos, offload, load, prefetch, cold, cpu_executor, copy_executor, gpu_page, first_page, buffers>>

RunOffload ==
  /\ offload # <<>>
  /\ LET x == Head(offload)
     IN  /\ ~Queued(cur, "pre_attention", x.layer, x.mb)
         /\ qkv_pin' = [qkv_pin EXCEPT ![x.mb] = x.layer]
  /\ offload' = Tail(offload)
  /\ UNCHANGED <<pos, cur, load, prefetch, cold, cpu_executor, copy_executor, gpu_page, first_page,
                 pages, pin, hidden_pin, hidden_states>>

RunLoad ==
  /\ load # <<>> /\ Head(load).op = "load_hidden"
  /\ LET k == Head(load).mb
     IN  hidden_states' = [hidden_states EXCEPT ![k] = hidden_pin[k]]
  /\ load' = Tail(load)
  /\ UNCHANGED <<pos, cur, offload, prefetch, cold, cpu_executor, copy_executor,
                 gpu_page, first_page, pages, pin, qkv_pin, hidden_pin>>

\* A copy between the GPUs holds up both streams.
CopySlot ==
  /\ load # <<>> /\ cold # <<>>
  /\ Head(load) = Head(cold)
  /\ LET x == Head(load) IN pages' = [pages EXCEPT ![x.page][x.mb] = pin[x.mb]]
  /\ load' = Tail(load) /\ cold' = Tail(cold)
  /\ UNCHANGED <<pos, cur, offload, prefetch, cpu_executor, copy_executor, gpu_page, first_page,
                 pin, qkv_pin, hidden_pin, hidden_states>>

CopyPage ==
  /\ prefetch # <<>> /\ cold # <<>>
  /\ Head(prefetch) = Head(cold)
  /\ pages' = [pages EXCEPT ![first_page] = [s \in MicroBatchIds |-> 0]]
  /\ prefetch' = Tail(prefetch) /\ cold' = Tail(cold)
  /\ UNCHANGED <<pos, cur, offload, load, cpu_executor, copy_executor, gpu_page, first_page,
                 pin, qkv_pin, hidden_pin, hidden_states>>

RunCold ==
  /\ cold # <<>> /\ Head(cold).op = "to_pin"
  /\ pin' = [pin EXCEPT ![Head(cold).mb] = Head(cold).layer]
  /\ cold' = Tail(cold)
  /\ UNCHANGED <<pos, cur, offload, load, prefetch, cpu_executor, copy_executor,
                 gpu_page, first_page, pages, qkv_pin, hidden_pin, hidden_states>>

Record ==
  /\ prefetch # <<>> /\ Head(prefetch).op = "record"
  /\ prefetch' = Tail(prefetch)
  /\ UNCHANGED <<pos, cur, offload, load, cold, cpu_executor, copy_executor,
                 gpu_page, first_page, buffers>>

cpu_attetion_func ==
  /\ cpu_executor # <<>>
  /\ LET k == Head(cpu_executor).mb
     IN  /\ \A x \in Range(offload) : x.mb # k
         /\ hidden_pin' = [hidden_pin EXCEPT ![k] = qkv_pin[k]]
  /\ cpu_executor' = Tail(cpu_executor)
  /\ UNCHANGED <<pos, cur, offload, load, prefetch, cold, copy_executor, gpu_page, first_page,
                 pages, pin, qkv_pin, hidden_states>>

\* The copy to the pin stays on the second GPU: the task only launches it.
prefetch_experts_to_pin_func ==
  /\ copy_executor # <<>>
  /\ LET x == Head(copy_executor)
     IN  Prefetched(x.mb, x.layer) /\ cold' = Append(cold, x)
  /\ copy_executor' = Tail(copy_executor)
  /\ UNCHANGED <<pos, cur, offload, load, prefetch, cpu_executor, gpu_page, first_page, buffers>>

-----------------------------------------------------------------------------
Main ==
  \/ pre_attention \/ offload_qkv \/ cpu_attention \/ prefetch_experts_to_pin
  \/ load_hidden \/ prefetch_experts \/ post_attention \/ sample

Next ==
  \/ Main
  \/ RunCompute \/ RunOffload \/ RunLoad \/ CopySlot \/ CopyPage \/ RunCold \/ Record
  \/ cpu_attetion_func \/ prefetch_experts_to_pin_func

Spec ==
  /\ Init /\ [][Next]_vars
  /\ WF_vars(Main)
  /\ WF_vars(RunCompute) /\ WF_vars(RunOffload) /\ WF_vars(RunLoad)
  /\ WF_vars(CopySlot) /\ WF_vars(CopyPage) /\ WF_vars(RunCold) /\ WF_vars(Record)
  /\ WF_vars(cpu_attetion_func) /\ WF_vars(prefetch_experts_to_pin_func)

-----------------------------------------------------------------------------
(* Properties *)

Computing == cur # <<>> /\ Head(cur).op = "post_attention" /\ MayCompute(Head(cur))

\* The MoE of a layer starts only when every slot of the page its experts are
\* brought to has arrived.  The event post_attention waits for is recorded on a
\* stream that does not do the copies: what holds them back is load_hidden,
\* which is behind them on the load stream.  The page the MoE reads is that of
\* the mapping: the same one, or, in a step that started with the pointer at
\* page 1, the other one, and no slot of that holds the layer's experts.
PagesArrive ==
  Computing =>
    LET n == Head(cur).layer
    IN  \A s \in MicroBatchIds :
          /\ pages[PageTaken(n)][s] >= n
          /\ first_page = 1 => pages[experts_mapping(n)][s] # n

\* The MoE of a micro-batch works on the attention output of its own layer: no
\* pinned buffer is used again before it was read.
AttentionMatches ==
  Computing => hidden_states[Head(cur).mb] = Head(cur).layer

\* The main thread, the streams and the executors never wait for each other in
\* a circle or for work that was never launched: the decode steps end.
DecodeEnds == <>(pos = Len(Program) + 1 /\ \A i \in 1 .. 7 : queues[i] = <<>>)

\* A slot of the pin is copied on with what its layer put there: no later copy
\* to the pin overtakes it, though the event meant to hold it back is recorded
\* on the wrong stream.  What orders the copies is the stream of cuda:1.
PinStable ==
  load # <<>> /\ cold # <<>> /\ Head(load) = Head(cold) =>
    pin[Head(load).mb] = Head(load).layer

\* A slot of a page is overwritten only when the MoE it was filled for is done, with
\* one exception: the copy of the first slot may run while the last micro-batch
\* of the layer before the last is still at its MoE, since what lets the main
\* thread go on is that micro-batch's turn, not its end.
PageFreeButLast ==
  load # <<>> /\ cold # <<>> /\ Head(load) = Head(cold) =>
    \A x \in Range(cur) :
      x.op = "post_attention" /\ x.layer <= Head(load).layer - 2 =>
        Head(load).mb = 0 /\ x.layer = Head(load).layer - 2 /\ x.mb = num_mb - 1
=============================================================================
