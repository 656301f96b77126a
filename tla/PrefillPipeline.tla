-------------------------- MODULE PrefillPipeline --------------------------
(***************************************************************************)
(* The prefill loop of batch_forward_step, layer by layer and micro-batch  *)
(* by micro-batch.  The main thread launches a layer in two halves         *)
(* (attention, which writes half of the GPU's KV buffer, and the MoE) on   *)
(* the compute stream, the copies of keys and values and of hidden states  *)
(* out on the offload stream, hidden states in on the load stream, and the *)
(* next layer's experts on the prefetch stream.                            *)
(*                                                                         *)
(* kv_data_cpu is pageable memory (TokenToKVPool allocates it unpinned):   *)
(* CUDA returns from an asynchronous copy to such memory when it is done,  *)
(* so the main thread waits for every offload of keys and values.          *)
(*                                                                         *)
(* Buffers hold the number of the layer they were last written for.        *)
(***************************************************************************)
EXTENDS Integers, SequencesExt

CONSTANTS
  NumLayers,   \* model_config.num_hidden_layers
  num_mb       \* micro-batches

ASSUME PrefillAssumption ==
  /\ NumLayers \in Nat \ {0} /\ NumLayers % 2 = 0   \* asserted by init_gpu_experts
  /\ num_mb \in Nat \ {0}

MicroBatchIds == 0 .. num_mb - 1

\* What memory that was given up holds once something else is put there.
Clobbered == -2

VARIABLES
  pos,                            \* the main thread: place in Program
  cur, offload, load, prefetch,   \* the streams: queued work, oldest first
  gpu_page,                       \* weights_prefetch_page_gpu
  first_page,                     \* what it was as the step started
  pages,                          \* the two pages of experts
  kv_data, kv_data_cpu,           \* the halves of the GPU buffer; what each
                                  \* micro-batch has in its line of the pool
  output, loaded,                 \* hidden states on the GPU: as a layer left
                                  \* them, and as they were loaded back
  hidden_states_cpu               \* hidden states in pinned memory

streams == <<cur, offload, load, prefetch>>
buffers == <<pages, kv_data, kv_data_cpu, output, loaded, hidden_states_cpu>>
vars == <<pos, streams, gpu_page, first_page, buffers>>

Op(op, layer, k) == [op |-> op, layer |-> layer, mb |-> k]

-----------------------------------------------------------------------------
(* The calls of a prefill, in order. *)

\* Hidden states go out unless the layer was the last (they are None then).
OffloadHidden(n, k) ==
  IF n < NumLayers - 1 THEN <<Op("offload_hidden", n, k)>> ELSE <<>>

\* The next micro-batch's come in, for layer n or after the last one for n + 1;
\* hidden_states_cpu is None before layer 1 and after the last layer.
LoadHidden(n, k) ==
  IF k + 1 < num_mb
  THEN IF n > 0 THEN <<Op("load_hidden", n, k + 1)>> ELSE <<>>
  ELSE IF n < NumLayers - 1 THEN <<Op("load_hidden", n + 1, 0)>> ELSE <<>>

Turn(n, k) ==
  <<Op("layer", n, k)>>
    \o (IF n = NumLayers - 1 THEN <<Op("sample", n, k)>> ELSE <<>>)
    \o <<Op("offload_kv", n, k), Op("kv_copied", n, k)>>
    \o (IF num_mb > 1 THEN OffloadHidden(n, k) \o LoadHidden(n, k) ELSE <<>>)

Program ==
  <<Op("prefetch", 0, 0)>>
    \o FlattenSeq([i \in 1 .. NumLayers |->
         FlattenSeq([k \in 1 .. num_mb |-> Turn(i - 1, k - 1)])
           \o <<Op("prefetch", i, 0)>>])

Finished == pos = Len(Program) + 1

-----------------------------------------------------------------------------
Layers == Clobbered .. NumLayers

\* A step starts with streams that are done and pages as the last one left them.
\* What a raised step left in the streams runs before, in their order, and into
\* buffers, events and futures that this step makes anew.  Not made anew is the
\* page pointer: only reset, through the flush_cache that a raised step does not
\* come to, sets it back, so that a step may start from either page.
Init ==
  /\ pos = 1
  /\ cur = <<>> /\ offload = <<>> /\ load = <<>> /\ prefetch = <<>>
  /\ first_page \in {0, 1} /\ gpu_page = first_page
  /\ pages = [p \in {0, 1} |-> -1]
  /\ kv_data = [h \in {0, 1} |-> <<-1, 0>>]
  /\ kv_data_cpu = [k \in MicroBatchIds |-> -1]
  /\ output = [k \in MicroBatchIds |-> -1]
  /\ loaded = [k \in MicroBatchIds |-> -1]
  /\ hidden_states_cpu = [k \in MicroBatchIds |-> -1]

-----------------------------------------------------------------------------
(* The pages *)

\* The page experts_mapping has a layer's experts on, by the layer's parity
\* (one page a layer: num_pages_cpu = 1), and the page the prefetches, which
\* take the pages in turn, bring them to.
experts_mapping(n) == n % 2
PageTaken(n) == (n + first_page) % 2

-----------------------------------------------------------------------------
(* The main thread *)

Call(op) == pos <= Len(Program) /\ Program[pos].op = op /\ pos' = pos + 1
Now == Program[pos]

layer ==
  /\ Call("layer")
  /\ cur' = cur \o <<Op("attention", Now.layer, Now.mb), Op("moe", Now.layer, Now.mb)>>
  /\ UNCHANGED <<offload, load, prefetch, gpu_page, first_page, buffers>>

\* Sampling after the last layer reads the tokens back.
sample ==
  /\ Call("sample")
  /\ cur = <<>>
  /\ UNCHANGED <<streams, gpu_page, first_page, buffers>>

offload_kv_cache ==
  /\ Call("offload_kv")
  /\ offload' = Append(offload, Now)
  /\ UNCHANGED <<cur, load, prefetch, gpu_page, first_page, buffers>>

\* Mutation: pinned memory, the copy is not waited for.
KVCopied_mutant == TRUE

KVCopied == ~ \E x \in Range(offload) : x.op = "offload_kv"

kv_copied ==
  /\ Call("kv_copied")
  /\ KVCopied
  /\ UNCHANGED <<streams, gpu_page, first_page, buffers>>

offload_hidden_prefill ==
  /\ Call("offload_hidden")
  /\ offload' = Append(offload, Now)
  /\ UNCHANGED <<cur, load, prefetch, gpu_page, first_page, buffers>>

load_hidden_prefill ==
  /\ Call("load_hidden")
  /\ load' = Append(load, Now)
  /\ UNCHANGED <<cur, offload, prefetch, gpu_page, first_page, buffers>>

_get_prefetch_gpu_slice(n) == 1 - gpu_page

prefetch_experts ==
  /\ Call("prefetch")
  /\ prefetch' = Append(prefetch, [layer |-> Now.layer, page |-> gpu_page])
  /\ gpu_page' = _get_prefetch_gpu_slice(Now.layer)
  /\ UNCHANGED <<cur, offload, load, first_page, buffers>>

-----------------------------------------------------------------------------
(* The streams: the head of a queue runs when what it waits for is done.   *)

Queued(q, op, n, k) == \E x \in Range(q) : x.op = op /\ x.layer = n /\ x.mb = k

\* Mutation: the layer waits for the next page, too.
MayAttend_mutant(n, k) == k = 0 => pages[PageTaken(n + 1)] = n + 1

\* offload_kv_events of the line, prefill_load_hidden_events, and, with the
\* first micro-batch, prefetch_events[0].
MayAttend(n, k) ==
  /\ \A x \in Range(offload) :
        x.op = "offload_kv" /\ x.mb % 2 = k % 2 =>
          x.layer > n \/ (x.layer = n /\ x.mb >= k)
  /\ ~Queued(load, "load_hidden", n, k)
  /\ k = 0 => \A x \in Range(prefetch) : x.layer > n

\* Hidden states the main thread gave up (hidden_states = None) before their
\* copy out has run: what the compute stream allocates next may be put there.
GivenUp ==
  {k \in MicroBatchIds :
     \E x \in Range(offload) : x.op = "offload_hidden" /\ x.mb = k /\ ~Queued(cur, "moe", x.layer, k)}

Reuse(o) ==
  \E K \in SUBSET GivenUp : output' = [k \in MicroBatchIds |-> IF k \in K THEN Clobbered ELSE o[k]]

RunAttention ==
  /\ cur # <<>> /\ Head(cur).op = "attention"
  /\ LET x == Head(cur)
     IN  /\ MayAttend(x.layer, x.mb)
         /\ kv_data' = [kv_data EXCEPT ![x.mb % 2] = <<x.layer, x.mb>>]
  /\ Reuse(output)
  /\ cur' = Tail(cur)
  /\ UNCHANGED <<pos, offload, load, prefetch, gpu_page, first_page, pages, kv_data_cpu, loaded,
                 hidden_states_cpu>>

RunMoE ==
  /\ cur # <<>> /\ Head(cur).op = "moe"
  /\ LET x == Head(cur) IN Reuse([output EXCEPT ![x.mb] = x.layer])
  /\ cur' = Tail(cur)
  /\ UNCHANGED <<pos, offload, load, prefetch, gpu_page, first_page, pages, kv_data, kv_data_cpu,
                 loaded, hidden_states_cpu>>

\* Mutation: the copy does not wait for the attention.
AttentionDone_mutant(n, k) == TRUE

\* attn_events
AttentionDone(n, k) == ~Queued(cur, "attention", n, k)

RunOffloadKV ==
  /\ offload # <<>> /\ Head(offload).op = "offload_kv"
  /\ LET x == Head(offload)
     IN  /\ AttentionDone(x.layer, x.mb)
         /\ kv_data_cpu' = [kv_data_cpu EXCEPT
              ![x.mb] = IF kv_data[x.mb % 2] = <<x.layer, x.mb>> THEN x.layer ELSE Clobbered]
  /\ offload' = Tail(offload)
  /\ UNCHANGED <<pos, cur, load, prefetch, gpu_page, first_page, pages, kv_data, output, loaded,
                 hidden_states_cpu>>

\* compute_events
LayerDone(n, k) == ~Queued(cur, "moe", n, k)

RunOffloadHidden ==
  /\ offload # <<>> /\ Head(offload).op = "offload_hidden"
  /\ LET x == Head(offload)
     IN  /\ LayerDone(x.layer, x.mb)
         /\ hidden_states_cpu' = [hidden_states_cpu EXCEPT ![x.mb] = output[x.mb]]
  /\ offload' = Tail(offload)
  /\ UNCHANGED <<pos, cur, load, prefetch, gpu_page, first_page, pages, kv_data, kv_data_cpu, output, loaded>>

\* The load waits for the layer before, not for the copy out that followed it.
RunLoadHidden ==
  /\ load # <<>>
  /\ LET x == Head(load)
     IN  /\ LayerDone(x.layer - 1, x.mb)
         /\ loaded' = [loaded EXCEPT ![x.mb] = hidden_states_cpu[x.mb]]
  /\ load' = Tail(load)
  /\ UNCHANGED <<pos, cur, offload, prefetch, gpu_page, first_page, pages, kv_data, kv_data_cpu, output,
                 hidden_states_cpu>>

RunPrefetch ==
  /\ prefetch # <<>>
  /\ LET x == Head(prefetch) IN pages' = [pages EXCEPT ![x.page] = x.layer]
  /\ prefetch' = Tail(prefetch)
  /\ UNCHANGED <<pos, cur, offload, load, gpu_page, first_page, kv_data, kv_data_cpu, output, loaded,
                 hidden_states_cpu>>

-----------------------------------------------------------------------------
Main ==
  \/ layer \/ sample \/ offload_kv_cache \/ kv_copied
  \/ offload_hidden_prefill \/ load_hidden_prefill \/ prefetch_experts

Next ==
  \/ Main
  \/ RunAttention \/ RunMoE \/ RunOffloadKV \/ RunOffloadHidden \/ RunLoadHidden \/ RunPrefetch

Spec ==
  /\ Init /\ [][Next]_vars
  /\ WF_vars(Main)
  /\ WF_vars(RunAttention) /\ WF_vars(RunMoE)
  /\ WF_vars(RunOffloadKV) /\ WF_vars(RunOffloadHidden)
  /\ WF_vars(RunLoadHidden) /\ WF_vars(RunPrefetch)

-----------------------------------------------------------------------------
(* Properties *)

Computing == cur # <<>> /\ Head(cur).op = "moe"

\* The experts of a layer are on the page they are brought to when its MoE runs,
\* and the next layer but one does not take the page before.  No event orders
\* the prefetch after the MoE that uses the page: what does is that the main
\* thread waits for the copy of keys and values, and so for the layer before.
\* The page the MoE reads is that of the mapping ("experts_id -> idx in
\* self.context.experts_cache", execution_engine.py:52): theirs if, and only if,
\* the pointer was at page 0 as the step started.
PagesInTime ==
  Computing =>
    LET n == Head(cur).layer
    IN  pages[PageTaken(n)] = n /\ (pages[experts_mapping(n)] = n <=> first_page = 0)

\* A layer's attention starts from the hidden states the layer before left for
\* its micro-batch, never older ones, though the load does not wait for the copy
\* out; unless the memory they were in was used again before that copy.
HiddenInOrder ==
  (cur # <<>> /\ Head(cur).op = "attention" /\ Head(cur).layer > 0 /\ num_mb > 1
     /\ MayAttend(Head(cur).layer, Head(cur).mb)) =>
       loaded[Head(cur).mb] \in {Head(cur).layer - 1, Clobbered}

\* Keys and values reach the pool from the half the layer's attention wrote:
\* neither before it was written nor after the next micro-batch but one.
KVOffloaded ==
  \A k \in MicroBatchIds : kv_data_cpu[k] # Clobbered

\* No stream and no wait of the main thread is in a circle: the prefill ends.
PrefillEnds == <>(Finished /\ prefetch = <<>>)
=============================================================================
