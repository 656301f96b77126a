---------------------------- MODULE MicroBatches ----------------------------
(***************************************************************************)
(* One ModelRpcServer serving generation requests: exposed_step and what   *)
(* it calls.  A step takes the client batches the router collected, one    *)
(* after another: the requests are dealt into micro-batches, every         *)
(* micro-batch gets a cache line of the KV pool, all of them are           *)
(* prefilled and then decoded in lock step, the finished requests are      *)
(* answered and the pool is cleared.  An exception ends the whole step.    *)
(*                                                                         *)
(* Token ids, weights and the streams are left out: the number of tokens   *)
(* of a request and the places of its keys and values in the pool stay.    *)
(***************************************************************************)
EXTENDS Integers, FiniteSets, SequencesExt

CONSTANTS
  Requests,
  input_len,       \* prompt tokens of each request, at least 2
  asked,           \* max_new_tokens of each request
  Sends,           \* the client batches: sequences of distinct requests
  n_ub, ubs,       \* policy: micro-batches and requests in each
  cache_line,      \* TokenToKVPool.cache_line, ubs * (avg_prompt_len + gen_len)
  gen_len,         \* context.gen_len
  context_len,     \* model_config.context_len
  MaxStepBatches,  \* bound: client batches the router hands to one step
  DeviceFaults     \* whether the device may raise (out of memory)

ASSUME BatchAssumption ==
  /\ input_len \in [Requests -> Nat \ {0, 1}]
  /\ asked \in [Requests -> Nat]
  /\ Sends \subseteq Seq(Requests)
  /\ n_ub \in Nat \ {0} /\ ubs \in Nat \ {0}
  /\ cache_line \in Nat \ {0} /\ gen_len \in Nat \ {0}
  /\ context_len \in Nat \ {0, 1, 2}
  /\ MaxStepBatches \in Nat /\ DeviceFaults \in BOOLEAN

VARIABLES
  place,           \* where exposed_step is
  recv_reqs,       \* client batches of this step that are still to be run
  forward_queue,
  unassigned,      \* create_micro_batches: requests not looked at yet
  partitions, partitions_sums,
  micro_batches,
  abort_requests,
  cur_start_loc, cur_cl,   \* TokenToKVPool
  lines,           \* the lines alloc_cpu gave to the micro-batches, in order
  outputs,         \* len(req.output_ids)
  max_new,         \* req.sampling_params.max_new_tokens
  finished,
  decode_step,
  out_pyobjs,      \* requests answered in this step so far
  sent,            \* history: requests clients have sent
  returned         \* history: requests answered in earlier steps

batching == <<forward_queue, unassigned, partitions, partitions_sums,
              micro_batches, abort_requests>>
pool == <<cur_start_loc, cur_cl, lines>>
tokens == <<outputs, max_new, finished, decode_step>>
vars == <<place, recv_reqs, batching, pool, tokens, out_pyobjs, sent, returned>>

Places == {"idle", "receive", "create", "assign", "allocate", "prefill",
           "decode", "finish", "flush", "return"}

Lowest(a, b) == IF a <= b THEN a ELSE b
cpu_size == n_ub * cache_line

\* Prompts longer than the context are cut, input_len keeps the length before.
prompt(r) == Lowest(input_len[r], context_len - 1)

Init ==
  /\ place = "idle"
  /\ recv_reqs = <<>>
  /\ forward_queue = <<>> /\ unassigned = <<>>
  /\ partitions = <<>> /\ partitions_sums = <<>>
  /\ micro_batches = <<>>
  /\ abort_requests = {}
  /\ cur_start_loc = 0 /\ cur_cl = 0
  /\ lines = <<>>
  /\ outputs = [r \in Requests |-> 0]
  /\ max_new = asked
  /\ finished = {}
  /\ decode_step = 0
  /\ out_pyobjs = {}
  /\ sent = {} /\ returned = {}

Goto(p) == place' = p

-----------------------------------------------------------------------------
(* exposed_step *)

\* The router calls step with the batches it has received since the last call.
Step ==
  /\ place = "idle"
  /\ \E s \in Sends : Range(s) \cap sent = {}
  /\ Goto("receive")
  /\ \E n \in 1 .. MaxStepBatches : \E ss \in [1 .. n -> Sends] :
       /\ \A i \in 1 .. n : Range(ss[i]) \cap sent = {}
       /\ \A i, j \in 1 .. n : i # j => Range(ss[i]) \cap Range(ss[j]) = {}
       /\ recv_reqs' = ss
       /\ sent' = sent \cup UNION {Range(ss[i]) : i \in 1 .. n}
  /\ UNCHANGED <<batching, pool, tokens, out_pyobjs, returned>>

\* handle_batch_generate_request: one sampling_params for the whole batch, so
\* the longest prompt sets what every request of it may generate.
BatchLimit(batch) ==
  FoldLeft(LAMBDA m, r : Lowest(m, context_len - 1 - prompt(r)), asked[batch[1]], batch)

Receive ==
  /\ place = "receive" /\ recv_reqs # <<>>
  /\ LET batch == Head(recv_reqs)
     IN  /\ forward_queue' = forward_queue \o batch
         /\ max_new' = [r \in Requests |->
              IF r \in Range(batch) THEN BatchLimit(batch) ELSE max_new[r]]
  /\ recv_reqs' = Tail(recv_reqs)
  /\ Goto("create")
  /\ UNCHANGED <<unassigned, partitions, partitions_sums, micro_batches, abort_requests,
                 pool, outputs, finished, decode_step, out_pyobjs, sent, returned>>

\* All client batches are done: the answers go back to the router.
Return ==
  /\ place = "return" \/ (place = "receive" /\ recv_reqs = <<>>)
  /\ returned' = returned \cup out_pyobjs
  /\ out_pyobjs' = {}
  /\ Goto("idle")
  /\ UNCHANGED <<recv_reqs, batching, pool, tokens, sent>>

\* Mutation: the exception is not caught, and the call never returns.
Raise_mutant ==
  /\ UNCHANGED recv_reqs
  /\ Goto("raised")

\* The except clause: the remaining client batches are forgotten and the cache
\* is not flushed.
Raise ==
  /\ recv_reqs' = <<>>
  /\ Goto("return")

-----------------------------------------------------------------------------
(* create_micro_batches *)

\* Mutation: the queue is not emptied, so its requests run again.
EmptyQueue_mutant == UNCHANGED forward_queue

EmptyQueue == forward_queue' = <<>>

\* A small batch is taken as it is, whatever its length.
Create ==
  /\ place = "create"
  /\ EmptyQueue
  /\ abort_requests' = {}
  /\ lines' = <<>>
  /\ IF Len(forward_queue) < ubs
     THEN /\ micro_batches' = <<forward_queue>>
          /\ unassigned' = <<>> /\ partitions' = <<>> /\ partitions_sums' = <<>>
          /\ Goto("allocate")
     ELSE /\ micro_batches' = <<>>
          /\ unassigned' = forward_queue
          /\ partitions' = [i \in 1 .. n_ub |-> <<>>]
          /\ partitions_sums' = [i \in 1 .. n_ub |-> 0]
          /\ Goto("assign")
  /\ UNCHANGED <<recv_reqs, cur_start_loc, cur_cl, tokens, out_pyobjs, sent, returned>>

\* The first of the longest prompts, the first of the emptiest partitions.
IsLongest(i) ==
  /\ \A j \in 1 .. Len(unassigned) : input_len[unassigned[j]] <= input_len[unassigned[i]]
  /\ \A j \in 1 .. i - 1 : input_len[unassigned[j]] < input_len[unassigned[i]]

IsEmptiest(p) ==
  /\ \A q \in 1 .. Len(partitions) : partitions_sums[p] <= partitions_sums[q]
  /\ \A q \in 1 .. p - 1 : partitions_sums[p] < partitions_sums[q]

\* Mutation: no room is kept for what the new request itself will generate.
Fits_mutant(r, p) ==
  partitions_sums[p] + input_len[r] + Len(partitions[p]) * gen_len <= cache_line

Fits(r, p) ==
  partitions_sums[p] + input_len[r] + (1 + Len(partitions[p])) * gen_len <= cache_line

Abort(r) ==
  /\ abort_requests' = abort_requests \cup {r}
  /\ finished' = finished \cup {r}
  /\ UNCHANGED <<partitions, partitions_sums, micro_batches>>

\* Mutation: a full partition is not taken off the partitions.
TakeOff_mutant(p) == UNCHANGED <<partitions, partitions_sums>>

TakeOff(p) ==
  /\ partitions' = RemoveAt(partitions, p)
  /\ partitions_sums' = RemoveAt(partitions_sums, p)

\* A full partition becomes a micro-batch and makes no room for another.
Put(r, p) ==
  /\ IF Len(partitions[p]) + 1 = ubs
     THEN /\ micro_batches' = Append(micro_batches, Append(partitions[p], r))
          /\ TakeOff(p)
     ELSE /\ partitions' = [partitions EXCEPT ![p] = Append(@, r)]
          /\ partitions_sums' = [partitions_sums EXCEPT ![p] = @ + input_len[r]]
          /\ UNCHANGED micro_batches
  /\ UNCHANGED <<abort_requests, finished>>

\* One turn of the greedy loop.
Assign ==
  /\ place = "assign" /\ unassigned # <<>>
  /\ \E i \in 1 .. Len(unassigned) :
       /\ IsLongest(i)
       /\ unassigned' = RemoveAt(unassigned, i)
       /\ IF partitions = <<>> THEN Abort(unassigned[i])
          ELSE \E p \in 1 .. Len(partitions) :
                 /\ IsEmptiest(p)
                 /\ IF Fits(unassigned[i], p) THEN Put(unassigned[i], p)
                                              ELSE Abort(unassigned[i])
  /\ UNCHANGED <<place, recv_reqs, forward_queue, pool, outputs, max_new,
                 decode_step, out_pyobjs, sent, returned>>

\* What is left of the partitions follows the full ones, the empty ones too,
\* and handle_aborted_requests answers the aborted requests.
EndAssign ==
  /\ place = "assign" /\ unassigned = <<>>
  /\ micro_batches' = micro_batches \o partitions
  /\ partitions' = <<>> /\ partitions_sums' = <<>>
  /\ out_pyobjs' = out_pyobjs \cup abort_requests
  /\ Goto("allocate")
  /\ UNCHANGED <<recv_reqs, forward_queue, unassigned, abort_requests, pool, tokens,
                 sent, returned>>

-----------------------------------------------------------------------------
(* Batch.prepare_for_prefill and the KV pool *)

num_mb == Len(micro_batches)

\* The next line, whether the pool has it or not.
alloc_cpu ==
  /\ lines' = Append(lines, [cpu |-> cur_start_loc, gpu |-> cur_cl * cache_line])
  /\ cur_start_loc' = cur_start_loc + cache_line
  /\ cur_cl' = (cur_cl + 1) % 2

\* An empty micro-batch, or a device without room for a batch's tensors, raises
\* after the batch was given its line.
Allocate ==
  /\ place = "allocate"
  /\ Len(lines) < num_mb
  /\ alloc_cpu
  /\ \/ /\ DeviceFaults \/ micro_batches[Len(lines) + 1] = <<>>
        /\ Raise
     \/ /\ micro_batches[Len(lines) + 1] # <<>>
        /\ Goto(IF Len(lines) + 1 = num_mb THEN "prefill" ELSE "allocate")
        /\ UNCHANGED recv_reqs
  /\ UNCHANGED <<batching, tokens, out_pyobjs, sent, returned>>

\* The places of the pool that a request may use, and those of some requests.
room(r) == prompt(r) + gen_len
Rooms(batch) == FoldLeft(LAMBDA n, r : n + room(r), 0, batch)

\* Where the keys and values of the i-th request of a micro-batch start,
\* relative to its line.
Before(batch, i) == Rooms(SubSeq(batch, 1, i - 1))

StoreSize(batch) == Before(batch, Len(batch)) + prompt(batch[Len(batch)])

\* The slices of TokenToKVPool.store have the size that is copied.
StoreFits(k) ==
  /\ lines[k].gpu + StoreSize(micro_batches[k]) <= 2 * cache_line
  /\ (lines[k].cpu % (2 * cache_line)) + StoreSize(micro_batches[k]) <= 2 * cache_line
  /\ lines[k].cpu + StoreSize(micro_batches[k]) <= cpu_size

Members(k) == Range(micro_batches[k])
Live == UNION {Members(k) : k \in 1 .. num_mb}

\* A token is sampled for every request of every micro-batch, for the finished
\* ones too.  Any token may be the end of sequence.
Sample ==
  /\ outputs' = [r \in Requests |-> IF r \in Live THEN outputs[r] + 1 ELSE outputs[r]]
  /\ \E eos \in SUBSET (Live \ finished) :
       finished' = finished \cup eos
                     \cup {r \in Live : outputs[r] + 1 >= max_new[r]}

num_decode_steps == IF num_mb > 1 THEN gen_len - 1 ELSE 1

NextDecode(s) == Goto(IF s < num_decode_steps THEN "decode" ELSE "finish")

Prefill ==
  /\ place = "prefill"
  /\ \A k \in 1 .. num_mb : StoreFits(k)
  /\ Sample
  /\ decode_step' = 0
  /\ NextDecode(0)
  /\ UNCHANGED <<recv_reqs, batching, pool, max_new, out_pyobjs, sent, returned>>

PrefillRaises ==
  /\ place = "prefill"
  /\ DeviceFaults \/ \E k \in 1 .. num_mb : ~StoreFits(k)
  /\ Raise
  /\ UNCHANGED <<batching, pool, tokens, out_pyobjs, sent, returned>>

\* decode_out_cache_loc of the i-th request of micro-batch k in round s = 1, 2, ...
WriteAt(k, i, s) ==
  lines[k].cpu + Before(micro_batches[k], i) + prompt(micro_batches[k][i]) - 1 + s

WritesInPool(s) ==
  \A k \in 1 .. num_mb : \A i \in 1 .. Len(micro_batches[k]) : WriteAt(k, i, s) < cpu_size

Decode ==
  /\ place = "decode"
  /\ WritesInPool(decode_step + 1)
  /\ Sample
  /\ decode_step' = decode_step + 1
  /\ NextDecode(decode_step + 1)
  /\ UNCHANGED <<recv_reqs, batching, pool, max_new, out_pyobjs, sent, returned>>

DecodeRaises ==
  /\ place = "decode"
  /\ DeviceFaults \/ ~WritesInPool(decode_step + 1)
  /\ Raise
  /\ UNCHANGED <<batching, pool, tokens, out_pyobjs, sent, returned>>

-----------------------------------------------------------------------------
(* The end of a client batch *)

\* handle_finished_requests for every micro-batch: the finished requests are
\* answered, and the others go when any of theirs has finished.
Finish ==
  /\ place = "finish"
  /\ out_pyobjs' = out_pyobjs \cup (Live \cap finished)
  /\ micro_batches' = [k \in 1 .. num_mb |->
       IF Members(k) \cap finished # {} THEN <<>> ELSE micro_batches[k]]
  /\ Goto("flush")
  /\ UNCHANGED <<recv_reqs, forward_queue, unassigned, partitions, partitions_sums,
                 abort_requests, pool, tokens, sent, returned>>

\* Mutation: the pool starts again at its first line, the GPU buffer does not.
Clear_mutant == cur_start_loc' = 0 /\ UNCHANGED cur_cl

Clear == cur_start_loc' = 0 /\ cur_cl' = 0

\* flush_cache resets the engine unless requests are queued.
Flush ==
  /\ place = "flush"
  /\ IF forward_queue = <<>>
     THEN micro_batches' = <<>> /\ lines' = <<>> /\ Clear
     ELSE UNCHANGED <<micro_batches, pool>>
  /\ Goto("receive")
  /\ UNCHANGED <<recv_reqs, forward_queue, unassigned, partitions, partitions_sums,
                 abort_requests, tokens, out_pyobjs, sent, returned>>

-----------------------------------------------------------------------------
Serve ==
  \/ Receive \/ Create \/ Assign \/ EndAssign \/ Allocate
  \/ Prefill \/ PrefillRaises \/ Decode \/ DecodeRaises \/ Finish \/ Flush \/ Return

Next == Step \/ Serve

Spec == Init /\ [][Next]_vars

FairSpec == Spec /\ WF_vars(Serve)

-----------------------------------------------------------------------------
(* Properties *)

Running == place \in {"prefill", "decode", "finish"}
Answered == returned \cup out_pyobjs

\* The places of the KV pool that the i-th request of micro-batch k may use.
Span(k, i) ==
  LET start == lines[k].cpu + Before(micro_batches[k], i)
  IN  start .. start + room(micro_batches[k][i]) - 1

\* Two requests that run together never share a place of the CPU pool, also
\* after steps that raised and left the pool where it was, and the key and
\* value written in a round of decoding are within the request's own places.
SpansApart ==
  Running =>
    \A k, l \in 1 .. num_mb :
      \A i \in 1 .. Len(micro_batches[k]), j \in 1 .. Len(micro_batches[l]) :
        /\ <<k, i>> # <<l, j>> => Span(k, i) \cap Span(l, j) = {}
        /\ place = "decode" => WriteAt(k, i, decode_step + 1) \in Span(k, i)

\* The offload of a micro-batch reads the half of the GPU buffer its prefill
\* wrote: alloc_cpu counts halves, store derives the half from the CPU line.
OffloadReadsPrefill ==
  \A k \in 1 .. Len(lines) : lines[k].gpu = lines[k].cpu % (2 * cache_line)

\* What the greedy loop admits fits the pool: when the pool was clear, nothing
\* it gave out is beyond the pool or beyond a line.
AdmittedFits ==
  Running /\ lines[1].cpu = 0 /\ Cardinality(Live \cup abort_requests) >= ubs =>
    \A k \in 1 .. num_mb :
      /\ lines[k].cpu + cache_line <= cpu_size
      /\ \A i \in 1 .. Len(micro_batches[k]) :
           Span(k, i) \subseteq lines[k].cpu .. lines[k].cpu + cache_line - 1

\* The requests of the client batches that are still to be run, and those of the
\* batch that runs.
Queued == UNION {Range(recv_reqs[i]) : i \in 1 .. Len(recv_reqs)}
InPartitions == UNION {Range(partitions[p]) : p \in 1 .. Len(partitions)}
InBatch == Range(unassigned) \cup Live \cup abort_requests \cup InPartitions

\* The requests of the running step that may still be answered in it.
InService ==
  CASE place \in {"idle", "return"} -> {}
    [] place \in {"receive", "create", "flush"} -> Queued \cup Range(forward_queue)
    [] OTHER -> Queued \cup Range(forward_queue) \cup (InBatch \ out_pyobjs)

\* A request is answered at most once, and only by the step that took it.
Service == INSTANCE StepService WITH waiting <- InService, answered <- Answered

ImplementsService == Service!Spec

\* exposed_step returns, whatever raises in it.
StepReturns == place # "idle" ~> place = "idle"
=============================================================================
