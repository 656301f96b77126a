# A verification project for HarvestMoE

TLA+ models of the HarvestMoE serving system (the `fastmoe` package), the TLC
runs that check them on small instances, and proofs checked by TLAPS. Paths
below are relative to the root of the repository unless they start with a
module name; `EE` stands for `fastmoe/backend/execution_engine.py`, `RPC` for
`fastmoe/serve/router/model_rpc.py` and `ER` for
`fastmoe/backend/expert_reallocation.py`.

## 1. The system

HarvestMoE serves mixture-of-experts models whose weights do not fit the GPU.
Requests come in over HTTP, are tokenized and sent to a router process that
collects them and calls the model server; the model server runs them in
micro-batches, prefilling on the GPU and decoding with attention on the CPU
and the experts on the GPU, while streams bring in the experts of the next
layer. Some experts of each layer live on the GPU permanently, and clients can
ask for experts to be moved in and out of those places while the server runs.

| Component | State it keeps | Operations | Interaction | What makes it hard | What makes it correct |
|---|---|---|---|---|---|
| Serving pipeline (`serve/tokenizer_manager.py`, `serve/router/manager.py`, `serve/detokenizer_manager.py`) | `rid_to_state` with an answer list, a flag and an event per request; `recv_reqs`; three ZeroMQ queues | `generate_request`, the two `handle_loop`s, `loop_for_forward`, `loop_for_recv_requests` | queues between processes; coroutines of one process share dictionaries and lists | coroutines interleave at every `await` and `yield`; answers come out of order; clients go away | no request lost or doubled; no interleaving ends a loop; an answered call ends |
| Step engine (`RPC` `exposed_step`, `backend/task.py`, `backend/memory.py`, part of `EE`) | `forward_queue`, micro-batches, `cur_start_loc` and `cur_cl` of the KV pool, `output_ids` and `finished` of each request, `out_pyobjs` | `exposed_step` and what it calls: batching, allocation, prefill, decode rounds, answers, flush | called by the router over RPyC; hands lines of the pool to micro-batches | an exception anywhere drops the rest of a step and leaves the pool where it was; admission against pool sizes; numbers of rounds | places of the pool never shared; the offload reads what the prefill wrote; one answer at most per request; the step returns |
| Decode pipeline (`EE`, `RPC` 186-241) | four CUDA streams and the stream of a second GPU, two executors, events and futures per micro-batch, pinned buffers, two pages of experts | `pre_attention`, `offload_qkv`, `cpu_attention`, `load_hidden`, `prefetch_experts`, `prefetch_experts_to_pin`, `post_attention` | the main thread launches work and waits for some of it | every order of streams and executors; buffers used again two turns later | data of the right layer when a MoE starts; no blocking |
| Prefill pipeline (`EE`, `RPC` 167-184) | as above, with hidden states going out and in | `layer`, `offload_kv_cache`, `offload_hidden_prefill`, `load_hidden_prefill`, `prefetch_experts` | as above | as above | as above |
| Expert mover (`ER` `ExpertMover`, `backend/expert_tracker.py`) | tracker location and slot, `experts_mapping`, rows of `experts_cache`, `cpu_expert_storage`, `sync_events`, a lock, a copy stream | `move_expert_to_gpu`, `move_expert_to_cpu`, `cleanup_completed_events` | called by threads of the RPC server, shares mapping and rows with the kernels | moves return before their copies ran; cleanup without the lock; failures between any two writes | slots exclusive; tracker and mapping agree; rows end with the right weights; the lock is released |
| Reallocation requests (`ER` `ReallocationManager`, handlers in `RPC`) | active and completed requests and their status | submit, submit a batch, process, cancel, status, statistics | handlers call the mover | status is written outside the manager's lock | no request lost; outcomes agree with the placement; every request ends |
| Policy optimizer (`backend/optimizer.py`) | none | `solve`, `get_nb_ub`, `solve_lp` | once at start-up, before the engine allocates | doubling and bisection around a linear program; a walk that stops early | ends; the bound is exact; no faster policy is missed |
| HTTP API, launch, ports (`serve/server.py`, `utils/port_utils.py`, `utils/utils.py`) | server arguments, ports, three pipes | `Runtime`, `launch_server`, `handle_port_init`, the start functions of the processes | starts the processes and waits for a word from each | ports are probed in one process and bound in another; a child may fail at any point | ports distinct; "init ok" means a pipeline; no wait without end |
| Weights loading (`backend/model_runner.py`, `layers/linear.py`, `load_weights` and `weight_loader` of the models) | parameters of each tensor-parallel rank | `load_weights` of three classes | every rank reads the whole checkpoint | shards by rows, columns and parts; replicated key heads; a page layout the kernels repeat | query heads meet their key heads; pages hold what the kernels look for |
| Models (`models/*-offload.py`, `layers/attention.py`, `backend/task_meta.py`) | hidden states, residual and projections a batch carries from call to call | `forward` by parts: `ALL`, `PREATTN`, `CPU_ATTN`, `POSTATTN` | called by the engine through `ModelRunner` | one layer is cut into calls on two devices; three classes carry the residual in different ways | logits are those of the uncut model |
| Kernels (`csrc/flashattention.cpp`, `layers/context_flashattention_nopad.py`, `layers/stacked_fused_moe.py`) | accumulators of a thread or a program | CPU decode attention, prefill attention, fused MoE | launched by the models | online softmax in blocks, ragged sequences, padded blocks, tasks dealt to threads | results by the definition; everything written once; nothing read out of bounds |
| Paged KV cache (`backend/paged_kv_cache.py`) | free blocks and blocks of each sequence, per layer | allocate, free, write, read, swap, load | built by the engine; only its free blocks are read | blocks leak when a sequence allocates twice | blocks owned once; none lost |

Left aside: kernels nothing calls (`cuda-src/`, part of `layers/`), sampling,
prompt templates and wire schemas, and the benchmarks, plots, tests and tools
around the server.

## 2. Modules

```
ExpertCacheLayout <-- ExpertPlacement                (abstract)
       ^                     ^ refinement
       +---- ExpertMover ----+
                 ^
        ReallocationService <-- ExpertMoverProofs    (of both)
                              StepService             (abstract)
                                ^        ^ used by
                  refinement    |        |
                         MicroBatches   ServingPipeline --+
                             ^                            |
                   MicroBatchesProofs         Launch -----+--> ServerProofs
                                        PolicySearch -----+
        DecodePipeline <-- DecodePipelineProofs
        PrefillPipeline <-- PrefillPipelineProofs
        WeightLoading --+
                        +--> ModelRunner <-- ModelRunnerProofs
        StagedForward --+
        ContextAttention --+
                           +--> PrefillKernels <-- PrefillKernelsProofs
        FusedMoE ----------+                               CPUAttention
```

`MC...` modules only give constants their values; modules ending in `Proofs`
hold theorems about the modules they extend (section 4), and SequenceLemmas what
several of them need of numbers and sequences. Launch and FusedMoE take a set of
numbers as a list from SortedSets.

**ExpertCacheLayout** has the constants of the experts cache and its rows:
the persistent rows of each layer, the two pages layers of one parity share,
and the slots and mapping that `init_gpu_experts` starts with.

**ExpertMover** has one variable for each piece of state the mover touches:
`location` and `slot` are the tracker's, `mapping` is `experts_mapping`, `rows`
and `store` are what the persistent rows and the CPU storage hold (whose
weights, and whether they are the model's), `stream` the queued copies,
`events` the keys of `sync_events`, `lock` the mover's lock, and `pc`, `arg`,
`target`, `listed` the threads. A move is split where another thread or the
stream can see it: at the lock, at each access to `sync_events` (cleanup works
on that dictionary without the lock), and between the writes of tracker and
mapping. Failures (`CopyToGpuFails`, `CopyToCpuFails`, a `KeyError` in
`RecordToGpu`, `FetchEvent` and `RecordToCpu`) release the lock and undo
nothing, as the `except` clauses do. `cleanup_completed_events` is a scan that
raises when the dictionary changes size under it, and deletions one by one.
Events follow CUDA: complete when the copies recorded under them have run, and
complete when nothing was recorded.

**ExpertPlacement** is what reallocation promises: every expert is in CPU
memory or in a slot of its own layer that nobody else has. The refinement maps
`home` to the tracker's slot.

**ReallocationService** extends ExpertMover with the manager's requests and the
handlers: `Submit` books one request or a batch, `Process` calls the mover (or
refuses `preload_cache` and the like), `Report` writes the outcome without the
manager's lock and answers the client (`succeeded`), `Book` moves the request to
the completed ones, `Stats` runs the cleanup. `cancel_request` is two actions:
`CancelLooks` finds a request pending and takes the lock, `CancelWrites` makes it
cancelled. In between `Submit` and `Book` wait for the lock; `Process` and `Report`
do not.

**MicroBatches** is `exposed_step`: `Receive` (truncation, and one shared
`sampling_params` per client batch), `Create` / `Assign` / `EndAssign`
(`create_micro_batches`, one action per turn of its greedy loop, and the answers
for aborted requests), `Allocate` (`alloc_cpu` per micro-batch; an empty one
raises, and so may the device), `Prefill`, `Decode` (one round for all
micro-batches, in which any unfinished request may meet an end token), `Finish`,
`Flush`, `Return`, and `Raise` for the `except` clause. Token values are left
out; what remains of the KV pool are places: where each micro-batch's line
starts in the CPU pool and in the GPU buffer, where each request's keys and
values are in it, and the slices that would not have the size copied into them.

**StepService** is what the router relies on: a step takes requests it has not
answered, answers some of them at most once and forgets the others. MicroBatches
implements it; ServingPipeline has it for the engine's part of a step.

**ServingPipeline** is a generation request on its way through the processes.
`Generate` sends and registers without an `await` in between, as the code does;
`Respond`, `Yield` / `Resume`, and `Gather` are the three shapes of
`generate_request`'s end; `Handle` is one object in `handle_loop`, which dies of
a request it does not know; `Receive`, `CallStep`, `ReturnStep` are the router's
loops.

**DecodePipeline** is the decode loop. `Program` is the sequence of calls the
main thread makes (`batch_forward_step` with `get_prefetch_e2p_idx`); the
streams and executors are queues whose heads run when the events they wait for
are complete. `experts_pin` and the cold experts are on `cuda:1`: PyTorch runs
a copy between two GPUs on the source's current stream, in step with the
destination's, so such a copy is in two queues (`load` or `prefetch`, and
`cold`) and runs at the head of both. Buffers hold the number of the layer they
were last filled for.

Which page a copy goes to is counted by `weights_prefetch_page_gpu`, which page a
MoE reads is fixed by the layer's parity (`experts_mapping`). Only `reset()` puts
the count back to 0, and a step that raises does not get there, so both pipelines
start with the count at either value (`first_page`); within a step it stays what
it was but for the copies' own steps. `PageTaken` is the page a layer's experts are
brought to.

**PrefillPipeline** is the prefill loop, built as DecodePipeline is. Each
layer is two entries of the compute stream: the attention, after which
`attn_events` is recorded and the micro-batch's half of the GPU's KV buffer is
written, and the MoE. `kv_data_cpu` is allocated without `pin_memory`
(`backend/memory.py` 26), and CUDA returns from a copy to pageable memory only
when it is done, so `kv_copied` makes the main thread wait; the prefetch of a
page and the reuse of a half are safe through that wait and nothing else.
`offload_hidden_prefill` sets `hidden_states = None` right after it launched
the copy: `Reuse` lets the allocator put something else there before the copy
ran, which is remembered as `Clobbered`.

**Launch** is the start of the server through `Runtime`: `handle_port_init` in
the client's process and again in the API process, the router with its engine,
the detokenizer, the two blocking `recv`s, the API process's own engine, the
HTTP server and the readiness poll. `owner` says who holds each port, `Taken`
is another program that takes one. Processes that raise with children wait for
them; processes are forked and hold the Runtime's pipe, so the Runtime sees
end-of-file only when the last of them is gone.

**PolicySearch** is `solve` and `get_nb_ub`, one action per turn of their
loops. For `gattn = 0`, the value `solve_lp` sets, the linear program has one
free variable, the share `wg` of experts on the GPU: time falls with it, so its
optimum is the largest share the GPU has room for, and the program can be
written down (`gpu_room`, `wg`, `cpu_fits`, `LayerTime`).

**WeightLoading** has one action, `LoadNext`: a rank copies its part of the next
tensor. The loaders are functions from places of a parameter to the elements
copied there; how the attention splits its heads (`q_heads`, `kv_heads`) is
written from the models, apart from how `QKVParallelLinear` loads them. A
configuration is one that the constructors accept: for phi with fewer key heads
than ranks, whose rows the ranks must still divide (`layers/linear.py` 268), too.

**StagedForward** follows one micro-batch through the engine's calls for the
three classes of model. A tensor is symbolic: a hidden state is the set of terms
it is the sum of, and each term names its layer and what it was computed from.
`hidden_states`, `residual`, `qkv`, the two pinned buffers and the KV pool are
what survives from call to call; `prepare_for_decode` moves length, position
and row on. **ModelRunner** composes the two: all ranks load, then run together.

**CPUAttention** is `cpu_flash_decode_gqa`: `Begin`, `StartTask`, `Scores`,
`Softmax`, `Weigh`, `Store` per thread, with the thread's buffers kept between
tasks as in the code. Powers are of 2 and fixed-point with enough bits to be
exact (`Bits`), so "equal to the softmax" is an equation between integers.

**ContextAttention** and **FusedMoE** are the kernels of the prefill, one action
per program of the launch grid, composed by **PrefillKernels** in stream order
with the choice of the last tokens. FusedMoE's values name the rows they are
products of; addresses (the two views of a page, the offset of w2, row-major
results, padded blocks, masks) are computed as the kernel does.

Abstractions shared by all modules: processes do not crash once they serve
(Launch has their failures before that), ZeroMQ keeps the order of messages and
loses none, RPyC calls do not time out. Nothing in the code handles these
failures.

## 3. Runs

Bounds are named constants: `MaxPending` (a mover call starts only while fewer
copies are queued), `MaxRequests`, `MaxStepBatches`, `Steps`, `MaxTaken` (ports
other programs take), `DecodeSteps`, `Bits`.

| Run | Instance | Properties and what they show |
|---|---|---|
| `mover` | 2 layers, 3 experts, 2 slots per layer; 2 threads move experts 1 and 2 of layer 0 | `SlotsExclusive`, `NoSharedRow`, `MappingAgrees`: placement stays sound through every interleaving and failure. `SlotsHoldTheirExperts`: once the queued copies have run each slot holds its own expert's weights, although calls return before their copies and copies in opposite directions are queued for one row. `ImplementsPlacement`. |
| `reallocation` | 2 layers, 2 experts, 1 slot; 3 requests, single, in a swapping batch or in an empty one, cancels | `OutcomesAddUp`: what the clients are told adds up to where each expert is, and each status is what its client was told, or cancelled (`StatusTold`). `EveryRequestEnds`; with it, that waiting for an event under the mover's lock ends and the locks are released on every path. |
| `micro_batches` | 3 micro-batches of 2, `gen_len` 3, lines of 12 tokens, 9 requests in 5 client batches, up to 2 batches per step, device faults | `SpansApart`: requests that run together never share a place of the pool, also after steps that raised without clearing it. `OffloadReadsPrefill`: the two computations of the GPU half agree. `AdmittedFits`, `ImplementsService`, `StepReturns`. |
| `serving` | a single call, a stream, a batch of one, a list of two | `RequestsConserved`, `HandleLoopSurvives`, `CallsEnd`. |
| `decode` | 4 layers, 3 micro-batches, 2 decode steps, the page pointer at 0 or 1 | `PagesArrive`: every slot of the page a layer's experts are brought to has arrived when the MoE starts (and, if the pointer was at 1, none of them is on the page it reads), though the event it waits for is on the wrong stream; what holds it back is `load_hidden` behind the copies. `AttentionMatches`: the MoE has its own layer's attention. `PinStable`: a slot is copied on before the pin is overwritten. `PageFreeButLast`: a slot of a page is overwritten when its MoE is done, but for the first slot, which may go while the last micro-batch still computes (nothing orders the load stream after the compute stream). `DecodeEnds`: no circular wait and no future that was never made. |
| `prefill` | 4 layers, 3 micro-batches, the page pointer at 0 or 1 | `PagesInTime`: when a layer's MoE runs its experts are on the page they were brought to, neither too early nor overwritten, and that is the page it reads if and only if the pointer was at 0. `HiddenInOrder`: attention starts from the previous layer's hidden states, unless their memory was used again first. `KVOffloaded`: the pool gets what the layer's attention wrote. `PrefillEnds`. The mutant with pinned memory shows what the first two hang on. |
| `policy` | 71 machines: none, some or all experts fit; memory of GPU or CPU is short; each part is the slowest | `BoundExact`: `get_nb_ub` is exact though it answers one less than where its bisection ends. `BestFound`: stopping at the first slower number, and at the first size that does not fit, misses no faster policy. `SearchEnds`. |
| `launch` | 7 ports; one GPU with three ports named or five with one twice, two GPUs; two ports taken by others | `PortsApart`, `ServingComplete`: "init ok" means the three processes hold their ports whatever others and NCCL took. `HandshakeSettles`: a child that fails, in any order, does not leave `launch_server` in `recv` or the Runtime waiting. |
| `cpu_attention` | 3 sequences of 1, 3 and 2 keys, blocks of 2, 2 key heads of 2 query heads, 2 threads | `OutputExact`, `AllWritten`. |
| `prefill_kernels` | 2 prompts of 3 and 1 tokens, blocks of 2; 4 tokens, 3 experts, top 2, blocks of 4 x 2 x 2 | `AttentionExact`, `MoEExact`, `LoadsInBounds`, `LayerEnds`. |
| `model_runner` | 2 ranks and 2 layers for each class; 4 ranks on 2 key heads, for mixtral and phi; 2 decoded tokens | `HeadsMeet`: each rank's query heads meet their columns of the output projection and, where ranks have whole key heads, their keys and values; phi on 4 ranks has fewer rows than one head. `PagesMatch`, `LogitsExact`. |
| `weights_genuine` | as `mover` | `PersistentWeightsGenuine` is violated, see below. |

Why the bounds are enough to be interesting: `mover` has a persistent and a
cold expert of one layer compete for a slot while the other layer's rows lie
next to them; two threads are enough for every pair of racing calls, and a
third would only repeat them. The client batches of `micro_batches` are chosen
one per case of `create_micro_batches` (below `ubs`, longer than a line and
than the context, an empty partition, a full one, aborts), and two per step let
the first one's failure meet the second's pool. In `serving` each shape of call
occurs once and up to five requests are in flight. `decode` has the least
number of micro-batches for which attention runs two turns ahead; two steps show
the hand-over between steps, four layers both pages twice in each. Both
pipelines were also run with four micro-batches.

`policy` has machines on both sides of every comparison, and one where a
micro-batch of 36 fits, the first size after the step of 32. `launch` has fewer
ports than two servers would like, so that probing fails, draws collide and
others' ports decide. In `cpu_attention` scores rise, fall and repeat between
blocks, a block is full, cut short or alone, a thread's chunk crosses from one
sequence to the next, and a row belongs to nobody. In `prefill_kernels` there
are programs on the diagonal, across the end of a prompt and with nothing to
do, an expert with a full block and one with none, and columns that do not
fill their last block. `model_runner` has both sides of "as many key heads as
ranks".

Fairness. `reallocation`: the copy stream, a thread inside a move or a
handler and a cancel that has looked go on (CUDA streams progress, the RPC
server's threads are scheduled); nobody has to start a call. `micro_batches`: a
started step goes on; no client has to send. `serving`: the loops and a
coroutine whose event is set run on, and a step returns, which is `StepReturns`;
clients need not call, resume is the event loop's. `decode` and `prefill`: the
main thread, each stream and each executor. `launch`: every process that is
running goes on; other programs need not take ports. `policy`, `cpu_attention`,
`prefill_kernels`, `model_runner`: a program that is running goes on (OpenMP
threads run to their end, streams run what is queued).

Deadlock is not checked where the system may stop: no more requests
(`reallocation`, `micro_batches`, `serving`), the end of a
loop, a search or a launch (the others but `mover`).

### What the code does against what it says

One run checks a statement of the repository and finds it violated.

`weights_genuine`: an expert that was not demoted before is not in
`cpu_expert_storage`, and a move to the GPU copies random weights over its slot
(`ER` 432), against "Move an expert from CPU to GPU persistent storage" (`ER` 205).

Further disagreements met while modelling, on which no run is spent; the models
have the behaviour of the code, and for the first three a property of a passing
run says what it is:

- `cancel_request`, "Cancel a pending request" (`ER` 123), looks at the status and
  writes it (`ER` 127, 128) under the manager's lock; the handler writes it without
  (`RPC` 393, 446). A move that is done and reported in between is left as
  cancelled. `StatusTold` allows exactly this: a request whose client was told of
  success is completed or cancelled. Nothing in the repository calls
  `cancel_request`.
- A step that raises after an odd number of prefetches (an over-long prompt's
  `store` or a device error in layer 0; both raise in MicroBatches) leaves the page
  pointer at 1, since only `reset()` (`EE` 566) puts it back. The next step's prefill
  brings layer 0 to page 1, and `experts_mapping`, the "experts cache mapping:
  experts_id -> idx" (`EE` 52), says page 0: every layer's MoE reads the experts of
  another. The step's decode goes on from there and is shifted alike; the reset at
  the step's end puts it right. `PagesInTime` says of the prefill that a MoE reads
  its own experts if and only if the pointer was at 0, `PagesArrive` of the decode
  that with the pointer at 1 none of the slots it reads holds them.
- phi's constructor says that with fewer key heads than ranks "we replicate the KV
  heads across multiple tensor parallel GPUs" (`models/phimoe-offload.py` 336);
  `k_proj` and `v_proj` deal the rows out, so a rank has a part of a key head. The
  last part of `HeadsMeet` says so.
- `EE` 51 calls `experts_mapping` an index into the experts cache; after a move
  to the CPU (`ER` 353) it holds `-expert_id - 1`.
- `atomic=True` means "all succeed or all fail" (`ER` 57); the handler never
  looks at it (`RPC` 440).
- With one micro-batch there is one decode round, so a small batch is not
  finished and not answered unless it ends early; an empty partition raises, and
  the step's requests are forgotten.
- Finished requests go on decoding with their micro-batch, and the answer has
  all tokens (`EE` 422).
- The comment at `EE` 259 says the task waits for the previous prefetch; the
  event it waits for is recorded on another stream.

## 4. Proofs

Each theorem holds for every value of its module's constants, under the
assumption that the module states and TLC evaluates on each of its runs.

| Module | Theorems | For every |
|---|---|---|
| ExpertMoverProofs | `TypeCorrect`, `SlotsExclusiveAlways`, `NoSharedRowAlways`, `MappingAgreesAlways`, `LayerCapacityAlways`, `MoverImplementsPlacement`, `SlotsHoldAlways` | number of layers, experts and slots (at most as many as experts), set of threads, length of the copy stream |
| ExpertMoverProofs, of the service | `ServiceDrivesMover`, `OutcomesAddUpAlways` | the same with finitely many threads, and set of requests and of batches, the empty batch included |
| MicroBatchesProofs | `OffloadReadsPrefillAlways`, `SpansApartAlways`, `AdmittedFitsAlways`, `StepImplementsService` | requests, prompt lengths (at least 2), asked lengths, client batches, `n_ub`, `ubs`, `cache_line`, `gen_len`, context length (at least 3) |
| PrefillPipelineProofs | `PagesInTimeAlways`, `HiddenInOrderAlways`, `KVOffloadedAlways` | even number of layers, number of micro-batches, either page for the first prefetch |
| DecodePipelineProofs | `PagesArriveAlways`, `AttentionMatchesAlways`, `PinStableAlways`, `PageFreeButLastAlways` | even number of layers, number of micro-batches (at least 3), number of decode steps, either page for the first prefetch |
| ServerProofs, of the pipeline | `RequestsConservedAlways`, `HandleLoopSurvivesAlways` | calls of the four kinds with ids of their own, number of objects a step returns |
| ServerProofs, of the launch | `PortsApartAlways`, `ServingCompleteAlways` | finite set of ports, server arguments, number of retries and of ports taken by others |
| ServerProofs, of the policy search | `BoundIsExact`, `BestIsFound` | set of machines whose sizes and times are natural numbers, with more than two layers, and experts and requests that take memory |
| ModelRunnerProofs, of the calls | `LogitsExactAlways` | class of model, number of layers and of decode steps |
| ModelRunnerProofs, of the loaders | `HeadsMeetAlways`, `PagesMatchAlways` | set of configurations that the constructors of the attention and its projections accept, whose key heads divide the query heads and whose intermediate size the ranks divide; phi with fewer key heads than ranks is among them, and there `HeadsMeet` says that no rank has a whole key head; any pace of the ranks, the checkpoint in order or reversed |
| PrefillKernelsProofs | `LoadsInBoundsAlways`, `MoEExactAlways` | number of tokens, experts and experts per token, hidden and intermediate size, block and group sizes (each at least 1), pages of the experts, routing of each token to different experts, class of model; any order of the programs |

None of these properties is inductive. What was added to each, and why:

**The mover's placement.** `TypeInv` is `TypeOK` with what a thread's place says
of its variables (a thread in a move has an expert and a slot), without which
the queued copies are untyped. `IInv` adds `LockInv` (a thread between the lock
and the release is the lock's holder, so at most one move is under way),
`FreeTarget` (the slot a promotion has chosen stays free of every persistent
expert until the tracker is written), `MoveInv` (what tracker and mapping say of
the expert being moved, step by step) and `PlacementInv` (for every other expert
they agree). Actions that leave the placement alone preserve it at once
(`QuietSafety`); the moves are taken one by one. The refinement follows from the
same invariant: `TrackGpu` is a `Promote` because of `FreeTarget`, `TrackCpu` a
`Demote`, everything else leaves `home` unchanged.

**What the rows hold.** A call returns before its copy ran, so nothing can be
said of the rows themselves: `HoldInv` speaks of `Drained`, the memory once the
stream is empty. Running the head of the stream does not change it, and queueing
a copy changes it at that copy's row or place alone (`Drained` after an append
is one copy more). `StoreHolds` says what the CPU storage will have, `MoveHolds`
what a move that is not tracked yet has already queued, `RowsFull` that
every row holds some expert's weights.

**The reallocation service.** `ServiceDrivesMover` is trace inclusion: every
behaviour of the handlers is one of the mover's, so the theorems above, proved
of arbitrary callers, hold of the service as it runs. It needs `DrivesMover` (a
handler in the mover's steps is there with the expert of its request). The
outcomes are a sum, and the sum alone is not inductive: `JobInv` says that no
two threads are at one request (`JobsApart`), that none comes up twice in a job,
that one still to be processed was submitted and is not completed
(`NotCompleted`). Then a report takes one from the threads that have moved
(`LandedFor`) and gives one to the requests answered with success (`DoneFor`),
which `Sum(k)` adds. `NextTold` is the part about the status: `Report` writes status
and answer together, and a cancel, wherever it falls, writes nothing but
"cancelled". The five parts were checked by TLC as invariants of `reallocation`
first.

**The step engine.** `OffloadReadsPrefill` hangs on `PoolInv`: `cur_start_loc` is
an even number of lines plus `cur_cl` lines, after any number of raised and
flushed steps, so the two ways in which the code picks a half of the GPU buffer
agree. `SpansApart` and `AdmittedFits` hang on `PartitionsInv`: a partition's sum
bounds the room of its requests, and no partition's room exceeds a line, unless
the batch was so small that it is alone (`AdmissionInv`). `ServiceInv` (what is
queued is apart from what is in the batch, and all of it was sent) makes each
step a `Take`, a `Settle` or a stutter of StepService.

**The prefill.** An invariant has to place four queues against the main thread's
position in `Program`, which is a concatenation of as many turns as there are
layers and micro-batches. `After` says, from the guards of the loop, which call
comes after each call, and `ProgramChain` shows that `Program` is the chain of
calls that `After` describes (by `FlattenIn`, an induction over `FlattenSeq`).
So the invariant can speak of the call made last (`Made`) and its turn instead
of a position. It says that no queue holds anything of an earlier turn but the
MoE and the hidden states of the one before (`CurInv`, `OffloadInv`, `LoadInv`),
because `kv_copied` returns only when the turn's attention has run: this is the
step that depends on `kv_data_cpu` being pageable, and with pinned memory all
three properties would need another argument (`KVCopied_mutant` breaks two of
them). `PageInv` gives the layer on each page, counted from `first_page`, and
that a page only ever holds layers of one parity (`PagesApart`); `OutputInv` and
`HiddenInv` where the hidden states of each micro-batch are, on the GPU and in
pinned memory. `IInv` was checked by TLC with 2 and 4 layers and 1 to 4
micro-batches first.

**The decode.** The main thread runs up to two turns ahead of the streams, so no
queue is tied to the call made last as in the prefill. The invariant counts
instead. A turn is one micro-batch at one layer, numbered on over the steps;
`ProgramChain` shows that `Program` is again a chain of calls, so the call made
last tells for each kind of call the turn it was last made for (`Counts`), and a
call adds one to one count (`NextCall`, by cases over the ends of layers and
steps). `Bounds` relates the counts: attention is at most two turns ahead of the
MoE, and the copies to the pin at most two ahead of the copies to a page. Each
queue is then described by the set of turns it has work for (`PreQueued`,
`LoadQueued`, `CopyQueued`, ...): the set lies in a window between two counts,
the queue is in the order of its turns, and a turn in the window that is not
queued has its result in its buffer (`QkvPinned`, `HiddenPinned`, `HiddenBack`,
`SlotPinned`, `SlotPaged`). The windows are never wider than three turns, and
two turns of one slot are `num_mb` apart (`SameSlot`): that is where three
micro-batches are needed, and why no buffer is used again too early. `HiddenInv`
and `LoadInv` say what holds the MoE back: its `load_hidden` is behind every
copy of an earlier turn, and each page's copies are of the turns of one layer
before. On the stream of the second GPU `ColdOrder` is the order nothing but
that stream keeps: a slot of the pin is filled behind the copy that empties it.
`PagesApart` says here, too, that a page only ever holds layers of one parity,
from which follows what a shifted step reads. `MarkInv` is about the first page,
which the prefill launched: a copy to the pin waits for it, and the main thread
for that copy. `IInv` was checked by TLC with 2 and 4 layers, 3 to 5
micro-batches and up to two steps first.

**The serving pipeline.** `PlacesInv` and `OutboxInv` say that a request stands in
one message only, before the engine and behind it, so a message that is taken
off leaves nothing of itself behind. `StatesInv` says that a request still under
way has a state whose event is not set and which is not finished, and that is
what a coroutine looks at before it deletes a state. Then `handle_loop` never
meets a request it does not know.

**The launch.** `PortsInv` follows the ports through the two calls of
`handle_port_init`, for which `Sorted` and `Without` are shown to list each port
once. `WordsInv` says what a word stands for: an "init ok" in a pipe, that the
child that sent it serves and holds its port; the Runtime's, that the main
process has seen both. `StageInv` says which processes exist at each stage.

**The policy search.** `BoundIsExact` rests on `FewerFit`: a batch that fits still
fits with fewer requests in it, because the room for experts only grows
(`MoreRoom`), and with it `wg`, and the CPU's share shrinks. So the numbers that
fit are an initial segment, and `SearchInv` need only say, phase by phase, that
`left - 1` fits (or is 0) and `right` does not. `BestIsFound` is about what is
never tried. The time of a layer is the maximum of parts that are constant or
linear in the number of micro-batches (`TimePieces`), so that the time per
request, once it rises, goes on rising (`OnceSlower`): stopping at the first
slower number misses nothing. A size that fits nowhere means that no larger one
fits (`FewerBatchesFit`). `WalkInv` says this of all that the walk has passed.

**The model's calls.** The uncut model is a recursive function, `Stream`, which
the provers know nothing of: `StreamExists` and `StreamUnique` show that there is
exactly one function with its equation at every layer, and `StreamLayers` unfolds
it. A residual is a set of terms, so adding it loses something if a term is there
already; `Grown` (every term names a layer below) rules that out, for the stream
and for the sums the calls make (`SumsKeepAll`, `StreamGrown`). `Carried` says per
class what the residual holds between two layers: mixtral and phi leave the sum to
the next layer's norm, dbrx adds at once. `PlaceInv` is then what `hidden_states`,
`residual` and `qkv` hold at each stage of each layer, `PoolInv` that the pool has
the key of each earlier token at each layer (and of the current one at the layers
below), and `HandedOnInv` that what goes through the pinned buffers comes out. The
lemmas `MixtralLeaves`, `PhiLeaves` and `DbrxLeaves` take one block of each class;
`HostAttention`, `Finished` and `Prefilled` the parts of a layer. The four parts
were checked by TLC first.

**The loaders.** Loading is a sequence of partial copies, so the invariant does
not follow the parameters but says what they may be: `ElementAt` gives, for each
place of a rank's memory, the one element that belongs there. Every tensor of
every class stores only that (`StoredHolds`, by `QKVShardHolds`, `PageHolds`,
`PackedHolds`, `AllPagesHold`), and `LoadInv` adds that the places of all
tensors loaded so far are filled. That the checkpoint has every tensor, in
whichever order, is `CheckpointAll`, over `FlattenSeq`. What is left is
arithmetic: `GroupsMeet` says that the key head a local query head attends with,
counted from the rank's first, is `head \div (heads \div kv_heads)`, both when
key heads are dealt out and when each goes to several ranks (for phi only the
former, `KeysMeet`). In phi with fewer key heads than ranks a rank's rows are fewer
than a head's (`LessThanAHead`) and nothing is stored behind them (`SharesInv`,
`SharesAlways`). `PlacesInPage` says that the kernels' addresses invert the loader's
layout.

**The mixture of experts.** `LoadsInBounds` and `MoEExact` are two readings of one
invariant, `KernelInv`, which says at each stage what the arrays and the matrices
hold. `AlignedArrays` is the first part, what `moe_align_block_size` promises: the
lists' lengths, that every pair of a token and an expert is in a block of that
expert, that a block holds nothing but pairs of its expert and padding, and that
the blocks fit. The function builds its lists expert by expert, so `AlignReturns`
is an induction over experts (`AlignedStep`, `ExpertsStep`) on the number of blocks
before each (`BlocksBefore`), and that they fit `EM` is a count (`BlocksFit`: each
expert pads less than one block). The second part is about one launch while its
programs finish in any order: every cell of a tile whose program has run holds the
product it should (`TilesDone`). That a program leaves the cells of the others
alone needs `CellsApart` (the address `pair * cols + c` is one cell's only if
`c < cols`, which is what `c_mask` is for: `c_mask_mutant` breaks the run). That no
cell is left out needs `ProgramOfTile`: the grouped order of the programs, with a
last group that may be short, reaches every tile. A launch may have programs whose
block starts behind the padded length; `HasTokens` sends them back, and
`BlockInside` shows the others inside both arrays.

Induction over data. The theorems about the stream, the sums and the lists need
facts about folds. `SequenceLemmas!Induction` states induction for a *set* of
naturals (from the well-foundedness of `<`), which needs no operator parameter;
what a fold computes is then shown to exist and to agree with the definition at
every length (`RunsExist`, `SumsExist`, `SumsStep`, `SumsAgree`), after unfolding
`FoldLeft` of the community modules.

Changes to the models that the proofs called for: `Sorted` and `Without` of Launch
are written out, a step of ServingPipeline returns at most `MaxObjects` objects,
`Drain` names what ExpertMover's property folds over, a queued prefetch of
PrefillPipeline and of DecodePipeline is a record of its own, `Submit` of
ReallocationService takes the empty batch, which the handler accepts, `Stream` of
StagedForward recurs over layers alone, and WeightLoading copies with `CopiedTo`
and writes dbrx's loader as one function. FusedMoE's `Stored` and its sorted pairs
are written out, and its assumption says that tokens are routed to experts. Launch,
ServingPipeline and PolicySearch, whose proofs share a module, have no names in
common.
Requests are about movable experts only (`ServiceAssumption`): the manager passes
on what the mover's guards allow.

Only model-checked:

- liveness (`CallsEnd`, `EveryRequestEnds`, `StepReturns`, `DecodeEnds`,
  `PrefillEnds`, `SearchEnds`, `HandshakeSettles`, `LayerEnds`, `AllWritten`): the
  proof system does not handle fairness;
- the attention kernels (`OutputExact`, `AttentionExact`): they equate what a loop
  over blocks rescales and adds with a sum of powers of two over all keys, by folds
  over sets whose operator is a parameter, and their exponentials are rounded, so
  that the equation is one of the numbers that a run chooses;
- `PersistentWeightsGenuine`, which is violated.

## 5. Not modelled, and known hazards without a property

- Inference reading the mapping and the rows while a move runs. A page or a
  mapping entry may change between two kernels; this needs the mover composed
  with the pipeline.
- Decoding with one or two micro-batches: attention is started for the first
  layer only (`RPC` 212), and later layers take its result again.
  DecodePipeline assumes three or more.
- `experts_cache_cold` is allocated and never filled, and the copies from it do
  not use their `layer_id`.
- With one GPU the API process makes an engine of its own (`serve/server.py`
  455), so reallocation requests do not reach the engine that serves.
- `sync_with_experts_mapping` would wait for its own lock; nothing calls it.
- The paged KV cache is built but never written: its call sites are TODOs, and
  the CPU attention reads zeros in its place (`layers/attention.py` 106).
- What a raised step left running. The streams and executors start a step empty; a
  copy of the step before that is still queued on the load stream would not be
  waited for by the next prefill's prefetch, which is on another stream.
- A list call whose `verify()` raises after some of its requests were sent
  (`serve/tokenizer_manager.py` 147): ServingPipeline sends all or none. Those
  requests are answered and their answers are never collected.
- A CUDA error while the mover writes one entry of the mapping (`ER` 269, 353) or
  of the tracker: `MapGpu`, `MapCpu` and `TrackGpu` do not fail. What fails in
  a move is what allocates or copies.
- Endpoints that read state or configure the KV cache, and RPC time-outs: the
  router's loop ends at the first and nothing restarts it.
- After the search the engine sets `wg` to 0.25 (`EE` 641) without checking the
  memory again, and raises when no policy was found.
- Floating point: rounding, overflow and the order of sums. Sampling, rotary
  embeddings, norms and activations are names in the models.

## 6. Plan

1. Done: ExpertMover with its placement, contents and proofs,
   ReallocationService with its proofs, MicroBatches with StepService,
   ServingPipeline, Launch and PolicySearch with theirs, DecodePipeline,
   PrefillPipeline, WeightLoading and StagedForward under ModelRunner, all with
   theirs, FusedMoE under PrefillKernels with its proofs, CPUAttention and
   ContextAttention.
2. The mover composed with the reads of both pipelines: which kernel may see a
   mapping entry or a row change under it.
