----------------------------- MODULE ExpertMover -----------------------------
(***************************************************************************)
(* ExpertMover with the state it moves experts in: the tracker's location  *)
(* and slot of every expert, the engine's experts_mapping, the persistent  *)
(* rows of the experts cache, the CPU storage, the copy stream and the     *)
(* sync events.  The callers are the threads of the RPC server; a thread   *)
(* runs move_expert_to_gpu, move_expert_to_cpu or cleanup_completed_events.*)
(* A step ends where another thread or the copy stream can be seen: at the *)
(* mover's lock, at an access to sync_events (which cleanup changes        *)
(* without the lock), and at each write of the tracker and the mapping.    *)
(***************************************************************************)
EXTENDS ExpertCacheLayout, FiniteSets, SequencesExt

CONSTANTS
  Threads,      \* RPC server threads
  Movable,      \* the experts clients ask to move
  MaxPending    \* bound: no call starts while this many copies are queued

NoThread == "no thread"
NoKey == <<-1, -1>>

ASSUME MoverAssumption ==
  /\ NoThread \notin Threads
  /\ Movable \subseteq Keys
  /\ MaxPending \in Nat \ {0}

VARIABLES
  location,        \* tracker: MemoryLocation of each expert
  slot,            \* tracker: cache_slot of each expert
  mapping,         \* engine: experts_mapping[layer][expert]
  rows,            \* contents of the persistent rows of experts_cache
  store,           \* contents of cpu_expert_storage, NoWeights for no entry
  stream,          \* copies queued on copy_stream, oldest first
  events,          \* the keys of sync_events, <<direction, expert>>
  lock,            \* holder of ExpertMover._lock
  pc, arg, target, \* each thread's place, its expert and that expert's slot
  listed           \* each thread's keys in cleanup_completed_events

tracker == <<location, slot>>
memory == <<rows, store>>
calls == <<arg, target, listed>>
vars == <<location, slot, mapping, rows, store, stream, events, lock,
          pc, arg, target, listed>>

Gpu == "gpu_persistent"
Cpu == "cpu_memory"
Directions == {"gpu", "cpu"}

\* What a piece of memory holds: the weights of one expert, from the model or
\* made up by the torch.randn fallback, or nothing yet.
Weights == [of : Keys, genuine : BOOLEAN]
NoWeights == [of |-> NoKey, genuine |-> FALSE]
Uninitialised == [of |-> NoKey, genuine |-> TRUE]
Contents == Weights \cup {NoWeights, Uninitialised}

\* A queued copy: to a persistent row from the CPU storage or from a fresh
\* random tensor, or from a row to the CPU storage.  `recorded` says that the
\* event in sync_events under its direction and expert waits for it.
Copies == [dir : Directions, of : Keys, row : PersistentRows,
           dummy : BOOLEAN, recorded : BOOLEAN]

EventKeys == Directions \X Keys

MoverPlaces == {"gpu_copy", "gpu_record", "gpu_track", "gpu_map",
                "cpu_check", "cpu_fetch", "cpu_sync", "cpu_copy",
                "cpu_record", "cpu_track", "cpu_map"}
Places == MoverPlaces \cup {"idle", "to_gpu", "to_cpu", "moved", "refused",
                            "scan", "delete"}

TypeOK ==
  /\ location \in [Keys -> {Gpu, Cpu}]
  /\ slot \in [Keys -> PersistentRows \cup {NoSlot}]
  /\ mapping \in [Keys -> Int]
  /\ rows \in [PersistentRows -> Contents]
  /\ store \in [Keys -> Contents]
  /\ stream \in Seq(Copies)
  /\ events \subseteq EventKeys
  /\ lock \in Threads \cup {NoThread}
  /\ pc \in [Threads -> Places]
  /\ arg \in [Threads -> Keys \cup {NoKey}]
  /\ target \in [Threads -> PersistentRows \cup {NoSlot}]
  /\ listed \in [Threads -> SUBSET EventKeys]

\* ExecutionEngine.init_gpu_experts fills tracker, mapping and persistent rows.
Init ==
  /\ location = [k \in Keys |-> IF k[2] < NumGpuExperts THEN Gpu ELSE Cpu]
  /\ slot = [k \in Keys |-> InitialSlot(k)]
  /\ mapping = [k \in Keys |-> InitialRow(k)]
  /\ rows = [r \in PersistentRows |->
               [of |-> <<r \div NumGpuExperts, r % NumGpuExperts>>, genuine |-> TRUE]]
  /\ store = [k \in Keys |-> NoWeights]
  /\ stream = <<>>
  /\ events = {}
  /\ lock = NoThread
  /\ pc = [t \in Threads |-> "idle"]
  /\ arg = [t \in Threads |-> NoKey]
  /\ target = [t \in Threads |-> NoSlot]
  /\ listed = [t \in Threads |-> {}]

Goto(t, place) == pc' = [pc EXCEPT ![t] = place]

-----------------------------------------------------------------------------
(* The guards of the source, on the tracker. *)

PersistentExperts == {k \in Keys : location[k] = Gpu}
LayerPersistent(l) == {k \in PersistentExperts : k[1] = l}

can_move_to_gpu(k) ==
  /\ location[k] # Gpu
  /\ Cardinality(PersistentExperts) < NumLayers * NumGpuExperts  \* gpu_capacity
  /\ Cardinality(LayerPersistent(k[1])) < NumGpuExperts

\* Mutation: the layer's first slot counts as free whoever has it.
is_slot_free_mutant(l, s) == s = l * NumGpuExperts

\* Only the experts of the slot's layer are looked at.
is_slot_free(l, s) == \A k \in LayerPersistent(l) : slot[k] # s

FreeSlots(l) == {s \in LayerSlots(l) : is_slot_free(l, s)}
\* Mutation: a slot is taken from the dynamic cache behind the persistent rows.
find_free_gpu_slot_mutant(l, s) == s = PageRow(<<l, NumGpuExperts>>)

\* s is the slot that the search finds for layer l.
find_free_gpu_slot(l, s) ==
  s \in FreeSlots(l) /\ \A r \in FreeSlots(l) : s <= r

-----------------------------------------------------------------------------
(* CUDA: the copy stream runs its copies in order; an event is complete when *)
(* the copies recorded under it have run, and also when none was recorded.   *)

Complete(e) ==
  \A i \in 1 .. Len(stream) :
    ~(stream[i].recorded /\ <<stream[i].dir, stream[i].of>> = e)

RunCopy(mem, c) ==
  IF c.dir = "gpu"
  THEN [mem EXCEPT !.rows[c.row] = IF c.dummy THEN [of |-> c.of, genuine |-> FALSE]
                                              ELSE mem.store[c.of]]
  ELSE [mem EXCEPT !.store[c.of] = mem.rows[c.row]]

Memory == [rows |-> rows, store |-> store]

\* Mutation: copies in and copies out run on a stream of their own each.
CopyStream_mutant ==
  \E i \in 1 .. Len(stream) :
    /\ \A j \in 1 .. i - 1 : stream[j].dir # stream[i].dir
    /\ rows' = RunCopy(Memory, stream[i]).rows
    /\ store' = RunCopy(Memory, stream[i]).store
    /\ stream' = RemoveAt(stream, i)
    /\ UNCHANGED <<location, slot, mapping, events, lock, pc, arg, target, listed>>

CopyStream ==
  /\ stream # <<>>
  /\ rows' = RunCopy(Memory, Head(stream)).rows
  /\ store' = RunCopy(Memory, Head(stream)).store
  /\ stream' = Tail(stream)
  /\ UNCHANGED <<location, slot, mapping, events, lock, pc, arg, target, listed>>

Enqueue(t, dir, dummy) ==
  /\ stream' = Append(stream, [dir |-> dir, of |-> arg[t], row |-> target[t],
                               dummy |-> dummy, recorded |-> FALSE])
  /\ events' = events \cup {<<dir, arg[t]>>}   \* created if not there yet

\* event.record(copy_stream): the copy just queued is the last one, if it has
\* not run yet.
Record ==
  stream' = [i \in 1 .. Len(stream) |->
               IF i = Len(stream) THEN [stream[i] EXCEPT !.recorded = TRUE]
                                  ELSE stream[i]]

-----------------------------------------------------------------------------
(* move_expert_to_gpu *)

CallToGpu(t, k) ==
  /\ pc[t] = "idle"
  /\ Len(stream) < MaxPending
  /\ arg' = [arg EXCEPT ![t] = k]
  /\ Goto(t, "to_gpu")
  /\ UNCHANGED <<location, slot, mapping, rows, store, stream, events, lock, target, listed>>

\* Mutation: the check and the choice of a slot do not wait for the lock.
AcquireToGpu_mutant(t) ==
  /\ pc[t] = "to_gpu"
  /\ IF can_move_to_gpu(arg[t]) /\ FreeSlots(arg[t][1]) # {}
     THEN /\ \E s \in 0 .. CacheRows - 1 :
               /\ find_free_gpu_slot(arg[t][1], s)
               /\ target' = [target EXCEPT ![t] = s]
          /\ lock' = t
          /\ Goto(t, "gpu_copy")
     ELSE /\ Goto(t, "refused")
          /\ UNCHANGED <<lock, target>>
  /\ UNCHANGED <<location, slot, mapping, rows, store, stream, events, arg, listed>>

AcquireToGpu(t) ==
  /\ pc[t] = "to_gpu"
  /\ lock = NoThread
  /\ IF can_move_to_gpu(arg[t]) /\ FreeSlots(arg[t][1]) # {}
     THEN /\ \E s \in 0 .. CacheRows - 1 :
               /\ find_free_gpu_slot(arg[t][1], s)
               /\ target' = [target EXCEPT ![t] = s]
          /\ lock' = t
          /\ Goto(t, "gpu_copy")
     ELSE /\ Goto(t, "refused")
          /\ UNCHANGED <<lock, target>>
  /\ UNCHANGED <<location, slot, mapping, rows, store, stream, events, arg, listed>>

\* Mutation: the failure paths leave the lock taken.
Fail_mutant(t) ==
  /\ Goto(t, "refused")
  /\ UNCHANGED lock

\* An exception, or a copy that finds no memory: the lock is released and
\* nothing else is undone.
Fail(t) ==
  /\ Goto(t, "refused")
  /\ lock' = NoThread

CopyToGpu(t) ==
  /\ pc[t] = "gpu_copy"
  /\ Enqueue(t, "gpu", store[arg[t]] = NoWeights)
  /\ Goto(t, "gpu_record")
  /\ UNCHANGED <<location, slot, mapping, rows, store, lock, arg, target, listed>>

CopyToGpuFails(t) ==
  /\ pc[t] = "gpu_copy"
  /\ Fail(t)
  /\ UNCHANGED <<location, slot, mapping, rows, store, stream, events, arg, target, listed>>

\* sync_events[key].record: a KeyError if cleanup has removed the key.
RecordToGpu(t) ==
  /\ pc[t] = "gpu_record"
  /\ IF <<"gpu", arg[t]>> \in events
     THEN Record /\ Goto(t, "gpu_track") /\ UNCHANGED lock
     ELSE Fail(t) /\ UNCHANGED stream
  /\ UNCHANGED <<location, slot, mapping, rows, store, events, arg, target, listed>>

TrackGpu(t) ==
  /\ pc[t] = "gpu_track"
  /\ location' = [location EXCEPT ![arg[t]] = Gpu]
  /\ slot' = [slot EXCEPT ![arg[t]] = target[t]]
  /\ Goto(t, "gpu_map")
  /\ UNCHANGED <<mapping, rows, store, stream, events, lock, arg, target, listed>>

\* Mutation: the mapping keeps the row of the layer's prefetch page.
MapGpu_mutant(t) ==
  /\ pc[t] = "gpu_map"
  /\ lock' = NoThread
  /\ Goto(t, "moved")
  /\ UNCHANGED <<location, slot, mapping, rows, store, stream, events, arg, target, listed>>

MapGpu(t) ==
  /\ pc[t] = "gpu_map"
  /\ mapping' = [mapping EXCEPT ![arg[t]] = target[t]]
  /\ lock' = NoThread
  /\ Goto(t, "moved")
  /\ UNCHANGED <<location, slot, rows, store, stream, events, arg, target, listed>>

-----------------------------------------------------------------------------
(* move_expert_to_cpu *)

CallToCpu(t, k) ==
  /\ pc[t] = "idle"
  /\ Len(stream) < MaxPending
  /\ arg' = [arg EXCEPT ![t] = k]
  /\ Goto(t, "to_cpu")
  /\ UNCHANGED <<location, slot, mapping, rows, store, stream, events, lock, target, listed>>

AcquireToCpu(t) ==
  /\ pc[t] = "to_cpu"
  /\ lock = NoThread
  /\ IF location[arg[t]] = Gpu /\ slot[arg[t]] >= 0
     THEN /\ lock' = t
          /\ target' = [target EXCEPT ![t] = slot[arg[t]]]
          /\ Goto(t, "cpu_check")
     ELSE /\ Goto(t, "refused")
          /\ UNCHANGED <<lock, target>>
  /\ UNCHANGED <<location, slot, mapping, rows, store, stream, events, arg, listed>>

\* "if event_key in self.sync_events", then the lookup, then synchronize().
CheckEvent(t) ==
  /\ pc[t] = "cpu_check"
  /\ Goto(t, IF <<"gpu", arg[t]>> \in events THEN "cpu_fetch" ELSE "cpu_copy")
  /\ UNCHANGED <<location, slot, mapping, rows, store, stream, events, lock, arg, target, listed>>

FetchEvent(t) ==
  /\ pc[t] = "cpu_fetch"
  /\ IF <<"gpu", arg[t]>> \in events
     THEN Goto(t, "cpu_sync") /\ UNCHANGED lock
     ELSE Fail(t)
  /\ UNCHANGED <<location, slot, mapping, rows, store, stream, events, arg, target, listed>>

\* The thread holds the event object, so a cleanup cannot cut the wait short.
Synchronize(t) ==
  /\ pc[t] = "cpu_sync"
  /\ \A i \in 1 .. Len(stream) : ~(stream[i].dir = "gpu" /\ stream[i].of = arg[t])
  /\ Goto(t, "cpu_copy")
  /\ UNCHANGED <<location, slot, mapping, rows, store, stream, events, lock, arg, target, listed>>

Allocated(k) ==
  IF store[k] = NoWeights THEN [store EXCEPT ![k] = Uninitialised] ELSE store

CopyToCpu(t) ==
  /\ pc[t] = "cpu_copy"
  /\ store' = Allocated(arg[t])
  /\ Enqueue(t, "cpu", FALSE)
  /\ Goto(t, "cpu_record")
  /\ UNCHANGED <<location, slot, mapping, rows, lock, arg, target, listed>>

\* The storage cannot be allocated, or is allocated and the copy is refused.
CopyToCpuFails(t) ==
  /\ pc[t] = "cpu_copy"
  /\ store' \in {store, Allocated(arg[t])}
  /\ Fail(t)
  /\ UNCHANGED <<location, slot, mapping, rows, stream, events, arg, target, listed>>

RecordToCpu(t) ==
  /\ pc[t] = "cpu_record"
  /\ IF <<"cpu", arg[t]>> \in events
     THEN Record /\ Goto(t, "cpu_track") /\ UNCHANGED lock
     ELSE Fail(t) /\ UNCHANGED stream
  /\ UNCHANGED <<location, slot, mapping, rows, store, events, arg, target, listed>>

\* Mutation: the lock is released before the mapping is written.
TrackCpu_mutant(t) ==
  /\ pc[t] = "cpu_track"
  /\ location' = [location EXCEPT ![arg[t]] = Cpu]
  /\ slot' = [slot EXCEPT ![arg[t]] = NoSlot]
  /\ lock' = NoThread
  /\ Goto(t, "cpu_map")
  /\ UNCHANGED <<mapping, rows, store, stream, events, arg, target, listed>>

TrackCpu(t) ==
  /\ pc[t] = "cpu_track"
  /\ location' = [location EXCEPT ![arg[t]] = Cpu]
  /\ slot' = [slot EXCEPT ![arg[t]] = NoSlot]
  /\ Goto(t, "cpu_map")
  /\ UNCHANGED <<mapping, rows, store, stream, events, lock, arg, target, listed>>

MapCpu(t) ==
  /\ pc[t] = "cpu_map"
  /\ mapping' = [mapping EXCEPT ![arg[t]] = -arg[t][2] - 1]
  /\ lock' = NoThread
  /\ Goto(t, "moved")
  /\ UNCHANGED <<location, slot, rows, store, stream, events, arg, target, listed>>

Return(t) ==
  /\ pc[t] \in {"moved", "refused"}
  /\ Goto(t, "idle")
  /\ arg' = [arg EXCEPT ![t] = NoKey]
  /\ target' = [target EXCEPT ![t] = NoSlot]
  /\ UNCHANGED <<location, slot, mapping, rows, store, stream, events, lock, listed>>

-----------------------------------------------------------------------------
(* cleanup_completed_events, run by get_reallocation_stats without the lock *)

StartScan(t) ==
  /\ pc[t] = "idle"
  /\ events # {}
  /\ listed' = [listed EXCEPT ![t] = events]
  /\ Goto(t, "scan")
  /\ UNCHANGED <<location, slot, mapping, rows, store, stream, events, lock, arg, target>>

\* The loop over the dict raises if the dict changed size under it.
FinishScan(t) ==
  /\ pc[t] = "scan"
  /\ IF Cardinality(events) = Cardinality(listed[t])
     THEN /\ listed' = [listed EXCEPT ![t] = {e \in events : Complete(e)}]
          /\ Goto(t, "delete")
     ELSE /\ listed' = [listed EXCEPT ![t] = {}]
          /\ Goto(t, "idle")
  /\ UNCHANGED <<location, slot, mapping, rows, store, stream, events, lock, arg, target>>

\* Deleting an event leaves the copies it covered without one.
DeleteEvent(t) ==
  /\ pc[t] = "delete"
  /\ \E e \in listed[t] :
       /\ e \in events
       /\ events' = events \ {e}
       /\ listed' = [listed EXCEPT ![t] = @ \ {e}]
       /\ stream' = [i \in 1 .. Len(stream) |->
                       [stream[i] EXCEPT !.recorded = @ /\ <<stream[i].dir, stream[i].of>> # e]]
  /\ UNCHANGED <<location, slot, mapping, rows, store, lock, pc, arg, target>>

\* The list is done, or another cleanup deleted a key first (KeyError).
EndCleanup(t) ==
  /\ pc[t] = "delete"
  /\ listed[t] = {} \/ listed[t] \ events # {}
  /\ listed' = [listed EXCEPT ![t] = {}]
  /\ Goto(t, "idle")
  /\ UNCHANGED <<location, slot, mapping, rows, store, stream, events, lock, arg, target>>

-----------------------------------------------------------------------------
MoveToGpu(t) ==
  \/ AcquireToGpu(t) \/ CopyToGpu(t) \/ CopyToGpuFails(t) \/ RecordToGpu(t)
  \/ TrackGpu(t) \/ MapGpu(t)

MoveToCpu(t) ==
  \/ AcquireToCpu(t) \/ CheckEvent(t) \/ FetchEvent(t) \/ Synchronize(t)
  \/ CopyToCpu(t) \/ CopyToCpuFails(t) \/ RecordToCpu(t) \/ TrackCpu(t) \/ MapCpu(t)

Cleanup(t) == StartScan(t) \/ FinishScan(t) \/ DeleteEvent(t) \/ EndCleanup(t)

Call(t) == \E k \in Movable : CallToGpu(t, k) \/ CallToCpu(t, k)

Next ==
  \/ CopyStream
  \/ \E t \in Threads : Call(t) \/ MoveToGpu(t) \/ MoveToCpu(t) \/ Return(t) \/ Cleanup(t)

Spec == Init /\ [][Next]_vars

-----------------------------------------------------------------------------
(* Properties *)

\* Two persistent experts never have the same slot, of one layer or of two,
\* and a persistent expert's slot is one of its own layer's.
SlotsExclusive ==
  /\ \A k \in PersistentExperts : slot[k] \in LayerSlots(k[1])
  /\ \A j, k \in PersistentExperts : j # k => slot[j] # slot[k]

\* No interleaving of moves lets the MoE kernel read the same cache row for two
\* experts, except for the page rows that layers of one parity share: a slot is
\* given away only after the mapping of the expert that left it has changed.
NoSharedRow ==
  \A j, k \in Keys :
    (j # k /\ mapping[j] = mapping[k] /\ mapping[j] >= 0)
      => (j[1] # k[1] /\ mapping[j] \notin PersistentRows)

\* Outside the last step of a move, the tracker the clients see and the mapping
\* the kernels use say the same of every expert.
CpuEntry(k, m) == m = -k[2] - 1 \/ (k[2] >= NumGpuExperts /\ m = PageRow(k))

Moving(k) == \E t \in Threads : pc[t] \in {"gpu_map", "cpu_map"} /\ arg[t] = k

MappingAgrees ==
  \A k \in Keys :
    Moving(k) \/ IF location[k] = Gpu THEN mapping[k] = slot[k]
                 ELSE slot[k] = NoSlot /\ CpuEntry(k, mapping[k])

\* Once the queued copies have run, the slot of a persistent expert holds that
\* expert's weights, and not those of the expert that had the slot before:
\* moves return before their copies ran, and copies out and in can be queued
\* for one row at once.
Drain(mem, copies) == FoldLeft(RunCopy, mem, copies)

Drained == Drain(Memory, stream)

SlotsHoldTheirExperts ==
  \A k \in PersistentExperts : Drained.rows[slot[k]].of = k

\* Every move is a Promote or a Demote of the placement, or no change of it.
Placement == INSTANCE ExpertPlacement WITH
  home <- [k \in Keys |-> IF location[k] = Gpu THEN slot[k] ELSE NoSlot]

ImplementsPlacement == Placement!Spec

\* A persistent expert computes with weights of the model (a violation).
PersistentWeightsGenuine ==
  \A k \in PersistentExperts : Drained.rows[slot[k]].genuine
=============================================================================
