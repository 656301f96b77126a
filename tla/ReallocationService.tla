------------------------- MODULE ReallocationService -------------------------
(***************************************************************************)
(* The reallocation handlers of ModelRpcServer and the ReallocationManager *)
(* they book requests with, composed with the mover.  A handler books its  *)
(* request or batch, moves the experts itself, one after another, and      *)
(* books each outcome; nothing ever takes a request from the manager's     *)
(* queue, and experts_in_motion, which submit_* consult, stays empty.      *)
(***************************************************************************)
EXTENDS ExpertMover

CONSTANTS
  MaxRequests,   \* bound: requests submitted in a behaviour
  Singles,       \* the <<action, expert>> clients send alone
  Batches        \* the lists of <<action, expert>> they send as a batch

Actions == {"move_to_gpu", "move_to_cpu", "preload_cache"}  \* evict_cache: as preload_cache
RequestIds == 1 .. MaxRequests

ASSUME ServiceAssumption ==
  /\ MaxRequests \in Nat
  /\ IsFiniteSet(Threads)
  /\ Singles \subseteq Actions \X Movable
  /\ Batches \subseteq Seq(Actions \X Movable)

VARIABLES
  request,     \* the <<action, expert>> of each request submitted, in order
  status,      \* ReallocationStatus of each request
  active, completed,  \* the manager's two dictionaries: request ids
  succeeded,   \* the requests whose handler got success, as it answers the client
  cancelling,  \* the request cancel_request holds the manager's lock for, 0 if none
  job,         \* each thread's requests still to process, the current one first
  phase        \* each thread: "idle", "process", "moving" or "book"

svars == <<request, status, active, completed, succeeded, cancelling, job, phase>>
allvars == <<vars, svars>>

ServiceInit ==
  /\ Init
  /\ request = <<>>
  /\ status = [r \in RequestIds |-> "unsubmitted"]
  /\ active = {}
  /\ completed = {}
  /\ succeeded = {}
  /\ cancelling = 0
  /\ job = [t \in Threads |-> <<>>]
  /\ phase = [t \in Threads |-> "idle"]

Enter(t, p) == phase' = [phase EXCEPT ![t] = p]

\* The manager's lock; of those who take it, only cancel_request is cut in two
\* by what others do meanwhile.
LockFree == cancelling = 0

\* submit_request and submit_batch, under the manager's lock; a batch may be
\* empty, and its handler then has nothing to do.
Submit(t, asked) ==
  LET ids == [i \in 1 .. Len(asked) |-> Len(request) + i]
  IN  /\ LockFree
      /\ phase[t] = "idle" /\ pc[t] = "idle"
      /\ Len(request) + Len(asked) <= MaxRequests
      /\ request' = request \o asked
      /\ status' = [r \in RequestIds |-> IF r \in Range(ids) THEN "pending" ELSE status[r]]
      /\ active' = active \cup Range(ids)
      /\ job' = [job EXCEPT ![t] = ids]
      /\ Enter(t, IF asked = <<>> THEN "idle" ELSE "process")
      /\ UNCHANGED <<vars, completed, succeeded, cancelling>>

SubmitSingle(t) == \E q \in Singles : Submit(t, <<q>>)

\* The request's atomic flag is looked at nowhere.
SubmitBatch(t) == \E b \in Batches : Submit(t, b)

Current(t) == Head(job[t])
ActionOf(r) == request[r][1]
ExpertOf(r) == request[r][2]

\* _process_reallocation_request: the status is not looked at.
Process(t) ==
  /\ phase[t] = "process"
  /\ CASE ActionOf(Current(t)) = "move_to_gpu" -> CallToGpu(t, ExpertOf(Current(t)))
       [] ActionOf(Current(t)) = "move_to_cpu" -> CallToCpu(t, ExpertOf(Current(t)))
       [] OTHER -> FALSE
  /\ Enter(t, "moving")
  /\ UNCHANGED <<request, status, active, completed, succeeded, cancelling, job>>

SetStatus(t, s) == status' = [status EXCEPT ![Current(t)] = s]

Refuse(t) ==
  /\ phase[t] = "process"
  /\ ActionOf(Current(t)) \notin {"move_to_gpu", "move_to_cpu"}
  /\ SetStatus(t, "failed")
  /\ Enter(t, "book")
  /\ UNCHANGED <<vars, request, active, completed, succeeded, cancelling, job>>

\* Mutation: a move that was refused is reported as completed.
Report_mutant(t) ==
  /\ phase[t] = "moving"
  /\ Return(t)
  /\ SetStatus(t, "completed")
  /\ succeeded' = succeeded \cup {Current(t)}
  /\ Enter(t, "book")
  /\ UNCHANGED <<request, active, completed, cancelling, job>>

\* The mover has returned. The status is set without the manager's lock, also
\* while cancel_request holds it; the answer is made from success, not from it.
Report(t) ==
  /\ phase[t] = "moving"
  /\ Return(t)
  /\ IF pc[t] = "moved"
     THEN /\ SetStatus(t, "completed")
          /\ succeeded' = succeeded \cup {Current(t)}
     ELSE /\ SetStatus(t, "failed")
          /\ UNCHANGED succeeded
  /\ Enter(t, "book")
  /\ UNCHANGED <<request, active, completed, cancelling, job>>

\* From active to completed, under the manager's lock.
Book(t) ==
  /\ phase[t] = "book"
  /\ LockFree
  /\ IF Current(t) \in active
     THEN /\ completed' = completed \cup {Current(t)}
          /\ active' = active \ {Current(t)}
     ELSE UNCHANGED <<active, completed>>
  /\ job' = [job EXCEPT ![t] = Tail(@)]
  /\ Enter(t, IF Len(job[t]) = 1 THEN "idle" ELSE "process")
  /\ UNCHANGED <<vars, request, status, succeeded, cancelling>>

\* cancel_request holds the manager's lock from its look at the status to its
\* write, but a handler's own write of the status may fall between the two.
CancelLooks ==
  /\ LockFree
  /\ \E r \in active : status[r] = "pending" /\ cancelling' = r
  /\ UNCHANGED <<vars, request, status, active, completed, succeeded, job, phase>>

CancelWrites ==
  /\ ~LockFree
  /\ status' = [status EXCEPT ![cancelling] = "cancelled"]
  /\ cancelling' = 0
  /\ UNCHANGED <<vars, request, active, completed, succeeded, job, phase>>

Move(t) ==
  /\ MoveToGpu(t) \/ MoveToCpu(t)
  /\ UNCHANGED svars

Stats(t) ==
  /\ phase[t] = "idle"
  /\ Cleanup(t)
  /\ UNCHANGED svars

Copy == CopyStream /\ UNCHANGED svars

Handle(t) == Process(t) \/ Refuse(t) \/ Move(t) \/ Report(t) \/ Book(t)

ServiceNext ==
  \/ Copy
  \/ CancelLooks
  \/ CancelWrites
  \/ \E t \in Threads : SubmitSingle(t) \/ SubmitBatch(t) \/ Handle(t) \/ Stats(t)

ServiceSpec ==
  /\ ServiceInit /\ [][ServiceNext]_allvars
  /\ WF_allvars(Copy)
  /\ WF_allvars(CancelWrites)
  /\ \A t \in Threads : WF_allvars(Handle(t))

-----------------------------------------------------------------------------
(* Properties *)

Submitted == 1 .. Len(request)

Outcomes(k, action) == Cardinality({r \in Submitted :
  r \in succeeded /\ request[r] = <<action, k>>})

Unreported(k, action, places) == Cardinality({t \in Threads :
  phase[t] = "moving" /\ pc[t] \in places /\ request[Current(t)] = <<action, k>>})

OnGpu(b) == IF b THEN 1 ELSE 0

Balance(k) ==
  OnGpu(location[k] = Gpu) - OnGpu(k[2] < NumGpuExperts) =
      Outcomes(k, "move_to_gpu") + Unreported(k, "move_to_gpu", {"gpu_map", "moved"})
    - Outcomes(k, "move_to_cpu") - Unreported(k, "move_to_cpu", {"cpu_map", "moved"})

\* No status claims a move that the client was not told of. A move that the
\* client was told of is completed, or cancelled: by a cancel_request that looked
\* before the report and wrote after it.
StatusTold ==
  \A r \in Submitted :
    /\ status[r] = "completed" => r \in succeeded
    /\ r \in succeeded => status[r] \in {"completed", "cancelled"}

\* The outcomes add up to the placement: an expert's moves to the GPU that
\* clients are told succeeded, less its moves to the CPU, and the moves done but
\* not yet reported, make the difference between where it started and where it
\* is. A cancel leaves the move and its answer alone, also where it overwrites
\* the status that the handler set without the manager's lock.
OutcomesAddUp == (\A k \in Keys : Balance(k)) /\ StatusTold

\* Every request a handler has booked gets its outcome.
EveryRequestEnds == \A r \in RequestIds : r \in active ~> r \in completed
=============================================================================
