--------------------------- MODULE ServingPipeline ---------------------------
(***************************************************************************)
(* A generation request on its way through the three processes: the API    *)
(* process (TokenizerManager: generate_request for each call and one       *)
(* handle_loop), the router (its receive loop and its forward loop, which  *)
(* calls the engine's step) and the detokenizer, connected by ZeroMQ       *)
(* queues.  The engine is the abstract StepService that MicroBatches       *)
(* implements: a step answers some of the requests it took.  The           *)
(* coroutines of a process interleave at their awaits and yields.          *)
(***************************************************************************)
EXTENDS Integers, FiniteSets, SequencesExt

CONSTANTS
  Calls,    \* calls of /generate
  kind,     \* "single", "stream", "batch" (one message) or "list" (one per request)
  rids,     \* the request ids of each call, fresh ones unless the client gives its own
  MaxObjects   \* bound: the objects that one step returns

ASSUME CallsAssumption ==
  /\ kind \in [Calls -> {"single", "stream", "batch", "list"}]
  /\ \A c \in Calls : rids[c] \in Seq(Range(rids[c])) \ {<<>>} /\ IsInjective(rids[c])
  /\ \A c \in Calls : kind[c] \in {"single", "stream"} => Len(rids[c]) = 1
  /\ \A c, d \in Calls : c # d => Range(rids[c]) \cap Range(rids[d]) = {}
  /\ MaxObjects \in Nat

Requests == UNION {Range(rids[c]) : c \in Calls}

VARIABLES
  call,          \* each call: "unsent", "waiting", "yielded", "done" or "gone"
  got,           \* the answers the client of each call has
  rid_to_state,  \* ReqState of the requests in the dictionary
  handle_loop,   \* TokenizerManager.handle_loop: "running" or "dead"
  to_router, to_detokenizer, to_tokenizer,   \* the queues
  recv_reqs,     \* RouterManager.recv_reqs
  stepping,      \* the forward loop awaits the engine's step
  in_step,       \* the requests the step has taken
  answered, forgotten   \* history: what became of the requests steps took

api == <<call, got, rid_to_state, handle_loop>>
routing == <<recv_reqs, stepping, in_step, answered, forgotten>>
queues == <<to_router, to_detokenizer, to_tokenizer>>
vars == <<api, routing, queues>>

\* out_list holds the answers by request: there is one answer for a request.
ReqState == [out_list : Seq(Requests), finished : BOOLEAN, event : BOOLEAN]
NewState == [out_list |-> <<>>, finished |-> FALSE, event |-> FALSE]

Init ==
  /\ call = [c \in Calls |-> "unsent"]
  /\ got = [c \in Calls |-> <<>>]
  /\ rid_to_state = <<>>
  /\ handle_loop = "running"
  /\ to_router = <<>> /\ to_detokenizer = <<>> /\ to_tokenizer = <<>>
  /\ recv_reqs = <<>>
  /\ stepping = FALSE
  /\ in_step = {} /\ answered = {} /\ forgotten = {}

Known == DOMAIN rid_to_state
Become(c, s) == call' = [call EXCEPT ![c] = s]
Deliver(c, r) == got' = [got EXCEPT ![c] = Append(@, Last(rid_to_state[r].out_list))]
Delete(r) == rid_to_state' = Restrict(rid_to_state, Known \ {r})

-----------------------------------------------------------------------------
(* The API process: generate_request *)

Messages(c) ==
  IF kind[c] = "list" THEN [i \in 1 .. Len(rids[c]) |-> <<rids[c][i]>>] ELSE <<rids[c]>>

\* There is no await between the sends and the registration of the states.
Generate(c) ==
  /\ call[c] = "unsent"
  /\ to_router' = to_router \o Messages(c)
  /\ rid_to_state' = [r \in Known \cup Range(rids[c]) |->
                        IF r \in Known THEN rid_to_state[r] ELSE NewState]
  /\ Become(c, "waiting")
  /\ UNCHANGED <<got, handle_loop, to_detokenizer, to_tokenizer, routing>>

\* The single call takes one item of the generator and lets go of it: the
\* state is never deleted.
Respond(c) ==
  /\ kind[c] = "single" /\ call[c] = "waiting"
  /\ rid_to_state[rids[c][1]].event
  /\ Deliver(c, rids[c][1])
  /\ Become(c, "done")
  /\ UNCHANGED <<rid_to_state, handle_loop, queues, routing>>

\* The stream yields, and looks at the state again when it is resumed.
Yield(c) ==
  /\ kind[c] = "stream" /\ call[c] = "waiting"
  /\ rid_to_state[rids[c][1]].event
  /\ Deliver(c, rids[c][1])
  /\ Become(c, "yielded")
  /\ UNCHANGED <<rid_to_state, handle_loop, queues, routing>>

Resume(c) ==
  /\ call[c] = "yielded"
  /\ LET r == rids[c][1]
     IN  IF rid_to_state[r].finished
         THEN /\ Delete(r)
              /\ Become(c, "done")
         ELSE /\ rid_to_state' = [rid_to_state EXCEPT ![r].out_list = <<>>, ![r].event = FALSE]
              /\ Become(c, "waiting")
  /\ UNCHANGED <<got, handle_loop, queues, routing>>

\* Mutation: the state of a call that is given up is deleted with it.
GiveUp_mutant(c) ==
  /\ Delete(rids[c][1])
  /\ Become(c, "gone")

GiveUp(c) ==
  /\ Become(c, "gone")
  /\ UNCHANGED rid_to_state

\* The client of a stream disconnects: the generator is closed where it is.
Disconnect(c) ==
  /\ kind[c] = "stream" /\ call[c] \in {"waiting", "yielded"}
  /\ GiveUp(c)
  /\ UNCHANGED <<got, handle_loop, queues, routing>>

Forget(r) == Delete(r)

\* A batch or a list gathers its answers one after another, in its own order.
Gather(c) ==
  /\ kind[c] \in {"batch", "list"} /\ call[c] = "waiting"
  /\ LET r == rids[c][Len(got[c]) + 1]
     IN  /\ rid_to_state[r].event
         /\ Deliver(c, r)
         /\ Forget(r)
  /\ Become(c, IF Len(got[c]) + 1 = Len(rids[c]) THEN "done" ELSE "waiting")
  /\ UNCHANGED <<handle_loop, queues, routing>>

Arrive(r) ==
  [out_list |-> Append(rid_to_state[r].out_list, r), finished |-> TRUE, event |-> TRUE]

\* One object from the detokenizer.  A request that is not in the dictionary
\* is a KeyError, and the task ends with part of the object handled.
Handle ==
  /\ handle_loop = "running" /\ to_tokenizer # <<>>
  /\ to_tokenizer' = Tail(to_tokenizer)
  /\ \E S \in SUBSET (Head(to_tokenizer) \cap Known) :
       /\ IF Head(to_tokenizer) \subseteq Known
          THEN S = Head(to_tokenizer) /\ UNCHANGED handle_loop
          ELSE handle_loop' = "dead"
       /\ rid_to_state' = [r \in Known |-> IF r \in S THEN Arrive(r) ELSE rid_to_state[r]]
  /\ UNCHANGED <<call, got, to_router, to_detokenizer, routing>>

-----------------------------------------------------------------------------
(* The router *)

\* loop_for_recv_requests.  With one GPU the step blocks the event loop, with
\* more it is awaited and requests come in meanwhile.
Receive ==
  /\ to_router # <<>>
  /\ recv_reqs' = Append(recv_reqs, Head(to_router))
  /\ to_router' = Tail(to_router)
  /\ UNCHANGED <<api, to_detokenizer, to_tokenizer, stepping, in_step, answered, forgotten>>

\* Mutation: the list is emptied when the step is back, not when it is called.
TakeRequests_mutant ==
  /\ in_step' = UNION {Range(recv_reqs[i]) : i \in 1 .. Len(recv_reqs)}
  /\ UNCHANGED recv_reqs

TakeRequests ==
  /\ in_step' = UNION {Range(recv_reqs[i]) : i \in 1 .. Len(recv_reqs)}
  /\ recv_reqs' = <<>>

\* loop_for_forward.  A step without requests returns nothing.
CallStep ==
  /\ ~stepping /\ recv_reqs # <<>>
  /\ TakeRequests
  /\ stepping' = TRUE
  /\ UNCHANGED <<api, queues, answered, forgotten>>

\* Mutation: only the first object that the step returns is sent on.
Send_mutant(objs) ==
  to_detokenizer' = to_detokenizer \o IF objs = <<>> THEN <<>> ELSE <<Head(objs)>>

Send(objs) == to_detokenizer' = to_detokenizer \o objs

\* The step returns an object for the aborted requests and one for each
\* micro-batch that has finished requests.
ReturnStep ==
  /\ stepping
  /\ \E n \in 0 .. MaxObjects : \E objs \in [1 .. n -> SUBSET in_step \ {{}}] :
       /\ \A i, j \in 1 .. n : i # j => objs[i] \cap objs[j] = {}
       /\ Send(objs)
       /\ answered' = answered \cup UNION Range(objs)
       /\ forgotten' = forgotten \cup (in_step \ UNION Range(objs))
  /\ stepping' = FALSE
  /\ in_step' = {}
  /\ UNCHANGED <<api, to_router, to_tokenizer, recv_reqs>>

-----------------------------------------------------------------------------
(* The detokenizer: handle_loop *)

Detokenize ==
  /\ to_detokenizer # <<>>
  /\ to_tokenizer' = Append(to_tokenizer, Head(to_detokenizer))
  /\ to_detokenizer' = Tail(to_detokenizer)
  /\ UNCHANGED <<api, to_router, routing>>

-----------------------------------------------------------------------------
Continue(c) == Respond(c) \/ Yield(c) \/ Resume(c) \/ Gather(c)

Next ==
  \/ \E c \in Calls : Generate(c) \/ Continue(c) \/ Disconnect(c)
  \/ Handle \/ Receive \/ CallStep \/ ReturnStep \/ Detokenize

\* The loops run on; a step returns (StepReturns of MicroBatches); a coroutine
\* whose event is set is resumed.
Spec ==
  /\ Init /\ [][Next]_vars
  /\ WF_vars(Handle) /\ WF_vars(Receive) /\ WF_vars(CallStep) /\ WF_vars(ReturnStep)
  /\ WF_vars(Detokenize)
  /\ \A c \in Calls : WF_vars(Continue(c))

-----------------------------------------------------------------------------
(* Properties *)

SentRequests == UNION {Range(rids[c]) : c \in {d \in Calls : call[d] # "unsent"}}
InMessages(q) == UNION {Range(q[i]) : i \in 1 .. Len(q)}
\* A request that was sent is in one queue or list, in the step, or has been
\* answered or forgotten by a step: none is dropped or doubled between the
\* awaits of the router's two loops.
RequestsConserved ==
  LET places == <<InMessages(to_router), InMessages(recv_reqs), in_step, answered, forgotten>>
  IN  /\ UNION Range(places) = SentRequests
      /\ \A i, j \in DOMAIN places : i # j => places[i] \cap places[j] = {}

\* No order of answers, deletions and disconnects makes handle_loop meet a
\* request that it does not know, which would end it and hang every later call.
HandleLoopSurvives == handle_loop = "running"

\* When every request of a call has an answer, the call ends with all of them,
\* in its own order.
CallsEnd ==
  \A c \in Calls :
    Range(rids[c]) \subseteq answered
      ~> call[c] = "gone" \/ (call[c] = "done" /\ got[c] = rids[c])
=============================================================================
