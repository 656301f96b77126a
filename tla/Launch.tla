------------------------------- MODULE Launch -------------------------------
(***************************************************************************)
(* Starting the server through Runtime: ports are looked for and only      *)
(* bound later, by other processes; the API process starts the router and  *)
(* the detokenizer, waits for a word from each, builds an engine of its    *)
(* own and tells the Runtime once its HTTP server answers.                 *)
(*                                                                         *)
(* The ranges ports are drawn from overlap (handle_port_init 10000-50000,  *)
(* NCCL 20000-30000, main 30000): Ports stands for all of them.  Processes *)
(* are forked, so the router, the detokenizer and the model servers hold   *)
(* the Runtime's pipe open as long as they live; a process that ends by    *)
(* an exception or sys.exit first waits for its children.                  *)
(***************************************************************************)
EXTENDS Integers, FiniteSetsExt, SequencesExt, SortedSets

CONSTANTS
  Ports,        \* port numbers
  MainPort,     \* ServerArgs.port
  ServerArgs,   \* [tp_size, additional_ports] a server may be started with
  max_retries,  \* of ModelRunner, for an NCCL port (5)
  MaxTaken      \* bound: ports other programs take

ASSUME LaunchAssumption ==
  /\ Ports \subseteq Nat \ {0} /\ IsFiniteSet(Ports) /\ MainPort \in Ports
  /\ \A a \in ServerArgs : a.tp_size \in Nat \ {0} /\ a.additional_ports \in Seq(Ports)
  /\ max_retries \in Nat \ {0} /\ MaxTaken \in Nat

VARIABLES
  args,              \* server_args
  owner,             \* who is bound to each port
  port, ports,       \* server_args.port, server_args.additional_ports
  url,               \* Runtime's port
  runtime, main, router, detoken,  \* where the processes are
  pipes,             \* pipe_router and pipe_detoken: the word in them
  told,              \* the word in the Runtime's pipe
  engine, nccl_port, attempt       \* ModelRpcClient of the router and of main

procs == <<runtime, main, router, detoken>>
engines == <<engine, nccl_port, attempt>>
launch_vars == <<args, owner, port, ports, url, procs, pipes, told, engines>>

Who == {"router", "main"}
Nccl(w) == IF w = "router" THEN "nccl_router" ELSE "nccl_main"
Ours == {"tokenizer", "router", "detokenizer", "http", "nccl_router", "nccl_main", "rpc"}

LaunchInit ==
  /\ args \in ServerArgs
  /\ owner \in {[p \in Ports |-> IF p \in S THEN "other" ELSE "free"] : S \in {{}, {MainPort}}}
  /\ port = MainPort /\ ports = args.additional_ports /\ url = MainPort
  /\ runtime = "init" /\ main = "none" /\ router = "none" /\ detoken = "none"
  /\ pipes = [x \in {"router", "detoken"} |-> ""]
  /\ told = ""
  /\ engine = [w \in Who |-> "none"]
  /\ nccl_port = [w \in Who |-> MainPort]
  /\ attempt = [w \in Who |-> 1]

-----------------------------------------------------------------------------
(* Ports *)

is_port_free(p) == owner[p] = "free"
FreePorts == {p \in Ports : is_port_free(p)}

\* The elements of s that are not in X.
Without(s, X) ==
  LET at == Sorted({i \in DOMAIN s : s[i] \notin X})
  IN  [i \in DOMAIN at |-> s[at[i]]]

\* Another program takes a port.
Taken ==
  /\ Cardinality({p \in Ports : owner[p] = "other"}) < MaxTaken
  /\ \E p \in FreePorts : owner' = [owner EXCEPT ![p] = "other"]
  /\ UNCHANGED <<args, port, ports, url, procs, pipes, told, engines>>

\* The port asked for, the next free one, or else any.
MainPorts(p) ==
  LET after == {q \in FreePorts : q >= p}
  IN  IF after # {} THEN {Min(after)} ELSE Ports

num_required_ports == 4 + args.tp_size

\* What allocate_ports_with_retry may return: drawn at random, one order for all.
Allocated(n) == {Sorted(S) : S \in kSubset(n, FreePorts)}

\* Mutation: the ports drawn may be the main one.
Excluding_mutant(p, valid, new) == Without(new, Range(valid))

Excluding(p, valid, new) == Without(new, {p} \cup Range(valid))

AdditionalPorts(p, given) ==
  LET valid  == Without(given, {p} \cup (Ports \ FreePorts))
      needed == num_required_ports - Len(valid)
      First(s) == SubSeq(s, 1, Min({Len(s), num_required_ports}))
  IN  IF needed <= 0 THEN {First(valid)}
      ELSE IF Cardinality(FreePorts) >= needed
      THEN {valid \o Excluding(p, valid, new) : new \in Allocated(needed)}
      ELSE {First(valid \o Sorted(FreePorts \ ({p} \cup Range(valid))))}

handle_port_init(p, given) ==
  UNION {{<<q, s>> : s \in AdditionalPorts(q, given)} : q \in MainPorts(p)}

Bind(p, who) == is_port_free(p) /\ owner' = [owner EXCEPT ![p] = who]

Released(own, W) == [p \in Ports |-> IF own[p] \in W THEN "free" ELSE own[p]]

tokenizer_port == ports[1]
router_port == ports[2]
detokenizer_port == ports[3]
model_rpc_ports == SubSeq(ports, 5, Len(ports))

-----------------------------------------------------------------------------
(* Runtime *)

RuntimeStart ==
  /\ runtime = "init"
  /\ \E r \in handle_port_init(MainPort, args.additional_ports) :
        port' = r[1] /\ ports' = r[2] /\ url' = r[1]
  /\ runtime' = "waiting" /\ main' = "ports"
  /\ UNCHANGED <<args, owner, router, detoken, pipes, told, engines>>

RuntimeTold ==
  /\ runtime = "waiting" /\ told = "init ok"
  /\ runtime' = "ok"
  /\ UNCHANGED <<args, owner, port, ports, url, main, router, detoken, pipes, told, engines>>

\* End of file: the last process that holds the pipe is gone.
RuntimeFails ==
  /\ runtime = "waiting" /\ told = ""
  /\ main = "exited" /\ router \in {"none", "dead"} /\ detoken \in {"none", "dead"}
  /\ \A p \in Ports : owner[p] # "rpc"
  /\ runtime' = "failed"
  /\ UNCHANGED <<args, owner, port, ports, url, main, router, detoken, pipes, told, engines>>

-----------------------------------------------------------------------------
(* ModelRpcClient, in the router and again in the API process *)

Goes(w, e) == engine' = [engine EXCEPT ![w] = e]

FindNcclPort(w) ==
  /\ engine[w] = "probe" /\ args.tp_size = 1
  /\ IF FreePorts = {}
     THEN Goes(w, "failed") /\ UNCHANGED nccl_port
     ELSE /\ \E p \in FreePorts : nccl_port' = [nccl_port EXCEPT ![w] = p]
          /\ Goes(w, "bind")
  /\ UNCHANGED <<args, owner, port, ports, url, procs, pipes, told, attempt>>

InitProcessGroup(w) ==
  /\ engine[w] = "bind"
  /\ \/ /\ Bind(nccl_port[w], Nccl(w))
        /\ Goes(w, "load")
        /\ UNCHANGED attempt
     \/ /\ ~is_port_free(nccl_port[w])
        /\ IF attempt[w] < max_retries
           THEN attempt' = [attempt EXCEPT ![w] = @ + 1] /\ Goes(w, "probe")
           ELSE UNCHANGED attempt /\ Goes(w, "failed")
        /\ UNCHANGED owner
  /\ UNCHANGED <<args, port, ports, url, procs, pipes, told, nccl_port>>

\* start_model_process for every port there is.  A server that finds its port
\* taken ends, and is_alive() fails.
StartModelServers(w) ==
  /\ engine[w] = "probe" /\ args.tp_size > 1
  /\ owner' = [p \in Ports |-> IF p \in Range(model_rpc_ports) /\ is_port_free(p)
                               THEN "rpc" ELSE owner[p]]
  /\ Goes(w, IF \A p \in Range(model_rpc_ports) : is_port_free(p) THEN "servers" ELSE "failed")
  /\ UNCHANGED <<args, port, ports, url, procs, pipes, told, nccl_port, attempt>>

\* init_model in every rank: one server short is an IndexError; each rank looks
\* for an NCCL port of its own, and they meet when they happen on the same one.
InitModels(w) ==
  /\ engine[w] = "servers"
  /\ \/ /\ Len(model_rpc_ports) >= args.tp_size
        /\ \E p \in FreePorts : Bind(p, "rpc")
        /\ Goes(w, "load")
     \/ Goes(w, "failed") /\ UNCHANGED owner
  /\ UNCHANGED <<args, port, ports, url, procs, pipes, told, nccl_port, attempt>>

LoadModel(w) ==
  /\ engine[w] = "load"
  /\ \E e \in {"ready", "failed"} : Goes(w, e)
  /\ UNCHANGED <<args, owner, port, ports, url, procs, pipes, told, nccl_port, attempt>>

Engine(w) ==
  FindNcclPort(w) \/ InitProcessGroup(w) \/ StartModelServers(w) \/ InitModels(w) \/ LoadModel(w)

-----------------------------------------------------------------------------
(* start_router_process and start_detokenizer_process *)

RouterReady ==
  /\ router = "building" /\ engine["router"] = "ready"
  /\ Bind(router_port, "router")
  /\ router' = "serving"
  /\ pipes' = [pipes EXCEPT !["router"] = "init ok"]
  /\ UNCHANGED <<args, port, ports, url, runtime, main, detoken, told, engines>>

\* Mutation: the exception is raised before the word is sent.
SendError_mutant(who) == pipes' = pipes

SendError(who) == pipes' = [pipes EXCEPT ![who] = "error"]

\* It ends unless it has model servers to wait for.
RouterRaises ==
  /\ router = "building"
  /\ \/ engine["router"] = "failed"
     \/ engine["router"] = "ready" /\ ~is_port_free(router_port)
  /\ SendError("router")
  /\ IF \E p \in Ports : owner[p] = "rpc"
     THEN router' = "raised" /\ UNCHANGED owner
     ELSE router' = "dead" /\ owner' = Released(owner, {"nccl_router"})
  /\ UNCHANGED <<args, port, ports, url, runtime, main, detoken, told, engines>>

DetokenReady ==
  /\ detoken = "building"
  /\ Bind(detokenizer_port, "detokenizer")
  /\ detoken' = "serving"
  /\ pipes' = [pipes EXCEPT !["detoken"] = "init ok"]
  /\ UNCHANGED <<args, port, ports, url, runtime, main, router, told, engines>>

\* Its port is taken, or there is no tokenizer.
DetokenRaises ==
  /\ detoken = "building"
  /\ detoken' = "dead"
  /\ SendError("detoken")
  /\ UNCHANGED <<args, owner, port, ports, url, runtime, main, router, told, engines>>

-----------------------------------------------------------------------------
(* launch_server *)

MainHandlePorts ==
  /\ main = "ports"
  /\ \E r \in handle_port_init(port, ports) :
        /\ port' = r[1] /\ ports' = r[2]
        /\ main' = IF Len(r[2]) < 4 THEN "exited" ELSE "tokenizer"
  /\ UNCHANGED <<args, owner, url, runtime, router, detoken, pipes, told, engines>>

\* The tokenizer manager binds its port and reads the model's config and
\* tokenizer: a taken port or any of the files that cannot be read ends main.
StartTokenizer ==
  /\ main = "tokenizer"
  /\ \/ Bind(tokenizer_port, "tokenizer") /\ main' = "start"
     \/ main' = "exited" /\ UNCHANGED owner
  /\ UNCHANGED <<args, port, ports, url, runtime, router, detoken, pipes, told, engines>>

StartRouter ==
  /\ main = "start"
  /\ router' = "building" /\ Goes("router", "probe")
  /\ main' = "detokenizer"
  /\ UNCHANGED <<args, owner, port, ports, url, runtime, detoken, pipes, told, nccl_port, attempt>>

StartDetoken ==
  /\ main = "detokenizer"
  /\ detoken' = "building"
  /\ main' = "recv_router"
  /\ UNCHANGED <<args, owner, port, ports, url, runtime, router, pipes, told, engines>>

RecvRouter ==
  /\ main = "recv_router" /\ pipes["router"] # ""
  /\ main' = "recv_detoken"
  /\ UNCHANGED <<args, owner, port, ports, url, runtime, router, detoken, pipes, told, engines>>

RecvDetoken ==
  /\ main = "recv_detoken" /\ pipes["detoken"] # ""
  /\ main' = "check"
  /\ UNCHANGED <<args, owner, port, ports, url, runtime, router, detoken, pipes, told, engines>>

\* Mutation: `or` for `and`.
InitOk_mutant == pipes["router"] = "init ok" \/ pipes["detoken"] = "init ok"

InitOk == pipes["router"] = "init ok" /\ pipes["detoken"] = "init ok"

BuildOwnEngine ==
  /\ main = "check" /\ InitOk
  /\ main' = "engine" /\ Goes("main", "probe")
  /\ UNCHANGED <<args, owner, port, ports, url, runtime, router, detoken, pipes, told,
                 nccl_port, attempt>>

\* kill() reaches the two processes, not the model servers they started.
KillBoth ==
  /\ main = "check" /\ ~InitOk
  /\ router' = "dead" /\ detoken' = "dead"
  /\ owner' = Released(owner, Ours \ {"rpc"})
  /\ main' = "exited"
  /\ UNCHANGED <<args, port, ports, url, runtime, pipes, told, engines>>

EngineRaises ==
  /\ main = "engine" /\ engine["main"] = "failed"
  /\ main' = "raised"
  /\ UNCHANGED <<args, owner, port, ports, url, runtime, router, detoken, pipes, told, engines>>

\* uvicorn in a thread: a port taken ends the thread only.
StartAPI ==
  /\ main = "engine" /\ engine["main"] = "ready"
  /\ main' = "poll"
  /\ \/ Bind(port, "http")
     \/ ~is_port_free(port) /\ UNCHANGED owner
  /\ UNCHANGED <<args, port, ports, url, runtime, router, detoken, pipes, told, engines>>

\* Any HTTP server on the port will do.
Answered ==
  /\ main = "poll" /\ owner[port] \in {"http", "other"}
  /\ told' = "init ok"
  /\ main' = "serving"
  /\ UNCHANGED <<args, owner, port, ports, url, runtime, router, detoken, pipes, engines>>

\* After 60 tries: str(e) of an exception that is no longer bound.
NotAnswered ==
  /\ main = "poll" /\ owner[port] # "http"
  /\ main' = "raised"
  /\ UNCHANGED <<args, owner, port, ports, url, runtime, router, detoken, pipes, told, engines>>

Main ==
  \/ MainHandlePorts \/ StartTokenizer \/ StartRouter \/ StartDetoken
  \/ RecvRouter \/ RecvDetoken \/ BuildOwnEngine \/ KillBoth
  \/ EngineRaises \/ StartAPI \/ Answered \/ NotAnswered

LaunchNext ==
  \/ Taken
  \/ RuntimeStart \/ RuntimeTold \/ RuntimeFails
  \/ Main
  \/ \E w \in Who : Engine(w)
  \/ RouterReady \/ RouterRaises \/ DetokenReady \/ DetokenRaises

LaunchSpec ==
  /\ LaunchInit /\ [][LaunchNext]_launch_vars
  /\ WF_launch_vars(RuntimeStart \/ RuntimeTold \/ RuntimeFails)
  /\ WF_launch_vars(Main)
  /\ \A w \in Who : WF_launch_vars(Engine(w))
  /\ WF_launch_vars(RouterReady \/ RouterRaises)
  /\ WF_launch_vars(DetokenReady \/ DetokenRaises)

-----------------------------------------------------------------------------
(* Properties *)

\* The ports the server works with are all different, and none is the HTTP
\* server's, however often they were looked for, unless the caller's own list
\* names one twice.
PortsApart ==
  IsInjective(args.additional_ports) /\ main \notin {"none", "ports"} =>
    IsInjective(ports) /\ port \notin Range(ports)

\* A Runtime that was told "init ok" has a pipeline behind it: the three
\* processes are bound to the ports they were given, and none was lost to
\* another program or to an NCCL port.
ServingComplete ==
  runtime = "ok" =>
    /\ owner[tokenizer_port] = "tokenizer"
    /\ owner[router_port] = "router"
    /\ owner[detokenizer_port] = "detokenizer"
    /\ router = "serving" /\ detoken = "serving"

\* When the router or the detokenizer fails to start, whichever it is and in
\* whatever order, launch_server gets past its two blocking reads, stops the
\* other and ends, and the Runtime sees its pipe close (with one GPU: model
\* servers outlive the router that started them and hold the pipe).
HandshakeSettles ==
  (args.tp_size = 1 /\ "dead" \in {router, detoken}) ~> runtime = "failed"
=============================================================================
