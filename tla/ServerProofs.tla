---------------------------- MODULE ServerProofs ----------------------------
(***************************************************************************)
(* How the server comes up, how it serves, and the policy it chooses.      *)
(*                                                                         *)
(* Launch, for any ports, any programs that take them and any arguments.   *)
(* handle_port_init, applied twice, never yields a port twice or the main  *)
(* one (PortsApart); and "init ok" reaches the Runtime only from a launch  *)
(* whose three processes hold the ports they were given (ServingComplete). *)
(*                                                                         *)
(* ServingPipeline, for any calls and any order of the coroutines, the     *)
(* router's two loops and the engine's answers: no request is dropped or   *)
(* doubled, and handle_loop never meets a request that it does not know.   *)
(* Neither is inductive.  A request must stand in one message only, in     *)
(* front of the engine and behind it, so that a message that is taken off  *)
(* leaves nothing of itself behind; and a request that is still under way  *)
(* must have a state whose event is not set, because that is what a        *)
(* coroutine looks at before it deletes a state.                           *)
(*                                                                         *)
(* PolicySearch, for any machine.  get_nb_ub returns the largest number of *)
(* micro-batches that fits: a batch that fits still fits with fewer        *)
(* requests in it (FewerFit), so the numbers that fit are an initial       *)
(* segment and the search keeps one of them, or 0, left of `left` and one  *)
(* that does not fit at `right`.  And `solve`, which stops at the first    *)
(* number of micro-batches that is slower than the one before, misses no   *)
(* faster policy: the time of a layer is the largest of terms that grow in *)
(* proportion to that number, each from a constant (TimePieces), so that a *)
(* rate that falls once never rises again (OnceSlower).                    *)
(***************************************************************************)
EXTENDS Launch, ServingPipeline, PolicySearch, SequenceLemmas

-----------------------------------------------------------------------------
(* The operators on lists of ports *)

\* A list without a port twice.
AllDifferent(s) == \A i, j \in 1 .. Len(s) : s[i] = s[j] => i = j

\* What Without keeps.
LEMMA WithoutProperties ==
  ASSUME NEW T, NEW s \in Seq(T), NEW X
  PROVE  /\ Without(s, X) \in Seq(T)
         /\ \A i \in 1 .. Len(Without(s, X)) :
              Without(s, X)[i] \notin X /\ \E j \in 1 .. Len(s) : Without(s, X)[i] = s[j]
         /\ AllDifferent(s) => AllDifferent(Without(s, X))
<1> DEFINE I == {i \in DOMAIN s : s[i] \notin X}
           at == Sorted(I)
           w == Without(s, X)
           n == Cardinality(I)
<1>0. Len(s) \in Nat /\ DOMAIN s = 1 .. Len(s)
  OBVIOUS
<1>1. I \in SUBSET Nat /\ IsFiniteSet(I)
  <2>1. IsFiniteSet(1 .. Len(s))
    BY <1>0, FS_Interval
  <2>2. I \in SUBSET (1 .. Len(s))
    BY <1>0
  <2> HIDE DEF I
  <2>3. IsFiniteSet(I)
    BY <2>1, <2>2, FS_Subset
  <2>4. I \in SUBSET Nat
    <3>1. 1 .. Len(s) \in SUBSET Nat
      BY <1>0
    <3> QED BY <2>2, <3>1
  <2> QED BY <2>3, <2>4
<1>2. n \in Nat /\ at \in [1 .. n -> I] /\ \A i, j \in 1 .. n : at[i] = at[j] => i = j
  <2> HIDE DEF I
  <2> QED BY <1>1, SortedProperties
<1>3. ASSUME NEW i \in I PROVE i \in 1 .. Len(s) /\ s[i] \notin X /\ s[i] \in T
  BY <1>0
<1>4. w = [i \in DOMAIN at |-> s[at[i]]]
  BY DEF Without
<1> HIDE DEF I, n, at, w
<1>5. DOMAIN at = 1 .. n /\ \A i \in 1 .. n : at[i] \in I
  BY <1>2
<1>6. w = [i \in 1 .. n |-> s[at[i]]] /\ \A i \in 1 .. n : s[at[i]] \in T
  BY <1>3, <1>4, <1>5
<1>7. w \in Seq(T) /\ Len(w) = n /\ \A i \in 1 .. n : w[i] = s[at[i]]
  BY <1>2, <1>6
<1>8. \A i \in 1 .. n : w[i] \notin X /\ \E j \in 1 .. Len(s) : w[i] = s[j]
  BY <1>3, <1>5, <1>7
<1>9. AllDifferent(s) => AllDifferent(w)
  <2> SUFFICES ASSUME AllDifferent(s), NEW i \in 1 .. n, NEW j \in 1 .. n, w[i] = w[j] PROVE i = j
    BY <1>7 DEF AllDifferent
  <2>1. at[i] \in 1 .. Len(s) /\ at[j] \in 1 .. Len(s) /\ s[at[i]] = s[at[j]]
    BY <1>3, <1>5, <1>7
  <2>2. at[i] = at[j]
    BY <2>1 DEF AllDifferent
  <2> QED BY <1>2, <2>2
<1> QED BY <1>7, <1>8, <1>9 DEF w

-----------------------------------------------------------------------------
(* handle_port_init *)

\* A list of ports without p, and without a port twice if `once`.
GoodPorts(p, s, once) ==
  s \in Seq(Ports) /\ (\A i \in 1 .. Len(s) : s[i] # p) /\ (once => AllDifferent(s))

\* The list cut to at most n ports.
LEMMA CutGood ==
  ASSUME NEW p, NEW s, NEW once, GoodPorts(p, s, once), NEW n \in Nat
  PROVE  GoodPorts(p, SubSeq(s, 1, Min({Len(s), n})), once)
<1> DEFINE m == Min({Len(s), n})
           c == SubSeq(s, 1, m)
<1>0. s \in Seq(Ports) /\ Len(s) \in Nat
  BY DEF GoodPorts
<1>1. m \in Nat /\ m <= Len(s)
  <2>1. \E x \in {Len(s), n} : \A y \in {Len(s), n} : x <= y
    BY <1>0
  <2>2. m \in {Len(s), n} /\ \A y \in {Len(s), n} : m <= y
    BY <2>1 DEF Min
  <2> QED BY <1>0, <2>2
<1> HIDE DEF m
<1>2. \A i \in 1 .. m : i \in 1 .. Len(s) /\ s[i] \in Ports
  BY <1>0, <1>1
<1>3. c \in Seq(Ports) /\ Len(c) = m /\ \A i \in 1 .. m : c[i] = s[i]
  <2>1. /\ c \in Seq(Ports) /\ Len(c) = IF 1 <= m THEN m - 1 + 1 ELSE 0
        /\ \A i \in 1 .. m - 1 + 1 : c[i] = s[1 + i - 1]
    BY <1>1, <1>2, SubSeqProperties
  <2> HIDE DEF c
  <2> QED BY <1>1, <2>1
<1> HIDE DEF c
<1> QED BY <1>2, <1>3 DEF GoodPorts, AllDifferent, c, m

\* Two lists with no port in common.
LEMMA ConcatGood ==
  ASSUME NEW p, NEW once, NEW s, GoodPorts(p, s, once), NEW t, GoodPorts(p, t, once),
         \A i \in 1 .. Len(s) : \A j \in 1 .. Len(t) : s[i] # t[j]
  PROVE  GoodPorts(p, s \o t, once)
<1> DEFINE c == s \o t
<1>1. s \in Seq(Ports) /\ t \in Seq(Ports) /\ Len(s) \in Nat /\ Len(t) \in Nat
  BY DEF GoodPorts
<1>2. c \in Seq(Ports) /\ Len(c) = Len(s) + Len(t)
      /\ \A i \in 1 .. Len(s) + Len(t) : c[i] = IF i <= Len(s) THEN s[i] ELSE t[i - Len(s)]
  BY <1>1, ConcatProperties
<1> HIDE DEF c
<1>3. ASSUME NEW i \in 1 .. Len(c)
      PROVE  IF i <= Len(s) THEN i \in 1 .. Len(s) ELSE i - Len(s) \in 1 .. Len(t)
  BY <1>1, <1>2
<1>4. \A i \in 1 .. Len(c) : c[i] # p
  BY <1>2, <1>3 DEF GoodPorts
<1>5. ASSUME once, NEW i \in 1 .. Len(c), NEW j \in 1 .. Len(c), c[i] = c[j] PROVE i = j
  <2>1. AllDifferent(s) /\ AllDifferent(t)
    BY <1>5 DEF GoodPorts
  <2>2. CASE i <= Len(s) /\ j <= Len(s)
    BY <1>2, <1>3, <1>5, <2>1, <2>2 DEF AllDifferent
  <2>3. CASE ~(i <= Len(s)) /\ ~(j <= Len(s))
    <3>1. i - Len(s) = j - Len(s)
      BY <1>2, <1>3, <1>5, <2>1, <2>3 DEF AllDifferent
    <3> QED BY <1>1, <1>2, <3>1
  <2>4. i <= Len(s) <=> j <= Len(s)
    BY <1>2, <1>3, <1>5
  <2> QED BY <2>2, <2>3, <2>4
<1> QED BY <1>2, <1>4, <1>5 DEF GoodPorts, AllDifferent, c

LEMMA WithoutGood ==
  ASSUME NEW p, NEW s \in Seq(Ports), NEW once, once => AllDifferent(s), NEW X, p \in X
  PROVE  GoodPorts(p, Without(s, X), once)
<1>1. /\ Without(s, X) \in Seq(Ports)
      /\ \A i \in 1 .. Len(Without(s, X)) : Without(s, X)[i] \notin X
      /\ AllDifferent(s) => AllDifferent(Without(s, X))
  BY WithoutProperties
<1> QED BY <1>1 DEF GoodPorts

LEMMA SortedGood ==
  ASSUME NEW S \in SUBSET Ports, NEW p, NEW once
  PROVE  /\ Sorted(S) \in Seq(Ports) /\ AllDifferent(Sorted(S))
         /\ \A i \in 1 .. Len(Sorted(S)) : Sorted(S)[i] \in S
<1>1. S \in SUBSET Nat /\ IsFiniteSet(S)
  BY LaunchAssumption, FS_Subset
<1> DEFINE n == Cardinality(S)
           s == Sorted(S)
<1>2. n \in Nat /\ s \in [1 .. n -> S] /\ \A i, j \in 1 .. n : s[i] = s[j] => i = j
  BY <1>1, SortedProperties
<1> HIDE DEF n, s
<1>3. s \in Seq(Ports) /\ Len(s) = n /\ \A i \in 1 .. n : s[i] \in S
  <2>1. s = [i \in 1 .. n |-> s[i]] /\ \A i \in 1 .. n : s[i] \in S /\ s[i] \in Ports
    BY <1>2
  <2> QED BY <1>2, <2>1
<1> QED BY <1>2, <1>3 DEF AllDifferent, s

\* Whatever is free: the additional ports are different from each other, if the
\* ones given are, and from the main port.
LEMMA AdditionalGood ==
  ASSUME args.tp_size \in Nat, NEW p, NEW given \in Seq(Ports), NEW once, once => AllDifferent(given),
         NEW s \in AdditionalPorts(p, given)
  PROVE  GoodPorts(p, s, once)
<1> DEFINE valid == Without(given, {p} \cup (Ports \ FreePorts))
           n == num_required_ports
           First(r) == SubSeq(r, 1, Min({Len(r), n}))
           X == {p} \cup Range(valid)
<1>0. n \in Nat
  BY DEF num_required_ports
<1>1. GoodPorts(p, valid, once)
  BY WithoutGood
<1>2. FreePorts \in SUBSET Ports
  BY DEF FreePorts
<1>3. \A i \in 1 .. Len(valid) : valid[i] \in X
  <2>1. valid \in Seq(Ports)
    BY <1>1 DEF GoodPorts
  <2> HIDE DEF valid
  <2> QED BY <2>1 DEF Range
<1>4. ASSUME NEW new \in Seq(Ports), once => AllDifferent(new),
             \A i \in 1 .. Len(new) : new[i] \notin X
      PROVE  GoodPorts(p, valid \o new, once)
  <2>1. GoodPorts(p, new, once)
    BY <1>4 DEF GoodPorts
  <2>2. \A i \in 1 .. Len(valid) : \A j \in 1 .. Len(new) : valid[i] # new[j]
    BY <1>3, <1>4
  <2> HIDE DEF valid
  <2> QED BY <1>1, <2>1, <2>2, ConcatGood
<1>5. CASE s = First(valid)
  <2> HIDE DEF valid, n
  <2> QED BY <1>0, <1>1, <1>5, CutGood
<1>6. ASSUME NEW m, NEW new \in Allocated(m), s = valid \o Excluding(p, valid, new)
      PROVE  GoodPorts(p, s, once)
  <2>1. PICK S \in SUBSET Ports : new = Sorted(S)
    BY <1>2 DEF Allocated, kSubset
  <2>2. new \in Seq(Ports) /\ AllDifferent(new)
    BY <2>1, SortedGood
  <2> DEFINE e == Without(new, X)
  <2>3. e \in Seq(Ports) /\ AllDifferent(e) /\ \A i \in 1 .. Len(e) : e[i] \notin X
    <3> HIDE DEF X
    <3> QED BY <2>2, WithoutProperties
  <2>4. s = valid \o e
    BY <1>6 DEF Excluding
  <2> HIDE DEF e, X, valid
  <2> QED BY <1>4, <2>3, <2>4
<1>7. CASE s = First(valid \o Sorted(FreePorts \ X))
  <2> DEFINE new == Sorted(FreePorts \ X)
  <2>1. new \in Seq(Ports) /\ AllDifferent(new) /\ \A i \in 1 .. Len(new) : new[i] \in FreePorts \ X
    <3>1. FreePorts \ X \in SUBSET Ports
      BY <1>2
    <3> HIDE DEF X
    <3> QED BY <3>1, SortedGood
  <2>2. \A i \in 1 .. Len(new) : new[i] \notin X
    BY <2>1
  <2>3. GoodPorts(p, valid \o new, once)
    <3> HIDE DEF new, X, valid
    <3> QED BY <1>4, <2>1, <2>2
  <2> HIDE DEF new, X, valid, n
  <2> QED BY <1>0, <1>7, <2>3, CutGood DEF new
<1> QED BY <1>5, <1>6, <1>7 DEF AdditionalPorts

LEMMA HandleGood ==
  ASSUME args.tp_size \in Nat, NEW p, NEW given \in Seq(Ports), NEW once, once => AllDifferent(given),
         NEW r \in handle_port_init(p, given)
  PROVE  GoodPorts(r[1], r[2], once)
<1>1. PICK q \in MainPorts(p) : r \in {<<q, s>> : s \in AdditionalPorts(q, given)}
  BY DEF handle_port_init
<1>2. PICK s \in AdditionalPorts(q, given) : r = <<q, s>>
  BY <1>1
<1>3. r[1] = q /\ r[2] = s
  BY <1>2
<1> QED BY <1>3, AdditionalGood

-----------------------------------------------------------------------------
(* The inductive invariant *)

Different == AllDifferent(args.additional_ports)

\* What the two calls of handle_port_init leave.
PortsInv ==
  /\ args \in ServerArgs
  /\ ports \in Seq(Ports)
  /\ Different => AllDifferent(ports)
  /\ main \notin {"none", "ports"} => \A i \in 1 .. Len(ports) : ports[i] # port

\* The types that the handshake needs, and which process exists when.
StageInv ==
  /\ owner = [p \in Ports |-> owner[p]]
  /\ pipes = [x \in {"router", "detoken"} |-> pipes[x]]
  /\ runtime = "init" <=> main = "none"
  /\ main \in {"none", "ports", "tokenizer", "start"} => router = "none"
  /\ main \in {"none", "ports", "tokenizer", "start", "detokenizer"} => detoken = "none"
  /\ main \notin {"none", "ports", "exited"} => Len(ports) >= 4
  /\ router # "none" \/ detoken # "none" => Len(ports) >= 4

\* A word in a pipe, and the word the Runtime gets, stand for ports held.
WordsInv ==
  /\ main \notin {"none", "ports", "tokenizer", "exited"} => owner[tokenizer_port] = "tokenizer"
  /\ router = "serving" => owner[router_port] = "router"
  /\ detoken = "serving" => owner[detokenizer_port] = "detokenizer"
  /\ (main # "exited" /\ pipes["router"] = "init ok") => router = "serving"
  /\ (main # "exited" /\ pipes["detoken"] = "init ok") => detoken = "serving"
  /\ main \in {"engine", "poll", "serving", "raised"} => InitOk
  /\ told = "init ok" => main = "serving"
  /\ runtime = "ok" => told = "init ok"

LaunchInv == PortsInv /\ StageInv /\ WordsInv

LEMMA ArgsFacts ==
  ASSUME args \in ServerArgs
  PROVE  /\ args.tp_size \in Nat /\ args.additional_ports \in Seq(Ports)
         /\ IsInjective(args.additional_ports) <=> Different
<1>1. args.tp_size \in Nat /\ args.additional_ports \in Seq(Ports)
  BY LaunchAssumption
<1>2. DOMAIN args.additional_ports = 1 .. Len(args.additional_ports)
  BY <1>1
<1> QED BY <1>1, <1>2 DEF IsInjective, Different, AllDifferent

LEMMA InitLaunch == LaunchInit => LaunchInv
<1> SUFFICES ASSUME LaunchInit PROVE LaunchInv
  OBVIOUS
<1>1. PortsInv
  <2>1. args \in ServerArgs
    BY DEF LaunchInit
  <2> QED BY <2>1, ArgsFacts DEF LaunchInit, PortsInv, Different
<1>2. StageInv
  <2>1. owner = [p \in Ports |-> owner[p]]
    BY DEF LaunchInit
  <2>2. pipes = [x \in {"router", "detoken"} |-> pipes[x]]
    BY DEF LaunchInit
  <2> QED BY <2>1, <2>2 DEF LaunchInit, StageInv
<1>3. WordsInv
  BY DEF LaunchInit, WordsInv
<1> QED BY <1>1, <1>2, <1>3 DEF LaunchInv

\* Ports are looked for in the Runtime and again in launch_server, and stay.
LEMMA PortsNext == LaunchInv /\ [LaunchNext]_launch_vars => PortsInv'
<1> SUFFICES ASSUME LaunchInv, [LaunchNext]_launch_vars PROVE PortsInv'
  OBVIOUS
<1>0. PortsInv /\ args \in ServerArgs /\ ports \in Seq(Ports) /\ (Different => AllDifferent(ports))
      /\ args.tp_size \in Nat /\ args.additional_ports \in Seq(Ports)
  BY ArgsFacts DEF LaunchInv, PortsInv
<1>1. CASE RuntimeStart
  <2>1. PICK r \in handle_port_init(MainPort, args.additional_ports) :
          port' = r[1] /\ ports' = r[2]
    BY <1>1 DEF RuntimeStart
  <2>2. GoodPorts(r[1], r[2], Different)
    BY <1>0, HandleGood DEF Different
  <2>3. args' = args /\ (Different' <=> Different)
    BY <1>1 DEF RuntimeStart, Different
  <2> QED BY <1>0, <2>1, <2>2, <2>3 DEF GoodPorts, PortsInv
<1>2. CASE MainHandlePorts
  <2>1. PICK r \in handle_port_init(port, ports) : port' = r[1] /\ ports' = r[2]
    BY <1>2 DEF MainHandlePorts
  <2>2. GoodPorts(r[1], r[2], Different)
    BY <1>0, HandleGood
  <2>3. args' = args /\ (Different' <=> Different)
    BY <1>2 DEF MainHandlePorts, Different
  <2> QED BY <1>0, <2>1, <2>2, <2>3 DEF GoodPorts, PortsInv
<1>3. CASE UNCHANGED <<args, port, ports>> /\ (main' \notin {"none", "ports"} => main \notin {"none", "ports"})
  BY <1>0, <1>3 DEF PortsInv, Different
<1>4. \/ RuntimeStart \/ MainHandlePorts
      \/ UNCHANGED <<args, port, ports>> /\ (main' \notin {"none", "ports"} => main \notin {"none", "ports"})
  <2>1. CASE UNCHANGED <<args, port, ports, main>>
    BY <2>1
  <2>2. CASE Taken \/ RuntimeTold \/ RuntimeFails \/ UNCHANGED launch_vars
    BY <2>2 DEF Taken, RuntimeTold, RuntimeFails, procs, launch_vars
  <2>3. CASE \E w \in Who : Engine(w)
    BY <2>3 DEF Engine, FindNcclPort, InitProcessGroup, StartModelServers, InitModels, LoadModel, procs
  <2>4. CASE RouterReady \/ RouterRaises \/ DetokenReady \/ DetokenRaises
    BY <2>4 DEF RouterReady, RouterRaises, DetokenReady, DetokenRaises
  <2>5. CASE Main
    BY <2>5 DEF Main, StartTokenizer, StartRouter, StartDetoken, RecvRouter, RecvDetoken,
                BuildOwnEngine, KillBoth, EngineRaises, StartAPI, Answered, NotAnswered
  <2> QED BY <2>2, <2>3, <2>4, <2>5 DEF LaunchNext
<1> QED BY <1>1, <1>2, <1>3, <1>4

\* A port that is bound stays bound to the same process, but for the router's
\* NCCL port, until launch_server kills both.
Kept == \A p \in Ports : owner[p] \notin {"free", "nccl_router"} => owner'[p] = owner[p]

LEMMA OwnersKept ==
  ASSUME StageInv, [LaunchNext]_launch_vars
  PROVE  owner' = [p \in Ports |-> owner'[p]] /\ (Kept \/ KillBoth)
<1> USE DEF Kept, StageInv
<1>0. owner = [p \in Ports |-> owner[p]]
  OBVIOUS
<1>1. ASSUME NEW p, NEW who, Bind(p, who)
      PROVE  owner' = [q \in Ports |-> owner'[q]] /\ Kept
  <2>1. owner' = [owner EXCEPT ![p] = who] /\ owner[p] = "free"
    BY <1>1 DEF Bind, is_port_free
  <2> QED BY <1>0, <2>1
<1>2. CASE UNCHANGED owner
  BY <1>0, <1>2
<1>3. CASE Taken
  <2>1. PICK p \in FreePorts : owner' = [owner EXCEPT ![p] = "other"]
    BY <1>3 DEF Taken
  <2> QED BY <1>0, <2>1 DEF FreePorts, is_port_free
<1>4. ASSUME NEW w \in Who, Engine(w)
      PROVE  owner' = [p \in Ports |-> owner'[p]] /\ Kept
  <2>1. CASE StartModelServers(w)
    <3>1. owner' = [p \in Ports |-> IF p \in Range(model_rpc_ports) /\ is_port_free(p)
                               THEN "rpc" ELSE owner[p]]
      BY <2>1 DEF StartModelServers
    <3> QED BY <1>0, <3>1 DEF is_port_free
  <2>2. CASE ~StartModelServers(w)
    <3>1. UNCHANGED owner \/ \E p, who : Bind(p, who)
      BY <1>4, <2>2 DEF Engine, FindNcclPort, InitProcessGroup, InitModels, LoadModel
    <3> QED BY <1>1, <1>2, <3>1
  <2> QED BY <2>1, <2>2
<1>5. CASE RouterRaises
  <2>1. UNCHANGED owner \/ owner' = Released(owner, {"nccl_router"})
    BY <1>5 DEF RouterRaises
  <2> QED BY <1>0, <2>1 DEF Released
<1>6. CASE KillBoth
  BY <1>6 DEF KillBoth, Released
<1>7. CASE RouterReady \/ DetokenReady \/ DetokenRaises
  <2>1. UNCHANGED owner \/ \E p, who : Bind(p, who)
    BY <1>7 DEF RouterReady, DetokenReady, DetokenRaises
  <2> QED BY <1>1, <1>2, <2>1
<1>8. CASE Main /\ ~KillBoth
  <2>1. UNCHANGED owner \/ \E p, who : Bind(p, who)
    BY <1>8 DEF Main, MainHandlePorts, StartTokenizer, StartRouter, StartDetoken, RecvRouter,
                RecvDetoken, BuildOwnEngine, EngineRaises, StartAPI, Answered, NotAnswered
  <2> QED BY <1>1, <1>2, <2>1
<1>9. CASE RuntimeStart \/ RuntimeTold \/ RuntimeFails \/ UNCHANGED launch_vars
  BY <1>0, <1>9 DEF RuntimeStart, RuntimeTold, RuntimeFails, launch_vars
<1> QED BY <1>3, <1>4, <1>5, <1>6, <1>7, <1>8, <1>9 DEF LaunchNext

LEMMA StageNext == LaunchInv /\ [LaunchNext]_launch_vars => StageInv'
<1> SUFFICES ASSUME LaunchInv, [LaunchNext]_launch_vars PROVE StageInv'
  OBVIOUS
<1> USE DEF StageInv, LaunchInv
<1>1. owner' = [p \in Ports |-> owner'[p]]
  BY OwnersKept
<1>2. CASE UNCHANGED <<ports, runtime, main, router, detoken, pipes>>
  BY <1>1, <1>2
<1>3. CASE RuntimeStart
  BY <1>1, <1>3 DEF RuntimeStart
<1>4. CASE RuntimeTold \/ RuntimeFails
  BY <1>1, <1>4 DEF RuntimeTold, RuntimeFails
<1>5. CASE MainHandlePorts
  BY <1>1, <1>5 DEF MainHandlePorts, PortsInv
<1>6. CASE StartTokenizer
  BY <1>1, <1>6 DEF StartTokenizer
<1>7. CASE StartRouter \/ StartDetoken
  BY <1>1, <1>7 DEF StartRouter, StartDetoken
<1>8. CASE \/ RecvRouter \/ RecvDetoken \/ BuildOwnEngine \/ KillBoth \/ EngineRaises
           \/ StartAPI \/ Answered \/ NotAnswered
  BY <1>1, <1>8 DEF RecvRouter, RecvDetoken, BuildOwnEngine, KillBoth, EngineRaises,
                    StartAPI, Answered, NotAnswered
<1>9. CASE RouterReady \/ RouterRaises \/ DetokenReady \/ DetokenRaises
  <2>1. /\ UNCHANGED <<ports, runtime, main>>
        /\ router' = router \/ (router # "none" /\ router' # "none")
        /\ detoken' = detoken \/ (detoken # "none" /\ detoken' # "none")
    BY <1>9 DEF RouterReady, RouterRaises, DetokenReady, DetokenRaises
  <2>2. \E x, w : pipes' = [pipes EXCEPT ![x] = w]
    BY <1>9, ZenonT(40) DEF RouterReady, RouterRaises, DetokenReady, DetokenRaises, SendError
  <2>3. pipes' = [x \in {"router", "detoken"} |-> pipes'[x]]
    BY <2>2
  <2> QED BY <1>1, <2>1, <2>3
<1>10. CASE Taken \/ UNCHANGED launch_vars
  BY <1>2, <1>10 DEF Taken, procs, launch_vars
<1>11. CASE \E w \in Who : Engine(w)
  BY <1>2, <1>11 DEF Engine, FindNcclPort, InitProcessGroup, StartModelServers, InitModels,
                     LoadModel, procs
<1> QED BY <1>3, <1>4, <1>5, <1>6, <1>7, <1>8, <1>9, <1>10, <1>11 DEF LaunchNext, Main

\* A step that leaves the processes and their words alone, and kills nobody.
LEMMA WordsSame ==
  ASSUME LaunchInv, Kept, UNCHANGED <<ports, runtime, main, router, detoken, pipes, told>>
  PROVE  WordsInv'
<1>1. Len(ports) >= 4 => ports[1] \in Ports /\ ports[2] \in Ports /\ ports[3] \in Ports
  BY DEF LaunchInv, PortsInv
<1>2. owner[tokenizer_port] = "tokenizer" /\ Len(ports) >= 4 => owner'[tokenizer_port] = "tokenizer"
  BY <1>1 DEF Kept, tokenizer_port
<1>3. owner[router_port] = "router" /\ Len(ports) >= 4 => owner'[router_port] = "router"
  BY <1>1 DEF Kept, router_port
<1>4. owner[detokenizer_port] = "detokenizer" /\ Len(ports) >= 4
        => owner'[detokenizer_port] = "detokenizer"
  BY <1>1 DEF Kept, detokenizer_port
<1>5. router = "serving" \/ detoken = "serving" => Len(ports) >= 4
  BY DEF LaunchInv, StageInv
<1>6. main \notin {"none", "ports", "tokenizer", "exited"} => Len(ports) >= 4
  BY DEF LaunchInv, StageInv
<1>7. /\ tokenizer_port' = tokenizer_port /\ router_port' = router_port
      /\ detokenizer_port' = detokenizer_port /\ (InitOk' <=> InitOk)
  BY DEF tokenizer_port, router_port, detokenizer_port, InitOk
<1> QED BY <1>2, <1>3, <1>4, <1>5, <1>6, <1>7 DEF LaunchInv, WordsInv

LEMMA WordsNext == LaunchInv /\ [LaunchNext]_launch_vars => WordsInv'
<1> SUFFICES ASSUME LaunchInv, [LaunchNext]_launch_vars PROVE WordsInv'
  OBVIOUS
<1> USE DEF LaunchInv
<1> DEFINE T == tokenizer_port
           R == router_port
           D == detokenizer_port
<1>1. Kept \/ KillBoth
  BY OwnersKept
<1>2. Len(ports) >= 4 => T \in Ports /\ R \in Ports /\ D \in Ports
  BY DEF PortsInv, tokenizer_port, router_port, detokenizer_port
<1>3. ports' = ports => T' = T /\ R' = R /\ D' = D
  BY DEF tokenizer_port, router_port, detokenizer_port
<1>4. /\ DOMAIN owner = Ports
      /\ DOMAIN pipes = {"router", "detoken"}
  BY DEF StageInv
<1>5. Kept =>
        /\ Len(ports) >= 4 /\ owner[T] = "tokenizer" => owner'[T] = "tokenizer"
        /\ Len(ports) >= 4 /\ owner[R] = "router" => owner'[R] = "router"
        /\ Len(ports) >= 4 /\ owner[D] = "detokenizer" => owner'[D] = "detokenizer"
  BY <1>2 DEF Kept
<1> HIDE DEF T, R, D
<1>6. CASE \E w \in Who : Engine(w)
  <2>1. Kept /\ UNCHANGED <<ports, runtime, main, router, detoken, pipes, told>>
    BY <1>1, <1>6 DEF Engine, FindNcclPort, InitProcessGroup, StartModelServers, InitModels,
                      LoadModel, procs, KillBoth, Goes
  <2> QED BY <2>1, WordsSame
<1>7. CASE Taken \/ UNCHANGED launch_vars
  <2>1. UNCHANGED <<ports, runtime, main, router, detoken, pipes, told>>
    BY <1>7 DEF Taken, procs, launch_vars
  <2>2. Kept
    BY <1>1, <2>1 DEF KillBoth
  <2> QED BY <2>1, <2>2, WordsSame
<1>8. CASE RuntimeStart
  <2>1. runtime = "init" /\ runtime' = "waiting" /\ main' = "ports"
        /\ UNCHANGED <<router, detoken, pipes, told>>
    BY <1>8 DEF RuntimeStart
  <2> QED BY <2>1 DEF StageInv, WordsInv, InitOk
<1>9. CASE RuntimeTold \/ RuntimeFails
  <2>1. UNCHANGED <<owner, ports, main, router, detoken, pipes, told>>
        /\ (runtime' = "ok" => told = "init ok")
    BY <1>9 DEF RuntimeTold, RuntimeFails
  <2> QED BY <1>3, <2>1 DEF WordsInv, InitOk, T, R, D
<1>10. CASE MainHandlePorts
  <2>1. main = "ports" /\ main' \in {"exited", "tokenizer"}
        /\ UNCHANGED <<runtime, router, detoken, pipes, told>>
    BY <1>10 DEF MainHandlePorts
  <2> QED BY <2>1 DEF StageInv, WordsInv
<1>11. CASE StartTokenizer
  <2>1. main = "tokenizer" /\ UNCHANGED <<ports, runtime, router, detoken, pipes, told>>
        /\ \/ main' = "start" /\ owner' = [owner EXCEPT ![T] = "tokenizer"]
           \/ main' = "exited"
    BY <1>11 DEF StartTokenizer, Bind, T
  <2>2. Len(ports) >= 4 /\ router = "none" /\ detoken = "none"
    BY <2>1 DEF StageInv
  <2> QED BY <1>2, <1>3, <1>4, <2>1, <2>2 DEF StageInv, WordsInv, T
<1>12. CASE StartRouter \/ StartDetoken
  <2>1. UNCHANGED <<owner, ports, runtime, pipes, told>>
        /\ \/ /\ main = "start" /\ main' = "detokenizer" /\ router' = "building" /\ detoken' = detoken
           \/ /\ main = "detokenizer" /\ main' = "recv_router" /\ detoken' = "building"
              /\ router' = router
    BY <1>12 DEF StartRouter, StartDetoken
  <2> QED BY <1>3, <2>1 DEF StageInv, WordsInv, T, R, D
<1>13. CASE RecvRouter \/ RecvDetoken \/ BuildOwnEngine \/ EngineRaises \/ Answered \/ NotAnswered
  <2>1. /\ UNCHANGED <<owner, ports, runtime, router, detoken, pipes>>
        /\ main \notin {"none", "ports", "tokenizer", "exited", "serving"}
        /\ main' \in {"recv_detoken", "check", "engine", "raised", "serving"}
        /\ main' = "engine" => InitOk
        /\ main' \in {"raised", "serving"} => main \in {"engine", "poll"}
        /\ told' = told \/ main' = "serving"
    BY <1>13 DEF RecvRouter, RecvDetoken, BuildOwnEngine, EngineRaises, Answered, NotAnswered
  <2>2. InitOk' <=> InitOk
    BY <2>1 DEF InitOk
  <2>3. T' = T /\ R' = R /\ D' = D
    BY <1>3, <2>1
  <2> QED BY <2>1, <2>2, <2>3 DEF StageInv, WordsInv, T, R, D
<1>14. CASE StartAPI
  <2>1. main = "engine" /\ main' = "poll" /\ UNCHANGED <<ports, runtime, router, detoken, pipes, told>>
    BY <1>14 DEF StartAPI
  <2>2. Kept /\ (InitOk' <=> InitOk)
    BY <1>1, <2>1 DEF KillBoth, InitOk
  <2>3. Len(ports) >= 4
    BY <2>1 DEF StageInv
  <2>4. T' = T /\ R' = R /\ D' = D
    BY <1>3, <2>1
  <2> QED BY <1>5, <2>1, <2>2, <2>3, <2>4 DEF StageInv, WordsInv, T, R, D
<1>15. CASE KillBoth
  <2>1. main = "check" /\ main' = "exited" /\ router' = "dead" /\ detoken' = "dead"
        /\ UNCHANGED <<runtime, told>>
    BY <1>15 DEF KillBoth
  <2> QED BY <2>1 DEF WordsInv
<1>16. CASE RouterReady \/ RouterRaises
  <2>1. /\ UNCHANGED <<ports, runtime, main, detoken, told>> /\ router = "building"
        /\ \/ /\ router' = "serving" /\ owner' = [owner EXCEPT ![R] = "router"]
              /\ pipes' = [pipes EXCEPT !["router"] = "init ok"]
           \/ /\ router' \in {"raised", "dead"}
              /\ pipes' = [pipes EXCEPT !["router"] = "error"]
    BY <1>16 DEF RouterReady, RouterRaises, SendError, Bind, R
  <2>2. Kept /\ Len(ports) >= 4
    <3>1. ~KillBoth
      BY <1>16, <2>1 DEF KillBoth, StageInv, RouterReady, RouterRaises
    <3> QED BY <1>1, <2>1, <3>1 DEF StageInv
  <2>3. T' = T /\ R' = R /\ D' = D
    BY <1>3, <2>1
  <2>4. pipes'["detoken"] = pipes["detoken"]
        /\ (pipes'["router"] = "init ok" => router' = "serving")
        /\ (router' = "serving" => owner'[R] = "router")
    BY <1>2, <1>4, <2>1, <2>2
  <2>5. main = "exited" \/ main \notin {"engine", "poll", "serving", "raised"}
    BY <2>1 DEF WordsInv, InitOk
  <2> QED BY <1>5, <2>1, <2>2, <2>3, <2>4, <2>5 DEF StageInv, WordsInv, T, R, D
<1>17. CASE DetokenReady \/ DetokenRaises
  <2>1. /\ UNCHANGED <<ports, runtime, main, router, told>> /\ detoken = "building"
        /\ \/ /\ detoken' = "serving" /\ owner' = [owner EXCEPT ![D] = "detokenizer"]
              /\ pipes' = [pipes EXCEPT !["detoken"] = "init ok"]
           \/ /\ detoken' = "dead"
              /\ pipes' = [pipes EXCEPT !["detoken"] = "error"]
    BY <1>17 DEF DetokenReady, DetokenRaises, SendError, Bind, D
  <2>2. Kept /\ Len(ports) >= 4
    <3>1. ~KillBoth
      BY <1>17, <2>1 DEF KillBoth, StageInv, DetokenReady, DetokenRaises
    <3> QED BY <1>1, <2>1, <3>1 DEF StageInv
  <2>3. T' = T /\ R' = R /\ D' = D
    BY <1>3, <2>1
  <2>4. pipes'["router"] = pipes["router"]
        /\ (pipes'["detoken"] = "init ok" => detoken' = "serving")
        /\ (detoken' = "serving" => owner'[D] = "detokenizer")
    BY <1>2, <1>4, <2>1, <2>2
  <2>5. main = "exited" \/ main \notin {"engine", "poll", "serving", "raised"}
    BY <2>1 DEF WordsInv, InitOk
  <2> QED BY <1>5, <2>1, <2>2, <2>3, <2>4, <2>5 DEF StageInv, WordsInv, T, R, D
<1> QED BY <1>6, <1>7, <1>8, <1>9, <1>10, <1>11, <1>12, <1>13, <1>14, <1>15, <1>16, <1>17
        DEF LaunchNext, Main

LEMMA LaunchSafety == LaunchSpec => []LaunchInv
<1>1. LaunchInv /\ [LaunchNext]_launch_vars => LaunchInv'
  BY PortsNext, StageNext, WordsNext DEF LaunchInv
<1> QED BY InitLaunch, <1>1, PTL DEF LaunchSpec

\* However often the ports are looked for and whoever takes ports meanwhile,
\* no process is told a port that another one, or the HTTP server, was told.
THEOREM PortsApartAlways == LaunchSpec => []PortsApart
<1>1. ASSUME LaunchInv PROVE PortsApart
  <2>1. args \in ServerArgs /\ ports \in Seq(Ports) /\ (Different => AllDifferent(ports))
        /\ (main \notin {"none", "ports"} => \A i \in 1 .. Len(ports) : ports[i] # port)
    BY <1>1 DEF LaunchInv, PortsInv
  <2>2. IsInjective(args.additional_ports) => IsInjective(ports)
    BY <2>1, ArgsFacts DEF IsInjective, AllDifferent
  <2>3. main \notin {"none", "ports"} => port \notin Range(ports)
    BY <2>1 DEF Range
  <2> QED BY <2>2, <2>3 DEF PortsApart
<1> QED BY LaunchSafety, <1>1, PTL

\* A Runtime that was told "init ok" has the whole pipeline behind it.
THEOREM ServingCompleteAlways == LaunchSpec => []ServingComplete
<1>1. LaunchInv => ServingComplete
  BY DEF LaunchInv, WordsInv, InitOk, ServingComplete
<1> QED BY LaunchSafety, <1>1, PTL

-----------------------------------------------------------------------------
(* The serving pipeline *)

\* The requests of each message, of a queue whose messages list them.
Sets(q) == [i \in 1 .. Len(q) |-> Range(q[i])]
\* All that a queue of sets holds.
All(q) == UNION Range(q)
\* No two messages have a request in common.
Apart(q) == \A i, j \in 1 .. Len(q) : i # j => q[i] \cap q[j] = {}

\* What waits for the engine and what it has sent back, each in its order:
\* taking from one queue and adding to the next leaves them as they are.
Inbox == recv_reqs \o to_router
Outbox == to_tokenizer \o to_detokenizer

TypeInv ==
  /\ call \in [Calls -> {"unsent", "waiting", "yielded", "done", "gone"}]
  /\ rid_to_state \in [Known -> ReqState]
  /\ to_router \in Seq(Seq(Requests)) /\ recv_reqs \in Seq(Seq(Requests))
  /\ to_detokenizer \in Seq(SUBSET Requests) /\ to_tokenizer \in Seq(SUBSET Requests)
  /\ stepping \in BOOLEAN
  /\ in_step \subseteq Requests /\ answered \subseteq Requests /\ forgotten \subseteq Requests

\* Every request sent is in one place.
PlacesInv ==
  /\ Apart(Sets(Inbox))
  /\ All(Sets(Inbox)) \cap (in_step \cup answered \cup forgotten) = {}
  /\ in_step \cap (answered \cup forgotten) = {} /\ answered \cap forgotten = {}
  /\ All(Sets(Inbox)) \cup in_step \cup answered \cup forgotten = SentRequests
  /\ ~stepping => in_step = {}

\* Every answer on its way is one the engine gave, and is on its way once.
OutboxInv == Apart(Outbox) /\ All(Outbox) \subseteq answered

UnderWay == All(Sets(Inbox)) \cup in_step \cup All(Outbox)

\* A request under way has a state that nobody may delete yet.
StatesInv ==
  /\ handle_loop = "running"
  /\ Known \subseteq SentRequests
  /\ \A r \in UnderWay :
       r \in Known /\ ~rid_to_state[r].event /\ ~rid_to_state[r].finished

IInv == TypeInv /\ PlacesInv /\ OutboxInv /\ StatesInv

-----------------------------------------------------------------------------
(* Queues *)

\* The elements of a queue of sets lie in it, and nothing else does.
LEMMA InAll ==
  ASSUME NEW S, NEW q \in Seq(S), NEW r
  PROVE  r \in All(q) <=> \E i \in 1 .. Len(q) : r \in q[i]
BY RangeEquality DEF All

LEMMA AllConcat ==
  ASSUME NEW S, NEW p \in Seq(S), NEW q \in Seq(S)
  PROVE  All(p \o q) = All(p) \cup All(q)
BY RangeConcatenation DEF All

\* Two queues in a row hold a request once if each does and they share none.
LEMMA ApartConcat ==
  ASSUME NEW S, NEW p \in Seq(S), NEW q \in Seq(S)
  PROVE  Apart(p \o q) <=> Apart(p) /\ Apart(q) /\ All(p) \cap All(q) = {}
<1> DEFINE c == p \o q
<1>1. /\ Len(p) \in Nat /\ Len(q) \in Nat /\ Len(c) = Len(p) + Len(q)
      /\ \A i \in 1 .. Len(p) : i \in 1 .. Len(c) /\ c[i] = p[i]
      /\ \A j \in 1 .. Len(q) : Len(p) + j \in 1 .. Len(c) /\ c[Len(p) + j] = q[j]
  BY ConcatProperties, LenProperties
<1>2. \A k \in 1 .. Len(c) : k \in 1 .. Len(p) \/ \E j \in 1 .. Len(q) : k = Len(p) + j
  <2> SUFFICES ASSUME NEW k \in 1 .. Len(c), k \notin 1 .. Len(p)
               PROVE  k - Len(p) \in 1 .. Len(q) /\ k = Len(p) + (k - Len(p))
    OBVIOUS
  <2> HIDE DEF c
  <2> QED  BY <1>1
<1>3. ASSUME Apart(c) PROVE Apart(p) /\ Apart(q) /\ All(p) \cap All(q) = {}
  <2>1. Apart(p) /\ Apart(q)
    <3> HIDE DEF c
    <3>1. Apart(p)
      BY <1>1, <1>3 DEF Apart
    <3>2. ASSUME NEW i \in 1 .. Len(q), NEW j \in 1 .. Len(q), i # j
          PROVE  q[i] \cap q[j] = {}
      <4>1. Len(p) + i # Len(p) + j
        BY <1>1, <3>2
      <4> QED  BY <1>1, <1>3, <4>1 DEF Apart
    <3> QED  BY <3>1, <3>2 DEF Apart
  <2>2. ASSUME NEW r \in All(p), r \in All(q) PROVE FALSE
    <3>1. PICK i \in 1 .. Len(p) : r \in p[i]
      BY <2>2, InAll
    <3>2. PICK j \in 1 .. Len(q) : r \in q[j]
      BY <2>2, InAll
    <3>3. i # Len(p) + j /\ r \in c[i] /\ r \in c[Len(p) + j]
      BY <1>1, <3>1, <3>2
    <3> HIDE DEF c
    <3> QED  BY <1>1, <1>3, <3>3 DEF Apart
  <2> QED  BY <2>1, <2>2
<1>4. ASSUME Apart(p), Apart(q), All(p) \cap All(q) = {} PROVE Apart(c)
  <2> SUFFICES ASSUME NEW i \in 1 .. Len(c), NEW j \in 1 .. Len(c), i # j,
                      NEW r, r \in c[i], r \in c[j]
               PROVE  FALSE
    BY DEF Apart
  <2>1. CASE i \in 1 .. Len(p) /\ j \in 1 .. Len(p)
    BY <1>1, <1>4, <2>1 DEF Apart
  <2>2. CASE i \notin 1 .. Len(p) /\ j \notin 1 .. Len(p)
    <3>1. PICK a \in 1 .. Len(q) : i = Len(p) + a
      BY <1>2, <2>2
    <3>2. PICK b \in 1 .. Len(q) : j = Len(p) + b
      BY <1>2, <2>2
    <3>3. a # b /\ r \in q[a] /\ r \in q[b]
      BY <1>1, <3>1, <3>2
    <3> QED  BY <1>4, <3>3 DEF Apart
  <2>3. CASE i \in 1 .. Len(p) /\ j \notin 1 .. Len(p)
    <3>1. PICK b \in 1 .. Len(q) : j = Len(p) + b
      BY <1>2, <2>3
    <3>2. r \in p[i] /\ r \in q[b]
      BY <1>1, <2>3, <3>1
    <3> QED  BY <1>4, <2>3, <3>2, InAll
  <2>4. CASE i \notin 1 .. Len(p) /\ j \in 1 .. Len(p)
    <3>1. PICK a \in 1 .. Len(q) : i = Len(p) + a
      BY <1>2, <2>4
    <3>2. r \in q[a] /\ r \in p[j]
      BY <1>1, <2>4, <3>1
    <3> QED  BY <1>4, <2>4, <3>2, InAll
  <2> QED  BY <2>1, <2>2, <2>3, <2>4
<1> QED  BY <1>3, <1>4

LEMMA SetsType ==
  ASSUME NEW S, NEW q \in Seq(Seq(S))
  PROVE  /\ Sets(q) \in Seq(SUBSET S)
         /\ Len(Sets(q)) = Len(q)
         /\ All(Sets(q)) = InMessages(q)
<1>1. Len(q) \in Nat /\ \A i \in 1 .. Len(q) : Range(q[i]) \in SUBSET S
  BY LenProperties, ElementOfSeq, RangeOfSeq
<1>2. Sets(q) \in [1 .. Len(q) -> SUBSET S]
  BY <1>1 DEF Sets
<1>3. Sets(q) \in Seq(SUBSET S) /\ Len(Sets(q)) = Len(q)
  <2>1. Sets(q) \in Seq(SUBSET S)
    <3>1. Seq(SUBSET S) = UNION {[1 .. n -> SUBSET S] : n \in Nat}
      BY SeqDef
    <3> QED  BY <1>1, <1>2, <3>1, Zenon
  <2>2. DOMAIN Sets(q) = 1 .. Len(q) /\ DOMAIN Sets(q) = 1 .. Len(Sets(q)) /\ Len(Sets(q)) \in Nat
    BY <1>2, <2>1, LenProperties
  <2> QED  BY <1>1, <2>1, <2>2
<1>4. All(Sets(q)) = InMessages(q)
  BY DEF All, Sets, InMessages, Range
<1> QED  BY <1>3, <1>4

LEMMA SetsConcat ==
  ASSUME NEW S, NEW p \in Seq(Seq(S)), NEW q \in Seq(Seq(S))
  PROVE  Sets(p \o q) = Sets(p) \o Sets(q)
<1>1. /\ p \o q \in Seq(Seq(S)) /\ Len(p \o q) = Len(p) + Len(q)
      /\ Len(p) \in Nat /\ Len(q) \in Nat
      /\ \A i \in 1 .. Len(p) + Len(q) :
            (p \o q)[i] = IF i <= Len(p) THEN p[i] ELSE q[i - Len(p)]
  BY ConcatProperties, LenProperties
<1>2. /\ Sets(p) \in Seq(SUBSET S) /\ Sets(q) \in Seq(SUBSET S)
      /\ Len(Sets(p)) = Len(p) /\ Len(Sets(q)) = Len(q)
      /\ Sets(p \o q) \in Seq(SUBSET S) /\ Len(Sets(p \o q)) = Len(p) + Len(q)
  BY <1>1, SetsType
<1>3. /\ Sets(p) \o Sets(q) \in Seq(SUBSET S)
      /\ Len(Sets(p) \o Sets(q)) = Len(p) + Len(q)
      /\ \A i \in 1 .. Len(p) + Len(q) :
            (Sets(p) \o Sets(q))[i] = IF i <= Len(p) THEN Sets(p)[i] ELSE Sets(q)[i - Len(p)]
  <2>1. /\ Sets(p) \o Sets(q) \in Seq(SUBSET S)
        /\ Len(Sets(p) \o Sets(q)) = Len(Sets(p)) + Len(Sets(q))
        /\ \A i \in 1 .. Len(Sets(p)) + Len(Sets(q)) :
              (Sets(p) \o Sets(q))[i] = IF i <= Len(Sets(p)) THEN Sets(p)[i]
                                        ELSE Sets(q)[i - Len(Sets(p))]
    <3> DEFINE T == SUBSET S
               a == Sets(p)
               b == Sets(q)
    <3>1. a \in Seq(T) /\ b \in Seq(T)
      BY <1>2
    <3> HIDE DEF T, a, b
    <3>2. /\ a \o b \in Seq(T)
          /\ Len(a \o b) = Len(a) + Len(b)
          /\ \A i \in 1 .. Len(a) + Len(b) :
                (a \o b)[i] = IF i <= Len(a) THEN a[i] ELSE b[i - Len(a)]
      BY <3>1, ConcatProperties
    <3> QED  BY <3>2 DEF T, a, b
  <2> QED  BY <1>2, <2>1
<1>4. ASSUME NEW i \in 1 .. Len(p) + Len(q)
      PROVE  Sets(p \o q)[i] = (Sets(p) \o Sets(q))[i]
  <2>1. Sets(p \o q)[i] = Range((p \o q)[i])
    BY <1>1 DEF Sets
  <2>2. CASE i <= Len(p)
    <3>1. i \in 1 .. Len(p)
      BY <1>1, <2>2
    <3>2. Sets(p)[i] = Range(p[i])
      BY <3>1 DEF Sets
    <3> QED  BY <2>1, <2>2, <3>2, <1>1, <1>3
  <2>3. CASE ~(i <= Len(p))
    <3>1. i - Len(p) \in 1 .. Len(q)
      BY <1>1, <2>3
    <3>2. Sets(q)[i - Len(p)] = Range(q[i - Len(p)])
      BY <3>1 DEF Sets
    <3> QED  BY <2>1, <2>3, <3>2, <1>1, <1>3
  <2> QED  BY <2>2, <2>3
<1> QED  BY <1>2, <1>3, <1>4, SeqEqual

\* Taking the first element of one queue and adding it to the queue before it.
LEMMA Pass ==
  ASSUME NEW S, NEW p \in Seq(S), NEW q \in Seq(S), q # <<>>
  PROVE  Append(p, Head(q)) \o Tail(q) = p \o q
<1>1. Head(q) \in S /\ Tail(q) \in Seq(S) /\ Append(p, Head(q)) = p \o <<Head(q)>>
  BY HeadTailProperties, AppendIsConcat
<1>2. <<Head(q)>> \in Seq(S)
  BY <1>1
<1>3. <<Head(q)>> \o Tail(q) = q
  BY <1>1
<1> QED  BY <1>1, <1>2, <1>3, ConcatAssociative
-----------------------------------------------------------------------------
(* Calls *)

LEMMA CallFacts ==
  ASSUME NEW c \in Calls
  PROVE  /\ rids[c] \in Seq(Requests) /\ rids[c] # <<>>
         /\ Range(rids[c]) \subseteq Requests
         /\ \A i, j \in 1 .. Len(rids[c]) : rids[c][i] = rids[c][j] => i = j
<1>1. rids[c] \in Seq(Range(rids[c])) /\ rids[c] # <<>> /\ IsInjective(rids[c])
  BY CallsAssumption
<1>2. Range(rids[c]) \subseteq Requests
  BY DEF Requests
<1>3. rids[c] \in Seq(Requests)
  BY <1>1, <1>2, SeqMonotonic
<1>4. DOMAIN rids[c] = 1 .. Len(rids[c])
  BY <1>1, LenProperties
<1> QED  BY <1>1, <1>2, <1>3, <1>4 DEF IsInjective

\* The messages of a call hold its requests, each once.
LEMMA MessagesFacts ==
  ASSUME NEW c \in Calls
  PROVE  /\ Messages(c) \in Seq(Seq(Requests))
         /\ All(Sets(Messages(c))) = Range(rids[c])
         /\ Apart(Sets(Messages(c)))
<1> DEFINE q == rids[c]
           n == Len(q)
<1>1. /\ q \in Seq(Requests) /\ n \in Nat /\ Range(q) = {q[i] : i \in 1 .. n}
      /\ \A i \in 1 .. n : q[i] \in Requests
      /\ \A i, j \in 1 .. n : q[i] = q[j] => i = j
  BY CallFacts, LenProperties, RangeEquality, ElementOfSeq
<1>2. CASE kind[c] = "list"
  <2> DEFINE m == [i \in 1 .. n |-> <<q[i]>>]
  <2>1. Messages(c) = m
    BY <1>2 DEF Messages
  <2>2. m \in [1 .. n -> Seq(Requests)]
    <3>1. ASSUME NEW i \in 1 .. n PROVE <<q[i]>> \in Seq(Requests)
      BY <1>1
    <3> HIDE DEF q, n
    <3> QED  BY <3>1
  <2>3. m \in Seq(Seq(Requests)) /\ Len(m) = n
    <3>1. Seq(Seq(Requests)) = UNION {[1 .. k -> Seq(Requests)] : k \in Nat}
      BY SeqDef
    <3>2. m \in Seq(Seq(Requests))
      BY <1>1, <2>2, <3>1, Zenon
    <3>3. DOMAIN m = 1 .. n /\ DOMAIN m = 1 .. Len(m) /\ Len(m) \in Nat
      BY <2>2, <3>2, LenProperties
    <3> HIDE DEF m, n
    <3> QED  BY <1>1, <3>2, <3>3
  <2>4. /\ Sets(m) \in Seq(SUBSET Requests) /\ Len(Sets(m)) = n
        /\ \A i \in 1 .. n : Sets(m)[i] = {q[i]}
    <3>1. ASSUME NEW i \in 1 .. n PROVE Range(m[i]) = {q[i]}
      <4>1. m[i] = <<q[i]>>
        OBVIOUS
      <4> HIDE DEF m, q, n
      <4>2. DOMAIN m[i] = {1} /\ m[i][1] = q[i]
        BY <4>1
      <4> QED  BY <4>2 DEF Range
    <3> HIDE DEF m, q, n
    <3> QED  BY <2>3, <3>1, SetsType DEF Sets
  <2>5. Apart(Sets(m))
    <3> HIDE DEF m, q, n
    <3> QED  BY <1>1, <2>4 DEF Apart
  <2>6. All(Sets(m)) = Range(q)
    <3> HIDE DEF m, q, n
    <3>1. \A r : r \in All(Sets(m)) <=> \E i \in 1 .. n : r \in Sets(m)[i]
      BY <2>4, InAll
    <3> QED  BY <1>1, <2>4, <3>1
  <2> QED  BY <2>1, <2>3, <2>5, <2>6
<1>3. CASE kind[c] # "list"
  <2>1. Messages(c) = <<q>>
    BY <1>3 DEF Messages
  <2>2. <<q>> \in Seq(Seq(Requests)) /\ Len(<<q>>) = 1 /\ <<q>>[1] = q
    BY <1>1
  <2>3. Sets(<<q>>) = [i \in 1 .. 1 |-> Range(q)] /\ Len(Sets(<<q>>)) = 1
    BY <2>2, SetsType DEF Sets
  <2>4. All(Sets(<<q>>)) = Range(q)
    BY <2>3 DEF All, Range
  <2>5. Apart(Sets(<<q>>))
    BY <2>3 DEF Apart
  <2> QED  BY <2>1, <2>2, <2>4, <2>5
<1> QED  BY <1>2, <1>3

\* A call that has been sent goes on: no other request is sent by that.
LEMMA SentStays ==
  ASSUME TypeInv, NEW c \in Calls, call[c] # "unsent",
         NEW s \in {"waiting", "yielded", "done", "gone"}, Become(c, s)
  PROVE  SentRequests' = SentRequests /\ call' \in [Calls -> {"unsent", "waiting", "yielded", "done", "gone"}]
<1>1. \A d \in Calls : call'[d] # "unsent" <=> call[d] # "unsent"
  BY DEF TypeInv, Become
<1>2. {d \in Calls : call'[d] # "unsent"} = {d \in Calls : call[d] # "unsent"}
  BY <1>1
<1> QED  BY <1>2 DEF SentRequests, TypeInv, Become
-----------------------------------------------------------------------------
(* Every step preserves the inductive invariant. *)

LEMMA InitInv == Init => IInv
<1> SUFFICES ASSUME Init PROVE IInv
  OBVIOUS
<1>1. Inbox = <<>> /\ Outbox = <<>>
  BY DEF Init, Inbox, Outbox
<1>2. All(Sets(Inbox)) = {} /\ All(Outbox) = {} /\ Apart(Sets(Inbox)) /\ Apart(Outbox)
  BY <1>1 DEF All, Sets, Apart, Range
<1>3. SentRequests = {}
  BY DEF Init, SentRequests
<1>4. TypeInv
  <2>1. call \in [Calls -> {"unsent", "waiting", "yielded", "done", "gone"}]
    BY DEF Init
  <2>2. rid_to_state \in [Known -> ReqState]
    BY DEF Init, Known
  <2>3. /\ to_router \in Seq(Seq(Requests)) /\ recv_reqs \in Seq(Seq(Requests))
        /\ to_detokenizer \in Seq(SUBSET Requests) /\ to_tokenizer \in Seq(SUBSET Requests)
    BY EmptySeq DEF Init
  <2>4. stepping \in BOOLEAN
    BY DEF Init
  <2>5. in_step \subseteq Requests /\ answered \subseteq Requests /\ forgotten \subseteq Requests
    BY DEF Init
  <2> QED  BY <2>1, <2>2, <2>3, <2>4, <2>5 DEF TypeInv
<1>5. PlacesInv
  BY <1>2, <1>3 DEF Init, PlacesInv
<1>6. OutboxInv
  BY <1>2 DEF OutboxInv
<1>7. StatesInv
  BY <1>2 DEF Init, StatesInv, UnderWay, Known
<1> QED  BY <1>4, <1>5, <1>6, <1>7 DEF IInv

\* A coroutine of the API process does no harm when it leaves alone the states
\* of the requests that have no answer yet.
LEMMA Harmless ==
  ASSUME IInv, NEW c \in Calls, call[c] # "unsent",
         NEW s \in {"waiting", "yielded", "done", "gone"}, Become(c, s),
         UNCHANGED <<handle_loop, queues, routing>>,
         rid_to_state' \in [Known' -> ReqState],
         Known' \subseteq Known,
         \A r \in Known : ~rid_to_state[r].event /\ ~rid_to_state[r].finished =>
           r \in Known' /\ ~rid_to_state'[r].event /\ ~rid_to_state'[r].finished
  PROVE  IInv'
<1> USE DEF IInv
<1>1. /\ SentRequests' = SentRequests
      /\ call' \in [Calls -> {"unsent", "waiting", "yielded", "done", "gone"}]
  BY SentStays
<1>2. Inbox' = Inbox /\ Outbox' = Outbox
  BY DEF Inbox, Outbox, queues, routing
<1>3. TypeInv'
  BY <1>1 DEF TypeInv, queues, routing
<1>4. PlacesInv'
  BY <1>1, <1>2 DEF PlacesInv, routing
<1>5. OutboxInv'
  BY <1>2 DEF OutboxInv, routing
<1>6. StatesInv'
  <2>1. UnderWay' = UnderWay
    BY <1>2 DEF UnderWay, routing
  <2> QED  BY <1>1, <2>1 DEF StatesInv
<1> QED  BY <1>3, <1>4, <1>5, <1>6

\* A state that is deleted is one whose event or answer is there.
LEMMA DeleteHarmless ==
  ASSUME IInv, NEW q, Delete(q),
         q \in Known => rid_to_state[q].event \/ rid_to_state[q].finished
  PROVE  /\ rid_to_state' \in [Known' -> ReqState]
         /\ Known' \subseteq Known
         /\ \A r \in Known : ~rid_to_state[r].event /\ ~rid_to_state[r].finished =>
              r \in Known' /\ ~rid_to_state'[r].event /\ ~rid_to_state'[r].finished
<1>1. rid_to_state' = [r \in Known \ {q} |-> rid_to_state[r]]
  BY DEF Delete, Restrict
<1>2. Known' = Known \ {q}
  BY <1>1 DEF Known
<1> QED  BY <1>1, <1>2 DEF IInv, TypeInv

\* The stream clears a state for the next answer.
LEMMA Cleared ==
  ASSUME NEW st \in ReqState, NEW l \in Seq(Requests)
  PROVE  /\ [st EXCEPT !.out_list = l, !.event = FALSE] \in ReqState
         /\ ~[st EXCEPT !.out_list = l, !.event = FALSE].event
         /\ [st EXCEPT !.out_list = l, !.event = FALSE].finished = st.finished
BY DEF ReqState

LEMMA ApiStep ==
  ASSUME IInv, NEW c \in Calls, Continue(c) \/ Disconnect(c)
  PROVE  IInv'
<1>1. CASE Respond(c) \/ Yield(c)
  <2>1. /\ call[c] # "unsent" /\ UNCHANGED <<rid_to_state, handle_loop, queues, routing>>
        /\ Become(c, "done") \/ Become(c, "yielded")
    BY <1>1 DEF Respond, Yield
  <2>2. rid_to_state' \in [Known' -> ReqState] /\ Known' = Known
    BY <2>1 DEF Known, IInv, TypeInv
  <2> QED  BY <2>1, <2>2, Harmless
<1>2. CASE Disconnect(c)
  <2>1. /\ call[c] # "unsent" /\ UNCHANGED <<rid_to_state, handle_loop, queues, routing>>
        /\ Become(c, "gone")
    BY <1>2 DEF Disconnect, GiveUp
  <2>2. rid_to_state' \in [Known' -> ReqState] /\ Known' = Known
    BY <2>1 DEF Known, IInv, TypeInv
  <2> QED  BY <2>1, <2>2, Harmless
<1>3. CASE Resume(c)
  <2> DEFINE q == rids[c][1]
  <2>1. call[c] # "unsent" /\ UNCHANGED <<handle_loop, queues, routing>>
    BY <1>3 DEF Resume
  <2>2. CASE rid_to_state[q].finished
    <3>1. Delete(q) /\ Become(c, "done")
      BY <1>3, <2>2 DEF Resume
    <3> QED  BY <2>1, <2>2, <3>1, DeleteHarmless, Harmless
  <2>3. CASE ~rid_to_state[q].finished
    <3> DEFINE l == <<>>
    <3>l. l \in Seq(Requests)
      BY EmptySeq
    <3>1. /\ rid_to_state' = [rid_to_state EXCEPT ![q].out_list = l, ![q].event = FALSE]
          /\ Become(c, "waiting")
      BY <1>3, <2>3 DEF Resume
    <3> HIDE DEF l
    <3>2. Known' = Known
      BY <3>1 DEF Known
    <3>3. \A r \in Known : r # q => rid_to_state'[r] = rid_to_state[r]
      BY <3>1 DEF Known
    <3>4. q \in Known => rid_to_state'[q] = [rid_to_state[q] EXCEPT !.out_list = l, !.event = FALSE]
      BY <3>1 DEF Known
    <3>c. ASSUME q \in Known
          PROVE  /\ rid_to_state'[q] \in ReqState /\ ~rid_to_state'[q].event
                 /\ rid_to_state'[q].finished = rid_to_state[q].finished
      <4> DEFINE st == rid_to_state[q]
      <4>1. st \in ReqState
        BY <3>c DEF IInv, TypeInv
      <4>2. rid_to_state'[q] = [st EXCEPT !.out_list = l, !.event = FALSE]
        BY <3>4, <3>c
      <4> HIDE DEF st
      <4>3. /\ rid_to_state'[q] \in ReqState /\ ~rid_to_state'[q].event
            /\ rid_to_state'[q].finished = st.finished
        BY <3>l, <4>1, <4>2, Cleared
      <4> QED  BY <4>3 DEF st
    <3>5. rid_to_state' \in [Known' -> ReqState]
      <4>1. rid_to_state \in [Known -> ReqState]
        BY DEF IInv, TypeInv
      <4>2. ASSUME NEW r \in Known PROVE rid_to_state'[r] \in ReqState
        BY <3>3, <3>c, <4>1
      <4>3. rid_to_state' = [r \in Known |-> rid_to_state'[r]]
        BY <3>1, <4>1
      <4> QED  BY <3>2, <4>2, <4>3
    <3>6. \A r \in Known : ~rid_to_state[r].event /\ ~rid_to_state[r].finished =>
            ~rid_to_state'[r].event /\ ~rid_to_state'[r].finished
      BY <3>3, <3>c
    <3> QED  BY <2>1, <3>1, <3>2, <3>5, <3>6, Harmless
  <2> QED  BY <2>2, <2>3
<1>4. CASE Gather(c)
  <2> DEFINE q == rids[c][Len(got[c]) + 1]
  <2>1. /\ call[c] # "unsent" /\ UNCHANGED <<handle_loop, queues, routing>>
        /\ rid_to_state[q].event /\ Delete(q)
        /\ Become(c, "done") \/ Become(c, "waiting")
    BY <1>4 DEF Gather, Forget
  <2> HIDE DEF q
  <2> QED  BY <2>1, DeleteHarmless, Harmless
<1> QED  BY <1>1, <1>2, <1>3, <1>4 DEF Continue
LEMMA BoxFacts ==
  ASSUME TypeInv
  PROVE  /\ Inbox \in Seq(Seq(Requests)) /\ Outbox \in Seq(SUBSET Requests)
         /\ Sets(recv_reqs) \in Seq(SUBSET Requests) /\ Sets(to_router) \in Seq(SUBSET Requests)
         /\ Sets(Inbox) = Sets(recv_reqs) \o Sets(to_router)
         /\ All(Sets(Inbox)) = All(Sets(recv_reqs)) \cup All(Sets(to_router))
         /\ Apart(Sets(Inbox)) =>
              /\ Apart(Sets(to_router))
              /\ All(Sets(recv_reqs)) \cap All(Sets(to_router)) = {}
<1>1. /\ recv_reqs \in Seq(Seq(Requests)) /\ to_router \in Seq(Seq(Requests))
      /\ to_tokenizer \in Seq(SUBSET Requests) /\ to_detokenizer \in Seq(SUBSET Requests)
  BY DEF TypeInv
<1>2. Inbox \in Seq(Seq(Requests)) /\ Outbox \in Seq(SUBSET Requests)
  BY <1>1, ConcatProperties DEF Inbox, Outbox
<1>3. /\ Sets(recv_reqs) \in Seq(SUBSET Requests) /\ Sets(to_router) \in Seq(SUBSET Requests)
      /\ Sets(Inbox) = Sets(recv_reqs) \o Sets(to_router)
  BY <1>1, SetsType, SetsConcat DEF Inbox
<1> QED  BY <1>2, <1>3, AllConcat, ApartConcat

LEMMA GenerateStep ==
  ASSUME IInv, NEW c \in Calls, Generate(c)
  PROVE  IInv'
<1> DEFINE new == Range(rids[c])
           m == Messages(c)
<1> USE DEF IInv
<1>1. /\ call[c] = "unsent" /\ to_router' = to_router \o m /\ call' = [call EXCEPT ![c] = "waiting"]
      /\ rid_to_state' = [r \in Known \cup new |-> IF r \in Known THEN rid_to_state[r] ELSE NewState]
      /\ UNCHANGED <<handle_loop, to_detokenizer, to_tokenizer, recv_reqs, stepping, in_step,
                     answered, forgotten>>
  BY DEF Generate, Become, routing
<1>2. m \in Seq(Seq(Requests)) /\ All(Sets(m)) = new /\ Apart(Sets(m)) /\ new \subseteq Requests
  BY MessagesFacts, CallFacts
<1>3. SentRequests' = SentRequests \cup new
  <2>1. \A d \in Calls : call'[d] # "unsent" <=> call[d] # "unsent" \/ d = c
    BY <1>1 DEF TypeInv
  <2>2. {d \in Calls : call'[d] # "unsent"} = {d \in Calls : call[d] # "unsent"} \cup {c}
    BY <2>1
  <2> QED  BY <2>2 DEF SentRequests
<1>4. SentRequests \cap new = {}
  <2> SUFFICES ASSUME NEW r \in SentRequests, r \in new PROVE FALSE
    OBVIOUS
  <2>1. PICK d \in Calls : call[d] # "unsent" /\ r \in Range(rids[d])
    BY DEF SentRequests
  <2> QED  BY <1>1, <2>1, CallsAssumption
<1>5. /\ Sets(Inbox') = Sets(Inbox) \o Sets(m) /\ Inbox' \in Seq(Seq(Requests))
      /\ to_router' \in Seq(Seq(Requests))
  <2>1. Inbox' = Inbox \o m
    <3>1. recv_reqs \in Seq(Seq(Requests)) /\ to_router \in Seq(Seq(Requests))
      BY DEF TypeInv
    <3>2. Inbox' = recv_reqs \o (to_router \o m)
      BY <1>1 DEF Inbox
    <3> DEFINE T == Seq(Requests)
    <3>3. recv_reqs \o (to_router \o m) = (recv_reqs \o to_router) \o m
      <4>1. recv_reqs \in Seq(T) /\ to_router \in Seq(T) /\ m \in Seq(T)
        BY <1>2, <3>1
      <4> HIDE DEF m, T
      <4> QED  BY <4>1, ConcatAssociative
    <3> QED  BY <3>2, <3>3 DEF Inbox
  <2>2. to_router' \in Seq(Seq(Requests))
    BY <1>1, <1>2, ConcatProperties DEF TypeInv
  <2>3. Inbox \o m \in Seq(Seq(Requests))
    BY <1>2, BoxFacts, ConcatProperties
  <2> QED  BY <1>2, <2>1, <2>2, <2>3, BoxFacts, SetsConcat
<1>6. All(Sets(Inbox')) = All(Sets(Inbox)) \cup new
  <2>1. Sets(Inbox) \in Seq(SUBSET Requests) /\ Sets(m) \in Seq(SUBSET Requests)
    BY <1>2, BoxFacts, SetsType
  <2>2. All(Sets(Inbox) \o Sets(m)) = All(Sets(Inbox)) \cup All(Sets(m))
    BY <2>1, AllConcat
  <2> QED  BY <1>2, <1>5, <2>2
<1>7. Apart(Sets(Inbox'))
  <2>1. All(Sets(Inbox)) \cap All(Sets(m)) = {}
    BY <1>2, <1>4 DEF PlacesInv
  <2>2. Sets(Inbox) \in Seq(SUBSET Requests) /\ Sets(m) \in Seq(SUBSET Requests)
    BY <1>2, BoxFacts, SetsType
  <2>3. Apart(Sets(Inbox) \o Sets(m))
    BY <1>2, <2>1, <2>2, ApartConcat DEF PlacesInv
  <2> QED  BY <1>5, <2>3
<1>8. Known' = Known \cup new
  BY <1>1 DEF Known
<1>9. TypeInv'
  <2>1. rid_to_state' \in [Known' -> ReqState]
    <3>1. NewState \in ReqState
      BY EmptySeq DEF NewState, ReqState
    <3> QED  BY <1>1, <1>8, <3>1 DEF TypeInv
  <2> QED  BY <1>1, <1>5, <2>1 DEF TypeInv
<1>10. PlacesInv'
  <2>1. new \cap (in_step \cup answered \cup forgotten) = {}
    BY <1>4 DEF PlacesInv
  <2> QED  BY <1>1, <1>3, <1>6, <1>7, <2>1 DEF PlacesInv
<1>11. OutboxInv'
  BY <1>1 DEF OutboxInv, Outbox
<1>12. StatesInv'
  <2>1. UnderWay' = UnderWay \cup new
    BY <1>1, <1>6 DEF UnderWay, Outbox
  <2>2. \A r \in new : ~rid_to_state'[r].event /\ ~rid_to_state'[r].finished
    <3>1. \A r \in new : r \notin Known
      BY <1>4 DEF StatesInv
    <3>2. ~NewState.event /\ ~NewState.finished
      BY DEF NewState
    <3> QED  BY <1>1, <3>1, <3>2
  <2>3. \A r \in Known : rid_to_state'[r] = rid_to_state[r]
    BY <1>1
  <2> QED  BY <1>1, <1>3, <1>8, <2>1, <2>2, <2>3 DEF StatesInv
<1> QED  BY <1>9, <1>10, <1>11, <1>12
\* Steps of the router and the detokenizer leave the calls and the states alone.
LEMMA ReceiveStep ==
  ASSUME IInv, Receive
  PROVE  IInv'
<1> USE DEF IInv
<1>1. /\ to_router # <<>> /\ recv_reqs' = Append(recv_reqs, Head(to_router))
      /\ to_router' = Tail(to_router)
      /\ UNCHANGED <<api, to_detokenizer, to_tokenizer, stepping, in_step, answered, forgotten>>
  BY DEF Receive
<1>2. recv_reqs \in Seq(Seq(Requests)) /\ to_router \in Seq(Seq(Requests))
  BY DEF TypeInv
<1>3. Inbox' = Inbox
  BY <1>1, <1>2, Pass DEF Inbox
<1>4. recv_reqs' \in Seq(Seq(Requests)) /\ to_router' \in Seq(Seq(Requests))
  BY <1>1, <1>2, HeadTailProperties, AppendProperties
<1>5. SentRequests' = SentRequests
  BY <1>1 DEF SentRequests, api
<1>6. TypeInv'
  BY <1>1, <1>4 DEF TypeInv, api, Known
<1>7. PlacesInv'
  BY <1>1, <1>3, <1>5 DEF PlacesInv
<1>8. OutboxInv'
  BY <1>1 DEF OutboxInv, Outbox
<1>9. StatesInv'
  BY <1>1, <1>3, <1>5 DEF StatesInv, UnderWay, Outbox, Known, api
<1> QED  BY <1>6, <1>7, <1>8, <1>9

LEMMA CallStepStep ==
  ASSUME IInv, CallStep
  PROVE  IInv'
<1> USE DEF IInv
<1>1. /\ ~stepping /\ stepping' = TRUE
      /\ in_step' = InMessages(recv_reqs) /\ recv_reqs' = <<>>
      /\ UNCHANGED <<api, queues, answered, forgotten>>
  BY DEF CallStep, TakeRequests, InMessages
<1>2. in_step = {}
  BY <1>1 DEF PlacesInv
<1>3. in_step' = All(Sets(recv_reqs)) /\ in_step' \subseteq Requests
  <2>1. in_step' = All(Sets(recv_reqs))
    BY <1>1, SetsType DEF TypeInv
  <2>2. \A r \in All(Sets(recv_reqs)) : r \in Requests
    <3>1. Sets(recv_reqs) \in Seq(SUBSET Requests)
      BY SetsType DEF TypeInv
    <3>2. \A i \in 1 .. Len(Sets(recv_reqs)) : Sets(recv_reqs)[i] \in SUBSET Requests
      BY <3>1, ElementOfSeq
    <3> QED  BY <3>1, <3>2, InAll
  <2> QED  BY <2>1, <2>2
<1>4. Inbox' = to_router
  BY <1>1, ConcatEmptySeq DEF Inbox, queues, TypeInv
<1>5. /\ Apart(Sets(to_router)) /\ All(Sets(recv_reqs)) \cap All(Sets(to_router)) = {}
      /\ All(Sets(Inbox)) = All(Sets(recv_reqs)) \cup All(Sets(to_router))
  BY BoxFacts DEF PlacesInv
<1>6. SentRequests' = SentRequests /\ Outbox' = Outbox
  BY <1>1 DEF SentRequests, api, Outbox, queues
<1>7. TypeInv'
  BY <1>1, <1>3, EmptySeq DEF TypeInv, api, queues, Known
<1>8. PlacesInv'
  BY <1>1, <1>2, <1>3, <1>4, <1>5, <1>6 DEF PlacesInv
<1>9. OutboxInv'
  BY <1>1, <1>6 DEF OutboxInv
<1>10. StatesInv'
  <2>1. UnderWay' = UnderWay
    BY <1>2, <1>3, <1>4, <1>5, <1>6 DEF UnderWay
  <2> QED  BY <1>1, <1>6, <2>1 DEF StatesInv, Known, api
<1> QED  BY <1>7, <1>8, <1>9, <1>10

LEMMA ReturnStepStep ==
  ASSUME IInv, ReturnStep
  PROVE  IInv'
<1> USE DEF IInv
<1>1. PICK n \in 0 .. MaxObjects : \E objs \in [1 .. n -> SUBSET in_step \ {{}}] :
        /\ \A i, j \in 1 .. n : i # j => objs[i] \cap objs[j] = {}
        /\ Send(objs)
        /\ answered' = answered \cup UNION Range(objs)
        /\ forgotten' = forgotten \cup (in_step \ UNION Range(objs))
  BY DEF ReturnStep
<1>2. PICK objs \in [1 .. n -> SUBSET in_step \ {{}}] :
        /\ \A i, j \in 1 .. n : i # j => objs[i] \cap objs[j] = {}
        /\ to_detokenizer' = to_detokenizer \o objs
        /\ answered' = answered \cup All(objs)
        /\ forgotten' = forgotten \cup (in_step \ All(objs))
  BY <1>1 DEF Send, All
<1>3. /\ stepping' = FALSE /\ in_step' = {}
      /\ UNCHANGED <<api, to_router, to_tokenizer, recv_reqs>>
  BY DEF ReturnStep
<1>4. n \in Nat
  BY CallsAssumption
<1>5. objs \in Seq(SUBSET Requests) /\ Len(objs) = n
  <2>1. objs \in [1 .. n -> SUBSET Requests]
    BY DEF TypeInv
  <2>2. Seq(SUBSET Requests) = UNION {[1 .. k -> SUBSET Requests] : k \in Nat}
    BY SeqDef
  <2>3. objs \in Seq(SUBSET Requests)
    BY <1>4, <2>1, <2>2, Zenon
  <2>4. DOMAIN objs = 1 .. n /\ DOMAIN objs = 1 .. Len(objs) /\ Len(objs) \in Nat
    BY <2>1, <2>3, LenProperties
  <2> QED  BY <1>4, <2>3, <2>4
<1>6. Apart(objs) /\ All(objs) \subseteq in_step
  <2>1. Apart(objs)
    BY <1>2, <1>5 DEF Apart
  <2>2. All(objs) \subseteq in_step
    BY DEF All, Range
  <2> QED  BY <2>1, <2>2
<1>7. to_detokenizer' \in Seq(SUBSET Requests) /\ Outbox' = Outbox \o objs
  <2>1. to_detokenizer \in Seq(SUBSET Requests) /\ to_tokenizer \in Seq(SUBSET Requests)
    BY DEF TypeInv
  <2>2. to_detokenizer' \in Seq(SUBSET Requests)
    BY <1>2, <1>5, <2>1, ConcatProperties
  <2>3. Outbox' = to_tokenizer \o (to_detokenizer \o objs)
    BY <1>2, <1>3 DEF Outbox
  <2>4. to_tokenizer \o (to_detokenizer \o objs) = (to_tokenizer \o to_detokenizer) \o objs
    BY <1>5, <2>1, ConcatAssociative
  <2> QED  BY <2>2, <2>3, <2>4 DEF Outbox
<1>8. Inbox' = Inbox /\ SentRequests' = SentRequests
  BY <1>3 DEF Inbox, SentRequests, api
<1>9. All(Outbox') = All(Outbox) \cup All(objs) /\ Apart(Outbox')
  <2>1. Outbox \in Seq(SUBSET Requests)
    BY BoxFacts
  <2>2. All(Outbox) \cap All(objs) = {}
    BY <1>6 DEF OutboxInv, PlacesInv
  <2>3. All(Outbox \o objs) = All(Outbox) \cup All(objs)
    BY <1>5, <2>1, AllConcat
  <2>4. Apart(Outbox \o objs)
    BY <1>5, <1>6, <2>1, <2>2, ApartConcat DEF OutboxInv
  <2> QED  BY <1>7, <2>3, <2>4
<1>10. TypeInv'
  BY <1>2, <1>3, <1>6, <1>7 DEF TypeInv, api, Known
<1>11. PlacesInv'
  BY <1>2, <1>3, <1>6, <1>8 DEF PlacesInv
<1>12. OutboxInv'
  BY <1>2, <1>9 DEF OutboxInv
<1>13. StatesInv'
  <2>1. UnderWay' \subseteq UnderWay
    BY <1>3, <1>6, <1>8, <1>9 DEF UnderWay
  <2> QED  BY <1>3, <1>8, <2>1 DEF StatesInv, Known, api
<1> QED  BY <1>10, <1>11, <1>12, <1>13

LEMMA DetokenizeStep ==
  ASSUME IInv, Detokenize
  PROVE  IInv'
<1> USE DEF IInv
<1>1. /\ to_detokenizer # <<>> /\ to_tokenizer' = Append(to_tokenizer, Head(to_detokenizer))
      /\ to_detokenizer' = Tail(to_detokenizer)
      /\ UNCHANGED <<api, to_router, routing>>
  BY DEF Detokenize
<1>2. to_tokenizer \in Seq(SUBSET Requests) /\ to_detokenizer \in Seq(SUBSET Requests)
  BY DEF TypeInv
<1>3. Outbox' = Outbox
  BY <1>1, <1>2, Pass DEF Outbox
<1>4. to_tokenizer' \in Seq(SUBSET Requests) /\ to_detokenizer' \in Seq(SUBSET Requests)
  BY <1>1, <1>2, HeadTailProperties, AppendProperties
<1>5. SentRequests' = SentRequests /\ Inbox' = Inbox
  BY <1>1 DEF SentRequests, api, Inbox, routing
<1>6. TypeInv'
  BY <1>1, <1>4 DEF TypeInv, api, routing, Known
<1>7. PlacesInv'
  BY <1>1, <1>5 DEF PlacesInv, routing
<1>8. OutboxInv'
  BY <1>1, <1>3 DEF OutboxInv, routing
<1>9. StatesInv'
  BY <1>1, <1>3, <1>5 DEF StatesInv, UnderWay, Known, api, routing
<1> QED  BY <1>6, <1>7, <1>8, <1>9

LEMMA HandleStep ==
  ASSUME IInv, Handle
  PROVE  IInv'
<1> DEFINE head == Head(to_tokenizer)
           rest == Tail(to_tokenizer)
<1> USE DEF IInv
<1>1. /\ to_tokenizer # <<>> /\ to_tokenizer \in Seq(SUBSET Requests)
      /\ to_detokenizer \in Seq(SUBSET Requests)
  BY DEF Handle, TypeInv
<1>2. /\ head \in SUBSET Requests /\ rest \in Seq(SUBSET Requests)
      /\ <<head>> \in Seq(SUBSET Requests) /\ All(<<head>>) = head
      /\ to_tokenizer = <<head>> \o rest
  <2>1. head \in SUBSET Requests /\ rest \in Seq(SUBSET Requests)
    BY <1>1, HeadTailProperties
  <2>2. to_tokenizer = <<head>> \o rest
    BY <1>1
  <2> HIDE DEF head, rest
  <2>3. <<head>> \in Seq(SUBSET Requests)
    BY <2>1
  <2>4. Range(<<head>>) = {head}
    BY DEF Range
  <2> QED  BY <2>1, <2>2, <2>3, <2>4 DEF All
<1>3. /\ rest \o to_detokenizer \in Seq(SUBSET Requests)
      /\ Outbox = <<head>> \o (rest \o to_detokenizer)
  <2> HIDE DEF head, rest
  <2>1. rest \o to_detokenizer \in Seq(SUBSET Requests)
    BY <1>1, <1>2, ConcatProperties
  <2>2. (<<head>> \o rest) \o to_detokenizer = <<head>> \o (rest \o to_detokenizer)
    BY <1>1, <1>2, ConcatAssociative
  <2> QED  BY <1>2, <2>1, <2>2 DEF Outbox
<1>4. /\ All(Outbox) = head \cup All(rest \o to_detokenizer)
      /\ Apart(rest \o to_detokenizer) /\ head \cap All(rest \o to_detokenizer) = {}
  <2> HIDE DEF head, rest
  <2>1. All(Outbox) = All(<<head>>) \cup All(rest \o to_detokenizer)
    <3> DEFINE p == <<head>>
               q == rest \o to_detokenizer
               T == SUBSET Requests
    <3>1. p \in Seq(T) /\ q \in Seq(T)
      BY <1>2, <1>3
    <3> HIDE DEF p, q, T
    <3>2. All(p \o q) = All(p) \cup All(q)
      BY <3>1, AllConcat
    <3> QED  BY <1>3, <3>2 DEF p, q
  <2>2. /\ Apart(rest \o to_detokenizer)
        /\ All(<<head>>) \cap All(rest \o to_detokenizer) = {}
    BY <1>2, <1>3, ApartConcat DEF OutboxInv
  <2> QED  BY <1>2, <2>1, <2>2
<1>5. head \subseteq Known
  BY <1>4 DEF StatesInv, UnderWay
<1>6. /\ to_tokenizer' = rest /\ handle_loop' = handle_loop
      /\ rid_to_state' = [r \in Known |-> IF r \in head THEN Arrive(r) ELSE rid_to_state[r]]
      /\ UNCHANGED <<call, got, to_router, to_detokenizer, routing>>
  BY <1>5 DEF Handle
<1>7. Known' = Known /\ Outbox' = rest \o to_detokenizer
  BY <1>6 DEF Known, Outbox
<1>8. Inbox' = Inbox /\ SentRequests' = SentRequests
  BY <1>6 DEF Inbox, SentRequests, routing
<1>9. TypeInv'
  <2>1. ASSUME NEW r \in Known, r \in head PROVE Arrive(r) \in ReqState
    <3>1. rid_to_state[r].out_list \in Seq(Requests) /\ r \in Requests
      BY <1>2, <2>1 DEF TypeInv, ReqState
    <3>2. Append(rid_to_state[r].out_list, r) \in Seq(Requests)
      BY <3>1, AppendProperties
    <3> QED  BY <3>2 DEF Arrive, ReqState
  <2>2. rid_to_state' \in [Known' -> ReqState]
    BY <1>6, <1>7, <2>1 DEF TypeInv
  <2> QED  BY <1>2, <1>6, <2>2 DEF TypeInv, routing
<1>10. PlacesInv'
  BY <1>6, <1>8 DEF PlacesInv, routing
<1>11. OutboxInv'
  BY <1>4, <1>6, <1>7 DEF OutboxInv, routing
<1>12. StatesInv'
  <2>1. UnderWay' \subseteq UnderWay /\ UnderWay' \cap head = {}
    <3>1. head \subseteq answered
      BY <1>4 DEF OutboxInv
    <3> QED  BY <1>4, <1>6, <1>7, <1>8, <3>1 DEF UnderWay, routing, PlacesInv
  <2>2. \A r \in UnderWay' : r \in Known /\ rid_to_state'[r] = rid_to_state[r]
    BY <1>6, <2>1 DEF StatesInv
  <2> QED  BY <1>6, <1>7, <1>8, <2>1, <2>2 DEF StatesInv
<1> QED  BY <1>9, <1>10, <1>11, <1>12
LEMMA NextInv == IInv /\ [Next]_vars => IInv'
<1> SUFFICES ASSUME IInv, [Next]_vars PROVE IInv'
  OBVIOUS
<1>1. CASE \E c \in Calls : Generate(c) \/ Continue(c) \/ Disconnect(c)
  BY <1>1, GenerateStep, ApiStep
<1>2. CASE Handle
  BY <1>2, HandleStep
<1>3. CASE Receive
  BY <1>3, ReceiveStep
<1>4. CASE CallStep
  BY <1>4, CallStepStep
<1>5. CASE ReturnStep
  BY <1>5, ReturnStepStep
<1>6. CASE Detokenize
  BY <1>6, DetokenizeStep
<1>7. CASE UNCHANGED vars
  BY <1>7 DEF vars, api, routing, queues, IInv, TypeInv, PlacesInv, OutboxInv, StatesInv,
              UnderWay, Inbox, Outbox, Known, SentRequests
<1> QED  BY <1>1, <1>2, <1>3, <1>4, <1>5, <1>6, <1>7 DEF Next

LEMMA InvAlways == Spec => []IInv
BY InitInv, NextInv, PTL DEF Spec

-----------------------------------------------------------------------------
(* The theorems *)

\* The invariant speaks of the two queues in a row; the property of each.
LEMMA PlacesConserve == IInv => RequestsConserved
<1> SUFFICES ASSUME IInv PROVE RequestsConserved
  OBVIOUS
<1> USE DEF IInv
<1>1. All(Sets(to_router)) = InMessages(to_router) /\ All(Sets(recv_reqs)) = InMessages(recv_reqs)
  BY SetsType DEF TypeInv
<1> DEFINE a == InMessages(to_router)
           b == InMessages(recv_reqs)
           places == <<a, b, in_step, answered, forgotten>>
<1>2. a \cap b = {} /\ All(Sets(Inbox)) = a \cup b
  BY <1>1, BoxFacts DEF PlacesInv
<1>3. /\ (a \cup b) \cap (in_step \cup answered \cup forgotten) = {}
      /\ in_step \cap (answered \cup forgotten) = {} /\ answered \cap forgotten = {}
      /\ a \cup b \cup in_step \cup answered \cup forgotten = SentRequests
  BY <1>2 DEF PlacesInv
<1> HIDE DEF a, b
<1>4. DOMAIN places = 1 .. 5
  OBVIOUS
<1>5. UNION Range(places) = SentRequests
  <2>1. Range(places) = {a, b, in_step, answered, forgotten}
    BY <1>4 DEF Range
  <2> QED  BY <1>3, <2>1
<1>6. \A i, j \in DOMAIN places : i # j => places[i] \cap places[j] = {}
  BY <1>2, <1>3, <1>4
<1> QED  BY <1>5, <1>6 DEF RequestsConserved, a, b

\* For any calls, any order of the coroutines and any answers of the engine, no
\* request that generate_request sent is dropped or doubled between the queues,
\* the router's list and the step that takes it.
THEOREM RequestsConservedAlways == Spec => []RequestsConserved
BY InvAlways, PlacesConserve, PTL

\* handle_loop never meets a request that is not in rid_to_state: what deletes a
\* state looks at its event, and that is set by the one answer of the request.
THEOREM HandleLoopSurvivesAlways == Spec => []HandleLoopSurvives
<1>1. IInv => HandleLoopSurvives
  BY DEF IInv, StatesInv, HandleLoopSurvives
<1> QED  BY <1>1, InvAlways, PTL

-----------------------------------------------------------------------------
(* The policy search *)

\* What ConfigAssumption says of one machine.
LEMMA ConfigFacts ==
  ASSUME NEW c \in Configs
  PROVE  /\ c.gmem \in Nat /\ c.cmem \in Nat /\ c.w_other \in Nat /\ c.prefill \in Nat
         /\ c.buffer \in Nat /\ c.inter \in Nat /\ c.cache \in Nat
         /\ c.decode \in Nat /\ c.wi \in Nat /\ c.l \in Nat
         /\ WgUnit(c) \in Nat /\ (c.l + 2) * c.wi \in Nat
<1>1. /\ c["gmem"] \in Nat /\ c["cmem"] \in Nat /\ c["w_other"] \in Nat /\ c["prefill"] \in Nat
      /\ c["buffer"] \in Nat /\ c["inter"] \in Nat /\ c["cache"] \in Nat
  BY ConfigAssumption DEF Quantities
<1>2. c.decode \in Nat /\ c.wi \in Nat /\ c.l \in Nat /\ c.l - 2 \in Nat /\ c.l + 2 \in Nat
  BY ConfigAssumption
<1>3. c.wi * (c.l - 2) \in Nat /\ (c.l + 2) * c.wi \in Nat
  BY <1>2, ProductsAreNat
<1> QED
  BY <1>1, <1>2, <1>3 DEF WgUnit

\* solve_lp: with fewer requests, in the batch and in a micro-batch, there is at
\* least as much room for experts.
LEMMA MoreRoom ==
  ASSUME NEW c \in Configs, NEW g \in Nat, NEW h \in Nat, g <= h,
         NEW a \in Nat, NEW b \in Nat, a <= b
  PROVE  /\ gpu_room(c, a, g) \in Int /\ gpu_room(c, b, h) \in Int
         /\ gpu_room(c, b, h) <= gpu_room(c, a, g)
<1> USE ConfigFacts
<1>1. /\ c.decode * a \in Nat /\ c.decode * b \in Nat
      /\ c.prefill * a \in Nat /\ c.prefill * b \in Nat
      /\ c.buffer * g \in Nat /\ c.inter * g \in Nat
      /\ c.buffer * h \in Nat /\ c.inter * h \in Nat
  BY ProductsAreNat
<1>2. /\ c.decode * a <= c.decode * b /\ c.prefill * a <= c.prefill * b
      /\ c.buffer * g <= c.buffer * h /\ c.inter * g <= c.inter * h
  BY ProductsOrdered
<1>3. gpu_home_d(c, a) <= gpu_home_d(c, b) /\ gpu_home_p(c, a, g) <= gpu_home_p(c, b, h)
  BY <1>1, <1>2 DEF gpu_home_d, gpu_home_p
<1>4. /\ gpu_home_d(c, a) \in Nat /\ gpu_home_d(c, b) \in Nat
      /\ gpu_home_p(c, a, g) \in Nat /\ gpu_home_p(c, b, h) \in Nat
  BY <1>1 DEF gpu_home_d, gpu_home_p
<1>5. /\ Larger(gpu_home_d(c, a), gpu_home_p(c, a, g)) \in Nat
      /\ Larger(gpu_home_d(c, b), gpu_home_p(c, b, h)) \in Nat
      /\ Larger(gpu_home_d(c, a), gpu_home_p(c, a, g))
           <= Larger(gpu_home_d(c, b), gpu_home_p(c, b, h))
  BY <1>3, <1>4 DEF Larger
<1> QED
  BY <1>1, <1>2, <1>5 DEF gpu_room

\* solve_lp: a batch that fits does so with fewer micro-batches, and with
\* smaller ones.
LEMMA FewerFit ==
  ASSUME NEW c \in Configs, NEW g \in Nat, NEW h \in Nat, g <= h,
         NEW m \in Nat, NEW n \in Nat, m <= n,
         Feasible(c, h * n, h)
  PROVE  Feasible(c, g * m, g)
<1> DEFINE a == g * m
           b == h * n
           u == WgUnit(c)
           e == (c.l + 2) * c.wi
<1>1. a \in Nat /\ b \in Nat /\ a <= b
  <2>1. a \in Nat /\ b \in Nat /\ g * n \in Nat
    BY ProductsAreNat
  <2>2. g * m <= g * n
    BY ProductsOrdered
  <2>3. n * g <= n * h /\ n * g = g * n /\ n * h = h * n
    BY ProductsOrdered
  <2> QED BY <2>1, <2>2, <2>3
<1>2. u \in Nat /\ e \in Nat /\ c.cache \in Nat /\ c.cmem \in Nat
  BY ConfigFacts
<1>3. /\ gpu_room(c, a, g) \in Int /\ gpu_room(c, b, h) \in Int
      /\ gpu_room(c, b, h) <= gpu_room(c, a, g)
  <2> HIDE DEF a, b
  <2> QED BY <1>1, MoreRoom
<1>4. gpu_room(c, b, h) >= 0 /\ cpu_fits(c, b, h)
  BY DEF Feasible
<1>5. gpu_room(c, a, g) >= 0
  BY <1>3, <1>4
<1>6. wg(c, a, g) \in Int /\ wg(c, b, h) \in Int /\ u - wg(c, a, g) <= u - wg(c, b, h)
  <2> HIDE DEF a, b
  <2> QED BY <1>2, <1>3 DEF wg
<1>7. e * (u - wg(c, a, g)) <= e * (u - wg(c, b, h))
  <2> HIDE DEF a, b, e, u
  <2>1. u - wg(c, a, g) \in Int /\ u - wg(c, b, h) \in Int
    BY <1>2, <1>6
  <2> QED BY <2>1, <1>2, <1>6, ProductsOrdered
<1>8. c.cache * a * u <= c.cache * b * u
  <2> HIDE DEF a, b, u
  <2>1. c.cache * a \in Nat /\ c.cache * b \in Nat /\ c.cache * a <= c.cache * b
    BY <1>1, <1>2, ProductsAreNat, ProductsOrdered
  <2>2. u * (c.cache * a) <= u * (c.cache * b)
    BY <2>1, <1>2, ProductsOrdered
  <2>3. ASSUME NEW x \in Nat PROVE u * x = x * u
    BY <1>2
  <2> QED BY <2>1, <2>2, <2>3
<1>9. cpu_fits(c, a, g)
  <2>1. e * (u - wg(c, b, h)) + c.cache * b * u <= c.cmem * u
    BY <1>4 DEF cpu_fits
  <2>2. /\ e * (u - wg(c, a, g)) \in Int /\ e * (u - wg(c, b, h)) \in Int
        /\ c.cache * a * u \in Int /\ c.cache * b * u \in Int /\ c.cmem * u \in Int
    <3> HIDE DEF a, b, e, u
    <3>1. c.cache * a \in Int /\ c.cache * b \in Int
      BY <1>1, <1>2
    <3>2. u - wg(c, a, g) \in Int /\ u - wg(c, b, h) \in Int
      BY <1>2, <1>6
    <3> QED BY <1>1, <1>2, <3>1, <3>2
  <2>3. e * (u - wg(c, a, g)) + c.cache * a * u <= c.cmem * u
    <3> HIDE DEF a, b, e, u
    <3> QED BY <2>1, <2>2, <1>7, <1>8
  <2> QED BY <2>3 DEF cpu_fits
<1> QED
  BY <1>5, <1>9 DEF Feasible

LEMMA FewerBatchesFit ==
  ASSUME NEW c \in Configs, NEW g \in Nat, NEW m \in Nat, NEW n \in Nat, m <= n,
         Feasible(c, g * n, g)
  PROVE  Feasible(c, g * m, g)
<1>1. g <= g
  OBVIOUS
<1> QED BY <1>1, FewerFit

-----------------------------------------------------------------------------
(* The inductive invariant: what get_nb_ub knows in each phase. *)

Doubling == pc = "doubling" /\ nb > 1 => Fits(nb \div 2)

Bisecting ==
  pc = "bisecting" =>
    left <= right /\ ~Fits(right) /\ (left > 1 => Fits(left - 1))

Found == pc \in {"walking", "done"} => ~Fits(nb_ub + 1) /\ (nb_ub > 0 => Fits(nb_ub))

SearchInv == TypeOK /\ Doubling /\ Bisecting /\ Found

LEMMA SearchInvInit == SearchInit => SearchInv
BY DEF SearchInit, SearchInv, TypeOK, Doubling, Bisecting, Found

\* Within one size, what fits does not change.
LEMMA SearchInvNext == SearchInv /\ [SearchNext]_search_vars => SearchInv'
<1> SUFFICES ASSUME SearchInv, [SearchNext]_search_vars PROVE SearchInv'
  OBVIOUS
<1> USE DEF SearchInv, TypeOK
<1>1. CASE Double
  <2>1. nb' > 1 /\ nb' \div 2 = nb /\ Fits(nb) /\ pc' = "doubling" /\ nb' \in Nat \ {0}
    BY <1>1 DEF Double
  <2>2. Fits(nb \div 2)'
    BY <2>1, <1>1 DEF Double, Fits
  <2> QED BY <1>1, <2>1, <2>2 DEF Double, Doubling, Bisecting, Found
<1>2. CASE Bisect
  <2>1. left' \in Nat \ {0} /\ right' = nb /\ left' <= right'
    BY <1>2 DEF Bisect, FirstLeft, Larger
  <2>2. left' > 1 => Fits(left' - 1)
    <3> SUFFICES ASSUME left' > 1 PROVE Fits(left' - 1)
      OBVIOUS
    <3>1. left' = nb \div 2 /\ nb > 1 /\ left' - 1 \in Nat /\ nb \div 2 \in Nat
      BY <1>2 DEF Bisect, FirstLeft, Larger
    <3>2. Fits(nb \div 2)
      BY <1>2, <3>1 DEF Bisect, Doubling
    <3> DEFINE m == left' - 1
               n == nb \div 2
    <3>3. m \in Nat /\ n \in Nat /\ m <= n /\ gbs \in Nat /\ config \in Configs
      BY <3>1
    <3>4. Feasible(config, gbs * n, gbs)
      BY <3>2 DEF Fits
    <3>5. Feasible(config, gbs * m, gbs)
      <4> HIDE DEF m, n
      <4> QED BY <3>3, <3>4, FewerBatchesFit
    <3> QED BY <3>5 DEF Fits
  <2>3. ~Fits(nb)
    BY <1>2 DEF Bisect
  <2>4. Bisecting'
    BY <1>2, <2>1, <2>2, <2>3 DEF Bisect, Bisecting, Fits
  <2> QED BY <1>2, <2>1, <2>4 DEF Bisect, Doubling, Found
<1>3. CASE Raise
  <2>1. mid \in Nat \ {0} /\ mid < right /\ left' = mid + 1 /\ Fits(mid)
    BY <1>3 DEF Raise, mid
  <2>2. left' - 1 = mid /\ left' <= right /\ left' \in Nat \ {0}
    BY <2>1
  <2>3. Bisecting'
    BY <1>3, <2>1, <2>2 DEF Raise, Bisecting, Fits
  <2> QED BY <1>3, <2>2, <2>3 DEF Raise, Doubling, Found
<1>4. CASE Lower
  <2>1. mid \in Nat \ {0} /\ left <= mid /\ right' = mid /\ ~Fits(mid)
    BY <1>4 DEF Lower, mid
  <2>2. Bisecting'
    BY <1>4, <2>1 DEF Lower, Bisecting, Fits
  <2> QED BY <1>4, <2>1, <2>2 DEF Lower, Doubling, Found
<1>5. CASE Bounded
  <2>1. left = right /\ nb_ub' = left - 1 /\ nb_ub' \in Nat /\ nb_ub' + 1 = left
    BY <1>5 DEF Bounded, Bisecting
  <2>2. ~Fits(nb_ub' + 1) /\ (nb_ub' > 0 => Fits(nb_ub'))
    BY <1>5, <2>1 DEF Bounded, Bisecting
  <2>3. Found'
    BY <1>5, <2>2 DEF Bounded, Found, Fits
  <2> QED BY <1>5, <2>1, <2>3 DEF Bounded, Doubling, Bisecting
<1>6. CASE Walk
  BY <1>6 DEF Walk, Doubling, Bisecting, Found, Fits
<1>7. CASE NextSize
  <2>1. gbs' \in Nat \ {0}
    BY <1>7 DEF NextSize, NextGbs
  <2> QED BY <1>7, <2>1 DEF NextSize, Doubling, Bisecting, Found
<1>8. CASE UNCHANGED search_vars
  BY <1>8 DEF search_vars, Doubling, Bisecting, Found, Fits
<1> QED
  BY <1>1, <1>2, <1>3, <1>4, <1>5, <1>6, <1>7, <1>8 DEF SearchNext

\* What is left of nb_ub fits, what is right of it does not.
LEMMA SearchInvBound == SearchInv => BoundExact
<1> SUFFICES ASSUME SearchInv, pc \in {"walking", "done"},
                    NEW n \in 1 .. 2 * (nb_ub + 1)
             PROVE  Fits(n) <=> n <= nb_ub
  BY DEF BoundExact
<1>1. config \in Configs /\ gbs \in Nat /\ nb_ub \in Nat /\ n \in Nat /\ n > 0
  BY DEF SearchInv, TypeOK
<1>2. ~Fits(nb_ub + 1) /\ (nb_ub > 0 => Fits(nb_ub))
  BY DEF SearchInv, Found
<1>3. CASE n <= nb_ub
  <2>1. Fits(nb_ub)
    BY <1>1, <1>2, <1>3
  <2> QED BY <1>1, <1>3, <2>1, FewerBatchesFit DEF Fits
<1>4. CASE n > nb_ub
  <2>1. nb_ub + 1 \in Nat /\ nb_ub + 1 <= n
    BY <1>1, <1>4
  <2>2. Fits(n) => Fits(nb_ub + 1)
    BY <1>1, <2>1, FewerBatchesFit DEF Fits
  <2> QED BY <1>1, <1>2, <1>4, <2>2
<1> QED
  BY <1>1, <1>3, <1>4

\* get_nb_ub returns the largest number of micro-batches that fits, on every
\* machine and for every micro-batch size solve tries.
THEOREM BoundIsExact == SearchSpec => []BoundExact
<1>1. SearchInv /\ [SearchNext]_search_vars => SearchInv'
  BY SearchInvNext
<1> QED
  BY SearchInvInit, <1>1, SearchInvBound, PTL DEF SearchSpec

-----------------------------------------------------------------------------
(* Arithmetic of rates *)

\* Dividing both sides of an inequality.
LEMMA Cancel ==
  ASSUME NEW a \in Nat \ {0}, NEW x \in Int, NEW y \in Int, a * x <= a * y
  PROVE  x <= y
<1> SUFFICES ASSUME y + 1 <= x PROVE FALSE
  OBVIOUS
<1>1. a * (y + 1) <= a * x
  BY ProductsOrdered
<1>2. a * (y + 1) = a * y + a
  OBVIOUS
<1> DEFINE p == a * x
           q == a * y
<1>3. p \in Int /\ q \in Int /\ p <= q /\ q + a <= p
  BY <1>1, <1>2
<1> HIDE DEF p, q
<1> QED BY <1>3

\* An affine bound e + s * n that is met at n + 1, where the time grows faster
\* than the number of micro-batches, makes it grow faster from there on.
LEMMA SlowerStays ==
  ASSUME NEW e \in Int, NEW s \in Nat, NEW n \in Nat, NEW m \in Nat, m >= n + 1,
         NEW x \in Nat, NEW y \in Nat, NEW z \in Nat,
         x >= e + s * n, y = e + s * (n + 1), z >= e + s * m,
         (n + 1) * x < n * y
  PROVE  m * x <= n * z
<1> DEFINE w == n * (s * (n + 1))
           k == n * e
<1>0. n + 1 \in Nat \ {0} /\ s * n \in Int /\ s * m \in Int /\ s * (n + 1) \in Int
  OBVIOUS
<1>1. e < 0
  <2>1. (n + 1) * (e + s * n) <= (n + 1) * x
    BY <1>0, ProductsOrdered
  <2>2. (n + 1) * (e + s * n) = k + e + w
    BY <1>0
  <2>3. n * y = k + w
    BY <1>0
  <2>4. k \in Int /\ w \in Int /\ (n + 1) * x \in Int
    BY <1>0
  <2> DEFINE u == (n + 1) * x
  <2>5. k + e + w <= u /\ u < k + w /\ u \in Int
    BY <2>1, <2>2, <2>3, <2>4
  <2> HIDE DEF k, w, u
  <2> QED BY <2>4, <2>5
<1>2. m * ((n + 1) * x) <= m * (n * y)
  <2>1. (n + 1) * x \in Int /\ n * y \in Int /\ (n + 1) * x <= n * y
    BY <1>0
  <2> QED BY <2>1, ProductsOrdered
<1>3. n * y = k + w
  BY <1>0
<1>4. m * k <= (n + 1) * k
  <2>1. n * (0 - e) \in Nat
    BY <1>1
  <2>2. (n * (0 - e)) * (n + 1) <= (n * (0 - e)) * m
    BY <2>1, ProductsOrdered
  <2>3. (n * (0 - e)) * (n + 1) = 0 - (n + 1) * k /\ (n * (0 - e)) * m = 0 - m * k
    BY <1>0
  <2> DEFINE a == (n + 1) * k
             b == m * k
  <2>4. a \in Int /\ b \in Int /\ 0 - a <= 0 - b
    BY <2>2, <2>3
  <2> HIDE DEF a, b
  <2>5. b <= a
    BY <2>4
  <2> QED BY <2>5 DEF a, b
<1>5. n * (e + s * m) <= n * z
  BY <1>0, ProductsOrdered
<1>6. (n + 1) * (n * (e + s * m)) <= (n + 1) * (n * z)
  <2>1. n * (e + s * m) \in Int /\ n * z \in Int
    BY <1>0
  <2> QED BY <1>0, <1>5, <2>1, ProductsOrdered
<1>7. (n + 1) * (n * (e + s * m)) = (n + 1) * k + m * w
  <2>1. n * (e + s * m) = k + n * (s * m)
    BY <1>0
  <2>2. (n + 1) * (n * (s * m)) = m * w
    BY <1>0
  <2>3. (n + 1) * (k + n * (s * m)) = (n + 1) * k + (n + 1) * (n * (s * m))
    BY <1>0
  <2> QED BY <2>1, <2>2, <2>3
<1>8. m * (n * y) = m * k + m * w
  <2>1. k \in Int /\ w \in Int
    BY <1>0
  <2> HIDE DEF k, w
  <2> QED BY <1>3, <2>1
<1>9. m * ((n + 1) * x) = (n + 1) * (m * x)
  OBVIOUS
<1>10. (n + 1) * (m * x) <= (n + 1) * (n * z)
  <2> DEFINE a == m * k
             b == (n + 1) * k
             v == m * w
             l == (n + 1) * (m * x)
             r == (n + 1) * (n * z)
  <2>1. a \in Int /\ b \in Int /\ v \in Int /\ l \in Int /\ r \in Int
    BY <1>0
  <2>2. l <= a + v /\ b + v <= r /\ a <= b
    BY <1>2, <1>4, <1>6, <1>7, <1>8, <1>9
  <2> HIDE DEF a, b, v, l, r
  <2>3. l <= r
    BY <2>1, <2>2
  <2> QED BY <2>3 DEF l, r
<1>11. m * x \in Int /\ n * z \in Int
  OBVIOUS
<1> QED BY <1>0, <1>10, <1>11, Cancel

\* Throughputs are ordered like the fractions they stand for.
Rates == {t \in Nat \X Nat : t[1] > 0 \/ t[2] > 0}

LEMMA AtLeastTransitive ==
  ASSUME NEW a \in Rates, NEW b \in Rates, NEW d \in Rates, AtLeast(a, b), AtLeast(b, d)
  PROVE  AtLeast(a, d)
<1> DEFINE a1 == a[1]
           a2 == a[2]
           b1 == b[1]
           b2 == b[2]
           d1 == d[1]
           d2 == d[2]
<1>1. /\ a1 \in Nat /\ a2 \in Nat /\ b1 \in Nat /\ b2 \in Nat /\ d1 \in Nat /\ d2 \in Nat
      /\ b1 > 0 \/ b2 > 0
      /\ b1 * a2 <= a1 * b2 /\ d1 * b2 <= b1 * d2
  BY DEF Rates, AtLeast
<1>2. AtLeast(a, d) <=> a1 * d2 >= d1 * a2
  BY DEF AtLeast
<1> HIDE DEF a1, a2, b1, b2, d1, d2
<1>3. CASE b2 = 0
  <2>1. b1 * a2 <= b1 * 0
    BY <1>1, <1>3
  <2>2. b1 \in Nat \ {0}
    BY <1>1, <1>3
  <2>3. a2 <= 0
    BY <1>1, <2>1, <2>2, Cancel
  <2>4. a2 = 0
    BY <1>1, <2>3
  <2>5. a1 * d2 \in Nat /\ d1 * a2 = 0
    BY <1>1, <2>4, ProductsAreNat
  <2> QED BY <1>2, <2>5
<1>4. CASE b2 # 0
  <2>1. d2 * (b1 * a2) <= d2 * (a1 * b2) /\ a2 * (d1 * b2) <= a2 * (b1 * d2)
    <3>1. b1 * a2 \in Int /\ a1 * b2 \in Int /\ d1 * b2 \in Int /\ b1 * d2 \in Int
      BY <1>1
    <3> QED BY <3>1, <1>1, ProductsOrdered
  <2>2. /\ d2 * (b1 * a2) = a2 * (b1 * d2)
        /\ d2 * (a1 * b2) = b2 * (a1 * d2)
        /\ a2 * (d1 * b2) = b2 * (d1 * a2)
    BY <1>1
  <2>3. b2 * (d1 * a2) <= b2 * (a1 * d2)
    <3> DEFINE p == a2 * (b1 * d2)
               q == b2 * (a1 * d2)
               r == b2 * (d1 * a2)
    <3>1. p \in Int /\ q \in Int /\ r \in Int /\ p <= q /\ r <= p
      BY <1>1, <2>1, <2>2
    <3> HIDE DEF p, q, r
    <3>2. r <= q
      BY <3>1
    <3> QED BY <3>2 DEF r, q
  <2>4. d1 * a2 \in Int /\ a1 * d2 \in Int
    BY <1>1
  <2>5. d1 * a2 <= a1 * d2
    BY <1>1, <1>4, <2>3, <2>4, Cancel
  <2> QED BY <1>2, <2>5, <2>4
<1> QED BY <1>3, <1>4

LEMMA AtLeastTotal ==
  ASSUME NEW a \in Rates, NEW b \in Rates
  PROVE  AtLeast(a, b) \/ AtLeast(b, a)
<1>1. a[1] * b[2] \in Int /\ b[1] * a[2] \in Int
  BY DEF Rates
<1> QED BY <1>1 DEF AtLeast

-----------------------------------------------------------------------------
(* The time of a batch, as its number of micro-batches grows *)

LEMMA TimeFacts ==
  ASSUME NEW c \in Configs
  PROVE  c.attention \in Nat /\ c.flops \in Nat /\ c.weights \in Nat /\ c.bytes \in Nat
<1>1. c["attention"] \in Nat /\ c["flops"] \in Nat /\ c["weights"] \in Nat /\ c["bytes"] \in Nat
  BY ConfigAssumption DEF Quantities
<1> QED BY <1>1

LEMMA MaxOfFour ==
  ASSUME NEW a \in Int, NEW b \in Int, NEW d \in Int, NEW e \in Int
  PROVE  /\ Max({a, b, d, e}) \in {a, b, d, e}
         /\ Max({a, b, d, e}) >= a /\ Max({a, b, d, e}) >= b
         /\ Max({a, b, d, e}) >= d /\ Max({a, b, d, e}) >= e
<1> DEFINE S == {a, b, d, e}
<1>1. \E x \in S : \A y \in S : x >= y
  <2> DEFINE p == IF a >= b THEN a ELSE b
             q == IF d >= e THEN d ELSE e
             r == IF p >= q THEN p ELSE q
  <2>1. r \in S /\ \A y \in S : r >= y
    OBVIOUS
  <2> QED BY <2>1
<1>2. Max(S) \in S /\ \A y \in S : Max(S) >= y
  BY <1>1 DEF Max
<1> QED BY <1>2

\* The batch of n micro-batches: its time is the largest of three products with
\* n and of the time to load the experts.
LoadTime(c, g, n) == c.wi * (WgUnit(c) - wg(c, g * n, g))

LEMMA LayerTimeTerms ==
  ASSUME NEW c \in Configs, NEW g \in Nat \ {0}, NEW n \in Nat
  PROVE  LET T == LayerTime(c, g * n, g)
             L == LoadTime(c, g, n)
             A == ((c.attention * g) * WgUnit(c)) * n
             F == ((c.flops * g) * WgUnit(c)) * n
             B == ((c.weights + c.bytes * g) * WgUnit(c)) * n
         IN  /\ L \in Nat /\ A \in Nat /\ F \in Nat /\ B \in Nat /\ T \in {L, A, F, B} /\ T \in Nat
             /\ T >= L /\ T >= A /\ T >= F /\ T >= B
<1> DEFINE T == LayerTime(c, g * n, g)
           L == LoadTime(c, g, n)
           u == WgUnit(c)
           A == ((c.attention * g) * u) * n
           F == ((c.flops * g) * u) * n
           B == ((c.weights + c.bytes * g) * u) * n
<1>1. u \in Nat /\ c.wi \in Nat /\ c.attention \in Nat /\ c.flops \in Nat
      /\ c.weights \in Nat /\ c.bytes \in Nat
  BY ConfigFacts, TimeFacts
<1>2. c.attention * (g * n) * u = A /\ c.flops * (g * n) * u = F
  <2> HIDE DEF u
  <2> QED BY <1>1
<1>3. (g * n) \div g = n
  OBVIOUS
<1>4. (c.weights + c.bytes * g) * ((g * n) \div g) * u = B
  <2> DEFINE v == c.weights + c.bytes * g
  <2>1. v \in Nat
    BY <1>1, ProductsAreNat
  <2> HIDE DEF u, v
  <2>2. v * n * u = (v * u) * n
    BY <2>1, <1>1
  <2> QED BY <2>2, <1>3 DEF v
<1>5. A \in Nat /\ F \in Nat /\ B \in Nat
  <2>1. c.attention * g \in Nat /\ c.flops * g \in Nat /\ c.weights + c.bytes * g \in Nat
    BY <1>1, ProductsAreNat
  <2>2. (c.attention * g) * u \in Nat /\ (c.flops * g) * u \in Nat
        /\ (c.weights + c.bytes * g) * u \in Nat
    <3> HIDE DEF u
    <3> QED BY <1>1, <2>1, ProductsAreNat
  <2> QED BY <2>2, ProductsAreNat
<1>6. L \in Nat
  <2>1. g * n \in Nat
    BY ProductsAreNat
  <2>2. gpu_room(c, g * n, g) \in Int
    <3> DEFINE b == g * n
    <3>1. b \in Nat /\ b <= b /\ g <= g
      BY <2>1
    <3> HIDE DEF b
    <3>2. gpu_room(c, b, g) \in Int
      BY <3>1, MoreRoom
    <3> QED BY <3>2 DEF b
  <2>3. u - wg(c, g * n, g) \in Nat
    <3> HIDE DEF u
    <3> QED BY <2>2, <1>1 DEF wg, u
  <2> QED BY <2>3, <1>1, ProductsAreNat DEF LoadTime
<1>7. T = Max({L, A, F, B})
  BY <1>2, <1>4 DEF LayerTime, LoadTime
<1> HIDE DEF T, L, A, F, B
<1>8. T \in {L, A, F, B} /\ T >= L /\ T >= A /\ T >= F /\ T >= B
  <2>1. L \in Int /\ A \in Int /\ F \in Int /\ B \in Int
    BY <1>5, <1>6
  <2>2. /\ Max({L, A, F, B}) \in {L, A, F, B}
        /\ Max({L, A, F, B}) >= L /\ Max({L, A, F, B}) >= A
        /\ Max({L, A, F, B}) >= F /\ Max({L, A, F, B}) >= B
    BY <2>1, MaxOfFour
  <2> QED BY <1>7, <2>2
<1>9. T \in Nat
  BY <1>5, <1>6, <1>8
<1> QED BY <1>5, <1>6, <1>8, <1>9 DEF T, L, A, F, B
\* Whatever bounds the time at some number of micro-batches is a bound that
\* grows with their number in proportion, from a constant that may be negative.
LEMMA TimePieces ==
  ASSUME NEW c \in Configs, NEW g \in Nat \ {0}, NEW i \in Nat
  PROVE  \E e \in Int, s \in Nat :
           /\ LayerTime(c, g * i, g) = e + s * i
           /\ \A n \in Nat : LayerTime(c, g * n, g) >= e + s * n
<1> DEFINE T(n) == LayerTime(c, g * n, g)
           u == WgUnit(c)
           L(n) == LoadTime(c, g, n)
           a == (c.attention * g) * u
           f == (c.flops * g) * u
           b == (c.weights + c.bytes * g) * u
<1> SUFFICES \E e \in Int, z \in Nat : T(i) = e + z * i /\ \A n \in Nat : T(n) >= e + z * n
  OBVIOUS
<1>1. \A n \in Nat :
        /\ L(n) \in Nat /\ a * n \in Nat /\ f * n \in Nat /\ b * n \in Nat
        /\ T(n) \in {L(n), a * n, f * n, b * n}
        /\ T(n) >= L(n) /\ T(n) >= a * n /\ T(n) >= f * n /\ T(n) >= b * n
  BY LayerTimeTerms
<1>2. /\ u \in Nat /\ c.wi \in Nat /\ c.attention \in Nat /\ c.flops \in Nat
      /\ c.weights \in Nat /\ c.bytes \in Nat /\ c.decode \in Nat /\ c.prefill \in Nat
      /\ c.buffer \in Nat /\ c.inter \in Nat /\ c.gmem \in Nat /\ c.w_other \in Nat
  BY ConfigFacts, TimeFacts
<1>3. a \in Nat /\ f \in Nat /\ b \in Nat
  <2>1. c.attention * g \in Nat /\ c.flops * g \in Nat /\ c.weights + c.bytes * g \in Nat
    BY <1>2, ProductsAreNat
  <2> HIDE DEF u
  <2> QED BY <1>2, <2>1, ProductsAreNat
<1>4. ASSUME NEW s \in Nat, \A n \in Nat : T(n) >= s * n, T(i) = s * i
      PROVE  \E e \in Int, z \in Nat : T(i) = e + z * i /\ \A n \in Nat : T(n) >= e + z * n
  <2> HIDE DEF T
  <2>1. T(i) = 0 + s * i /\ \A n \in Nat : T(n) >= 0 + s * n
    <3>1. \A n \in Nat : 0 + s * n = s * n
      OBVIOUS
    <3> QED BY <3>1, <1>4
  <2> QED BY <2>1
<1>5. CASE T(i) = L(i)
  <2> DEFINE room(n) == gpu_room(c, g * n, g)
             k == c.gmem - c.w_other - 2 * c.wi - c.inter * g
             d == c.decode * g
             p == c.prefill * g
             q == c.buffer * g
             W(n) == wg(c, g * n, g)
  <2>1. c.inter * g \in Nat /\ d \in Nat /\ p \in Nat /\ q \in Nat /\ k \in Int
    BY <1>2, ProductsAreNat
  <2>2. \A n \in Nat : d * n \in Nat /\ p * n \in Nat
    BY <2>1, ProductsAreNat
  <2>3. \A n \in Nat : room(n) = k - Larger(d * n, p * n + q)
    <3> TAKE n \in Nat
    <3>1. c.decode * (g * n) = d * n /\ c.prefill * (g * n) = p * n
      BY <1>2
    <3> QED BY <3>1 DEF gpu_room, gpu_home_d, gpu_home_p
  <2>4. \A n \in Nat : room(n) \in Int /\ room(n) <= k - d * n /\ room(n) <= k - (p * n + q)
    <3> HIDE DEF room, k, d, p, q
    <3> QED BY <2>1, <2>2, <2>3 DEF Larger
  <2>5. \A n \in Nat : L(n) = c.wi * (u - W(n))
    BY DEF LoadTime
  <2>6. \A n \in Nat : W(n) = IF room(n) < u THEN room(n) ELSE u
    BY DEF wg
  <2>7. ASSUME NEW h \in Int, NEW r \in Nat, W(i) = h - r * i,
               \A n \in Nat : W(n) <= h - r * n
        PROVE  \E e \in Int, z \in Nat : T(i) = e + z * i /\ \A n \in Nat : T(n) >= e + z * n
    <3> DEFINE e == c.wi * (u - h)
               z == c.wi * r
    <3>1. e \in Int /\ z \in Nat
      BY <1>2, ProductsAreNat
    <3> HIDE DEF T, u, W, L, room
    <3>2. \A n \in Nat : c.wi * (u - (h - r * n)) = e + z * n
      BY <1>2
    <3>3. \A n \in Nat : W(n) \in Int
      BY <1>2, <2>4, <2>6
    <3>4. \A n \in Nat : L(n) >= e + z * n
      <4> TAKE n \in Nat
      <4>1. r * n \in Int /\ W(n) \in Int /\ W(n) <= h - r * n
        BY <3>3, <2>7
      <4>2. u - (h - r * n) \in Int /\ u - W(n) \in Int /\ u - (h - r * n) <= u - W(n)
        BY <4>1, <1>2
      <4>3. c.wi * (u - (h - r * n)) <= c.wi * (u - W(n))
        BY <4>2, <1>2, ProductsOrdered
      <4>4. e + z * n <= L(n)
        BY <4>3, <3>2, <2>5
      <4>5. z * n \in Int /\ L(n) \in Int
        BY <3>1, <1>1
      <4> QED BY <4>4, <4>5, <3>1
    <3>5. L(i) = e + z * i
      BY <2>5, <2>7, <3>2
    <3>6. \A n \in Nat : T(n) >= e + z * n
      <4> TAKE n \in Nat
      <4>1. L(n) \in Int /\ T(n) \in Int /\ T(n) >= L(n) /\ L(n) >= e + z * n /\ z * n \in Int
        BY <1>1, <3>1, <3>4
      <4> HIDE DEF e, z
      <4> QED BY <4>1, <3>1
    <3> QED BY <1>5, <3>1, <3>5, <3>6
  <2>8. \A n \in Nat : W(n) \in Int /\ W(n) <= u /\ W(n) <= room(n)
    <3> HIDE DEF u, W, room
    <3> QED BY <1>2, <2>4, <2>6
  <2>9. CASE W(i) = u
    <3>1. 0 \in Nat /\ u \in Int /\ (\A n \in Nat : 0 * n = 0)
      BY <1>2
    <3>2. W(i) = u - 0 * i /\ \A n \in Nat : W(n) <= u - 0 * n
      <4> HIDE DEF u, W
      <4> QED BY <3>1, <2>8, <2>9
    <3> HIDE DEF u, W, T
    <3> QED BY <3>1, <3>2, <2>7
  <2>10. CASE W(i) # u
    <3>1. W(i) = room(i)
      BY <2>6, <2>10
    <3>2. CASE room(i) = k - d * i
      <4>1. \A n \in Nat : W(n) <= k - d * n
        <5> HIDE DEF u, W, room, k, d
        <5> QED BY <2>1, <2>2, <2>4, <2>8
      <4> HIDE DEF u, W, T, k, d, room
      <4> QED BY <2>1, <3>1, <3>2, <4>1, <2>7
    <3>3. CASE room(i) = k - (p * i + q)
      <4>1. \A n \in Nat : W(n) <= (k - q) - p * n
        <5> HIDE DEF u, W, room, k, p, q
        <5> QED BY <2>1, <2>2, <2>4, <2>8
      <4>2. W(i) = (k - q) - p * i /\ k - q \in Int
        <5> HIDE DEF u, W, room, k, p, q
        <5> QED BY <2>1, <2>2, <3>1, <3>3
      <4> HIDE DEF u, W, T, k, p, q, room
      <4> QED BY <2>1, <4>1, <4>2, <2>7
    <3>4. room(i) = k - d * i \/ room(i) = k - (p * i + q)
      BY <2>3 DEF Larger
    <3> QED BY <3>2, <3>3, <3>4
  <2> QED BY <2>9, <2>10
<1>6. T(i) \in {L(i), a * i, f * i, b * i}
  BY <1>1
<1>7. CASE T(i) = a * i
  <2> HIDE DEF T, a, f, b, L
  <2> QED BY <1>1, <1>3, <1>4, <1>7
<1>8. CASE T(i) = f * i
  <2> HIDE DEF T, a, f, b, L
  <2> QED BY <1>1, <1>3, <1>4, <1>8
<1>9. CASE T(i) = b * i
  <2> HIDE DEF T, a, f, b, L
  <2> QED BY <1>1, <1>3, <1>4, <1>9
<1> HIDE DEF L, a, f, b
<1> QED BY <1>5, <1>6, <1>7, <1>8, <1>9

\* From the first number of micro-batches that is slower than the one before,
\* every larger number is slower than that one too.
LEMMA OnceSlower ==
  ASSUME NEW c \in Configs, NEW g \in Nat \ {0}, NEW n \in Nat, NEW m \in Nat, m >= n + 1,
         ~AtLeast(Throughput(c, g * (n + 1), g), Throughput(c, g * n, g))
  PROVE  AtLeast(Throughput(c, g * n, g), Throughput(c, g * m, g))
<1> DEFINE T(i) == LayerTime(c, g * i, g)
           x == T(n)
           y == T(n + 1)
           z == T(m)
<1>1. x \in Nat /\ y \in Nat /\ z \in Nat /\ n + 1 \in Nat
  <2>1. \A i \in Nat : T(i) \in Nat
    BY LayerTimeTerms
  <2> HIDE DEF T
  <2>2. n + 1 \in Nat
    OBVIOUS
  <2> QED BY <2>1, <2>2
<1>2. PICK e \in Int, s \in Nat :
        /\ LayerTime(c, g * (n + 1), g) = e + s * (n + 1)
        /\ \A i \in Nat : LayerTime(c, g * i, g) >= e + s * i
  BY <1>1, TimePieces
<1>3. y = e + s * (n + 1) /\ x >= e + s * n /\ z >= e + s * m
  BY <1>2
<1>4. ~((g * (n + 1)) * x >= (g * n) * y)
  BY DEF AtLeast, Throughput
<1>5. AtLeast(Throughput(c, g * n, g), Throughput(c, g * m, g)) <=> (g * n) * z >= (g * m) * x
  BY DEF AtLeast, Throughput
<1> HIDE DEF T, x, y, z
<1>6. (n + 1) * x < n * y
  <2> SUFFICES ASSUME n * y <= (n + 1) * x PROVE FALSE
    <3>1. n * y \in Int /\ (n + 1) * x \in Int
      BY <1>1
    <3> QED BY <3>1
  <2>1. n * y \in Int /\ (n + 1) * x \in Int
    BY <1>1
  <2>2. g * (n * y) <= g * ((n + 1) * x)
    BY <2>1, ProductsOrdered
  <2>3. g * (n * y) = (g * n) * y /\ g * ((n + 1) * x) = (g * (n + 1)) * x
    BY <1>1
  <2> QED BY <1>4, <2>2, <2>3
<1>7. m * x <= n * z
  BY <1>1, <1>3, <1>6, SlowerStays
<1>8. g * (m * x) <= g * (n * z)
  <2>1. m * x \in Int /\ n * z \in Int
    BY <1>1
  <2> QED BY <2>1, <1>7, ProductsOrdered
<1>9. g * (m * x) = (g * m) * x /\ g * (n * z) = (g * n) * z
  BY <1>1
<1>10. (g * m) * x \in Int /\ (g * n) * z \in Int
  BY <1>1
<1> QED BY <1>5, <1>8, <1>9, <1>10

LEMMA ThroughputRate ==
  ASSUME NEW c \in Configs, NEW g \in Nat \ {0}, NEW n \in Nat \ {0}
  PROVE  Throughput(c, g * n, g) \in Rates
<1>1. LayerTime(c, g * n, g) \in Nat
  <2>1. \A i \in Nat : LayerTime(c, g * i, g) \in Nat
    BY LayerTimeTerms
  <2> QED BY <2>1
<1>2. g * n \in Nat /\ g * n > 0
  <2>1. g * 1 <= g * n
    BY ProductsOrdered
  <2> QED BY <2>1
<1> QED BY <1>1, <1>2 DEF Throughput, Rates

-----------------------------------------------------------------------------
(* What solve knows while it walks. *)

Answer == best_policy.throughput
Rate(n) == Throughput(config, gbs * n, gbs)

\* No policy that fits is faster than the best one found so far, of the sizes
\* gone past and of the numbers of micro-batches gone past.
SizesPast ==
  \A g \in {1, 2, 3, 4, 36} : g < gbs =>
    \A n \in Nat \ {0} :
      Feasible(config, g * n, g) => AtLeast(Answer, Throughput(config, g * n, g))

NumbersPast == pc = "walking" => \A n \in 1 .. nb - 1 : AtLeast(Answer, Rate(n))

WalkKnows ==
  /\ Answer \in Rates
  /\ gbs \in 1 .. 4 \/ gbs >= 36
  /\ pc = "walking" => prev = IF nb = 1 THEN <<0, 1>> ELSE Rate(nb - 1)
  /\ pc = "done" => nb_ub = 0

WalkInv == WalkKnows /\ SizesPast /\ NumbersPast

LEMMA WalkInvInit == SearchInit => WalkInv
<1> SUFFICES ASSUME SearchInit PROVE WalkInv
  OBVIOUS
<1>1. Answer = <<0, 1>> /\ <<0, 1>> \in Rates
  BY DEF SearchInit, NoPolicy, Answer, Rates
<1> QED BY <1>1 DEF SearchInit, WalkInv, WalkKnows, SizesPast, NumbersPast

\* A new best policy is at least as fast as the one before and as the policy it
\* was compared with.
LEMMA BestRises ==
  ASSUME NEW p, p.throughput \in Rates, Answer \in Rates
  PROVE  /\ best(p).throughput \in Rates
         /\ AtLeast(best(p).throughput, p.throughput)
         /\ \A t \in Rates : AtLeast(Answer, t) => AtLeast(best(p).throughput, t)
<1>1. CASE AtLeast(p.throughput, Answer)
  <2>1. best(p) = p
    BY <1>1 DEF best, Answer
  <2>2. AtLeast(p.throughput, p.throughput)
    BY AtLeastTotal
  <2> QED BY <1>1, <2>1, <2>2, AtLeastTransitive
<1>2. CASE ~AtLeast(p.throughput, Answer)
  <2>1. best(p).throughput = Answer
    BY <1>2 DEF best, Answer
  <2>2. AtLeast(Answer, p.throughput)
    BY <1>2, AtLeastTotal
  <2> QED BY <2>1, <2>2
<1> QED BY <1>1, <1>2

LEMMA WalkStep ==
  ASSUME SearchInv, WalkInv, Walk
  PROVE  WalkInv'
<1> DEFINE t == Rate(nb)
           p == [ubs |-> gbs, n_ub |-> nb, throughput |-> t]
<1>1. config \in Configs /\ gbs \in Nat \ {0} /\ nb \in Nat \ {0}
  BY DEF SearchInv, TypeOK
<1>2. t \in Rates /\ p.throughput = t /\ Answer \in Rates
  BY <1>1, ThroughputRate DEF Rate, WalkInv, WalkKnows
<1>3. /\ prev' = t /\ best_policy' = best(p) /\ nb' = nb + 1 /\ pc = "walking"
      /\ UNCHANGED <<config, pc, gbs, nb_ub>>
  BY DEF Walk, Rate
<1>4. /\ Answer' \in Rates /\ AtLeast(Answer', t)
      /\ \A r \in Rates : AtLeast(Answer, r) => AtLeast(Answer', r)
  <2> HIDE DEF t, p
  <2> QED BY <1>2, <1>3, BestRises DEF Answer
<1>5. WalkKnows'
  <2>1. nb' # 1 /\ nb' - 1 = nb
    BY <1>1, <1>3
  <2>2. Rate(nb - 1)' = t
    <3>1. Rate(nb - 1)' = Throughput(config', gbs' * (nb' - 1), gbs')
      BY DEF Rate
    <3> QED BY <1>3, <2>1, <3>1 DEF Rate
  <2> QED BY <1>3, <1>4, <2>1, <2>2 DEF WalkInv, WalkKnows, Rate
<1>6. SizesPast'
  <2> SUFFICES ASSUME NEW g \in {1, 2, 3, 4, 36}, g < gbs, NEW n \in Nat \ {0},
                      Feasible(config, g * n, g)
               PROVE  AtLeast(Answer', Throughput(config, g * n, g))
    BY <1>3 DEF SizesPast
  <2>1. Throughput(config, g * n, g) \in Rates
    BY <1>1, ThroughputRate
  <2>2. AtLeast(Answer, Throughput(config, g * n, g))
    BY DEF WalkInv, SizesPast
  <2> QED BY <2>1, <2>2, <1>4
<1>7. NumbersPast'
  <2> SUFFICES ASSUME NEW n \in 1 .. nb PROVE AtLeast(Answer', Rate(n))
    BY <1>1, <1>3 DEF NumbersPast, Rate
  <2>1. Rate(n) \in Rates
    BY <1>1, ThroughputRate, SMTT(30) DEF Rate
  <2>2. CASE n = nb
    BY <2>2, <1>4
  <2>3. CASE n # nb
    <3>1. n \in 1 .. nb - 1
      BY <2>3, <1>1
    <3>2. AtLeast(Answer, Rate(n))
      BY <3>1, <1>3 DEF WalkInv, NumbersPast
    <3> QED BY <2>1, <3>2, <1>4
  <2> QED BY <2>2, <2>3
<1> QED BY <1>5, <1>6, <1>7 DEF WalkInv

\* When the walk ends, the best policy is at least as fast as any of this size.
LEMMA SizeDone ==
  ASSUME SearchInv, WalkInv, NextSize, NEW n \in Nat \ {0}, Fits(n)
  PROVE  AtLeast(Answer, Rate(n))
<1>1. /\ config \in Configs /\ gbs \in Nat \ {0} /\ nb \in Nat \ {0} /\ nb_ub \in Nat
      /\ pc = "walking" /\ ~Fits(nb_ub + 1) /\ Answer \in Rates
      /\ prev = IF nb = 1 THEN <<0, 1>> ELSE Rate(nb - 1)
  BY DEF SearchInv, TypeOK, NextSize, Found, WalkInv, WalkKnows
<1>2. CASE n < nb
  BY <1>1, <1>2 DEF WalkInv, NumbersPast
<1>3. CASE n >= nb /\ nb > nb_ub
  <2>1. nb_ub + 1 <= n /\ nb_ub + 1 \in Nat /\ gbs \in Nat
    BY <1>1, <1>3
  <2>2. Fits(nb_ub + 1)
    BY <1>1, <2>1, FewerBatchesFit DEF Fits
  <2> QED BY <1>1, <2>2
<1>4. CASE n >= nb /\ Falls
  <2>1. ~AtLeast(Rate(nb), prev) /\ Rate(nb) \in Rates
    BY <1>1, <1>4, ThroughputRate DEF Falls, Rate
  <2>2. nb # 1
    <3> SUFFICES ASSUME prev = <<0, 1>> PROVE FALSE
      BY <1>1
    <3>1. AtLeast(Rate(nb), prev) <=> Rate(nb)[1] * 1 >= 0 * Rate(nb)[2]
      BY DEF AtLeast
    <3>2. Rate(nb)[1] \in Nat /\ Rate(nb)[2] \in Nat
      BY <2>1 DEF Rates
    <3> QED BY <2>1, <3>1, <3>2
  <2> DEFINE i == nb - 1
  <2>3. i \in Nat \ {0} /\ nb = i + 1 /\ n >= i + 1 /\ i \in 1 .. nb - 1
    BY <1>1, <1>4, <2>2
  <2>4. prev = Rate(i)
    BY <1>1, <2>2
  <2>5. ~AtLeast(Rate(i + 1), Rate(i))
    BY <2>1, <2>3, <2>4
  <2>6. AtLeast(Rate(i), Rate(n))
    <3> HIDE DEF i
    <3> QED BY <1>1, <2>3, <2>5, OnceSlower DEF Rate
  <2>7. AtLeast(Answer, Rate(i))
    <3> HIDE DEF i
    <3> QED BY <1>1, <2>3 DEF WalkInv, NumbersPast
  <2>8. Rate(i) \in Rates /\ Rate(n) \in Rates
    <3> HIDE DEF i
    <3> QED BY <1>1, <2>3, ThroughputRate DEF Rate
  <2> QED BY <1>1, <2>6, <2>7, <2>8, AtLeastTransitive
<1> QED BY <1>1, <1>2, <1>3, <1>4 DEF NextSize

LEMMA NextSizeStep ==
  ASSUME SearchInv, WalkInv, NextSize
  PROVE  WalkInv'
<1>1. /\ gbs \in Nat \ {0} /\ gbs' = NextGbs(gbs) /\ pc' = "doubling"
      /\ UNCHANGED <<config, best_policy>> /\ (gbs \in 1 .. 4 \/ gbs >= 36)
  BY DEF NextSize, SearchInv, TypeOK, WalkInv, WalkKnows
<1>2. \A g \in {1, 2, 3, 4, 36} : g < gbs' => g < gbs \/ g = gbs
  BY <1>1 DEF NextGbs
<1>3. gbs' \in 1 .. 4 \/ gbs' >= 36
  BY <1>1 DEF NextGbs
<1>4. SizesPast'
  <2> SUFFICES ASSUME NEW g \in {1, 2, 3, 4, 36}, g < gbs', NEW n \in Nat \ {0},
                      Feasible(config, g * n, g)
               PROVE  AtLeast(Answer, Throughput(config, g * n, g))
    BY <1>1 DEF SizesPast, Answer
  <2>1. CASE g < gbs
    BY <2>1 DEF WalkInv, SizesPast
  <2>2. CASE g = gbs
    BY <2>2, SizeDone DEF Fits, Rate
  <2> QED BY <1>2, <2>1, <2>2
<1> QED BY <1>1, <1>3, <1>4 DEF WalkInv, WalkKnows, NumbersPast, Answer

LEMMA WalkInvNext == SearchInv /\ WalkInv /\ [SearchNext]_search_vars => WalkInv'
<1> SUFFICES ASSUME SearchInv, WalkInv, [SearchNext]_search_vars PROVE WalkInv'
  OBVIOUS
<1> USE DEF WalkInv, WalkKnows, SizesPast, NumbersPast, Answer, Rate
<1>1. CASE Double
  BY <1>1 DEF Double
<1>2. CASE Bisect
  BY <1>2 DEF Bisect
<1>3. CASE Raise
  BY <1>3 DEF Raise
<1>4. CASE Lower
  BY <1>4 DEF Lower
<1>5. CASE Bounded
  BY <1>5 DEF Bounded
<1>6. CASE Walk
  BY <1>6, WalkStep
<1>7. CASE NextSize
  BY <1>7, NextSizeStep
<1>8. CASE UNCHANGED search_vars
  BY <1>8 DEF search_vars
<1> QED BY <1>1, <1>2, <1>3, <1>4, <1>5, <1>6, <1>7, <1>8 DEF SearchNext

\* A size that does not fit once leaves nothing to larger ones.
LEMMA WalkInvBest == SearchInv /\ WalkInv => BestFound
<1> SUFFICES ASSUME SearchInv, WalkInv, pc = "done", NEW g \in {1, 2, 3, 4, 36},
                    NEW n \in 1 .. config.gmem, Feasible(config, g * n, g)
             PROVE  AtLeast(Answer, Throughput(config, g * n, g))
  BY DEF BestFound, Answer
<1>1. config \in Configs /\ gbs \in Nat \ {0} /\ nb_ub = 0 /\ ~Fits(nb_ub + 1)
  BY DEF SearchInv, TypeOK, Found, WalkInv, WalkKnows
<1>2. n \in Nat \ {0}
  BY <1>1, ConfigFacts
<1>3. CASE g < gbs
  BY <1>2, <1>3 DEF WalkInv, SizesPast
<1>4. CASE gbs <= g
  <2>1. 1 \in Nat /\ 1 <= n /\ g \in Nat /\ gbs \in Nat
    BY <1>1, <1>2
  <2>2. Feasible(config, gbs * 1, gbs)
    BY <2>1, <1>1, <1>2, <1>4, FewerFit
  <2> QED BY <1>1, <2>2 DEF Fits
<1> QED BY <1>1, <1>3, <1>4

\* solve stops early and still answers with a policy that no policy that fits is
\* faster than, on every machine: the throughput of a size rises with the number
\* of micro-batches, then falls and never rises again.
THEOREM BestIsFound == SearchSpec => []BestFound
BY SearchInvInit, SearchInvNext, WalkInvInit, WalkInvNext, WalkInvBest, PTL DEF SearchSpec
=============================================================================
