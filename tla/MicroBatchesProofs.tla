------------------------- MODULE MicroBatchesProofs -------------------------
(***************************************************************************)
(* The step engine for any requests, prompt lengths and policy: the halves *)
(* of the GPU buffer and the CPU lines agree, requests that run together   *)
(* share no place of the pool, what the greedy loop admits fits the pool,  *)
(* and exposed_step implements StepService.                                *)
(*                                                                         *)
(* What carries the spans is the arithmetic of the greedy loop: a          *)
(* partition's sum bounds the room of its requests, so every micro-batch *)
(* stays within one line, unless the batch was so small that it is alone.  *)
(***************************************************************************)
EXTENDS MicroBatches, SequenceLemmas, FiniteSetTheorems

TypeInv ==
  /\ place \in Places
  /\ recv_reqs \in Seq(Seq(Requests))
  /\ forward_queue \in Seq(Requests) /\ unassigned \in Seq(Requests)
  /\ partitions \in Seq(Seq(Requests)) /\ partitions_sums \in Seq(Nat)
  /\ micro_batches \in Seq(Seq(Requests))
  /\ abort_requests \subseteq Requests
  /\ cur_start_loc \in Nat /\ cur_cl \in {0, 1}
  /\ lines \in Seq([cpu : Nat, gpu : Nat])
  /\ decode_step \in Nat

\* Where the step is in the life of a client batch.
PlaceInv ==
  /\ place # "create" => forward_queue = <<>>
  /\ place # "assign" => unassigned = <<>> /\ partitions = <<>>
  /\ place \in {"idle", "return"} => recv_reqs = <<>>
  /\ place = "assign" => lines = <<>> /\ num_mb + Len(partitions) = n_ub
  /\ place = "allocate" => Len(lines) < num_mb
  /\ Running => Len(lines) = num_mb
  /\ place = "decode" => decode_step < num_decode_steps
  /\ num_mb <= n_ub

\* The lines follow one another, and their halves alternate.
PoolInv ==
  /\ \E q \in Nat : cur_start_loc = q * (2 * cache_line) + cur_cl * cache_line
  /\ OffloadReadsPrefill
  /\ \A k \in 1 .. Len(lines) : lines[k].cpu = lines[1].cpu + (k - 1) * cache_line
  /\ lines # <<>> => cur_start_loc = lines[1].cpu + Len(lines) * cache_line

\* What the greedy loop knows of a partition, and what it leaves behind.
PartitionsInv ==
  /\ Len(partitions_sums) = Len(partitions)
  /\ \A p \in 1 .. Len(partitions) :
       /\ Rooms(partitions[p]) <= partitions_sums[p] + Len(partitions[p]) * gen_len
       /\ Rooms(partitions[p]) <= cache_line

Greedy == \A k \in 1 .. num_mb : Rooms(micro_batches[k]) <= cache_line
Small == num_mb = 1 /\ Len(micro_batches[1]) < ubs /\ abort_requests = {}

AdmissionInv == (Greedy \/ Small) /\ (place = "assign" => Greedy)

\* A request is queued, in the batch, or done, and was sent once.
ServiceInv ==
  /\ \A i, j \in 1 .. Len(recv_reqs) : i # j => Range(recv_reqs[i]) \cap Range(recv_reqs[j]) = {}
  /\ Queued \cap (Range(forward_queue) \cup InBatch) = {}
  /\ Queued \cup Range(forward_queue) \cup InBatch \cup Answered \subseteq sent

IInv == TypeInv /\ PlaceInv /\ PoolInv /\ PartitionsInv /\ AdmissionInv /\ ServiceInv
-----------------------------------------------------------------------------
(* The room of a micro-batch *)

LEMMA RoomType ==
  ASSUME NEW r \in Requests
  PROVE  /\ prompt(r) \in Nat \ {0} /\ prompt(r) <= input_len[r]
         /\ room(r) \in Nat \ {0} /\ room(r) = prompt(r) + gen_len
<1>1. input_len[r] \in Nat \ {0, 1} /\ context_len \in Nat \ {0, 1, 2} /\ gen_len \in Nat \ {0}
  BY BatchAssumption
<1> QED  BY <1>1 DEF prompt, room, Lowest

LEMMA RoomsAreSums ==
  ASSUME NEW b \in Seq(Requests)
  PROVE  LET w == [i \in 1 .. Len(b) |-> room(b[i])]
         IN  \E g : g = Sums(g, w, Len(b)) /\ Rooms(b) = g[1 .. Len(b)]
<1> DEFINE w == [i \in 1 .. Len(b) |-> room(b[i])]
           n == Len(b)
           Body(g) == [s \in SUBSET (DOMAIN b) |->
                         IF s = {} THEN 0 ELSE g[s \ {Max(s)}] + room(b[Max(s)])]
           f == CHOOSE g : g = Body(g)
<1>1. Rooms(b) = f[DOMAIN b]
  BY DEF Rooms, FoldLeft, MapThenFoldSet
<1>2. n \in Nat /\ DOMAIN b = 1 .. n
  BY LenProperties
<1>3. ASSUME NEW g PROVE Body(g) = Sums(g, w, n)
  <2>1. ASSUME NEW s \in SUBSET (1 .. n), s # {} PROVE w[Max(s)] = room(b[Max(s)])
    <3>1. Max(s) \in 1 .. n
      BY <1>2, <2>1, MaxIn
    <3> QED  BY <3>1
  <2> HIDE DEF w, n
  <2> QED  BY <1>2, <2>1 DEF Sums
<1>4. \E g : g = Body(g)
  <2>1. \E g : g = Sums(g, w, n)
    BY <1>2, SumsExist
  <2> HIDE DEF Body, w, n
  <2> QED  BY <1>3, <2>1
<1>5. f = Body(f)
  <2> HIDE DEF Body
  <2> QED  BY <1>4
<1>6. f = Sums(f, w, n) /\ Rooms(b) = f[1 .. n]
  <2> HIDE DEF Body, f, w, n
  <2> QED  BY <1>1, <1>2, <1>3, <1>5
<1> QED  BY <1>6

LEMMA RoomsEmpty == Rooms(<<>>) = 0
<1>1. <<>> \in Seq(Requests) /\ Len(<<>>) = 0
  BY EmptySeq
<1>2. PICK g : /\ g = Sums(g, [i \in 1 .. Len(<<>>) |-> room(<<>>[i])], Len(<<>>))
               /\ Rooms(<<>>) = g[1 .. Len(<<>>)]
  BY <1>1, RoomsAreSums
<1>3. g[1 .. 0] = 0
  BY <1>1, <1>2, SumsStep
<1> QED  BY <1>1, <1>2, <1>3

LEMMA RoomsAppend ==
  ASSUME NEW b \in Seq(Requests), NEW r \in Requests
  PROVE  /\ Rooms(b) \in Nat
         /\ Rooms(Append(b, r)) = Rooms(b) + room(r)
<1> DEFINE c == Append(b, r)
           n == Len(b)
           v == [i \in 1 .. Len(b) |-> room(b[i])]
           w == [i \in 1 .. Len(c) |-> room(c[i])]
<1>1. /\ c \in Seq(Requests) /\ Len(c) = n + 1 /\ n \in Nat /\ n + 1 \in Nat
      /\ \A i \in 1 .. n : c[i] = b[i] /\ b[i] \in Requests
      /\ c[n + 1] = r
  BY AppendProperties, LenProperties, ElementOfSeq
<1>2. PICK g : g = Sums(g, v, n) /\ Rooms(b) = g[1 .. n]
  BY RoomsAreSums
<1>3. PICK h : h = Sums(h, w, Len(c)) /\ Rooms(c) = h[1 .. Len(c)]
  <2> HIDE DEF c
  <2> QED  BY <1>1, RoomsAreSums DEF w
<1>4. v \in [1 .. n -> Nat] /\ w[n + 1] = room(r) /\ \A i \in 1 .. n : v[i] = w[i]
  <2> HIDE DEF c
  <2>1. \A i \in 1 .. n : v[i] = room(b[i]) /\ room(b[i]) \in Nat
    BY <1>1, RoomType
  <2>2. n + 1 \in 1 .. Len(c) /\ \A i \in 1 .. n : i \in 1 .. Len(c)
    BY <1>1
  <2> QED  BY <1>1, <2>1, <2>2
<1> HIDE DEF c, v, w, n
<1>5. h = Sums(h, w, n + 1) /\ Rooms(c) = h[1 .. n + 1]
  BY <1>1, <1>3
<1>6. g[1 .. n] = h[1 .. n]
  <2>1. n <= n /\ n <= n + 1
    BY <1>1
  <2>2. g = Sums(g, v, n) /\ \A i \in 1 .. n : v[i] = w[i]
    BY <1>2, <1>4
  <2>3. /\ n \in Nat /\ n + 1 \in Nat /\ h = Sums(h, w, n + 1)
        /\ \A i \in 1 .. n : v[i] = w[i]
    BY <1>1, <1>5, <2>2
  <2> DEFINE m == n + 1
  <2>4. m \in Nat /\ h = Sums(h, w, m) /\ n <= m
    BY <2>1, <2>3
  <2> HIDE DEF m
  <2>5. n <= n /\ (\A i \in 1 .. n : v[i] = w[i]) => g[1 .. n] = h[1 .. n]
    BY <2>2, <2>3, <2>4, SumsAgree
  <2> QED  BY <2>1, <2>3, <2>5
<1>7. h[1 .. n + 1] = h[1 .. (n + 1) - 1] + w[n + 1]
  <2> DEFINE m == n + 1
  <2>1. m \in Nat /\ m \in 1 .. m /\ h = Sums(h, w, m)
    BY <1>1, <1>5
  <2> HIDE DEF m
  <2>2. \A k \in 1 .. m : h[1 .. k] = h[1 .. k - 1] + w[k]
    BY <2>1, SumsStep
  <2>3. h[1 .. m] = h[1 .. m - 1] + w[m]
    BY <2>1, <2>2
  <2> QED  BY <2>3 DEF m
<1>8. (n + 1) - 1 = n
  BY <1>1
<1>9. g[1 .. n] \in Nat
  BY <1>1, <1>2, <1>4, SumsType
<1> QED  BY <1>2, <1>4, <1>5, <1>6, <1>7, <1>8, <1>9 DEF c
LEMMA BeforeSteps ==
  ASSUME NEW b \in Seq(Requests)
  PROVE  /\ Before(b, 1) = 0
         /\ Before(b, Len(b) + 1) = Rooms(b)
         /\ \A i \in 1 .. Len(b) :
              Before(b, i) \in Nat /\ Before(b, i + 1) = Before(b, i) + room(b[i])
<1>1. Len(b) \in Nat /\ \A i \in 1 .. Len(b) : b[i] \in Requests
  BY LenProperties, ElementOfSeq
<1>2. Before(b, 1) = 0
  <2>1. SubSeq(b, 1, 0) = <<>>
    BY SubSeqEmpty
  <2>2. Before(b, 1) = Rooms(SubSeq(b, 1, 0))
    BY DEF Before
  <2> QED  BY <2>1, <2>2, RoomsEmpty
<1>3. Before(b, Len(b) + 1) = Rooms(b)
  <2>1. (Len(b) + 1) - 1 = Len(b)
    BY <1>1
  <2>2. SubSeq(b, 1, Len(b)) = b
    BY SubSeqFull
  <2> QED  BY <2>1, <2>2 DEF Before
<1>4. ASSUME NEW i \in 1 .. Len(b)
      PROVE  Before(b, i) \in Nat /\ Before(b, i + 1) = Before(b, i) + room(b[i])
  <2> DEFINE p == SubSeq(b, 1, i - 1)
  <2>1. i \in Int /\ i - 1 \in Int /\ (i + 1) - 1 = i /\ 1 \in 1 .. Len(b) /\ i \in 1 .. Len(b)
    BY <1>1
  <2>2. p \in Seq(Requests)
    <3>1. \A j \in 1 .. i - 1 : b[j] \in Requests
      BY <1>1
    <3> QED  BY <2>1, <3>1, SubSeqProperties
  <2>3. SubSeq(b, 1, i) = p \o <<b[i]>>
    BY <2>1, SubSeqRecursiveSecond
  <2>4. SubSeq(b, 1, i) = Append(p, b[i])
    BY <1>1, <2>2, <2>3, AppendIsConcat
  <2>5. Before(b, i + 1) = Rooms(SubSeq(b, 1, i)) /\ Before(b, i) = Rooms(p)
    BY <2>1 DEF Before
  <2> HIDE DEF p
  <2> QED  BY <1>1, <2>2, <2>4, <2>5, RoomsAppend
<1> QED  BY <1>2, <1>3, <1>4

\* A request of a micro-batch ends before the next one starts.
LEMMA BeforeGrows ==
  ASSUME NEW b \in Seq(Requests), NEW i \in 1 .. Len(b), NEW j \in i + 1 .. Len(b) + 1
  PROVE  Before(b, i) + room(b[i]) <= Before(b, j)
<1> DEFINE n == Len(b)
           T == {k \in Nat : i + 1 + k <= n + 1 => Before(b, i) + room(b[i]) <= Before(b, i + 1 + k)}
<1>1. /\ n \in Nat /\ i \in Nat /\ i >= 1 /\ i <= n
      /\ \A k \in 1 .. n : b[k] \in Requests /\ room(b[k]) \in Nat /\ Before(b, k) \in Nat
                       /\ Before(b, k + 1) = Before(b, k) + room(b[k])
  BY LenProperties, ElementOfSeq, RoomType, BeforeSteps, SMTT(30)
<1> HIDE DEF n
<1>2. 0 \in T
  <2>1. Before(b, i + 1) = Before(b, i) + room(b[i]) /\ Before(b, i) + room(b[i]) \in Nat
    BY <1>1
  <2>2. i + 1 + 0 = i + 1
    BY <1>1
  <2> QED  BY <2>1, <2>2
<1>3. ASSUME NEW k \in T PROVE k + 1 \in T
  <2>1. SUFFICES ASSUME i + 1 + (k + 1) <= n + 1
                 PROVE  Before(b, i) + room(b[i]) <= Before(b, i + 1 + (k + 1))
    OBVIOUS
  <2>2. /\ k \in Nat /\ i + 1 + k <= n + 1 /\ i + 1 + k \in 1 .. n
        /\ i + 1 + (k + 1) = (i + 1 + k) + 1
    BY <1>1, <2>1
  <2>3. Before(b, i) + room(b[i]) <= Before(b, i + 1 + k)
    BY <2>2
  <2>4. /\ Before(b, i) + room(b[i]) \in Nat /\ Before(b, i + 1 + k) \in Nat
        /\ room(b[i + 1 + k]) \in Nat
        /\ Before(b, (i + 1 + k) + 1) = Before(b, i + 1 + k) + room(b[i + 1 + k])
    BY <1>1, <2>2
  <2> QED  BY <2>2, <2>3, <2>4
<1>4. T = Nat
  <2>1. T \in SUBSET Nat
    OBVIOUS
  <2> HIDE DEF T
  <2> QED  BY <1>2, <1>3, <2>1, Induction
<1>5. j - (i + 1) \in Nat /\ i + 1 + (j - (i + 1)) = j /\ j <= n + 1
  BY <1>1 DEF n
<1>6. j - (i + 1) \in T
  BY <1>4, <1>5
<1> QED  BY <1>5, <1>6

\* Every request of a micro-batch stays within the room of all of them.
LEMMA WithinRooms ==
  ASSUME NEW b \in Seq(Requests), NEW i \in 1 .. Len(b)
  PROVE  /\ b[i] \in Requests /\ Before(b, i) \in Nat
         /\ Before(b, i) + room(b[i]) <= Rooms(b)
<1>1. Len(b) \in Nat /\ Len(b) + 1 \in i + 1 .. Len(b) + 1
  BY LenProperties
<1> QED  BY <1>1, ElementOfSeq, BeforeSteps, BeforeGrows
-----------------------------------------------------------------------------
(* The inductive invariant *)

USE BatchAssumption

LEMMA InitInv == Init => IInv
<1> SUFFICES ASSUME Init PROVE IInv
  OBVIOUS
<1>1. Len(<<>>) = 0
  OBVIOUS
<1>2. TypeInv
  BY DEF Init, TypeInv, Places
<1>3. PlaceInv
  BY <1>1 DEF Init, PlaceInv, Running, num_mb
<1>4. PoolInv
  <2>1. cur_start_loc = 0 * (2 * cache_line) + cur_cl * cache_line
    BY DEF Init
  <2> QED  BY <1>1, <2>1 DEF Init, PoolInv, OffloadReadsPrefill
<1>5. PartitionsInv
  BY <1>1 DEF Init, PartitionsInv
<1>6. AdmissionInv
  BY <1>1 DEF Init, AdmissionInv, Greedy, num_mb
<1>7. ServiceInv
  <2>1. Range(<<>>) = {}
    BY DEF Range
  <2> QED  BY <1>1, <2>1 DEF Init, ServiceInv, Queued, InBatch, Live, num_mb, InPartitions, Answered
<1> QED  BY <1>2, <1>3, <1>4, <1>5, <1>6, <1>7 DEF IInv

LEMMA TypeNext == IInv /\ [Next]_vars => TypeInv'
<1> SUFFICES ASSUME IInv, [Next]_vars PROVE TypeInv'
  OBVIOUS
<1> DEFINE T == Seq(Requests)
<1>0. /\ TypeInv /\ recv_reqs \in Seq(T) /\ partitions \in Seq(T) /\ micro_batches \in Seq(T)
      /\ <<>> \in T /\ <<>> \in Seq(T)
  <2>1. <<>> \in Seq(T)
    <3> HIDE DEF T
    <3> QED  BY EmptySeq
  <2> QED  BY <2>1, EmptySeq DEF IInv, TypeInv
<1>1. CASE Step
  <2>1. PICK n \in 1 .. MaxStepBatches : \E ss \in [1 .. n -> Sends] : recv_reqs' = ss
    BY <1>1 DEF Step
  <2>2. recv_reqs' \in [1 .. n -> T] /\ n \in Nat
    BY <2>1
  <2>3. recv_reqs' \in Seq(T)
    BY <2>2, FunctionIsSeq
  <2> QED  BY <1>0, <1>1, <2>3 DEF TypeInv, Step, Goto, Places, batching, pool, tokens
<1>2. CASE Receive
  <2>1. recv_reqs # <<>> /\ recv_reqs' = Tail(recv_reqs) /\ forward_queue' = forward_queue \o Head(recv_reqs)
    BY <1>2 DEF Receive
  <2>2. Head(recv_reqs) \in T /\ recv_reqs' \in Seq(T)
    <3> HIDE DEF T
    <3> QED  BY <1>0, <2>1, HeadTailProperties
  <2>3. forward_queue' \in Seq(Requests)
    BY <1>0, <2>1, <2>2, ConcatProperties DEF TypeInv
  <2> QED  BY <1>0, <1>2, <2>2, <2>3 DEF TypeInv, Receive, Goto, Places, pool
<1>3. CASE Create
  <2>1. CASE Len(forward_queue) < ubs
    <3>1. micro_batches' \in Seq(T)
      <4>1. micro_batches' = <<forward_queue>> /\ forward_queue \in T
        BY <1>0, <1>3, <2>1 DEF Create, TypeInv
      <4> HIDE DEF T
      <4> QED  BY <4>1
    <3> QED  BY <1>0, <1>3, <2>1, <3>1 DEF TypeInv, Create, EmptyQueue, Goto, Places, tokens
  <2>2. CASE ~ (Len(forward_queue) < ubs)
    <3>1. partitions' \in Seq(T)
      <4>1. partitions' \in [1 .. n_ub -> T]
        <5>1. partitions' = [i \in 1 .. n_ub |-> <<>>]
          BY <1>3, <2>2 DEF Create
        <5> HIDE DEF T
        <5> QED  BY <1>0, <5>1
      <4> QED  BY <4>1, FunctionIsSeq
    <3>2. partitions_sums' \in Seq(Nat)
      <4>1. partitions_sums' \in [1 .. n_ub -> Nat]
        BY <1>3, <2>2 DEF Create
      <4> QED  BY <4>1, FunctionIsSeq
    <3> QED  BY <1>0, <1>3, <2>2, <3>1, <3>2 DEF TypeInv, Create, EmptyQueue, Goto, Places, tokens
  <2> QED  BY <2>1, <2>2
<1>4. CASE Assign
  <2>1. PICK i \in 1 .. Len(unassigned) :
          /\ unassigned' = RemoveAt(unassigned, i)
          /\ IF partitions = <<>> THEN Abort(unassigned[i])
             ELSE \E p \in 1 .. Len(partitions) :
                    /\ IsEmptiest(p)
                    /\ IF Fits(unassigned[i], p) THEN Put(unassigned[i], p)
                                                 ELSE Abort(unassigned[i])
    BY <1>4 DEF Assign
  <2> DEFINE r == unassigned[i]
  <2>2. unassigned' \in Seq(Requests) /\ r \in Requests
    BY <1>0, <2>1, RemoveAtProperties, ElementOfSeq DEF TypeInv
  <2> HIDE DEF r
  <2>3. CASE Abort(r)
    BY <1>0, <1>4, <2>2, <2>3 DEF TypeInv, Assign, Abort, pool
  <2>4. ASSUME NEW p \in 1 .. Len(partitions), Put(r, p) PROVE TypeInv'
    <3> DEFINE b == Append(partitions[p], r)
    <3>1. partitions[p] \in T
      <4> HIDE DEF T
      <4> QED  BY <1>0, ElementOfSeq
    <3>2. b \in T
      BY <2>2, <3>1, AppendProperties
    <3>3. input_len[r] \in Nat /\ \A q \in 1 .. Len(partitions_sums) : partitions_sums[q] \in Nat
      BY <1>0, <2>2, ElementOfSeq DEF TypeInv
    <3>a. p \in 1 .. Len(partitions_sums)
      BY DEF IInv, PartitionsInv
    <3>4. CASE Len(partitions[p]) + 1 = ubs
      <4>1. /\ micro_batches' = Append(micro_batches, b)
            /\ partitions' = RemoveAt(partitions, p)
            /\ partitions_sums' = RemoveAt(partitions_sums, p)
        BY <2>4, <3>4 DEF Put, TakeOff
      <4>2. micro_batches' \in Seq(T) /\ partitions' \in Seq(T)
        <5> HIDE DEF T, b
        <5> QED  BY <1>0, <3>2, <4>1, AppendProperties, RemoveAtProperties
      <4>3. partitions_sums' \in Seq(Nat)
        BY <1>0, <3>a, <4>1, RemoveAtProperties DEF TypeInv
      <4> QED  BY <1>0, <1>4, <2>2, <2>4, <4>2, <4>3 DEF TypeInv, Assign, Put, pool
    <3>5. CASE Len(partitions[p]) + 1 # ubs
      <4>1. /\ micro_batches' = micro_batches
            /\ partitions' = [partitions EXCEPT ![p] = b]
            /\ partitions_sums' = [partitions_sums EXCEPT ![p] = partitions_sums[p] + input_len[r]]
        BY <2>4, <3>5 DEF Put
      <4>2. partitions' \in Seq(T)
        <5> HIDE DEF T, b
        <5> QED  BY <1>0, <3>2, <4>1, ExceptSeq
      <4>3. partitions_sums' \in Seq(Nat)
        <5>1. partitions_sums[p] + input_len[r] \in Nat
          BY <3>3, <3>a
        <5> QED  BY <1>0, <3>a, <4>1, <5>1, ExceptSeq DEF TypeInv
      <4> QED  BY <1>0, <1>4, <2>2, <2>4, <4>1, <4>2, <4>3 DEF TypeInv, Assign, Put, pool
    <3> QED  BY <3>4, <3>5
  <2> QED  BY <2>1, <2>3, <2>4 DEF r
<1>5. CASE EndAssign
  <2>1. micro_batches' \in Seq(T)
    <3>1. micro_batches' = micro_batches \o partitions
      BY <1>5 DEF EndAssign
    <3> HIDE DEF T
    <3> QED  BY <1>0, <3>1, ConcatProperties
  <2> QED  BY <1>0, <1>5, <2>1 DEF TypeInv, EndAssign, Goto, Places, pool, tokens
<1>6. CASE Allocate
  <2>1. /\ lines' = Append(lines, [cpu |-> cur_start_loc, gpu |-> cur_cl * cache_line])
        /\ cur_start_loc' = cur_start_loc + cache_line
        /\ cur_cl' = (cur_cl + 1) % 2
        /\ place' \in Places /\ recv_reqs' \in {recv_reqs, <<>>}
        /\ UNCHANGED <<batching, tokens>>
    BY <1>6 DEF Allocate, alloc_cpu, Goto, Raise, Places
  <2>2. lines' \in Seq([cpu : Nat, gpu : Nat])
    <3>1. cur_start_loc \in Nat /\ cur_cl * cache_line \in Nat
      BY <1>0 DEF TypeInv
    <3>2. [cpu |-> cur_start_loc, gpu |-> cur_cl * cache_line] \in [cpu : Nat, gpu : Nat]
      BY <3>1
    <3> QED  BY <1>0, <2>1, <3>2, AppendProperties DEF TypeInv
  <2>3. cur_start_loc' \in Nat /\ cur_cl' \in {0, 1}
    BY <1>0, <2>1 DEF TypeInv
  <2>4. recv_reqs' \in Seq(T)
    <3> HIDE DEF T
    <3> QED  BY <1>0, <2>1
  <2> QED  BY <1>0, <2>1, <2>2, <2>3, <2>4 DEF TypeInv, batching, tokens
<1>7. CASE Prefill \/ Decode
  BY <1>0, <1>7 DEF TypeInv, Prefill, Decode, NextDecode, Goto, Places, batching, pool
<1>8. CASE PrefillRaises \/ DecodeRaises
  <2>1. /\ recv_reqs' = <<>> /\ place' = "return"
        /\ UNCHANGED <<batching, pool, tokens>>
    BY <1>8 DEF PrefillRaises, DecodeRaises, Raise, Goto
  <2>2. recv_reqs' \in Seq(T)
    <3> HIDE DEF T
    <3> QED  BY <1>0, <2>1
  <2> QED  BY <1>0, <2>1, <2>2 DEF TypeInv, Places, batching, pool, tokens
<1>9. CASE Finish
  <2>1. \A k \in 1 .. Len(micro_batches) : micro_batches[k] \in T
    <3> HIDE DEF T
    <3> QED  BY <1>0, ElementOfSeq
  <2>2. micro_batches' \in Seq(T)
    <3>1. micro_batches' \in [1 .. Len(micro_batches) -> T]
      <4>1. micro_batches' = [k \in 1 .. Len(micro_batches) |->
                IF Members(k) \cap finished # {} THEN <<>> ELSE micro_batches[k]]
        BY <1>9 DEF Finish, num_mb
      <4> HIDE DEF T
      <4> QED  BY <1>0, <2>1, <4>1
    <3>2. Len(micro_batches) \in Nat
      BY <1>0, LenProperties
    <3> HIDE DEF T
    <3> QED  BY <3>1, <3>2, FunctionIsSeq
  <2> QED  BY <1>0, <1>9, <2>2 DEF TypeInv, Finish, Goto, Places, pool, tokens
<1>10. CASE Flush
  <2>1. /\ micro_batches' \in {micro_batches, <<>>} /\ place' = "receive"
        /\ lines' \in {lines, <<>>} /\ cur_start_loc' \in {cur_start_loc, 0} /\ cur_cl' \in {cur_cl, 0}
        /\ UNCHANGED <<recv_reqs, forward_queue, unassigned, partitions, partitions_sums,
                       abort_requests, tokens>>
    BY <1>10 DEF Flush, Clear, Goto, pool
  <2>2. micro_batches' \in Seq(T)
    <3> HIDE DEF T
    <3> QED  BY <1>0, <2>1
  <2>3. lines' \in Seq([cpu : Nat, gpu : Nat]) /\ cur_start_loc' \in Nat /\ cur_cl' \in {0, 1}
    <3> DEFINE L == Seq([cpu : Nat, gpu : Nat])
    <3>1. <<>> \in L /\ lines \in L
      BY <1>0, EmptySeq DEF TypeInv
    <3>2. cur_start_loc \in Nat /\ cur_cl \in {0, 1}
      BY <1>0 DEF TypeInv
    <3> HIDE DEF L
    <3>3. lines' \in L
      BY <2>1, <3>1
    <3>4. cur_start_loc' \in Nat /\ cur_cl' \in {0, 1}
      BY <2>1, <3>2
    <3> QED  BY <3>3, <3>4 DEF L
  <2> QED  BY <1>0, <2>1, <2>2, <2>3 DEF TypeInv, Places, tokens
<1>11. CASE Return
  BY <1>0, <1>11 DEF TypeInv, Return, Goto, Places, batching, pool, tokens
<1>12. CASE UNCHANGED vars
  BY <1>0, <1>12 DEF TypeInv, vars, batching, pool, tokens
<1> QED  BY <1>1, <1>2, <1>3, <1>4, <1>5, <1>6, <1>7, <1>8, <1>9, <1>10, <1>11, <1>12 DEF Next, Serve

LEMMA PlaceNext == IInv /\ [Next]_vars => PlaceInv'
<1> SUFFICES ASSUME IInv, [Next]_vars PROVE PlaceInv'
  OBVIOUS
<1>0. /\ TypeInv /\ PlaceInv /\ TypeInv'
      /\ num_mb \in Nat /\ Len(lines) \in Nat /\ Len(partitions) \in Nat
      /\ lines = <<>> <=> Len(lines) = 0
      /\ partitions = <<>> <=> Len(partitions) = 0
  <2>1. TypeInv /\ PlaceInv /\ TypeInv'
    BY TypeNext DEF IInv
  <2>2. micro_batches \in Seq(Seq(Requests)) /\ partitions \in Seq(Seq(Requests))
        /\ lines \in Seq([cpu : Nat, gpu : Nat])
    BY <2>1 DEF TypeInv
  <2>3. num_mb \in Nat /\ Len(partitions) \in Nat /\ Len(lines) \in Nat
    BY <2>2, LenProperties DEF num_mb
  <2>4. /\ lines = <<>> <=> Len(lines) = 0
        /\ partitions = <<>> <=> Len(partitions) = 0
    BY <2>2, EmptySeq
  <2> QED  BY <2>1, <2>3, <2>4
<1>1. CASE Step
  BY <1>0, <1>1 DEF PlaceInv, Step, Goto, Running, num_mb, num_decode_steps, batching, pool, tokens
<1>2. CASE Receive
  BY <1>0, <1>2 DEF PlaceInv, Receive, Goto, Running, num_mb, num_decode_steps, pool
<1>3. CASE Create
  <2>1. CASE Len(forward_queue) < ubs
    <3>1. num_mb' = 1 /\ Len(lines') = 0 /\ place' = "allocate" /\ forward_queue' = <<>>
          /\ unassigned' = <<>> /\ partitions' = <<>>
      BY <1>3, <2>1 DEF Create, EmptyQueue, Goto, num_mb
    <3> QED  BY <3>1 DEF PlaceInv, Running
  <2>2. CASE ~ (Len(forward_queue) < ubs)
    <3>1. micro_batches' = <<>> /\ lines' = <<>> /\ place' = "assign" /\ forward_queue' = <<>>
          /\ partitions' = [i \in 1 .. n_ub |-> <<>>]
      BY <1>3, <2>2 DEF Create, EmptyQueue, Goto
    <3>2. num_mb' = 0 /\ Len(partitions') = n_ub
      BY <3>1 DEF num_mb
    <3> QED  BY <3>1, <3>2 DEF PlaceInv, Running
  <2> QED  BY <2>1, <2>2
<1>4. CASE Assign
  <2>1. place = "assign" /\ place' = "assign" /\ lines' = lines /\ forward_queue' = forward_queue
    BY <1>4 DEF Assign, pool
  <2>2. num_mb' + Len(partitions') = num_mb + Len(partitions)
    <3>1. CASE UNCHANGED <<partitions, micro_batches>>
      BY <3>1 DEF num_mb
    <3>2. ASSUME NEW r, NEW p \in 1 .. Len(partitions), Put(r, p),
                 ~ UNCHANGED <<partitions, micro_batches>>
          PROVE  num_mb' + Len(partitions') = num_mb + Len(partitions)
      <4> DEFINE T == Seq(Requests)
      <4>1. partitions \in Seq(T) /\ micro_batches \in Seq(T)
        BY <1>0 DEF TypeInv
      <4> HIDE DEF T
      <4>2. CASE Len(partitions[p]) + 1 = ubs
        <5>1. /\ micro_batches' = Append(micro_batches, Append(partitions[p], r))
              /\ partitions' = RemoveAt(partitions, p)
          BY <3>2, <4>2 DEF Put, TakeOff
        <5>2. Len(partitions') = Len(partitions) - 1
          BY <4>1, <5>1, RemoveAtProperties
        <5>3. num_mb' = num_mb + 1
          BY <4>1, <5>1 DEF num_mb
        <5> QED  BY <1>0, <5>2, <5>3
      <4>3. CASE Len(partitions[p]) + 1 # ubs
        <5>1. /\ micro_batches' = micro_batches
              /\ partitions' = [partitions EXCEPT ![p] = Append(@, r)]
          BY <3>2, <4>3 DEF Put
        <5>2. Len(partitions') = Len(partitions)
          BY <4>1, <5>1
        <5> QED  BY <5>1, <5>2 DEF num_mb
      <4> QED  BY <4>2, <4>3
    <3> QED  BY <1>4, <3>1, <3>2 DEF Assign, Abort
  <2>3. num_mb' \in Nat /\ Len(partitions') \in Nat
    <3>1. micro_batches' \in Seq(Seq(Requests)) /\ partitions' \in Seq(Seq(Requests))
      BY <1>0 DEF TypeInv
    <3> QED  BY <3>1, LenProperties DEF num_mb
  <2> QED  BY <1>0, <2>1, <2>2, <2>3 DEF PlaceInv, Running
<1>5. CASE EndAssign
  <2>1. num_mb' = num_mb + Len(partitions)
    <3> DEFINE T == Seq(Requests)
    <3>1. partitions \in Seq(T) /\ micro_batches \in Seq(T) /\ micro_batches' = micro_batches \o partitions
      BY <1>0, <1>5 DEF TypeInv, EndAssign
    <3> HIDE DEF T
    <3> QED  BY <3>1, ConcatProperties DEF num_mb
  <2> QED  BY <1>0, <1>5, <2>1 DEF PlaceInv, EndAssign, Running, Goto, pool
<1>6. CASE Allocate
  <2>1. Len(lines') = Len(lines) + 1
    BY <1>0, <1>6 DEF Allocate, alloc_cpu, TypeInv
  <2>2. /\ place = "allocate" /\ Len(lines) < num_mb /\ UNCHANGED <<batching, tokens>>
        /\ \/ place' = "return" /\ recv_reqs' = <<>>
           \/ place' = (IF Len(lines) + 1 = num_mb THEN "prefill" ELSE "allocate")
    BY <1>6 DEF Allocate, Raise, Goto
  <2> QED  BY <1>0, <2>1, <2>2 DEF PlaceInv, Running, num_mb, batching, tokens
<1>7. CASE Prefill \/ Decode
  BY <1>0, <1>7 DEF PlaceInv, Prefill, Decode, NextDecode, Goto, Running, num_mb, num_decode_steps, batching, pool
<1>8. CASE PrefillRaises \/ DecodeRaises
  BY <1>0, <1>8 DEF PlaceInv, PrefillRaises, DecodeRaises, Raise, Goto, Running, num_mb, batching, pool, tokens
<1>9. CASE Finish
  <2>1. num_mb' = num_mb
    <3>1. micro_batches' = [k \in 1 .. num_mb |->
            IF Members(k) \cap finished # {} THEN <<>> ELSE micro_batches[k]]
      BY <1>9 DEF Finish
    <3>2. micro_batches' \in Seq(Seq(Requests)) /\ DOMAIN micro_batches' = 1 .. num_mb
      BY <1>0, <3>1 DEF TypeInv
    <3> DEFINE m == micro_batches'
               n == num_mb
    <3>3. m \in Seq(Seq(Requests)) /\ DOMAIN m = 1 .. n /\ n \in Nat
      BY <1>0, <3>2
    <3> HIDE DEF m, n
    <3>4. Len(m) = n
      BY <3>3, LenProperties
    <3> QED  BY <3>4 DEF m, n, num_mb
  <2> QED  BY <1>0, <1>9, <2>1 DEF PlaceInv, Finish, Goto, Running, pool, tokens
<1>10. CASE Flush
  <2>1. num_mb' \in {num_mb, 0}
    BY <1>10 DEF Flush, num_mb
  <2> QED  BY <1>0, <1>10, <2>1 DEF PlaceInv, Flush, Goto, Running, tokens
<1>11. CASE Return
  BY <1>0, <1>11 DEF PlaceInv, Return, Goto, Running, num_mb, batching, pool, tokens
<1>12. CASE UNCHANGED vars
  BY <1>0, <1>12 DEF PlaceInv, vars, Running, num_mb, num_decode_steps, batching, pool, tokens
<1> QED  BY <1>1, <1>2, <1>3, <1>4, <1>5, <1>6, <1>7, <1>8, <1>9, <1>10, <1>11, <1>12 DEF Next, Serve

\* The halves alternate with the lines.
LEMMA HalfOf ==
  ASSUME NEW q \in Nat, NEW c \in Nat \ {0}, NEW e \in {0, 1}
  PROVE  (q * (2 * c) + e * c) % (2 * c) = e * c
<1> DEFINE d == 2 * c
           x == e * c
           a == q * d + x
           p == a \div d
           y == a % d
<1>1. d \in Nat \ {0} /\ x \in Nat /\ x < d
  BY Z3
<1> HIDE DEF d, x
<1>2. a \in Nat
  BY <1>1
<1>3. a = p * d + y /\ p \in Nat /\ y \in Nat /\ y < d
  <2> HIDE DEF a
  <2> QED  BY <1>1, <1>2
<1>4. p = q
  <2> HIDE DEF p, y
  <2>1. q * d + x = p * d + y
    BY <1>3
  <2>2. ASSUME p < q PROVE FALSE
    <3>1. (p + 1) * d <= q * d
      BY <1>1, <1>3, <2>2
    <3>2. (p + 1) * d = p * d + d
      BY <1>1, <1>3
    <3>3. p * d \in Nat /\ q * d \in Nat
      BY <1>1, <1>3
    <3> QED  BY <1>1, <1>3, <2>1, <3>1, <3>2, <3>3
  <2>3. ASSUME q < p PROVE FALSE
    <3>1. (q + 1) * d <= p * d
      BY <1>1, <1>3, <2>3
    <3>2. (q + 1) * d = q * d + d
      BY <1>1, <1>3
    <3>3. p * d \in Nat /\ q * d \in Nat
      BY <1>1, <1>3
    <3> QED  BY <1>1, <1>3, <2>1, <3>1, <3>2, <3>3
  <2> QED  BY <1>3, <2>2, <2>3
<1>5. x = y
  <2> HIDE DEF p, y
  <2>1. q * d + x = q * d + y /\ q * d \in Nat
    BY <1>1, <1>3, <1>4
  <2> QED  BY <1>1, <1>3, <2>1
<1> QED  BY <1>5 DEF x, d

LEMMA PoolNext == IInv /\ [Next]_vars => PoolInv'
<1> SUFFICES ASSUME IInv, [Next]_vars PROVE PoolInv'
  OBVIOUS
<1>0. TypeInv /\ PoolInv /\ Len(lines) \in Nat
  BY LenProperties DEF IInv, TypeInv
<1>1. CASE UNCHANGED pool
  BY <1>0, <1>1 DEF PoolInv, OffloadReadsPrefill, pool
<1>2. CASE Create
  <2>1. Len(lines') = 0 /\ lines' = <<>> /\ UNCHANGED <<cur_start_loc, cur_cl>>
    BY <1>2 DEF Create
  <2> QED  BY <1>0, <2>1 DEF PoolInv, OffloadReadsPrefill
<1>3. CASE Flush /\ forward_queue = <<>>
  <2>1. Len(lines') = 0 /\ lines' = <<>> /\ cur_start_loc' = 0 /\ cur_cl' = 0
    BY <1>3 DEF Flush, Clear
  <2>2. cur_start_loc' = 0 * (2 * cache_line) + cur_cl' * cache_line
    BY <2>1
  <2> QED  BY <2>1, <2>2 DEF PoolInv, OffloadReadsPrefill
<1>4. CASE Allocate
  <2> DEFINE n == Len(lines)
             line == [cpu |-> cur_start_loc, gpu |-> cur_cl * cache_line]
  <2>1. PICK q \in Nat : cur_start_loc = q * (2 * cache_line) + cur_cl * cache_line
    BY <1>0 DEF PoolInv
  <2>2. lines' = Append(lines, line) /\ cur_start_loc' = cur_start_loc + cache_line
        /\ cur_cl' = (cur_cl + 1) % 2
    BY <1>4 DEF Allocate, alloc_cpu
  <2>3. cur_start_loc \in Nat /\ cur_cl \in {0, 1} /\ cache_line \in Nat \ {0}
    BY <1>0 DEF TypeInv
  <2>4. \E p \in Nat : cur_start_loc' = p * (2 * cache_line) + cur_cl' * cache_line
    <3>1. CASE cur_cl = 0
      <4>1. cur_cl' = 1 /\ cur_start_loc' = q * (2 * cache_line) + 1 * cache_line
        BY <2>1, <2>2, <2>3, <3>1
      <4> QED  BY <4>1
    <3>2. CASE cur_cl = 1
      <4>1. cur_cl' = 0 /\ cur_start_loc' = (q + 1) * (2 * cache_line) + 0 * cache_line
        BY <2>1, <2>2, <2>3, <3>2
      <4> QED  BY <4>1
    <3> QED  BY <2>3, <3>1, <3>2
  <2>5. line.gpu = line.cpu % (2 * cache_line) /\ line.cpu = cur_start_loc
    BY <2>1, <2>3, HalfOf
  <2>6. line \in [cpu : Nat, gpu : Nat]
    BY <2>3
  <2> HIDE DEF line
  <2>7. /\ Len(lines') = n + 1 /\ lines'[n + 1] = line
        /\ \A k \in 1 .. n : lines'[k] = lines[k]
    BY <1>0, <2>2, <2>6, AppendProperties DEF TypeInv
  <2>8. OffloadReadsPrefill'
    <3> SUFFICES ASSUME NEW k \in 1 .. n + 1
                 PROVE  lines'[k].gpu = lines'[k].cpu % (2 * cache_line)
      BY <2>7 DEF OffloadReadsPrefill
    <3>1. CASE k \in 1 .. n
      BY <1>0, <2>7, <3>1 DEF PoolInv, OffloadReadsPrefill
    <3>2. CASE k = n + 1
      BY <2>5, <2>7, <3>2
    <3> QED  BY <1>0, <3>1, <3>2
  <2>9. /\ \A k \in 1 .. Len(lines') : lines'[k].cpu = lines'[1].cpu + (k - 1) * cache_line
        /\ cur_start_loc' = lines'[1].cpu + Len(lines') * cache_line
    <3>1. CASE n = 0
      <4>1. lines'[1].cpu = cur_start_loc /\ Len(lines') = 1
        BY <2>5, <2>7, <3>1
      <4> QED  BY <2>2, <2>3, <4>1
    <3>2. CASE n # 0
      <4>1. /\ lines'[1] = lines[1] /\ lines[1].cpu \in Nat /\ n \in Nat
            /\ cur_start_loc = lines[1].cpu + n * cache_line
            /\ \A k \in 1 .. n : lines[k].cpu = lines[1].cpu + (k - 1) * cache_line
        <5>1. 1 \in 1 .. n /\ lines # <<>>
          BY <1>0, <3>2
        <5>2. lines[1] \in [cpu : Nat, gpu : Nat]
          BY <1>0, <5>1, ElementOfSeq DEF TypeInv
        <5> QED  BY <1>0, <2>7, <5>1, <5>2 DEF PoolInv
      <4>2. cur_start_loc' = lines[1].cpu + (n + 1) * cache_line
        <5> HIDE DEF n
        <5>1. (n + 1) * cache_line = n * cache_line + cache_line /\ n * cache_line \in Nat
          BY <2>3, <4>1
        <5> QED  BY <2>2, <2>3, <4>1, <5>1, SMTT(30)
      <4>3. lines'[n + 1].cpu = lines[1].cpu + ((n + 1) - 1) * cache_line
        <5>1. (n + 1) - 1 = n
          BY <1>0
        <5> QED  BY <2>5, <2>7, <4>1, <5>1
      <4>4. ASSUME NEW k \in 1 .. n + 1
            PROVE  lines'[k].cpu = lines[1].cpu + (k - 1) * cache_line
        <5>1. CASE k \in 1 .. n
          BY <2>7, <4>1, <5>1
        <5>2. CASE k = n + 1
          BY <4>3, <5>2
        <5> QED  BY <1>0, <5>1, <5>2
      <4> QED  BY <2>7, <4>1, <4>2, <4>4
    <3> QED  BY <3>1, <3>2
  <2> QED  BY <2>4, <2>8, <2>9 DEF PoolInv
<1>5. CASE Step \/ Receive \/ Assign \/ EndAssign \/ Prefill \/ PrefillRaises \/ Decode
           \/ DecodeRaises \/ Finish \/ Return \/ UNCHANGED vars \/ (Flush /\ forward_queue # <<>>)
  <2>1. UNCHANGED pool
    BY <1>5 DEF Step, Receive, Assign, EndAssign, Prefill, PrefillRaises, Decode, DecodeRaises,
                Finish, Return, Flush, vars
  <2> QED  BY <1>1, <2>1
<1> QED  BY <1>2, <1>3, <1>4, <1>5 DEF Next, Serve

\* Every request put into a partition fits it, and the partition stays in a line.
LEMMA PutFits ==
  ASSUME IInv, NEW p \in 1 .. Len(partitions), NEW r \in Requests, Fits(r, p)
  PROVE  LET b == Append(partitions[p], r)
         IN  /\ b \in Seq(Requests) /\ Len(b) = Len(partitions[p]) + 1
             /\ partitions_sums[p] \in Nat /\ p \in 1 .. Len(partitions_sums)
             /\ Rooms(b) <= partitions_sums[p] + input_len[r] + Len(b) * gen_len
             /\ Rooms(b) <= cache_line
<1> DEFINE q == partitions[p]
           n == Len(q)
           b == Append(q, r)
           t == partitions_sums[p]
           m == input_len[r]
<1>1. q \in Seq(Requests) /\ n \in Nat /\ t \in Nat /\ p \in 1 .. Len(partitions_sums)
  <2> DEFINE T == Seq(Requests)
  <2>1. partitions \in Seq(T)
    BY DEF IInv, TypeInv
  <2>2. q \in T
    <3> HIDE DEF T
    <3> QED  BY <2>1, ElementOfSeq
  <2>3. p \in 1 .. Len(partitions_sums)
    BY DEF IInv, PartitionsInv
  <2>4. t \in Nat
    BY <2>3, ElementOfSeq DEF IInv, TypeInv
  <2> QED  BY <2>2, <2>3, <2>4, LenProperties
<1>2. b \in Seq(Requests) /\ Len(b) = n + 1
  BY <1>1, AppendProperties
<1>3. Rooms(b) = Rooms(q) + room(r) /\ Rooms(q) \in Nat
  BY <1>1, RoomsAppend
<1>4. room(r) = prompt(r) + gen_len /\ prompt(r) <= m /\ prompt(r) \in Nat /\ m \in Nat
      /\ gen_len \in Nat /\ cache_line \in Nat
  BY RoomType
<1>5. Rooms(q) <= t + n * gen_len
  BY DEF IInv, PartitionsInv
<1>6. t + m + (1 + n) * gen_len <= cache_line
  BY DEF Fits
<1> HIDE DEF q, n, b, t, m
<1>7. (1 + n) * gen_len = n * gen_len + gen_len /\ n * gen_len \in Nat /\ 1 + n = n + 1
  BY <1>1, <1>4
<1>8. Rooms(b) <= t + m + (n * gen_len + gen_len) /\ Rooms(b) <= cache_line
  BY <1>1, <1>3, <1>4, <1>5, <1>6, <1>7
<1> QED  BY <1>1, <1>2, <1>7, <1>8 DEF q, n, b, t, m

LEMMA PartitionsNext == IInv /\ [Next]_vars => PartitionsInv'
<1> SUFFICES ASSUME IInv, [Next]_vars PROVE PartitionsInv'
  OBVIOUS
<1> DEFINE T == Seq(Requests)
           Good(p, ps, ss) ==
             /\ Rooms(ps[p]) <= ss[p] + Len(ps[p]) * gen_len
             /\ Rooms(ps[p]) <= cache_line
<1>0. /\ PartitionsInv /\ partitions \in Seq(T) /\ partitions_sums \in Seq(Nat)
      /\ \A p \in 1 .. Len(partitions) : Good(p, partitions, partitions_sums)
      /\ Len(partitions) \in Nat /\ Len(partitions_sums) = Len(partitions)
  BY LenProperties DEF IInv, TypeInv, PartitionsInv
<1>1. CASE UNCHANGED <<partitions, partitions_sums>>
  BY <1>0, <1>1 DEF PartitionsInv
<1>2. CASE partitions' = <<>> /\ partitions_sums' = <<>>
  <2>1. Len(partitions') = 0 /\ Len(partitions_sums') = 0
    BY <1>2
  <2> QED  BY <2>1 DEF PartitionsInv
<1>3. CASE Create
  <2>1. CASE Len(forward_queue) < ubs
    BY <1>2, <1>3, <2>1 DEF Create
  <2>2. CASE ~ (Len(forward_queue) < ubs)
    <3>1. partitions' = [i \in 1 .. n_ub |-> <<>>] /\ partitions_sums' = [i \in 1 .. n_ub |-> 0]
      BY <1>3, <2>2 DEF Create
    <3>2. Len(partitions') = n_ub /\ Len(partitions_sums') = n_ub
      BY <3>1
    <3>3. ASSUME NEW p \in 1 .. n_ub PROVE Good(p, partitions', partitions_sums')
      <4>1. Rooms(partitions'[p]) = 0 /\ partitions_sums'[p] = 0 /\ Len(partitions'[p]) = 0
        BY <3>1, RoomsEmpty
      <4> QED  BY <4>1
    <3> QED  BY <3>2, <3>3 DEF PartitionsInv
  <2> QED  BY <2>1, <2>2
<1>4. CASE Assign
  <2>1. PICK i \in 1 .. Len(unassigned) :
          IF partitions = <<>> THEN Abort(unassigned[i])
          ELSE \E p \in 1 .. Len(partitions) :
                 /\ IsEmptiest(p)
                 /\ IF Fits(unassigned[i], p) THEN Put(unassigned[i], p)
                                              ELSE Abort(unassigned[i])
    BY <1>4 DEF Assign
  <2> DEFINE r == unassigned[i]
  <2>2. r \in Requests
    BY <2>1, ElementOfSeq DEF IInv, TypeInv
  <2> HIDE DEF r
  <2>3. CASE Abort(r)
    BY <1>1, <2>3 DEF Abort
  <2>4. ASSUME NEW p \in 1 .. Len(partitions), Fits(r, p), Put(r, p) PROVE PartitionsInv'
    <3> DEFINE b == Append(partitions[p], r)
               t == partitions_sums[p] + input_len[r]
    <3>1. /\ b \in T /\ Len(b) = Len(partitions[p]) + 1
          /\ partitions_sums[p] \in Nat /\ t \in Nat /\ p \in 1 .. Len(partitions_sums)
          /\ Rooms(b) <= t + Len(b) * gen_len /\ Rooms(b) <= cache_line
      BY <2>2, <2>4, PutFits, SMTT(30)
    <3>2. CASE Len(partitions[p]) + 1 = ubs
      <4>1. /\ partitions' = RemoveAt(partitions, p)
            /\ partitions_sums' = RemoveAt(partitions_sums, p)
        BY <2>4, <3>2 DEF Put, TakeOff
      <4>2. /\ Len(partitions') = Len(partitions) - 1
            /\ \A j \in 1 .. Len(partitions) - 1 :
                 partitions'[j] = IF j < p THEN partitions[j] ELSE partitions[j + 1]
        <5> HIDE DEF T
        <5> QED  BY <1>0, <4>1, RemoveAtProperties, ZenonT(40)
      <4>3. /\ Len(partitions_sums') = Len(partitions) - 1
            /\ \A j \in 1 .. Len(partitions) - 1 :
                 partitions_sums'[j] = IF j < p THEN partitions_sums[j] ELSE partitions_sums[j + 1]
        <5>1. /\ Len(partitions_sums') = Len(partitions_sums) - 1
              /\ \A j \in 1 .. Len(partitions_sums) - 1 :
                   partitions_sums'[j] = IF j < p THEN partitions_sums[j] ELSE partitions_sums[j + 1]
          <6> HIDE DEF T, Good
          <6> QED  BY <1>0, <3>1, <4>1, RemoveAtProperties, ZenonT(40)
        <5> QED  BY <1>0, <5>1
      <4>4. ASSUME NEW j \in 1 .. Len(partitions) - 1 PROVE Good(j, partitions', partitions_sums')
        <5>1. CASE j < p
          <6>1. j \in 1 .. Len(partitions)
            BY <1>0
          <6>2. partitions'[j] = partitions[j] /\ partitions_sums'[j] = partitions_sums[j]
            BY <4>2, <4>3, <5>1
          <6> QED  BY <1>0, <6>1, <6>2
        <5>2. CASE ~ (j < p)
          <6>1. j + 1 \in 1 .. Len(partitions)
            BY <1>0
          <6>2. partitions'[j] = partitions[j + 1] /\ partitions_sums'[j] = partitions_sums[j + 1]
            BY <4>2, <4>3, <5>2
          <6> QED  BY <1>0, <6>1, <6>2
        <5> QED  BY <5>1, <5>2
      <4> QED  BY <4>2, <4>3, <4>4 DEF PartitionsInv
    <3>3. CASE Len(partitions[p]) + 1 # ubs
      <4>1. partitions' = [partitions EXCEPT ![p] = b] /\ partitions_sums' = [partitions_sums EXCEPT ![p] = t]
        BY <2>4, <3>3 DEF Put
      <4> HIDE DEF b, t
      <4>2. /\ Len(partitions') = Len(partitions)
            /\ \A j \in 1 .. Len(partitions) : partitions'[j] = IF j = p THEN b ELSE partitions[j]
        <5> HIDE DEF T, Good
        <5> QED  BY <1>0, <3>1, <4>1, ExceptSeq
      <4>3. /\ Len(partitions_sums') = Len(partitions)
            /\ \A j \in 1 .. Len(partitions) :
                 partitions_sums'[j] = IF j = p THEN t ELSE partitions_sums[j]
        <5>1. /\ Len(partitions_sums') = Len(partitions_sums)
              /\ \A j \in 1 .. Len(partitions_sums) :
                   partitions_sums'[j] = IF j = p THEN t ELSE partitions_sums[j]
          <6> HIDE DEF T, Good
          <6> QED  BY <1>0, <3>1, <4>1, ExceptSeq
        <5> QED  BY <1>0, <5>1
      <4>4. ASSUME NEW j \in 1 .. Len(partitions) PROVE Good(j, partitions', partitions_sums')
        <5>1. CASE j = p
          BY <3>1, <4>2, <4>3, <5>1
        <5>2. CASE j # p
          BY <1>0, <4>2, <4>3, <5>2
        <5> QED  BY <5>1, <5>2
      <4> QED  BY <4>2, <4>3, <4>4 DEF PartitionsInv
    <3> QED  BY <3>2, <3>3
  <2> QED  BY <2>1, <2>3, <2>4 DEF r
<1>5. CASE EndAssign
  BY <1>2, <1>5 DEF EndAssign
<1>6. CASE Step \/ Receive \/ Allocate \/ Prefill \/ PrefillRaises \/ Decode \/ DecodeRaises
           \/ Finish \/ Flush \/ Return \/ UNCHANGED vars
  BY <1>1, <1>6 DEF Step, Receive, Allocate, Prefill, PrefillRaises, Decode, DecodeRaises, Finish,
                    Flush, Return, vars, batching
<1> QED  BY <1>3, <1>4, <1>5, <1>6 DEF Next, Serve

LEMMA AdmissionNext == IInv /\ [Next]_vars => AdmissionInv'
<1> SUFFICES ASSUME IInv, [Next]_vars PROVE AdmissionInv'
  OBVIOUS
<1> DEFINE T == Seq(Requests)
<1>0. AdmissionInv /\ micro_batches \in Seq(T) /\ partitions \in Seq(T) /\ num_mb \in Nat
  BY LenProperties DEF IInv, TypeInv, num_mb
<1>1. CASE UNCHANGED <<micro_batches, abort_requests>> /\ place' # "assign"
  BY <1>0, <1>1 DEF AdmissionInv, Greedy, Small, num_mb
<1>2. CASE Create
  <2>1. CASE Len(forward_queue) < ubs
    <3>1. micro_batches' = <<forward_queue>> /\ abort_requests' = {} /\ place' = "allocate"
      BY <1>2, <2>1 DEF Create, Goto
    <3>2. num_mb' = 1 /\ micro_batches'[1] = forward_queue
      BY <3>1 DEF num_mb
    <3> QED  BY <2>1, <3>1, <3>2 DEF AdmissionInv, Small
  <2>2. CASE ~ (Len(forward_queue) < ubs)
    <3>1. num_mb' = 0
      BY <1>2, <2>2 DEF Create, num_mb
    <3> QED  BY <3>1 DEF AdmissionInv, Greedy
  <2> QED  BY <2>1, <2>2
<1>3. CASE Assign
  <2>1. place = "assign" /\ place' = "assign" /\ Greedy
    BY <1>0, <1>3 DEF Assign, AdmissionInv
  <2>2. CASE UNCHANGED micro_batches
    BY <2>1, <2>2 DEF AdmissionInv, Greedy, num_mb
  <2>3. ASSUME NEW i \in 1 .. Len(unassigned), NEW p \in 1 .. Len(partitions),
               Fits(unassigned[i], p), Put(unassigned[i], p), ~ UNCHANGED micro_batches
        PROVE  AdmissionInv'
    <3> DEFINE r == unassigned[i]
               b == Append(partitions[p], r)
    <3>1. r \in Requests
      BY ElementOfSeq DEF IInv, TypeInv
    <3>2. b \in T /\ Rooms(b) <= cache_line
      BY <2>3, <3>1, PutFits
    <3>3. micro_batches' = Append(micro_batches, b)
      BY <2>3 DEF Put
    <3> HIDE DEF b, T
    <3>4. /\ num_mb' = num_mb + 1 /\ micro_batches'[num_mb + 1] = b
          /\ \A k \in 1 .. num_mb : micro_batches'[k] = micro_batches[k]
      BY <1>0, <3>2, <3>3, AppendProperties DEF num_mb
    <3>5. Greedy'
      <4> SUFFICES ASSUME NEW k \in 1 .. num_mb + 1 PROVE Rooms(micro_batches'[k]) <= cache_line
        BY <3>4 DEF Greedy
      <4>1. CASE k \in 1 .. num_mb
        BY <2>1, <3>4, <4>1 DEF Greedy
      <4>2. CASE k = num_mb + 1
        BY <3>2, <3>4, <4>2
      <4> QED  BY <1>0, <4>1, <4>2
    <3> QED  BY <3>5 DEF AdmissionInv
  <2> QED  BY <1>3, <2>2, <2>3 DEF Assign, Abort
<1>4. CASE EndAssign
  <2>1. /\ Greedy /\ micro_batches' = micro_batches \o partitions
        /\ \A p \in 1 .. Len(partitions) : Rooms(partitions[p]) <= cache_line
    BY <1>0, <1>4 DEF EndAssign, AdmissionInv, IInv, PartitionsInv
  <2> HIDE DEF T
  <2>2. /\ num_mb' = num_mb + Len(partitions) /\ Len(partitions) \in Nat
        /\ \A k \in 1 .. num_mb + Len(partitions) : micro_batches'[k] =
              IF k <= num_mb THEN micro_batches[k] ELSE partitions[k - num_mb]
    BY <1>0, <2>1, ConcatProperties, LenProperties DEF num_mb
  <2>3. Greedy'
    <3> SUFFICES ASSUME NEW k \in 1 .. num_mb + Len(partitions)
                 PROVE  Rooms(micro_batches'[k]) <= cache_line
      BY <2>2 DEF Greedy
    <3>1. CASE k <= num_mb
      <4>1. k \in 1 .. num_mb
        BY <1>0, <3>1
      <4>2. micro_batches'[k] = micro_batches[k]
        BY <2>2, <3>1
      <4> QED  BY <2>1, <4>1, <4>2 DEF Greedy
    <3>2. CASE ~ (k <= num_mb)
      <4>1. k - num_mb \in 1 .. Len(partitions)
        BY <1>0, <2>2, <3>2
      <4> QED  BY <2>1, <2>2, <3>2, <4>1
    <3> QED  BY <3>1, <3>2
  <2> QED  BY <2>3 DEF AdmissionInv
<1>5. CASE Finish
  <2>1. place' = "flush" /\ UNCHANGED abort_requests
    BY <1>5 DEF Finish, Goto
  <2>2. /\ num_mb' = num_mb
        /\ \A k \in 1 .. num_mb : micro_batches'[k] \in {<<>>, micro_batches[k]}
    <3> DEFINE m == [k \in 1 .. num_mb |->
                       IF Members(k) \cap finished # {} THEN <<>> ELSE micro_batches[k]]
    <3>1. micro_batches' = m
      BY <1>5 DEF Finish
    <3>2. \A k \in 1 .. num_mb : m[k] \in {<<>>, micro_batches[k]}
      OBVIOUS
    <3>3. Len(m) = num_mb
      <4>1. m \in [1 .. num_mb -> {m[k] : k \in 1 .. num_mb}]
        OBVIOUS
      <4> HIDE DEF m
      <4> QED  BY <1>0, <4>1, FunctionIsSeq
    <3> HIDE DEF m
    <3> QED  BY <3>1, <3>2, <3>3 DEF num_mb
  <2>3. ASSUME Greedy PROVE Greedy'
    <3> SUFFICES ASSUME NEW k \in 1 .. num_mb PROVE Rooms(micro_batches'[k]) <= cache_line
      BY <2>2 DEF Greedy
    <3>1. CASE micro_batches'[k] = <<>>
      BY <3>1, RoomsEmpty
    <3>2. CASE micro_batches'[k] = micro_batches[k]
      BY <2>3, <3>2 DEF Greedy
    <3> QED  BY <2>2, <3>1, <3>2
  <2>4. ASSUME Small PROVE Small'
    <3>1. micro_batches'[1] \in {<<>>, micro_batches[1]}
      BY <2>2, <2>4 DEF Small
    <3>2. Len(micro_batches'[1]) < ubs
      BY <2>4, <3>1 DEF Small
    <3> QED  BY <2>1, <2>2, <2>4, <3>2 DEF Small
  <2> QED  BY <1>0, <2>1, <2>3, <2>4 DEF AdmissionInv
<1>6. CASE Flush
  <2>1. place' = "receive" /\ UNCHANGED abort_requests
    BY <1>6 DEF Flush, Goto
  <2>2. CASE forward_queue = <<>>
    <3>1. num_mb' = 0
      BY <1>6, <2>2 DEF Flush, num_mb
    <3> QED  BY <3>1, <2>1 DEF AdmissionInv, Greedy
  <2>3. CASE forward_queue # <<>>
    BY <1>1, <1>6, <2>1, <2>3 DEF Flush
  <2> QED  BY <2>2, <2>3
<1>7. CASE Step \/ Receive \/ Allocate \/ Prefill \/ PrefillRaises \/ Decode \/ DecodeRaises \/ Return
  BY <1>1, <1>7 DEF Step, Receive, Allocate, Prefill, PrefillRaises, Decode, DecodeRaises, Return,
                    Raise, Goto, NextDecode, batching
<1>8. CASE UNCHANGED vars
  BY <1>0, <1>8 DEF vars, batching, AdmissionInv, Greedy, Small, num_mb
<1> QED  BY <1>2, <1>3, <1>4, <1>5, <1>6, <1>7, <1>8 DEF Next, Serve

\* The three sequences of batches of the engine, by the elements of each.
LEMMA Held ==
  /\ Queued = Elements(recv_reqs) /\ Live = Elements(micro_batches)
  /\ InPartitions = Elements(partitions)
  /\ Range(<<>>) = {} /\ Elements(<<>>) = {}
<1>1. Range(<<>>) = {} /\ Len(<<>>) = 0
  BY DEF Range
<1> QED  BY <1>1 DEF Queued, Live, Members, num_mb, InPartitions, Elements

\* Nothing enters the batch but what is queued, and nothing outside it is answered.
Moves ==
  /\ UNCHANGED sent
  /\ recv_reqs' = recv_reqs \/ recv_reqs' = <<>>
  /\ Range(forward_queue') \cup InBatch' \subseteq Range(forward_queue) \cup InBatch
  /\ Answered \subseteq Answered' /\ Answered' \subseteq Answered \cup InBatch

LEMMA CreateTakesQueue ==
  ASSUME IInv, Create
  PROVE  InBatch' \subseteq Range(forward_queue)
<1>1. abort_requests' = {}
  BY DEF Create
<1>2. InBatch' = Range(unassigned') \cup Elements(micro_batches') \cup abort_requests'
                   \cup Elements(partitions')
  BY DEF InBatch, Live, Members, num_mb, InPartitions, Elements
<1>3. CASE Len(forward_queue) < ubs
  <2>1. micro_batches' = <<forward_queue>> /\ unassigned' = <<>> /\ partitions' = <<>>
    BY <1>3 DEF Create
  <2>2. Elements(micro_batches') = Range(forward_queue)
    BY <2>1, ElementsSingle
  <2> QED  BY <1>1, <1>2, <2>1, <2>2, Held
<1>4. CASE ~ (Len(forward_queue) < ubs)
  <2>1. micro_batches' = <<>> /\ unassigned' = forward_queue
        /\ partitions' = [i \in 1 .. n_ub |-> <<>>]
    BY <1>4 DEF Create
  <2>2. \A r : r \notin Elements(partitions')
    <3>1. Len(partitions') = n_ub /\ \A i \in 1 .. n_ub : partitions'[i] = <<>>
      BY <2>1
    <3> QED  BY <3>1, InElements, Held
  <2> QED  BY <1>1, <1>2, <2>1, <2>2, Held
<1> QED  BY <1>3, <1>4

LEMMA ServeMoves == IInv /\ [Next]_vars /\ ~ Step /\ ~ Receive => Moves
<1> SUFFICES ASSUME IInv, [Next]_vars, ~ Step, ~ Receive PROVE Moves
  OBVIOUS
<1> DEFINE T == Seq(Requests)
<1>0. micro_batches \in Seq(T) /\ partitions \in Seq(T) /\ forward_queue \in T /\ unassigned \in T
  BY DEF IInv, TypeInv
<1>1. CASE UNCHANGED <<batching, sent, out_pyobjs, returned>> /\ recv_reqs' \in {recv_reqs, <<>>}
  BY <1>1 DEF Moves, batching, InBatch, Live, Members, num_mb, InPartitions, Answered
<1>2. CASE Create
  <2>1. /\ forward_queue' = <<>> /\ abort_requests' = {}
        /\ UNCHANGED <<recv_reqs, out_pyobjs, sent, returned>>
    BY <1>2 DEF Create, EmptyQueue
  <2>2. InBatch' \subseteq Range(forward_queue)
    BY <1>2, CreateTakesQueue
  <2> QED  BY <2>1, <2>2, Held DEF Moves, Answered
<1>3. CASE Assign
  <2>1. PICK i \in 1 .. Len(unassigned) :
          /\ unassigned' = RemoveAt(unassigned, i)
          /\ IF partitions = <<>> THEN Abort(unassigned[i])
             ELSE \E p \in 1 .. Len(partitions) :
                    /\ IsEmptiest(p)
                    /\ IF Fits(unassigned[i], p) THEN Put(unassigned[i], p)
                                                 ELSE Abort(unassigned[i])
    BY <1>3 DEF Assign
  <2> DEFINE r == unassigned[i]
  <2>2. /\ Range(unassigned') \subseteq Range(unassigned) /\ r \in Range(unassigned)
        /\ r \in Requests
    BY <1>0, <2>1, RangeRemoveAt, ElementOfSeq
  <2>3. UNCHANGED <<sent, recv_reqs, forward_queue, out_pyobjs, returned>>
    BY <1>3 DEF Assign
  <2> HIDE DEF r
  <2>4. abort_requests' \subseteq abort_requests \cup {r}
        /\ Elements(micro_batches') \cup Elements(partitions')
              \subseteq Elements(micro_batches) \cup Elements(partitions) \cup {r}
    <3>1. CASE Abort(r)
      BY <3>1 DEF Abort
    <3>2. ASSUME NEW p \in 1 .. Len(partitions), Put(r, p)
          PROVE  /\ abort_requests' = abort_requests
                 /\ Elements(micro_batches') \cup Elements(partitions')
                       \subseteq Elements(micro_batches) \cup Elements(partitions) \cup {r}
      <4> DEFINE b == Append(partitions[p], r)
      <4>1. partitions[p] \in T /\ Range(partitions[p]) \subseteq Elements(partitions)
        <5>1. Range(partitions[p]) \subseteq Elements(partitions)
          BY InElements
        <5> HIDE DEF T
        <5> QED  BY <1>0, <5>1, ElementOfSeq
      <4>2. b \in T /\ Range(b) = Range(partitions[p]) \cup {r}
        BY <2>2, <4>1, AppendProperties, RangeAppend
      <4>3. CASE Len(partitions[p]) + 1 = ubs
        <5>1. micro_batches' = Append(micro_batches, b) /\ partitions' = RemoveAt(partitions, p)
              /\ abort_requests' = abort_requests
          BY <3>2, <4>3 DEF Put, TakeOff
        <5> HIDE DEF b
        <5>2. Elements(micro_batches') = Elements(micro_batches) \cup Range(b)
          BY <1>0, <4>2, <5>1, ElementsAppend
        <5>3. Elements(partitions') \subseteq Elements(partitions)
          BY <1>0, <5>1, ElementsRemoveAt
        <5> QED  BY <4>1, <4>2, <5>1, <5>2, <5>3
      <4>4. CASE Len(partitions[p]) + 1 # ubs
        <5>1. micro_batches' = micro_batches /\ partitions' = [partitions EXCEPT ![p] = b]
              /\ abort_requests' = abort_requests
          BY <3>2, <4>4 DEF Put
        <5> HIDE DEF b
        <5>2. Elements(partitions') \subseteq Elements(partitions) \cup Range(b)
          BY <1>0, <4>2, <5>1, ElementsExcept
        <5> QED  BY <4>1, <4>2, <5>1, <5>2
      <4> QED  BY <4>3, <4>4
    <3> QED  BY <2>1, <3>1, <3>2 DEF r
  <2>5. InBatch' \subseteq InBatch
    <3>1. /\ InBatch = Range(unassigned) \cup Elements(micro_batches) \cup abort_requests
                         \cup Elements(partitions)
          /\ InBatch' = Range(unassigned') \cup Elements(micro_batches') \cup abort_requests'
                         \cup Elements(partitions')
      BY DEF InBatch, Live, Members, num_mb, InPartitions, Elements
    <3> QED  BY <2>2, <2>4, <3>1
  <2> QED  BY <2>3, <2>5 DEF Moves, Answered
<1>4. CASE EndAssign
  <2>1. /\ micro_batches' = micro_batches \o partitions /\ partitions' = <<>>
        /\ out_pyobjs' = out_pyobjs \cup abort_requests
        /\ UNCHANGED <<sent, recv_reqs, forward_queue, unassigned, abort_requests, returned>>
    BY <1>4 DEF EndAssign
  <2>2. Elements(micro_batches') = Elements(micro_batches) \cup Elements(partitions)
    BY <1>0, <2>1, ElementsConcat
  <2>3. /\ InBatch = Range(unassigned) \cup Elements(micro_batches) \cup abort_requests
                       \cup Elements(partitions)
        /\ InBatch' = Range(unassigned') \cup Elements(micro_batches') \cup abort_requests'
                       \cup Elements(partitions')
    BY DEF InBatch, Live, Members, num_mb, InPartitions, Elements
  <2> QED  BY <2>1, <2>2, <2>3, Held DEF Moves, Answered
<1>5. CASE Finish
  <2>1. /\ micro_batches' = [k \in 1 .. num_mb |->
              IF Members(k) \cap finished # {} THEN <<>> ELSE micro_batches[k]]
        /\ out_pyobjs' = out_pyobjs \cup (Live \cap finished)
        /\ UNCHANGED <<sent, recv_reqs, forward_queue, unassigned, partitions, abort_requests, returned>>
    BY <1>5 DEF Finish
  <2>2. Elements(micro_batches') \subseteq Elements(micro_batches)
    <3>1. DOMAIN micro_batches' = 1 .. num_mb
          /\ \A k \in 1 .. num_mb : micro_batches'[k] \in {<<>>, micro_batches[k]}
      BY <2>1
    <3>2. Len(micro_batches') = num_mb
      <4> DEFINE m == micro_batches'
                 n == num_mb
      <4>1. m \in Seq(Seq(Requests)) /\ DOMAIN m = 1 .. n /\ n \in Nat
        BY <1>0, <3>1, TypeNext, LenProperties DEF TypeInv, num_mb
      <4> HIDE DEF m, n
      <4>2. Len(m) = n
        BY <4>1, LenProperties
      <4> QED  BY <4>2 DEF m, n
    <3>3. ASSUME NEW r \in Elements(micro_batches') PROVE r \in Elements(micro_batches)
      <4>1. PICK k \in 1 .. num_mb : r \in Range(micro_batches'[k])
        BY <3>2, InElements
      <4>2. r \in Range(micro_batches[k])
        BY <3>1, <4>1, Held
      <4> QED  BY <4>2, InElements DEF num_mb
    <3> QED  BY <3>3
  <2>3. /\ InBatch = Range(unassigned) \cup Elements(micro_batches) \cup abort_requests
                       \cup Elements(partitions)
        /\ InBatch' = Range(unassigned') \cup Elements(micro_batches') \cup abort_requests'
                       \cup Elements(partitions')
    BY DEF InBatch, Live, Members, num_mb, InPartitions, Elements
  <2>4. Live \subseteq InBatch
    BY DEF InBatch
  <2> QED  BY <2>1, <2>2, <2>3, <2>4 DEF Moves, Answered
<1>6. CASE Flush
  <2>1. /\ micro_batches' \in {micro_batches, <<>>}
        /\ UNCHANGED <<sent, recv_reqs, forward_queue, unassigned, partitions, abort_requests,
                       out_pyobjs, returned>>
    BY <1>6 DEF Flush
  <2>2. Elements(micro_batches') \subseteq Elements(micro_batches)
    BY <2>1, Held
  <2>3. /\ InBatch = Range(unassigned) \cup Elements(micro_batches) \cup abort_requests
                       \cup Elements(partitions)
        /\ InBatch' = Range(unassigned') \cup Elements(micro_batches') \cup abort_requests'
                       \cup Elements(partitions')
    BY DEF InBatch, Live, Members, num_mb, InPartitions, Elements
  <2> QED  BY <2>1, <2>2, <2>3 DEF Moves, Answered
<1>7. CASE Return
  BY <1>7 DEF Return, Moves, batching, InBatch, Live, Members, num_mb, InPartitions, Answered
<1>8. CASE Allocate \/ Prefill \/ PrefillRaises \/ Decode \/ DecodeRaises \/ UNCHANGED vars
  BY <1>1, <1>8 DEF Allocate, Prefill, PrefillRaises, Decode, DecodeRaises, Raise, vars
<1> QED  BY <1>2, <1>3, <1>4, <1>5, <1>6, <1>7, <1>8 DEF Next, Serve

\* Receiving: the first of the queued client batches becomes the forward queue.
LEMMA ReceiveMoves ==
  ASSUME IInv, Receive
  PROVE  /\ Range(forward_queue') = Range(Head(recv_reqs))
         /\ Queued = Range(forward_queue') \cup Queued'
         /\ Range(forward_queue') \cap Queued' = {}
         /\ \A i, j \in 1 .. Len(recv_reqs') :
              i # j => Range(recv_reqs'[i]) \cap Range(recv_reqs'[j]) = {}
         /\ UNCHANGED <<InBatch, Answered, sent>>
         /\ Range(forward_queue) = {}
<1> DEFINE T == Seq(Requests)
           h == Head(recv_reqs)
           t == Tail(recv_reqs)
<1>1. /\ place = "receive" /\ forward_queue' = forward_queue \o h /\ recv_reqs' = t
      /\ recv_reqs # <<>>
      /\ UNCHANGED <<unassigned, partitions, micro_batches, abort_requests, out_pyobjs, sent, returned>>
  BY DEF Receive
<1>2. recv_reqs \in Seq(T) /\ forward_queue = <<>>
  BY <1>1 DEF IInv, TypeInv, PlaceInv
<1>3. h \in T /\ t \in Seq(T) /\ Len(t) = Len(recv_reqs) - 1 /\ Len(recv_reqs) \in Nat
      /\ h = recv_reqs[1] /\ \A i \in 1 .. Len(recv_reqs) - 1 : t[i] = recv_reqs[i + 1]
  <2> HIDE DEF T
  <2> QED  BY <1>1, <1>2, HeadTailProperties, LenProperties
<1>4. Elements(recv_reqs) = Range(h) \cup Elements(t)
  BY <1>1, <1>2, ElementsHeadTail
<1> HIDE DEF T, t
<1>5. forward_queue' = h
  <2>1. h \in Seq(Requests)
    BY <1>3 DEF T
  <2> HIDE DEF h
  <2> QED  BY <1>1, <1>2, <2>1
<1>6. \A i, j \in 1 .. Len(recv_reqs) : i # j => Range(recv_reqs[i]) \cap Range(recv_reqs[j]) = {}
  BY DEF IInv, ServiceInv
<1>7. Range(h) \cap Elements(t) = {}
  <2> SUFFICES ASSUME NEW r \in Range(h), r \in Elements(t) PROVE FALSE
    OBVIOUS
  <2>1. PICK i \in 1 .. Len(t) : r \in Range(t[i])
    BY InElements
  <2>2. i + 1 \in 1 .. Len(recv_reqs) /\ 1 \in 1 .. Len(recv_reqs) /\ i + 1 # 1
        /\ t[i] = recv_reqs[i + 1]
    BY <1>3, <2>1
  <2> QED  BY <1>3, <1>6, <2>1, <2>2
<1>8. \A i, j \in 1 .. Len(t) : i # j => Range(t[i]) \cap Range(t[j]) = {}
  <2> SUFFICES ASSUME NEW i \in 1 .. Len(t), NEW j \in 1 .. Len(t), i # j
               PROVE  Range(t[i]) \cap Range(t[j]) = {}
    OBVIOUS
  <2>1. i + 1 \in 1 .. Len(recv_reqs) /\ j + 1 \in 1 .. Len(recv_reqs) /\ i + 1 # j + 1
        /\ t[i] = recv_reqs[i + 1] /\ t[j] = recv_reqs[j + 1]
    BY <1>3
  <2> QED  BY <1>6, <2>1
<1>9. Queued' = Elements(t) /\ Queued = Elements(recv_reqs)
  BY <1>1 DEF Queued, Elements
<1>10. UNCHANGED <<InBatch, Answered, sent>>
  BY <1>1 DEF InBatch, Live, Members, num_mb, InPartitions, Answered
<1> QED  BY <1>1, <1>2, <1>4, <1>5, <1>7, <1>8, <1>9, <1>10, Held

\* A step takes client batches of requests never seen before.
LEMMA StepMoves ==
  ASSUME IInv, Step
  PROVE  /\ Queued' \cap sent = {} /\ sent \cup Queued' \subseteq sent'
         /\ \A i, j \in 1 .. Len(recv_reqs') :
              i # j => Range(recv_reqs'[i]) \cap Range(recv_reqs'[j]) = {}
         /\ UNCHANGED <<forward_queue, InBatch, Answered>>
<1>1. PICK n \in 1 .. MaxStepBatches : \E ss \in [1 .. n -> Sends] :
        /\ \A i \in 1 .. n : Range(ss[i]) \cap sent = {}
        /\ \A i, j \in 1 .. n : i # j => Range(ss[i]) \cap Range(ss[j]) = {}
        /\ recv_reqs' = ss
        /\ sent' = sent \cup UNION {Range(ss[i]) : i \in 1 .. n}
  BY DEF Step
<1>2. n \in Nat /\ recv_reqs' \in [1 .. n -> Sends]
  BY <1>1
<1>3. Len(recv_reqs') = n
  BY <1>2, FunctionIsSeq
<1>4. Queued' = UNION {Range(recv_reqs'[i]) : i \in 1 .. n}
  BY <1>3 DEF Queued
<1>5. UNCHANGED <<forward_queue, InBatch, Answered>>
  BY DEF Step, batching, InBatch, Live, Members, num_mb, InPartitions, Answered
<1>6. /\ \A i \in 1 .. n : Range(recv_reqs'[i]) \cap sent = {}
      /\ \A i, j \in 1 .. n : i # j => Range(recv_reqs'[i]) \cap Range(recv_reqs'[j]) = {}
      /\ sent' = sent \cup UNION {Range(recv_reqs'[i]) : i \in 1 .. n}
  BY <1>1
<1>7. Queued' \cap sent = {} /\ sent' = sent \cup Queued'
  BY <1>4, <1>6
<1> QED  BY <1>3, <1>5, <1>6, <1>7

LEMMA ServiceNext == IInv /\ [Next]_vars => ServiceInv'
<1> SUFFICES ASSUME IInv, [Next]_vars PROVE ServiceInv'
  OBVIOUS
<1>0. ServiceInv
  BY DEF IInv
<1>1. CASE Step
  BY <1>0, <1>1, StepMoves DEF ServiceInv
<1>2. CASE Receive
  BY <1>0, <1>2, ReceiveMoves DEF ServiceInv
<1>3. CASE ~ Step /\ ~ Receive
  <2>1. Moves
    BY <1>3, ServeMoves
  <2>2. CASE recv_reqs' = recv_reqs
    <3>1. Queued' = Queued
      BY <2>2 DEF Queued
    <3> QED  BY <1>0, <2>1, <2>2, <3>1 DEF Moves, ServiceInv
  <2>3. CASE recv_reqs' = <<>>
    <3>1. Queued' = {} /\ Len(recv_reqs') = 0
      BY <2>3 DEF Queued
    <3> QED  BY <1>0, <2>1, <3>1 DEF Moves, ServiceInv
  <2> QED  BY <2>1, <2>2, <2>3 DEF Moves
<1> QED  BY <1>1, <1>2, <1>3

THEOREM InvAlways == Spec => []IInv
<1>1. Init => IInv
  BY InitInv
<1>2. IInv /\ [Next]_vars => IInv'
  BY TypeNext, PlaceNext, PoolNext, PartitionsNext, AdmissionNext, ServiceNext DEF IInv
<1> QED  BY <1>1, <1>2, PTL DEF Spec
-----------------------------------------------------------------------------
(* The properties *)

\* The offload of a micro-batch reads the half of the GPU buffer its prefill
\* wrote: alloc_cpu, which counts halves, and store, which derives the half from
\* the CPU line, agree after any number of raised and flushed steps.
THEOREM OffloadReadsPrefillAlways == Spec => []OffloadReadsPrefill
<1>1. IInv => OffloadReadsPrefill
  BY DEF IInv, PoolInv
<1> QED  BY <1>1, InvAlways, PTL

\* The lines of the micro-batches that run, one after another.
LEMMA LinesOf ==
  ASSUME IInv, Running, NEW k \in 1 .. num_mb
  PROVE  /\ micro_batches[k] \in Seq(Requests) /\ num_mb \in Nat
         /\ lines[1].cpu \in Nat /\ lines[k].cpu \in Nat
         /\ lines[k].cpu = lines[1].cpu + (k - 1) * cache_line
<1>1. Len(lines) = num_mb /\ num_mb \in Nat /\ k \in 1 .. Len(lines) /\ 1 \in 1 .. Len(lines)
  BY LenProperties DEF IInv, TypeInv, PlaceInv, num_mb
<1>2. lines[k] \in [cpu : Nat, gpu : Nat] /\ lines[1] \in [cpu : Nat, gpu : Nat]
  BY <1>1, ElementOfSeq DEF IInv, TypeInv
<1>3. micro_batches[k] \in Seq(Requests)
  <2> DEFINE T == Seq(Requests)
  <2>1. micro_batches \in Seq(T) /\ k \in 1 .. Len(micro_batches)
    BY DEF IInv, TypeInv, num_mb
  <2> HIDE DEF T
  <2>2. micro_batches[k] \in T
    BY <2>1, ElementOfSeq
  <2> QED  BY <2>2 DEF T
<1>4. lines[k].cpu = lines[1].cpu + (k - 1) * cache_line
  BY <1>1 DEF IInv, PoolInv
<1> QED  BY <1>1, <1>2, <1>3, <1>4

\* A span ends before any span that starts at a later line.
LEMMA SpanEnds ==
  ASSUME IInv, Running, Greedy, NEW k \in 1 .. num_mb, NEW i \in 1 .. Len(micro_batches[k])
  PROVE  /\ lines[k].cpu + Before(micro_batches[k], i) + room(micro_batches[k][i])
              <= lines[k].cpu + cache_line
         /\ \A l \in 1 .. num_mb : k < l => lines[k].cpu + cache_line <= lines[l].cpu
<1> DEFINE b == micro_batches[k]
           s == lines[k].cpu
<1>1. b \in Seq(Requests) /\ s \in Nat
  BY LinesOf
<1>2. b[i] \in Requests /\ Before(b, i) \in Nat /\ Before(b, i) + room(b[i]) <= Rooms(b)
  BY <1>1, WithinRooms
<1>3. Rooms(b) <= cache_line /\ Rooms(b) \in Nat
  <2>1. Rooms(b) \in Nat
    BY <1>1, <1>2, RoomsAppend
  <2> QED  BY <2>1 DEF Greedy
<1>4. room(b[i]) \in Nat
  BY <1>2, RoomType
<1>5. ASSUME NEW l \in 1 .. num_mb, k < l PROVE s + cache_line <= lines[l].cpu
  <2> DEFINE z == lines[1].cpu
             x == (k - 1) * cache_line
             y == (l - 1) * cache_line
  <2>1. num_mb \in Nat
    BY LinesOf
  <2>2. k \in Nat /\ l \in Nat /\ k <= l - 1 /\ cache_line \in Nat
    BY <1>5, <2>1
  <2>3. s = z + x /\ z \in Nat
    BY LinesOf
  <2>4. lines[l].cpu = z + y
    BY LinesOf
  <2>5. k * cache_line <= y /\ x + cache_line = k * cache_line
    BY <2>2
  <2>6. x \in Int /\ y \in Int /\ k * cache_line \in Int
    BY <2>2
  <2> HIDE DEF s, x, y, z
  <2> QED  BY <2>2, <2>3, <2>4, <2>5, <2>6
<1>6. s + Before(b, i) + room(b[i]) <= s + cache_line
  <2> HIDE DEF b, s
  <2> QED  BY <1>1, <1>2, <1>3, <1>4
<1> QED  BY <1>5, <1>6

\* Two requests that run together share no place of the CPU pool, also after
\* steps that raised, and the key and value written in a round of decoding
\* (decode_out_cache_loc) lie within the request's own places.
THEOREM SpansApartAlways == Spec => []SpansApart
<1>1. ASSUME IInv, Running, NEW k \in 1 .. num_mb, NEW i \in 1 .. Len(micro_batches[k])
      PROVE  /\ micro_batches[k][i] \in Requests /\ Before(micro_batches[k], i) \in Nat
             /\ lines[k].cpu \in Nat /\ room(micro_batches[k][i]) \in Nat
             /\ micro_batches[k] \in Seq(Requests)
  <2>1. micro_batches[k] \in Seq(Requests) /\ lines[k].cpu \in Nat
    BY <1>1, LinesOf
  <2>2. micro_batches[k][i] \in Requests /\ Before(micro_batches[k], i) \in Nat
    BY <2>1, WithinRooms
  <2> QED  BY <2>1, <2>2, RoomType
<1>2. ASSUME IInv, Running, NEW k \in 1 .. num_mb, NEW l \in 1 .. num_mb,
             NEW i \in 1 .. Len(micro_batches[k]), NEW j \in 1 .. Len(micro_batches[l]),
             k < l \/ (k = l /\ i < j)
      PROVE  lines[k].cpu + Before(micro_batches[k], i) + room(micro_batches[k][i])
               <= lines[l].cpu + Before(micro_batches[l], j)
  <2>1. /\ Before(micro_batches[k], i) \in Nat /\ room(micro_batches[k][i]) \in Nat
        /\ lines[k].cpu \in Nat /\ lines[l].cpu \in Nat /\ Before(micro_batches[l], j) \in Nat
        /\ micro_batches[l] \in Seq(Requests)
    BY <1>1, <1>2
  <2>2. CASE k = l /\ i < j
    <3>1. Len(micro_batches[l]) \in Nat
      BY <2>1, LenProperties
    <3>2. j \in i + 1 .. Len(micro_batches[l]) + 1
      BY <2>2, <3>1
    <3> DEFINE s == lines[l].cpu
               x == Before(micro_batches[l], i)
               y == Before(micro_batches[l], j)
               m == room(micro_batches[l][i])
    <3>3. x + m <= y
      BY <2>1, <2>2, <3>2, BeforeGrows
    <3>4. s \in Nat /\ x \in Nat /\ y \in Nat /\ m \in Nat
      BY <2>1, <2>2
    <3>5. s + x + m <= s + y
      <4> HIDE DEF s, x, y, m
      <4> QED  BY <3>3, <3>4
    <3> QED  BY <2>2, <3>5
  <2>3. CASE k < l
    <3>1. num_mb # 1
      BY <2>3
    <3>2. Greedy
      BY <1>2, <3>1 DEF IInv, AdmissionInv, Small
    <3>3. /\ lines[k].cpu + Before(micro_batches[k], i) + room(micro_batches[k][i])
               <= lines[k].cpu + cache_line
          /\ lines[k].cpu + cache_line <= lines[l].cpu
      BY <1>2, <2>3, <3>2, SpanEnds
    <3> DEFINE c == lines[k].cpu
               x == Before(micro_batches[k], i)
               m == room(micro_batches[k][i])
               s == lines[l].cpu
               y == Before(micro_batches[l], j)
    <3>4. c + x + m <= c + cache_line /\ c + cache_line <= s
      BY <3>3
    <3>5. c \in Nat /\ x \in Nat /\ m \in Nat /\ s \in Nat /\ y \in Nat
      BY <2>1
    <3>6. c + x + m <= s + y
      <4> HIDE DEF c, x, m, s, y
      <4> QED  BY <3>4, <3>5
    <3> QED  BY <3>6
  <2> QED  BY <1>2, <2>2, <2>3
<1>3. ASSUME IInv, Running, place = "decode",
             NEW k \in 1 .. num_mb, NEW i \in 1 .. Len(micro_batches[k])
      PROVE  WriteAt(k, i, decode_step + 1) \in Span(k, i)
  <2> DEFINE r == micro_batches[k][i]
             start == lines[k].cpu + Before(micro_batches[k], i)
  <2>1. start \in Nat /\ r \in Requests
    BY <1>1, <1>3, SMTT(30)
  <2>2. prompt(r) \in Nat \ {0} /\ room(r) = prompt(r) + gen_len
    BY <2>1, RoomType
  <2>3. decode_step \in Nat /\ decode_step < num_decode_steps
    BY <1>3 DEF IInv, TypeInv, PlaceInv
  <2>4. decode_step <= gen_len - 1 /\ gen_len \in Nat
    BY <2>3 DEF num_decode_steps
  <2>5. WriteAt(k, i, decode_step + 1) = start + prompt(r) - 1 + (decode_step + 1)
    BY DEF WriteAt
  <2>6. Span(k, i) = start .. start + room(r) - 1
    BY DEF Span
  <2> HIDE DEF start, r
  <2> QED  BY <2>1, <2>2, <2>3, <2>4, <2>5, <2>6, SMTT(30)
<1>4. IInv => SpansApart
  <2> SUFFICES ASSUME IInv, Running, NEW k \in 1 .. num_mb, NEW l \in 1 .. num_mb,
                      NEW i \in 1 .. Len(micro_batches[k]), NEW j \in 1 .. Len(micro_batches[l])
               PROVE  /\ <<k, i>> # <<l, j>> => Span(k, i) \cap Span(l, j) = {}
                      /\ place = "decode" => WriteAt(k, i, decode_step + 1) \in Span(k, i)
    BY DEF SpansApart
  <2>1. ASSUME <<k, i>> # <<l, j>> PROVE Span(k, i) \cap Span(l, j) = {}
    <3> DEFINE c == lines[k].cpu
               x == Before(micro_batches[k], i)
               d == lines[l].cpu
               y == Before(micro_batches[l], j)
               s == c + x
               t == d + y
               m == room(micro_batches[k][i])
               n == room(micro_batches[l][j])
    <3>1. s \in Nat /\ t \in Nat /\ m \in Nat /\ n \in Nat
      <4>1. c \in Nat /\ x \in Nat /\ m \in Nat
        BY <1>1
      <4>2. d \in Nat /\ y \in Nat /\ n \in Nat
        BY <1>1
      <4> HIDE DEF c, x, d, y, m, n
      <4> QED  BY <4>1, <4>2
    <3>2. Span(k, i) = s .. s + m - 1 /\ Span(l, j) = t .. t + n - 1
      BY DEF Span
    <3>3. num_mb \in Nat
      BY LinesOf
    <3>4. Len(micro_batches[k]) \in Nat /\ Len(micro_batches[l]) \in Nat
      BY <1>1, LenProperties
    <3>5. k < l \/ l < k \/ (k = l /\ (i < j \/ j < i))
      BY <2>1, <3>3, <3>4
    <3>6. s + m <= t \/ t + n <= s
      BY <1>2, <3>5
    <3> HIDE DEF s, t, m, n
    <3> QED  BY <3>1, <3>2, <3>6
  <2> QED  BY <1>3, <2>1
<1> QED  BY <1>4, InvAlways, PTL

\* A batch has at most as many requests as places.
LEMMA FewerThanPlaces ==
  ASSUME NEW b \in Seq(Requests)
  PROVE  IsFiniteSet(Range(b)) /\ Cardinality(Range(b)) <= Len(b)
<1> DEFINE D == 1 .. Len(b)
           T == {b[i] : i \in D}
<1>1. Len(b) \in Nat /\ Range(b) = T
  BY LenProperties DEF Range
<1>2. IsFiniteSet(D) /\ Cardinality(D) = Len(b)
  <2>1. IsFiniteSet(1 .. Len(b)) /\ Cardinality(1 .. Len(b)) = IF 1 > Len(b) THEN 0 ELSE Len(b) - 1 + 1
    BY <1>1, FS_Interval, SMTT(30)
  <2> QED  BY <1>1, <2>1
<1>3. b \in Surjection(D, T)
  <2>1. b \in [D -> T]
    BY <1>1
  <2> QED  BY <2>1 DEF Surjection
<1> HIDE DEF D, T
<1>4. IsFiniteSet(T) /\ Cardinality(T) <= Cardinality(D)
  BY <1>2, <1>3, FS_Surjection
<1> QED  BY <1>1, <1>2, <1>4

\* What the greedy loop admits fits the pool: when the pool was clear, no line it
\* gave out is beyond the pool and no request is beyond its line.
THEOREM AdmittedFitsAlways == Spec => []AdmittedFits
<1>1. IInv => AdmittedFits
  <2> SUFFICES ASSUME IInv, Running, lines[1].cpu = 0,
                      Cardinality(Live \cup abort_requests) >= ubs, NEW k \in 1 .. num_mb
               PROVE  /\ lines[k].cpu + cache_line <= cpu_size
                      /\ \A i \in 1 .. Len(micro_batches[k]) :
                           Span(k, i) \subseteq lines[k].cpu .. lines[k].cpu + cache_line - 1
    BY DEF AdmittedFits
  <2>1. ASSUME Small PROVE FALSE
    <3>1. num_mb = 1 /\ abort_requests = {} /\ Len(micro_batches[1]) < ubs
      BY <2>1 DEF Small
    <3>2. micro_batches[1] \in Seq(Requests)
      BY <3>1, LinesOf
    <3>3. Live = Range(micro_batches[1])
      BY <3>1 DEF Live, Members
    <3>4. /\ IsFiniteSet(Range(micro_batches[1]))
          /\ Cardinality(Range(micro_batches[1])) <= Len(micro_batches[1])
      BY <3>2, FewerThanPlaces
    <3>5. Cardinality(Range(micro_batches[1])) \in Nat /\ Len(micro_batches[1]) \in Nat
      BY <3>2, <3>4, FS_CardinalityType, LenProperties
    <3>6. Live \cup abort_requests = Range(micro_batches[1])
      BY <3>1, <3>3
    <3> QED  BY <3>1, <3>4, <3>5, <3>6
  <2>2. Greedy
    BY <2>1 DEF IInv, AdmissionInv
  <2>3. lines[k].cpu = (k - 1) * cache_line /\ lines[k].cpu \in Nat /\ num_mb \in Nat
    <3>1. lines[k].cpu = 0 + (k - 1) * cache_line /\ num_mb \in Nat /\ lines[k].cpu \in Nat
      BY LinesOf
    <3> QED  BY <3>1
  <2>4. lines[k].cpu + cache_line <= cpu_size
    <3>1. num_mb <= n_ub /\ k <= n_ub /\ k \in Nat /\ n_ub \in Nat
      BY <2>3 DEF IInv, PlaceInv
    <3>2. (k - 1) * cache_line + cache_line = k * cache_line
      BY <3>1
    <3>3. k * cache_line <= n_ub * cache_line
      BY <3>1
    <3> QED  BY <2>3, <3>2, <3>3 DEF cpu_size
  <2>5. ASSUME NEW i \in 1 .. Len(micro_batches[k])
        PROVE  Span(k, i) \subseteq lines[k].cpu .. lines[k].cpu + cache_line - 1
    <3> DEFINE c == lines[k].cpu
               x == Before(micro_batches[k], i)
               m == room(micro_batches[k][i])
    <3>1. c + x + m <= c + cache_line
      BY <2>2, SpanEnds
    <3>2. micro_batches[k] \in Seq(Requests) /\ c \in Nat
      BY LinesOf
    <3>3. x \in Nat /\ m \in Nat
      BY <3>2, WithinRooms, RoomType
    <3>4. Span(k, i) = c + x .. c + x + m - 1
      BY DEF Span
    <3> HIDE DEF c, x, m
    <3>5. Span(k, i) \subseteq c .. c + cache_line - 1
      <4> SUFFICES ASSUME NEW z \in c + x .. c + x + m - 1 PROVE z \in c .. c + cache_line - 1
        BY <3>4
      <4> QED  BY <3>1, <3>2, <3>3, SMTT(30)
    <3> QED  BY <3>5 DEF c
  <2> QED  BY <2>4, <2>5
<1> QED  BY <1>1, InvAlways, PTL

\* What is waiting, by where the step is.
WaitingByPlace ==
  /\ place \in {"idle", "return"} => InService = {}
  /\ place \in {"receive", "create", "flush"} => InService = Queued \cup Range(forward_queue)
  /\ place \in {"assign", "allocate", "prefill", "decode", "finish"} =>
       InService = Queued \cup (InBatch \ out_pyobjs)

LEMMA Waiting == (IInv => WaitingByPlace) /\ (IInv' => WaitingByPlace')
<1>1. IInv => WaitingByPlace
  <2> SUFFICES ASSUME IInv PROVE WaitingByPlace
    OBVIOUS
  <2>1. CASE place \in {"idle", "return"}
    BY <2>1 DEF InService, WaitingByPlace
  <2>2. CASE place \in {"receive", "create", "flush"}
    BY <2>2 DEF InService, WaitingByPlace
  <2>3. CASE place \in {"assign", "allocate", "prefill", "decode", "finish"}
    <3>1. Range(forward_queue) = {}
      BY <2>3, Held DEF IInv, PlaceInv
    <3>2. InService = Queued \cup Range(forward_queue) \cup (InBatch \ out_pyobjs)
      BY <2>3 DEF InService
    <3> QED  BY <2>3, <3>1, <3>2 DEF WaitingByPlace
  <2> QED  BY <2>1, <2>2, <2>3 DEF WaitingByPlace
<1>2. IInv' => WaitingByPlace'
  BY <1>1, PTL
<1> QED  BY <1>1, <1>2

\* Every request is answered at most once, and only by the step that took it:
\* exposed_step implements StepService.
THEOREM StepImplementsService == Spec => ImplementsService
<1>1. Init => Service!Init
  <2> SUFFICES ASSUME Init PROVE InService = {} /\ Answered = {}
    BY DEF Service!Init
  <2> QED  BY DEF Init, InService, Answered
<1>2. ASSUME IInv, IInv', [Next]_vars
      PROVE  [Service!Next]_<<InService, Answered>>
  <2> SUFFICES Service!Next \/ UNCHANGED <<InService, Answered>>
    OBVIOUS
  <2>0. place \in Places /\ place' \in Places
    BY <1>2 DEF IInv, TypeInv
  <2>1. CASE Step
    <3>1. place = "idle" /\ place' = "receive"
      BY <2>1 DEF Step, Goto
    <3>2. /\ InService = {} /\ forward_queue = <<>>
          /\ Answered \subseteq sent /\ InService' = Queued' \cup Range(forward_queue')
      <4>1. InService' = Queued' \cup Range(forward_queue')
        BY <1>2, <3>1, Waiting DEF WaitingByPlace
      <4>2. InService = {}
        BY <1>2, <3>1, Waiting DEF WaitingByPlace
      <4> QED  BY <1>2, <3>1, <4>1, <4>2 DEF IInv, PlaceInv, ServiceInv
    <3>3. InService' = Queued' /\ Queued' \cap sent = {} /\ Answered' = Answered
      BY <1>2, <2>1, <3>2, StepMoves, Held
    <3> QED  BY <3>2, <3>3 DEF Service!Next, Service!Take
  <2>2. CASE Receive
    <3>1. place = "receive" /\ place' = "create"
      BY <2>2 DEF Receive, Goto
    <3>2. InService = Queued \cup Range(forward_queue)
      BY <1>2, <3>1, Waiting DEF WaitingByPlace
    <3>3. InService' = Queued' \cup Range(forward_queue')
      BY <1>2, <3>1, Waiting DEF WaitingByPlace
    <3> QED  BY <1>2, <2>2, <3>2, <3>3, ReceiveMoves
  <2>3. CASE ~ Step /\ ~ Receive
    <3>1. Moves
      BY <1>2, <2>3, ServeMoves
    <3>2. Queued' \subseteq Queued /\ Queued \cap (Range(forward_queue) \cup InBatch) = {}
      <4>1. Queued' = Queued \/ Queued' = {}
        <5>1. CASE recv_reqs' = recv_reqs
          BY <5>1 DEF Queued
        <5>2. CASE recv_reqs' = <<>>
          BY <5>2 DEF Queued
        <5> QED  BY <3>1, <5>1, <5>2 DEF Moves
      <4> QED  BY <1>2, <4>1 DEF IInv, ServiceInv
    <3>3. Answered \subseteq Answered'
      BY <3>1 DEF Moves
    <3>4. CASE Create
      <4>1. place = "create" /\ place' \in {"assign", "allocate"} /\ UNCHANGED <<out_pyobjs, returned>>
            /\ forward_queue' = <<>> /\ recv_reqs' = recv_reqs
        BY <3>4 DEF Create, Goto, EmptyQueue
      <4>2. InBatch' \subseteq Range(forward_queue)
        BY <1>2, <3>4, CreateTakesQueue
      <4>3. InService = Queued \cup Range(forward_queue)
        BY <1>2, <4>1, Waiting DEF WaitingByPlace
      <4>4. InService' = Queued' \cup (InBatch' \ out_pyobjs')
        BY <1>2, <4>1, Waiting DEF WaitingByPlace
      <4>5. Answered' = Answered
        BY <4>1 DEF Answered
      <4> QED  BY <3>2, <4>2, <4>3, <4>4, <4>5 DEF Service!Next, Service!Settle
    <3>5. CASE Assign \/ EndAssign \/ Allocate \/ Prefill \/ PrefillRaises \/ Decode \/ DecodeRaises \/ Finish
      <4>1. place \in {"assign", "allocate", "prefill", "decode", "finish"}
            /\ place' \notin {"idle", "receive", "create"} /\ returned' = returned
        BY <3>5 DEF Assign, EndAssign, Allocate, Prefill, PrefillRaises, Decode, DecodeRaises, Finish,
                    Goto, Raise, NextDecode
      <4>2. InService = Queued \cup (InBatch \ out_pyobjs) /\ Range(forward_queue) = {}
        <5>1. InService = Queued \cup (InBatch \ out_pyobjs)
          BY <1>2, <4>1, Waiting DEF WaitingByPlace
        <5>2. forward_queue = <<>>
          BY <1>2, <4>1 DEF IInv, PlaceInv
        <5> QED  BY <5>1, <5>2, Held
      <4>3. InBatch' \cup Range(forward_queue') \subseteq InBatch
        BY <3>1, <4>2 DEF Moves
      <4>4. forward_queue' = <<>> /\ Range(forward_queue') = {}
        <5>1. forward_queue' = <<>>
          BY <1>2, <4>1 DEF IInv, PlaceInv
        <5> QED  BY <5>1, Held
      <4>5. /\ InService' \subseteq Queued' \cup (InBatch' \ out_pyobjs')
            /\ Answered' \ Answered \subseteq InBatch \ out_pyobjs
            /\ Answered' \ Answered \subseteq out_pyobjs'
        <5>1. InService' \subseteq Queued' \cup (InBatch' \ out_pyobjs')
          <6>1. place' \in {"return", "flush", "assign", "allocate", "prefill", "decode", "finish"}
            BY <2>0, <4>1 DEF Places
          <6>2. CASE place' = "return"
            BY <1>2, <6>2, Waiting DEF WaitingByPlace
          <6>3. CASE place' = "flush"
            BY <1>2, <4>4, <6>3, Waiting DEF WaitingByPlace
          <6>4. CASE place' \in {"assign", "allocate", "prefill", "decode", "finish"}
            BY <1>2, <6>4, Waiting DEF WaitingByPlace
          <6> QED  BY <6>1, <6>2, <6>3, <6>4
        <5>2. Answered' \subseteq Answered \cup InBatch
          BY <3>1 DEF Moves
        <5> QED  BY <4>1, <5>1, <5>2 DEF Answered
      <4>6. out_pyobjs \subseteq out_pyobjs'
        BY <3>5 DEF Assign, EndAssign, Allocate, Prefill, PrefillRaises, Decode, DecodeRaises, Finish
      <4> QED  BY <3>2, <3>3, <4>2, <4>3, <4>5, <4>6 DEF Service!Next, Service!Settle
    <3>6. CASE Flush
      <4>1. place = "flush" /\ place' = "receive" /\ UNCHANGED <<forward_queue, recv_reqs, out_pyobjs, returned>>
        BY <3>6 DEF Flush, Goto
      <4>2. InService = Queued \cup Range(forward_queue)
        BY <1>2, <4>1, Waiting DEF WaitingByPlace
      <4>3. InService' = Queued' \cup Range(forward_queue')
        BY <1>2, <4>1, Waiting DEF WaitingByPlace
      <4>4. Answered' = Answered
        BY <4>1 DEF Answered
      <4> QED  BY <3>2, <4>1, <4>2, <4>3, <4>4 DEF Service!Next, Service!Settle
    <3>7. CASE Return
      <4>1. place' = "idle" /\ Answered' = Answered
        BY <3>7 DEF Return, Goto, Answered
      <4>2. InService' = {}
        BY <1>2, <4>1, Waiting DEF WaitingByPlace
      <4> QED  BY <4>1, <4>2 DEF Service!Next, Service!Settle
    <3>8. CASE UNCHANGED vars
      BY <3>8 DEF vars, batching, pool, InService, Answered, Queued, InBatch, InPartitions, Live, Members, num_mb
    <3> QED  BY <1>2, <2>3, <3>4, <3>5, <3>6, <3>7, <3>8 DEF Next, Serve
  <2> QED  BY <2>1, <2>2, <2>3
<1>3. Spec => []IInv
  BY InvAlways
<1> QED  BY <1>1, <1>2, <1>3, PTL DEF Spec, ImplementsService, Service!Spec
=============================================================================
