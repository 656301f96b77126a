------------------------ MODULE PrefillPipelineProofs ------------------------
(***************************************************************************)
(* The prefill loop for every number of layers and of micro-batches.  One  *)
(* wait of the main thread, for the copy of keys and values, keeps every   *)
(* stream within a turn of it: after the call of a turn's kv_copied        *)
(* nothing is left but that turn's MoE.  So the state is known from the    *)
(* call that was made last.                                                *)
(***************************************************************************)
EXTENDS PrefillPipeline, SequenceLemmas

-----------------------------------------------------------------------------
(* The order of the calls *)

N == NumLayers
End == Op("end", N, 0)
Start == Op("start", -1, num_mb - 1)

\* What is called after a turn's hidden states have gone out.
AfterHidden(n, k) ==
  IF k + 1 < num_mb
    THEN IF n > 0 THEN Op("load_hidden", n, k + 1) ELSE Op("layer", n, k + 1)
    ELSE IF n < N - 1 THEN Op("load_hidden", n + 1, 0) ELSE Op("prefetch", n + 1, 0)

\* The call after each call.
After(x) ==
  LET n == x.layer
      k == x.mb
  IN  CASE x.op = "start" -> Op("prefetch", 0, 0)
        [] x.op = "prefetch" -> IF n < N THEN Op("layer", n, 0) ELSE End
        [] x.op = "layer" -> Op(IF n = N - 1 THEN "sample" ELSE "offload_kv", n, k)
        [] x.op = "sample" -> Op("offload_kv", n, k)
        [] x.op = "offload_kv" -> Op("kv_copied", n, k)
        [] x.op = "kv_copied" -> IF num_mb = 1 THEN Op("prefetch", n + 1, 0)
                                 ELSE IF n < N - 1 THEN Op("offload_hidden", n, k)
                                 ELSE AfterHidden(n, k)
        [] x.op = "offload_hidden" -> AfterHidden(n, k)
        [] x.op = "load_hidden" -> Op(IF k > 0 THEN "layer" ELSE "prefetch", n, k)

\* The call that was made last.
Made == IF pos = 1 THEN Start ELSE Program[pos - 1]

\* The turn it belongs to: a layer and a micro-batch.
Turning(x) ==
  CASE x.op = "prefetch" -> <<x.layer - 1, num_mb - 1>>
    [] x.op = "load_hidden" -> IF x.mb > 0 THEN <<x.layer, x.mb - 1>>
                                           ELSE <<x.layer - 1, num_mb - 1>>
    [] OTHER -> <<x.layer, x.mb>>

\* The turns before and after.
Earlier(t) == IF t[2] > 0 THEN <<t[1], t[2] - 1>> ELSE <<t[1] - 1, num_mb - 1>>
Later(t) == IF t[2] + 1 < num_mb THEN <<t[1], t[2] + 1>> ELSE <<t[1] + 1, 0>>

Legal(x) ==
  CASE x.op = "start" -> x = Start
    [] x.op = "prefetch" -> x.layer \in 0 .. N /\ x.mb = 0
    [] x.op \in {"layer", "offload_kv", "kv_copied"} -> x.layer \in 0 .. N - 1 /\ x.mb \in MicroBatchIds
    [] x.op = "sample" -> x.layer = N - 1 /\ x.mb \in MicroBatchIds
    [] x.op = "offload_hidden" -> x.layer \in 0 .. N - 2 /\ x.mb \in MicroBatchIds /\ num_mb > 1
    [] x.op = "load_hidden" -> x.layer \in 1 .. N - 1 /\ x.mb \in MicroBatchIds /\ num_mb > 1
    [] OTHER -> FALSE

-----------------------------------------------------------------------------
(* The invariant, by the call m that was made last and its turn t *)

Its(op, t) == Op(op, t[1], t[2])

Copying(m) == m.op \in {"layer", "sample", "offload_kv"}    \* before kv_copied

\* Hidden states go out, or come in, in this turn.
GoesOut(t) == num_mb > 1 /\ t[1] \in 0 .. N - 2
ComesIn(t) == num_mb > 1 /\ t[1] \in 1 .. N - 1

TypeInv ==
  /\ first_page \in {0, 1}
  /\ pages \in [{0, 1} -> Int]
  /\ kv_data \in [{0, 1} -> Int \X Int]
  /\ kv_data_cpu \in [MicroBatchIds -> Int]
  /\ output \in [MicroBatchIds -> Int] /\ loaded \in [MicroBatchIds -> Int]
  /\ hidden_states_cpu \in [MicroBatchIds -> Int]

CallInv == pos \in 1 .. Len(Program) + 1 /\ Legal(Made)

\* The turn's attention has run.
Attended(t) == cur = <<>> \/ cur = <<Its("moe", t)>>

CurInv(m, t) ==
  IF Copying(m)
    THEN \/ Attended(t)
         \/ cur = <<Its("attention", t), Its("moe", t)>>
         \/ Earlier(t)[1] >= 0 /\ cur = <<Its("moe", Earlier(t)), Its("attention", t), Its("moe", t)>>
    ELSE cur = <<>> \/ (t[1] >= 0 /\ cur = <<Its("moe", t)>>)

\* Nothing, or a turn's hidden states, wait to go out.
Leaving(t) == offload = <<>> \/ (GoesOut(t) /\ offload = <<Its("offload_hidden", t)>>)

OffloadInv(m, t) ==
  /\ m.op \in {"layer", "sample"} => Leaving(Earlier(t))
  /\ m.op = "offload_kv" =>
       \/ offload = <<>> /\ Attended(t)
       \/ offload = <<Its("offload_kv", t)>>
       \/ /\ GoesOut(Earlier(t))
          /\ offload = <<Its("offload_hidden", Earlier(t)), Its("offload_kv", t)>>
  /\ m.op = "kv_copied" => offload = <<>>
  /\ m.op \notin {"layer", "sample", "offload_kv", "kv_copied"} => Leaving(t)

KVInv(m, t) ==
  /\ Copying(m) /\ Attended(t) => kv_data[t[2] % 2] = t
  /\ KVOffloaded

\* A turn's hidden states are loaded, or will be.
Loading(t) ==
  \/ load = <<>> /\ (ComesIn(t) => loaded[t[2]] \in {t[1] - 1, Clobbered})
  \/ load = <<Its("load_hidden", t)>> /\ ComesIn(t)

LoadInv(m, t) ==
  /\ Copying(m) => Loading(t) /\ (Attended(t) => load = <<>>)
  /\ m.op \in {"load_hidden", "prefetch"} => Loading(Later(t))
  /\ ~Copying(m) /\ m.op \notin {"load_hidden", "prefetch"} => load = <<>>

\* The row whose experts were prefetched last.
Fetched(m, t) == IF m.op = "prefetch" THEN m.layer ELSE t[1]

\* No layer's experts are on the page that the next layer takes.
PagesApart == \A p \in {0, 1}, n \in Nat : pages[p] = n => p = PageTaken(n)

PageInv(m, t) ==
  LET r == Fetched(m, t)
  IN  /\ gpu_page = PageTaken(r + 1)
      /\ r >= 1 => pages[PageTaken(r - 1)] = r - 1
      /\ \/ prefetch = <<>> /\ (r >= 0 => pages[PageTaken(r)] = r)
         \/ /\ prefetch # <<>> /\ prefetch = <<Head(prefetch)>>
            /\ Head(prefetch).layer = r /\ Head(prefetch).page = PageTaken(r)
            /\ m.op = "prefetch" \/ (Copying(m) /\ ~Attended(t) /\ t[2] = 0)
      /\ PagesApart

\* The last layer whose hidden states were sent out, for each micro-batch.
Sent(m, t, j) ==
  IF j < t[2] \/ (j = t[2] /\ m.op \in {"offload_hidden", "load_hidden", "prefetch"})
    THEN t[1] ELSE t[1] - 1

Out(t) == Its("offload_hidden", t) \in Range(offload)
Computed(t) == Its("moe", t) \in Range(cur) \/ output[t[2]] \in {t[1], Clobbered}

HiddenInv(m, t) ==
  \A j \in MicroBatchIds :
    LET s == <<Sent(m, t, j), j>>
    IN  GoesOut(s) /\ ~Out(s) => hidden_states_cpu[j] \in {s[1], Clobbered}

OutputInv(t) ==
  /\ t[1] >= 0 => Computed(t)
  /\ Out(Earlier(t)) => Computed(Earlier(t))

Inv(m, t) ==
  /\ CurInv(m, t) /\ OffloadInv(m, t) /\ KVInv(m, t) /\ LoadInv(m, t)
  /\ PageInv(m, t) /\ HiddenInv(m, t) /\ OutputInv(t)

IInv == TypeInv /\ CallInv /\ \E m \in {Made} : \E t \in {Turning(m)} : Inv(m, t)

-----------------------------------------------------------------------------
(* Program is the chain of calls that After describes *)

Names == {"start", "prefetch", "layer", "sample", "offload_kv", "kv_copied", "offload_hidden",
          "load_hidden", "end"}
Ops == [op : Names, layer : Int, mb : Int]

\* The sequences of calls that start with a and that b comes after.
Chains(a, b) ==
  {s \in Seq(Ops) : /\ s # <<>> /\ s[1] = a /\ After(s[Len(s)]) = b
                    /\ \A i \in 1 .. Len(s) - 1 : s[i + 1] = After(s[i])}

LEMMA OpFields ==
  ASSUME NEW op \in Names, NEW n \in Int, NEW k \in Int
  PROVE  /\ Op(op, n, k) \in Ops
         /\ Op(op, n, k).op = op /\ Op(op, n, k).layer = n /\ Op(op, n, k).mb = k
BY DEF Op, Ops

LEMMA ChainsLinked ==
  ASSUME NEW a, NEW b
  PROVE  Chains(a, b) = Linked(Ops, [x \in Ops |-> After(x)], a, b)
<1> DEFINE next == [x \in Ops |-> After(x)]
<1>1. ASSUME NEW s \in Seq(Ops), s # <<>>
      PROVE  /\ next[s[Len(s)]] = After(s[Len(s)])
             /\ \A i \in 1 .. Len(s) - 1 : next[s[i]] = After(s[i])
  <2>1. Len(s) \in Nat /\ Len(s) >= 1 /\ \A i \in 1 .. Len(s) : s[i] \in Ops
    BY <1>1, LenProperties, EmptySeq
  <2>2. Len(s) \in 1 .. Len(s) /\ \A i \in 1 .. Len(s) - 1 : i \in 1 .. Len(s)
    BY <2>1
  <2> QED BY <2>1, <2>2
<1> HIDE DEF next
<1>2. Chains(a, b) = Linked(Ops, next, a, b)
  BY <1>1 DEF Chains, Linked
<1> QED BY <1>2 DEF next

LEMMA ChainOne ==
  ASSUME NEW a \in Ops
  PROVE  <<a>> \in Chains(a, After(a))
<1> DEFINE next == [x \in Ops |-> After(x)]
<1>1. next[a] = After(a)
  OBVIOUS
<1> HIDE DEF next
<1>2. <<a>> \in Linked(Ops, next, a, next[a])
  BY LinkedOne
<1> QED BY <1>1, <1>2, ChainsLinked DEF next

LEMMA ChainConcat ==
  ASSUME NEW a, NEW b, NEW c, NEW s \in Chains(a, b), NEW t \in Chains(b, c)
  PROVE  s \o t \in Chains(a, c)
BY LinkedConcat, ChainsLinked

LEMMA ChainTwo ==
  ASSUME NEW a \in Ops, NEW b \in Ops, b = After(a)
  PROVE  <<a, b>> \in Chains(a, After(b))
<1> DEFINE next == [x \in Ops |-> After(x)]
<1>1. next[a] = After(a) /\ next[b] = After(b)
  OBVIOUS
<1> HIDE DEF next
<1>2. <<a, b>> \in Linked(Ops, next, a, next[b])
  BY <1>1, LinkedTwo
<1> QED BY <1>1, <1>2, ChainsLinked DEF next

\* A call that the code makes or leaves out.
LEMMA ChainOptional ==
  ASSUME NEW a, NEW b \in Ops, NEW c, NEW C \in BOOLEAN, NEW s \in Chains(a, IF C THEN b ELSE c),
         C => After(b) = c
  PROVE  s \o (IF C THEN <<b>> ELSE <<>>) \in Chains(a, c)
BY LinkedOptional, ChainsLinked

LEMMA Sizes == N \in Nat /\ N >= 2 /\ num_mb \in Nat /\ num_mb >= 1
BY PrefillAssumption DEF N

LEMMA TurnChain ==
  ASSUME NEW n \in 0 .. N - 1, NEW k \in MicroBatchIds
  PROVE  Turn(n, k) \in Chains(Op("layer", n, k), IF k + 1 < num_mb THEN Op("layer", n, k + 1)
                                                  ELSE Op("prefetch", n + 1, 0))
<1> DEFINE a == Op("layer", n, k)
           smp == Op("sample", n, k)
           kv == Op("offload_kv", n, k)
           copied == Op("kv_copied", n, k)
           hidden == Op("offload_hidden", n, k)
           end == IF k + 1 < num_mb THEN Op("layer", n, k + 1) ELSE Op("prefetch", n + 1, 0)
           late == n = N - 1
<1>0. /\ n \in Int /\ k \in Int /\ k + 1 \in Int /\ n + 1 \in Int /\ n <= N - 1 /\ n >= 0 /\ k >= 0
      /\ k + 1 <= num_mb /\ late \in BOOLEAN /\ NumLayers = N
  BY Sizes DEF MicroBatchIds, N
<1>1. /\ a \in Ops /\ a.op = "layer" /\ a.layer = n /\ a.mb = k
      /\ smp \in Ops /\ smp.op = "sample" /\ smp.layer = n /\ smp.mb = k
      /\ kv \in Ops /\ kv.op = "offload_kv" /\ kv.layer = n /\ kv.mb = k
      /\ copied \in Ops /\ copied.op = "kv_copied" /\ copied.layer = n /\ copied.mb = k
      /\ hidden \in Ops /\ hidden.op = "offload_hidden" /\ hidden.layer = n /\ hidden.mb = k
  BY <1>0 DEF Op, Ops, Names
<1> HIDE DEF a, smp, kv, copied, hidden
<1>2. /\ After(a) = (IF late THEN smp ELSE kv) /\ After(smp) = kv /\ After(kv) = copied
      /\ After(copied) = IF num_mb = 1 THEN Op("prefetch", n + 1, 0)
                         ELSE IF n < N - 1 THEN hidden ELSE AfterHidden(n, k)
      /\ After(hidden) = AfterHidden(n, k)
  BY <1>0, <1>1 DEF After, a, smp, kv, copied, hidden
<1>3. <<a>> \o (IF late THEN <<smp>> ELSE <<>>) \in Chains(a, kv)
  BY <1>0, <1>1, <1>2, ChainOne, ChainOptional
<1>4. <<a>> \o (IF late THEN <<smp>> ELSE <<>>) \o <<kv, copied>> \in Chains(a, After(copied))
  <2>1. <<kv, copied>> \in Chains(kv, After(copied))
    BY <1>1, <1>2, ChainTwo
  <2> QED BY <1>3, <2>1, ChainConcat
<1> DEFINE s == <<a>> \o (IF late THEN <<smp>> ELSE <<>>) \o <<kv, copied>>
           rest == IF num_mb > 1 THEN OffloadHidden(n, k) \o LoadHidden(n, k) ELSE <<>>
<1>5. Turn(n, k) = s \o rest
  BY <1>0 DEF Turn, a, smp, kv, copied
<1> HIDE DEF s
<1>6. s \o rest \in Chains(a, end)
  <2>1. s \in Chains(a, After(copied))
    BY <1>4 DEF s
  <2>2. CASE num_mb = 1
    <3>1. s \o <<>> = s
      BY <2>1, ConcatEmptySeq DEF Chains
    <3>2. After(copied) = end /\ rest = <<>>
      BY <1>0, <1>2, <2>2
    <3> QED BY <2>1, <3>1, <3>2
  <2>3. CASE num_mb # 1
    <3> DEFINE ld == IF k + 1 < num_mb THEN Op("load_hidden", n, k + 1)
                                         ELSE Op("load_hidden", n + 1, 0)
               loads == IF k + 1 < num_mb THEN n > 0 ELSE n < N - 1
               inner == OffloadHidden(n, k) \o LoadHidden(n, k)
    <3>0. num_mb > 1
      BY <2>3, Sizes
    <3>1. OffloadHidden(n, k) = (IF n < N - 1 THEN <<hidden>> ELSE <<>>)
          /\ LoadHidden(n, k) = (IF loads THEN <<ld>> ELSE <<>>)
      BY <1>0 DEF OffloadHidden, LoadHidden, hidden
    <3>2. s \o OffloadHidden(n, k) \in Chains(a, AfterHidden(n, k))
      <4>1. After(copied) = IF n < N - 1 THEN hidden ELSE AfterHidden(n, k)
        BY <1>2, <2>3
      <4> QED BY <1>0, <1>1, <1>2, <2>1, <3>1, <4>1, ChainOptional
    <3>3. AfterHidden(n, k) = IF loads THEN ld ELSE end
      BY <1>0 DEF AfterHidden
    <3>a. loads \in BOOLEAN
      <4>1. (n > 0) \in BOOLEAN /\ (n < N - 1) \in BOOLEAN
        OBVIOUS
      <4> QED BY <4>1
    <3>4. ld \in Ops /\ After(ld) = end
      <4>1. CASE k + 1 < num_mb
        <5>1. ld = Op("load_hidden", n, k + 1)
          BY <4>1
        <5> HIDE DEF ld
        <5>2. ld \in Ops /\ ld.op = "load_hidden" /\ ld.layer = n /\ ld.mb = k + 1
          BY <1>0, <5>1 DEF Op, Ops, Names
        <5> QED BY <1>0, <4>1, <5>2 DEF After
      <4>2. CASE ~(k + 1 < num_mb)
        <5>1. ld = Op("load_hidden", n + 1, 0)
          BY <4>2
        <5> HIDE DEF ld
        <5>2. ld \in Ops /\ ld.op = "load_hidden" /\ ld.layer = n + 1 /\ ld.mb = 0
          BY <1>0, <5>1 DEF Op, Ops, Names
        <5> QED BY <1>0, <4>2, <5>2 DEF After
      <4> QED BY <4>1, <4>2
    <3>5. (s \o OffloadHidden(n, k)) \o LoadHidden(n, k) \in Chains(a, end)
      <4> HIDE DEF end, loads, ld
      <4> QED BY <3>a, <3>1, <3>2, <3>3, <3>4, ChainOptional
    <3>6. (s \o OffloadHidden(n, k)) \o LoadHidden(n, k) = s \o inner
      <4>1. <<hidden>> \in Seq(Ops) /\ <<ld>> \in Seq(Ops) /\ <<>> \in Seq(Ops)
        <5> HIDE DEF ld
        <5> QED BY <1>1, <3>4, EmptySeq
      <4> HIDE DEF ld, loads
      <4>2. OffloadHidden(n, k) \in Seq(Ops) /\ LoadHidden(n, k) \in Seq(Ops)
        BY <3>1, <4>1
      <4> QED BY <2>1, <4>2, ConcatAssociative DEF Chains
    <3>7. rest = inner
      BY <3>0
    <3> HIDE DEF rest, inner
    <3> QED BY <3>5, <3>6, <3>7
  <2> QED BY <2>2, <2>3
<1> QED BY <1>5, <1>6 DEF a

\* A layer, all micro-batches of it.
LEMMA RowChain ==
  ASSUME NEW i \in 1 .. N
  PROVE  FlattenSeq([k \in 1 .. num_mb |-> Turn(i - 1, k - 1)])
           \in Chains(Op("layer", i - 1, 0), Op("prefetch", i, 0))
<1> DEFINE n == i - 1
           a == Op("layer", n, 0)
           end == Op("prefetch", n + 1, 0)
           next(k) == IF k < num_mb THEN Op("layer", n, k) ELSE end
           seqs == [k \in 1 .. num_mb |-> Turn(n, k - 1)]
           A == [k \in 1 .. num_mb |-> Chains(a, next(k))]
           T == Seq(Ops)
<1>0. n \in 0 .. N - 1 /\ n + 1 = i /\ num_mb \in Nat /\ num_mb >= 1
  BY Sizes
<1>1. ASSUME NEW k \in 1 .. num_mb PROVE seqs[k] \in Chains(Op("layer", n, k - 1), next(k))
  <2>1. k - 1 \in MicroBatchIds /\ (k - 1) + 1 = k
    BY <1>0 DEF MicroBatchIds
  <2>2. Turn(n, k - 1) \in Chains(Op("layer", n, k - 1), IF (k - 1) + 1 < num_mb
          THEN Op("layer", n, (k - 1) + 1) ELSE Op("prefetch", n + 1, 0))
    BY <1>0, <2>1, TurnChain
  <2> QED BY <2>1, <2>2
<1>2. seqs \in Seq(T) /\ Len(seqs) = num_mb
  <2>1. \A k \in 1 .. num_mb : seqs[k] \in T
    BY <1>1 DEF Chains
  <2>2. seqs = [k \in 1 .. num_mb |-> seqs[k]]
    OBVIOUS
  <2> HIDE DEF seqs, T
  <2> QED BY <1>0, <2>1, <2>2, FunctionIsSeq
<1>3. seqs[1] \in A[1]
  <2>1. 1 \in 1 .. num_mb /\ 1 - 1 = 0
    BY <1>0
  <2>2. A[1] = Chains(a, next(1))
    BY <2>1
  <2> HIDE DEF seqs, A, next
  <2> QED BY <1>1, <2>1, <2>2
<1>4. ASSUME NEW k \in 1 .. num_mb - 1, NEW s \in A[k] PROVE s \o seqs[k + 1] \in A[k + 1]
  <2>1. k \in 1 .. num_mb /\ k + 1 \in 1 .. num_mb /\ (k + 1) - 1 = k /\ k < num_mb
    BY <1>0
  <2>2. s \in Chains(a, Op("layer", n, k))
    BY <2>1
  <2>3. A[k + 1] = Chains(a, next(k + 1))
    BY <2>1
  <2> HIDE DEF seqs, A, next
  <2>4. seqs[k + 1] \in Chains(Op("layer", n, k), next(k + 1))
    BY <1>1, <2>1
  <2> QED BY <2>2, <2>3, <2>4, ChainConcat
<1>5. A[num_mb] = Chains(a, end)
  BY <1>0
<1>6. FlattenSeq(seqs) \in A[num_mb]
  <2>1. Len(seqs) # 0
    BY <1>0, <1>2
  <2> HIDE DEF seqs, A, T
  <2>2. FlattenSeq(seqs) \in A[Len(seqs)]
    BY <1>2, <1>3, <1>4, <2>1, FlattenIn
  <2> QED BY <1>2, <2>2
<1> QED BY <1>0, <1>5, <1>6

LEMMA ProgramChain == Program \in Chains(Op("prefetch", 0, 0), End)
<1> DEFINE row(i) == FlattenSeq([k \in 1 .. num_mb |-> Turn(i - 1, k - 1)]) \o <<Op("prefetch", i, 0)>>
           next(i) == IF i < N THEN Op("layer", i, 0) ELSE End
           a == Op("layer", 0, 0)
           seqs == [i \in 1 .. N |-> row(i)]
           A == [i \in 1 .. N |-> Chains(a, next(i))]
           T == Seq(Ops)
<1>0. N \in Nat /\ N >= 1 /\ N = NumLayers
  BY Sizes DEF N
<1>p. ASSUME NEW i \in 0 .. N
      PROVE  /\ Op("prefetch", i, 0) \in Ops /\ After(Op("prefetch", i, 0)) = next(i)
  <2> DEFINE p == Op("prefetch", i, 0)
  <2>1. p \in Ops /\ p.op = "prefetch" /\ p.layer = i /\ p.mb = 0
    BY <1>0 DEF Op, Ops, Names
  <2> HIDE DEF p
  <2>2. After(p) = next(i)
    BY <2>1 DEF After
  <2> QED BY <2>1, <2>2 DEF p
<1>1. ASSUME NEW i \in 1 .. N PROVE seqs[i] \in Chains(Op("layer", i - 1, 0), next(i))
  <2>1. i \in 0 .. N
    BY <1>0
  <2>2. <<Op("prefetch", i, 0)>> \in Chains(Op("prefetch", i, 0), next(i))
    <3> HIDE DEF next
    <3> QED BY <1>p, <2>1, ChainOne
  <2>3. row(i) \in Chains(Op("layer", i - 1, 0), next(i))
    <3> HIDE DEF next
    <3> QED BY <2>2, RowChain, ChainConcat
  <2> QED BY <2>3
<1>2. seqs \in Seq(T) /\ Len(seqs) = N
  <2>1. \A i \in 1 .. N : seqs[i] \in T
    BY <1>1 DEF Chains
  <2>2. seqs = [i \in 1 .. N |-> seqs[i]]
    OBVIOUS
  <2> HIDE DEF seqs, T
  <2> QED BY <1>0, <2>1, <2>2, FunctionIsSeq
<1>3. seqs[1] \in A[1]
  <2>1. 1 \in 1 .. N /\ 1 - 1 = 0
    BY <1>0
  <2>2. A[1] = Chains(a, next(1))
    BY <2>1
  <2> HIDE DEF seqs, A, next
  <2> QED BY <1>1, <2>1, <2>2
<1>4. ASSUME NEW i \in 1 .. N - 1, NEW s \in A[i] PROVE s \o seqs[i + 1] \in A[i + 1]
  <2>1. i \in 1 .. N /\ i + 1 \in 1 .. N /\ (i + 1) - 1 = i /\ i < N
    BY <1>0
  <2>2. s \in Chains(a, Op("layer", i, 0))
    BY <2>1
  <2>3. A[i + 1] = Chains(a, next(i + 1))
    BY <2>1
  <2> HIDE DEF seqs, A, next
  <2>4. seqs[i + 1] \in Chains(Op("layer", i, 0), next(i + 1))
    BY <1>1, <2>1
  <2> QED BY <2>2, <2>3, <2>4, ChainConcat
<1>5. A[N] = Chains(a, End)
  BY <1>0
<1>6. FlattenSeq(seqs) \in A[N]
  <2>1. Len(seqs) # 0
    BY <1>0, <1>2
  <2> HIDE DEF seqs, A, T
  <2>2. FlattenSeq(seqs) \in A[Len(seqs)]
    BY <1>2, <1>3, <1>4, <2>1, FlattenIn
  <2> QED BY <1>2, <2>2
<1>7. Program = <<Op("prefetch", 0, 0)>> \o FlattenSeq(seqs)
  BY <1>0 DEF Program
<1>8. <<Op("prefetch", 0, 0)>> \in Chains(Op("prefetch", 0, 0), a)
  <2>1. 0 \in 0 .. N /\ next(0) = a
    BY <1>0
  <2> HIDE DEF next, a
  <2> QED BY <1>p, <2>1, ChainOne
<1> HIDE DEF seqs, A, a
<1> QED BY <1>5, <1>6, <1>7, <1>8, ChainConcat

Turns == {<<n, k>> : n \in -1 .. N - 1, k \in MicroBatchIds}

LEMMA TurnParts ==
  ASSUME NEW t \in Turns
  PROVE  t[1] \in -1 .. N - 1 /\ t[2] \in MicroBatchIds /\ t = <<t[1], t[2]>>
         /\ t[1] \in Int /\ t[2] \in Int /\ t[1] >= -1 /\ t[1] < N /\ t[2] >= 0 /\ t[2] < num_mb
BY Sizes DEF Turns, MicroBatchIds

LEMMA TurningType ==
  ASSUME NEW x, Legal(x)
  PROVE  Turning(x) \in Turns
<1>1. num_mb - 1 \in MicroBatchIds /\ -1 \in -1 .. N - 1
  BY Sizes DEF MicroBatchIds
<1>2. CASE x.op = "start"
  <2>1. x.layer = -1 /\ x.mb = num_mb - 1
    BY <1>2, Sizes DEF Legal, Start, Op
  <2> QED BY <1>1, <1>2, <2>1 DEF Turning, Turns
<1>3. CASE x.op = "prefetch"
  <2>1. x.layer - 1 \in -1 .. N - 1
    BY <1>3, Sizes DEF Legal
  <2> QED BY <1>1, <1>3, <2>1 DEF Turning, Turns
<1>4. CASE x.op = "load_hidden"
  <2>1. x.layer \in 1 .. N - 1 /\ x.mb \in MicroBatchIds
    BY <1>4 DEF Legal
  <2>2. x.layer \in -1 .. N - 1 /\ x.layer - 1 \in -1 .. N - 1 /\ (x.mb > 0 => x.mb - 1 \in MicroBatchIds)
    BY <2>1, Sizes DEF MicroBatchIds
  <2> QED BY <1>1, <1>4, <2>2 DEF Turning, Turns
<1>5. CASE x.op \in {"layer", "sample", "offload_kv", "kv_copied", "offload_hidden"}
  <2>1. x.layer \in -1 .. N - 1 /\ x.mb \in MicroBatchIds
    BY <1>5, Sizes DEF Legal
  <2> QED BY <1>5, <2>1 DEF Turning, Turns
<1> QED BY <1>2, <1>3, <1>4, <1>5 DEF Legal

LEMMA LaterTurn ==
  ASSUME NEW t \in Turns
  PROVE  /\ Later(t)[1] <= N /\ Later(t)[2] \in MicroBatchIds
         /\ Later(t) = <<Later(t)[1], Later(t)[2]>>
         /\ Later(t)[1] < N => Later(t) \in Turns
         /\ Earlier(Later(t)) = t
<1>0. /\ t[1] \in -1 .. N - 1 /\ t[2] \in MicroBatchIds /\ t = <<t[1], t[2]>>
      /\ t[1] \in Int /\ t[2] \in Int /\ t[2] >= 0 /\ t[2] < num_mb /\ t[1] < N
  BY TurnParts
<1>1. CASE t[2] + 1 < num_mb
  <2>1. Later(t) = <<t[1], t[2] + 1>>
    BY <1>1 DEF Later
  <2>2. t[2] + 1 \in MicroBatchIds /\ t[2] + 1 > 0 /\ (t[2] + 1) - 1 = t[2] /\ t[1] <= N
    BY <1>0, <1>1, Sizes DEF MicroBatchIds
  <2>3. Earlier(<<t[1], t[2] + 1>>) = t
    BY <1>0, <2>2 DEF Earlier
  <2>4. <<t[1], t[2] + 1>> \in Turns
    BY <1>0, <2>2 DEF Turns
  <2> QED BY <2>1, <2>2, <2>3, <2>4
<1>2. CASE ~(t[2] + 1 < num_mb)
  <2>1. Later(t) = <<t[1] + 1, 0>>
    BY <1>2 DEF Later
  <2>2. t[2] = num_mb - 1 /\ 0 \in MicroBatchIds /\ (t[1] + 1) - 1 = t[1] /\ t[1] + 1 <= N
    BY <1>0, <1>2, Sizes DEF MicroBatchIds
  <2>3. Earlier(<<t[1] + 1, 0>>) = t
    BY <1>0, <2>2 DEF Earlier
  <2>4. ASSUME t[1] + 1 < N PROVE <<t[1] + 1, 0>> \in Turns
    <3>1. t[1] + 1 \in -1 .. N - 1
      BY <1>0, <2>4, Sizes
    <3> QED BY <2>2, <3>1 DEF Turns
  <2> QED BY <2>1, <2>2, <2>3, <2>4
<1> QED BY <1>1, <1>2

LEMMA EarlierTurn ==
  ASSUME NEW t \in Turns, t[1] >= 0
  PROVE  /\ Earlier(t) \in Turns /\ Earlier(t) # t
         /\ num_mb > 1 => Earlier(t)[2] # t[2]
         /\ Earlier(t)[1] = t[1] \/ Earlier(t)[1] = t[1] - 1
         /\ Earlier(t)[2] < t[2] => Earlier(t)[1] = t[1]
         /\ ~(Earlier(t)[2] < t[2]) => Earlier(t)[1] = t[1] - 1
         /\ t[2] > 0 => Earlier(t)[1] = t[1]
<1>0. /\ t[1] \in 0 .. N - 1 /\ t[2] \in MicroBatchIds /\ t = <<t[1], t[2]>>
      /\ t[1] \in Int /\ t[2] \in Int /\ t[2] >= 0 /\ t[2] < num_mb /\ t[1] < N
  BY TurnParts, Sizes
<1>1. CASE t[2] > 0
  <2>1. Earlier(t) = <<t[1], t[2] - 1>>
    BY <1>1 DEF Earlier
  <2>2. t[2] - 1 \in MicroBatchIds /\ t[2] - 1 < t[2] /\ t[2] - 1 # t[2] /\ t[1] \in -1 .. N - 1
    BY <1>0, <1>1, Sizes DEF MicroBatchIds
  <2>3. <<t[1], t[2] - 1>> \in Turns
    BY <2>2 DEF Turns
  <2>4. Earlier(t)[1] = t[1] /\ Earlier(t)[2] = t[2] - 1
    BY <2>1
  <2> QED BY <2>1, <2>2, <2>3, <2>4
<1>2. CASE ~(t[2] > 0)
  <2>1. Earlier(t) = <<t[1] - 1, num_mb - 1>>
    BY <1>2 DEF Earlier
  <2>2. t[2] = 0 /\ num_mb - 1 \in MicroBatchIds /\ t[1] - 1 \in -1 .. N - 1 /\ t[1] - 1 # t[1]
        /\ ~(num_mb - 1 < 0) /\ (num_mb > 1 => num_mb - 1 # 0)
    BY <1>0, <1>2, Sizes DEF MicroBatchIds
  <2>3. <<t[1] - 1, num_mb - 1>> \in Turns
    BY <2>2 DEF Turns
  <2>4. Earlier(t)[1] = t[1] - 1 /\ Earlier(t)[2] = num_mb - 1
    BY <2>1
  <2> QED BY <1>2, <2>1, <2>2, <2>3, <2>4
<1> QED BY <1>1, <1>2

\* What each call is, from the call x before it and that call's turn.
LEMMA NextCall ==
  ASSUME NEW x, Legal(x), NEW y, y = After(x), y.op # "end",
         NEW t, t = Turning(x)
  PROVE  /\ Legal(y)
         /\ y.op = "layer" =>
              /\ Later(t)[1] < N /\ y = Its("layer", Later(t)) /\ Turning(y) = Later(t)
              /\ x.op \in {"prefetch", "offload_hidden", "load_hidden"}
              /\ x.op = "prefetch" => x.layer = Later(t)[1] /\ Later(t)[2] = 0
              /\ x.op # "prefetch" => Later(t)[2] # 0 /\ Later(t)[1] = t[1]
              /\ x.op = "offload_hidden" => ~ComesIn(Later(t))
         /\ y.op # "layer" => Turning(y) = t
         /\ y.op = "sample" => x.op = "layer"
         /\ y.op = "offload_kv" => y = Its("offload_kv", t) /\ x.op \in {"layer", "sample"}
         /\ y.op = "kv_copied" => x.op = "offload_kv"
         /\ y.op = "offload_hidden" =>
              y = Its("offload_hidden", t) /\ x.op = "kv_copied" /\ GoesOut(t)
         /\ y.op = "load_hidden" =>
              /\ y = Its("load_hidden", Later(t)) /\ ComesIn(Later(t))
              /\ x.op \in {"kv_copied", "offload_hidden"}
              /\ x.op = "kv_copied" => ~GoesOut(t)
         /\ y.op = "prefetch" =>
              /\ y.layer = t[1] + 1 /\ y.layer >= 0 /\ Later(t) = <<t[1] + 1, 0>>
              /\ x.op \in {"start", "kv_copied", "load_hidden"}
              /\ x.op \in {"start", "kv_copied"} => ~ComesIn(Later(t)) /\ ~GoesOut(t)
              /\ x.op = "start" => t[1] = -1
<1> DEFINE n == x.layer
           k == x.mb
<1>0. N \in Nat /\ N >= 2 /\ num_mb \in Nat /\ num_mb >= 1
  BY Sizes
<1>1. CASE x.op = "start"
  <2>1. n = -1 /\ k = num_mb - 1 /\ t = <<-1, num_mb - 1>>
    BY <1>1 DEF Legal, Start, Op, Turning
  <2>2. y = Op("prefetch", 0, 0)
    BY <1>1 DEF After
  <2>3. y.op = "prefetch" /\ y.layer = 0 /\ y.mb = 0
    BY <2>2 DEF Op
  <2>4. Legal(y) /\ Turning(y) = t /\ Later(t) = <<0, 0>>
    BY <1>0, <2>1, <2>3 DEF Legal, Turning, Later
  <2>5. ~ComesIn(Later(t)) /\ ~GoesOut(t)
    BY <1>0, <2>1, <2>4 DEF ComesIn, GoesOut
  <2> QED BY <1>1, <2>1, <2>3, <2>4, <2>5
<1>2. CASE x.op = "prefetch"
  <2>1. n \in 0 .. N /\ k = 0 /\ t = <<n - 1, num_mb - 1>>
    BY <1>2 DEF Legal, Turning
  <2>2. n < N /\ y = Op("layer", n, 0)
    BY <1>2 DEF After, End, Op
  <2>3. y.op = "layer" /\ y.layer = n /\ y.mb = 0
    BY <2>2 DEF Op
  <2>4. Later(t) = <<n, 0>>
    BY <1>0, <2>1 DEF Later
  <2>5. Legal(y) /\ Turning(y) = <<n, 0>>
    BY <1>0, <2>1, <2>2, <2>3 DEF Legal, Turning, MicroBatchIds
  <2>6. y = Its("layer", Later(t))
    BY <2>2, <2>4 DEF Its
  <2> QED BY <1>2, <2>2, <2>3, <2>4, <2>5, <2>6
<1>3. CASE x.op \in {"layer", "sample", "offload_kv"}
  <2>1. n \in 0 .. N - 1 /\ k \in MicroBatchIds /\ t = <<n, k>>
    BY <1>0, <1>3 DEF Legal, Turning
  <2>2. y = Op(y.op, n, k) /\ y.layer = n /\ y.mb = k
        /\ y.op = (IF x.op = "layer" THEN IF n = N - 1 THEN "sample" ELSE "offload_kv"
                   ELSE IF x.op = "sample" THEN "offload_kv" ELSE "kv_copied")
    BY <1>3 DEF After, Op
  <2>3. Legal(y) /\ Turning(y) = t
    BY <2>1, <2>2 DEF Legal, Turning
  <2>4. y = Its(y.op, t)
    BY <2>1, <2>2 DEF Its
  <2> QED BY <1>3, <2>2, <2>3, <2>4
<1>4. ASSUME x.op \in {"kv_copied", "offload_hidden"}, y = AfterHidden(n, k), num_mb > 1,
             x.op = "offload_hidden" \/ ~(n < N - 1)
      PROVE  /\ Legal(y)
             /\ y.op = "layer" =>
                  /\ Later(t)[1] < N /\ y = Its("layer", Later(t)) /\ Turning(y) = Later(t)
                  /\ x.op = "offload_hidden" /\ Later(t)[2] # 0 /\ Later(t)[1] = t[1]
                  /\ ~ComesIn(Later(t))
             /\ y.op # "layer" => Turning(y) = t
             /\ y.op \in {"layer", "load_hidden", "prefetch"}
             /\ y.op = "load_hidden" =>
                  /\ y = Its("load_hidden", Later(t)) /\ ComesIn(Later(t))
                  /\ x.op = "kv_copied" => ~GoesOut(t)
             /\ y.op = "prefetch" =>
                  /\ y.layer = t[1] + 1 /\ y.layer >= 0 /\ Later(t) = <<t[1] + 1, 0>>
                  /\ ~ComesIn(Later(t)) /\ ~GoesOut(t) /\ x.op = "kv_copied"
  <2>1. n \in 0 .. N - 1 /\ k \in MicroBatchIds /\ t = <<n, k>> /\ (x.op = "offload_hidden" => n < N - 1)
    BY <1>0, <1>4 DEF Legal, Turning
  <2>2. CASE k + 1 < num_mb
    <3>1. Later(t) = <<n, k + 1>> /\ k + 1 > 0 /\ k + 1 # 0 /\ k + 1 \in MicroBatchIds /\ (k + 1) - 1 = k
      BY <2>1, <2>2, <1>0 DEF Later, MicroBatchIds
    <3>2. CASE n > 0
      <4>1. y = Op("load_hidden", n, k + 1)
        BY <1>4, <2>2, <3>2 DEF AfterHidden
      <4>2. y.op = "load_hidden" /\ y.layer = n /\ y.mb = k + 1
        BY <4>1 DEF Op
      <4>3. Legal(y) /\ Turning(y) = t
        BY <1>0, <1>4, <2>1, <3>1, <3>2, <4>2 DEF Legal, Turning
      <4>4. y = Its("load_hidden", Later(t)) /\ ComesIn(Later(t))
        BY <1>4, <2>1, <3>1, <3>2, <4>1 DEF Its, ComesIn
      <4>5. x.op = "kv_copied" => ~GoesOut(t)
        BY <1>0, <1>4, <2>1 DEF GoesOut
      <4> QED BY <4>2, <4>3, <4>4, <4>5
    <3>3. CASE ~(n > 0)
      <4>1. y = Op("layer", n, k + 1)
        BY <1>4, <2>2, <3>3 DEF AfterHidden
      <4>2. y.op = "layer" /\ y.layer = n /\ y.mb = k + 1
        BY <4>1 DEF Op
      <4>3. n = 0 /\ x.op = "offload_hidden"
        BY <1>0, <1>4, <2>1, <3>3
      <4>4. Legal(y) /\ Turning(y) = Later(t)
        BY <1>0, <2>1, <3>1, <4>2 DEF Legal, Turning
      <4>5. y = Its("layer", Later(t)) /\ ~ComesIn(Later(t)) /\ Later(t)[1] < N
        BY <1>0, <2>1, <3>1, <4>1, <4>3 DEF Its, ComesIn
      <4> QED BY <2>1, <3>1, <4>2, <4>3, <4>4, <4>5
    <3> QED BY <3>2, <3>3
  <2>3. CASE ~(k + 1 < num_mb)
    <3>1. Later(t) = <<n + 1, 0>> /\ k = num_mb - 1 /\ 0 \in MicroBatchIds /\ (n + 1) - 1 = n /\ n + 1 >= 0
      BY <1>0, <2>1, <2>3 DEF Later, MicroBatchIds
    <3>2. CASE n < N - 1
      <4>1. y = Op("load_hidden", n + 1, 0)
        BY <1>4, <2>3, <3>2 DEF AfterHidden
      <4>2. y.op = "load_hidden" /\ y.layer = n + 1 /\ y.mb = 0
        BY <4>1 DEF Op
      <4>3. n + 1 \in 1 .. N - 1
        BY <1>0, <2>1, <3>2
      <4>4. Legal(y) /\ Turning(y) = t
        BY <1>4, <2>1, <3>1, <4>2, <4>3 DEF Legal, Turning
      <4>5. y = Its("load_hidden", Later(t)) /\ ComesIn(Later(t))
        BY <1>4, <3>1, <4>1, <4>3 DEF Its, ComesIn
      <4> QED BY <1>4, <3>2, <4>2, <4>4, <4>5
    <3>3. CASE ~(n < N - 1)
      <4>1. y = Op("prefetch", n + 1, 0)
        BY <1>4, <2>3, <3>3 DEF AfterHidden
      <4>2. y.op = "prefetch" /\ y.layer = n + 1 /\ y.mb = 0
        BY <4>1 DEF Op
      <4>3. n = N - 1 /\ x.op = "kv_copied" /\ n + 1 \in 0 .. N
        BY <1>0, <1>4, <2>1, <3>3
      <4>4. Legal(y) /\ Turning(y) = t
        BY <2>1, <3>1, <4>2, <4>3 DEF Legal, Turning
      <4>5. ~ComesIn(Later(t)) /\ ~GoesOut(t)
        BY <1>0, <2>1, <3>1, <4>3 DEF ComesIn, GoesOut
      <4> QED BY <2>1, <3>1, <4>2, <4>3, <4>4, <4>5
    <3> QED BY <3>2, <3>3
  <2> QED BY <2>2, <2>3
<1>5. CASE x.op = "kv_copied"
  <2>1. n \in 0 .. N - 1 /\ k \in MicroBatchIds /\ t = <<n, k>>
    BY <1>5 DEF Legal, Turning
  <2>2. CASE num_mb = 1
    <3>1. y = Op("prefetch", n + 1, 0)
      BY <1>5, <2>2 DEF After
    <3>2. y.op = "prefetch" /\ y.layer = n + 1 /\ y.mb = 0
      BY <3>1 DEF Op
    <3>3. k = 0 /\ n + 1 \in 0 .. N /\ (n + 1) - 1 = n /\ n + 1 >= 0
      BY <1>0, <2>1, <2>2 DEF MicroBatchIds
    <3>4. Legal(y) /\ Turning(y) = t /\ Later(t) = <<n + 1, 0>>
      BY <2>1, <2>2, <3>2, <3>3 DEF Legal, Turning, Later
    <3>5. ~ComesIn(Later(t)) /\ ~GoesOut(t)
      BY <2>2 DEF ComesIn, GoesOut
    <3> QED BY <1>5, <2>1, <3>2, <3>3, <3>4, <3>5
  <2>3. CASE num_mb # 1 /\ n < N - 1
    <3>1. y = Op("offload_hidden", n, k)
      BY <1>5, <2>3 DEF After
    <3>2. y.op = "offload_hidden" /\ y.layer = n /\ y.mb = k
      BY <3>1 DEF Op
    <3>3. n \in 0 .. N - 2 /\ num_mb > 1
      BY <1>0, <2>1, <2>3
    <3>4. Legal(y) /\ Turning(y) = t /\ GoesOut(t) /\ y = Its("offload_hidden", t)
      BY <2>1, <3>1, <3>2, <3>3 DEF Legal, Turning, GoesOut, Its
    <3> QED BY <1>5, <3>2, <3>4
  <2>4. CASE num_mb # 1 /\ ~(n < N - 1)
    <3>1. y = AfterHidden(n, k) /\ num_mb > 1
      BY <1>0, <1>5, <2>4 DEF After
    <3> HIDE DEF n, k
    <3> QED BY <1>4, <1>5, <2>4, <3>1
  <2> QED BY <2>2, <2>3, <2>4
<1>6. CASE x.op = "offload_hidden"
  <2>1. y = AfterHidden(n, k) /\ num_mb > 1
    BY <1>6 DEF After, Legal
  <2> HIDE DEF n, k
  <2> QED BY <1>4, <1>6, <2>1
<1>7. CASE x.op = "load_hidden"
  <2>1. n \in 1 .. N - 1 /\ k \in MicroBatchIds /\ num_mb > 1
    BY <1>7 DEF Legal
  <2>2. CASE k > 0
    <3>1. y = Op("layer", n, k)
      BY <1>7, <2>2 DEF After
    <3>2. y.op = "layer" /\ y.layer = n /\ y.mb = k
      BY <3>1 DEF Op
    <3>3. t = <<n, k - 1>>
      BY <1>7, <2>2 DEF Turning
    <3>4. Later(t) = <<n, k>>
      BY <1>0, <2>1, <2>2, <3>3 DEF Later, MicroBatchIds
    <3>5. Legal(y) /\ Turning(y) = <<n, k>> /\ y = Its("layer", Later(t))
      BY <1>0, <2>1, <3>1, <3>2, <3>4 DEF Legal, Turning, Its
    <3> QED BY <1>0, <1>7, <2>1, <2>2, <3>2, <3>3, <3>4, <3>5
  <2>3. CASE ~(k > 0)
    <3>1. y = Op("prefetch", n, k) /\ k = 0
      BY <1>7, <2>1, <2>3, <1>0 DEF After, MicroBatchIds
    <3>2. y.op = "prefetch" /\ y.layer = n /\ y.mb = 0
      BY <3>1 DEF Op
    <3>3. t = <<n - 1, num_mb - 1>> /\ n \in 0 .. N /\ (n - 1) + 1 = n
      BY <1>0, <1>7, <2>1, <2>3 DEF Turning
    <3>4. Later(t) = <<n, 0>>
      BY <1>0, <3>3 DEF Later
    <3>5. Legal(y) /\ Turning(y) = t
      BY <3>2, <3>3 DEF Legal, Turning
    <3> QED BY <1>7, <2>1, <3>2, <3>3, <3>4, <3>5
  <2> QED BY <2>2, <2>3
<1> QED BY <1>1, <1>2, <1>3, <1>5, <1>6, <1>7 DEF Legal

\* The call that is next, and what was made last when it is.
LEMMA Calling ==
  ASSUME CallInv, NEW op, Call(op)
  PROVE  /\ Now = After(Made) /\ Now.op = op /\ Made' = Now
         /\ pos' \in 1 .. Len(Program) + 1
<1>1. /\ Program \in Seq(Ops) /\ Program # <<>> /\ Program[1] = Op("prefetch", 0, 0)
      /\ \A i \in 1 .. Len(Program) - 1 : Program[i + 1] = After(Program[i])
  BY ProgramChain DEF Chains
<1>2. Len(Program) \in Nat
  BY <1>1, LenProperties
<1>3. pos \in 1 .. Len(Program) + 1 /\ pos <= Len(Program) /\ pos' = pos + 1 /\ Now.op = op
  BY DEF CallInv, Call, Now
<1>4. pos' \in 1 .. Len(Program) + 1 /\ pos' # 1 /\ pos' - 1 = pos
  BY <1>2, <1>3
<1>5. Made' = Program[pos]
  BY <1>4 DEF Made
<1>6. CASE pos = 1
  <2>1. Made = Start /\ Start.op = "start"
    BY <1>6 DEF Made, Start, Op
  <2>2. After(Made) = Op("prefetch", 0, 0)
    BY <2>1 DEF After
  <2> QED BY <1>1, <1>3, <1>4, <1>5, <1>6, <2>2 DEF Now
<1>7. CASE pos # 1
  <2>1. pos - 1 \in 1 .. Len(Program) - 1 /\ (pos - 1) + 1 = pos
    BY <1>2, <1>3, <1>7
  <2>2. Program[pos] = After(Program[pos - 1])
    BY <1>1, <2>1
  <2> QED BY <1>3, <1>4, <1>5, <1>7, <2>2 DEF Made, Now
<1> QED BY <1>6, <1>7

-----------------------------------------------------------------------------
LEMMA ItsFields ==
  ASSUME NEW op, NEW t \in Turns
  PROVE  /\ Its(op, t).op = op /\ Its(op, t).layer = t[1] /\ Its(op, t).mb = t[2]
         /\ \A o, u : u \in Turns /\ Its(op, t) = Its(o, u) => op = o /\ t = u
<1>1. ASSUME NEW o, NEW u \in Turns
      PROVE  Its(o, u).op = o /\ Its(o, u).layer = u[1] /\ Its(o, u).mb = u[2] /\ u = <<u[1], u[2]>>
  <2>1. u = <<u[1], u[2]>>
    BY TurnParts
  <2> QED BY <2>1 DEF Its, Op
<1> QED BY <1>1

-----------------------------------------------------------------------------
(* What the invariant says of each stream *)

\* The turn of a call, and that only the start and the first prefetch come
\* before the first turn.
LEMMA CallTurn ==
  ASSUME NEW m, Legal(m), NEW t, t = Turning(m)
  PROVE  /\ t \in Turns /\ m.op \in Names /\ m.op # "end"
         /\ m.op \notin {"start", "prefetch"} => t[1] >= 0
         /\ m.op = "start" => t[1] = -1
         /\ m.op = "prefetch" => m.layer = t[1] + 1
<1>1. t \in Turns
  BY TurningType
<1>2. m.op \in Names /\ m.op # "end"
  BY DEF Legal, Names
<1>3. CASE m.op = "start"
  BY <1>1, <1>2, <1>3 DEF Legal, Start, Op, Turning
<1>4. CASE m.op = "prefetch"
  <2>1. m.layer \in Int /\ t[1] = m.layer - 1
    BY <1>4, Sizes DEF Legal, Turning
  <2> QED BY <1>1, <1>2, <1>4, <2>1
<1>5. CASE m.op = "load_hidden"
  <2>1. m.layer \in Int /\ m.layer >= 1 /\ (t[1] = m.layer \/ t[1] = m.layer - 1)
    BY <1>5, Sizes DEF Legal, Turning
  <2> QED BY <1>1, <1>2, <1>5, <2>1
<1>6. CASE m.op \in {"layer", "sample", "offload_kv", "kv_copied", "offload_hidden"}
  <2>1. m.layer \in Int /\ m.layer >= 0 /\ t[1] = m.layer
    BY <1>6, Sizes DEF Legal, Turning
  <2> QED BY <1>1, <1>2, <1>6, <2>1
<1> QED BY <1>2, <1>3, <1>4, <1>5, <1>6 DEF Legal

LEMMA Current ==
  ASSUME NEW m, Legal(m), NEW t, t = Turning(m), CurInv(m, t), cur # <<>>,
         NEW A, A = Its("attention", t), NEW M, M = Its("moe", t), NEW O, O = Its("moe", Earlier(t))
  PROVE  /\ t[1] >= 0
         /\ \/ cur = <<M>> /\ Head(cur) = M /\ Tail(cur) = <<>> /\ Range(cur) = {M} /\ Attended(t)
            \/ /\ Copying(m) /\ ~Attended(t)
               /\ cur = <<A, M>> /\ Head(cur) = A /\ Tail(cur) = <<M>> /\ Range(cur) = {A, M}
            \/ /\ Copying(m) /\ ~Attended(t) /\ Earlier(t)[1] >= 0
               /\ cur = <<O, A, M>> /\ Head(cur) = O /\ Tail(cur) = <<A, M>> /\ Range(cur) = {O, A, M}
<1>1. t \in Turns /\ (Copying(m) => t[1] >= 0)
  BY CallTurn DEF Copying
<1>2. CASE Attended(t)
  <2>1. cur = <<M>>
    BY <1>2 DEF Attended
  <2> QED BY <1>1, <1>2, <2>1, OneElement DEF CurInv
<1>3. CASE ~Attended(t)
  <2>1. Copying(m)
    BY <1>3 DEF CurInv, Attended
  <2>2. cur = <<A, M>> \/ (Earlier(t)[1] >= 0 /\ cur = <<O, A, M>>)
    BY <1>3, <2>1 DEF CurInv
  <2>3. CASE cur = <<A, M>>
    <3>1. Head(cur) = A /\ Tail(cur) = <<M>> /\ Range(cur) = {A, M}
      BY <2>3, TwoElements
    <3> QED BY <1>1, <1>3, <2>1, <2>3, <3>1
  <2>4. CASE Earlier(t)[1] >= 0 /\ cur = <<O, A, M>>
    <3>0. cur = <<O, A, M>>
      BY <2>4
    <3>1. Head(<<O, A, M>>) = O /\ Tail(<<O, A, M>>) = <<A, M>> /\ Range(<<O, A, M>>) = {O, A, M}
      BY ThreeElements
    <3> QED BY <1>1, <1>3, <2>1, <2>4, <3>0, <3>1
  <2> QED BY <2>2, <2>3, <2>4
<1> QED BY <1>2, <1>3

LEMMA Offloading ==
  ASSUME NEW m, Legal(m), NEW t, t = Turning(m), OffloadInv(m, t), offload # <<>>,
         NEW K, K = Its("offload_kv", t), NEW H, H = Its("offload_hidden", t),
         NEW G, G = Its("offload_hidden", Earlier(t))
  PROVE  /\ t[1] >= 0
         /\ \/ /\ Copying(m) /\ GoesOut(Earlier(t))
               /\ offload = <<G>> /\ Head(offload) = G /\ Tail(offload) = <<>> /\ Range(offload) = {G}
               /\ m.op # "offload_kv"
            \/ /\ m.op = "offload_kv"
               /\ offload = <<K>> /\ Head(offload) = K /\ Tail(offload) = <<>> /\ Range(offload) = {K}
            \/ /\ m.op = "offload_kv" /\ GoesOut(Earlier(t))
               /\ offload = <<G, K>> /\ Head(offload) = G /\ Tail(offload) = <<K>>
               /\ Range(offload) = {G, K}
            \/ /\ m.op \in {"offload_hidden", "load_hidden", "prefetch"} /\ GoesOut(t)
               /\ offload = <<H>> /\ Head(offload) = H /\ Tail(offload) = <<>> /\ Range(offload) = {H}
<1>1. t \in Turns /\ (Copying(m) => t[1] >= 0) /\ m.op \in Names /\ m.op # "end"
      /\ (m.op = "start" => t[1] = -1) /\ t[1] \in Int
  BY CallTurn, TurnParts DEF Copying
<1>2. CASE m.op \in {"layer", "sample"}
  <2>1. GoesOut(Earlier(t)) /\ offload = <<G>>
    BY <1>2 DEF OffloadInv, Leaving
  <2> QED BY <1>1, <1>2, <2>1, OneElement DEF Copying
<1>3. CASE m.op = "offload_kv"
  <2>1. offload = <<K>> \/ (GoesOut(Earlier(t)) /\ offload = <<G, K>>)
    BY <1>3 DEF OffloadInv
  <2>2. CASE offload = <<K>>
    BY <1>1, <1>3, <2>2, OneElement DEF Copying
  <2>3. CASE GoesOut(Earlier(t)) /\ offload = <<G, K>>
    <3>1. Head(offload) = G /\ Tail(offload) = <<K>> /\ Range(offload) = {G, K}
      BY <2>3, TwoElements
    <3> QED BY <1>1, <1>3, <2>3, <3>1 DEF Copying
  <2> QED BY <2>1, <2>2, <2>3
<1>4. CASE m.op \notin {"layer", "sample", "offload_kv"}
  <2>1. m.op # "kv_copied" /\ GoesOut(t) /\ offload = <<H>>
    BY <1>4 DEF OffloadInv, Leaving
  <2>2. m.op # "start" /\ t[1] >= 0
    BY <1>1, <2>1, Sizes DEF GoesOut
  <2> QED BY <1>1, <1>4, <2>1, <2>2, OneElement DEF Names
<1> QED BY <1>2, <1>3, <1>4

\* Whose hidden states may be waiting to go out.
LEMMA Outs ==
  ASSUME NEW m, Legal(m), NEW t, t = Turning(m), OffloadInv(m, t), NEW s \in Turns, Out(s)
  PROVE  /\ t[1] >= 0 /\ num_mb > 1 /\ GoesOut(s)
         /\ \/ Copying(m) /\ s = Earlier(t)
            \/ m.op \in {"offload_hidden", "load_hidden", "prefetch"} /\ s = t
<1> DEFINE K == Its("offload_kv", t)
           H == Its("offload_hidden", t)
           G == Its("offload_hidden", Earlier(t))
<1>1. offload # <<>>
  BY NoElements DEF Out
<1>2. t \in Turns /\ t[1] >= 0
  BY <1>1, Offloading, CallTurn
<1>3. Earlier(t) \in Turns
  BY <1>2, EarlierTurn
<1>4. Its("offload_hidden", s) # K
  BY <1>2, ItsFields
<1>5. Its("offload_hidden", s) = H => s = t
  BY <1>2, ItsFields
<1>6. Its("offload_hidden", s) = G => s = Earlier(t)
  BY <1>3, ItsFields
<1>7. Its("offload_hidden", s) \in Range(offload)
  BY DEF Out
<1> HIDE DEF K, H, G
<1>8. \/ Copying(m) /\ GoesOut(Earlier(t)) /\ Range(offload) = {G}
      \/ Range(offload) = {K}
      \/ Copying(m) /\ GoesOut(Earlier(t)) /\ Range(offload) = {G, K}
      \/ m.op \in {"offload_hidden", "load_hidden", "prefetch"} /\ GoesOut(t) /\ Range(offload) = {H}
  BY <1>1, Offloading DEF K, H, G, Copying
<1>9. \A u : GoesOut(u) => num_mb > 1
  BY DEF GoesOut
<1> QED BY <1>2, <1>4, <1>5, <1>6, <1>7, <1>8, <1>9

LEMMA Reused ==
  ASSUME NEW o \in [MicroBatchIds -> Int], Reuse(o)
  PROVE  output' \in [MicroBatchIds -> Int]
         /\ \A k \in MicroBatchIds : output'[k] \in {o[k], Clobbered}
<1>1. PICK Z \in SUBSET GivenUp : output' = [k \in MicroBatchIds |-> IF k \in Z THEN Clobbered ELSE o[k]]
  BY DEF Reuse
<1>2. Clobbered \in Int
  BY DEF Clobbered
<1> QED BY <1>1, <1>2

\* Hidden states that were computed stay so as memory is used again.
LEMMA StaysComputed ==
  ASSUME TypeInv, NEW s \in Turns, Computed(s), NEW o, o \in [MicroBatchIds -> Int], Reuse(o),
         \/ Its("moe", s) \in Range(cur')
         \/ o[s[2]] = output[s[2]] /\ Its("moe", s) \notin Range(cur)
         \/ o[s[2]] = s[1]
  PROVE  Computed(s)'
<1>1. s[2] \in MicroBatchIds
  BY TurnParts
<1>2. output'[s[2]] \in {o[s[2]], Clobbered}
  BY <1>1, Reused
<1> QED BY <1>2 DEF Computed

-----------------------------------------------------------------------------
(* The streams *)

LEMMA AttentionStep ==
  ASSUME NEW m, Legal(m), NEW t, t = Turning(m), TypeInv, Inv(m, t), RunAttention
  PROVE  TypeInv' /\ Inv(m, t)'
<1> DEFINE A == Its("attention", t)
           M == Its("moe", t)
           O == Its("moe", Earlier(t))
           e == Earlier(t)
<1>1. t \in Turns /\ t \in Int \X Int /\ t[2] \in MicroBatchIds /\ t = <<t[1], t[2]>>
      /\ t[1] \in Int /\ t[2] \in Int
  BY CallTurn, TurnParts
<1>2. cur # <<>> /\ Head(cur).op = "attention" /\ cur' = Tail(cur)
  BY DEF RunAttention
<1>3. t[1] >= 0
  BY <1>2, Current DEF Inv
<1>4. A.op = "attention" /\ A.layer = t[1] /\ A.mb = t[2] /\ M.op = "moe"
  BY <1>1, ItsFields
<1>5. e \in Turns /\ e # t /\ O.op = "moe" /\ M # O
  BY <1>1, <1>3, EarlierTurn, ItsFields
<1> HIDE DEF A, M, O
<1>6. Copying(m) /\ cur = <<A, M>> /\ Head(cur) = A /\ cur' = <<M>> /\ Range(cur) = {A, M}
  BY <1>2, <1>4, <1>5, Current DEF Inv, A, M, O
<1>7. Attended(t)' /\ Range(cur') = {M} /\ ~Attended(t)
  <2>1. cur # <<>> /\ cur # <<M>>
    BY <1>6
  <2> QED BY <1>6, <2>1, OneElement DEF Attended, M
<1>8. /\ MayAttend(t[1], t[2])
      /\ kv_data' = [kv_data EXCEPT ![t[2] % 2] = t]
      /\ Reuse(output)
      /\ UNCHANGED <<pos, offload, load, prefetch, gpu_page, first_page, pages, kv_data_cpu, loaded,
                     hidden_states_cpu>>
  BY <1>1, <1>4, <1>6 DEF RunAttention
<1>9. t[2] % 2 \in {0, 1}
  BY <1>1
<1>10. TypeInv'
  BY <1>1, <1>8, <1>9, Reused DEF TypeInv
<1>11. CurInv(m, t)'
  BY <1>6, <1>7 DEF CurInv
<1>12. OffloadInv(m, t)'
  BY <1>7, <1>8 DEF Inv, OffloadInv, Leaving
<1>13. KVInv(m, t)'
  BY <1>8, <1>9 DEF Inv, KVInv, KVOffloaded, TypeInv
<1>14. LoadInv(m, t)'
  <2>1. load = <<>>
    <3>1. ~(load = <<Its("load_hidden", t)>>)
      <4>1. /\ Its("load_hidden", t).op = "load_hidden" /\ Its("load_hidden", t).layer = t[1]
            /\ Its("load_hidden", t).mb = t[2]
        BY <1>1, ItsFields
      <4>2. ASSUME load = <<Its("load_hidden", t)>> PROVE FALSE
        <5>1. Its("load_hidden", t) \in Range(load)
          BY <4>2, OneElement
        <5> QED BY <1>8, <4>1, <5>1 DEF MayAttend, Queued
      <4> QED BY <4>2
    <3>2. Loading(t)
      BY <1>6 DEF Inv, LoadInv
    <3> QED BY <3>1, <3>2 DEF Loading
  <2> QED BY <1>6, <1>8, <2>1 DEF Inv, LoadInv, Loading
<1>15. PageInv(m, t)'
  <2>1. m.op # "prefetch" /\ Fetched(m, t) = t[1]
    BY <1>6 DEF Copying, Fetched
  <2>2. prefetch = <<>>
    <3>1. SUFFICES ASSUME prefetch # <<>> PROVE FALSE
      OBVIOUS
    <3>2. prefetch = <<Head(prefetch)>> /\ Head(prefetch).layer = t[1] /\ t[2] = 0
      BY <2>1, <3>1 DEF Inv, PageInv, PagesApart, PageTaken
    <3>3. Head(prefetch) \in Range(prefetch)
      BY <3>2, OneElement
    <3> QED BY <1>1, <1>8, <3>2, <3>3 DEF MayAttend
  <2> QED BY <1>8, <2>1, <2>2 DEF Inv, PageInv, PagesApart, PageTaken, Fetched
<1>16. HiddenInv(m, t)'
  BY <1>8 DEF Inv, HiddenInv, Out, Sent
<1>17. OutputInv(t)'
  <2>1. Computed(t)'
    BY <1>7 DEF Computed, M
  <2>2. ASSUME Out(e)' PROVE Computed(e)'
    <3>1. Out(e)
      BY <1>8, <2>2 DEF Out
    <3>2. Computed(e)
      BY <3>1 DEF Inv, OutputInv
    <3>3. Its("moe", e) \notin Range(cur)
      BY <1>4, <1>5, <1>6 DEF O
    <3>4. output \in [MicroBatchIds -> Int]
      BY DEF TypeInv
    <3> HIDE DEF e
    <3> QED BY <1>5, <1>8, <3>2, <3>3, <3>4, StaysComputed
  <2> QED BY <2>1, <2>2 DEF OutputInv
<1> QED BY <1>10, <1>11, <1>12, <1>13, <1>14, <1>15, <1>16, <1>17 DEF Inv

LEMMA MoEStep ==
  ASSUME NEW m, Legal(m), NEW t, t = Turning(m), TypeInv, Inv(m, t), RunMoE
  PROVE  TypeInv' /\ Inv(m, t)'
<1> DEFINE A == Its("attention", t)
           M == Its("moe", t)
           O == Its("moe", Earlier(t))
           e == Earlier(t)
           x == Head(cur)
           o == [output EXCEPT ![x.mb] = x.layer]
<1>1. t \in Turns /\ t[2] \in MicroBatchIds /\ t[1] \in Int
  BY CallTurn, TurnParts
<1>2. cur # <<>> /\ x.op = "moe" /\ cur' = Tail(cur)
  BY DEF RunMoE
<1>3. t[1] >= 0
  BY <1>2, Current DEF Inv
<1>4. A.op = "attention" /\ M.op = "moe" /\ M.layer = t[1] /\ M.mb = t[2]
  BY <1>1, ItsFields
<1>5. /\ e \in Turns /\ e # t /\ O.op = "moe" /\ O.layer = e[1] /\ O.mb = e[2] /\ M # O
      /\ e[2] \in MicroBatchIds /\ e[1] \in Int /\ (num_mb > 1 => e[2] # t[2])
  BY <1>1, <1>3, EarlierTurn, TurnParts, ItsFields
<1>6. /\ Reuse(o)
      /\ UNCHANGED <<pos, offload, load, prefetch, gpu_page, first_page, pages, kv_data, kv_data_cpu,
                     loaded, hidden_states_cpu>>
  BY DEF RunMoE
<1> HIDE DEF A, M, O, e, x
<1>7. \/ x = M /\ cur' = <<>> /\ Range(cur) = {M} /\ Attended(t) /\ Attended(t)'
      \/ x = O /\ cur' = <<A, M>> /\ Copying(m) /\ ~Attended(t) /\ ~Attended(t)' /\ Range(cur') = {A, M}
  <2>1. <<A, M>> # <<>> /\ <<A, M>> # <<M>> /\ Range(<<A, M>>) = {A, M}
    BY TwoElements
  <2>2. \/ cur = <<M>> /\ x = M /\ Tail(cur) = <<>> /\ Range(cur) = {M} /\ Attended(t)
        \/ x = A
        \/ /\ Copying(m) /\ ~Attended(t) /\ x = O /\ Tail(cur) = <<A, M>>
    BY <1>2, Current DEF Inv, A, M, O, x
  <2> QED BY <1>2, <1>4, <2>1, <2>2 DEF Attended, M
<1>8. x.mb \in MicroBatchIds /\ x.layer \in Int
  BY <1>1, <1>4, <1>5, <1>7
<1>9. o \in [MicroBatchIds -> Int] /\ \A k \in MicroBatchIds : o[k] = IF k = x.mb THEN x.layer ELSE output[k]
  BY <1>8 DEF TypeInv
<1> HIDE DEF o
<1>10. TypeInv'
  BY <1>6, <1>9, Reused DEF TypeInv
<1>11. CurInv(m, t)'
  BY <1>7 DEF CurInv, Attended, A, M
<1>12. OffloadInv(m, t)'
  BY <1>6, <1>7 DEF Inv, OffloadInv, Leaving
<1>13. KVInv(m, t)'
  BY <1>6, <1>7 DEF Inv, KVInv, KVOffloaded
<1>14. LoadInv(m, t)'
  BY <1>6, <1>7 DEF Inv, LoadInv, Loading
<1>15. PageInv(m, t)'
  BY <1>6, <1>7 DEF Inv, PageInv, PagesApart, PageTaken
<1>16. HiddenInv(m, t)'
  BY <1>6 DEF Inv, HiddenInv, Out
<1>17. OutputInv(t)'
  <2>1. Computed(t)'
    <3>1. CASE x = M
      <4>1. o[t[2]] = t[1]
        BY <1>1, <1>4, <1>9, <3>1
      <4>2. Computed(t)
        BY <1>3 DEF Inv, OutputInv
      <4> QED BY <1>1, <1>6, <1>9, <4>1, <4>2, StaysComputed
    <3>2. CASE x # M
      BY <1>7, <3>2 DEF Computed, M
    <3> QED BY <3>1, <3>2
  <2>2. ASSUME Out(e)' PROVE Computed(e)'
    <3>1. Out(e)
      BY <1>6, <2>2 DEF Out
    <3>2. Computed(e) /\ e[2] # t[2]
      <4>1. num_mb > 1
        BY <1>5, <3>1, Outs DEF Inv
      <4> QED BY <1>5, <3>1, <4>1 DEF Inv, OutputInv, e
    <3>3. CASE x = M
      <4>1. o[e[2]] = output[e[2]]
        BY <1>4, <1>5, <1>9, <3>2, <3>3
      <4>2. O \notin Range(cur)
        BY <1>5, <1>7, <3>3
      <4>3. Its("moe", e) \notin Range(cur)
        BY <4>2 DEF O, e
      <4> QED BY <1>5, <1>6, <1>9, <3>2, <4>1, <4>3, StaysComputed
    <3>4. CASE x = O
      <4>1. o[e[2]] = e[1]
        BY <1>5, <1>9, <3>4
      <4> QED BY <1>5, <1>6, <1>9, <3>2, <4>1, StaysComputed
    <3> QED BY <1>7, <3>3, <3>4
  <2> QED BY <2>1, <2>2 DEF OutputInv, e
<1> QED BY <1>10, <1>11, <1>12, <1>13, <1>14, <1>15, <1>16, <1>17 DEF Inv

LEMMA OffloadKVStep ==
  ASSUME NEW m, Legal(m), NEW t, t = Turning(m), TypeInv, Inv(m, t), RunOffloadKV
  PROVE  TypeInv' /\ Inv(m, t)'
<1> DEFINE K == Its("offload_kv", t)
           H == Its("offload_hidden", t)
           G == Its("offload_hidden", Earlier(t))
           x == Head(offload)
<1>1. /\ t \in Turns /\ t[2] \in MicroBatchIds /\ t[1] \in Int /\ t[2] \in Int /\ t = <<t[1], t[2]>>
  BY CallTurn, TurnParts
<1>2. offload # <<>> /\ x.op = "offload_kv" /\ offload' = Tail(offload)
  BY DEF RunOffloadKV
<1>3. t[1] >= 0
  BY <1>2, Offloading DEF Inv
<1>4. K.op = "offload_kv" /\ K.layer = t[1] /\ K.mb = t[2] /\ H.op = "offload_hidden" /\ G.op = "offload_hidden"
  BY <1>1, <1>3, EarlierTurn, ItsFields
<1> HIDE DEF K, H, G, x
<1>5. m.op = "offload_kv" /\ x = K /\ offload = <<K>> /\ offload' = <<>>
  BY <1>2, <1>4, Offloading DEF Inv, K, H, G, x
<1>6. /\ AttentionDone(t[1], t[2])
      /\ kv_data_cpu' = [kv_data_cpu EXCEPT
           ![t[2]] = IF kv_data[t[2] % 2] = t THEN t[1] ELSE Clobbered]
      /\ UNCHANGED <<pos, cur, load, prefetch, gpu_page, first_page, pages, kv_data, output, loaded,
                     hidden_states_cpu>>
  BY <1>1, <1>4, <1>5 DEF RunOffloadKV, x
<1>7. Copying(m)
  BY <1>5 DEF Copying
<1>8. Attended(t)
  <2>1. CASE cur = <<>>
    BY <2>1 DEF Attended
  <2>2. CASE cur # <<>>
    <3>1. Its("attention", t).op = "attention" /\ Its("attention", t).layer = t[1]
          /\ Its("attention", t).mb = t[2]
      BY <1>1, ItsFields
    <3>2. Its("attention", t) \notin Range(cur)
      BY <1>6, <3>1 DEF AttentionDone, Queued
    <3> QED BY <2>2, <3>2, Current DEF Inv
  <2> QED BY <2>1, <2>2
<1>9. kv_data[t[2] % 2] = t
  BY <1>7, <1>8 DEF Inv, KVInv
<1>10. kv_data_cpu' = [kv_data_cpu EXCEPT ![t[2]] = t[1]]
  BY <1>6, <1>9
<1>11. TypeInv'
  BY <1>1, <1>6, <1>10 DEF TypeInv
<1>12. CurInv(m, t)'
  BY <1>6 DEF Inv, CurInv, Attended
<1>13. OffloadInv(m, t)'
  BY <1>5, <1>6, <1>8 DEF OffloadInv, Attended
<1>14. KVInv(m, t)'
  <2>1. KVOffloaded'
    BY <1>1, <1>3, <1>10 DEF Inv, KVInv, KVOffloaded, TypeInv, Clobbered
  <2> QED BY <1>6, <2>1 DEF Inv, KVInv, Attended
<1>15. LoadInv(m, t)'
  BY <1>6 DEF Inv, LoadInv, Loading, Attended
<1>16. PageInv(m, t)'
  BY <1>6 DEF Inv, PageInv, PagesApart, PageTaken, Attended
<1>17. HiddenInv(m, t)'
  <2>1. ASSUME NEW j \in MicroBatchIds, GoesOut(<<Sent(m, t, j), j>>)
        PROVE  hidden_states_cpu[j] \in {Sent(m, t, j), Clobbered}
    <3> DEFINE s == <<Sent(m, t, j), j>>
    <3>1. ~Out(s)
      <4>1. Its("offload_hidden", s).op = "offload_hidden"
        BY DEF Its, Op
      <4>2. Range(offload) = {K}
        BY <1>5, OneElement
      <4> QED BY <1>4, <4>1, <4>2 DEF Out
    <3> QED BY <2>1, <3>1 DEF Inv, HiddenInv
  <2> QED BY <1>6, <2>1 DEF HiddenInv
<1>18. OutputInv(t)'
  <2>1. ~Out(Earlier(t))'
    BY <1>5, NoElements DEF Out
  <2> QED BY <1>6, <2>1 DEF Inv, OutputInv, Computed
<1> QED BY <1>11, <1>12, <1>13, <1>14, <1>15, <1>16, <1>17, <1>18 DEF Inv

LEMMA OffloadHiddenStep ==
  ASSUME NEW m, Legal(m), NEW t, t = Turning(m), TypeInv, Inv(m, t), RunOffloadHidden
  PROVE  TypeInv' /\ Inv(m, t)'
<1> DEFINE K == Its("offload_kv", t)
           x == Head(offload)
           Gone == {"offload_hidden", "load_hidden", "prefetch"}
<1>1. /\ t \in Turns /\ t[2] \in MicroBatchIds /\ t[1] \in Int /\ t[2] \in Int /\ t = <<t[1], t[2]>>
  BY CallTurn, TurnParts
<1>2. offload # <<>> /\ x.op = "offload_hidden" /\ offload' = Tail(offload)
  BY DEF RunOffloadHidden
<1>3. t[1] >= 0
  BY <1>2, Offloading DEF Inv
<1>4. Earlier(t) \in Turns /\ K.op = "offload_kv"
  BY <1>1, <1>3, EarlierTurn, ItsFields
<1>5. PICK s \in Turns :
        /\ x = Its("offload_hidden", s) /\ GoesOut(s)
        /\ \/ Copying(m) /\ s = Earlier(t)
           \/ m.op \in Gone /\ s = t
        /\ \/ offload' = <<>> /\ m.op # "offload_kv"
           \/ m.op = "offload_kv" /\ offload' = <<K>>
  <2>1. x # K
    BY <1>2, <1>4
  <2> HIDE DEF K, x
  <2> QED BY <1>1, <1>2, <1>4, <2>1, Offloading DEF Inv, K, x, Copying
<1>6. /\ s[2] \in MicroBatchIds /\ s[1] \in Int /\ s[2] \in Int /\ s = <<s[1], s[2]>>
      /\ x.layer = s[1] /\ x.mb = s[2] /\ s[1] >= 0 /\ num_mb > 1
  BY <1>5, TurnParts, ItsFields, Sizes DEF GoesOut
<1>7. Copying(m) => s[2] # t[2] /\ (s[2] < t[2] => s[1] = t[1]) /\ (~(s[2] < t[2]) => s[1] = t[1] - 1)
  BY <1>1, <1>3, <1>5, <1>6, EarlierTurn DEF Copying
<1>8. Out(s)
  <2>1. Head(offload) \in Range(offload)
    <3>1. offload = <<x>> \/ offload = <<x, K>>
      BY <1>2, Offloading DEF Inv
    <3> HIDE DEF x, K
    <3>2. x \in Range(offload)
      <4>1. x \in Range(<<x>>) /\ x \in Range(<<x, K>>)
        BY OneElement, TwoElements
      <4> QED BY <3>1, <4>1
    <3> QED BY <3>2 DEF x
  <2> QED BY <1>5, <2>1 DEF Out
<1> HIDE DEF K, x
<1>9. /\ LayerDone(s[1], s[2])
      /\ hidden_states_cpu' = [hidden_states_cpu EXCEPT ![s[2]] = output[s[2]]]
      /\ UNCHANGED <<pos, cur, load, prefetch, gpu_page, first_page, pages, kv_data, kv_data_cpu, output, loaded>>
  BY <1>6 DEF RunOffloadHidden, x
<1>10. output[s[2]] \in {s[1], Clobbered}
  <2>1. Computed(s)
    BY <1>3, <1>5, <1>8 DEF Inv, OutputInv
  <2>2. Its("moe", s).op = "moe" /\ Its("moe", s).layer = s[1] /\ Its("moe", s).mb = s[2]
    BY ItsFields
  <2>3. Its("moe", s) \notin Range(cur)
    BY <1>9, <2>2 DEF LayerDone, Queued
  <2> QED BY <2>1, <2>3 DEF Computed
<1>11. TypeInv'
  BY <1>6, <1>9 DEF TypeInv
<1>12. CurInv(m, t)'
  BY <1>9 DEF Inv, CurInv, Attended
<1>13. OffloadInv(m, t)'
  BY <1>5 DEF OffloadInv, Leaving, Copying, K
<1>14. KVInv(m, t)'
  BY <1>9 DEF Inv, KVInv, KVOffloaded, Attended
<1>15. LoadInv(m, t)'
  BY <1>9 DEF Inv, LoadInv, Loading, Attended
<1>16. PageInv(m, t)'
  BY <1>9 DEF Inv, PageInv, PagesApart, PageTaken, Attended
<1>17. HiddenInv(m, t)'
  <2>1. ASSUME NEW j \in MicroBatchIds, GoesOut(<<Sent(m, t, j), j>>)
        PROVE  hidden_states_cpu'[j] \in {Sent(m, t, j), Clobbered}
    <3>1. CASE j = s[2]
      <4>1. Sent(m, t, j) = s[1]
        BY <1>1, <1>5, <1>6, <1>7, <3>1 DEF Sent, Copying
      <4> QED BY <1>9, <1>10, <3>1, <4>1 DEF TypeInv
    <3>2. CASE j # s[2]
      <4> DEFINE u == <<Sent(m, t, j), j>>
      <4>1. hidden_states_cpu'[j] = hidden_states_cpu[j]
        BY <1>9, <3>2 DEF TypeInv
      <4>2. ~Out(u)
        <5>1. SUFFICES ASSUME Out(u) PROVE FALSE
          OBVIOUS
        <5>2. u \in Turns
          <6>1. Sent(m, t, j) \in -1 .. N - 1
            BY <2>1, Sizes DEF GoesOut
          <6> QED BY <6>1 DEF Turns
        <5>3. u = s
          <6> HIDE DEF u
          <6>1. \/ Copying(m) /\ u = Earlier(t)
                \/ m.op \in Gone /\ u = t
            BY <5>1, <5>2, Outs DEF Inv
          <6> QED BY <1>5, <6>1 DEF Copying
        <5> QED BY <3>2, <5>3
      <4> QED BY <2>1, <4>1, <4>2 DEF Inv, HiddenInv
    <3> QED BY <3>1, <3>2
  <2> QED BY <2>1 DEF HiddenInv
<1>18. OutputInv(t)'
  <2>1. ~Out(Earlier(t))'
    <3>1. offload' = <<>> \/ offload' = <<K>>
      BY <1>5
    <3>2. Its("offload_hidden", Earlier(t)).op = "offload_hidden"
      BY DEF Its, Op
    <3> QED BY <1>4, <3>1, <3>2, NoElements, OneElement DEF Out, K
  <2> QED BY <1>9, <2>1 DEF Inv, OutputInv, Computed
<1> QED BY <1>11, <1>12, <1>13, <1>14, <1>15, <1>16, <1>17, <1>18 DEF Inv

LEMMA LoadHiddenStep ==
  ASSUME NEW m, Legal(m), NEW t, t = Turning(m), TypeInv, Inv(m, t), RunLoadHidden
  PROVE  TypeInv' /\ Inv(m, t)'
<1> DEFINE Come == {"load_hidden", "prefetch"}
<1>1. /\ t \in Turns /\ t[2] \in MicroBatchIds /\ t[1] \in Int /\ t[2] \in Int /\ t = <<t[1], t[2]>>
  BY CallTurn, TurnParts
<1>2. load # <<>> /\ load' = Tail(load)
  BY DEF RunLoadHidden
<1>3. PICK u \in Turns :
        /\ load = <<Its("load_hidden", u)>> /\ ComesIn(u)
        /\ \/ Copying(m) /\ u = t /\ ~Attended(t)
           \/ m.op \in Come /\ ~Copying(m) /\ u = Later(t)
  <2>1. CASE Copying(m)
    BY <1>1, <1>2, <2>1 DEF Inv, LoadInv, Loading
  <2>2. CASE ~Copying(m)
    <3>1. m.op \in Come
      BY <1>2, <2>2 DEF Inv, LoadInv
    <3>2. Loading(Later(t))
      BY <3>1 DEF Inv, LoadInv
    <3>3. ComesIn(Later(t)) /\ load = <<Its("load_hidden", Later(t))>>
      BY <1>2, <3>2 DEF Loading
    <3>4. Later(t) \in Turns
      <4>1. Later(t)[1] < N
        BY <3>3, Sizes DEF ComesIn
      <4> QED BY <1>1, <4>1, LaterTurn
    <3> QED BY <2>2, <3>1, <3>3, <3>4
  <2> QED BY <2>1, <2>2
<1>4. /\ u[2] \in MicroBatchIds /\ u[1] \in Int /\ u[2] \in Int /\ u = <<u[1], u[2]>>
      /\ num_mb > 1 /\ u[1] >= 1 /\ u[1] <= N - 1
  BY <1>3, TurnParts, Sizes DEF ComesIn
<1>5. /\ loaded' = [loaded EXCEPT ![u[2]] = hidden_states_cpu[u[2]]]
      /\ load' = <<>>
      /\ UNCHANGED <<pos, cur, offload, prefetch, gpu_page, first_page, pages, kv_data, kv_data_cpu, output,
                     hidden_states_cpu>>
  <2> DEFINE L == Its("load_hidden", u)
  <2>1. L.mb = u[2]
    BY ItsFields
  <2>2. load = <<L>>
    BY <1>3
  <2> HIDE DEF L
  <2>3. Head(load) = L /\ Tail(load) = <<>>
    BY <2>2, OneElement
  <2> QED BY <1>2, <2>1, <2>3 DEF RunLoadHidden
<1>6. Sent(m, t, u[2]) = u[1] - 1 /\ (m.op \in Come => t[2] # u[2])
  <2>1. CASE Copying(m)
    BY <1>1, <1>3, <1>4, <2>1 DEF Sent, Copying
  <2>2. CASE ~Copying(m)
    <3>1. m.op \in Come /\ u = Later(t)
      BY <1>3, <2>2
    <3>2. CASE t[2] + 1 < num_mb
      <4>1. u = <<t[1], t[2] + 1>>
        BY <3>1, <3>2 DEF Later
      <4>2. u[1] = t[1] /\ u[2] = t[2] + 1
        BY <4>1
      <4> QED BY <1>1, <4>2 DEF Sent
    <3>3. CASE ~(t[2] + 1 < num_mb)
      <4>1. u = <<t[1] + 1, 0>>
        BY <3>1, <3>3 DEF Later
      <4>2. u[1] = t[1] + 1 /\ u[2] = 0
        BY <4>1
      <4>3. t[2] > 0
        BY <1>1, <1>4, <3>3, Sizes
      <4> QED BY <1>1, <4>2, <4>3 DEF Sent
    <3> QED BY <3>2, <3>3
  <2> QED BY <2>1, <2>2
<1>7. hidden_states_cpu[u[2]] \in {u[1] - 1, Clobbered}
  <2> DEFINE s == <<u[1] - 1, u[2]>>
  <2>0. s[2] = u[2]
    OBVIOUS
  <2>1. s \in Turns /\ GoesOut(s)
    <3>1. u[1] - 1 \in -1 .. N - 1 /\ u[1] - 1 \in 0 .. N - 2
      BY <1>4, Sizes
    <3> QED BY <1>4, <3>1 DEF GoesOut, Turns
  <2>2. ~Out(s)
    <3>1. SUFFICES ASSUME Out(s) PROVE FALSE
      OBVIOUS
    <3>2. /\ t[1] >= 0
          /\ \/ Copying(m) /\ s = Earlier(t)
             \/ m.op \in {"offload_hidden", "load_hidden", "prefetch"} /\ s = t
      <4> HIDE DEF s
      <4> QED BY <2>1, <3>1, Outs DEF Inv
    <3>3. CASE Copying(m)
      <4>1. u = t /\ s = Earlier(t)
        BY <1>3, <3>2, <3>3 DEF Copying
      <4>2. Earlier(t)[2] # t[2]
        BY <1>1, <1>4, <3>2, EarlierTurn
      <4> HIDE DEF s
      <4> QED BY <2>0, <4>1, <4>2
    <3>4. CASE ~Copying(m)
      <4>1. m.op \in Come /\ s = t
        BY <1>3, <3>2, <3>4
      <4> HIDE DEF s
      <4> QED BY <1>6, <2>0, <4>1
    <3> QED BY <3>3, <3>4
  <2>3. HiddenInv(m, t)
    BY DEF Inv
  <2> QED BY <1>4, <1>6, <2>1, <2>2, <2>3 DEF HiddenInv
<1>8. TypeInv'
  BY <1>4, <1>5 DEF TypeInv
<1>9. loaded'[u[2]] \in {u[1] - 1, Clobbered}
  BY <1>4, <1>5, <1>7 DEF TypeInv
<1>10. Loading(u)'
  BY <1>5, <1>9 DEF Loading
<1>11. LoadInv(m, t)'
  BY <1>3, <1>5, <1>10 DEF LoadInv, Attended, Copying
<1>12. CurInv(m, t)' /\ OffloadInv(m, t)' /\ KVInv(m, t)' /\ PageInv(m, t)'
  <2>1. CurInv(m, t)'
    BY <1>5 DEF Inv, CurInv, Attended
  <2>2. OffloadInv(m, t)'
    BY <1>5 DEF Inv, OffloadInv, Leaving, Attended
  <2>3. KVInv(m, t)'
    BY <1>5 DEF Inv, KVInv, KVOffloaded, Attended
  <2>4. PageInv(m, t)'
    BY <1>5 DEF Inv, PageInv, PagesApart, PageTaken, Attended
  <2> QED BY <2>1, <2>2, <2>3, <2>4
<1>13. HiddenInv(m, t)' /\ OutputInv(t)'
  BY <1>5 DEF Inv, HiddenInv, OutputInv, Out, Computed
<1> QED BY <1>8, <1>11, <1>12, <1>13 DEF Inv

\* Consecutive rows of experts go to different pages.
LEMMA Pages ==
  ASSUME NEW r \in Int, r >= 0, first_page \in {0, 1}
  PROVE  /\ PageTaken(r) \in {0, 1} /\ PageTaken(r - 1) \in {0, 1}
         /\ PageTaken(r) # PageTaken(r - 1)
         /\ 1 - PageTaken(r) = PageTaken(r + 1)
BY DEF PageTaken

LEMMA PrefetchStep ==
  ASSUME NEW m, Legal(m), NEW t, t = Turning(m), TypeInv, Inv(m, t), RunPrefetch
  PROVE  TypeInv' /\ Inv(m, t)'
<1> DEFINE r == Fetched(m, t)
           x == Head(prefetch)
<1>1. t \in Turns /\ t[1] \in Int
  BY CallTurn, TurnParts
<1>2. prefetch # <<>> /\ prefetch = <<x>> /\ x.layer = r /\ x.page = PageTaken(r)
  BY DEF RunPrefetch, Inv, PageInv, PagesApart, PageTaken
<1>3. r \in Int /\ r >= 0
  <2>1. m.op = "prefetch" \/ Copying(m)
    BY <1>2 DEF Inv, PageInv, PagesApart, PageTaken
  <2>2. CASE m.op = "prefetch"
    BY <2>2, Sizes DEF Legal, Fetched
  <2>3. CASE Copying(m)
    BY <1>1, <2>3, CallTurn DEF Fetched, Copying
  <2> QED BY <2>1, <2>2, <2>3
<1>4. /\ pages' = [pages EXCEPT ![PageTaken(r)] = r]
      /\ prefetch' = <<>>
      /\ UNCHANGED <<pos, cur, offload, load, gpu_page, first_page, kv_data, kv_data_cpu, output, loaded,
                     hidden_states_cpu>>
  <2>1. Tail(prefetch) = <<>>
    <3> HIDE DEF x
    <3> QED BY <1>2, OneElement
  <2> QED BY <1>2, <2>1 DEF RunPrefetch
<1>5. PageTaken(r) \in {0, 1} /\ PageTaken(r - 1) \in {0, 1} /\ PageTaken(r) # PageTaken(r - 1)
  BY <1>3, Pages DEF TypeInv
<1>6. TypeInv'
  BY <1>3, <1>4, <1>5 DEF TypeInv
<1>7. PageInv(m, t)'
  <2>1. pages'[PageTaken(r)] = r /\ pages'[PageTaken(r - 1)] = pages[PageTaken(r - 1)]
    BY <1>4, <1>5 DEF TypeInv
  <2>2. r' = r /\ \A n \in Int : PageTaken(n)' = PageTaken(n)
    BY <1>4 DEF Fetched, PageTaken
  <2> HIDE DEF r
  <2>3. gpu_page = PageTaken(r + 1) /\ (r >= 1 => pages[PageTaken(r - 1)] = r - 1) /\ PagesApart
    BY DEF Inv, PageInv, r
  <2>4. PagesApart'
    <3>1. \A p \in {0, 1} : pages'[p] = pages[p] \/ (pages'[p] = r /\ p = PageTaken(r))
      BY <1>4, <1>5 DEF TypeInv
    <3> QED BY <1>3, <2>2, <2>3, <3>1 DEF PagesApart
  <2>5. r + 1 \in Int /\ r - 1 \in Int
    BY <1>3
  <2> QED BY <1>3, <1>4, <2>1, <2>2, <2>3, <2>4, <2>5 DEF PageInv, r
<1>8. CurInv(m, t)' /\ OffloadInv(m, t)' /\ KVInv(m, t)' /\ LoadInv(m, t)'
  <2>1. CurInv(m, t)'
    BY <1>4 DEF Inv, CurInv, Attended
  <2>2. OffloadInv(m, t)'
    BY <1>4 DEF Inv, OffloadInv, Leaving, Attended
  <2>3. KVInv(m, t)'
    BY <1>4 DEF Inv, KVInv, KVOffloaded, Attended
  <2>4. LoadInv(m, t)'
    BY <1>4 DEF Inv, LoadInv, Loading, Attended
  <2> QED BY <2>1, <2>2, <2>3, <2>4
<1>9. HiddenInv(m, t)' /\ OutputInv(t)'
  BY <1>4 DEF Inv, HiddenInv, OutputInv, Out, Computed
<1> QED BY <1>6, <1>7, <1>8, <1>9 DEF Inv

-----------------------------------------------------------------------------
(* The main thread: call y follows call m *)

LEMMA LayerStep ==
  ASSUME NEW m, Legal(m), NEW t, t = Turning(m), TypeInv, Inv(m, t),
         NEW y, y = After(m), y.op = "layer", NEW u, u = Turning(y), Now = y, layer
  PROVE  TypeInv' /\ Inv(y, u)'
<1> DEFINE A == Its("attention", u)
           M == Its("moe", u)
           O == Its("moe", t)
<1>1. /\ Legal(y) /\ u = Later(t) /\ u[1] < N /\ y = Its("layer", u)
      /\ m.op \in {"prefetch", "offload_hidden", "load_hidden"}
      /\ m.op = "prefetch" => m.layer = u[1] /\ u[2] = 0
      /\ m.op # "prefetch" => u[2] # 0 /\ u[1] = t[1]
      /\ m.op = "offload_hidden" => ~ComesIn(u)
  BY NextCall
<1>2. /\ t \in Turns /\ t[1] \in Int /\ t[2] \in Int /\ t[2] >= 0 /\ t[2] < num_mb
  BY CallTurn, TurnParts
<1>3. /\ u \in Turns /\ Earlier(u) = t /\ u[1] \in Int /\ u[2] \in Int
  BY <1>1, <1>2, LaterTurn, TurnParts
<1>4. y.layer = u[1] /\ y.mb = u[2] /\ u[1] >= 0
  <2>1. y.layer = u[1] /\ y.mb = u[2]
    BY <1>1, <1>3, ItsFields
  <2>2. u[1] >= 0
    BY <1>1, CallTurn
  <2> QED BY <2>1, <2>2
<1>5. /\ cur' = cur \o <<A, M>>
      /\ UNCHANGED <<offload, load, prefetch, gpu_page, first_page, buffers>>
  <2>1. A = Op("attention", Now.layer, Now.mb) /\ M = Op("moe", Now.layer, Now.mb)
    BY <1>4 DEF Its
  <2> QED BY <2>1 DEF layer
<1>6. UNCHANGED <<first_page, pages, kv_data, kv_data_cpu, output, loaded, hidden_states_cpu>>
  BY <1>5 DEF buffers
<1>7. Copying(y) /\ ~Copying(m)
  BY <1>1 DEF Copying
<1> HIDE DEF A, M, O
<1>8. \/ cur = <<>> /\ cur' = <<A, M>> /\ Range(cur') = {A, M}
      \/ t[1] >= 0 /\ cur = <<O>> /\ cur' = <<O, A, M>> /\ Range(cur') = {O, A, M} /\ Range(cur) = {O}
  <2>1. cur = <<>> \/ (t[1] >= 0 /\ cur = <<O>>)
    BY <1>7 DEF Inv, CurInv, O
  <2>2. CASE cur = <<>>
    BY <1>5, <2>2, TwoElements
  <2>3. CASE t[1] >= 0 /\ cur = <<O>>
    <3>1. <<O>> \o <<A, M>> = <<O, A, M>>
      BY OneAndTwo
    <3>2. Range(<<O, A, M>>) = {O, A, M}
      BY ThreeElements
    <3>3. Range(<<O>>) = {O}
      BY OneElement
    <3> QED BY <1>5, <2>3, <3>1, <3>2, <3>3
  <2> QED BY <2>1, <2>2, <2>3
<1>9. ~Attended(u)' /\ M \in Range(cur')
  <2>1. <<A, M>> # <<>> /\ <<A, M>> # <<M>> /\ <<O, A, M>> # <<>> /\ <<O, A, M>> # <<M>>
    OBVIOUS
  <2> QED BY <1>8, <2>1 DEF Attended, M
<1>10. TypeInv'
  BY <1>6 DEF TypeInv
<1>11. CurInv(y, u)'
  BY <1>3, <1>7, <1>8 DEF CurInv, A, M, O
<1>12. OffloadInv(y, u)'
  <2>1. Leaving(t)
    BY <1>1 DEF Inv, OffloadInv
  <2> QED BY <1>3, <1>5, <2>1 DEF OffloadInv, Leaving
<1>13. KVInv(y, u)'
  BY <1>6, <1>9 DEF Inv, KVInv, KVOffloaded
<1>14. LoadInv(y, u)'
  <2>1. Loading(u)
    <3>1. CASE m.op = "offload_hidden"
      BY <1>1, <1>7, <3>1 DEF Inv, LoadInv, Loading
    <3>2. CASE m.op # "offload_hidden"
      BY <1>1, <3>2 DEF Inv, LoadInv
    <3> QED BY <3>1, <3>2
  <2> QED BY <1>5, <1>6, <1>7, <1>9, <2>1 DEF LoadInv, Loading, Copying
<1>15. PageInv(y, u)'
  <2>1. Fetched(m, t) = u[1] /\ Fetched(y, u) = u[1]
    BY <1>1, <1>7 DEF Fetched
  <2>2. prefetch # <<>> => m.op = "prefetch" /\ u[2] = 0
    BY <1>1, <1>7 DEF Inv, PageInv, PagesApart, PageTaken
  <2> QED BY <1>5, <1>6, <1>7, <1>9, <2>1, <2>2 DEF Inv, PageInv, PagesApart, PageTaken, Fetched
<1>16. HiddenInv(y, u)'
  <2>1. ASSUME NEW j \in MicroBatchIds PROVE Sent(y, u, j) = Sent(m, t, j)
    <3>1. j \in Int /\ j >= 0 /\ j <= num_mb - 1
      BY Sizes DEF MicroBatchIds
    <3>2. Sent(m, t, j) = (IF j <= t[2] THEN t[1] ELSE t[1] - 1)
      BY <1>1, <1>2, <3>1 DEF Sent
    <3>3. Sent(y, u, j) = (IF j < u[2] THEN u[1] ELSE u[1] - 1)
      BY <1>3, <1>7, <3>1 DEF Sent, Copying
    <3>4. CASE t[2] + 1 < num_mb
      <4>1. u = <<t[1], t[2] + 1>>
        BY <1>1, <3>4 DEF Later
      <4> QED BY <1>2, <3>1, <3>2, <3>3, <4>1
    <3>5. CASE ~(t[2] + 1 < num_mb)
      <4>1. u = <<t[1] + 1, 0>>
        BY <1>1, <3>5 DEF Later
      <4> QED BY <1>2, <3>1, <3>2, <3>3, <3>5, <4>1, Sizes
    <3> QED BY <3>4, <3>5
  <2>2. ASSUME NEW j \in MicroBatchIds, GoesOut(<<Sent(m, t, j), j>>), ~Out(<<Sent(m, t, j), j>>)
        PROVE  hidden_states_cpu[j] \in {Sent(m, t, j), Clobbered}
    BY <2>2 DEF Inv, HiddenInv
  <2>3. \A s : Out(s)' <=> Out(s)
    BY <1>5 DEF Out
  <2>4. ASSUME NEW j \in MicroBatchIds, GoesOut(<<Sent(y, u, j), j>>), ~Out(<<Sent(y, u, j), j>>)'
        PROVE  hidden_states_cpu'[j] \in {Sent(y, u, j), Clobbered}
    BY <1>6, <2>1, <2>2, <2>3, <2>4
  <2> QED BY <2>4 DEF HiddenInv
<1>17. OutputInv(u)'
  <2>1. Computed(u)'
    BY <1>9 DEF Computed, M
  <2>2. ASSUME Out(t)' PROVE Computed(t)'
    <3>1. Out(t)
      BY <1>5, <2>2 DEF Out
    <3>2. Computed(t)
      BY <1>2, <3>1, Outs DEF Inv, OutputInv
    <3>3. O \in Range(cur) => O \in Range(cur')
      BY <1>8, NoElements
    <3> QED BY <1>6, <3>2, <3>3 DEF Computed, O
  <2> QED BY <1>3, <2>1, <2>2 DEF OutputInv
<1> QED BY <1>10, <1>11, <1>12, <1>13, <1>14, <1>15, <1>16, <1>17 DEF Inv

LEMMA SampleStep ==
  ASSUME NEW m, Legal(m), NEW t, t = Turning(m), TypeInv, Inv(m, t),
         NEW y, y = After(m), y.op = "sample", NEW u, u = Turning(y), Now = y, sample
  PROVE  TypeInv' /\ Inv(y, u)'
<1>1. u = t /\ m.op = "layer" /\ Copying(m) /\ Copying(y)
  BY NextCall DEF Copying
<1>2. UNCHANGED <<cur, offload, load, prefetch, gpu_page, first_page, pages, kv_data, kv_data_cpu, output,
                  loaded, hidden_states_cpu>>
  BY DEF sample, streams, buffers
<1>3. TypeInv'
  BY <1>2 DEF TypeInv
<1>4. CurInv(y, u)'
  BY <1>1, <1>2 DEF Inv, CurInv, Attended
<1>5. OffloadInv(y, u)'
  BY <1>1, <1>2 DEF Inv, OffloadInv, Leaving
<1>6. KVInv(y, u)'
  BY <1>1, <1>2 DEF Inv, KVInv, KVOffloaded, Attended
<1>7. LoadInv(y, u)'
  BY <1>1, <1>2 DEF Inv, LoadInv, Loading, Attended
<1>8. PageInv(y, u)'
  <2>1. Fetched(y, u) = Fetched(m, t)
    BY <1>1 DEF Fetched
  <2> QED BY <1>1, <1>2, <2>1 DEF Inv, PageInv, PagesApart, PageTaken, Attended, Fetched
<1>9. HiddenInv(y, u)'
  <2>1. \A j : Sent(y, u, j) = Sent(m, t, j)
    BY <1>1 DEF Sent
  <2> QED BY <1>2, <2>1 DEF Inv, HiddenInv, Out, Sent
<1>10. OutputInv(u)'
  BY <1>1, <1>2 DEF Inv, OutputInv, Out, Computed
<1> QED BY <1>3, <1>4, <1>5, <1>6, <1>7, <1>8, <1>9, <1>10 DEF Inv

LEMMA OffloadKVCall ==
  ASSUME NEW m, Legal(m), NEW t, t = Turning(m), TypeInv, Inv(m, t),
         NEW y, y = After(m), y.op = "offload_kv", NEW u, u = Turning(y), Now = y, offload_kv_cache
  PROVE  TypeInv' /\ Inv(y, u)'
<1> DEFINE K == Its("offload_kv", t)
           G == Its("offload_hidden", Earlier(t))
<1>1. u = t /\ y = K /\ m.op \in {"layer", "sample"} /\ Copying(m) /\ Copying(y)
  BY NextCall DEF Copying
<1>2. offload' = Append(offload, K)
      /\ UNCHANGED <<cur, load, prefetch, gpu_page, first_page, pages, kv_data, kv_data_cpu, output, loaded,
                     hidden_states_cpu>>
  BY <1>1 DEF offload_kv_cache, buffers
<1>3. t \in Turns /\ t[1] >= 0
  BY <1>1, CallTurn
<1>4. Earlier(t) \in Turns /\ K.op = "offload_kv" /\ K \notin {G}
  BY <1>3, EarlierTurn, ItsFields
<1> HIDE DEF K, G
<1>5. \/ offload = <<>> /\ offload' = <<K>> /\ Range(offload') = {K} /\ Range(offload) = {}
      \/ /\ GoesOut(Earlier(t)) /\ offload = <<G>> /\ Range(offload) = {G}
         /\ offload' = <<G, K>> /\ Range(offload') = {G, K}
  <2>1. offload = <<>> \/ (GoesOut(Earlier(t)) /\ offload = <<G>>)
    BY <1>1 DEF Inv, OffloadInv, Leaving, G
  <2>2. CASE offload = <<>>
    BY <1>2, <2>2, OneElement, NoElements
  <2>3. CASE GoesOut(Earlier(t)) /\ offload = <<G>>
    <3>1. Append(<<G>>, K) = <<G, K>> /\ Range(<<G, K>>) = {G, K}
      BY TwoElements
    <3>2. Range(<<G>>) = {G}
      BY OneElement
    <3> QED BY <1>2, <2>3, <3>1, <3>2
  <2> QED BY <2>1, <2>2, <2>3
<1>6. ASSUME NEW s PROVE Out(s)' <=> Out(s)
  <2>1. Its("offload_hidden", s) # K
    <3>1. Its("offload_hidden", s).op = "offload_hidden"
      BY DEF Its, Op
    <3> QED BY <1>4, <3>1
  <2> QED BY <1>5, <2>1 DEF Out
<1>7. TypeInv'
  BY <1>2 DEF TypeInv
<1>8. CurInv(y, u)'
  BY <1>1, <1>2 DEF Inv, CurInv, Attended
<1>9. OffloadInv(y, u)'
  <2>1. y.op = "offload_kv"
    OBVIOUS
  <2>2. OffloadInv(y, t)'
    BY <1>5, <2>1 DEF OffloadInv, K, G
  <2> QED BY <1>1, <2>2
<1>10. KVInv(y, u)'
  BY <1>1, <1>2 DEF Inv, KVInv, KVOffloaded, Attended
<1>11. LoadInv(y, u)'
  BY <1>1, <1>2 DEF Inv, LoadInv, Loading, Attended
<1>12. PageInv(y, u)'
  <2>1. Fetched(y, u) = Fetched(m, t)
    BY <1>1 DEF Fetched
  <2> QED BY <1>1, <1>2, <2>1 DEF Inv, PageInv, PagesApart, PageTaken, Attended, Fetched
<1>13. HiddenInv(y, u)'
  <2>1. \A j : Sent(y, u, j) = Sent(m, t, j)
    BY <1>1 DEF Sent
  <2> QED BY <1>2, <1>6, <2>1 DEF Inv, HiddenInv, Sent
<1>14. OutputInv(u)'
  BY <1>1, <1>2, <1>6 DEF Inv, OutputInv, Computed
<1> QED BY <1>7, <1>8, <1>9, <1>10, <1>11, <1>12, <1>13, <1>14 DEF Inv

\* Nothing of the turn but its MoE is left when the wait is over.
LEMMA KVCopiedStep ==
  ASSUME NEW m, Legal(m), NEW t, t = Turning(m), TypeInv, Inv(m, t),
         NEW y, y = After(m), y.op = "kv_copied", NEW u, u = Turning(y), Now = y, kv_copied
  PROVE  TypeInv' /\ Inv(y, u)'
<1> DEFINE K == Its("offload_kv", t)
           G == Its("offload_hidden", Earlier(t))
<1>1. u = t /\ m.op = "offload_kv" /\ Copying(m) /\ ~Copying(y)
  BY NextCall DEF Copying
<1>2. KVCopied
      /\ UNCHANGED <<cur, offload, load, prefetch, gpu_page, first_page, pages, kv_data, kv_data_cpu, output,
                     loaded, hidden_states_cpu>>
  BY DEF kv_copied, streams, buffers
<1>3. t \in Turns /\ t[1] >= 0 /\ K.op = "offload_kv"
  BY <1>1, CallTurn, ItsFields
<1>4. K \notin Range(offload)
  BY <1>2, <1>3 DEF KVCopied
<1>5. offload = <<>> /\ Attended(t)
  <2> HIDE DEF K, G
  <2>1. CASE offload = <<>>
    <3>1. <<K>> # <<>> /\ <<G, K>> # <<>>
      OBVIOUS
    <3> QED BY <1>1, <2>1, <3>1 DEF Inv, OffloadInv, K, G
  <2>2. CASE offload # <<>>
    <3>1. K \in Range(offload)
      BY <1>1, <2>2, Offloading DEF Inv, K, G
    <3> QED BY <1>4, <3>1
  <2> QED BY <2>1, <2>2
<1>6. TypeInv'
  BY <1>2 DEF TypeInv
<1>7. CurInv(y, u)'
  BY <1>1, <1>2, <1>3, <1>5 DEF CurInv, Attended
<1>8. OffloadInv(y, u)'
  BY <1>1, <1>2, <1>5 DEF OffloadInv
<1>9. KVInv(y, u)'
  BY <1>1, <1>2 DEF Inv, KVInv, KVOffloaded
<1>10. LoadInv(y, u)'
  BY <1>1, <1>2, <1>5 DEF Inv, LoadInv
<1>11. PageInv(y, u)'
  <2>1. Fetched(y, u) = Fetched(m, t)
    BY <1>1 DEF Fetched
  <2> QED BY <1>1, <1>2, <1>5, <2>1 DEF Inv, PageInv, PagesApart, PageTaken, Fetched
<1>12. HiddenInv(y, u)'
  <2>1. \A j : Sent(y, u, j) = Sent(m, t, j)
    BY <1>1 DEF Sent
  <2> QED BY <1>2, <2>1 DEF Inv, HiddenInv, Out, Sent
<1>13. OutputInv(u)'
  BY <1>1, <1>2 DEF Inv, OutputInv, Out, Computed
<1> QED BY <1>6, <1>7, <1>8, <1>9, <1>10, <1>11, <1>12, <1>13 DEF Inv

LEMMA OffloadHiddenCall ==
  ASSUME NEW m, Legal(m), NEW t, t = Turning(m), TypeInv, Inv(m, t),
         NEW y, y = After(m), y.op = "offload_hidden", NEW u, u = Turning(y), Now = y,
         offload_hidden_prefill
  PROVE  TypeInv' /\ Inv(y, u)'
<1> DEFINE H == Its("offload_hidden", t)
<1>1. u = t /\ y = H /\ m.op = "kv_copied" /\ ~Copying(m) /\ ~Copying(y) /\ GoesOut(t)
  BY NextCall DEF Copying
<1>2. offload = <<>>
  BY <1>1 DEF Inv, OffloadInv
<1>3. t \in Turns /\ t[1] >= 0 /\ t[2] \in Int
  BY <1>1, CallTurn, TurnParts
<1>4. offload' = <<H>> /\ Range(offload') = {H} /\ Range(offload) = {}
      /\ UNCHANGED <<cur, load, prefetch, gpu_page, first_page, pages, kv_data, kv_data_cpu, output, loaded,
                     hidden_states_cpu>>
  <2>1. offload' = Append(offload, H)
        /\ UNCHANGED <<cur, load, prefetch, gpu_page, first_page, pages, kv_data, kv_data_cpu, output, loaded,
                       hidden_states_cpu>>
    BY <1>1 DEF offload_hidden_prefill, buffers
  <2> HIDE DEF H
  <2> QED BY <1>2, <2>1, OneElement, NoElements
<1>5. TypeInv'
  BY <1>4 DEF TypeInv
<1>6. CurInv(y, u)'
  BY <1>1, <1>4 DEF Inv, CurInv
<1>7. OffloadInv(y, u)'
  BY <1>1, <1>4 DEF OffloadInv, Leaving
<1>8. KVInv(y, u)'
  BY <1>1, <1>4 DEF Inv, KVInv, KVOffloaded
<1>9. LoadInv(y, u)'
  BY <1>1, <1>4 DEF Inv, LoadInv
<1>10. PageInv(y, u)'
  <2>1. Fetched(y, u) = Fetched(m, t)
    BY <1>1 DEF Fetched
  <2> QED BY <1>1, <1>4, <2>1 DEF Inv, PageInv, PagesApart, PageTaken, Fetched
<1>11. HiddenInv(y, u)'
  <2>1. ASSUME NEW j \in MicroBatchIds, GoesOut(<<Sent(y, u, j), j>>), ~Out(<<Sent(y, u, j), j>>)'
        PROVE  hidden_states_cpu'[j] \in {Sent(y, u, j), Clobbered}
    <3>1. CASE j = t[2]
      <4>1. Sent(y, u, j) = t[1]
        BY <1>1, <3>1 DEF Sent
      <4>2. <<Sent(y, u, j), j>> = t
        BY <1>3, <3>1, <4>1, TurnParts
      <4> QED BY <1>4, <2>1, <4>2 DEF Out
    <3>2. CASE j # t[2]
      <4>1. Sent(y, u, j) = Sent(m, t, j)
        BY <1>1, <3>2 DEF Sent
      <4>2. ~Out(<<Sent(m, t, j), j>>)
        BY <1>4 DEF Out
      <4> QED BY <1>4, <2>1, <4>1, <4>2 DEF Inv, HiddenInv
    <3> QED BY <3>1, <3>2
  <2> QED BY <2>1 DEF HiddenInv
<1>12. OutputInv(u)'
  <2>1. ~Out(Earlier(t))'
    <3>1. Earlier(t) \in Turns /\ Earlier(t) # t
      BY <1>3, EarlierTurn
    <3>2. Its("offload_hidden", Earlier(t)) # H
      BY <1>3, <3>1, ItsFields
    <3> QED BY <1>4, <3>2 DEF Out
  <2> QED BY <1>1, <1>4, <2>1 DEF Inv, OutputInv, Computed
<1> QED BY <1>5, <1>6, <1>7, <1>8, <1>9, <1>10, <1>11, <1>12 DEF Inv

LEMMA LoadHiddenCall ==
  ASSUME NEW m, Legal(m), NEW t, t = Turning(m), TypeInv, Inv(m, t),
         NEW y, y = After(m), y.op = "load_hidden", NEW u, u = Turning(y), Now = y,
         load_hidden_prefill
  PROVE  TypeInv' /\ Inv(y, u)'
<1> DEFINE L == Its("load_hidden", Later(t))
<1>1. /\ u = t /\ y = L /\ m.op \in {"kv_copied", "offload_hidden"} /\ ~Copying(m) /\ ~Copying(y)
      /\ ComesIn(Later(t)) /\ (m.op = "kv_copied" => ~GoesOut(t))
  BY NextCall DEF Copying
<1>2. load = <<>>
  BY <1>1 DEF Inv, LoadInv
<1>3. load' = <<L>>
      /\ UNCHANGED <<cur, offload, prefetch, gpu_page, first_page, pages, kv_data, kv_data_cpu, output, loaded,
                     hidden_states_cpu>>
  <2>1. load' = Append(load, L)
        /\ UNCHANGED <<cur, offload, prefetch, gpu_page, first_page, pages, kv_data, kv_data_cpu, output, loaded,
                       hidden_states_cpu>>
    BY <1>1 DEF load_hidden_prefill, buffers
  <2> HIDE DEF L
  <2> QED BY <1>2, <2>1, OneElement
<1>4. TypeInv'
  BY <1>3 DEF TypeInv
<1>5. CurInv(y, u)'
  BY <1>1, <1>3 DEF Inv, CurInv
<1>6. OffloadInv(y, u)'
  BY <1>1, <1>3 DEF Inv, OffloadInv, Leaving
<1>7. KVInv(y, u)'
  BY <1>1, <1>3 DEF Inv, KVInv, KVOffloaded
<1>8. LoadInv(y, u)'
  BY <1>1, <1>3 DEF LoadInv, Loading
<1>9. PageInv(y, u)'
  <2>1. Fetched(y, u) = Fetched(m, t)
    BY <1>1 DEF Fetched
  <2> QED BY <1>1, <1>3, <2>1 DEF Inv, PageInv, PagesApart, PageTaken, Fetched
<1>10. HiddenInv(y, u)'
  <2>1. ASSUME NEW j \in MicroBatchIds, GoesOut(<<Sent(y, u, j), j>>)
        PROVE  Sent(y, u, j) = Sent(m, t, j)
    <3>1. CASE m.op = "kv_copied" /\ j = t[2]
      <4>1. Sent(y, u, j) = t[1]
        BY <1>1, <3>1 DEF Sent
      <4> QED BY <1>1, <2>1, <3>1, <4>1 DEF GoesOut
    <3>2. CASE m.op = "offload_hidden" \/ j # t[2]
      BY <1>1, <3>2 DEF Sent
    <3> QED BY <1>1, <3>1, <3>2
  <2>2. ASSUME NEW j \in MicroBatchIds, GoesOut(<<Sent(y, u, j), j>>), ~Out(<<Sent(y, u, j), j>>)'
        PROVE  hidden_states_cpu'[j] \in {Sent(y, u, j), Clobbered}
    <3>1. Out(<<Sent(y, u, j), j>>)' <=> Out(<<Sent(y, u, j), j>>)
      BY <1>3 DEF Out
    <3> QED BY <1>3, <2>1, <2>2, <3>1 DEF Inv, HiddenInv
  <2> QED BY <2>2 DEF HiddenInv
<1>11. OutputInv(u)'
  BY <1>1, <1>3 DEF Inv, OutputInv, Out, Computed
<1> QED BY <1>4, <1>5, <1>6, <1>7, <1>8, <1>9, <1>10, <1>11 DEF Inv

LEMMA PrefetchCall ==
  ASSUME NEW m, Legal(m), NEW t, t = Turning(m), TypeInv, Inv(m, t),
         NEW y, y = After(m), y.op = "prefetch", NEW u, u = Turning(y), Now = y, prefetch_experts
  PROVE  TypeInv' /\ Inv(y, u)'
<1> DEFINE r == t[1] + 1
           x == [layer |-> Now.layer, page |-> gpu_page]
<1>1. /\ u = t /\ y.layer = r /\ r >= 0
      /\ m.op \in {"start", "kv_copied", "load_hidden"} /\ ~Copying(m) /\ ~Copying(y)
      /\ m.op \in {"start", "kv_copied"} => ~ComesIn(Later(t)) /\ ~GoesOut(t)
  BY NextCall DEF Copying
<1>2. t \in Turns /\ t[1] \in Int /\ r \in Int /\ r - 1 = t[1]
  BY CallTurn, TurnParts
<1>3. Fetched(m, t) = t[1] /\ Fetched(y, u) = r
  BY <1>1 DEF Fetched
<1>4. /\ prefetch = <<>> /\ gpu_page = PageTaken(r) /\ PagesApart
      /\ t[1] >= 0 => pages[PageTaken(t[1])] = t[1]
  BY <1>1, <1>3 DEF Inv, PageInv
<1>5. x.layer = r /\ x.page = PageTaken(r)
  BY <1>1, <1>4
<1> HIDE DEF x
<1>6. prefetch' = <<x>> /\ Head(prefetch') = x /\ prefetch' # <<>> /\ gpu_page' = PageTaken(r + 1)
      /\ UNCHANGED <<cur, offload, load, first_page, pages, kv_data, kv_data_cpu, output, loaded,
                     hidden_states_cpu>>
  <2>1. prefetch' = Append(prefetch, x) /\ gpu_page' = 1 - gpu_page
        /\ UNCHANGED <<cur, offload, load, first_page, pages, kv_data, kv_data_cpu, output, loaded,
                       hidden_states_cpu>>
    BY DEF prefetch_experts, _get_prefetch_gpu_slice, buffers, x
  <2>2. prefetch' = <<x>>
    BY <1>4, <2>1, OneElement
  <2>3. 1 - gpu_page = PageTaken(r + 1)
    BY <1>1, <1>2, <1>4, Pages DEF TypeInv
  <2> QED BY <2>1, <2>2, <2>3, OneElement
<1>7. TypeInv'
  BY <1>6 DEF TypeInv
<1>8. CurInv(y, u)'
  BY <1>1, <1>6 DEF Inv, CurInv
<1>9. OffloadInv(y, u)'
  <2>1. Leaving(t)
    BY <1>1 DEF Inv, OffloadInv, Leaving
  <2> QED BY <1>1, <1>6, <2>1 DEF OffloadInv, Leaving
<1>10. KVInv(y, u)'
  BY <1>1, <1>6 DEF Inv, KVInv, KVOffloaded
<1>11. LoadInv(y, u)'
  <2>1. Loading(Later(t))
    <3>1. CASE m.op = "load_hidden"
      BY <3>1 DEF Inv, LoadInv
    <3>2. CASE m.op \in {"start", "kv_copied"}
      BY <1>1, <3>2 DEF Inv, LoadInv, Loading
    <3> QED BY <1>1, <3>1, <3>2
  <2> QED BY <1>1, <1>6, <2>1 DEF LoadInv, Loading
<1>12. PageInv(y, u)'
  <2>1. r >= 1 => pages[PageTaken(r - 1)] = r - 1
    BY <1>2, <1>4
  <2>2. Fetched(y, u)' = r
    BY <1>3 DEF Fetched
  <2>3. \A n \in Int : PageTaken(n)' = PageTaken(n)
    BY <1>6 DEF PageTaken
  <2>4. PagesApart'
    BY <1>4, <1>6, <2>3 DEF PagesApart
  <2>5. r + 1 \in Int /\ r - 1 \in Int
    BY <1>2
  <2> HIDE DEF r
  <2> QED BY <1>1, <1>2, <1>5, <1>6, <2>1, <2>2, <2>3, <2>4, <2>5 DEF PageInv
<1>13. HiddenInv(y, u)'
  <2>1. ASSUME NEW j \in MicroBatchIds, GoesOut(<<Sent(y, u, j), j>>)
        PROVE  Sent(y, u, j) = Sent(m, t, j)
    <3>1. CASE m.op \in {"start", "kv_copied"} /\ j = t[2]
      <4>1. Sent(y, u, j) = t[1]
        BY <1>1, <3>1 DEF Sent
      <4> QED BY <1>1, <2>1, <3>1, <4>1 DEF GoesOut
    <3>2. CASE m.op = "load_hidden" \/ j # t[2]
      BY <1>1, <3>2 DEF Sent
    <3> QED BY <1>1, <3>1, <3>2
  <2>2. ASSUME NEW j \in MicroBatchIds, GoesOut(<<Sent(y, u, j), j>>), ~Out(<<Sent(y, u, j), j>>)'
        PROVE  hidden_states_cpu'[j] \in {Sent(y, u, j), Clobbered}
    <3>1. Out(<<Sent(y, u, j), j>>)' <=> Out(<<Sent(y, u, j), j>>)
      BY <1>6 DEF Out
    <3> QED BY <1>6, <2>1, <2>2, <3>1 DEF Inv, HiddenInv
  <2> QED BY <2>2 DEF HiddenInv
<1>14. OutputInv(u)'
  BY <1>1, <1>6 DEF Inv, OutputInv, Out, Computed
<1> QED BY <1>7, <1>8, <1>9, <1>10, <1>11, <1>12, <1>13, <1>14 DEF Inv

-----------------------------------------------------------------------------
(* The invariant *)

\* The calls and the streams are where they should be at the start of a prefill.
LEMMA InitInv == Init => IInv
<1> SUFFICES ASSUME Init PROVE IInv
  OBVIOUS
<1> DEFINE t == <<-1, num_mb - 1>>
<1>1. /\ Made = Start /\ Start.op = "start" /\ Start.layer = -1 /\ Start.mb = num_mb - 1
      /\ Turning(Start) = t /\ Legal(Start)
  BY DEF Init, Made, Start, Op, Turning, Legal
<1>2. /\ cur = <<>> /\ offload = <<>> /\ load = <<>> /\ prefetch = <<>> /\ gpu_page = first_page
      /\ first_page \in {0, 1} /\ pages = [p \in {0, 1} |-> -1]
      /\ kv_data_cpu = [k \in MicroBatchIds |-> -1] /\ hidden_states_cpu = [k \in MicroBatchIds |-> -1]
  BY DEF Init
<1>3. CallInv
  <2>1. Program \in Seq(Ops) /\ Len(Program) \in Nat
    BY ProgramChain, LenProperties DEF Chains
  <2> QED BY <1>1, <2>1 DEF CallInv, Init
<1>4. TypeInv
  <2>1. \A k \in MicroBatchIds : k \in Int
    BY Sizes DEF MicroBatchIds
  <2> QED BY <2>1 DEF Init, TypeInv
<1>5. ~Copying(Start) /\ t[1] = -1
  BY <1>1 DEF Copying
<1> HIDE DEF t
<1>6. CurInv(Start, t)
  BY <1>2, <1>5 DEF CurInv
<1>7. OffloadInv(Start, t)
  BY <1>1, <1>2 DEF OffloadInv, Leaving
<1>8. KVInv(Start, t)
  BY <1>2, <1>5 DEF KVInv, KVOffloaded, Clobbered
<1>9. LoadInv(Start, t)
  BY <1>1, <1>2, <1>5 DEF LoadInv
<1>10. PageInv(Start, t)
  <2>1. Fetched(Start, t) = -1
    BY <1>1, <1>5 DEF Fetched
  <2>2. gpu_page = PageTaken(-1 + 1)
    BY <1>2 DEF PageTaken
  <2>3. PagesApart
    BY <1>2 DEF PagesApart
  <2> QED BY <1>2, <2>1, <2>2, <2>3 DEF PageInv
<1>11. HiddenInv(Start, t)
  <2>1. ASSUME NEW j \in MicroBatchIds PROVE ~GoesOut(<<Sent(Start, t, j), j>>)
    <3>1. Sent(Start, t, j) = -1 \/ Sent(Start, t, j) = -1 - 1
      BY <1>5 DEF Sent
    <3> QED BY <3>1, Sizes DEF GoesOut
  <2> QED BY <2>1 DEF HiddenInv
<1>12. OutputInv(t)
  BY <1>2, <1>5, NoElements DEF OutputInv, Out
<1>13. Inv(Start, t)
  BY <1>6, <1>7, <1>8, <1>9, <1>10, <1>11, <1>12 DEF Inv
<1> QED BY <1>1, <1>3, <1>4, <1>13 DEF IInv, t

LEMMA StepInv == IInv /\ [Next]_vars => IInv'
<1> SUFFICES ASSUME IInv, [Next]_vars PROVE IInv'
  OBVIOUS
<1>1. TypeInv /\ CallInv
  BY DEF IInv
<1>2. PICK m : m = Made /\ Inv(m, Turning(m))
  BY DEF IInv
<1>3. PICK t : t = Turning(m)
  OBVIOUS
<1>4. Legal(m) /\ Inv(m, t)
  BY <1>1, <1>2, <1>3 DEF CallInv
<1>5. ASSUME pos' = pos, TypeInv', Inv(m, t)' PROVE IInv'
  <2>1. Made' = m /\ CallInv'
    BY <1>1, <1>2, <1>5 DEF Made, CallInv
  <2> QED BY <1>3, <1>5, <2>1 DEF IInv
<1>6. ASSUME NEW op, Call(op), op # "end",
             \A y, u : y = After(m) /\ y.op = op /\ u = Turning(y) /\ Now = y => TypeInv' /\ Inv(y, u)'
      PROVE  IInv'
  <2>1. Now = After(m) /\ Now.op = op /\ Made' = Now /\ pos' \in 1 .. Len(Program) + 1
    BY <1>1, <1>2, <1>6, Calling
  <2>2. PICK y : y = After(m)
    OBVIOUS
  <2>3. PICK u : u = Turning(y)
    OBVIOUS
  <2>4. TypeInv' /\ Inv(y, u)'
    BY <1>6, <2>1, <2>2, <2>3
  <2>5. Legal(y)
    BY <1>3, <1>4, <1>6, <2>1, <2>2, NextCall
  <2>6. Made' = y
    BY <2>1, <2>2
  <2>7. CallInv'
    BY <2>1, <2>5, <2>6 DEF CallInv
  <2> QED BY <2>3, <2>4, <2>6, <2>7 DEF IInv
<1>7. CASE layer
  BY <1>1, <1>3, <1>4, <1>6, <1>7, LayerStep DEF layer
<1>8. CASE sample
  BY <1>1, <1>3, <1>4, <1>6, <1>8, SampleStep DEF sample
<1>9. CASE offload_kv_cache
  BY <1>1, <1>3, <1>4, <1>6, <1>9, OffloadKVCall DEF offload_kv_cache
<1>10. CASE kv_copied
  BY <1>1, <1>3, <1>4, <1>6, <1>10, KVCopiedStep DEF kv_copied
<1>11. CASE offload_hidden_prefill
  BY <1>1, <1>3, <1>4, <1>6, <1>11, OffloadHiddenCall DEF offload_hidden_prefill
<1>12. CASE load_hidden_prefill
  BY <1>1, <1>3, <1>4, <1>6, <1>12, LoadHiddenCall DEF load_hidden_prefill
<1>13. CASE prefetch_experts
  BY <1>1, <1>3, <1>4, <1>6, <1>13, PrefetchCall DEF prefetch_experts
<1>14. CASE RunAttention
  BY <1>1, <1>3, <1>4, <1>5, <1>14, AttentionStep DEF RunAttention
<1>15. CASE RunMoE
  BY <1>1, <1>3, <1>4, <1>5, <1>15, MoEStep DEF RunMoE
<1>16. CASE RunOffloadKV
  BY <1>1, <1>3, <1>4, <1>5, <1>16, OffloadKVStep DEF RunOffloadKV
<1>17. CASE RunOffloadHidden
  BY <1>1, <1>3, <1>4, <1>5, <1>17, OffloadHiddenStep DEF RunOffloadHidden
<1>18. CASE RunLoadHidden
  BY <1>1, <1>3, <1>4, <1>5, <1>18, LoadHiddenStep DEF RunLoadHidden
<1>19. CASE RunPrefetch
  BY <1>1, <1>3, <1>4, <1>5, <1>19, PrefetchStep DEF RunPrefetch
<1>20. CASE UNCHANGED vars
  <2>1. TypeInv'
    BY <1>1, <1>20 DEF TypeInv, vars, streams, buffers
  <2>2. Inv(m, t)'
    <3>1. CurInv(m, t)' /\ OffloadInv(m, t)'
      BY <1>4, <1>20 DEF Inv, CurInv, OffloadInv, Leaving, Attended, vars, streams, buffers
    <3>2. KVInv(m, t)' /\ LoadInv(m, t)'
      BY <1>4, <1>20 DEF Inv, KVInv, KVOffloaded, LoadInv, Loading, Attended, vars, streams, buffers
    <3>3. PageInv(m, t)'
      BY <1>4, <1>20 DEF Inv, PageInv, PagesApart, PageTaken, Attended, vars, streams, buffers
    <3>4. HiddenInv(m, t)' /\ OutputInv(t)'
      BY <1>4, <1>20 DEF Inv, HiddenInv, OutputInv, Out, Computed, vars, streams, buffers
    <3> QED BY <3>1, <3>2, <3>3, <3>4 DEF Inv
  <2> QED BY <1>5, <1>20, <2>1, <2>2 DEF vars
<1> QED BY <1>7, <1>8, <1>9, <1>10, <1>11, <1>12, <1>13, <1>14, <1>15, <1>16, <1>17, <1>18, <1>19,
           <1>20 DEF Next, Main

LEMMA Invariant == Spec => []IInv
BY InitInv, StepInv, PTL DEF Spec

-----------------------------------------------------------------------------
(* Theorems *)

\* The experts of a layer are on the page they were brought to when its MoE runs,
\* whatever the number of layers and of micro-batches and wherever the pointer
\* was: the next row's prefetch is launched when the wait for the copy of keys
\* and values has left nothing older than this MoE.  They are on the page of the
\* mapping if, and only if, the pointer was at page 0 as the step started.
THEOREM PagesInTimeAlways == Spec => []PagesInTime
<1>1. ASSUME IInv PROVE PagesInTime
  <2>1. ASSUME NEW n \in Nat, pages[PageTaken(n)] = n, PagesApart, first_page \in {0, 1}
        PROVE  pages[experts_mapping(n)] = n <=> first_page = 0
    <3>1. experts_mapping(n) \in {0, 1} /\ (PageTaken(n) = experts_mapping(n) <=> first_page = 0)
      BY <2>1 DEF PageTaken, experts_mapping
    <3> QED BY <2>1, <3>1 DEF PagesApart
  <2>2. SUFFICES ASSUME Computing
                 PROVE  Head(cur).layer \in Nat /\ pages[PageTaken(Head(cur).layer)] = Head(cur).layer
    <3>1. PagesApart /\ first_page \in {0, 1}
      BY <1>1 DEF IInv, Inv, PageInv, TypeInv
    <3> QED BY <2>1, <3>1 DEF PagesInTime
  <2>3. PICK m : m = Made /\ Inv(m, Turning(m))
    BY <1>1 DEF IInv
  <2>4. PICK t : t = Turning(m)
    OBVIOUS
  <2>5. Legal(m) /\ Inv(m, t) /\ PageInv(m, t)
    BY <1>1, <2>3, <2>4 DEF IInv, CallInv, Inv
  <2> DEFINE A == Its("attention", t)
             M == Its("moe", t)
             O == Its("moe", Earlier(t))
             r == Fetched(m, t)
  <2>6. cur # <<>> /\ Head(cur).op = "moe"
    BY <2>2 DEF Computing
  <2>7. t \in Turns /\ t[1] \in Int /\ t[2] \in Int /\ t[1] >= 0 /\ (m.op = "prefetch" => m.layer = t[1] + 1)
    BY <2>6, <2>4, <2>5, Current, CallTurn, TurnParts DEF Inv
  <2>8. A.op = "attention" /\ M.layer = t[1] /\ O.layer = Earlier(t)[1]
    BY <2>7, EarlierTurn, ItsFields
  <2>9. /\ Earlier(t)[1] = t[1] \/ Earlier(t)[1] = t[1] - 1
        /\ t[2] > 0 => Earlier(t)[1] = t[1]
        /\ Earlier(t)[1] \in Int /\ t[2] >= 0
        /\ Earlier(t)[1] = t[1] => t[2] # 0
    <3>1. Earlier(t)[2] \in Int /\ Earlier(t)[2] >= 0 /\ Earlier(t)[1] \in Int /\ t[2] >= 0
      BY <2>7, EarlierTurn, TurnParts
    <3> QED BY <2>7, <3>1, EarlierTurn
  <2>10. \/ Head(cur) = M /\ Attended(t)
         \/ Head(cur) = O /\ Copying(m) /\ Earlier(t)[1] >= 0
    <3> HIDE DEF A, M, O
    <3> QED BY <2>6, <2>4, <2>5, <2>8, Current DEF Inv, A, M, O
  <2>11. \/ m.op = "prefetch" /\ r = t[1] + 1
         \/ m.op # "prefetch" /\ r = t[1]
    BY <2>7 DEF Fetched
  <2>12. r >= 1 => pages[PageTaken(r - 1)] = r - 1
    BY <2>5 DEF PageInv
  <2>13. m.op # "prefetch" /\ (Attended(t) \/ t[2] # 0) => pages[PageTaken(r)] = r
    BY <2>5, <2>7, <2>11 DEF PageInv
  <2> HIDE DEF A, M, O, r
  <2>14. CASE Head(cur) = M /\ Attended(t)
    <3>1. CASE m.op = "prefetch"
      BY <2>7, <2>8, <2>11, <2>12, <2>14, <3>1
    <3>2. CASE m.op # "prefetch"
      BY <2>7, <2>8, <2>11, <2>13, <2>14, <3>2
    <3> QED BY <3>1, <3>2
  <2>15. CASE Head(cur) = O /\ Copying(m) /\ Earlier(t)[1] >= 0
    <3>1. m.op # "prefetch" /\ r = t[1]
      BY <2>11, <2>15 DEF Copying
    <3>2. CASE Earlier(t)[1] = t[1]
      BY <2>7, <2>8, <2>9, <2>13, <2>15, <3>1, <3>2
    <3>3. CASE Earlier(t)[1] = t[1] - 1
      BY <2>7, <2>8, <2>9, <2>12, <2>15, <3>1, <3>3
    <3> QED BY <2>9, <3>2, <3>3
  <2> QED BY <2>10, <2>14, <2>15
<1> QED BY <1>1, Invariant, PTL

\* A layer's attention starts from what the layer before left for its
\* micro-batch, though no event orders the load after the copy out: the copies
\* out of the layer before are over, but for one, when the load is launched.
THEOREM HiddenInOrderAlways == Spec => []HiddenInOrder
<1>1. ASSUME IInv PROVE HiddenInOrder
  <2>1. SUFFICES ASSUME cur # <<>>, Head(cur).op = "attention", Head(cur).layer > 0, num_mb > 1,
                        MayAttend(Head(cur).layer, Head(cur).mb)
                 PROVE  loaded[Head(cur).mb] \in {Head(cur).layer - 1, Clobbered}
    BY DEF HiddenInOrder
  <2>2. PICK m : m = Made /\ Inv(m, Turning(m))
    BY <1>1 DEF IInv
  <2>3. PICK t : t = Turning(m)
    OBVIOUS
  <2>4. Legal(m) /\ Inv(m, t)
    BY <1>1, <2>2, <2>3 DEF IInv, CallInv
  <2> DEFINE A == Its("attention", t)
             M == Its("moe", t)
             O == Its("moe", Earlier(t))
             L == Its("load_hidden", t)
  <2>5. t \in Turns /\ t[1] \in Int /\ t[1] < N /\ t[1] >= 0
    BY <2>1, <2>3, <2>4, Current, CallTurn, TurnParts DEF Inv
  <2>6. /\ A.layer = t[1] /\ A.mb = t[2] /\ M.op = "moe" /\ O.op = "moe"
        /\ L.op = "load_hidden" /\ L.layer = t[1] /\ L.mb = t[2]
    BY <2>5, EarlierTurn, ItsFields
  <2>7. Head(cur) = A /\ Copying(m)
    <3> HIDE DEF A, M, O
    <3> QED BY <2>1, <2>3, <2>4, <2>6, Current DEF Inv, A, M, O
  <2>8. ComesIn(t)
    BY <2>1, <2>5, <2>6, <2>7, Sizes DEF ComesIn
  <2>9. Loading(t)
    BY <2>4, <2>7 DEF Inv, LoadInv
  <2> HIDE DEF L
  <2>10. load # <<L>>
    <3>1. L \notin Range(load)
      BY <2>1, <2>6, <2>7 DEF MayAttend, Queued
    <3> QED BY <3>1, OneElement
  <2> QED BY <2>6, <2>7, <2>8, <2>9, <2>10 DEF Loading, L
<1> QED BY <1>1, Invariant, PTL

\* Keys and values reach the pool from the half that their layer's attention
\* wrote: it is written again two turns later, and the main thread waits for
\* each turn's copy before it makes a call of the next.
THEOREM KVOffloadedAlways == Spec => []KVOffloaded
<1>1. IInv => KVOffloaded
  BY DEF IInv, Inv, KVInv
<1> QED BY <1>1, Invariant, PTL
=============================================================================
