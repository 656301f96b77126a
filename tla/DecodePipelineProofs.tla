------------------------ MODULE DecodePipelineProofs ------------------------
(***************************************************************************)
(* Proofs about DecodePipeline, for every even number of layers, every     *)
(* number of micro-batches from three on and every number of decode steps: *)
(* the pages are there before the MoE, the attention output is that of its *)
(* layer, no slot of the pin is filled again too early, and a slot of a    *)
(* page is overwritten too early at one place only.                        *)
(*                                                                         *)
(* The calls of a step are counted by turns, a turn being one micro-batch  *)
(* at one layer.  Program is shown to be the chain that starts before the  *)
(* first turn and has each call followed by the one After gives, so what   *)
(* was called last tells, for every kind of call, the turn it was last     *)
(* made for: Counts.  The invariant says what each queue may hold and in   *)
(* what order, by these counts, and what the buffers hold for the turns    *)
(* whose work is not queued any more.                                      *)
(***************************************************************************)
EXTENDS DecodePipeline, SequenceLemmas

-----------------------------------------------------------------------------
(* Turns.  Turn h of the decode loop is that of micro-batch SlotAt(h) at   *)
(* layer LayerAt(h).                                                       *)

LayerAt(h) == h \div num_mb
SlotAt(h) == h % num_mb

Its(op, h) == Op(op, LayerAt(h), SlotAt(h))

\* PageTaken, by cases.
Page(n) == IF first_page = 0 THEN n % 2 ELSE (n + 1) % 2

\* What a turn brings in is for the layer after it.
Its_to_pin(h) == Op("to_pin", LayerAt(h) + 1, SlotAt(h))
Its_prefetch(h) == Op("prefetch", LayerAt(h) + 1, SlotAt(h))
Its_copy(h) == [op |-> "prefetch", layer |-> LayerAt(h) + 1, mb |-> SlotAt(h),
                page |-> Page(LayerAt(h) + 1)]

TurnOf(x) ==
  IF x.op \in {"to_pin", "prefetch"} THEN (x.layer - 1) * num_mb + x.mb
                                     ELSE x.layer * num_mb + x.mb

\* The first turn of a decode step, those of its last layer, and the last.
Opens(h) == LayerAt(h) % NumLayers = 0 /\ SlotAt(h) = 0
Samples(h) == LayerAt(h) % NumLayers = NumLayers - 1
Closes(h) == Samples(h) /\ SlotAt(h) = num_mb - 1

-----------------------------------------------------------------------------
(* The order of the calls *)

\* The call after each call.
After(x) ==
  LET h == TurnOf(x)
  IN  CASE x.op = "pre_attention" -> Its("offload_qkv", h)
        [] x.op = "offload_qkv" -> Its("cpu_attention", h)
        [] x.op = "cpu_attention" -> Its_to_pin(h)
        [] x.op = "to_pin" -> IF Opens(h) THEN Its("pre_attention", h + 1)
                                          ELSE Its("load_hidden", h - 1)
        [] x.op = "load_hidden" -> Its_prefetch(h)
        [] x.op = "prefetch" -> Its("post_attention", h)
        [] x.op = "post_attention" -> IF Samples(h) THEN Its("sample", h)
                                                  ELSE Its("pre_attention", h + 2)
        [] x.op = "sample" -> IF Closes(h) THEN Its("pre_attention", h + 1)
                              ELSE IF Closes(h + 1) THEN Its("load_hidden", h + 1)
                              ELSE Its("pre_attention", h + 2)

\* The call that was made last; before the first, the last one of the turn -1.
Made == IF pos = 1 THEN Its("sample", -1) ELSE Program[pos - 1]

Starting == {"pre_attention", "offload_qkv", "cpu_attention", "to_pin"}

\* The last turn each call was made for, when x was made last: attention is
\* started two turns ahead, but for the first and the last of a step.
Counts(x) ==
  LET h == TurnOf(x)
      ahead == IF x.op \in Starting THEN h ELSE IF Closes(h) THEN h ELSE h + 1
      behind == IF x.op \notin Starting THEN h ELSE IF Opens(h) THEN h - 1 ELSE h - 2
  IN  [pre |-> ahead,
       off |-> IF x.op = "pre_attention" THEN h - 1 ELSE ahead,
       cpu |-> IF x.op \in {"pre_attention", "offload_qkv"} THEN h - 1 ELSE ahead,
       pin |-> IF x.op \in {"pre_attention", "offload_qkv", "cpu_attention"} THEN h - 1 ELSE ahead,
       load |-> behind,
       fetch |-> IF x.op = "load_hidden" THEN h - 1 ELSE behind,
       post |-> IF x.op \in {"load_hidden", "prefetch"} THEN h - 1 ELSE behind]

-----------------------------------------------------------------------------
(* The turns whose work is queued, queue by queue *)

PreQueued == {h \in Int : Its("pre_attention", h) \in Range(cur)}
PostQueued == {h \in Int : Its("post_attention", h) \in Range(cur)}
OffQueued == {h \in Int : Its("offload_qkv", h) \in Range(offload)}
CpuQueued == {h \in Int : Its("cpu_attention", h) \in Range(cpu_executor)}
LoadQueued == {h \in Int : Its("load_hidden", h) \in Range(load)}
CopyQueued == {h \in Int : Its_copy(h) \in Range(load)}
ColdCopies == {h \in Int : Its_copy(h) \in Range(cold)}
ToPinQueued == {h \in Int : Its_to_pin(h) \in Range(cold)}
TaskQueued == {h \in Int : Its_to_pin(h) \in Range(copy_executor)}

\* The turns whose buffer or slot holds what belongs to them.
QkvPinned == {h \in Int : qkv_pin[SlotAt(h)] = LayerAt(h)}
HiddenPinned == {h \in Int : hidden_pin[SlotAt(h)] = LayerAt(h)}
HiddenBack == {h \in Int : hidden_states[SlotAt(h)] = LayerAt(h)}
SlotPinned == {h \in Int : pin[SlotAt(h)] = LayerAt(h) + 1}
SlotPaged == {h \in Int : pages[Page(LayerAt(h) + 1)][SlotAt(h)] >= LayerAt(h) + 1}

\* The copy of the page of layer 0 that the prefill launched.
PageOp == Op("page", 0, 0)
PageWaits == PageOp \in Range(prefetch)
PageCold == PageOp \in Range(cold)

Names == {"pre_attention", "offload_qkv", "cpu_attention", "to_pin", "load_hidden", "prefetch",
          "post_attention", "sample"}
Ops == [op : Names, layer : Int, mb : Int]
Copies == [op : {"prefetch"}, layer : Int, mb : Int, page : {0, 1}]
Marks == [op : {"page", "record"}, layer : Int, mb : Int]
Work == Ops \cup Copies \cup Marks

\* The order of each stream, by the turns.
CurKey(x) == IF x.op = "pre_attention" THEN 2 * TurnOf(x) - 3 ELSE 2 * TurnOf(x)
CurOrder == {p \in Work \X Work : CurKey(p[1]) < CurKey(p[2])}
LoadKey(x) == IF x.op = "load_hidden" THEN 2 * TurnOf(x) ELSE 2 * TurnOf(x) + 1
LoadOrder == {p \in Work \X Work : LoadKey(p[1]) < LoadKey(p[2])}
TaskOrder == {p \in Work \X Work : TurnOf(p[1]) < TurnOf(p[2])}
MarkOrder == {p \in Work \X Work : p[2] # PageOp}

\* A copy to the pin for turn g may be ahead of the copy to the page of a turn
\* h by as much as the slots there are.
ColdBefore(x, y) ==
  /\ y # PageOp
  /\ x.op = y.op => TurnOf(x) < TurnOf(y)
  /\ x.op = "prefetch" /\ y.op = "to_pin" => TurnOf(x) < TurnOf(y)
  /\ x.op = "to_pin" /\ y.op = "prefetch" => TurnOf(x) < TurnOf(y) + num_mb
ColdOrder == {p \in Work \X Work : ColdBefore(p[1], p[2])}

-----------------------------------------------------------------------------
(* The invariant, by the counts c *)

TypeInv ==
  /\ cur \in Seq(Work) /\ offload \in Seq(Work) /\ load \in Seq(Work) /\ prefetch \in Seq(Work)
  /\ cold \in Seq(Work) /\ cpu_executor \in Seq(Work) /\ copy_executor \in Seq(Work)
  /\ first_page \in {0, 1}
  /\ pages \in [{0, 1} -> [MicroBatchIds -> Int]]
  /\ pin \in [MicroBatchIds -> Int]
  /\ qkv_pin \in [MicroBatchIds -> Int] /\ hidden_pin \in [MicroBatchIds -> Int]
  /\ hidden_states \in [MicroBatchIds -> Int]

CurInv(c) ==
  /\ \A x \in Range(cur) : \/ \E h \in PreQueued : x = Its("pre_attention", h)
                           \/ \E h \in PostQueued : x = Its("post_attention", h)
  /\ PreQueued \subseteq c.load + 1 .. c.pre /\ PostQueued \subseteq c.load - 1 .. c.post
  /\ \A h \in PostQueued : h >= 0
  /\ Ordered(cur, CurOrder)
  /\ \A h \in PostQueued : \A g \in h + 2 .. c.pre : g \in PreQueued

OffloadInv(c) ==
  /\ \A x \in Range(offload) : \E h \in OffQueued : x = Its("offload_qkv", h)
  /\ OffQueued \subseteq c.load + 1 .. c.off
  /\ \A h \in c.load + 1 .. c.off : /\ h \in PreQueued => h \in OffQueued
                                    /\ h \in OffQueued \/ h \in QkvPinned

CpuInv(c) ==
  /\ \A x \in Range(cpu_executor) : \E h \in CpuQueued : x = Its("cpu_attention", h)
  /\ CpuQueued \subseteq c.load + 1 .. c.cpu
  /\ \A h \in c.load + 1 .. c.cpu : /\ h \in OffQueued => h \in CpuQueued
                                    /\ h \in CpuQueued \/ h \in HiddenPinned

LoadInv(c) ==
  /\ \A x \in Range(load) : \/ \E h \in LoadQueued : x = Its("load_hidden", h)
                            \/ \E h \in CopyQueued : x = Its_copy(h)
  /\ LoadQueued \subseteq c.load - 1 .. c.load
  /\ CopyQueued \subseteq c.load - 2 .. c.fetch /\ \A h \in CopyQueued : h >= 0
  /\ Ordered(load, LoadOrder)
  /\ \A h \in CopyQueued : /\ \A g \in h + 1 .. c.load : g \in LoadQueued
                           /\ \A g \in h + 1 .. c.fetch : g \in CopyQueued

HiddenInv(c) ==
  /\ \A h \in LoadQueued : h \in HiddenPinned /\ (h <= c.post => h \in PostQueued)
  /\ \A h \in c.load - 1 .. c.load : h \in LoadQueued \/ h \in HiddenBack

ColdInv(c) ==
  /\ \A x \in Range(cold) : \/ x = PageOp
                            \/ \E h \in ToPinQueued : x = Its_to_pin(h)
                            \/ \E h \in ColdCopies : x = Its_copy(h)
  /\ ToPinQueued \subseteq 0 .. c.pin
  /\ ColdCopies = CopyQueued
  /\ Ordered(cold, ColdOrder)

TaskInv(c) ==
  /\ \A x \in Range(copy_executor) : \E h \in TaskQueued : x = Its_to_pin(h)
  /\ TaskQueued \subseteq c.fetch + 1 .. c.pin
  /\ Ordered(copy_executor, TaskOrder)
  /\ \A h \in ToPinQueued : \A g \in TaskQueued : h < g
  /\ \A h \in ToPinQueued \cup TaskQueued : h .. c.pin \subseteq ToPinQueued \cup TaskQueued

PinInv(c) ==
  \A h \in CopyQueued \cup (c.fetch + 1 .. c.pin) :
    h \in ToPinQueued \cup TaskQueued \cup SlotPinned

MarkInv(c) ==
  /\ \A x \in Range(prefetch) : x = PageOp \/ x.op = "record"
  /\ Ordered(prefetch, MarkOrder)
  /\ PageWaits <=> PageCold
  /\ PageWaits => c.fetch = -1 /\ (c.pin >= 0 => 0 \in TaskQueued)
  /\ ~PageWaits => \A s \in MicroBatchIds : pages[first_page][s] >= 0

\* What is in a page was brought to that page.
PagesApart ==
  \A p \in {0, 1} : \A s \in MicroBatchIds : pages[p][s] >= 0 => p = Page(pages[p][s])

PageInv(c) ==
  /\ PagesApart
  /\ gpu_page = Page(LayerAt(c.fetch + 1) + 1)
  /\ \A h \in 0 .. c.fetch : h \in CopyQueued \cup SlotPaged

Bounds(c) ==
  /\ c.pre \in Int /\ c.off \in Int /\ c.cpu \in Int /\ c.pin \in Int
  /\ c.load \in Int /\ c.fetch \in Int /\ c.post \in Int
  /\ -1 <= c.post /\ c.post <= c.fetch /\ c.fetch <= c.load /\ c.load <= c.post + 1
  /\ c.load <= c.pin /\ c.pin <= c.cpu /\ c.cpu <= c.off /\ c.off <= c.pre /\ c.pre <= c.pin + 1
  /\ c.pre <= c.post + 2

Inv(c) ==
  /\ CurInv(c) /\ OffloadInv(c) /\ CpuInv(c) /\ LoadInv(c) /\ HiddenInv(c)
  /\ ColdInv(c) /\ TaskInv(c) /\ PinInv(c) /\ MarkInv(c) /\ PageInv(c)

\* The calls of turn h.
Calls(h) ==
  {Its(op, h) : op \in Names \ {"to_pin", "prefetch"}} \cup {Its_to_pin(h), Its_prefetch(h)}

Legal(x) ==
  \E h \in Int :
    /\ x \in Calls(h) /\ h >= -1
    /\ x.op # "sample" => h >= 0
    /\ x.op = "sample" => Samples(h)

\* What was called last: a token is sampled when the compute stream is empty.
CallInv ==
  /\ pos \in 1 .. Len(Program) + 1
  /\ Legal(Made)
  /\ Made.op = "sample" => cur = <<>>

IInv == TypeInv /\ CallInv /\ \E c \in {Counts(Made)} : Inv(c)

-----------------------------------------------------------------------------
(* Layers and micro-batches of turns *)

LEMMA Sizes ==
  /\ num_mb \in Nat /\ num_mb >= 3 /\ NumLayers \in Nat /\ NumLayers >= 2 /\ Steps \in Nat
BY DecodeAssumption

LEMMA TurnParts ==
  ASSUME NEW h \in Int
  PROVE  LayerAt(h) \in Int /\ SlotAt(h) \in MicroBatchIds /\ h = LayerAt(h) * num_mb + SlotAt(h)
BY Sizes, DivParts DEF LayerAt, SlotAt, MicroBatchIds

LEMMA Apart ==
  ASSUME NEW n \in Int, NEW k \in MicroBatchIds, NEW o \in Int, NEW l \in MicroBatchIds, n < o
  PROVE  n * num_mb + k < o * num_mb + l
BY Sizes, DivApart DEF MicroBatchIds

LEMMA TurnOfParts ==
  ASSUME NEW n \in Int, NEW k \in MicroBatchIds
  PROVE  n * num_mb + k \in Int /\ LayerAt(n * num_mb + k) = n /\ SlotAt(n * num_mb + k) = k
<1>1. k \in 0 .. num_mb - 1 /\ num_mb \in Nat \ {0} /\ n * num_mb + k \in Int
  BY Sizes DEF MicroBatchIds
<1> QED BY <1>1, DivOfParts DEF LayerAt, SlotAt

LEMMA LaterTurn ==
  ASSUME NEW h \in Int
  PROVE  IF SlotAt(h) = num_mb - 1 THEN LayerAt(h + 1) = LayerAt(h) + 1 /\ SlotAt(h + 1) = 0
                                   ELSE LayerAt(h + 1) = LayerAt(h) /\ SlotAt(h + 1) = SlotAt(h) + 1
<1> DEFINE n == LayerAt(h)
           k == SlotAt(h)
<1>1. n \in Int /\ k \in MicroBatchIds /\ h = n * num_mb + k
  BY TurnParts
<1> HIDE DEF n, k
<1>2. CASE k = num_mb - 1
  <2>1. h + 1 = (n + 1) * num_mb + 0 /\ n + 1 \in Int /\ 0 \in MicroBatchIds
    BY <1>1, <1>2, Sizes DEF MicroBatchIds
  <2>2. LayerAt(h + 1) = n + 1 /\ SlotAt(h + 1) = 0
    BY <2>1, TurnOfParts
  <2> QED BY <1>2, <2>2 DEF n, k
<1>3. CASE k # num_mb - 1
  <2>1. h + 1 = n * num_mb + (k + 1) /\ k + 1 \in MicroBatchIds
    BY <1>1, <1>3, Sizes DEF MicroBatchIds
  <2>2. LayerAt(h + 1) = n /\ SlotAt(h + 1) = k + 1
    BY <1>1, <2>1, TurnOfParts
  <2> QED BY <1>3, <2>2 DEF n, k
<1> QED BY <1>2, <1>3

LEMMA SameSlot ==
  ASSUME NEW h \in Int, NEW g \in Int, SlotAt(h) = SlotAt(g), h < g
  PROVE  h + num_mb <= g
<1> DEFINE n == LayerAt(h)
           o == LayerAt(g)
           k == SlotAt(h)
<1>1. n \in Int /\ k \in MicroBatchIds /\ h = n * num_mb + k /\ o \in Int /\ g = o * num_mb + k
  BY TurnParts
<1> HIDE DEF n, o, k
<1>2. n < o
  <2>1. o < n => g < h
    BY <1>1, Apart
  <2>2. o = n => g = h
    BY <1>1
  <2> QED BY <1>1, <2>1, <2>2
<1>3. CASE o = n + 1
  BY <1>1, <1>3, Sizes DEF MicroBatchIds
<1>4. CASE n + 1 < o
  <2>1. (n + 1) * num_mb + k < o * num_mb + k
    BY <1>1, <1>4, Apart
  <2> QED BY <1>1, <2>1, Sizes DEF MicroBatchIds
<1> QED BY <1>1, <1>2, <1>3, <1>4

LEMMA LayersGrow ==
  ASSUME NEW h \in Int, NEW g \in Int, h <= g
  PROVE  LayerAt(h) <= LayerAt(g)
<1>1. LayerAt(g) < LayerAt(h) => g < h
  <2>1. LayerAt(g) \in Int /\ LayerAt(h) \in Int /\ SlotAt(g) \in MicroBatchIds
        /\ SlotAt(h) \in MicroBatchIds /\ g = LayerAt(g) * num_mb + SlotAt(g)
        /\ h = LayerAt(h) * num_mb + SlotAt(h)
    BY TurnParts
  <2> QED BY <2>1, Apart
<1> QED BY <1>1, TurnParts
-----------------------------------------------------------------------------
(* Program is the chain of calls that After describes *)

AfterCall == [x \in Ops |-> After(x)]
Chains(a, b) == Linked(Ops, AfterCall, a, b)

LEMMA ItsFields ==
  ASSUME NEW h \in Int, NEW op
  PROVE  /\ Its(op, h).op = op /\ Its(op, h).layer = LayerAt(h) /\ Its(op, h).mb = SlotAt(h)
         /\ op \notin {"to_pin", "prefetch"} => TurnOf(Its(op, h)) = h
         /\ op \in Names => Its(op, h) \in Ops
<1>1. LayerAt(h) \in Int /\ SlotAt(h) \in Int /\ h = LayerAt(h) * num_mb + SlotAt(h)
  BY TurnParts, Sizes DEF MicroBatchIds
<1>2. Its(op, h).op = op /\ Its(op, h).layer = LayerAt(h) /\ Its(op, h).mb = SlotAt(h)
  BY DEF Its, Op
<1>3. op \in Names => Its(op, h) \in Ops
  BY <1>1 DEF Its, Op, Ops
<1> QED BY <1>1, <1>2, <1>3 DEF TurnOf

LEMMA ToPinFields ==
  ASSUME NEW h \in Int
  PROVE  /\ Its_to_pin(h).op = "to_pin" /\ Its_to_pin(h).layer = LayerAt(h) + 1
         /\ Its_to_pin(h).mb = SlotAt(h) /\ TurnOf(Its_to_pin(h)) = h /\ Its_to_pin(h) \in Ops
<1>1. /\ LayerAt(h) \in Int /\ SlotAt(h) \in Int /\ h = LayerAt(h) * num_mb + SlotAt(h)
      /\ (LayerAt(h) + 1) - 1 = LayerAt(h) /\ LayerAt(h) + 1 \in Int
  BY TurnParts, Sizes DEF MicroBatchIds
<1>2. /\ Its_to_pin(h).op = "to_pin" /\ Its_to_pin(h).layer = LayerAt(h) + 1
      /\ Its_to_pin(h).mb = SlotAt(h)
  BY DEF Its_to_pin, Op
<1>3. Its_to_pin(h) \in Ops
  BY <1>1 DEF Its_to_pin, Op, Ops, Names
<1> QED BY <1>1, <1>2, <1>3 DEF TurnOf

LEMMA PrefetchFields ==
  ASSUME NEW h \in Int
  PROVE  /\ Its_prefetch(h).op = "prefetch" /\ Its_prefetch(h).layer = LayerAt(h) + 1
         /\ Its_prefetch(h).mb = SlotAt(h) /\ TurnOf(Its_prefetch(h)) = h /\ Its_prefetch(h) \in Ops
<1>1. /\ LayerAt(h) \in Int /\ SlotAt(h) \in Int /\ h = LayerAt(h) * num_mb + SlotAt(h)
      /\ (LayerAt(h) + 1) - 1 = LayerAt(h) /\ LayerAt(h) + 1 \in Int
  BY TurnParts, Sizes DEF MicroBatchIds
<1>2. /\ Its_prefetch(h).op = "prefetch" /\ Its_prefetch(h).layer = LayerAt(h) + 1
      /\ Its_prefetch(h).mb = SlotAt(h)
  BY DEF Its_prefetch, Op
<1>3. Its_prefetch(h) \in Ops
  BY <1>1 DEF Its_prefetch, Op, Ops, Names
<1> QED BY <1>1, <1>2, <1>3 DEF TurnOf

LEMMA AfterStarting ==
  ASSUME NEW h \in Int
  PROVE  /\ AfterCall[Its("pre_attention", h)] = Its("offload_qkv", h)
         /\ AfterCall[Its("offload_qkv", h)] = Its("cpu_attention", h)
         /\ AfterCall[Its("cpu_attention", h)] = Its_to_pin(h)
         /\ AfterCall[Its_to_pin(h)] = IF Opens(h) THEN Its("pre_attention", h + 1)
                                                   ELSE Its("load_hidden", h - 1)
<1>1. ASSUME NEW op \in {"pre_attention", "offload_qkv", "cpu_attention"}
      PROVE  AfterCall[Its(op, h)] = After(Its(op, h)) /\ Its(op, h).op = op /\ TurnOf(Its(op, h)) = h
  <2>1. op \in Names /\ op \notin {"to_pin", "prefetch"}
    BY DEF Names
  <2> QED BY <2>1, ItsFields DEF AfterCall
<1>2. AfterCall[Its("pre_attention", h)] = Its("offload_qkv", h)
  <2> DEFINE x == Its("pre_attention", h)
  <2>1. AfterCall[x] = After(x) /\ x.op = "pre_attention" /\ TurnOf(x) = h
    BY <1>1
  <2> HIDE DEF x
  <2>2. After(x) = Its("offload_qkv", h)
    BY <2>1 DEF After
  <2> QED BY <2>1, <2>2 DEF x
<1>3. AfterCall[Its("offload_qkv", h)] = Its("cpu_attention", h)
  <2> DEFINE x == Its("offload_qkv", h)
  <2>1. AfterCall[x] = After(x) /\ x.op = "offload_qkv" /\ TurnOf(x) = h
    BY <1>1
  <2> HIDE DEF x
  <2>2. After(x) = Its("cpu_attention", h)
    BY <2>1 DEF After
  <2> QED BY <2>1, <2>2 DEF x
<1>4. AfterCall[Its("cpu_attention", h)] = Its_to_pin(h)
  <2> DEFINE x == Its("cpu_attention", h)
  <2>1. AfterCall[x] = After(x) /\ x.op = "cpu_attention" /\ TurnOf(x) = h
    BY <1>1
  <2> HIDE DEF x
  <2>2. After(x) = Its_to_pin(h)
    BY <2>1 DEF After
  <2> QED BY <2>1, <2>2 DEF x
<1>5. AfterCall[Its_to_pin(h)] = IF Opens(h) THEN Its("pre_attention", h + 1)
                                             ELSE Its("load_hidden", h - 1)
  <2> DEFINE x == Its_to_pin(h)
  <2>1. AfterCall[x] = After(x) /\ x.op = "to_pin" /\ TurnOf(x) = h
    BY ToPinFields DEF AfterCall
  <2> HIDE DEF x
  <2>2. After(x) = IF Opens(h) THEN Its("pre_attention", h + 1) ELSE Its("load_hidden", h - 1)
    BY <2>1 DEF After
  <2> QED BY <2>1, <2>2 DEF x
<1> QED BY <1>2, <1>3, <1>4, <1>5

LEMMA AfterOthers ==
  ASSUME NEW h \in Int
  PROVE  /\ AfterCall[Its("load_hidden", h)] = Its_prefetch(h)
         /\ AfterCall[Its_prefetch(h)] = Its("post_attention", h)
         /\ AfterCall[Its("post_attention", h)] = IF Samples(h) THEN Its("sample", h)
                                                                ELSE Its("pre_attention", h + 2)
         /\ AfterCall[Its("sample", h)] = IF Closes(h) THEN Its("pre_attention", h + 1)
                                          ELSE IF Closes(h + 1) THEN Its("load_hidden", h + 1)
                                          ELSE Its("pre_attention", h + 2)
<1>1. ASSUME NEW op \in {"load_hidden", "post_attention", "sample"}
      PROVE  AfterCall[Its(op, h)] = After(Its(op, h)) /\ Its(op, h).op = op /\ TurnOf(Its(op, h)) = h
  <2>1. op \in Names /\ op \notin {"to_pin", "prefetch"}
    BY DEF Names
  <2> QED BY <2>1, ItsFields DEF AfterCall
<1>2. AfterCall[Its("load_hidden", h)] = Its_prefetch(h)
  <2> DEFINE x == Its("load_hidden", h)
  <2>1. AfterCall[x] = After(x) /\ x.op = "load_hidden" /\ TurnOf(x) = h
    BY <1>1
  <2> HIDE DEF x
  <2>2. After(x) = Its_prefetch(h)
    BY <2>1 DEF After
  <2> QED BY <2>1, <2>2 DEF x
<1>3. AfterCall[Its_prefetch(h)] = Its("post_attention", h)
  <2> DEFINE x == Its_prefetch(h)
  <2>1. AfterCall[x] = After(x) /\ x.op = "prefetch" /\ TurnOf(x) = h
    BY PrefetchFields DEF AfterCall
  <2> HIDE DEF x
  <2>2. After(x) = Its("post_attention", h)
    BY <2>1 DEF After
  <2> QED BY <2>1, <2>2 DEF x
<1>4. AfterCall[Its("post_attention", h)] = IF Samples(h) THEN Its("sample", h)
                                            ELSE Its("pre_attention", h + 2)
  <2> DEFINE x == Its("post_attention", h)
  <2>1. AfterCall[x] = After(x) /\ x.op = "post_attention" /\ TurnOf(x) = h
    BY <1>1
  <2> HIDE DEF x
  <2>2. After(x) = IF Samples(h) THEN Its("sample", h) ELSE Its("pre_attention", h + 2)
    BY <2>1 DEF After
  <2> QED BY <2>1, <2>2 DEF x
<1>5. AfterCall[Its("sample", h)] = IF Closes(h) THEN Its("pre_attention", h + 1)
                                    ELSE IF Closes(h + 1) THEN Its("load_hidden", h + 1)
                                    ELSE Its("pre_attention", h + 2)
  <2> DEFINE x == Its("sample", h)
  <2>1. AfterCall[x] = After(x) /\ x.op = "sample" /\ TurnOf(x) = h
    BY <1>1
  <2> HIDE DEF x
  <2>2. After(x) = IF Closes(h) THEN Its("pre_attention", h + 1)
                   ELSE IF Closes(h + 1) THEN Its("load_hidden", h + 1)
                   ELSE Its("pre_attention", h + 2)
    BY <2>1 DEF After
  <2> QED BY <2>1, <2>2 DEF x
<1> QED BY <1>2, <1>3, <1>4, <1>5

\* A turn's attention, and the copy to the pin for the layer after it.
LEMMA StartChain ==
  ASSUME NEW h \in Int
  PROVE  /\ Attention(LayerAt(h), SlotAt(h)) \in Chains(Its("pre_attention", h), Its_to_pin(h))
         /\ <<Its_to_pin(h)>> \in Chains(Its_to_pin(h), AfterCall[Its_to_pin(h)])
<1> DEFINE a == Its("pre_attention", h)
           b == Its("offload_qkv", h)
           c == Its("cpu_attention", h)
           d == Its_to_pin(h)
<1>1. a \in Ops /\ b \in Ops /\ c \in Ops /\ d \in Ops
  BY ItsFields, ToPinFields DEF Names
<1>2. AfterCall[a] = b /\ AfterCall[b] = c /\ AfterCall[c] = d
  BY AfterStarting
<1>3. Attention(LayerAt(h), SlotAt(h)) = <<a, b, c>>
  BY DEF Attention, Its
<1> HIDE DEF a, b, c, d
<1>4. <<a>> \in Chains(a, b) /\ <<b, c>> \in Chains(b, d)
  BY <1>1, <1>2, LinkedOne, LinkedTwo DEF Chains
<1>5. <<a>> \o <<b, c>> \in Chains(a, d)
  BY <1>4, LinkedConcat DEF Chains
<1>6. <<d>> \in Chains(d, AfterCall[d])
  BY <1>1, LinkedOne DEF Chains
<1> QED BY <1>3, <1>5, <1>6, OneAndTwo DEF a, d

\* A decode step starts with layer n, where n is a multiple of NumLayers.
StepLayer(n) == n \in Nat /\ n % NumLayers = 0

LEMMA StepTurns ==
  ASSUME NEW n, StepLayer(n), NEW h \in Int, LayerAt(h) >= n, LayerAt(h) < n + NumLayers
  PROVE  /\ Opens(h) <=> LayerAt(h) = n /\ SlotAt(h) = 0
         /\ Samples(h) <=> LayerAt(h) = n + NumLayers - 1
         /\ Closes(h) <=> LayerAt(h) = n + NumLayers - 1 /\ SlotAt(h) = num_mb - 1
<1> DEFINE r == LayerAt(h) - n
<1>1. n \in Nat /\ n % NumLayers = 0 /\ LayerAt(h) \in Int /\ SlotAt(h) \in Int
  BY TurnParts, Sizes DEF StepLayer, MicroBatchIds
<1>2. r \in 0 .. NumLayers - 1 /\ LayerAt(h) = n + r
  BY <1>1, Sizes
<1> HIDE DEF r
<1>3. LayerAt(h) % NumLayers = r
  <2>1. (n + r) % NumLayers = r
    <3>1. n \in Int /\ r \in 0 .. NumLayers - 1 /\ NumLayers \in Nat /\ NumLayers >= 1
      BY <1>1, <1>2, Sizes
    <3>2. n % NumLayers = 0
      BY <1>1
    <3> QED BY <3>1, <3>2, ModInBlock
  <2> QED BY <1>2, <2>1
<1> QED BY <1>1, <1>2, <1>3, Sizes DEF Opens, Samples, Closes

\* The first two micro-batches, before the first turn.
LEMMA PrologueChain ==
  ASSUME NEW n, StepLayer(n)
  PROVE  LET h == n * num_mb
         IN  /\ h \in Nat /\ LayerAt(h) = n /\ SlotAt(h) = 0 /\ LayerAt(h + 1) = n /\ SlotAt(h + 1) = 1
             /\ Prologue(n, 0) \in Chains(Its("pre_attention", h), Its("pre_attention", h + 1))
             /\ Prologue(n, 1) \in Chains(Its("pre_attention", h + 1), Its("load_hidden", h))
<1> DEFINE h == n * num_mb
           g == h + 1
<1>1. n \in Nat /\ 0 \in MicroBatchIds /\ num_mb - 1 # 0
  BY Sizes DEF StepLayer, MicroBatchIds
<1>2. h \in Nat /\ LayerAt(h) = n /\ SlotAt(h) = 0
  <2>1. h + 0 = h /\ h \in Nat
    BY <1>1, Sizes
  <2>2. LayerAt(h + 0) = n /\ SlotAt(h + 0) = 0
    BY <1>1, TurnOfParts
  <2> HIDE DEF h
  <2> QED BY <2>1, <2>2
<1>3. g \in Int /\ LayerAt(g) = n /\ SlotAt(g) = 1 /\ g - 1 = h
  <2> HIDE DEF h
  <2>1. h \in Int /\ SlotAt(h) # num_mb - 1
    BY <1>1, <1>2
  <2>2. LayerAt(h + 1) = LayerAt(h) /\ SlotAt(h + 1) = SlotAt(h) + 1
    BY <2>1, LaterTurn
  <2> QED BY <1>1, <1>2, <2>1, <2>2
<1>4. Opens(h) /\ ~Opens(g)
  <2>1. n >= n /\ n < n + NumLayers
    BY <1>1, Sizes
  <2> HIDE DEF h, g
  <2> QED BY <1>1, <1>2, <1>3, <2>1, StepTurns
<1> HIDE DEF h, g
<1>5. /\ AfterCall[Its_to_pin(h)] = Its("pre_attention", h + 1)
      /\ AfterCall[Its_to_pin(g)] = Its("load_hidden", g - 1)
  BY <1>2, <1>3, <1>4, AfterStarting
<1>6. /\ Prologue(n, 0) = Attention(n, 0) \o <<Its_to_pin(h)>>
      /\ Prologue(n, 1) = Attention(n, 1) \o <<Its_to_pin(g)>>
  BY <1>2, <1>3 DEF Prologue, Its_to_pin
<1>7. Prologue(n, 0) \in Chains(Its("pre_attention", h), Its("pre_attention", h + 1))
  <2>1. /\ Attention(n, 0) \in Chains(Its("pre_attention", h), Its_to_pin(h))
        /\ <<Its_to_pin(h)>> \in Chains(Its_to_pin(h), Its("pre_attention", h + 1))
    <3>1. h \in Int
      BY <1>2
    <3> QED BY <1>2, <1>5, <3>1, StartChain
  <2> QED BY <1>6, <2>1, LinkedConcat DEF Chains
<1>8. Prologue(n, 1) \in Chains(Its("pre_attention", g), Its("load_hidden", h))
  <2>1. /\ Attention(n, 1) \in Chains(Its("pre_attention", g), Its_to_pin(g))
        /\ <<Its_to_pin(g)>> \in Chains(Its_to_pin(g), Its("load_hidden", h))
    BY <1>3, <1>5, StartChain
  <2> QED BY <1>6, <2>1, LinkedConcat DEF Chains
<1> QED BY <1>2, <1>3, <1>7, <1>8 DEF g, h

LEMMA TurnChain ==
  ASSUME NEW n, StepLayer(n), NEW h \in Int, LayerAt(h) >= n, LayerAt(h) < n + NumLayers
  PROVE  Turn(n, LayerAt(h), SlotAt(h)) \in
           Chains(Its("load_hidden", h), IF Closes(h) THEN Its("pre_attention", h + 1)
                                                      ELSE Its("load_hidden", h + 1))
<1> DEFINE l == LayerAt(h)
           k == SlotAt(h)
           g == h + 2
           a == Its("load_hidden", h)
           b == Its_prefetch(h)
           c == Its("post_attention", h)
           d == Its("sample", h)
           end == IF Closes(h) THEN Its("pre_attention", h + 1) ELSE Its("load_hidden", h + 1)
           mid == IF Closes(h) THEN Its("pre_attention", h + 1)
                  ELSE IF Samples(h) /\ Closes(h + 1) THEN Its("load_hidden", h + 1)
                  ELSE Its("pre_attention", g)
           last == l = n + NumLayers - 1
           goes == k + 2 < num_mb \/ l < n + NumLayers - 1
           s == <<a>> \o <<b, c>>
           t == IF last THEN <<d>> ELSE <<>>
           u == IF goes THEN Attention(LayerAt(g), SlotAt(g)) ELSE <<>>
           v == IF goes THEN <<Its_to_pin(g)>> ELSE <<>>
<1>0. /\ n \in Nat /\ l \in Int /\ k \in Int /\ k >= 0 /\ k < num_mb /\ l >= n /\ l <= n + NumLayers - 1
      /\ h + 1 \in Int /\ g \in Int /\ g = (h + 1) + 1 /\ g - 1 = h + 1
  <2>1. n \in Nat /\ l \in Int /\ k \in Int /\ k >= 0 /\ k < num_mb
    BY TurnParts, Sizes DEF StepLayer, MicroBatchIds
  <2>2. h + 1 \in Int /\ g \in Int /\ g = (h + 1) + 1 /\ g - 1 = h + 1
    OBVIOUS
  <2> HIDE DEF g
  <2> QED BY <2>1, <2>2, Sizes
<1>1. Samples(h) <=> last
  BY <1>0, StepTurns
<1>2. Closes(h) <=> last /\ k = num_mb - 1
  BY <1>0, StepTurns
<1>3. /\ k + 1 < num_mb => LayerAt(h + 1) = l /\ SlotAt(h + 1) = k + 1
      /\ k + 1 = num_mb => LayerAt(h + 1) = l + 1 /\ SlotAt(h + 1) = 0
  BY <1>0, LaterTurn, Sizes
<1>4. /\ k + 2 < num_mb => LayerAt(g) = l /\ SlotAt(g) = k + 2
      /\ k + 2 = num_mb => LayerAt(g) = l + 1 /\ SlotAt(g) = 0
      /\ k + 1 = num_mb => LayerAt(g) = l + 1 /\ SlotAt(g) = 1
  <2>1. \A i \in Int : IF SlotAt(i) = num_mb - 1 THEN LayerAt(i + 1) = LayerAt(i) + 1 /\ SlotAt(i + 1) = 0
                       ELSE LayerAt(i + 1) = LayerAt(i) /\ SlotAt(i + 1) = SlotAt(i) + 1
    BY LaterTurn
  <2>2. IF SlotAt(h + 1) = num_mb - 1
          THEN LayerAt((h + 1) + 1) = LayerAt(h + 1) + 1 /\ SlotAt((h + 1) + 1) = 0
          ELSE LayerAt((h + 1) + 1) = LayerAt(h + 1) /\ SlotAt((h + 1) + 1) = SlotAt(h + 1) + 1
    BY <1>0, <2>1
  <2> HIDE DEF l, k, g
  <2> QED BY <1>0, <1>3, <2>2, Sizes
<1>5. ~last => LayerAt(h + 1) >= n /\ LayerAt(h + 1) < n + NumLayers
  <2> HIDE DEF l, k, g
  <2> QED BY <1>0, <1>3, Sizes
<1>6. Samples(h) /\ ~Closes(h) => (Closes(h + 1) <=> k + 2 = num_mb)
  <2>1. ASSUME last, k + 1 < num_mb PROVE Closes(h + 1) <=> k + 2 = num_mb
    <3>1. LayerAt(h + 1) >= n /\ LayerAt(h + 1) < n + NumLayers
      BY <1>0, <1>3, <2>1
    <3>2. Closes(h + 1) <=> LayerAt(h + 1) = n + NumLayers - 1 /\ SlotAt(h + 1) = num_mb - 1
      BY <1>0, <3>1, StepTurns
    <3>3. LayerAt(h + 1) = l /\ SlotAt(h + 1) = k + 1
      BY <1>3, <2>1
    <3> HIDE DEF k, l
    <3> QED BY <1>0, <2>1, <3>2, <3>3, Sizes
  <2> HIDE DEF l, k, g, last
  <2> QED BY <1>0, <1>1, <1>2, <2>1, Sizes
<1>7. goes => ~Closes(h) /\ ~(Samples(h) /\ Closes(h + 1)) /\ ~Opens(g)
  <2>1. SUFFICES ASSUME goes PROVE ~Closes(h) /\ ~(Samples(h) /\ Closes(h + 1)) /\ ~Opens(g)
    OBVIOUS
  <2>2. ~Closes(h)
    <3> HIDE DEF l, k, g
    <3> QED BY <1>0, <1>2, <2>1, Sizes
  <2>3. ~(Samples(h) /\ Closes(h + 1))
    <3> HIDE DEF l, k, g
    <3> QED BY <1>0, <1>1, <1>6, <2>1, <2>2, Sizes
  <2>4. ~Opens(g)
    <3>1. LayerAt(g) >= n /\ LayerAt(g) < n + NumLayers
      <4> HIDE DEF l, k, g
      <4> QED BY <1>0, <1>4, <2>1, Sizes
    <3>2. Opens(g) <=> LayerAt(g) = n /\ SlotAt(g) = 0
      BY <1>0, <3>1, StepTurns
    <3> HIDE DEF l, k, g
    <3> QED BY <1>0, <1>4, <2>1, <3>2, Sizes
  <2> QED BY <2>2, <2>3, <2>4
<1>8. ~goes => mid = end
  <2> HIDE DEF l, k, g
  <2> QED BY <1>0, <1>1, <1>2, <1>6, Sizes
<1>9. Turn(n, l, k) = ((s \o t) \o u) \o v
  <2>1. Ahead(n, l, k) = u
    <3>1. CASE k + 2 < num_mb
      <4>1. Ahead(n, l, k) = Attention(l, k + 2)
        BY <3>1 DEF Ahead
      <4>2. u = Attention(LayerAt(g), SlotAt(g))
        BY <3>1
      <4> HIDE DEF l, k, g, u
      <4> QED BY <1>4, <3>1, <4>1, <4>2
    <3>2. CASE ~(k + 2 < num_mb) /\ l < n + NumLayers - 1
      <4>1. Ahead(n, l, k) = Attention(l + 1, (k + 2) % num_mb)
        BY <3>2 DEF Ahead
      <4>2. u = Attention(LayerAt(g), SlotAt(g))
        BY <3>2
      <4>3. (k + 2) % num_mb = SlotAt(g) /\ LayerAt(g) = l + 1
        <5> HIDE DEF l, k, g
        <5>1. k + 2 = num_mb \/ k + 1 = num_mb
          BY <1>0, <3>2, Sizes
        <5>2. num_mb % num_mb = 0 /\ (num_mb + 1) % num_mb = 1
          <6>1. num_mb = 1 * num_mb + 0 /\ num_mb + 1 = 1 * num_mb + 1
            BY Sizes
          <6> QED BY <6>1, Sizes, DivOfParts
        <5> QED BY <1>0, <1>4, <5>1, <5>2, Sizes
      <4> HIDE DEF l, k, g, u
      <4> QED BY <4>1, <4>2, <4>3
    <3>3. CASE ~goes
      BY <3>3 DEF Ahead
    <3> QED BY <3>1, <3>2, <3>3
  <2>2. get_prefetch_e2p_idx(n, l, k) = v
    <3>1. CASE k + 2 < num_mb
      <4>1. get_prefetch_e2p_idx(n, l, k) = <<Op("to_pin", l + 1, k + 2)>>
        BY <3>1 DEF get_prefetch_e2p_idx
      <4>2. v = <<Its_to_pin(g)>>
        BY <3>1
      <4>3. Its_to_pin(g) = Op("to_pin", LayerAt(g) + 1, SlotAt(g))
        BY DEF Its_to_pin
      <4> HIDE DEF l, k, g, v
      <4> QED BY <1>4, <3>1, <4>1, <4>2, <4>3
    <3>2. CASE ~(k + 2 < num_mb) /\ l < n + NumLayers - 1
      <4>1. get_prefetch_e2p_idx(n, l, k) = <<Op("to_pin", l + 2, (k + 2) % num_mb)>>
        BY <3>2 DEF get_prefetch_e2p_idx
      <4>2. v = <<Its_to_pin(g)>>
        BY <3>2
      <4>3. (k + 2) % num_mb = SlotAt(g) /\ LayerAt(g) + 1 = l + 2
        <5> HIDE DEF l, k, g
        <5>1. k + 2 = num_mb \/ k + 1 = num_mb
          BY <1>0, <3>2, Sizes
        <5>2. num_mb % num_mb = 0 /\ (num_mb + 1) % num_mb = 1
          <6>1. num_mb = 1 * num_mb + 0 /\ num_mb + 1 = 1 * num_mb + 1
            BY Sizes
          <6> QED BY <6>1, Sizes, DivOfParts
        <5> QED BY <1>0, <1>4, <5>1, <5>2, Sizes
      <4>4. Its_to_pin(g) = Op("to_pin", LayerAt(g) + 1, SlotAt(g))
        BY DEF Its_to_pin
      <4> HIDE DEF l, k, g, v
      <4> QED BY <4>1, <4>2, <4>3, <4>4
    <3>3. CASE ~goes
      BY <3>3 DEF get_prefetch_e2p_idx
    <3> QED BY <3>1, <3>2, <3>3
  <2>3. <<Op("load_hidden", l, k), Op("prefetch", l + 1, k), Op("post_attention", l, k)>> = s
        /\ (IF l = n + NumLayers - 1 THEN <<Op("sample", l, k)>> ELSE <<>>) = t
    <3>1. a = Op("load_hidden", l, k) /\ b = Op("prefetch", l + 1, k) /\ c = Op("post_attention", l, k)
          /\ d = Op("sample", l, k)
      BY DEF Its, Its_prefetch
    <3> HIDE DEF a, b, c, d, l, k
    <3> QED BY <3>1, OneAndTwo
  <2> HIDE DEF l, k, s, t, u, v
  <2> QED BY <2>1, <2>2, <2>3 DEF Turn
<1>10. s \in Chains(a, IF last THEN d ELSE mid) /\ (last => AfterCall[d] = mid) /\ d \in Ops
  <2>1. a \in Ops /\ b \in Ops /\ c \in Ops /\ d \in Ops
    BY ItsFields, PrefetchFields DEF Names
  <2>2. AfterCall[a] = b /\ AfterCall[b] = c
        /\ AfterCall[c] = (IF Samples(h) THEN d ELSE Its("pre_attention", g))
    BY AfterOthers
  <2>3. AfterCall[d] = IF Closes(h) THEN Its("pre_attention", h + 1)
                       ELSE IF Closes(h + 1) THEN Its("load_hidden", h + 1)
                       ELSE Its("pre_attention", g)
    BY AfterOthers
  <2>4. AfterCall[c] = (IF last THEN d ELSE mid)
    <3> HIDE DEF l, k, g, last, a, b, c, d
    <3> QED BY <1>1, <1>2, <2>2
  <2>5. last => AfterCall[d] = mid
    <3> HIDE DEF l, k, g, last, a, b, c, d
    <3> QED BY <1>1, <1>2, <2>3
  <2> HIDE DEF a, b, c, d, mid, last
  <2>6. <<a>> \in Chains(a, b) /\ <<b, c>> \in Chains(b, AfterCall[c])
    BY <2>1, <2>2, LinkedOne, LinkedTwo DEF Chains
  <2>7. <<a>> \o <<b, c>> \in Chains(a, AfterCall[c])
    BY <2>6, LinkedConcat DEF Chains
  <2> QED BY <2>1, <2>4, <2>5, <2>7
<1>11. s \o t \in Chains(a, mid)
  <2>1. last \in BOOLEAN
    OBVIOUS
  <2> HIDE DEF a, d, mid, last, s
  <2> QED BY <1>10, <2>1, LinkedOptional DEF Chains
<1>12. ((s \o t) \o u) \o v \in Chains(a, end)
  <2>1. CASE goes
    <3>1. u = Attention(LayerAt(g), SlotAt(g)) /\ v = <<Its_to_pin(g)>>
      BY <2>1
    <3>2. mid = Its("pre_attention", g) /\ end = Its("load_hidden", h + 1)
      BY <1>7, <2>1
    <3>3. AfterCall[Its_to_pin(g)] = Its("load_hidden", h + 1)
      <4>1. ~Opens(g)
        BY <1>7, <2>1
      <4> HIDE DEF g, goes
      <4> QED BY <1>0, <4>1, AfterStarting
    <3> HIDE DEF g, u, v, mid, end, s, t, a, goes
    <3>4. /\ u \in Chains(mid, Its_to_pin(g)) /\ v \in Chains(Its_to_pin(g), end)
      BY <1>0, <3>1, <3>2, <3>3, StartChain
    <3>5. (s \o t) \o u \in Chains(a, Its_to_pin(g))
      BY <1>11, <3>4, LinkedConcat DEF Chains
    <3> QED BY <3>4, <3>5, LinkedConcat DEF Chains
  <2>2. CASE ~goes
    <3>1. u = <<>> /\ v = <<>> /\ mid = end
      BY <1>8, <2>2
    <3>2. s \o t \in Seq(Ops)
      <4> HIDE DEF s, t, a, mid
      <4> QED BY <1>11 DEF Chains, Linked
    <3> HIDE DEF u, v, mid, end, s, t, a
    <3>3. (s \o t) \o <<>> = s \o t
      BY <3>2, ConcatEmptySeq
    <3> QED BY <1>11, <3>1, <3>3
  <2> QED BY <2>1, <2>2
<1> HIDE DEF s, t, u, v
<1> QED BY <1>9, <1>12

LEMMA StepChain ==
  ASSUME NEW n, StepLayer(n)
  PROVE  DecodeStep(n) \in Chains(Its("pre_attention", n * num_mb),
                                  Its("pre_attention", n * num_mb + NumLayers * num_mb))
<1> DEFINE first == n * num_mb
           total == NumLayers * num_mb
           end == Its("pre_attention", first + total)
           e == [i \in 1 .. total + 1 |-> IF i <= total THEN Its("load_hidden", first + (i - 1)) ELSE end]
           turn(t) == Turn(n, n + (t - 1) \div num_mb, (t - 1) % num_mb)
           seqs == [t \in 1 .. total |-> turn(t)]
<1>1. n \in Nat /\ first \in Nat /\ total \in Nat /\ total >= 1
  <2>1. \A a, b \in Nat : a >= 1 /\ b >= 1 => a * b \in Nat /\ a * b >= 1
    OBVIOUS
  <2> QED BY <2>1, Sizes DEF StepLayer
<1>2. ASSUME NEW t \in 1 .. total
      PROVE  turn(t) \in Chains(Its("load_hidden", first + (t - 1)),
                                IF t < total THEN Its("load_hidden", first + t) ELSE end)
  <2> DEFINE q == LayerAt(t - 1)
             r == SlotAt(t - 1)
             h == first + (t - 1)
  <2>1. t - 1 \in Int /\ t - 1 >= 0 /\ t - 1 < total
    BY <1>1
  <2>2. q \in Int /\ r \in MicroBatchIds /\ t - 1 = q * num_mb + r /\ r \in Int /\ r >= 0 /\ r < num_mb
    BY <2>1, TurnParts, Sizes DEF MicroBatchIds
  <2>3. q >= 0 /\ q < NumLayers
    <3>1. 0 \in MicroBatchIds /\ num_mb - 1 \in MicroBatchIds /\ NumLayers \in Int
      BY Sizes DEF MicroBatchIds
    <3>2. q < 0 => q * num_mb + r < 0 * num_mb + 0
      BY <2>2, <3>1, Apart
    <3>3. NumLayers < q => NumLayers * num_mb + 0 < q * num_mb + r
      BY <2>2, <3>1, Apart
    <3>4. q # NumLayers
      <4>1. q = NumLayers => t - 1 = total + r
        BY <2>2
      <4> HIDE DEF total, q, r
      <4> QED BY <1>1, <2>1, <2>2, <4>1
    <3> HIDE DEF q, r
    <3> QED BY <1>1, <2>1, <2>2, <3>2, <3>3, <3>4, Sizes
  <2>4. LayerAt(h) = n + q /\ SlotAt(h) = r /\ h \in Int
    <3> HIDE DEF q, r
    <3>1. h = (n + q) * num_mb + r /\ n + q \in Int
      BY <1>1, <2>2, Sizes
    <3> HIDE DEF h
    <3> QED BY <1>1, <2>2, <3>1, TurnOfParts
  <2>5. turn(t) = Turn(n, LayerAt(h), SlotAt(h))
    <3> HIDE DEF h
    <3>1. n + (t - 1) \div num_mb = LayerAt(h) /\ (t - 1) % num_mb = SlotAt(h)
      BY <2>4 DEF q, r, LayerAt, SlotAt
    <3> QED BY <3>1
  <2>6. LayerAt(h) >= n /\ LayerAt(h) < n + NumLayers
    <3> HIDE DEF h, q, r
    <3> QED BY <1>1, <2>2, <2>3, <2>4, Sizes
  <2>7. Closes(h) <=> t = total
    <3>1. Closes(h) <=> LayerAt(h) = n + NumLayers - 1 /\ SlotAt(h) = num_mb - 1
      <4> HIDE DEF h
      <4> QED BY <2>4, <2>6, StepTurns
    <3>2. Closes(h) <=> q = NumLayers - 1 /\ r = num_mb - 1
      <4> HIDE DEF h, q, r
      <4> QED BY <1>1, <2>2, <2>4, <3>1, Sizes
    <3>3. (NumLayers - 1) * num_mb + (num_mb - 1) = total - 1
      BY Sizes
    <3>4. q = NumLayers - 1 /\ r = num_mb - 1 => t - 1 = total - 1
      <4> HIDE DEF q, r, total
      <4> QED BY <2>2, <3>3
    <3>5. t = total => q = NumLayers - 1 /\ r = num_mb - 1
      <4>1. NumLayers - 1 \in Int /\ num_mb - 1 \in MicroBatchIds
        BY Sizes DEF MicroBatchIds
      <4>2. LayerAt((NumLayers - 1) * num_mb + (num_mb - 1)) = NumLayers - 1
            /\ SlotAt((NumLayers - 1) * num_mb + (num_mb - 1)) = num_mb - 1
        BY <4>1, TurnOfParts
      <4> HIDE DEF total
      <4> QED BY <3>3, <4>2
    <3> HIDE DEF h, q, r, total
    <3> QED BY <1>1, <3>2, <3>4, <3>5
  <2>8. h + 1 = first + t
    <3> HIDE DEF first
    <3> QED BY <1>1
  <2> HIDE DEF h, q, r, turn
  <2>9. turn(t) \in Chains(Its("load_hidden", h), IF Closes(h) THEN Its("pre_attention", h + 1)
                                                   ELSE Its("load_hidden", h + 1))
    BY <2>4, <2>5, <2>6, TurnChain
  <2>10. t < total <=> ~Closes(h)
    <3> HIDE DEF total
    <3> QED BY <1>1, <2>7
  <2>11. t = total => Its("pre_attention", h + 1) = end
    BY <2>8
  <2> HIDE DEF first, total, end
  <2>12. (IF Closes(h) THEN Its("pre_attention", h + 1) ELSE Its("load_hidden", h + 1))
         = (IF t < total THEN Its("load_hidden", first + t) ELSE end)
    BY <2>7, <2>8, <2>10, <2>11
  <2> QED BY <2>9, <2>12 DEF h
<1>3. \A t \in 1 .. total : seqs[t] \in Chains(e[t], e[t + 1])
  <2>1. SUFFICES ASSUME NEW t \in 1 .. total PROVE seqs[t] \in Chains(e[t], e[t + 1])
    OBVIOUS
  <2> HIDE DEF turn, first, total, end
  <2>2. seqs[t] = turn(t)
    OBVIOUS
  <2>3. e[t] = Its("load_hidden", first + (t - 1))
    BY <1>1
  <2>4. t + 1 \in 1 .. total + 1 /\ (t + 1) - 1 = t /\ (t + 1 <= total <=> t < total)
    BY <1>1
  <2>5. e[t + 1] = IF t < total THEN Its("load_hidden", first + t) ELSE end
    BY <2>4
  <2> QED BY <1>2, <2>2, <2>3, <2>5
<1>4. seqs = [t \in 1 .. total |-> seqs[t]]
  OBVIOUS
<1>5. e[1] = Its("load_hidden", first) /\ e[total + 1] = end
  <2> HIDE DEF first, total, end
  <2>1. 1 \in 1 .. total + 1 /\ total + 1 \in 1 .. total + 1 /\ 1 <= total /\ ~(total + 1 <= total)
        /\ first + (1 - 1) = first
    BY <1>1
  <2> QED BY <2>1
<1>6. DecodeStep(n) = Prologue(n, 0) \o Prologue(n, 1) \o FlattenSeq(seqs)
  BY DEF DecodeStep
<1>7. /\ Prologue(n, 0) \in Chains(Its("pre_attention", first), Its("pre_attention", first + 1))
      /\ Prologue(n, 1) \in Chains(Its("pre_attention", first + 1), Its("load_hidden", first))
  BY PrologueChain
<1> HIDE DEF seqs, e, total, first, end
<1>8. FlattenSeq(seqs) \in Chains(Its("load_hidden", first), end)
  <2>1. total \in Nat \ {0}
    BY <1>1
  <2> QED BY <1>3, <1>4, <1>5, <2>1, LinkedFlatten DEF Chains
<1>9. Prologue(n, 0) \o Prologue(n, 1) \in Chains(Its("pre_attention", first), Its("load_hidden", first))
  BY <1>7, LinkedConcat DEF Chains
<1>10. DecodeStep(n) \in Chains(Its("pre_attention", first), end)
  BY <1>6, <1>8, <1>9, LinkedConcat DEF Chains
<1> QED BY <1>10 DEF first, total, end

LEMMA ProgramChain ==
  /\ Program \in Seq(Ops)
  /\ Program # <<>> => Program[1] = Its("pre_attention", 0)
  /\ \A i \in 1 .. Len(Program) - 1 : Program[i + 1] = AfterCall[Program[i]]
<1> DEFINE total == NumLayers * num_mb
           seqs == [s \in 1 .. Steps |-> DecodeStep((s - 1) * NumLayers)]
           e == [i \in 1 .. Steps + 1 |-> Its("pre_attention", (i - 1) * total)]
<1>0. Steps \in Nat /\ total \in Nat
  BY Sizes
<1>1. Program = FlattenSeq(seqs)
  BY DEF Program
<1>2. CASE Steps = 0
  <2>1. seqs = <<>>
    BY <1>2
  <2>2. FlattenSeq(<<>>) = <<>>
    BY DEF FlattenSeq
  <2>3. Program = <<>>
    BY <1>1, <2>1, <2>2
  <2> DEFINE T == Seq(Ops)
  <2>4. <<>> \in T /\ Len(<<>>) = 0
    OBVIOUS
  <2> HIDE DEF T
  <2>5. Program \in T /\ Len(Program) = 0
    BY <2>3, <2>4
  <2>6. \A i \in 1 .. Len(Program) - 1 : FALSE
    BY <2>5
  <2> QED BY <2>3, <2>5, <2>6 DEF T
<1>3. CASE Steps # 0
  <2>1. ASSUME NEW s \in 1 .. Steps PROVE seqs[s] \in Chains(e[s], e[s + 1])
    <3> DEFINE n == (s - 1) * NumLayers
    <3>1. s - 1 \in Nat /\ s \in 1 .. Steps + 1 /\ s + 1 \in 1 .. Steps + 1 /\ (s + 1) - 1 = s
      BY <1>0
    <3>2. StepLayer(n)
      <4>1. n \in Nat /\ n + 0 = n /\ 0 \in 0 .. NumLayers - 1 /\ NumLayers >= 1
        BY <3>1, Sizes
      <4>2. ((s - 1) * NumLayers + 0) % NumLayers = 0
        BY <3>1, <4>1, Sizes, DivOfParts
      <4>3. (s - 1) * NumLayers + 0 = n
        BY <4>1
      <4> QED BY <4>1, <4>2, <4>3 DEF StepLayer
    <3>3. n * num_mb = (s - 1) * total /\ n * num_mb + NumLayers * num_mb = s * total
      BY <3>1, Sizes
    <3>4. DecodeStep(n) \in Chains(Its("pre_attention", n * num_mb),
                                   Its("pre_attention", n * num_mb + NumLayers * num_mb))
      BY <3>2, StepChain
    <3>5. seqs[s] = DecodeStep(n)
      OBVIOUS
    <3> HIDE DEF n, total
    <3>6. e[s] = Its("pre_attention", (s - 1) * total) /\ e[s + 1] = Its("pre_attention", s * total)
      BY <3>1
    <3> HIDE DEF seqs, e
    <3> QED BY <3>3, <3>4, <3>5, <3>6
  <2>2. seqs = [s \in 1 .. Steps |-> seqs[s]]
    OBVIOUS
  <2>3. e[1] = Its("pre_attention", 0)
    <3>1. 1 \in 1 .. Steps + 1 /\ (1 - 1) * total = 0
      BY <1>0
    <3> HIDE DEF total
    <3> QED BY <3>1
  <2>4. Steps \in Nat \ {0}
    BY <1>0, <1>3
  <2> HIDE DEF seqs, e, total
  <2>5. Program \in Linked(Ops, AfterCall, e[1], e[Steps + 1])
    BY <1>1, <2>1, <2>2, <2>4, LinkedFlatten DEF Chains
  <2> QED BY <2>3, <2>5 DEF Linked
<1> QED BY <1>2, <1>3

-----------------------------------------------------------------------------
(* The counts, call by call *)

\* The first turn of a step follows the last.
LEMMA Neighbours ==
  ASSUME NEW h \in Int
  PROVE  /\ Opens(h + 1) <=> Closes(h)
         /\ ~Samples(h) => ~Closes(h) /\ ~Closes(h + 1)
         /\ ~(Opens(h) /\ Closes(h))
         /\ Samples(h) /\ ~Closes(h) => Samples(h + 1)
<1> DEFINE n == LayerAt(h)
           k == SlotAt(h)
           q == n \div NumLayers
           r == n % NumLayers
<1>1. n \in Int /\ k \in Int /\ k >= 0 /\ k < num_mb /\ num_mb >= 3 /\ num_mb \in Nat
      /\ NumLayers \in Nat /\ NumLayers >= 2
  BY TurnParts, Sizes DEF MicroBatchIds
<1>2. q \in Int /\ r \in 0 .. NumLayers - 1 /\ n = q * NumLayers + r
  <2> HIDE DEF n
  <2>1. n \in Int /\ NumLayers \in Nat /\ NumLayers >= 1
    BY <1>1
  <2> QED BY <2>1, DivParts
<1>3. (n + 1) % NumLayers = IF r = NumLayers - 1 THEN 0 ELSE r + 1
  <2> HIDE DEF n, q, r
  <2>1. CASE r = NumLayers - 1
    <3>0. q \in Int /\ NumLayers \in Int /\ (q + 1) * NumLayers + 0 = q * NumLayers + NumLayers
      BY <1>1, <1>2
    <3>1. n + 1 = (q + 1) * NumLayers + 0 /\ q + 1 \in Int /\ 0 \in 0 .. NumLayers - 1
      BY <1>1, <1>2, <2>1, <3>0
    <3>2. ((q + 1) * NumLayers + 0) % NumLayers = 0
      BY <1>1, <3>1, DivOfParts
    <3> QED BY <2>1, <3>1, <3>2
  <2>2. CASE r # NumLayers - 1
    <3>1. n + 1 = q * NumLayers + (r + 1) /\ r + 1 \in 0 .. NumLayers - 1
      BY <1>1, <1>2, <2>2
    <3>2. (q * NumLayers + (r + 1)) % NumLayers = r + 1
      <4>1. NumLayers \in Nat /\ NumLayers >= 1 /\ q \in Int
        BY <1>1, <1>2
      <4> HIDE DEF n, q, r
      <4> QED BY <3>1, <4>1, DivOfParts
    <3> QED BY <2>2, <3>1, <3>2
  <2> QED BY <2>1, <2>2
<1>4. IF k = num_mb - 1 THEN LayerAt(h + 1) = n + 1 /\ SlotAt(h + 1) = 0
                        ELSE LayerAt(h + 1) = n /\ SlotAt(h + 1) = k + 1
  BY LaterTurn
<1>5. /\ Opens(h) <=> r = 0 /\ k = 0
      /\ Samples(h) <=> r = NumLayers - 1
      /\ Closes(h) <=> r = NumLayers - 1 /\ k = num_mb - 1
  BY DEF Opens, Samples, Closes
<1>6. CASE k = num_mb - 1
  <2>1. LayerAt(h + 1) = n + 1 /\ SlotAt(h + 1) = 0
    BY <1>4, <1>6
  <2>2. Opens(h + 1) <=> r = NumLayers - 1
    <3> HIDE DEF n, r
    <3>1. Opens(h + 1) <=> (n + 1) % NumLayers = 0
      BY <2>1 DEF Opens
    <3> QED BY <1>1, <1>2, <1>3, <3>1
  <2>3. ~Closes(h + 1)
    BY <1>1, <2>1 DEF Closes
  <2> HIDE DEF n, r, k
  <2> QED BY <1>1, <1>5, <1>6, <2>2, <2>3
<1>7. CASE k # num_mb - 1
  <2>1. LayerAt(h + 1) = n /\ SlotAt(h + 1) = k + 1
    BY <1>4, <1>7
  <2>2. ~Opens(h + 1)
    BY <1>1, <2>1 DEF Opens
  <2>3. Samples(h + 1) <=> r = NumLayers - 1
    BY <2>1 DEF Samples
  <2>4. Closes(h + 1) => r = NumLayers - 1
    BY <2>3 DEF Closes
  <2> HIDE DEF n, r, k
  <2> QED BY <1>1, <1>5, <1>7, <2>2, <2>3, <2>4
<1> QED BY <1>6, <1>7

\* Call `op` adds one to its count.
Counting(op, c, d) ==
  /\ d.pre = IF op = "pre_attention" THEN c.pre + 1 ELSE c.pre
  /\ d.off = IF op = "offload_qkv" THEN c.off + 1 ELSE c.off
  /\ d.cpu = IF op = "cpu_attention" THEN c.cpu + 1 ELSE c.cpu
  /\ d.pin = IF op = "to_pin" THEN c.pin + 1 ELSE c.pin
  /\ d.load = IF op = "load_hidden" THEN c.load + 1 ELSE c.load
  /\ d.fetch = IF op = "prefetch" THEN c.fetch + 1 ELSE c.fetch
  /\ d.post = IF op = "post_attention" THEN c.post + 1 ELSE c.post

LEMMA CallFields ==
  ASSUME NEW h \in Int, NEW x \in Calls(h)
  PROVE  /\ x \in Ops /\ TurnOf(x) = h
         /\ x = IF x.op = "to_pin" THEN Its_to_pin(h)
                ELSE IF x.op = "prefetch" THEN Its_prefetch(h) ELSE Its(x.op, h)
<1>1. CASE x = Its_to_pin(h)
  BY <1>1, ToPinFields
<1>2. CASE x = Its_prefetch(h)
  BY <1>2, PrefetchFields
<1>3. ASSUME NEW op \in Names \ {"to_pin", "prefetch"}, x = Its(op, h)
      PROVE  /\ x \in Ops /\ TurnOf(x) = h
             /\ x = IF x.op = "to_pin" THEN Its_to_pin(h)
                    ELSE IF x.op = "prefetch" THEN Its_prefetch(h) ELSE Its(x.op, h)
  BY <1>3, ItsFields
<1> QED BY <1>1, <1>2, <1>3 DEF Calls

LEMMA CountsStarting ==
  ASSUME NEW h \in Int, NEW x, TurnOf(x) = h, x.op \in Starting
  PROVE  LET c == Counts(x)
             w == IF Opens(h) THEN h - 1 ELSE h - 2
         IN  /\ c.pre = h /\ c.off = (IF x.op = "pre_attention" THEN h - 1 ELSE h)
             /\ c.cpu = (IF x.op \in {"pre_attention", "offload_qkv"} THEN h - 1 ELSE h)
             /\ c.pin = (IF x.op = "to_pin" THEN h ELSE h - 1)
             /\ c.load = w /\ c.fetch = w /\ c.post = w
BY DEF Counts, Starting

LEMMA CountsOthers ==
  ASSUME NEW h \in Int, NEW x, TurnOf(x) = h,
         x.op \in {"load_hidden", "prefetch", "post_attention", "sample"}
  PROVE  LET c == Counts(x)
             a == IF Closes(h) THEN h ELSE h + 1
         IN  /\ c.pre = a /\ c.off = a /\ c.cpu = a /\ c.pin = a
             /\ c.load = h /\ c.fetch = (IF x.op = "load_hidden" THEN h - 1 ELSE h)
             /\ c.post = (IF x.op \in {"load_hidden", "prefetch"} THEN h - 1 ELSE h)
BY DEF Counts, Starting

LEMMA LegalBounds ==
  ASSUME NEW x, Legal(x)
  PROVE  Bounds(Counts(x))
<1>1. PICK h \in Int : x \in Calls(h) /\ h >= -1 /\ (x.op # "sample" => h >= 0)
  BY DEF Legal
<1>2. x.op \in Names /\ TurnOf(x) = h
  BY <1>1, CallFields DEF Ops
<1>3. h = 0 => Opens(h)
  <2>1. 0 * num_mb + 0 = 0 /\ 0 \in MicroBatchIds /\ 0 * NumLayers + 0 = 0 /\ 0 \in 0 .. NumLayers - 1
    BY Sizes DEF MicroBatchIds
  <2>2. LayerAt(0 * num_mb + 0) = 0 /\ SlotAt(0 * num_mb + 0) = 0 /\ (0 * NumLayers + 0) % NumLayers = 0
    BY <2>1, Sizes, TurnOfParts, DivOfParts
  <2> QED BY <2>1, <2>2 DEF Opens
<1>4. CASE x.op \in Starting
  <2>1. h >= 0
    BY <1>1, <1>4 DEF Starting
  <2> QED BY <1>2, <1>3, <1>4, <2>1, CountsStarting DEF Bounds, Starting
<1>5. CASE x.op \in {"load_hidden", "prefetch", "post_attention", "sample"}
  BY <1>1, <1>2, <1>5, CountsOthers DEF Bounds
<1> QED BY <1>2, <1>4, <1>5 DEF Names, Starting

\* The turn of the call that is counted.
CountOf(op, c) ==
  IF op = "pre_attention" THEN c.pre ELSE IF op = "offload_qkv" THEN c.off
  ELSE IF op = "cpu_attention" THEN c.cpu ELSE IF op = "to_pin" THEN c.pin
  ELSE IF op = "load_hidden" THEN c.load ELSE IF op = "prefetch" THEN c.fetch ELSE c.post

LEMMA NextCall ==
  ASSUME NEW x, Legal(x)
  PROVE  LET y == AfterCall[x]
             c == Counts(x)
             d == Counts(y)
         IN  /\ Legal(y) /\ y \in Calls(CountOf(y.op, d)) /\ CountOf(y.op, d) \in Int
             /\ Counting(y.op, c, d)
             /\ y.op = "pre_attention" => c.post < c.pre \/ x.op = "sample"
<1> DEFINE y == AfterCall[x]
           c == Counts(x)
           d == Counts(y)
           Goal == /\ Legal(y) /\ y \in Calls(CountOf(y.op, d)) /\ CountOf(y.op, d) \in Int
                   /\ Counting(y.op, c, d)
                   /\ y.op = "pre_attention" => c.post < c.pre \/ x.op = "sample"
<1>1. PICK h \in Int : x \in Calls(h) /\ h >= -1 /\ (x.op # "sample" => h >= 0)
                       /\ (x.op = "sample" => Samples(h))
  BY DEF Legal
<1>2. /\ x \in Ops /\ TurnOf(x) = h /\ x.op \in Names
      /\ x = IF x.op = "to_pin" THEN Its_to_pin(h)
             ELSE IF x.op = "prefetch" THEN Its_prefetch(h) ELSE Its(x.op, h)
  BY <1>1, CallFields DEF Ops
<1> SUFFICES Goal
  OBVIOUS
<1> HIDE DEF y, c, d, Goal
<1>a. ASSUME NEW g \in Int, g >= 0, NEW op \in Names \ {"to_pin", "prefetch"}, y = Its(op, g),
             op = "sample" => Samples(g)
      PROVE  y.op = op /\ TurnOf(y) = g /\ y \in Calls(g) /\ Legal(y)
  <2>1. y.op = op /\ TurnOf(y) = g /\ y \in Calls(g)
    BY <1>a, ItsFields DEF Calls
  <2> QED BY <1>a, <2>1 DEF Legal
<1>b. ASSUME NEW g \in Int, g >= 0, y = Its_to_pin(g)
      PROVE  y.op = "to_pin" /\ TurnOf(y) = g /\ y \in Calls(g) /\ Legal(y)
  <2>1. y.op = "to_pin" /\ TurnOf(y) = g /\ y \in Calls(g)
    BY <1>b, ToPinFields DEF Calls
  <2> QED BY <1>b, <2>1 DEF Legal
<1>c. ASSUME NEW g \in Int, g >= 0, y = Its_prefetch(g)
      PROVE  y.op = "prefetch" /\ TurnOf(y) = g /\ y \in Calls(g) /\ Legal(y)
  <2>1. y.op = "prefetch" /\ TurnOf(y) = g /\ y \in Calls(g)
    BY <1>c, PrefetchFields DEF Calls
  <2> QED BY <1>c, <2>1 DEF Legal
<1>3. CASE x.op = "pre_attention"
  <2>1. h >= 0 /\ y = Its("offload_qkv", h)
    BY <1>1, <1>2, <1>3, AfterStarting DEF y
  <2>2. y.op = "offload_qkv" /\ TurnOf(y) = h /\ y \in Calls(h) /\ Legal(y)
    BY <1>a, <2>1 DEF Names
  <2> DEFINE w == IF Opens(h) THEN h - 1 ELSE h - 2
  <2>3. /\ c.pre = h /\ c.off = h - 1 /\ c.cpu = h - 1 /\ c.pin = h - 1
        /\ c.load = w /\ c.fetch = w /\ c.post = w
    BY <1>2, <1>3, CountsStarting DEF Starting, c
  <2>4. /\ d.pre = h /\ d.off = h /\ d.cpu = h - 1 /\ d.pin = h - 1
        /\ d.load = w /\ d.fetch = w /\ d.post = w
    BY <2>2, CountsStarting DEF Starting, d
  <2>5. w < h /\ (h - 1) + 1 = h
    OBVIOUS
  <2> HIDE DEF w
  <2>6. CountOf(y.op, d) = h
    BY <2>2, <2>4 DEF CountOf
  <2>7. Counting(y.op, c, d)
    BY <2>2, <2>3, <2>4, <2>5 DEF Counting
  <2> QED BY <2>2, <2>6, <2>7 DEF Goal
<1>4. CASE x.op = "offload_qkv"
  <2>1. h >= 0 /\ y = Its("cpu_attention", h)
    BY <1>1, <1>2, <1>4, AfterStarting DEF y
  <2>2. y.op = "cpu_attention" /\ TurnOf(y) = h /\ y \in Calls(h) /\ Legal(y)
    BY <1>a, <2>1 DEF Names
  <2> DEFINE w == IF Opens(h) THEN h - 1 ELSE h - 2
  <2>3. /\ c.pre = h /\ c.off = h /\ c.cpu = h - 1 /\ c.pin = h - 1
        /\ c.load = w /\ c.fetch = w /\ c.post = w
    BY <1>2, <1>4, CountsStarting DEF Starting, c
  <2>4. /\ d.pre = h /\ d.off = h /\ d.cpu = h /\ d.pin = h - 1
        /\ d.load = w /\ d.fetch = w /\ d.post = w
    BY <2>2, CountsStarting DEF Starting, d
  <2>5. w < h /\ (h - 1) + 1 = h
    OBVIOUS
  <2> HIDE DEF w
  <2>6. CountOf(y.op, d) = h
    BY <2>2, <2>4 DEF CountOf
  <2>7. Counting(y.op, c, d)
    BY <2>2, <2>3, <2>4, <2>5 DEF Counting
  <2> QED BY <2>2, <2>6, <2>7 DEF Goal
<1>5. CASE x.op = "cpu_attention"
  <2>1. h >= 0 /\ y = Its_to_pin(h)
    BY <1>1, <1>2, <1>5, AfterStarting DEF y
  <2>2. y.op = "to_pin" /\ TurnOf(y) = h /\ y \in Calls(h) /\ Legal(y)
    BY <1>b, <2>1
  <2> DEFINE w == IF Opens(h) THEN h - 1 ELSE h - 2
  <2>3. /\ c.pre = h /\ c.off = h /\ c.cpu = h /\ c.pin = h - 1
        /\ c.load = w /\ c.fetch = w /\ c.post = w
    BY <1>2, <1>5, CountsStarting DEF Starting, c
  <2>4. /\ d.pre = h /\ d.off = h /\ d.cpu = h /\ d.pin = h
        /\ d.load = w /\ d.fetch = w /\ d.post = w
    BY <2>2, CountsStarting DEF Starting, d
  <2>5. w < h /\ (h - 1) + 1 = h
    OBVIOUS
  <2> HIDE DEF w
  <2>6. CountOf(y.op, d) = h
    BY <2>2, <2>4 DEF CountOf
  <2>7. Counting(y.op, c, d)
    BY <2>2, <2>3, <2>4, <2>5 DEF Counting
  <2> QED BY <2>2, <2>6, <2>7 DEF Goal
<1>6. CASE x.op = "to_pin"
  <2>1. h >= 0 /\ y = IF Opens(h) THEN Its("pre_attention", h + 1) ELSE Its("load_hidden", h - 1)
    BY <1>1, <1>2, <1>6, AfterStarting DEF y
  <2>2. CASE Opens(h)
    <3>1. y.op = "pre_attention" /\ TurnOf(y) = h + 1 /\ y \in Calls(h + 1) /\ Legal(y)
      BY <1>a, <2>1, <2>2 DEF Names
    <3>2. ~Opens(h + 1)
      BY <2>2, Neighbours
    <3>3. /\ c.pre = h /\ c.off = h /\ c.cpu = h /\ c.pin = h
          /\ c.load = h - 1 /\ c.fetch = h - 1 /\ c.post = h - 1
      BY <1>2, <1>6, <2>2, CountsStarting DEF Starting, c
    <3>4. /\ d.pre = h + 1 /\ d.off = h /\ d.cpu = h /\ d.pin = h
          /\ d.load = h - 1 /\ d.fetch = h - 1 /\ d.post = h - 1
      <4>1. h + 1 \in Int /\ (h + 1) - 1 = h /\ (h + 1) - 2 = h - 1
        OBVIOUS
      <4> QED BY <3>1, <3>2, <4>1, CountsStarting DEF Starting, d
    <3>5. CountOf(y.op, d) = (h + 1) /\ (h + 1) \in Int
      BY <3>1, <3>4 DEF CountOf
    <3>6. Counting(y.op, c, d)
      BY <3>1, <3>3, <3>4, <2>1 DEF Counting
    <3> QED BY <3>1, <3>3, <3>5, <3>6 DEF Goal
  <2>3. CASE ~Opens(h)
    <3>0. h - 1 \in Int /\ h - 1 >= 0 /\ (h - 1) + 1 = h /\ (h - 1) - 1 = h - 2
      <4>1. h = 0 => Opens(h)
        <5>1. 0 * num_mb + 0 = 0 /\ 0 \in MicroBatchIds /\ 0 * NumLayers + 0 = 0
              /\ 0 \in 0 .. NumLayers - 1
          BY Sizes DEF MicroBatchIds
        <5>2. LayerAt(0 * num_mb + 0) = 0 /\ SlotAt(0 * num_mb + 0) = 0
              /\ (0 * NumLayers + 0) % NumLayers = 0
          BY <5>1, Sizes, TurnOfParts, DivOfParts
        <5> QED BY <5>1, <5>2 DEF Opens
      <4> QED BY <2>1, <2>3, <4>1
    <3>1. y.op = "load_hidden" /\ TurnOf(y) = h - 1 /\ y \in Calls(h - 1) /\ Legal(y)
      BY <1>a, <2>1, <2>3, <3>0 DEF Names
    <3>2. ~Closes(h - 1)
      BY <2>3, <3>0, Neighbours
    <3>3. /\ c.pre = h /\ c.off = h /\ c.cpu = h /\ c.pin = h
          /\ c.load = h - 2 /\ c.fetch = h - 2 /\ c.post = h - 2
      BY <1>2, <1>6, <2>3, CountsStarting DEF Starting, c
    <3>4. /\ d.pre = h /\ d.off = h /\ d.cpu = h /\ d.pin = h
          /\ d.load = h - 1 /\ d.fetch = h - 2 /\ d.post = h - 2
      BY <3>0, <3>1, <3>2, CountsOthers DEF d
    <3>5. CountOf(y.op, d) = (h - 1) /\ (h - 1) \in Int
      BY <3>1, <3>4 DEF CountOf
    <3>6. Counting(y.op, c, d)
      BY <3>1, <3>3, <3>4, <2>1 DEF Counting
    <3> QED BY <3>1, <3>3, <3>5, <3>6 DEF Goal
  <2> QED BY <2>2, <2>3
<1>7. CASE x.op = "load_hidden"
  <2>1. h >= 0 /\ y = Its_prefetch(h)
    BY <1>1, <1>2, <1>7, AfterOthers DEF y
  <2>2. y.op = "prefetch" /\ TurnOf(y) = h /\ y \in Calls(h) /\ Legal(y)
    BY <1>c, <2>1
  <2> DEFINE a == IF Closes(h) THEN h ELSE h + 1
  <2>3. /\ c.pre = a /\ c.off = a /\ c.cpu = a /\ c.pin = a
          /\ c.load = h /\ c.fetch = h - 1 /\ c.post = h - 1
    BY <1>2, <1>7, CountsOthers DEF c
  <2>4. /\ d.pre = a /\ d.off = a /\ d.cpu = a /\ d.pin = a
          /\ d.load = h /\ d.fetch = h /\ d.post = h - 1
    BY <2>2, CountsOthers DEF d
  <2>5. (h - 1) + 1 = h
    OBVIOUS
  <2> HIDE DEF a
  <2>6. CountOf(y.op, d) = h
    BY <2>2, <2>4 DEF CountOf
  <2>7. Counting(y.op, c, d)
    BY <2>2, <2>3, <2>4, <2>5 DEF Counting
  <2> QED BY <2>2, <2>6, <2>7 DEF Goal
<1>8. CASE x.op = "prefetch"
  <2>1. h >= 0 /\ y = Its("post_attention", h)
    BY <1>1, <1>2, <1>8, AfterOthers DEF y
  <2>2. y.op = "post_attention" /\ TurnOf(y) = h /\ y \in Calls(h) /\ Legal(y)
    BY <1>a, <2>1 DEF Names
  <2> DEFINE a == IF Closes(h) THEN h ELSE h + 1
  <2>3. /\ c.pre = a /\ c.off = a /\ c.cpu = a /\ c.pin = a
          /\ c.load = h /\ c.fetch = h /\ c.post = h - 1
    BY <1>2, <1>8, CountsOthers DEF c
  <2>4. /\ d.pre = a /\ d.off = a /\ d.cpu = a /\ d.pin = a
          /\ d.load = h /\ d.fetch = h /\ d.post = h
    BY <2>2, CountsOthers DEF d
  <2>5. (h - 1) + 1 = h
    OBVIOUS
  <2> HIDE DEF a
  <2>6. CountOf(y.op, d) = h
    BY <2>2, <2>4 DEF CountOf
  <2>7. Counting(y.op, c, d)
    BY <2>2, <2>3, <2>4, <2>5 DEF Counting
  <2> QED BY <2>2, <2>6, <2>7 DEF Goal
<1>9. CASE x.op = "post_attention"
  <2>1. h >= 0 /\ y = IF Samples(h) THEN Its("sample", h) ELSE Its("pre_attention", h + 2)
    BY <1>1, <1>2, <1>9, AfterOthers DEF y
  <2>2. CASE Samples(h)
    <3>1. y.op = "sample" /\ TurnOf(y) = h /\ y \in Calls(h) /\ Legal(y)
      BY <1>a, <2>1, <2>2 DEF Names
    <3> DEFINE a == IF Closes(h) THEN h ELSE h + 1
    <3>3. /\ c.pre = a /\ c.off = a /\ c.cpu = a /\ c.pin = a
            /\ c.load = h /\ c.fetch = h /\ c.post = h
      BY <1>2, <1>9, CountsOthers DEF c
    <3>4. /\ d.pre = a /\ d.off = a /\ d.cpu = a /\ d.pin = a
            /\ d.load = h /\ d.fetch = h /\ d.post = h
      BY <3>1, CountsOthers DEF d
    <3>5. (h - 1) + 1 = h
      OBVIOUS
    <3> HIDE DEF a
    <3>6. CountOf(y.op, d) = h
      BY <3>1, <3>4 DEF CountOf
    <3>7. Counting(y.op, c, d)
      BY <3>1, <3>3, <3>4, <3>5 DEF Counting
    <3> QED BY <3>1, <3>6, <3>7 DEF Goal
  <2>3. CASE ~Samples(h)
    <3>0. h + 2 \in Int /\ h + 2 >= 0 /\ (h + 1) + 1 = h + 2 /\ h + 1 \in Int
      BY <2>1
    <3>1. y.op = "pre_attention" /\ TurnOf(y) = h + 2 /\ y \in Calls(h + 2) /\ Legal(y)
      BY <1>a, <2>1, <2>3, <3>0 DEF Names
    <3>2. ~Opens(h + 2) /\ ~Closes(h)
      <4>1. ~Closes(h) /\ ~Closes(h + 1)
        BY <2>3, Neighbours
      <4>2. Opens((h + 1) + 1) <=> Closes(h + 1)
        BY <3>0, Neighbours
      <4> QED BY <3>0, <4>1, <4>2
    <3>3. /\ c.pre = h + 1 /\ c.off = h + 1 /\ c.cpu = h + 1 /\ c.pin = h + 1
          /\ c.load = h /\ c.fetch = h /\ c.post = h
      BY <1>2, <1>9, <3>2, CountsOthers DEF c
    <3>4. /\ d.pre = h + 2 /\ d.off = h + 1 /\ d.cpu = h + 1 /\ d.pin = h + 1
          /\ d.load = h /\ d.fetch = h /\ d.post = h
      <4>1. (h + 2) - 1 = h + 1 /\ (h + 2) - 2 = h
        OBVIOUS
      <4> QED BY <3>0, <3>1, <3>2, <4>1, CountsStarting DEF Starting, d
    <3>5. CountOf(y.op, d) = (h + 2) /\ (h + 2) \in Int
      BY <3>1, <3>4, <2>1 DEF CountOf
    <3>6. Counting(y.op, c, d)
      BY <3>1, <3>3, <3>4, <2>1 DEF Counting
    <3> QED BY <3>1, <3>3, <3>5, <3>6 DEF Goal
  <2> QED BY <2>2, <2>3
<1>10. CASE x.op = "sample"
  <2>1. /\ h >= -1 /\ Samples(h) /\ h + 1 \in Int /\ h + 1 >= 0 /\ (h + 1) + 1 = h + 2
        /\ y = IF Closes(h) THEN Its("pre_attention", h + 1)
               ELSE IF Closes(h + 1) THEN Its("load_hidden", h + 1)
               ELSE Its("pre_attention", h + 2)
    BY <1>1, <1>2, <1>10, AfterOthers DEF y
  <2>2. CASE Closes(h)
    <3>1. y.op = "pre_attention" /\ TurnOf(y) = h + 1 /\ y \in Calls(h + 1) /\ Legal(y)
      BY <1>a, <2>1, <2>2 DEF Names
    <3>2. Opens(h + 1)
      BY <2>2, Neighbours
    <3>3. /\ c.pre = h /\ c.off = h /\ c.cpu = h /\ c.pin = h
          /\ c.load = h /\ c.fetch = h /\ c.post = h
      BY <1>2, <1>10, <2>2, CountsOthers DEF c
    <3>4. /\ d.pre = h + 1 /\ d.off = h /\ d.cpu = h /\ d.pin = h
          /\ d.load = h /\ d.fetch = h /\ d.post = h
      <4>1. (h + 1) - 1 = h
        OBVIOUS
      <4> QED BY <2>1, <3>1, <3>2, <4>1, CountsStarting DEF Starting, d
    <3>5. CountOf(y.op, d) = (h + 1) /\ (h + 1) \in Int
      BY <3>1, <3>4, <2>1 DEF CountOf
    <3>6. Counting(y.op, c, d)
      BY <3>1, <3>3, <3>4, <2>1 DEF Counting
    <3> QED BY <1>10, <3>1, <3>3, <3>5, <3>6 DEF Goal
  <2>3. CASE ~Closes(h) /\ Closes(h + 1)
    <3>1. y.op = "load_hidden" /\ TurnOf(y) = h + 1 /\ y \in Calls(h + 1) /\ Legal(y)
      BY <1>a, <2>1, <2>3 DEF Names
    <3>3. /\ c.pre = h + 1 /\ c.off = h + 1 /\ c.cpu = h + 1 /\ c.pin = h + 1
          /\ c.load = h /\ c.fetch = h /\ c.post = h
      BY <1>2, <1>10, <2>3, CountsOthers DEF c
    <3>4. /\ d.pre = h + 1 /\ d.off = h + 1 /\ d.cpu = h + 1 /\ d.pin = h + 1
          /\ d.load = h + 1 /\ d.fetch = h /\ d.post = h
      <4>1. (h + 1) - 1 = h
        OBVIOUS
      <4> QED BY <2>1, <2>3, <3>1, <4>1, CountsOthers DEF d
    <3>5. CountOf(y.op, d) = (h + 1) /\ (h + 1) \in Int
      BY <3>1, <3>4, <2>1 DEF CountOf
    <3>6. Counting(y.op, c, d)
      BY <3>1, <3>3, <3>4, <2>1 DEF Counting
    <3> QED BY <1>10, <3>1, <3>3, <3>5, <3>6 DEF Goal
  <2>4. CASE ~Closes(h) /\ ~Closes(h + 1)
    <3>0. h + 2 \in Int /\ h + 2 >= 0
      BY <2>1
    <3>1. y.op = "pre_attention" /\ TurnOf(y) = h + 2 /\ y \in Calls(h + 2) /\ Legal(y)
      BY <1>a, <2>1, <2>4, <3>0 DEF Names
    <3>2. ~Opens(h + 2)
      <4>1. Opens((h + 1) + 1) <=> Closes(h + 1)
        BY <2>1, Neighbours
      <4> QED BY <2>1, <2>4, <4>1
    <3>3. /\ c.pre = h + 1 /\ c.off = h + 1 /\ c.cpu = h + 1 /\ c.pin = h + 1
          /\ c.load = h /\ c.fetch = h /\ c.post = h
      BY <1>2, <1>10, <2>4, CountsOthers DEF c
    <3>4. /\ d.pre = h + 2 /\ d.off = h + 1 /\ d.cpu = h + 1 /\ d.pin = h + 1
          /\ d.load = h /\ d.fetch = h /\ d.post = h
      <4>1. (h + 2) - 1 = h + 1 /\ (h + 2) - 2 = h
        OBVIOUS
      <4> QED BY <3>0, <3>1, <3>2, <4>1, CountsStarting DEF Starting, d
    <3>5. CountOf(y.op, d) = (h + 2) /\ (h + 2) \in Int
      BY <3>1, <3>4, <2>1 DEF CountOf
    <3>6. Counting(y.op, c, d)
      BY <3>1, <3>3, <3>4, <2>1 DEF Counting
    <3> QED BY <1>10, <3>1, <3>3, <3>5, <3>6 DEF Goal
  <2> QED BY <2>2, <2>3, <2>4
<1> QED BY <1>2, <1>3, <1>4, <1>5, <1>6, <1>7, <1>8, <1>9, <1>10 DEF Names
-----------------------------------------------------------------------------
(* What is queued *)

LEMMA OtherHalf ==
  ASSUME NEW n \in Int
  PROVE  n % 2 \in {0, 1} /\ 1 - (n % 2) = (n + 1) % 2
<1>1. n \div 2 \in Int /\ n % 2 \in 0 .. 1 /\ n = (n \div 2) * 2 + (n % 2)
  <2>1. n \in Int /\ 2 \in Nat /\ 2 >= 1 /\ 2 - 1 = 1
    OBVIOUS
  <2> QED BY <2>1, DivParts
<1> DEFINE q == n \div 2
           r == n % 2
<1> HIDE DEF q, r
<1>2. q \in Int /\ r \in 0 .. 1 /\ n = q * 2 + r
  BY <1>1 DEF q, r
<1>3. CASE r = 0
  <2>1. n + 1 = q * 2 + 1 /\ 2 \in Nat /\ 2 >= 1 /\ 1 \in 0 .. 2 - 1
    BY <1>2, <1>3
  <2>2. (q * 2 + 1) % 2 = 1
    BY <1>2, <2>1, DivOfParts
  <2> QED BY <1>3, <2>1, <2>2 DEF r
<1>4. CASE r = 1
  <2>1. n + 1 = (q + 1) * 2 + 0 /\ q + 1 \in Int /\ 2 \in Nat /\ 2 >= 1 /\ 0 \in 0 .. 2 - 1
    BY <1>2, <1>4
  <2>2. ((q + 1) * 2 + 0) % 2 = 0
    BY <2>1, DivOfParts
  <2> QED BY <1>4, <2>1, <2>2 DEF r
<1>5. r = 0 \/ r = 1
  BY <1>2
<1> QED BY <1>3, <1>4, <1>5

LEMMA OtherPage ==
  ASSUME NEW n \in Int
  PROVE  Page(n) \in {0, 1} /\ 1 - Page(n) = Page(n + 1)
<1>1. n + 1 \in Int
  OBVIOUS
<1> QED BY <1>1, OtherHalf DEF Page

\* The page that is taken is the mapping's in a step that started at page 0.
LEMMA PageIs ==
  ASSUME first_page \in {0, 1}, NEW n \in Int
  PROVE  /\ PageTaken(n) = Page(n)
         /\ first_page = 1 => experts_mapping(n) # Page(n)
         /\ experts_mapping(n) \in {0, 1}
<1>1. n % 2 \in {0, 1} /\ 1 - (n % 2) = (n + 1) % 2
  BY OtherHalf
<1>2. CASE first_page = 0
  <2>1. n + first_page = n
    BY <1>2
  <2> QED BY <1>1, <1>2, <2>1 DEF PageTaken, Page, experts_mapping
<1>3. CASE first_page = 1
  <2>1. n % 2 # (n + 1) % 2
    BY <1>1
  <2> QED BY <1>1, <1>3, <2>1 DEF PageTaken, Page, experts_mapping
<1> QED BY <1>2, <1>3

LEMMA FirstPage ==
  ASSUME first_page \in {0, 1}
  PROVE  Page(0) = first_page /\ Page(1) = 1 - first_page
<1>1. 0 % 2 = 0 /\ (0 + 1) % 2 = 1
  OBVIOUS
<1>2. Page(0) = first_page
  BY <1>1 DEF Page
<1>3. 1 - Page(0) = Page(0 + 1)
  BY OtherPage
<1> QED BY <1>2, <1>3

LEMMA CopyFields ==
  ASSUME NEW h \in Int
  PROVE  /\ Its_copy(h).op = "prefetch" /\ Its_copy(h).layer = LayerAt(h) + 1
         /\ Its_copy(h).mb = SlotAt(h) /\ Its_copy(h).page = Page(LayerAt(h) + 1)
         /\ TurnOf(Its_copy(h)) = h /\ Its_copy(h) \in Work
<1>1. LayerAt(h) \in Int /\ SlotAt(h) \in Int /\ h = LayerAt(h) * num_mb + SlotAt(h)
      /\ (LayerAt(h) + 1) - 1 = LayerAt(h)
  BY TurnParts, Sizes DEF MicroBatchIds
<1>2. /\ Its_copy(h).op = "prefetch" /\ Its_copy(h).layer = LayerAt(h) + 1
      /\ Its_copy(h).mb = SlotAt(h) /\ Its_copy(h).page = Page(LayerAt(h) + 1)
  BY DEF Its_copy
<1>3. Its_copy(h) \in Work
  <2>1. Page(LayerAt(h) + 1) \in {0, 1} /\ LayerAt(h) + 1 \in Int
    BY <1>1, OtherPage
  <2>2. Its_copy(h) \in Copies
    BY <1>1, <2>1 DEF Its_copy, Copies
  <2> QED BY <2>2 DEF Work
<1> QED BY <1>1, <1>2, <1>3 DEF TurnOf

LEMMA PageFields ==
  PageOp.op = "page" /\ PageOp.layer = 0 /\ PageOp.mb = 0 /\ PageOp \in Work
<1>1. PageOp.op = "page" /\ PageOp.layer = 0 /\ PageOp.mb = 0
  BY DEF PageOp, Op
<1>2. PageOp \in Marks
  BY DEF PageOp, Op, Marks
<1> QED BY <1>1, <1>2 DEF Work

LEMMA CurFields ==
  ASSUME NEW h \in Int
  PROVE  /\ Its("pre_attention", h) \in Work /\ CurKey(Its("pre_attention", h)) = 2 * h - 3
         /\ Its("post_attention", h) \in Work /\ CurKey(Its("post_attention", h)) = 2 * h
         /\ \A g \in Int : /\ Its("pre_attention", h) # Its("post_attention", g)
                           /\ Its("pre_attention", h) = Its("pre_attention", g) => h = g
                           /\ Its("post_attention", h) = Its("post_attention", g) => h = g
<1>1. \A g \in Int :
        /\ Its("pre_attention", g).op = "pre_attention" /\ TurnOf(Its("pre_attention", g)) = g
        /\ Its("post_attention", g).op = "post_attention" /\ TurnOf(Its("post_attention", g)) = g
  BY ItsFields
<1>2. Its("pre_attention", h) \in Work /\ Its("post_attention", h) \in Work
  BY ItsFields DEF Names, Work
<1>3. CurKey(Its("pre_attention", h)) = 2 * h - 3 /\ CurKey(Its("post_attention", h)) = 2 * h
  BY <1>1 DEF CurKey
<1>4. \A g \in Int : /\ Its("pre_attention", h) # Its("post_attention", g)
                     /\ Its("pre_attention", h) = Its("pre_attention", g) => h = g
                     /\ Its("post_attention", h) = Its("post_attention", g) => h = g
  BY <1>1
<1> QED BY <1>2, <1>3, <1>4

LEMMA LoadFields ==
  ASSUME NEW h \in Int
  PROVE  /\ Its("load_hidden", h) \in Work /\ LoadKey(Its("load_hidden", h)) = 2 * h
         /\ LoadKey(Its_copy(h)) = 2 * h + 1
         /\ \A g \in Int : /\ Its("load_hidden", h) # Its_copy(g)
                           /\ Its("load_hidden", h) = Its("load_hidden", g) => h = g
                           /\ Its_copy(h) = Its_copy(g) => h = g
<1>1. \A g \in Int :
        /\ Its("load_hidden", g).op = "load_hidden" /\ TurnOf(Its("load_hidden", g)) = g
        /\ Its_copy(g).op = "prefetch" /\ TurnOf(Its_copy(g)) = g
  BY ItsFields, CopyFields
<1>2. Its("load_hidden", h) \in Work
  BY ItsFields DEF Names, Work
<1>3. LoadKey(Its("load_hidden", h)) = 2 * h /\ LoadKey(Its_copy(h)) = 2 * h + 1
  BY <1>1 DEF LoadKey
<1>4. \A g \in Int : /\ Its("load_hidden", h) # Its_copy(g)
                     /\ Its("load_hidden", h) = Its("load_hidden", g) => h = g
                     /\ Its_copy(h) = Its_copy(g) => h = g
  BY <1>1
<1> QED BY <1>2, <1>3, <1>4

LEMMA ColdFields ==
  ASSUME NEW h \in Int
  PROVE  /\ Its_to_pin(h) \in Work
         /\ Its_to_pin(h) # PageOp /\ Its_copy(h) # PageOp
         /\ \A g \in Int : /\ Its_to_pin(h) # Its_copy(g)
                           /\ Its_to_pin(h) = Its_to_pin(g) => h = g
                           /\ Its_copy(h) = Its_copy(g) => h = g
<1>1. \A g \in Int :
        /\ Its_to_pin(g).op = "to_pin" /\ TurnOf(Its_to_pin(g)) = g
        /\ Its_copy(g).op = "prefetch" /\ TurnOf(Its_copy(g)) = g
  BY ToPinFields, CopyFields
<1>2. Its_to_pin(h) \in Work
  BY ToPinFields DEF Work
<1>3. Its_to_pin(h) # PageOp /\ Its_copy(h) # PageOp
  BY <1>1, PageFields
<1>4. \A g \in Int : /\ Its_to_pin(h) # Its_copy(g)
                     /\ Its_to_pin(h) = Its_to_pin(g) => h = g
                     /\ Its_copy(h) = Its_copy(g) => h = g
  BY <1>1
<1> QED BY <1>2, <1>3, <1>4

LEMMA TaskFields ==
  ASSUME NEW h \in Int, NEW op \in {"offload_qkv", "cpu_attention"}
  PROVE  /\ Its(op, h) \in Work
         /\ \A g \in Int : Its(op, h) = Its(op, g) => h = g
<1>1. op \in Names /\ op \notin {"to_pin", "prefetch"}
  BY DEF Names
<1>2. \A g \in Int : TurnOf(Its(op, g)) = g
  BY <1>1, ItsFields
<1>3. Its(op, h) \in Work
  BY <1>1, ItsFields DEF Work
<1> QED BY <1>2, <1>3

LEMMA InQueue ==
  ASSUME NEW q \in Seq(Work), NEW x \in Range(q)
  PROVE  x \in Work
<1>1. PICK i \in 1 .. Len(q) : x = q[i]
  BY InRange
<1> QED BY <1>1, ElementOfSeq, LenProperties

LEMMA Enqueue ==
  ASSUME NEW q \in Seq(Work), NEW x \in Work, NEW R, Ordered(q, R), NEW p, p = Append(q, x),
         \A y \in Range(q) : <<y, x>> \in R
  PROVE  p \in Seq(Work) /\ Range(p) = Range(q) \cup {x} /\ Ordered(p, R)
<1>1. p = Append(q, x)
  OBVIOUS
<1>2. /\ Append(q, x) \in Seq(Work) /\ Range(Append(q, x)) = Range(q) \cup {x}
      /\ Ordered(Append(q, x), R)
  BY OrderedAppend
<1> QED BY <1>1, <1>2

\* Two turns of one slot are no neighbours.
LEMMA Neighbouring ==
  ASSUME NEW h \in Int, NEW g \in Int, h # g, h < g + 3, g < h + 3
  PROVE  SlotAt(h) # SlotAt(g)
BY SameSlot, Sizes

LEMMA SameParts ==
  ASSUME NEW h \in Int, NEW g \in Int, LayerAt(h) = LayerAt(g), SlotAt(h) = SlotAt(g)
  PROVE  h = g
<1>1. h = LayerAt(h) * num_mb + SlotAt(h) /\ g = LayerAt(g) * num_mb + SlotAt(g)
  BY TurnParts
<1> QED BY <1>1

-----------------------------------------------------------------------------
(* What a step leaves alone *)

LEMMA SameCur ==
  cur' = cur => PreQueued' = PreQueued /\ PostQueued' = PostQueued
BY DEF PreQueued, PostQueued

LEMMA SameOffload ==
  offload' = offload => OffQueued' = OffQueued
BY DEF OffQueued

LEMMA SameCpu ==
  cpu_executor' = cpu_executor => CpuQueued' = CpuQueued
BY DEF CpuQueued

\* first_page stays what it was.
LEMMA SameCopies ==
  first_page' = first_page =>
    /\ \A n : Page(n)' = Page(n)
    /\ \A h : Its_copy(h)' = Its_copy(h)
BY DEF Its_copy, Page

LEMMA SameLoad ==
  load' = load /\ first_page' = first_page => LoadQueued' = LoadQueued /\ CopyQueued' = CopyQueued
BY SameCopies DEF LoadQueued, CopyQueued

LEMMA SameCold ==
  cold' = cold /\ first_page' = first_page =>
    ColdCopies' = ColdCopies /\ ToPinQueued' = ToPinQueued /\ (PageCold' <=> PageCold)
BY SameCopies DEF ColdCopies, ToPinQueued, PageCold

LEMMA SameTasks ==
  copy_executor' = copy_executor => TaskQueued' = TaskQueued
BY DEF TaskQueued

LEMMA SamePrefetch ==
  prefetch' = prefetch => (PageWaits' <=> PageWaits)
BY DEF PageWaits

LEMMA SameQkv == qkv_pin' = qkv_pin => QkvPinned' = QkvPinned
BY DEF QkvPinned

LEMMA SameHidden == hidden_pin' = hidden_pin => HiddenPinned' = HiddenPinned
BY DEF HiddenPinned

LEMMA SameBack == hidden_states' = hidden_states => HiddenBack' = HiddenBack
BY DEF HiddenBack

LEMMA SamePin == pin' = pin => SlotPinned' = SlotPinned
BY DEF SlotPinned

LEMMA SamePages ==
  pages' = pages /\ first_page' = first_page =>
    SlotPaged' = SlotPaged /\ (PagesApart' <=> PagesApart)
BY DEF SlotPaged, PagesApart, Page

-----------------------------------------------------------------------------
(* The calls of the main thread *)

LEMMA BehindPre ==
  ASSUME NEW c, Bounds(c), NEW h \in Int, h <= c.post, c.post < c.pre
  PROVE  2 * h < 2 * (c.pre + 1) - 3
BY DEF Bounds

LEMMA StepPre ==
  ASSUME TypeInv, NEW c, NEW d, Bounds(c), Bounds(d), Inv(c), Counting("pre_attention", c, d),
         c.post < c.pre \/ cur = <<>>,
         cur' = Append(cur, Its("pre_attention", d.pre)),
         UNCHANGED <<offload, load, prefetch, cold, cpu_executor, copy_executor, gpu_page, first_page, pages,
                     pin, qkv_pin, hidden_pin, hidden_states>>
  PROVE  TypeInv' /\ Inv(d)'
<1> /\ \A n : Page(n)' = Page(n)
    /\ \A h : Its_copy(h)' = Its_copy(h)
  BY SameCopies
<1> DEFINE g == d.pre
           new == Its("pre_attention", g)
<1>1. /\ g = c.pre + 1 /\ d.off = c.off /\ d.cpu = c.cpu /\ d.pin = c.pin
      /\ d.load = c.load /\ d.fetch = c.fetch /\ d.post = c.post
  BY DEF Counting
<1>2. /\ c.pre \in Int /\ c.off \in Int /\ c.cpu \in Int /\ c.pin \in Int /\ c.load \in Int
      /\ c.fetch \in Int /\ c.post \in Int /\ g \in Int
      /\ -1 <= c.post /\ c.post <= c.fetch /\ c.fetch <= c.load /\ c.load <= c.pin
      /\ c.pin <= c.cpu /\ c.cpu <= c.off /\ c.off <= c.pre
  BY <1>1 DEF Bounds
<1> HIDE DEF g
<1>3. /\ OffQueued' = OffQueued /\ CpuQueued' = CpuQueued /\ LoadQueued' = LoadQueued
      /\ CopyQueued' = CopyQueued /\ ColdCopies' = ColdCopies /\ ToPinQueued' = ToPinQueued
      /\ (PageCold' <=> PageCold) /\ TaskQueued' = TaskQueued /\ (PageWaits' <=> PageWaits)
      /\ QkvPinned' = QkvPinned /\ HiddenPinned' = HiddenPinned /\ HiddenBack' = HiddenBack
      /\ SlotPinned' = SlotPinned /\ SlotPaged' = SlotPaged
      /\ (PagesApart' <=> PagesApart)
  BY SameOffload, SameCpu, SameLoad, SameCold, SameTasks, SamePrefetch, SameQkv, SameHidden,
     SameBack, SamePin, SamePages
<1>4. ASSUME NEW x \in Range(cur) PROVE <<x, new>> \in CurOrder
  <2>1. x \in Work /\ new \in Work /\ CurKey(new) = 2 * g - 3
    BY <1>2, InQueue, CurFields DEF TypeInv
  <2>2. CASE \E h \in PreQueued : x = Its("pre_attention", h)
    <3>1. PICK h \in PreQueued : x = Its("pre_attention", h)
      BY <2>2
    <3>2. h \in Int /\ h <= c.pre
      BY <1>2 DEF Inv, CurInv
    <3>3. CurKey(x) = 2 * h - 3
      BY <3>1, <3>2, CurFields
    <3> HIDE DEF new
    <3>4. CurKey(x) < CurKey(new)
      BY <1>1, <1>2, <2>1, <3>2, <3>3
    <3> QED BY <2>1, <3>4 DEF CurOrder
  <2>3. CASE \E h \in PostQueued : x = Its("post_attention", h)
    <3>1. PICK h \in PostQueued : x = Its("post_attention", h)
      BY <2>3
    <3>2. h \in Int /\ h <= c.post
      BY <1>2 DEF Inv, CurInv
    <3>3. CurKey(x) = 2 * h
      BY <3>1, <3>2, CurFields
    <3>4. c.post < c.pre
      <4>1. cur # <<>>
        BY NoElements
      <4> QED BY <4>1
    <3> HIDE DEF new
    <3>5. CurKey(x) < CurKey(new)
      <4>1. 2 * h < 2 * (c.pre + 1) - 3
        BY <3>2, <3>4, BehindPre
      <4> QED BY <1>1, <2>1, <3>3, <4>1 DEF g
    <3> QED BY <2>1, <3>5 DEF CurOrder
  <2> QED BY <2>2, <2>3 DEF Inv, CurInv
<1>5. cur' \in Seq(Work) /\ Range(cur') = Range(cur) \cup {new} /\ Ordered(cur', CurOrder)
  <2>1. cur \in Seq(Work) /\ new \in Work /\ Ordered(cur, CurOrder) /\ cur' = Append(cur, new)
    BY <1>2, CurFields DEF TypeInv, Inv, CurInv, g
  <2> HIDE DEF new
  <2> QED BY <1>4, <2>1, Enqueue
<1>6. PreQueued' = PreQueued \cup {g} /\ PostQueued' = PostQueued
  <2>1. g \in Int
    BY <1>2
  <2> QED BY <1>5, <2>1, CurFields DEF PreQueued, PostQueued
<1>7. TypeInv'
  BY <1>5 DEF TypeInv
<1>8. CurInv(d)'
  <2>1. \A x \in Range(cur') : \/ \E h \in PreQueued' : x = Its("pre_attention", h)
                               \/ \E h \in PostQueued' : x = Its("post_attention", h)
    BY <1>5, <1>6 DEF Inv, CurInv
  <2>2. PreQueued' \subseteq d.load + 1 .. d.pre /\ PostQueued' \subseteq d.load - 1 .. d.post
    <3>1. g \in c.load + 1 .. g /\ c.load + 1 .. c.pre \subseteq c.load + 1 .. g
      BY <1>1, <1>2
    <3>2. PreQueued \subseteq c.load + 1 .. c.pre /\ PostQueued \subseteq c.load - 1 .. c.post
      BY DEF Inv, CurInv
    <3> QED BY <1>1, <1>6, <3>1, <3>2 DEF g
  <2>3. ASSUME NEW h \in PostQueued', NEW i \in h + 2 .. d.pre PROVE i \in PreQueued'
    <3>1. h \in PostQueued /\ h \in Int /\ h + 2 \in Int
      BY <1>2, <1>6 DEF Inv, CurInv
    <3>2. i = g \/ i \in h + 2 .. c.pre
      BY <1>1, <1>2, <3>1 DEF g
    <3> QED BY <1>6, <3>1, <3>2 DEF Inv, CurInv
  <2>4. \A h \in PostQueued' : h >= 0
    BY <1>6 DEF Inv, CurInv
  <2> QED BY <1>5, <2>1, <2>2, <2>3, <2>4 DEF CurInv
<1>9. OffloadInv(d)'
  BY <1>1, <1>2, <1>3, <1>6 DEF Inv, OffloadInv
<1>10. CpuInv(d)'
  BY <1>1, <1>3 DEF Inv, CpuInv
<1>11. LoadInv(d)'
  BY <1>1, <1>3 DEF Inv, LoadInv
<1>12. HiddenInv(d)'
  BY <1>1, <1>3, <1>6 DEF Inv, HiddenInv
<1>13. ColdInv(d)'
  BY <1>1, <1>3 DEF Inv, ColdInv
<1>14. TaskInv(d)'
  BY <1>1, <1>3 DEF Inv, TaskInv
<1>15. PinInv(d)'
  BY <1>1, <1>3 DEF Inv, PinInv
<1>16. MarkInv(d)'
  BY <1>1, <1>3 DEF Inv, MarkInv
<1>17. PageInv(d)'
  BY <1>1, <1>3 DEF Inv, PageInv
<1> QED BY <1>7, <1>8, <1>9, <1>10, <1>11, <1>12, <1>13, <1>14, <1>15, <1>16, <1>17 DEF Inv

LEMMA StepOffload ==
  ASSUME TypeInv, NEW c, NEW d, Bounds(c), Bounds(d), Inv(c), Counting("offload_qkv", c, d),
         offload' = Append(offload, Its("offload_qkv", d.off)),
         UNCHANGED <<cur, load, prefetch, cold, cpu_executor, copy_executor, gpu_page, first_page,
                     pages, pin, qkv_pin, hidden_pin, hidden_states>>
  PROVE  TypeInv' /\ Inv(d)'
<1> /\ \A n : Page(n)' = Page(n)
    /\ \A h : Its_copy(h)' = Its_copy(h)
  BY SameCopies
<1> DEFINE g == d.off
           new == Its("offload_qkv", g)
<1>1. /\ g = c.off + 1 /\ d.pre = c.pre /\ d.cpu = c.cpu /\ d.pin = c.pin
      /\ d.load = c.load /\ d.fetch = c.fetch /\ d.post = c.post
  BY DEF Counting
<1>2. /\ c.pre \in Int /\ c.off \in Int /\ c.cpu \in Int /\ c.pin \in Int /\ c.load \in Int
      /\ c.fetch \in Int /\ c.post \in Int /\ g \in Int
      /\ -1 <= c.post /\ c.post <= c.fetch /\ c.fetch <= c.load /\ c.load <= c.pin
      /\ c.pin <= c.cpu /\ c.cpu <= c.off /\ c.off <= c.pre
  BY <1>1 DEF Bounds
<1>3. /\ PreQueued' = PreQueued /\ PostQueued' = PostQueued /\ LoadQueued' = LoadQueued
      /\ CopyQueued' = CopyQueued /\ (PageWaits' <=> PageWaits)
      /\ ColdCopies' = ColdCopies /\ ToPinQueued' = ToPinQueued
      /\ (PageCold' <=> PageCold) /\ CpuQueued' = CpuQueued /\ TaskQueued' = TaskQueued
      /\ SlotPaged' = SlotPaged
      /\ (PagesApart' <=> PagesApart) /\ SlotPinned' = SlotPinned /\ QkvPinned' = QkvPinned
      /\ HiddenPinned' = HiddenPinned /\ HiddenBack' = HiddenBack
  BY SameCur, SameLoad, SamePrefetch, SameCold, SameCpu, SameTasks, SamePages, SamePin,
     SameQkv, SameHidden, SameBack
<1> HIDE DEF g
<1>4. new \in Work
  BY <1>2, TaskFields
<1>5. offload' \in Seq(Work) /\ Range(offload') = Range(offload) \cup {new}
  <2>1. offload \in Seq(Work) /\ offload' = Append(offload, new)
    BY DEF TypeInv, g
  <2> HIDE DEF new
  <2> QED BY <1>4, <2>1, RangeAppend, AppendProperties
<1>6. OffQueued' = OffQueued \cup {g}
  BY <1>2, <1>5, TaskFields DEF OffQueued
<1>7. TypeInv'
  BY <1>5 DEF TypeInv
<1>8. CurInv(d)'
  BY <1>1, <1>3 DEF Inv, CurInv
<1>9. OffloadInv(d)'
  <2>1. \A x \in Range(offload') : \E h \in OffQueued' : x = Its("offload_qkv", h)
    BY <1>5, <1>6 DEF Inv, OffloadInv
  <2>2. OffQueued' \subseteq d.load + 1 .. d.off
    <3>1. g \in c.load + 1 .. g /\ c.load + 1 .. c.off \subseteq c.load + 1 .. g
      BY <1>1, <1>2
    <3>2. OffQueued \subseteq c.load + 1 .. c.off
      BY DEF Inv, OffloadInv
    <3> QED BY <1>1, <1>6, <3>1, <3>2 DEF g
  <2>3. ASSUME NEW h \in d.load + 1 .. d.off
        PROVE  (h \in PreQueued' => h \in OffQueued') /\ (h \in OffQueued' \/ h \in QkvPinned')
    <3>1. h = g \/ h \in c.load + 1 .. c.off
      BY <1>1, <1>2 DEF g
    <3> QED BY <1>3, <1>6, <3>1 DEF Inv, OffloadInv
  <2> QED BY <2>1, <2>2, <2>3 DEF OffloadInv
<1>10. CpuInv(d)'
  <2>1. \A h \in c.load + 1 .. c.cpu : h # g
    BY <1>1, <1>2 DEF Bounds
  <2> QED BY <1>1, <1>3, <1>6, <2>1 DEF Inv, CpuInv
<1>11. LoadInv(d)'
  BY <1>1, <1>3 DEF Inv, LoadInv
<1>12. HiddenInv(d)'
  BY <1>1, <1>3 DEF Inv, HiddenInv
<1>13. ColdInv(d)'
  BY <1>1, <1>3 DEF Inv, ColdInv
<1>14. TaskInv(d)'
  BY <1>1, <1>3 DEF Inv, TaskInv
<1>15. PinInv(d)'
  BY <1>1, <1>3 DEF Inv, PinInv
<1>16. MarkInv(d)'
  BY <1>1, <1>3 DEF Inv, MarkInv
<1>17. PageInv(d)'
  BY <1>1, <1>3 DEF Inv, PageInv
<1> QED BY <1>7, <1>8, <1>9, <1>10, <1>11, <1>12, <1>13, <1>14, <1>15, <1>16, <1>17 DEF Inv

LEMMA StepCpu ==
  ASSUME TypeInv, NEW c, NEW d, Bounds(c), Bounds(d), Inv(c), Counting("cpu_attention", c, d),
         cpu_executor' = Append(cpu_executor, Its("cpu_attention", d.cpu)),
         UNCHANGED <<cur, offload, load, prefetch, cold, copy_executor, gpu_page, first_page,
                     pages, pin, qkv_pin, hidden_pin, hidden_states>>
  PROVE  TypeInv' /\ Inv(d)'
<1> /\ \A n : Page(n)' = Page(n)
    /\ \A h : Its_copy(h)' = Its_copy(h)
  BY SameCopies
<1> DEFINE g == d.cpu
           new == Its("cpu_attention", g)
<1>1. /\ g = c.cpu + 1 /\ d.pre = c.pre /\ d.off = c.off /\ d.pin = c.pin
      /\ d.load = c.load /\ d.fetch = c.fetch /\ d.post = c.post
  BY DEF Counting
<1>2. /\ c.pre \in Int /\ c.off \in Int /\ c.cpu \in Int /\ c.pin \in Int /\ c.load \in Int
      /\ c.fetch \in Int /\ c.post \in Int /\ g \in Int
      /\ -1 <= c.post /\ c.post <= c.fetch /\ c.fetch <= c.load /\ c.load <= c.pin
      /\ c.pin <= c.cpu /\ c.cpu <= c.off /\ c.off <= c.pre
  BY <1>1 DEF Bounds
<1>3. /\ PreQueued' = PreQueued /\ PostQueued' = PostQueued /\ OffQueued' = OffQueued
      /\ LoadQueued' = LoadQueued /\ CopyQueued' = CopyQueued
      /\ (PageWaits' <=> PageWaits) /\ ColdCopies' = ColdCopies
      /\ ToPinQueued' = ToPinQueued /\ (PageCold' <=> PageCold)
      /\ TaskQueued' = TaskQueued /\ SlotPaged' = SlotPaged
      /\ (PagesApart' <=> PagesApart) /\ SlotPinned' = SlotPinned
      /\ QkvPinned' = QkvPinned /\ HiddenPinned' = HiddenPinned
      /\ HiddenBack' = HiddenBack
  BY SameCur, SameOffload, SameLoad, SamePrefetch, SameCold, SameTasks, SamePages,
     SamePin, SameQkv, SameHidden, SameBack
<1> HIDE DEF g
<1>4. new \in Work
  BY <1>2, TaskFields
<1>5. cpu_executor' \in Seq(Work) /\ Range(cpu_executor') = Range(cpu_executor) \cup {new}
  <2>1. cpu_executor \in Seq(Work) /\ cpu_executor' = Append(cpu_executor, new)
    BY DEF TypeInv, g
  <2> HIDE DEF new
  <2> QED BY <1>4, <2>1, RangeAppend, AppendProperties
<1>6. CpuQueued' = CpuQueued \cup {g}
  BY <1>2, <1>5, TaskFields DEF CpuQueued
<1>7. TypeInv'
  BY <1>5 DEF TypeInv
<1>8. CurInv(d)'
  BY <1>1, <1>3 DEF Inv, CurInv
<1>9. OffloadInv(d)'
  BY <1>1, <1>3 DEF Inv, OffloadInv
<1>10. CpuInv(d)'
  <2>1. \A x \in Range(cpu_executor') : \E h \in CpuQueued' : x = Its("cpu_attention", h)
    BY <1>5, <1>6 DEF Inv, CpuInv
  <2>2. CpuQueued' \subseteq d.load + 1 .. d.cpu
    <3>1. g \in c.load + 1 .. g /\ c.load + 1 .. c.cpu \subseteq c.load + 1 .. g
      BY <1>1, <1>2
    <3>2. CpuQueued \subseteq c.load + 1 .. c.cpu
      BY DEF Inv, CpuInv
    <3> QED BY <1>1, <1>6, <3>1, <3>2 DEF g
  <2>3. ASSUME NEW h \in d.load + 1 .. d.cpu
        PROVE  (h \in OffQueued' => h \in CpuQueued') /\ (h \in CpuQueued' \/ h \in HiddenPinned')
    <3>1. h = g \/ h \in c.load + 1 .. c.cpu
      BY <1>1, <1>2 DEF g
    <3> QED BY <1>3, <1>6, <3>1 DEF Inv, CpuInv
  <2> QED BY <2>1, <2>2, <2>3 DEF CpuInv
<1>11. LoadInv(d)'
  BY <1>1, <1>3 DEF Inv, LoadInv
<1>12. HiddenInv(d)'
  BY <1>1, <1>3 DEF Inv, HiddenInv
<1>13. ColdInv(d)'
  BY <1>1, <1>3 DEF Inv, ColdInv
<1>14. TaskInv(d)'
  BY <1>1, <1>3 DEF Inv, TaskInv
<1>15. PinInv(d)'
  BY <1>1, <1>3 DEF Inv, PinInv
<1>16. MarkInv(d)'
  BY <1>1, <1>3 DEF Inv, MarkInv
<1>17. PageInv(d)'
  BY <1>1, <1>3 DEF Inv, PageInv
<1> QED BY <1>7, <1>8, <1>9, <1>10, <1>11, <1>12, <1>13, <1>14, <1>15, <1>16, <1>17 DEF Inv

LEMMA StepToPin ==
  ASSUME TypeInv, NEW c, NEW d, Bounds(c), Bounds(d), Inv(c), Counting("to_pin", c, d),
         copy_executor' = Append(copy_executor, Its_to_pin(d.pin)),
         UNCHANGED <<cur, offload, load, prefetch, cold, cpu_executor, gpu_page, first_page, pages,
                     pin, qkv_pin, hidden_pin, hidden_states>>
  PROVE  TypeInv' /\ Inv(d)'
<1> /\ \A n : Page(n)' = Page(n)
    /\ \A h : Its_copy(h)' = Its_copy(h)
  BY SameCopies
<1> DEFINE g == d.pin
           new == Its_to_pin(g)
<1>1. /\ g = c.pin + 1 /\ d.pre = c.pre /\ d.off = c.off /\ d.cpu = c.cpu
      /\ d.load = c.load /\ d.fetch = c.fetch /\ d.post = c.post
  BY DEF Counting
<1>2. /\ c.pre \in Int /\ c.off \in Int /\ c.cpu \in Int /\ c.pin \in Int /\ c.load \in Int
      /\ c.fetch \in Int /\ c.post \in Int /\ g \in Int
      /\ -1 <= c.post /\ c.post <= c.fetch /\ c.fetch <= c.load /\ c.load <= c.pin
      /\ c.pin <= c.cpu /\ c.cpu <= c.off /\ c.off <= c.pre
  BY <1>1 DEF Bounds
<1>3. /\ PreQueued' = PreQueued /\ PostQueued' = PostQueued /\ OffQueued' = OffQueued
      /\ LoadQueued' = LoadQueued /\ CopyQueued' = CopyQueued
      /\ (PageWaits' <=> PageWaits) /\ ColdCopies' = ColdCopies
      /\ ToPinQueued' = ToPinQueued /\ (PageCold' <=> PageCold) /\ CpuQueued' = CpuQueued
      /\ SlotPaged' = SlotPaged
      /\ (PagesApart' <=> PagesApart) /\ SlotPinned' = SlotPinned /\ QkvPinned' = QkvPinned
      /\ HiddenPinned' = HiddenPinned /\ HiddenBack' = HiddenBack
  BY SameCur, SameOffload, SameLoad, SamePrefetch, SameCold, SameCpu, SamePages, SamePin,
     SameQkv, SameHidden, SameBack
<1> HIDE DEF g
<1>4. ASSUME NEW x \in Range(copy_executor) PROVE <<x, new>> \in TaskOrder
  <2>1. x \in Work /\ new \in Work /\ TurnOf(new) = g
    BY <1>2, InQueue, ColdFields, ToPinFields DEF TypeInv
  <2>2. PICK h \in TaskQueued : x = Its_to_pin(h)
    BY DEF Inv, TaskInv
  <2>3. h \in Int /\ h <= c.pin
    BY <1>2 DEF Inv, TaskInv
  <2>4. TurnOf(x) = h
    BY <2>2, <2>3, ToPinFields
  <2> HIDE DEF new
  <2>5. TurnOf(x) < TurnOf(new)
    BY <1>1, <1>2, <2>1, <2>3, <2>4
  <2> QED BY <2>1, <2>5 DEF TaskOrder
<1>5. /\ copy_executor' \in Seq(Work) /\ Range(copy_executor') = Range(copy_executor) \cup {new}
      /\ Ordered(copy_executor', TaskOrder)
  <2>1. /\ copy_executor \in Seq(Work) /\ new \in Work /\ Ordered(copy_executor, TaskOrder)
        /\ copy_executor' = Append(copy_executor, new)
    BY <1>2, ColdFields DEF TypeInv, Inv, TaskInv, g
  <2>2. \A x \in Range(copy_executor) : <<x, new>> \in TaskOrder
    BY <1>4
  <2> HIDE DEF new
  <2> QED BY <2>1, <2>2, Enqueue
<1>6. TaskQueued' = TaskQueued \cup {g}
  BY <1>2, <1>5, ColdFields DEF TaskQueued
<1>7. TypeInv'
  BY <1>5 DEF TypeInv
<1>8. CurInv(d)'
  BY <1>1, <1>3 DEF Inv, CurInv
<1>9. OffloadInv(d)'
  BY <1>1, <1>3 DEF Inv, OffloadInv
<1>10. CpuInv(d)'
  BY <1>1, <1>3 DEF Inv, CpuInv
<1>11. LoadInv(d)'
  BY <1>1, <1>3 DEF Inv, LoadInv
<1>12. HiddenInv(d)'
  BY <1>1, <1>3 DEF Inv, HiddenInv
<1>13. ColdInv(d)'
  <2>1. 0 .. c.pin \subseteq 0 .. d.pin
    BY <1>1, <1>2 DEF g
  <2> QED BY <1>1, <1>3, <2>1 DEF Inv, ColdInv
<1>14. TaskInv(d)'
  <2>1. \A x \in Range(copy_executor') : \E h \in TaskQueued' : x = Its_to_pin(h)
    BY <1>5, <1>6 DEF Inv, TaskInv
  <2>2. TaskQueued' \subseteq d.fetch + 1 .. d.pin
    <3>1. g \in c.fetch + 1 .. g /\ c.fetch + 1 .. c.pin \subseteq c.fetch + 1 .. g
      BY <1>1, <1>2
    <3>2. TaskQueued \subseteq c.fetch + 1 .. c.pin
      BY DEF Inv, TaskInv
    <3> QED BY <1>1, <1>6, <3>1, <3>2 DEF g
  <2>3. \A h \in ToPinQueued' : \A i \in TaskQueued' : h < i
    BY <1>1, <1>2, <1>3, <1>6 DEF Inv, TaskInv, ColdInv
  <2>4. ASSUME NEW h \in ToPinQueued' \cup TaskQueued', NEW i \in h .. d.pin
        PROVE  i \in ToPinQueued' \cup TaskQueued'
    <3>1. CASE h = g
      <4>1. i = g
        BY <1>2, <3>1 DEF g
      <4> QED BY <1>6, <4>1
    <3>2. CASE h # g
      <4>1. h \in ToPinQueued \cup TaskQueued /\ h \in Int
        BY <1>3, <1>6, <3>2 DEF ToPinQueued, TaskQueued
      <4>2. i = g \/ i \in h .. c.pin
        BY <1>1, <1>2, <4>1 DEF g
      <4> QED BY <1>3, <1>6, <4>1, <4>2 DEF Inv, TaskInv
    <3> QED BY <3>1, <3>2
  <2> QED BY <1>5, <2>1, <2>2, <2>3, <2>4 DEF TaskInv
<1>15. PinInv(d)'
  <2>1. ASSUME NEW h \in CopyQueued' \cup (d.fetch + 1 .. d.pin)
        PROVE  h \in ToPinQueued' \cup TaskQueued' \cup SlotPinned'
    <3>1. h = g \/ h \in CopyQueued \cup (c.fetch + 1 .. c.pin)
      BY <1>1, <1>2, <1>3 DEF g
    <3> QED BY <1>3, <1>6, <3>1 DEF Inv, PinInv
  <2> QED BY <2>1 DEF PinInv
<1>16. MarkInv(d)'
  <2>1. PageWaits => c.fetch = -1 /\ 0 \in TaskQueued'
    <3>1. PageWaits => c.fetch = -1 /\ (c.pin >= 0 => 0 \in TaskQueued)
      BY DEF Inv, MarkInv
    <3>2. c.pin >= -1
      BY <1>2
    <3> QED BY <1>1, <1>2, <1>6, <3>1, <3>2
  <2> QED BY <1>1, <1>3, <2>1 DEF Inv, MarkInv
<1>17. PageInv(d)'
  BY <1>1, <1>3 DEF Inv, PageInv
<1> QED BY <1>7, <1>8, <1>9, <1>10, <1>11, <1>12, <1>13, <1>14, <1>15, <1>16, <1>17 DEF Inv

\* The turn that is loaded next has been started.
LEMMA LoadBounds ==
  ASSUME NEW c, NEW d, Bounds(c), Bounds(d), Counting("load_hidden", c, d)
  PROVE  /\ d.load \in c.load + 1 .. c.cpu /\ d.load \in c.load + 1 .. c.off /\ d.load <= c.pre
         /\ c.load \in d.load - 1 .. d.load /\ d.load \in d.load - 1 .. d.load
         /\ \A h \in c.load - 2 .. c.fetch :
              IF h = c.load - 2 THEN c.load - 1 \in h + 1 .. c.load ELSE h \in d.load - 2 .. c.fetch
BY DEF Bounds, Counting

LEMMA StepLoad ==
  ASSUME TypeInv, NEW c, NEW d, Bounds(c), Bounds(d), Inv(c), Counting("load_hidden", c, d),
         load' = Append(load, Its("load_hidden", d.load)),
         \A x \in Range(cpu_executor) : x.mb # SlotAt(d.load),
         UNCHANGED <<cur, offload, prefetch, cold, cpu_executor, copy_executor,
                     gpu_page, first_page, pages, pin, qkv_pin, hidden_pin, hidden_states>>
  PROVE  TypeInv' /\ Inv(d)'
<1> /\ \A n : Page(n)' = Page(n)
    /\ \A h : Its_copy(h)' = Its_copy(h)
  BY SameCopies
<1> DEFINE g == d.load
           new == Its("load_hidden", g)
<1>1. /\ g = c.load + 1 /\ d.pre = c.pre /\ d.off = c.off /\ d.cpu = c.cpu
      /\ d.pin = c.pin /\ d.fetch = c.fetch /\ d.post = c.post
  BY DEF Counting
<1>2. /\ c.pre \in Int /\ c.off \in Int /\ c.cpu \in Int /\ c.pin \in Int /\ c.load \in Int
      /\ c.fetch \in Int /\ c.post \in Int /\ g \in Int
      /\ -1 <= c.post /\ c.post <= c.fetch /\ c.fetch <= c.load /\ c.load <= c.pin
      /\ c.pin <= c.cpu /\ c.cpu <= c.off /\ c.off <= c.pre
      /\ c.load <= c.post + 1 /\ c.pre <= c.post + 2
      /\ g <= c.cpu
  BY <1>1 DEF Bounds
<1>3. /\ PreQueued' = PreQueued /\ PostQueued' = PostQueued /\ OffQueued' = OffQueued
      /\ (PageWaits' <=> PageWaits) /\ ColdCopies' = ColdCopies
      /\ ToPinQueued' = ToPinQueued /\ (PageCold' <=> PageCold) /\ CpuQueued' = CpuQueued
      /\ TaskQueued' = TaskQueued /\ SlotPaged' = SlotPaged
      /\ (PagesApart' <=> PagesApart) /\ SlotPinned' = SlotPinned
      /\ QkvPinned' = QkvPinned /\ HiddenPinned' = HiddenPinned
      /\ HiddenBack' = HiddenBack
  BY SameCur, SameOffload, SamePrefetch, SameCold, SameCpu, SameTasks, SamePages, SamePin,
     SameQkv, SameHidden, SameBack
<1>a. g \notin CpuQueued
  <2>1. g \in Int /\ Its("cpu_attention", g).mb = SlotAt(g)
    BY <1>2, ItsFields
  <2> QED BY <2>1 DEF CpuQueued
<1> HIDE DEF g
<1>b. g \in c.load + 1 .. c.cpu /\ g \in c.load + 1 .. c.off /\ g <= c.pre
  BY LoadBounds DEF g
<1>c. g \in HiddenPinned /\ g \notin PreQueued
  BY <1>a, <1>b DEF Inv, CpuInv, OffloadInv
<1>d. ASSUME NEW h \in PostQueued PROVE h \in d.load - 1 .. c.post
  <2>1. h \in Int /\ h \in c.load - 1 .. c.post /\ \A i \in h + 2 .. c.pre : i \in PreQueued
    BY <1>2 DEF Inv, CurInv
  <2>2. ~(h + 2 <= g)
    <3>1. h + 2 <= g => g \in h + 2 .. c.pre
      BY <1>2, <1>b, <2>1
    <3> QED BY <1>c, <2>1, <3>1
  <2> QED BY <1>1, <1>2, <2>1, <2>2 DEF g
<1>e. ASSUME NEW h \in LoadQueued PROVE h = c.load
  <2>1. h \in c.load - 1 .. c.load /\ (h <= c.post => h \in PostQueued)
    BY DEF Inv, LoadInv, HiddenInv
  <2>2. CASE h <= c.post
    <3>1. h \in d.load - 1 .. c.post
      BY <1>d, <2>1, <2>2
    <3> QED BY <1>1, <1>2, <2>1, <3>1 DEF g
  <2>3. CASE ~(h <= c.post)
    BY <1>2, <2>1, <2>3
  <2> QED BY <2>2, <2>3
<1>f. ASSUME NEW h \in CopyQueued PROVE h \in d.load - 2 .. c.fetch
  <2>1. h \in c.load - 2 .. c.fetch /\ \A i \in h + 1 .. c.load : i \in LoadQueued
    BY DEF Inv, LoadInv
  <2>2. IF h = c.load - 2 THEN c.load - 1 \in h + 1 .. c.load ELSE h \in d.load - 2 .. c.fetch
    BY <2>1, LoadBounds
  <2>3. c.load - 1 # c.load
    BY <1>2
  <2> QED BY <1>e, <2>1, <2>2, <2>3
<1>4. ASSUME NEW x \in Range(load) PROVE <<x, new>> \in LoadOrder
  <2>1. x \in Work /\ new \in Work /\ LoadKey(new) = 2 * g
    BY <1>2, InQueue, LoadFields DEF TypeInv
  <2>2. LoadKey(x) < 2 * g
    <3>1. CASE \E h \in LoadQueued : x = Its("load_hidden", h)
      <4>1. PICK h \in LoadQueued : x = Its("load_hidden", h)
        BY <3>1
      <4>2. h = c.load /\ h \in Int
        BY <1>2, <1>e
      <4>3. LoadKey(x) = 2 * h
        BY <4>1, <4>2, LoadFields
      <4> HIDE DEF new
      <4> QED BY <1>1, <1>2, <4>2, <4>3
    <3>2. CASE \E h \in CopyQueued : x = Its_copy(h)
      <4>1. PICK h \in CopyQueued : x = Its_copy(h)
        BY <3>2
      <4>2. h \in Int /\ h <= c.fetch
        BY <1>2 DEF Inv, LoadInv
      <4>3. LoadKey(x) = 2 * h + 1
        BY <4>1, <4>2, LoadFields
      <4> HIDE DEF new
      <4> QED BY <1>1, <1>2, <4>2, <4>3
    <3> QED BY <3>1, <3>2 DEF Inv, LoadInv
  <2> HIDE DEF new
  <2> QED BY <2>1, <2>2 DEF LoadOrder
<1>5. load' \in Seq(Work) /\ Range(load') = Range(load) \cup {new} /\ Ordered(load', LoadOrder)
  <2>1. load \in Seq(Work) /\ new \in Work /\ Ordered(load, LoadOrder) /\ load' = Append(load, new)
    BY <1>2, LoadFields DEF TypeInv, Inv, LoadInv, g
  <2> HIDE DEF new
  <2> QED BY <1>4, <2>1, Enqueue
<1>6. LoadQueued' = LoadQueued \cup {g} /\ CopyQueued' = CopyQueued
  <2>1. g \in Int
    BY <1>2
  <2> QED BY <1>5, <2>1, LoadFields DEF LoadQueued, CopyQueued
<1>7. TypeInv'
  BY <1>5 DEF TypeInv
<1>8. CurInv(d)'
  <2>1. PreQueued' \subseteq d.load + 1 .. d.pre
    <3>1. PreQueued \subseteq c.load + 1 .. c.pre
      BY DEF Inv, CurInv
    <3>2. c.load + 1 .. c.pre = {g} \cup (g + 1 .. c.pre)
      BY <1>1, <1>2, <1>b
    <3> QED BY <1>1, <1>3, <1>c, <3>1, <3>2 DEF g
  <2>2. PostQueued' \subseteq d.load - 1 .. d.post
    BY <1>1, <1>3, <1>d
  <2> QED BY <1>1, <1>3, <2>1, <2>2 DEF Inv, CurInv
<1>9. OffloadInv(d)'
  <2>1. g \notin OffQueued
    BY <1>a, <1>b DEF Inv, CpuInv
  <2>2. c.load + 1 .. c.off = {g} \cup (g + 1 .. c.off)
    BY <1>1, <1>2, <1>b
  <2> QED BY <1>1, <1>3, <2>1, <2>2 DEF Inv, OffloadInv, g
<1>10. CpuInv(d)'
  <2>1. c.load + 1 .. c.cpu = {g} \cup (g + 1 .. c.cpu)
    BY <1>1, <1>2, <1>b
  <2> QED BY <1>1, <1>3, <1>a, <2>1 DEF Inv, CpuInv, g
<1>11. LoadInv(d)'
  <2>1. \A x \in Range(load') : \/ \E h \in LoadQueued' : x = Its("load_hidden", h)
                                \/ \E h \in CopyQueued' : x = Its_copy(h)
    BY <1>5, <1>6 DEF Inv, LoadInv
  <2>2. LoadQueued' \subseteq d.load - 1 .. d.load
    <3>1. c.load \in g - 1 .. g /\ g \in g - 1 .. g
      BY LoadBounds DEF g
    <3> QED BY <1>6, <1>e, <3>1 DEF g
  <2>3. CopyQueued' \subseteq d.load - 2 .. d.fetch /\ \A h \in CopyQueued' : h >= 0
    BY <1>1, <1>6, <1>f DEF Inv, LoadInv
  <2>4. ASSUME NEW h \in CopyQueued'
        PROVE  /\ \A i \in h + 1 .. d.load : i \in LoadQueued'
               /\ \A i \in h + 1 .. d.fetch : i \in CopyQueued'
    <3>1. h \in CopyQueued /\ h \in Int
      BY <1>6 DEF CopyQueued
    <3>2. \A i \in h + 1 .. g : i = g \/ i \in h + 1 .. c.load
      BY <1>1, <1>2, <3>1
    <3> QED BY <1>1, <1>6, <3>1, <3>2 DEF Inv, LoadInv, g
  <2> QED BY <1>5, <2>1, <2>2, <2>3, <2>4 DEF LoadInv
<1>12. HiddenInv(d)'
  <2>1. ASSUME NEW h \in LoadQueued' PROVE h \in HiddenPinned' /\ (h <= d.post => h \in PostQueued')
    <3>1. CASE h = g
      <4>1. ~(g <= c.post)
        BY <1>1, <1>2
      <4> QED BY <1>1, <1>3, <1>c, <3>1, <4>1
    <3>2. CASE h # g
      BY <1>1, <1>3, <1>6, <3>2 DEF Inv, HiddenInv
    <3> QED BY <3>1, <3>2
  <2>2. ASSUME NEW h \in d.load - 1 .. d.load PROVE h \in LoadQueued' \/ h \in HiddenBack'
    <3>1. h = g \/ h \in c.load - 1 .. c.load
      BY <1>1, <1>2 DEF g
    <3> QED BY <1>3, <1>6, <3>1 DEF Inv, HiddenInv
  <2> QED BY <2>1, <2>2 DEF HiddenInv
<1>13. ColdInv(d)'
  BY <1>1, <1>3, <1>6 DEF Inv, ColdInv
<1>14. TaskInv(d)'
  BY <1>1, <1>3 DEF Inv, TaskInv
<1>15. PinInv(d)'
  BY <1>1, <1>3, <1>6 DEF Inv, PinInv
<1>16. MarkInv(d)'
  BY <1>1, <1>3 DEF Inv, MarkInv
<1>17. PageInv(d)'
  BY <1>1, <1>3, <1>6 DEF Inv, PageInv
<1> QED BY <1>7, <1>8, <1>9, <1>10, <1>11, <1>12, <1>13, <1>14, <1>15, <1>16, <1>17 DEF Inv

\* A slot is fetched for the turn that was loaded last.
LEMMA FetchBounds ==
  ASSUME NEW c, NEW d, Bounds(c), Bounds(d), Counting("prefetch", c, d)
  PROVE  /\ d.fetch \in Int /\ d.fetch >= 0 /\ c.pin <= d.fetch + 1 /\ c.load <= d.fetch
         /\ c.load - 2 .. c.fetch \subseteq c.load - 2 .. d.fetch
         /\ d.fetch \in c.load - 2 .. d.fetch
         /\ d.fetch + 1 .. c.load = {} /\ d.fetch + 1 .. d.fetch = {}
         /\ c.fetch + 1 .. c.pin = {d.fetch} \cup (d.fetch + 1 .. c.pin)
BY DEF Bounds, Counting

LEMMA StepPrefetch ==
  ASSUME TypeInv, NEW c, NEW d, Bounds(c), Bounds(d), Inv(c), Counting("prefetch", c, d),
         load' = Append(load, Its_copy(d.fetch)),
         cold' = Append(cold, Its_copy(d.fetch)),
         prefetch' = Append(prefetch, Op("record", LayerAt(d.fetch) + 1, SlotAt(d.fetch))),
         gpu_page' = NextPage(SlotAt(d.fetch)),
         \A x \in Range(copy_executor) : x.mb # SlotAt(d.fetch),
         UNCHANGED <<cur, offload, cpu_executor, copy_executor, first_page, pages, pin,
                     qkv_pin, hidden_pin, hidden_states>>
  PROVE  TypeInv' /\ Inv(d)'
<1> /\ \A n : Page(n)' = Page(n)
    /\ \A h : Its_copy(h)' = Its_copy(h)
  BY SameCopies
<1> DEFINE g == d.fetch
           mark == Op("record", LayerAt(g) + 1, SlotAt(g))
           new == Its_copy(g)
<1>1. /\ g = c.fetch + 1 /\ d.pre = c.pre /\ d.off = c.off /\ d.cpu = c.cpu
      /\ d.pin = c.pin /\ d.load = c.load /\ d.post = c.post
  BY DEF Counting
<1>2. /\ c.pre \in Int /\ c.off \in Int /\ c.cpu \in Int /\ c.pin \in Int /\ c.load \in Int
      /\ c.fetch \in Int /\ c.post \in Int /\ g \in Int
      /\ -1 <= c.post /\ c.post <= c.fetch /\ c.fetch <= c.load /\ c.load <= c.pin
      /\ c.pin <= c.cpu /\ c.cpu <= c.off /\ c.off <= c.pre
      /\ c.load <= c.post + 1 /\ c.pre <= c.post + 2
      /\ g <= c.load
  BY <1>1 DEF Bounds
<1>3. /\ PreQueued' = PreQueued /\ PostQueued' = PostQueued /\ OffQueued' = OffQueued
      /\ CpuQueued' = CpuQueued /\ TaskQueued' = TaskQueued /\ SlotPaged' = SlotPaged
      /\ (PagesApart' <=> PagesApart)
      /\ SlotPinned' = SlotPinned /\ QkvPinned' = QkvPinned
      /\ HiddenPinned' = HiddenPinned /\ HiddenBack' = HiddenBack
  BY SameCur, SameOffload, SameCpu, SameTasks, SamePages, SamePin, SameQkv, SameHidden,
     SameBack
<1>a. g \notin TaskQueued
  <2>1. g \in Int /\ Its_to_pin(g).mb = SlotAt(g)
    BY <1>2, ToPinFields
  <2> QED BY <2>1 DEF TaskQueued
<1> HIDE DEF g
<1>b. ~PageWaits
  <2>1. PageWaits => c.fetch = -1 /\ (c.pin >= 0 => 0 \in TaskQueued)
    BY DEF Inv, MarkInv
  <2>2. c.fetch = -1 => g = 0 /\ c.pin >= 0
    BY <1>1, <1>2
  <2> QED BY <1>a, <2>1, <2>2
<1>c. LayerAt(g) \in Int /\ SlotAt(g) \in Int /\ SlotAt(g) \in MicroBatchIds
  <2>1. g \in Int
    BY <1>2
  <2>2. LayerAt(g) \in Int /\ SlotAt(g) \in MicroBatchIds
    BY <2>1, TurnParts
  <2> QED BY <2>2, Sizes DEF MicroBatchIds
<1>d. mark \in Work /\ mark # PageOp /\ mark.op = "record"
  <2>1. mark.op = "record" /\ mark \in Marks
    BY <1>c DEF Op, Marks
  <2>2. mark # PageOp
    BY <2>1, PageFields
  <2> QED BY <2>1, <2>2 DEF Work
<1>e. /\ prefetch' \in Seq(Work) /\ Range(prefetch') = Range(prefetch) \cup {mark}
      /\ Ordered(prefetch', MarkOrder)
  <2>1. ASSUME NEW x \in Range(prefetch) PROVE <<x, mark>> \in MarkOrder
    <3>1. x \in Work
      BY InQueue DEF TypeInv
    <3> QED BY <1>d, <3>1 DEF MarkOrder
  <2>2. /\ prefetch \in Seq(Work) /\ mark \in Work /\ Ordered(prefetch, MarkOrder)
        /\ prefetch' = Append(prefetch, mark)
    BY <1>d DEF TypeInv, Inv, MarkInv, g
  <2> HIDE DEF mark
  <2> QED BY <2>1, <2>2, Enqueue
<1>4. ASSUME NEW x \in Range(load) PROVE <<x, new>> \in LoadOrder
  <2>1. x \in Work /\ new \in Work /\ LoadKey(new) = 2 * g + 1
    BY <1>2, InQueue, LoadFields, CopyFields DEF TypeInv
  <2>2. LoadKey(x) < 2 * g + 1
    <3>1. CASE \E h \in LoadQueued : x = Its("load_hidden", h)
      <4>1. PICK h \in LoadQueued : x = Its("load_hidden", h)
        BY <3>1
      <4>2. h <= c.load /\ h \in Int
        BY <1>2 DEF Inv, LoadInv
      <4>3. LoadKey(x) = 2 * h
        BY <4>1, <4>2, LoadFields
      <4>4. c.load <= g
        BY FetchBounds DEF g
      <4> HIDE DEF new
      <4> QED BY <1>2, <4>2, <4>3, <4>4
    <3>2. CASE \E h \in CopyQueued : x = Its_copy(h)
      <4>1. PICK h \in CopyQueued : x = Its_copy(h)
        BY <3>2
      <4>2. h \in Int /\ h <= c.fetch
        BY <1>2 DEF Inv, LoadInv
      <4>3. LoadKey(x) = 2 * h + 1
        BY <4>1, <4>2, LoadFields
      <4> HIDE DEF new
      <4> QED BY <1>1, <1>2, <4>2, <4>3
    <3> QED BY <3>1, <3>2 DEF Inv, LoadInv
  <2> HIDE DEF new
  <2> QED BY <2>1, <2>2 DEF LoadOrder
<1>5. load' \in Seq(Work) /\ Range(load') = Range(load) \cup {new} /\ Ordered(load', LoadOrder)
  <2>1. load \in Seq(Work) /\ new \in Work /\ Ordered(load, LoadOrder) /\ load' = Append(load, new)
    BY <1>2, CopyFields DEF TypeInv, Inv, LoadInv, g
  <2> HIDE DEF new
  <2> QED BY <1>4, <2>1, Enqueue
<1>f. ASSUME NEW x \in Range(cold) PROVE <<x, new>> \in ColdOrder
  <2>1. x \in Work /\ new \in Work /\ new.op = "prefetch" /\ TurnOf(new) = g /\ new # PageOp
    BY <1>2, InQueue, CopyFields, ColdFields DEF TypeInv
  <2> HIDE DEF new
  <2>2. CASE x = PageOp
    <3>1. x.op = "page"
      BY <2>2, PageFields
    <3> QED BY <2>1, <3>1 DEF ColdOrder, ColdBefore
  <2>3. CASE \E h \in ToPinQueued : x = Its_to_pin(h)
    <3>1. PICK h \in ToPinQueued : x = Its_to_pin(h)
      BY <2>3
    <3>2. h \in Int /\ h <= c.pin
      BY <1>2 DEF Inv, ColdInv
    <3>3. x.op = "to_pin" /\ TurnOf(x) = h
      BY <3>1, <3>2, ToPinFields
    <3>4. h < g + num_mb
      <4>1. c.pin <= g + 1
        BY FetchBounds DEF g
      <4> HIDE DEF new
      <4> QED BY <1>2, <3>2, <4>1, Sizes
    <3> QED BY <2>1, <3>3, <3>4 DEF ColdOrder, ColdBefore
  <2>4. CASE \E h \in ColdCopies : x = Its_copy(h)
    <3>1. PICK h \in CopyQueued : x = Its_copy(h)
      BY <2>4 DEF Inv, ColdInv
    <3>2. h \in Int /\ h <= c.fetch
      BY <1>2 DEF Inv, LoadInv
    <3>3. x.op = "prefetch" /\ TurnOf(x) = h
      BY <3>1, <3>2, CopyFields
    <3>4. h < g
      BY <1>1, <1>2, <3>2
    <3> QED BY <2>1, <3>3, <3>4 DEF ColdOrder, ColdBefore
  <2> QED BY <2>2, <2>3, <2>4 DEF Inv, ColdInv
<1>g. cold' \in Seq(Work) /\ Range(cold') = Range(cold) \cup {new} /\ Ordered(cold', ColdOrder)
  <2>1. cold \in Seq(Work) /\ new \in Work /\ Ordered(cold, ColdOrder) /\ cold' = Append(cold, new)
    BY <1>2, CopyFields DEF TypeInv, Inv, ColdInv, g
  <2> HIDE DEF new
  <2> QED BY <1>f, <2>1, Enqueue
<1>6. /\ LoadQueued' = LoadQueued /\ CopyQueued' = CopyQueued \cup {g}
      /\ ColdCopies' = ColdCopies \cup {g} /\ ToPinQueued' = ToPinQueued
      /\ (PageCold' <=> PageCold) /\ (PageWaits' <=> PageWaits)
  <2>1. g \in Int
    BY <1>2
  <2>2. LoadQueued' = LoadQueued /\ CopyQueued' = CopyQueued \cup {g}
    BY <1>5, <2>1, LoadFields DEF LoadQueued, CopyQueued
  <2>3. ColdCopies' = ColdCopies \cup {g} /\ ToPinQueued' = ToPinQueued
    BY <1>g, <2>1, ColdFields DEF ColdCopies, ToPinQueued
  <2>4. PageCold' <=> PageCold
    BY <1>g, <2>1, ColdFields DEF PageCold
  <2>5. PageWaits' <=> PageWaits
    BY <1>d, <1>e DEF PageWaits
  <2> QED BY <2>2, <2>3, <2>4, <2>5
<1>h. gpu_page' = Page(LayerAt(d.fetch + 1) + 1) /\ gpu_page' \in Int
  <2>1. gpu_page = Page(LayerAt(g) + 1)
    BY <1>1 DEF Inv, PageInv
  <2>2. gpu_page' = IF SlotAt(g) = num_mb - 1 THEN 1 - gpu_page ELSE gpu_page
    BY DEF NextPage, g
  <2>3. IF SlotAt(g) = num_mb - 1 THEN LayerAt(g + 1) = LayerAt(g) + 1 ELSE LayerAt(g + 1) = LayerAt(g)
    BY <1>2, LaterTurn
  <2>4. LayerAt(g) + 1 \in Int
    BY <1>c
  <2>5. /\ Page(LayerAt(g) + 1) \in Int /\ Page((LayerAt(g) + 1) + 1) \in Int
        /\ 1 - Page(LayerAt(g) + 1) = Page((LayerAt(g) + 1) + 1)
    <3> DEFINE n == LayerAt(g) + 1
    <3>1. n \in Int /\ n + 1 \in Int
      BY <2>4
    <3> HIDE DEF n
    <3>2. Page(n) \in {0, 1} /\ 1 - Page(n) = Page(n + 1)
      BY <3>1, OtherPage
    <3>3. Page(n + 1) \in {0, 1}
      BY <3>1, OtherPage
    <3> QED BY <3>2, <3>3 DEF n
  <2>6. gpu_page' = Page(LayerAt(g + 1) + 1)
    <3>1. CASE SlotAt(g) = num_mb - 1
      BY <2>1, <2>2, <2>3, <2>5, <3>1
    <3>2. CASE SlotAt(g) # num_mb - 1
      BY <2>1, <2>2, <2>3, <3>2
    <3> QED BY <3>1, <3>2
  <2> QED BY <2>1, <2>2, <2>5, <2>6 DEF g
<1>7. TypeInv'
  BY <1>5, <1>e, <1>g DEF TypeInv
<1>8. CurInv(d)'
  BY <1>1, <1>3 DEF Inv, CurInv
<1>9. OffloadInv(d)'
  BY <1>1, <1>3 DEF Inv, OffloadInv
<1>10. CpuInv(d)'
  BY <1>1, <1>3 DEF Inv, CpuInv
<1>11. LoadInv(d)'
  <2>1. \A x \in Range(load') : \/ \E h \in LoadQueued' : x = Its("load_hidden", h)
                                \/ \E h \in CopyQueued' : x = Its_copy(h)
    BY <1>5, <1>6 DEF Inv, LoadInv
  <2>2. LoadQueued' \subseteq d.load - 1 .. d.load
    BY <1>1, <1>6 DEF Inv, LoadInv
  <2>3. CopyQueued' \subseteq d.load - 2 .. d.fetch /\ \A h \in CopyQueued' : h >= 0
    <3>1. g >= 0 /\ c.load - 2 .. c.fetch \subseteq c.load - 2 .. g /\ g \in c.load - 2 .. g
      BY FetchBounds DEF g
    <3> QED BY <1>1, <1>6, <3>1 DEF Inv, LoadInv, g
  <2>4. ASSUME NEW h \in CopyQueued'
        PROVE  /\ \A i \in h + 1 .. d.load : i \in LoadQueued'
               /\ \A i \in h + 1 .. d.fetch : i \in CopyQueued'
    <3>1. CASE h = g
      <4>1. g + 1 .. c.load = {} /\ g + 1 .. g = {}
        BY FetchBounds DEF g
      <4> QED BY <1>1, <3>1, <4>1 DEF g
    <3>2. CASE h # g
      <4>1. h \in CopyQueued /\ h \in Int
        BY <1>6, <3>2 DEF CopyQueued
      <4>2. \A i \in h + 1 .. g : i = g \/ i \in h + 1 .. c.fetch
        BY <1>1, <1>2, <4>1
      <4> QED BY <1>1, <1>6, <4>1, <4>2 DEF Inv, LoadInv, g
    <3> QED BY <3>1, <3>2
  <2> QED BY <1>5, <2>1, <2>2, <2>3, <2>4 DEF LoadInv
<1>12. HiddenInv(d)'
  BY <1>1, <1>3, <1>6 DEF Inv, HiddenInv
<1>13. ColdInv(d)'
  <2>1. \A x \in Range(cold') : \/ x = PageOp
                                \/ \E h \in ToPinQueued' : x = Its_to_pin(h)
                                \/ \E h \in ColdCopies' : x = Its_copy(h)
    BY <1>g, <1>6 DEF Inv, ColdInv
  <2> QED BY <1>1, <1>g, <1>6, <2>1 DEF Inv, ColdInv
<1>14. TaskInv(d)'
  <2>1. c.fetch + 1 .. c.pin = {g} \cup (g + 1 .. c.pin)
    BY FetchBounds DEF g
  <2>2. TaskQueued' \subseteq d.fetch + 1 .. d.pin
    BY <1>1, <1>3, <1>a, <2>1 DEF Inv, TaskInv, g
  <2> QED BY <1>1, <1>3, <1>6, <2>2 DEF Inv, TaskInv
<1>15. PinInv(d)'
  <2>1. c.fetch + 1 .. c.pin = {g} \cup (g + 1 .. c.pin)
    BY FetchBounds DEF g
  <2> QED BY <1>1, <1>3, <1>6, <2>1 DEF Inv, PinInv, g
<1>16. MarkInv(d)'
  BY <1>b, <1>d, <1>e, <1>6 DEF Inv, MarkInv
<1>17. PageInv(d)'
  <2>1. ASSUME NEW h \in 0 .. d.fetch PROVE h \in CopyQueued' \cup SlotPaged'
    <3>1. h = g \/ h \in 0 .. c.fetch
      BY <1>1, <1>2 DEF g
    <3> QED BY <1>3, <1>6, <3>1 DEF Inv, PageInv
  <2>2. PagesApart'
    BY <1>3 DEF Inv, PageInv
  <2> QED BY <1>h, <2>1, <2>2 DEF PageInv
<1> QED BY <1>7, <1>8, <1>9, <1>10, <1>11, <1>12, <1>13, <1>14, <1>15, <1>16, <1>17 DEF Inv

LEMMA StepPost ==
  ASSUME TypeInv, NEW c, NEW d, Bounds(c), Bounds(d), Inv(c), Counting("post_attention", c, d),
         cur' = Append(cur, Its("post_attention", d.post)),
         UNCHANGED <<offload, load, prefetch, cold, cpu_executor, copy_executor,
                     gpu_page, first_page, pages, pin, qkv_pin, hidden_pin, hidden_states>>
  PROVE  TypeInv' /\ Inv(d)'
<1> /\ \A n : Page(n)' = Page(n)
    /\ \A h : Its_copy(h)' = Its_copy(h)
  BY SameCopies
<1> DEFINE g == d.post
           new == Its("post_attention", g)
<1>1. /\ g = c.post + 1 /\ d.pre = c.pre /\ d.off = c.off /\ d.cpu = c.cpu
      /\ d.pin = c.pin /\ d.load = c.load /\ d.fetch = c.fetch
  BY DEF Counting
<1>2. /\ c.pre \in Int /\ c.off \in Int /\ c.cpu \in Int /\ c.pin \in Int /\ c.load \in Int
      /\ c.fetch \in Int /\ c.post \in Int /\ g \in Int
      /\ -1 <= c.post /\ c.post <= c.fetch /\ c.fetch <= c.load /\ c.load <= c.pin
      /\ c.pin <= c.cpu /\ c.cpu <= c.off /\ c.off <= c.pre
      /\ c.load <= c.post + 1 /\ c.pre <= c.post + 2
      /\ g <= c.fetch
  BY <1>1 DEF Bounds
<1>3. /\ OffQueued' = OffQueued /\ LoadQueued' = LoadQueued /\ CopyQueued' = CopyQueued
      /\ (PageWaits' <=> PageWaits) /\ ColdCopies' = ColdCopies
      /\ ToPinQueued' = ToPinQueued /\ (PageCold' <=> PageCold) /\ CpuQueued' = CpuQueued
      /\ TaskQueued' = TaskQueued /\ SlotPaged' = SlotPaged
      /\ (PagesApart' <=> PagesApart) /\ SlotPinned' = SlotPinned
      /\ QkvPinned' = QkvPinned /\ HiddenPinned' = HiddenPinned
      /\ HiddenBack' = HiddenBack
  BY SameOffload, SameLoad, SamePrefetch, SameCold, SameCpu, SameTasks, SamePages,
     SamePin, SameQkv, SameHidden, SameBack
<1> HIDE DEF g
<1>4. ASSUME NEW x \in Range(cur) PROVE <<x, new>> \in CurOrder
  <2>1. x \in Work /\ new \in Work /\ CurKey(new) = 2 * g
    BY <1>2, InQueue, CurFields DEF TypeInv
  <2>2. CurKey(x) < 2 * g
    <3>1. CASE \E h \in PreQueued : x = Its("pre_attention", h)
      <4>1. PICK h \in PreQueued : x = Its("pre_attention", h)
        BY <3>1
      <4>2. h \in Int /\ h <= c.pre
        BY <1>2 DEF Inv, CurInv
      <4>3. CurKey(x) = 2 * h - 3
        BY <4>1, <4>2, CurFields
      <4> HIDE DEF new
      <4> QED BY <1>1, <1>2, <4>2, <4>3
    <3>2. CASE \E h \in PostQueued : x = Its("post_attention", h)
      <4>1. PICK h \in PostQueued : x = Its("post_attention", h)
        BY <3>2
      <4>2. h \in Int /\ h <= c.post
        BY <1>2 DEF Inv, CurInv
      <4>3. CurKey(x) = 2 * h
        BY <4>1, <4>2, CurFields
      <4> HIDE DEF new
      <4> QED BY <1>1, <1>2, <4>2, <4>3
    <3> QED BY <3>1, <3>2 DEF Inv, CurInv
  <2> HIDE DEF new
  <2> QED BY <2>1, <2>2 DEF CurOrder
<1>5. cur' \in Seq(Work) /\ Range(cur') = Range(cur) \cup {new} /\ Ordered(cur', CurOrder)
  <2>1. cur \in Seq(Work) /\ new \in Work /\ Ordered(cur, CurOrder) /\ cur' = Append(cur, new)
    BY <1>2, CurFields DEF TypeInv, Inv, CurInv, g
  <2> HIDE DEF new
  <2> QED BY <1>4, <2>1, Enqueue
<1>6. PreQueued' = PreQueued /\ PostQueued' = PostQueued \cup {g}
  <2>1. g \in Int
    BY <1>2
  <2> QED BY <1>5, <2>1, CurFields DEF PreQueued, PostQueued
<1>7. TypeInv'
  BY <1>5 DEF TypeInv
<1>8. CurInv(d)'
  <2>1. \A x \in Range(cur') : \/ \E h \in PreQueued' : x = Its("pre_attention", h)
                               \/ \E h \in PostQueued' : x = Its("post_attention", h)
    BY <1>5, <1>6 DEF Inv, CurInv
  <2>2. PreQueued' \subseteq d.load + 1 .. d.pre /\ PostQueued' \subseteq d.load - 1 .. d.post
    <3>1. g \in c.load - 1 .. g /\ c.load - 1 .. c.post \subseteq c.load - 1 .. g
      BY <1>1, <1>2
    <3>2. PreQueued \subseteq c.load + 1 .. c.pre /\ PostQueued \subseteq c.load - 1 .. c.post
      BY DEF Inv, CurInv
    <3> QED BY <1>1, <1>6, <3>1, <3>2 DEF g
  <2>3. ASSUME NEW h \in PostQueued', NEW i \in h + 2 .. d.pre PROVE i \in PreQueued'
    <3>1. h # g
      <4>1. \A k \in g + 2 .. c.pre : FALSE
        BY <1>1, <1>2
      <4> QED BY <1>1, <2>3, <4>1
    <3> QED BY <1>1, <1>6, <2>3, <3>1 DEF Inv, CurInv
  <2>4. \A h \in PostQueued' : h >= 0
    <3>1. g >= 0
      BY <1>1, <1>2
    <3> QED BY <1>6, <3>1 DEF Inv, CurInv
  <2> QED BY <1>5, <2>1, <2>2, <2>3, <2>4 DEF CurInv
<1>9. OffloadInv(d)'
  BY <1>1, <1>3, <1>6 DEF Inv, OffloadInv
<1>10. CpuInv(d)'
  BY <1>1, <1>3 DEF Inv, CpuInv
<1>11. LoadInv(d)'
  BY <1>1, <1>3 DEF Inv, LoadInv
<1>12. HiddenInv(d)'
  <2>1. ASSUME NEW h \in LoadQueued', h <= d.post PROVE h \in PostQueued'
    <3>1. h \in LoadQueued /\ h \in Int
      BY <1>3 DEF LoadQueued
    <3>2. h = g \/ h <= c.post
      BY <1>1, <1>2, <2>1, <3>1 DEF g
    <3> QED BY <1>6, <3>1, <3>2 DEF Inv, HiddenInv
  <2> QED BY <1>1, <1>3, <2>1 DEF Inv, HiddenInv
<1>13. ColdInv(d)'
  BY <1>1, <1>3 DEF Inv, ColdInv
<1>14. TaskInv(d)'
  BY <1>1, <1>3 DEF Inv, TaskInv
<1>15. PinInv(d)'
  BY <1>1, <1>3 DEF Inv, PinInv
<1>16. MarkInv(d)'
  BY <1>1, <1>3 DEF Inv, MarkInv
<1>17. PageInv(d)'
  BY <1>1, <1>3 DEF Inv, PageInv
<1> QED BY <1>7, <1>8, <1>9, <1>10, <1>11, <1>12, <1>13, <1>14, <1>15, <1>16, <1>17 DEF Inv

LEMMA StepSample ==
  ASSUME TypeInv, NEW c, NEW d, Inv(c), Counting("sample", c, d),
         UNCHANGED <<cur, offload, load, prefetch, cold, cpu_executor,
                     copy_executor, gpu_page, first_page, pages, pin, qkv_pin, hidden_pin,
                     hidden_states>>
  PROVE  TypeInv' /\ Inv(d)'
<1> /\ \A n : Page(n)' = Page(n)
    /\ \A h : Its_copy(h)' = Its_copy(h)
  BY SameCopies
<1>1. /\ d.pre = c.pre /\ d.off = c.off /\ d.cpu = c.cpu /\ d.pin = c.pin
      /\ d.load = c.load /\ d.fetch = c.fetch /\ d.post = c.post
  BY DEF Counting
<1>2. /\ PreQueued' = PreQueued /\ PostQueued' = PostQueued /\ OffQueued' = OffQueued
      /\ LoadQueued' = LoadQueued /\ CopyQueued' = CopyQueued
      /\ (PageWaits' <=> PageWaits) /\ ColdCopies' = ColdCopies
      /\ ToPinQueued' = ToPinQueued /\ (PageCold' <=> PageCold) /\ CpuQueued' = CpuQueued
      /\ TaskQueued' = TaskQueued /\ SlotPaged' = SlotPaged
      /\ (PagesApart' <=> PagesApart) /\ SlotPinned' = SlotPinned
      /\ QkvPinned' = QkvPinned /\ HiddenPinned' = HiddenPinned
      /\ HiddenBack' = HiddenBack
  BY SameCur, SameOffload, SameLoad, SamePrefetch, SameCold, SameCpu, SameTasks,
     SamePages, SamePin, SameQkv, SameHidden, SameBack
<1>3. TypeInv'
  BY DEF TypeInv
<1>4. CurInv(d)'
  BY <1>1, <1>2 DEF Inv, CurInv
<1>5. OffloadInv(d)'
  BY <1>1, <1>2 DEF Inv, OffloadInv
<1>6. CpuInv(d)'
  BY <1>1, <1>2 DEF Inv, CpuInv
<1>7. LoadInv(d)'
  BY <1>1, <1>2 DEF Inv, LoadInv
<1>8. HiddenInv(d)'
  BY <1>1, <1>2 DEF Inv, HiddenInv
<1>9. ColdInv(d)'
  BY <1>1, <1>2 DEF Inv, ColdInv
<1>10. TaskInv(d)'
  BY <1>1, <1>2 DEF Inv, TaskInv
<1>11. PinInv(d)'
  BY <1>1, <1>2 DEF Inv, PinInv
<1>12. MarkInv(d)'
  BY <1>1, <1>2 DEF Inv, MarkInv
<1>13. PageInv(d)'
  BY <1>1, <1>2 DEF Inv, PageInv
<1> QED BY <1>3, <1>4, <1>5, <1>6, <1>7, <1>8, <1>9, <1>10, <1>11, <1>12, <1>13 DEF Inv

-----------------------------------------------------------------------------
(* The streams and the executors *)

LEMMA Dequeue ==
  ASSUME NEW q \in Seq(Work), NEW R, q # <<>>, Ordered(q, R), NEW p, p = Tail(q)
  PROVE  /\ Head(q) \in Work /\ p \in Seq(Work) /\ Range(q) = {Head(q)} \cup Range(p)
         /\ Ordered(p, R)
         /\ \A x \in Range(p) : <<Head(q), x>> \in R
<1>1. p = Tail(q)
  OBVIOUS
<1>2. /\ Head(q) \in Work /\ Tail(q) \in Seq(Work) /\ Range(q) = {Head(q)} \cup Range(Tail(q))
      /\ Ordered(Tail(q), R)
      /\ \A x \in Range(Tail(q)) : <<Head(q), x>> \in R
  BY OrderedTail
<1> QED BY <1>1, <1>2

LEMMA DequeueAny ==
  ASSUME NEW q \in Seq(Work), q # <<>>, NEW p, p = Tail(q)
  PROVE  Head(q) \in Work /\ p \in Seq(Work) /\ Range(q) = {Head(q)} \cup Range(p)
<1> DEFINE R == Work \X Work
<1>1. Ordered(q, R)
  <2>1. \A i \in 1 .. Len(q) : q[i] \in Work
    BY ElementOfSeq
  <2> QED BY <2>1 DEF Ordered
<1> HIDE DEF R
<1> QED BY <1>1, Dequeue

LEMMA TwoAhead ==
  ASSUME NEW a \in Int, NEW b \in Int, b <= a + 2, NEW h \in a + 1 .. b, NEW g \in a + 1 .. b
  PROVE  h < g + 3 /\ g < h + 3
OBVIOUS

LEMMA FewAhead ==
  ASSUME NEW c, Bounds(c)
  PROVE  c.load \in Int /\ c.off \in Int /\ c.cpu \in Int /\ c.off <= c.load + 2 /\ c.cpu <= c.load + 2
BY DEF Bounds

LEMMA FarBehind ==
  ASSUME NEW c, Bounds(c), NEW h \in c.load - 1 .. c.load, NEW g \in c.load + 1 .. c.cpu, h + 3 <= g
  PROVE  h <= c.post /\ g \in h + 2 .. c.pre
BY DEF Bounds

LEMMA TurnZero == LayerAt(0) = 0 /\ SlotAt(0) = 0 /\ \A h \in Int : h >= 0 => LayerAt(h) >= 0
<1>1. 0 * num_mb + 0 = 0 /\ 0 \in MicroBatchIds
  BY Sizes DEF MicroBatchIds
<1>2. LayerAt(0) = 0 /\ SlotAt(0) = 0
  BY <1>1, TurnOfParts
<1> QED BY <1>2, LayersGrow

LEMMA ServeCompute ==
  ASSUME TypeInv, NEW c, Bounds(c), Inv(c),
         cur # <<>>,
         MayCompute(Head(cur)),
         cur' = Tail(cur),
         UNCHANGED <<offload, load, prefetch, cold, cpu_executor, copy_executor,
                     gpu_page, first_page, pages, pin, qkv_pin, hidden_pin, hidden_states>>
  PROVE  TypeInv' /\ Inv(c)'
<1> /\ \A n : Page(n)' = Page(n)
    /\ \A h : Its_copy(h)' = Its_copy(h)
  BY SameCopies
<1> DEFINE x == Head(cur)
<1>1. /\ c.pre \in Int /\ c.off \in Int /\ c.cpu \in Int /\ c.pin \in Int /\ c.load \in Int
      /\ c.fetch \in Int /\ c.post \in Int
      /\ -1 <= c.post /\ c.post <= c.fetch /\ c.fetch <= c.load /\ c.load <= c.pin
      /\ c.pin <= c.cpu /\ c.cpu <= c.off /\ c.off <= c.pre
      /\ c.load <= c.post + 1 /\ c.pre <= c.post + 2
  BY DEF Bounds
<1>2. /\ OffQueued' = OffQueued /\ LoadQueued' = LoadQueued /\ CopyQueued' = CopyQueued
      /\ (PageWaits' <=> PageWaits) /\ ColdCopies' = ColdCopies
      /\ ToPinQueued' = ToPinQueued /\ (PageCold' <=> PageCold) /\ CpuQueued' = CpuQueued
      /\ TaskQueued' = TaskQueued /\ SlotPaged' = SlotPaged
      /\ (PagesApart' <=> PagesApart) /\ SlotPinned' = SlotPinned
      /\ QkvPinned' = QkvPinned /\ HiddenPinned' = HiddenPinned
      /\ HiddenBack' = HiddenBack
  BY SameOffload, SameLoad, SamePrefetch, SameCold, SameCpu, SameTasks, SamePages,
     SamePin, SameQkv, SameHidden, SameBack
<1>3. /\ x \in Work /\ cur' \in Seq(Work) /\ Range(cur) = {x} \cup Range(cur')
      /\ Ordered(cur', CurOrder)
      /\ \A y \in Range(cur') : CurKey(x) < CurKey(y)
  <2>1. cur \in Seq(Work) /\ Ordered(cur, CurOrder)
    BY DEF TypeInv, Inv, CurInv
  <2>2. /\ x \in Work /\ cur' \in Seq(Work) /\ Range(cur) = {x} \cup Range(cur')
        /\ Ordered(cur', CurOrder)
        /\ \A y \in Range(cur') : <<x, y>> \in CurOrder
    BY <2>1, Dequeue
  <2> HIDE DEF x
  <2> QED BY <2>2 DEF CurOrder
<1> HIDE DEF x
<1>4. PreQueued' \subseteq PreQueued /\ PostQueued' \subseteq PostQueued
  BY <1>3 DEF PreQueued, PostQueued
<1>5. ASSUME NEW h \in PostQueued', NEW i \in h + 2 .. c.pre PROVE i \in PreQueued'
  <2>1. h \in PostQueued /\ h \in Int /\ i \in Int /\ h + 2 <= i
    BY <1>1, <1>4 DEF PostQueued
  <2>2. i \in PreQueued
    BY <2>1 DEF Inv, CurInv
  <2>3. Its("pre_attention", i) # x
    <3>1. Its("post_attention", h) \in Range(cur')
      BY <1>5 DEF PostQueued
    <3>2. CurKey(x) < 2 * h
      BY <1>3, <2>1, <3>1, CurFields
    <3>3. CurKey(Its("pre_attention", i)) = 2 * i - 3
      BY <2>1, CurFields
    <3> QED BY <2>1, <3>2, <3>3
  <2> QED BY <1>3, <2>1, <2>2, <2>3 DEF PreQueued
<1>6. ASSUME NEW h \in LoadQueued, h <= c.post PROVE h \in PostQueued'
  <2>1. h \in PostQueued /\ h \in Int /\ Its("load_hidden", h) \in Range(load)
    BY <1>6 DEF Inv, HiddenInv, LoadQueued
  <2>2. Its("post_attention", h) # x
    <3>1. /\ Its("post_attention", h).op = "post_attention" /\ Its("post_attention", h).layer = LayerAt(h)
          /\ Its("post_attention", h).mb = SlotAt(h)
          /\ Its("load_hidden", h).op = "load_hidden" /\ Its("load_hidden", h).layer = LayerAt(h)
          /\ Its("load_hidden", h).mb = SlotAt(h)
      BY <2>1, ItsFields
    <3> QED BY <2>1, <3>1 DEF x, MayCompute, HiddenLoaded, Queued
  <2> QED BY <1>3, <2>1, <2>2 DEF PostQueued
<1>7. TypeInv'
  BY <1>3 DEF TypeInv
<1>8. CurInv(c)'
  <2>1. ASSUME NEW y \in Range(cur')
        PROVE  \/ \E h \in PreQueued' : y = Its("pre_attention", h)
               \/ \E h \in PostQueued' : y = Its("post_attention", h)
    <3>1. y \in Range(cur)
      BY <1>3
    <3>2. \/ \E h \in Int : y = Its("pre_attention", h)
          \/ \E h \in Int : y = Its("post_attention", h)
      BY <3>1 DEF Inv, CurInv, PreQueued, PostQueued
    <3> QED BY <3>2 DEF PreQueued, PostQueued
  <2> QED BY <1>3, <1>4, <1>5, <2>1 DEF Inv, CurInv
<1>9. OffloadInv(c)'
  BY <1>2, <1>4 DEF Inv, OffloadInv
<1>10. CpuInv(c)'
  BY <1>2 DEF Inv, CpuInv
<1>11. LoadInv(c)'
  BY <1>2 DEF Inv, LoadInv
<1>12. HiddenInv(c)'
  BY <1>2, <1>6 DEF Inv, HiddenInv
<1>13. ColdInv(c)'
  BY <1>2 DEF Inv, ColdInv
<1>14. TaskInv(c)'
  BY <1>2 DEF Inv, TaskInv
<1>15. PinInv(c)'
  BY <1>2 DEF Inv, PinInv
<1>16. MarkInv(c)'
  BY <1>2 DEF Inv, MarkInv
<1>17. PageInv(c)'
  BY <1>2 DEF Inv, PageInv
<1> QED BY <1>7, <1>8, <1>9, <1>10, <1>11, <1>12, <1>13, <1>14, <1>15, <1>16, <1>17 DEF Inv

LEMMA ServeOffload ==
  ASSUME TypeInv, NEW c, Bounds(c), Inv(c),
         offload # <<>>,
         ~Queued(cur, "pre_attention", Head(offload).layer, Head(offload).mb),
         qkv_pin' = [qkv_pin EXCEPT ![Head(offload).mb] = Head(offload).layer],
         offload' = Tail(offload),
         UNCHANGED <<cur, load, prefetch, cold, cpu_executor, copy_executor,
                     gpu_page, first_page, pages, pin, hidden_pin, hidden_states>>
  PROVE  TypeInv' /\ Inv(c)'
<1> /\ \A n : Page(n)' = Page(n)
    /\ \A h : Its_copy(h)' = Its_copy(h)
  BY SameCopies
<1> DEFINE x == Head(offload)
<1>1. /\ c.pre \in Int /\ c.off \in Int /\ c.cpu \in Int /\ c.pin \in Int /\ c.load \in Int
      /\ c.fetch \in Int /\ c.post \in Int
      /\ -1 <= c.post /\ c.post <= c.fetch /\ c.fetch <= c.load /\ c.load <= c.pin
      /\ c.pin <= c.cpu /\ c.cpu <= c.off /\ c.off <= c.pre
      /\ c.load <= c.post + 1 /\ c.pre <= c.post + 2
  BY DEF Bounds
<1>2. /\ PreQueued' = PreQueued /\ PostQueued' = PostQueued /\ LoadQueued' = LoadQueued
      /\ CopyQueued' = CopyQueued /\ (PageWaits' <=> PageWaits)
      /\ ColdCopies' = ColdCopies /\ ToPinQueued' = ToPinQueued
      /\ (PageCold' <=> PageCold) /\ CpuQueued' = CpuQueued /\ TaskQueued' = TaskQueued
      /\ SlotPaged' = SlotPaged
      /\ (PagesApart' <=> PagesApart) /\ SlotPinned' = SlotPinned
      /\ HiddenPinned' = HiddenPinned /\ HiddenBack' = HiddenBack
  BY SameCur, SameLoad, SamePrefetch, SameCold, SameCpu, SameTasks, SamePages, SamePin,
     SameHidden, SameBack
<1>3. x \in Work /\ offload' \in Seq(Work) /\ Range(offload) = {x} \cup Range(offload')
  BY DequeueAny DEF TypeInv
<1>4. PICK g \in OffQueued : x = Its("offload_qkv", g)
  BY <1>3 DEF Inv, OffloadInv
<1>5. g \in Int /\ x.layer = LayerAt(g) /\ x.mb = SlotAt(g) /\ SlotAt(g) \in MicroBatchIds
      /\ LayerAt(g) \in Int
  BY <1>4, ItsFields, TurnParts DEF OffQueued
<1>6. g \in c.load + 1 .. c.off
  BY DEF Inv, OffloadInv
<1>7. g \notin PreQueued
  <2>1. /\ Its("pre_attention", g).op = "pre_attention" /\ Its("pre_attention", g).layer = LayerAt(g)
        /\ Its("pre_attention", g).mb = SlotAt(g)
    BY <1>5, ItsFields
  <2> QED BY <1>5, <2>1 DEF PreQueued, Queued
<1>8. OffQueued' \subseteq OffQueued /\ \A h \in OffQueued : h # g => h \in OffQueued'
  <2>1. OffQueued' \subseteq OffQueued
    BY <1>3 DEF OffQueued
  <2>2. ASSUME NEW h \in OffQueued, h # g PROVE h \in OffQueued'
    <3>1. h \in Int /\ Its("offload_qkv", h) \in Range(offload)
      BY DEF OffQueued
    <3>2. Its("offload_qkv", h) # x
      BY <1>4, <1>5, <2>2, <3>1, TaskFields
    <3> QED BY <1>3, <3>1, <3>2 DEF OffQueued
  <2> QED BY <2>1, <2>2
<1>9. qkv_pin' = [qkv_pin EXCEPT ![SlotAt(g)] = LayerAt(g)] /\ qkv_pin \in [MicroBatchIds -> Int]
  BY <1>5 DEF TypeInv
<1> HIDE DEF x
<1>10. g \in QkvPinned' /\ \A h \in QkvPinned : h # g /\ h < g + 3 /\ g < h + 3 => h \in QkvPinned'
  <2>1. g \in QkvPinned'
    BY <1>5, <1>9 DEF QkvPinned
  <2>2. ASSUME NEW h \in QkvPinned, h # g, h < g + 3, g < h + 3 PROVE h \in QkvPinned'
    <3>1. h \in Int /\ qkv_pin[SlotAt(h)] = LayerAt(h) /\ SlotAt(h) \in MicroBatchIds
      BY TurnParts DEF QkvPinned
    <3>2. SlotAt(h) # SlotAt(g)
      BY <1>5, <2>2, <3>1, Neighbouring
    <3>3. qkv_pin'[SlotAt(h)] = LayerAt(h)
      BY <1>9, <3>1, <3>2
    <3> QED BY <3>1, <3>3 DEF QkvPinned
  <2> QED BY <2>1, <2>2
<1>11. TypeInv'
  <2>1. qkv_pin' \in [MicroBatchIds -> Int]
    BY <1>5, <1>9
  <2> QED BY <1>3, <2>1 DEF TypeInv
<1>12. CurInv(c)'
  BY <1>2 DEF Inv, CurInv
<1>13. OffloadInv(c)'
  <2>1. ASSUME NEW y \in Range(offload') PROVE \E h \in OffQueued' : y = Its("offload_qkv", h)
    <3>1. \E h \in Int : y = Its("offload_qkv", h)
      BY <1>3 DEF Inv, OffloadInv, OffQueued
    <3> QED BY <3>1 DEF OffQueued
  <2>2. ASSUME NEW h \in c.load + 1 .. c.off
        PROVE  (h \in PreQueued' => h \in OffQueued') /\ (h \in OffQueued' \/ h \in QkvPinned')
    <3>1. (h \in PreQueued => h \in OffQueued) /\ (h \in OffQueued \/ h \in QkvPinned)
      BY DEF Inv, OffloadInv
    <3>2. h < g + 3 /\ g < h + 3
      <4>1. c.load \in Int /\ c.off \in Int /\ c.off <= c.load + 2
        BY FewAhead
      <4> QED BY <1>6, <4>1, TwoAhead
    <3> QED BY <1>2, <1>7, <1>8, <1>10, <3>1, <3>2
  <2> QED BY <1>8, <2>1, <2>2 DEF Inv, OffloadInv
<1>14. CpuInv(c)'
  BY <1>2, <1>8 DEF Inv, CpuInv
<1>15. LoadInv(c)'
  BY <1>2 DEF Inv, LoadInv
<1>16. HiddenInv(c)'
  BY <1>2 DEF Inv, HiddenInv
<1>17. ColdInv(c)'
  BY <1>2 DEF Inv, ColdInv
<1>18. TaskInv(c)'
  BY <1>2 DEF Inv, TaskInv
<1>19. PinInv(c)'
  BY <1>2 DEF Inv, PinInv
<1>20. MarkInv(c)'
  BY <1>2 DEF Inv, MarkInv
<1>21. PageInv(c)'
  BY <1>2 DEF Inv, PageInv
<1> QED BY <1>11, <1>12, <1>13, <1>14, <1>15, <1>16, <1>17, <1>18, <1>19, <1>20, <1>21 DEF
        Inv

LEMMA ServeCpu ==
  ASSUME TypeInv, NEW c, Bounds(c), Inv(c),
         cpu_executor # <<>>,
         \A y \in Range(offload) : y.mb # Head(cpu_executor).mb,
         hidden_pin' = [hidden_pin EXCEPT ![Head(cpu_executor).mb] = qkv_pin[Head(cpu_executor).mb]],
         cpu_executor' = Tail(cpu_executor),
         UNCHANGED <<cur, offload, load, prefetch, cold, copy_executor, gpu_page, first_page,
                     pages, pin, qkv_pin, hidden_states>>
  PROVE  TypeInv' /\ Inv(c)'
<1> /\ \A n : Page(n)' = Page(n)
    /\ \A h : Its_copy(h)' = Its_copy(h)
  BY SameCopies
<1> DEFINE x == Head(cpu_executor)
<1>1. /\ c.pre \in Int /\ c.off \in Int /\ c.cpu \in Int /\ c.pin \in Int /\ c.load \in Int
      /\ c.fetch \in Int /\ c.post \in Int
      /\ -1 <= c.post /\ c.post <= c.fetch /\ c.fetch <= c.load /\ c.load <= c.pin
      /\ c.pin <= c.cpu /\ c.cpu <= c.off /\ c.off <= c.pre
      /\ c.load <= c.post + 1 /\ c.pre <= c.post + 2
  BY DEF Bounds
<1>2. /\ PreQueued' = PreQueued /\ PostQueued' = PostQueued /\ OffQueued' = OffQueued
      /\ LoadQueued' = LoadQueued /\ CopyQueued' = CopyQueued
      /\ (PageWaits' <=> PageWaits) /\ ColdCopies' = ColdCopies
      /\ ToPinQueued' = ToPinQueued /\ (PageCold' <=> PageCold)
      /\ TaskQueued' = TaskQueued /\ SlotPaged' = SlotPaged
      /\ (PagesApart' <=> PagesApart) /\ SlotPinned' = SlotPinned
      /\ QkvPinned' = QkvPinned /\ HiddenBack' = HiddenBack
  BY SameCur, SameOffload, SameLoad, SamePrefetch, SameCold, SameTasks, SamePages,
     SamePin, SameQkv, SameBack
<1>3. x \in Work /\ cpu_executor' \in Seq(Work) /\ Range(cpu_executor) = {x} \cup Range(cpu_executor')
  BY DequeueAny DEF TypeInv
<1>4. PICK g \in CpuQueued : x = Its("cpu_attention", g)
  BY <1>3 DEF Inv, CpuInv
<1>5. g \in Int /\ x.mb = SlotAt(g) /\ SlotAt(g) \in MicroBatchIds /\ LayerAt(g) \in Int
  BY <1>4, ItsFields, TurnParts DEF CpuQueued
<1>6. g \in c.load + 1 .. c.cpu /\ g \in c.load + 1 .. c.off
  <2>1. g \in c.load + 1 .. c.cpu
    BY DEF Inv, CpuInv
  <2> QED BY <1>1, <2>1
<1>7. g \notin OffQueued /\ g \notin PreQueued /\ g \in QkvPinned
  <2>1. Its("offload_qkv", g).mb = SlotAt(g)
    BY <1>5, ItsFields
  <2>2. g \notin OffQueued
    BY <1>5, <2>1 DEF OffQueued
  <2> QED BY <1>6, <2>2 DEF Inv, OffloadInv
<1>8. CpuQueued' \subseteq CpuQueued /\ \A h \in CpuQueued : h # g => h \in CpuQueued'
  <2>1. CpuQueued' \subseteq CpuQueued
    BY <1>3 DEF CpuQueued
  <2>2. ASSUME NEW h \in CpuQueued, h # g PROVE h \in CpuQueued'
    <3>1. h \in Int /\ Its("cpu_attention", h) \in Range(cpu_executor)
      BY DEF CpuQueued
    <3>2. Its("cpu_attention", h) # x
      BY <1>4, <1>5, <2>2, <3>1, TaskFields
    <3> QED BY <1>3, <3>1, <3>2 DEF CpuQueued
  <2> QED BY <2>1, <2>2
<1>9. /\ hidden_pin' = [hidden_pin EXCEPT ![SlotAt(g)] = LayerAt(g)]
      /\ hidden_pin \in [MicroBatchIds -> Int]
  BY <1>5, <1>7 DEF TypeInv, QkvPinned
<1> HIDE DEF x
<1>10. g \in HiddenPinned' /\ \A h \in HiddenPinned : h # g /\ h < g + 3 /\ g < h + 3 => h \in HiddenPinned'
  <2>1. g \in HiddenPinned'
    BY <1>5, <1>9 DEF HiddenPinned
  <2>2. ASSUME NEW h \in HiddenPinned, h # g, h < g + 3, g < h + 3 PROVE h \in HiddenPinned'
    <3>1. h \in Int /\ hidden_pin[SlotAt(h)] = LayerAt(h) /\ SlotAt(h) \in MicroBatchIds
      BY TurnParts DEF HiddenPinned
    <3>2. SlotAt(h) # SlotAt(g)
      BY <1>5, <2>2, <3>1, Neighbouring
    <3>3. hidden_pin'[SlotAt(h)] = LayerAt(h)
      BY <1>9, <3>1, <3>2
    <3> QED BY <3>1, <3>3 DEF HiddenPinned
  <2> QED BY <2>1, <2>2
<1>11. TypeInv'
  <2>1. hidden_pin' \in [MicroBatchIds -> Int]
    BY <1>5, <1>9
  <2> QED BY <1>3, <2>1 DEF TypeInv
<1>12. CurInv(c)'
  BY <1>2 DEF Inv, CurInv
<1>13. OffloadInv(c)'
  BY <1>2 DEF Inv, OffloadInv
<1>14. CpuInv(c)'
  <2>1. ASSUME NEW y \in Range(cpu_executor') PROVE \E h \in CpuQueued' : y = Its("cpu_attention", h)
    <3>1. \E h \in Int : y = Its("cpu_attention", h)
      BY <1>3 DEF Inv, CpuInv, CpuQueued
    <3> QED BY <3>1 DEF CpuQueued
  <2>2. ASSUME NEW h \in c.load + 1 .. c.cpu
        PROVE  (h \in OffQueued' => h \in CpuQueued') /\ (h \in CpuQueued' \/ h \in HiddenPinned')
    <3>1. (h \in OffQueued => h \in CpuQueued) /\ (h \in CpuQueued \/ h \in HiddenPinned)
      BY DEF Inv, CpuInv
    <3>2. h < g + 3 /\ g < h + 3
      <4>1. c.load \in Int /\ c.cpu \in Int /\ c.cpu <= c.load + 2
        BY FewAhead
      <4> QED BY <1>6, <4>1, TwoAhead
    <3> QED BY <1>2, <1>7, <1>8, <1>10, <3>1, <3>2
  <2> QED BY <1>8, <2>1, <2>2 DEF Inv, CpuInv
<1>15. LoadInv(c)'
  BY <1>2 DEF Inv, LoadInv
<1>16. HiddenInv(c)'
  <2>1. ASSUME NEW h \in LoadQueued PROVE h \in HiddenPinned'
    <3>1. h \in HiddenPinned /\ (h <= c.post => h \in PostQueued) /\ h \in c.load - 1 .. c.load
      BY DEF Inv, HiddenInv, LoadInv
    <3>2. g < h + 3
      <4>1. SUFFICES ASSUME h + 3 <= g PROVE FALSE
        <5>1. h \in Int /\ g \in Int
          BY <1>1, <1>5, <3>1
        <5> QED BY <5>1
      <4>2. h <= c.post /\ g \in h + 2 .. c.pre
        <5>1. h \in c.load - 1 .. c.load /\ g \in c.load + 1 .. c.cpu
          BY <1>6, <3>1
        <5> QED BY <4>1, <5>1, FarBehind
      <4>3. g \in PreQueued
        BY <3>1, <4>2 DEF Inv, CurInv
      <4> QED BY <1>7, <4>3
    <3>3. h # g /\ h < g + 3
      BY <1>1, <1>6, <3>1
    <3> QED BY <1>10, <3>1, <3>2, <3>3
  <2> QED BY <1>2, <2>1 DEF Inv, HiddenInv
<1>17. ColdInv(c)'
  BY <1>2 DEF Inv, ColdInv
<1>18. TaskInv(c)'
  BY <1>2 DEF Inv, TaskInv
<1>19. PinInv(c)'
  BY <1>2 DEF Inv, PinInv
<1>20. MarkInv(c)'
  BY <1>2 DEF Inv, MarkInv
<1>21. PageInv(c)'
  BY <1>2 DEF Inv, PageInv
<1> QED BY <1>11, <1>12, <1>13, <1>14, <1>15, <1>16, <1>17, <1>18, <1>19, <1>20, <1>21 DEF
        Inv

LEMMA ServeLoad ==
  ASSUME TypeInv, NEW c, Bounds(c), Inv(c),
         load # <<>>,
         Head(load).op = "load_hidden",
         hidden_states' = [hidden_states EXCEPT ![Head(load).mb] = hidden_pin[Head(load).mb]],
         load' = Tail(load),
         UNCHANGED <<cur, offload, prefetch, cold, cpu_executor, copy_executor,
                     gpu_page, first_page, pages, pin, qkv_pin, hidden_pin>>
  PROVE  TypeInv' /\ Inv(c)'
<1> /\ \A n : Page(n)' = Page(n)
    /\ \A h : Its_copy(h)' = Its_copy(h)
  BY SameCopies
<1> DEFINE x == Head(load)
<1>1. /\ c.pre \in Int /\ c.off \in Int /\ c.cpu \in Int /\ c.pin \in Int /\ c.load \in Int
      /\ c.fetch \in Int /\ c.post \in Int
      /\ -1 <= c.post /\ c.post <= c.fetch /\ c.fetch <= c.load /\ c.load <= c.pin
      /\ c.pin <= c.cpu /\ c.cpu <= c.off /\ c.off <= c.pre
      /\ c.load <= c.post + 1 /\ c.pre <= c.post + 2
  BY DEF Bounds
<1>2. /\ PreQueued' = PreQueued /\ PostQueued' = PostQueued /\ OffQueued' = OffQueued
      /\ (PageWaits' <=> PageWaits) /\ ColdCopies' = ColdCopies
      /\ ToPinQueued' = ToPinQueued /\ (PageCold' <=> PageCold) /\ CpuQueued' = CpuQueued
      /\ TaskQueued' = TaskQueued /\ SlotPaged' = SlotPaged
      /\ (PagesApart' <=> PagesApart) /\ SlotPinned' = SlotPinned
      /\ QkvPinned' = QkvPinned /\ HiddenPinned' = HiddenPinned
  BY SameCur, SameOffload, SamePrefetch, SameCold, SameCpu, SameTasks, SamePages, SamePin,
     SameQkv, SameHidden
<1>3. /\ x \in Work /\ load' \in Seq(Work) /\ Range(load) = {x} \cup Range(load')
      /\ Ordered(load', LoadOrder)
      /\ \A y \in Range(load') : LoadKey(x) < LoadKey(y)
  <2>1. load \in Seq(Work) /\ Ordered(load, LoadOrder)
    BY DEF TypeInv, Inv, LoadInv
  <2>2. /\ x \in Work /\ load' \in Seq(Work) /\ Range(load) = {x} \cup Range(load')
        /\ Ordered(load', LoadOrder)
        /\ \A y \in Range(load') : <<x, y>> \in LoadOrder
    BY <2>1, Dequeue
  <2> HIDE DEF x
  <2> QED BY <2>2 DEF LoadOrder
<1>4. PICK g \in LoadQueued : x = Its("load_hidden", g)
  <2>1. ASSUME NEW h \in CopyQueued PROVE x # Its_copy(h)
    BY CopyFields DEF CopyQueued
  <2> QED BY <1>3, <2>1 DEF Inv, LoadInv
<1>5. /\ g \in Int /\ x.mb = SlotAt(g) /\ SlotAt(g) \in MicroBatchIds /\ LayerAt(g) \in Int
      /\ g \in c.load - 1 .. c.load /\ g \in HiddenPinned
  BY <1>4, ItsFields, TurnParts DEF LoadQueued, Inv, LoadInv, HiddenInv
<1>6. /\ LoadQueued' \subseteq LoadQueued /\ \A h \in LoadQueued : h # g => h \in LoadQueued'
      /\ CopyQueued' = CopyQueued
  <2>1. LoadQueued' \subseteq LoadQueued
    BY <1>3 DEF LoadQueued
  <2>2. ASSUME NEW h \in LoadQueued, h # g PROVE h \in LoadQueued'
    <3>1. h \in Int /\ Its("load_hidden", h) \in Range(load)
      BY DEF LoadQueued
    <3>2. Its("load_hidden", h) # x
      BY <1>4, <1>5, <2>2, <3>1, LoadFields
    <3> QED BY <1>3, <3>1, <3>2 DEF LoadQueued
  <2>3. CopyQueued' = CopyQueued
    <3>1. \A h \in Int : Its_copy(h) # x
      BY <1>4, <1>5, LoadFields
    <3> QED BY <1>3, <3>1 DEF CopyQueued
  <2> QED BY <2>1, <2>2, <2>3
<1>7. /\ hidden_states' = [hidden_states EXCEPT ![SlotAt(g)] = LayerAt(g)]
      /\ hidden_states \in [MicroBatchIds -> Int]
  BY <1>5 DEF TypeInv, HiddenPinned
<1> HIDE DEF x
<1>8. g \in HiddenBack' /\ \A h \in HiddenBack : h # g /\ h < g + 3 /\ g < h + 3 => h \in HiddenBack'
  <2>1. g \in HiddenBack'
    BY <1>5, <1>7 DEF HiddenBack
  <2>2. ASSUME NEW h \in HiddenBack, h # g, h < g + 3, g < h + 3 PROVE h \in HiddenBack'
    <3>1. h \in Int /\ hidden_states[SlotAt(h)] = LayerAt(h) /\ SlotAt(h) \in MicroBatchIds
      BY TurnParts DEF HiddenBack
    <3>2. SlotAt(h) # SlotAt(g)
      BY <1>5, <2>2, <3>1, Neighbouring
    <3>3. hidden_states'[SlotAt(h)] = LayerAt(h)
      BY <1>7, <3>1, <3>2
    <3> QED BY <3>1, <3>3 DEF HiddenBack
  <2> QED BY <2>1, <2>2
<1>9. TypeInv'
  <2>1. hidden_states' \in [MicroBatchIds -> Int]
    BY <1>5, <1>7
  <2> QED BY <1>3, <2>1 DEF TypeInv
<1>10. CurInv(c)'
  BY <1>2 DEF Inv, CurInv
<1>11. OffloadInv(c)'
  BY <1>2 DEF Inv, OffloadInv
<1>12. CpuInv(c)'
  BY <1>2 DEF Inv, CpuInv
<1>13. LoadInv(c)'
  <2>1. ASSUME NEW y \in Range(load')
        PROVE  \/ \E h \in LoadQueued' : y = Its("load_hidden", h)
               \/ \E h \in CopyQueued' : y = Its_copy(h)
    <3>1. \/ \E h \in Int : y = Its("load_hidden", h)
          \/ \E h \in Int : y = Its_copy(h)
      BY <1>3 DEF Inv, LoadInv, LoadQueued, CopyQueued
    <3> QED BY <3>1 DEF LoadQueued, CopyQueued
  <2>2. ASSUME NEW h \in CopyQueued, NEW i \in h + 1 .. c.load PROVE i \in LoadQueued'
    <3>1. h \in Int /\ Its_copy(h) \in Range(load')
      BY <1>6 DEF CopyQueued
    <3>2. LoadKey(x) < LoadKey(Its_copy(h)) /\ LoadKey(x) = 2 * g /\ LoadKey(Its_copy(h)) = 2 * h + 1
      BY <1>3, <1>4, <1>5, <3>1, LoadFields
    <3>3. i # g
      BY <1>1, <1>5, <3>1, <3>2
    <3>4. i \in LoadQueued
      BY DEF Inv, LoadInv
    <3> QED BY <1>6, <3>3, <3>4
  <2> QED BY <1>3, <1>6, <2>1, <2>2 DEF Inv, LoadInv
<1>14. HiddenInv(c)'
  <2>1. ASSUME NEW h \in c.load - 1 .. c.load PROVE h \in LoadQueued' \/ h \in HiddenBack'
    <3>1. h < g + 3 /\ g < h + 3
      <4>1. c.load \in Int
        BY DEF Bounds
      <4>2. g \in c.load - 1 .. c.load
        BY <1>5
      <4> QED BY <4>1, <4>2
    <3>2. h \in LoadQueued \/ h \in HiddenBack
      BY DEF Inv, HiddenInv
    <3> QED BY <1>6, <1>8, <3>1, <3>2
  <2> QED BY <1>2, <1>6, <2>1 DEF Inv, HiddenInv
<1>15. ColdInv(c)'
  BY <1>2, <1>6 DEF Inv, ColdInv
<1>16. TaskInv(c)'
  BY <1>2 DEF Inv, TaskInv
<1>17. PinInv(c)'
  BY <1>2, <1>6 DEF Inv, PinInv
<1>18. MarkInv(c)'
  BY <1>2 DEF Inv, MarkInv
<1>19. PageInv(c)'
  BY <1>2, <1>6 DEF Inv, PageInv
<1> QED BY <1>9, <1>10, <1>11, <1>12, <1>13, <1>14, <1>15, <1>16, <1>17, <1>18, <1>19 DEF
        Inv

\* What the copy at the head of both streams brings is in its slot of the pin.
LEMMA PinReady ==
  ASSUME TypeInv, NEW c, Bounds(c), Inv(c),
         load # <<>>, cold # <<>>, Head(load) = Head(cold)
  PROVE  \E g \in CopyQueued : Head(load) = Its_copy(g) /\ g \in SlotPinned
<1> DEFINE x == Head(load)
           rest == Tail(cold)
<1>1. x \in Range(load) /\ load \in Seq(Work)
  BY DequeueAny DEF TypeInv
<1>2. x \in Range(cold) /\ Range(cold) = {x} \cup Range(rest) /\ \A y \in Range(rest) : <<x, y>> \in ColdOrder
  <2>1. cold \in Seq(Work) /\ Ordered(cold, ColdOrder) /\ x = Head(cold) /\ rest = Tail(cold)
    BY DEF TypeInv, Inv, ColdInv
  <2> HIDE DEF x, rest
  <2>2. Range(cold) = {x} \cup Range(rest) /\ \A y \in Range(rest) : <<x, y>> \in ColdOrder
    BY <2>1, Dequeue
  <2> QED BY <2>2
<1> HIDE DEF x, rest
<1>3. x.op \in {"load_hidden", "prefetch"}
  <2>1. \A h \in Int : Its("load_hidden", h).op = "load_hidden" /\ Its_copy(h).op = "prefetch"
    BY ItsFields, CopyFields
  <2> QED BY <1>1, <2>1 DEF Inv, LoadInv, LoadQueued, CopyQueued
<1>4. PICK g \in CopyQueued : x = Its_copy(g)
  <2>1. PageOp.op = "page" /\ \A h \in Int : Its_to_pin(h).op = "to_pin"
    BY PageFields, ToPinFields
  <2> QED BY <1>2, <1>3, <2>1 DEF Inv, ColdInv, ToPinQueued
<1>5. g \in Int /\ x.op = "prefetch" /\ TurnOf(x) = g
  BY <1>4, CopyFields DEF CopyQueued
<1>6. g \notin ToPinQueued
  <2>1. SUFFICES ASSUME g \in ToPinQueued PROVE FALSE
    OBVIOUS
  <2>2. Its_to_pin(g).op = "to_pin" /\ TurnOf(Its_to_pin(g)) = g /\ Its_to_pin(g) \in Range(cold)
    BY <1>5, <2>1, ToPinFields DEF ToPinQueued
  <2>3. <<x, Its_to_pin(g)>> \in ColdOrder
    BY <1>2, <1>5, <2>2
  <2>4. ColdBefore(x, Its_to_pin(g))
    BY <2>3 DEF ColdOrder
  <2>5. g < g
    BY <1>5, <2>2, <2>4 DEF ColdBefore
  <2> QED BY <1>5, <2>5
<1>7. g \notin TaskQueued
  <2>1. g \in c.load - 2 .. c.fetch /\ TaskQueued \subseteq c.fetch + 1 .. c.pin
    BY DEF Inv, LoadInv, TaskInv
  <2>2. c.load \in Int /\ c.fetch \in Int /\ c.pin \in Int
    BY DEF Bounds
  <2> QED BY <2>1, <2>2
<1>8. g \in SlotPinned
  BY <1>6, <1>7 DEF Inv, PinInv
<1> QED BY <1>4, <1>8 DEF x

\* A step fills slot k of page p for layer v.
Fills(p, k, v) == pages' = [pages EXCEPT ![p][k] = v]

LEMMA PageFilled ==
  ASSUME pages \in [{0, 1} -> [MicroBatchIds -> Int]], NEW p \in {0, 1}, NEW k \in MicroBatchIds,
         NEW v \in Int, Fills(p, k, v)
  PROVE  /\ pages' \in [{0, 1} -> [MicroBatchIds -> Int]]
         /\ \A r \in {0, 1} : \A l \in MicroBatchIds :
              pages'[r][l] = IF r = p /\ l = k THEN v ELSE pages[r][l]
BY DEF Fills

LEMMA ServeCopy ==
  ASSUME TypeInv, NEW c, Bounds(c), Inv(c),
         load # <<>>, cold # <<>>,
         Head(load) = Head(cold),
         pages' = [pages EXCEPT ![Head(load).page][Head(load).mb] = pin[Head(load).mb]],
         load' = Tail(load),
         cold' = Tail(cold),
         UNCHANGED <<cur, offload, prefetch, cpu_executor, copy_executor,
                     gpu_page, first_page, pin, qkv_pin, hidden_pin, hidden_states>>
  PROVE  TypeInv' /\ Inv(c)'
<1> /\ \A n : Page(n)' = Page(n)
    /\ \A h : Its_copy(h)' = Its_copy(h)
  BY SameCopies
<1> DEFINE x == Head(load)
<1>1. /\ c.pre \in Int /\ c.off \in Int /\ c.cpu \in Int /\ c.pin \in Int /\ c.load \in Int
      /\ c.fetch \in Int /\ c.post \in Int
      /\ -1 <= c.post /\ c.post <= c.fetch /\ c.fetch <= c.load /\ c.load <= c.pin
      /\ c.pin <= c.cpu /\ c.cpu <= c.off /\ c.off <= c.pre
      /\ c.load <= c.post + 1 /\ c.pre <= c.post + 2
  BY DEF Bounds
<1>2. /\ PreQueued' = PreQueued /\ PostQueued' = PostQueued /\ OffQueued' = OffQueued
      /\ (PageWaits' <=> PageWaits) /\ CpuQueued' = CpuQueued /\ TaskQueued' = TaskQueued
      /\ SlotPinned' = SlotPinned /\ QkvPinned' = QkvPinned
      /\ HiddenPinned' = HiddenPinned /\ HiddenBack' = HiddenBack
  BY SameCur, SameOffload, SamePrefetch, SameCpu, SameTasks, SamePin, SameQkv, SameHidden,
     SameBack
<1>3. /\ x \in Work /\ load' \in Seq(Work) /\ Range(load) = {x} \cup Range(load')
      /\ Ordered(load', LoadOrder)
      /\ \A y \in Range(load') : LoadKey(x) < LoadKey(y)
  <2>1. load \in Seq(Work) /\ Ordered(load, LoadOrder)
    BY DEF TypeInv, Inv, LoadInv
  <2>2. /\ x \in Work /\ load' \in Seq(Work) /\ Range(load) = {x} \cup Range(load')
        /\ Ordered(load', LoadOrder)
        /\ \A y \in Range(load') : <<x, y>> \in LoadOrder
    BY <2>1, Dequeue
  <2> HIDE DEF x
  <2> QED BY <2>2 DEF LoadOrder
<1>4. /\ cold' \in Seq(Work) /\ Range(cold) = {x} \cup Range(cold')
      /\ Ordered(cold', ColdOrder)
      /\ \A y \in Range(cold') : ColdBefore(x, y)
  <2>1. cold \in Seq(Work) /\ Ordered(cold, ColdOrder)
    BY DEF TypeInv, Inv, ColdInv
  <2>2. /\ cold' \in Seq(Work) /\ Range(cold) = {x} \cup Range(cold')
        /\ Ordered(cold', ColdOrder)
        /\ \A y \in Range(cold') : <<x, y>> \in ColdOrder
    BY <2>1, Dequeue
  <2> HIDE DEF x
  <2> QED BY <2>2 DEF ColdOrder
<1>5. PICK g \in CopyQueued : x = Its_copy(g) /\ g \in SlotPinned
  BY PinReady
<1>6. /\ g \in Int /\ g >= 0 /\ g <= c.fetch /\ x.op = "prefetch" /\ TurnOf(x) = g /\ LoadKey(x) = 2 * g + 1
      /\ x.mb = SlotAt(g) /\ x.page = Page(LayerAt(g) + 1)
      /\ SlotAt(g) \in MicroBatchIds /\ LayerAt(g) \in Int
  <2>1. g \in Int /\ g >= 0 /\ g \in c.load - 2 .. c.fetch
    BY DEF CopyQueued, Inv, LoadInv
  <2>2. g <= c.fetch
    BY <1>1, <2>1
  <2> QED BY <1>5, <2>1, <2>2, CopyFields, LoadFields, TurnParts
<1>7. pages' = [pages EXCEPT ![Page(LayerAt(g) + 1)][SlotAt(g)] = LayerAt(g) + 1]
  BY <1>5, <1>6 DEF SlotPinned
<1> HIDE DEF x
<1>8. ASSUME NEW h \in CopyQueued' PROVE h \in CopyQueued /\ h \in Int /\ g < h
  <2>1. h \in Int /\ Its_copy(h) \in Range(load')
    BY DEF CopyQueued
  <2>2. h \in CopyQueued
    BY <1>3, <2>1 DEF CopyQueued
  <2>3. LoadKey(x) < LoadKey(Its_copy(h)) /\ LoadKey(Its_copy(h)) = 2 * h + 1
    BY <1>3, <2>1, LoadFields
  <2> QED BY <1>6, <2>1, <2>2, <2>3
<1>9. ASSUME NEW h \in CopyQueued, h # g PROVE h \in CopyQueued'
  <2>1. h \in Int /\ Its_copy(h) \in Range(load)
    BY DEF CopyQueued
  <2>2. Its_copy(h) # x
    BY <1>5, <1>6, <1>9, <2>1, LoadFields
  <2> QED BY <1>3, <2>1, <2>2 DEF CopyQueued
<1>10. LoadQueued' = LoadQueued
  <2>1. \A h \in Int : Its("load_hidden", h) # x
    BY <1>5, <1>6, LoadFields
  <2> QED BY <1>3, <2>1 DEF LoadQueued
<1>11. ColdCopies' = CopyQueued'
  <2>1. ASSUME NEW h \in ColdCopies' PROVE h \in CopyQueued'
    <3>1. h \in Int /\ Its_copy(h) \in Range(cold')
      BY DEF ColdCopies
    <3>2. h \in CopyQueued
      BY <1>4, <3>1 DEF Inv, ColdInv, ColdCopies
    <3>3. ColdBefore(x, Its_copy(h)) /\ Its_copy(h).op = "prefetch" /\ TurnOf(Its_copy(h)) = h
      BY <1>4, <3>1, CopyFields
    <3>4. h # g
      BY <1>6, <3>1, <3>3 DEF ColdBefore
    <3> QED BY <1>9, <3>2, <3>4
  <2>2. ASSUME NEW h \in CopyQueued' PROVE h \in ColdCopies'
    <3>1. h \in ColdCopies /\ h \in Int /\ h # g
      BY <1>6, <1>8 DEF Inv, ColdInv
    <3>2. Its_copy(h) # x
      BY <1>5, <1>6, <3>1, LoadFields
    <3> QED BY <1>4, <3>1, <3>2 DEF ColdCopies
  <2> QED BY <2>1, <2>2
<1>12. ToPinQueued' = ToPinQueued /\ (PageCold' <=> PageCold)
  <2>1. PageOp # x /\ \A h \in Int : Its_to_pin(h) # x
    BY <1>5, <1>6, ColdFields
  <2> QED BY <1>4, <2>1 DEF ToPinQueued, PageCold
<1>13. /\ pages' \in [{0, 1} -> [MicroBatchIds -> Int]]
       /\ \A r \in {0, 1} : \A l \in MicroBatchIds :
            pages'[r][l] = IF r = Page(LayerAt(g) + 1) /\ l = SlotAt(g) THEN LayerAt(g) + 1 ELSE pages[r][l]
  <2>1. Page(LayerAt(g) + 1) \in {0, 1} /\ LayerAt(g) + 1 \in Int
    <3>1. LayerAt(g) + 1 \in Int
      BY <1>6
    <3> QED BY <3>1, OtherPage
  <2>2. pages \in [{0, 1} -> [MicroBatchIds -> Int]] /\ SlotAt(g) \in MicroBatchIds
    BY <1>6 DEF TypeInv
  <2> DEFINE p == Page(LayerAt(g) + 1)
             v == LayerAt(g) + 1
  <2>3. p \in {0, 1} /\ v \in Int /\ Fills(p, SlotAt(g), v)
    BY <1>7, <2>1 DEF Fills
  <2> HIDE DEF p, v
  <2>4. /\ pages' \in [{0, 1} -> [MicroBatchIds -> Int]]
        /\ \A r \in {0, 1} : \A l \in MicroBatchIds :
             pages'[r][l] = IF r = p /\ l = SlotAt(g) THEN v ELSE pages[r][l]
    BY <2>2, <2>3, PageFilled
  <2> QED BY <2>4 DEF p, v
<1>14. TypeInv'
  BY <1>3, <1>4, <1>13 DEF TypeInv
<1>15. CurInv(c)'
  BY <1>2 DEF Inv, CurInv
<1>16. OffloadInv(c)'
  BY <1>2 DEF Inv, OffloadInv
<1>17. CpuInv(c)'
  BY <1>2 DEF Inv, CpuInv
<1>18. LoadInv(c)'
  <2>1. ASSUME NEW y \in Range(load')
        PROVE  \/ \E h \in LoadQueued' : y = Its("load_hidden", h)
               \/ \E h \in CopyQueued' : y = Its_copy(h)
    <3>1. \/ \E h \in Int : y = Its("load_hidden", h)
          \/ \E h \in Int : y = Its_copy(h)
      BY <1>3 DEF Inv, LoadInv, LoadQueued, CopyQueued
    <3> QED BY <3>1 DEF LoadQueued, CopyQueued
  <2>2. ASSUME NEW h \in CopyQueued', NEW i \in h + 1 .. c.fetch PROVE i \in CopyQueued'
    <3>1. h \in CopyQueued /\ h \in Int /\ g < h
      BY <1>8
    <3>2. i # g
      BY <1>1, <1>6, <3>1
    <3> QED BY <1>9, <3>1, <3>2 DEF Inv, LoadInv
  <2> QED BY <1>3, <1>8, <1>10, <2>1, <2>2 DEF Inv, LoadInv
<1>19. HiddenInv(c)'
  BY <1>2, <1>10 DEF Inv, HiddenInv
<1>20. ColdInv(c)'
  <2>1. ASSUME NEW y \in Range(cold')
        PROVE  \/ y = PageOp
               \/ \E h \in ToPinQueued' : y = Its_to_pin(h)
               \/ \E h \in ColdCopies' : y = Its_copy(h)
    <3>1. \/ y = PageOp
          \/ \E h \in Int : y = Its_to_pin(h)
          \/ \E h \in Int : y = Its_copy(h)
      BY <1>4 DEF Inv, ColdInv, ToPinQueued, ColdCopies
    <3> QED BY <3>1 DEF ToPinQueued, ColdCopies
  <2> QED BY <1>4, <1>11, <1>12, <2>1 DEF Inv, ColdInv
<1>21. TaskInv(c)'
  BY <1>2, <1>12 DEF Inv, TaskInv
<1>22. PinInv(c)'
  BY <1>2, <1>8, <1>12 DEF Inv, PinInv
<1>23. MarkInv(c)'
  <2>1. ASSUME ~PageWaits, NEW s \in MicroBatchIds PROVE pages'[first_page][s] >= 0
    <3>1. LayerAt(g) >= 0 /\ LayerAt(g) + 1 >= 0
      <4>1. LayerAt(g) >= 0 /\ LayerAt(g) \in Int
        BY <1>6, TurnZero
      <4> QED BY <4>1
    <3>2. pages[first_page][s] >= 0
      BY <2>1 DEF Inv, MarkInv
    <3> QED BY <1>13, <3>1, <3>2
  <2> QED BY <1>2, <1>12, <2>1 DEF Inv, MarkInv
<1>24. PageInv(c)'
  <2>1. ASSUME NEW h \in 0 .. c.fetch PROVE h \in CopyQueued' \cup SlotPaged'
    <3>1. h \in Int /\ LayerAt(h) \in Int /\ SlotAt(h) \in MicroBatchIds /\ Page(LayerAt(h) + 1) \in {0, 1}
      <4>1. h \in Int
        BY <1>1
      <4>2. LayerAt(h) \in Int /\ SlotAt(h) \in MicroBatchIds /\ LayerAt(h) + 1 \in Int
        BY <4>1, TurnParts
      <4> QED BY <4>1, <4>2, OtherPage
    <3>2. CASE h = g
      <4>1. pages'[Page(LayerAt(g) + 1)][SlotAt(g)] = LayerAt(g) + 1
        BY <1>13, <3>1, <3>2
      <4>2. LayerAt(g) + 1 >= LayerAt(g) + 1
        BY <1>6
      <4> QED BY <3>1, <3>2, <4>1, <4>2 DEF SlotPaged
    <3>3. CASE h # g /\ h \in CopyQueued
      BY <1>9, <3>3
    <3>4. CASE h # g /\ h \notin CopyQueued
      <4>1. h \in SlotPaged
        BY <3>4 DEF Inv, PageInv
      <4>2. h <= g
        <5>1. ~(h <= g) => h \in g + 1 .. c.fetch
          BY <1>1, <1>6, <3>1
        <5> QED BY <3>4, <5>1 DEF Inv, LoadInv
      <4>3. LayerAt(h) <= LayerAt(g)
        BY <1>6, <3>1, <4>2, LayersGrow
      <4>4. LayerAt(g) + 1 >= LayerAt(h) + 1
        BY <1>6, <3>1, <4>3
      <4>5. pages[Page(LayerAt(h) + 1)][SlotAt(h)] >= LayerAt(h) + 1
        BY <4>1 DEF SlotPaged
      <4>6. pages'[Page(LayerAt(h) + 1)][SlotAt(h)] >= LayerAt(h) + 1
        BY <1>13, <3>1, <4>4, <4>5
      <4> QED BY <3>1, <4>6 DEF SlotPaged
    <3> QED BY <3>2, <3>3, <3>4
  <2>2. gpu_page' = gpu_page
    OBVIOUS
  <2>3. ASSUME NEW p \in {0, 1}, NEW k \in MicroBatchIds, pages'[p][k] >= 0
        PROVE  p = Page(pages'[p][k])
    <3>1. pages[p][k] >= 0 => p = Page(pages[p][k])
      BY DEF Inv, PageInv, PagesApart
    <3> QED BY <1>13, <2>3, <3>1
  <2>4. PagesApart'
    BY <2>3 DEF PagesApart
  <2> QED BY <2>1, <2>2, <2>4 DEF Inv, PageInv
<1> QED BY <1>14, <1>15, <1>16, <1>17, <1>18, <1>19, <1>20, <1>21, <1>22, <1>23, <1>24 DEF
        Inv

LEMMA ServePage ==
  ASSUME TypeInv, NEW c, Bounds(c), Inv(c),
         prefetch # <<>>, cold # <<>>,
         Head(prefetch) = Head(cold),
         pages' = [pages EXCEPT ![first_page] = [s \in MicroBatchIds |-> 0]],
         prefetch' = Tail(prefetch),
         cold' = Tail(cold),
         UNCHANGED <<cur, offload, load, cpu_executor, copy_executor, gpu_page, first_page,
                     pin, qkv_pin, hidden_pin, hidden_states>>
  PROVE  TypeInv' /\ Inv(c)'
<1> /\ \A n : Page(n)' = Page(n)
    /\ \A h : Its_copy(h)' = Its_copy(h)
  BY SameCopies
<1> DEFINE x == Head(prefetch)
<1>1. /\ c.pre \in Int /\ c.off \in Int /\ c.cpu \in Int /\ c.pin \in Int /\ c.load \in Int
      /\ c.fetch \in Int /\ c.post \in Int
      /\ -1 <= c.post /\ c.post <= c.fetch /\ c.fetch <= c.load /\ c.load <= c.pin
      /\ c.pin <= c.cpu /\ c.cpu <= c.off /\ c.off <= c.pre
      /\ c.load <= c.post + 1 /\ c.pre <= c.post + 2
  BY DEF Bounds
<1>2. /\ PreQueued' = PreQueued /\ PostQueued' = PostQueued /\ OffQueued' = OffQueued
      /\ LoadQueued' = LoadQueued /\ CopyQueued' = CopyQueued /\ CpuQueued' = CpuQueued
      /\ TaskQueued' = TaskQueued /\ SlotPinned' = SlotPinned /\ QkvPinned' = QkvPinned
      /\ HiddenPinned' = HiddenPinned /\ HiddenBack' = HiddenBack
  BY SameCur, SameOffload, SameLoad, SameCpu, SameTasks, SamePin, SameQkv, SameHidden,
     SameBack
<1>3. /\ prefetch' \in Seq(Work) /\ Range(prefetch) = {x} \cup Range(prefetch')
      /\ Ordered(prefetch', MarkOrder)
      /\ \A y \in Range(prefetch') : y # PageOp
  <2>1. prefetch \in Seq(Work) /\ Ordered(prefetch, MarkOrder)
    BY DEF TypeInv, Inv, MarkInv
  <2>2. /\ prefetch' \in Seq(Work) /\ Range(prefetch) = {x} \cup Range(prefetch')
        /\ Ordered(prefetch', MarkOrder)
        /\ \A y \in Range(prefetch') : <<x, y>> \in MarkOrder
    BY <2>1, Dequeue
  <2> HIDE DEF x
  <2> QED BY <2>2 DEF MarkOrder
<1>4. /\ cold' \in Seq(Work) /\ Range(cold) = {x} \cup Range(cold')
      /\ Ordered(cold', ColdOrder)
      /\ \A y \in Range(cold') : ColdBefore(x, y)
  <2>1. cold \in Seq(Work) /\ Ordered(cold, ColdOrder)
    BY DEF TypeInv, Inv, ColdInv
  <2>2. /\ cold' \in Seq(Work) /\ Range(cold) = {x} \cup Range(cold')
        /\ Ordered(cold', ColdOrder)
        /\ \A y \in Range(cold') : <<x, y>> \in ColdOrder
    BY <2>1, Dequeue
  <2> HIDE DEF x
  <2> QED BY <2>2 DEF ColdOrder
<1> HIDE DEF x
<1>5. x = PageOp
  <2>1. x = PageOp \/ x.op = "record"
    BY <1>3 DEF Inv, MarkInv
  <2>2. \A h \in Int : Its_to_pin(h).op = "to_pin" /\ Its_copy(h).op = "prefetch"
    BY ToPinFields, CopyFields
  <2> QED BY <1>4, <2>1, <2>2 DEF Inv, ColdInv, ToPinQueued, ColdCopies
<1>6. c.fetch = -1
  BY <1>3, <1>5 DEF Inv, MarkInv, PageWaits
<1>7. ~PageWaits' /\ ~PageCold'
  <2>1. ~PageWaits'
    BY <1>3 DEF PageWaits
  <2>2. ~PageCold'
    BY <1>4 DEF PageCold, ColdBefore
  <2> QED BY <2>1, <2>2
<1>8. ToPinQueued' = ToPinQueued /\ ColdCopies' = ColdCopies
  <2>1. \A h \in Int : Its_to_pin(h) # x /\ Its_copy(h) # x
    BY <1>5, ColdFields
  <2> QED BY <1>4, <2>1 DEF ToPinQueued, ColdCopies
<1>9. /\ pages' \in [{0, 1} -> [MicroBatchIds -> Int]]
      /\ \A s \in MicroBatchIds : pages'[first_page][s] = 0
  <2>1. [s \in MicroBatchIds |-> 0] \in [MicroBatchIds -> Int]
    OBVIOUS
  <2> QED BY <2>1 DEF TypeInv
<1>10. TypeInv'
  BY <1>3, <1>4, <1>9 DEF TypeInv
<1>11. CurInv(c)'
  BY <1>2 DEF Inv, CurInv
<1>12. OffloadInv(c)'
  BY <1>2 DEF Inv, OffloadInv
<1>13. CpuInv(c)'
  BY <1>2 DEF Inv, CpuInv
<1>14. LoadInv(c)'
  BY <1>2 DEF Inv, LoadInv
<1>15. HiddenInv(c)'
  BY <1>2 DEF Inv, HiddenInv
<1>16. ColdInv(c)'
  <2>1. \A y \in Range(cold') : \/ y = PageOp
                                \/ \E h \in ToPinQueued' : y = Its_to_pin(h)
                                \/ \E h \in ColdCopies' : y = Its_copy(h)
    BY <1>4, <1>8 DEF Inv, ColdInv
  <2> QED BY <1>2, <1>4, <1>8, <2>1 DEF Inv, ColdInv
<1>17. TaskInv(c)'
  BY <1>2, <1>8 DEF Inv, TaskInv
<1>18. PinInv(c)'
  BY <1>2, <1>8 DEF Inv, PinInv
<1>19. MarkInv(c)'
  <2>1. \A s \in MicroBatchIds : pages'[first_page][s] >= 0
    BY <1>9
  <2>2. \A y \in Range(prefetch') : y = PageOp \/ y.op = "record"
    BY <1>3 DEF Inv, MarkInv
  <2> QED BY <1>3, <1>7, <2>1, <2>2 DEF MarkInv
<1>20. PageInv(c)'
  <2>1. \A h \in 0 .. c.fetch : FALSE
    BY <1>6
  <2>2. gpu_page' = gpu_page
    OBVIOUS
  <2>3. ASSUME NEW p \in {0, 1}, NEW k \in MicroBatchIds, pages'[p][k] >= 0
        PROVE  p = Page(pages'[p][k])
    <3>1. pages[p][k] >= 0 => p = Page(pages[p][k])
      BY DEF Inv, PageInv, PagesApart
    <3>2. CASE p = first_page
      <4>1. Page(0) = first_page
        BY FirstPage DEF TypeInv
      <4> QED BY <1>9, <3>2, <4>1
    <3>3. CASE p # first_page
      <4>1. pages'[p] = pages[p]
        BY <3>3 DEF TypeInv
      <4> QED BY <2>3, <3>1, <4>1
    <3> QED BY <3>2, <3>3
  <2>4. PagesApart'
    BY <2>3 DEF PagesApart
  <2> QED BY <2>1, <2>2, <2>4 DEF Inv, PageInv
<1> QED BY <1>10, <1>11, <1>12, <1>13, <1>14, <1>15, <1>16, <1>17, <1>18, <1>19, <1>20 DEF
        Inv

\* The copies to the pin are at most two turns ahead of the copies to a page.
LEMMA PinAhead ==
  ASSUME NEW c, Bounds(c), NEW h \in c.fetch + 1 .. c.pin, NEW g \in Int, g <= c.pin
  PROVE  ~(h + num_mb <= g)
<1>1. c.fetch \in Int /\ c.pin \in Int /\ c.pin <= c.fetch + 2
  BY DEF Bounds
<1>2. num_mb \in Int /\ num_mb >= 3 /\ h \in Int /\ h >= c.fetch + 1
  BY <1>1, Sizes
<1> QED BY <1>1, <1>2

LEMMA ServeCold ==
  ASSUME TypeInv, NEW c, Bounds(c), Inv(c),
         cold # <<>>,
         Head(cold).op = "to_pin",
         pin' = [pin EXCEPT ![Head(cold).mb] = Head(cold).layer],
         cold' = Tail(cold),
         UNCHANGED <<cur, offload, load, prefetch, cpu_executor, copy_executor,
                     gpu_page, first_page, pages, qkv_pin, hidden_pin, hidden_states>>
  PROVE  TypeInv' /\ Inv(c)'
<1> /\ \A n : Page(n)' = Page(n)
    /\ \A h : Its_copy(h)' = Its_copy(h)
  BY SameCopies
<1> DEFINE x == Head(cold)
<1>1. /\ c.pre \in Int /\ c.off \in Int /\ c.cpu \in Int /\ c.pin \in Int /\ c.load \in Int
      /\ c.fetch \in Int /\ c.post \in Int
      /\ -1 <= c.post /\ c.post <= c.fetch /\ c.fetch <= c.load /\ c.load <= c.pin
      /\ c.pin <= c.cpu /\ c.cpu <= c.off /\ c.off <= c.pre
      /\ c.load <= c.post + 1 /\ c.pre <= c.post + 2
  BY DEF Bounds
<1>2. /\ PreQueued' = PreQueued /\ PostQueued' = PostQueued /\ OffQueued' = OffQueued
      /\ LoadQueued' = LoadQueued /\ CopyQueued' = CopyQueued
      /\ (PageWaits' <=> PageWaits) /\ CpuQueued' = CpuQueued /\ TaskQueued' = TaskQueued
      /\ SlotPaged' = SlotPaged
      /\ (PagesApart' <=> PagesApart) /\ QkvPinned' = QkvPinned /\ HiddenPinned' = HiddenPinned
      /\ HiddenBack' = HiddenBack
  BY SameCur, SameOffload, SameLoad, SamePrefetch, SameCpu, SameTasks, SamePages, SameQkv,
     SameHidden, SameBack
<1>3. /\ cold' \in Seq(Work) /\ Range(cold) = {x} \cup Range(cold')
      /\ Ordered(cold', ColdOrder)
      /\ \A y \in Range(cold') : ColdBefore(x, y)
  <2>1. cold \in Seq(Work) /\ Ordered(cold, ColdOrder)
    BY DEF TypeInv, Inv, ColdInv
  <2>2. /\ cold' \in Seq(Work) /\ Range(cold) = {x} \cup Range(cold')
        /\ Ordered(cold', ColdOrder)
        /\ \A y \in Range(cold') : <<x, y>> \in ColdOrder
    BY <2>1, Dequeue
  <2> HIDE DEF x
  <2> QED BY <2>2 DEF ColdOrder
<1>4. PICK g \in ToPinQueued : x = Its_to_pin(g)
  <2>1. PageOp.op = "page" /\ \A h \in Int : Its_copy(h).op = "prefetch"
    BY PageFields, CopyFields
  <2> QED BY <1>3, <2>1 DEF Inv, ColdInv, ColdCopies
<1>5. /\ g \in Int /\ g \in 0 .. c.pin /\ x.op = "to_pin" /\ TurnOf(x) = g
      /\ x.mb = SlotAt(g) /\ x.layer = LayerAt(g) + 1
      /\ SlotAt(g) \in MicroBatchIds /\ LayerAt(g) \in Int /\ LayerAt(g) + 1 \in Int
  <2>1. g \in Int /\ g \in 0 .. c.pin
    BY DEF ToPinQueued, Inv, ColdInv
  <2>2. LayerAt(g) \in Int /\ SlotAt(g) \in MicroBatchIds
    BY <2>1, TurnParts
  <2> QED BY <1>4, <2>1, <2>2, ToPinFields
<1>6. pin' = [pin EXCEPT ![SlotAt(g)] = LayerAt(g) + 1] /\ pin \in [MicroBatchIds -> Int]
  BY <1>5 DEF TypeInv
<1> HIDE DEF x
<1>7. ASSUME NEW h \in ToPinQueued' PROVE h \in ToPinQueued /\ h \in Int /\ g < h
  <2>1. h \in Int /\ Its_to_pin(h) \in Range(cold')
    BY DEF ToPinQueued
  <2>2. Its_to_pin(h).op = "to_pin" /\ TurnOf(Its_to_pin(h)) = h
    BY <2>1, ToPinFields
  <2>3. ColdBefore(x, Its_to_pin(h))
    BY <1>3, <2>1
  <2> QED BY <1>3, <1>5, <2>1, <2>2, <2>3 DEF ToPinQueued, ColdBefore
<1>8. ASSUME NEW h \in ToPinQueued, h # g PROVE h \in ToPinQueued'
  <2>1. h \in Int /\ Its_to_pin(h) \in Range(cold)
    BY DEF ToPinQueued
  <2>2. Its_to_pin(h) # x
    BY <1>4, <1>5, <1>8, <2>1, ColdFields
  <2> QED BY <1>3, <2>1, <2>2 DEF ToPinQueued
<1>9. ColdCopies' = ColdCopies /\ (PageCold' <=> PageCold)
  <2>1. PageOp # x /\ \A h \in Int : Its_copy(h) # x
    BY <1>4, <1>5, ColdFields
  <2> QED BY <1>3, <2>1 DEF ColdCopies, PageCold
<1>10. g \in SlotPinned' /\ \A h \in SlotPinned : SlotAt(h) # SlotAt(g) => h \in SlotPinned'
  <2>1. g \in SlotPinned'
    BY <1>5, <1>6 DEF SlotPinned
  <2>2. ASSUME NEW h \in SlotPinned, SlotAt(h) # SlotAt(g) PROVE h \in SlotPinned'
    <3>1. h \in Int /\ pin[SlotAt(h)] = LayerAt(h) + 1 /\ SlotAt(h) \in MicroBatchIds
      BY TurnParts DEF SlotPinned
    <3>2. pin'[SlotAt(h)] = LayerAt(h) + 1
      BY <1>6, <2>2, <3>1
    <3> QED BY <3>1, <3>2 DEF SlotPinned
  <2> QED BY <2>1, <2>2
<1>11. TypeInv'
  <2>1. pin' \in [MicroBatchIds -> Int]
    BY <1>5, <1>6
  <2> QED BY <1>3, <2>1 DEF TypeInv
<1>12. CurInv(c)'
  BY <1>2 DEF Inv, CurInv
<1>13. OffloadInv(c)'
  BY <1>2 DEF Inv, OffloadInv
<1>14. CpuInv(c)'
  BY <1>2 DEF Inv, CpuInv
<1>15. LoadInv(c)'
  BY <1>2 DEF Inv, LoadInv
<1>16. HiddenInv(c)'
  BY <1>2 DEF Inv, HiddenInv
<1>17. ColdInv(c)'
  <2>1. ASSUME NEW y \in Range(cold')
        PROVE  \/ y = PageOp
               \/ \E h \in ToPinQueued' : y = Its_to_pin(h)
               \/ \E h \in ColdCopies' : y = Its_copy(h)
    <3>1. \/ y = PageOp
          \/ \E h \in Int : y = Its_to_pin(h)
          \/ \E h \in Int : y = Its_copy(h)
      BY <1>3 DEF Inv, ColdInv, ToPinQueued, ColdCopies
    <3> QED BY <3>1 DEF ToPinQueued, ColdCopies
  <2> QED BY <1>2, <1>3, <1>7, <1>9, <2>1 DEF Inv, ColdInv
<1>18. TaskInv(c)'
  <2>1. ASSUME NEW h \in ToPinQueued' \cup TaskQueued PROVE h .. c.pin \subseteq ToPinQueued' \cup TaskQueued
    <3>1. h \in Int /\ g < h /\ h \in ToPinQueued \cup TaskQueued
      <4>1. \A i \in TaskQueued : i \in Int
        BY DEF TaskQueued
      <4> QED BY <1>7, <4>1 DEF Inv, TaskInv
    <3>2. h .. c.pin \subseteq ToPinQueued \cup TaskQueued
      BY <3>1 DEF Inv, TaskInv
    <3>3. \A i \in h .. c.pin : i # g
      BY <1>1, <1>5, <3>1
    <3> QED BY <1>8, <3>2, <3>3
  <2>2. \A h \in ToPinQueued' : \A i \in TaskQueued : h < i
    BY <1>7 DEF Inv, TaskInv
  <2> QED BY <1>2, <2>1, <2>2 DEF Inv, TaskInv
<1>19. PinInv(c)'
  <2>1. ASSUME NEW h \in CopyQueued \cup (c.fetch + 1 .. c.pin)
        PROVE  h \in ToPinQueued' \cup TaskQueued \cup SlotPinned'
    <3>1. h \in Int /\ h <= c.pin
      <4>1. CopyQueued \subseteq c.load - 2 .. c.fetch
        BY DEF Inv, LoadInv
      <4> QED BY <1>1, <4>1
    <3>2. CASE h = g
      BY <1>10, <3>2
    <3>3. CASE h # g /\ h \in ToPinQueued \cup TaskQueued
      BY <1>8, <3>3
    <3>4. CASE h # g /\ h \in SlotPinned /\ SlotAt(h) # SlotAt(g)
      BY <1>10, <3>4
    <3>5. CASE h # g /\ SlotAt(h) = SlotAt(g) /\ g < h
      <4>1. h \in g .. c.pin
        BY <1>1, <1>5, <3>1, <3>5
      <4>2. h \in ToPinQueued \cup TaskQueued
        BY <4>1 DEF Inv, TaskInv
      <4> QED BY <1>8, <3>5, <4>2
    <3>6. CASE h # g /\ SlotAt(h) = SlotAt(g) /\ ~(g < h)
      <4>1. h + num_mb <= g
        <5>1. h < g
          BY <1>5, <3>1, <3>6
        <5> QED BY <1>5, <3>1, <3>6, <5>1, SameSlot
      <4>2. h \notin c.fetch + 1 .. c.pin
        <5>1. g \in Int /\ g <= c.pin
          BY <1>1, <1>5
        <5> QED BY <4>1, <5>1, PinAhead
      <4>3. h \in ColdCopies /\ Its_copy(h) \in Range(cold')
        BY <1>9, <2>1, <4>2 DEF Inv, ColdInv, ColdCopies
      <4>4. ColdBefore(x, Its_copy(h)) /\ Its_copy(h).op = "prefetch" /\ TurnOf(Its_copy(h)) = h
        BY <1>3, <3>1, <4>3, CopyFields
      <4>5. g < h + num_mb
        BY <1>5, <4>4 DEF ColdBefore
      <4>6. num_mb \in Int
        BY Sizes
      <4> QED BY <1>5, <3>1, <4>1, <4>5, <4>6
    <3>7. h \in ToPinQueued \cup TaskQueued \cup SlotPinned
      BY DEF Inv, PinInv
    <3> QED BY <3>2, <3>3, <3>4, <3>5, <3>6, <3>7
  <2> QED BY <1>2, <2>1 DEF PinInv
<1>20. MarkInv(c)'
  BY <1>2, <1>9 DEF Inv, MarkInv
<1>21. PageInv(c)'
  BY <1>2 DEF Inv, PageInv
<1> QED BY <1>11, <1>12, <1>13, <1>14, <1>15, <1>16, <1>17, <1>18, <1>19, <1>20, <1>21 DEF
        Inv

LEMMA ServeMark ==
  ASSUME TypeInv, NEW c, Bounds(c), Inv(c),
         prefetch # <<>>,
         Head(prefetch).op = "record",
         prefetch' = Tail(prefetch),
         UNCHANGED <<cur, offload, load, cold, cpu_executor, copy_executor,
                     gpu_page, first_page, pages, pin, qkv_pin, hidden_pin, hidden_states>>
  PROVE  TypeInv' /\ Inv(c)'
<1> /\ \A n : Page(n)' = Page(n)
    /\ \A h : Its_copy(h)' = Its_copy(h)
  BY SameCopies
<1> DEFINE x == Head(prefetch)
<1>1. /\ PreQueued' = PreQueued /\ PostQueued' = PostQueued /\ OffQueued' = OffQueued
      /\ LoadQueued' = LoadQueued /\ CopyQueued' = CopyQueued /\ ColdCopies' = ColdCopies
      /\ ToPinQueued' = ToPinQueued /\ (PageCold' <=> PageCold) /\ CpuQueued' = CpuQueued
      /\ TaskQueued' = TaskQueued /\ SlotPaged' = SlotPaged
      /\ (PagesApart' <=> PagesApart) /\ SlotPinned' = SlotPinned
      /\ QkvPinned' = QkvPinned /\ HiddenPinned' = HiddenPinned
      /\ HiddenBack' = HiddenBack
  BY SameCur, SameOffload, SameLoad, SameCold, SameCpu, SameTasks, SamePages, SamePin,
     SameQkv, SameHidden, SameBack
<1>2. /\ prefetch' \in Seq(Work) /\ Range(prefetch) = {x} \cup Range(prefetch')
      /\ Ordered(prefetch', MarkOrder)
  <2>1. prefetch \in Seq(Work) /\ Ordered(prefetch, MarkOrder)
    BY DEF TypeInv, Inv, MarkInv
  <2> QED BY <2>1, Dequeue
<1>3. PageWaits' <=> PageWaits
  <2>1. x # PageOp
    BY PageFields
  <2> HIDE DEF x
  <2> QED BY <1>2, <2>1 DEF PageWaits
<1> HIDE DEF x
<1>4. TypeInv'
  BY <1>2 DEF TypeInv
<1>5. CurInv(c)'
  BY <1>1 DEF Inv, CurInv
<1>6. OffloadInv(c)'
  BY <1>1 DEF Inv, OffloadInv
<1>7. CpuInv(c)'
  BY <1>1 DEF Inv, CpuInv
<1>8. LoadInv(c)'
  BY <1>1 DEF Inv, LoadInv
<1>9. HiddenInv(c)'
  BY <1>1 DEF Inv, HiddenInv
<1>10. ColdInv(c)'
  BY <1>1 DEF Inv, ColdInv
<1>11. TaskInv(c)'
  BY <1>1 DEF Inv, TaskInv
<1>12. PinInv(c)'
  BY <1>1 DEF Inv, PinInv
<1>13. MarkInv(c)'
  <2>1. \A y \in Range(prefetch') : y = PageOp \/ y.op = "record"
    BY <1>2 DEF Inv, MarkInv
  <2>2. pages' = pages
    OBVIOUS
  <2> QED BY <1>1, <1>2, <1>3, <2>1, <2>2 DEF Inv, MarkInv
<1>14. PageInv(c)'
  BY <1>1 DEF Inv, PageInv
<1> QED BY <1>4, <1>5, <1>6, <1>7, <1>8, <1>9, <1>10, <1>11, <1>12, <1>13, <1>14 DEF Inv

LEMMA ServeTask ==
  ASSUME TypeInv, NEW c, Bounds(c), Inv(c),
         copy_executor # <<>>,
         Prefetched(Head(copy_executor).mb, Head(copy_executor).layer),
         cold' = Append(cold, Head(copy_executor)),
         copy_executor' = Tail(copy_executor),
         UNCHANGED <<cur, offload, load, prefetch, cpu_executor, gpu_page, first_page, pages,
                     pin, qkv_pin, hidden_pin, hidden_states>>
  PROVE  TypeInv' /\ Inv(c)'
<1> /\ \A n : Page(n)' = Page(n)
    /\ \A h : Its_copy(h)' = Its_copy(h)
  BY SameCopies
<1> DEFINE x == Head(copy_executor)
<1>1. /\ c.pre \in Int /\ c.off \in Int /\ c.cpu \in Int /\ c.pin \in Int /\ c.load \in Int
      /\ c.fetch \in Int /\ c.post \in Int
      /\ -1 <= c.post /\ c.post <= c.fetch /\ c.fetch <= c.load /\ c.load <= c.pin
      /\ c.pin <= c.cpu /\ c.cpu <= c.off /\ c.off <= c.pre
      /\ c.load <= c.post + 1 /\ c.pre <= c.post + 2
  BY DEF Bounds
<1>2. /\ PreQueued' = PreQueued /\ PostQueued' = PostQueued /\ OffQueued' = OffQueued
      /\ LoadQueued' = LoadQueued /\ CopyQueued' = CopyQueued
      /\ (PageWaits' <=> PageWaits) /\ CpuQueued' = CpuQueued /\ SlotPaged' = SlotPaged
      /\ (PagesApart' <=> PagesApart)
      /\ SlotPinned' = SlotPinned /\ QkvPinned' = QkvPinned
      /\ HiddenPinned' = HiddenPinned /\ HiddenBack' = HiddenBack
  BY SameCur, SameOffload, SameLoad, SamePrefetch, SameCpu, SamePages, SamePin, SameQkv,
     SameHidden, SameBack
<1>3. /\ x \in Work /\ copy_executor' \in Seq(Work) /\ Range(copy_executor) = {x} \cup Range(copy_executor')
      /\ Ordered(copy_executor', TaskOrder)
      /\ \A y \in Range(copy_executor') : TurnOf(x) < TurnOf(y)
  <2>1. copy_executor \in Seq(Work) /\ Ordered(copy_executor, TaskOrder)
    BY DEF TypeInv, Inv, TaskInv
  <2>2. /\ x \in Work /\ copy_executor' \in Seq(Work) /\ Range(copy_executor) = {x} \cup Range(copy_executor')
        /\ Ordered(copy_executor', TaskOrder)
        /\ \A y \in Range(copy_executor') : <<x, y>> \in TaskOrder
    BY <2>1, Dequeue
  <2> HIDE DEF x
  <2> QED BY <2>2 DEF TaskOrder
<1>4. PICK g \in TaskQueued : x = Its_to_pin(g)
  BY <1>3 DEF Inv, TaskInv
<1>5. /\ g \in Int /\ g \in c.fetch + 1 .. c.pin /\ x.op = "to_pin" /\ TurnOf(x) = g
      /\ x.mb = SlotAt(g) /\ x.layer = LayerAt(g) + 1
  BY <1>4, ToPinFields DEF TaskQueued, Inv, TaskInv
<1>6. ~PageWaits
  <2>1. SUFFICES ASSUME PageWaits PROVE FALSE
    OBVIOUS
  <2>2. c.fetch = -1 /\ c.pin >= 0 /\ g >= 0
    <3>1. c.fetch = -1
      BY <2>1 DEF Inv, MarkInv
    <3> QED BY <1>1, <1>5, <3>1
  <2>3. 0 \in TaskQueued /\ Its_to_pin(0) \in Range(copy_executor)
    BY <2>1, <2>2 DEF Inv, MarkInv, TaskQueued
  <2>4. x = Its_to_pin(0)
    <3>1. TurnOf(Its_to_pin(0)) = 0
      BY ToPinFields
    <3>2. ~(TurnOf(x) < TurnOf(Its_to_pin(0)))
      BY <1>5, <2>2, <3>1
    <3> HIDE DEF x
    <3> QED BY <1>3, <2>3, <3>2
  <2>5. x.mb = 0 /\ x.layer = 1
    BY <2>4, ToPinFields, TurnZero
  <2>6. PageOp.mb = 0 /\ PageOp.layer = 0 /\ PageOp \in Range(prefetch)
    BY <2>1, PageFields DEF PageWaits
  <2> QED BY <2>5, <2>6 DEF Prefetched
<1>7. ASSUME NEW y \in Range(cold) PROVE <<y, x>> \in ColdOrder
  <2>1. y \in Work /\ x # PageOp
    BY <1>4, <1>5, InQueue, ColdFields DEF TypeInv
  <2>2. ColdBefore(y, x)
    <3>1. CASE y = PageOp
      <4>1. y.op = "page"
        BY <3>1, PageFields
      <4> HIDE DEF x
      <4> QED BY <1>5, <2>1, <4>1 DEF ColdBefore
    <3>2. CASE \E h \in ToPinQueued : y = Its_to_pin(h)
      <4>1. PICK h \in ToPinQueued : y = Its_to_pin(h)
        BY <3>2
      <4>2. h < g /\ h \in Int
        BY DEF Inv, TaskInv, ToPinQueued
      <4>3. y.op = "to_pin" /\ TurnOf(y) = h
        BY <4>1, <4>2, ToPinFields
      <4> HIDE DEF x
      <4> QED BY <1>5, <2>1, <4>2, <4>3 DEF ColdBefore
    <3>3. CASE \E h \in ColdCopies : y = Its_copy(h)
      <4>1. PICK h \in CopyQueued : y = Its_copy(h)
        BY <3>3 DEF Inv, ColdInv
      <4>2. h \in c.load - 2 .. c.fetch
        BY DEF Inv, LoadInv
      <4>3. h \in Int /\ h < g
        BY <1>1, <1>5, <4>2
      <4>4. y.op = "prefetch" /\ TurnOf(y) = h
        BY <4>1, <4>3, CopyFields
      <4> HIDE DEF x
      <4> QED BY <1>5, <2>1, <4>3, <4>4 DEF ColdBefore
    <3> QED BY <3>1, <3>2, <3>3 DEF Inv, ColdInv
  <2> HIDE DEF x
  <2> QED BY <1>3, <2>1, <2>2 DEF ColdOrder
<1>8. cold' \in Seq(Work) /\ Range(cold') = Range(cold) \cup {x} /\ Ordered(cold', ColdOrder)
  <2>1. cold \in Seq(Work) /\ x \in Work /\ Ordered(cold, ColdOrder) /\ cold' = Append(cold, x)
    BY <1>3 DEF TypeInv, Inv, ColdInv
  <2> HIDE DEF x
  <2> QED BY <1>7, <2>1, Enqueue
<1> HIDE DEF x
<1>9. /\ ToPinQueued' = ToPinQueued \cup {g} /\ ColdCopies' = ColdCopies /\ (PageCold' <=> PageCold)
  <2>1. ToPinQueued' = ToPinQueued \cup {g}
    BY <1>4, <1>5, <1>8, ColdFields DEF ToPinQueued
  <2>2. PageOp # x /\ \A h \in Int : Its_copy(h) # x
    BY <1>4, <1>5, ColdFields
  <2>3. ColdCopies' = ColdCopies /\ (PageCold' <=> PageCold)
    BY <1>8, <2>2 DEF ColdCopies, PageCold
  <2> QED BY <2>1, <2>3
<1>10. ASSUME NEW h \in TaskQueued' PROVE h \in TaskQueued /\ h \in Int /\ g < h
  <2>1. h \in Int /\ Its_to_pin(h) \in Range(copy_executor')
    BY DEF TaskQueued
  <2>2. TurnOf(Its_to_pin(h)) = h
    BY <2>1, ToPinFields
  <2> QED BY <1>3, <1>5, <2>1, <2>2 DEF TaskQueued
<1>11. ASSUME NEW h \in TaskQueued, h # g PROVE h \in TaskQueued'
  <2>1. h \in Int /\ Its_to_pin(h) \in Range(copy_executor)
    BY DEF TaskQueued
  <2>2. Its_to_pin(h) # x
    BY <1>4, <1>5, <1>11, <2>1, ColdFields
  <2> QED BY <1>3, <2>1, <2>2 DEF TaskQueued
<1>12. ToPinQueued' \cup TaskQueued' = ToPinQueued \cup TaskQueued
  BY <1>9, <1>10, <1>11
<1>13. TypeInv'
  BY <1>3, <1>8 DEF TypeInv
<1>14. CurInv(c)'
  BY <1>2 DEF Inv, CurInv
<1>15. OffloadInv(c)'
  BY <1>2 DEF Inv, OffloadInv
<1>16. CpuInv(c)'
  BY <1>2 DEF Inv, CpuInv
<1>17. LoadInv(c)'
  BY <1>2 DEF Inv, LoadInv
<1>18. HiddenInv(c)'
  BY <1>2 DEF Inv, HiddenInv
<1>19. ColdInv(c)'
  <2>1. \A y \in Range(cold') : \/ y = PageOp
                                \/ \E h \in ToPinQueued' : y = Its_to_pin(h)
                                \/ \E h \in ColdCopies' : y = Its_copy(h)
    BY <1>4, <1>8, <1>9 DEF Inv, ColdInv
  <2>2. g \in 0 .. c.pin
    BY <1>1, <1>5
  <2> QED BY <1>2, <1>8, <1>9, <2>1, <2>2 DEF Inv, ColdInv
<1>20. TaskInv(c)'
  <2>1. ASSUME NEW y \in Range(copy_executor') PROVE \E h \in TaskQueued' : y = Its_to_pin(h)
    <3>1. \E h \in Int : y = Its_to_pin(h)
      BY <1>3 DEF Inv, TaskInv, TaskQueued
    <3> QED BY <3>1 DEF TaskQueued
  <2>2. \A h \in ToPinQueued' : \A i \in TaskQueued' : h < i
    BY <1>9, <1>10 DEF Inv, TaskInv
  <2> QED BY <1>3, <1>10, <1>12, <2>1, <2>2 DEF Inv, TaskInv
<1>21. PinInv(c)'
  BY <1>2, <1>12 DEF Inv, PinInv
<1>22. MarkInv(c)'
  <2>1. ~PageWaits' /\ ~PageCold' /\ prefetch' = prefetch /\ pages' = pages
    BY <1>2, <1>6, <1>9 DEF Inv, MarkInv
  <2> QED BY <1>6, <2>1 DEF Inv, MarkInv
<1>23. PageInv(c)'
  BY <1>2 DEF Inv, PageInv
<1> QED BY <1>13, <1>14, <1>15, <1>16, <1>17, <1>18, <1>19, <1>20, <1>21, <1>22, <1>23 DEF
        Inv

-----------------------------------------------------------------------------
(* Before the first call *)

\* The turn before the first is the last of a step.
LEMMA BeforeFirst == LayerAt(-1) = -1 /\ LayerAt(-2) = -1 /\ Samples(-1) /\ Closes(-1)
<1>1. /\ num_mb \in Nat /\ num_mb >= 3 /\ NumLayers \in Nat /\ NumLayers >= 2
      /\ num_mb - 1 \in MicroBatchIds /\ num_mb - 2 \in MicroBatchIds
  BY Sizes DEF MicroBatchIds
<1>2. (-1) * num_mb + (num_mb - 1) = -1 /\ (-1) * num_mb + (num_mb - 2) = -2
  BY <1>1
<1>3. LayerAt(-1) = -1 /\ SlotAt(-1) = num_mb - 1 /\ LayerAt(-2) = -1
  <2>1. /\ LayerAt((-1) * num_mb + (num_mb - 1)) = -1 /\ SlotAt((-1) * num_mb + (num_mb - 1)) = num_mb - 1
        /\ LayerAt((-1) * num_mb + (num_mb - 2)) = -1
    <3>1. PICK n \in Int : n = -1
      OBVIOUS
    <3>2. /\ LayerAt(n * num_mb + (num_mb - 1)) = n /\ SlotAt(n * num_mb + (num_mb - 1)) = num_mb - 1
          /\ LayerAt(n * num_mb + (num_mb - 2)) = n
      BY <1>1, TurnOfParts
    <3> QED BY <3>1, <3>2
  <2> QED BY <1>2, <2>1
<1>4. (-1) % NumLayers = NumLayers - 1
  <2>1. NumLayers - 1 \in 0 .. NumLayers - 1 /\ NumLayers >= 1 /\ -1 \in Int
    BY <1>1
  <2>2. ((-1) * NumLayers + (NumLayers - 1)) % NumLayers = NumLayers - 1
    BY <1>1, <2>1, DivOfParts
  <2>3. (-1) * NumLayers + (NumLayers - 1) = -1
    BY <1>1
  <2> QED BY <2>2, <2>3
<1> QED BY <1>3, <1>4 DEF Samples, Closes

LEMMA ShortSeqs ==
  ASSUME NEW x \in Work
  PROVE  <<>> \in Seq(Work) /\ <<x>> \in Seq(Work)
OBVIOUS

LEMMA OrderedShort == \A R : \A x : Ordered(<<>>, R) /\ Ordered(<<x>>, R)
BY DEF Ordered

-----------------------------------------------------------------------------
(* The calls of the main thread *)

LEMMA Calling ==
  ASSUME CallInv, NEW op, Call(op)
  PROVE  /\ Now = AfterCall[Made] /\ Now.op = op /\ Made' = Now
         /\ pos' \in 1 .. Len(Program) + 1
<1>1. /\ Program \in Seq(Ops) /\ (Program # <<>> => Program[1] = Its("pre_attention", 0))
      /\ \A i \in 1 .. Len(Program) - 1 : Program[i + 1] = AfterCall[Program[i]]
  BY ProgramChain
<1>2. Len(Program) \in Nat
  BY <1>1, LenProperties
<1>3. pos \in 1 .. Len(Program) + 1 /\ pos <= Len(Program) /\ pos' = pos + 1 /\ Now.op = op
  BY DEF CallInv, Call, Now
<1>4. pos' \in 1 .. Len(Program) + 1 /\ pos' # 1 /\ pos' - 1 = pos
  BY <1>2, <1>3
<1>5. Made' = Program[pos]
  BY <1>4 DEF Made
<1>6. CASE pos = 1
  <2>1. Made = Its("sample", -1)
    BY <1>6 DEF Made
  <2>2. AfterCall[Its("sample", -1)] = Its("pre_attention", 0)
    <3>1. Closes(-1)
      BY BeforeFirst
    <3>2. AfterCall[Its("sample", -1)] = IF Closes(-1) THEN Its("pre_attention", -1 + 1)
                                         ELSE IF Closes(-1 + 1) THEN Its("load_hidden", -1 + 1)
                                         ELSE Its("pre_attention", -1 + 2)
      BY AfterOthers
    <3>3. -1 + 1 = 0
      OBVIOUS
    <3> QED BY <3>1, <3>2, <3>3
  <2>3. Program # <<>>
    <3>1. Len(<<>>) = 0
      OBVIOUS
    <3> QED BY <1>2, <1>3, <1>6, <3>1
  <2> QED BY <1>1, <1>3, <1>4, <1>5, <1>6, <2>1, <2>2, <2>3 DEF Now
<1>7. CASE pos # 1
  <2>1. pos - 1 \in 1 .. Len(Program) - 1 /\ (pos - 1) + 1 = pos
    BY <1>2, <1>3, <1>7
  <2>2. Program[pos] = AfterCall[Program[pos - 1]]
    BY <1>1, <2>1
  <2> QED BY <1>3, <1>4, <1>5, <1>7, <2>2 DEF Made, Now
<1> QED BY <1>6, <1>7

\* What a call does to the counts, and whose turn it is.
LEMMA Called ==
  ASSUME CallInv, NEW op, Call(op), NEW c, c = Counts(Made), NEW d, d = Counts(Now)
  PROVE  /\ Bounds(c) /\ Bounds(d) /\ Counting(op, c, d)
         /\ Now.op = op /\ CountOf(op, d) \in Int
         /\ Now = IF op = "to_pin" THEN Its_to_pin(CountOf(op, d))
                  ELSE IF op = "prefetch" THEN Its_prefetch(CountOf(op, d)) ELSE Its(op, CountOf(op, d))
         /\ op = "pre_attention" => c.post < c.pre \/ cur = <<>>
         /\ Legal(Now) /\ Made' = Now /\ pos' \in 1 .. Len(Program) + 1
<1> DEFINE x == Made
           y == Now
<1>1. y = AfterCall[x] /\ y.op = op /\ Made' = y /\ pos' \in 1 .. Len(Program) + 1
  BY Calling
<1>2. Legal(x) /\ (x.op = "sample" => cur = <<>>)
  BY DEF CallInv
<1>3. c = Counts(x) /\ d = Counts(y)
  OBVIOUS
<1> HIDE DEF x, y
<1>4. /\ Legal(y) /\ y \in Calls(CountOf(y.op, d)) /\ CountOf(y.op, d) \in Int
      /\ Counting(y.op, c, d)
      /\ y.op = "pre_attention" => c.post < c.pre \/ x.op = "sample"
  BY <1>1, <1>2, <1>3, NextCall
<1>5. Bounds(c) /\ Bounds(d)
  BY <1>2, <1>3, <1>4, LegalBounds
<1>6. y = IF y.op = "to_pin" THEN Its_to_pin(CountOf(y.op, d))
          ELSE IF y.op = "prefetch" THEN Its_prefetch(CountOf(y.op, d)) ELSE Its(y.op, CountOf(y.op, d))
  BY <1>4, CallFields
<1> QED BY <1>1, <1>2, <1>4, <1>5, <1>6 DEF y

\* The steps of the main thread keep the invariant.
LEMMA CallStep ==
  ASSUME IInv, NEW op, Call(op), NEW d, d = Counts(Now), TypeInv' /\ Inv(d)',
         op = "sample" => cur' = <<>>
  PROVE  IInv'
<1>1. CallInv
  BY DEF IInv
<1>2. Now.op = op /\ Legal(Now) /\ Made' = Now /\ pos' \in 1 .. Len(Program) + 1
  BY <1>1, Called
<1>3. CallInv'
  BY <1>2 DEF CallInv
<1>4. d \in {Counts(Made)}'
  BY <1>2
<1> QED BY <1>3, <1>4 DEF IInv

LEMMA preStep == IInv /\ pre_attention => IInv'
<1> SUFFICES ASSUME IInv, pre_attention PROVE IInv'
  OBVIOUS
<1>1. PICK c : c = Counts(Made)
  OBVIOUS
<1>2. PICK d : d = Counts(Now)
  OBVIOUS
<1>3. TypeInv /\ CallInv /\ Inv(c) /\ Call("pre_attention")
  BY <1>1 DEF IInv, pre_attention
<1>4. /\ Bounds(c) /\ Bounds(d) /\ Counting("pre_attention", c, d) /\ Now = Its("pre_attention", d.pre)
      /\ c.post < c.pre \/ cur = <<>>
  BY <1>1, <1>2, <1>3, Called DEF CountOf
<1>5. TypeInv' /\ Inv(d)'
  BY <1>3, <1>4, StepPre DEF pre_attention, buffers
<1> QED BY <1>2, <1>3, <1>5, CallStep

LEMMA offloadStep == IInv /\ offload_qkv => IInv'
<1> SUFFICES ASSUME IInv, offload_qkv PROVE IInv'
  OBVIOUS
<1>1. PICK c : c = Counts(Made)
  OBVIOUS
<1>2. PICK d : d = Counts(Now)
  OBVIOUS
<1>3. TypeInv /\ CallInv /\ Inv(c) /\ Call("offload_qkv")
  BY <1>1 DEF IInv, offload_qkv
<1>4. Bounds(c) /\ Bounds(d) /\ Counting("offload_qkv", c, d) /\ Now = Its("offload_qkv", d.off)
  BY <1>1, <1>2, <1>3, Called DEF CountOf
<1>5. TypeInv' /\ Inv(d)'
  BY <1>3, <1>4, StepOffload DEF offload_qkv, buffers
<1> QED BY <1>2, <1>3, <1>5, CallStep

LEMMA cpuStep == IInv /\ cpu_attention => IInv'
<1> SUFFICES ASSUME IInv, cpu_attention PROVE IInv'
  OBVIOUS
<1>1. PICK c : c = Counts(Made)
  OBVIOUS
<1>2. PICK d : d = Counts(Now)
  OBVIOUS
<1>3. TypeInv /\ CallInv /\ Inv(c) /\ Call("cpu_attention")
  BY <1>1 DEF IInv, cpu_attention
<1>4. Bounds(c) /\ Bounds(d) /\ Counting("cpu_attention", c, d) /\ Now = Its("cpu_attention", d.cpu)
  BY <1>1, <1>2, <1>3, Called DEF CountOf
<1>5. TypeInv' /\ Inv(d)'
  BY <1>3, <1>4, StepCpu DEF cpu_attention, buffers
<1> QED BY <1>2, <1>3, <1>5, CallStep

LEMMA toPinStep == IInv /\ prefetch_experts_to_pin => IInv'
<1> SUFFICES ASSUME IInv, prefetch_experts_to_pin PROVE IInv'
  OBVIOUS
<1>1. PICK c : c = Counts(Made)
  OBVIOUS
<1>2. PICK d : d = Counts(Now)
  OBVIOUS
<1>3. TypeInv /\ CallInv /\ Inv(c) /\ Call("to_pin")
  BY <1>1 DEF IInv, prefetch_experts_to_pin
<1>4. Bounds(c) /\ Bounds(d) /\ Counting("to_pin", c, d) /\ Now = Its_to_pin(d.pin)
  BY <1>1, <1>2, <1>3, Called DEF CountOf
<1>5. TypeInv' /\ Inv(d)'
  BY <1>3, <1>4, StepToPin DEF prefetch_experts_to_pin, buffers
<1> QED BY <1>2, <1>3, <1>5, CallStep

LEMMA loadStep == IInv /\ load_hidden => IInv'
<1> SUFFICES ASSUME IInv, load_hidden PROVE IInv'
  OBVIOUS
<1>1. PICK c : c = Counts(Made)
  OBVIOUS
<1>2. PICK d : d = Counts(Now)
  OBVIOUS
<1>3. TypeInv /\ CallInv /\ Inv(c) /\ Call("load_hidden")
  BY <1>1 DEF IInv, load_hidden
<1>4. /\ Bounds(c) /\ Bounds(d) /\ Counting("load_hidden", c, d) /\ d.load \in Int
      /\ Now = Its("load_hidden", d.load)
  BY <1>1, <1>2, <1>3, Called DEF CountOf
<1>5. Now.mb = SlotAt(d.load)
  BY <1>4, ItsFields
<1>6. \A x \in Range(cpu_executor) : x.mb # SlotAt(d.load)
  BY <1>5 DEF load_hidden, AttentionDone, Done
<1>7. TypeInv' /\ Inv(d)'
  BY <1>3, <1>4, <1>6, StepLoad DEF load_hidden, buffers
<1> QED BY <1>2, <1>3, <1>7, CallStep

LEMMA prefetchStep == IInv /\ prefetch_experts => IInv'
<1> SUFFICES ASSUME IInv, prefetch_experts PROVE IInv'
  OBVIOUS
<1>1. PICK c : c = Counts(Made)
  OBVIOUS
<1>2. PICK d : d = Counts(Now)
  OBVIOUS
<1>3. TypeInv /\ CallInv /\ Inv(c) /\ Call("prefetch")
  BY <1>1 DEF IInv, prefetch_experts
<1>4. /\ Bounds(c) /\ Bounds(d) /\ Counting("prefetch", c, d) /\ d.fetch \in Int
      /\ Now = Its_prefetch(d.fetch)
  BY <1>1, <1>2, <1>3, Called DEF CountOf
<1>5. Now.layer = LayerAt(d.fetch) + 1 /\ Now.mb = SlotAt(d.fetch)
  BY <1>4, PrefetchFields
<1>6. gpu_page = Page(LayerAt(d.fetch) + 1)
  <2>1. d.fetch = c.fetch + 1
    BY <1>4 DEF Counting
  <2> QED BY <1>3, <2>1 DEF Inv, PageInv
<1>7. [op |-> "prefetch", layer |-> Now.layer, mb |-> Now.mb, page |-> gpu_page] = Its_copy(d.fetch)
  BY <1>5, <1>6 DEF Its_copy
<1>8. load' = Append(load, Its_copy(d.fetch)) /\ cold' = Append(cold, Its_copy(d.fetch))
  BY <1>7 DEF prefetch_experts
<1>9. /\ prefetch' = Append(prefetch, Op("record", LayerAt(d.fetch) + 1, SlotAt(d.fetch)))
      /\ gpu_page' = NextPage(SlotAt(d.fetch))
      /\ \A x \in Range(copy_executor) : x.mb # SlotAt(d.fetch)
  BY <1>5 DEF prefetch_experts, CopyDone, Done
<1>10. TypeInv' /\ Inv(d)'
  BY <1>3, <1>4, <1>8, <1>9, StepPrefetch DEF prefetch_experts, buffers
<1> QED BY <1>2, <1>3, <1>10, CallStep

LEMMA postStep == IInv /\ post_attention => IInv'
<1> SUFFICES ASSUME IInv, post_attention PROVE IInv'
  OBVIOUS
<1>1. PICK c : c = Counts(Made)
  OBVIOUS
<1>2. PICK d : d = Counts(Now)
  OBVIOUS
<1>3. TypeInv /\ CallInv /\ Inv(c) /\ Call("post_attention")
  BY <1>1 DEF IInv, post_attention
<1>4. Bounds(c) /\ Bounds(d) /\ Counting("post_attention", c, d) /\ Now = Its("post_attention", d.post)
  BY <1>1, <1>2, <1>3, Called DEF CountOf
<1>5. TypeInv' /\ Inv(d)'
  BY <1>3, <1>4, StepPost DEF post_attention, buffers
<1> QED BY <1>2, <1>3, <1>5, CallStep

LEMMA sampleStep == IInv /\ sample => IInv'
<1> SUFFICES ASSUME IInv, sample PROVE IInv'
  OBVIOUS
<1>1. PICK c : c = Counts(Made)
  OBVIOUS
<1>2. PICK d : d = Counts(Now)
  OBVIOUS
<1>3. TypeInv /\ CallInv /\ Inv(c) /\ Call("sample")
  BY <1>1 DEF IInv, sample
<1>4. Counting("sample", c, d)
  BY <1>1, <1>2, <1>3, Called
<1>5. TypeInv' /\ Inv(d)'
  BY <1>3, <1>4, StepSample DEF sample, queues, buffers
<1>6. cur' = <<>>
  BY DEF sample, queues
<1> QED BY <1>2, <1>3, <1>5, <1>6, CallStep

-----------------------------------------------------------------------------
(* The invariant holds *)

LEMMA InitInv == Init => IInv
<1> SUFFICES ASSUME Init PROVE IInv
  OBVIOUS
<1>1. Made = Its("sample", -1)
  BY DEF Init, Made
<1>2. /\ LayerAt(-1) = -1 /\ LayerAt(-2) = -1 /\ SlotAt(-1) \in MicroBatchIds /\ SlotAt(-2) \in MicroBatchIds
      /\ Samples(-1) /\ Closes(-1)
  BY BeforeFirst, TurnParts
<1>3. CallInv
  <2>1. Its("sample", -1) \in Calls(-1) /\ Its("sample", -1).op = "sample"
    BY ItsFields DEF Calls, Names
  <2>2. Legal(Made)
    BY <1>1, <1>2, <2>1 DEF Legal
  <2>3. pos \in 1 .. Len(Program) + 1
    <3>1. Len(Program) \in Nat
      BY ProgramChain, LenProperties
    <3> QED BY <3>1 DEF Init
  <2>4. cur = <<>>
    BY DEF Init
  <2> QED BY <2>2, <2>3, <2>4 DEF CallInv
<1>4. PICK c : c = Counts(Made)
  OBVIOUS
<1>5. /\ c.pre = -1 /\ c.off = -1 /\ c.cpu = -1 /\ c.pin = -1
      /\ c.load = -1 /\ c.fetch = -1 /\ c.post = -1
  <2>1. TurnOf(Its("sample", -1)) = -1 /\ Its("sample", -1).op = "sample"
    BY ItsFields
  <2> QED BY <1>1, <1>2, <1>4, <2>1, CountsOthers
<1>6. /\ Range(cur) = {} /\ Range(offload) = {} /\ Range(load) = {} /\ Range(cpu_executor) = {}
      /\ Range(copy_executor) = {} /\ Range(prefetch) = {PageOp} /\ Range(cold) = {PageOp}
  BY NoElements, OneElement DEF Init, PageOp
<1>7. /\ PreQueued = {} /\ PostQueued = {} /\ OffQueued = {} /\ CpuQueued = {} /\ LoadQueued = {}
      /\ CopyQueued = {} /\ TaskQueued = {} /\ PageWaits /\ PageCold
  BY <1>6 DEF PreQueued, PostQueued, OffQueued, CpuQueued, LoadQueued, CopyQueued, TaskQueued,
              PageWaits, PageCold
<1>8. ToPinQueued = {} /\ ColdCopies = {}
  BY <1>6, ColdFields DEF ToPinQueued, ColdCopies
<1>9. \A R : /\ Ordered(cur, R) /\ Ordered(load, R) /\ Ordered(copy_executor, R)
             /\ Ordered(prefetch, R) /\ Ordered(cold, R)
  BY OrderedShort DEF Init
<1>10. TypeInv
  <2>1. \A e \in {0, 1} : [s \in MicroBatchIds |-> -1] \in [MicroBatchIds -> Int]
    OBVIOUS
  <2>2. <<>> \in Seq(Work) /\ <<PageOp>> \in Seq(Work)
    BY PageFields, ShortSeqs
  <2> QED BY <2>1, <2>2 DEF TypeInv, Init, PageOp
<1>11. CurInv(c) /\ OffloadInv(c) /\ CpuInv(c)
  <2>1. c.load + 1 .. c.off = {} /\ c.load + 1 .. c.cpu = {}
    BY <1>5
  <2> QED BY <1>6, <1>7, <1>9, <2>1 DEF CurInv, OffloadInv, CpuInv
<1>12. LoadInv(c) /\ HiddenInv(c)
  <2>1. c.load - 1 .. c.load = {-2, -1}
    BY <1>5
  <2>2. -1 \in HiddenBack /\ -2 \in HiddenBack
    BY <1>2 DEF HiddenBack, Init
  <2> QED BY <1>6, <1>7, <1>9, <2>1, <2>2 DEF LoadInv, HiddenInv
<1>13. ColdInv(c) /\ TaskInv(c)
  BY <1>6, <1>7, <1>8, <1>9 DEF ColdInv, TaskInv
<1>14. PinInv(c)
  <2>1. c.fetch + 1 .. c.pin = {}
    BY <1>5
  <2> QED BY <1>7, <2>1 DEF PinInv
<1>15. MarkInv(c)
  <2>1. ~(c.pin >= 0)
    BY <1>5
  <2> QED BY <1>5, <1>6, <1>7, <1>9, <2>1 DEF MarkInv
<1>16. PageInv(c)
  <2>1. gpu_page = Page(LayerAt(c.fetch + 1) + 1)
    <3>1. c.fetch + 1 = 0 /\ LayerAt(0) = 0
      BY <1>5, TurnZero
    <3>2. LayerAt(c.fetch + 1) + 1 = 1
      BY <3>1
    <3>3. Page(1) = 1 - first_page
      BY FirstPage DEF Init
    <3> QED BY <3>2, <3>3 DEF Init
  <2>2. 0 .. c.fetch = {}
    BY <1>5
  <2>3. PagesApart
    BY DEF Init, PagesApart
  <2> QED BY <2>1, <2>2, <2>3 DEF PageInv
<1> QED BY <1>3, <1>4, <1>10, <1>11, <1>12, <1>13, <1>14, <1>15, <1>16 DEF IInv, Inv

\* The main thread makes no call.
LEMMA Serving ==
  ASSUME IInv, NEW c, c = Counts(Made), pos' = pos, TypeInv' /\ Inv(c)',
         cur = <<>> => cur' = <<>>
  PROVE  IInv'
<1>1. Made' = Made
  BY DEF Made
<1>2. CallInv'
  BY <1>1 DEF IInv, CallInv
<1>3. c \in {Counts(Made)}'
  BY <1>1
<1> QED BY <1>2, <1>3 DEF IInv

LEMMA StepInv == IInv /\ [Next]_vars => IInv'
<1> SUFFICES ASSUME IInv, [Next]_vars PROVE IInv'
  OBVIOUS
<1>1. PICK c : c = Counts(Made)
  OBVIOUS
<1>2. TypeInv /\ Inv(c) /\ Bounds(c)
  BY <1>1, LegalBounds DEF IInv, CallInv
<1>3. ASSUME pos' = pos, TypeInv' /\ Inv(c)', cur = <<>> => cur' = <<>> PROVE IInv'
  BY <1>1, <1>3, Serving
<1>4. CASE Main
  BY <1>4, preStep, offloadStep, cpuStep, toPinStep, loadStep, prefetchStep, postStep, sampleStep DEF Main
<1>5. CASE RunCompute
  <2>1. TypeInv' /\ Inv(c)'
    BY <1>2, <1>5, ServeCompute DEF RunCompute, buffers
  <2> QED BY <1>3, <1>5, <2>1 DEF RunCompute
<1>6. CASE RunOffload
  <2>1. TypeInv' /\ Inv(c)'
    BY <1>2, <1>6, ServeOffload DEF RunOffload
  <2> QED BY <1>3, <1>6, <2>1 DEF RunOffload
<1>7. CASE RunLoad
  <2>1. TypeInv' /\ Inv(c)'
    BY <1>2, <1>7, ServeLoad DEF RunLoad
  <2> QED BY <1>3, <1>7, <2>1 DEF RunLoad
<1>8. CASE CopySlot
  <2>1. TypeInv' /\ Inv(c)'
    BY <1>2, <1>8, ServeCopy DEF CopySlot
  <2> QED BY <1>3, <1>8, <2>1 DEF CopySlot
<1>9. CASE CopyPage
  <2>1. TypeInv' /\ Inv(c)'
    BY <1>2, <1>9, ServePage DEF CopyPage
  <2> QED BY <1>3, <1>9, <2>1 DEF CopyPage
<1>10. CASE RunCold
  <2>1. TypeInv' /\ Inv(c)'
    BY <1>2, <1>10, ServeCold DEF RunCold
  <2> QED BY <1>3, <1>10, <2>1 DEF RunCold
<1>11. CASE Record
  <2>1. TypeInv' /\ Inv(c)'
    BY <1>2, <1>11, ServeMark DEF Record, buffers
  <2> QED BY <1>3, <1>11, <2>1 DEF Record
<1>12. CASE cpu_attetion_func
  <2>1. TypeInv' /\ Inv(c)'
    BY <1>2, <1>12, ServeCpu DEF cpu_attetion_func
  <2> QED BY <1>3, <1>12, <2>1 DEF cpu_attetion_func
<1>13. CASE prefetch_experts_to_pin_func
  <2>1. TypeInv' /\ Inv(c)'
    BY <1>2, <1>13, ServeTask DEF prefetch_experts_to_pin_func, buffers
  <2> QED BY <1>3, <1>13, <2>1 DEF prefetch_experts_to_pin_func
<1>14. CASE UNCHANGED vars
  <2>1. Counting("sample", c, c)
    BY DEF Counting
  <2>2. TypeInv' /\ Inv(c)'
    BY <1>2, <1>14, <2>1, StepSample DEF vars, queues, buffers
  <2> QED BY <1>3, <1>14, <2>2 DEF vars, queues
<1> QED BY <1>4, <1>5, <1>6, <1>7, <1>8, <1>9, <1>10, <1>11, <1>12, <1>13, <1>14 DEF Next

LEMMA Invariant == Spec => []IInv
BY InitInv, StepInv, PTL DEF Spec

-----------------------------------------------------------------------------
(* Theorems *)

\* The MoE that the compute stream may start: its turn, and that its hidden
\* states are back.
LEMMA ComputingTurn ==
  ASSUME IInv, Computing
  PROVE  \E c, g : /\ Bounds(c) /\ Inv(c)
                   /\ g \in PostQueued /\ g \in Int /\ g >= 0 /\ g \in c.load - 1 .. c.post
                   /\ g \notin LoadQueued
                   /\ Head(cur).layer = LayerAt(g) /\ Head(cur).mb = SlotAt(g)
<1>1. PICK c : c = Counts(Made)
  OBVIOUS
<1>2. TypeInv /\ Inv(c) /\ Bounds(c)
  BY <1>1, LegalBounds DEF IInv, CallInv
<1> DEFINE x == Head(cur)
           rest == Tail(cur)
<1>3. x.op = "post_attention" /\ HiddenLoaded(x.layer, x.mb) /\ cur # <<>>
  BY DEF Computing, MayCompute
<1>4. x \in Range(cur)
  <2>1. cur \in Seq(Work)
    BY <1>2 DEF TypeInv
  <2>2. Range(cur) = {Head(cur)} \cup Range(rest)
    <3>1. rest = Tail(cur)
      OBVIOUS
    <3> HIDE DEF rest
    <3> QED BY <1>3, <2>1, <3>1, DequeueAny
  <2> QED BY <2>2
<1>5. x.layer = Head(cur).layer /\ x.mb = Head(cur).mb
  OBVIOUS
<1> HIDE DEF x, rest
<1>6. PICK g \in PostQueued : x = Its("post_attention", g)
  <2>1. \A h \in Int : Its("pre_attention", h).op = "pre_attention"
    BY ItsFields
  <2> QED BY <1>2, <1>3, <1>4, <2>1 DEF Inv, CurInv, PreQueued
<1>7. g \in Int /\ g >= 0 /\ g \in c.load - 1 .. c.post
  BY <1>2 DEF Inv, CurInv, PostQueued
<1>8. x.layer = LayerAt(g) /\ x.mb = SlotAt(g)
  BY <1>6, <1>7, ItsFields
<1>9. g \notin LoadQueued
  <2>1. /\ Its("load_hidden", g).op = "load_hidden" /\ Its("load_hidden", g).layer = LayerAt(g)
        /\ Its("load_hidden", g).mb = SlotAt(g)
    BY <1>7, ItsFields
  <2> QED BY <1>3, <1>8, <2>1 DEF HiddenLoaded, Queued, LoadQueued
<1> QED BY <1>2, <1>5, <1>6, <1>7, <1>8, <1>9

\* The MoE of every layer finds every slot filled of the page its experts are
\* brought to, whatever the number of layers and of micro-batches and wherever
\* the pointer was: the copies of a page are behind nothing but what load_hidden,
\* which the compute stream waits for, is behind.  In a step that started with
\* the pointer at page 1 no slot of the mapping's page holds the layer's experts.
THEOREM PagesArriveAlways == Spec => []PagesArrive
<1>1. ASSUME IInv PROVE PagesArrive
  <2> SUFFICES ASSUME Computing, NEW s \in MicroBatchIds
               PROVE  /\ pages[PageTaken(Head(cur).layer)][s] >= Head(cur).layer
                      /\ first_page = 1 => pages[experts_mapping(Head(cur).layer)][s] # Head(cur).layer
    BY DEF PagesArrive
  <2>1. PICK c, g : /\ Bounds(c) /\ Inv(c)
                    /\ g \in PostQueued /\ g \in Int /\ g >= 0 /\ g \in c.load - 1 .. c.post
                    /\ g \notin LoadQueued
                    /\ Head(cur).layer = LayerAt(g) /\ Head(cur).mb = SlotAt(g)
    BY <1>1, ComputingTurn
  <2>2. /\ c.load \in Int /\ c.fetch \in Int /\ c.post \in Int
        /\ c.post <= c.fetch /\ c.fetch <= c.load
    BY <2>1 DEF Bounds
  <2> DEFINE n == LayerAt(g)
             h == (n - 1) * num_mb + s
  <2>3. n \in Int /\ n >= 0 /\ SlotAt(g) \in MicroBatchIds /\ g = n * num_mb + SlotAt(g)
    BY <2>1, TurnParts, TurnZero
  <2> HIDE DEF n
  <2>4. first_page \in {0, 1} /\ PagesApart
    BY <1>1, <2>1 DEF IInv, TypeInv, Inv, PageInv
  <2>5. ASSUME n = 0 PROVE pages[Page(n)][s] >= n
    <3>1. ~PageWaits
      <4>1. c.fetch # -1
        BY <2>1, <2>2
      <4> QED BY <2>1, <4>1 DEF Inv, MarkInv
    <3>2. pages[first_page][s] >= 0
      BY <2>1, <3>1 DEF Inv, MarkInv
    <3>3. Page(0) = first_page
      BY <2>4, FirstPage
    <3> QED BY <2>5, <3>2, <3>3
  <2>6. ASSUME n # 0 PROVE pages[Page(n)][s] >= n
    <3>1. n - 1 \in Int /\ n - 1 >= 0 /\ (n - 1) + 1 = n /\ n - 1 < n
      BY <2>3, <2>6
    <3>2. h \in Int /\ LayerAt(h) = n - 1 /\ SlotAt(h) = s
      BY <3>1, TurnOfParts
    <3>3. h < g
      BY <2>3, <3>1, Apart
    <3> HIDE DEF h
    <3>4. h >= 0
      <4>1. h < 0 => LayerAt(h) < 0
        <5>1. ASSUME h < 0 PROVE LayerAt(h) <= LayerAt(-1)
          BY <3>2, <5>1, LayersGrow
        <5>2. LayerAt(-1) = -1
          BY BeforeFirst
        <5> QED BY <3>1, <3>2, <5>1, <5>2
      <4> QED BY <3>1, <3>2, <4>1
    <3>5. h \in CopyQueued \cup SlotPaged
      <4>1. h \in 0 .. c.fetch
        BY <2>1, <2>2, <3>2, <3>3, <3>4
      <4> QED BY <2>1, <4>1 DEF Inv, PageInv
    <3>6. h \notin CopyQueued
      <4>1. g \in h + 1 .. c.load
        BY <2>1, <2>2, <3>2, <3>3
      <4> QED BY <2>1, <4>1 DEF Inv, LoadInv
    <3>7. pages[Page(LayerAt(h) + 1)][SlotAt(h)] >= LayerAt(h) + 1
      BY <3>5, <3>6 DEF SlotPaged
    <3> QED BY <3>1, <3>2, <3>7
  <2>7. pages[Page(n)][s] >= n
    BY <2>5, <2>6
  <2>8. /\ PageTaken(n) = Page(n) /\ experts_mapping(n) \in {0, 1}
        /\ first_page = 1 => experts_mapping(n) # Page(n)
    BY <2>3, <2>4, PageIs
  <2>9. first_page = 1 => pages[experts_mapping(n)][s] # n
    BY <2>3, <2>4, <2>8 DEF PagesApart
  <2> QED BY <2>1, <2>7, <2>8, <2>9 DEF n
<1> QED BY <1>1, Invariant, PTL

\* The MoE of a micro-batch works on the attention output of its own layer: at
\* most two turns of attention are ahead of it, and each has a buffer of its own
\* when there are three micro-batches.
THEOREM AttentionMatchesAlways == Spec => []AttentionMatches
<1>1. ASSUME IInv PROVE AttentionMatches
  <2> SUFFICES ASSUME Computing PROVE hidden_states[Head(cur).mb] = Head(cur).layer
    BY DEF AttentionMatches
  <2>1. PICK c, g : /\ Bounds(c) /\ Inv(c)
                    /\ g \in PostQueued /\ g \in Int /\ g >= 0 /\ g \in c.load - 1 .. c.post
                    /\ g \notin LoadQueued
                    /\ Head(cur).layer = LayerAt(g) /\ Head(cur).mb = SlotAt(g)
    BY <1>1, ComputingTurn
  <2>2. g \in c.load - 1 .. c.load
    <3>1. c.load \in Int /\ c.post \in Int /\ c.post <= c.load
      BY <2>1 DEF Bounds
    <3> QED BY <2>1, <3>1
  <2>3. g \in HiddenBack
    BY <2>1, <2>2 DEF Inv, HiddenInv
  <2> QED BY <2>1, <2>3 DEF HiddenBack
<1> QED BY <1>1, Invariant, PTL

\* The slot of the pin that a copy reads still has what was put there for it:
\* on the stream of the second GPU a slot is filled again only behind the copy
\* that empties it.
THEOREM PinStableAlways == Spec => []PinStable
<1>1. ASSUME IInv PROVE PinStable
  <2> SUFFICES ASSUME load # <<>>, cold # <<>>, Head(load) = Head(cold)
               PROVE  pin[Head(load).mb] = Head(load).layer
    BY DEF PinStable
  <2>1. PICK c : c = Counts(Made)
    OBVIOUS
  <2>2. TypeInv /\ Inv(c) /\ Bounds(c)
    BY <1>1, <2>1, LegalBounds DEF IInv, CallInv
  <2>3. PICK g \in CopyQueued : Head(load) = Its_copy(g) /\ g \in SlotPinned
    BY <2>2, PinReady
  <2>4. Its_copy(g).layer = LayerAt(g) + 1 /\ Its_copy(g).mb = SlotAt(g)
    BY <2>3, CopyFields DEF CopyQueued
  <2> QED BY <2>3, <2>4 DEF SlotPinned
<1> QED BY <1>1, Invariant, PTL

\* A slot of a page is overwritten when the MoE that used it is done, but for
\* the first slot: only the last micro-batch of the layer may still be at it.
THEOREM PageFreeButLastAlways == Spec => []PageFreeButLast
<1>1. ASSUME IInv PROVE PageFreeButLast
  <2> SUFFICES ASSUME load # <<>>, cold # <<>>, Head(load) = Head(cold),
                      NEW x \in Range(cur), x.op = "post_attention", x.layer <= Head(load).layer - 2
               PROVE  Head(load).mb = 0 /\ x.layer = Head(load).layer - 2 /\ x.mb = num_mb - 1
    BY DEF PageFreeButLast
  <2>1. PICK c : c = Counts(Made)
    OBVIOUS
  <2>2. TypeInv /\ Inv(c) /\ Bounds(c)
    BY <1>1, <2>1, LegalBounds DEF IInv, CallInv
  <2>3. PICK g \in CopyQueued : Head(load) = Its_copy(g)
    BY <2>2, PinReady
  <2>4. PICK h \in PostQueued : x = Its("post_attention", h)
    <3>1. \A i \in Int : Its("pre_attention", i).op = "pre_attention"
      BY ItsFields
    <3> QED BY <2>2, <3>1 DEF Inv, CurInv, PreQueued
  <2>5. g \in Int /\ h \in Int /\ h >= g - 1
    <3>1. g \in c.load - 2 .. c.fetch /\ h \in c.load - 1 .. c.post
      BY <2>2 DEF Inv, CurInv, LoadInv
    <3>2. c.load \in Int /\ c.fetch \in Int /\ c.post \in Int /\ c.fetch <= c.load
      BY <2>2 DEF Bounds
    <3> QED BY <3>1, <3>2
  <2>6. /\ Head(load).layer = LayerAt(g) + 1 /\ Head(load).mb = SlotAt(g)
        /\ x.layer = LayerAt(h) /\ x.mb = SlotAt(h)
        /\ LayerAt(g) \in Int /\ LayerAt(h) \in Int
    BY <2>3, <2>4, <2>5, CopyFields, ItsFields, TurnParts
  <2>7. LayerAt(h) < LayerAt(g)
    BY <2>6
  <2>8. h + 1 = g
    <3>1. g <= h => LayerAt(g) <= LayerAt(h)
      BY <2>5, LayersGrow
    <3> QED BY <2>5, <2>6, <2>7, <3>1
  <2>9. IF SlotAt(h) = num_mb - 1 THEN LayerAt(g) = LayerAt(h) + 1 /\ SlotAt(g) = 0
                                  ELSE LayerAt(g) = LayerAt(h) /\ SlotAt(g) = SlotAt(h) + 1
    BY <2>5, <2>8, LaterTurn
  <2> QED BY <2>6, <2>7, <2>9
<1> QED BY <1>1, Invariant, PTL

=============================================================================
