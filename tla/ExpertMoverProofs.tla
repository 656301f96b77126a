-------------------------- MODULE ExpertMoverProofs --------------------------
(***************************************************************************)
(* The mover's safety for every model geometry, any number of threads and  *)
(* any number of queued copies: slots are exclusive, no two experts are    *)
(* mapped to one row, tracker and mapping agree, and the mover implements  *)
(* ExpertPlacement.                                                        *)
(*                                                                         *)
(* None of the three invariants is inductive alone.  What carries them is  *)
(* what holds while a thread is inside a move: the slot it has chosen is   *)
(* free in the tracker and in the mapping, and stays so because nobody     *)
(* else holds the lock.  The third part is about what the rows hold once   *)
(* the copies that the moves queued have run.                              *)
(***************************************************************************)
EXTENDS ReallocationService, SequenceLemmas, SequenceTheorems, FiniteSetTheorems, TLAPS

-----------------------------------------------------------------------------
(* The rows of the experts cache *)

\* The slots of a layer are persistent rows of the cache.
LEMMA LayerSlotsPersistent ==
  ASSUME NEW l \in Layers, NEW s \in LayerSlots(l)
  PROVE  s \in PersistentRows /\ s \in Nat
<1> DEFINE G == NumGpuExperts
<1>1. l \in Nat /\ l + 1 \in Nat /\ l + 1 <= NumLayers /\ G \in Nat /\ NumLayers \in Nat
  BY LayoutAssumption DEF Layers
<1>2. l * G \in Nat /\ l * G + G = (l + 1) * G /\ NumLayers * G \in Nat
  BY <1>1
<1>3. (l + 1) * G <= NumLayers * G
  BY <1>1
<1>4. s \in Int /\ l * G <= s /\ s <= l * G + G - 1
  BY <1>1, <1>2 DEF LayerSlots
<1>5. 0 <= s /\ s <= NumLayers * G - 1
  <2> DEFINE a == l * G
             b == NumLayers * G
  <2>1. a \in Nat /\ b \in Nat /\ a + G <= b /\ a <= s /\ s <= a + G - 1
    BY <1>2, <1>3, <1>4
  <2> HIDE DEF a, b
  <2> QED BY <2>1, <1>1, <1>4
<1> QED BY <1>4, <1>5, <1>2 DEF PersistentRows

\* Layers own disjoint slots.
LEMMA LayerSlotsDisjoint ==
  ASSUME NEW l \in Layers, NEW m \in Layers, l # m
  PROVE  LayerSlots(l) \cap LayerSlots(m) = {}
<1> DEFINE G == NumGpuExperts
<1>1. l \in Nat /\ m \in Nat /\ G \in Nat
  BY LayoutAssumption DEF Layers
<1>2. l * G \in Nat /\ m * G \in Nat /\ l * G + G = (l + 1) * G /\ m * G + G = (m + 1) * G
  BY <1>1
<1>3. (l + 1 <= m => l * G + G <= m * G) /\ (m + 1 <= l => m * G + G <= l * G)
  <2>1. l + 1 <= m => (l + 1) * G <= m * G
    BY <1>1
  <2>2. m + 1 <= l => (m + 1) * G <= l * G
    BY <1>1
  <2> QED BY <2>1, <2>2, <1>2
<1> DEFINE a == l * G
           b == m * G
<1>4. a \in Nat /\ b \in Nat /\ (a + G <= b \/ b + G <= a)
  <2>1. l + 1 <= m \/ m + 1 <= l
    BY <1>1
  <2> QED BY <2>1, <1>2, <1>3
<1>5. LayerSlots(l) = a .. (a + G - 1) /\ LayerSlots(m) = b .. (b + G - 1)
  BY DEF LayerSlots
<1> HIDE DEF a, b
<1> QED BY <1>1, <1>4, <1>5

\* The rows of the prefetch pages lie behind the persistent rows.
LEMMA PageRowBehind ==
  ASSUME NEW k \in Keys, k[2] >= NumGpuExperts
  PROVE  PageRow(k) \in Nat /\ PageRow(k) \notin PersistentRows /\ PageRow(k) < CacheRows
<1> DEFINE G == NumGpuExperts
           e == k[2]
           b == NumLayers * G
           p == (k[1] % 2) * PageSize
<1>1. k[1] \in Nat /\ e \in Nat /\ e < NumExperts /\ G \in Nat /\ NumExperts \in Nat
      /\ PageSize \in Nat /\ PageSize = NumExperts - G
  BY LayoutAssumption DEF Keys, Layers, Experts, PageSize
<1>2. b \in Nat
  BY LayoutAssumption
<1>3. p \in Nat /\ p <= PageSize
  <2>1. k[1] % 2 = 0 \/ k[1] % 2 = 1
    BY <1>1
  <2> QED BY <2>1, <1>1
<1>4. PageRow(k) = b + p + (e - G) /\ PersistentRows = 0 .. b - 1
      /\ CacheRows = b + 2 * PageSize
  BY DEF PageRow, PersistentRows, CacheRows
<1> HIDE DEF b, p, e
<1> QED BY <1>1, <1>2, <1>3, <1>4 DEF e

\* The initial slots are the layer's own, one per persistent expert.
LEMMA InitialSlotInLayer ==
  ASSUME NEW k \in Keys, k[2] < NumGpuExperts
  PROVE  InitialSlot(k) \in LayerSlots(k[1])
<1>1. k[1] \in Nat /\ k[2] \in Nat /\ NumGpuExperts \in Nat
  BY LayoutAssumption DEF Keys, Layers, Experts
<1>2. k[1] * NumGpuExperts \in Nat
  BY <1>1
<1> QED BY <1>1, <1>2 DEF InitialSlot, LayerSlots

LEMMA InitialSlotsDiffer ==
  ASSUME NEW j \in Keys, NEW k \in Keys, j # k,
         j[2] < NumGpuExperts, k[2] < NumGpuExperts
  PROVE  InitialSlot(j) # InitialSlot(k)
<1>1. CASE j[1] # k[1]
  BY <1>1, InitialSlotInLayer, LayerSlotsDisjoint DEF Keys
<1>2. CASE j[1] = k[1]
  <2>1. j[2] # k[2] /\ j[2] \in Nat /\ k[2] \in Nat /\ k[1] * NumGpuExperts \in Nat
    BY <1>2, LayoutAssumption DEF Keys, Layers, Experts
  <2> QED BY <2>1, <1>2 DEF InitialSlot
<1> QED BY <1>1, <1>2

-----------------------------------------------------------------------------
(* The mover *)

\* A thread that has called a move has an expert, and a slot once it holds the
\* lock: what type correctness needs beyond the types.
HasExpert(t) == pc[t] \notin {"idle", "scan", "delete"} => arg[t] \in Keys
HasSlot(t) == pc[t] \in MoverPlaces => target[t] \in PersistentRows

ArgsOK == \A t \in Threads : HasExpert(t) /\ HasSlot(t)

TypeInv == TypeOK /\ ArgsOK

LEMMA NoKeyNotKey == NoKey \notin Keys
BY DEF NoKey, Keys, Layers

\* The expert whose weights a persistent row starts with exists.
LEMMA InitialRowOwner ==
  ASSUME NEW r \in PersistentRows
  PROVE  <<r \div NumGpuExperts, r % NumGpuExperts>> \in Keys
<1> DEFINE G == NumGpuExperts
<1>1. NumLayers \in Nat /\ G \in Nat /\ NumExperts \in Nat /\ G <= NumExperts
  BY LayoutAssumption
<1>2. r \in Nat /\ r < NumLayers * G
  BY <1>1 DEF PersistentRows
<1>3. G > 0
  <2>1. G = 0 => NumLayers * G = 0
    BY <1>1
  <2> QED BY <1>1, <1>2, <2>1
<1>4. r \div G \in Nat /\ r \div G < NumLayers
  BY <1>1, <1>2, <1>3
<1>5. r % G \in 0 .. G - 1
  BY <1>1, <1>2, <1>3
<1> QED BY <1>1, <1>4, <1>5 DEF Keys, Layers, Experts

LEMMA InitTypeInv == Init => TypeInv
<1> SUFFICES ASSUME Init PROVE TypeInv
  OBVIOUS
<1>1. \A k \in Keys : InitialSlot(k) \in PersistentRows \cup {NoSlot}
  <2> TAKE k \in Keys
  <2>1. k[1] \in Layers
    BY DEF Keys
  <2>2. CASE k[2] < NumGpuExperts
    BY <2>1, <2>2, InitialSlotInLayer, LayerSlotsPersistent
  <2>3. CASE ~(k[2] < NumGpuExperts)
    BY <2>3 DEF InitialSlot
  <2> QED BY <2>2, <2>3
<1>2. \A k \in Keys : InitialRow(k) \in Int
  <2> TAKE k \in Keys
  <2>1. k[1] \in Layers /\ k[2] \in Nat /\ NumGpuExperts \in Nat
    BY LayoutAssumption DEF Keys, Experts
  <2>2. CASE k[2] < NumGpuExperts
    BY <2>1, <2>2, InitialSlotInLayer, LayerSlotsPersistent DEF InitialRow
  <2>3. CASE ~(k[2] < NumGpuExperts)
    BY <2>1, <2>3, PageRowBehind DEF InitialRow
  <2> QED BY <2>2, <2>3
<1>3. rows \in [PersistentRows -> Contents]
  BY InitialRowOwner DEF Init, Contents, Weights
<1>4. store \in [Keys -> Contents]
  BY DEF Init, Contents
<1>5. location \in [Keys -> {Gpu, Cpu}] /\ slot \in [Keys -> PersistentRows \cup {NoSlot}]
      /\ mapping \in [Keys -> Int]
  BY <1>1, <1>2 DEF Init
<1>6. ArgsOK
  BY DEF Init, ArgsOK, HasExpert, HasSlot, MoverPlaces
<1> QED BY <1>3, <1>4, <1>5, <1>6 DEF Init, TypeInv, TypeOK, Places

\* Running one queued copy leaves rows and storage well typed.
LEMMA RunCopyType ==
  ASSUME TypeOK, NEW c \in Copies
  PROVE  /\ RunCopy(Memory, c).rows \in [PersistentRows -> Contents]
         /\ RunCopy(Memory, c).store \in [Keys -> Contents]
<1>1. c.row \in PersistentRows /\ c.of \in Keys /\ c.dummy \in BOOLEAN
  BY DEF Copies
<1>2. rows \in [PersistentRows -> Contents] /\ store \in [Keys -> Contents]
  BY DEF TypeOK
<1>3. [of |-> c.of, genuine |-> FALSE] \in Contents
  BY <1>1 DEF Contents, Weights
<1>4. store[c.of] \in Contents /\ rows[c.row] \in Contents
  BY <1>1, <1>2
<1>5. CASE c.dir = "gpu"
  BY <1>1, <1>2, <1>3, <1>4, <1>5 DEF RunCopy, Memory
<1>6. CASE c.dir # "gpu"
  BY <1>1, <1>2, <1>3, <1>4, <1>6 DEF RunCopy, Memory
<1> QED BY <1>5, <1>6

LEMMA EnqueueType ==
  ASSUME TypeOK, NEW t \in Threads, NEW dir \in Directions, NEW dummy \in BOOLEAN,
         arg[t] \in Keys, target[t] \in PersistentRows, Enqueue(t, dir, dummy)
  PROVE  stream' \in Seq(Copies) /\ events' \subseteq EventKeys
<1> DEFINE c == [dir |-> dir, of |-> arg[t], row |-> target[t],
                 dummy |-> dummy, recorded |-> FALSE]
<1>1. c \in Copies
  BY DEF Copies
<1>2. stream \in Seq(Copies) /\ events \subseteq EventKeys
  BY DEF TypeOK
<1>3. stream' = Append(stream, c) /\ events' = events \cup {<<dir, arg[t]>>}
  BY DEF Enqueue
<1> HIDE DEF c
<1> QED BY <1>1, <1>2, <1>3 DEF EventKeys

LEMMA RecordType ==
  ASSUME TypeOK, Record
  PROVE  stream' \in Seq(Copies)
<1>1. stream \in Seq(Copies) /\ Len(stream) \in Nat
  BY DEF TypeOK
<1>2. \A i \in 1 .. Len(stream) :
        [stream[i] EXCEPT !.recorded = TRUE] \in Copies /\ stream[i] \in Copies
  <2> TAKE i \in 1 .. Len(stream)
  <2>1. stream[i] \in Copies
    BY <1>1
  <2> QED BY <2>1 DEF Copies
<1>3. \A i \in 1 .. Len(stream) :
        (IF i = Len(stream) THEN [stream[i] EXCEPT !.recorded = TRUE] ELSE stream[i]) \in Copies
  BY <1>2
<1> QED BY <1>1, <1>3 DEF Record

\* Type correctness: tracker, mapping, memory, stream, events and lock keep
\* their types in every step of every thread and of the copy stream.
LEMMA NextTypeInv == TypeInv /\ [Next]_vars => TypeInv'
<1> SUFFICES ASSUME TypeInv, [Next]_vars PROVE TypeInv'
  OBVIOUS
<1> USE DEF TypeInv
<1>1. CASE CopyStream
  <2>1. Head(stream) \in Copies /\ Tail(stream) \in Seq(Copies)
    BY <1>1 DEF CopyStream, TypeOK
  <2>2. rows' \in [PersistentRows -> Contents] /\ store' \in [Keys -> Contents]
    BY <1>1, <2>1, RunCopyType DEF CopyStream
  <2> QED BY <1>1, <2>1, <2>2 DEF CopyStream, TypeOK, ArgsOK, HasExpert, HasSlot
<1>2. ASSUME NEW t \in Threads, NEW k \in Movable, CallToGpu(t, k) \/ CallToCpu(t, k)
      PROVE  TypeInv'
  <2>1. k \in Keys
    BY MoverAssumption
  <2> QED BY <1>2, <2>1, ZenonT(40) DEF CallToGpu, CallToCpu, Goto, TypeOK, ArgsOK, HasExpert, HasSlot,
                            Places, MoverPlaces
<1>3. ASSUME NEW t \in Threads, MoveToGpu(t) PROVE TypeInv'
  <2> USE DEF Goto, ArgsOK, HasExpert, HasSlot, Places, MoverPlaces
  <2>1. CASE AcquireToGpu(t)
    <3>0. arg[t] \in Keys
      BY <2>1 DEF AcquireToGpu
    <3>1. CASE pc'[t] = "gpu_copy"
      <4>1. PICK s \in 0 .. CacheRows - 1 :
              /\ find_free_gpu_slot(arg[t][1], s)
              /\ target' = [target EXCEPT ![t] = s]
        BY <2>1, <3>1 DEF AcquireToGpu, TypeOK
      <4>2. s \in PersistentRows
        BY <4>1, <3>0, LayerSlotsPersistent DEF find_free_gpu_slot, FreeSlots, Keys
      <4> QED BY <2>1, <4>1, <4>2, <3>0 DEF AcquireToGpu, TypeOK
    <3>2. CASE pc'[t] # "gpu_copy"
      BY <2>1, <3>0, <3>2, ZenonT(40) DEF AcquireToGpu, TypeOK
    <3> QED BY <3>1, <3>2
  <2>2. CASE CopyToGpu(t)
    <3>1. arg[t] \in Keys /\ target[t] \in PersistentRows
      BY <2>2 DEF CopyToGpu
    <3>2. stream' \in Seq(Copies) /\ events' \subseteq EventKeys
      BY <2>2, <3>1, EnqueueType DEF CopyToGpu, Directions
    <3> QED BY <2>2, <3>1, <3>2 DEF CopyToGpu, TypeOK
  <2>3. CASE CopyToGpuFails(t)
    BY <2>3 DEF CopyToGpuFails, Fail, TypeOK
  <2>4. CASE RecordToGpu(t)
    <3>1. stream' \in Seq(Copies)
      BY <2>4, RecordType DEF RecordToGpu, TypeOK
    <3> QED BY <2>4, <3>1 DEF RecordToGpu, Fail, TypeOK
  <2>5. CASE TrackGpu(t)
    BY <2>5 DEF TrackGpu, TypeOK
  <2>6. CASE MapGpu(t)
    <3>1. target[t] \in Int
      BY <2>6, LayoutAssumption DEF MapGpu, PersistentRows
    <3> QED BY <2>6, <3>1 DEF MapGpu, TypeOK
  <2> QED BY <1>3, <2>1, <2>2, <2>3, <2>4, <2>5, <2>6 DEF MoveToGpu
<1>4. ASSUME NEW t \in Threads, MoveToCpu(t) PROVE TypeInv'
  <2> USE DEF Goto, ArgsOK, HasExpert, HasSlot, Places, MoverPlaces
  <2>0. Allocated(arg[t]) \in [Keys -> Contents]
    BY DEF Allocated, TypeOK, Contents
  <2>1. CASE AcquireToCpu(t)
    <3>1. arg[t] \in Keys
      BY <2>1 DEF AcquireToCpu
    <3>2. slot[arg[t]] >= 0 => slot[arg[t]] \in PersistentRows
      BY <3>1 DEF TypeOK, NoSlot
    <3> QED BY <2>1, <3>1, <3>2, ZenonT(40) DEF AcquireToCpu, TypeOK
  <2>2. CASE CheckEvent(t) \/ FetchEvent(t) \/ Synchronize(t)
    BY <2>2 DEF CheckEvent, FetchEvent, Synchronize, Fail, TypeOK
  <2>3. CASE CopyToCpu(t)
    <3>1. arg[t] \in Keys /\ target[t] \in PersistentRows
      BY <2>3 DEF CopyToCpu
    <3>2. stream' \in Seq(Copies) /\ events' \subseteq EventKeys
      BY <2>3, <3>1, EnqueueType DEF CopyToCpu, Directions
    <3> QED BY <2>3, <2>0, <3>1, <3>2 DEF CopyToCpu, TypeOK
  <2>4. CASE CopyToCpuFails(t)
    BY <2>4, <2>0 DEF CopyToCpuFails, Fail, TypeOK
  <2>5. CASE RecordToCpu(t)
    <3>1. stream' \in Seq(Copies)
      BY <2>5, RecordType DEF RecordToCpu, TypeOK
    <3> QED BY <2>5, <3>1 DEF RecordToCpu, Fail, TypeOK
  <2>6. CASE TrackCpu(t)
    BY <2>6 DEF TrackCpu, TypeOK
  <2>7. CASE MapCpu(t)
    <3>1. arg[t] \in Keys /\ arg[t][2] \in Int
      BY <2>7 DEF MapCpu, Keys, Experts
    <3> QED BY <2>7, <3>1 DEF MapCpu, TypeOK
  <2> QED BY <1>4, <2>1, <2>2, <2>3, <2>4, <2>5, <2>6, <2>7 DEF MoveToCpu
<1>5. ASSUME NEW t \in Threads, Return(t) PROVE TypeInv'
  BY <1>5 DEF Return, Goto, TypeOK, ArgsOK, HasExpert, HasSlot, Places, MoverPlaces
<1>6. ASSUME NEW t \in Threads, Cleanup(t) PROVE TypeInv'
  <2> USE DEF Goto, ArgsOK, HasExpert, HasSlot, Places, MoverPlaces
  <2>1. CASE StartScan(t)
    BY <2>1 DEF StartScan, TypeOK
  <2>3. CASE FinishScan(t)
    <3>1. {e \in events : Complete(e)} \subseteq EventKeys
      BY DEF TypeOK
    <3> QED BY <2>3, <3>1, ZenonT(40) DEF FinishScan, TypeOK
  <2>4. CASE EndCleanup(t)
    BY <2>4 DEF EndCleanup, TypeOK
  <2>2. CASE DeleteEvent(t)
    <3>1. PICK e \in listed[t] :
            /\ events' = events \ {e}
            /\ listed' = [listed EXCEPT ![t] = @ \ {e}]
            /\ stream' = [i \in 1 .. Len(stream) |->
                 [stream[i] EXCEPT !.recorded = @ /\ <<stream[i].dir, stream[i].of>> # e]]
      BY <2>2 DEF DeleteEvent
    <3>2. stream \in Seq(Copies) /\ Len(stream) \in Nat
      BY DEF TypeOK
    <3>3. \A i \in 1 .. Len(stream) :
            [stream[i] EXCEPT !.recorded = @ /\ <<stream[i].dir, stream[i].of>> # e] \in Copies
      <4> TAKE i \in 1 .. Len(stream)
      <4>1. stream[i] \in Copies
        BY <3>2
      <4>2. (stream[i].recorded /\ <<stream[i].dir, stream[i].of>> # e) \in BOOLEAN
        OBVIOUS
      <4> QED BY <4>1, <4>2 DEF Copies
    <3>4. stream' \in Seq(Copies)
      BY <3>1, <3>2, <3>3
    <3>5. listed' \in [Threads -> SUBSET EventKeys] /\ events' \subseteq EventKeys
      BY <3>1 DEF TypeOK
    <3> QED BY <2>2, <3>4, <3>5 DEF DeleteEvent, TypeOK
  <2> QED BY <1>6, <2>1, <2>2, <2>3, <2>4 DEF Cleanup
<1>7. CASE UNCHANGED vars
  BY <1>7 DEF vars, TypeOK, ArgsOK, HasExpert, HasSlot
<1> QED BY <1>1, <1>2, <1>3, <1>4, <1>5, <1>6, <1>7 DEF Next, Call

\* Every reachable state of the mover is well typed.
THEOREM TypeCorrect == Spec => []TypeOK
<1>1. TypeInv => TypeOK
  BY DEF TypeInv
<1> QED BY InitTypeInv, NextTypeInv, <1>1, PTL DEF Spec

-----------------------------------------------------------------------------
(* The inductive invariant *)

TakingSlot == {"gpu_copy", "gpu_record", "gpu_track"}
LeavingSlot == {"cpu_check", "cpu_fetch", "cpu_sync", "cpu_copy", "cpu_record", "cpu_track"}

\* Exactly the thread that is inside a move holds the lock.
LockInv == \A t \in Threads : pc[t] \in MoverPlaces <=> lock = t

\* A slot that a thread has chosen is of the expert's layer and no expert's row.
FreeTarget(t) ==
  /\ target[t] \in LayerSlots(arg[t][1])
  /\ \A k \in Keys : mapping[k] # target[t]

MoveInv(t) ==
  /\ pc[t] \in TakingSlot =>
       /\ location[arg[t]] = Cpu
       /\ FreeTarget(t)
       /\ \A k \in Keys : location[k] = Gpu => slot[k] # target[t]
  /\ pc[t] = "gpu_map" =>
       location[arg[t]] = Gpu /\ slot[arg[t]] = target[t] /\ FreeTarget(t)
  /\ pc[t] \in LeavingSlot => location[arg[t]] = Gpu /\ slot[arg[t]] = target[t]
  /\ pc[t] = "cpu_map" => location[arg[t]] = Cpu /\ slot[arg[t]] = NoSlot

PlacementInv == SlotsExclusive /\ NoSharedRow /\ MappingAgrees

IInv == TypeInv /\ LockInv /\ (\A t \in Threads : MoveInv(t)) /\ PlacementInv

-----------------------------------------------------------------------------
LEMMA KeyParts ==
  ASSUME NEW k \in Keys
  PROVE  k = <<k[1], k[2]>> /\ k[1] \in Layers /\ k[2] \in Nat
BY DEF Keys, Experts

LEMMA InitSafety == Init => IInv
<1> SUFFICES ASSUME Init PROVE IInv
  OBVIOUS
<1>1. TypeInv
  BY InitTypeInv
<1>2. LockInv /\ \A t \in Threads : MoveInv(t)
  BY MoverAssumption DEF Init, LockInv, MoveInv, MoverPlaces, TakingSlot, LeavingSlot
<1>3. \A k \in Keys : location[k] = Gpu <=> k[2] < NumGpuExperts
  BY DEF Init, Gpu, Cpu
<1>4. \A k \in Keys : slot[k] = InitialSlot(k) /\ mapping[k] = InitialRow(k)
  BY DEF Init
<1>5. SlotsExclusive
  BY <1>3, <1>4, InitialSlotInLayer, InitialSlotsDiffer
  DEF SlotsExclusive, PersistentExperts
<1>6. MappingAgrees
  <2> SUFFICES ASSUME NEW k \in Keys
               PROVE  IF location[k] = Gpu THEN mapping[k] = slot[k]
                      ELSE slot[k] = NoSlot /\ CpuEntry(k, mapping[k])
    BY DEF MappingAgrees
  <2>1. k[2] \in Nat /\ NumGpuExperts \in Nat
    BY KeyParts, LayoutAssumption
  <2>2. CASE k[2] < NumGpuExperts
    BY <1>3, <1>4, <2>2 DEF InitialRow
  <2>3. CASE ~(k[2] < NumGpuExperts)
    BY <1>3, <1>4, <2>1, <2>3 DEF InitialRow, InitialSlot, CpuEntry
  <2> QED BY <2>2, <2>3
<1>7. NoSharedRow
  <2> SUFFICES ASSUME NEW j \in Keys, NEW k \in Keys, j # k, mapping[j] = mapping[k]
               PROVE  j[1] # k[1] /\ mapping[j] \notin PersistentRows
    BY DEF NoSharedRow
  <2>0. j[2] \in Nat /\ k[2] \in Nat /\ NumGpuExperts \in Nat /\ j[1] \in Layers /\ k[1] \in Layers
    BY KeyParts, LayoutAssumption
  <2>1. \A i \in Keys : i[2] < NumGpuExperts => mapping[i] \in PersistentRows
    BY <1>4, KeyParts, InitialSlotInLayer, LayerSlotsPersistent DEF InitialRow
  <2>2. \A i \in Keys : i[2] >= NumGpuExperts =>
          mapping[i] = PageRow(i) /\ mapping[i] \notin PersistentRows
    <3> TAKE i \in Keys
    <3>1. i[2] \in Nat
      BY KeyParts
    <3> QED BY <1>4, <2>0, <3>1, PageRowBehind DEF InitialRow
  <2>3. CASE j[2] < NumGpuExperts
    <3>1. k[2] < NumGpuExperts
      BY <2>0, <2>1, <2>2, <2>3
    <3> QED BY <1>4, <2>3, <3>1, InitialSlotsDiffer DEF InitialRow
  <2>4. CASE ~(j[2] < NumGpuExperts)
    <3>1. k[2] >= NumGpuExperts /\ j[2] >= NumGpuExperts
      BY <2>0, <2>1, <2>2, <2>4
    <3>2. PageRow(j) = PageRow(k) /\ mapping[j] \notin PersistentRows
      BY <2>2, <3>1
    <3>3. j[1] # k[1]
      <4>1. SUFFICES ASSUME j[1] = k[1] PROVE FALSE
        OBVIOUS
      <4> DEFINE a == NumLayers * NumGpuExperts + (j[1] % 2) * PageSize
      <4>2. a \in Int
        <5>1. j[1] % 2 \in Int /\ PageSize \in Int /\ NumLayers * NumGpuExperts \in Int
          BY <2>0, LayoutAssumption DEF Layers, PageSize
        <5> QED BY <5>1
      <4>3. a + (j[2] - NumGpuExperts) = a + (k[2] - NumGpuExperts)
        BY <3>2, <4>1 DEF PageRow
      <4> HIDE DEF a
      <4>4. j[2] = k[2]
        BY <4>2, <4>3, <2>0
      <4> QED BY <4>1, <4>4, KeyParts
    <3> QED BY <3>2, <3>3
  <2> QED BY <2>3, <2>4
<1> QED BY <1>1, <1>2, <1>5, <1>6, <1>7 DEF IInv, PlacementInv

-----------------------------------------------------------------------------
(* Steps that leave tracker and mapping alone *)

\* The copy stream, and every step of cleanup.
LEMMA StutterSafety ==
  ASSUME IInv, TypeInv', UNCHANGED <<location, slot, mapping, lock, arg, target>>,
         pc' \in [Threads -> Places],
         \A t \in Threads : pc'[t] = pc[t]
                            \/ {pc[t], pc'[t]} \subseteq {"idle", "scan", "delete"}
  PROVE  IInv'
<1> USE DEF IInv
<1>1. LockInv'
  BY DEF LockInv, MoverPlaces
<1>2. \A t \in Threads : MoveInv(t)'
  BY DEF MoveInv, FreeTarget, TakingSlot, LeavingSlot
<1>3. SlotsExclusive' /\ NoSharedRow'
  BY DEF PlacementInv, SlotsExclusive, NoSharedRow, PersistentExperts
<1>4. MappingAgrees'
  BY DEF PlacementInv, MappingAgrees, Moving, CpuEntry
<1> QED BY <1>1, <1>2, <1>3, <1>4 DEF PlacementInv

\* A step of thread t alone, which is not at the last step of a move.
LEMMA QuietSafety ==
  ASSUME IInv, TypeInv', LockInv', NEW t \in Threads,
         UNCHANGED <<location, slot, mapping>>,
         \A u \in Threads \ {t} : pc'[u] = pc[u] /\ arg'[u] = arg[u] /\ target'[u] = target[u],
         pc[t] \notin {"gpu_map", "cpu_map"},
         MoveInv(t)'
  PROVE  IInv'
<1> USE DEF IInv
<1>1. \A u \in Threads : MoveInv(u)'
  <2> TAKE u \in Threads
  <2>1. CASE u # t
    BY <2>1 DEF MoveInv, FreeTarget
  <2> QED BY <2>1
<1>2. SlotsExclusive' /\ NoSharedRow'
  BY DEF PlacementInv, SlotsExclusive, NoSharedRow, PersistentExperts
<1>3. \A k \in Keys : Moving(k) => Moving(k)'
  BY DEF Moving
<1>4. MappingAgrees'
  BY <1>3 DEF PlacementInv, MappingAgrees, CpuEntry
<1> QED BY <1>1, <1>2, <1>4 DEF PlacementInv

-----------------------------------------------------------------------------
(* The steps of a move *)

\* The slot that the search finds is no expert's, in the tracker and in the
\* mapping, because no move is under way.
LEMMA FoundSlotFree ==
  ASSUME IInv, lock = NoThread, NEW k \in Keys, NEW s, find_free_gpu_slot(k[1], s)
  PROVE  /\ s \in LayerSlots(k[1])
         /\ \A j \in Keys : mapping[j] # s
         /\ \A j \in Keys : location[j] = Gpu => slot[j] # s
<1>1. s \in LayerSlots(k[1]) /\ is_slot_free(k[1], s) /\ k[1] \in Layers
  BY KeyParts DEF find_free_gpu_slot, FreeSlots
<1>2. s \in PersistentRows /\ s \in Nat
  BY <1>1, LayerSlotsPersistent
<1>3. \A j \in Keys : location[j] = Gpu => slot[j] # s
  <2> SUFFICES ASSUME NEW j \in Keys, location[j] = Gpu PROVE slot[j] # s
    OBVIOUS
  <2>1. CASE j[1] = k[1]
    BY <1>1, <2>1 DEF is_slot_free, LayerPersistent, PersistentExperts
  <2>2. CASE j[1] # k[1]
    <3>1. slot[j] \in LayerSlots(j[1])
      BY DEF IInv, PlacementInv, SlotsExclusive, PersistentExperts
    <3> QED BY <1>1, <2>2, <3>1, LayerSlotsDisjoint, KeyParts
  <2> QED BY <2>1, <2>2
<1>4. \A j \in Keys : mapping[j] # s
  <2> TAKE j \in Keys
  <2>1. ~Moving(j)
    BY MoverAssumption DEF IInv, LockInv, Moving, MoverPlaces
  <2>2. CASE location[j] = Gpu
    BY <1>3, <2>1, <2>2 DEF IInv, PlacementInv, MappingAgrees
  <2>3. CASE location[j] # Gpu
    <3>1. CpuEntry(j, mapping[j]) /\ j[2] \in Nat
      BY <2>1, <2>3, KeyParts DEF IInv, PlacementInv, MappingAgrees
    <3>2. CASE mapping[j] = -j[2] - 1
      BY <1>2, <3>1, <3>2
    <3>3. CASE j[2] >= NumGpuExperts /\ mapping[j] = PageRow(j)
      BY <1>2, <3>3, PageRowBehind
    <3> QED BY <3>1, <3>2, <3>3 DEF CpuEntry
  <2> QED BY <2>2, <2>3
<1> QED BY <1>1, <1>3, <1>4

LEMMA MoveToGpuSafety ==
  ASSUME IInv, TypeInv', NEW t \in Threads, MoveToGpu(t)
  PROVE  IInv'
<1> USE DEF Goto
<1>0. arg[t] \in Keys /\ pc \in [Threads -> Places] /\ target \in [Threads -> PersistentRows \cup {NoSlot}]
      /\ location \in [Keys -> {Gpu, Cpu}] /\ slot \in [Keys -> PersistentRows \cup {NoSlot}]
      /\ mapping \in [Keys -> Int] /\ lock \in Threads \cup {NoThread}
  BY DEF IInv, TypeInv, TypeOK, ArgsOK, HasExpert, MoveToGpu, AcquireToGpu, CopyToGpu,
         CopyToGpuFails, RecordToGpu, TrackGpu, MapGpu
<1>1. CASE AcquireToGpu(t)
  <2>1. CASE pc'[t] = "gpu_copy"
    <3>1. PICK s \in 0 .. CacheRows - 1 :
            /\ find_free_gpu_slot(arg[t][1], s)
            /\ target' = [target EXCEPT ![t] = s]
      BY <1>0, <1>1, <2>1 DEF AcquireToGpu
    <3>2. lock = NoThread /\ lock' = t /\ target'[t] = s /\ location[arg[t]] # Gpu
      BY <1>0, <1>1, <2>1, <3>1 DEF AcquireToGpu, can_move_to_gpu
    <3>3. MoveInv(t)'
      <4>1. FreeTarget(t)' /\ \A k \in Keys : location'[k] = Gpu => slot'[k] # target'[t]
        BY <1>0, <1>1, <3>1, <3>2, FoundSlotFree DEF AcquireToGpu, FreeTarget
      <4>2. location'[arg'[t]] = Cpu
        BY <1>0, <1>1, <3>2 DEF AcquireToGpu
      <4> QED BY <2>1, <4>1, <4>2 DEF MoveInv, TakingSlot, LeavingSlot
    <3>4. LockInv'
      BY <1>0, <1>1, <2>1, <3>2, MoverAssumption DEF IInv, LockInv, AcquireToGpu, MoverPlaces
    <3> QED BY <1>0, <1>1, <2>1, <3>1, <3>3, <3>4, QuietSafety DEF AcquireToGpu
  <2>2. CASE pc'[t] # "gpu_copy"
    <3>1. pc' = [pc EXCEPT ![t] = "refused"] /\ UNCHANGED <<lock, target>> /\ lock = NoThread
      BY <1>0, <1>1, <2>2 DEF AcquireToGpu
    <3>2. MoveInv(t)'
      BY <1>0, <3>1 DEF MoveInv, TakingSlot, LeavingSlot
    <3>3. LockInv'
      BY <1>0, <3>1, MoverAssumption DEF IInv, LockInv, MoverPlaces
    <3> QED BY <1>0, <1>1, <3>1, <3>2, <3>3, QuietSafety DEF AcquireToGpu
  <2> QED BY <2>1, <2>2
<1>2. CASE CopyToGpu(t) \/ CopyToGpuFails(t) \/ RecordToGpu(t)
  <2>1. pc[t] \in TakingSlot /\ lock = t
    BY <1>2 DEF CopyToGpu, CopyToGpuFails, RecordToGpu, TakingSlot, IInv, LockInv, MoverPlaces
  <2>2. /\ UNCHANGED <<location, slot, mapping, arg, target>>
        /\ \/ \E p \in {"gpu_record", "gpu_track"} : pc' = [pc EXCEPT ![t] = p] /\ lock' = lock
           \/ pc' = [pc EXCEPT ![t] = "refused"] /\ lock' = NoThread
    BY <1>2 DEF CopyToGpu, CopyToGpuFails, RecordToGpu, Fail
  <2>3. MoveInv(t)'
    BY <1>0, <2>1, <2>2 DEF IInv, MoveInv, FreeTarget, TakingSlot, LeavingSlot
  <2>4. LockInv'
    BY <1>0, <2>1, <2>2, MoverAssumption DEF IInv, LockInv, MoverPlaces
  <2> QED BY <1>0, <2>1, <2>2, <2>3, <2>4, QuietSafety DEF TakingSlot
<1>3. CASE TrackGpu(t)
  <2> DEFINE k == arg[t]
  <2>1. pc[t] = "gpu_track" /\ pc' = [pc EXCEPT ![t] = "gpu_map"] /\ lock = t
        /\ location' = [location EXCEPT ![k] = Gpu] /\ slot' = [slot EXCEPT ![k] = target[t]]
        /\ UNCHANGED <<mapping, lock, arg, target>>
    BY <1>3 DEF TrackGpu, IInv, LockInv, MoverPlaces
  <2>2. /\ FreeTarget(t) /\ location[k] = Cpu
        /\ \A j \in Keys : location[j] = Gpu => slot[j] # target[t]
    BY <2>1 DEF IInv, MoveInv, TakingSlot
  <2>3. LockInv'
    BY <1>0, <2>1 DEF IInv, LockInv, MoverPlaces
  <2>4. \A u \in Threads : MoveInv(u)'
    <3> TAKE u \in Threads
    <3>1. CASE u = t
      BY <1>0, <2>1, <2>2, <3>1 DEF MoveInv, FreeTarget, TakingSlot, LeavingSlot
    <3>2. CASE u # t
      <4>1. pc'[u] \notin MoverPlaces
        BY <1>0, <2>1, <2>3, <3>2 DEF LockInv
      <4> QED BY <4>1 DEF MoveInv, MoverPlaces, TakingSlot, LeavingSlot
    <3> QED BY <3>1, <3>2
  <2>5. SlotsExclusive'
    BY <1>0, <2>1, <2>2 DEF IInv, PlacementInv, SlotsExclusive, PersistentExperts, FreeTarget
  <2>6. NoSharedRow'
    BY <2>1 DEF IInv, PlacementInv, NoSharedRow
  <2>7. MappingAgrees'
    <3> SUFFICES ASSUME NEW j \in Keys, ~Moving(j)'
                 PROVE  (IF location[j] = Gpu THEN mapping[j] = slot[j]
                         ELSE slot[j] = NoSlot /\ CpuEntry(j, mapping[j]))'
      BY DEF MappingAgrees
    <3>1. j # k
      BY <1>0, <2>1 DEF Moving
    <3>2. ~Moving(j)
      BY <1>0, <2>1 DEF Moving
    <3> QED BY <1>0, <2>1, <3>1, <3>2 DEF IInv, PlacementInv, MappingAgrees, CpuEntry
  <2> QED BY <2>3, <2>4, <2>5, <2>6, <2>7 DEF IInv, PlacementInv
<1>4. CASE MapGpu(t)
  <2> DEFINE k == arg[t]
  <2>1. pc[t] = "gpu_map" /\ pc' = [pc EXCEPT ![t] = "moved"] /\ lock = t /\ lock' = NoThread
        /\ mapping' = [mapping EXCEPT ![k] = target[t]]
        /\ UNCHANGED <<location, slot, arg, target>>
    BY <1>4 DEF MapGpu, IInv, LockInv, MoverPlaces
  <2>2. FreeTarget(t) /\ location[k] = Gpu /\ slot[k] = target[t]
    BY <2>1 DEF IInv, MoveInv
  <2>3. LockInv'
    BY <1>0, <2>1, MoverAssumption DEF IInv, LockInv, MoverPlaces
  <2>4. \A u \in Threads : MoveInv(u)'
    <3> TAKE u \in Threads
    <3>1. pc'[u] \notin MoverPlaces
      BY <1>0, <2>1, <2>3, MoverAssumption DEF LockInv
    <3> QED BY <3>1 DEF MoveInv, MoverPlaces, TakingSlot, LeavingSlot
  <2>5. SlotsExclusive'
    BY <2>1 DEF IInv, PlacementInv, SlotsExclusive, PersistentExperts
  <2>6. NoSharedRow'
    BY <1>0, <2>1, <2>2 DEF IInv, PlacementInv, NoSharedRow, FreeTarget
  <2>7. MappingAgrees'
    <3> SUFFICES ASSUME NEW j \in Keys
                 PROVE  (IF location[j] = Gpu THEN mapping[j] = slot[j]
                         ELSE slot[j] = NoSlot /\ CpuEntry(j, mapping[j]))'
      BY DEF MappingAgrees
    <3>1. CASE j = k
      BY <1>0, <2>1, <2>2, <3>1
    <3>2. CASE j # k
      <4>1. ~Moving(j)
        BY <2>1, <3>2 DEF IInv, LockInv, Moving, MoverPlaces
      <4> QED BY <1>0, <2>1, <3>2, <4>1 DEF IInv, PlacementInv, MappingAgrees, CpuEntry
    <3> QED BY <3>1, <3>2
  <2> QED BY <2>3, <2>4, <2>5, <2>6, <2>7 DEF IInv, PlacementInv
<1> QED BY <1>1, <1>2, <1>3, <1>4 DEF MoveToGpu

LEMMA MoveToCpuSafety ==
  ASSUME IInv, TypeInv', NEW t \in Threads, MoveToCpu(t)
  PROVE  IInv'
<1> USE DEF Goto
<1>0. arg[t] \in Keys /\ pc \in [Threads -> Places] /\ target \in [Threads -> PersistentRows \cup {NoSlot}]
      /\ location \in [Keys -> {Gpu, Cpu}] /\ slot \in [Keys -> PersistentRows \cup {NoSlot}]
      /\ mapping \in [Keys -> Int] /\ lock \in Threads \cup {NoThread}
  BY DEF IInv, TypeInv, TypeOK, ArgsOK, HasExpert, MoveToCpu, AcquireToCpu, CheckEvent,
         FetchEvent, Synchronize, CopyToCpu, CopyToCpuFails, RecordToCpu, TrackCpu, MapCpu
<1>1. CASE AcquireToCpu(t)
  <2>1. /\ lock = NoThread /\ pc[t] = "to_cpu"
        /\ UNCHANGED <<location, slot, mapping, arg>>
        /\ \/ /\ location[arg[t]] = Gpu /\ lock' = t
              /\ target' = [target EXCEPT ![t] = slot[arg[t]]]
              /\ pc' = [pc EXCEPT ![t] = "cpu_check"]
           \/ pc' = [pc EXCEPT ![t] = "refused"] /\ UNCHANGED <<lock, target>>
    BY <1>1 DEF AcquireToCpu
  <2>2. MoveInv(t)'
    BY <1>0, <2>1 DEF MoveInv, TakingSlot, LeavingSlot
  <2>3. LockInv'
    BY <1>0, <2>1, MoverAssumption DEF IInv, LockInv, MoverPlaces
  <2> QED BY <1>0, <2>1, <2>2, <2>3, QuietSafety
<1>2. CASE \/ CheckEvent(t) \/ FetchEvent(t) \/ Synchronize(t)
           \/ CopyToCpu(t) \/ CopyToCpuFails(t) \/ RecordToCpu(t)
  <2>1. pc[t] \in LeavingSlot /\ lock = t
    BY <1>2 DEF CheckEvent, FetchEvent, Synchronize, CopyToCpu, CopyToCpuFails, RecordToCpu,
                LeavingSlot, IInv, LockInv, MoverPlaces
  <2>2. /\ UNCHANGED <<location, slot, mapping, arg, target>>
        /\ \/ \E p \in LeavingSlot : pc' = [pc EXCEPT ![t] = p] /\ lock' = lock
           \/ pc' = [pc EXCEPT ![t] = "refused"] /\ lock' = NoThread
    BY <1>2 DEF CheckEvent, FetchEvent, Synchronize, CopyToCpu, CopyToCpuFails, RecordToCpu,
                Fail, LeavingSlot
  <2>3. MoveInv(t)'
    BY <1>0, <2>1, <2>2 DEF IInv, MoveInv, TakingSlot, LeavingSlot
  <2>4. LockInv'
    BY <1>0, <2>1, <2>2, MoverAssumption DEF IInv, LockInv, MoverPlaces, LeavingSlot
  <2> QED BY <1>0, <2>1, <2>2, <2>3, <2>4, QuietSafety DEF LeavingSlot
<1>3. CASE TrackCpu(t)
  <2> DEFINE k == arg[t]
  <2>1. pc[t] = "cpu_track" /\ pc' = [pc EXCEPT ![t] = "cpu_map"] /\ lock = t
        /\ location' = [location EXCEPT ![k] = Cpu] /\ slot' = [slot EXCEPT ![k] = NoSlot]
        /\ UNCHANGED <<mapping, lock, arg, target>>
    BY <1>3 DEF TrackCpu, IInv, LockInv, MoverPlaces
  <2>2. Gpu # Cpu
    BY DEF Gpu, Cpu
  <2>3. LockInv'
    BY <1>0, <2>1 DEF IInv, LockInv, MoverPlaces
  <2>4. \A u \in Threads : MoveInv(u)'
    <3> TAKE u \in Threads
    <3>1. CASE u = t
      BY <1>0, <2>1, <3>1 DEF MoveInv, TakingSlot, LeavingSlot
    <3>2. CASE u # t
      <4>1. pc'[u] \notin MoverPlaces
        BY <1>0, <2>1, <2>3, <3>2 DEF LockInv
      <4> QED BY <4>1 DEF MoveInv, MoverPlaces, TakingSlot, LeavingSlot
    <3> QED BY <3>1, <3>2
  <2>5. SlotsExclusive'
    BY <1>0, <2>1, <2>2 DEF IInv, PlacementInv, SlotsExclusive, PersistentExperts
  <2>6. NoSharedRow'
    BY <2>1 DEF IInv, PlacementInv, NoSharedRow
  <2>7. MappingAgrees'
    <3> SUFFICES ASSUME NEW j \in Keys, ~Moving(j)'
                 PROVE  (IF location[j] = Gpu THEN mapping[j] = slot[j]
                         ELSE slot[j] = NoSlot /\ CpuEntry(j, mapping[j]))'
      BY DEF MappingAgrees
    <3>1. j # k
      BY <1>0, <2>1 DEF Moving
    <3>2. ~Moving(j)
      BY <1>0, <2>1 DEF Moving
    <3> QED BY <1>0, <2>1, <3>1, <3>2 DEF IInv, PlacementInv, MappingAgrees, CpuEntry
  <2> QED BY <2>3, <2>4, <2>5, <2>6, <2>7 DEF IInv, PlacementInv
<1>4. CASE MapCpu(t)
  <2> DEFINE k == arg[t]
  <2>1. pc[t] = "cpu_map" /\ pc' = [pc EXCEPT ![t] = "moved"] /\ lock = t /\ lock' = NoThread
        /\ mapping' = [mapping EXCEPT ![k] = -k[2] - 1]
        /\ UNCHANGED <<location, slot, arg, target>>
    BY <1>4 DEF MapCpu, IInv, LockInv, MoverPlaces
  <2>2. location[k] = Cpu /\ slot[k] = NoSlot /\ k[2] \in Nat /\ Gpu # Cpu
    BY <1>0, <2>1, KeyParts DEF IInv, MoveInv, Gpu, Cpu
  <2>3. LockInv'
    BY <1>0, <2>1, MoverAssumption DEF IInv, LockInv, MoverPlaces
  <2>4. \A u \in Threads : MoveInv(u)'
    <3> TAKE u \in Threads
    <3>1. pc'[u] \notin MoverPlaces
      BY <1>0, <2>1, <2>3, MoverAssumption DEF LockInv
    <3> QED BY <3>1 DEF MoveInv, MoverPlaces, TakingSlot, LeavingSlot
  <2>5. SlotsExclusive'
    BY <2>1 DEF IInv, PlacementInv, SlotsExclusive, PersistentExperts
  <2>6. NoSharedRow'
    <3>1. mapping'[k] < 0 /\ \A j \in Keys : j # k => mapping'[j] = mapping[j]
      BY <1>0, <2>1, <2>2
    <3> SUFFICES ASSUME NEW i \in Keys, NEW j \in Keys, i # j,
                        mapping'[i] = mapping'[j], mapping'[i] >= 0
                 PROVE  i[1] # j[1] /\ mapping'[i] \notin PersistentRows
      BY DEF NoSharedRow
    <3>2. i # k /\ j # k
      BY <1>0, <2>1, <2>2, <3>1
    <3> QED BY <3>1, <3>2 DEF IInv, PlacementInv, NoSharedRow
  <2>7. MappingAgrees'
    <3> SUFFICES ASSUME NEW j \in Keys
                 PROVE  (IF location[j] = Gpu THEN mapping[j] = slot[j]
                         ELSE slot[j] = NoSlot /\ CpuEntry(j, mapping[j]))'
      BY DEF MappingAgrees
    <3>1. CASE j = k
      BY <1>0, <2>1, <2>2, <3>1 DEF CpuEntry
    <3>2. CASE j # k
      <4>1. ~Moving(j)
        BY <2>1, <3>2 DEF IInv, LockInv, Moving, MoverPlaces
      <4> QED BY <1>0, <2>1, <3>2, <4>1 DEF IInv, PlacementInv, MappingAgrees, CpuEntry
    <3> QED BY <3>1, <3>2
  <2> QED BY <2>3, <2>4, <2>5, <2>6, <2>7 DEF IInv, PlacementInv
<1> QED BY <1>1, <1>2, <1>3, <1>4 DEF MoveToCpu

LEMMA NextSafety == IInv /\ [Next]_vars => IInv'
<1> SUFFICES ASSUME IInv, [Next]_vars PROVE IInv'
  OBVIOUS
<1>0. TypeInv' /\ pc' \in [Threads -> Places]
  BY NextTypeInv DEF IInv, TypeInv, TypeOK
<1>1. CASE CopyStream
  BY <1>0, <1>1, StutterSafety DEF CopyStream
<1>2. ASSUME NEW t \in Threads, NEW k \in Movable, CallToGpu(t, k) \/ CallToCpu(t, k)
      PROVE  IInv'
  <2>1. /\ pc[t] = "idle" /\ UNCHANGED <<location, slot, mapping, lock, target>>
        /\ arg' = [arg EXCEPT ![t] = k]
        /\ \E p \in {"to_gpu", "to_cpu"} : pc' = [pc EXCEPT ![t] = p]
    BY <1>2 DEF CallToGpu, CallToCpu, Goto
  <2>2. pc \in [Threads -> Places] /\ arg \in [Threads -> Keys \cup {NoKey}]
    BY DEF IInv, TypeInv, TypeOK
  <2>3. LockInv'
    BY <2>1, <2>2 DEF IInv, LockInv, MoverPlaces
  <2>4. MoveInv(t)'
    BY <2>1, <2>2 DEF MoveInv, TakingSlot, LeavingSlot
  <2> QED BY <1>0, <2>1, <2>2, <2>3, <2>4, QuietSafety
<1>3. ASSUME NEW t \in Threads, Return(t) PROVE IInv'
  <2>1. /\ pc[t] \in {"moved", "refused"} /\ UNCHANGED <<location, slot, mapping, lock>>
        /\ arg' = [arg EXCEPT ![t] = NoKey] /\ target' = [target EXCEPT ![t] = NoSlot]
        /\ pc' = [pc EXCEPT ![t] = "idle"]
    BY <1>3 DEF Return, Goto
  <2>2. pc \in [Threads -> Places]
    BY DEF IInv, TypeInv, TypeOK
  <2>2a. \A u \in Threads \ {t} : pc'[u] = pc[u] /\ arg'[u] = arg[u] /\ target'[u] = target[u]
    BY <2>1 DEF IInv, TypeInv, TypeOK
  <2>3. LockInv'
    BY <2>1, <2>2 DEF IInv, LockInv, MoverPlaces
  <2>4. MoveInv(t)'
    BY <2>1, <2>2 DEF MoveInv, TakingSlot, LeavingSlot
  <2> QED BY <1>0, <2>1, <2>2, <2>2a, <2>3, <2>4, QuietSafety
<1>4. ASSUME NEW t \in Threads, Cleanup(t) PROVE IInv'
  <2>1. /\ UNCHANGED <<location, slot, mapping, lock, arg, target>>
        /\ \/ pc' = pc
           \/ /\ pc[t] \in {"idle", "scan", "delete"}
              /\ \E p \in {"idle", "scan", "delete"} : pc' = [pc EXCEPT ![t] = p]
    BY <1>4 DEF Cleanup, StartScan, FinishScan, DeleteEvent, EndCleanup, Goto
  <2>2. \A u \in Threads : pc'[u] = pc[u]
                           \/ {pc[u], pc'[u]} \subseteq {"idle", "scan", "delete"}
    BY <2>1 DEF IInv, TypeInv, TypeOK
  <2> QED BY <1>0, <2>1, <2>2, StutterSafety
<1>5. CASE UNCHANGED vars
  BY <1>0, <1>5, StutterSafety DEF vars
<1> QED BY <1>0, <1>1, <1>2, <1>3, <1>4, <1>5, MoveToGpuSafety, MoveToCpuSafety DEF Next, Call

LEMMA Safety == Spec => []IInv
BY InitSafety, NextSafety, PTL DEF Spec

\* No two persistent experts share a slot, and each is in its layer's rows.
THEOREM SlotsExclusiveAlways == Spec => []SlotsExclusive
<1>1. IInv => SlotsExclusive
  BY DEF IInv, PlacementInv
<1> QED BY Safety, <1>1, PTL

\* The MoE kernel never finds two experts of a layer, or a persistent expert
\* and any other, at one row of the experts cache.
THEOREM NoSharedRowAlways == Spec => []NoSharedRow
<1>1. IInv => NoSharedRow
  BY DEF IInv, PlacementInv
<1> QED BY Safety, <1>1, PTL

\* Outside the last step of a move, tracker and mapping say the same.
THEOREM MappingAgreesAlways == Spec => []MappingAgrees
<1>1. IInv => MappingAgrees
  BY DEF IInv, PlacementInv
<1> QED BY Safety, <1>1, PTL

-----------------------------------------------------------------------------
(* The mover implements the abstract placement *)

\* The abstract specification speaks of the same rows.
LEMMA SameLayout ==
  /\ Placement!Keys = Keys /\ Placement!NoSlot = NoSlot
  /\ \A k : Placement!InitialSlot(k) = InitialSlot(k)
  /\ \A l : Placement!LayerSlots(l) = LayerSlots(l)
BY DEF Placement!Keys, Keys, Placement!Layers, Layers, Placement!Experts, Experts,
       Placement!NoSlot, NoSlot, Placement!InitialSlot, InitialSlot,
       Placement!LayerSlots, LayerSlots

LEMMA InitRefines == Init => Placement!Init
<1> SUFFICES ASSUME Init PROVE Placement!Init
  OBVIOUS
<1>1. \A k \in Keys : (IF location[k] = Gpu THEN slot[k] ELSE NoSlot) = InitialSlot(k)
  BY DEF Init, Gpu, Cpu, InitialSlot
<1> QED BY <1>1, SameLayout DEF Placement!Init

\* Taking a slot in the tracker is a Promote, leaving it a Demote; every other
\* step leaves the placement as it is.
LEMMA NextRefines ==
  IInv /\ [Next]_vars => [Placement!Next]_([k \in Keys |-> IF location[k] = Gpu THEN slot[k] ELSE NoSlot])
<1> DEFINE home == [k \in Keys |-> IF location[k] = Gpu THEN slot[k] ELSE NoSlot]
<1> SUFFICES ASSUME IInv, [Next]_vars PROVE Placement!Next \/ home' = home
  OBVIOUS
<1>0. location \in [Keys -> {Gpu, Cpu}] /\ slot \in [Keys -> PersistentRows \cup {NoSlot}]
      /\ Gpu # Cpu
  BY DEF IInv, TypeInv, TypeOK, Gpu, Cpu
<1>1. ASSUME NEW t \in Threads, TrackGpu(t) PROVE Placement!Next
  <2> DEFINE k == arg[t]
  <2>1. pc[t] = "gpu_track" /\ location' = [location EXCEPT ![k] = Gpu]
        /\ slot' = [slot EXCEPT ![k] = target[t]]
    BY <1>1 DEF TrackGpu
  <2>2. k \in Keys /\ target[t] \in LayerSlots(k[1]) /\ location[k] = Cpu
        /\ \A j \in Keys : location[j] = Gpu => slot[j] # target[t]
    BY <2>1 DEF IInv, TypeInv, ArgsOK, HasExpert, MoveInv, TakingSlot, FreeTarget
  <2>3. target[t] # NoSlot
    BY <2>2, KeyParts, LayerSlotsPersistent DEF NoSlot
  <2>4. home[k] = NoSlot /\ \A j \in Keys : home[j] # target[t]
    BY <1>0, <2>2, <2>3
  <2>5. home' = [home EXCEPT ![k] = target[t]]
    BY <1>0, <2>1, <2>2
  <2> QED BY <2>2, <2>4, <2>5, SameLayout DEF Placement!Next, Placement!Promote
<1>2. ASSUME NEW t \in Threads, TrackCpu(t) PROVE Placement!Next
  <2> DEFINE k == arg[t]
  <2>1. pc[t] = "cpu_track" /\ location' = [location EXCEPT ![k] = Cpu]
        /\ slot' = [slot EXCEPT ![k] = NoSlot]
    BY <1>2 DEF TrackCpu
  <2>2. k \in Keys /\ location[k] = Gpu
    BY <2>1 DEF IInv, TypeInv, ArgsOK, HasExpert, MoveInv, LeavingSlot
  <2>3. slot[k] \in LayerSlots(k[1])
    BY <2>2 DEF IInv, PlacementInv, SlotsExclusive, PersistentExperts
  <2>4. home[k] # NoSlot
    BY <2>2, <2>3, KeyParts, LayerSlotsPersistent DEF NoSlot
  <2>5. home' = [home EXCEPT ![k] = NoSlot]
    BY <1>0, <2>1, <2>2
  <2> QED BY <2>2, <2>4, <2>5, SameLayout DEF Placement!Next, Placement!Demote
<1>3. CASE UNCHANGED <<location, slot>>
  BY <1>3
<1>4. \/ UNCHANGED <<location, slot>>
      \/ \E t \in Threads : TrackGpu(t) \/ TrackCpu(t)
  BY ZenonT(40) DEF Next, CopyStream, Call, CallToGpu, CallToCpu, MoveToGpu, MoveToCpu, Return, Cleanup,
         AcquireToGpu, CopyToGpu, CopyToGpuFails, RecordToGpu, MapGpu,
         AcquireToCpu, CheckEvent, FetchEvent, Synchronize, CopyToCpu, CopyToCpuFails,
         RecordToCpu, MapCpu, StartScan, FinishScan, DeleteEvent, EndCleanup, vars
<1> QED BY <1>1, <1>2, <1>3, <1>4

\* ExpertMover implements ExpertPlacement: whatever the interleaving of moves,
\* cleanups and copies, experts only ever enter a free slot of their own layer
\* or leave the one they have.
THEOREM MoverImplementsPlacement == Spec => ImplementsPlacement
BY InitRefines, NextRefines, Safety, PTL DEF Spec, ImplementsPlacement, Placement!Spec

-----------------------------------------------------------------------------
\* README: "GPU capacity is limited by the wg parameter": a layer never has more
\* persistent experts than slots, whoever raced to move them.
LayerCapacity == \A l \in Layers : Cardinality(LayerPersistent(l)) <= NumGpuExperts

THEOREM LayerCapacityAlways == Spec => []LayerCapacity
<1>1. ASSUME IInv PROVE LayerCapacity
  <2> SUFFICES ASSUME NEW l \in Layers
               PROVE  Cardinality(LayerPersistent(l)) <= NumGpuExperts
    BY DEF LayerCapacity
  <2> DEFINE S == LayerPersistent(l)
             a == l * NumGpuExperts
             f == [k \in S |-> slot[k]]
  <2>1. NumGpuExperts \in Nat /\ a \in Int
    BY LayoutAssumption DEF Layers
  <2>2. LayerSlots(l) = a .. (a + NumGpuExperts - 1)
    BY DEF LayerSlots
  <2> HIDE DEF a
  <2>3. IsFiniteSet(LayerSlots(l)) /\ Cardinality(LayerSlots(l)) = NumGpuExperts
    <3>1. a + NumGpuExperts - 1 \in Int
      BY <2>1
    <3>2. IsFiniteSet(a .. (a + NumGpuExperts - 1))
          /\ Cardinality(a .. (a + NumGpuExperts - 1)) =
               IF a > a + NumGpuExperts - 1 THEN 0 ELSE (a + NumGpuExperts - 1) - a + 1
      BY <2>1, <3>1, FS_Interval
    <3> QED BY <2>1, <2>2, <3>2
  <2>4. f \in Injection(S, LayerSlots(l))
    BY <1>1 DEF IInv, PlacementInv, SlotsExclusive, LayerPersistent, Injection, IsInjective
  <2> QED BY <2>3, <2>4, FS_Injection
<1> QED BY Safety, <1>1, PTL

-----------------------------------------------------------------------------
(* What the copies that the mover queues leave in the persistent rows.  The *)
(* moves return before their copies ran, so the invariant speaks of         *)
(* Drained, the memory once the stream is empty: a move changes it when it  *)
(* queues a copy, and the copy stream never does.                           *)

Memories == [rows : [PersistentRows -> Contents], store : [Keys -> Contents]]

-----------------------------------------------------------------------------
(* Drain, copy by copy *)

\* The memory after each set of copies, latest first: what FoldLeft unfolds to.
Runs(g, mem, copies, n) ==
  [s \in SUBSET (1 .. n) |->
     IF s = {} THEN mem ELSE RunCopy(g[s \ {Max(s)}], copies[Max(s)])]

LEMMA RunsExist ==
  ASSUME NEW mem, NEW copies, NEW n \in Nat
  PROVE  \E g : g = Runs(g, mem, copies, n)
<1> DEFINE T == {m \in Nat : \E g : g = Runs(g, mem, copies, m)}
<1>1. 0 \in T
  <2> DEFINE g == [s \in SUBSET (1 .. 0) |-> mem]
  <2>1. SUBSET (1 .. 0) = {{}}
    OBVIOUS
  <2>2. g = Runs(g, mem, copies, 0)
    BY <2>1 DEF Runs
  <2> QED BY <2>2
<1>2. ASSUME NEW m \in T PROVE m + 1 \in T
  <2>1. m \in Nat /\ \E g : g = Runs(g, mem, copies, m)
    OBVIOUS
  <2>g. PICK g : g = Runs(g, mem, copies, m)
    BY <2>1
  <2> DEFINE k == m + 1
             h == [s \in SUBSET (1 .. k) |->
                     IF k \in s THEN RunCopy(g[s \ {k}], copies[k]) ELSE g[s]]
  <2>2. ASSUME NEW s \in SUBSET (1 .. k)
        PROVE  h[s] = IF s = {} THEN mem ELSE RunCopy(h[s \ {Max(s)}], copies[Max(s)])
    <3>1. CASE k \in s
      <4>1. Max(s) = k
        BY <3>1, MaxOfPrefix
      <4>2. s \ {k} \in SUBSET (1 .. k) /\ k \notin s \ {k}
        OBVIOUS
      <4>3. h[s] = RunCopy(g[s \ {k}], copies[k]) /\ h[s \ {k}] = g[s \ {k}]
        BY <3>1, <4>2
      <4> HIDE DEF h, k
      <4> QED BY <3>1, <4>1, <4>3
    <3>2. CASE k \notin s
      <4>1. s \in SUBSET (1 .. m)
        <5>1. \A x \in 1 .. k : x # k => x \in 1 .. m
          BY <2>1
        <5> HIDE DEF k
        <5> QED BY <3>2, <5>1
      <4>2. s \ {Max(s)} \in SUBSET (1 .. k) /\ k \notin s \ {Max(s)}
        BY <3>2
      <4>3. h[s] = g[s] /\ h[s \ {Max(s)}] = g[s \ {Max(s)}]
        BY <3>2, <4>2
      <4>4. g[s] = IF s = {} THEN mem ELSE RunCopy(g[s \ {Max(s)}], copies[Max(s)])
        BY <2>g, <4>1 DEF Runs
      <4> HIDE DEF h, k
      <4> QED BY <4>3, <4>4
    <3> QED BY <3>1, <3>2
  <2>3. h = [s \in SUBSET (1 .. k) |-> h[s]]
    OBVIOUS
  <2>4. h = Runs(h, mem, copies, k)
    <3> HIDE DEF h, k
    <3> QED BY <2>2, <2>3 DEF Runs
  <2> QED BY <2>4
<1>3. T = Nat
  <2> HIDE DEF T
  <2>1. T \in SUBSET Nat BY DEF T
  <2> QED BY <1>1, <1>2, <2>1, Induction
<1> QED BY <1>3

\* The memories that a run of copies passes through.
Trace(f, mem, copies) ==
  f[0] = mem /\ \A i \in 1 .. Len(copies) : f[i] = RunCopy(f[i - 1], copies[i])

LEMMA Drains ==
  ASSUME NEW mem, NEW copies \in Seq(Copies)
  PROVE  \E f : Trace(f, mem, copies) /\ Drain(mem, copies) = f[Len(copies)]
<1> DEFINE n == Len(copies)
<1>0. n \in Nat /\ DOMAIN copies = 1 .. n
  OBVIOUS
<1>g. PICK g : g = Runs(g, mem, copies, n) /\ Drain(mem, copies) = g[1 .. n]
  <2> DEFINE g == CHOOSE g : g = Runs(g, mem, copies, n)
  <2>1. g = Runs(g, mem, copies, n)
    <3>1. \E h : h = Runs(h, mem, copies, n)
      BY <1>0, RunsExist
    <3> QED BY <3>1
  <2>2. Drain(mem, copies) = g[1 .. n]
    <3> HIDE DEF n
    <3> QED BY <1>0 DEF Drain, FoldLeft, MapThenFoldSet, Runs
  <2> QED BY <2>1, <2>2
<1> DEFINE f == [i \in 0 .. n |-> g[1 .. i]]
<1>1. f[0] = mem
  <2>1. 1 .. 0 = {} /\ {} \in SUBSET (1 .. n)
    OBVIOUS
  <2> HIDE DEF n
  <2>2. g[{}] = mem
    BY <1>g, <2>1 DEF Runs
  <2> QED BY <1>0, <2>1, <2>2
<1>2. ASSUME NEW i \in 1 .. n PROVE f[i] = RunCopy(f[i - 1], copies[i])
  <2>0. i \in Nat /\ 1 <= i /\ i <= n /\ i - 1 \in 0 .. n /\ i \in 0 .. n
    BY <1>0
  <2>1. 1 .. i \in SUBSET (1 .. n) /\ (1 .. i) \ {i} = 1 .. i - 1 /\ 1 .. i # {}
    <3> HIDE DEF n
    <3>1. 1 .. i \in SUBSET (1 .. n) /\ 1 .. i # {}
      BY <1>0, <2>0
    <3>2. (1 .. i) \ {i} = 1 .. i - 1
      BY <2>0
    <3> QED BY <3>1, <3>2
  <2>2. Max(1 .. i) = i
    BY MaxOfPrefix
  <2> HIDE DEF n
  <2>3. g[1 .. i] = RunCopy(g[(1 .. i) \ {Max(1 .. i)}], copies[Max(1 .. i)])
    BY <1>g, <2>1 DEF Runs
  <2> QED BY <2>0, <2>1, <2>2, <2>3
<1>3. Drain(mem, copies) = f[n]
  BY <1>0, <1>g
<1>4. f[0] = mem /\ \A i \in 1 .. Len(copies) : f[i] = RunCopy(f[i - 1], copies[i])
  BY <1>1, <1>2
<1> HIDE DEF f
<1> QED BY <1>3, <1>4 DEF Trace

LEMMA RunCopyMemory ==
  ASSUME NEW mem \in Memories, NEW c \in Copies
  PROVE  RunCopy(mem, c) \in Memories
<1>1. c.row \in PersistentRows /\ c.of \in Keys
  BY DEF Copies
<1>2. [of |-> c.of, genuine |-> FALSE] \in Contents
  BY <1>1 DEF Contents, Weights
<1> QED BY <1>1, <1>2 DEF RunCopy, Memories

\* What one copy does to each row and each storage.
LEMMA RunCopyWrites ==
  ASSUME NEW mem \in Memories, NEW c \in Copies
  PROVE  /\ \A r \in PersistentRows :
              RunCopy(mem, c).rows[r] =
                IF c.dir = "gpu" /\ r = c.row
                THEN IF c.dummy THEN [of |-> c.of, genuine |-> FALSE] ELSE mem.store[c.of]
                ELSE mem.rows[r]
         /\ \A k \in Keys :
              RunCopy(mem, c).store[k] =
                IF c.dir # "gpu" /\ k = c.of THEN mem.rows[c.row] ELSE mem.store[k]
<1>1. c.row \in PersistentRows /\ c.of \in Keys
  BY DEF Copies
<1> QED BY <1>1 DEF RunCopy, Memories

LEMMA TraceType ==
  ASSUME NEW mem \in Memories, NEW copies \in Seq(Copies), NEW f, Trace(f, mem, copies)
  PROVE  \A i \in 0 .. Len(copies) : f[i] \in Memories
<1> DEFINE T == {i \in Nat : i <= Len(copies) => f[i] \in Memories}
<1>1. 0 \in T
  BY DEF Trace
<1>2. ASSUME NEW i \in T PROVE i + 1 \in T
  <2>1. SUFFICES ASSUME i + 1 <= Len(copies) PROVE f[i + 1] \in Memories
    OBVIOUS
  <2>2. i \in Nat /\ i + 1 \in 1 .. Len(copies) /\ (i + 1) - 1 = i /\ f[i] \in Memories
        /\ copies[i + 1] \in Copies
    BY <2>1
  <2>3. f[i + 1] = RunCopy(f[(i + 1) - 1], copies[i + 1])
    BY <2>2 DEF Trace
  <2> QED BY <2>2, <2>3, RunCopyMemory
<1>3. T = Nat
  <2>1. T \in SUBSET Nat
    OBVIOUS
  <2> HIDE DEF T
  <2> QED BY <1>1, <1>2, <2>1, Induction
<1> QED BY <1>3

LEMMA DrainType ==
  ASSUME NEW mem \in Memories, NEW copies \in Seq(Copies)
  PROVE  Drain(mem, copies) \in Memories
<1>1. PICK f : Trace(f, mem, copies) /\ Drain(mem, copies) = f[Len(copies)]
  BY Drains
<1>2. \A i \in 0 .. Len(copies) : f[i] \in Memories
  BY <1>1, TraceType
<1>3. Len(copies) \in 0 .. Len(copies)
  OBVIOUS
<1> QED BY <1>1, <1>2, <1>3

\* Two memories agree but for the storage of the experts of X.
AgreeBut(X, m1, m2) ==
  /\ \A r \in PersistentRows : m1.rows[r] = m2.rows[r]
  /\ \A k \in Keys \ X : m1.store[k] = m2.store[k]

\* A copy reads the storage of its expert.
Reads(c) == c.dir = "gpu" /\ ~c.dummy

\* The same copies, whether or not an event waits for them.
SameCopies(s1, s2) ==
  /\ Len(s1) = Len(s2)
  /\ \A i \in 1 .. Len(s1) :
       /\ s1[i].dir = s2[i].dir /\ s1[i].of = s2[i].of
       /\ s1[i].row = s2[i].row /\ s1[i].dummy = s2[i].dummy

\* Storage that no queued copy reads makes no difference elsewhere.
LEMMA DrainsAgree ==
  ASSUME NEW X \in SUBSET Keys, NEW m1 \in Memories, NEW m2 \in Memories,
         NEW s1 \in Seq(Copies), NEW s2 \in Seq(Copies), SameCopies(s1, s2),
         AgreeBut(X, m1, m2), \A i \in 1 .. Len(s1) : Reads(s1[i]) => s1[i].of \notin X
  PROVE  AgreeBut(X, Drain(m1, s1), Drain(m2, s2))
<1>1. PICK f : Trace(f, m1, s1) /\ Drain(m1, s1) = f[Len(s1)]
  BY Drains
<1>2. PICK g : Trace(g, m2, s2) /\ Drain(m2, s2) = g[Len(s2)]
  BY Drains
<1>3. \A i \in 0 .. Len(s1) : f[i] \in Memories
  BY <1>1, TraceType
<1>4. \A i \in 0 .. Len(s2) : g[i] \in Memories
  BY <1>2, TraceType
<1> DEFINE n == Len(s1)
           T == {i \in Nat : i <= n => AgreeBut(X, f[i], g[i])}
<1>5. n \in Nat /\ Len(s2) = n
  BY DEF SameCopies
<1>6. 0 \in T
  BY <1>1, <1>2 DEF Trace
<1>7. ASSUME NEW i \in T PROVE i + 1 \in T
  <2>1. SUFFICES ASSUME i + 1 <= n PROVE AgreeBut(X, f[i + 1], g[i + 1])
    OBVIOUS
  <2> DEFINE j == i + 1
  <2>2. i \in 0 .. n /\ j \in 1 .. n /\ j - 1 = i /\ AgreeBut(X, f[i], g[i])
    BY <2>1, <1>5
  <2>3. s1[j] \in Copies /\ s2[j] \in Copies
    BY <2>2, <1>5
  <2>4. f[i] \in Memories /\ g[i] \in Memories
    BY <1>3, <1>4, <1>5, <2>2
  <2>5. f[j] = RunCopy(f[i], s1[j]) /\ g[j] = RunCopy(g[i], s2[j])
    BY <1>1, <1>2, <1>5, <2>2 DEF Trace
  <2>6. /\ s1[j].dir = s2[j].dir /\ s1[j].of = s2[j].of
        /\ s1[j].row = s2[j].row /\ s1[j].dummy = s2[j].dummy
        /\ (Reads(s1[j]) => s1[j].of \notin X)
        /\ s1[j].of \in Keys /\ s1[j].row \in PersistentRows
    BY <2>2, <2>3 DEF SameCopies, Copies
  <2> HIDE DEF j
  <2>7. ASSUME NEW r \in PersistentRows
        PROVE  RunCopy(f[i], s1[j]).rows[r] = RunCopy(g[i], s2[j]).rows[r]
    <3>1. f[i].rows[r] = g[i].rows[r]
      BY <2>2 DEF AgreeBut
    <3>2. Reads(s1[j]) => f[i].store[s1[j].of] = g[i].store[s1[j].of]
      BY <2>2, <2>6 DEF AgreeBut
    <3>3. RunCopy(f[i], s1[j]).rows[r] =
            IF s1[j].dir = "gpu" /\ r = s1[j].row
            THEN IF s1[j].dummy THEN [of |-> s1[j].of, genuine |-> FALSE] ELSE f[i].store[s1[j].of]
            ELSE f[i].rows[r]
      BY <2>3, <2>4, RunCopyWrites
    <3>4. RunCopy(g[i], s2[j]).rows[r] =
            IF s2[j].dir = "gpu" /\ r = s2[j].row
            THEN IF s2[j].dummy THEN [of |-> s2[j].of, genuine |-> FALSE] ELSE g[i].store[s2[j].of]
            ELSE g[i].rows[r]
      BY <2>3, <2>4, RunCopyWrites
    <3> QED BY <2>6, <3>1, <3>2, <3>3, <3>4 DEF Reads
  <2>8. ASSUME NEW k \in Keys \ X
        PROVE  RunCopy(f[i], s1[j]).store[k] = RunCopy(g[i], s2[j]).store[k]
    <3>1. f[i].store[k] = g[i].store[k]
      BY <2>2 DEF AgreeBut
    <3>2. f[i].rows[s1[j].row] = g[i].rows[s1[j].row]
      BY <2>2, <2>6 DEF AgreeBut
    <3>3. RunCopy(f[i], s1[j]).store[k] =
            IF s1[j].dir # "gpu" /\ k = s1[j].of THEN f[i].rows[s1[j].row] ELSE f[i].store[k]
      BY <2>3, <2>4, RunCopyWrites
    <3>4. RunCopy(g[i], s2[j]).store[k] =
            IF s2[j].dir # "gpu" /\ k = s2[j].of THEN g[i].rows[s2[j].row] ELSE g[i].store[k]
      BY <2>3, <2>4, RunCopyWrites
    <3> QED BY <2>6, <3>1, <3>2, <3>3, <3>4
  <2> QED BY <2>5, <2>7, <2>8 DEF AgreeBut, j
<1>8. T = Nat
  <2>1. T \in SUBSET Nat
    OBVIOUS
  <2> HIDE DEF T
  <2> QED BY <1>6, <1>7, <2>1, Induction
<1>9. AgreeBut(X, f[n], g[n])
  BY <1>5, <1>8
<1> QED BY <1>1, <1>2, <1>5, <1>9

\* Memories that agree everywhere are equal.
LEMMA AgreeAll ==
  ASSUME NEW m1 \in Memories, NEW m2 \in Memories, AgreeBut({}, m1, m2)
  PROVE  m1 = m2
<1>1. m1.rows = m2.rows
  <2>1. m1.rows \in [PersistentRows -> Contents] /\ m2.rows \in [PersistentRows -> Contents]
    BY DEF Memories
  <2> QED BY <2>1 DEF AgreeBut
<1>2. m1.store = m2.store
  <2>1. m1.store \in [Keys -> Contents] /\ m2.store \in [Keys -> Contents]
    BY DEF Memories
  <2>2. \A k \in Keys : m1.store[k] = m2.store[k]
    BY DEF AgreeBut
  <2> QED BY <2>1, <2>2
<1> QED BY <1>1, <1>2 DEF Memories

\* Events make no difference to what the copies leave.
LEMMA DrainUnrecorded ==
  ASSUME NEW mem \in Memories, NEW s1 \in Seq(Copies), NEW s2 \in Seq(Copies),
         SameCopies(s1, s2)
  PROVE  Drain(mem, s1) = Drain(mem, s2)
<1>1. AgreeBut({}, Drain(mem, s1), Drain(mem, s2))
  <2>1. AgreeBut({}, mem, mem) /\ {} \in SUBSET Keys
    BY DEF AgreeBut
  <2> QED BY <2>1, DrainsAgree
<1>2. Drain(mem, s1) \in Memories /\ Drain(mem, s2) \in Memories
  BY DrainType
<1> QED BY <1>1, <1>2, AgreeAll

\* A copy queued last runs last.
LEMMA DrainAppend ==
  ASSUME NEW mem \in Memories, NEW s \in Seq(Copies), NEW c \in Copies
  PROVE  Drain(mem, Append(s, c)) = RunCopy(Drain(mem, s), c)
<1> DEFINE n == Len(s)
           a == Append(s, c)
<1>0. n \in Nat /\ a \in Seq(Copies) /\ Len(a) = n + 1 /\ a[n + 1] = c
      /\ \A i \in 1 .. n : a[i] = s[i]
  OBVIOUS
<1> HIDE DEF a
<1>1. PICK f : Trace(f, mem, s) /\ Drain(mem, s) = f[n]
  BY Drains
<1>2. PICK g : Trace(g, mem, a) /\ Drain(mem, a) = g[Len(a)]
  BY <1>0, Drains
<1> HIDE DEF n
<1> DEFINE T == {i \in Nat : i <= n => f[i] = g[i]}
<1>3. 0 \in T
  BY <1>1, <1>2 DEF Trace
<1>4. ASSUME NEW i \in T PROVE i + 1 \in T
  <2>1. SUFFICES ASSUME i + 1 <= n PROVE f[i + 1] = g[i + 1]
    OBVIOUS
  <2>2. i \in Nat /\ i + 1 \in 1 .. n /\ i + 1 \in 1 .. Len(a) /\ (i + 1) - 1 = i /\ f[i] = g[i]
    BY <2>1, <1>0
  <2>3. f[i + 1] = RunCopy(f[(i + 1) - 1], s[i + 1])
    BY <1>1, <2>2 DEF Trace, n
  <2>4. g[i + 1] = RunCopy(g[(i + 1) - 1], a[i + 1])
    BY <1>2, <2>2 DEF Trace
  <2> QED BY <1>0, <2>2, <2>3, <2>4
<1>5. T = Nat
  <2>1. T \in SUBSET Nat
    OBVIOUS
  <2> HIDE DEF T
  <2> QED BY <1>3, <1>4, <2>1, Induction
<1>6. f[n] = g[n]
  BY <1>0, <1>5
<1>7. g[n + 1] = RunCopy(g[(n + 1) - 1], a[n + 1])
  <2>1. n + 1 \in 1 .. Len(a)
    BY <1>0
  <2> QED BY <1>2, <2>1 DEF Trace
<1>8. (n + 1) - 1 = n
  BY <1>0
<1> QED BY <1>0, <1>1, <1>2, <1>6, <1>7, <1>8 DEF a

\* The oldest copy can run now or later.
LEMMA DrainHead ==
  ASSUME NEW mem \in Memories, NEW s \in Seq(Copies), s # << >>
  PROVE  Drain(mem, s) = Drain(RunCopy(mem, Head(s)), Tail(s))
<1> DEFINE n == Len(s)
           h == Head(s)
           l == Tail(s)
<1>0. n \in Nat \ {0} /\ h = s[1] /\ h \in Copies /\ l \in Seq(Copies) /\ Len(l) = n - 1
      /\ \A i \in 1 .. n - 1 : l[i] = s[i + 1]
  <2>1. n \in Nat \ {0} /\ h = s[1] /\ h \in Copies
    OBVIOUS
  <2>2. l \in Seq(Copies) /\ Len(l) = n - 1
    OBVIOUS
  <2>3. \A i \in 1 .. n - 1 : l[i] = s[i + 1]
    OBVIOUS
  <2> QED BY <2>1, <2>2, <2>3
<1> HIDE DEF h, l
<1>1. PICK f : Trace(f, mem, s) /\ Drain(mem, s) = f[n]
  BY Drains
<1>2. PICK g : Trace(g, RunCopy(mem, h), l) /\ Drain(RunCopy(mem, h), l) = g[Len(l)]
  BY <1>0, Drains
<1> HIDE DEF n
<1> DEFINE T == {i \in Nat : i <= n - 1 => f[i + 1] = g[i]}
<1>3. 0 \in T
  <2>1. 1 \in 1 .. n /\ 1 - 1 = 0 /\ 0 + 1 = 1
    BY <1>0
  <2>2. f[1] = RunCopy(f[1 - 1], s[1])
    BY <1>1, <2>1 DEF Trace, n
  <2>3. f[0] = mem /\ g[0] = RunCopy(mem, h)
    BY <1>1, <1>2 DEF Trace
  <2> QED BY <1>0, <2>1, <2>2, <2>3
<1>4. ASSUME NEW i \in T PROVE i + 1 \in T
  <2>1. SUFFICES ASSUME i + 1 <= n - 1 PROVE f[(i + 1) + 1] = g[i + 1]
    OBVIOUS
  <2>2. i \in Nat /\ i + 1 \in 1 .. Len(l) /\ i + 1 \in 1 .. n - 1 /\ (i + 1) + 1 \in 1 .. n
        /\ (i + 1) - 1 = i /\ ((i + 1) + 1) - 1 = i + 1 /\ f[i + 1] = g[i]
    <3>1. i \in Nat /\ (i <= n - 1 => f[i + 1] = g[i])
      OBVIOUS
    <3>2. n \in Nat /\ Len(l) = n - 1
      BY <1>0
    <3>3. i <= n - 1 /\ i + 1 \in 1 .. n - 1 /\ (i + 1) + 1 \in 1 .. n
          /\ (i + 1) - 1 = i /\ ((i + 1) + 1) - 1 = i + 1
      BY <2>1, <3>1, <3>2
    <3> HIDE DEF T
    <3> QED BY <3>1, <3>2, <3>3
  <2>3. f[(i + 1) + 1] = RunCopy(f[((i + 1) + 1) - 1], s[(i + 1) + 1])
    BY <1>1, <2>2 DEF Trace, n
  <2>4. g[i + 1] = RunCopy(g[(i + 1) - 1], l[i + 1])
    BY <1>2, <2>2 DEF Trace
  <2>5. l[i + 1] = s[(i + 1) + 1]
    BY <1>0, <2>2
  <2> QED BY <2>2, <2>3, <2>4, <2>5
<1>5. T = Nat
  <2>1. T \in SUBSET Nat
    OBVIOUS
  <2> HIDE DEF T
  <2> QED BY <1>3, <1>4, <2>1, Induction
<1>6. f[(n - 1) + 1] = g[n - 1]
  <2>1. n - 1 \in Nat /\ n - 1 <= n - 1
    BY <1>0
  <2> QED BY <1>5, <2>1
<1>7. (n - 1) + 1 = n
  BY <1>0
<1> QED BY <1>0, <1>1, <1>2, <1>6, <1>7 DEF h, l

-----------------------------------------------------------------------------
(* The invariant *)

\* The storage of an expert that has left its slot will hold that expert.
StoreHolds == \A k \in Keys : location[k] = Cpu => store[k] = NoWeights \/ Drained.store[k].of = k

\* A move that has queued its copy will find the expert where it tracks it next.
GpuQueued == {"gpu_record", "gpu_track"}
CpuQueued == {"cpu_record", "cpu_track"}

MoveHolds ==
  \A t \in Threads :
    /\ pc[t] \in GpuQueued => Drained.rows[target[t]].of = arg[t]
    /\ pc[t] \in CpuQueued => Drained.store[arg[t]].of = arg[t]

\* No queued copy reads or fills storage that does not exist.
Unallocated(k, copies) ==
  \A i \in 1 .. Len(copies) : copies[i].of = k => copies[i].dir = "gpu" /\ copies[i].dummy

StorageExists == \A k \in Keys : store[k] = NoWeights => Unallocated(k, stream)

RowsFull == \A r \in PersistentRows : rows[r] # NoWeights

HoldInv == SlotsHoldTheirExperts /\ StoreHolds /\ MoveHolds /\ StorageExists /\ RowsFull

LEMMA MemoryType == TypeOK => Memory \in Memories /\ Drained \in Memories /\ stream \in Seq(Copies)
BY DrainType DEF TypeOK, Memory, Memories, Drained

\* The expert whose weights a slot starts with.
LEMMA QuotientAndRest ==
  ASSUME NEW q \in Nat, NEW g \in Nat, NEW e \in Nat, e < g
  PROVE  (q * g + e) \div g = q /\ (q * g + e) % g = e
<1>1. (q * g + e) \div g = q
  OBVIOUS
<1>2. (q * g + e) % g = e
  OBVIOUS
<1> QED BY <1>1, <1>2

LEMMA InitHolds == Init => HoldInv
<1> SUFFICES ASSUME Init PROVE HoldInv
  OBVIOUS
<1>1. TypeOK
  BY InitTypeInv DEF TypeInv
<1>2. Drained = Memory
  <2>1. stream = << >> /\ stream \in Seq(Copies)
    BY <1>1, MemoryType DEF Init
  <2>2. PICK f : Trace(f, Memory, stream) /\ Drain(Memory, stream) = f[Len(stream)]
    BY <2>1, Drains
  <2>3. Len(stream) = 0
    BY <2>1
  <2> QED BY <2>2, <2>3 DEF Trace, Drained
<1>3. SlotsHoldTheirExperts
  <2> SUFFICES ASSUME NEW k \in Keys, location[k] = Gpu PROVE Drained.rows[slot[k]].of = k
    BY DEF SlotsHoldTheirExperts, PersistentExperts
  <2> DEFINE a == k[1]
             e == k[2]
             G == NumGpuExperts
  <2>1. k = <<a, e>> /\ a \in Nat /\ e \in Nat /\ e < G /\ G \in Nat
    BY KeyParts, LayoutAssumption DEF Init, Gpu, Cpu, Layers
  <2>2. slot[k] = a * G + e /\ slot[k] \in PersistentRows
    BY <2>1, InitialSlotInLayer, LayerSlotsPersistent, KeyParts DEF Init, InitialSlot
  <2>3. (a * G + e) \div G = a /\ (a * G + e) % G = e
    BY <2>1, QuotientAndRest
  <2>4. rows[slot[k]].of = <<slot[k] \div G, slot[k] % G>>
    BY <2>2 DEF Init
  <2> QED BY <1>2, <2>1, <2>2, <2>3, <2>4 DEF Memory
<1>4. StoreHolds /\ StorageExists
  BY DEF Init, StoreHolds, StorageExists, Unallocated
<1>5. MoveHolds
  BY DEF Init, MoveHolds, GpuQueued, CpuQueued
<1>6. RowsFull
  <2>1. \A r \in PersistentRows : rows[r].genuine = TRUE
    BY DEF Init
  <2> QED BY <2>1 DEF RowsFull, NoWeights
<1> QED BY <1>3, <1>4, <1>5, <1>6 DEF HoldInv

\* A step that queues no copy, runs none and tracks nothing.
LEMMA SameHolds ==
  ASSUME TypeOK, TypeOK', HoldInv, UNCHANGED <<location, slot, rows, store>>,
         SameCopies(stream, stream'),
         \A t \in Threads : pc'[t] \in GpuQueued \cup CpuQueued =>
           /\ pc[t] \in GpuQueued <=> pc'[t] \in GpuQueued
           /\ pc[t] \in CpuQueued <=> pc'[t] \in CpuQueued
           /\ arg'[t] = arg[t] /\ target'[t] = target[t]
  PROVE  HoldInv'
<1>1. Memory \in Memories /\ stream \in Seq(Copies) /\ stream' \in Seq(Copies)
  BY MemoryType DEF TypeOK
<1>2. Drained' = Drained
  <2>1. Memory' = Memory
    BY DEF Memory
  <2>2. Drain(Memory, stream) = Drain(Memory, stream')
    BY <1>1, DrainUnrecorded
  <2> QED BY <2>1, <2>2 DEF Drained
<1>3. (SlotsHoldTheirExperts /\ StoreHolds /\ RowsFull)'
  BY <1>2 DEF HoldInv, SlotsHoldTheirExperts, PersistentExperts, StoreHolds, RowsFull
<1>4. MoveHolds'
  BY <1>2 DEF HoldInv, MoveHolds
<1>5. StorageExists'
  BY DEF HoldInv, StorageExists, Unallocated, SameCopies
<1> QED BY <1>3, <1>4, <1>5 DEF HoldInv

-----------------------------------------------------------------------------
(* The steps that change the memory, or what it is meant to hold *)

\* The copy stream never changes what the memory will hold.
LEMMA CopyStreamHolds ==
  ASSUME IInv, TypeOK, TypeOK', HoldInv, CopyStream
  PROVE  HoldInv'
<1> DEFINE c == Head(stream)
<1>1. /\ stream # << >> /\ stream' = Tail(stream)
      /\ rows' = RunCopy(Memory, c).rows /\ store' = RunCopy(Memory, c).store
      /\ UNCHANGED <<location, slot, pc, arg, target>>
  BY DEF CopyStream
<1>2. Memory \in Memories /\ stream \in Seq(Copies)
  BY MemoryType
<1>3. c \in Copies /\ c = stream[1] /\ Len(stream) \in Nat /\ Len(stream) >= 1
      /\ Len(stream') = Len(stream) - 1
      /\ \A i \in 1 .. Len(stream') : stream'[i] = stream[i + 1]
  BY <1>1, <1>2
<1> HIDE DEF c
<1>4. Memory' = RunCopy(Memory, c)
  <2>1. RunCopy(Memory, c) \in Memories
    BY <1>2, <1>3, RunCopyMemory
  <2>2. RunCopy(Memory, c) = [rows |-> RunCopy(Memory, c).rows, store |-> RunCopy(Memory, c).store]
    BY <2>1 DEF Memories
  <2> QED BY <1>1, <2>2 DEF Memory
<1>5. Drained' = Drained
  <2>1. Drain(Memory, stream) = Drain(RunCopy(Memory, c), Tail(stream))
    BY <1>1, <1>2, DrainHead DEF c
  <2> QED BY <1>1, <1>4, <2>1 DEF Drained
<1>6. /\ \A r \in PersistentRows :
           rows'[r] = IF c.dir = "gpu" /\ r = c.row
                      THEN IF c.dummy THEN [of |-> c.of, genuine |-> FALSE] ELSE store[c.of]
                      ELSE rows[r]
      /\ \A k \in Keys :
           store'[k] = IF c.dir # "gpu" /\ k = c.of THEN rows[c.row] ELSE store[k]
  BY <1>1, <1>2, <1>3, RunCopyWrites DEF Memory
<1>7. store[c.of] = NoWeights => c.dir = "gpu" /\ c.dummy
  BY <1>3 DEF HoldInv, StorageExists, Unallocated, Copies
<1>8. c.of \in Keys /\ c.row \in PersistentRows
  BY <1>3 DEF Copies
<1>9. \A k \in Keys : store[k] = NoWeights <=> store'[k] = NoWeights
  BY <1>6, <1>7, <1>8 DEF HoldInv, RowsFull
<1>10. RowsFull'
  <2>1. [of |-> c.of, genuine |-> FALSE] # NoWeights
    BY <1>8, NoKeyNotKey DEF NoWeights
  <2> QED BY <1>6, <1>7, <2>1 DEF HoldInv, RowsFull
<1>11. StorageExists'
  BY <1>3, <1>9 DEF HoldInv, StorageExists, Unallocated
<1>12. SlotsHoldTheirExperts' /\ StoreHolds' /\ MoveHolds'
  BY <1>1, <1>5, <1>9
  DEF HoldInv, SlotsHoldTheirExperts, PersistentExperts, StoreHolds, MoveHolds
<1> QED BY <1>10, <1>11, <1>12 DEF HoldInv

\* The copy in is the last to write its row, which is nobody else's slot.
LEMMA CopyToGpuHolds ==
  ASSUME IInv, TypeOK, TypeOK', HoldInv, NEW t \in Threads, CopyToGpu(t)
  PROVE  HoldInv'
<1> DEFINE k == arg[t]
           c == [dir |-> "gpu", of |-> k, row |-> target[t],
                 dummy |-> store[k] = NoWeights, recorded |-> FALSE]
           D == Drained
<1>1. /\ pc[t] = "gpu_copy" /\ pc' = [pc EXCEPT ![t] = "gpu_record"]
      /\ stream' = Append(stream, c)
      /\ UNCHANGED <<location, slot, rows, store, lock, arg, target>>
  BY DEF CopyToGpu, Enqueue, Goto
<1>2. k \in Keys /\ target[t] \in PersistentRows /\ location[k] = Cpu
      /\ \A j \in Keys : location[j] = Gpu => slot[j] # target[t]
  BY <1>1 DEF IInv, TypeInv, ArgsOK, HasExpert, HasSlot, MoverPlaces, MoveInv, TakingSlot
<1>3. Memory \in Memories /\ D \in Memories /\ stream \in Seq(Copies) /\ c \in Copies
  BY <1>2, MemoryType DEF Copies, Directions
<1>4. Drained' = RunCopy(D, c)
  <2>1. Drain(Memory, Append(stream, c)) = RunCopy(Drain(Memory, stream), c)
    <3> HIDE DEF c
    <3> QED BY <1>3, DrainAppend
  <2>2. Memory' = Memory
    BY <1>1 DEF Memory
  <2> QED BY <1>1, <2>1, <2>2 DEF Drained
<1>5. /\ \A r \in PersistentRows :
           Drained'.rows[r] = IF r = target[t]
                              THEN IF store[k] = NoWeights THEN [of |-> k, genuine |-> FALSE]
                                   ELSE D.store[k]
                              ELSE D.rows[r]
      /\ \A j \in Keys : Drained'.store[j] = D.store[j]
  <2>1. c.dir = "gpu" /\ c.of = k /\ c.row = target[t] /\ c.dummy = (store[k] = NoWeights)
    OBVIOUS
  <2> HIDE DEF c, D
  <2>2. /\ \A r \in PersistentRows :
             RunCopy(D, c).rows[r] = IF c.dir = "gpu" /\ r = c.row
                                     THEN IF c.dummy THEN [of |-> c.of, genuine |-> FALSE]
                                          ELSE D.store[c.of]
                                     ELSE D.rows[r]
        /\ \A j \in Keys :
             RunCopy(D, c).store[j] = IF c.dir # "gpu" /\ j = c.of THEN D.rows[c.row] ELSE D.store[j]
    BY <1>3, RunCopyWrites
  <2> QED BY <1>4, <2>1, <2>2
<1>6. Drained'.rows[target[t]].of = k
  <2>1. store[k] # NoWeights => D.store[k].of = k
    BY <1>2 DEF HoldInv, StoreHolds
  <2> QED BY <1>2, <1>5, <2>1
<1>7. SlotsHoldTheirExperts'
  <2> SUFFICES ASSUME NEW j \in Keys, location[j] = Gpu PROVE Drained'.rows[slot[j]].of = j
    BY <1>1 DEF SlotsHoldTheirExperts, PersistentExperts
  <2>1. slot[j] \in PersistentRows /\ slot[j] # target[t]
    BY <1>2, KeyParts, LayerSlotsPersistent
    DEF IInv, PlacementInv, SlotsExclusive, PersistentExperts
  <2>2. D.rows[slot[j]].of = j
    BY DEF HoldInv, SlotsHoldTheirExperts, PersistentExperts
  <2> QED BY <1>5, <2>1, <2>2
<1>8. StoreHolds'
  BY <1>1, <1>5 DEF HoldInv, StoreHolds
<1>9. MoveHolds'
  <2> SUFFICES ASSUME NEW u \in Threads
               PROVE  /\ pc'[u] \in GpuQueued => Drained'.rows[target[u]].of = arg[u]
                      /\ pc'[u] \in CpuQueued => Drained'.store[arg[u]].of = arg[u]
    BY <1>1 DEF MoveHolds
  <2>0. pc \in [Threads -> Places]
    BY DEF TypeOK
  <2>1. CASE u = t
    BY <1>1, <1>6, <2>0, <2>1 DEF CpuQueued
  <2>2. CASE u # t
    <3>1. lock = t /\ pc'[u] = pc[u]
      BY <1>1, <2>0, <2>2 DEF IInv, LockInv, MoverPlaces
    <3>2. pc[u] \notin MoverPlaces
      BY <2>2, <3>1 DEF IInv, LockInv
    <3> QED BY <3>1, <3>2 DEF GpuQueued, CpuQueued, MoverPlaces
  <2> QED BY <2>1, <2>2
<1>10. StorageExists'
  <2> SUFFICES ASSUME NEW j \in Keys, store[j] = NoWeights, NEW i \in 1 .. Len(stream'),
                      stream'[i].of = j
               PROVE  stream'[i].dir = "gpu" /\ stream'[i].dummy
    BY <1>1 DEF StorageExists, Unallocated
  <2>1. Len(stream) \in Nat /\ i \in 1 .. Len(stream) + 1
        /\ stream'[i] = IF i = Len(stream) + 1 THEN c ELSE stream[i]
    <3> HIDE DEF c
    <3> QED BY <1>1, <1>3
  <2>2. CASE i = Len(stream) + 1
    <3>1. c.of = k /\ c.dir = "gpu" /\ c.dummy = (store[k] = NoWeights)
      OBVIOUS
    <3> HIDE DEF c
    <3>2. stream'[i] = c /\ k = j
      BY <2>1, <2>2, <3>1
    <3>3. c.dummy
      BY <3>1, <3>2
    <3> QED BY <3>1, <3>2, <3>3
  <2>3. CASE i # Len(stream) + 1
    <3>1. i \in 1 .. Len(stream) /\ stream[i].of = j
      BY <2>1, <2>3
    <3> QED BY <2>1, <2>3, <3>1 DEF HoldInv, StorageExists, Unallocated
  <2> QED BY <2>2, <2>3
<1>11. RowsFull'
  BY <1>1 DEF HoldInv, RowsFull
<1> QED BY <1>7, <1>8, <1>9, <1>10, <1>11 DEF HoldInv

\* Storage that is allocated while nothing reads it is all that changes.
LEMMA AllocationHolds ==
  ASSUME TypeOK, HoldInv, NEW k \in Keys, NEW new \in {store, Allocated(k)}
  PROVE  LET A == Drain([rows |-> rows, store |-> new], stream)
         IN  /\ [rows |-> rows, store |-> new] \in Memories /\ A \in Memories
             /\ \A r \in PersistentRows : A.rows[r] = Drained.rows[r]
             /\ \A j \in Keys \ {k} : A.store[j] = Drained.store[j] /\ new[j] = store[j]
             /\ new[k] = NoWeights => store[k] = NoWeights
<1> DEFINE m == [rows |-> rows, store |-> new]
           A == Drain(m, stream)
<1>1. Memory \in Memories /\ Drained \in Memories /\ stream \in Seq(Copies)
  BY MemoryType
<1>2. store \in [Keys -> Contents] /\ rows \in [PersistentRows -> Contents]
  BY DEF TypeOK
<1>3. new \in [Keys -> Contents] /\ (\A j \in Keys \ {k} : new[j] = store[j])
      /\ (new[k] = NoWeights => store[k] = NoWeights)
      /\ (new = store \/ store[k] = NoWeights)
  BY <1>2 DEF Allocated, Contents, NoWeights, Uninitialised
<1>4. m \in Memories /\ m.rows = rows /\ m.store = new
  BY <1>2, <1>3 DEF Memories
<1> HIDE DEF m
<1>5. A \in Memories
  BY <1>1, <1>4, DrainType
<1>6. AgreeBut({k}, A, Drained)
  <2>1. CASE new = store
    <3>1. A = Drained
      BY <2>1 DEF m, Drained, Memory
    <3> QED BY <3>1 DEF AgreeBut
  <2>2. CASE store[k] = NoWeights
    <3>1. \A i \in 1 .. Len(stream) : Reads(stream[i]) => stream[i].of \notin {k}
      BY <2>2 DEF HoldInv, StorageExists, Unallocated, Reads
    <3>2. AgreeBut({k}, m, Memory)
      BY <1>3, <1>4 DEF AgreeBut, Memory
    <3>3. SameCopies(stream, stream) /\ {k} \in SUBSET Keys
      BY DEF SameCopies
    <3> HIDE DEF A
    <3>4. AgreeBut({k}, Drain(m, stream), Drain(Memory, stream))
      BY <1>1, <1>4, <3>1, <3>2, <3>3, DrainsAgree
    <3> QED BY <3>4 DEF A, Drained
  <2> QED BY <1>3, <2>1, <2>2
<1>7. /\ \A r \in PersistentRows : A.rows[r] = Drained.rows[r]
      /\ \A j \in Keys \ {k} : A.store[j] = Drained.store[j]
  BY <1>6 DEF AgreeBut
<1> QED BY <1>3, <1>4, <1>5, <1>7 DEF m

LEMMA CopyToCpuHolds ==
  ASSUME IInv, TypeOK, TypeOK', HoldInv, NEW t \in Threads, CopyToCpu(t)
  PROVE  HoldInv'
<1> DEFINE k == arg[t]
           c == [dir |-> "cpu", of |-> k, row |-> target[t], dummy |-> FALSE, recorded |-> FALSE]
           A == Drain([rows |-> rows, store |-> Allocated(k)], stream)
<1>1. /\ pc[t] = "cpu_copy" /\ pc' = [pc EXCEPT ![t] = "cpu_record"]
      /\ stream' = Append(stream, c) /\ store' = Allocated(k)
      /\ UNCHANGED <<location, slot, rows, lock, arg, target>>
  BY DEF CopyToCpu, Enqueue, Goto
<1>2. k \in Keys /\ target[t] \in PersistentRows /\ location[k] = Gpu /\ slot[k] = target[t]
  BY <1>1 DEF IInv, TypeInv, ArgsOK, HasExpert, HasSlot, MoverPlaces, MoveInv, LeavingSlot
<1>3. stream \in Seq(Copies) /\ c \in Copies
  BY <1>2, MemoryType DEF Copies, Directions
<1>4. /\ [rows |-> rows, store |-> Allocated(k)] \in Memories /\ A \in Memories
      /\ \A r \in PersistentRows : A.rows[r] = Drained.rows[r]
      /\ \A j \in Keys \ {k} : A.store[j] = Drained.store[j] /\ store'[j] = store[j]
  <2>1. Allocated(k) \in {store, Allocated(k)}
    OBVIOUS
  <2> QED BY <1>1, <1>2, <2>1, AllocationHolds
<1>a. store'[k] # NoWeights
  <2>1. store \in [Keys -> Contents]
    BY DEF TypeOK
  <2> QED BY <1>1, <1>2, <2>1 DEF Allocated, NoWeights, Uninitialised
<1>5. Drained' = RunCopy(A, c)
  <2>1. Memory' = [rows |-> rows, store |-> Allocated(k)]
    BY <1>1 DEF Memory
  <2> HIDE DEF c
  <2> QED BY <1>1, <1>3, <1>4, <2>1, DrainAppend DEF Drained
<1>6. /\ \A r \in PersistentRows : Drained'.rows[r] = A.rows[r]
      /\ \A j \in Keys : Drained'.store[j] = IF j = k THEN A.rows[target[t]] ELSE A.store[j]
  <2>1. c.dir # "gpu" /\ c.of = k /\ c.row = target[t]
    OBVIOUS
  <2> HIDE DEF c, A
  <2>2. /\ \A r \in PersistentRows :
             RunCopy(A, c).rows[r] = IF c.dir = "gpu" /\ r = c.row
                                     THEN IF c.dummy THEN [of |-> c.of, genuine |-> FALSE]
                                          ELSE A.store[c.of]
                                     ELSE A.rows[r]
        /\ \A j \in Keys :
             RunCopy(A, c).store[j] = IF c.dir # "gpu" /\ j = c.of THEN A.rows[c.row] ELSE A.store[j]
    BY <1>3, <1>4, RunCopyWrites
  <2> QED BY <1>5, <2>1, <2>2
<1> HIDE DEF A
<1>7. Drained'.store[k].of = k
  <2>1. Drained.rows[target[t]].of = k
    BY <1>2 DEF HoldInv, SlotsHoldTheirExperts, PersistentExperts
  <2> QED BY <1>2, <1>4, <1>6, <2>1
<1>8. SlotsHoldTheirExperts'
  <2> SUFFICES ASSUME NEW j \in Keys, location[j] = Gpu PROVE Drained'.rows[slot[j]].of = j
    BY <1>1 DEF SlotsHoldTheirExperts, PersistentExperts
  <2>1. slot[j] \in PersistentRows
    BY KeyParts, LayerSlotsPersistent DEF IInv, PlacementInv, SlotsExclusive, PersistentExperts
  <2>2. Drained.rows[slot[j]].of = j
    BY DEF HoldInv, SlotsHoldTheirExperts, PersistentExperts
  <2> QED BY <1>4, <1>6, <2>1, <2>2
<1>9. StoreHolds'
  <2> SUFFICES ASSUME NEW j \in Keys, location[j] = Cpu, store'[j] # NoWeights
               PROVE  Drained'.store[j].of = j
    BY <1>1 DEF StoreHolds
  <2>1. j # k
    BY <1>2 DEF Gpu, Cpu
  <2>2. Drained.store[j].of = j
    BY <1>4, <2>1 DEF HoldInv, StoreHolds
  <2> QED BY <1>4, <1>6, <2>1, <2>2
<1>10. MoveHolds'
  <2> SUFFICES ASSUME NEW u \in Threads
               PROVE  /\ pc'[u] \in GpuQueued => Drained'.rows[target[u]].of = arg[u]
                      /\ pc'[u] \in CpuQueued => Drained'.store[arg[u]].of = arg[u]
    BY <1>1 DEF MoveHolds
  <2>0. pc \in [Threads -> Places]
    BY DEF TypeOK
  <2>1. CASE u = t
    BY <1>1, <1>7, <2>0, <2>1 DEF GpuQueued
  <2>2. CASE u # t
    <3>1. lock = t /\ pc'[u] = pc[u]
      BY <1>1, <2>0, <2>2 DEF IInv, LockInv, MoverPlaces
    <3>2. pc[u] \notin MoverPlaces
      BY <2>2, <3>1 DEF IInv, LockInv
    <3> QED BY <3>1, <3>2 DEF GpuQueued, CpuQueued, MoverPlaces
  <2> QED BY <2>1, <2>2
<1>11. StorageExists'
  <2> SUFFICES ASSUME NEW j \in Keys, store'[j] = NoWeights, NEW i \in 1 .. Len(stream'),
                      stream'[i].of = j
               PROVE  stream'[i].dir = "gpu" /\ stream'[i].dummy
    BY DEF StorageExists, Unallocated
  <2>1. j # k /\ store[j] = NoWeights
    BY <1>4, <1>a
  <2>2. Len(stream) \in Nat /\ i \in 1 .. Len(stream) + 1
        /\ stream'[i] = IF i = Len(stream) + 1 THEN c ELSE stream[i]
    <3> HIDE DEF c
    <3> QED BY <1>1, <1>3
  <2>3. i # Len(stream) + 1
    BY <2>1, <2>2
  <2>4. i \in 1 .. Len(stream) /\ stream[i].of = j
    BY <2>2, <2>3
  <2> QED BY <2>1, <2>2, <2>3, <2>4 DEF HoldInv, StorageExists, Unallocated
<1>12. RowsFull'
  BY <1>1 DEF HoldInv, RowsFull
<1> QED BY <1>8, <1>9, <1>10, <1>11, <1>12 DEF HoldInv

LEMMA CopyToCpuFailsHolds ==
  ASSUME IInv, TypeOK, TypeOK', HoldInv, NEW t \in Threads, CopyToCpuFails(t)
  PROVE  HoldInv'
<1> DEFINE k == arg[t]
<1>1. /\ pc[t] = "cpu_copy" /\ pc' = [pc EXCEPT ![t] = "refused"]
      /\ store' \in {store, Allocated(k)}
      /\ UNCHANGED <<location, slot, rows, stream, arg, target>>
  BY DEF CopyToCpuFails, Fail, Goto
<1>2. k \in Keys /\ location[k] = Gpu /\ lock = t
  BY <1>1 DEF IInv, TypeInv, ArgsOK, HasExpert, MoverPlaces, MoveInv, LeavingSlot, LockInv
<1>3. /\ \A r \in PersistentRows : Drained'.rows[r] = Drained.rows[r]
      /\ \A j \in Keys \ {k} : Drained'.store[j] = Drained.store[j] /\ store'[j] = store[j]
      /\ store'[k] = NoWeights => store[k] = NoWeights
  <2>1. Drained' = Drain([rows |-> rows, store |-> store'], stream)
    BY <1>1 DEF Drained, Memory
  <2> QED BY <1>1, <1>2, <2>1, AllocationHolds
<1>4. SlotsHoldTheirExperts'
  <2> SUFFICES ASSUME NEW j \in Keys, location[j] = Gpu PROVE Drained'.rows[slot[j]].of = j
    BY <1>1 DEF SlotsHoldTheirExperts, PersistentExperts
  <2>1. slot[j] \in PersistentRows
    BY KeyParts, LayerSlotsPersistent DEF IInv, PlacementInv, SlotsExclusive, PersistentExperts
  <2>2. Drained.rows[slot[j]].of = j
    BY DEF HoldInv, SlotsHoldTheirExperts, PersistentExperts
  <2> QED BY <1>3, <2>1, <2>2
<1>5. StoreHolds'
  BY <1>1, <1>2, <1>3 DEF HoldInv, StoreHolds, Gpu, Cpu
<1>6. \A u \in Threads : pc'[u] \notin GpuQueued \cup CpuQueued
  <2> TAKE u \in Threads
  <2>0. pc \in [Threads -> Places]
    BY DEF TypeOK
  <2>1. CASE u = t
    BY <1>1, <2>0, <2>1 DEF GpuQueued, CpuQueued
  <2>2. CASE u # t
    <3>1. pc'[u] = pc[u] /\ pc[u] \notin MoverPlaces
      BY <1>1, <1>2, <2>0, <2>2 DEF IInv, LockInv
    <3> QED BY <3>1 DEF GpuQueued, CpuQueued, MoverPlaces
  <2> QED BY <2>1, <2>2
<1>7. MoveHolds'
  BY <1>6 DEF MoveHolds
<1>8. StorageExists'
  BY <1>1, <1>3 DEF HoldInv, StorageExists, Unallocated
<1>9. RowsFull'
  BY <1>1 DEF HoldInv, RowsFull
<1> QED BY <1>4, <1>5, <1>7, <1>8, <1>9 DEF HoldInv

\* The tracker is written when the copy for it is already queued.
LEMMA TrackHolds ==
  ASSUME IInv, TypeOK, TypeOK', HoldInv, NEW t \in Threads, TrackGpu(t) \/ TrackCpu(t)
  PROVE  HoldInv'
<1> DEFINE k == arg[t]
<1>0. pc \in [Threads -> Places] /\ location \in [Keys -> {Gpu, Cpu}]
      /\ slot \in [Keys -> PersistentRows \cup {NoSlot}] /\ Gpu # Cpu
  BY DEF TypeOK, Gpu, Cpu
<1>1. UNCHANGED <<rows, store, stream, arg, target, lock>> /\ pc[t] \in {"gpu_track", "cpu_track"}
  BY DEF TrackGpu, TrackCpu
<1>2. Drained' = Drained
  BY <1>1 DEF Drained, Memory
<1>3. k \in Keys /\ lock = t
  BY <1>1 DEF IInv, TypeInv, ArgsOK, HasExpert, LockInv, MoverPlaces
<1>4. SlotsHoldTheirExperts' /\ StoreHolds'
  <2>1. CASE TrackGpu(t)
    <3>1. pc[t] = "gpu_track" /\ location' = [location EXCEPT ![k] = Gpu]
          /\ slot' = [slot EXCEPT ![k] = target[t]]
      BY <2>1 DEF TrackGpu
    <3>2. Drained.rows[target[t]].of = k
      BY <3>1 DEF HoldInv, MoveHolds, GpuQueued
    <3> QED BY <1>0, <1>1, <1>2, <1>3, <3>1, <3>2
            DEF HoldInv, SlotsHoldTheirExperts, StoreHolds, PersistentExperts
  <2>2. CASE TrackCpu(t)
    <3>1. pc[t] = "cpu_track" /\ location' = [location EXCEPT ![k] = Cpu]
          /\ slot' = [slot EXCEPT ![k] = NoSlot]
      BY <2>2 DEF TrackCpu
    <3>2. Drained.store[k].of = k
      BY <3>1 DEF HoldInv, MoveHolds, CpuQueued
    <3> QED BY <1>0, <1>1, <1>2, <1>3, <3>1, <3>2
            DEF HoldInv, SlotsHoldTheirExperts, StoreHolds, PersistentExperts
  <2> QED BY <2>1, <2>2
<1>5. \A u \in Threads : pc'[u] \notin GpuQueued \cup CpuQueued
  <2> TAKE u \in Threads
  <2>1. CASE u = t
    BY <1>0, <2>1 DEF TrackGpu, TrackCpu, Goto, GpuQueued, CpuQueued
  <2>2. CASE u # t
    <3>1. pc'[u] = pc[u] /\ pc[u] \notin MoverPlaces
      BY <1>0, <1>3, <2>2 DEF TrackGpu, TrackCpu, Goto, IInv, LockInv
    <3> QED BY <3>1 DEF GpuQueued, CpuQueued, MoverPlaces
  <2> QED BY <2>1, <2>2
<1>6. MoveHolds'
  BY <1>5 DEF MoveHolds
<1>7. (StorageExists /\ RowsFull)'
  BY <1>1 DEF HoldInv, StorageExists, Unallocated, RowsFull
<1> QED BY <1>4, <1>6, <1>7 DEF HoldInv

-----------------------------------------------------------------------------
\* Setting or clearing events keeps the copies.
LEMMA EventsKeepCopies ==
  ASSUME TypeOK
  PROVE  /\ SameCopies(stream, stream)
         /\ Record => SameCopies(stream, stream')
         /\ \A t \in Threads : DeleteEvent(t) => SameCopies(stream, stream')
<1>0. Len(stream) \in Nat /\ \A i \in 1 .. Len(stream) : stream[i] \in Copies
  BY DEF TypeOK
<1>1. SameCopies(stream, stream)
  BY DEF SameCopies
<1>2. ASSUME Record PROVE SameCopies(stream, stream')
  <2>1. Len(stream') = Len(stream)
    BY <1>0, <1>2 DEF Record
  <2>2. \A i \in 1 .. Len(stream) :
          stream'[i] = IF i = Len(stream) THEN [stream[i] EXCEPT !.recorded = TRUE] ELSE stream[i]
    BY <1>2 DEF Record
  <2> QED BY <1>0, <2>1, <2>2 DEF SameCopies, Copies
<1>3. ASSUME NEW t \in Threads, DeleteEvent(t) PROVE SameCopies(stream, stream')
  <2>1. PICK e \in listed[t] :
          stream' = [i \in 1 .. Len(stream) |->
                       [stream[i] EXCEPT !.recorded = @ /\ <<stream[i].dir, stream[i].of>> # e]]
    BY <1>3 DEF DeleteEvent
  <2>2. Len(stream') = Len(stream)
    BY <1>0, <2>1
  <2>3. \A i \in 1 .. Len(stream) :
          stream'[i] = [stream[i] EXCEPT !.recorded = @ /\ <<stream[i].dir, stream[i].of>> # e]
    BY <2>1
  <2> QED BY <1>0, <2>2, <2>3 DEF SameCopies, Copies
<1> QED BY <1>1, <1>2, <1>3

LEMMA NextHolds == IInv /\ HoldInv /\ [Next]_vars => HoldInv'
<1> SUFFICES ASSUME IInv, HoldInv, [Next]_vars PROVE HoldInv'
  OBVIOUS
<1>0. TypeOK /\ TypeOK' /\ pc \in [Threads -> Places]
  BY NextTypeInv DEF IInv, TypeInv, TypeOK
<1>1. ASSUME NEW t \in Threads,
             \/ \E k \in Movable : CallToGpu(t, k) \/ CallToCpu(t, k)
             \/ Return(t)
             \/ AcquireToGpu(t) \/ AcquireToCpu(t)
             \/ CheckEvent(t) \/ FetchEvent(t) \/ Synchronize(t)
             \/ CopyToGpuFails(t) \/ MapGpu(t) \/ MapCpu(t)
             \/ StartScan(t) \/ FinishScan(t) \/ EndCleanup(t)
      PROVE  HoldInv'
  <2>1. UNCHANGED <<location, slot, rows, store, stream>>
    BY <1>1 DEF CallToGpu, CallToCpu, Return, AcquireToGpu, AcquireToCpu, CheckEvent, FetchEvent,
                Synchronize, CopyToGpuFails, MapGpu, MapCpu, StartScan, FinishScan, EndCleanup
  <2>2. \E p \in Places \ (GpuQueued \cup CpuQueued) : pc' = [pc EXCEPT ![t] = p]
    BY <1>1 DEF CallToGpu, CallToCpu, Return, AcquireToGpu, AcquireToCpu, CheckEvent, FetchEvent,
                Synchronize, CopyToGpuFails, Fail, MapGpu, MapCpu, StartScan, FinishScan,
                EndCleanup, Goto, Places, MoverPlaces, GpuQueued, CpuQueued
  <2>3. \A u \in Threads \ {t} : arg'[u] = arg[u] /\ target'[u] = target[u]
    <3>1. /\ \/ arg' = arg
             \/ \E k : arg' = [arg EXCEPT ![t] = k]
          /\ \/ target' = target
             \/ \E k : target' = [target EXCEPT ![t] = k]
      BY <1>1 DEF CallToGpu, CallToCpu, Return, AcquireToGpu, AcquireToCpu, CheckEvent, FetchEvent,
                  Synchronize, CopyToGpuFails, MapGpu, MapCpu, StartScan, FinishScan, EndCleanup
    <3>2. arg \in [Threads -> Keys \cup {NoKey}]
          /\ target \in [Threads -> PersistentRows \cup {NoSlot}]
      BY <1>0 DEF TypeOK
    <3> QED BY <3>1, <3>2
  <2>4. ASSUME NEW u \in Threads, pc'[u] \in GpuQueued \cup CpuQueued
        PROVE  u # t /\ pc'[u] = pc[u]
    BY <1>0, <2>2, <2>4
  <2>5. SameCopies(stream, stream')
    BY <1>0, <2>1, EventsKeepCopies
  <2> QED BY <1>0, <2>1, <2>3, <2>4, <2>5, SameHolds
<1>2. ASSUME NEW t \in Threads, RecordToGpu(t) \/ RecordToCpu(t)
      PROVE  HoldInv'
  <2>1. UNCHANGED <<location, slot, rows, store, arg, target>>
        /\ (Record \/ UNCHANGED stream)
    BY <1>2 DEF RecordToGpu, RecordToCpu
  <2>2. SameCopies(stream, stream')
    BY <1>0, <2>1, EventsKeepCopies
  <2>3. \/ pc[t] = "gpu_record" /\ pc' = [pc EXCEPT ![t] = "gpu_track"]
        \/ pc[t] = "cpu_record" /\ pc' = [pc EXCEPT ![t] = "cpu_track"]
        \/ pc' = [pc EXCEPT ![t] = "refused"]
    BY <1>2 DEF RecordToGpu, RecordToCpu, Fail, Goto
  <2>4. ASSUME NEW u \in Threads, pc'[u] \in GpuQueued \cup CpuQueued
        PROVE  /\ pc[u] \in GpuQueued <=> pc'[u] \in GpuQueued
               /\ pc[u] \in CpuQueued <=> pc'[u] \in CpuQueued
    BY <1>0, <2>3, <2>4 DEF GpuQueued, CpuQueued
  <2> QED BY <1>0, <2>1, <2>2, <2>4, SameHolds
<1>3. ASSUME NEW t \in Threads, DeleteEvent(t) PROVE HoldInv'
  <2>1. UNCHANGED <<location, slot, rows, store, pc, arg, target>>
    BY <1>3 DEF DeleteEvent
  <2>2. SameCopies(stream, stream')
    BY <1>0, <1>3, EventsKeepCopies
  <2> QED BY <1>0, <2>1, <2>2, SameHolds
<1>4. CASE UNCHANGED vars
  <2>1. UNCHANGED <<location, slot, rows, store, stream, pc, arg, target>>
    BY <1>4 DEF vars
  <2>2. SameCopies(stream, stream')
    BY <1>0, <2>1, EventsKeepCopies
  <2> QED BY <1>0, <2>1, <2>2, SameHolds
<1>5. CASE CopyStream
  BY <1>0, <1>5, CopyStreamHolds
<1>6. ASSUME NEW t \in Threads,
             CopyToGpu(t) \/ CopyToCpu(t) \/ CopyToCpuFails(t) \/ TrackGpu(t) \/ TrackCpu(t)
      PROVE  HoldInv'
  BY <1>0, <1>6, CopyToGpuHolds, CopyToCpuHolds, CopyToCpuFailsHolds, TrackHolds
<1> QED BY <1>1, <1>2, <1>3, <1>4, <1>5, <1>6 DEF Next, Call, MoveToGpu, MoveToCpu, Cleanup

\* Once the queued copies have run, the slot of every persistent expert holds
\* that expert's weights, whatever moves raced for it.
THEOREM SlotsHoldAlways == Spec => []SlotsHoldTheirExperts
<1>1. HoldInv => SlotsHoldTheirExperts
  BY DEF HoldInv
<1> QED BY Safety, InitHolds, NextHolds, <1>1, PTL DEF Spec

-----------------------------------------------------------------------------
(***************************************************************************)
(* The reallocation handlers for every set of requests and any finite      *)
(* number of handler threads: whatever they do is something the mover may  *)
(* do, so that everything proved of the mover holds of the service, and    *)
(* the outcomes they report add up to the placement.                       *)
(*                                                                         *)
(* The sum is not inductive alone.  It counts the requests by their        *)
(* answers, and the threads between a move and its report by the request   *)
(* each one is at; a report takes a thread from one count to the other     *)
(* only because no two threads are at one request, no request comes up     *)
(* twice in a job, and one still to be processed is not yet answered.      *)
(***************************************************************************)

Requests == Actions \X Movable
Statuses == {"unsubmitted", "pending", "completed", "failed", "cancelled"}
Phases == {"idle", "process", "moving", "book"}

\* The places of a thread in move_expert_to_gpu, and in move_expert_to_cpu.
InGpu == {"to_gpu", "gpu_copy", "gpu_record", "gpu_track", "gpu_map"}
InCpu == {"to_cpu", "cpu_check", "cpu_fetch", "cpu_sync", "cpu_copy", "cpu_record",
          "cpu_track", "cpu_map"}
InMover == InGpu \cup InCpu \cup {"moved", "refused"}

BookTypes ==
  /\ request \in Seq(Requests)
  /\ status \in [RequestIds -> Statuses]
  /\ job \in [Threads -> Seq(RequestIds)]
  /\ phase \in [Threads -> Phases]
  /\ Len(request) <= MaxRequests
  /\ succeeded \subseteq 1 .. Len(request)

\* A job holds requests that were submitted, and is empty when the thread idles.
JobsSubmitted ==
  \A t \in Threads :
    /\ \A i \in 1 .. Len(job[t]) : job[t][i] <= Len(request)
    /\ phase[t] = "idle" <=> job[t] = <<>>

\* A request is in one place of one job.
JobsApart ==
  \A t, u \in Threads : \A i \in 1 .. Len(job[t]), j \in 1 .. Len(job[u]) :
    job[t][i] = job[u][j] => t = u /\ i = j

\* A request in a job has succeeded only when its thread is about to book it.
SucceededFirst ==
  \A t \in Threads : \A i \in 1 .. Len(job[t]) :
    job[t][i] \in succeeded => i = 1 /\ phase[t] = "book"

\* A thread is in the mover for the request it is at, and only then.
DrivesMover ==
  \A t \in Threads :
    /\ phase[t] = "moving" <=> pc[t] \in InMover
    /\ phase[t] \in {"process", "book"} => pc[t] = "idle"
    /\ phase[t] = "moving" => arg[t] = ExpertOf(Current(t))
    /\ pc[t] \in InGpu => ActionOf(Current(t)) = "move_to_gpu"
    /\ pc[t] \in InCpu => ActionOf(Current(t)) = "move_to_cpu"

JobInv == BookTypes /\ JobsSubmitted /\ JobsApart /\ SucceededFirst /\ DrivesMover

-----------------------------------------------------------------------------
(* Jobs and requests *)

\* A queue of requests is not empty when its thread has one to work at.
LEMMA JobHead ==
  ASSUME BookTypes, JobsSubmitted, NEW t \in Threads, phase[t] # "idle"
  PROVE  /\ Len(job[t]) \in Nat \ {0}
         /\ Current(t) = job[t][1]
         /\ Current(t) \in RequestIds
         /\ Current(t) \in 1 .. Len(request)
         /\ request[Current(t)] \in Requests
<1> DEFINE q == job[t]
<1>1. q \in Seq(RequestIds) /\ q # <<>>
  BY DEF BookTypes, JobsSubmitted
<1>2. Len(q) \in Nat \ {0} /\ Head(q) = q[1] /\ q[1] \in RequestIds
  BY <1>1
<1>3. q[1] <= Len(request)
  BY <1>2 DEF JobsSubmitted
<1>4. request \in Seq(Requests) /\ Len(request) \in Nat
  BY DEF BookTypes
<1>5. q[1] \in 1 .. Len(request)
  BY <1>2, <1>3, <1>4 DEF RequestIds
<1> HIDE DEF q
<1>6. request[q[1]] \in Requests
  BY <1>4, <1>5
<1> QED BY <1>2, <1>5, <1>6 DEF Current, q

\* What a move may do to its thread: it keeps its expert and its direction.
LEMMA MoveStays ==
  ASSUME NEW t \in Threads, MoveToGpu(t) \/ MoveToCpu(t)
  PROVE  /\ arg' = arg
         /\ \E p \in InMover :
              /\ pc' = [pc EXCEPT ![t] = p]
              /\ \/ pc[t] \in InGpu /\ p \notin InCpu
                 \/ pc[t] \in InCpu /\ p \notin InGpu
<1> USE DEF Goto, Fail, InGpu, InCpu, InMover
<1>1. CASE MoveToGpu(t)
  BY <1>1 DEF MoveToGpu, AcquireToGpu, CopyToGpu, CopyToGpuFails, RecordToGpu, TrackGpu, MapGpu
<1>2. CASE MoveToCpu(t)
  BY <1>2 DEF MoveToCpu, AcquireToCpu, CheckEvent, FetchEvent, Synchronize, CopyToCpu,
              CopyToCpuFails, RecordToCpu, TrackCpu, MapCpu
<1> QED BY <1>1, <1>2

LEMMA CleanupStays ==
  ASSUME NEW t \in Threads, Cleanup(t)
  PROVE  /\ arg' = arg /\ location' = location
         /\ \/ pc' = pc
            \/ /\ pc[t] \in {"idle", "scan", "delete"}
               /\ \E p \in {"idle", "scan", "delete"} : pc' = [pc EXCEPT ![t] = p]
BY DEF Cleanup, StartScan, FinishScan, DeleteEvent, EndCleanup, Goto

LEMMA InitJobs == ServiceInit => JobInv
<1> SUFFICES ASSUME ServiceInit PROVE JobInv
  OBVIOUS
<1>1. BookTypes
  <2>1. request = <<>> /\ Len(request) = 0 /\ request \in Seq(Requests)
    BY EmptySeq DEF ServiceInit
  <2>2. job \in [Threads -> Seq(RequestIds)]
    <3> DEFINE T == Seq(RequestIds)
    <3>1. <<>> \in T
      BY EmptySeq
    <3> HIDE DEF T
    <3>2. job \in [Threads -> T]
      BY <3>1 DEF ServiceInit
    <3> QED BY <3>2 DEF T
  <2> QED BY <2>1, <2>2, ServiceAssumption DEF ServiceInit, BookTypes, Statuses, Phases
<1>2. \A t \in Threads : job[t] = <<>> /\ Len(job[t]) = 0 /\ phase[t] = "idle" /\ pc[t] = "idle"
  BY DEF ServiceInit, Init
<1> QED BY <1>1, <1>2 DEF JobInv, JobsSubmitted, JobsApart, SucceededFirst, DrivesMover,
                          InMover, InGpu, InCpu

\* Steps of the mover and of the cleanup leave requests and jobs alone.
LEMMA MoverJobs ==
  ASSUME TypeInv, JobInv, UNCHANGED svars,
         \/ arg' = arg /\ pc' = pc
         \/ \E t \in Threads : MoveToGpu(t) \/ MoveToCpu(t)
         \/ \E t \in Threads : phase[t] = "idle" /\ Cleanup(t)
  PROVE  JobInv'
<1>0. pc \in [Threads -> Places]
  BY DEF TypeInv, TypeOK
<1>1. BookTypes' /\ JobsSubmitted' /\ JobsApart' /\ SucceededFirst'
  BY DEF JobInv, svars, BookTypes, JobsSubmitted, JobsApart, SucceededFirst
<1>2. DrivesMover'
  <2> USE DEF svars, JobInv, DrivesMover, ExpertOf, ActionOf, Current
  <2>1. CASE arg' = arg /\ pc' = pc
    BY <2>1
  <2>2. ASSUME NEW t \in Threads, MoveToGpu(t) \/ MoveToCpu(t) PROVE DrivesMover'
    <3>1. arg' = arg
      BY <2>2, MoveStays
    <3>2. PICK p \in InMover :
              /\ pc' = [pc EXCEPT ![t] = p]
              /\ \/ pc[t] \in InGpu /\ p \notin InCpu
                 \/ pc[t] \in InCpu /\ p \notin InGpu
      BY <2>2, MoveStays
    <3> QED BY <3>1, <3>2, <1>0 DEF InMover, InGpu, InCpu
  <2>3. ASSUME NEW t \in Threads, phase[t] = "idle", Cleanup(t) PROVE DrivesMover'
    BY <2>3, <1>0, CleanupStays DEF InMover, InGpu, InCpu
  <2> QED BY <2>1, <2>2, <2>3
<1> QED BY <1>1, <1>2 DEF JobInv

\* The new requests get the numbers after those submitted before.
LEMMA SubmitParts ==
  ASSUME JobInv, NEW t \in Threads, NEW asked \in Seq(Requests), Submit(t, asked)
  PROVE  LET ids == [i \in 1 .. Len(asked) |-> Len(request) + i]
             n == Len(request)
             m == Len(asked)
         IN  /\ n \in Nat /\ m \in Nat /\ n + m <= MaxRequests
             /\ request' \in Seq(Requests) /\ Len(request') = n + m
             /\ \A r \in 1 .. n : request'[r] = request[r]
             /\ ids \in Seq(RequestIds) /\ Len(ids) = m
             /\ \A i \in 1 .. m : ids[i] = n + i
             /\ \A r \in RequestIds :
                  status'[r] = IF r \in n + 1 .. n + m THEN "pending" ELSE status[r]
<1> DEFINE n == Len(request)
           m == Len(asked)
           ids == [i \in 1 .. m |-> n + i]
<1>1. request \in Seq(Requests) /\ n \in Nat /\ m \in Nat /\ n + m <= MaxRequests
      /\ MaxRequests \in Nat
  BY ServiceAssumption DEF JobInv, BookTypes, Submit
<1>2. request' = request \o asked
  BY DEF Submit
<1>3. request' \in Seq(Requests) /\ Len(request') = n + m
      /\ \A r \in 1 .. n : request'[r] = request[r]
  BY <1>1, <1>2
<1>4. \A i \in 1 .. m : n + i \in RequestIds
  BY <1>1 DEF RequestIds
<1>5. ids \in Seq(RequestIds) /\ Len(ids) = m /\ \A i \in 1 .. m : ids[i] = n + i
  BY <1>1, <1>4
<1>6. \A r : r \in Range(ids) <=> r \in n + 1 .. n + m
  <2>1. \A r : r \in Range(ids) <=> \E i \in 1 .. m : r = n + i
    BY DEF Range
  <2>2. \A r \in n + 1 .. n + m : r - n \in 1 .. m /\ r = n + (r - n)
    BY <1>1
  <2>3. \A i \in 1 .. m : n + i \in n + 1 .. n + m
    BY <1>1
  <2> HIDE DEF ids, n, m
  <2> QED BY <2>1, <2>2, <2>3
<1>7. status' = [r \in RequestIds |-> IF r \in Range(ids) THEN "pending" ELSE status[r]]
  BY DEF Submit
<1>8. \A r \in RequestIds :
        status'[r] = IF r \in n + 1 .. n + m THEN "pending" ELSE status[r]
  BY <1>6, <1>7
<1> QED BY <1>1, <1>3, <1>5, <1>8

LEMMA SubmitJobs ==
  ASSUME TypeInv, JobInv, NEW t \in Threads, NEW asked \in Seq(Requests), Submit(t, asked)
  PROVE  JobInv'
<1> DEFINE n == Len(request)
           m == Len(asked)
           ids == [i \in 1 .. Len(asked) |-> n + i]
<1>1. /\ n \in Nat /\ m \in Nat /\ n + m <= MaxRequests
      /\ request' \in Seq(Requests) /\ Len(request') = n + m
      /\ \A r \in 1 .. n : request'[r] = request[r]
      /\ ids \in Seq(RequestIds) /\ Len(ids) = m
      /\ \A i \in 1 .. m : ids[i] = n + i
      /\ \A r \in RequestIds :
           status'[r] = IF r \in n + 1 .. n + m THEN "pending" ELSE status[r]
  BY SubmitParts
<1>2. /\ phase[t] = "idle" /\ pc[t] = "idle"
      /\ job' = [job EXCEPT ![t] = ids]
      /\ phase' = [phase EXCEPT ![t] = IF asked = <<>> THEN "idle" ELSE "process"]
      /\ pc' = pc /\ arg' = arg
      /\ DOMAIN status' = RequestIds
  BY DEF Submit, Enter, vars
<1>3. asked = <<>> <=> ids = <<>>
  <2>1. asked = <<>> <=> m = 0
    BY EmptySeq
  <2>2. ids = <<>> <=> m = 0
    BY <1>1, EmptySeq
  <2> QED BY <2>1, <2>2
<1>4. BookTypes
  BY DEF JobInv
<1>5. status' \in [RequestIds -> Statuses]
  <2>1. status' = [r \in RequestIds |-> status'[r]]
    BY DEF Submit
  <2>2. \A r \in RequestIds : status'[r] \in Statuses
    BY <1>1, <1>4 DEF BookTypes, Statuses
  <2> QED BY <2>1, <2>2
<1> HIDE DEF ids, m
<1>6. BookTypes'
  <2>1. succeeded' = succeeded /\ succeeded \subseteq 1 .. n + m
    BY <1>1, <1>4 DEF BookTypes, Submit
  <2> QED BY <2>1, <1>1, <1>2, <1>4, <1>5 DEF BookTypes, Phases
<1>7. job'[t] = ids /\ \A u \in Threads \ {t} : job'[u] = job[u] /\ phase'[u] = phase[u]
  BY <1>2, <1>4 DEF BookTypes
<1>8. \A u \in Threads \ {t} : \A i \in 1 .. Len(job[u]) : job[u][i] \in 1 .. n
  <2> TAKE u \in Threads \ {t}
  <2> DEFINE q == job[u]
  <2>1. q \in Seq(RequestIds)
    BY <1>4 DEF BookTypes
  <2>2. \A i \in 1 .. Len(q) : q[i] \in RequestIds /\ q[i] <= n
    BY <2>1 DEF JobInv, JobsSubmitted
  <2> QED BY <2>2, <1>1 DEF RequestIds
<1>9. JobsSubmitted'
  <2>1. phase'[t] = "idle" <=> job'[t] = <<>>
    BY <1>2, <1>3, <1>4, <1>7 DEF BookTypes
  <2>2. \A i \in 1 .. Len(job'[t]) : job'[t][i] <= Len(request')
    BY <1>1, <1>7
  <2>3. \A u \in Threads \ {t} : \A i \in 1 .. Len(job'[u]) : job'[u][i] <= Len(request')
    <3>1. ASSUME NEW u \in Threads \ {t}, NEW i \in 1 .. Len(job[u])
          PROVE  job[u][i] <= Len(request')
      BY <1>1, <1>8
    <3> QED BY <3>1, <1>7
  <2> QED BY <2>1, <2>2, <2>3, <1>7 DEF JobInv, JobsSubmitted
<1>10. JobsApart'
  <2> SUFFICES ASSUME NEW u \in Threads, NEW v \in Threads,
                      NEW i \in 1 .. Len(job'[u]), NEW j \in 1 .. Len(job'[v]),
                      job'[u][i] = job'[v][j]
               PROVE  u = v /\ i = j
    BY DEF JobsApart
  <2>1. CASE u = t /\ v = t
    BY <2>1, <1>1, <1>7
  <2>0. /\ \A x \in 1 .. Len(job'[t]) : job'[t][x] > n /\ job'[t][x] \in Int
        /\ \A w \in Threads \ {t} : \A x \in 1 .. Len(job'[w]) : job'[w][x] <= n
    <3>1. \A x \in 1 .. Len(ids) : ids[x] > n /\ ids[x] \in Int
      BY <1>1
    <3>2. ASSUME NEW w \in Threads \ {t} PROVE \A x \in 1 .. Len(job'[w]) : job'[w][x] <= n
      BY <1>1, <1>7, <1>8
    <3> QED BY <3>1, <3>2, <1>7
  <2>2. CASE u = t /\ v # t
    <3>1. job'[u][i] > n /\ job'[v][j] <= n /\ job'[u][i] \in Int
      BY <2>0, <2>2
    <3> QED BY <3>1, <1>1
  <2>3. CASE u # t /\ v = t
    <3>1. job'[v][j] > n /\ job'[u][i] <= n /\ job'[v][j] \in Int
      BY <2>0, <2>3
    <3> QED BY <3>1, <1>1
  <2>4. CASE u # t /\ v # t
    BY <2>4, <1>7 DEF JobInv, JobsApart
  <2> QED BY <2>1, <2>2, <2>3, <2>4
<1>11. SucceededFirst'
  <2>1. succeeded' = succeeded /\ succeeded \subseteq 1 .. n
    BY <1>4 DEF BookTypes, Submit
  <2>2. \A i \in 1 .. Len(job'[t]) : job'[t][i] \notin succeeded
    <3> TAKE i \in 1 .. Len(job'[t])
    <3>1. job'[t][i] = n + i /\ i \in 1 .. m
      BY <1>1, <1>7
    <3> QED BY <3>1, <2>1, <1>1
  <2> QED BY <2>1, <2>2, <1>7 DEF JobInv, SucceededFirst
<1>12. DrivesMover'
  <2>1. phase'[t] \in {"idle", "process"} /\ pc'[t] = "idle"
    BY <1>2, <1>4 DEF BookTypes
  <2>2. \A u \in Threads \ {t} : phase[u] = "moving" =>
          Current(u)' = Current(u) /\ request'[Current(u)] = request[Current(u)]
    <3> SUFFICES ASSUME NEW u \in Threads \ {t}, phase[u] = "moving"
                 PROVE  Current(u)' = Current(u) /\ request'[Current(u)] = request[Current(u)]
      OBVIOUS
    <3>1. Current(u) \in 1 .. n
      BY <1>4, JobHead DEF JobInv
    <3>2. Current(u)' = Current(u)
      BY <1>7 DEF Current
    <3> QED BY <3>1, <3>2, <1>1
  <2>3. \A u \in Threads : pc[u] \in InGpu \cup InCpu => phase[u] = "moving"
    BY DEF JobInv, DrivesMover, InMover
  <2> QED BY <2>1, <2>2, <2>3, <1>2, <1>7
          DEF JobInv, DrivesMover, ExpertOf, ActionOf, InMover, InGpu, InCpu
<1> QED BY <1>6, <1>9, <1>10, <1>11, <1>12 DEF JobInv

\* A handler calls the mover, with an expert that clients ask to move.
LEMMA ProcessCalls ==
  ASSUME JobInv, NEW t \in Threads, Process(t)
  PROVE  /\ ExpertOf(Current(t)) \in Movable
         /\ \/ /\ ActionOf(Current(t)) = "move_to_gpu"
               /\ CallToGpu(t, ExpertOf(Current(t)))
            \/ /\ ActionOf(Current(t)) = "move_to_cpu"
               /\ CallToCpu(t, ExpertOf(Current(t)))
<1>1. request[Current(t)] \in Requests
  BY JobHead DEF JobInv, Process
<1>2. ExpertOf(Current(t)) \in Movable
  BY <1>1 DEF Requests, ExpertOf
<1>3. \/ ActionOf(Current(t)) = "move_to_gpu" /\ CallToGpu(t, ExpertOf(Current(t)))
      \/ ActionOf(Current(t)) = "move_to_cpu" /\ CallToCpu(t, ExpertOf(Current(t)))
  BY DEF Process
<1> QED BY <1>2, <1>3

LEMMA ProcessJobs ==
  ASSUME TypeInv, JobInv, NEW t \in Threads, Process(t)
  PROVE  JobInv'
<1> DEFINE k == ExpertOf(Current(t))
<1>1. /\ phase[t] = "process" /\ phase' = [phase EXCEPT ![t] = "moving"]
      /\ UNCHANGED <<request, status, succeeded, job>>
  BY DEF Process, Enter
<1>2. /\ arg' = [arg EXCEPT ![t] = k]
      /\ \/ ActionOf(Current(t)) = "move_to_gpu" /\ pc' = [pc EXCEPT ![t] = "to_gpu"]
         \/ ActionOf(Current(t)) = "move_to_cpu" /\ pc' = [pc EXCEPT ![t] = "to_cpu"]
  BY ProcessCalls DEF CallToGpu, CallToCpu, Goto
<1>3. phase \in [Threads -> Phases] /\ pc \in [Threads -> Places]
      /\ arg \in [Threads -> Keys \cup {NoKey}]
  BY DEF JobInv, BookTypes, TypeInv, TypeOK
<1>4. BookTypes'
  BY <1>1, <1>3 DEF JobInv, BookTypes, Phases
<1>5. JobsSubmitted' /\ JobsApart'
  BY <1>1, <1>3 DEF JobInv, JobsSubmitted, JobsApart
<1>6. SucceededFirst'
  BY <1>1, <1>3 DEF JobInv, SucceededFirst
<1>7. DrivesMover'
  <2>1. \A u \in Threads : Current(u)' = Current(u)
    BY <1>1 DEF Current
  <2> QED BY <2>1, <1>1, <1>2, <1>3
          DEF JobInv, DrivesMover, ExpertOf, ActionOf, InMover, InGpu, InCpu
<1> QED BY <1>4, <1>5, <1>6, <1>7 DEF JobInv

\* The outcome of the request a thread is at is that of no other.
LEMMA OutcomeJobs ==
  ASSUME TypeInv, JobInv, NEW t \in Threads, NEW s \in {"completed", "failed"},
         phase[t] \in {"process", "moving"}, SetStatus(t, s), Enter(t, "book"),
         succeeded' = succeeded \/ succeeded' = succeeded \cup {Current(t)},
         UNCHANGED <<request, job>>,
         \/ phase[t] = "process" /\ UNCHANGED vars
         \/ phase[t] = "moving" /\ Return(t)
  PROVE  JobInv'
<1> DEFINE c == Current(t)
<1>1. status' = [status EXCEPT ![c] = s] /\ phase' = [phase EXCEPT ![t] = "book"]
  BY DEF SetStatus, Enter
<1>2. /\ phase \in [Threads -> Phases] /\ pc \in [Threads -> Places]
      /\ arg \in [Threads -> Keys \cup {NoKey}]
      /\ status \in [RequestIds -> Statuses]
  BY DEF JobInv, BookTypes, TypeInv, TypeOK
<1>3. c = job[t][1] /\ c \in 1 .. Len(request) /\ Len(job[t]) \in Nat \ {0}
  BY JobHead DEF JobInv
<1>4. BookTypes'
  BY <1>1, <1>2, <1>3 DEF JobInv, BookTypes, Phases, Statuses
<1>5. JobsSubmitted' /\ JobsApart'
  BY <1>1, <1>2 DEF JobInv, JobsSubmitted, JobsApart
<1>6. SucceededFirst'
  <2> SUFFICES ASSUME NEW u \in Threads, NEW i \in 1 .. Len(job[u]),
                      job[u][i] \in succeeded'
               PROVE  i = 1 /\ phase'[u] = "book"
    BY DEF SucceededFirst
  <2>1. CASE job[u][i] = c
    <3>1. u = t /\ i = 1
      BY <1>3, <2>1 DEF JobInv, JobsApart
    <3> QED BY <3>1, <1>1, <1>2
  <2>2. CASE job[u][i] # c
    <3>1. job[u][i] \in succeeded
      BY <2>2
    <3>2. i = 1 /\ phase[u] = "book"
      BY <3>1 DEF JobInv, SucceededFirst
    <3> QED BY <3>2, <1>1, <1>2
  <2> QED BY <2>1, <2>2
<1>7. DrivesMover'
  <2>1. \A u \in Threads : Current(u)' = Current(u)
    BY DEF Current
  <2>2. pc'[t] = "idle"
    BY <1>2 DEF JobInv, DrivesMover, vars, Return, Goto
  <2>3. \A u \in Threads \ {t} : pc'[u] = pc[u] /\ arg'[u] = arg[u] /\ phase'[u] = phase[u]
    BY <1>1, <1>2 DEF vars, Return, Goto
  <2> QED BY <2>1, <2>2, <2>3, <1>1, <1>2
          DEF JobInv, DrivesMover, ExpertOf, ActionOf, InMover, InGpu, InCpu
<1> QED BY <1>4, <1>5, <1>6, <1>7 DEF JobInv

LEMMA BookJobs ==
  ASSUME TypeInv, JobInv, NEW t \in Threads, Book(t)
  PROVE  JobInv'
<1> DEFINE q == job[t]
           p == IF Len(q) = 1 THEN "idle" ELSE "process"
<1>1. /\ phase[t] = "book" /\ phase' = [phase EXCEPT ![t] = p]
      /\ job' = [job EXCEPT ![t] = Tail(q)]
      /\ UNCHANGED <<request, status, succeeded, pc, arg>>
  BY DEF Book, Enter, vars
<1>2. phase \in [Threads -> Phases] /\ job \in [Threads -> Seq(RequestIds)]
  BY DEF JobInv, BookTypes
<1>3. q \in Seq(RequestIds) /\ Len(q) \in Nat \ {0} /\ q # <<>>
  BY <1>1, <1>2, JobHead, EmptySeq DEF JobInv
<1>4. /\ Tail(q) \in Seq(RequestIds) /\ Len(Tail(q)) = Len(q) - 1
      /\ \A i \in 1 .. Len(q) - 1 : Tail(q)[i] = q[i + 1] /\ i + 1 \in 1 .. Len(q)
      /\ (Len(q) = 1 <=> Tail(q) = <<>>)
  <2>1. Tail(q) \in Seq(RequestIds) /\ Len(Tail(q)) = Len(q) - 1
        /\ \A i \in 1 .. Len(q) - 1 : Tail(q)[i] = q[i + 1] /\ i + 1 \in 1 .. Len(q)
    <3> HIDE DEF q
    <3> QED BY <1>3
  <2>2. Len(Tail(q)) = 0 <=> Tail(q) = <<>>
    BY <2>1, EmptySeq
  <2> QED BY <2>1, <2>2, <1>3
<1>5. /\ job'[t] = Tail(q) /\ phase'[t] = p
      /\ \A u \in Threads \ {t} : job'[u] = job[u] /\ phase'[u] = phase[u]
  BY <1>1, <1>2
<1>6. \A u \in Threads : \A i \in 1 .. Len(job'[u]) :
        \E x \in 1 .. Len(job[u]) :
          /\ job'[u][i] = job[u][x]
          /\ x = IF u = t THEN i + 1 ELSE i
  BY <1>3, <1>4, <1>5
<1>7. BookTypes'
  BY <1>1, <1>2, <1>4 DEF JobInv, BookTypes, Phases
<1>8. JobsSubmitted'
  <2>1. \A u \in Threads : \A i \in 1 .. Len(job'[u]) : job'[u][i] <= Len(request')
    BY <1>1, <1>6 DEF JobInv, JobsSubmitted
  <2>2. \A u \in Threads : phase'[u] = "idle" <=> job'[u] = <<>>
    BY <1>4, <1>5 DEF JobInv, JobsSubmitted
  <2> QED BY <2>1, <2>2 DEF JobsSubmitted
<1>9. JobsApart'
  <2> SUFFICES ASSUME NEW u \in Threads, NEW v \in Threads,
                      NEW i \in 1 .. Len(job'[u]), NEW j \in 1 .. Len(job'[v]),
                      job'[u][i] = job'[v][j]
               PROVE  u = v /\ i = j
    BY DEF JobsApart
  <2>1. PICK x \in 1 .. Len(job[u]) :
          job'[u][i] = job[u][x] /\ x = IF u = t THEN i + 1 ELSE i
    BY <1>6
  <2>2. PICK y \in 1 .. Len(job[v]) :
          job'[v][j] = job[v][y] /\ y = IF v = t THEN j + 1 ELSE j
    BY <1>6
  <2>3. job[u][x] = job[v][y]
    BY <2>1, <2>2
  <2>4. u = v /\ x = y
    BY <2>3 DEF JobInv, JobsApart
  <2> QED BY <2>1, <2>2, <2>4
<1>10. SucceededFirst'
  <2> SUFFICES ASSUME NEW u \in Threads, NEW i \in 1 .. Len(job'[u]),
                      job'[u][i] \in succeeded
               PROVE  i = 1 /\ phase'[u] = "book"
    BY <1>1 DEF SucceededFirst
  <2>1. PICK x \in 1 .. Len(job[u]) :
          job'[u][i] = job[u][x] /\ x = IF u = t THEN i + 1 ELSE i
    BY <1>6
  <2>2. x = 1 /\ phase[u] = "book"
    BY <2>1 DEF JobInv, SucceededFirst
  <2> QED BY <2>1, <2>2, <1>5
<1>11. DrivesMover'
  <2>1. phase'[t] \in {"idle", "process"} /\ pc'[t] = "idle"
    BY <1>1, <1>5 DEF JobInv, DrivesMover
  <2>2. \A u \in Threads \ {t} : Current(u)' = Current(u)
    BY <1>5 DEF Current
  <2> QED BY <2>1, <2>2, <1>1, <1>5
          DEF JobInv, DrivesMover, ExpertOf, ActionOf, InMover, InGpu, InCpu
<1> QED BY <1>7, <1>8, <1>9, <1>10, <1>11 DEF JobInv

LEMMA CancelJobs ==
  ASSUME JobInv, CancelLooks \/ CancelWrites
  PROVE  JobInv'
<1>1. UNCHANGED <<request, succeeded, job, phase, pc, arg>>
  BY DEF CancelLooks, CancelWrites, vars
<1>2. status' \in [RequestIds -> Statuses]
  BY DEF CancelLooks, CancelWrites, JobInv, BookTypes, Statuses
<1> QED BY <1>1, <1>2 DEF JobInv, BookTypes, JobsSubmitted, JobsApart, SucceededFirst,
                          DrivesMover, ExpertOf, ActionOf, Current

-----------------------------------------------------------------------------
(* The service drives the mover *)

\* Every step of the service is a step of the mover, or none.
LEMMA ServiceSteps == JobInv /\ [ServiceNext]_allvars => [Next]_vars
<1> SUFFICES ASSUME JobInv, [ServiceNext]_allvars PROVE [Next]_vars
  OBVIOUS
<1>1. CASE Copy
  BY <1>1 DEF Copy, Next
<1>2. CASE CancelLooks \/ CancelWrites
  BY <1>2 DEF CancelLooks, CancelWrites
<1>3. ASSUME NEW t \in Threads, SubmitSingle(t) \/ SubmitBatch(t) PROVE vars' = vars
  BY <1>3 DEF SubmitSingle, SubmitBatch, Submit
<1>4. ASSUME NEW t \in Threads, Handle(t) PROVE [Next]_vars
  <2>1. CASE Process(t)
    BY <2>1, ProcessCalls DEF Next, Call
  <2>2. CASE Refuse(t) \/ Book(t)
    BY <2>2 DEF Refuse, Book
  <2>3. CASE Move(t)
    BY <2>3 DEF Move, Next
  <2>4. CASE Report(t)
    BY <2>4 DEF Report, Next
  <2> QED BY <1>4, <2>1, <2>2, <2>3, <2>4 DEF Handle
<1>5. ASSUME NEW t \in Threads, Stats(t) PROVE Next
  BY <1>5 DEF Stats, Next
<1>6. CASE UNCHANGED allvars
  BY <1>6 DEF allvars
<1> QED BY <1>1, <1>2, <1>3, <1>4, <1>5, <1>6 DEF ServiceNext

\* Every list of requests that clients send is one of requests to move.
LEMMA AskedRequests ==
  ASSUME NEW t \in Threads, SubmitSingle(t) \/ SubmitBatch(t)
  PROVE  \E asked \in Seq(Requests) : Submit(t, asked)
<1>1. ASSUME NEW q \in Singles PROVE <<q>> \in Seq(Requests)
  BY ServiceAssumption DEF Requests
<1>2. Batches \subseteq Seq(Requests)
  BY ServiceAssumption DEF Requests
<1> QED BY <1>1, <1>2 DEF SubmitSingle, SubmitBatch

LEMMA NextJobs == TypeInv /\ JobInv /\ [ServiceNext]_allvars => JobInv'
<1> SUFFICES ASSUME TypeInv, JobInv, [ServiceNext]_allvars PROVE JobInv'
  OBVIOUS
<1>1. CASE Copy
  BY <1>1, MoverJobs DEF Copy, CopyStream
<1>2. CASE CancelLooks \/ CancelWrites
  BY <1>2, CancelJobs
<1>3. ASSUME NEW t \in Threads, SubmitSingle(t) \/ SubmitBatch(t) PROVE JobInv'
  BY <1>3, AskedRequests, SubmitJobs
<1>4. ASSUME NEW t \in Threads, Handle(t) PROVE JobInv'
  <2>1. CASE Process(t)
    BY <2>1, ProcessJobs
  <2>2. CASE Refuse(t)
    BY <2>2, OutcomeJobs DEF Refuse
  <2>3. CASE Move(t)
    BY <2>3, MoverJobs DEF Move
  <2>4. CASE Report(t)
    BY <2>4, OutcomeJobs DEF Report
  <2>5. CASE Book(t)
    BY <2>5, BookJobs
  <2> QED BY <1>4, <2>1, <2>2, <2>3, <2>4, <2>5 DEF Handle
<1>5. ASSUME NEW t \in Threads, Stats(t) PROVE JobInv'
  BY <1>5, MoverJobs DEF Stats
<1>6. CASE UNCHANGED allvars
  <2>1. UNCHANGED svars /\ arg' = arg /\ pc' = pc
    BY <1>6 DEF allvars, vars
  <2> QED BY <2>1, MoverJobs
<1> QED BY <1>1, <1>2, <1>3, <1>4, <1>5, <1>6 DEF ServiceNext

LEMMA ServiceSafety == ServiceSpec => [](IInv /\ JobInv)
<1>1. ServiceInit => IInv /\ JobInv
  BY InitJobs, InitSafety DEF ServiceInit
<1>2. IInv /\ JobInv /\ [ServiceNext]_allvars => IInv' /\ JobInv'
  <2>1. IInv => TypeInv
    BY DEF IInv
  <2> QED BY <2>1, ServiceSteps, NextSafety, NextJobs
<1> QED BY <1>1, <1>2, PTL DEF ServiceSpec

\* The handlers, whatever clients send them and however their threads
\* interleave, only ever do what the mover's callers may do: the theorems about
\* the mover hold of the service.
THEOREM ServiceDrivesMover == ServiceSpec => Spec
<1>1. ServiceInit => Init
  BY DEF ServiceInit
<1> QED BY <1>1, ServiceSafety, ServiceSteps, PTL DEF ServiceSpec, Spec

-----------------------------------------------------------------------------
(* The outcomes add up *)

\* A thread whose move is in the tracker and is not reported yet.
Landed(t) == phase[t] = "moving" /\ pc[t] \in {"gpu_map", "cpu_map", "moved"}

LandedFor(a, k) == {t \in Threads : Landed(t) /\ request[Current(t)] = <<a, k>>}
DoneFor(a, k) == {r \in Submitted : r \in succeeded /\ request[r] = <<a, k>>}

Sum(k) ==
  OnGpu(location[k] = Gpu) - OnGpu(k[2] < NumGpuExperts) =
      Cardinality(DoneFor("move_to_gpu", k)) + Cardinality(LandedFor("move_to_gpu", k))
    - Cardinality(DoneFor("move_to_cpu", k)) - Cardinality(LandedFor("move_to_cpu", k))

\* The property, with a set of threads for each direction that the place of a
\* thread within the direction no longer shows in.
LEMMA SumForm == JobInv => \A k \in Keys : Balance(k) <=> Sum(k)
<1> SUFFICES ASSUME JobInv PROVE \A k \in Keys : Balance(k) <=> Sum(k)
  OBVIOUS
<1> SUFFICES ASSUME NEW k \in Keys
             PROVE  /\ LandedFor("move_to_gpu", k) =
                         {t \in Threads : /\ phase[t] = "moving" /\ pc[t] \in {"gpu_map", "moved"}
                                          /\ request[Current(t)] = <<"move_to_gpu", k>>}
                    /\ LandedFor("move_to_cpu", k) =
                         {t \in Threads : /\ phase[t] = "moving" /\ pc[t] \in {"cpu_map", "moved"}
                                          /\ request[Current(t)] = <<"move_to_cpu", k>>}
  BY DEF Balance, Sum, Outcomes, Unreported, DoneFor
<1>1. \A t \in Threads :
        /\ pc[t] = "gpu_map" => request[Current(t)][1] = "move_to_gpu"
        /\ pc[t] = "cpu_map" => request[Current(t)][1] = "move_to_cpu"
  BY DEF JobInv, DrivesMover, ActionOf, InGpu, InCpu
<1> QED BY <1>1 DEF LandedFor, Landed

LEMMA SumFinite ==
  ASSUME JobInv, NEW a, NEW k
  PROVE  /\ IsFiniteSet(LandedFor(a, k)) /\ Cardinality(LandedFor(a, k)) \in Nat
         /\ IsFiniteSet(DoneFor(a, k)) /\ Cardinality(DoneFor(a, k)) \in Nat
<1>1. IsFiniteSet(Threads) /\ LandedFor(a, k) \subseteq Threads
  BY ServiceAssumption DEF LandedFor
<1>2. Len(request) \in Nat /\ DoneFor(a, k) \subseteq 1 .. Len(request)
  BY DEF JobInv, BookTypes, DoneFor, Submitted
<1>3. IsFiniteSet(1 .. Len(request))
  BY <1>2, FS_Interval
<1> QED BY <1>1, <1>2, <1>3, FS_Subset, FS_CardinalityType

\* A step that leaves the tracker, the requests that succeeded and the landed
\* threads alone leaves the sum alone.
SameDone == succeeded' = succeeded
SameLanded == \A t \in Threads : Landed(t)' <=> Landed(t)
SameRequests ==
  /\ \A r \in Submitted : request'[r] = request[r]
  /\ \A t \in Threads : Landed(t) => Current(t)' = Current(t)

LEMMA SameSum ==
  ASSUME JobInv, \A k \in Keys : Sum(k), location' = location,
         SameDone, SameLanded, SameRequests, Submitted \subseteq Submitted'
  PROVE  \A k \in Keys : Sum(k)'
<1>1. \A a, k : DoneFor(a, k)' = DoneFor(a, k)
  <2>1. succeeded \subseteq Submitted /\ succeeded \subseteq Submitted'
    BY DEF JobInv, BookTypes, Submitted, SameDone, SameRequests
  <2> QED BY <2>1 DEF SameDone, SameRequests, DoneFor
<1>2. \A t \in Threads : Landed(t) => request'[Current(t)'] = request[Current(t)]
  <2> SUFFICES ASSUME NEW t \in Threads, Landed(t)
               PROVE  request'[Current(t)'] = request[Current(t)]
    OBVIOUS
  <2>1. Current(t) \in Submitted
    BY JobHead DEF JobInv, Landed, Submitted
  <2> QED BY <2>1 DEF SameRequests
<1>3. \A a, k : LandedFor(a, k)' = LandedFor(a, k)
  BY <1>2 DEF SameLanded, LandedFor
<1> QED BY <1>1, <1>3 DEF Sum

\* A move to the GPU lands when the tracker says so, one to the CPU likewise.
LEMMA TrackSum ==
  ASSUME IInv, JobInv, \A k \in Keys : Sum(k), NEW t \in Threads,
         TrackGpu(t) \/ TrackCpu(t), UNCHANGED svars
  PROVE  \A k \in Keys : Sum(k)'
<1> DEFINE e == arg[t]
           a == IF pc[t] = "gpu_track" THEN "move_to_gpu" ELSE "move_to_cpu"
           place == IF pc[t] = "gpu_track" THEN Gpu ELSE Cpu
<1>1. /\ pc \in [Threads -> Places] /\ location \in [Keys -> {Gpu, Cpu}]
      /\ e \in Keys
  BY DEF IInv, TypeInv, TypeOK, ArgsOK, HasExpert, TrackGpu, TrackCpu
<1>2. phase[t] = "moving" /\ e = ExpertOf(Current(t)) /\ a = ActionOf(Current(t))
  BY DEF JobInv, DrivesMover, InMover, InGpu, InCpu, TrackGpu, TrackCpu
<1>3. request[Current(t)] = <<a, e>>
  <2>1. request[Current(t)] \in Requests
    BY <1>2, JobHead DEF JobInv
  <2> HIDE DEF a, e
  <2> QED BY <2>1, <1>2 DEF Requests, ActionOf, ExpertOf
<1>4. location[e] = IF pc[t] = "gpu_track" THEN Cpu ELSE Gpu
  <2>1. MoveInv(t)
    BY DEF IInv
  <2> QED BY <2>1 DEF MoveInv, TakingSlot, LeavingSlot, TrackGpu, TrackCpu
<1>5. /\ location' = [location EXCEPT ![e] = place]
      /\ ~Landed(t) /\ Landed(t)'
      /\ \A u \in Threads \ {t} : Landed(u)' <=> Landed(u)
  BY <1>1, <1>2 DEF TrackGpu, TrackCpu, Goto, Landed, svars
<1>6. UNCHANGED <<request, succeeded, job>>
  BY DEF svars
<1>7. \A b, k : DoneFor(b, k)' = DoneFor(b, k)
  BY <1>6 DEF DoneFor, Submitted
<1>8. \A b, k : LandedFor(b, k)' = IF b = a /\ k = e THEN LandedFor(b, k) \cup {t}
                                   ELSE LandedFor(b, k)
  <2> HIDE DEF a, e
  <2>1. \A u : Current(u)' = Current(u)
    BY <1>6 DEF Current
  <2> QED BY <2>1, <1>3, <1>5, <1>6 DEF LandedFor
<1>9. t \notin LandedFor(a, e)
  BY <1>5 DEF LandedFor
<1>10. ASSUME NEW b, NEW k, b = a, k = e
       PROVE  Cardinality(LandedFor(b, k)') = Cardinality(LandedFor(b, k)) + 1
  <2>1. LandedFor(b, k)' = LandedFor(b, k) \cup {t} /\ t \notin LandedFor(b, k)
    BY <1>8, <1>9, <1>10
  <2> QED BY <2>1, SumFinite, FS_AddElement
<1> SUFFICES ASSUME NEW k \in Keys PROVE Sum(k)'
  OBVIOUS
<1>11. Sum(k) /\ \A b : Cardinality(LandedFor(b, k)) \in Nat /\ Cardinality(DoneFor(b, k)) \in Nat
  BY SumFinite
<1>12. CASE k # e
  <2>1. location'[k] = location[k]
    BY <1>1, <1>5, <1>12
  <2>2. \A b : LandedFor(b, k)' = LandedFor(b, k)
    BY <1>8, <1>12
  <2> QED BY <1>7, <1>11, <2>1, <2>2 DEF Sum
<1>13. CASE k = e /\ pc[t] = "gpu_track"
  <2>1. location[k] = Cpu /\ location'[k] = Gpu /\ a = "move_to_gpu" /\ Gpu # Cpu
    BY <1>1, <1>4, <1>5, <1>13 DEF Gpu, Cpu
  <2>2. LandedFor("move_to_cpu", k)' = LandedFor("move_to_cpu", k)
    BY <1>8, <2>1
  <2>3. Cardinality(LandedFor("move_to_gpu", k)') = Cardinality(LandedFor("move_to_gpu", k)) + 1
    BY <1>10, <1>13, <2>1
  <2> HIDE DEF a, e, place
  <2> QED BY <1>7, <1>11, <2>1, <2>2, <2>3 DEF Sum, OnGpu
<1>14. CASE k = e /\ pc[t] # "gpu_track"
  <2>1. location[k] = Gpu /\ location'[k] = Cpu /\ a = "move_to_cpu" /\ Gpu # Cpu
    BY <1>1, <1>4, <1>5, <1>14 DEF Gpu, Cpu
  <2>2. LandedFor("move_to_gpu", k)' = LandedFor("move_to_gpu", k)
    BY <1>8, <2>1
  <2>3. Cardinality(LandedFor("move_to_cpu", k)') = Cardinality(LandedFor("move_to_cpu", k)) + 1
    BY <1>10, <1>14, <2>1
  <2> HIDE DEF a, e, place
  <2> QED BY <1>7, <1>11, <2>1, <2>2, <2>3 DEF Sum, OnGpu
<1> QED BY <1>12, <1>13, <1>14

\* A report takes its thread from the landed ones and adds its request to those
\* that succeeded.
LEMMA ReportSum ==
  ASSUME IInv, JobInv, \A k \in Keys : Sum(k), NEW t \in Threads,
         Report(t), pc[t] = "moved"
  PROVE  \A k \in Keys : Sum(k)'
<1> DEFINE c == Current(t)
<1>1. pc \in [Threads -> Places] /\ phase \in [Threads -> Phases]
  BY DEF IInv, TypeInv, TypeOK, JobInv, BookTypes
<1>2. phase[t] = "moving" /\ UNCHANGED <<location, request, job>>
      /\ succeeded' = succeeded \cup {c}
      /\ phase' = [phase EXCEPT ![t] = "book"] /\ pc' = [pc EXCEPT ![t] = "idle"]
  BY DEF Report, Return, Goto, SetStatus, Enter
<1>3. c \in Submitted /\ c = job[t][1] /\ Len(job[t]) \in Nat \ {0}
  BY <1>2, JobHead DEF JobInv, Submitted
<1>4. c \notin succeeded
  BY <1>2, <1>3 DEF JobInv, SucceededFirst
<1>5. Landed(t) /\ ~Landed(t)' /\ \A u \in Threads \ {t} : Landed(u)' <=> Landed(u)
  BY <1>1, <1>2 DEF Landed
<1>6. \A b, k : LandedFor(b, k)' = IF request[c] = <<b, k>> THEN LandedFor(b, k) \ {t}
                                   ELSE LandedFor(b, k)
  <2>1. \A u : Current(u)' = Current(u)
    BY <1>2 DEF Current
  <2> QED BY <2>1, <1>2, <1>5 DEF LandedFor
<1>7. \A b, k : DoneFor(b, k)' = IF request[c] = <<b, k>> THEN DoneFor(b, k) \cup {c}
                                 ELSE DoneFor(b, k)
  <2>1. Submitted' = Submitted
    BY <1>2 DEF Submitted
  <2> HIDE DEF c
  <2> QED BY <2>1, <1>2, <1>3 DEF DoneFor
<1>8. \A b, k : request[c] = <<b, k>> => t \in LandedFor(b, k) /\ c \notin DoneFor(b, k)
  BY <1>4, <1>5 DEF LandedFor, DoneFor
<1> SUFFICES ASSUME NEW k \in Keys PROVE Sum(k)'
  OBVIOUS
<1>9. \A b : Cardinality(LandedFor(b, k)) \in Nat /\ Cardinality(DoneFor(b, k)) \in Nat
  BY SumFinite
<1>10. ASSUME NEW b
       PROVE  Cardinality(DoneFor(b, k)') + Cardinality(LandedFor(b, k)') =
                Cardinality(DoneFor(b, k)) + Cardinality(LandedFor(b, k))
              /\ Cardinality(DoneFor(b, k)') \in Nat /\ Cardinality(LandedFor(b, k)') \in Int
  <2>1. CASE request[c] = <<b, k>>
    <3>1. Cardinality(LandedFor(b, k)') = Cardinality(LandedFor(b, k)) - 1
      BY <2>1, <1>6, <1>8, SumFinite, FS_RemoveElement
    <3>2. Cardinality(DoneFor(b, k)') = Cardinality(DoneFor(b, k)) + 1
      BY <2>1, <1>7, <1>8, SumFinite, FS_AddElement
    <3> QED BY <3>1, <3>2, <1>9
  <2>2. CASE request[c] # <<b, k>>
    BY <2>2, <1>6, <1>7, <1>9
  <2> QED BY <2>1, <2>2
<1>11. Sum(k)
  OBVIOUS
<1>12. OnGpu(location[k] = Gpu) \in Int /\ OnGpu(k[2] < NumGpuExperts) \in Int
  BY DEF OnGpu
<1> QED
  <2> DEFINE DoneIn(b) == Cardinality(DoneFor(b, k))
             LandedIn(b) == Cardinality(LandedFor(b, k))
             Done2(b) == Cardinality(DoneFor(b, k)')
             Landed2(b) == Cardinality(LandedFor(b, k)')
             was == OnGpu(location[k] = Gpu) - OnGpu(k[2] < NumGpuExperts)
  <2>1. \A b \in Actions : /\ DoneIn(b) \in Int /\ LandedIn(b) \in Int /\ Done2(b) \in Int /\ Landed2(b) \in Int
                           /\ Done2(b) + Landed2(b) = DoneIn(b) + LandedIn(b)
    BY <1>9, <1>10
  <2>2. was = DoneIn("move_to_gpu") + LandedIn("move_to_gpu") - DoneIn("move_to_cpu") - LandedIn("move_to_cpu")
    BY <1>11 DEF Sum
  <2>3. was' = was /\ was \in Int
    BY <1>2, <1>12
  <2>4. Sum(k)' <=> was' = Done2("move_to_gpu") + Landed2("move_to_gpu") - Done2("move_to_cpu") - Landed2("move_to_cpu")
    BY DEF Sum
  <2> HIDE DEF DoneIn, LandedIn, Done2, Landed2, was
  <2> QED BY <2>1, <2>2, <2>3, <2>4 DEF Actions

\* Where a request is only submitted or cancelled none succeeds and no thread lands.
LEMMA SubmitSum ==
  ASSUME JobInv, \A k \in Keys : Sum(k), NEW t \in Threads,
         NEW asked \in Seq(Requests), Submit(t, asked)
  PROVE  \A k \in Keys : Sum(k)'
<1> DEFINE n == Len(request)
           m == Len(asked)
<1>1. /\ n \in Nat /\ m \in Nat /\ n + m <= MaxRequests /\ Len(request') = n + m
      /\ \A r \in 1 .. n : request'[r] = request[r]
  BY SubmitParts
<1>2. SameDone /\ Submitted \subseteq Submitted'
  BY <1>1 DEF SameDone, Submitted, Submit
<1>3. phase[t] = "idle" /\ phase \in [Threads -> Phases] /\ pc' = pc /\ location' = location
  BY DEF Submit, JobInv, BookTypes, vars
<1>4. /\ \A u \in Threads \ {t} : phase'[u] = phase[u] /\ job'[u] = job[u]
      /\ phase'[t] \in {"idle", "process"}
  BY <1>3 DEF Submit, Enter, JobInv, BookTypes
<1>5. SameLanded
  BY <1>3, <1>4 DEF SameLanded, Landed
<1>6. SameRequests
  BY <1>1, <1>3, <1>4 DEF SameRequests, Submitted, Landed, Current
<1> QED BY <1>2, <1>3, <1>5, <1>6, SameSum

LEMMA CancelSum ==
  ASSUME JobInv, \A k \in Keys : Sum(k), CancelLooks \/ CancelWrites
  PROVE  \A k \in Keys : Sum(k)'
<1>1. UNCHANGED <<location, request, succeeded, job, phase, pc>>
  BY DEF CancelLooks, CancelWrites, vars
<1>2. SameDone /\ SameLanded /\ SameRequests /\ Submitted' = Submitted
  BY <1>1 DEF SameDone, SameLanded, SameRequests, Submitted, Landed, Current
<1> QED BY <1>1, <1>2, SameSum

\* A request that is not moved, or whose move was refused, has not succeeded.
LEMMA FailSum ==
  ASSUME IInv, JobInv, \A k \in Keys : Sum(k), NEW t \in Threads,
         Refuse(t) \/ (Report(t) /\ pc[t] # "moved")
  PROVE  \A k \in Keys : Sum(k)'
<1>1. pc \in [Threads -> Places] /\ phase \in [Threads -> Phases]
  BY DEF IInv, TypeInv, TypeOK, JobInv, BookTypes
<1>2. /\ UNCHANGED <<location, request, succeeded, job>>
      /\ phase' = [phase EXCEPT ![t] = "book"]
      /\ \A u \in Threads \ {t} : pc'[u] = pc[u]
      /\ phase[t] = "moving" => pc[t] = "refused"
  BY <1>1 DEF Refuse, Report, Return, Goto, Enter, vars
<1>3. SameDone /\ SameRequests /\ Submitted' = Submitted
  BY <1>2 DEF SameDone, SameRequests, Submitted, Current
<1>4. SameLanded
  BY <1>1, <1>2 DEF SameLanded, Landed
<1> QED BY <1>2, <1>3, <1>4, SameSum

\* In the other steps none succeeds, the tracker stays and no thread lands.
LEMMA QuietSum ==
  ASSUME IInv, JobInv, \A k \in Keys : Sum(k),
         UNCHANGED <<location, request, succeeded>>,
         \A u \in Threads : (Landed(u)' <=> Landed(u)) /\ (Landed(u) => job'[u] = job[u])
  PROVE  \A k \in Keys : Sum(k)'
<1>1. SameDone /\ Submitted' = Submitted
  BY DEF SameDone, Submitted
<1>2. SameLanded /\ SameRequests
  BY DEF SameLanded, SameRequests, Current
<1> QED BY <1>1, <1>2, SameSum

LEMMA HandleSum ==
  ASSUME IInv, JobInv, \A k \in Keys : Sum(k), NEW t \in Threads, Handle(t)
  PROVE  \A k \in Keys : Sum(k)'
<1>0. pc \in [Threads -> Places] /\ phase \in [Threads -> Phases]
      /\ job \in [Threads -> Seq(RequestIds)]
  BY DEF IInv, TypeInv, TypeOK, JobInv, BookTypes
<1>1. CASE Process(t)
  <2>1. /\ UNCHANGED <<location, request, succeeded, job>> /\ phase[t] = "process"
        /\ phase' = [phase EXCEPT ![t] = "moving"]
        /\ \E p \in {"to_gpu", "to_cpu"} : pc' = [pc EXCEPT ![t] = p]
    BY <1>1, ProcessCalls DEF Process, Enter, CallToGpu, CallToCpu, Goto
  <2>2. \A u \in Threads : (Landed(u)' <=> Landed(u))
    BY <2>1, <1>0 DEF Landed
  <2> QED BY <2>1, <2>2, QuietSum
<1>2. CASE Book(t)
  <2>1. /\ UNCHANGED <<location, request, succeeded, pc>> /\ phase[t] = "book"
        /\ \E p \in {"idle", "process"} : phase' = [phase EXCEPT ![t] = p]
        /\ job' = [job EXCEPT ![t] = Tail(@)]
    BY <1>2 DEF Book, Enter, vars
  <2>2. \A u \in Threads : (Landed(u)' <=> Landed(u)) /\ (Landed(u) => job'[u] = job[u])
    BY <2>1, <1>0 DEF Landed
  <2> QED BY <2>1, <2>2, QuietSum
<1>3. CASE Move(t) /\ ~TrackGpu(t) /\ ~TrackCpu(t)
  <2> USE DEF Goto, Fail
  <2>1. UNCHANGED svars /\ (MoveToGpu(t) \/ MoveToCpu(t))
    BY <1>3 DEF Move
  <2>2. /\ location' = location
        /\ \E p \in Places :
             /\ pc' = [pc EXCEPT ![t] = p]
             /\ pc[t] \in {"gpu_map", "cpu_map", "moved"} <=> p \in {"gpu_map", "cpu_map", "moved"}
    <3>1. CASE MoveToGpu(t)
      BY <3>1, <1>3 DEF MoveToGpu, AcquireToGpu, CopyToGpu, CopyToGpuFails, RecordToGpu, MapGpu,
                        Places, MoverPlaces
    <3>2. CASE MoveToCpu(t)
      BY <3>2, <1>3 DEF MoveToCpu, AcquireToCpu, CheckEvent, FetchEvent, Synchronize, CopyToCpu,
                        CopyToCpuFails, RecordToCpu, MapCpu, Places, MoverPlaces
    <3> QED BY <2>1, <3>1, <3>2
  <2>3. \A u \in Threads : (Landed(u)' <=> Landed(u)) /\ job'[u] = job[u]
    BY <2>1, <2>2, <1>0 DEF Landed, svars
  <2> QED BY <2>1, <2>2, <2>3, QuietSum DEF svars
<1>4. CASE Move(t) /\ (TrackGpu(t) \/ TrackCpu(t))
  BY <1>4, TrackSum DEF Move
<1>5. CASE Refuse(t) \/ Report(t)
  BY <1>5, FailSum, ReportSum
<1> QED BY <1>1, <1>2, <1>3, <1>4, <1>5 DEF Handle

LEMMA NextSum ==
  IInv /\ JobInv /\ (\A k \in Keys : Sum(k)) /\ [ServiceNext]_allvars => \A k \in Keys : Sum(k)'
<1> SUFFICES ASSUME IInv, JobInv, \A k \in Keys : Sum(k), [ServiceNext]_allvars
             PROVE  \A k \in Keys : Sum(k)'
  OBVIOUS
<1>1. CASE Copy
  <2>1. UNCHANGED <<location, pc>> /\ UNCHANGED svars
    BY <1>1 DEF Copy, CopyStream
  <2> QED BY <2>1, QuietSum DEF Landed, svars
<1>2. CASE CancelLooks \/ CancelWrites
  BY <1>2, CancelSum
<1>3. ASSUME NEW t \in Threads, SubmitSingle(t) \/ SubmitBatch(t) PROVE \A k \in Keys : Sum(k)'
  BY <1>3, AskedRequests, SubmitSum
<1>4. ASSUME NEW t \in Threads, Handle(t) PROVE \A k \in Keys : Sum(k)'
  BY <1>4, HandleSum
<1>5. ASSUME NEW t \in Threads, Stats(t) PROVE \A k \in Keys : Sum(k)'
  <2>1. location' = location /\ UNCHANGED svars /\ phase[t] = "idle"
    BY <1>5, CleanupStays DEF Stats
  <2>2. \A u \in Threads \ {t} : pc'[u] = pc[u]
    BY <1>5, CleanupStays DEF Stats, IInv, TypeInv, TypeOK
  <2>3. \A u \in Threads : (Landed(u)' <=> Landed(u)) /\ job'[u] = job[u]
    BY <2>1, <2>2 DEF Landed, svars
  <2> QED BY <2>1, <2>3, QuietSum DEF svars
<1>6. CASE UNCHANGED allvars
  <2>1. UNCHANGED <<location, pc>> /\ UNCHANGED svars
    BY <1>6 DEF allvars, vars
  <2> QED BY <2>1, QuietSum DEF Landed, svars
<1> QED BY <1>1, <1>2, <1>3, <1>4, <1>5, <1>6 DEF ServiceNext

LEMMA InitSum == ServiceInit => \A k \in Keys : Sum(k)
<1> SUFFICES ASSUME ServiceInit, NEW k \in Keys PROVE Sum(k)
  OBVIOUS
<1>1. \A a : DoneFor(a, k) = {} /\ LandedFor(a, k) = {}
  <2>1. Len(request) = 0 /\ 1 .. 0 = {}
    BY DEF ServiceInit
  <2> QED BY <2>1 DEF ServiceInit, DoneFor, LandedFor, Landed, Submitted
<1>2. \A a : Cardinality(DoneFor(a, k)) = 0 /\ Cardinality(LandedFor(a, k)) = 0
  BY <1>1, FS_EmptySet
<1>3. location[k] = Gpu <=> k[2] < NumGpuExperts
  BY DEF ServiceInit, Init, Gpu, Cpu
<1> QED BY <1>2, <1>3 DEF Sum, OnGpu

\* A handler writes the status of its request only, which has no answer yet.
LEMMA NextTold == JobInv /\ StatusTold /\ [ServiceNext]_allvars => StatusTold'
<1> SUFFICES ASSUME JobInv, StatusTold, [ServiceNext]_allvars PROVE StatusTold'
  OBVIOUS
<1>1. /\ status \in [RequestIds -> Statuses] /\ succeeded \subseteq Submitted
      /\ Submitted \subseteq RequestIds /\ Len(request) \in Nat
  BY ServiceAssumption DEF JobInv, BookTypes, Submitted, RequestIds
<1>2. ASSUME NEW t \in Threads, phase[t] \in {"process", "moving"}
      PROVE  Current(t) \in Submitted /\ Current(t) \notin succeeded
  <2>1. /\ Len(job[t]) \in Nat \ {0} /\ Current(t) = job[t][1]
        /\ Current(t) \in 1 .. Len(request)
    BY <1>2, JobHead DEF JobInv
  <2>2. 1 \in 1 .. Len(job[t])
    BY <2>1
  <2> QED BY <1>2, <2>1, <2>2 DEF JobInv, SucceededFirst, Submitted
<1>3. CASE UNCHANGED <<request, status, succeeded>>
  BY <1>3 DEF StatusTold, Submitted
<1>4. CASE CancelWrites
  <2>1. /\ status' = [status EXCEPT ![cancelling] = "cancelled"]
        /\ UNCHANGED succeeded /\ Submitted' = Submitted
    BY <1>4 DEF CancelWrites, Submitted
  <2> QED BY <1>1, <2>1 DEF StatusTold
<1>5. ASSUME NEW t \in Threads, SubmitSingle(t) \/ SubmitBatch(t) PROVE StatusTold'
  <2>1. PICK asked \in Seq(Requests) : Submit(t, asked)
    BY <1>5, AskedRequests
  <2> DEFINE n == Len(request)
             m == Len(asked)
  <2>2. /\ m \in Nat /\ n + m <= MaxRequests /\ Len(request') = n + m
        /\ \A r \in RequestIds :
             status'[r] = IF r \in n + 1 .. n + m THEN "pending" ELSE status[r]
    BY <2>1, SubmitParts
  <2>3. succeeded' = succeeded
    BY <2>1 DEF Submit
  <2> SUFFICES ASSUME NEW r \in 1 .. n + m
               PROVE  /\ status'[r] = "completed" => r \in succeeded
                      /\ r \in succeeded => status'[r] \in {"completed", "cancelled"}
    BY <2>2, <2>3 DEF StatusTold, Submitted
  <2>4. r \in RequestIds /\ (r \in n + 1 .. n + m \/ r \in Submitted)
    BY <1>1, <2>2, ServiceAssumption DEF RequestIds, Submitted
  <2>5. CASE r \in n + 1 .. n + m
    <3>1. r \notin succeeded
      BY <1>1, <2>5 DEF Submitted
    <3> QED BY <2>2, <2>4, <2>5, <3>1
  <2>6. CASE r \notin n + 1 .. n + m
    BY <2>2, <2>4, <2>6 DEF StatusTold
  <2> QED BY <2>5, <2>6
<1>6. ASSUME NEW t \in Threads, Refuse(t) \/ Report(t) PROVE StatusTold'
  <2>1. /\ phase[t] \in {"process", "moving"} /\ Submitted' = Submitted
        /\ \/ /\ status' = [status EXCEPT ![Current(t)] = "completed"]
              /\ succeeded' = succeeded \cup {Current(t)}
           \/ /\ status' = [status EXCEPT ![Current(t)] = "failed"]
              /\ succeeded' = succeeded
    BY <1>6 DEF Refuse, Report, SetStatus, Submitted
  <2>2. Current(t) \in Submitted /\ Current(t) \notin succeeded
    BY <1>2, <2>1
  <2> QED BY <1>1, <2>1, <2>2 DEF StatusTold
<1>7. ASSUME NEW t \in Threads, Process(t) \/ Move(t) \/ Book(t) \/ Stats(t)
      PROVE  UNCHANGED <<request, status, succeeded>>
  BY <1>7 DEF Process, Move, Book, Stats, svars
<1>8. Copy \/ CancelLooks \/ UNCHANGED allvars => UNCHANGED <<request, status, succeeded>>
  BY DEF Copy, CancelLooks, allvars, svars
<1> QED BY <1>3, <1>4, <1>5, <1>6, <1>7, <1>8 DEF ServiceNext, Handle

\* What the clients are told adds up to where the experts are: for every
\* expert, the moves to the GPU answered with success, less those to the CPU,
\* and those done but not yet reported, lead from where it started to where the
\* tracker has it, whatever is refused or retried on the way, and whenever a
\* cancel_request looks at a status and writes it. The status is what the client
\* was told, or cancelled.
THEOREM OutcomesAddUpAlways == ServiceSpec => []OutcomesAddUp
<1> DEFINE SumInv == \A k \in Keys : Sum(k)
<1>1. ServiceInit => SumInv
  BY InitSum
<1>2. ServiceInit => StatusTold
  <2>1. ServiceInit => Submitted = {}
    BY DEF ServiceInit, Submitted
  <2> QED BY <2>1 DEF StatusTold
<1>3. IInv /\ JobInv /\ SumInv /\ [ServiceNext]_allvars => SumInv'
  BY NextSum
<1>4. JobInv /\ SumInv /\ StatusTold => OutcomesAddUp
  BY SumForm DEF OutcomesAddUp
<1> HIDE DEF SumInv
<1> QED BY <1>1, <1>2, <1>3, <1>4, NextTold, ServiceSafety, PTL DEF ServiceSpec
=============================================================================
