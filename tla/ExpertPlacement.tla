--------------------------- MODULE ExpertPlacement ---------------------------
(***************************************************************************)
(* What expert reallocation promises about placement, without locks,       *)
(* streams or handlers: every expert is either in CPU memory or in one     *)
(* slot of the rows its own layer owns in the GPU experts cache, and two   *)
(* experts never share a slot.  ExpertMover is shown to implement this.    *)
(***************************************************************************)
EXTENDS ExpertCacheLayout

VARIABLE home   \* the slot of each expert, NoSlot for one in CPU memory

Init == home = [k \in Keys |-> InitialSlot(k)]

Promote(k) ==
  /\ home[k] = NoSlot
  /\ \E s \in LayerSlots(k[1]) :
       /\ \A j \in Keys : home[j] # s
       /\ home' = [home EXCEPT ![k] = s]

Demote(k) ==
  /\ home[k] # NoSlot
  /\ home' = [home EXCEPT ![k] = NoSlot]

Next == \E k \in Keys : Promote(k) \/ Demote(k)

Spec == Init /\ [][Next]_home
=============================================================================
