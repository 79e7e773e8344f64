----------------------------- MODULE TaggedMap ------------------------------
(***************************************************************************)
(* The lowered helper calls of one program on one hash map, over every     *)
(* initial region.  A behaviour is any sequence of lookups, updates and    *)
(* accesses through the value pointers lookups returned; each action of a  *)
(* call is one arm of its second transformer.                              *)
(*                                                                         *)
(* A value pointer is the literal offset of its slot's value, kept here as *)
(* the slot number.                                                        *)
(***************************************************************************)
EXTENDS MapRegion

VARIABLES
  region,
  held,     \* the slots whose value pointer the program holds
  last      \* the last call or access, and its result

vars == <<region, held, last>>

Init ==
  /\ region \in Region
  /\ held = {}
  /\ last = None

LookupSlot(k, i) ==
  /\ HitArm(region, k, i)
  /\ held' = held \cup {i}
  /\ last' = Ptr(k, i)
  /\ UNCHANGED region

LookupMiss(k) ==
  /\ MissArm(region, k)
  /\ last' = Null(k)
  /\ UNCHANGED <<region, held>>

UpdateFilled(k, v, i) ==
  /\ HitArm(region, k, i)
  /\ region' = Overwritten(region, i, v)
  /\ last' = Ok(k, v)
  /\ UNCHANGED held

UpdateFull(k) ==
  /\ FullArm(region, k)
  /\ last' = TooBig(k)
  /\ UNCHANGED <<region, held>>

UpdateFree(k, v, i) ==
  /\ FreeArm(region, k, i)
  /\ region' = Inserted(region, i, k, v)
  /\ last' = Ok(k, v)
  /\ UNCHANGED held

UpdateNoSlot(k) ==
  /\ LastArm(region, k)
  /\ last' = TooBig(k)
  /\ UNCHANGED <<region, held>>

(* Loads and stores through a value pointer, at any later point.           *)
LoadValue(i) ==
  /\ i \in held
  /\ last' = Read(i, region.val[i])
  /\ UNCHANGED <<region, held>>

StoreValue(i, v) ==
  /\ i \in held
  /\ region' = Overwritten(region, i, v)
  /\ last' = Wrote(i, v)
  /\ UNCHANGED held

Next ==
  \/ \E k \in Keys :
       \/ LookupMiss(k) \/ UpdateFull(k) \/ UpdateNoSlot(k)
       \/ \E i \in Slots : LookupSlot(k, i)
       \/ \E i \in Slots, v \in Values : UpdateFilled(k, v, i) \/ UpdateFree(k, v, i)
  \/ \E i \in Slots : LoadValue(i) \/ \E v \in Values : StoreValue(i, v)

Spec == Init /\ [][Next]_vars

-----------------------------------------------------------------------------
(* Types of the region and of the pointers into it.                        *)
TypeOK ==
  /\ region \in Region
  /\ held \subseteq Slots
  /\ last \in Results(Slots)

(* A pointer a lookup returned stays the one a lookup of its key returns:  *)
(* no later call moves the key, claims its slot, or puts the key in an     *)
(* earlier slot -- even though the region may start with a key in several  *)
(* slots.                                                                  *)
HeldStable == \A i \in held : HitArm(region, region.tag[i], i)

(* A filled slot keeps its key, and a slot comes to hold a key only when   *)
(* no slot does: however long the run, no update leaves a key in two slots *)
(* that was in one, though the region may start with copies.               *)
SlotsSettle ==
  [][\A k \in Keys : \A i \in Slots :
       /\ Filled(region, k, i) => Filled(region', k, i)
       /\ Filled(region', k, i) => Filled(region, k, i) \/ MissArm(region, k)]_vars

(* The scan over the region does what the kernel's map does, from any      *)
(* region: one with a key in two slots, with unused presence values, full  *)
(* or out of slots.  Running out of slots is the map running out of room.  *)
entriesBar == [k \in Keys |-> EntryOf(region, k)]
roomBar    == RoomOf(region)
heldBar    == {region.tag[i] : i \in held}
lastBar    == IF last.did \in {"lookup", "load", "store"}
                THEN [last EXCEPT !.to = region.tag[last.to]] ELSE last

Kernel == INSTANCE KernelMap
            WITH entries <- entriesBar, room <- roomBar,
                 held <- heldBar, last <- lastBar
Implements == Kernel!Spec
=============================================================================
