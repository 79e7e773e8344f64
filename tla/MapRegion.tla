----------------------------- MODULE MapRegion ------------------------------
(***************************************************************************)
(* The memory region of one tagged (hash) map, and the arms the two map    *)
(* helpers are lowered to.                                                 *)
(*                                                                         *)
(* A region has NSlots slots, each with a presence byte, the key it holds  *)
(* and a value, and one byte saying that the real map is at capacity.      *)
(* Every cell is free on entry, so the bytes range over every u8: 2 stands *)
(* for the values that are neither 0 nor 1, which no arm tests for.        *)
(***************************************************************************)
EXTENDS MapCalls, FiniteSets

CONSTANT NSlots

NSlotsAssumption == NSlots \in Nat \ {0}
ASSUME NSlotsAssumption

Slots == 0 .. NSlots - 1
Byte  == {0, 1, 2}

Region == [pres : [Slots -> Byte], tag : [Slots -> Keys],
           val : [Slots -> Values], full : Byte]

(* The patterns, and the order they are tried in: for a lookup the slots,  *)
(* then the miss; for an update the slots, the capacity byte, the free     *)
(* slots, then the arm with no condition.                                  *)
Filled(R, k, i) == R.pres[i] = 1 /\ R.tag[i] = k
Free(R, i)      == R.pres[i] = 0

HitArm(R, k, i) == Filled(R, k, i) /\ \A j \in 0 .. i - 1 : ~Filled(R, k, j)

MissArm(R, k) == \A i \in Slots : ~Filled(R, k, i)

FullArm(R, k) == MissArm(R, k) /\ R.full = 1

FreeArm_First(R, k, i) ==                                        \* mutant
  R.full # 1 /\ Free(R, i) /\ \A j \in 0 .. i - 1 : ~Free(R, j)
FreeArm_NotFilled(R, k, i) ==                                    \* mutant
  /\ MissArm(R, k) /\ R.full # 1
  /\ R.pres[i] # 1 /\ \A j \in 0 .. i - 1 : R.pres[j] = 1
FreeArm(R, k, i) ==
  /\ MissArm(R, k) /\ R.full # 1
  /\ Free(R, i) /\ \A j \in 0 .. i - 1 : ~Free(R, j)

LastArm(R, k) == MissArm(R, k) /\ R.full # 1 /\ \A i \in Slots : ~Free(R, i)

(* What the arms of an update write.                                       *)
Overwritten(R, i, v)  == [R EXCEPT !.val[i] = v]
Inserted_Swapped(R, i, k, v) ==                                  \* mutant
  [R EXCEPT !.tag[i] = v, !.pres[i] = 1, !.val[i] = k]
Inserted(R, i, k, v) == [R EXCEPT !.tag[i] = k, !.pres[i] = 1, !.val[i] = v]

(* The map a region stands for.                                            *)
SlotOf(R, k)  == CHOOSE i \in Slots : HitArm(R, k, i)
EntryOf(R, k) == IF MissArm(R, k) THEN Absent ELSE R.val[SlotOf(R, k)]
RoomOf(R) == IF R.full = 1 THEN 0 ELSE Cardinality({i \in Slots : Free(R, i)})
=============================================================================
