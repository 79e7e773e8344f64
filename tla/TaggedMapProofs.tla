-------------------------- MODULE TaggedMapProofs ---------------------------
(***************************************************************************)
(* Proofs about TaggedMap, for every set of keys and values and every      *)
(* number of slots.                                                        *)
(***************************************************************************)
EXTENDS TaggedMap, FiniteSetTheorems, WellFoundedInduction, TLAPS

(* A non-empty set of slots has a lowest one.                              *)
LEMMA LowestSlot ==
  ASSUME NEW T, T \subseteq Slots, T # {}
  PROVE  \E i \in T : \A j \in 0 .. i - 1 : j \notin T
<1>1. T \subseteq Nat
  BY NSlotsAssumption DEF Slots, NSlotsAssumption
<1>2. PICK i \in T : \A j \in T : <<j, i>> \notin OpToRel(<, Nat)
  BY <1>1, NatLessThanWellFounded, WFMin, Zenon
<1>3. \A j \in 0 .. i - 1 : j \in T => <<j, i>> \in OpToRel(<, Nat)
  BY <1>1 DEF OpToRel
<1> QED
  BY <1>2, <1>3

(* The first-match scan finds a slot if any holds the key, and only one.   *)
LEMMA HitExists ==
  ASSUME NEW R, NEW k
  PROVE  MissArm(R, k) \/ \E i \in Slots : HitArm(R, k, i)
<1> DEFINE T == {i \in Slots : Filled(R, k, i)}
<1>1. CASE T = {}
  BY <1>1 DEF MissArm
<1>2. CASE T # {}
  <2>1. PICK i \in T : \A j \in 0 .. i - 1 : j \notin T
    BY <1>2, LowestSlot
  <2>2. \A j \in 0 .. i - 1 : j \in Slots
    BY NSlotsAssumption DEF Slots, NSlotsAssumption
  <2> QED
    BY <2>1, <2>2 DEF HitArm
<1> QED
  BY <1>1, <1>2

LEMMA HitUnique ==
  ASSUME NEW R, NEW k, NEW i \in Slots, NEW j \in Slots,
         HitArm(R, k, i), HitArm(R, k, j)
  PROVE  i = j
BY NSlotsAssumption DEF HitArm, Slots, NSlotsAssumption

LEMMA HitEntry ==
  ASSUME NEW R, NEW k, NEW i \in Slots, HitArm(R, k, i)
  PROVE  ~MissArm(R, k) /\ SlotOf(R, k) = i /\ EntryOf(R, k) = R.val[i]
<1>1. ~MissArm(R, k)
  BY DEF HitArm, MissArm
<1>2. HitArm(R, k, SlotOf(R, k)) /\ SlotOf(R, k) \in Slots
  BY DEF SlotOf
<1>3. SlotOf(R, k) = i
  BY <1>2, HitUnique
<1> QED
  BY <1>1, <1>3 DEF EntryOf

-----------------------------------------------------------------------------
LEMMA WritesKeepType ==
  ASSUME NEW R \in Region, NEW k \in Keys, NEW v \in Values, NEW i \in Slots
  PROVE  Overwritten(R, i, v) \in Region /\ Inserted(R, i, k, v) \in Region
BY DEF Region, Overwritten, Inserted, Byte

THEOREM InitTypeOK == Init => TypeOK
BY DEF Init, TypeOK, Results

THEOREM NextTypeOK == TypeOK /\ [Next]_vars => TypeOK'
<1> SUFFICES ASSUME TypeOK, [Next]_vars PROVE TypeOK'
  OBVIOUS
<1> USE DEF TypeOK
<1>1. ASSUME NEW k \in Keys, NEW i \in Slots, LookupSlot(k, i) PROVE TypeOK'
  BY <1>1 DEF LookupSlot, Results, Ptr
<1>2. ASSUME NEW k \in Keys, LookupMiss(k) \/ UpdateFull(k) \/ UpdateNoSlot(k)
      PROVE  TypeOK'
  BY <1>2 DEF LookupMiss, UpdateFull, UpdateNoSlot, Results, Null, TooBig
<1>3. ASSUME NEW k \in Keys, NEW i \in Slots, NEW v \in Values,
             UpdateFilled(k, v, i) \/ UpdateFree(k, v, i)
      PROVE  TypeOK'
  BY <1>3, WritesKeepType DEF UpdateFilled, UpdateFree, Results, Ok
<1>4. ASSUME NEW i \in Slots, LoadValue(i) PROVE TypeOK'
  BY <1>4 DEF LoadValue, Region, Results, Read
<1>5. ASSUME NEW i \in Slots, NEW v \in Values, StoreValue(i, v) PROVE TypeOK'
  <2>1. Overwritten(region, i, v) \in Region
    BY DEF Region, Overwritten
  <2> QED
    BY <1>5, <2>1 DEF StoreValue, Results, Wrote
<1>6. ASSUME UNCHANGED vars PROVE TypeOK'
  BY <1>6 DEF vars
<1> QED
  BY <1>1, <1>2, <1>3, <1>4, <1>5, <1>6 DEF Next

(* Region, pointers and results keep their types.                          *)
THEOREM TypeCorrect == Spec => []TypeOK
BY InitTypeOK, NextTypeOK, PTL DEF Spec

-----------------------------------------------------------------------------
(* Writing a value moves no key, and an insert of a key that is in no slot *)
(* moves no other.                                                         *)
LEMMA OverwriteKeepsHits ==
  ASSUME NEW R \in Region, NEW v, NEW i \in Slots
  PROVE  \A k, j : HitArm(Overwritten(R, i, v), k, j) <=> HitArm(R, k, j)
BY DEF Overwritten, HitArm, Filled, Region

LEMMA InsertKeepsHits ==
  ASSUME NEW R \in Region, NEW k \in Keys, NEW v, NEW i \in Slots,
         MissArm(R, k), Free(R, i)
  PROVE  /\ HitArm(Inserted(R, i, k, v), k, i)
         /\ \A q, j : j \in Slots /\ q # k =>
              (HitArm(Inserted(R, i, k, v), q, j) <=> HitArm(R, q, j))
<1> DEFINE S == Inserted(R, i, k, v)
<1>1. /\ S.pres = [R.pres EXCEPT ![i] = 1] /\ S.tag = [R.tag EXCEPT ![i] = k]
      /\ R.pres \in [Slots -> Byte] /\ R.tag \in [Slots -> Keys]
  BY DEF Inserted, Region
<1>2. \A j \in Slots : j # i => S.pres[j] = R.pres[j] /\ S.tag[j] = R.tag[j]
  BY <1>1
<1>3. S.pres[i] = 1 /\ S.tag[i] = k
  BY <1>1
<1>4. \A j \in Slots : \A p \in 0 .. j - 1 : p \in Slots /\ p # j
  BY NSlotsAssumption DEF Slots, NSlotsAssumption
<1>5. R.pres[i] # 1
  BY DEF Free
<1> HIDE DEF S
<1>6. \A q, j : j \in Slots /\ q # k => (Filled(S, q, j) <=> Filled(R, q, j))
  BY <1>2, <1>3, <1>5 DEF Filled
<1>7. HitArm(S, k, i)
  BY <1>2, <1>3, <1>4 DEF HitArm, Filled, MissArm
<1>8. \A q, j : j \in Slots /\ q # k => (HitArm(S, q, j) <=> HitArm(R, q, j))
  BY <1>4, <1>6 DEF HitArm
<1> QED
  BY <1>7, <1>8 DEF S
-----------------------------------------------------------------------------
THEOREM InitHeldStable == Init => HeldStable
BY DEF Init, HeldStable

THEOREM NextHeldStable == TypeOK /\ HeldStable /\ [Next]_vars => HeldStable'
<1> SUFFICES ASSUME TypeOK, HeldStable, [Next]_vars PROVE HeldStable'
  OBVIOUS
<1>1. region \in Region /\ held \subseteq Slots
  BY DEF TypeOK
<1>2. ASSUME NEW k \in Keys, NEW i \in Slots, LookupSlot(k, i)
      PROVE  HeldStable'
  BY <1>2 DEF LookupSlot, HeldStable, HitArm, Filled
<1>3. ASSUME NEW k \in Keys, LookupMiss(k) \/ UpdateFull(k) \/ UpdateNoSlot(k)
      PROVE  HeldStable'
  BY <1>3 DEF LookupMiss, UpdateFull, UpdateNoSlot, HeldStable
<1>4. ASSUME NEW i \in Slots, NEW v, region' = Overwritten(region, i, v),
             held' = held
      PROVE  HeldStable'
  <2>1. region'.tag = region.tag
    BY <1>1, <1>4 DEF Overwritten, Region
  <2> QED
    BY <1>1, <1>4, <2>1, OverwriteKeepsHits DEF HeldStable
<1>5. ASSUME NEW k \in Keys, NEW i \in Slots, NEW v \in Values,
             UpdateFree(k, v, i)
      PROVE  HeldStable'
  <2>1. /\ region' = Inserted(region, i, k, v) /\ held' = held
        /\ MissArm(region, k) /\ Free(region, i)
    BY <1>5 DEF UpdateFree, FreeArm
  <2> SUFFICES ASSUME NEW j \in held
               PROVE  HitArm(region', region'.tag[j], j)
    BY <2>1 DEF HeldStable
  <2>2. j \in Slots /\ HitArm(region, region.tag[j], j)
    BY <1>1 DEF HeldStable
  <2>3. region.tag[j] # k /\ j # i
    BY <2>1, <2>2 DEF HitArm, Filled, MissArm, Free
  <2>4. region'.tag[j] = region.tag[j]
    BY <1>1, <2>1, <2>2, <2>3 DEF Inserted, Region
  <2> QED
    BY <1>1, <2>1, <2>2, <2>3, <2>4, InsertKeepsHits
<1>6. ASSUME NEW i \in Slots, LoadValue(i) PROVE HeldStable'
  BY <1>6 DEF LoadValue, HeldStable
<1>7. ASSUME UNCHANGED vars PROVE HeldStable'
  BY <1>7 DEF vars, HeldStable
<1> QED
  BY <1>2, <1>3, <1>4, <1>5, <1>6, <1>7 DEF Next, UpdateFilled, StoreValue

(* A value pointer stays the address a lookup of its key returns.          *)
THEOREM PointersStable == Spec => []HeldStable
<1>1. TypeOK /\ HeldStable /\ [Next]_vars => (TypeOK /\ HeldStable)'
  BY NextTypeOK, NextHeldStable
<1> QED
  BY <1>1, InitTypeOK, InitHeldStable, PTL DEF Spec

-----------------------------------------------------------------------------
(* A filled slot keeps its key, and a key gets a slot only if it had none. *)
THEOREM NoNewCopies == Spec => SlotsSettle
<1> DEFINE Settled(k, i) ==
      /\ Filled(region, k, i) => Filled(region', k, i)
      /\ Filled(region', k, i) => Filled(region, k, i) \/ MissArm(region, k)
<1>1. ASSUME TypeOK, [Next]_vars, NEW q \in Keys, NEW j \in Slots
      PROVE  Settled(q, j)
  <2>1. region \in Region
    BY <1>1 DEF TypeOK
  <2>2. CASE region' = region
    BY <2>2
  <2>3. ASSUME NEW i \in Slots, NEW v, region' = Overwritten(region, i, v)
        PROVE  Settled(q, j)
    BY <2>1, <2>3 DEF Overwritten, Filled, Region
  <2>4. ASSUME NEW k \in Keys, NEW i \in Slots, NEW v \in Values,
               UpdateFree(k, v, i)
        PROVE  Settled(q, j)
    <3>1. /\ region' = Inserted(region, i, k, v)
          /\ MissArm(region, k) /\ Free(region, i)
      BY <2>4 DEF UpdateFree, FreeArm
    <3>2. /\ region'.pres = [region.pres EXCEPT ![i] = 1]
          /\ region'.tag = [region.tag EXCEPT ![i] = k]
          /\ region.pres \in [Slots -> Byte] /\ region.tag \in [Slots -> Keys]
      BY <2>1, <3>1 DEF Inserted, Region
    <3>3. CASE j = i
      BY <3>1, <3>2, <3>3 DEF Filled, Free
    <3>4. CASE j # i
      BY <3>2, <3>4 DEF Filled
    <3> QED
      BY <3>3, <3>4
  <2> QED
    BY <1>1, <2>2, <2>3, <2>4
       DEF Next, vars, LookupSlot, LookupMiss, UpdateFull, UpdateNoSlot,
           UpdateFilled, LoadValue, StoreValue
<1>2. TypeOK /\ [Next]_vars => [\A k \in Keys : \A i \in Slots : Settled(k, i)]_vars
  BY <1>1
<1> QED
  BY <1>2, TypeCorrect, PTL DEF Spec, SlotsSettle


-----------------------------------------------------------------------------
(* Entries that differ at one key are a point update of the whole map.     *)
LEMMA OneEntry ==
  ASSUME NEW R, NEW S, NEW k \in Keys, NEW v,
         \A q \in Keys : EntryOf(S, q) = IF q = k THEN v ELSE EntryOf(R, q)
  PROVE  [q \in Keys |-> EntryOf(S, q)]
           = [[q \in Keys |-> EntryOf(R, q)] EXCEPT ![k] = v]
  OBVIOUS

(* The map a region stands for, before and after each arm.                 *)
LEMMA RegionEntries ==
  ASSUME NEW R \in Region
  PROVE  /\ \A k \in Keys : EntryOf(R, k) \in Values \cup {Absent}
         /\ \A k \in Keys : EntryOf(R, k) = Absent <=> MissArm(R, k)
<1> SUFFICES ASSUME NEW k \in Keys
             PROVE  /\ EntryOf(R, k) \in Values \cup {Absent}
                    /\ EntryOf(R, k) = Absent <=> MissArm(R, k)
  OBVIOUS
<1>1. CASE MissArm(R, k)
  BY <1>1 DEF EntryOf
<1>2. CASE ~MissArm(R, k)
  <2>1. PICK i \in Slots : HitArm(R, k, i)
    BY <1>2, HitExists
  <2>2. EntryOf(R, k) = R.val[i] /\ R.val[i] \in Values
    BY <2>1, HitEntry DEF Region
  <2> QED
    BY <1>2, <2>2, AbsentAssumption DEF AbsentAssumption
<1> QED
  BY <1>1, <1>2

LEMMA OverwriteEntries ==
  ASSUME NEW R \in Region, NEW k \in Keys, NEW v \in Values, NEW i \in Slots,
         HitArm(R, k, i)
  PROVE  \A q \in Keys : EntryOf(Overwritten(R, i, v), q) =
                         IF q = k THEN v ELSE EntryOf(R, q)
<1> DEFINE S == Overwritten(R, i, v)
<1>1. S.val = [R.val EXCEPT ![i] = v] /\ R.val \in [Slots -> Values]
  BY DEF Overwritten, Region
<1>2. \A q, j : HitArm(S, q, j) <=> HitArm(R, q, j)
  BY OverwriteKeepsHits
<1> HIDE DEF S
<1> SUFFICES ASSUME NEW q \in Keys
             PROVE  EntryOf(S, q) = IF q = k THEN v ELSE EntryOf(R, q)
  BY DEF S
<1>3. CASE q = k
  <2>1. HitArm(S, k, i)
    BY <1>2
  <2> QED
    BY <1>1, <1>3, <2>1, HitEntry
<1>4. CASE q # k /\ MissArm(R, q)
  <2>1. MissArm(S, q)
    BY <1>2, <1>4, HitExists, HitEntry
  <2> QED
    BY <1>4, <2>1 DEF EntryOf
<1>5. CASE q # k /\ ~MissArm(R, q)
  <2>1. PICK j \in Slots : HitArm(R, q, j)
    BY <1>5, HitExists
  <2>2. j # i
    BY <1>5, <2>1 DEF HitArm, Filled
  <2>3. EntryOf(S, q) = S.val[j] /\ EntryOf(R, q) = R.val[j]
    BY <1>2, <2>1, HitEntry
  <2> QED
    BY <1>1, <1>5, <2>2, <2>3
<1> QED
  BY <1>3, <1>4, <1>5

LEMMA InsertEntries ==
  ASSUME NEW R \in Region, NEW k \in Keys, NEW v \in Values, NEW i \in Slots,
         MissArm(R, k), Free(R, i)
  PROVE  \A q \in Keys : EntryOf(Inserted(R, i, k, v), q) =
                         IF q = k THEN v ELSE EntryOf(R, q)
<1> DEFINE S == Inserted(R, i, k, v)
<1>1. S.val = [R.val EXCEPT ![i] = v] /\ R.val \in [Slots -> Values]
  BY DEF Inserted, Region
<1>2. /\ HitArm(S, k, i)
      /\ \A q, j : j \in Slots /\ q # k => (HitArm(S, q, j) <=> HitArm(R, q, j))
  BY InsertKeepsHits
<1> HIDE DEF S
<1> SUFFICES ASSUME NEW q \in Keys
             PROVE  EntryOf(S, q) = IF q = k THEN v ELSE EntryOf(R, q)
  BY DEF S
<1>3. CASE q = k
  BY <1>1, <1>2, <1>3, HitEntry
<1>4. CASE q # k /\ MissArm(R, q)
  <2>1. MissArm(S, q)
    BY <1>2, <1>4, HitExists, HitEntry
  <2> QED
    BY <1>4, <2>1 DEF EntryOf
<1>5. CASE q # k /\ ~MissArm(R, q)
  <2>1. PICK j \in Slots : HitArm(R, q, j)
    BY <1>5, HitExists
  <2>2. j # i
    BY <2>1 DEF HitArm, Filled, Free
  <2>3. EntryOf(S, q) = S.val[j] /\ EntryOf(R, q) = R.val[j]
    BY <1>2, <1>5, <2>1, HitEntry
  <2> QED
    BY <1>1, <1>5, <2>2, <2>3
<1> QED
  BY <1>3, <1>4, <1>5
LEMMA RegionRoom ==
  ASSUME NEW R \in Region
  PROVE  /\ IsFiniteSet({i \in Slots : Free(R, i)})
         /\ RoomOf(R) \in Nat
         /\ RoomOf(R) = 0 <=> R.full = 1 \/ \A i \in Slots : ~Free(R, i)
<1> DEFINE F == {i \in Slots : Free(R, i)}
<1>1. IsFiniteSet(Slots)
  BY FS_Interval, NSlotsAssumption DEF Slots, NSlotsAssumption
<1>2. IsFiniteSet(F)
  BY <1>1, FS_Subset
<1>3. Cardinality(F) \in Nat /\ (Cardinality(F) = 0 <=> F = {})
  BY <1>2, FS_CardinalityType, FS_EmptySet
<1> QED
  BY <1>2, <1>3 DEF RoomOf

LEMMA InsertRoom ==
  ASSUME NEW R \in Region, NEW k \in Keys, NEW v \in Values, NEW i \in Slots,
         R.full # 1, Free(R, i)
  PROVE  RoomOf(R) > 0 /\ RoomOf(Inserted(R, i, k, v)) = RoomOf(R) - 1
<1> DEFINE S == Inserted(R, i, k, v)
           F == {j \in Slots : Free(R, j)}
           G == {j \in Slots : Free(S, j)}
<1>1. S.pres = [R.pres EXCEPT ![i] = 1] /\ S.full = R.full
      /\ R.pres \in [Slots -> Byte]
  BY DEF Inserted, Region
<1>2. G = F \ {i}
  BY <1>1 DEF Free
<1>3. i \in F
  OBVIOUS
<1>4. IsFiniteSet(F) /\ RoomOf(R) \in Nat /\ RoomOf(R) # 0
  BY RegionRoom
<1>5. RoomOf(R) = Cardinality(F) /\ RoomOf(S) = Cardinality(G)
  BY <1>1 DEF RoomOf
<1> HIDE DEF F, G
<1>6. Cardinality(G) = Cardinality(F) - 1
  BY <1>2, <1>3, <1>4, FS_RemoveElement
<1> QED
  BY <1>4, <1>5, <1>6

LEMMA OverwriteRoom ==
  ASSUME NEW R \in Region, NEW v, NEW i
  PROVE  RoomOf(Overwritten(R, i, v)) = RoomOf(R)
<1> DEFINE S == Overwritten(R, i, v)
<1>1. S.pres = R.pres /\ S.full = R.full
  BY DEF Overwritten, Region
<1>2. {j \in Slots : Free(S, j)} = {j \in Slots : Free(R, j)}
  BY <1>1 DEF Free
<1> QED
  BY <1>1, <1>2 DEF RoomOf

-----------------------------------------------------------------------------
THEOREM InitRefines == Init => Kernel!Init
<1> SUFFICES ASSUME Init PROVE Kernel!Init
  OBVIOUS
<1>1. region \in Region
  BY DEF Init
<1>2. entriesBar \in [Keys -> Values \cup {Absent}]
  BY <1>1, RegionEntries DEF entriesBar
<1>3. roomBar \in Nat
  BY <1>1, RegionRoom DEF roomBar
<1>4. heldBar = {} /\ lastBar = None
  BY DEF Init, heldBar, lastBar, None
<1> QED
  BY <1>2, <1>3, <1>4 DEF Kernel!Init, Kernel!None, None

(* Every arm is the kernel operation it is meant to be.                    *)
THEOREM NextRefines ==
  TypeOK /\ HeldStable /\ [Next]_vars => [Kernel!Next]_Kernel!kernelVars
<1> SUFFICES ASSUME TypeOK, HeldStable, [Next]_vars
             PROVE  [Kernel!Next]_Kernel!kernelVars
  OBVIOUS
<1>0. region \in Region /\ held \subseteq Slots
  BY DEF TypeOK
<1>a. /\ \A k \in Keys : entriesBar[k] = EntryOf(region, k)
      /\ \A k \in Keys : entriesBar'[k] = EntryOf(region', k)
      /\ roomBar' = RoomOf(region')
      /\ \A k \in Keys : EntryOf(region, k) = Absent <=> MissArm(region, k)
      /\ DOMAIN entriesBar = Keys /\ DOMAIN entriesBar' = Keys
  BY <1>0, RegionEntries DEF entriesBar, roomBar
<1>b. ASSUME region' = region
      PROVE  entriesBar' = entriesBar /\ roomBar' = roomBar
  BY <1>b DEF entriesBar, roomBar
<1>1. ASSUME NEW k \in Keys, NEW i \in Slots, LookupSlot(k, i)
      PROVE  Kernel!Next
  <2>1. region.tag[i] = k /\ ~MissArm(region, k)
    BY <1>1, HitEntry DEF LookupSlot, HitArm, Filled
  <2>2. entriesBar' = entriesBar /\ roomBar' = roomBar
    BY <1>1, <1>b DEF LookupSlot
  <2>3. heldBar' = heldBar \cup {k}
    BY <1>1, <2>1 DEF LookupSlot, heldBar
  <2>4. lastBar' = Ptr(k, k)
    BY <1>1, <2>1 DEF LookupSlot, lastBar, Ptr
  <2>5. Kernel!LookupHit(k)
    BY <1>a, <2>1, <2>2, <2>3, <2>4 DEF Kernel!LookupHit, Kernel!Ptr, Ptr
  <2> QED
    BY <2>5 DEF Kernel!Next
<1>2. ASSUME NEW k \in Keys, LookupMiss(k)
      PROVE  Kernel!Next
  <2>1. /\ entriesBar' = entriesBar /\ roomBar' = roomBar
        /\ heldBar' = heldBar /\ lastBar' = Null(k)
    BY <1>2, <1>b DEF LookupMiss, heldBar, lastBar, Null
  <2>2. Kernel!LookupMiss(k)
    BY <1>a, <1>2, <2>1 DEF LookupMiss, Kernel!LookupMiss, Kernel!Null, Null
  <2> QED
    BY <2>2 DEF Kernel!Next
<1>3. ASSUME NEW k \in Keys, UpdateFull(k) \/ UpdateNoSlot(k)
      PROVE  Kernel!Next
  <2>1. /\ entriesBar' = entriesBar /\ roomBar' = roomBar
        /\ heldBar' = heldBar /\ lastBar' = TooBig(k)
    BY <1>3, <1>b DEF UpdateFull, UpdateNoSlot, heldBar, lastBar, TooBig
  <2>2. roomBar = 0 /\ MissArm(region, k)
    BY <1>0, <1>3, RegionRoom
       DEF UpdateFull, UpdateNoSlot, FullArm, LastArm, roomBar
  <2>3. Kernel!NoRoom(k)
    BY <1>a, <2>1, <2>2 DEF Kernel!NoRoom, Kernel!TooBig, TooBig
  <2> QED
    BY <2>3 DEF Kernel!Next
<1>4. ASSUME NEW k \in Keys, NEW i \in Slots, NEW v \in Values,
             UpdateFilled(k, v, i)
      PROVE  Kernel!Next
  <2>1. /\ HitArm(region, k, i) /\ region' = Overwritten(region, i, v)
        /\ held' = held /\ last' = Ok(k, v)
    BY <1>4 DEF UpdateFilled
  <2>2. entriesBar' = [entriesBar EXCEPT ![k] = v]
    <3>1. \A q \in Keys :
            EntryOf(region', q) = IF q = k THEN v ELSE EntryOf(region, q)
      BY <1>0, <2>1, OverwriteEntries
    <3> QED
      BY <3>1, OneEntry DEF entriesBar
  <2>3. roomBar' = roomBar
    BY <1>0, <2>1, OverwriteRoom DEF roomBar
  <2>4. heldBar' = heldBar /\ lastBar' = Ok(k, v)
    BY <1>0, <2>1 DEF heldBar, lastBar, Overwritten, Region, Ok
  <2>5. ~MissArm(region, k)
    BY <2>1, HitEntry
  <2>6. Kernel!Overwrite(k, v)
    BY <1>a, <2>2, <2>3, <2>4, <2>5 DEF Kernel!Overwrite, Kernel!Ok, Ok
  <2> QED
    BY <2>6 DEF Kernel!Next
<1>5. ASSUME NEW k \in Keys, NEW i \in Slots, NEW v \in Values,
             UpdateFree(k, v, i)
      PROVE  Kernel!Next
  <2>1. /\ MissArm(region, k) /\ Free(region, i) /\ region.full # 1
        /\ region' = Inserted(region, i, k, v) /\ held' = held /\ last' = Ok(k, v)
    BY <1>5 DEF UpdateFree, FreeArm
  <2>2. entriesBar' = [entriesBar EXCEPT ![k] = v]
    <3>1. \A q \in Keys :
            EntryOf(region', q) = IF q = k THEN v ELSE EntryOf(region, q)
      BY <1>0, <2>1, InsertEntries
    <3> QED
      BY <3>1, OneEntry DEF entriesBar
  <2>3. roomBar > 0 /\ roomBar' = roomBar - 1
    BY <1>0, <2>1, InsertRoom DEF roomBar
  <2>4. \A j \in held : region'.tag[j] = region.tag[j]
    <3>1. \A j \in held : j # i
      BY <1>0, <2>1 DEF HeldStable, HitArm, Filled, Free
    <3> QED
      BY <1>0, <2>1, <3>1 DEF Inserted, Region
  <2>5. heldBar' = heldBar /\ lastBar' = Ok(k, v)
    BY <2>1, <2>4 DEF heldBar, lastBar, Ok
  <2>6. Kernel!Insert(k, v)
    BY <1>a, <2>1, <2>2, <2>3, <2>5 DEF Kernel!Insert, Kernel!Ok, Ok
  <2> QED
    BY <2>6 DEF Kernel!Next
<1>6. ASSUME NEW i \in Slots, LoadValue(i)
      PROVE  Kernel!Next
  <2> DEFINE k == region.tag[i]
  <2>1. k \in Keys /\ k \in heldBar /\ HitArm(region, k, i)
    BY <1>0, <1>6 DEF LoadValue, heldBar, Region, HeldStable
  <2>2. EntryOf(region, k) = region.val[i]
    BY <2>1, HitEntry
  <2>3. /\ entriesBar' = entriesBar /\ roomBar' = roomBar /\ heldBar' = heldBar
        /\ lastBar' = Read(k, region.val[i])
    BY <1>6, <1>b DEF LoadValue, heldBar, lastBar, Read
  <2>4. Kernel!Load(k)
    BY <1>a, <2>1, <2>2, <2>3 DEF Kernel!Load, Kernel!Read, Read
  <2> QED
    BY <2>1, <2>4 DEF Kernel!Next
<1>7. ASSUME NEW i \in Slots, NEW v \in Values, StoreValue(i, v)
      PROVE  Kernel!Next \/ UNCHANGED Kernel!kernelVars
  <2> DEFINE k == region.tag[i]
  <2>1. /\ i \in held /\ region' = Overwritten(region, i, v)
        /\ held' = held /\ last' = Wrote(i, v)
    BY <1>7 DEF StoreValue
  <2>2. k \in Keys /\ k \in heldBar /\ HitArm(region, k, i)
    BY <1>0, <2>1 DEF heldBar, Region, HeldStable
  <2>3. entriesBar' = [entriesBar EXCEPT ![k] = v]
    <3>1. \A q \in Keys :
            EntryOf(region', q) = IF q = k THEN v ELSE EntryOf(region, q)
      BY <1>0, <2>1, <2>2, OverwriteEntries
    <3> QED
      BY <2>2, <3>1, OneEntry DEF entriesBar
  <2>4. roomBar' = roomBar
    BY <1>0, <2>1, OverwriteRoom DEF roomBar
  <2>5. heldBar' = heldBar /\ lastBar' = Wrote(k, v)
    BY <1>0, <2>1 DEF heldBar, lastBar, Overwritten, Region, Wrote
  <2>6. Kernel!Store(k, v)
    BY <2>2, <2>3, <2>4, <2>5 DEF Kernel!Store, Kernel!Wrote, Wrote
  <2> QED
    BY <2>2, <2>6 DEF Kernel!Next
<1>8. ASSUME UNCHANGED vars
      PROVE  UNCHANGED Kernel!kernelVars
  BY <1>8 DEF vars, Kernel!kernelVars, entriesBar, roomBar, heldBar, lastBar
<1> QED
  BY <1>1, <1>2, <1>3, <1>4, <1>5, <1>6, <1>7, <1>8 DEF Next

(* The lowered helper calls implement the kernel's map.                    *)
THEOREM Refinement == Spec => Implements
<1>1. TypeOK /\ HeldStable /\ [Next]_vars => (TypeOK /\ HeldStable)'
  BY NextTypeOK, NextHeldStable
<1> QED
  BY <1>1, InitTypeOK, InitHeldStable, InitRefines, NextRefines, PTL
     DEF Spec, Implements, Kernel!Spec
=============================================================================
