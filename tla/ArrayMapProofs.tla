--------------------------- MODULE ArrayMapProofs ---------------------------
(***************************************************************************)
(* Types of an array map's region and of the pointers into it, and that    *)
(* the lowered calls implement the kernel's array for programs that keep   *)
(* their computed keys in range.                                           *)
(***************************************************************************)
EXTENDS ArrayMap, TLAPS

(* What never changes of the map: its sizes, and that it has entries.      *)
Sizes == /\ maxEntries \in 1 .. MAX_ENTRIES
         /\ slotsBudget \in 1 .. MAX_BUDGET

LEMMA SlotsFit ==
  ASSUME Sizes
  PROVE  nslots \in 1 .. maxEntries
BY DEF Sizes, nslots

(* The modulus is the identity wherever check_array_key accepts the key.   *)
LEMMA SlotIsKey ==
  ASSUME Sizes, NEW k \in Keys, k < nslots
  PROVE  slot(k) = k /\ k \in 0 .. nslots - 1
<1>1. k \in Nat /\ nslots \in Nat \ {0}
  BY SlotsFit, ArrayAssumption DEF Sizes, ArrayAssumption
<1>2. k % nslots = k
  BY <1>1
<1> QED
  BY <1>1, <1>2 DEF slot

LEMMA SlotInRange ==
  ASSUME Sizes, NEW k \in Keys
  PROVE  slot(k) \in 0 .. nslots - 1
<1>1. k \in Nat /\ nslots \in Nat \ {0}
  BY SlotsFit, ArrayAssumption DEF Sizes, ArrayAssumption
<1> QED
  BY <1>1 DEF slot

-----------------------------------------------------------------------------
(* A held pointer is one of the region's, which TypeOK alone does not say. *)
IInv == Sizes /\ TypeOK /\ held \subseteq 0 .. nslots - 1

THEOREM InitIInv == Init => IInv
BY ArrayAssumption DEF Init, IInv, Sizes, TypeOK, Results, None

LEMMA HitKeeps ==
  ASSUME IInv, NEW k \in Keys, NEW s \in 0 .. nslots - 1, Hit(k, s)
  PROVE  IInv'
<1>1. s \in 0 .. maxEntries - 1
  BY SlotsFit DEF IInv, Sizes
<1>2. nslots' = nslots
  BY DEF Hit, nslots
<1>3. Ptr(k, s) \in Results(0 .. nslots - 1)
  BY DEF Ptr, Results
<1> QED
  BY <1>1, <1>2, <1>3 DEF Hit, IInv, Sizes, TypeOK

LEMMA NoHitKeeps ==
  ASSUME IInv, UNCHANGED <<maxEntries, slotsBudget, held>>,
         val' \in [0 .. nslots - 1 -> Values], last' \in Results(0 .. nslots - 1)
  PROVE  IInv'
<1>1. nslots' = nslots
  BY DEF nslots
<1> QED
  BY <1>1 DEF IInv, Sizes, TypeOK

THEOREM NextIInv == IInv /\ [Next]_vars => IInv'
<1> SUFFICES ASSUME IInv, [Next]_vars PROVE IInv'
  OBVIOUS
<1>0. Sizes /\ val \in [0 .. nslots - 1 -> Values] /\ held \subseteq 0 .. nslots - 1
  BY DEF IInv, TypeOK
<1>1. ASSUME NEW k \in Keys, LookupConstant(k) PROVE IInv'
  BY <1>0, <1>1, SlotInRange, HitKeeps DEF LookupConstant
<1>2. ASSUME NEW k \in Keys, NEW v \in Values, UpdateConstant(k, v) PROVE IInv'
  <2>1. slot(k) \in 0 .. nslots - 1
    BY <1>0, SlotInRange
  <2>2. Ok(k, v) \in Results(0 .. nslots - 1)
    BY DEF Results, Ok
  <2> QED
    BY <1>0, <1>2, <2>1, <2>2, NoHitKeeps DEF UpdateConstant
<1>3. ASSUME NEW k \in Keys, LookupComputed(k) PROVE IInv'
  <2>1. CASE Hit(k, slot(k))
    BY <1>0, <2>1, SlotInRange, HitKeeps
  <2>2. CASE Miss(k)
    <3>1. Null(k) \in Results(0 .. nslots - 1)
      BY DEF Results, Null
    <3> QED
      BY <1>0, <2>2, <3>1, NoHitKeeps DEF Miss
  <2> QED
    BY <1>3, <2>1, <2>2 DEF LookupComputed
<1>4. ASSUME NEW s \in held, LoadValue(s) PROVE IInv'
  <2>1. val[s] \in Values
    BY <1>0, <1>4
  <2>2. Read(s, val[s]) \in Results(0 .. nslots - 1)
    BY <1>0, <1>4, <2>1 DEF Results, Read
  <2> QED
    BY <1>0, <1>4, <2>2, NoHitKeeps DEF LoadValue
<1>5. ASSUME NEW s \in held, NEW v \in Values, StoreValue(s, v) PROVE IInv'
  <2>1. Wrote(s, v) \in Results(0 .. nslots - 1)
    BY <1>0, <1>5 DEF Results, Wrote
  <2> QED
    BY <1>0, <1>5, <2>1, NoHitKeeps DEF StoreValue
<1>6. CASE UNCHANGED vars
  BY <1>6 DEF vars, IInv, Sizes, TypeOK, nslots
<1> QED
  BY <1>1, <1>2, <1>3, <1>4, <1>5, <1>6 DEF Next, Constant, Access

(* A value pointer is one of a value of the region, and of an entry the    *)
(* map has: emit_slot's modulus and check_array_key keep every access of   *)
(* any program inside.                                                     *)
THEOREM TypeCorrect == Spec => []TypeOK
<1>1. IInv => TypeOK
  BY DEF IInv
<1> QED
  BY <1>1, InitIInv, NextIInv, PTL DEF Spec

-----------------------------------------------------------------------------
LEMMA InitRefines == Init => Kernel!Init
<1> SUFFICES ASSUME Init PROVE Kernel!Init
  OBVIOUS
<1>1. Sizes /\ val \in [0 .. nslots - 1 -> Values]
  BY DEF Init, Sizes
<1>2. nslots \in 1 .. maxEntries
  BY <1>1, SlotsFit
<1>3. maxEntries \in Nat \ {0}
  BY <1>1, ArrayAssumption DEF Sizes, ArrayAssumption
<1> QED
  BY <1>1, <1>2, <1>3 DEF Init, Kernel!Init, None, Kernel!None

(* Each accepted call is one of the kernel's, on the entry of its key.     *)
LEMMA StepRefines == IInv /\ [NextBounded]_vars => [Kernel!Next]_(Kernel!arrayVars)
<1> SUFFICES ASSUME IInv, [NextBounded]_vars PROVE [Kernel!Next]_(Kernel!arrayVars)
  OBVIOUS
<1>0. Sizes /\ DOMAIN val = 0 .. nslots - 1 /\ held \subseteq 0 .. nslots - 1
  BY DEF IInv, TypeOK
<1>1. ASSUME NEW k \in Keys, k < nslots, Hit(k, slot(k))
      PROVE  Kernel!Lookup(k)
  BY <1>0, <1>1, SlotIsKey DEF Hit, Kernel!Lookup, Kernel!Entry, Ptr,
     Kernel!Ptr
<1>2. ASSUME NEW k \in Keys, LookupConstant(k) PROVE Kernel!Next
  BY <1>1, <1>2 DEF LookupConstant, ConstantOK, Kernel!Next
<1>3. ASSUME NEW k \in Keys, k < maxEntries, LookupComputed(k) PROVE Kernel!Next
  <2>1. nslots = maxEntries
    BY <1>0, <1>3, SlotsFit DEF LookupComputed, ComputedOK, Sizes
  <2>2. slot(k) = k
    BY <1>0, <1>3, <2>1, SlotIsKey
  <2> QED
    BY <1>1, <1>3, <2>1, <2>2 DEF LookupComputed, Kernel!Next
<1>4. ASSUME NEW k \in Keys, NEW v \in Values, UpdateConstant(k, v)
      PROVE  Kernel!Next
  <2>1. Kernel!Update(k, v)
    BY <1>0, <1>4, SlotIsKey
       DEF UpdateConstant, ConstantOK, Kernel!Update, Kernel!Entry, Ok,
           Kernel!Ok
  <2> QED
    BY <2>1 DEF Kernel!Next
<1>5. ASSUME NEW s \in held, LoadValue(s) PROVE Kernel!Next
  BY <1>5 DEF LoadValue, Kernel!Load, Kernel!Next, Read, Kernel!Read
<1>6. ASSUME NEW s \in held, NEW v \in Values, StoreValue(s, v) PROVE Kernel!Next
  BY <1>6 DEF StoreValue, Kernel!Store, Kernel!Next, Wrote, Kernel!Wrote
<1>7. CASE UNCHANGED vars
  BY <1>7 DEF vars, Kernel!arrayVars
<1> QED
  BY <1>2, <1>3, <1>4, <1>5, <1>6, <1>7 DEF NextBounded, Constant, Access

(* The lowered lookup and update of an array map implement the kernel's    *)
(* array, for programs that keep their computed keys below max_entries.    *)
THEOREM Refinement == BoundedSpec => Implements
<1>1. [NextBounded]_vars => [Next]_vars
  BY DEF NextBounded, Next
<1> QED
  BY <1>1, InitIInv, NextIInv, InitRefines, StepRefines, PTL
     DEF BoundedSpec, Implements, Kernel!Spec
=============================================================================
