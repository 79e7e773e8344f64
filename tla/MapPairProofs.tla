--------------------------- MODULE MapPairProofs ----------------------------
(***************************************************************************)
(* Proofs about MapPair, for every number of sites, every max_entries and  *)
(* every limit on the slots.                                               *)
(***************************************************************************)
EXTENDS MapPair, FiniteSetTheorems, TLAPS

LEMMA LeastOfTwo ==
  ASSUME NEW a \in Int, NEW b \in Int
  PROVE  Min({a, b}) = IF a <= b THEN a ELSE b
<1> DEFINE x == IF a <= b THEN a ELSE b
<1>1. x \in {a, b} /\ \A y \in {a, b} : x <= y
  OBVIOUS
<1>2. \A z \in {a, b} : (\A y \in {a, b} : z <= y) => z = x
  OBVIOUS
<1> HIDE DEF x
<1>3. Min({a, b}) = x
  BY <1>1, <1>2 DEF Min
<1> QED
  BY <1>3 DEF x

LEMMA GreatestOfTwo ==
  ASSUME NEW a \in Int, NEW b \in Int
  PROVE  Max({a, b}) = IF a >= b THEN a ELSE b
<1> DEFINE x == IF a >= b THEN a ELSE b
<1>1. x \in {a, b} /\ \A y \in {a, b} : x >= y
  OBVIOUS
<1>2. \A z \in {a, b} : (\A y \in {a, b} : z >= y) => z = x
  OBVIOUS
<1> HIDE DEF x
<1>3. Max({a, b}) = x
  BY <1>1, <1>2 DEF Max
<1> QED
  BY <1>3 DEF x

(* The slots a translation declares.                                       *)
Chosen(opt, n) ==
  LET auto == IF 2 * n >= 1 THEN IF 2 * n <= MAP_SLOTS_MAX THEN 2 * n ELSE MAP_SLOTS_MAX
              ELSE 1
      b    == IF opt = AUTO THEN auto ELSE opt
  IN  IF maxEntries > b THEN b ELSE maxEntries

LEMMA SlotsChosen ==
  ASSUME NEW opt \in {AUTO} \cup 1 .. MAP_SLOTS_MAX, NEW n \in Nat,
         maxEntries \in 1 .. MAX_ENTRIES
  PROVE  NslotsOf(opt, n) = Chosen(opt, n) /\ NslotsOf(opt, n) \in 1 .. MAP_SLOTS_MAX
<1>1. MAP_SLOTS_MAX \in Nat \ {0} /\ MAX_ENTRIES \in Nat
  BY BoundsAssumption DEF BoundsAssumption
<1>2. Max({2 * n, 1}) = IF 2 * n >= 1 THEN 2 * n ELSE 1
  BY GreatestOfTwo
<1>3. PICK g \in Int : g = Max({2 * n, 1})
  BY <1>2
<1>4. Min({g, MAP_SLOTS_MAX}) = IF g <= MAP_SLOTS_MAX THEN g ELSE MAP_SLOTS_MAX
  BY <1>1, LeastOfTwo
<1>5. AutoBudget(n) = IF g <= MAP_SLOTS_MAX THEN g ELSE MAP_SLOTS_MAX
  BY <1>3, <1>4 DEF AutoBudget
<1> QED
  BY <1>1, <1>2, <1>3, <1>5 DEF NslotsOf, SlotsBudget, Chosen, AUTO

-----------------------------------------------------------------------------
(* What a translation knows of its own map, which is all the comparison    *)
(* has to go by.                                                           *)
Side(s) ==
  /\ sites[s] \in Nat
  /\ stage[s] # "new" => nslots[s] = NslotsOf(option, sites[s])
  /\ stage[s] = "accepted" => WithinBudget(sites[s], nslots[s])
  /\ stage[s] = "refused" => ~WithinBudget(sites[s], nslots[s])

PairInv ==
  /\ option \in {AUTO} \cup 1 .. MAP_SLOTS_MAX
  /\ maxEntries \in 1 .. MAX_ENTRIES
  /\ nslots \in [Sides -> Nat]
  /\ stage \in [Sides -> {"new", "sized", "accepted", "refused"}]
  /\ \A s \in Sides : Side(s)
  /\ pair # "deleted"

LEMMA PairInit == Init => PairInv
BY BoundsAssumption DEF Init, PairInv, Side, Sides, BoundsAssumption

(* Both programs together observe at most as many keys as each of the      *)
(* regions has slots: the present ones and as many of the absent ones as   *)
(* the map has room for fit.                                               *)
LEMMA AlwaysFits ==
  ASSUME PairInv, Translated, nslots["a"] = nslots["b"],
         NEW e \in [Observed -> Values \cup {Absent}], NEW r \in Nat
  PROVE  Fits(e, r)
<1>1. PICK x \in Nat, y \in Nat, n \in Nat :
         x = sites["a"] /\ y = sites["b"] /\ n = nslots["a"]
  BY DEF PairInv, Side, Sides
<1>2. x <= n \div 2 /\ y <= n \div 2
  BY <1>1 DEF PairInv, Side, Sides, Translated, WithinBudget
<1>3. x + y <= n
  BY <1>2
<1>4. IsFiniteSet(Observed) /\ Cardinality(Observed) = x + y
  <2>1. PICK z \in Int : z = x + y - 1
    OBVIOUS
  <2>2. IsFiniteSet(0 .. z) /\ Cardinality(0 .. z) = IF 0 > z THEN 0 ELSE z - 0 + 1
    BY FS_Interval
  <2>3. Observed = 0 .. z
    BY <1>1, <2>1 DEF Observed
  <2> QED
    BY <2>1, <2>2, <2>3
<1>5. Present(e) \in SUBSET Observed /\ Observed \cap Present(e) = Present(e)
  BY DEF Present
<1>6. PICK p \in Nat, q \in Nat :
        /\ p = Cardinality(Present(e)) /\ q = Cardinality(Observed \ Present(e))
        /\ q = x + y - p
  <2>1. IsFiniteSet(Present(e)) /\ IsFiniteSet(Observed \ Present(e))
    BY <1>4, <1>5, FS_Subset, FS_Difference
  <2>2. Cardinality(Present(e)) \in Nat /\ Cardinality(Observed \ Present(e)) \in Nat
    BY <2>1, FS_CardinalityType
  <2>3. Cardinality(Observed \ Present(e)) = Cardinality(Observed) - Cardinality(Present(e))
    BY <1>4, <1>5, FS_Difference, ZenonT(60)
  <2> QED
    BY <1>4, <2>2, <2>3
<1>7. Wanted(e, r) = IF r <= q THEN r ELSE q
  <2>1. Min({r, q}) = IF r <= q THEN r ELSE q
    BY LeastOfTwo
  <2> QED
    BY <1>6, <2>1 DEF Wanted
<1> QED
  BY <1>1, <1>3, <1>6, <1>7 DEF Fits

LEMMA PairStep == PairInv /\ [Next]_vars => PairInv'
<1> SUFFICES ASSUME PairInv, [Next]_vars PROVE PairInv'
  OBVIOUS
<1> USE DEF PairInv, translation
<1>1. ASSUME NEW s \in Sides, SizeMap(s) PROVE PairInv'
  <2>1. nslots'[s] = NslotsOf(option, sites[s]) /\ stage'[s] = "sized"
    BY <1>1 DEF SizeMap
  <2>2. NslotsOf(option, sites[s]) \in Nat
    <3>1. sites[s] \in Nat
      BY DEF Side
    <3>2. NslotsOf(option, sites[s]) \in 1 .. MAP_SLOTS_MAX
      BY <3>1, SlotsChosen
    <3> QED
      BY <3>2, BoundsAssumption DEF BoundsAssumption
  <2>3. \A t \in Sides \ {s} : nslots'[t] = nslots[t] /\ stage'[t] = stage[t]
    BY <1>1 DEF SizeMap
  <2>4. \A o, n : NslotsOf(o, n)' = NslotsOf(o, n)
    BY <1>1 DEF SizeMap, NslotsOf
  <2>5. \A t \in Sides : Side(t)'
    BY <1>1, <2>1, <2>3, <2>4 DEF SizeMap, Side
  <2> QED
    BY <1>1, <2>2, <2>5 DEF SizeMap
<1>2. ASSUME NEW s \in Sides, CheckMapBudget(s) PROVE PairInv'
  <2>1. stage'[s] = IF WithinBudget(sites[s], nslots[s]) THEN "accepted" ELSE "refused"
    BY <1>2 DEF CheckMapBudget
  <2>2. \A t \in Sides \ {s} : stage'[t] = stage[t]
    BY <1>2 DEF CheckMapBudget
  <2>3. \A o, n : NslotsOf(o, n)' = NslotsOf(o, n)
    BY <1>2 DEF CheckMapBudget, NslotsOf
  <2>4. \A t \in Sides : Side(t)'
    BY <1>2, <2>1, <2>2, <2>3 DEF CheckMapBudget, Side
  <2> QED
    BY <1>2, <2>4 DEF CheckMapBudget
<1>3. ASSUME UNCHANGED translation, pair' # "deleted" PROVE PairInv'
  BY <1>3 DEF Side, NslotsOf
<1>4. ASSUME NEW e \in [Observed -> Values \cup {Absent}], NEW r \in 0 .. maxEntries,
             Compare(e, r)
      PROVE  PairInv'
  <2>1. Fits(e, r)
    BY <1>4, AlwaysFits DEF Compare
  <2> QED
    BY <1>3, <1>4, <2>1 DEF Compare
<1>5. CASE RefusePair \/ \E s \in Sides : Begin(s)
  BY <1>3, <1>5 DEF RefusePair, Begin
<1>6. CASE \E k \in Observed : Lookup(k) \/ \E v \in Values : Update(k, v)
  BY <1>3, <1>6 DEF Lookup, Update, Calling
<1>7. CASE UNCHANGED vars
  BY <1>3, <1>7 DEF vars
<1> QED
  BY <1>1, <1>2, <1>4, <1>5, <1>6, <1>7 DEF Next

THEOREM Sized == Spec => []PairInv
BY PairInit, PairStep, PTL DEF Spec

(* Whatever the kernel's map holds, the keys two accepted programs with    *)
(* the same region can observe have a place in it: no state of the map is  *)
(* silently left out of the comparison (size_maps, check_map_budget).      *)
THEOREM NothingDeleted == Spec => []NoStateDeleted
<1>1. PairInv => NoStateDeleted
  BY DEF PairInv, NoStateDeleted
<1> QED
  BY <1>1, Sized, PTL

(* With automatic sizing only a map too small, or more sites than the      *)
(* slots there can be, is refused (--map-slots=auto, check_map_budget).    *)
THEOREM AutoSizing == Spec => []AutoFits
<1>1. ASSUME PairInv PROVE AutoFits
  <2>1. SUFFICES ASSUME NEW s \in Sides, option = AUTO, stage[s] = "refused"
                 PROVE  2 * sites[s] > Min({maxEntries, MAP_SLOTS_MAX})
    BY DEF AutoFits
  <2>2. PICK n \in Nat : n = sites[s]
    BY <1>1 DEF PairInv, Side
  <2>3. MAP_SLOTS_MAX \in Nat \ {0} /\ maxEntries \in Nat \ {0}
    BY <1>1, BoundsAssumption DEF PairInv, BoundsAssumption
  <2>4. ~(n <= NslotsOf(AUTO, n) \div 2)
    BY <1>1, <2>1, <2>2 DEF PairInv, Side, WithinBudget
  <2>5. NslotsOf(AUTO, n) = Chosen(AUTO, n) /\ NslotsOf(AUTO, n) \in Nat
    <3>1. NslotsOf(AUTO, n) = Chosen(AUTO, n) /\ NslotsOf(AUTO, n) \in 1 .. MAP_SLOTS_MAX
      BY <1>1, SlotsChosen DEF PairInv
    <3> QED
      BY <2>3, <3>1
  <2>6. Min({maxEntries, MAP_SLOTS_MAX})
          = IF maxEntries <= MAP_SLOTS_MAX THEN maxEntries ELSE MAP_SLOTS_MAX
    BY <2>3, LeastOfTwo
  <2>7. 2 * n > NslotsOf(AUTO, n)
    BY <2>4, <2>5
  <2> QED
    BY <2>2, <2>3, <2>5, <2>6, <2>7 DEF Chosen
<1> QED
  BY <1>1, Sized, PTL

-----------------------------------------------------------------------------
(* Agreement.  A region of n slots stands for the map with entries e on    *)
(* the keys O and room for r more: each present key has one filled slot,   *)
(* with its value, and there are as many free slots as absent keys, or as  *)
(* there is room for.                                                      *)
Has(R, k, j)  == R.pres[j] = 1 /\ R.tag[j] = k
FreeOf(n, R)  == {j \in 0 .. n - 1 : R.pres[j] = 0}
AbsentOf(O, e) == {k \in O : e[k] = Absent}

StandsFor(n, O, e, r, R) ==
  /\ e \in [O -> Values \cup {Absent}] /\ r \in Nat
  /\ DOMAIN R = {"pres", "tag", "val", "full"}
  /\ DOMAIN R.pres = 0 .. n - 1 /\ DOMAIN R.tag = 0 .. n - 1 /\ DOMAIN R.val = 0 .. n - 1
  /\ \A k \in O : e[k] = Absent <=> \A j \in 0 .. n - 1 : ~Has(R, k, j)
  /\ \A k \in O, j \in 0 .. n - 1 : Has(R, k, j) =>
       R.val[j] = e[k] /\ \A l \in 0 .. n - 1 : Has(R, k, l) => l = j
  /\ R.full = 1 => r = 0
  /\ R.full # 1 => Cardinality(FreeOf(n, R))
                     = IF r <= Cardinality(AbsentOf(O, e)) THEN r ELSE Cardinality(AbsentOf(O, e))

LEMMA Counts ==
  ASSUME NEW n \in Nat, NEW O, IsFiniteSet(O), NEW e, NEW R
  PROVE  /\ IsFiniteSet(FreeOf(n, R)) /\ Cardinality(FreeOf(n, R)) \in Nat
         /\ IsFiniteSet(AbsentOf(O, e)) /\ Cardinality(AbsentOf(O, e)) \in Nat
<1>1. IsFiniteSet(0 .. n - 1)
  BY FS_Interval
<1>2. FreeOf(n, R) \in SUBSET (0 .. n - 1) /\ AbsentOf(O, e) \in SUBSET O
  BY DEF FreeOf, AbsentOf
<1>3. IsFiniteSet(FreeOf(n, R)) /\ IsFiniteSet(AbsentOf(O, e))
  BY <1>1, <1>2, FS_Subset
<1> QED
  BY <1>3, FS_CardinalityType

(* What the writes of the arms do to the cells.                            *)
LEMMA OverwrittenCells ==
  ASSUME NEW R, NEW i, NEW v, "val" \in DOMAIN R, i \in DOMAIN R.val
  PROVE  LET Q == Slot!Overwritten(R, i, v)
         IN  /\ DOMAIN Q = DOMAIN R
             /\ "pres" \in DOMAIN R => Q.pres = R.pres
             /\ "tag" \in DOMAIN R => Q.tag = R.tag
             /\ "full" \in DOMAIN R => Q.full = R.full
             /\ DOMAIN Q.val = DOMAIN R.val
             /\ \A j \in DOMAIN R.val : Q.val[j] = IF j = i THEN v ELSE R.val[j]
BY DEF Slot!Overwritten

LEMMA InsertedCells ==
  ASSUME NEW R, NEW i, NEW k, NEW v, DOMAIN R = {"pres", "tag", "val", "full"},
         i \in DOMAIN R.pres, i \in DOMAIN R.tag, i \in DOMAIN R.val
  PROVE  LET Q == Slot!Inserted(R, i, k, v)
         IN  /\ DOMAIN Q = DOMAIN R /\ Q.full = R.full
             /\ DOMAIN Q.pres = DOMAIN R.pres
             /\ DOMAIN Q.tag = DOMAIN R.tag
             /\ DOMAIN Q.val = DOMAIN R.val
             /\ \A j \in DOMAIN R.pres : Q.pres[j] = IF j = i THEN 1 ELSE R.pres[j]
             /\ \A j \in DOMAIN R.tag : Q.tag[j] = IF j = i THEN k ELSE R.tag[j]
             /\ \A j \in DOMAIN R.val : Q.val[j] = IF j = i THEN v ELSE R.val[j]
BY DEF Slot!Inserted

(* A present key is overwritten, an absent one inserted.                   *)
LEMMA StandsOverwritten ==
  ASSUME NEW n \in Nat, NEW O, IsFiniteSet(O), NEW e, NEW r, NEW R, StandsFor(n, O, e, r, R),
         NEW k \in O, NEW v \in Values, NEW i \in 0 .. n - 1, Has(R, k, i)
  PROVE  /\ e[k] # Absent
         /\ StandsFor(n, O, [e EXCEPT ![k] = v], r, Slot!Overwritten(R, i, v))
<1> DEFINE Q == Slot!Overwritten(R, i, v)
           f == [e EXCEPT ![k] = v]
<1>1. e[k] # Absent /\ v # Absent
  BY AbsentAssumption DEF StandsFor, AbsentAssumption
<1>2. f \in [O -> Values \cup {Absent}] /\ \A q \in O : f[q] = IF q = k THEN v ELSE e[q]
  BY DEF StandsFor
<1>3. /\ DOMAIN Q = DOMAIN R /\ Q.pres = R.pres /\ Q.tag = R.tag /\ Q.full = R.full
      /\ DOMAIN Q.val = DOMAIN R.val
      /\ \A j \in 0 .. n - 1 : Q.val[j] = IF j = i THEN v ELSE R.val[j]
  BY OverwrittenCells DEF StandsFor
<1> HIDE DEF Q, f
<1>4. /\ FreeOf(n, Q) = FreeOf(n, R) /\ AbsentOf(O, f) = AbsentOf(O, e)
      /\ \A q, j : Has(Q, q, j) <=> Has(R, q, j)
  BY <1>1, <1>2, <1>3 DEF FreeOf, AbsentOf, Has
<1>5. ASSUME NEW q \in O, NEW j \in 0 .. n - 1, Has(R, q, j)
      PROVE  Q.val[j] = f[q] /\ \A l \in 0 .. n - 1 : Has(R, q, l) => l = j
  <2>1. R.val[j] = e[q] /\ \A l \in 0 .. n - 1 : Has(R, q, l) => l = j
    BY <1>5 DEF StandsFor
  <2>2. CASE q = k
    BY <1>2, <1>3, <2>1, <2>2
  <2>3. CASE q # k
    <3>1. j # i
      BY <1>5, <2>3 DEF Has
    <3> QED
      BY <1>2, <1>3, <2>1, <2>3, <3>1
  <2> QED
    BY <2>2, <2>3
<1>6. \A q \in O : f[q] = Absent <=> e[q] = Absent
  BY <1>1, <1>2
<1>7. StandsFor(n, O, f, r, Q)
  BY <1>2, <1>3, <1>4, <1>5, <1>6 DEF StandsFor
<1> QED
  BY <1>1, <1>7 DEF Q, f

LEMMA StandsInserted ==
  ASSUME NEW n \in Nat, NEW O, IsFiniteSet(O), NEW e, NEW r, NEW R, StandsFor(n, O, e, r, R),
         NEW k \in O, NEW v \in Values, NEW i \in 0 .. n - 1,
         R.pres[i] = 0, R.full # 1, \A j \in 0 .. n - 1 : ~Has(R, k, j)
  PROVE  /\ e[k] = Absent /\ r # 0
         /\ StandsFor(n, O, [e EXCEPT ![k] = v], r - 1, Slot!Inserted(R, i, k, v))
<1> DEFINE Q == Slot!Inserted(R, i, k, v)
           f == [e EXCEPT ![k] = v]
<1>1. e[k] = Absent /\ v # Absent /\ r \in Nat
  BY AbsentAssumption DEF StandsFor, AbsentAssumption
<1>2. f \in [O -> Values \cup {Absent}] /\ \A q \in O : f[q] = IF q = k THEN v ELSE e[q]
  BY DEF StandsFor
<1>3. /\ DOMAIN Q = DOMAIN R /\ Q.full = R.full
      /\ DOMAIN Q.pres = 0 .. n - 1 /\ DOMAIN Q.tag = 0 .. n - 1 /\ DOMAIN Q.val = 0 .. n - 1
      /\ \A j \in 0 .. n - 1 : /\ Q.pres[j] = IF j = i THEN 1 ELSE R.pres[j]
                               /\ Q.tag[j] = IF j = i THEN k ELSE R.tag[j]
                               /\ Q.val[j] = IF j = i THEN v ELSE R.val[j]
  BY InsertedCells DEF StandsFor
<1> HIDE DEF Q, f
<1>4. FreeOf(n, Q) = FreeOf(n, R) \ {i} /\ i \in FreeOf(n, R)
  BY <1>3 DEF FreeOf
<1>5. AbsentOf(O, f) = AbsentOf(O, e) \ {k} /\ k \in AbsentOf(O, e)
  BY <1>1, <1>2 DEF AbsentOf
<1>6. PICK a \in Nat, b \in Nat :
        /\ a = Cardinality(FreeOf(n, R)) /\ b = Cardinality(AbsentOf(O, e))
        /\ Cardinality(FreeOf(n, Q)) = a - 1 /\ Cardinality(AbsentOf(O, f)) = b - 1
  <2>1. IsFiniteSet(FreeOf(n, R)) /\ IsFiniteSet(AbsentOf(O, e))
    BY Counts
  <2>2. Cardinality(FreeOf(n, R) \ {i}) = Cardinality(FreeOf(n, R)) - 1
    BY <1>4, <2>1, FS_RemoveElement
  <2>3. Cardinality(AbsentOf(O, e) \ {k}) = Cardinality(AbsentOf(O, e)) - 1
    BY <1>5, <2>1, FS_RemoveElement
  <2>4. Cardinality(FreeOf(n, R)) \in Nat /\ Cardinality(AbsentOf(O, e)) \in Nat
    BY Counts
  <2> QED
    BY <1>4, <1>5, <2>2, <2>3, <2>4
<1>7. a = IF r <= b THEN r ELSE b
  BY <1>6 DEF StandsFor
<1>8. a - 1 \in Nat /\ b - 1 \in Nat
  BY <1>6, Counts
<1>9. r # 0 /\ r - 1 \in Nat /\ a - 1 = IF r - 1 <= b - 1 THEN r - 1 ELSE b - 1
  BY <1>1, <1>7, <1>8
<1>10. \A j \in 0 .. n - 1 : Has(Q, k, j) <=> j = i
  BY <1>3 DEF Has
<1>11. \A q \in O \ {k}, j \in 0 .. n - 1 : Has(Q, q, j) <=> Has(R, q, j)
  BY <1>3 DEF Has
<1>12. ASSUME NEW q \in O
       PROVE  f[q] = Absent <=> \A j \in 0 .. n - 1 : ~Has(Q, q, j)
  <2>1. CASE q = k
    BY <1>1, <1>2, <1>10, <2>1
  <2>2. CASE q # k
    BY <1>2, <1>11, <2>2 DEF StandsFor
  <2> QED
    BY <2>1, <2>2
<1>13. ASSUME NEW q \in O, NEW j \in 0 .. n - 1, Has(Q, q, j)
       PROVE  Q.val[j] = f[q] /\ \A l \in 0 .. n - 1 : Has(Q, q, l) => l = j
  <2>1. CASE q = k
    BY <1>2, <1>3, <1>10, <1>13, <2>1
  <2>2. CASE q # k
    <3>1. Has(R, q, j) /\ j # i
      BY <1>3, <1>11, <1>13, <2>2 DEF Has
    <3>2. R.val[j] = e[q] /\ \A l \in 0 .. n - 1 : Has(R, q, l) => l = j
      BY <3>1 DEF StandsFor
    <3> QED
      BY <1>2, <1>3, <1>11, <2>2, <3>1, <3>2
  <2> QED
    BY <2>1, <2>2
<1>14. StandsFor(n, O, f, r - 1, Q)
  <2>1. DOMAIN Q = {"pres", "tag", "val", "full"} /\ Q.full # 1
    BY <1>3 DEF StandsFor
  <2>2. Cardinality(FreeOf(n, Q))
          = IF r - 1 <= Cardinality(AbsentOf(O, f)) THEN r - 1 ELSE Cardinality(AbsentOf(O, f))
    BY <1>6, <1>9
  <2> QED
    BY <1>2, <1>3, <1>9, <1>12, <1>13, <2>1, <2>2 DEF StandsFor
<1> QED
  BY <1>1, <1>9, <1>14 DEF Q, f

(* The elements of a finite set of numbers, by how many are below them.    *)
LEMMA Ranks ==
  ASSUME NEW P \in SUBSET Nat, IsFiniteSet(P)
  PROVE  [k \in P |-> Cardinality({q \in P : q < k})] \in Bijection(P, 0 .. Cardinality(P) - 1)
<1> DEFINE below(k) == {q \in P : q < k}
           f == [k \in P |-> Cardinality(below(k))]
<1>1. PICK p \in Nat : p = Cardinality(P)
  BY FS_CardinalityType
<1>2. \A k : IsFiniteSet(below(k)) /\ Cardinality(below(k)) \in Nat
  <2>1. \A k : below(k) \in SUBSET P
    OBVIOUS
  <2>2. \A k : IsFiniteSet(below(k))
    BY <2>1, FS_Subset
  <2> QED
    BY <2>2, FS_CardinalityType
<1>3. ASSUME NEW k \in P PROVE f[k] \in 0 .. p - 1
  <2>1. below(k) \in SUBSET P /\ k \notin below(k)
    OBVIOUS
  <2>2. Cardinality(below(k)) <= p /\ Cardinality(below(k)) # p
    BY <1>1, <2>1, FS_Subset
  <2> QED
    BY <1>2, <2>2
<1>4. ASSUME NEW k \in P, NEW l \in P, k < l PROVE f[k] # f[l]
  <2>1. \A q \in P : q < k => q < l
    <3>1. k \in Nat /\ l \in Nat /\ \A q \in P : q \in Nat
      OBVIOUS
    <3> QED
      BY <1>4, <3>1
  <2>2. below(k) # below(l)
    BY <1>4
  <2>3. below(k) \in SUBSET below(l)
    BY <2>1
  <2>4. Cardinality(below(k)) # Cardinality(below(l))
    BY <1>2, <2>2, <2>3, FS_Subset
  <2> QED
    BY <2>4
<1>5. f \in Injection(P, 0 .. p - 1)
  <2>1. f \in [P -> 0 .. p - 1]
    BY <1>3
  <2>2. \A k, l \in P : k = l \/ k < l \/ l < k
    OBVIOUS
  <2>3. \A k, l \in P : f[k] = f[l] => k = l
    BY <1>4, <2>2
  <2> HIDE DEF f
  <2> QED
    BY <2>1, <2>3 DEF Injection, IsInjective
<1>6. IsFiniteSet(0 .. p - 1) /\ Cardinality(0 .. p - 1) = p
  <2>1. p - 1 \in Int
    OBVIOUS
  <2>2. Cardinality(0 .. p - 1) = IF 0 > p - 1 THEN 0 ELSE p - 1 - 0 + 1
    BY <2>1, FS_Interval
  <2> QED
    BY <2>1, <2>2, FS_Interval
<1>7. f \in Surjection(P, 0 .. p - 1)
  <2> HIDE DEF f
  <2> QED
    BY <1>1, <1>5, <1>6, FS_Injection
<1> QED
  BY <1>1, <1>5, <1>7 DEF Bijection

(* The region a comparison starts with stands for the kernel's map.        *)
LEMMA LayoutStands ==
  ASSUME PairInv, NEW e \in [Observed -> Values \cup {Absent}], NEW r \in Nat, Fits(e, r)
  PROVE  StandsFor(nslots["a"], Observed, e, r, Layout(e, r))
<1> DEFINE R == Layout(e, r)
<1>1. PICK n \in Nat : n = nslots["a"]
  BY DEF PairInv, Sides
<1>2. PICK O, P : O = Observed /\ P = Present(e)
  OBVIOUS
<1>3. /\ O \in SUBSET Nat /\ IsFiniteSet(O) /\ P = {k \in O : e[k] # Absent}
      /\ P \in SUBSET Nat /\ P \in SUBSET O /\ IsFiniteSet(P)
  <2>1. sites["a"] + sites["b"] - 1 \in Int
    BY DEF PairInv, Side, Sides
  <2>2. IsFiniteSet(Observed) /\ Observed \subseteq Nat
    BY <2>1, FS_Interval DEF Observed
  <2>3. P = {k \in O : e[k] # Absent}
    BY <1>2 DEF Present
  <2>4. P \in SUBSET O
    BY <2>3
  <2> QED
    BY <1>2, <2>2, <2>3, <2>4, FS_Subset
<1>4. PICK p \in Nat, q \in Nat : p = Cardinality(P) /\ q = Cardinality(O \ P)
  <2>1. IsFiniteSet(O \ P)
    BY <1>3, FS_Difference
  <2> QED
    BY <1>3, <2>1, FS_CardinalityType
<1>5. PICK w \in Nat : w = Wanted(e, r) /\ w = IF r <= q THEN r ELSE q
  <2>1. Min({r, q}) = IF r <= q THEN r ELSE q
    BY LeastOfTwo
  <2>2. Wanted(e, r) = Min({r, q})
    BY <1>2, <1>4 DEF Wanted
  <2> QED
    BY <2>1, <2>2
<1>6. p + w <= n
  BY <1>1, <1>2, <1>4, <1>5 DEF Fits
<1>7. PICK rank : /\ rank \in Bijection(P, 0 .. p - 1)
                  /\ \A k \in P : rank[k] = Rank(e, k)
  <2>1. [k \in P |-> Cardinality({x \in P : x < k})] \in Bijection(P, 0 .. p - 1)
    BY <1>3, <1>4, Ranks
  <2> QED
    BY <1>2, <2>1 DEF Rank
<1>8. /\ \A k \in P : rank[k] \in 0 .. p - 1
      /\ \A k, l \in P : rank[k] = rank[l] => k = l
      /\ \A j \in 0 .. p - 1 : \E k \in P : rank[k] = j
  BY <1>7 DEF Bijection, Injection, IsInjective, Surjection
<1>9. /\ DOMAIN R = {"pres", "tag", "val", "full"}
      /\ DOMAIN R.pres = 0 .. n - 1 /\ DOMAIN R.tag = 0 .. n - 1 /\ DOMAIN R.val = 0 .. n - 1
      /\ \A j \in 0 .. n - 1 : R.pres[j] = IF j < p THEN 1 ELSE IF j < p + w THEN 0 ELSE 2
      /\ \A j \in 0 .. n - 1 : j < p => /\ R.tag[j] = CHOOSE k \in P : Rank(e, k) = j
                                        /\ R.val[j] = e[R.tag[j]]
      /\ R.full = IF r = 0 THEN 1 ELSE 0
  BY <1>1, <1>2, <1>4, <1>5 DEF Layout, Slot!Slots
<1> HIDE DEF R
<1>10. ASSUME NEW j \in 0 .. n - 1, j < p
       PROVE  R.tag[j] \in P /\ rank[R.tag[j]] = j
  <2>1. j \in 0 .. p - 1 /\ R.tag[j] = CHOOSE k \in P : Rank(e, k) = j
    BY <1>9, <1>10
  <2>2. \E k \in P : Rank(e, k) = j
    BY <1>7, <1>8, <2>1
  <2>3. R.tag[j] \in P /\ Rank(e, R.tag[j]) = j
    BY <2>1, <2>2
  <2> QED
    BY <1>7, <2>3
<1>11. ASSUME NEW j \in 0 .. n - 1, NEW k
       PROVE  Has(R, k, j) <=> k \in P /\ rank[k] = j
  <2>1. Has(R, k, j) <=> j < p /\ R.tag[j] = k
    BY <1>9 DEF Has
  <2>2. k \in P /\ rank[k] = j => j < p /\ R.tag[j] = k
    BY <1>8, <1>10
  <2> QED
    BY <1>10, <2>1, <2>2
<1>12. \A k \in O : e[k] = Absent <=> \A j \in 0 .. n - 1 : ~Has(R, k, j)
  <2>1. \A k \in P : rank[k] \in 0 .. n - 1
    BY <1>6, <1>8
  <2> QED
    BY <1>3, <1>11, <2>1
<1>13. ASSUME NEW k \in O, NEW j \in 0 .. n - 1, Has(R, k, j)
       PROVE  R.val[j] = e[k] /\ \A l \in 0 .. n - 1 : Has(R, k, l) => l = j
  <2>1. j < p /\ R.tag[j] = k
    BY <1>9, <1>13 DEF Has
  <2> QED
    BY <1>9, <1>11, <1>13, <2>1
<1>14. Cardinality(FreeOf(n, R)) = w
  <2>1. FreeOf(n, R) = p .. p + w - 1
    BY <1>6, <1>9 DEF FreeOf
  <2>2. p + w - 1 \in Int /\ p \in Int
    OBVIOUS
  <2>3. Cardinality(p .. p + w - 1) = IF p > p + w - 1 THEN 0 ELSE p + w - 1 - p + 1
    BY <2>2, FS_Interval
  <2> QED
    BY <2>1, <2>3
<1>15. AbsentOf(O, e) = O \ P
  BY <1>3 DEF AbsentOf
<1>16. StandsFor(n, O, e, r, R)
  BY <1>2, <1>4, <1>5, <1>9, <1>12, <1>13, <1>14, <1>15 DEF StandsFor
<1> QED
  BY <1>1, <1>2, <1>16 DEF R

(* One call is answered alike, and leaves the region standing for the map. *)
LEMMA LookupAgrees ==
  ASSUME NEW O, NEW e, NEW r, NEW R, StandsFor(nslots["a"], O, e, r, R), NEW k \in O,
         nslots["a"] \in Nat
  PROVE  Found(R, k) = IF e[k] = Absent THEN Null(k) ELSE Read(k, e[k])
<1>1. \A j : Slot!Filled(R, k, j) <=> Has(R, k, j)
  BY DEF Slot!Filled, Has
<1>2. Slot!MissArm(R, k) <=> e[k] = Absent
  BY <1>1 DEF Slot!MissArm, Slot!Slots, StandsFor
<1>3. ASSUME e[k] # Absent PROVE R.val[Slot!SlotOf(R, k)] = e[k]
  <2>1. PICK j \in 0 .. nslots["a"] - 1 : Has(R, k, j)
    BY <1>3 DEF StandsFor
  <2>2. \A l \in 0 .. nslots["a"] - 1 : Has(R, k, l) => l = j
    BY <2>1 DEF StandsFor
  <2>3. \A l \in 0 .. j - 1 : l \in 0 .. nslots["a"] - 1 /\ l # j
    OBVIOUS
  <2>4. Slot!HitArm(R, k, j)
    BY <1>1, <2>1, <2>2, <2>3 DEF Slot!HitArm
  <2>5. Slot!SlotOf(R, k) \in Slot!Slots /\ Slot!HitArm(R, k, Slot!SlotOf(R, k))
    BY <2>4 DEF Slot!SlotOf, Slot!Slots
  <2>6. Slot!SlotOf(R, k) = j
    BY <1>1, <2>2, <2>5 DEF Slot!HitArm, Slot!Slots
  <2> QED
    BY <2>1, <2>6 DEF StandsFor
<1> QED
  BY <1>2, <1>3 DEF Found

LEMMA UpdateAgrees ==
  ASSUME nslots["a"] \in Nat, IsFiniteSet(Observed),
         StandsFor(nslots["a"], Observed, entries, room, region),
         NEW k \in Observed, NEW v \in Values,
         UpdateRegion(k, v), UpdateKernel(k, v)
  PROVE  /\ said' = owed'
         /\ StandsFor(nslots["a"], Observed, entries', room', region')
<1>1. PICK n, O : n = nslots["a"] /\ O = Observed
  OBVIOUS
<1>2. n \in Nat /\ IsFiniteSet(O) /\ k \in O /\ StandsFor(n, O, entries, room, region)
  BY <1>1
<1>3. /\ \A j : Slot!Filled(region, k, j) <=> Has(region, k, j)
      /\ Slot!MissArm(region, k) <=> \A j \in 0 .. n - 1 : ~Has(region, k, j)
      /\ Slot!Slots = 0 .. n - 1
  BY <1>1 DEF Slot!Filled, Has, Slot!MissArm, Slot!Slots
<1>4. ASSUME NEW j \in 0 .. n - 1, Slot!HitArm(region, k, j),
             region' = Slot!Overwritten(region, j, v), said' = Ok(k, v)
      PROVE  said' = owed' /\ StandsFor(n, O, entries', room', region')
  <2>1. Has(region, k, j)
    BY <1>3, <1>4 DEF Slot!HitArm
  <2>2. /\ entries[k] # Absent
        /\ StandsFor(n, O, [entries EXCEPT ![k] = v], room, Slot!Overwritten(region, j, v))
    BY <1>2, <2>1, StandsOverwritten
  <2>3. owed' = Ok(k, v) /\ entries' = [entries EXCEPT ![k] = v] /\ room' = room
    BY <2>2 DEF UpdateKernel
  <2> QED
    BY <1>4, <2>2, <2>3
<1>5. ASSUME NEW j \in 0 .. n - 1, Slot!FreeArm(region, k, j),
             region' = Slot!Inserted(region, j, k, v), said' = Ok(k, v)
      PROVE  said' = owed' /\ StandsFor(n, O, entries', room', region')
  <2>1. region.pres[j] = 0 /\ region.full # 1 /\ \A l \in 0 .. n - 1 : ~Has(region, k, l)
    BY <1>3, <1>5 DEF Slot!FreeArm, Slot!Free
  <2>2. /\ entries[k] = Absent /\ room # 0
        /\ StandsFor(n, O, [entries EXCEPT ![k] = v], room - 1, Slot!Inserted(region, j, k, v))
    BY <1>2, <2>1, StandsInserted
  <2>3. owed' = Ok(k, v) /\ entries' = [entries EXCEPT ![k] = v] /\ room' = room - 1
    BY <2>2 DEF UpdateKernel
  <2> QED
    BY <1>5, <2>2, <2>3
<1>6. ASSUME Slot!FullArm(region, k) \/ Slot!LastArm(region, k),
             said' = TooBig(k), region' = region
      PROVE  said' = owed' /\ StandsFor(n, O, entries', room', region')
  <2>1. entries[k] = Absent
    BY <1>2, <1>3, <1>6 DEF StandsFor, Slot!FullArm, Slot!LastArm
  <2>2. room = 0
    <3>1. CASE region.full = 1
      BY <1>2, <3>1 DEF StandsFor
    <3>2. CASE region.full # 1
      <4>1. FreeOf(n, region) = {}
        BY <1>3, <1>6, <3>2 DEF Slot!FullArm, Slot!LastArm, Slot!Free, FreeOf
      <4>2. Cardinality(FreeOf(n, region)) = 0
        BY <4>1, FS_EmptySet
      <4>3. Cardinality(AbsentOf(O, entries)) # 0 /\ Cardinality(AbsentOf(O, entries)) \in Nat
        <5>1. k \in AbsentOf(O, entries)
          BY <1>2, <2>1 DEF AbsentOf
        <5> QED
          BY <1>2, <5>1, Counts, FS_EmptySet
      <4> QED
        BY <1>2, <3>2, <4>2, <4>3 DEF StandsFor
    <3> QED
      BY <3>1, <3>2
  <2>3. owed' = TooBig(k) /\ entries' = entries /\ room' = room
    BY <2>1, <2>2 DEF UpdateKernel
  <2> QED
    BY <1>2, <1>6, <2>3
<1> QED
  BY <1>1, <1>3, <1>4, <1>5, <1>6 DEF UpdateRegion

(* The run of either program starts from the kernel's map and the region,  *)
(* and is answered alike by both.                                          *)
AgreeInv ==
  /\ pair # "none" => \A s \in Sides : stage[s] = "accepted"
  /\ pair = "run" => StandsFor(nslots["a"], Observed, kernel.entries, kernel.room, initial)
  /\ who # "none" =>
       pair = "run" /\ StandsFor(nslots["a"], Observed, entries, room, region)
  /\ Agree

LEMMA AgreeInit == Init => AgreeInv
BY DEF Init, AgreeInv, Agree

LEMMA FewObserved ==
  ASSUME PairInv
  PROVE  nslots["a"] \in Nat /\ IsFiniteSet(Observed)
<1>1. sites["a"] + sites["b"] - 1 \in Int /\ nslots["a"] \in Nat
  BY DEF PairInv, Side, Sides
<1> QED
  BY <1>1, FS_Interval DEF Observed

LEMMA AgreeStep == PairInv /\ AgreeInv /\ [Next]_vars => AgreeInv'
<1> SUFFICES ASSUME PairInv, AgreeInv, [Next]_vars PROVE AgreeInv'
  OBVIOUS
<1>1. nslots["a"] \in Nat /\ IsFiniteSet(Observed)
  BY FewObserved
<1>2. ASSUME NEW s \in Sides, SizeMap(s) \/ CheckMapBudget(s) PROVE AgreeInv'
  <2>1. /\ pair = "none" /\ pair' = pair /\ who' = who /\ said' = said /\ owed' = owed
    BY <1>2 DEF SizeMap, CheckMapBudget, AgreeInv, run
  <2> QED
    BY <2>1 DEF AgreeInv, Agree
<1>3. ASSUME UNCHANGED translation
      PROVE  Observed' = Observed /\ nslots' = nslots /\ stage' = stage
  BY <1>3 DEF translation, Observed
<1>4. CASE RefusePair
  <2>1. /\ pair = "none" /\ pair' = "refused" /\ stage' = stage
        /\ \A s \in Sides : stage[s] = "accepted"
        /\ who' = who /\ said' = said /\ owed' = owed
    BY <1>4 DEF RefusePair, Translated, translation, run
  <2> QED
    BY <2>1 DEF AgreeInv, Agree
<1>5. ASSUME NEW e \in [Observed -> Values \cup {Absent}], NEW r \in 0 .. maxEntries,
             Compare(e, r)
      PROVE  AgreeInv'
  <2>1. /\ pair = "none" /\ stage' = stage /\ \A s \in Sides : stage[s] = "accepted"
        /\ who' = who /\ said' = said /\ owed' = owed /\ r \in Nat
        /\ Observed' = Observed /\ nslots' = nslots
    BY <1>3, <1>5 DEF Compare, Translated, run
  <2>2. Fits(e, r)
    BY <1>5, <2>1, AlwaysFits DEF Compare
  <2>3. kernel' = [entries |-> e, room |-> r] /\ initial' = Layout(e, r)
    BY <1>5, <2>2 DEF Compare
  <2>4. StandsFor(nslots["a"], Observed, e, r, Layout(e, r))
    BY <2>1, <2>2, LayoutStands
  <2>5. kernel'.entries = e /\ kernel'.room = r
    BY <2>3
  <2> QED
    BY <2>1, <2>3, <2>4, <2>5 DEF AgreeInv, Agree
<1>6. ASSUME NEW s \in Sides, Begin(s) PROVE AgreeInv'
  <2>1. /\ pair = "run" /\ pair' = pair /\ kernel' = kernel /\ initial' = initial
        /\ entries' = kernel.entries /\ room' = kernel.room /\ region' = initial
        /\ said' = owed'
        /\ Observed' = Observed /\ nslots' = nslots /\ stage' = stage
    BY <1>3, <1>6 DEF Begin, start
  <2> QED
    BY <2>1 DEF AgreeInv, Agree
<1>7. ASSUME NEW k \in Observed, Lookup(k) PROVE AgreeInv'
  <2>1. /\ pair = "run" /\ who # "none" /\ UNCHANGED <<translation, pair, start, who, entries, room, region>>
        /\ said' = Found(region, k)
        /\ owed' = IF entries[k] = Absent THEN Null(k) ELSE Read(k, entries[k])
    BY <1>7 DEF Lookup, Calling, Sides
  <2>2. said' = owed'
    BY <1>1, <2>1, LookupAgrees DEF AgreeInv
  <2> QED
    BY <1>3, <2>1, <2>2 DEF AgreeInv, Agree, start
<1>8. ASSUME NEW k \in Observed, NEW v \in Values, Update(k, v) PROVE AgreeInv'
  <2>1. /\ pair = "run" /\ who # "none" /\ UNCHANGED <<translation, pair, start, who>>
        /\ UpdateRegion(k, v) /\ UpdateKernel(k, v)
    BY <1>8 DEF Update, Calling, Sides
  <2>2. said' = owed' /\ StandsFor(nslots["a"], Observed, entries', room', region')
    BY <1>1, <2>1, UpdateAgrees DEF AgreeInv
  <2> QED
    BY <1>3, <2>1, <2>2 DEF AgreeInv, Agree, start
<1>9. CASE UNCHANGED vars
  BY <1>3, <1>9 DEF vars, start, run, AgreeInv, Agree
<1> QED
  BY <1>2, <1>4, <1>5, <1>6, <1>7, <1>8, <1>9 DEF Next

(* On the region it is compared on, each of two accepted programs is       *)
(* answered at every call as the kernel's map would answer it, whatever    *)
(* the map holds and whatever the other program's keys are                 *)
(* (emit_tagged_lookup, emit_tagged_update, size_maps).                    *)
THEOREM PairAgrees == Spec => []Agree
<1>1. Init => PairInv /\ AgreeInv
  BY PairInit, AgreeInit
<1>2. PairInv /\ AgreeInv /\ [Next]_vars => (PairInv /\ AgreeInv)'
  BY PairStep, AgreeStep
<1>3. AgreeInv => Agree
  BY DEF AgreeInv
<1> QED
  BY <1>1, <1>2, <1>3, PTL DEF Spec
-----------------------------------------------------------------------------
(* What TypeOK needs besides: the sites bound the calls and the keys, and  *)
(* the room a run has left is within what the kernel's map had.            *)
TypeInv ==
  /\ TypeOK
  /\ sites \in [Sides -> 0 .. MAX_SITES]
  /\ pair = "run" => kernel.room \in 0 .. maxEntries

LEMMA SomeResults ==
  ASSUME NEW k \in Keys
  PROVE  /\ None \in Results(Keys) /\ Null(k) \in Results(Keys)
         /\ TooBig(k) \in Results(Keys)
         /\ \A v \in Values : /\ Read(k, v) \in Results(Keys)
                              /\ Ok(k, v) \in Results(Keys)
BY DEF Results, None, Null, TooBig, Read, Ok

LEMMA TypeInit == Init => TypeInv
BY BoundsAssumption
   DEF Init, TypeInv, TypeOK, BoundsAssumption, Results, None

LEMMA TypeStep ==
  PairInv /\ AgreeInv /\ AgreeInv' /\ TypeInv /\ [Next]_vars => TypeInv'
<1> SUFFICES ASSUME PairInv, AgreeInv, AgreeInv', TypeInv, [Next]_vars
             PROVE  TypeInv'
  OBVIOUS
<1>1. /\ MAP_SLOTS_MAX \in Nat /\ MAX_SITES \in Nat
      /\ maxEntries \in Nat /\ said' = owed'
  BY BoundsAssumption DEF BoundsAssumption, PairInv, AgreeInv, Agree
<1>2. Observed \subseteq Keys
  <2>1. sites["a"] \in 0 .. MAX_SITES /\ sites["b"] \in 0 .. MAX_SITES
    BY DEF TypeInv, Sides
  <2>2. Observed \subseteq 0 .. 2 * MAX_SITES - 1
    BY <1>1, <2>1 DEF Observed
  <2> QED
    BY <2>2, KeysAssumption DEF KeysAssumption
<1>3. ASSUME NEW s \in Sides, SizeMap(s) PROVE TypeInv'
  <2>1. NslotsOf(option, sites[s]) \in 0 .. MAP_SLOTS_MAX
    <3>1. sites[s] \in Nat
      BY <1>1 DEF TypeInv
    <3>2. NslotsOf(option, sites[s]) \in 1 .. MAP_SLOTS_MAX
      BY <3>1, SlotsChosen DEF PairInv
    <3> QED
      BY <1>1, <3>2
  <2> QED
    BY <1>3, <2>1 DEF SizeMap, TypeInv, TypeOK, start, run
<1>4. ASSUME NEW s \in Sides, CheckMapBudget(s) PROVE TypeInv'
  BY <1>4 DEF CheckMapBudget, TypeInv, TypeOK, start, run
<1>5. CASE RefusePair
  BY <1>5 DEF RefusePair, TypeInv, TypeOK, translation, start, run
<1>6. ASSUME NEW e \in [Observed -> Values \cup {Absent}],
             NEW r \in 0 .. maxEntries, Compare(e, r)
      PROVE  TypeInv'
  BY <1>6 DEF Compare, TypeInv, TypeOK, translation, run
<1>7. ASSUME NEW s \in Sides, Begin(s) PROVE TypeInv'
  <2>1. None \in Results(Keys)
    BY DEF Results
  <2> QED
    BY <1>1, <1>7, <2>1 DEF Begin, TypeInv, TypeOK, translation, start
(* A call: the answer is a result, one more call is made, the room shrinks.*)
<1>8. ASSUME Calling, UNCHANGED <<translation, pair, start, who>>,
             calls' = calls + 1, room' \in 0 .. maxEntries,
             owed' \in Results(Keys)
      PROVE  TypeInv'
  <2>1. calls' \in 0 .. MAX_SITES
    BY <1>1, <1>8 DEF Calling, TypeInv, TypeOK
  <2> QED
    BY <1>1, <1>8, <2>1 DEF TypeInv, TypeOK, translation, start
<1>9. Calling => entries \in [Observed -> Values \cup {Absent}]
  BY DEF Calling, AgreeInv, StandsFor, Sides
<1>10. ASSUME NEW k \in Observed, Lookup(k) PROVE TypeInv'
  <2>1. /\ Calling /\ UNCHANGED <<translation, pair, start, who, room>>
        /\ calls' = calls + 1
        /\ owed' = IF entries[k] = Absent THEN Null(k) ELSE Read(k, entries[k])
    BY <1>10 DEF Lookup
  <2>2. owed' \in Results(Keys)
    BY <1>2, <1>9, <2>1, SomeResults
  <2> QED
    BY <1>8, <2>1, <2>2 DEF TypeInv, TypeOK
<1>11. ASSUME NEW k \in Observed, NEW v \in Values, Update(k, v)
       PROVE  TypeInv'
  <2>1. /\ Calling /\ UNCHANGED <<translation, pair, start, who>>
        /\ calls' = calls + 1 /\ UpdateKernel(k, v)
    BY <1>11 DEF Update
  <2>2. owed' \in Results(Keys)
    BY <1>2, <2>1, SomeResults DEF UpdateKernel
  <2>3. room' \in 0 .. maxEntries
    BY <1>1, <2>1 DEF UpdateKernel, TypeInv, TypeOK
  <2> QED
    BY <1>8, <2>1, <2>2, <2>3
<1>12. CASE UNCHANGED vars
  BY <1>12 DEF vars, translation, start, run, TypeInv, TypeOK
<1> QED
  BY <1>3, <1>4, <1>5, <1>6, <1>7, <1>10, <1>11, <1>12 DEF Next

(* The slots declared are within the limit, no run makes more calls than   *)
(* its program has sites, and the room left is what max_entries allows     *)
(* (size_maps, emit_tagged_update).                                        *)
THEOREM TypeCorrect == Spec => []TypeOK
<1>1. Init => PairInv /\ AgreeInv /\ TypeInv
  BY PairInit, AgreeInit, TypeInit
<1>2. PairInv /\ AgreeInv /\ TypeInv /\ [Next]_vars
        => (PairInv /\ AgreeInv /\ TypeInv)'
  BY PairStep, AgreeStep, TypeStep
<1>3. TypeInv => TypeOK
  BY DEF TypeInv
<1> QED
  BY <1>1, <1>2, <1>3, PTL DEF Spec
=============================================================================
