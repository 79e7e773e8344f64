------------------------------- MODULE MapPair -------------------------------
(***************************************************************************)
(* Why a bounded region is enough to compare two programs that use the     *)
(* same hash map.                                                          *)
(*                                                                         *)
(* Each object is translated on its own: its map is sized, and refused     *)
(* unless its call sites are at most half the slots.  A pair that declares *)
(* the same region is then compared on the same region, whatever the       *)
(* kernel's map holds.  The runs are in lockstep with the kernel's map:    *)
(* the same calls are answered by the region (said) and by it (owed).      *)
(*                                                                         *)
(* A run makes at most one call per site (jumps go forward only), so the   *)
(* two programs observe at most as many keys as they have sites; keys are  *)
(* only compared for equality, so these are taken to be 0, 1, 2, ...       *)
(***************************************************************************)
EXTENDS MapCalls, FiniteSets, FiniteSetsExt

CONSTANTS
  MAP_SLOTS_MAX,  \* 28 in the code
  MAX_SITES,      \* bound: call sites of one program
  MAX_ENTRIES     \* bound: max_entries of the map

BoundsAssumption ==
  MAP_SLOTS_MAX \in Nat \ {0} /\ MAX_SITES \in Nat /\ MAX_ENTRIES \in Nat
ASSUME BoundsAssumption

KeysAssumption == 0 .. 2 * MAX_SITES - 1 \subseteq Keys
ASSUME KeysAssumption

Sides == {"a", "b"}
AUTO  == 0        \* --map-slots=auto

VARIABLES
  option,      \* --map-slots, the same for both objects
  maxEntries,
  sites,       \* per side, the call sites on the map
  nslots,      \* per side, the slots its translation declares; 0 before
  stage,       \* per side, how far its translation is
  pair,        \* the comparison: none, refused, deleted or run
  kernel,      \* the kernel's map when both programs start
  initial,     \* the region when both programs start
  who, calls,  \* the program that is running, and the calls it has made
  entries, room, region,
  said, owed   \* what the last call returned, in the model and the kernel

translation == <<option, maxEntries, sites, nslots, stage>>
start       == <<kernel, initial>>
run         == <<who, calls, entries, room, region, said, owed>>
vars        == <<translation, pair, start, run>>

Slot == INSTANCE MapRegion WITH NSlots <- nslots["a"]

Init ==
  /\ option \in {AUTO} \cup 1 .. MAP_SLOTS_MAX
  /\ maxEntries \in 1 .. MAX_ENTRIES
  /\ sites \in [Sides -> 0 .. MAX_SITES]
  /\ nslots = [s \in Sides |-> 0]
  /\ stage = [s \in Sides |-> "new"]
  /\ pair = "none"
  /\ kernel = None /\ initial = None
  /\ who = "none" /\ calls = 0
  /\ entries = None /\ room = 0 /\ region = None
  /\ said = None /\ owed = None

(* ---------------------------- one translation -------------------------- *)
AutoBudget_Short(n) == Min({Max({2 * n - 1, 1}), MAP_SLOTS_MAX})    \* mutant
AutoBudget_Uncapped(n) == Max({2 * n, 1})                           \* mutant
AutoBudget(n)       == Min({Max({2 * n, 1}), MAP_SLOTS_MAX})

SlotsBudget(opt, n) == IF opt = AUTO THEN AutoBudget(n) ELSE opt
NslotsOf(opt, n) ==
  LET b == SlotsBudget(opt, n)
  IN  IF maxEntries = 0 \/ maxEntries > b THEN b ELSE maxEntries

SizeMap(s) ==
  /\ stage[s] = "new"
  /\ nslots' = [nslots EXCEPT ![s] = NslotsOf(option, sites[s])]
  /\ stage' = [stage EXCEPT ![s] = "sized"]
  /\ UNCHANGED <<option, maxEntries, sites, pair, start, run>>

WithinBudget_Whole(n, slots) == n <= slots                          \* mutant
WithinBudget(n, slots)       == n <= slots \div 2

CheckMapBudget(s) ==
  /\ stage[s] = "sized"
  /\ stage' = [stage EXCEPT ![s] = IF WithinBudget(sites[s], nslots[s])
                                     THEN "accepted" ELSE "refused"]
  /\ UNCHANGED <<option, maxEntries, sites, nslots, pair, start, run>>

(* ------------------------------ one comparison ------------------------- *)
Observed == 0 .. sites["a"] + sites["b"] - 1

Translated == pair = "none" /\ \A s \in Sides : stage[s] = "accepted"

(* The checker refuses programs whose region declarations differ.          *)
RefusePair ==
  /\ Translated
  /\ nslots["a"] # nslots["b"]
  /\ pair' = "refused"
  /\ UNCHANGED <<translation, start, run>>

(* A region that stands for the map, on the observed keys: the present     *)
(* keys, then as many free slots as the absent ones can take, then slots   *)
(* of other keys.                                                          *)
Present(e)   == {k \in Observed : e[k] # Absent}
Wanted(e, r) == Min({r, Cardinality(Observed \ Present(e))})
Fits(e, r)   == Cardinality(Present(e)) + Wanted(e, r) <= nslots["a"]

Rank(e, k) == Cardinality({q \in Present(e) : q < k})
Layout(e, r) ==
  LET filled == Cardinality(Present(e))
      tag == [i \in Slot!Slots |->
                IF i < filled THEN CHOOSE k \in Present(e) : Rank(e, k) = i
                              ELSE CHOOSE k \in Keys : TRUE]
  IN  [pres |-> [i \in Slot!Slots |->
                   IF i < filled THEN 1
                   ELSE IF i < filled + Wanted(e, r) THEN 0 ELSE 2],
       tag  |-> tag,
       val  |-> [i \in Slot!Slots |->
                   IF i < filled THEN e[tag[i]] ELSE CHOOSE v \in Values : TRUE],
       full |-> IF r = 0 THEN 1 ELSE 0]

(* A map of at most max_entries keys, observed or not.                     *)
Compare(e, r) ==
  /\ Translated
  /\ nslots["a"] = nslots["b"]
  /\ r <= maxEntries - Cardinality(Present(e))
  /\ kernel' = [entries |-> e, room |-> r]
  /\ IF Fits(e, r) THEN initial' = Layout(e, r) /\ pair' = "run"
                   ELSE initial' = None /\ pair' = "deleted"
  /\ UNCHANGED <<translation, run>>

Begin(s) ==
  /\ pair = "run" /\ who = "none"
  /\ who' = s /\ calls' = 0
  /\ entries' = kernel.entries /\ room' = kernel.room /\ region' = initial
  /\ said' = None /\ owed' = None
  /\ UNCHANGED <<translation, pair, start>>

Calling == pair = "run" /\ who \in Sides /\ calls < sites[who]

(* A lookup, and the load through the pointer it returned.                 *)
Found(R, k) ==
  IF Slot!MissArm(R, k) THEN Null(k) ELSE Read(k, R.val[Slot!SlotOf(R, k)])

Lookup(k) ==
  /\ Calling
  /\ said' = Found(region, k)
  /\ owed' = IF entries[k] = Absent THEN Null(k) ELSE Read(k, entries[k])
  /\ calls' = calls + 1
  /\ UNCHANGED <<translation, pair, start, who, entries, room, region>>

(* The arm an update takes in the region.                                  *)
UpdateRegion(k, v) ==
  \/ \E i \in Slot!Slots :
       \/ Slot!HitArm(region, k, i)
            /\ region' = Slot!Overwritten(region, i, v) /\ said' = Ok(k, v)
       \/ Slot!FreeArm(region, k, i)
            /\ region' = Slot!Inserted(region, i, k, v) /\ said' = Ok(k, v)
  \/ Slot!FullArm(region, k) /\ said' = TooBig(k) /\ UNCHANGED region
  \/ Slot!LastArm(region, k) /\ said' = TooBig(k) /\ UNCHANGED region

(* The kernel overwrites a key it has, and takes a new one if it has room. *)
UpdateKernel(k, v) ==
  IF entries[k] = Absent /\ room = 0
    THEN owed' = TooBig(k) /\ UNCHANGED <<entries, room>>
    ELSE /\ owed' = Ok(k, v)
         /\ entries' = [entries EXCEPT ![k] = v]
         /\ room' = IF entries[k] = Absent THEN room - 1 ELSE room

Update(k, v) ==
  /\ Calling
  /\ UpdateRegion(k, v)
  /\ UpdateKernel(k, v)
  /\ calls' = calls + 1
  /\ UNCHANGED <<translation, pair, start, who>>

Next ==
  \/ \E s \in Sides : SizeMap(s) \/ CheckMapBudget(s) \/ Begin(s)
  \/ RefusePair
  \/ \E e \in [Observed -> Values \cup {Absent}], r \in 0 .. maxEntries :
       Compare(e, r)
  \/ \E k \in Observed : Lookup(k) \/ \E v \in Values : Update(k, v)

Spec == Init /\ [][Next]_vars

-----------------------------------------------------------------------------
(* Types of what the translations decide and of the comparison.            *)
TypeOK ==
  /\ nslots \in [Sides -> 0 .. MAP_SLOTS_MAX]
  /\ stage \in [Sides -> {"new", "sized", "accepted", "refused"}]
  /\ pair \in {"none", "refused", "deleted", "run"}
  /\ calls \in 0 .. MAX_SITES /\ room \in 0 .. maxEntries
  /\ {said, owed} \subseteq Results(Keys)

(* No reachable state of the map is without a region: "a map state neither *)
(* program can represent is one where a real difference can hide".         *)
NoStateDeleted == pair # "deleted"

(* On its region each program is answered as the kernel would answer it,   *)
(* to its last call, whatever the other program's keys are.                *)
Agree == said = owed

(* With automatic sizing a program is refused only for a map too small, or *)
(* with more sites than the slots there can be.                            *)
AutoFits ==
  \A s \in Sides :
    option = AUTO /\ stage[s] = "refused" =>
      2 * sites[s] > Min({maxEntries, MAP_SLOTS_MAX})
=============================================================================
