------------------------------ MODULE ArrayMap ------------------------------
(***************************************************************************)
(* The lowered helper calls of one program on one array map.  The region   *)
(* is indexed by the key, so the presence bytes are never read and are not *)
(* kept here.                                                              *)
(*                                                                         *)
(* A key is either a constant the translator knows or computed at run      *)
(* time; check_array_key refuses a program whose keys could share an       *)
(* entry, so a refused call is a call no action makes.  That a known       *)
(* constant is the run-time key is the business of module Provenance.      *)
(***************************************************************************)
EXTENDS MapCalls

CONSTANTS
  MAX_ENTRIES,   \* bound: max_entries of the map
  MAX_BUDGET     \* bound: --map-slots

ArrayAssumption == Keys \subseteq Nat /\ MAX_ENTRIES \in Nat /\ MAX_BUDGET \in Nat
ASSUME ArrayAssumption

VARIABLES
  maxEntries, slotsBudget,  \* of the map; neither ever changes
  val,                      \* the values of the region, by slot
  held,                     \* the slots whose value pointer the program holds
  last                      \* the last call or access, and its result

vars == <<maxEntries, slotsBudget, val, held, last>>

Nslots_Budget == slotsBudget                                     \* mutant
nslots ==
  IF maxEntries = 0 \/ maxEntries > slotsBudget THEN slotsBudget ELSE maxEntries

Init ==
  /\ maxEntries \in 1 .. MAX_ENTRIES
  /\ slotsBudget \in 1 .. MAX_BUDGET
  /\ val \in [0 .. nslots - 1 -> Values]
  /\ held = {}
  /\ last = None

(* check_array_key: a constant key must be a slot, a computed one is       *)
(* accepted only if every entry has a slot.                                *)
ConstantOK_OffByOne(k) == k <= nslots                            \* mutant
ConstantOK(k)          == k < nslots
ComputedOK             == maxEntries <= nslots

slot(k) == k % nslots

Hit(k, i) ==
  /\ held' = held \cup {i}
  /\ last' = Ptr(k, i)
  /\ UNCHANGED <<maxEntries, slotsBudget, val>>

Miss(k) ==
  /\ last' = Null(k)
  /\ UNCHANGED <<maxEntries, slotsBudget, val, held>>

(* The slot is a literal and its test is against itself.                   *)
LookupConstant(k) == ConstantOK(k) /\ Hit(k, slot(k))

(* The test is on the slot, which is taken to be the key.                  *)
LookupComputed(k) ==
  /\ ComputedOK
  /\ IF slot(k) < maxEntries THEN Hit(k, slot(k)) ELSE Miss(k)

(* Only with a constant key; cannot fail.                                  *)
UpdateConstant(k, v) ==
  /\ ConstantOK(k)
  /\ val' = [val EXCEPT ![slot(k)] = v]
  /\ last' = Ok(k, v)
  /\ UNCHANGED <<maxEntries, slotsBudget, held>>

LoadValue(i) ==
  /\ i \in held
  /\ last' = Read(i, val[i])
  /\ UNCHANGED <<maxEntries, slotsBudget, val, held>>

StoreValue(i, v) ==
  /\ i \in held
  /\ val' = [val EXCEPT ![i] = v]
  /\ last' = Wrote(i, v)
  /\ UNCHANGED <<maxEntries, slotsBudget, held>>

Constant ==
  \E k \in Keys :
    LookupConstant(k) \/ \E v \in Values : UpdateConstant(k, v)
Access ==
  \E i \in held : LoadValue(i) \/ \E v \in Values : StoreValue(i, v)

(* A program that bounds its computed keys, and any program.               *)
NextBounded ==
  Constant \/ Access \/ \E k \in Keys : k < maxEntries /\ LookupComputed(k)
Next == Constant \/ Access \/ \E k \in Keys : LookupComputed(k)

BoundedSpec == Init /\ [][NextBounded]_vars
Spec        == Init /\ [][Next]_vars

-----------------------------------------------------------------------------
(* A value pointer is one of a value of the region, and of an entry the    *)
(* map really has.                                                         *)
TypeOK ==
  /\ val \in [0 .. nslots - 1 -> Values]
  /\ held \subseteq 0 .. maxEntries - 1
  /\ last \in Results(0 .. nslots - 1)

(* Every call reaches the entry of its own key, and fails exactly for keys *)
(* that are out of range: "key < max_entries decides it exactly".  It      *)
(* holds of programs that keep their computed keys in range; for the       *)
(* others see HitInRange.                                                  *)
Kernel     == INSTANCE KernelArray WITH entries <- val
Implements == Kernel!Spec

(* A lookup that returns a pointer was of a key in range; checked of any   *)
(* program.  The code breaks it: the slot is the key modulo max_entries,   *)
(* so the test on it never fails, and an out-of-range key is answered with *)
(* another key's entry instead of NULL.                                    *)
HitInRange == last.did = "lookup" => last.key < maxEntries
=============================================================================
