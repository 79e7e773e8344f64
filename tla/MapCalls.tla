------------------------------ MODULE MapCalls ------------------------------
(***************************************************************************)
(* What goes into and comes out of the two map helpers.                    *)
(***************************************************************************)
EXTENDS Integers

CONSTANTS
  Keys, Values,
  Absent     \* in place of a value: the key is not in the map

AbsentAssumption == Absent \notin Values
ASSUME AbsentAssumption

(* What the program did last, and what it got: a call with a key, or an    *)
(* access through a value pointer x.                                       *)
None        == [did |-> "none"]
Ptr(k, x)   == [did |-> "lookup", key |-> k, to |-> x]
Null(k)     == [did |-> "miss", key |-> k]
Ok(k, v)    == [did |-> "update", key |-> k, val |-> v]
TooBig(k)   == [did |-> "e2big", key |-> k]
Read(x, v)  == [did |-> "load", to |-> x, val |-> v]
Wrote(x, v) == [did |-> "store", to |-> x, val |-> v]

(* The results possible with value pointers in X.                          *)
Results(X) ==
  {None} \cup [did : {"lookup"}, key : Keys, to : X]
         \cup [did : {"miss", "e2big"}, key : Keys]
         \cup [did : {"update"}, key : Keys, val : Values]
         \cup [did : {"load", "store"}, to : X, val : Values]
=============================================================================
