----------------------------- MODULE KernelMap ------------------------------
(***************************************************************************)
(* A BPF hash map as a program meets it through the two helpers and the    *)
(* value pointers they return: the abstract specification of the map       *)
(* model.  The kernel is not part of the repository; this is what the      *)
(* lowering takes it to do (BPF_ANY only, no deletes, no eviction, one     *)
(* element per key for the whole run).                                     *)
(*                                                                         *)
(* How full the map is on entry is unknown to the program, so all that is  *)
(* kept of its capacity is room: how many keys it will still accept.       *)
(***************************************************************************)
EXTENDS MapCalls

VARIABLES
  entries,  \* the value of each key, or Absent
  room,     \* the number of further keys the map has room for
  held,     \* the keys whose value pointer the program holds
  last      \* the last call or access, and its result

kernelVars == <<entries, room, held, last>>

Init ==
  /\ entries \in [Keys -> Values \cup {Absent}]
  /\ room \in Nat
  /\ held = {}
  /\ last = None

LookupHit(k) ==
  /\ entries[k] # Absent
  /\ held' = held \cup {k}
  /\ last' = Ptr(k, k)
  /\ UNCHANGED <<entries, room>>

LookupMiss(k) ==
  /\ entries[k] = Absent
  /\ last' = Null(k)
  /\ UNCHANGED <<entries, room, held>>

Overwrite(k, v) ==
  /\ entries[k] # Absent
  /\ entries' = [entries EXCEPT ![k] = v]
  /\ last' = Ok(k, v)
  /\ UNCHANGED <<room, held>>

Insert(k, v) ==
  /\ entries[k] = Absent
  /\ room > 0
  /\ entries' = [entries EXCEPT ![k] = v]
  /\ room' = room - 1
  /\ last' = Ok(k, v)
  /\ UNCHANGED held

NoRoom(k) ==
  /\ entries[k] = Absent
  /\ room = 0
  /\ last' = TooBig(k)
  /\ UNCHANGED <<entries, room, held>>

(* Accesses through a value pointer reach the key's own entry.             *)
Load(k) ==
  /\ k \in held
  /\ last' = Read(k, entries[k])
  /\ UNCHANGED <<entries, room, held>>

Store(k, v) ==
  /\ k \in held
  /\ entries' = [entries EXCEPT ![k] = v]
  /\ last' = Wrote(k, v)
  /\ UNCHANGED <<room, held>>

Next ==
  \E k \in Keys :
    \/ LookupHit(k) \/ LookupMiss(k) \/ NoRoom(k) \/ Load(k)
    \/ \E v \in Values : Overwrite(k, v) \/ Insert(k, v) \/ Store(k, v)

Spec == Init /\ [][Next]_kernelVars
=============================================================================
