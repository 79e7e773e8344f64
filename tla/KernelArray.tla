---------------------------- MODULE KernelArray -----------------------------
(***************************************************************************)
(* A BPF array map as a program meets it: the abstract specification of    *)
(* the array model.  All entries exist from creation, so the key alone     *)
(* decides whether a call succeeds.  The kernel is not part of the         *)
(* repository; this is what emit_array_lookup says of it.                  *)
(***************************************************************************)
EXTENDS MapCalls

VARIABLES
  maxEntries,  \* max_entries; never changes
  entries,     \* the values of the entries considered, by key
  held,        \* the keys whose value pointer the program holds
  last         \* the last call or access, and its result

arrayVars == <<maxEntries, entries, held, last>>

Entry == DOMAIN entries

Init ==
  /\ maxEntries \in Nat \ {0}
  /\ \E n \in 1 .. maxEntries : entries \in [0 .. n - 1 -> Values]
  /\ held = {}
  /\ last = None

Lookup(k) ==
  /\ k \in Entry
  /\ held' = held \cup {k}
  /\ last' = Ptr(k, k)
  /\ UNCHANGED <<maxEntries, entries>>

LookupOutside(k) ==
  /\ k >= maxEntries
  /\ last' = Null(k)
  /\ UNCHANGED <<maxEntries, entries, held>>

Update(k, v) ==
  /\ k \in Entry
  /\ entries' = [entries EXCEPT ![k] = v]
  /\ last' = Ok(k, v)
  /\ UNCHANGED <<maxEntries, held>>

Load(k) ==
  /\ k \in held
  /\ last' = Read(k, entries[k])
  /\ UNCHANGED <<maxEntries, entries, held>>

Store(k, v) ==
  /\ k \in held
  /\ entries' = [entries EXCEPT ![k] = v]
  /\ last' = Wrote(k, v)
  /\ UNCHANGED <<maxEntries, held>>

Next ==
  \/ \E k \in Keys :
       Lookup(k) \/ LookupOutside(k) \/ \E v \in Values : Update(k, v)
  \/ \E k \in held : Load(k) \/ \E v \in Values : Store(k, v)

Spec == Init /\ [][Next]_arrayVars
=============================================================================
