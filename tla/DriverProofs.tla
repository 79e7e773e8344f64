---------------------------- MODULE DriverProofs ----------------------------
(***************************************************************************)
(* Proofs about Driver, for every object and every set of options:         *)
(*                                                                         *)
(*   NeverUnexplained  exit code and diagnostics agree;                    *)
(*   CountsRight       both passes go through the same states;             *)
(*   WalkRight         the types found are the records written;            *)
(*   SizesRight        the sizes of the maps are those of their types;     *)
(*   BuildFaithful     a file that is left is the whole translation.       *)
(*                                                                         *)
(* Induction over data goes through a set of naturals: the least number at *)
(* which a claim fails (Smallest, Induct).                                 *)
(***************************************************************************)
EXTENDS Driver, FiniteSetTheorems, SequenceTheorems, WellFoundedInduction, TLAPS

(* A pass over the object is under way.                                    *)
Passing == {"read", "walk", "discover", "pick", "relocs", "translate", "emit"}

(* The pass that translates has printed something exactly when it has met  *)
(* an error; the probe has printed nothing as that pass.  The exit code    *)
(* says the same once it is there.                                         *)
DriverInv ==
  /\ pc \in {"options", "exited", "made"} \cup Passing
  /\ said \subseteq {"main", "probe", "real"}
  /\ pc = "options" => said = {} /\ error = FALSE
  /\ pc \in Passing =>
       /\ pass \in {"probe", "real"} /\ "main" \notin said /\ error \in BOOLEAN
       /\ pass = "probe" => "real" \notin said
       /\ pass = "real"  => (error <=> "real" \in said)
  /\ pc \in {"exited", "made"} => (exit = 0 <=> said \ {"probe"} = {})

LEMMA DriverInit == Init => DriverInv
BY DEF Init, DriverInv, Passing

(* Giving up, in either pass.                                              *)
LEMMA GivesUp ==
  ASSUME DriverInv, pc \in Passing, GiveUp
  PROVE  DriverInv'
<1>1. said' = said \cup {pass} /\ EndPass(1, Counted)
  BY DEF GiveUp
<1>2. CASE pass = "probe"
  <2>1. /\ pc' = "read" /\ pass' = "real" /\ error' = FALSE
    BY <1>1, <1>2 DEF EndPass
  <2> QED
    BY <1>1, <1>2, <2>1 DEF DriverInv, Passing
<1>3. CASE pass = "real"
  <2>1. pc' = "exited" /\ exit' = 1
    BY <1>1, <1>3 DEF EndPass, Exit
  <2> QED
    BY <1>1, <1>3, <2>1 DEF DriverInv, Passing
<1> QED
  BY <1>2, <1>3 DEF DriverInv

LEMMA Emits ==
  ASSUME DriverInv, Emit
  PROVE  DriverInv'
<1>1. pc = "emit" /\ said' = said /\ EndPass(0, Counted)
  BY DEF Emit
<1>2. CASE pass = "probe"
  <2>1. /\ pc' = "read" /\ pass' = "real" /\ error' = FALSE
    BY <1>1, <1>2 DEF EndPass
  <2> QED
    BY <1>1, <1>2, <2>1 DEF DriverInv, Passing
<1>3. CASE pass = "real"
  <2>1. pc' = "exited" /\ exit' = IF error THEN 2 ELSE 0
    BY <1>1, <1>3 DEF EndPass, Exit
  <2> QED
    BY <1>1, <1>3, <2>1 DEF DriverInv, Passing
<1> QED
  BY <1>1, <1>2, <1>3 DEF DriverInv, Passing

(* Going on with the pass, with or without a report.                       *)
LEMMA GoesOn ==
  ASSUME DriverInv, pc \in Passing, pc' \in Passing, pass' = pass,
         Report \/ UNCHANGED <<error, said>>
  PROVE  DriverInv'
<1>1. /\ pass \in {"probe", "real"} /\ "main" \notin said /\ error \in BOOLEAN
      /\ said \subseteq {"main", "probe", "real"}
      /\ pass = "probe" => "real" \notin said
      /\ pass = "real"  => (error <=> "real" \in said)
  BY DEF DriverInv
<1>2. pc' \notin {"options", "exited", "made"}
  BY DEF Passing
<1>3. CASE Report
  <2>1. error' = TRUE /\ said' = said \cup ({"real"} \cap {pass})
    BY <1>3 DEF Report
  <2>2. /\ "main" \notin said' /\ said' \subseteq {"main", "probe", "real"}
        /\ pass = "probe" => "real" \notin said'
        /\ pass = "real"  => "real" \in said'
    BY <1>1, <2>1
  <2> QED
    BY <1>1, <1>2, <2>1, <2>2 DEF DriverInv
<1>4. CASE UNCHANGED <<error, said>>
  BY <1>1, <1>2, <1>4 DEF DriverInv
<1> QED
  BY <1>3, <1>4

LEMMA DriverStep == DriverInv /\ [Next]_vars => DriverInv'
<1> SUFFICES ASSUME DriverInv, [Next]_vars PROVE DriverInv'
  OBVIOUS
<1>1. CASE BadOption
  BY <1>1 DEF BadOption, Exit, DriverInv, Passing
<1>2. CASE Start
  BY <1>2 DEF Start, translator, DriverInv, Passing
<1>3. CASE ReadElf
  <2>1. CASE obj.elf
    BY <1>3, <2>1, GoesOn DEF ReadElf, outside, translator, Passing
  <2>2. CASE ~obj.elf
    BY <1>3, <2>2, GivesUp DEF ReadElf, Passing
  <2> QED
    BY <2>1, <2>2
<1>4. CASE WalkTypes
  BY <1>4, GoesOn DEF WalkTypes, outside, Passing
<1>5. CASE EndWalk
  BY <1>5, GoesOn DEF EndWalk, outside, Passing
<1>6. CASE Declare
  <2>1. pc = "discover" /\ pc' = pc /\ pass' = pass
    BY <1>6 DEF Declare, outside
  <2>2. Report \/ UNCHANGED <<error, said>>
    BY <1>6 DEF Declare
  <2> QED
    BY <2>1, <2>2, GoesOn DEF Passing
<1>7. CASE SortMaps
  BY <1>7, GoesOn DEF SortMaps, outside, Passing
<1>8. CASE PickSection
  <2>1. CASE GiveUp
    BY <1>8, <2>1, GivesUp DEF PickSection, Passing
  <2>2. CASE ~GiveUp
    <3>1. /\ pc = "pick" /\ pc' = "relocs" /\ pass' = pass
          /\ UNCHANGED <<error, said>>
      BY <1>8, <2>2 DEF PickSection, outside
    <3> QED
      BY <3>1, GoesOn DEF Passing
  <2> QED
    BY <2>1, <2>2
<1>9. CASE Relocate
  BY <1>9, GoesOn DEF Relocate, outside, Passing
<1>10. CASE Call
  <2>1. pc = "translate" /\ pc' = pc /\ pass' = pass
    BY <1>10 DEF Call, outside
  <2>2. Report \/ UNCHANGED <<error, said>>
    BY <1>10 DEF Call
  <2> QED
    BY <2>1, <2>2, GoesOn DEF Passing
<1>11. CASE CheckBudget
  <2>1. pc = "translate" /\ pc' = "emit" /\ pass' = pass
    BY <1>11 DEF CheckBudget, outside
  <2>2. Report \/ UNCHANGED <<error, said>>
    BY <1>11 DEF CheckBudget
  <2> QED
    BY <2>1, <2>2, GoesOn DEF Passing
<1>12. CASE Emit
  BY <1>12, Emits
<1>13. CASE Made
  BY <1>13 DEF Made, outside, translator, DriverInv, Passing
<1>14. CASE UNCHANGED vars
  BY <1>14 DEF vars, DriverInv, Passing
<1> QED
  BY <1>1, <1>2, <1>3, <1>4, <1>5, <1>6, <1>7, <1>8, <1>9, <1>10, <1>11, <1>12,
     <1>13, <1>14 DEF Next

(* A failed or refused build never goes unexplained, and a good one prints *)
(* nothing: whatever fails in whichever pass, what the user sees and the   *)
(* exit code agree (Translator.run, error, main).                          *)
THEOREM NeverUnexplained == Spec => []Explained
<1>1. DriverInv => Explained
  BY DEF DriverInv, Explained
<1> QED
  BY <1>1, DriverInit, DriverStep, PTL DEF Spec
-----------------------------------------------------------------------------
(* The two passes go through the same states, but for the slots, the       *)
(* errors and what is printed.  x is such a state of a pass; Turn is the   *)
(* next one, unless the pass Stops.                                        *)
At(where, left, offset, known, found, named, made) ==
  [pc |-> where, todo |-> left, pos |-> offset, types |-> known,
   maps |-> found, index |-> named, calls |-> made]
Begun   == At("read", <<>>, 0, <<>>, <<>>, <<>>, <<>>)
Current == At(pc, todo, pos, types, maps, index, calls)

Coded == \E i \in DOMAIN obj.secs : IsCode(obj.secs[i])
Stops(x) ==
  \/ x.pc = "read" /\ ~obj.elf
  \/ x.pc = "pick" /\ ~Coded
  \/ x.pc = "pick" /\ Section.kind = "unknown" /\ opt.ctx = "none"
  \/ x.pc = "emit"

More(x) ==
  /\ obj.btf /\ x.pos + 3 <= Len(obj.blob)
  /\ x.pos + 3 + Info!extra(obj.blob[x.pos + 2]) <= Len(obj.blob)
Walked(x) ==
  LET w == obj.blob[x.pos + 2]
      e == x.pos + 3 + Info!extra(w)
  IN  At("walk", x.todo, e,
         Append(x.types, [kind |-> Info!kind(w), val |-> obj.blob[x.pos + 3],
                          data |-> SubSeq(obj.blob, x.pos + 4, e)]),
         x.maps, x.index, x.calls)

Added(x) ==
  LET d == Head(x.todo)
      n == Info!key_size(x.types, d)
  IN  IF n = 0 \/ d.name \in {m.name : m \in ToSet(x.maps)}
           \/ Len(x.maps) >= MAX_MAPS
        THEN x.maps ELSE Append(x.maps, [name |-> d.name, key_size |-> n])
Indexed(x) ==
  [k \in {k \in DOMAIN Section.code :
            Section.code[k] \in {m.name : m \in ToSet(x.maps)}} |->
     CHOOSE i \in DOMAIN x.maps : x.maps[i].name = Section.code[k]]
Called(x) ==
  LET k == Len(Section.code) - Len(x.todo) + 1
  IN  IF k \in DOMAIN x.index THEN Append(x.calls, x.index[k]) ELSE x.calls

Turn(x) ==
  CASE x.pc = "read" ->
         At("walk", x.todo, x.pos, x.types, x.maps, x.index, x.calls)
    [] x.pc = "walk" /\ More(x) -> Walked(x)
    [] x.pc = "walk" /\ ~More(x) ->
         At("discover", IF obj.btf THEN obj.decls ELSE x.todo, x.pos, x.types,
            x.maps, x.index, x.calls)
    [] x.pc = "discover" /\ x.todo # <<>> ->
         At("discover", Tail(x.todo), x.pos, x.types, Added(x), x.index, x.calls)
    [] x.pc = "discover" /\ x.todo = <<>> ->
         At("pick", x.todo, x.pos, x.types,
            ByName(ToSet(x.maps)),
            x.index, x.calls)
    [] x.pc = "pick" ->
         At("relocs", Section.code, x.pos, x.types, x.maps, x.index, x.calls)
    [] x.pc = "relocs" ->
         At("translate", Section.code, x.pos, x.types, x.maps, Indexed(x),
            x.calls)
    [] x.pc = "translate" /\ x.todo # <<>> ->
         At("translate", Tail(x.todo), x.pos, x.types, x.maps, x.index, Called(x))
    [] x.pc = "translate" /\ x.todo = <<>> ->
         At("emit", x.todo, x.pos, x.types, x.maps, x.index, x.calls)
    [] OTHER -> x

(* What a step of a pass does: it goes on, or the pass is over.            *)
Goes == /\ ~Stops(Current) /\ Current' = Turn(Current)
        /\ pc' \in Passing /\ UNCHANGED <<obj, opt, pass, hint>>
Done == /\ Stops(Current) /\ UNCHANGED <<obj, opt>>
         /\ \E code \in {0, 1} : EndPass(code, Counted)

LEMMA CurrentIs ==
  /\ Current.pc = pc /\ Current.todo = todo /\ Current.pos = pos
  /\ Current.types = types /\ Current.maps = maps /\ Current.index = index
  /\ Current.calls = calls
BY DEF Current, At

(* A step of a pass that goes on; one that ends it.                        *)
LEMMA Step ==
  ASSUME pc \in Passing, Next
  PROVE  Goes \/ Done
<1>1. ASSUME ~Stops(Current), Current' = Turn(Current), pc' \in Passing,
             UNCHANGED outside
      PROVE  Goes
  BY <1>1 DEF Goes, outside
<1>2. ASSUME GiveUp, Stops(Current)
      PROVE  Done
  BY <1>2 DEF GiveUp, Done
<1>3. CASE ReadElf
  <2>1. CASE obj.elf
    <3>1. pc = "read" /\ pc' = "walk" /\ UNCHANGED <<outside, translator>>
      BY <1>3, <2>1 DEF ReadElf
    <3>2. Current' = Turn(Current)
      BY <3>1, CurrentIs DEF Turn, Current, translator, walked
    <3>3. ~Stops(Current)
      BY <3>1, <2>1, CurrentIs DEF Stops
    <3> QED
      BY <1>1, <3>1, <3>2, <3>3 DEF Passing
  <2>2. CASE ~obj.elf
    <3>1. pc = "read" /\ GiveUp
      BY <1>3, <2>2 DEF ReadElf
    <3> QED
      BY <1>2, <2>2, <3>1, CurrentIs DEF Stops
  <2> QED
    BY <2>1, <2>2
<1>4. CASE WalkTypes
  <2>1. /\ pc = "walk" /\ obj.btf /\ Info!Walk
        /\ UNCHANGED <<outside, pc, todo, maps, slots, index, calls>>
    BY <1>4 DEF WalkTypes
  <2>2. More(Current)
    BY <2>1, CurrentIs DEF More, Info!Walk, Info!Whole
  <2>3. Current' = Walked(Current)
    BY <2>1, CurrentIs DEF Walked, Info!Walk, Current
  <2>4. Turn(Current) = Walked(Current) /\ ~Stops(Current)
    BY <2>1, <2>2, CurrentIs DEF Turn, Stops
  <2> QED
    BY <1>1, <2>1, <2>3, <2>4 DEF Passing
<1>5. CASE EndWalk
  <2>1. /\ pc = "walk" /\ ~(obj.btf /\ Info!Whole) /\ pc' = "discover"
        /\ todo' = IF obj.btf THEN obj.decls ELSE todo
        /\ UNCHANGED <<outside, walked, maps, slots, index, calls>>
    BY <1>5 DEF EndWalk
  <2>2. ~More(Current)
    BY <2>1, CurrentIs DEF More, Info!Whole
  <2>3. /\ Current' = At("discover", IF obj.btf THEN obj.decls ELSE todo, pos,
                         types, maps, index, calls)
    BY <2>1 DEF Current, walked
  <2>4. Turn(Current) = Current' /\ ~Stops(Current)
    BY <2>1, <2>2, <2>3, CurrentIs DEF Turn, Stops
  <2> QED
    BY <1>1, <2>1, <2>4 DEF Passing
<1>6. CASE Declare
  <2>1. /\ pc = "discover" /\ pc' = pc /\ todo # <<>> /\ todo' = Tail(todo)
        /\ UNCHANGED <<outside, walked, slots, index, calls>>
    BY <1>6 DEF Declare
  <2>2. maps' = Added(Current)
    <3> DEFINE d == Head(todo)
               n == Info!key_size(types, d)
    <3>1. IF n = 0 \/ d.name \in Found \/ Len(maps) >= MAX_MAPS
            THEN maps' = maps
            ELSE maps' = Append(maps, [name |-> d.name, key_size |-> n])
      BY <1>6 DEF Declare
    <3> HIDE DEF n
    <3> QED
      BY <3>1, CurrentIs DEF Added, Found, n
  <2>3. Current' = At("discover", Tail(todo), pos, types, Added(Current), index,
                      calls)
    BY <2>1, <2>2 DEF Current, walked
  <2>4. Turn(Current) = Current' /\ ~Stops(Current)
    BY <2>1, <2>3, CurrentIs DEF Turn, Stops
  <2> QED
    BY <1>1, <2>1, <2>4 DEF Passing
<1>7. CASE SortMaps
  <2>1. /\ pc = "discover" /\ todo = <<>> /\ pc' = "pick"
        /\ maps' = ByName(ToSet(maps))
        /\ UNCHANGED <<outside, todo, walked, index, calls>>
    BY <1>7 DEF SortMaps
  <2>2. Current' = At("pick", todo, pos, types,
                      ByName(ToSet(maps)),
                      index, calls)
    BY <2>1 DEF Current, walked
  <2>3. Turn(Current) = Current' /\ ~Stops(Current)
    BY <2>1, <2>2, CurrentIs DEF Turn, Stops
  <2> QED
    BY <1>1, <2>1, <2>3 DEF Passing
<1>8. CASE PickSection
  <2>1. CASE GiveUp /\ (~Coded \/ (Section.kind = "unknown" /\ opt.ctx = "none"))
    BY <1>2, <1>8, <2>1, CurrentIs DEF PickSection, Stops
  <2>2. CASE Coded /\ ~(Section.kind = "unknown" /\ opt.ctx = "none")
    <3>1. /\ pc = "pick" /\ pc' = "relocs" /\ todo' = Section.code
          /\ UNCHANGED <<outside, walked, maps, slots, index, calls>>
      BY <1>8, <2>2 DEF PickSection, Coded
    <3>2. Current' = At("relocs", Section.code, pos, types, maps, index, calls)
      BY <3>1 DEF Current, walked
    <3>3. Turn(Current) = Current' /\ ~Stops(Current)
      BY <2>2, <3>1, <3>2, CurrentIs DEF Turn, Stops
    <3> QED
      BY <1>1, <3>1, <3>3 DEF Passing
  <2> QED
    BY <1>8, <2>1, <2>2 DEF PickSection, Coded
<1>9. CASE Relocate
  <2>1. /\ pc = "relocs" /\ pc' = "translate" /\ todo' = Section.code
        /\ index' = Indexed(Current)
        /\ UNCHANGED <<outside, walked, maps, slots, calls>>
    BY <1>9, CurrentIs DEF Relocate, Indexed, Found
  <2>2. Current' = At("translate", Section.code, pos, types, maps,
                      Indexed(Current), calls)
    BY <2>1 DEF Current, walked
  <2>3. Turn(Current) = Current' /\ ~Stops(Current)
    BY <2>1, <2>2, CurrentIs DEF Turn, Stops
  <2> QED
    BY <1>1, <2>1, <2>3 DEF Passing
<1>10. CASE Call
  <2>1. /\ pc = "translate" /\ pc' = pc /\ todo # <<>> /\ todo' = Tail(todo)
        /\ calls' = Called(Current)
        /\ UNCHANGED <<outside, walked, maps, slots, index>>
    BY <1>10, CurrentIs DEF Call, Called
  <2>2. Current' = At("translate", Tail(todo), pos, types, maps, index,
                      Called(Current))
    BY <2>1 DEF Current, walked
  <2>3. Turn(Current) = Current' /\ ~Stops(Current)
    BY <2>1, <2>2, CurrentIs DEF Turn, Stops
  <2> QED
    BY <1>1, <2>1, <2>3 DEF Passing
<1>11. CASE CheckBudget
  <2>1. /\ pc = "translate" /\ todo = <<>> /\ pc' = "emit"
        /\ UNCHANGED <<outside, todo, walked, maps, slots, index, calls>>
    BY <1>11 DEF CheckBudget
  <2>2. Current' = At("emit", todo, pos, types, maps, index, calls)
    BY <2>1 DEF Current, walked
  <2>3. Turn(Current) = Current' /\ ~Stops(Current)
    BY <2>1, <2>2, CurrentIs DEF Turn, Stops
  <2> QED
    BY <1>1, <2>1, <2>3 DEF Passing
<1>12. CASE Emit
  BY <1>12, CurrentIs DEF Emit, Done, Stops
<1>13. ~BadOption /\ ~Start /\ ~Made
  BY DEF BadOption, Start, Made, Passing
<1> QED
  BY <1>3, <1>4, <1>5, <1>6, <1>7, <1>8, <1>9, <1>10, <1>11, <1>12, <1>13
     DEF Next
(* ------------------------- the probe's counts -------------------------- *)
CountedIn(x) ==
  [m \in MapNames |->
     Cardinality({k \in DOMAIN x.calls : x.maps[x.calls[k]].name = m})]

(* The states T of a pass, from its start to its n-th step.                *)
Trace(n, T) ==
  /\ T[0] = Begun
  /\ \A i \in 0 .. n - 1 : ~Stops(T[i]) /\ T[i + 1] = Turn(T[i])

(* The probe is at the end of its trace; the pass that translates is       *)
(* somewhere on the trace of the whole probe, whose counts it was given.   *)
Repeats(n, T) ==
  /\ Trace(n, T)
  /\ IF pass = "probe" THEN Current = T[n]
     ELSE /\ Stops(T[n]) /\ hint = CountedIn(T[n])
          /\ \E i \in 0 .. n : Current = T[i]

TraceInv ==
  /\ pc \in {"options", "exited", "made"} \cup Passing
  /\ pc = "options" => /\ todo = <<>> /\ pos = 0
                       /\ types = <<>> /\ maps = <<>> /\ index = <<>>
                       /\ calls = <<>>
  /\ pc \in Passing => pass \in {"probe", "real"}
  /\ pc \in Passing /\ opt.slots = AUTO => \E n \in Nat : \E T : Repeats(n, T)

LEMMA TurnStill ==
  ASSUME UNCHANGED <<obj, opt>>
  PROVE  \A x : Turn(x)' = Turn(x) /\ (Stops(x)' <=> Stops(x))
<1>1. Section' = Section /\ (Coded' <=> Coded)
  BY DEF Section, Coded, IsCode
<1>2. \A x : (More(x)' <=> More(x)) /\ Walked(x)' = Walked(x)
  BY DEF More, Walked
<1>3. \A x : /\ Added(x)' = Added(x) /\ Indexed(x)' = Indexed(x)
             /\ Called(x)' = Called(x)
  BY <1>1 DEF Added, Indexed, Called
<1> QED
  BY <1>1, <1>2, <1>3 DEF Turn, Stops

LEMMA TraceStill ==
  ASSUME UNCHANGED <<obj, opt>>, NEW n \in Nat, NEW T, Trace(n, T)
  PROVE  Trace(n, T)'
BY TurnStill DEF Trace, Begun

LEMMA CountedIs == Counted = CountedIn(Current)
BY CurrentIs DEF Counted, CountedIn, Sites
LEMMA Repeating ==
  ASSUME TraceInv, pc \in Passing, opt.slots = AUTO, Next,
         pc' \in Passing
  PROVE  pass' \in {"probe", "real"} /\ \E n \in Nat : \E T : Repeats(n, T)'
<1>1. PICK n \in Nat : \E T : Repeats(n, T)
  BY DEF TraceInv
<1>2. PICK T : Repeats(n, T)
  BY <1>1
<1>3. pass \in {"probe", "real"} /\ Trace(n, T)
  BY <1>2 DEF TraceInv, Repeats
<1>4. CASE Goes /\ pass = "probe"
  <2> DEFINE U == [i \in 0 .. n + 1 |-> IF i <= n THEN T[i] ELSE Turn(T[n])]
  <2>1. /\ n + 1 \in Nat /\ U[0] = T[0] /\ U[n + 1] = Turn(T[n])
        /\ \A i \in 0 .. n : U[i] = T[i]
    OBVIOUS
  <2>2. Current = T[n] /\ ~Stops(T[n])
    BY <1>2, <1>4 DEF Repeats, Goes
  <2> HIDE DEF U
  <2>3. Trace(n + 1, U)
    <3>1. ASSUME NEW i \in 0 .. n PROVE ~Stops(U[i]) /\ U[i + 1] = Turn(U[i])
      BY <1>3, <2>1, <2>2 DEF Trace
    <3>2. U[0] = Begun
      BY <1>3, <2>1 DEF Trace
    <3> QED
      BY <3>1, <3>2 DEF Trace
  <2>4. PICK V : V = U
    OBVIOUS
  <2>5. Trace(n + 1, V)'
    BY <1>4, <2>1, <2>3, <2>4, TraceStill DEF Goes
  <2>6. Current' = V[n + 1] /\ pass' = "probe"
    BY <1>4, <2>1, <2>2, <2>4 DEF Goes
  <2>7. Repeats(n + 1, V)'
    BY <2>5, <2>6 DEF Repeats
  <2> QED
    BY <2>1, <2>6, <2>7
<1>5. CASE Goes /\ pass = "real"
  <2>1. Stops(T[n]) /\ hint = CountedIn(T[n])
    BY <1>2, <1>5 DEF Repeats
  <2>2. PICK i \in 0 .. n : Current = T[i]
    BY <1>2, <1>5 DEF Repeats
  <2>3. i + 1 \in 0 .. n /\ T[i + 1] = Turn(T[i])
    BY <1>3, <1>5, <2>1, <2>2 DEF Goes, Trace
  <2>4. Current' = T[i + 1] /\ UNCHANGED <<obj, opt, pass, hint>>
    BY <1>5, <2>2, <2>3 DEF Goes
  <2>5. Trace(n, T)' /\ (Stops(T[n])' <=> Stops(T[n]))
    BY <1>3, <2>4, TraceStill, TurnStill
  <2>6. CountedIn(T[n])' = CountedIn(T[n])
    BY DEF CountedIn
  <2>7. Repeats(n, T)'
    BY <1>5, <2>1, <2>3, <2>4, <2>5, <2>6 DEF Repeats
  <2> QED
    BY <1>5, <2>4, <2>7
<1>6. CASE Done /\ pass = "probe"
  <2>1. /\ Stops(Current) /\ UNCHANGED <<obj, opt>> /\ pass' = "real"
        /\ hint' = Counted /\ pc' = "read" /\ todo' = <<>> /\ pos' = 0
        /\ types' = <<>> /\ maps' = <<>> /\ index' = <<>> /\ calls' = <<>>
    BY <1>6 DEF Done, EndPass
  <2>2. Current' = Begun
    BY <2>1 DEF Current, Begun
  <2>3. Current = T[n]
    BY <1>2, <1>6 DEF Repeats
  <2>4. Trace(n, T)' /\ Stops(T[n])'
    BY <1>3, <2>1, <2>3, TraceStill, TurnStill
  <2>5. hint' = CountedIn(T[n])'
    BY <2>1, <2>3, CountedIs DEF CountedIn
  <2>6. Current' = T[0]
    BY <1>3, <2>2 DEF Trace
  <2>7. Repeats(n, T)'
    BY <2>1, <2>4, <2>5, <2>6 DEF Repeats
  <2> QED
    BY <2>1, <2>7
<1>7. CASE Done /\ pass = "real"
  <2>1. pc' = "exited"
    BY <1>7 DEF Done, EndPass, Exit
  <2> QED
    BY <2>1 DEF Passing
<1> QED
  BY <1>3, <1>4, <1>5, <1>6, <1>7, Step

LEMMA TraceStep == TraceInv /\ [Next]_vars => TraceInv'
<1> SUFFICES ASSUME TraceInv, [Next]_vars PROVE TraceInv'
  OBVIOUS
<1>1. CASE UNCHANGED vars
  <2>1. /\ UNCHANGED <<obj, opt, pc, pass, todo, pos, types, maps, index, calls,
                       hint>>
    BY <1>1 DEF vars
  <2>2. Current' = Current
    BY <2>1 DEF Current
  <2>3. \A n \in Nat : \A T : Repeats(n, T) => Repeats(n, T)'
    BY <2>1, <2>2, TraceStill, TurnStill DEF Repeats, CountedIn
  <2> QED
    BY <2>1, <2>3 DEF TraceInv
<1>2. CASE BadOption \/ Made
  BY <1>2 DEF TraceInv, BadOption, Made, Exit, Passing
<1>3. CASE Start
  <2>1. /\ pc = "options" /\ pc' = "read" /\ UNCHANGED <<obj, opt, hint, translator>>
        /\ pass' = IF opt.slots = AUTO THEN "probe" ELSE "real"
    BY <1>3 DEF Start
  <2>2. Current' = Begun
    BY <2>1 DEF TraceInv, Current, Begun, translator, walked
  <2>3. PICK T : T = [i \in {0} |-> Begun]
    OBVIOUS
  <2>4. Trace(0, T)'
    BY <2>3 DEF Trace, Begun
  <2>5. opt.slots = AUTO => Repeats(0, T)'
    BY <2>1, <2>2, <2>3, <2>4 DEF Repeats
  <2> QED
    BY <2>1, <2>5 DEF TraceInv, Passing
<1>4. CASE pc \in Passing /\ Next
  <2>1. UNCHANGED <<obj, opt>> /\ pc' \in {"exited"} \cup Passing
    BY <1>4, Step DEF Goes, Done, EndPass, Exit, Passing, TraceInv
  <2>2. pc' \in Passing => pass' \in {"probe", "real"}
    BY <1>4, Step DEF Goes, Done, EndPass, TraceInv
  <2> QED
    BY <1>4, <2>1, <2>2, Repeating DEF TraceInv, Passing
<1> QED
  BY <1>1, <1>2, <1>3, <1>4
     DEF Next, ReadElf, WalkTypes, EndWalk, Declare, SortMaps, PickSection,
         Relocate, Call, CheckBudget, Emit, Passing

(* The pass that translates uses every map exactly as often as the probe   *)
(* counted, whatever the probe failed at: it goes through the same states, *)
(* as neither slots nor errors decide where it goes (Translator.run,       *)
(* probe_map_sites).                                                       *)
THEOREM CountsRight == Spec => []CountsAgree
<1>1. Init => TraceInv
  BY DEF Init, TraceInv, Passing
<1>2. ASSUME TraceInv, pc = "emit", pass = "real", opt.slots = AUTO
      PROVE  hint = Counted
  <2>1. PICK n \in Nat : \E T : Repeats(n, T)
    BY <1>2 DEF TraceInv, Passing
  <2>2. PICK T : Repeats(n, T)
    BY <2>1
  <2>3. PICK i \in 0 .. n : Current = T[i]
    BY <1>2, <2>2 DEF Repeats
  <2>4. Stops(Current)
    BY <1>2, CurrentIs DEF Stops
  <2>5. i = n
    BY <2>2, <2>3, <2>4 DEF Repeats, Trace
  <2> QED
    BY <1>2, <2>2, <2>3, <2>5, CountedIs DEF Repeats
<1>3. TraceInv => CountsAgree
  BY <1>2 DEF CountsAgree
<1> QED
  BY <1>1, <1>3, TraceStep, PTL DEF Spec
-----------------------------------------------------------------------------
(* ------------------------------ induction ------------------------------ *)
LEMMA Smallest ==
  ASSUME NEW T \in SUBSET Nat, T # {}
  PROVE  \E n \in T : \A m \in T : n <= m
<1>1. PICK n \in T : \A m \in T : ~(<<m, n>> \in OpToRel(<, Nat))
  BY NatLessThanWellFounded, WFMin
<1>2. \A m \in T : ~(m < n)
  BY <1>1 DEF OpToRel
<1> QED
  BY <1>2

(* Induction, with a set for the property.                                 *)
LEMMA Induct ==
  ASSUME NEW G, 0 \in G, \A n \in Nat : n \in G => n + 1 \in G
  PROVE  Nat \subseteq G
<1>1. SUFFICES ASSUME Nat \ G # {} PROVE FALSE
  OBVIOUS
<1>2. PICK n \in Nat \ G : \A m \in Nat \ G : n <= m
  BY <1>1, Smallest
<1>3. n # 0 /\ n - 1 \in Nat /\ n - 1 \in G
  BY <1>2
<1> QED
  BY <1>3, <1>2

(* FlattenSeq puts one sequence after the other: f[i] is the first i.      *)
LEMMA Flattened ==
  ASSUME NEW S, NEW s \in Seq(Seq(S))
  PROVE  \E f \in [0 .. Len(s) -> Seq(S)] :
           /\ f[0] = <<>> /\ FlattenSeq(s) = f[Len(s)]
           /\ \A i \in 0 .. Len(s) - 1 : f[i + 1] = f[i] \o s[i + 1]
<1> DEFINE N == Len(s)
           Fold(f, n) == f = [i \in 1 .. n |-> IF i = 1 THEN s[i]
                                               ELSE f[i - 1] \o s[i]]
           F == CHOOSE f : Fold(f, N)
           Good(f, n) == /\ f \in [1 .. n -> Seq(S)]
                         /\ \A i \in 1 .. n : f[i] = IF i = 1 THEN s[i]
                                                     ELSE f[i - 1] \o s[i]
<1>1. N \in Nat /\ \A i \in 1 .. N : s[i] \in Seq(S)
  BY ElementOfSeq
<1>2. CASE N = 0
  <2>1. FlattenSeq(s) = s
    BY <1>2 DEF FlattenSeq
  <2>2. s = <<>>
    BY <1>2, EmptySeq
  <2> DEFINE f == [i \in 0 .. N |-> <<>>]
  <2>3. f \in [0 .. N -> Seq(S)] /\ f[0] = <<>> /\ f[N] = <<>>
    BY <1>2, EmptySeq
  <2>4. 0 .. N - 1 = {}
    BY <1>2
  <2> HIDE DEF f
  <2> QED
    BY <2>1, <2>2, <2>3, <2>4
<1>3. CASE N # 0
  <2> DEFINE G == {n \in Nat : n <= N => \E f : Good(f, n)}
  <2>1. 0 \in G
    <3>1. Good([i \in 1 .. 0 |-> <<>>], 0)
      OBVIOUS
    <3> HIDE DEF Good
    <3> QED
      BY <3>1
  <2>2. ASSUME NEW n \in Nat, n \in G PROVE n + 1 \in G
    <3>1. SUFFICES ASSUME n + 1 <= N PROVE \E f : Good(f, n + 1)
      <4> HIDE DEF Good, N
      <4> QED
        BY SMT
    <3>2. PICK f : Good(f, n)
      <4>1. n <= N
        BY <1>1, <3>1
      <4> HIDE DEF Good
      <4> QED
        BY <2>2, <4>1
    <3> DEFINE v == IF n + 1 = 1 THEN s[n + 1] ELSE f[n] \o s[n + 1]
               g == [i \in 1 .. n + 1 |-> IF i <= n THEN f[i] ELSE v]
    <3>3. v \in Seq(S)
      <4>1. s[n + 1] \in Seq(S)
        BY <1>1, <3>1
      <4>2. n # 0 => f[n] \in Seq(S)
        BY <3>2
      <4> QED
        BY <4>1, <4>2, ConcatProperties
    <3>4. g[n + 1] = v /\ \A i \in 1 .. n : g[i] = f[i]
      <4> HIDE DEF v
      <4> QED
        OBVIOUS
    <3>5. g \in [1 .. n + 1 -> Seq(S)]
      <4> HIDE DEF v
      <4> QED
        BY <3>2, <3>3
    <3>6. ASSUME NEW i \in 1 .. n + 1
          PROVE  g[i] = IF i = 1 THEN s[i] ELSE g[i - 1] \o s[i]
      <4>1. CASE i <= n
        <5>1. i \in 1 .. n /\ (i # 1 => i - 1 \in 1 .. n)
          BY <4>1
        <5> HIDE DEF g
        <5> QED
          BY <5>1, <3>2, <3>4
      <4>2. CASE i = n + 1
        <5>1. i # 1 => i - 1 \in 1 .. n /\ i - 1 = n
          BY <4>2
        <5>2. g[i] = v
          BY <3>4, <4>2
        <5>3. i # 1 => g[i - 1] = f[n]
          BY <3>4, <5>1
        <5> HIDE DEF g
        <5> QED
          BY <4>2, <5>1, <5>2, <5>3
      <4> QED
        BY <4>1, <4>2
    <3> HIDE DEF g
    <3> QED
      BY <3>5, <3>6
  <2>3. PICK f : Good(f, N)
    <3>1. Nat \subseteq G
      <4> HIDE DEF G
      <4> QED
        BY <2>1, <2>2, Induct
    <3>2. N \in G
      BY <1>1, <3>1
    <3> HIDE DEF Good
    <3> QED
      BY <1>1, <3>2
  <2>4. Fold(f, N)
    BY <2>3
  <2>5. Fold(F, N)
    <3> HIDE DEF Fold
    <3> QED
      BY <2>4
  <2>6. FlattenSeq(s) = F[N]
    BY <1>3 DEF FlattenSeq
  <2>7. F = [i \in 1 .. N |-> IF i = 1 THEN s[i] ELSE F[i - 1] \o s[i]]
    <3> HIDE DEF F
    <3> QED
      BY <2>5
  <2> HIDE DEF F
  <2>8. \A i \in 1 .. N : F[i] = IF i = 1 THEN s[i] ELSE F[i - 1] \o s[i]
    BY <2>7
  <2>13. ASSUME NEW i \in 1 .. N - 1 PROVE F[i + 1] = F[i] \o s[i + 1]
    <3>1. PICK k \in 1 .. N : k = i + 1
      BY <1>1
    <3>2. k # 1 /\ k - 1 = i
      BY <3>1
    <3> QED
      BY <2>8, <3>1, <3>2
  <2>9. \A i \in 1 .. N : F[i] \in Seq(S)
    <3> DEFINE H == {n \in Nat : n \in 1 .. N => F[n] \in Seq(S)}
    <3>1. 0 \in H
      OBVIOUS
    <3>2. ASSUME NEW n \in Nat, n \in H PROVE n + 1 \in H
      <4>1. SUFFICES ASSUME n + 1 \in 1 .. N PROVE F[n + 1] \in Seq(S)
        BY SMT
      <4>2. s[n + 1] \in Seq(S)
        BY <1>1, <4>1
      <4>3. CASE n = 0
        BY <2>8, <4>1, <4>2, <4>3
      <4>4. CASE n # 0
        <5>1. F[n] \in Seq(S)
          BY <1>1, <3>2, <4>1, <4>4
        <5>2. n \in 1 .. N - 1
          BY <1>1, <4>1, <4>4
        <5>3. F[n + 1] = F[n] \o s[n + 1]
          BY <2>13, <5>2, Zenon
        <5> QED
          BY <4>2, <5>1, <5>3, ConcatProperties
      <4> QED
        BY <4>3, <4>4
    <3>3. Nat \subseteq H
      <4> HIDE DEF H
      <4> QED
        BY <3>1, <3>2, Induct
    <3> QED
      BY <1>1, <3>3
  <2> DEFINE a == [i \in 0 .. N |-> IF i = 0 THEN <<>> ELSE F[i]]
  <2>10. a \in [0 .. N -> Seq(S)]
    BY <1>1, <2>9, EmptySeq
  <2>11. a[0] = <<>> /\ FlattenSeq(s) = a[N]
    BY <1>1, <1>3, <2>6
  <2>12. ASSUME NEW i \in 0 .. N - 1 PROVE a[i + 1] = a[i] \o s[i + 1]
    <3>1. i + 1 \in 1 .. N /\ a[i + 1] = F[i + 1]
      BY <1>1
    <3>2. CASE i = 0
      <4>1. F[1] = s[1] /\ s[1] \in Seq(S) /\ a[0] = <<>>
        BY <1>1, <2>8, <3>1, <3>2
      <4> HIDE DEF a
      <4>2. <<>> \o s[1] = s[1]
        BY <4>1, ConcatEmptySeq
      <4> QED
        BY <3>1, <3>2, <4>1, <4>2
    <3>3. CASE i # 0
      <4>1. a[i] = F[i]
        BY <1>1, <3>3
      <4>2. i \in 1 .. N - 1
        BY <1>1, <3>3
      <4>3. F[i + 1] = F[i] \o s[i + 1]
        BY <2>13, <4>2, Zenon
      <4> HIDE DEF a
      <4> QED
        BY <3>1, <4>1, <4>3
    <3> QED
      BY <3>2, <3>3
  <2> HIDE DEF a
  <2> QED
    BY <2>10, <2>11, <2>12, SMT
<1> QED
  BY <1>1, <1>2, <1>3
-----------------------------------------------------------------------------
(* --------------------- the walk over the records ----------------------- *)
LEMMA InfoSays ==
  ASSUME NEW r \in Info!Record
  PROVE  /\ Info!Info(r) \in Nat /\ Info!SizeOrType(r) \in Nat
         /\ Info!kind(Info!Info(r)) = r.kind /\ Info!vlen(Info!Info(r)) = r.vlen
<1>0. Info!VlenBits - 1 = 7
  BY DEF Info!VlenBits
<1>1. /\ r.kind \in Info!ToSet(Info!Kinds) /\ r.vlen \in 0 .. 7 /\ r.ref \in Nat /\ r.n \in Nat
  BY <1>0 DEF Info!Record
<1>2. DOMAIN Info!Kinds = 1 .. 19
  BY DEF Info!Kinds
<1> DEFINE k == CHOOSE i \in DOMAIN Info!Kinds : Info!Kinds[i] = r.kind
<1>3. k \in 1 .. 19 /\ Info!Kinds[k] = r.kind
  BY <1>1, <1>2 DEF Info!ToSet
<1> HIDE DEF k
<1>4. PICK j \in 1 .. 19 : j = k
  BY <1>3
<1>5. Info!Info(r) = j * 8 + r.vlen
  BY <1>4 DEF Info!Info, Info!VlenBits, k
<1>6. PICK v \in 0 .. 7 : v = r.vlen
  BY <1>1
<1>7. (j * 8 + v) \div 8 = j /\ (j * 8 + v) % 8 = v
  OBVIOUS
<1>8. Info!kind(Info!Info(r)) = r.kind /\ Info!vlen(Info!Info(r)) = r.vlen
  BY <1>2, <1>3, <1>4, <1>5, <1>6, <1>7 DEF Info!kind, Info!vlen, Info!VlenBits
<1> QED
  BY <1>1, <1>5, <1>6, <1>8 DEF Info!SizeOrType

(* What a record holds after its three words is as long as _extra says.    *)
LEMMA DataSays ==
  ASSUME NEW r \in Info!Record
  PROVE  Info!Data(r) \in Seq(Nat) /\ Len(Info!Data(r)) = Info!extra(Info!Info(r))
<1>1. /\ r.vlen \in Nat /\ r.ref \in Nat /\ r.n \in Nat
  BY DEF Info!Record
<1>2. Info!kind(Info!Info(r)) = r.kind /\ Info!vlen(Info!Info(r)) = r.vlen
  BY InfoSays
<1>3. \A n \in Nat : [i \in 1 .. n |-> 9] \in Seq(Nat) /\ Len([i \in 1 .. n |-> 9]) = n
  OBVIOUS
<1>4. CASE r.kind \in {"INT", "VAR", "DECL_TAG"}
  BY <1>2, <1>4 DEF Info!Data, Info!extra
<1>5. CASE r.kind = "ARRAY"
  BY <1>1, <1>2, <1>5 DEF Info!Data, Info!extra
<1>6. CASE r.kind \in {"STRUCT", "UNION", "DATASEC", "ENUM64"}
  <2>1. Info!Data(r) = [i \in 1 .. 3 * r.vlen |-> 9] /\ 3 * r.vlen \in Nat
    BY <1>1, <1>6 DEF Info!Data
  <2>2. Info!extra(Info!Info(r)) = 3 * r.vlen
    BY <1>2, <1>6 DEF Info!extra
  <2> QED
    BY <1>3, <2>1, <2>2
<1>7. CASE r.kind \in {"ENUM", "FUNC_PROTO"}
  <2>1. Info!Data(r) = [i \in 1 .. 2 * r.vlen |-> 9] /\ 2 * r.vlen \in Nat
    BY <1>1, <1>7 DEF Info!Data
  <2>2. Info!extra(Info!Info(r)) = 2 * r.vlen
    BY <1>2, <1>7 DEF Info!extra
  <2> QED
    BY <1>3, <2>1, <2>2
<1>8. CASE r.kind \notin {"INT", "VAR", "DECL_TAG", "ARRAY", "STRUCT", "UNION", "DATASEC",
                          "ENUM64", "ENUM", "FUNC_PROTO"}
  BY <1>2, <1>8 DEF Info!Data, Info!extra
<1> QED
  BY <1>4, <1>5, <1>6, <1>7, <1>8

LEMMA WordsSay ==
  ASSUME NEW r \in Info!Record
  PROVE  /\ Info!Words(r) \in Seq(Nat)
         /\ Len(Info!Words(r)) = 3 + Info!extra(Info!Info(r))
         /\ Info!Words(r)[2] = Info!Info(r) /\ Info!Words(r)[3] = Info!SizeOrType(r)
         /\ \A i \in 1 .. Info!extra(Info!Info(r)) :
              Info!Words(r)[3 + i] = Info!Data(r)[i]
<1> DEFINE h == << 5, Info!Info(r), Info!SizeOrType(r) >>
<1>1. h \in Seq(Nat) /\ Len(h) = 3 /\ h[2] = Info!Info(r) /\ h[3] = Info!SizeOrType(r)
  BY InfoSays
<1>2. Info!Words(r) = h \o Info!Data(r)
  BY DEF Info!Words
<1>3. Info!Data(r) \in Seq(Nat) /\ Len(Info!Data(r)) = Info!extra(Info!Info(r))
      /\ Info!extra(Info!Info(r)) \in Nat
  BY DataSays
<1> HIDE DEF h
<1>4. PICK d \in Seq(Nat) : d = Info!Data(r)
  BY <1>3
<1>5. PICK e \in Nat : e = Info!extra(Info!Info(r))
  BY <1>3
<1>6. Len(d) = e /\ \A i \in 1 .. e : 3 + i \in 1 .. 3 + e /\ 3 + i - 3 = i /\ ~(3 + i <= 3)
  BY <1>3, <1>4, <1>5
<1>8. /\ h \o d \in Seq(Nat) /\ Len(h \o d) = 3 + e
      /\ \A i \in 1 .. 3 + e : (h \o d)[i] = IF i <= 3 THEN h[i] ELSE d[i - 3]
  <2>1. Len(d) = e
    BY <1>6
  <2>2. /\ h \o d \in Seq(Nat) /\ Len(h \o d) = Len(h) + Len(d)
        /\ \A i \in 1 .. Len(h) + Len(d) :
             (h \o d)[i] = IF i <= Len(h) THEN h[i] ELSE d[i - Len(h)]
    BY <1>1, ConcatProperties, Zenon
  <2> QED
    BY <1>1, <2>1, <2>2
<1>9. (h \o d)[2] = h[2] /\ (h \o d)[3] = h[3]
  BY <1>8
<1>7. /\ h \o d \in Seq(Nat) /\ Len(h \o d) = 3 + e
      /\ (h \o d)[2] = h[2] /\ (h \o d)[3] = h[3]
      /\ \A i \in 1 .. e : (h \o d)[3 + i] = d[i]
  BY <1>6, <1>8, <1>9
<1> QED
  BY <1>1, <1>2, <1>4, <1>5, <1>7

(* f[n] is a beginning of every later one.                                 *)
Grows(f, N) ==
  /\ f \in [0 .. N -> Seq(Nat)]
  /\ \A i \in 0 .. N - 1 : \E w \in Seq(Nat) : f[i + 1] = f[i] \o w

LEMMA Beginning ==
  ASSUME NEW N \in Nat, NEW f, Grows(f, N), NEW n \in 0 .. N
  PROVE  Len(f[n]) <= Len(f[N]) /\ \A j \in 1 .. Len(f[n]) : f[N][j] = f[n][j]
<1> DEFINE Starts(m) == /\ Len(f[n]) <= Len(f[m])
                        /\ \A j \in 1 .. Len(f[n]) : f[m][j] = f[n][j]
           G == {d \in Nat : n + d <= N => Starts(n + d)}
<1>1. 0 \in G
  OBVIOUS
<1>2. ASSUME NEW d \in Nat, d \in G PROVE d + 1 \in G
  <2>1. SUFFICES ASSUME n + (d + 1) <= N PROVE Starts(n + (d + 1))
    <3> HIDE DEF Starts
    <3> QED
      BY SMT
  <2>2. PICK m \in 0 .. N - 1 : m = n + d
    BY <2>1
  <2>3. n + (d + 1) = m + 1
    BY <2>2
  <2>4. Starts(m)
    <3> HIDE DEF Starts
    <3> QED
      BY <1>2, <2>1, <2>2
  <2>5. PICK w \in Seq(Nat) : f[m + 1] = f[m] \o w
    BY DEF Grows
  <2>6. f[m] \in Seq(Nat) /\ f[n] \in Seq(Nat) /\ Len(f[m]) \in Nat /\ Len(w) \in Nat
    BY DEF Grows
  <2>7. Starts(m + 1)
    BY <2>4, <2>5, <2>6, ConcatProperties, SMTT(60)
  <2> HIDE DEF Starts
  <2> QED
    BY <2>3, <2>7
<1>3. Nat \subseteq G
  <2> HIDE DEF G
  <2> QED
    BY <1>1, <1>2, Induct
<1>4. PICK d \in Nat : n + d = N
  OBVIOUS
<1>5. d \in G
  <2> HIDE DEF G
  <2> QED
    BY <1>3
<1> HIDE DEF Starts
<1>6. Starts(N)
  BY <1>4, <1>5
<1> QED
  BY <1>6 DEF Starts
(* f[n] are the words of the first n records of the object.                *)
Laid(f) ==
  /\ f \in [0 .. Len(obj.records) -> Seq(Nat)]
  /\ f[0] = <<>> /\ obj.blob = f[Len(obj.records)]
  /\ \A i \in 0 .. Len(obj.records) - 1 : f[i + 1] = f[i] \o Info!Words(obj.records[i + 1])

LEMMA LaidOut ==
  ASSUME obj \in Objects
  PROVE  \E f : Laid(f)
<1> DEFINE R == obj.records
           W == [i \in 1 .. Len(R) |-> Info!Words(R[i])]
<1>1. R \in Seq(Info!Record) /\ obj.blob = Info!Blob(R)
  BY ObjectsAssumption
<1>2. Len(R) \in Nat /\ \A i \in 1 .. Len(R) : R[i] \in Info!Record
  BY <1>1, ElementOfSeq
<1>3. \A i \in 1 .. Len(R) : Info!Words(R[i]) \in Seq(Nat)
  BY <1>2, WordsSay
<1>4. W \in Seq(Seq(Nat)) /\ Len(W) = Len(R)
  <2> HIDE DEF R
  <2> QED
    BY <1>2, <1>3
<1>5. obj.blob = FlattenSeq(W)
  BY <1>1 DEF Info!Blob, Info!FlattenSeq, FlattenSeq
<1>6. \A i \in 0 .. Len(R) - 1 : W[i + 1] = Info!Words(R[i + 1])
  BY <1>2
<1> HIDE DEF W
<1>7. PICK f \in [0 .. Len(W) -> Seq(Nat)] :
        /\ f[0] = <<>> /\ FlattenSeq(W) = f[Len(W)]
        /\ \A i \in 0 .. Len(W) - 1 : f[i + 1] = f[i] \o W[i + 1]
  BY <1>4, Flattened, ZenonT(60)
<1> QED
  BY <1>4, <1>5, <1>6, <1>7 DEF Laid

(* What the walk keeps of a record.                                        *)
Kept(r) == [kind |-> r.kind, val |-> Info!SizeOrType(r), data |-> Info!Data(r)]

(* The walk has gone through the first n records, and stands at the next.  *)
Reached(n) ==
  /\ n \in 0 .. Len(obj.records)
  /\ types = [i \in 1 .. n |-> Kept(obj.records[i])]
  /\ \A f : Laid(f) => pos = Len(f[n])

WalkInv ==
  /\ obj \in Objects
  /\ \E n \in Nat : Reached(n)
  /\ pc \in {"options", "exited", "made"} \cup Passing
  /\ pc = "discover" /\ obj.btf => Reached(Len(obj.records))

(* What the walk reads where it stands is the next record.                 *)
LEMMA Reads ==
  ASSUME obj \in Objects, NEW n \in 0 .. Len(obj.records) - 1, Reached(n)
  PROVE  LET w == Info!Info(obj.records[n + 1])
         IN  /\ pos \in Nat /\ Info!extra(w) \in Nat
             /\ obj.blob \in Seq(Nat)
             /\ pos + 3 + Info!extra(w) <= Len(obj.blob)
             /\ obj.blob[pos + 2] = w
             /\ obj.blob[pos + 3] = Info!SizeOrType(obj.records[n + 1])
             /\ \A i \in 1 .. Info!extra(w) :
                  obj.blob[pos + 3 + i] = Info!Data(obj.records[n + 1])[i]
             /\ \A f : Laid(f) => pos + 3 + Info!extra(w) = Len(f[n + 1])
<1>1. PICK N \in Nat : N = Len(obj.records)
  BY ObjectsAssumption
<1>2. n \in 0 .. N - 1 /\ n + 1 \in 1 .. N /\ n \in 0 .. N /\ n + 1 \in 0 .. N
  BY <1>1
<1>3. PICK r \in Info!Record : r = obj.records[n + 1]
  BY <1>1, <1>2, ObjectsAssumption, ElementOfSeq
<1>4. PICK e \in Nat : e = Info!extra(Info!Info(r))
  BY DataSays
<1>5. PICK w \in Seq(Nat) : w = Info!Words(r)
  BY WordsSay
<1>6. /\ Len(w) = 3 + e /\ w[2] = Info!Info(r) /\ w[3] = Info!SizeOrType(r)
      /\ \A i \in 1 .. e : w[3 + i] = Info!Data(r)[i]
  BY <1>4, <1>5, WordsSay
<1>7. ASSUME NEW f, Laid(f)
      PROVE  /\ pos = Len(f[n]) /\ pos \in Nat
             /\ obj.blob \in Seq(Nat) /\ obj.blob = f[N]
             /\ Len(f[n + 1]) = pos + (3 + e)
             /\ Len(f[n + 1]) <= Len(f[N])
             /\ \A i \in 1 .. 3 + e : obj.blob[pos + i] = w[i]
  <2>1. f \in [0 .. N -> Seq(Nat)] /\ obj.blob = f[N]
    BY <1>1, <1>7 DEF Laid
  <2>11. f \in [0 .. N -> Seq(Nat)]
    BY <2>1
  <2>2. pos = Len(f[n])
    BY <1>7 DEF Reached
  <2>3. f[n + 1] = f[n] \o w
    BY <1>1, <1>2, <1>3, <1>5, <1>7 DEF Laid
  <2>4. PICK u \in Seq(Nat) : u = f[n]
    BY <1>2, <2>1
  <2>5. /\ Len(u \o w) = Len(u) + Len(w)
        /\ \A i \in 1 .. Len(u) + Len(w) :
             (u \o w)[i] = IF i <= Len(u) THEN u[i] ELSE w[i - Len(u)]
    BY ConcatProperties, Zenon
  <2>6. ASSUME NEW i \in 0 .. N - 1
        PROVE  \E v \in Seq(Nat) : f[i + 1] = f[i] \o v
    <3>1. i + 1 \in 1 .. N
      BY <1>1
    <3>2. Info!Words(obj.records[i + 1]) \in Seq(Nat)
      BY <1>1, <3>1, ObjectsAssumption, ElementOfSeq, WordsSay
    <3> QED
      BY <1>1, <1>7, <3>2 DEF Laid
  <2>7. /\ Len(f[n + 1]) <= Len(f[N])
        /\ \A j \in 1 .. Len(f[n + 1]) : f[N][j] = f[n + 1][j]
    <3>1. Grows(f, N)
      BY <2>6, <2>11 DEF Grows
    <3>2. PICK k \in 0 .. N : k = n + 1
      BY <1>2
    <3>3. /\ Len(f[k]) <= Len(f[N])
          /\ \A j \in 1 .. Len(f[k]) : f[N][j] = f[k][j]
      <4> HIDE <1>3, <1>4
      <4> QED
        BY <3>1, Beginning
    <3> QED
      BY <3>2, <3>3
  <2>8. pos = Len(u) /\ pos \in Nat /\ Len(f[n + 1]) = pos + (3 + e)
    BY <1>6, <2>2, <2>3, <2>4, <2>5
  <2>9. ASSUME NEW i \in 1 .. 3 + e PROVE obj.blob[pos + i] = w[i]
    <3>1. PICK j \in 1 .. pos + (3 + e) : j = pos + i
      BY <2>8
    <3>2. ~(j <= pos) /\ j - pos = i
      BY <2>8, <3>1
    <3>3. obj.blob[j] = f[n + 1][j]
      BY <2>1, <2>7, <2>8
    <3>4. f[n + 1][j] = w[j - pos]
      BY <1>6, <2>3, <2>4, <2>5, <2>8, <3>2
    <3> QED
      BY <3>1, <3>2, <3>3, <3>4
  <2>10. obj.blob \in Seq(Nat)
    BY <2>1
  <2> QED
    BY <2>1, <2>2, <2>7, <2>8, <2>9, <2>10
<1>8. PICK f : Laid(f)
  BY LaidOut
<1>9. /\ pos \in Nat /\ obj.blob \in Seq(Nat) /\ pos + (3 + e) <= Len(obj.blob)
      /\ \A i \in 1 .. 3 + e : obj.blob[pos + i] = w[i]
  BY <1>7, <1>8
<1>10. pos + 3 + e = pos + (3 + e)
  BY <1>9
<1>11. obj.blob[pos + 2] = w[2] /\ obj.blob[pos + 3] = w[3]
  BY <1>9
<1>12. ASSUME NEW i \in 1 .. e PROVE obj.blob[pos + 3 + i] = w[3 + i]
  <2>1. 3 + i \in 1 .. 3 + e /\ pos + 3 + i = pos + (3 + i)
    BY <1>9
  <2> QED
    BY <1>9, <2>1
<1> QED
  BY <1>3, <1>4, <1>6, <1>7, <1>9, <1>10, <1>11, <1>12
LEMMA WalkOn ==
  ASSUME WalkInv, WalkTypes
  PROVE  WalkInv'
<1>1. PICK n \in Nat : Reached(n)
  BY DEF WalkInv
<1>2. /\ pc = "walk" /\ pc' = "walk" /\ obj' = obj /\ obj \in Objects
  BY DEF WalkTypes, WalkInv, outside
<1>3. PICK N \in Nat : N = Len(obj.records)
  BY <1>2, ObjectsAssumption, LenProperties
<1>4. n \in 0 .. N
  BY <1>1, <1>3 DEF Reached
<1>5. n < N
  <2>1. SUFFICES ASSUME n = N PROVE FALSE
    BY <1>4
  <2>2. PICK f : Laid(f)
    BY <1>2, LaidOut
  <2>3. pos = Len(f[N]) /\ obj.blob = f[N] /\ f[N] \in Seq(Nat)
    BY <1>1, <1>3, <2>1, <2>2 DEF Laid, Reached
  <2>4. ~(pos + 3 <= Len(obj.blob))
    BY <2>3
  <2> QED
    BY <2>4 DEF WalkTypes, Info!Walk, Info!Whole
<1>6. n \in 0 .. N - 1 /\ n + 1 \in 1 .. N /\ n + 1 \in 0 .. N
  BY <1>5
<1>7. PICK r \in Info!Record : r = obj.records[n + 1]
  BY <1>2, <1>3, <1>6, ObjectsAssumption, ElementOfSeq
<1>8. PICK e \in Nat : e = Info!extra(Info!Info(r))
  BY DataSays
<1>9. /\ pos \in Nat /\ obj.blob \in Seq(Nat) /\ pos + 3 + e <= Len(obj.blob)
      /\ obj.blob[pos + 2] = Info!Info(r) /\ obj.blob[pos + 3] = Info!SizeOrType(r)
      /\ \A i \in 1 .. e : obj.blob[pos + 3 + i] = Info!Data(r)[i]
      /\ \A f : Laid(f) => pos + 3 + e = Len(f[n + 1])
  BY <1>1, <1>2, <1>3, <1>6, <1>7, <1>8, Reads
<1>10. SubSeq(obj.blob, pos + 4, pos + 3 + e) = Info!Data(r)
  <2>1. PICK d \in Seq(Nat) : d = Info!Data(r) /\ Len(d) = e
    BY <1>8, DataSays
  <2>2. PICK q \in Nat : q = pos
    BY <1>9
  <2>3. PICK b \in Seq(Nat) : b = obj.blob
    BY <1>9
  <2>9. q + 3 + e <= Len(b)
    BY <1>9, <2>2, <2>3
  <2>4. \A i \in q + 4 .. q + 3 + e : b[i] \in Nat
    BY <2>9, ElementOfSeq
  <2>5. /\ SubSeq(b, q + 4, q + 3 + e) \in Seq(Nat)
        /\ Len(SubSeq(b, q + 4, q + 3 + e))
             = IF q + 4 <= q + 3 + e THEN q + 3 + e - (q + 4) + 1 ELSE 0
        /\ \A i \in 1 .. q + 3 + e - (q + 4) + 1 :
             SubSeq(b, q + 4, q + 3 + e)[i] = b[q + 4 + i - 1]
    <3> DEFINE m == q + 4
               k == q + 3 + e
    <3>1. m \in Int /\ k \in Int
      OBVIOUS
    <3>2. \A i \in m .. k : b[i] \in Nat
      BY <2>4
    <3> HIDE DEF m, k
    <3>3. /\ SubSeq(b, m, k) \in Seq(Nat)
          /\ Len(SubSeq(b, m, k)) = IF m <= k THEN k - m + 1 ELSE 0
          /\ \A i \in 1 .. k - m + 1 : SubSeq(b, m, k)[i] = b[m + i - 1]
      BY <3>1, <3>2, SMTT(30)
    <3> QED
      BY <3>3 DEF m, k
  <2>6. Len(SubSeq(b, q + 4, q + 3 + e)) = e
    BY <2>5
  <2>7. ASSUME NEW i \in 1 .. e
        PROVE  SubSeq(b, q + 4, q + 3 + e)[i] = d[i]
    <3>1. i \in 1 .. q + 3 + e - (q + 4) + 1 /\ q + 4 + i - 1 = q + 3 + i
      OBVIOUS
    <3> QED
      BY <1>9, <2>1, <2>2, <2>3, <2>5, <3>1
  <2> HIDE DEF Info!Data
  <2> QED
    BY <2>1, <2>2, <2>3, <2>5, <2>6, <2>7, SeqEqual
<1>11. /\ types' = Append(types, Kept(r)) /\ pos' = pos + 3 + e
  BY <1>8, <1>9, <1>10, InfoSays DEF WalkTypes, Info!Walk, Kept
<1>12. types' = [i \in 1 .. n + 1 |-> Kept(obj.records[i])]
  BY <1>1, <1>7, <1>11 DEF Reached
<1>13. Reached(n + 1)'
  <2>1. ASSUME NEW f, Laid(f)' PROVE pos' = Len(f[n + 1])
    BY <1>2, <1>9, <1>11, <2>1 DEF Laid
  <2>2. (\A f : Laid(f) => pos = Len(f[n + 1]))'
    BY <2>1
  <2> QED
    BY <1>2, <1>3, <1>6, <1>12, <2>2 DEF Reached
<1>14. n + 1 \in Nat
  OBVIOUS
<1> QED
  BY <1>2, <1>13, <1>14 DEF WalkInv, Passing
LEMMA ReachedStill ==
  ASSUME UNCHANGED <<obj, types, pos>>, NEW n, Reached(n)
  PROVE  Reached(n)'
<1>1. \A f : Laid(f)' <=> Laid(f)
  BY DEF Laid
<1> QED
  BY <1>1 DEF Reached

LEMMA ReachedNone ==
  ASSUME obj \in Objects, types = <<>>, pos = 0
  PROVE  Reached(0)
<1>1. Len(obj.records) \in Nat
  BY ObjectsAssumption
<1>2. \A f : Laid(f) => pos = Len(f[0])
  BY DEF Laid
<1>3. types = [i \in 1 .. 0 |-> Kept(obj.records[i])]
  OBVIOUS
<1> QED
  BY <1>1, <1>2, <1>3 DEF Reached

LEMMA WalkStep == WalkInv /\ [Next]_vars => WalkInv'
<1> SUFFICES ASSUME WalkInv, [Next]_vars PROVE WalkInv'
  OBVIOUS
<1>1. PICK n \in Nat : Reached(n)
  BY DEF WalkInv
<1>2. ASSUME UNCHANGED <<obj, types, pos>>,
             pc' \in {"options", "exited", "made"} \cup Passing,
             pc' = "discover" => pc = "discover"
      PROVE  WalkInv'
  <2>1. Reached(n)'
    BY <1>1, <1>2, ReachedStill
  <2>2. pc = "discover" /\ obj.btf => Reached(Len(obj.records))'
    <3>1. SUFFICES ASSUME pc = "discover", obj.btf PROVE Reached(Len(obj.records))'
      OBVIOUS
    <3>2. PICK k : k = Len(obj.records)
      OBVIOUS
    <3>3. Reached(k)'
      BY <1>2, <3>1, <3>2, ReachedStill DEF WalkInv
    <3> QED
      BY <1>2, <3>2, <3>3
  <2> QED
    BY <1>2, <2>1, <2>2 DEF WalkInv
<1>3. ASSUME obj' = obj, types' = <<>>, pos' = 0, pc' = "read" PROVE WalkInv'
  <2>1. obj' \in Objects
    BY <1>3 DEF WalkInv
  <2>2. Reached(0)'
    <3>1. Len(obj.records)' \in Nat
      BY <2>1, ObjectsAssumption
    <3>2. (\A f : Laid(f) => pos = Len(f[0]))'
      BY <1>3 DEF Laid
    <3>3. (types = [i \in 1 .. 0 |-> Kept(obj.records[i])])'
      BY <1>3
    <3> QED
      BY <3>1, <3>2, <3>3 DEF Reached
  <2> QED
    BY <1>3, <2>1, <2>2 DEF WalkInv, Passing
<1>4. ASSUME NEW code, EndPass(code, Counted), obj' = obj PROVE WalkInv'
  <2>1. CASE pass = "probe"
    BY <1>3, <1>4, <2>1 DEF EndPass
  <2>2. CASE pass # "probe"
    BY <1>2, <1>4, <2>2 DEF EndPass, Exit, translator, walked
  <2> QED
    BY <2>1, <2>2
<1>5. CASE UNCHANGED vars
  BY <1>2, <1>5 DEF vars, WalkInv
<1>6. CASE BadOption
  BY <1>2, <1>6 DEF BadOption, Exit, translator, walked
<1>7. CASE Start
  BY <1>2, <1>7 DEF Start, translator, walked, Passing
<1>8. CASE ReadElf
  <2>1. CASE obj.elf
    BY <1>2, <1>8, <2>1 DEF ReadElf, outside, translator, walked, Passing
  <2>2. CASE ~obj.elf
    BY <1>4, <1>8, <2>2 DEF ReadElf, GiveUp
  <2> QED
    BY <2>1, <2>2
<1>9. CASE WalkTypes
  BY <1>9, WalkOn
<1>10. CASE EndWalk
  <2>1. /\ obj' = obj /\ UNCHANGED <<obj, types, pos>> /\ pc' = "discover"
        /\ ~(obj.btf /\ Info!Whole)
    BY <1>10 DEF EndWalk, outside, walked
  <2>2. obj \in Objects /\ n \in 0 .. Len(obj.records) /\ Len(obj.records) \in Nat
    BY <1>1, ObjectsAssumption DEF WalkInv, Reached
  <2>3. obj.btf => n = Len(obj.records)
    <3>1. SUFFICES ASSUME obj.btf, n # Len(obj.records) PROVE FALSE
      OBVIOUS
    <3>2. n \in 0 .. Len(obj.records) - 1
      BY <2>2, <3>1
    <3>3. PICK w : w = Info!Info(obj.records[n + 1])
      OBVIOUS
    <3>4. /\ pos \in Nat /\ Info!extra(w) \in Nat /\ obj.blob \in Seq(Nat)
          /\ pos + 3 + Info!extra(w) <= Len(obj.blob) /\ obj.blob[pos + 2] = w
      BY <1>1, <2>2, <3>2, <3>3, Reads
    <3>5. pos + 3 <= Len(obj.blob)
      BY <3>4
    <3> QED
      BY <2>1, <3>1, <3>4, <3>5 DEF Info!Whole
  <2>4. Reached(n)'
    BY <1>1, <2>1, ReachedStill
  <2>5. obj'.btf => Reached(Len(obj.records))'
    BY <2>1, <2>3, <2>4
  <2> QED
    BY <2>1, <2>2, <2>4, <2>5 DEF WalkInv, Passing
<1>11. CASE Declare
  BY <1>2, <1>11 DEF Declare, outside, walked, Passing
<1>12. CASE SortMaps
  BY <1>2, <1>12 DEF SortMaps, outside, walked, Passing
<1>13. CASE PickSection
  BY <1>2, <1>4, <1>13 DEF PickSection, GiveUp, outside, walked, Passing
<1>14. CASE Relocate
  BY <1>2, <1>14 DEF Relocate, outside, walked, Passing
<1>15. CASE Call
  BY <1>2, <1>15 DEF Call, outside, walked, Passing
<1>16. CASE CheckBudget
  BY <1>2, <1>16 DEF CheckBudget, outside, walked, Passing
<1>17. CASE Emit
  BY <1>4, <1>17 DEF Emit
<1>18. CASE Made
  BY <1>2, <1>18 DEF Made, outside, translator, walked
<1> QED
  BY <1>5, <1>6, <1>7, <1>8, <1>9, <1>10, <1>11, <1>12, <1>13, <1>14, <1>15, <1>16,
     <1>17, <1>18 DEF Next

LEMMA WalkInit == Init => WalkInv
<1> SUFFICES ASSUME Init PROVE WalkInv
  OBVIOUS
<1>1. obj \in Objects /\ types = <<>> /\ pos = 0 /\ pc = "options"
  BY DEF Init
<1> QED
  BY <1>1, ReachedNone DEF WalkInv

(* The walk over the types is never out of step with the records: what     *)
(* _extra says of a kind is what the format holds after such a record, so  *)
(* that the types found are the records written, one for one, and all of   *)
(* them when the walk ends (Btf.__init__).                                 *)
THEOREM WalkRight == Spec => []InStep
<1>2. ASSUME WalkInv PROVE InStep
  <2>1. PICK n \in Nat : Reached(n)
    BY <1>2 DEF WalkInv
  <2>2. PICK N \in Nat : N = Len(obj.records)
    BY <1>2, ObjectsAssumption, LenProperties DEF WalkInv
  <2>3. n <= N /\ types = [i \in 1 .. n |-> Kept(obj.records[i])]
    BY <2>1, <2>2 DEF Reached
  <2>4. Len(types) = n /\ \A i \in 1 .. n : types[i] = Kept(obj.records[i])
    BY <2>3
  <2>5. Info!Matching
    BY <2>2, <2>3, <2>4 DEF Info!Matching, Kept
  <2>6. pc = "discover" /\ obj.btf => Len(types) = N
    <3>1. SUFFICES ASSUME pc = "discover", obj.btf PROVE Len(types) = N
      OBVIOUS
    <3>2. types = [i \in 1 .. N |-> Kept(obj.records[i])]
      BY <1>2, <2>2, <3>1 DEF WalkInv, Reached
    <3> QED
      BY <3>2
  <2> QED
    BY <2>2, <2>5, <2>6 DEF InStep
<1> QED
  BY WalkInit, <1>2, WalkStep, PTL DEF Spec
-----------------------------------------------------------------------------
(* ------------------------------ recursion ------------------------------ *)
(* Repeating a step on the values of X.                                    *)
Iterates(X, x0, F, K, h) ==
  h \in [0 .. K -> X] /\ h[0] = x0 /\ \A i \in 1 .. K : h[i] = F[h[i - 1]]

LEMMA Iterated ==
  ASSUME NEW X, NEW x0 \in X, NEW F \in [X -> X], NEW K \in Nat
  PROVE  \E h : Iterates(X, x0, F, K, h)
<1> DEFINE Good(h, n) == /\ h \in [0 .. n -> X] /\ h[0] = x0
                         /\ \A i \in 1 .. n : h[i] = F[h[i - 1]]
           G == {n \in Nat : \E h : Good(h, n)}
<1>1. 0 \in G
  <2>1. Good([i \in 0 .. 0 |-> x0], 0)
    OBVIOUS
  <2> HIDE DEF Good
  <2> QED
    BY <2>1
<1>2. ASSUME NEW n \in Nat, n \in G PROVE n + 1 \in G
  <2>1. PICK h : Good(h, n)
    <3> HIDE DEF Good
    <3> QED
      BY <1>2
  <2> DEFINE g == [i \in 0 .. n + 1 |-> IF i <= n THEN h[i] ELSE F[h[n]]]
  <2>2. g \in [0 .. n + 1 -> X]
    BY <2>1
  <2>3. g[n + 1] = F[h[n]] /\ \A i \in 0 .. n : g[i] = h[i]
    OBVIOUS
  <2> HIDE DEF g
  <2>4. ASSUME NEW i \in 1 .. n + 1 PROVE g[i] = F[g[i - 1]]
    <3>1. CASE i <= n
      <4>1. i \in 1 .. n /\ i \in 0 .. n /\ i - 1 \in 0 .. n
        BY <3>1
      <4> QED
        BY <2>1, <2>3, <4>1
    <3>2. CASE i = n + 1
      <4>1. i - 1 = n /\ n \in 0 .. n
        BY <3>2
      <4> QED
        BY <2>3, <3>2, <4>1
    <3> QED
      BY <3>1, <3>2
  <2>5. Good(g, n + 1)
    BY <2>1, <2>2, <2>3, <2>4
  <2> HIDE DEF Good
  <2> QED
    BY <2>5
<1>3. Nat \subseteq G
  <2> HIDE DEF G
  <2> QED
    BY <1>1, <1>2, Induct
<1>4. PICK h : Good(h, K)
  <2>1. K \in G
    <3> HIDE DEF G
    <3> QED
      BY <1>3
  <2> HIDE DEF Good
  <2> QED
    BY <2>1
<1> QED
  BY <1>4 DEF Iterates

(* Following next to an end, where no set has all of its ways out leading  *)
(* back into it.                                                           *)
EndsFrom(D, next, End) ==
  \A T \in SUBSET D : T # {} => \E t \in T : t \in End \/ next[t] \notin T
Follows(D, next, End, base, factor, h) ==
  /\ h \in [D -> Nat]
  /\ \A t \in D : h[t] = IF t \in End THEN base[t] ELSE factor[t] * h[next[t]]

LEMMA Followed ==
  ASSUME NEW N \in Nat, NEW next \in [0 .. N -> 0 .. N], NEW End,
         NEW base \in [0 .. N -> Nat], NEW factor \in [0 .. N -> Nat],
         EndsFrom(0 .. N, next, End)
  PROVE  \E h : Follows(0 .. N, next, End, base, factor, h)
<1> DEFINE D == 0 .. N
           Good(T, h) == /\ T \in SUBSET D /\ h \in [D -> Nat]
                         /\ \A t \in T : /\ t \in End \/ next[t] \in T
                                         /\ h[t] = IF t \in End THEN base[t]
                                                   ELSE factor[t] * h[next[t]]
           G == {n \in Nat : n <= N + 1 =>
                   \E T, h : Good(T, h) /\ Cardinality(T) = n}
<1>1. IsFiniteSet(D) /\ Cardinality(D) = N + 1
  BY FS_Interval
<1>2. 0 \in G
  <2>1. Good({}, [t \in D |-> 0]) /\ Cardinality({}) = 0
    BY FS_EmptySet
  <2> HIDE DEF Good
  <2> QED
    BY <2>1
<1>3. ASSUME NEW n \in Nat, n \in G PROVE n + 1 \in G
  <2>1. SUFFICES ASSUME n + 1 <= N + 1
                 PROVE  \E T, h : Good(T, h) /\ Cardinality(T) = n + 1
    <3> HIDE DEF Good
    <3> QED
      BY SMT
  <2>2. PICK T, h : Good(T, h) /\ Cardinality(T) = n
    <3>1. n <= N + 1
      BY <2>1
    <3> HIDE DEF Good
    <3> QED
      BY <1>3, <3>1
  <2>3. IsFiniteSet(T) /\ T # D
    <3>1. T \in SUBSET D
      BY <2>2
    <3>2. Cardinality(T) # Cardinality(D)
      BY <1>1, <2>1, <2>2
    <3> HIDE DEF Good, D
    <3> QED
      BY <1>1, <3>1, <3>2, FS_Subset
  <2>4. D \ T \in SUBSET D /\ D \ T # {}
    BY <2>2, <2>3
  <2>5. PICK t \in D \ T : t \in End \/ next[t] \notin D \ T
    BY <2>4 DEF EndsFrom
  <2>6. t \in D /\ (t \in End \/ next[t] \in T) /\ next[t] \in D
    BY <2>5
  <2> DEFINE v == IF t \in End THEN base[t] ELSE factor[t] * h[next[t]]
             g == [u \in D |-> IF u = t THEN v ELSE h[u]]
  <2>7. v \in Nat
    <3>1. base[t] \in Nat /\ factor[t] \in Nat /\ h[next[t]] \in Nat
      BY <2>2, <2>6
    <3>2. \A a, b \in Nat : a * b \in Nat
      OBVIOUS
    <3> QED
      BY <3>1, <3>2
  <2>8. g \in [D -> Nat] /\ g[t] = v /\ \A u \in T : g[u] = h[u] /\ u # t
    <3> HIDE DEF v, D
    <3> QED
      BY <2>2, <2>5, <2>7
  <2>9. ASSUME NEW u \in T \cup {t}
        PROVE  /\ u \in End \/ next[u] \in T \cup {t}
               /\ g[u] = IF u \in End THEN base[u] ELSE factor[u] * g[next[u]]
    <3> HIDE DEF g, D
    <3>1. CASE u = t
      BY <2>6, <2>8, <3>1
    <3>2. CASE u \in T
      BY <2>2, <2>8, <3>2
    <3> QED
      BY <3>1, <3>2
  <2>10. Good(T \cup {t}, g)
    <3> HIDE DEF g
    <3> QED
      BY <2>2, <2>6, <2>8, <2>9
  <2>11. Cardinality(T \cup {t}) = n + 1
    BY <2>2, <2>3, <2>5, FS_AddElement
  <2> HIDE DEF Good
  <2> QED
    BY <2>10, <2>11
<1>4. PICK T, h : Good(T, h) /\ Cardinality(T) = N + 1
  <2>1. Nat \subseteq G
    <3> HIDE DEF G
    <3> QED
      BY <1>2, <1>3, Induct
  <2>2. N + 1 \in G
    <3> HIDE DEF G
    <3> QED
      BY <2>1
  <2> HIDE DEF Good
  <2> QED
    BY <2>2
<1>5. T = D
  BY <1>1, <1>4, FS_Subset
<1> QED
  BY <1>4, <1>5 DEF Follows
-----------------------------------------------------------------------------
(* ------------------------- the size of a type -------------------------- *)
(* What follows is about the types of one object, and what the walk keeps  *)
(* of them.                                                                *)
Sane(rs) == rs \in Seq(Info!Record) /\ Info!Sound(rs)
Keep(rs) == [i \in 1 .. Len(rs) |-> Kept(rs[i])]

LEMMA SaneRefs ==
  ASSUME NEW rs, Sane(rs)
  PROVE  /\ Len(rs) \in Nat
         /\ \A t \in 1 .. Len(rs) :
              /\ rs[t].ref \in 0 .. Len(rs) /\ rs[t].n \in Nat
              /\ rs[t].kind # "missing" /\ rs[t] \in Info!Record
<1>1. Len(rs) \in Nat /\ DOMAIN rs = 1 .. Len(rs)
  BY DEF Sane
<1>2. ASSUME NEW t \in 1 .. Len(rs)
      PROVE  rs[t].ref \in 0 .. Len(rs) /\ rs[t].n \in Nat /\ rs[t].kind # "missing"
             /\ rs[t] \in Info!Record
  <2>1. rs[t] \in Info!Record
    BY <1>1, ElementOfSeq DEF Sane
  <2>2. rs[t].ref \in 0 .. Len(rs)
    BY <1>1 DEF Sane, Info!Sound
  <2>3. PICK r \in Info!Record : r = rs[t]
    BY <2>1
  <2>4. r.kind \in Info!ToSet(Info!Kinds) /\ r.n \in Nat
    BY DEF Info!Record
  <2>5. "missing" \notin Info!ToSet(Info!Kinds)
    BY DEF Info!ToSet, Info!Kinds
  <2> QED
    BY <2>1, <2>2, <2>3, <2>4, <2>5
<1> QED
  BY <1>1, <1>2

(* An end is reached from every type through qualifiers and arrays.        *)
LEMMA SaneEnds ==
  ASSUME NEW rs, Sane(rs), NEW End, 0 \in End,
         \A t \in 1 .. Len(rs) : t \notin End => Info!Derived(rs[t]),
         NEW T \in SUBSET (0 .. Len(rs)), T # {}
  PROVE  \E t \in T : t \in End \/ rs[t].ref \notin T
<1>1. SUFFICES ASSUME \A t \in T : t \notin End PROVE \E t \in T : rs[t].ref \notin T
  OBVIOUS
<1>2. T \in SUBSET (1 .. Len(rs))
  BY <1>1, SaneRefs
<1>3. PICK t \in T : Info!Derived(rs[t]) => rs[t].ref \notin T
  BY <1>2 DEF Sane, Info!Sound
<1> QED
  BY <1>1, <1>2, <1>3

Qualified(rs, t) == rs[t].kind \in Info!Qualifiers

(* What C finds behind the qualifiers.                                     *)
LEMMA BareSays ==
  ASSUME NEW rs, Sane(rs), NEW t \in 0 .. Len(rs)
  PROVE  Info!CBare(rs)[t] = IF t # 0 /\ Qualified(rs, t)
                             THEN Info!CBare(rs)[rs[t].ref] ELSE t
<1> DEFINE N == Len(rs)
           D == 0 .. N
           End == {u \in D : ~(u # 0 /\ Qualified(rs, u))}
           next == [u \in D |-> IF u = 0 THEN 0 ELSE rs[u].ref]
           base == [u \in D |-> u]
           factor == [u \in D |-> 1]
           Is(h) == h = [u \in D |-> IF u # 0 /\ rs[u].kind \in Info!Qualifiers
                                     THEN h[rs[u].ref] ELSE u]
<1>1. /\ N \in Nat /\ next \in [D -> D] /\ base \in [D -> Nat] /\ factor \in [D -> Nat]
      /\ 0 \in End
  BY SaneRefs
<1>2. \A u \in 1 .. N : u \notin End => Info!Derived(rs[u])
  BY <1>1 DEF Qualified, Info!Derived
<1>3. ASSUME NEW T \in SUBSET D, T # {} PROVE \E u \in T : u \in End \/ next[u] \notin T
  <2>1. PICK u \in T : u \in End \/ rs[u].ref \notin T
    <3> HIDE DEF End
    <3> QED
      BY <1>1, <1>2, <1>3, SaneEnds
  <2>2. u = 0 => u \in End
    BY <1>1
  <2>3. u # 0 => next[u] = rs[u].ref
    OBVIOUS
  <2> QED
    BY <2>1, <2>2, <2>3
<1>9. PICK h : Follows(D, next, End, base, factor, h)
  <2>1. EndsFrom(D, next, End)
    BY <1>3 DEF EndsFrom
  <2> HIDE DEF End, next, base, factor, N
  <2> QED
    BY <1>1, <2>1, Followed
<1>4. h \in [D -> Nat] /\ \A u \in D :
        h[u] = IF u \in End THEN base[u] ELSE factor[u] * h[next[u]]
  BY <1>9 DEF Follows
<1>5. ASSUME NEW u \in D
      PROVE  h[u] = IF u # 0 /\ rs[u].kind \in Info!Qualifiers THEN h[rs[u].ref] ELSE u
  <2>1. CASE u \in End
    BY <1>4, <2>1 DEF Qualified
  <2>2. CASE u \notin End
    <3>1. next[u] = rs[u].ref /\ factor[u] = 1 /\ next[u] \in D /\ u # 0
          /\ rs[u].kind \in Info!Qualifiers
      BY <1>1, <2>2 DEF Qualified
    <3>2. h[u] = 1 * h[next[u]] /\ h[next[u]] \in Nat
      <4> HIDE DEF next, factor, End
      <4> QED
        BY <1>4, <2>2, <3>1
    <3> QED
      BY <3>1, <3>2
  <2> QED
    BY <2>1, <2>2
<1>6. Is(h)
  <2> HIDE DEF End, next, base, factor, D, N
  <2>1. h = [u \in D |-> h[u]]
    BY <1>4
  <2>2. \A u \in D : h[u] = IF u # 0 /\ rs[u].kind \in Info!Qualifiers
                           THEN h[rs[u].ref] ELSE u
    BY <1>5
  <2> QED
    BY <2>1, <2>2
<1>7. Info!CBare(rs) = CHOOSE g : Is(g)
  BY DEF Info!CBare
<1>8. Is(Info!CBare(rs))
  <2> HIDE DEF Is
  <2> QED
    BY <1>6, <1>7
<1> QED
  BY <1>8 DEF Qualified

(* What C calls the size of a type.                                        *)
Sizes(rs, h, t) ==
  IF t = 0 THEN 0
  ELSE IF rs[t].kind \in Info!Sized THEN rs[t].n
  ELSE IF rs[t].kind = "PTR" THEN 8
  ELSE IF rs[t].kind = "ARRAY" THEN rs[t].n * h[rs[t].ref]
  ELSE IF Qualified(rs, t) THEN h[rs[t].ref]
  ELSE 0

LEMMA SizeSays ==
  ASSUME NEW rs, Sane(rs)
  PROVE  /\ Info!CSize(rs) \in [0 .. Len(rs) -> Nat]
         /\ \A t \in 0 .. Len(rs) : Info!CSize(rs)[t] = Sizes(rs, Info!CSize(rs), t)
<1> DEFINE N == Len(rs)
           D == 0 .. N
           End == {u \in D : u = 0 \/ ~Info!Derived(rs[u])}
           next == [u \in D |-> IF u = 0 THEN 0 ELSE rs[u].ref]
           base == [u \in D |-> IF u = 0 THEN 0
                                ELSE IF rs[u].kind \in Info!Sized THEN rs[u].n
                                ELSE IF rs[u].kind = "PTR" THEN 8 ELSE 0]
           factor == [u \in D |-> IF u = 0 THEN 0
                                  ELSE IF rs[u].kind = "ARRAY" THEN rs[u].n ELSE 1]
           Body(h, t) ==
             IF t = 0 THEN 0
             ELSE IF rs[t].kind \in Info!Sized THEN rs[t].n
             ELSE IF rs[t].kind = "PTR" THEN 8
             ELSE IF rs[t].kind = "ARRAY" THEN rs[t].n * h[rs[t].ref]
             ELSE IF rs[t].kind \in Info!Qualifiers THEN h[rs[t].ref]
             ELSE 0
           Is(h) == h = [t \in D |-> Body(h, t)]
<1>1. /\ N \in Nat /\ next \in [D -> D] /\ base \in [D -> Nat] /\ factor \in [D -> Nat]
      /\ 0 \in End
  BY SaneRefs
<1>2. ASSUME NEW T \in SUBSET D, T # {} PROVE \E u \in T : u \in End \/ next[u] \notin T
  <2>1. \A u \in 1 .. N : u \notin End => Info!Derived(rs[u])
    BY <1>1
  <2>2. PICK u \in T : u \in End \/ rs[u].ref \notin T
    <3> HIDE DEF End
    <3> QED
      BY <1>1, <1>2, <2>1, SaneEnds
  <2>3. u = 0 => u \in End
    BY <1>1
  <2>4. u # 0 => next[u] = rs[u].ref
    OBVIOUS
  <2> QED
    BY <2>2, <2>3, <2>4
<1>3. PICK h : Follows(D, next, End, base, factor, h)
  <2>1. EndsFrom(D, next, End)
    BY <1>2 DEF EndsFrom
  <2> HIDE DEF End, next, base, factor, N
  <2> QED
    BY <1>1, <2>1, Followed
<1>4. h \in [D -> Nat] /\ \A u \in D :
        h[u] = IF u \in End THEN base[u] ELSE factor[u] * h[next[u]]
  BY <1>3 DEF Follows
<1>5. ASSUME NEW g, NEW u \in D PROVE Body(g, u) = Sizes(rs, g, u)
  BY DEF Sizes, Qualified
<1>6. ASSUME NEW u \in D PROVE h[u] = Body(h, u)
  <2>1. h[u] = Sizes(rs, h, u)
    <3>1. CASE u \in End
      <4>1. h[u] = base[u]
        BY <1>4, <3>1
      <4>2. u = 0 \/ ~(rs[u].kind = "ARRAY" \/ Qualified(rs, u))
        BY <3>1 DEF Info!Derived, Qualified
      <4> QED
        BY <4>1, <4>2 DEF Sizes
    <3>2. CASE u \notin End
      <4>1. u # 0 /\ Info!Derived(rs[u])
        BY <3>2
      <4>2. rs[u].kind = "ARRAY" \/ Qualified(rs, u)
        BY <4>1 DEF Info!Derived, Qualified
      <4>3. /\ next[u] = rs[u].ref /\ next[u] \in D
            /\ factor[u] = IF rs[u].kind = "ARRAY" THEN rs[u].n ELSE 1
        BY <1>1, <4>1
      <4>4. h[u] = factor[u] * h[next[u]] /\ h[next[u]] \in Nat
        <5> HIDE DEF next, factor, base, End
        <5> QED
          BY <1>4, <3>2, <4>3
      <4>5. rs[u].kind \notin Info!Sized /\ rs[u].kind # "PTR"
            /\ (rs[u].kind = "ARRAY" => ~Qualified(rs, u))
        BY <4>2 DEF Qualified, Info!Sized, Info!Qualifiers
      <4>6. CASE rs[u].kind = "ARRAY"
        BY <4>1, <4>3, <4>4, <4>5, <4>6 DEF Sizes
      <4>7. CASE rs[u].kind # "ARRAY"
        <5>1. factor[u] = 1
          BY <4>3, <4>7
        <5>2. h[u] = h[next[u]]
          <6> HIDE DEF next, factor
          <6> QED
            BY <4>4, <5>1
        <5> QED
          BY <4>1, <4>2, <4>3, <4>5, <4>7, <5>2 DEF Sizes
      <4> QED
        BY <4>6, <4>7
    <3> QED
      BY <3>1, <3>2
  <2> HIDE DEF Body
  <2> QED
    BY <1>5, <2>1
<1>7. Is(h)
  <2> HIDE DEF Body, End, next, base, factor, D, N
  <2>1. h = [u \in D |-> h[u]]
    BY <1>4
  <2>2. \A u \in D : h[u] = Body(h, u)
    BY <1>6
  <2> QED
    BY <2>1, <2>2
<1>8. Info!CSize(rs) = CHOOSE g : Is(g)
  BY DEF Info!CSize
<1>9. Is(Info!CSize(rs))
  <2> HIDE DEF Is
  <2> QED
    BY <1>7, <1>8
<1> DEFINE c == Info!CSize(rs)
<1>10. DOMAIN c = D /\ \A u \in D : c[u] = Sizes(rs, c, u)
  <2> HIDE DEF Body, c
  <2>1. c = [u \in D |-> Body(c, u)]
    BY <1>9 DEF c
  <2> QED
    BY <1>5, <2>1
<1> HIDE DEF c
<1>11. ASSUME NEW u \in D, u \in End \/ c[rs[u].ref] \in Nat PROVE c[u] \in Nat
  <2>1. c[u] = Sizes(rs, c, u)
    BY <1>10
  <2>2. CASE u = 0
    BY <2>1, <2>2 DEF Sizes
  <2>3. CASE u # 0 /\ ~Info!Derived(rs[u])
    BY <2>1, <2>3, SaneRefs DEF Sizes, Info!Derived, Qualified
  <2>4. CASE u # 0 /\ Info!Derived(rs[u])
    <3>1. PICK m \in Nat : m = c[rs[u].ref]
      BY <1>11, <2>4
    <3>2. PICK n \in Nat : n = rs[u].n
      BY <2>4, SaneRefs
    <3>3. n * m \in Nat
      BY <3>1, <3>2
    <3> QED
      BY <2>1, <3>1, <3>2, <3>3 DEF Sizes
  <2> QED
    BY <2>2, <2>3, <2>4
<1>12. \A u \in D : c[u] \in Nat
  <2> DEFINE T == {u \in D : c[u] \notin Nat}
  <2>1. SUFFICES ASSUME T # {} PROVE FALSE
    OBVIOUS
  <2>2. \A u \in 1 .. N : u \notin End => Info!Derived(rs[u])
    BY <1>1
  <2>3. PICK u \in T : u \in End \/ rs[u].ref \notin T
    <3>1. T \in SUBSET D
      OBVIOUS
    <3> HIDE DEF End, T
    <3> QED
      BY <1>1, <2>1, <2>2, <3>1, SaneEnds
  <2>4. u \in D /\ c[u] \notin Nat
    OBVIOUS
  <2>5. u \notin End => rs[u].ref \in D
    BY <2>4, SaneRefs
  <2>6. u \in End \/ c[rs[u].ref] \in Nat
    BY <2>3, <2>5
  <2> QED
    BY <1>11, <2>4, <2>6
<1>13. c \in [D -> Nat]
  <2>1. c = [u \in D |-> Body(c, u)]
    BY <1>9 DEF c
  <2> HIDE DEF Body, D
  <2> QED
    BY <1>12, <2>1
<1> QED
  BY <1>10, <1>13 DEF c

(* Qualifiers do not change a size.                                        *)
LEMMA SameSize ==
  ASSUME NEW rs, Sane(rs), NEW t \in 0 .. Len(rs)
  PROVE  /\ Info!CBare(rs)[t] \in 0 .. Len(rs)
         /\ Info!CSize(rs)[Info!CBare(rs)[t]] = Info!CSize(rs)[t]
<1> DEFINE D == 0 .. Len(rs)
           b == Info!CBare(rs)
           c == Info!CSize(rs)
           End == {u \in D : ~(u # 0 /\ Qualified(rs, u))}
           T == {u \in D : ~(b[u] \in D /\ c[b[u]] = c[u])}
<1>1. SUFFICES ASSUME T # {} PROVE FALSE
  OBVIOUS
<1>2. PICK u \in T : u \in End \/ rs[u].ref \notin T
  <2>1. \A v \in 1 .. Len(rs) : v \notin End => Info!Derived(rs[v])
    BY SaneRefs DEF Info!Derived, Qualified
  <2>2. 0 \in End /\ T \in SUBSET D
    BY SaneRefs
  <2> HIDE DEF End, T
  <2> QED
    BY <1>1, <2>1, <2>2, SaneEnds
<1>3. u \in D /\ ~(b[u] \in D /\ c[b[u]] = c[u])
  OBVIOUS
<1>4. b[u] = IF u # 0 /\ Qualified(rs, u) THEN b[rs[u].ref] ELSE u
  BY <1>3, BareSays
<1>5. u # 0 /\ Qualified(rs, u)
  BY <1>3, <1>4
<1>6. rs[u].ref \in D /\ b[u] = b[rs[u].ref] /\ rs[u].ref \notin T
  BY <1>2, <1>3, <1>4, <1>5, SaneRefs
<1>7. c[u] = c[rs[u].ref]
  <2>1. rs[u].kind \notin Info!Sized /\ rs[u].kind # "PTR" /\ rs[u].kind # "ARRAY"
    BY <1>5 DEF Qualified, Info!Sized, Info!Qualifiers
  <2> QED
    BY <1>3, <1>5, <2>1, SizeSays DEF Sizes
<1> QED
  BY <1>3, <1>6, <1>7

LEMMA GetSays ==
  ASSUME NEW rs, Sane(rs), NEW u \in Nat
  PROVE  /\ u \in 1 .. Len(rs) => Info!get(Keep(rs), u) = Kept(rs[u])
         /\ u \notin 1 .. Len(rs) => Info!get(Keep(rs), u) = Info!Missing
         /\ Info!get(Keep(rs), u).val \in Nat
<1>1. Len(rs) \in Nat /\ Len(Keep(rs)) = Len(rs)
      /\ \A t \in 1 .. Len(rs) : Keep(rs)[t] = Kept(rs[t])
  BY SaneRefs DEF Keep
<1>2. u \in 1 .. Len(rs) => Info!get(Keep(rs), u) = Kept(rs[u])
  BY <1>1 DEF Info!get
<1>3. u \notin 1 .. Len(rs) => Info!get(Keep(rs), u) = Info!Missing
  BY <1>1 DEF Info!get
<1>4. u \in 1 .. Len(rs) => Info!SizeOrType(rs[u]) \in Nat
  BY SaneRefs, InfoSays
<1>5. Info!Missing.val \in Nat
  BY DEF Info!Missing
<1> QED
  BY <1>2, <1>3, <1>4, <1>5 DEF Kept

(* The type behind the qualifiers, or nothing at all.                      *)
Behind(rs, s, u) ==
  \/ s = Info!Missing
  \/ /\ u \in 0 .. Len(rs) /\ Info!CBare(rs)[u] \in 1 .. Len(rs)
     /\ s = Kept(rs[Info!CBare(rs)[u]])

LEMMA StripSays ==
  ASSUME Strips \in Nat, NEW rs, Sane(rs), NEW u \in Nat
  PROVE  Behind(rs, Info!strip(Keep(rs), u), u)
<1> DEFINE ts == Keep(rs)
           N == Len(rs)
           Over(x) == [v \in Nat |-> IF Info!get(ts, v).kind \in Info!Qualifiers
                                     THEN x[Info!get(ts, v).val] ELSE Info!get(ts, v)]
           V == {Info!get(ts, v) : v \in Nat} \cup {Info!Missing}
           X == [Nat -> V]
           F == [x \in X |-> Over(x)]
           none == [v \in Nat |-> Info!Missing]
           Is(h) == h = [i \in 0 .. Strips |->
                           [v \in Nat |->
                              IF i = 0 THEN Info!Missing
                              ELSE IF Info!get(ts, v).kind \in Info!Qualifiers
                                THEN h[i - 1][Info!get(ts, v).val]
                              ELSE Info!get(ts, v)]]
<1>1. \A v \in Nat : Info!get(ts, v).val \in Nat /\ Info!get(ts, v) \in V
  <2> HIDE DEF ts
  <2> QED
    BY GetSays DEF ts
<1>2. none \in X /\ F \in [X -> X]
  <2>1. ASSUME NEW x \in X PROVE Over(x) \in X
    <3> HIDE DEF ts, V
    <3> QED
      BY <1>1
  <2>2. none \in X
    OBVIOUS
  <2> HIDE DEF Over, X
  <2> QED
    BY <2>1, <2>2
<1>10. PICK h : Iterates(X, none, F, Strips, h)
  <2> HIDE DEF F, X, none
  <2> QED
    BY <1>2, Iterated
<1>3. /\ h \in [0 .. Strips -> X] /\ h[0] = none
      /\ \A i \in 1 .. Strips : h[i] = F[h[i - 1]]
  BY <1>10 DEF Iterates
<1>4. Is(h)
  <2>1. ASSUME NEW i \in 0 .. Strips
        PROVE  h[i] = [v \in Nat |->
                         IF i = 0 THEN Info!Missing
                         ELSE IF Info!get(ts, v).kind \in Info!Qualifiers
                           THEN h[i - 1][Info!get(ts, v).val]
                         ELSE Info!get(ts, v)]
    <3>1. CASE i = 0
      BY <1>3, <3>1
    <3>2. CASE i # 0
      <4>1. i \in 1 .. Strips /\ i - 1 \in 0 .. Strips
        BY <3>2
      <4>2. h[i] = Over(h[i - 1])
        <5> HIDE DEF Over, X
        <5> QED
          BY <1>3, <4>1
      <4> HIDE DEF ts
      <4> QED
        BY <3>2, <4>2
    <3> QED
      BY <3>1, <3>2
  <2>2. h = [i \in 0 .. Strips |-> h[i]]
    BY <1>3
  <2> HIDE DEF ts
  <2> QED
    BY <2>1, <2>2
<1> DEFINE go == CHOOSE g : Is(g)
<1>5. Is(go)
  <2> HIDE DEF Is
  <2> QED
    BY <1>4
<1>6. Info!strip(ts, u) = go[Strips][u]
  BY DEF Info!strip
<1> HIDE DEF go
<1> DEFINE G == {i \in Nat : i <= Strips => \A v \in Nat : Behind(rs, go[i][v], v)}
<1>7. 0 \in G
  <2>1. \A v \in Nat : go[0][v] = Info!Missing
    <3> HIDE DEF ts
    <3>1. go[0] = [v \in Nat |-> Info!Missing]
      BY <1>5
    <3> QED
      BY <3>1, SaneRefs
  <2> QED
    BY <2>1 DEF Behind
<1>8. ASSUME NEW i \in Nat, i \in G PROVE i + 1 \in G
  <2>1. SUFFICES ASSUME i + 1 <= Strips, NEW v \in Nat
                 PROVE  Behind(rs, go[i + 1][v], v)
    BY SMT
  <2>2. \A w \in Nat : Behind(rs, go[i][w], w)
    BY <1>8, <2>1
  <2>3. go[i + 1][v] = IF Info!get(ts, v).kind \in Info!Qualifiers
                         THEN go[i][Info!get(ts, v).val]
                         ELSE Info!get(ts, v)
    <3>1. PICK k \in 0 .. Strips : k = i + 1
      BY <2>1
    <3>2. k # 0 /\ k - 1 = i
      BY <3>1
    <3> HIDE DEF ts
    <3>3. go[k] = [w \in Nat |-> IF k = 0 THEN Info!Missing
                                ELSE IF Info!get(ts, w).kind \in Info!Qualifiers
                                  THEN go[k - 1][Info!get(ts, w).val]
                                ELSE Info!get(ts, w)]
      BY <1>5
    <3> QED
      BY <3>1, <3>2, <3>3
  <2>4. CASE v \notin 1 .. N
    <3>1. Info!get(ts, v) = Info!Missing
      BY <2>3, <2>4, GetSays
    <3>2. Info!Missing.kind \notin Info!Qualifiers
      BY DEF Info!Missing, Info!Qualifiers
    <3> QED
      BY <2>3, <3>1, <3>2 DEF Behind
  <2>5. CASE v \in 1 .. N
    <3>1. v \in 1 .. N
      BY <2>5
    <3>2. Info!get(ts, v) = Kept(rs[v])
      BY <2>3, <3>1, GetSays
    <3>3. Info!get(ts, v).kind = rs[v].kind /\ Info!get(ts, v).val = Info!SizeOrType(rs[v])
      BY <3>2 DEF Kept
    <3>4. CASE Qualified(rs, v)
      <4>1. Info!SizeOrType(rs[v]) = rs[v].ref
        BY <3>4 DEF Qualified, Info!SizeOrType, Info!Qualifiers, Info!Sized
      <4>2. rs[v].ref \in 0 .. N
        BY <3>1, SaneRefs
      <4>3. go[i + 1][v] = go[i][rs[v].ref]
        BY <2>3, <3>3, <3>4, <4>1 DEF Qualified
      <4>4. v # 0 /\ v \in 0 .. N /\ N \in Nat
        BY <3>1, SaneRefs
      <4>5. Info!CBare(rs)[v] = Info!CBare(rs)[rs[v].ref]
        BY <3>4, <4>4, BareSays
      <4>6. rs[v].ref \in Nat
        BY <4>2
      <4> QED
        BY <2>2, <4>3, <4>4, <4>5, <4>6 DEF Behind
    <3>5. CASE ~Qualified(rs, v)
      <4>1. Info!CBare(rs)[v] = v /\ v \in 0 .. N
        BY <3>1, <3>5, BareSays
      <4>2. go[i + 1][v] = Kept(rs[v])
        BY <2>3, <3>2, <3>3, <3>5 DEF Qualified
      <4> QED
        BY <3>1, <4>1, <4>2 DEF Behind
    <3> QED
      BY <3>4, <3>5
  <2> QED
    BY <2>4, <2>5
<1>9. Strips \in G
  <2> HIDE DEF G
  <2> QED
    BY <1>7, <1>8, Induct
<1> QED
  BY <1>6, <1>9

LEMMA StripData ==
  ASSUME NEW rs, Sane(rs), NEW u, NEW s, Behind(rs, s, u)
  PROVE  /\ s.val \in Nat
         /\ s.kind = "ARRAY" => s.data[1] \in 0 .. Len(rs) /\ s.data[3] \in Nat
<1>1. CASE s = Info!Missing
  BY <1>1 DEF Info!Missing
<1>2. CASE s # Info!Missing
  <2>1. PICK t \in 1 .. Len(rs) : s = Kept(rs[t])
    BY <1>2 DEF Behind
  <2>2. PICK r \in Info!Record : r = rs[t] /\ r.ref \in 0 .. Len(rs) /\ r.n \in Nat
    BY SaneRefs
  <2>3. s.kind = r.kind /\ s.val = Info!SizeOrType(r) /\ s.data = Info!Data(r)
    BY <2>1, <2>2 DEF Kept
  <2>4. s.val \in Nat
    BY <2>3, InfoSays
  <2>5. r.kind = "ARRAY" => Info!Data(r) = << r.ref, 1, r.n >>
    BY DEF Info!Data
  <2> QED
    BY <2>2, <2>3, <2>4, <2>5
<1> QED
  BY <1>1, <1>2

(* A size found is the one C has, or 0.                                    *)
LEMMA SizeFound ==
  ASSUME Strips \in Nat, NEW rs, Sane(rs), NEW t \in 0 .. Len(rs)
  PROVE  Info!size_of(Keep(rs), t) \in {0, Info!CSize(rs)[t]}
<1> DEFINE ts == Keep(rs)
           N == Len(rs)
           K == Len(ts)
           c == Info!CSize(rs)
           b == Info!CBare(rs)
           s == [u \in Nat |-> Info!strip(ts, u)]
           Value(i, u, x) == IF s[u].kind \in Info!Sized THEN s[u].val
                             ELSE IF s[u].kind = "PTR" THEN 8
                             ELSE IF s[u].kind = "ARRAY" /\ i > 0
                               THEN s[u].data[3] * x[s[u].data[1]]
                             ELSE 0
           X == [Nat -> Nat]
           F == [x \in X |-> [u \in Nat |-> Value(1, u, x)]]
           flat == [u \in Nat |-> Value(0, u, [v \in Nat |-> 0])]
           Is(h) == h = [i \in 0 .. K |-> [u \in Nat |-> Value(i, u, h[i - 1])]]
<1>1. /\ N \in Nat /\ K = N
      /\ \A u \in Nat : Behind(rs, s[u], u)
  <2>1. N \in Nat /\ K = N
    BY SaneRefs DEF Keep
  <2>2. ASSUME NEW u \in Nat PROVE Behind(rs, s[u], u)
    <3>1. s[u] = Info!strip(ts, u)
      OBVIOUS
    <3> HIDE DEF s
    <3> QED
      BY <3>1, StripSays
  <2> QED
    BY <2>1, <2>2
<1>2. \A u \in Nat : /\ s[u].val \in Nat
                     /\ s[u].kind = "ARRAY" => s[u].data[1] \in 0 .. N /\ s[u].data[3] \in Nat
  <2> HIDE DEF s
  <2> QED
    BY <1>1, StripData
<1> HIDE DEF s
<1>3. ASSUME NEW x \in X, NEW u \in Nat, NEW i \in Nat PROVE Value(i, u, x) \in Nat
  <2>1. CASE s[u].kind = "ARRAY"
    <3>4. s[u].data[1] \in Nat
      <4>1. \A j \in 0 .. N : j \in Nat
        BY <1>1
      <4>2. s[u].data[1] \in 0 .. N
        BY <1>2, <2>1
      <4> HIDE DEF N
      <4> QED
        BY <4>1, <4>2
    <3>1. PICK m \in Nat : m = x[s[u].data[1]]
      BY <3>4
    <3>2. PICK n \in Nat : n = s[u].data[3]
      BY <1>2, <2>1
    <3>3. n * m \in Nat
      <4>1. \A j, k \in Nat : j * k \in Nat
        OBVIOUS
      <4> QED
        BY <4>1
    <3> QED
      BY <1>2, <3>1, <3>2, <3>3
  <2>2. CASE s[u].kind # "ARRAY"
    BY <1>2, <2>2
  <2> QED
    BY <2>1, <2>2
<1>4. flat \in X /\ F \in [X -> X]
  <2>1. [v \in Nat |-> 0] \in X
    OBVIOUS
  <2>2. flat \in X
    <3>1. \A u \in Nat : Value(0, u, [v \in Nat |-> 0]) \in Nat
      <4> HIDE DEF Value, X
      <4> QED
        BY <1>3, <2>1
    <3> HIDE DEF Value
    <3> QED
      BY <3>1
  <2>3. ASSUME NEW x \in X PROVE [u \in Nat |-> Value(1, u, x)] \in X
    <3>1. \A u \in Nat : Value(1, u, x) \in Nat
      <4> HIDE DEF Value, X
      <4> QED
        BY <1>3
    <3> HIDE DEF Value
    <3> QED
      BY <3>1
  <2> HIDE DEF Value, X, flat
  <2> QED
    BY <2>2, <2>3
<1>5. PICK h : Iterates(X, flat, F, K, h)
  <2> HIDE DEF F, X, flat, K
  <2> QED
    BY <1>1, <1>4, Iterated
<1>6. /\ h \in [0 .. K -> X] /\ h[0] = flat
      /\ \A i \in 1 .. K : h[i] = F[h[i - 1]]
  BY <1>5 DEF Iterates
<1>7. Is(h)
  <2>1. ASSUME NEW i \in 0 .. K PROVE h[i] = [u \in Nat |-> Value(i, u, h[i - 1])]
    <3>1. CASE i = 0
      <4>1. h[i] = flat
        BY <1>6, <3>1
      <4>2. \A u \in Nat : Value(0, u, [v \in Nat |-> 0]) = Value(i, u, h[i - 1])
        BY <3>1
      <4> HIDE DEF Value
      <4> QED
        BY <4>1, <4>2
    <3>2. CASE i # 0
      <4>1. i \in 1 .. K /\ i - 1 \in 0 .. K /\ i > 0
        BY <1>1, <3>2
      <4>2. h[i] = [u \in Nat |-> Value(1, u, h[i - 1])]
        <5> HIDE DEF Value, X
        <5> QED
          BY <1>6, <4>1
      <4>3. \A u \in Nat : Value(1, u, h[i - 1]) = Value(i, u, h[i - 1])
        BY <4>1
      <4> HIDE DEF Value
      <4> QED
        BY <4>2, <4>3
    <3> QED
      BY <3>1, <3>2
  <2>2. h = [i \in 0 .. K |-> h[i]]
    BY <1>6
  <2> HIDE DEF Value
  <2> QED
    BY <2>1, <2>2
<1> DEFINE size == CHOOSE g : Is(g)
<1>8. Is(size)
  <2> HIDE DEF Is
  <2> QED
    BY <1>7
<1>9. Info!size_of(ts, t) = size[K][t]
  BY DEF Info!size_of, s
<1> HIDE DEF size
<1> DEFINE G == {i \in Nat : i <= K => \A u \in 0 .. N : size[i][u] \in {0, c[u]}}
<1>10. ASSUME NEW i \in 0 .. K, NEW u \in Nat PROVE size[i][u] = Value(i, u, size[i - 1])
  <2>1. size[i] = [v \in Nat |-> Value(i, v, size[i - 1])]
    <3> HIDE DEF Value
    <3> QED
      BY <1>8
  <2> HIDE DEF Value
  <2> QED
    BY <2>1
<1>11. ASSUME NEW i \in 0 .. K, NEW u \in 0 .. N,
              i > 0 => \A v \in 0 .. N : size[i - 1][v] \in {0, c[v]}
       PROVE  size[i][u] \in {0, c[u]}
  <2>1. u \in Nat /\ size[i][u] = Value(i, u, size[i - 1])
    <3>1. u \in Nat
      BY <1>1
    <3> HIDE DEF Value
    <3> QED
      BY <1>10, <3>1
  <2>2. CASE s[u] = Info!Missing
    BY <2>1, <2>2 DEF Info!Missing, Info!Sized
  <2>3. CASE s[u] # Info!Missing
    <3>1. PICK p \in 1 .. N : p = b[u] /\ s[u] = Kept(rs[p])
      BY <1>1, <2>1, <2>3 DEF Behind
    <3>2. p \in 0 .. N /\ p # 0
      BY <1>1, <3>1
    <3>3. c[u] = c[p]
      BY <3>1, SameSize
    <3>4. c[p] = Sizes(rs, c, p)
      BY <3>2, SizeSays
    <3>5. PICK r \in Info!Record : r = rs[p] /\ r.ref \in 0 .. N /\ r.n \in Nat
      BY <3>1, SaneRefs
    <3>6. s[u].kind = r.kind /\ s[u].val = Info!SizeOrType(r) /\ s[u].data = Info!Data(r)
      BY <3>1, <3>5 DEF Kept
    <3>7. CASE r.kind \in Info!Sized
      <4>1. s[u].val = r.n
        BY <3>6, <3>7 DEF Info!SizeOrType
      <4> QED
        BY <2>1, <3>2, <3>3, <3>4, <3>5, <3>6, <3>7, <4>1 DEF Sizes
    <3>8. CASE r.kind \notin Info!Sized /\ r.kind = "PTR"
      BY <2>1, <3>2, <3>3, <3>4, <3>5, <3>6, <3>8 DEF Sizes
    <3>9. CASE r.kind \notin Info!Sized /\ r.kind = "ARRAY" /\ i > 0
      <4>1. s[u].data[1] = r.ref /\ s[u].data[3] = r.n
        BY <3>6, <3>9 DEF Info!Data
      <4>2. size[i][u] = r.n * size[i - 1][r.ref]
        BY <2>1, <3>6, <3>9, <4>1
      <4>3. c[u] = r.n * c[r.ref]
        BY <3>2, <3>3, <3>4, <3>5, <3>9 DEF Sizes
      <4>4. size[i - 1][r.ref] \in {0, c[r.ref]}
        BY <1>11, <3>5, <3>9
      <4>5. r.n * 0 = 0
        BY <3>5
      <4> QED
        BY <4>2, <4>3, <4>4, <4>5
    <3>10. CASE r.kind \notin Info!Sized /\ r.kind # "PTR" /\ ~(r.kind = "ARRAY" /\ i > 0)
      BY <2>1, <3>6, <3>10
    <3> QED
      BY <3>7, <3>8, <3>9, <3>10
  <2> QED
    BY <2>2, <2>3
<1>12. 0 \in G
  <2>1. 0 \in 0 .. K
    BY <1>1
  <2> HIDE DEF K
  <2> QED
    BY <1>11, <2>1
<1>13. ASSUME NEW i \in Nat, i \in G PROVE i + 1 \in G
  <2>1. SUFFICES ASSUME i + 1 <= K, NEW u \in 0 .. N
                 PROVE  size[i + 1][u] \in {0, c[u]}
    <3> HIDE DEF K, N
    <3> QED
      BY SMT
  <2>2. PICK k \in 0 .. K : k = i + 1 /\ k - 1 = i /\ k > 0
    BY <1>1, <2>1
  <2>3. \A v \in 0 .. N : size[k - 1][v] \in {0, c[v]}
    <3>1. i <= K
      BY <1>1, <2>1
    <3> HIDE DEF K, N
    <3> QED
      BY <1>13, <2>2, <3>1
  <2> HIDE DEF K, N
  <2> QED
    BY <1>11, <2>2, <2>3
<1>14. K \in G
  <2> HIDE DEF G
  <2> QED
    BY <1>1, <1>12, <1>13, Induct
<1> QED
  BY <1>1, <1>9, <1>14

(* The size found for a member of a map's declaration is the declared one. *)
LEMMA KeySays ==
  ASSUME obj \in Objects, NEW d, d.tid \in 0 .. Len(obj.records),
         d.how \in {"key", "key_size"},
         Info!key_size(Keep(obj.records), d) # 0
  PROVE  /\ Info!key_size(Keep(obj.records), d) = Info!Declared(d)
         /\ Info!Declared(d) \in Nat
<1> DEFINE rs == obj.records
           ts == Keep(rs)
           N == Len(rs)
           p == Info!strip(ts, d.tid)
           a == Info!strip(ts, p.val)
           b == Info!CBare(rs)
<1>1. Sane(rs) /\ Strips \in Nat /\ N \in Nat /\ d.tid \in Nat
  <2>1. Sane(rs) /\ Strips \in Nat
    BY ObjectsAssumption DEF Sane
  <2>2. N \in Nat
    BY <2>1, SaneRefs
  <2> QED
    BY <2>1, <2>2
<1>2. Behind(rs, p, d.tid)
  BY <1>1, StripSays
<1>3. p.kind = "PTR"
  <2>1. CASE d.how = "key"
    BY <2>1 DEF Info!key_size, Info!type_size
  <2>2. CASE d.how # "key"
    BY <2>2 DEF Info!key_size, Info!uint_value
  <2> QED
    BY <2>1, <2>2
<1>4. p # Info!Missing
  BY <1>3 DEF Info!Missing
<1>5. b[d.tid] \in 1 .. N /\ p = Kept(rs[b[d.tid]])
  <2> HIDE DEF p, b, N
  <2> QED
    BY <1>2, <1>4 DEF Behind, b, N
<1>6. PICK q \in 1 .. N : q = b[d.tid]
  BY <1>5
<1>7. PICK r \in Info!Record : r = rs[q] /\ r.ref \in 0 .. N
  BY <1>1, <1>6, SaneRefs
<1>8. r.kind = "PTR" /\ p.val = r.ref
  <2>1. p.kind = r.kind /\ p.val = Info!SizeOrType(r)
    <3> HIDE DEF p
    <3> QED
      BY <1>5, <1>6, <1>7 DEF Kept
  <2>2. "PTR" \notin Info!Sized
    BY DEF Info!Sized
  <2> HIDE DEF p
  <2> QED
    BY <1>3, <2>1, <2>2 DEF Info!SizeOrType
<1>9. q # 0
  OBVIOUS
<1>10. CASE d.how = "key"
  <2>1. Info!key_size(ts, d) = Info!size_of(ts, p.val)
    BY <1>3, <1>10 DEF Info!key_size, Info!type_size
  <2>2. Info!size_of(ts, p.val) \in {0, Info!CSize(rs)[r.ref]}
    <3> HIDE DEF p, ts
    <3> QED
      BY <1>1, <1>7, <1>8, SizeFound DEF ts
  <2>3. Info!Declared(d) = Info!CSize(rs)[r.ref]
    BY <1>6, <1>7, <1>8, <1>9, <1>10 DEF Info!Declared
  <2>4. Info!CSize(rs)[r.ref] \in Nat
    BY <1>1, <1>7, SizeSays
  <2> HIDE DEF p, ts
  <2> QED
    BY <2>1, <2>2, <2>3, <2>4 DEF ts
<1>11. CASE d.how # "key"
  <2>1. a.kind = "ARRAY" /\ Info!key_size(ts, d) = a.data[3]
    BY <1>3, <1>11 DEF Info!key_size, Info!uint_value
  <2>2. Behind(rs, a, r.ref)
    <3>1. r.ref \in Nat
      BY <1>1, <1>7
    <3>2. a = Info!strip(ts, r.ref)
      BY <1>8
    <3> HIDE DEF a, ts
    <3> QED
      BY <1>1, <3>1, <3>2, StripSays DEF ts
  <2> HIDE DEF a
  <2>3. a # Info!Missing
    BY <2>1 DEF Info!Missing
  <2>4. PICK e \in 1 .. N : e = b[r.ref] /\ a = Kept(rs[e])
    BY <2>2, <2>3 DEF Behind
  <2>5. rs[e].kind = "ARRAY" /\ a.data = Info!Data(rs[e])
    BY <2>1, <2>4 DEF Kept
  <2>6. a.data[3] = rs[e].n
    BY <2>5 DEF Info!Data
  <2>8. e # 0 /\ b[r.ref] = e /\ b[d.tid] = q
    BY <1>6, <2>4
  <2>7. Info!Declared(d) = rs[e].n
    <3> HIDE DEF b
    <3>1. rs[q].kind = "PTR" /\ rs[q] = r
      BY <1>7, <1>8
    <3> QED
      BY <1>9, <1>11, <2>5, <2>8, <3>1 DEF Info!Declared, b
  <2>9. rs[e].n \in Nat
    BY <1>1, SaneRefs
  <2> QED
    BY <2>1, <2>6, <2>7, <2>9
<1> QED
  BY <1>10, <1>11
-----------------------------------------------------------------------------
(* ---------------------- the maps, and their order ---------------------- *)
Keyed(S) ==
  /\ IsFiniteSet(S)
  /\ \A a \in S : a.name \in Nat
  /\ \A a, b \in S : a.name = b.name => a = b
InOrder(q) == \A i, j \in DOMAIN q : i < j => q[i].name < q[j].name

(* Every set can be put in order.                                          *)
LEMMA Ordered ==
  ASSUME NEW S, Keyed(S)
  PROVE  \E q \in [1 .. Cardinality(S) -> S] : InOrder(q)
<1> DEFINE G == {n \in Nat : \A T : Keyed(T) /\ Cardinality(T) = n =>
                               \E q \in [1 .. n -> T] : InOrder(q)}
<1>1. 0 \in G
  <2>1. ASSUME NEW T, Keyed(T), Cardinality(T) = 0
        PROVE  \E q \in [1 .. 0 -> T] : InOrder(q)
    <3>1. [i \in 1 .. 0 |-> 0] \in [1 .. 0 -> T] /\ InOrder([i \in 1 .. 0 |-> 0])
      BY DEF InOrder
    <3> QED
      BY <3>1
  <2> QED
    BY <2>1
<1>2. ASSUME NEW n \in Nat, n \in G PROVE n + 1 \in G
  <2>1. SUFFICES ASSUME NEW T, Keyed(T), Cardinality(T) = n + 1
                 PROVE  \E q \in [1 .. n + 1 -> T] : InOrder(q)
    OBVIOUS
  <2>2. IsFiniteSet(T) /\ T # {}
    BY <2>1, FS_EmptySet DEF Keyed
  <2>3. PICK m \in T : \A a \in T : m.name <= a.name
    <3>1. {a.name : a \in T} \in SUBSET Nat /\ {a.name : a \in T} # {}
      BY <2>1, <2>2 DEF Keyed
    <3>2. PICK k \in {a.name : a \in T} : \A j \in {a.name : a \in T} : k <= j
      BY <3>1, Smallest
    <3> QED
      BY <3>2
  <2> DEFINE U == T \ {m}
  <2>4. Keyed(U) /\ Cardinality(U) = n
    <3>1. IsFiniteSet(U) /\ Cardinality(U) = (n + 1) - 1
      BY <2>1, <2>2, FS_RemoveElement
    <3> QED
      BY <2>1, <3>1 DEF Keyed
  <2>5. PICK p \in [1 .. n -> U] : InOrder(p)
    <3> HIDE DEF U
    <3> QED
      BY <1>2, <2>4
  <2>6. \A a \in U : m.name < a.name
    <3>1. \A a \in U : a \in T /\ a # m /\ m.name <= a.name /\ a.name # m.name
      BY <2>1, <2>3 DEF Keyed
    <3>2. \A a \in T : a.name \in Nat
      BY <2>1 DEF Keyed
    <3> QED
      BY <3>1, <3>2
  <2> DEFINE q == [i \in 1 .. n + 1 |-> IF i = 1 THEN m ELSE p[i - 1]]
  <2>7. q \in [1 .. n + 1 -> T]
    <3>1. \A i \in 1 .. n + 1 : i # 1 => p[i - 1] \in U
      BY <2>5
    <3> QED
      BY <2>3, <3>1
  <2>8. ASSUME NEW i \in 1 .. n + 1, NEW j \in 1 .. n + 1, i < j
        PROVE  q[i].name < q[j].name
    <3>1. j # 1 /\ j - 1 \in 1 .. n /\ q[j] = p[j - 1]
      BY <2>8
    <3>2. p[j - 1] \in U
      BY <2>5, <3>1
    <3>3. CASE i = 1
      <4> HIDE DEF U
      <4> QED
        BY <2>6, <3>1, <3>2, <3>3
    <3>4. CASE i # 1
      <4>1. i - 1 \in 1 .. n /\ i - 1 < j - 1 /\ q[i] = p[i - 1]
        BY <2>8, <3>4
      <4>2. DOMAIN p = 1 .. n
        BY <2>5
      <4> HIDE DEF q
      <4> QED
        BY <2>5, <3>1, <4>1, <4>2 DEF InOrder
    <3> QED
      BY <3>3, <3>4
  <2>9. DOMAIN q = 1 .. n + 1
    OBVIOUS
  <2>10. InOrder(q)
    <3> HIDE DEF q
    <3> QED
      BY <2>8, <2>9 DEF InOrder
  <2> HIDE DEF q
  <2> QED
    BY <2>7, <2>10
<1>3. Nat \subseteq G
  <2> HIDE DEF G
  <2> QED
    BY <1>1, <1>2, Induct
<1>4. Cardinality(S) \in Nat
  BY FS_CardinalityType DEF Keyed
<1>5. Cardinality(S) \in G
  <2> HIDE DEF G
  <2> QED
    BY <1>3, <1>4
<1> QED
  BY <1>5

(* Sorting loses nothing.                                                  *)
LEMMA Sorts ==
  ASSUME NEW S, Keyed(S)
  PROVE  /\ Cardinality(S) \in Nat
         /\ ByName(S) \in [1 .. Cardinality(S) -> S]
         /\ InOrder(ByName(S))
         /\ \A a \in S : \E i \in 1 .. Cardinality(S) : ByName(S)[i] = a
<1>1. PICK n \in Nat : n = Cardinality(S)
  BY FS_CardinalityType DEF Keyed
<1> DEFINE B == ByName(S)
<1>2. B \in [1 .. n -> S] /\ InOrder(B)
  <2> DEFINE P(q) == \A i, j \in DOMAIN q : i < j => q[i].name < q[j].name
  <2>1. \E q \in [1 .. n -> S] : P(q)
    BY <1>1, Ordered DEF InOrder
  <2>2. B = CHOOSE q \in [1 .. n -> S] : P(q)
    BY <1>1 DEF ByName
  <2>3. B \in [1 .. n -> S] /\ P(B)
    <3> HIDE DEF P, B
    <3> QED
      BY <2>1, <2>2
  <2> HIDE DEF B
  <2> QED
    BY <2>3 DEF InOrder
<1> HIDE DEF B
<1>3. ASSUME NEW i \in 1 .. n, NEW j \in 1 .. n, B[i] = B[j] PROVE i = j
  <2>1. B[i].name \in Nat /\ B[j].name \in Nat
    BY <1>2 DEF Keyed
  <2>2. ~(i < j) /\ ~(j < i)
    BY <1>2, <1>3, <2>1 DEF InOrder
  <2> QED
    BY <2>2
<1>4. B \in Injection(1 .. n, S)
  BY <1>2, <1>3 DEF Injection, IsInjective
<1>5. Cardinality(1 .. n) = n /\ IsFiniteSet(S)
  BY FS_Interval DEF Keyed
<1>6. B \in Surjection(1 .. n, S)
  BY <1>1, <1>4, <1>5, FS_Injection
<1>7. \A a \in S : \E i \in 1 .. n : B[i] = a
  BY <1>6 DEF Surjection
<1> QED
  BY <1>1, <1>2, <1>7 DEF B

Declares(m) == \E d \in ToSet(obj.decls) : d.name = m.name /\ m.key_size = Info!Declared(d)
Rest(k)     == SubSeq(obj.decls, k + 1, Len(obj.decls))
AllUpTo(k)  == \A i \in 1 .. k : obj.decls[i].name \in Found
Later       == {"pick", "relocs", "translate", "emit"}

(* Every map found is declared with its size, none is there twice, and     *)
(* without an error every declaration that has been looked at is there.    *)
MapsInv ==
  /\ maps \in Seq([name : MapNames, key_size : Nat])
  /\ \A i, j \in DOMAIN maps : maps[i].name = maps[j].name => i = j
  /\ \A i \in DOMAIN maps : Declares(maps[i])
  /\ pc \in {"options", "read", "walk"} => todo = <<>> /\ maps = <<>>
  /\ pc = "discover" =>
       \/ todo = <<>> /\ error
       \/ obj.btf /\ \E k \in 0 .. Len(obj.decls) : todo = Rest(k) /\ (error \/ AllUpTo(k))
  /\ pc \in Later => InOrder(maps) /\ (error \/ AllUpTo(Len(obj.decls)))

LEMMA DeclaresStill ==
  ASSUME obj' = obj, NEW m, Declares(m)
  PROVE  Declares(m)'
BY DEF Declares, Info!Declared

LEMMA MapsAre ==
  ASSUME MapsInv
  PROVE  /\ Found = {maps[i].name : i \in DOMAIN maps}
         /\ DOMAIN maps = 1 .. Len(maps) /\ Len(maps) \in Nat
BY DEF Found, ToSet, MapsInv

LEMMA DeclareStep ==
  ASSUME WalkInv, MapsInv, Declare
  PROVE  MapsInv'
<1> DEFINE N == Len(obj.decls)
           Md == [name : MapNames, key_size : Nat]
           d == Head(todo)
           n == Info!key_size(types, d)
<1>1. /\ pc = "discover" /\ pc' = pc /\ todo # <<>> /\ todo' = Tail(todo) /\ obj' = obj
      /\ \/ /\ n = 0 \/ (n # 0 /\ d.name \notin Found /\ Len(maps) >= MAX_MAPS)
            /\ Report /\ UNCHANGED maps
         \/ /\ n # 0 /\ d.name \in Found
            /\ UNCHANGED <<maps, error>>
         \/ /\ n # 0 /\ d.name \notin Found
            /\ maps' = Append(maps, [name |-> d.name, key_size |-> n]) /\ UNCHANGED error
  BY DEF Declare, outside
<1>2. /\ obj \in Objects
      /\ obj.decls \in Seq([name : MapNames, how : {"key", "key_size"}, tid : 0 .. Len(obj.records)])
      /\ N \in Nat
  BY ObjectsAssumption, LenProperties DEF WalkInv
<1>3. PICK k \in 0 .. N : obj.btf /\ todo = Rest(k) /\ (error \/ AllUpTo(k))
  BY <1>1 DEF MapsInv
<1>4. k < N
  <2>1. SUFFICES ASSUME k = N PROVE FALSE
    BY <1>2
  <2>2. Rest(k) = <<>>
    BY <1>2, <2>1, SubSeqEmpty DEF Rest
  <2> QED
    BY <1>1, <1>3, <2>2
<1>5. PICK l \in 1 .. N : l = k + 1
  BY <1>2, <1>4
<1>6. d = obj.decls[l] /\ Tail(todo) = Rest(l)
  <2>1. todo = SubSeq(obj.decls, l, N)
    BY <1>3, <1>5 DEF Rest
  <2>2. N \in l .. N
    BY <1>2
  <2>3. /\ Head(SubSeq(obj.decls, l, N)) = obj.decls[l]
        /\ Tail(SubSeq(obj.decls, l, N)) = SubSeq(obj.decls, l + 1, N)
    <3> HIDE DEF N
    <3> QED
      BY <1>2, <2>2, HeadTailOfSubSeq DEF N
  <2> QED
    BY <2>1, <2>3 DEF Rest
<1>7. /\ d.name \in MapNames /\ d.how \in {"key", "key_size"}
      /\ d.tid \in 0 .. Len(obj.records) /\ d \in ToSet(obj.decls)
  <2>1. obj.decls[l] \in [name : MapNames, how : {"key", "key_size"}, tid : 0 .. Len(obj.records)]
    BY <1>2, ElementOfSeq
  <2>2. DOMAIN obj.decls = 1 .. N
    BY <1>2
  <2>3. obj.decls[l] \in ToSet(obj.decls)
    BY <2>2 DEF ToSet
  <2> HIDE DEF d
  <2> QED
    BY <1>6, <2>1, <2>3
<1>8. types = Keep(obj.records)
  BY <1>1, <1>3 DEF WalkInv, Reached, Keep
<1>9. n # 0 => n = Info!Declared(d) /\ n \in Nat
  <2> HIDE DEF d
  <2> QED
    BY <1>2, <1>7, <1>8, KeySays
<1> HIDE DEF d, n
<1>10. /\ Found = {maps[i].name : i \in DOMAIN maps}
       /\ DOMAIN maps = 1 .. Len(maps) /\ Len(maps) \in Nat
  BY MapsAre
<1>11. l \in 0 .. N /\ todo' = Rest(l)'
  BY <1>1, <1>2, <1>5, <1>6, SMTT(60) DEF Rest
<1>12. CASE UNCHANGED maps /\ (error' = TRUE \/ (d.name \in Found /\ UNCHANGED error))
  <2>1. Found' = Found
    BY <1>12 DEF Found
  <2>2. error' \/ AllUpTo(l)'
    <3>1. CASE error' = TRUE
      BY <3>1
    <3>2. CASE error' # TRUE
      <4>1. UNCHANGED error /\ d.name \in Found
        BY <1>12, <3>2
      <4>2. AllUpTo(k) \/ error
        BY <1>3
      <4>3. \A i \in 1 .. l : i \in 1 .. k \/ i = l
        BY <1>5
      <4> QED
        BY <1>1, <1>6, <2>1, <4>1, <4>2, <4>3 DEF AllUpTo
    <3> QED
      BY <3>1, <3>2
  <2>3. (\A i \in DOMAIN maps : Declares(maps[i]))'
    <3>1. PICK w : w = maps
      OBVIOUS
    <3>2. \A i \in DOMAIN w : Declares(w[i])'
      BY <1>1, <3>1, DeclaresStill DEF MapsInv
    <3> QED
      BY <1>12, <3>1, <3>2
  <2> QED
    BY <1>1, <1>3, <1>11, <1>12, <2>2, <2>3 DEF MapsInv, Later
<1>13. CASE /\ n # 0 /\ d.name \notin Found
            /\ maps' = Append(maps, [name |-> d.name, key_size |-> n]) /\ UNCHANGED error
  <2>1. PICK L \in Nat : L = Len(maps)
    BY <1>10
  <2> DEFINE m == [name |-> d.name, key_size |-> n]
  <2>2. m \in Md
    BY <1>7, <1>9, <1>13
  <2>3. maps \in Seq(Md)
    BY DEF MapsInv
  <2> HIDE DEF m, Md
  <2>4. /\ maps' \in Seq(Md) /\ Len(maps') = L + 1 /\ DOMAIN maps' = 1 .. L + 1
        /\ \A i \in 1 .. L : maps'[i] = maps[i]
        /\ maps'[L + 1] = m
    BY <1>13, <2>1, <2>2, <2>3 DEF m
  <2>5. \A i \in 1 .. L : maps[i].name # m.name
    BY <1>10, <1>13, <2>1 DEF m
  <2>6. \A i, j \in DOMAIN maps' : maps'[i].name = maps'[j].name => i = j
    <3>1. \A i \in 1 .. L + 1 : i \in 1 .. L \/ i = L + 1
      BY <2>1
    <3>2. \A i, j \in 1 .. L : maps[i].name = maps[j].name => i = j
      BY <1>10, <2>1 DEF MapsInv
    <3> QED
      BY <2>4, <2>5, <3>1, <3>2
  <2>7. Declares(m)
    BY <1>7, <1>9, <1>13 DEF Declares, m
  <2>8. \A i \in DOMAIN maps' : Declares(maps'[i])
    <3>1. \A i \in 1 .. L + 1 : i \in 1 .. L \/ i = L + 1
      BY <2>1
    <3>2. \A i \in 1 .. L : Declares(maps[i])
      BY <1>10, <2>1 DEF MapsInv
    <3> QED
      BY <2>4, <2>7, <3>1, <3>2
  <2>9. (\A i \in DOMAIN maps : Declares(maps[i]))'
    <3>1. PICK w : w = maps'
      OBVIOUS
    <3>2. \A i \in DOMAIN w : Declares(w[i])'
      BY <1>1, <2>8, <3>1, DeclaresStill
    <3> QED
      BY <3>1, <3>2
  <2>10. Found' = Found \cup {d.name}
    <3>1. Found' = {maps'[i].name : i \in DOMAIN maps'}
      BY DEF Found, ToSet
    <3>2. \A i \in 1 .. L + 1 : i \in 1 .. L \/ i = L + 1
      BY <2>1
    <3>3. m.name = d.name /\ L + 1 \in 1 .. L + 1 /\ \A i \in 1 .. L : i \in 1 .. L + 1
      BY <2>1 DEF m
    <3> QED
      BY <1>10, <2>1, <2>4, <3>1, <3>2, <3>3
  <2>11. error' \/ AllUpTo(l)'
    <3>1. \A i \in 1 .. l : i \in 1 .. k \/ i = l
      BY <1>5
    <3> QED
      BY <1>1, <1>3, <1>6, <1>13, <2>10, <3>1 DEF AllUpTo
  <2> QED
    BY <1>1, <1>3, <1>11, <2>4, <2>6, <2>9, <2>11 DEF MapsInv, Md, Later
<1> QED
  BY <1>1, <1>12, <1>13 DEF Report

LEMMA SortStep ==
  ASSUME WalkInv, MapsInv, SortMaps
  PROVE  MapsInv'
<1> DEFINE S == ToSet(maps)
           Md == [name : MapNames, key_size : Nat]
<1>1. /\ pc = "discover" /\ pc' = "pick" /\ todo = <<>> /\ UNCHANGED <<obj, todo, error>>
      /\ maps' = ByName(S)
  BY DEF SortMaps, outside
<1>2. /\ maps \in Seq(Md) /\ DOMAIN maps = 1 .. Len(maps) /\ Len(maps) \in Nat
      /\ S = {maps[i] : i \in 1 .. Len(maps)}
  BY MapsAre DEF MapsInv, ToSet
<1>3. S \in SUBSET Md
  <2> HIDE DEF Md, S
  <2> QED
    BY <1>2, ElementOfSeq
<1>4. IsFiniteSet(S)
  <2>1. maps \in Surjection(1 .. Len(maps), S)
    <3> HIDE DEF S
    <3> QED
      BY <1>2 DEF Surjection
  <2> HIDE DEF S
  <2> QED
    BY <1>2, <2>1, FS_Interval, FS_Surjection
<1>5. Keyed(S)
  <2>1. \A a \in S : a.name \in Nat
    BY <1>3, ObjectsAssumption
  <2>2. \A a, b \in S : a.name = b.name => a = b
    BY <1>2 DEF MapsInv
  <2> HIDE DEF S
  <2> QED
    BY <1>4, <2>1, <2>2 DEF Keyed
<1>6. PICK n \in Nat : n = Cardinality(S)
  <2> HIDE DEF S
  <2> QED
    BY <1>5, Sorts
<1> HIDE DEF S
<1>7. /\ maps' \in [1 .. n -> S] /\ InOrder(maps')
      /\ \A a \in S : \E i \in 1 .. n : maps'[i] = a
  BY <1>1, <1>5, <1>6, Sorts
<1>8. maps' \in Seq(Md)
  <2> HIDE DEF Md
  <2>1. maps' \in [1 .. n -> Md]
    BY <1>3, <1>7
  <2> QED
    BY <2>1, SeqDef
<1>9. \A i, j \in DOMAIN maps' : maps'[i].name = maps'[j].name => i = j
  <2>1. ASSUME NEW i \in 1 .. n, NEW j \in 1 .. n, maps'[i].name = maps'[j].name
        PROVE  i = j
    <3>1. maps'[i].name \in Nat /\ maps'[j].name \in Nat
      BY <1>5, <1>7 DEF Keyed
    <3>2. ~(i < j) /\ ~(j < i)
      BY <1>7, <2>1, <3>1 DEF InOrder
    <3> QED
      BY <3>2
  <2> QED
    BY <1>7, <2>1
<1>10. (\A i \in DOMAIN maps : Declares(maps[i]))'
  <2>1. \A a \in S : Declares(a)
    BY <1>2 DEF MapsInv
  <2>2. \A a \in S : Declares(a)'
    BY <1>1, <2>1, DeclaresStill
  <2>3. PICK w : w = maps'
    OBVIOUS
  <2>4. PICK U : U = S
    OBVIOUS
  <2>5. \A i \in DOMAIN w : w[i] \in U
    BY <1>7, <2>3, <2>4
  <2>6. \A a \in U : Declares(a)'
    BY <2>2, <2>4
  <2> QED
    BY <2>3, <2>5, <2>6
<1>11. Found' = Found
  <2>1. Found' = {maps'[i].name : i \in DOMAIN maps'}
    BY DEF Found, ToSet
  <2>2. Found = {a.name : a \in S}
    BY DEF Found, S
  <2> QED
    BY <1>7, <2>1, <2>2
<1>12. error \/ AllUpTo(Len(obj.decls))
  <2>1. CASE error
    BY <2>1
  <2>2. CASE ~error
    <3>1. PICK k \in 0 .. Len(obj.decls) : todo = Rest(k) /\ AllUpTo(k)
      BY <1>1, <2>2 DEF MapsInv
    <3>2. obj.decls \in Seq([name : MapNames, how : {"key", "key_size"}, tid : 0 .. Len(obj.records)])
          /\ Len(obj.decls) \in Nat
      BY ObjectsAssumption, LenProperties DEF WalkInv
    <3>3. k = Len(obj.decls)
      <4>1. SUFFICES ASSUME k < Len(obj.decls) PROVE FALSE
        BY <3>2
      <4>2. k + 1 \in 1 .. Len(obj.decls) /\ Len(obj.decls) \in k + 1 .. Len(obj.decls)
        BY <3>2, <4>1
      <4>3. PICK l \in 1 .. Len(obj.decls) : l = k + 1 /\ Len(obj.decls) \in l .. Len(obj.decls)
        BY <4>2
      <4>4. SubSeq(obj.decls, l, Len(obj.decls)) # <<>>
        <5>1. Len(SubSeq(obj.decls, l, Len(obj.decls))) # 0
          BY <3>2, <4>3
        <5>2. Len(<<>>) = 0
          OBVIOUS
        <5> QED
          BY <5>1, <5>2, Zenon
      <4> QED
        BY <1>1, <3>1, <4>3, <4>4 DEF Rest
    <3> QED
      BY <3>1, <3>3
  <2> QED
    BY <2>1, <2>2
<1>13. (error \/ AllUpTo(Len(obj.decls)))'
  BY <1>1, <1>11, <1>12 DEF AllUpTo
<1> QED
  BY <1>1, <1>7, <1>8, <1>9, <1>10, <1>13 DEF MapsInv, Later

LEMMA MapsStep == WalkInv /\ MapsInv /\ [Next]_vars => MapsInv'
<1> SUFFICES ASSUME WalkInv, MapsInv, [Next]_vars PROVE MapsInv'
  OBVIOUS
<1> DEFINE Whole == /\ maps \in Seq([name : MapNames, key_size : Nat])
                    /\ \A i, j \in DOMAIN maps : maps[i].name = maps[j].name => i = j
                    /\ \A i \in DOMAIN maps : Declares(maps[i])
<1>1. ASSUME obj' = obj, maps' = maps PROVE Whole'
  <2>1. PICK w : w = maps
    OBVIOUS
  <2>2. \A i \in DOMAIN w : Declares(w[i])'
    BY <1>1, <2>1, DeclaresStill DEF MapsInv
  <2>3. (\A i \in DOMAIN maps : Declares(maps[i]))'
    BY <1>1, <2>1, <2>2
  <2> QED
    BY <1>1, <2>3 DEF MapsInv
<1>2. ASSUME obj' = obj, maps' = <<>>, todo' = <<>>, pc' = "read" PROVE MapsInv'
  BY <1>2 DEF MapsInv, Later
<1>3. ASSUME obj' = obj, maps' = maps, pc' \in {"exited", "made"} PROVE MapsInv'
  BY <1>1, <1>3 DEF MapsInv, Later
<1>4. ASSUME NEW code, EndPass(code, Counted), obj' = obj PROVE MapsInv'
  <2>1. CASE pass = "probe"
    BY <1>2, <1>4, <2>1 DEF EndPass
  <2>2. CASE pass # "probe"
    BY <1>3, <1>4, <2>2 DEF EndPass, Exit, translator
  <2> QED
    BY <2>1, <2>2
<1>5. ASSUME obj' = obj, maps' = maps, pc \in Later, pc' \in Later,
             UNCHANGED error \/ error' = TRUE
      PROVE  MapsInv'
  <2>1. Found' = Found
    BY <1>5 DEF Found
  <2>2. InOrder(maps)' /\ (error \/ AllUpTo(Len(obj.decls)))'
    BY <1>5, <2>1 DEF MapsInv, AllUpTo
  <2> QED
    BY <1>1, <1>5, <2>2 DEF MapsInv, Later
<1>6. ASSUME obj' = obj, maps' = maps, todo' = todo, pc \in {"options", "read", "walk"},
             pc' \in {"options", "read", "walk"}
      PROVE  MapsInv'
  BY <1>1, <1>6 DEF MapsInv, Later
<1>7. CASE UNCHANGED vars
  <2>1. UNCHANGED <<obj, maps, todo, error, pc>>
    BY <1>7 DEF vars
  <2>2. Found' = Found /\ \A k : Rest(k)' = Rest(k)
    BY <2>1 DEF Found, Rest
  <2>3. \A k : AllUpTo(k)' <=> AllUpTo(k)
    BY <2>1, <2>2 DEF AllUpTo
  <2>4. PICK N : N = Len(obj.decls)
    OBVIOUS
  <2>5. AllUpTo(N)' => AllUpTo(Len(obj.decls))'
    BY <2>1, <2>4
  <2>6. (pc = "discover" =>
          \/ todo = <<>> /\ error
          \/ obj.btf /\ \E k \in 0 .. Len(obj.decls) : todo = Rest(k) /\ (error \/ AllUpTo(k)))'
    BY <2>1, <2>2, <2>3 DEF MapsInv
  <2>7. (pc \in Later => InOrder(maps) /\ (error \/ AllUpTo(Len(obj.decls))))'
    BY <2>1, <2>3, <2>4, <2>5 DEF MapsInv
  <2> QED
    BY <1>1, <2>1, <2>6, <2>7 DEF MapsInv
<1>8. CASE BadOption
  BY <1>3, <1>8 DEF BadOption, Exit, translator
<1>9. CASE Start
  BY <1>6, <1>9 DEF Start, translator
<1>10. CASE ReadElf
  <2>1. CASE obj.elf
    BY <1>6, <1>10, <2>1 DEF ReadElf, outside, translator
  <2>2. CASE ~obj.elf
    BY <1>4, <1>10, <2>2 DEF ReadElf, GiveUp
  <2> QED
    BY <2>1, <2>2
<1>11. CASE WalkTypes
  BY <1>6, <1>11 DEF WalkTypes, outside
<1>12. CASE EndWalk
  <2>1. /\ pc = "walk" /\ pc' = "discover" /\ obj' = obj /\ maps' = maps
        /\ \/ obj.btf /\ todo' = obj.decls
           \/ error' = TRUE /\ todo' = todo
    BY <1>12 DEF EndWalk, outside, Report
  <2>2. CASE error' = TRUE /\ todo' = todo
    BY <1>1, <2>1, <2>2 DEF MapsInv, Later
  <2>3. CASE obj.btf /\ todo' = obj.decls
    <3>1. /\ obj.decls \in Seq([name : MapNames, how : {"key", "key_size"},
                                tid : 0 .. Len(obj.records)])
          /\ Len(obj.decls) \in Nat
      BY ObjectsAssumption, LenProperties DEF WalkInv
    <3>2. Rest(0) = obj.decls /\ Rest(0)' = Rest(0)
      BY <2>1, <3>1, SubSeqFull DEF Rest
    <3>3. AllUpTo(0)'
      BY DEF AllUpTo
    <3>4. (obj.btf /\ \E k \in 0 .. Len(obj.decls) : todo = Rest(k) /\ (error \/ AllUpTo(k)))'
      <4>1. 0 \in 0 .. Len(obj.decls)'
        BY <2>1, <3>1
      <4> QED
        BY <2>1, <2>3, <3>2, <3>3, <4>1
    <3> QED
      BY <1>1, <2>1, <3>4 DEF MapsInv, Later
  <2> QED
    BY <2>1, <2>2, <2>3
<1>13. CASE Declare
  BY <1>13, DeclareStep
<1>14. CASE SortMaps
  BY <1>14, SortStep
<1>15. CASE PickSection
  BY <1>4, <1>5, <1>15 DEF PickSection, GiveUp, outside, Later
<1>16. CASE Relocate
  BY <1>5, <1>16 DEF Relocate, outside, Later
<1>17. CASE Call
  BY <1>5, <1>17 DEF Call, outside, Later, Report
<1>18. CASE CheckBudget
  BY <1>5, <1>18 DEF CheckBudget, outside, Later, Report
<1>19. CASE Emit
  BY <1>4, <1>19 DEF Emit
<1>20. CASE Made
  BY <1>3, <1>20 DEF Made, outside, translator
<1> QED
  BY <1>7, <1>8, <1>9, <1>10, <1>11, <1>12, <1>13, <1>14, <1>15, <1>16, <1>17, <1>18,
     <1>19, <1>20 DEF Next

(* A map has the size its declaration has in C, whatever the types: strip  *)
(* finds what is behind the qualifiers or nothing, size_of finds the size  *)
(* or 0, and add_map keeps no map without a size (Btf.strip, Btf.size_of,  *)
(* Translator.discover_btf_maps).                                          *)
THEOREM SizesRight == Spec => []SizeRight
<1>1. Init => MapsInv
  BY DEF Init, MapsInv, Later
<1>2. MapsInv => SizeRight
  <2>1. ASSUME MapsInv, NEW m \in ToSet(maps)
        PROVE  \E d \in ToSet(obj.decls) : d.name = m.name /\ m.key_size = Info!Declared(d)
    BY <2>1 DEF MapsInv, Declares, ToSet
  <2> QED
    BY <2>1 DEF SizeRight
<1> QED
  BY <1>1, <1>2, WalkInit, WalkStep, MapsStep, PTL DEF Spec
-----------------------------------------------------------------------------
(* --------------------- the program that is written --------------------- *)
HasCode == \E i \in DOMAIN obj.secs : IsCode(obj.secs[i])
code    == Section.code

LEMMA SectionIs ==
  ASSUME obj \in Objects, HasCode
  PROVE  code \in Seq(Int) /\ Len(code) \in Nat /\ DOMAIN code = 1 .. Len(code)
<1> DEFINE First(i) == IsCode(obj.secs[i]) /\ \A j \in 1 .. i - 1 : ~IsCode(obj.secs[j])
<1>1. /\ obj.secs \in Seq([kind : {"data", "xdp", "unknown"}, code : Seq(Int)])
      /\ DOMAIN obj.secs = 1 .. Len(obj.secs) /\ Len(obj.secs) \in Nat
  BY ObjectsAssumption, LenProperties
<1>2. PICK i \in {i \in DOMAIN obj.secs : IsCode(obj.secs[i])} :
        \A j \in {j \in DOMAIN obj.secs : IsCode(obj.secs[j])} : i <= j
  <2> DEFINE T == {i \in DOMAIN obj.secs : IsCode(obj.secs[i])}
  <2>1. T \in SUBSET Nat /\ T # {}
    BY <1>1 DEF HasCode
  <2> HIDE DEF T
  <2>2. \E i \in T : \A j \in T : i <= j
    BY <2>1, Smallest
  <2> QED
    BY <2>2 DEF T
<1>3. i \in DOMAIN obj.secs /\ First(i)
  <2>1. i \in DOMAIN obj.secs /\ IsCode(obj.secs[i])
    OBVIOUS
  <2>2. ASSUME NEW j \in 1 .. i - 1, IsCode(obj.secs[j]) PROVE FALSE
    <3>1. j \in DOMAIN obj.secs /\ ~(i <= j)
      BY <1>1, <2>1
    <3> QED
      BY <1>2, <2>2, <3>1
  <2> QED
    BY <2>1, <2>2
<1> DEFINE s == CHOOSE j \in DOMAIN obj.secs : First(j)
<1>4. s \in DOMAIN obj.secs
  <2> HIDE DEF First
  <2> QED
    BY <1>3
<1>5. Section = obj.secs[s]
  BY DEF Section
<1> HIDE DEF s
<1>6. obj.secs[s] \in [kind : {"data", "xdp", "unknown"}, code : Seq(Int)]
  BY <1>1, <1>4, ElementOfSeq
<1>7. code \in Seq(Int)
  BY <1>5, <1>6 DEF code
<1> QED
  BY <1>7

(* The map a call's symbol names, by its number.                           *)
Relocated ==
  [k \in {k \in DOMAIN code : code[k] \in Found} |->
     CHOOSE i \in DOMAIN maps : maps[i].name = code[k]]
(* The first n calls are translated, each to the map it names.             *)
Right(n) ==
  /\ calls \in Seq(Nat) /\ Len(calls) = n
  /\ \A k \in 1 .. n : maps[calls[k]].name = code[k]
(* What is in the file is the program.                                     *)
Proper ==
  /\ ToSet(Names(target.regions)) = ToSet(Names(obj.decls))
  /\ InOrder(target.regions)
  /\ Len(target.calls) = Len(code)
  /\ \A k \in DOMAIN code : target.regions[target.calls[k]].name = code[k]

CallsInv ==
  /\ pc \in {"options", "read", "walk", "discover", "pick", "relocs"} => calls = <<>>
  /\ pc \in {"relocs", "translate", "emit"} => HasCode
  /\ pc \in {"translate", "emit"} => index = Relocated
  /\ pc = "translate" =>
       \E n \in 0 .. Len(code) :
         todo = SubSeq(code, n + 1, Len(code)) /\ (error \/ Right(n))
  /\ pc = "emit" => error \/ Right(Len(code))
  /\ pc \in {"exited", "made"} => exit # 0 \/ Proper
  /\ pc = "made" => exit = 0 \/ target = Absent

LEMMA CallStep ==
  ASSUME obj \in Objects, MapsInv, CallsInv, Call
  PROVE  CallsInv'
<1>1. /\ pc = "translate" /\ todo # <<>> /\ todo' = Tail(todo) /\ pc' = pc
      /\ UNCHANGED <<obj, maps, index>>
      /\ \/ /\ Len(code) - Len(todo) + 1 \in DOMAIN index
            /\ calls' = Append(calls, index[Len(code) - Len(todo) + 1]) /\ UNCHANGED error
         \/ error' = TRUE /\ UNCHANGED calls
  BY DEF Call, outside, Report, code
<1>2. PICK n \in 0 .. Len(code) :
        todo = SubSeq(code, n + 1, Len(code)) /\ (error \/ Right(n))
  BY <1>1 DEF CallsInv
<1>3. HasCode /\ index = Relocated
  BY <1>1 DEF CallsInv
<1>4. code' = code /\ HasCode' /\ Found' = Found
  BY <1>1, <1>3 DEF code, Section, IsCode, HasCode, Found
<1>5. Relocated' = Relocated
  BY <1>1, <1>4 DEF Relocated
<1>6. PICK c \in Seq(Int) : c = code
  BY <1>3, SectionIs
<1>7. PICK N \in Nat : N = Len(c)
  OBVIOUS
<1>8. n < N
  <2>1. SUFFICES ASSUME n = N PROVE FALSE
    BY <1>6, <1>7
  <2>2. SubSeq(c, N + 1, N) = <<>>
    BY SubSeqEmpty
  <2> QED
    BY <1>1, <1>2, <1>6, <1>7, <2>1, <2>2
<1>9. PICK l \in 1 .. N : l = n + 1
  BY <1>6, <1>7, <1>8
<1>10. Tail(todo) = SubSeq(c, l + 1, N) /\ N - Len(todo) + 1 = l
  <2>1. todo = SubSeq(c, l, N)
    BY <1>2, <1>6, <1>7, <1>9
  <2>2. N \in l .. N
    OBVIOUS
  <2>3. Tail(SubSeq(c, l, N)) = SubSeq(c, l + 1, N)
    BY <1>7, <2>2, HeadTailOfSubSeq
  <2>4. Len(SubSeq(c, l, N)) = N - l + 1
    BY <1>7
  <2> QED
    BY <2>1, <2>3, <2>4
<1>11. error' \/ Right(l)'
  <2>1. SUFFICES ASSUME ~error' PROVE Right(l)'
    OBVIOUS
  <2>2. l \in DOMAIN index /\ calls' = Append(calls, index[l]) /\ ~error
    <3>1. error' # TRUE
      BY <2>1
    <3>2. /\ Len(code) - Len(todo) + 1 \in DOMAIN index
          /\ calls' = Append(calls, index[Len(code) - Len(todo) + 1]) /\ error' = error
      BY <1>1, <3>1
    <3>3. Len(code) - Len(todo) + 1 = l
      BY <1>6, <1>7, <1>10
    <3>4. ~error
      BY <2>1, <3>2, Zenon
    <3> QED
      BY <3>2, <3>3, <3>4
  <2>3. calls \in Seq(Nat) /\ Len(calls) = n
        /\ \A k \in 1 .. n : maps[calls[k]].name = c[k]
    BY <1>2, <1>6, <2>2 DEF Right
  <2>4. PICK m : m = index[l]
    OBVIOUS
  <2>5. m \in DOMAIN maps /\ maps[m].name = c[l]
    <3>1. c[l] \in Found
      BY <1>3, <1>6, <2>2 DEF Relocated
    <3>2. \E i \in DOMAIN maps : maps[i].name = c[l]
      BY <3>1, MapsAre
    <3>3. m = CHOOSE i \in DOMAIN maps : maps[i].name = c[l]
      BY <1>3, <1>6, <2>2, <2>4 DEF Relocated
    <3> QED
      BY <3>2, <3>3
  <2>6. m \in Nat
    BY <2>5, MapsAre
  <2>7. /\ calls' \in Seq(Nat) /\ Len(calls') = l
        /\ calls'[l] = m /\ \A k \in 1 .. n : calls'[k] = calls[k]
    BY <1>9, <2>2, <2>3, <2>4, <2>6
  <2>8. \A k \in 1 .. l : k \in 1 .. n \/ k = l
    BY <1>9
  <2>9. \A k \in 1 .. l : maps[calls'[k]].name = c[k]
    BY <2>3, <2>5, <2>7, <2>8
  <2> QED
    BY <1>1, <1>4, <1>6, <2>7, <2>9 DEF Right
<1>12. (\E k \in 0 .. Len(code) :
          todo = SubSeq(code, k + 1, Len(code)) /\ (error \/ Right(k)))'
  <2>1. l \in 0 .. Len(code)' /\ todo' = SubSeq(code, l + 1, Len(code))'
    BY <1>1, <1>4, <1>6, <1>7, <1>10
  <2> QED
    BY <1>11, <2>1
<1> QED
  BY <1>1, <1>3, <1>4, <1>5, <1>12 DEF CallsInv

(* A file written without an error is a translation of the whole program.  *)
LEMMA Written ==
  ASSUME obj \in Objects, MapsInv, CallsInv, pc = "emit", ~error, UNCHANGED obj,
         target' = [is |-> "program", regions |-> maps, slots |-> slots, calls |-> calls]
  PROVE  Proper'
<1>1. HasCode /\ Right(Len(code)) /\ InOrder(maps) /\ AllUpTo(Len(obj.decls))
  BY DEF CallsInv, MapsInv, Later
<1>2. code' = code /\ DOMAIN code = 1 .. Len(code)
  BY <1>1, SectionIs DEF code, Section, IsCode
<1>3. target'.regions = maps /\ target'.calls = calls
  OBVIOUS
<1>4. ToSet(Names(maps)) = ToSet(Names(obj.decls))
  <2>1. ToSet(Names(maps)) = Found
    BY MapsAre DEF ToSet, Names
  <2>2. /\ obj.decls \in Seq([name : MapNames, how : {"key", "key_size"},
                              tid : 0 .. Len(obj.records)])
        /\ DOMAIN obj.decls = 1 .. Len(obj.decls)
    BY ObjectsAssumption
  <2>3. ToSet(Names(obj.decls)) = {obj.decls[i].name : i \in 1 .. Len(obj.decls)}
    BY <2>2 DEF ToSet, Names
  <2>4. ASSUME NEW i \in DOMAIN maps PROVE maps[i].name \in ToSet(Names(obj.decls))
    <3>1. PICK d \in ToSet(obj.decls) : d.name = maps[i].name
      BY DEF MapsInv, Declares
    <3>2. PICK j \in 1 .. Len(obj.decls) : d = obj.decls[j]
      BY <2>2 DEF ToSet
    <3> QED
      BY <2>3, <3>1, <3>2
  <2>5. Found \subseteq ToSet(Names(obj.decls))
    BY <2>4, MapsAre
  <2>6. ToSet(Names(obj.decls)) \subseteq Found
    BY <1>1, <2>3 DEF AllUpTo
  <2> QED
    BY <2>1, <2>5, <2>6
<1>5. Names(target'.regions) = Names(maps) /\ Names(obj.decls)' = Names(obj.decls)
  BY <1>3 DEF Names
<1>6. Len(target'.calls) = Len(code)
      /\ \A k \in DOMAIN code : target'.regions[target'.calls[k]].name = code[k]
  BY <1>1, <1>2, <1>3 DEF Right
<1>7. (ToSet(Names(target.regions)) = ToSet(Names(obj.decls)))'
  BY <1>3, <1>4 DEF Names
<1>8. InOrder(target.regions)'
  BY <1>1, <1>3 DEF InOrder
<1>9. (Len(target.calls) = Len(code) /\
       \A k \in DOMAIN code : target.regions[target.calls[k]].name = code[k])'
  BY <1>2, <1>6
<1> QED
  BY <1>7, <1>8, <1>9 DEF Proper

LEMMA CallsStep == DriverInv /\ WalkInv /\ MapsInv /\ CallsInv /\ [Next]_vars => CallsInv'
<1> SUFFICES ASSUME DriverInv, WalkInv, MapsInv, CallsInv, [Next]_vars PROVE CallsInv'
  OBVIOUS
<1> DEFINE Before == {"options", "read", "walk", "discover", "pick", "relocs"}
<1>1. obj \in Objects
  BY DEF WalkInv
<1>2. ASSUME obj' = obj, calls' = calls, pc \in Before, pc' \in Before \ {"relocs"}
      PROVE  CallsInv'
  BY <1>2 DEF CallsInv
<1>3. ASSUME NEW c, NEW s, EndPass(c, s), obj' = obj, pc \in Passing,
             pass = "real" /\ c = 0 /\ ~error => Proper'
      PROVE  CallsInv'
  <2>1. CASE pass = "probe"
    BY <1>3, <2>1 DEF EndPass, CallsInv
  <2>2. CASE pass = "real"
    <3>1. pc' = "exited" /\ exit' = IF c # 0 THEN 1 ELSE IF error THEN 2 ELSE 0
      BY <1>3, <2>2 DEF EndPass, Exit
    <3>2. exit' # 0 \/ (c = 0 /\ ~error)
      BY <3>1
    <3> QED
      BY <1>3, <2>2, <3>1, <3>2 DEF CallsInv
  <2> QED
    BY <1>3, <2>1, <2>2 DEF DriverInv
<1>4. CASE GiveUp /\ pc \in Passing
  BY <1>3, <1>4 DEF GiveUp
<1>5. CASE UNCHANGED vars
  <2>1. /\ UNCHANGED <<obj, pc, exit, target, todo, calls, maps, index>>
        /\ UNCHANGED error
    BY <1>5 DEF vars
  <2>2. code' = code /\ (HasCode' <=> HasCode) /\ Found' = Found
    BY <2>1 DEF code, Section, IsCode, HasCode, Found
  <2>3. Relocated' = Relocated /\ \A n : Right(n)' <=> Right(n)
    BY <2>1, <2>2 DEF Relocated, Right
  <2>4. Proper' <=> Proper
    BY <2>1, <2>2 DEF Proper, InOrder, Names
  <2>5. Absent' = Absent
    BY DEF Absent
  <2>6. (error \/ Right(Len(code)))' <=> error \/ Right(Len(code))
    BY <2>1, <2>2 DEF Right
  <2>7. \A n : (todo = SubSeq(code, n + 1, Len(code)) /\ (error \/ Right(n)))'
               <=> todo = SubSeq(code, n + 1, Len(code)) /\ (error \/ Right(n))
    BY <2>1, <2>2, <2>3
  <2>8. (pc = "translate" => \E n \in 0 .. Len(code) :
           todo = SubSeq(code, n + 1, Len(code)) /\ (error \/ Right(n)))'
    BY <2>1, <2>2, <2>7 DEF CallsInv
  <2> QED
    BY <2>1, <2>2, <2>3, <2>4, <2>5, <2>6, <2>8 DEF CallsInv
<1>6. CASE BadOption
  BY <1>6 DEF BadOption, Exit, CallsInv
<1>7. CASE Start
  BY <1>2, <1>7 DEF Start, translator
<1>8. CASE ReadElf
  <2>1. CASE obj.elf
    BY <1>2, <1>8, <2>1 DEF ReadElf, outside, translator
  <2>2. CASE ~obj.elf
    BY <1>4, <1>8, <2>2 DEF ReadElf, Passing
  <2> QED
    BY <2>1, <2>2
<1>9. CASE WalkTypes
  BY <1>2, <1>9 DEF WalkTypes, outside
<1>10. CASE EndWalk
  BY <1>2, <1>10 DEF EndWalk, outside
<1>11. CASE Declare
  BY <1>2, <1>11 DEF Declare, outside
<1>12. CASE SortMaps
  BY <1>2, <1>12 DEF SortMaps, outside
<1>13. CASE PickSection
  <2>1. CASE GiveUp
    BY <1>4, <1>13, <2>1 DEF PickSection, Passing
  <2>2. CASE ~GiveUp
    <3>1. /\ pc = "pick" /\ pc' = "relocs" /\ UNCHANGED <<obj, calls>>
          /\ HasCode
      BY <1>13, <2>2 DEF PickSection, outside, HasCode
    <3>2. HasCode'
      BY <3>1 DEF HasCode, IsCode
    <3> QED
      BY <3>1, <3>2 DEF CallsInv
  <2> QED
    BY <2>1, <2>2
<1>14. CASE Relocate
  <2>1. /\ pc = "relocs" /\ pc' = "translate" /\ todo' = code
        /\ index' = Relocated /\ UNCHANGED <<obj, maps, calls>>
    BY <1>14 DEF Relocate, outside, code, Relocated
  <2>2. HasCode /\ calls = <<>>
    BY <2>1 DEF CallsInv
  <2>3. code' = code /\ HasCode' /\ Found' = Found
    BY <2>1, <2>2 DEF code, Section, IsCode, HasCode, Found
  <2>4. Relocated' = Relocated
    BY <2>1, <2>3 DEF Relocated
  <2>5. PICK w \in Seq(Int) : w = code
    BY <1>1, <2>2, SectionIs
  <2>6. SubSeq(w, 0 + 1, Len(w)) = w /\ 0 \in 0 .. Len(w)
    BY SubSeqFull
  <2>7. Right(0)'
    BY <2>1, <2>2, EmptySeq DEF Right
  <2>8. (\E k \in 0 .. Len(code) :
           todo = SubSeq(code, k + 1, Len(code)) /\ (error \/ Right(k)))'
    <3>1. (0 \in 0 .. Len(code) /\ todo = SubSeq(code, 0 + 1, Len(code)))'
      BY <2>1, <2>3, <2>5, <2>6
    <3> QED
      BY <2>7, <3>1
  <2> QED
    BY <2>1, <2>3, <2>4, <2>8 DEF CallsInv
<1>15. CASE Call
  BY <1>1, <1>15, CallStep
<1>16. CASE CheckBudget
  <2>1. /\ pc = "translate" /\ pc' = "emit" /\ todo = <<>>
        /\ UNCHANGED <<obj, maps, index, calls>>
        /\ UNCHANGED error \/ error' = TRUE
    BY <1>16 DEF CheckBudget, outside, Report
  <2>2. HasCode /\ index = Relocated
    BY <2>1 DEF CallsInv
  <2>3. code' = code /\ HasCode' /\ Found' = Found
    BY <2>1, <2>2 DEF code, Section, IsCode, HasCode, Found
  <2>4. Relocated' = Relocated
    BY <2>1, <2>3 DEF Relocated
  <2>5. PICK n \in 0 .. Len(code) :
          todo = SubSeq(code, n + 1, Len(code)) /\ (error \/ Right(n))
    BY <2>1 DEF CallsInv
  <2>6. PICK w \in Seq(Int) : w = code
    BY <1>1, <2>2, SectionIs
  <2>7. n = Len(w)
    <3>1. SUFFICES ASSUME n < Len(w) PROVE FALSE
      BY <2>6
    <3>2. Len(SubSeq(w, n + 1, Len(w))) # 0
      BY <2>6, <3>1
    <3>3. Len(<<>>) = 0
      OBVIOUS
    <3> QED
      BY <2>1, <2>5, <2>6, <3>2, <3>3
  <2>8. error' \/ Right(Len(code))'
    <3>1. CASE error' = TRUE
      BY <3>1
    <3>2. CASE error' = error
      <4>1. error \/ Right(Len(code))
        BY <2>5, <2>6, <2>7
      <4>2. Right(Len(code)) => Right(Len(code))'
        BY <2>1, <2>3 DEF Right
      <4> QED
        BY <3>2, <4>1, <4>2, Zenon
    <3> QED
      BY <2>1, <3>1, <3>2
  <2> QED
    BY <2>1, <2>2, <2>3, <2>4, <2>8 DEF CallsInv
<1>17. CASE Emit
  <2>1. /\ pc = "emit" /\ obj' = obj /\ EndPass(0, Counted)
        /\ pass = "real" =>
             target' = [is |-> "program", regions |-> maps, slots |-> slots, calls |-> calls]
    BY <1>17 DEF Emit
  <2>2. pass = "real" /\ ~error => Proper'
    BY <1>1, <2>1, Written
  <2> QED
    BY <1>3, <2>1, <2>2 DEF Passing
<1>18. CASE Made
  <2>1. /\ pc = "exited" /\ pc' = "made" /\ UNCHANGED <<obj, exit>>
        /\ target' = IF exit # 0 THEN Absent ELSE target
    BY <1>18 DEF Made, outside
  <2>2. exit = 0 => Proper'
    BY <2>1 DEF CallsInv, Proper, InOrder, code, Section, IsCode, Names
  <2>3. Absent' = Absent
    BY DEF Absent
  <2> QED
    BY <2>1, <2>2, <2>3 DEF CallsInv
<1> QED
  BY <1>5, <1>6, <1>7, <1>8, <1>9, <1>10, <1>11, <1>12, <1>13, <1>14, <1>15, <1>16, <1>17,
     <1>18 DEF Next

(* A file that make leaves is a translation of the whole program: its      *)
(* regions are those of every declared map in the order of the names, and  *)
(* every call uses the region of the map its source names; nothing is left *)
(* of a build that failed (Translator.run, load_map_relocs, bpf_to_ir,     *)
(* the rule of the Makefile).                                              *)
THEOREM BuildFaithful == Spec => []Faithful
<1>1. Init => CallsInv
  BY DEF Init, CallsInv
<1>2. Init => MapsInv
  BY DEF Init, MapsInv, Later
<1>3. CallsInv => Faithful
  <2>1. SUFFICES ASSUME CallsInv, pc = "made", target # Absent
                 PROVE  /\ exit = 0 /\ Proper
    BY <2>1 DEF Faithful, Proper, InOrder, code
  <2> QED
    BY <2>1 DEF CallsInv
<1> QED
  BY <1>1, <1>2, <1>3, DriverInit, DriverStep, WalkInit, WalkStep, MapsStep, CallsStep,
     PTL DEF Spec
=============================================================================
