------------------------------- MODULE Driver -------------------------------
(***************************************************************************)
(* One build of a .ir file: the rule of the Makefile, the options of       *)
(* bpf_to_ir, the throwaway pass that counts the uses of each map, and the *)
(* pass that translates (Translator.run): reading the object, discovering  *)
(* and sorting its maps, choosing the section, applying its relocations,   *)
(* translating its calls and writing the program.                          *)
(*                                                                         *)
(* An object declares hash maps, in some order, each with the type of its  *)
(* key, and has sections; code is reduced to the calls on maps, each the   *)
(* symbol its relocation names.                                            *)
(***************************************************************************)
EXTENDS Integers, Sequences, FiniteSets, SequencesExt

CONSTANTS
  Objects,        \* [elf, btf, records, blob, decls, secs]: is it readable,
                  \* is its type information, the types and their words,
                  \* the maps [name, how, tid], the sections [kind, code]
  Options(_),     \* for an object: [slots, ctx], slots a number, 0 for auto
  MapNames,       \* map names, numbers for their order
  Strips,         \* types followed to a size, as in Btf
  Capacity,       \* Capacity[m]: max_entries
  MAX_MAPS, MAP_MAX_SLOTS, MAP_SLOTS_MAX

Least(a, b)    == IF a < b THEN a ELSE b
Greatest(a, b) == IF a < b THEN b ELSE a
AUTO           == 0

(* The states of the file that are no program.                             *)
Absent == [is |-> "absent"]
Old    == [is |-> "old"]
Empty  == [is |-> "empty"]

VARIABLES
  obj, opt,  \* the object and the options
  pc,        \* where the translator is
  pass,      \* "probe" or "real"
  todo,      \* declarations, relocations or calls still to go through
  pos, types,  \* the walk over the types
  maps,      \* the maps found, [name, key_size]
  slots,     \* the slots of each
  index,     \* the map each call's relocation names, by its number
  calls,     \* the calls translated, each to the number of its map
  hint,      \* the uses counted by the probe
  error,     \* had_error
  said,      \* who printed a diagnostic: "main", or a pass
  exit,      \* the exit code, -1 before
  target     \* the file: absent, old, empty or the program

vars == <<obj, opt, pc, pass, todo, pos, types, maps, slots, index, calls, hint, error,
          said, exit, target>>
walked     == <<pos, types>>
translator == <<todo, walked, maps, slots, index, calls, error>>
outside    == <<obj, opt, pass, hint, exit>>

Info == INSTANCE Btf WITH records <- obj.records, blob <- obj.blob

(* The compiler wrote the types C has and the words of their records, and  *)
(* a declaration names one of them.                                        *)
ASSUME ObjectsAssumption ==
  /\ MapNames \subseteq Nat /\ Strips \in Nat
  /\ \A o \in Objects :
       /\ o.records \in Seq(Info!Record) /\ Info!Sound(o.records)
       /\ o.blob = Info!Blob(o.records)
       /\ o.decls \in Seq([name : MapNames, how : {"key", "key_size"}, tid : 0 .. Len(o.records)])
       /\ o.secs \in Seq([kind : {"data", "xdp", "unknown"}, code : Seq(Int)])

(* How often the calls translated so far use a map (map_sites).            *)
Sites(m) == Cardinality({k \in DOMAIN calls : maps[calls[k]].name = m})
Counted  == [m \in MapNames |-> Sites(m)]

Names(seq) == [i \in DOMAIN seq |-> seq[i].name]
Found == {m.name : m \in ToSet(maps)}

IsCode(s)  == s.kind \in {"xdp", "unknown"}
Section    ==
  obj.secs[CHOOSE i \in DOMAIN obj.secs :
             IsCode(obj.secs[i]) /\ \A j \in 1 .. i - 1 : ~IsCode(obj.secs[j])]

Init ==
  /\ obj \in Objects /\ opt \in Options(obj)
  /\ pc = "options" /\ pass = "none" /\ todo = <<>>
  /\ pos = 0 /\ types = <<>> /\ maps = <<>> /\ slots = <<>> /\ index = <<>> /\ calls = <<>>
  /\ hint = <<>> /\ error = FALSE /\ said = {} /\ exit = -1
  /\ target = Old

-----------------------------------------------------------------------------
(* main.  The shell empties the target before bpf_to_ir starts.            *)

Exit(code) == pc' = "exited" /\ exit' = code

BadOption ==
  /\ pc = "options"
  /\ opt.slots > MAP_SLOTS_MAX \/ opt.ctx = "bad"
  /\ Exit(1) /\ target' = Empty /\ said' = {"main"}
  /\ UNCHANGED <<obj, opt, pass, hint, translator>>

Start ==
  /\ pc = "options"
  /\ opt.slots <= MAP_SLOTS_MAX /\ opt.ctx # "bad"
  /\ target' = Empty
  /\ pass' = IF opt.slots = AUTO THEN "probe" ELSE "real"
  /\ pc' = "read"
  /\ UNCHANGED <<obj, opt, hint, exit, said, translator>>

(* A pass is over.  The probe's output is discarded, and so are its        *)
(* errors; what it counted is kept, and a fresh translator starts.         *)
EndPass_Again(code, sites) ==   \* mutant
  IF pass = "probe"
  THEN /\ pc' = "read" /\ hint' = sites /\ pass' = "probe"
       /\ todo' = <<>> /\ pos' = 0 /\ types' = <<>> /\ maps' = <<>> /\ slots' = <<>> /\ index' = <<>> /\ calls' = <<>>
       /\ error' = FALSE
       /\ UNCHANGED exit
  ELSE /\ Exit(IF code # 0 THEN 1 ELSE IF error THEN 2 ELSE 0)
       /\ UNCHANGED <<pass, hint, translator>>
EndPass_Clean(code, sites) ==   \* mutant
  IF pass = "probe"
  THEN /\ pc' = "read" /\ pass' = "real"
       /\ hint' = IF error THEN [m \in MapNames |-> 0] ELSE sites
       /\ todo' = <<>> /\ pos' = 0 /\ types' = <<>> /\ maps' = <<>> /\ slots' = <<>> /\ index' = <<>> /\ calls' = <<>>
       /\ error' = FALSE
       /\ UNCHANGED exit
  ELSE /\ Exit(IF code # 0 THEN 1 ELSE IF error THEN 2 ELSE 0)
       /\ UNCHANGED <<pass, hint, translator>>
EndPass_Carried(code, sites) ==   \* mutant
  IF pass = "probe"
  THEN /\ pc' = "read" /\ pass' = "real" /\ hint' = sites
       /\ todo' = <<>> /\ pos' = 0 /\ types' = <<>> /\ maps' = <<>> /\ slots' = <<>> /\ index' = <<>> /\ calls' = <<>>
       /\ error' = error
       /\ UNCHANGED exit
  ELSE /\ Exit(IF code # 0 THEN 1 ELSE IF error THEN 2 ELSE 0)
       /\ UNCHANGED <<pass, hint, translator>>
EndPass(code, sites) ==
  IF pass = "probe"
  THEN /\ pc' = "read" /\ pass' = "real" /\ hint' = sites
       /\ todo' = <<>> /\ pos' = 0 /\ types' = <<>> /\ maps' = <<>> /\ slots' = <<>> /\ index' = <<>> /\ calls' = <<>>
       /\ error' = FALSE
       /\ UNCHANGED exit
  ELSE /\ Exit(IF code # 0 THEN 1 ELSE IF error THEN 2 ELSE 0)
       /\ UNCHANGED <<pass, hint, translator>>

(* Reporting.  The probe is quiet ...                                      *)
Report == error' = TRUE /\ said' = said \cup ({"real"} \cap {pass})
(* ... except where run prints and gives up.                               *)
GiveUp == said' = said \cup {pass} /\ EndPass(1, Counted) /\ UNCHANGED <<obj, opt, target>>

-----------------------------------------------------------------------------
(* Translator.run.                                                         *)

ReadElf ==
  /\ pc = "read"
  /\ IF obj.elf
     THEN /\ pc' = "walk"
          /\ UNCHANGED <<outside, translator, said, target>>
     ELSE GiveUp

WalkTypes ==
  /\ pc = "walk" /\ obj.btf
  /\ Info!Walk
  /\ UNCHANGED <<outside, pc, todo, maps, slots, index, calls, error, said, target>>

(* discover_btf_maps: without readable types there are no maps.            *)
EndWalk ==
  /\ pc = "walk" /\ ~(obj.btf /\ Info!Whole)
  /\ pc' = "discover"
  /\ IF obj.btf THEN todo' = obj.decls /\ UNCHANGED <<error, said>>
     ELSE Report /\ UNCHANGED todo
  /\ UNCHANGED <<outside, walked, maps, slots, index, calls, target>>

(* One declaration, and add_map: a map without a size or beyond the last   *)
(* region is reported, one that is there already is not added.             *)
Declare ==
  /\ pc = "discover" /\ todo # <<>>
  /\ todo' = Tail(todo)
  /\ LET d == Head(todo)
         n == Info!key_size(types, d)
     IN  IF n = 0 THEN Report /\ UNCHANGED maps
         ELSE IF d.name \in Found THEN UNCHANGED <<maps, error, said>>
         ELSE IF Len(maps) >= MAX_MAPS THEN Report /\ UNCHANGED maps
         ELSE maps' = Append(maps, [name |-> d.name, key_size |-> n]) /\ UNCHANGED <<error, said>>
  /\ UNCHANGED <<outside, pc, walked, slots, index, calls, target>>

(* Region ids follow the names, and a map is sized by the option or by the *)
(* probe's count, up to its capacity.                                      *)
Budget(m) ==
  IF pass = "real" /\ opt.slots = AUTO THEN Least(Greatest(2 * hint[m], 1), MAP_SLOTS_MAX)
  ELSE IF pass = "probe" THEN MAP_MAX_SLOTS
  ELSE opt.slots
ByName(S) ==
  CHOOSE q \in [1 .. Cardinality(S) -> S] :
    \A i, j \in DOMAIN q : i < j => q[i].name < q[j].name
SortMaps_Found ==   \* mutant
  /\ pc = "discover" /\ todo = <<>>
  /\ pc' = "pick"
  /\ slots' = [m \in Found |-> Least(Budget(m), Capacity[m])]
  /\ UNCHANGED <<outside, todo, walked, maps, index, calls, error, said, target>>
SortMaps ==
  /\ pc = "discover" /\ todo = <<>>
  /\ pc' = "pick"
  /\ maps' = ByName(ToSet(maps))
  /\ slots' = [m \in Found |-> Least(Budget(m), Capacity[m])]
  /\ UNCHANGED <<outside, todo, walked, index, calls, error, said, target>>

(* The first section with code is the program.                             *)
PickSection ==
  /\ pc = "pick"
  /\ IF \/ ~\E i \in DOMAIN obj.secs : IsCode(obj.secs[i])
        \/ Section.kind = "unknown" /\ opt.ctx = "none"
     THEN GiveUp
     ELSE /\ pc' = "relocs" /\ todo' = Section.code
          /\ UNCHANGED <<outside, walked, maps, slots, index, calls, error, said, target>>

(* load_map_relocs: a symbol that is no known map leaves no mark.          *)
Relocate ==
  /\ pc = "relocs"
  /\ pc' = "translate" /\ todo' = Section.code
  /\ index' = [k \in {k \in DOMAIN Section.code : Section.code[k] \in Found} |->
                 CHOOSE i \in DOMAIN maps : maps[i].name = Section.code[k]]
  /\ UNCHANGED <<outside, walked, maps, slots, calls, error, said, target>>

(* One call; without a relocation its first argument is no map pointer.    *)
Call ==
  /\ pc = "translate" /\ todo # <<>>
  /\ todo' = Tail(todo)
  /\ LET k == Len(Section.code) - Len(todo) + 1
     IN  IF k \in DOMAIN index THEN calls' = Append(calls, index[k]) /\ UNCHANGED <<error, said>>
         ELSE Report /\ UNCHANGED calls
  /\ UNCHANGED <<outside, pc, walked, maps, slots, index, target>>

(* check_map_budget.                                                       *)
CheckBudget ==
  /\ pc = "translate" /\ todo = <<>>
  /\ pc' = "emit"
  /\ IF \E m \in Found : Sites(m) > slots[m] \div 2 THEN Report ELSE UNCHANGED <<error, said>>
  /\ UNCHANGED <<outside, todo, walked, maps, slots, index, calls, target>>

Emit ==
  /\ pc = "emit"
  /\ target' = IF pass = "real" THEN [is |-> "program", regions |-> maps, slots |-> slots, calls |-> calls] ELSE target
  /\ EndPass(0, Counted)
  /\ UNCHANGED <<obj, opt, said>>

(* make, with .DELETE_ON_ERROR.                                            *)
Made ==
  /\ pc = "exited"
  /\ pc' = "made"
  /\ target' = IF exit # 0 THEN Absent ELSE target
  /\ UNCHANGED <<outside, translator, said>>

Next == \/ BadOption \/ Start \/ ReadElf \/ WalkTypes \/ EndWalk \/ Declare \/ SortMaps \/ PickSection \/ Relocate
        \/ Call \/ CheckBudget \/ Emit \/ Made
Spec     == Init /\ [][Next]_vars
(* A single process that never waits.                                      *)
LiveSpec == Spec /\ WF_vars(Next)

-----------------------------------------------------------------------------
(* What make leaves is a translation of every call of the object's program *)
(* to the region of the map its source names, and the regions are those of *)
(* every declared map in the order of their names, whatever the order the  *)
(* object declares them in: two objects with the same maps agree.  When    *)
(* anything could not be translated there is no file at all.               *)
Faithful ==
  pc = "made" /\ target # Absent =>
    /\ exit = 0
    /\ ToSet(Names(target.regions)) = ToSet(Names(obj.decls))
    /\ \A i, j \in DOMAIN target.regions :
         i < j => target.regions[i].name < target.regions[j].name
    /\ Len(target.calls) = Len(Section.code)
    /\ \A k \in DOMAIN Section.code : target.regions[target.calls[k]].name = Section.code[k]

(* The walk is never out of step: the types found are the records written, *)
(* one for one and in order, so every id names what the compiler meant     *)
(* ("a wrong entry in `_extra` [...] desynchronises every type after it"). *)
InStep ==
  /\ Info!Matching
  /\ pc = "discover" /\ obj.btf => Len(types) = Len(obj.records)

(* A map has the size its declaration has in C: a chain of qualifiers too  *)
(* long to follow never becomes a wrong size (size_of, uint_value, strip). *)
SizeRight ==
  \A m \in ToSet(maps) :
    \E d \in ToSet(obj.decls) : d.name = m.name /\ m.key_size = Info!Declared(d)

(* A failed or refused build never goes unexplained, and a good one prints *)
(* nothing.                                                                *)
Explained ==
  pc = "made" => (exit = 0 <=> said \ {"probe"} = {})

(* The pass that translates uses every map exactly as often as the probe   *)
(* counted, errors or not, so the sizes it chose are the ones it needs.    *)
CountsAgree ==
  pc = "emit" /\ pass = "real" /\ opt.slots = AUTO => hint = Counted

(* The build ends: the probe does not probe.                               *)
Ends == <>(pc = "made")
=============================================================================
