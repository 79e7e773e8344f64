---------------------------- MODULE ScratchPool -----------------------------
(***************************************************************************)
(* The scratch headers of a call on a hash map: fresh_tmp hands them out   *)
(* one after the other, the block fills them, and the transformer after    *)
(* the block reads them, in its decision and in the one arm it runs.       *)
(*                                                                         *)
(* A header is a number below NUM_TMPS; what matters about its content is  *)
(* which value was put there last, and a value is its own name.  Emitting  *)
(* the operations of the block and running them is one step, since they    *)
(* are straight-line; the arms are all emitted before one of them runs.    *)
(***************************************************************************)
EXTENDS Integers, Sequences, SequencesExt

CONSTANTS
  NUM_TMPS,  \* scratch headers, 64 in the code
  Slots      \* numbers of slots a map may have

pres(i) == <<"pres", i>>
tag(i)  == <<"tag", i>>
one(x)  == <<x, 0>>

VARIABLES
  call,      \* the helper, its map's slots, and where key and value are
  at,        \* "block", "arms", "decide", then "arm" and "copied"
  todo,      \* the values still to get a header
  arms,      \* how many arms are still to be emitted
  tmp_next,  \* the next header of the pool
  mark,      \* where every arm's own headers start
  error,     \* was a diagnostic reported
  hdrOf,     \* the header a value was given
  tmp        \* the value each header holds

vars == <<call, at, todo, arms, tmp_next, mark, error, hdrOf, tmp>>

Calls == [fn : {"lookup", "update"}, nslots : Slots,
          key : {"stack", "region"}, value : {"stack", "cell", "bytes"}]

-----------------------------------------------------------------------------
(* The values of a call, in the order in which they are given headers.     *)

read_map_key(c) ==
  << one("key") >> \o (IF c.key = "stack" THEN <<>> ELSE << one("rawkey") >>)
emit_slot_headers(c) ==
  << one("raw") >> \o [i \in 1 .. c.nslots |-> pres(i)] \o [i \in 1 .. c.nslots |-> tag(i)]
ToStore(c) ==
  IF c.fn = "lookup" THEN <<>> ELSE << one("tag"), one("rawfull"), one("full") >>
Block(c) == read_map_key(c) \o emit_slot_headers(c) \o ToStore(c)

copy_map_value(c) ==
  CASE c.value = "stack" -> <<>>
    [] c.value = "cell"  -> << one("val") >>
    [] c.value = "bytes" -> << one("from"), one("to"), one("byte") >>

(* What the operations emitted once v has a header write, in their order.  *)
(* The raw loads share one header, dead once the value is widened.         *)
Writes(c, v) ==
  CASE v = one("key")       -> IF c.key = "stack" THEN << v >> ELSE <<>>
    [] v = one("rawkey")    -> << v, one("key") >>
    [] v = one("full")      -> << one("rawfull"), v >>
    [] v[1] = "pres" \/ (v[1] = "tag" /\ v[2] # 0) -> << one("raw"), v >>
    [] v = one("tag")       -> << v >>
    [] OTHER                -> <<>>

(* What is read after the block: the decision compares the key with every  *)
(* slot, an insert stores the key as a tag, a copy uses its own headers.   *)
Live(c, stage) ==
  CASE stage = "decide" ->
         {one("key")} \cup {pres(i) : i \in 1 .. c.nslots} \cup {tag(i) : i \in 1 .. c.nslots}
           \cup (IF c.fn = "update" THEN {one("full")} ELSE {})
    [] stage = "arm"    -> IF c.fn = "update" THEN {one("tag")} ELSE {}
    [] stage = "copied" -> IF c.fn = "update" THEN ToSet(copy_map_value(c)) ELSE {}
    [] OTHER            -> {}

-----------------------------------------------------------------------------
Init ==
  /\ call \in Calls
  /\ at = "block" /\ todo = Block(call) /\ error = FALSE
  /\ arms = IF call.fn = "update" THEN 2 * call.nslots ELSE 0
  /\ tmp_next = 0 /\ mark = 0
  /\ hdrOf = <<>>
  /\ tmp = [h \in 0 .. NUM_TMPS - 1 |-> one("old")]

(* A used-up pool is reported and starts over, with headers that may hold  *)
(* values still to be read.                                                *)
fresh_tmp_Silent(v) ==   \* mutant
  LET h == IF tmp_next >= NUM_TMPS THEN 0 ELSE tmp_next
  IN  /\ hdrOf' = [x \in DOMAIN hdrOf \cup {v} |-> IF x = v THEN h ELSE hdrOf[x]]
      /\ tmp_next' = h + 1
      /\ error' = error
fresh_tmp(v) ==
  LET h == IF tmp_next >= NUM_TMPS THEN 0 ELSE tmp_next
  IN  /\ hdrOf' = [x \in DOMAIN hdrOf \cup {v} |-> IF x = v THEN h ELSE hdrOf[x]]
      /\ tmp_next' = h + 1
      /\ error' = (error \/ tmp_next >= NUM_TMPS)

(* The headers t after the values vs were written; the last one stays.     *)
Written(t, hs, vs) ==
  [h \in DOMAIN t |->
     LET I == {i \in DOMAIN vs : hs[vs[i]] = h}
     IN  IF I = {} THEN t[h] ELSE vs[Max(I)]]

EmitBlock ==
  /\ at = "block" /\ todo # <<>>
  /\ fresh_tmp(Head(todo))
  /\ tmp' = Written(tmp, hdrOf', Writes(call, Head(todo)))
  /\ todo' = Tail(todo)
  /\ UNCHANGED <<call, at, arms, mark>>

EndBlock ==
  /\ at = "block" /\ todo = <<>>
  /\ at' = "arms" /\ mark' = tmp_next
  /\ UNCHANGED <<call, todo, arms, tmp_next, error, hdrOf, tmp>>

(* Every arm of an update rewinds the pool to the mark, so that the arms,  *)
(* of which one runs, share their headers.                                 *)
BeginArm ==
  /\ at = "arms" /\ todo = <<>> /\ arms > 0
  /\ arms' = arms - 1 /\ tmp_next' = mark
  /\ todo' = copy_map_value(call)
  /\ UNCHANGED <<call, at, mark, error, hdrOf, tmp>>

EmitArm ==
  /\ at = "arms" /\ todo # <<>>
  /\ fresh_tmp(Head(todo))
  /\ todo' = Tail(todo)
  /\ UNCHANGED <<call, at, arms, mark, tmp>>

Translated ==
  /\ at = "arms" /\ todo = <<>> /\ arms = 0
  /\ at' = "decide"
  /\ UNCHANGED <<call, todo, arms, tmp_next, mark, error, hdrOf, tmp>>

RunArm ==
  /\ at = "decide"
  /\ at' = "arm"
  /\ UNCHANGED <<call, todo, arms, tmp_next, mark, error, hdrOf, tmp>>

(* The arm's copy of the value, one round of it when it goes byte by byte. *)
Copy ==
  /\ at = "arm"
  /\ at' = "copied"
  /\ tmp' = IF call.fn = "update" THEN Written(tmp, hdrOf, copy_map_value(call)) ELSE tmp
  /\ UNCHANGED <<call, todo, arms, tmp_next, mark, error, hdrOf>>

Next == EmitBlock \/ EndBlock \/ BeginArm \/ EmitArm \/ Translated \/ RunArm \/ Copy
Spec == Init /\ [][Next]_vars

-----------------------------------------------------------------------------
(* Unless the translation failed, what the decision and the chosen arm     *)
(* read is what the block put there: no two values that are live together  *)
(* share a header (fresh_tmp, and the rewinding in emit_tagged_update).    *)
ReadsRight ==
  ~error => \A v \in Live(call, at) : tmp[hdrOf[v]] = v
=============================================================================
