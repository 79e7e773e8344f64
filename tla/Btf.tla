-------------------------------- MODULE Btf ---------------------------------
(***************************************************************************)
(* The type information of an object: the walk over its records, and the  *)
(* chase through typedefs, pointers and arrays that sizes a map's member.  *)
(*                                                                         *)
(* A record is three words, its name, its info (kind and vlen) and its     *)
(* size or type, and then words of its kind; ids count the records from 1, *)
(* and 0 is void.  The compiler that wrote the records is external: Words  *)
(* and CSize say what the format holds and what C calls the size.          *)
(***************************************************************************)
EXTENDS Integers, Sequences, SequencesExt

CONSTANT
  Strips     \* records strip looks at, 32 in the code

(* The kinds, numbered from 1.                                             *)
Kinds == << "INT", "PTR", "ARRAY", "STRUCT", "UNION", "ENUM", "FWD", "TYPEDEF",
            "VOLATILE", "CONST", "RESTRICT", "FUNC", "FUNC_PROTO", "VAR", "DATASEC",
            "FLOAT", "DECL_TAG", "TYPE_TAG", "ENUM64" >>

VlenBits == 8
Record   == [kind : ToSet(Kinds), vlen : 0 .. VlenBits - 1, ref : Nat, n : Nat]
Info(r)  == (CHOOSE k \in DOMAIN Kinds : Kinds[k] = r.kind) * VlenBits + r.vlen
kind(w)  == IF w \div VlenBits \in DOMAIN Kinds THEN Kinds[w \div VlenBits] ELSE "none"
vlen(w)  == w % VlenBits

Qualifiers == {"TYPEDEF", "VOLATILE", "CONST", "RESTRICT", "TYPE_TAG"}
Sized      == {"INT", "STRUCT", "UNION", "ENUM", "ENUM64", "FLOAT", "DATASEC"}

(* What the format holds after the three words of a record; a member's     *)
(* words look like the header of some other record.                        *)
Data(r) ==
  CASE r.kind \in {"INT", "VAR", "DECL_TAG"}                -> << 9 >>
    [] r.kind = "ARRAY"                                     -> << r.ref, 1, r.n >>
    [] r.kind \in {"STRUCT", "UNION", "DATASEC", "ENUM64"}  -> [i \in 1 .. 3 * r.vlen |-> 9]
    [] r.kind \in {"ENUM", "FUNC_PROTO"}                    -> [i \in 1 .. 2 * r.vlen |-> 9]
    [] OTHER                                                -> <<>>
SizeOrType(r) == IF r.kind \in Sized THEN r.n ELSE r.ref
Words(r) == << 5, Info(r), SizeOrType(r) >> \o Data(r)
Blob(rs) == FlattenSeq([i \in 1 .. Len(rs) |-> Words(rs[i])])

(* Types as C has them: every reference is to one of them or to void, and  *)
(* no array or qualified type is made of itself.                           *)
Derived(r) == r.kind \in Qualifiers \cup {"ARRAY"}
Sound(rs)  ==
  /\ \A i \in DOMAIN rs : rs[i].ref \in 0 .. Len(rs)
  /\ \A T \in SUBSET (1 .. Len(rs)) :
       T # {} => \E t \in T : Derived(rs[t]) => rs[t].ref \notin T

(* What C calls the size of the type a record declares, 0 when it has none.*)
CSize(rs) ==
  LET size[t \in 0 .. Len(rs)] ==
        IF t = 0 THEN 0
        ELSE IF rs[t].kind \in Sized THEN rs[t].n
        ELSE IF rs[t].kind = "PTR" THEN 8
        ELSE IF rs[t].kind = "ARRAY" THEN rs[t].n * size[rs[t].ref]
        ELSE IF rs[t].kind \in Qualifiers THEN size[rs[t].ref]
        ELSE 0
  IN  size

(* The pointee of a pointer that may be hidden behind qualifiers.          *)
CBare(rs) ==
  LET bare[t \in 0 .. Len(rs)] ==
        IF t # 0 /\ rs[t].kind \in Qualifiers THEN bare[rs[t].ref] ELSE t
  IN  bare

VARIABLES
  records,   \* what the compiler wrote
  blob,      \* the words it wrote for them
  pos,       \* how many words have been walked
  types      \* the types found, from id 1

-----------------------------------------------------------------------------
(* Words of kind-specific data after a header.                             *)
extra_Enum32(w) ==   \* mutant
  CASE kind(w) \in {"INT", "VAR", "DECL_TAG"}                -> 1
    [] kind(w) = "ARRAY"                                     -> 3
    [] kind(w) \in {"STRUCT", "UNION", "DATASEC"}            -> 3 * vlen(w)
    [] kind(w) \in {"ENUM", "FUNC_PROTO", "ENUM64"}          -> 2 * vlen(w)
    [] OTHER                                                 -> 0
extra(w) ==
  CASE kind(w) \in {"INT", "VAR", "DECL_TAG"}                -> 1
    [] kind(w) = "ARRAY"                                     -> 3
    [] kind(w) \in {"STRUCT", "UNION", "DATASEC", "ENUM64"}  -> 3 * vlen(w)
    [] kind(w) \in {"ENUM", "FUNC_PROTO"}                    -> 2 * vlen(w)
    [] OTHER                                                 -> 0

Missing == [kind |-> "missing", val |-> 0, data |-> <<>>]
get(ts, t) == IF t \in 1 .. Len(ts) THEN ts[t] ELSE Missing

(* The type behind the qualifiers, unless there are Strips or more; ts are *)
(* the types found.                                                        *)
strip(ts, t) ==
  LET go[i \in 0 .. Strips] ==
        [u \in Nat |->
           IF i = 0 THEN Missing
           ELSE IF get(ts, u).kind \in Qualifiers THEN go[i - 1][get(ts, u).val]
           ELSE get(ts, u)]
  IN  go[Strips][t]

size_of_NoElement(ts, t) ==   \* mutant
  LET s == strip(ts, t)
  IN  CASE s.kind \in Sized   -> s.val
        [] s.kind = "PTR"     -> 8
        [] s.kind = "ARRAY"   -> s.data[3]
        [] OTHER              -> 0
size_of(ts, t) ==
  LET s == [u \in Nat |-> strip(ts, u)]
      size[i \in 0 .. Len(ts)] ==   \* i bounds the nesting
        [u \in Nat |->
           IF s[u].kind \in Sized THEN s[u].val
           ELSE IF s[u].kind = "PTR" THEN 8
           ELSE IF s[u].kind = "ARRAY" /\ i > 0
             THEN s[u].data[3] * size[i - 1][s[u].data[1]]
           ELSE 0]
  IN  size[Len(ts)][t]

(* __type(key, T) makes a pointer to T, __uint(key_size, n) a pointer to   *)
(* an array of n.                                                          *)
type_size(ts, t) ==
  LET p == strip(ts, t) IN IF p.kind = "PTR" THEN size_of(ts, p.val) ELSE 0
uint_value(ts, t) ==
  LET p == strip(ts, t)
      a == strip(ts, p.val)
  IN  IF p.kind = "PTR" /\ a.kind = "ARRAY" THEN a.data[3] ELSE 0

-----------------------------------------------------------------------------
(* One record of the walk; a truncated one ends it.                        *)
Whole == pos + 3 <= Len(blob) /\ pos + 3 + extra(blob[pos + 2]) <= Len(blob)

Walk ==
  /\ Whole
  /\ LET w == blob[pos + 2]
         e == pos + 3 + extra(w)
     IN  /\ types' = Append(types, [kind |-> kind(w), val |-> blob[pos + 3],
                                    data |-> SubSeq(blob, pos + 4, e)])
         /\ pos' = e

(* A member of a map's declaration, [how, tid], by either macro.           *)
key_size(ts, d) ==
  IF d.how = "key" THEN type_size(ts, d.tid) ELSE uint_value(ts, d.tid)

-----------------------------------------------------------------------------
(* The types found so far are the records written, one for one and in      *)
(* order.                                                                  *)
Matching ==
  /\ Len(types) <= Len(records)
  /\ \A i \in 1 .. Len(types) :
       types[i].kind = records[i].kind /\ types[i].val = SizeOrType(records[i])

(* The size a member declares in C, 0 if none.                             *)
Declared(d) ==
  LET p == CBare(records)[d.tid]
      r == IF p = 0 THEN [kind |-> "VOID", ref |-> 0] ELSE records[p]
      a == IF r.kind = "PTR" THEN CBare(records)[r.ref] ELSE 0
  IN  IF r.kind # "PTR" THEN 0
      ELSE IF d.how = "key" THEN CSize(records)[r.ref]
      ELSE IF a # 0 /\ records[a].kind = "ARRAY" THEN records[a].n ELSE 0
=============================================================================
