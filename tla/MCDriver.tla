------------------------------ MODULE MCDriver ------------------------------
(***************************************************************************)
(* Driver for two kinds of objects.  The first declare up to three of      *)
(* three maps (one of a type without a size) in every order, with up to    *)
(* two sections and three calls, of which one may name a symbol that is no *)
(* map.  The others declare one map, with every sequence of four type      *)
(* records of which the first is a pointer, over kinds with and without    *)
(* further words; each refers to a later record or to void.  strip looks   *)
(* at two of them at most.                                                 *)
(***************************************************************************)
EXTENDS Driver

Types == INSTANCE Btf WITH records <- <<>>, blob <- <<>>

MCMapNames == 1 .. 4
MCCapacity == [m \in MCMapNames |-> IF m = 1 THEN 8 ELSE 3]
Data       == 9

Rec(k, v, r, n) == [kind |-> k, vlen |-> v, ref |-> r, n |-> n]
Decl(m, h, t)   == [name |-> m, how |-> h, tid |-> t]
Sec(k, c)       == [kind |-> k, code |-> c]
Object(rs, ds, ss) ==
  [elf |-> TRUE, btf |-> TRUE, records |-> rs, blob |-> Types!Blob(rs), decls |-> ds, secs |-> ss]

(* Maps 1 and 2 are sized by the third type, 4 has a type without a size.  *)
FewTypes == <<Rec("PTR", 0, 3, 0), Rec("PTR", 0, 4, 0), Rec("INT", 0, 0, 4), Rec("FWD", 0, 0, 0)>>
Declare4(ms) == [i \in DOMAIN ms |-> Decl(ms[i], "key", IF ms[i] = 4 THEN 2 ELSE 1)]

MCMaps  == SeqOf({1, 2, 4}, 3) \cup {<<1, 2, 3>>, <<3, 1, 2>>}
MCCodes == SeqOf({1, 2, Data}, 2) \cup {<<1, 1, 1>>, <<1, 2, 1>>, <<2, 2, Data>>}
MCSections ==
  {<<>>} \cup {<<Sec("data", <<>>), Sec(k, c)>> : k \in {"data", "xdp", "unknown"}, c \in MCCodes}
  \cup {<<Sec(k, <<1>>), Sec("xdp", <<2>>)>> : k \in {"data", "xdp", "unknown"}}

Plain ==
  {Rec("INT", 0, 0, 4), Rec("STRUCT", 2, 0, 12), Rec("ENUM64", 1, 0, 8),
   Rec("FLOAT", 0, 0, 8), Rec("FWD", 0, 0, 0)}
At(i) ==
  LET refs == {0} \cup ((i + 1) .. 4)
  IN  Plain
      \cup {Rec("ENUM", 1, 0, 4), Rec("FUNC_PROTO", 1, 0, 0), Rec("DECL_TAG", 0, 0, 0)}
      \cup {Rec(k, 0, r, 0) : k \in {"PTR", "TYPEDEF"}, r \in refs}
      \cup {Rec("ARRAY", 0, r, n) : r \in refs, n \in {0, 3}}
MCRecords ==
  {<<Rec("PTR", 0, r, 0), a, b, c>> : r \in {0, 2, 3, 4}, a \in At(2), b \in At(3), c \in Plain}

MCObjects ==
  {Object(FewTypes, Declare4(ms), ss) : ms \in MCMaps, ss \in MCSections}
  \cup {Object(rs, <<Decl(1, h, t)>>, <<Sec("xdp", <<>>)>>) :
          rs \in MCRecords, h \in {"key", "key_size"}, t \in 1 .. 2}
  \cup {[Object(FewTypes, Declare4(<<1>>), <<Sec("xdp", c)>>) EXCEPT !.elf = e, !.btf = FALSE] :
          e \in BOOLEAN, c \in {<<>>, <<1>>}}

(* 0 is auto, 2 the default (4 in the code), 6 the most (28), 7 too many.  *)
MCOptions(o) ==
  IF o.records # FewTypes THEN {[slots |-> 2, ctx |-> "none"]}
  ELSE [slots : {0, 2, 6}, ctx : {"none", "xdp"}]
       \cup {[slots |-> 7, ctx |-> "none"], [slots |-> 2, ctx |-> "bad"]}
=============================================================================
