---------------------------- MODULE MCProvenance ----------------------------
(* Programs that move pointers, and programs that call the helpers, both   *)
(* with the paths that meet again.                                         *)
EXTENDS Provenance, Functions

MCArrayMaps == {1}
MCInputs    == {0, 1}

insn(op, dst, src, imm, off, w) ==
  [op |-> op, dst |-> dst, src |-> src, imm |-> imm, off |-> off, w |-> w]
Mov(d, s)      == insn("mov", d, s, 0, 0, "dw")
MovW(d, s)     == insn("mov", d, s, 0, 0, "w")
MovI(d, i)     == insn("mov", d, Imm, i, 0, "dw")
Add(d, s)      == insn("add", d, s, 0, 0, "dw")
AddI(d, i)     == insn("add", d, Imm, i, 0, "dw")
Load(d, s, o)  == insn("ldx", d, s, 0, o, "dw")
Store(d, o, s) == insn("st", d, s, 0, o, "dw")
StoreI(d, o, i) == insn("st", d, Imm, i, o, "dw")
StoreIW(d, o, i) == insn("st", d, Imm, i, o, "w")
LdMap(d, m)    == insn("ldmap", d, 0, m, 0, "dw")
Jump(op, o)    == insn(op, 0, 0, 0, o, "dw")
Plain(op)      == insn(op, 0, 0, 0, 0, "dw")

Seqs(S, n)  == [1 .. n -> S]
Then(A, B)  == {a \o b : a \in A, b \in B}
One(S)      == {<<i>> : i \in S}
(* Either of two paths of one instruction each, or the first or neither.   *)
Paths(A, B) ==
  {<<Jump("jcc", 2), a, Jump("ja", 1), b>> : a \in A, b \in B}
    \cup {<<Jump("jcc", 1), a>> : a \in A}

(* ------------------------- pointers and memory ------------------------- *)
Pointers ==
  {Mov(2, 10), Mov(2, 1), MovI(2, 1), MovW(2, 10), AddI(2, -1), Add(2, 3),
   insn("sub", 2, 3, 0, 0, "dw"), Load(2, 1, 0), Load(3, 1, 2),
   Store(10, -1, 2), Store(10, -2, 2), Load(2, 10, -1)}
Uses ==
  {Load(3, 2, -1), Load(3, 2, 1), Store(2, 0, 3), StoreI(2, -1, 1),
   Load(3, 10, -1), insn("ldx", 2, 10, 0, -1, "w"), Plain("ldpkt")}
DeadCode(A) ==
  {<<Jump("ja", 1), a, b, Load(3, 1, 0), Plain("exit")>> : a, b \in A}

(* A known constant that an immediate is added to is left to Summed.       *)
PointerPrograms ==
  {p \in Then(Seqs(Pointers, 3), One(Uses))
           \cup Then(One(Pointers), Then(Paths(Pointers, Pointers), One(Uses)))
           \cup DeadCode(Pointers) :
     ~ {MovI(2, 1), AddI(2, -1)} \subseteq Range(p)}

(* ------------------------------- helpers ------------------------------- *)
Keys ==
  One({StoreI(10, -1, i) : i \in {0, 1, 2}})
    \cup Paths({StoreI(10, -1, 0)}, {StoreI(10, -1, 1)})
    \cup {<<StoreI(10, -1, -2)>>, <<StoreIW(10, -1, 1)>>,
          <<MovI(3, 4), Store(10, -1, 3)>>,
          <<Load(3, 1, 2), Store(10, -1, 3)>>}
KeyPointers == {<<Mov(2, 10), AddI(2, -1)>>, <<Load(2, 1, 0)>>}
Maps ==
  One({LdMap(1, 0), LdMap(1, 1)}) \cup Paths({LdMap(1, 0)}, {LdMap(1, 1)})
AfterLookup ==
  {<<Load(3, 0, 0)>>, <<Jump("jcc", 1), StoreI(0, 0, 1)>>,
   <<Store(10, -2, 0), Load(4, 10, -2), Load(3, 4, 1)>>}
LookupPrograms ==
  Then(Keys, Then(KeyPointers, Then(Maps,
    Then({<<Plain("lookup")>>}, AfterLookup))))

Values ==
  {<<StoreI(10, -2, 1), Mov(3, 10), AddI(3, -2)>>, <<Load(3, 1, 1)>>,
   <<Mov(3, 2)>>}
Flags ==
  One({MovI(4, 0), MovI(4, 1), MovI(4, 4), insn("mov", 4, Imm, 4, 0, "w"),
       Load(4, 1, 2)})
    \cup Paths({MovI(4, 1)}, {MovI(4, 0)})
UpdatePrograms ==
  Then(Keys, Then(KeyPointers, Then(Values, Then(Maps, Then(Flags,
       {<<Plain("update")>>})))))

(* The same key and flags for two updates, the second's being the result   *)
(* of the first.                                                           *)
UpdateTwice ==
  LET Arguments(m) ==
        <<LdMap(1, m), Mov(2, 10), AddI(2, -1), Mov(3, 10), AddI(3, -1)>>
  IN  {<<StoreI(10, -1, 1)>> \o Arguments(m) \o <<MovI(4, 0), Plain("update")>>
         \o Arguments(o) \o <<Mov(4, 0), Plain("update")>> : m, o \in {0, 1}}

MCPrograms ==
  PointerPrograms \cup LookupPrograms \cup UpdatePrograms \cup UpdateTwice

(* A constant that is computed: a constant and a sum.                      *)
Summed ==
  Then(Keys, Then(KeyPointers, Then(Values, Then(Maps,
       {<<MovI(4, 0), AddI(4, 1), Plain("update")>>}))))

(* A constant stored over half of an earlier key.                          *)
Halved ==
  {<<StoreI(10, -1, 4), StoreIW(10, -1, 1), Mov(2, 10), AddI(2, -1),
     LdMap(1, m), Plain("lookup")>> : m \in {0, 1}}
=============================================================================
