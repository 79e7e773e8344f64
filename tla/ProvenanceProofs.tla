-------------------------- MODULE ProvenanceProofs --------------------------
(***************************************************************************)
(* Proofs about Provenance, for every set of programs: what the translator *)
(* knows of a pointer is so when the program runs, hence no access and no  *)
(* call is ever translated to the wrong memory; and what it knows of a     *)
(* constant is so as long as no immediate is added to one.                 *)
(***************************************************************************)
EXTENDS Provenance, SequenceTheorems, TLAPS

(* What translating instruction x does to the abstract state, what x is    *)
(* fixed to, and whether it is accepted.                                   *)
Transfer(s, x) ==
  CASE x.op \in Alu    -> SetReg(s, x.dst, AluInfo(s, x))
    [] x.op = "ldmap"  -> SetReg(s, x.dst, map_pointer("map", 0, x.imm))
    [] x.op = "ldx"    -> SetReg(s, x.dst, Loaded(s, s.reg[x.src], x.off))
    [] x.op = "st"     -> Stored(s, x, s.reg[x.dst])
    [] x.op = "ldpkt"  -> Clobbered(s, SCALAR)
    [] x.op = "lookup" -> Clobbered(s, map_pointer("mapval", 0, s.reg[1].map))
    [] x.op = "update" -> Clobbered(s, IF s.reg[1].map \in ArrayMaps
                                         THEN scalar_const(0) ELSE SCALAR)
    [] OTHER           -> s
Accesses == {"ldx", "st"} \cup Calls
Fixed(s, x) ==
  CASE x.op = "ldx"    -> Place(s.reg[x.src], x.off)
    [] x.op = "st"     -> Place(s.reg[x.dst], x.off)
    [] x.op = "lookup" -> Call(s.reg[1].map, Key(s, s.reg[1].map), Nothing)
    [] x.op = "update" -> Call(s.reg[1].map, Key(s, s.reg[1].map),
                               Place(s.reg[3], 0))
    [] OTHER           -> Nothing
Accepts(s, x) ==
  CASE x.op = "ldx"    -> AccessOK(s.reg[x.src], x.off)
    [] x.op = "st"     -> AccessOK(s.reg[x.dst], x.off)
    [] x.op = "lookup" -> LookupOK(s)
    [] x.op = "update" -> UpdateOK(s)
    [] OTHER           -> TRUE

(* Where instruction i can go on to.                                       *)
Succ(i) ==
  CASE Insn(i).op = "exit" -> {}
    [] Insn(i).op = "ja"   -> {Target(i)}
    [] Insn(i).op = "jcc"  -> {i + 1, Target(i)}
    [] OTHER               -> {i + 1}

(* ------------------------------- the types ----------------------------- *)
(* Only scalars have a constant.                                           *)
Facts  == {a \in Infos : a.tag # "scalar" => a.const = NoConst}
States == [reg : [Regs -> Facts], slot : [Slots -> Facts], live : BOOLEAN]
Words  == [base : {"num", "half", "null", "undef",
                   "ctx", "pkt", "stack", "map", "mapval"},
           map : Int, n : Int]

Typed ==
  /\ insns \in Programs
  /\ phase \in {"translate", "run", "refused", "rejected", "done"}
  /\ k \in 0 .. N /\ at \in 0 .. N
  /\ phase # "translate" => k = N
  /\ phase = "run" => error = FALSE
  /\ blockIn \in [Leaders -> States]
  /\ st \in States \cup {NoState}
  /\ IF st = NoState THEN k \in Leaders \cup {N} ELSE k < N
  /\ error \in BOOLEAN
  /\ DOMAIN emitted = 0 .. N - 1
  /\ reg \in [Regs -> Words] /\ slot \in [Slots -> Words]
  /\ width \in [Slots -> {"none", "dw", "w"}]

(* ---------------------------- what is known ---------------------------- *)
(* b says no more than a does.                                             *)
Weaker(b, a) ==
  \/ b.tag = "unknown"
  \/ /\ b.tag = a.tag /\ b.map = a.map
     /\ b.known => a.known /\ b.off = a.off
     /\ b.const # NoConst => b.const = a.const
Covers(b, s) ==
  /\ \A r \in Regs : Weaker(b.reg[r], s.reg[r])
  /\ \A q \in Slots : Weaker(b.slot[q], s.slot[q])

(* What a fact says of a value but for constants, and with them; the mode  *)
(* c is "kinds" or "constants".                                            *)
Kind(a, v) ==
  \/ v = Undef \/ a.tag \in {"unknown", "scalar"}
  \/ v.base = a.tag /\ v.map = a.map /\ (a.known => v.n = a.off)
  \/ a.tag = "mapval" /\ v = Null
Constant(a, v) ==
  a.tag = "scalar" /\ a.const # NoConst /\ v # Undef
    => v \in {Num(a.const), Num(a.const % M32)}
Says(c, a, v) == Kind(a, v) /\ (c = "constants" => Constant(a, v))
Holds(c, s) ==
  /\ \A r \in Regs : Says(c, s.reg[r], reg[r])
  /\ \A q \in Slots : Says(c, s.slot[q], InSlotOf(q))

(* An immediate is added to a known constant: the translator then keeps    *)
(* the constant it had (translate_alu).                                    *)
Sums(s, x) ==
  /\ x.op = "add" /\ x.w = "dw" /\ x.src = Imm
  /\ s.reg[x.dst].tag = "scalar" /\ s.reg[x.dst].const # NoConst
SumsNoConstant == Inside => ~Sums(st, Here)

(* The abstract states A the instructions were translated in are those     *)
(* the blocks were entered with, and follow from one another.              *)
Follows(c, A, i) ==
  /\ c = "constants" => ~Sums(A[i], Insn(i))
  /\ ~error =>
       /\ Accepts(A[i], Insn(i))
       /\ Insn(i).op \in Accesses => emitted[i] = Fixed(A[i], Insn(i))
  /\ \A t \in Succ(i) : t < N =>
       IF t \in Leaders
         THEN blockIn[t].live /\ Covers(blockIn[t], Transfer(A[i], Insn(i)))
         ELSE A[t] = Transfer(A[i], Insn(i))
Entered(A, i) ==
  i \in Leaders /\ blockIn[i].live /\ (i < k \/ (st # NoState /\ i = k))
    => A[i] = blockIn[i]
Trace(c, A) ==
  /\ A \in [0 .. N - 1 -> States]
  /\ st # NoState => A[k] = st
  /\ \A i \in 0 .. N - 1 : Entered(A, i)
  /\ \A i \in 0 .. k - 1 : Follows(c, A, i)

(* The program starts with what its first block is entered with, and every *)
(* instruction the run is at is reached with what the translation knew.    *)
Starts(c) ==
  /\ N > 0 => blockIn[0].live /\ Covers(blockIn[0], Entry)
  /\ phase = "translate" => at = 0 /\ Holds(c, Entry)
Knows(c, A) ==
  phase = "run" /\ at < N =>
    Holds(c, A[at]) /\ (at \in Leaders => blockIn[at].live)

IInv(c) == /\ Typed /\ Starts(c)
           /\ \E A \in [0 .. N - 1 -> States] : Trace(c, A) /\ Knows(c, A)

-----------------------------------------------------------------------------
(* --------------------------- words and halves -------------------------- *)
LEMMA Remainder ==
  ASSUME NEW m \in Nat \ {0}, NEW n \in Int
  PROVE  /\ n % m \in 0 .. m - 1
         /\ n \in 0 .. m - 1 => n % m = n
         /\ \E q \in Int : n = q * m + (n % m)
<1>1. n % m \in 0 .. m - 1 /\ n = m * (n \div m) + (n % m) /\ n \div m \in Int
  BY Z3
<1>2. n = (n \div m) * m + (n % m)
  BY <1>1
<1>3. n \in 0 .. m - 1 => n % m = n
  BY Z3
<1> QED
  BY <1>1, <1>2, <1>3

(* A number is its remainder and a multiple; the remainder is the only one.*)
LEMMA Multiple ==
  ASSUME NEW m \in Nat \ {0}, NEW q \in Int, NEW r \in 0 .. m - 1
  PROVE  (q * m + r) % m = r
  BY Z3

(* A half of a word is the half of what the word was taken from.           *)
LEMMA HalfOfWord ==
  ASSUME NEW n \in Int
  PROVE  /\ n % M64 \in 0 .. M64 - 1 /\ n % M32 \in 0 .. M32 - 1
         /\ (n % M64) % M64 = n % M64 /\ (n % M32) % M32 = n % M32
         /\ (n % M64) % M32 = n % M32
         /\ (n % M32) % M64 = n % M32
<1>1. M64 \in Nat \ {0} /\ M32 \in Nat \ {0} /\ M64 % M32 = 0
  BY WordsAssumption
<1>2. n % M64 \in 0 .. M64 - 1 /\ n % M32 \in 0 .. M32 - 1
  BY <1>1, Remainder
<1>3. M64 \in Int /\ n % M64 \in Int
  BY <1>1, <1>2
<1>4. PICK p \in Int : M64 = p * M32 + (M64 % M32)
  BY <1>1, <1>3, Remainder, Zenon
<1>5. PICK a \in Int : n = a * M64 + (n % M64)
  BY <1>1, Remainder, Zenon
<1> DEFINE w == n % M64
           h == w % M32
<1>6. PICK b \in Int : w = b * M32 + h
  BY <1>1, <1>3, Remainder, Zenon
<1>7. w \in Int /\ h \in 0 .. M32 - 1 /\ h \in Int
  <2>1. w \in Int /\ w % M32 \in 0 .. M32 - 1
    BY <1>1, <1>3, Remainder
  <2> QED
    BY <2>1, <1>1
<1>8. n = a * M64 + w
  BY <1>5
<1> HIDE DEF w, h
<1>9. M64 = p * M32
  BY <1>1, <1>4
<1>10. n = (a * p + b) * M32 + h /\ a * p + b \in Int
  <2>1. n = a * (p * M32) + (b * M32 + h)
    BY <1>8, <1>9, <1>6
  <2> QED
    BY <2>1, <1>7, <1>3, <1>1
<1>11. n % M32 = h
  BY <1>1, <1>7, <1>10, Multiple
<1>12. M32 <= M64
  <2>1. M64 \in Nat /\ M32 \in Nat
    BY <1>1
  <2>2. SUFFICES ASSUME M64 < M32 PROVE FALSE
    BY <2>1
  <2>3. M64 \in 0 .. M32 - 1 /\ M64 \in Int
    BY <2>1, <2>2
  <2>4. M64 % M32 = M64
    BY <1>1, <2>3, Remainder
  <2> QED
    BY <2>4, <1>1
<1>13. n % M32 \in 0 .. M64 - 1 /\ n % M32 \in Int /\ n % M64 \in Int
  BY <1>1, <1>2, <1>12
<1> QED
  BY <1>1, <1>2, <1>7, <1>11, <1>13, Remainder DEF w, h

(* A word whose lower half is replaced has that lower half.                *)
LEMMA LowerHalf ==
  ASSUME NEW o \in Int, NEW v \in Int
  PROVE  ((o - (o % M32) + (v % M32)) % M64) % M32 = v % M32
<1>1. M32 \in Nat \ {0}
  BY WordsAssumption
<1>2. PICK q \in Int : o = q * M32 + (o % M32)
  BY <1>1, Remainder
<1>3. o % M32 \in Int /\ v % M32 \in 0 .. M32 - 1
  BY <1>1, Remainder
<1> DEFINE x == o % M32
           y == v % M32
<1>4. q * M32 \in Int
  BY <1>1
<1>5. o - x + y = q * M32 + y
  <2> HIDE DEF x, y
  <2> QED
    BY <1>2, <1>3, <1>4 DEF x, y
<1>6. (o - x + y) % M32 = y
  BY <1>1, <1>3, <1>5, Multiple
<1>7. o - x + y \in Int
  BY <1>3
<1> QED
  BY <1>6, <1>7, HalfOfWord

(* A small immediate is the same number as a signed word.                  *)
LEMMA SignedImmediate ==
  ASSUME NEW n \in Int, 2 * n \in -M64 .. M64 - 1
  PROVE  Signed(n % M64) = n
<1>1. M64 \in Nat \ {0}
  BY WordsAssumption
<1>2. CASE n >= 0
  <2>1. n \in 0 .. M64 - 1
    BY <1>1, <1>2
  <2> QED
    BY <1>1, <1>2, <2>1, Remainder DEF Signed
<1>3. CASE n < 0
  <2>1. n + M64 \in 0 .. M64 - 1
    BY <1>1, <1>3
  <2>2. n = (0 - 1) * M64 + (n + M64)
    BY <1>1
  <2>3. n % M64 = n + M64
    BY <1>1, <2>1, <2>2, Multiple, 0 - 1 \in Int
  <2> QED
    BY <1>1, <1>3, <2>3 DEF Signed
<1> QED
  BY <1>2, <1>3
(* ------------------------- facts and their joins ----------------------- *)
LEMMA SomeFacts ==
  /\ SCALAR \in Facts /\ UNKNOWN \in Facts
  /\ \A n \in Int : scalar_const(n) \in Facts
  /\ \A t \in {"ctx", "pkt", "stack"}, o \in Int : pointer(t, o) \in Facts
  /\ \A t \in {"map", "mapval"}, m \in Int : map_pointer(t, 0, m) \in Facts
  /\ \A a \in Facts : Moved(a) \in Facts
<1>1. \A n \in Int : n % M64 \in 0 .. M64 - 1
  BY HalfOfWord
<1>2. \A n \in Int : scalar_const(n) \in Facts
  BY <1>1 DEF scalar_const, Info, Facts, Infos, NoConst, NoMap
<1>3. SCALAR \in Facts /\ UNKNOWN \in Facts
  BY DEF SCALAR, UNKNOWN, Info, Facts, Infos, NoConst, NoMap
<1>4. \A t \in {"ctx", "pkt", "stack"}, o \in Int : pointer(t, o) \in Facts
  BY DEF pointer, Info, Facts, Infos, NoConst, NoMap
<1>5. \A t \in {"map", "mapval"}, m \in Int : map_pointer(t, 0, m) \in Facts
  BY DEF map_pointer, Info, Facts, Infos, NoConst, NoMap
<1>6. \A a \in Facts : Moved(a) \in Facts
  BY DEF Moved, Facts, Infos
<1> QED
  BY <1>2, <1>3, <1>4, <1>5, <1>6

LEMMA JoinFacts ==
  ASSUME NEW a \in Facts, NEW b \in Facts
  PROVE  /\ join_reg(a, b) \in Facts
         /\ Weaker(join_reg(a, b), a) /\ Weaker(join_reg(a, b), b)
<1>1. CASE a.tag # b.tag \/ a.map # b.map
  BY <1>1, SomeFacts DEF join_reg, UNKNOWN, Info, Weaker
<1>2. CASE a.tag = b.tag /\ a.map = b.map
  <2> DEFINE known == a.known /\ b.known /\ a.off = b.off
             const == IF a.const = b.const THEN a.const ELSE NoConst
  <2>1. /\ a.tag \in {"scalar", "ctx", "pkt", "stack", "map", "mapval",
                      "unknown"}
        /\ a.off \in Int /\ a.map \in Int
        /\ const \in {NoConst} \cup 0 .. M64 - 1
        /\ a.tag # "scalar" => const = NoConst
        /\ const # NoConst => const = a.const /\ const = b.const
    BY DEF Facts, Infos
  <2> HIDE DEF const
  <2>2. CASE known
    <3>1. join_reg(a, b) = Info(a.tag, a.off, TRUE, a.map, const)
      BY <1>2, <2>2 DEF join_reg, const, Info
    <3> QED
      BY <3>1, <2>1, <2>2, <1>2 DEF Info, Weaker, Facts, Infos
  <2>3. CASE ~known
    <3>1. join_reg(a, b) = Info(a.tag, 0, FALSE, a.map, const)
      BY <1>2, <2>3 DEF join_reg, const, Info
    <3> QED
      BY <3>1, <2>1, <1>2 DEF Info, Weaker, Facts, Infos
  <2> QED
    BY <2>2, <2>3
<1> QED
  BY <1>1, <1>2

LEMMA WeakerOrder ==
  /\ \A a : Weaker(a, a)
  /\ \A d, b, a : Weaker(d, b) /\ Weaker(b, a) => Weaker(d, a)
BY DEF Weaker

(* A value a fact describes, a weaker one describes too.                   *)
LEMMA WeakerSays ==
  ASSUME NEW c, NEW a, NEW b, NEW v, Weaker(b, a), Says(c, a, v)
  PROVE  Says(c, b, v)
BY DEF Weaker, Says, Kind, Constant

LEMMA SomeStates ==
  /\ Fresh \in States /\ Entry \in States
  /\ NoState \notin States
<1>1. Fresh \in States
  BY SomeFacts DEF Fresh, States
<1>2. Entry \in States
  <2>1. pointer("ctx", 0) \in Facts /\ pointer("stack", 0) \in Facts
    BY SomeFacts
  <2>2. 1 \in Regs /\ 10 \in Regs
    BY DEF Regs
  <2> QED
    BY <1>1, <2>1, <2>2 DEF Entry, States
<1>3. DOMAIN NoState = {"live"} /\ \A s \in States : "reg" \in DOMAIN s
  BY DEF NoState, States
<1> QED
  BY <1>1, <1>2, <1>3

(* What a block is entered with says no more than what it was entered      *)
(* with before, nor than what the path that leaves for it now knows.       *)
LEMMA JoinStates ==
  ASSUME NEW b \in States, NEW s \in States
  PROVE  LET j == join_from(b, [s EXCEPT !.live = TRUE])
         IN  /\ j \in States /\ j.live
             /\ Covers(j, s)
             /\ b.live => Covers(j, b)
<1> DEFINE z == [s EXCEPT !.live = TRUE]
           j == join_from(b, z)
<1>1. z \in States /\ z.live = TRUE /\ z.reg = s.reg /\ z.slot = s.slot
  BY DEF States
<1>2. CASE ~b.live
  <2>1. j = z
    BY <1>1, <1>2 DEF join_from
  <2> QED
    BY <2>1, <1>1, <1>2, WeakerOrder DEF Covers
<1>3. CASE b.live
  <2>1. j = [reg  |-> [r \in Regs |-> join_reg(b.reg[r], s.reg[r])],
             slot |-> [q \in Slots |-> join_reg(b.slot[q], s.slot[q])],
             live |-> TRUE]
    BY <1>1, <1>3 DEF join_from
  <2>2. /\ \A r \in Regs : b.reg[r] \in Facts /\ s.reg[r] \in Facts
        /\ \A q \in Slots : b.slot[q] \in Facts /\ s.slot[q] \in Facts
    BY DEF States
  <2>3. /\ j.reg = [r \in Regs |-> join_reg(b.reg[r], s.reg[r])]
        /\ j.slot = [q \in Slots |-> join_reg(b.slot[q], s.slot[q])]
        /\ j.live = TRUE
    BY <2>1
  <2>4. j \in States
    <3>1. /\ [r \in Regs |-> join_reg(b.reg[r], s.reg[r])] \in [Regs -> Facts]
          /\ [q \in Slots |-> join_reg(b.slot[q], s.slot[q])]
               \in [Slots -> Facts]
      BY <2>2, JoinFacts
    <3> HIDE DEF j
    <3> QED
      BY <2>1, <3>1 DEF States
  <2>5. Covers(j, s) /\ Covers(j, b)
    BY <2>2, <2>3, JoinFacts DEF Covers
  <2> QED
    BY <2>3, <2>4, <2>5
<1> QED
  BY <1>2, <1>3

LEMMA CoversOrder ==
  /\ \A s : Covers(s, s)
  /\ \A d, b, s : Covers(d, b) /\ Covers(b, s) => Covers(d, s)
BY WeakerOrder DEF Covers

LEMMA CoversHolds ==
  ASSUME NEW c, NEW b, NEW s, Covers(b, s), Holds(c, s)
  PROVE  Holds(c, b)
BY WeakerSays DEF Covers, Holds
(* -------------------------------- programs ----------------------------- *)
LEMMA ProgramFacts ==
  ASSUME insns \in Programs
  PROVE  /\ N \in Nat /\ Leaders \subseteq 0 .. N - 1
         /\ N > 0 => 0 \in Leaders
         /\ \A i \in 0 .. N - 1 :
              /\ Insn(i) \in Instructions
              /\ Insn(i).op = "ldx" => Insn(i).src \in Regs
              /\ Insn(i).op = "add" => 2 * Insn(i).imm \in -M64 .. M64 - 1
              /\ Insn(i).op \in {"jcc", "ja"} => Target(i) \in i + 1 .. N
<1>1. WellFormed(insns)
  BY ProgramsAssumption
<1>2. N \in Nat /\ \A j \in 1 .. N : insns[j] \in Instructions
  BY <1>1, ElementOfSeq DEF WellFormed, N
<1>3. N > 0 => 0 \in Leaders
  BY <1>2 DEF Leaders
<1>4. ASSUME NEW i \in 0 .. N - 1
      PROVE  /\ Insn(i) \in Instructions
             /\ Insn(i).op = "ldx" => Insn(i).src \in Regs
             /\ Insn(i).op = "add" => 2 * Insn(i).imm \in -M64 .. M64 - 1
             /\ Insn(i).op \in {"jcc", "ja"} => Target(i) \in i + 1 .. N
  <2>1. i + 1 \in 1 .. N /\ Insn(i) = insns[i + 1]
    BY <1>2 DEF Insn
  <2>2. Insn(i) \in Instructions
    BY <1>2, <2>1
  <2>3. /\ Insn(i).op = "ldx" => Insn(i).src # Imm
        /\ Insn(i).op = "add" => 2 * Insn(i).imm \in -M64 .. M64 - 1
        /\ Insn(i).op \in {"jcc", "ja"} => Insn(i).off \in 0 .. N - (i + 1)
    BY <1>1, <2>1 DEF WellFormed, N
  <2>4. Insn(i).src \in Regs \cup {Imm}
    BY <2>2 DEF Instructions
  <2>5. Insn(i).op \in {"jcc", "ja"} => Target(i) \in i + 1 .. N
    BY <1>2, <2>3 DEF Target
  <2> QED
    BY <2>2, <2>3, <2>4, <2>5
<1> QED
  BY <1>2, <1>3, <1>4 DEF Leaders

LEMMA LeaderAfter ==
  ASSUME NEW l \in 0 .. N - 1, Insn(l - 1).op \in Jumps \cup Calls
  PROVE  l \in Leaders
BY DEF Leaders

LEMMA SuccFacts ==
  ASSUME insns \in Programs, NEW i \in 0 .. N - 1, NEW t \in Succ(i), t < N
  PROVE  /\ t \in i + 1 .. N - 1
         /\ t \in Leaders \/ (t = i + 1 /\ Insn(i).op \notin Jumps \cup Calls)
<1>1. /\ N \in Nat
      /\ Insn(i).op \in {"jcc", "ja"} => Target(i) \in i + 1 .. N
  BY ProgramFacts
<1>2. t = i + 1 \/ (Insn(i).op \in {"jcc", "ja"} /\ t = Target(i))
  BY DEF Succ
<1>3. t \in i + 1 .. N - 1
  BY <1>1, <1>2
<1>4. CASE Insn(i).op \in {"jcc", "ja"} /\ t = Target(i)
  BY <1>1, <1>3, <1>4 DEF Leaders
<1>5. CASE t = i + 1
  <2>1. t - 1 = i
    BY <1>5
  <2> QED
    BY <1>1, <1>3, <1>5, <2>1 DEF Leaders
<1> QED
  BY <1>2, <1>3, <1>4, <1>5

LEMMA TransferState ==
  ASSUME NEW s \in States, NEW x \in Instructions,
         x.op = "ldx" => x.src \in Regs
  PROVE  Transfer(s, x) \in States
<1>1. /\ x.dst \in Regs /\ x.src \in Regs \cup {Imm}
      /\ x.imm \in Int /\ x.off \in Int
      /\ \A r \in Regs : s.reg[r] \in Facts
      /\ \A q \in Slots : s.slot[q] \in Facts
      /\ 1 \in Regs
  BY DEF Instructions, States, Regs
<1>2. \A a \in Facts : a.map \in Int
  BY DEF Facts, Infos
<1>3. \A a \in Facts : SetReg(s, x.dst, a) \in States
  BY <1>1 DEF SetReg, States
<1>4. \A a \in Facts : Clobbered(s, a) \in States
  <2> TAKE a \in Facts
  <2>1. [r \in Regs |-> IF r \in Clobbers THEN SCALAR
                        ELSE IF r = 0 THEN a ELSE s.reg[r]] \in [Regs -> Facts]
    BY <1>1, SomeFacts
  <2> QED
    BY <2>1 DEF Clobbered, States
<1>5. CASE x.op \in Alu
  <2>1. x.imm % M32 \in Int
    BY <1>1, HalfOfWord
  <2>2. MovInfo(s, x) \in Facts
    BY <1>1, <2>1, SomeFacts DEF MovInfo
  <2>3. ASSUME NEW a \in Facts, a.tag # "scalar"
        PROVE  [a EXCEPT !.off = @ + x.imm] \in Facts
    BY <1>1, <2>3 DEF Facts, Infos
  <2>4. AddInfo(s, x) \in Facts
    BY <1>1, <2>3, SomeFacts DEF AddInfo
  <2>5. AluInfo(s, x) \in Facts
    BY <2>2, <2>4, SomeFacts DEF AluInfo
  <2>6. Transfer(s, x) = SetReg(s, x.dst, AluInfo(s, x))
    BY <1>5 DEF Transfer, Alu
  <2> QED
    BY <2>5, <2>6, <1>3
<1>6. CASE x.op = "ldmap"
  BY <1>1, <1>3, <1>6, SomeFacts DEF Transfer, Alu
<1>7. CASE x.op = "ldx"
  <2>1. Loaded(s, s.reg[x.src], x.off) \in Facts
    <3>1. pointer("pkt", 0) \in Facts
      BY SomeFacts
    <3> QED
      BY <1>1, <1>7, <3>1, SomeFacts DEF Loaded, Placed
  <2> QED
    BY <2>1, <1>3, <1>7 DEF Transfer, Alu
<1>8. CASE x.op = "st"
  <2> DEFINE a == s.reg[x.dst]
             q == -(a.off + x.off)
             b == IF x.src = Imm THEN scalar_const(x.imm) ELSE s.reg[x.src]
  <2>1. b \in Facts
    BY <1>1, SomeFacts
  <2>2. Transfer(s, x) = IF a.tag = "stack" /\ Placed(a, x.off)
                           THEN [s EXCEPT !.slot[q] = b] ELSE s
    BY <1>8 DEF Transfer, Alu, Stored
  <2>3. a.tag = "stack" /\ Placed(a, x.off) => q \in Slots
    BY DEF Placed
  <2> HIDE DEF b, q
  <2> QED
    BY <2>1, <2>2, <2>3 DEF States
<1>9. CASE x.op = "ldpkt"
  BY <1>4, <1>9, SomeFacts DEF Transfer, Alu
<1>10. CASE x.op = "lookup"
  <2>1. map_pointer("mapval", 0, s.reg[1].map) \in Facts
    BY <1>1, <1>2, SomeFacts
  <2> QED
    BY <2>1, <1>4, <1>10 DEF Transfer, Alu
<1>11. CASE x.op = "update"
  <2>1. (IF s.reg[1].map \in ArrayMaps THEN scalar_const(0) ELSE SCALAR) \in Facts
    BY SomeFacts
  <2> QED
    BY <2>1, <1>4, <1>11 DEF Transfer, Alu
<1>12. CASE x.op \notin Alu \cup {"ldmap", "ldx", "st", "ldpkt", "lookup",
                                  "update"}
  BY <1>12 DEF Transfer
<1> QED
  BY <1>5, <1>6, <1>7, <1>8, <1>9, <1>10, <1>11, <1>12
(* ---------------------------- the translation -------------------------- *)
LEMMA Frame ==
  ASSUME UNCHANGED insns
  PROVE  /\ N' = N /\ Leaders' = Leaders
         /\ \A i : Insn(i)' = Insn(i) /\ Succ(i)' = Succ(i)
BY DEF N, Leaders, Insn, Succ, Target, Jumps, Calls

TranslateInsn ==
  \/ TranslateAlu \/ TranslateLdMap \/ TranslateLdx \/ TranslateStore
  \/ TranslateLdPkt \/ TranslateLookup \/ TranslateUpdate \/ TranslateJump

(* The instruction at k is translated from st: the state it leaves goes on *)
(* to the instruction after it or, at the end of a block, to the blocks    *)
(* that follow.                                                            *)
GoesOn(s) ==
  /\ k + 1 \notin Leaders \cup {N} /\ Succ(k) = {k + 1}
  /\ st' = s /\ blockIn' = blockIn
Ends(s) ==
  /\ k + 1 \in Leaders \cup {N} /\ Leave(s, Succ(k))
Translated ==
  /\ st # NoState
  /\ k' = k + 1 /\ UNCHANGED <<insns, phase, machine>>
  /\ GoesOn(Transfer(st, Here)) \/ Ends(Transfer(st, Here))
  /\ error' \in BOOLEAN
  /\ error' = FALSE =>
       /\ error = FALSE /\ Accepts(st, Here)
       /\ Here.op \in Accesses => emitted'[k] = Fixed(st, Here)
  /\ \A i \in 0 .. N - 1 : i # k => emitted'[i] = emitted[i]
  /\ DOMAIN emitted' = 0 .. N - 1

LEMMA EmitTranslates ==
  ASSUME Typed, Inside, NEW s, NEW e, NEW refused,
         s = Transfer(st, Here), Here.op \notin Jumps,
         refused = (~Accepts(st, Here)), Here.op \in Accesses => e = Fixed(st, Here),
         Emit(s, e, refused)
  PROVE  Translated
<1>1. /\ k \in 0 .. N - 1 /\ N \in Nat /\ st # NoState
      /\ error \in BOOLEAN /\ DOMAIN emitted = 0 .. N - 1
  BY ProgramFacts DEF Typed, Inside
<1>2. Succ(k) = {k + 1}
  BY DEF Succ, Here, Jumps
<1>3. GoesOn(s) \/ Ends(s)
  BY <1>1, <1>2 DEF Emit, GoesOn, Ends
<1>4. k' = k + 1 /\ UNCHANGED <<insns, phase, machine>>
  BY DEF Emit
<1>5. /\ error' = (error \/ refused)
      /\ emitted' = [emitted EXCEPT ![k] = IF refused THEN Nothing ELSE e]
  BY DEF Emit
<1>6. error' \in BOOLEAN /\ (error' = FALSE => error = FALSE /\ ~refused)
  BY <1>1, <1>5
<1>7. error' = FALSE =>
       /\ error = FALSE /\ Accepts(st, Here)
       /\ Here.op \in Accesses => emitted'[k] = Fixed(st, Here)
  BY <1>1, <1>5, <1>6
<1>8. /\ \A i \in 0 .. N - 1 : i # k => emitted'[i] = emitted[i]
      /\ DOMAIN emitted' = 0 .. N - 1
  BY <1>1, <1>5
<1> QED
  BY <1>1, <1>3, <1>4, <1>6, <1>7, <1>8 DEF Translated

LEMMA InsnTranslated ==
  ASSUME Typed, TranslateInsn
  PROVE  Translated
<1>1. Inside /\ st # NoState /\ st \in States /\ k \in 0 .. N - 1 /\ N \in Nat
  <2>1. Inside
    BY DEF TranslateInsn, TranslateAlu, TranslateLdMap, TranslateLdx,
           TranslateStore, TranslateLdPkt, TranslateLookup, TranslateUpdate,
           TranslateJump
  <2> QED
    BY <2>1, ProgramFacts DEF Typed, Inside
<1> USE DEF Jumps, Calls, Accesses, Alu
<1>2. CASE TranslateAlu
  <2>1. /\ Here.op \in Alu
        /\ Emit(SetReg(st, Here.dst, AluInfo(st, Here)), Nothing, FALSE)
    BY <1>2 DEF TranslateAlu
  <2>2. SetReg(st, Here.dst, AluInfo(st, Here)) = Transfer(st, Here)
    BY <2>1 DEF Transfer
  <2>3. Accepts(st, Here) /\ Here.op \notin Jumps \cup Accesses
    BY <2>1 DEF Accepts
  <2> QED
    BY <1>1, <2>1, <2>2, <2>3, EmitTranslates
<1>3. CASE TranslateLdMap
  <2>1. /\ Here.op = "ldmap"
        /\ Emit(SetReg(st, Here.dst, map_pointer("map", 0, Here.imm)),
                Nothing, FALSE)
    BY <1>3 DEF TranslateLdMap
  <2>2. SetReg(st, Here.dst, map_pointer("map", 0, Here.imm))
          = Transfer(st, Here)
    BY <2>1 DEF Transfer
  <2>3. Accepts(st, Here) /\ Here.op \notin Jumps \cup Accesses
    BY <2>1 DEF Accepts
  <2> QED
    BY <1>1, <2>1, <2>2, <2>3, EmitTranslates
<1>4. CASE TranslateLdx
  <2> DEFINE a == st.reg[Here.src]
  <2>1. /\ Here.op = "ldx"
        /\ Emit(SetReg(st, Here.dst, Loaded(st, a, Here.off)),
                Place(a, Here.off), ~AccessOK(a, Here.off))
    BY <1>4 DEF TranslateLdx
  <2>2. SetReg(st, Here.dst, Loaded(st, a, Here.off)) = Transfer(st, Here)
    BY <2>1 DEF Transfer
  <2>3. /\ (~AccessOK(a, Here.off)) = (~Accepts(st, Here))
        /\ Place(a, Here.off) = Fixed(st, Here)
        /\ Here.op \notin Jumps
    BY <2>1 DEF Accepts, Fixed
  <2> QED
    BY <1>1, <2>1, <2>2, <2>3, EmitTranslates
<1>5. CASE TranslateStore
  <2> DEFINE a == st.reg[Here.dst]
  <2>1. /\ Here.op = "st"
        /\ Emit(Stored(st, Here, a), Place(a, Here.off),
                ~AccessOK(a, Here.off))
    BY <1>5 DEF TranslateStore
  <2>2. Stored(st, Here, a) = Transfer(st, Here)
    BY <2>1 DEF Transfer
  <2>3. /\ (~AccessOK(a, Here.off)) = (~Accepts(st, Here))
        /\ Place(a, Here.off) = Fixed(st, Here)
        /\ Here.op \notin Jumps
    BY <2>1 DEF Accepts, Fixed
  <2> QED
    BY <1>1, <2>1, <2>2, <2>3, EmitTranslates
<1>6. CASE TranslateLdPkt
  <2>1. Here.op = "ldpkt" /\ Emit(Clobbered(st, SCALAR), Nothing, FALSE)
    BY <1>6 DEF TranslateLdPkt
  <2>2. Clobbered(st, SCALAR) = Transfer(st, Here)
    BY <2>1 DEF Transfer
  <2>3. Accepts(st, Here) /\ Here.op \notin Jumps \cup Accesses
    BY <2>1 DEF Accepts
  <2> QED
    BY <1>1, <2>1, <2>2, <2>3, EmitTranslates
<1>7. CASE TranslateLookup
  <2> DEFINE m == st.reg[1].map
  <2>1. /\ Here.op = "lookup"
        /\ Emit(Clobbered(st, map_pointer("mapval", 0, m)),
                Call(m, Key(st, m), Nothing), ~LookupOK(st))
    BY <1>7 DEF TranslateLookup
  <2>2. Clobbered(st, map_pointer("mapval", 0, m)) = Transfer(st, Here)
    BY <2>1 DEF Transfer
  <2>3. /\ (~LookupOK(st)) = (~Accepts(st, Here))
        /\ Call(m, Key(st, m), Nothing) = Fixed(st, Here)
        /\ Here.op \notin Jumps
    BY <2>1 DEF Accepts, Fixed
  <2> QED
    BY <1>1, <2>1, <2>2, <2>3, EmitTranslates
<1>8. CASE TranslateUpdate
  <2> DEFINE m == st.reg[1].map
             a == IF m \in ArrayMaps THEN scalar_const(0) ELSE SCALAR
  <2>1. /\ Here.op = "update"
        /\ Emit(Clobbered(st, a), Call(m, Key(st, m), Place(st.reg[3], 0)),
                ~UpdateOK(st))
    BY <1>8 DEF TranslateUpdate
  <2>2. Clobbered(st, a) = Transfer(st, Here)
    BY <2>1 DEF Transfer
  <2>3. /\ (~UpdateOK(st)) = (~Accepts(st, Here))
        /\ Call(m, Key(st, m), Place(st.reg[3], 0)) = Fixed(st, Here)
        /\ Here.op \notin Jumps
    BY <2>1 DEF Accepts, Fixed
  <2> QED
    BY <1>1, <2>1, <2>2, <2>3, EmitTranslates
<1>9. CASE TranslateJump
  <2>1. /\ Here.op \in Jumps /\ k' = k + 1
        /\ Leave(st, (IF Here.op = "exit" THEN {} ELSE {Target(k)})
                       \cup (IF Here.op = "jcc" THEN {k + 1} ELSE {}))
        /\ UNCHANGED <<insns, phase, error, emitted, machine>>
    BY <1>9 DEF TranslateJump
  <2>2. (IF Here.op = "exit" THEN {} ELSE {Target(k)})
          \cup (IF Here.op = "jcc" THEN {k + 1} ELSE {}) = Succ(k)
    BY <2>1 DEF Succ, Here
  <2>3. /\ Transfer(st, Here) = st /\ Accepts(st, Here)
        /\ Here.op \notin Accesses
    BY <2>1 DEF Transfer, Accepts
  <2>4. k + 1 \in Leaders \cup {N}
    <3>1. k + 1 - 1 = k /\ (k + 1 = N \/ k + 1 \in 0 .. N - 1)
      BY <1>1
    <3>2. Insn(k).op \in Jumps \cup Calls
      BY <2>1 DEF Here
    <3>3. ASSUME NEW l \in 0 .. N - 1, l = k + 1 PROVE l \in Leaders
      <4>1. l - 1 = k
        BY <1>1, <3>3
      <4>2. Insn(l - 1).op \in Jumps \cup Calls
        BY <4>1, <3>2
      <4> QED
        BY <4>2, LeaderAfter
    <3> QED
      BY <3>1, <3>3
  <2>5. Ends(Transfer(st, Here))
    BY <2>1, <2>2, <2>3, <2>4 DEF Ends
  <2>6. error \in BOOLEAN /\ DOMAIN emitted = 0 .. N - 1
    BY DEF Typed
  <2> QED
    BY <1>1, <2>1, <2>3, <2>5, <2>6 DEF Translated
<1> QED
  BY <1>2, <1>3, <1>4, <1>5, <1>6, <1>7, <1>8, <1>9 DEF TranslateInsn
(* What a block is entered with only grows, and no longer changes once its *)
(* translation has begun.                                                  *)
Grows ==
  /\ blockIn' \in [Leaders -> States]
  /\ \A l \in Leaders :
       blockIn[l].live => blockIn'[l].live /\ Covers(blockIn'[l], blockIn[l])
  /\ \A l \in Leaders : l <= k => blockIn'[l] = blockIn[l]

LEMMA LeaveGrows ==
  ASSUME Typed, k \in 0 .. N - 1, NEW s \in States, GoesOn(s) \/ Ends(s)
  PROVE  /\ Grows
         /\ \A l \in Leaders \cap Succ(k) :
              blockIn'[l].live /\ Covers(blockIn'[l], s)
<1>1. /\ N \in Nat /\ Leaders \subseteq 0 .. N - 1
      /\ blockIn \in [Leaders -> States]
  BY ProgramFacts DEF Typed
<1>2. CASE GoesOn(s)
  BY <1>1, <1>2, CoversOrder DEF GoesOn, Grows
<1>3. CASE Ends(s)
  <2>1. blockIn' = [l \in Leaders |->
                      IF l \in Succ(k)
                        THEN join_from(blockIn[l], [s EXCEPT !.live = TRUE])
                        ELSE blockIn[l]]
    BY <1>1, <1>3 DEF Ends, Leave
  <2>2. ASSUME NEW l \in Leaders, l \in Succ(k)
        PROVE  /\ blockIn'[l] \in States /\ blockIn'[l].live /\ l > k
               /\ Covers(blockIn'[l], s)
               /\ blockIn[l].live => Covers(blockIn'[l], blockIn[l])
    <3>1. blockIn'[l] = join_from(blockIn[l], [s EXCEPT !.live = TRUE])
      BY <2>1, <2>2
    <3>2. blockIn[l] \in States
      BY <1>1
    <3>3. l < N /\ l \in Int
      BY <1>1
    <3>4. l \in k + 1 .. N - 1
      BY <2>2, <3>3, SuccFacts DEF Typed
    <3>5. l > k
      BY <1>1, <3>3, <3>4
    <3> QED
      BY <3>1, <3>2, <3>5, JoinStates
  <2>3. ASSUME NEW l \in Leaders, l \notin Succ(k)
        PROVE  blockIn'[l] = blockIn[l] /\ blockIn[l] \in States
    BY <1>1, <2>1, <2>3
  <2>4. blockIn' \in [Leaders -> States]
    <3>1. \A l \in Leaders : blockIn'[l] \in States
      BY <2>2, <2>3
    <3>2. DOMAIN blockIn' = Leaders /\ blockIn' = [l \in Leaders |-> blockIn'[l]]
      BY <2>1
    <3> QED
      BY <3>1, <3>2
  <2>5. \A l \in Leaders : l <= k => blockIn'[l] = blockIn[l]
    <3>1. \A l \in Leaders : l \in Int /\ k \in Int
      BY <1>1
    <3> QED
      BY <2>2, <2>3, <3>1
  <2>6. \A l \in Leaders :
          blockIn[l].live => /\ blockIn'[l].live
                             /\ Covers(blockIn'[l], blockIn[l])
    BY <2>2, <2>3, CoversOrder
  <2> QED
    BY <2>2, <2>4, <2>5, <2>6 DEF Grows
<1> QED
  BY <1>2, <1>3

(* What follows from a state the trace has keeps following from it.        *)
LEMMA FollowsStill ==
  ASSUME NEW c, NEW A, NEW B, NEW i \in 0 .. N - 1, Follows(c, A, i),
         insns \in Programs, UNCHANGED insns, Grows, B[i] = A[i],
         error' = FALSE => error = FALSE /\ emitted'[i] = emitted[i],
         error \in BOOLEAN, error' \in BOOLEAN,
         i + 1 \notin Leaders /\ i + 1 < N => B[i + 1] = A[i + 1]
  PROVE  Follows(c, B, i)'
<1> DEFINE T == Transfer(A[i], Insn(i))
<1>1. /\ N' = N /\ Leaders' = Leaders
      /\ Insn(i)' = Insn(i) /\ Succ(i)' = Succ(i)
  BY Frame
<1>2. /\ c = "constants" => ~Sums(B[i], Insn(i))
      /\ ~error' => /\ Accepts(B[i], Insn(i))
                    /\ Insn(i).op \in Accesses
                         => emitted'[i] = Fixed(B[i], Insn(i))
  BY DEF Follows
<1>3. ASSUME NEW t \in Succ(i), t < N
      PROVE  IF t \in Leaders THEN blockIn'[t].live /\ Covers(blockIn'[t], T)
                              ELSE B[t] = T
  <2>1. IF t \in Leaders THEN blockIn[t].live /\ Covers(blockIn[t], T)
                         ELSE A[t] = T
    BY <1>3 DEF Follows
  <2>2. CASE t \in Leaders
    BY <2>1, <2>2, CoversOrder DEF Grows
  <2>3. CASE t \notin Leaders
    <3>1. t = i + 1
      BY <1>3, <2>3, SuccFacts
    <3> QED
      BY <2>1, <2>3, <3>1, <1>3
  <2> QED
    BY <2>2, <2>3
<1> QED
  BY <1>1, <1>2, <1>3 DEF Follows
LEMMA TypedFacts ==
  ASSUME Typed
  PROVE  /\ N \in Nat /\ k \in 0 .. N /\ at \in 0 .. N
         /\ Leaders \subseteq 0 .. N - 1 /\ (N > 0 => 0 \in Leaders)
         /\ blockIn \in [Leaders -> States]
         /\ st # NoState => st \in States /\ k < N
         /\ st = NoState => k \in Leaders \cup {N}
         /\ error \in BOOLEAN
BY ProgramFacts DEF Typed

LEMMA StartsStill ==
  ASSUME NEW c, Typed, Starts(c), Grows, UNCHANGED <<insns, phase, machine>>
  PROVE  Starts(c)'
<1>1. N' = N /\ Leaders' = Leaders
  BY Frame
<1>2. N > 0 => blockIn'[0].live /\ Covers(blockIn'[0], Entry)
  BY TypedFacts, CoversOrder DEF Grows, Starts
<1>3. Holds(c, Entry)' <=> Holds(c, Entry)
  BY DEF Holds, InSlotOf, machine, memory
<1> QED
  BY <1>1, <1>2, <1>3 DEF Starts, machine

LEMMA TranslatedTrace ==
  ASSUME NEW c, NEW A \in [0 .. N - 1 -> States], Typed, Starts(c),
         Trace(c, A), phase = "translate", Translated,
         c = "constants" => ~Sums(st, Here)
  PROVE  IInv(c)'
<1> DEFINE T == Transfer(st, Here)
<1>1. /\ k \in 0 .. N - 1 /\ N \in Nat /\ st \in States
      /\ N' = N /\ Leaders' = Leaders /\ k' = k + 1
      /\ \A i : Insn(i)' = Insn(i) /\ Succ(i)' = Succ(i)
      /\ insns \in Programs /\ UNCHANGED <<insns, phase, machine>>
      /\ UNCHANGED <<at, reg, slot, width>>
  BY Frame, TypedFacts DEF Translated, Typed, machine, memory
<1>2. Here \in Instructions /\ (Here.op = "ldx" => Here.src \in Regs)
  BY <1>1, ProgramFacts DEF Here
<1>3. T \in States
  BY <1>1, <1>2, TransferState
<1>4. /\ Grows
      /\ \A l \in Leaders \cap Succ(k) :
           blockIn'[l].live /\ Covers(blockIn'[l], T)
  BY <1>1, <1>3, LeaveGrows DEF Translated
<1>5. \/ st' = NoState /\ k + 1 \in Leaders \cup {N}
      \/ st' = T /\ k + 1 \notin Leaders \cup {N} /\ Succ(k) = {k + 1}
  BY DEF Translated, GoesOn, Ends, Leave
<1>6. Typed'
  <2>1. k' \in 0 .. N' /\ at' \in 0 .. N' /\ phase' = "translate"
    BY <1>1, TypedFacts
  <2>2. /\ st' \in States \cup {NoState}
        /\ IF st' = NoState THEN k' \in Leaders' \cup {N'} ELSE k' < N'
    <3>1. T # NoState
      BY <1>3, SomeStates
    <3> QED
      BY <1>1, <1>3, <1>5, <3>1
  <2>3. error' \in BOOLEAN /\ DOMAIN emitted' = 0 .. N' - 1
    BY <1>1 DEF Translated
  <2>4. blockIn' \in [Leaders' -> States]
    BY <1>1, <1>4 DEF Grows
  <2>5. /\ insns' \in Programs /\ reg' \in [Regs -> Words]
        /\ slot' \in [Slots -> Words]
        /\ width' \in [Slots -> {"none", "dw", "w"}]
    BY <1>1 DEF Typed
  <2> QED
    BY <2>1, <2>2, <2>3, <2>4, <2>5 DEF Typed
<1>7. Starts(c)'
  BY <1>1, <1>4, StartsStill
<1>8. PICK B \in [0 .. N - 1 -> States] :
         /\ \A i \in 0 .. k : B[i] = A[i]
         /\ st' # NoState => B[k + 1] = T
  <2> DEFINE D == [A EXCEPT ![k + 1] = IF st' = NoState THEN A[k + 1] ELSE T]
  <2>1. st' # NoState => k + 1 \in 0 .. N - 1
    BY <1>1, <1>5
  <2>2. k + 1 \in 0 .. N - 1 => A[k + 1] \in States
    OBVIOUS
  <2>3. \A i \in 0 .. k : i # k + 1 /\ i \in 0 .. N - 1
    BY <1>1
  <2>4. /\ D \in [0 .. N - 1 -> States]
        /\ \A i \in 0 .. k : D[i] = A[i]
        /\ st' # NoState => D[k + 1] = T
    BY <1>1, <1>3, <2>1, <2>2, <2>3
  <2> QED
    BY <2>4
<1>9. A[k] = st /\ B[k] = st
  BY <1>1, <1>8, SomeStates DEF Trace
<1>10. ASSUME NEW i \in 0 .. N - 1
       PROVE  Entered(B, i)'
  <2> SUFFICES ASSUME i \in Leaders, blockIn'[i].live,
                      i < k + 1 \/ (st' # NoState /\ i = k + 1)
               PROVE  B[i] = blockIn'[i]
    BY <1>1 DEF Entered
  <2>1. i \in 0 .. k
    BY <1>1, <1>5
  <2>2. blockIn'[i] = blockIn[i]
    BY <1>1, <1>4, <2>1 DEF Grows
  <2>3. i < k \/ (st # NoState /\ i = k)
    BY <1>1, <2>1, SomeStates
  <2>4. A[i] = blockIn[i]
    BY <2>2, <2>3 DEF Trace, Entered
  <2> QED
    BY <1>8, <2>1, <2>2, <2>4
<1>11. ASSUME NEW i \in 0 .. k - 1
       PROVE  Follows(c, B, i)'
  <2>1. /\ i \in 0 .. N - 1 /\ i + 1 \in 0 .. k /\ i \in 0 .. k
        /\ Follows(c, A, i) /\ i # k
    BY <1>1 DEF Trace
  <2>2. B[i] = A[i] /\ B[i + 1] = A[i + 1]
    BY <1>8, <2>1
  <2>3. error' = FALSE => error = FALSE /\ emitted'[i] = emitted[i]
    BY <2>1 DEF Translated
  <2>4. error \in BOOLEAN /\ error' \in BOOLEAN
    BY TypedFacts DEF Translated
  <2> QED
    BY <1>1, <1>4, <2>1, <2>2, <2>3, <2>4, FollowsStill
<1>12. ASSUME NEW i, i = k
       PROVE  Follows(c, B, i)'
  <2>1. /\ c = "constants" => ~Sums(B[i], Insn(i))
        /\ ~error' => /\ Accepts(B[i], Insn(i))
                      /\ Insn(i).op \in Accesses
                           => emitted'[i] = Fixed(B[i], Insn(i))
    BY <1>9, <1>12 DEF Translated, Here
  <2>2. ASSUME NEW t \in Succ(i), t < N
        PROVE  IF t \in Leaders THEN blockIn'[t].live /\ Covers(blockIn'[t], T)
                                ELSE B[t] = T
    <3>1. CASE t \in Leaders
      BY <1>4, <1>12, <2>2, <3>1
    <3>2. CASE t \notin Leaders
      <4>1. t = k + 1
        BY <1>1, <1>12, <2>2, <3>2, SuccFacts
      <4>2. st' # NoState
        BY <1>5, <1>3, <4>1, <3>2, <2>2, <1>1, SomeStates
      <4> QED
        BY <4>1, <4>2, <1>8, <3>2
    <3> QED
      BY <3>1, <3>2
  <2>3. T = Transfer(B[i], Insn(i))
    BY <1>9, <1>12 DEF Here
  <2> HIDE DEF T
  <2> QED
    BY <1>1, <2>1, <2>2, <2>3 DEF Follows
<1>13. Trace(c, B)'
  <2>1. \A i \in 0 .. k' - 1 : Follows(c, B, i)'
    <3>1. \A i \in 0 .. k' - 1 : i \in 0 .. k - 1 \/ i = k
      BY <1>1
    <3> QED
      BY <1>11, <1>12, <3>1
  <2>2. st' # NoState => B[k'] = st'
    BY <1>1, <1>5, <1>8
  <2>3. \A i \in 0 .. N' - 1 : Entered(B, i)'
    BY <1>1, <1>10
  <2> QED
    BY <1>1, <1>8, <2>1, <2>2, <2>3 DEF Trace
<1>14. Knows(c, B)'
  BY <1>1 DEF Knows
<1> QED
  <2>1. B \in [0 .. N' - 1 -> States]
    BY <1>1
  <2> QED
    BY <1>6, <1>7, <2>1, <1>13, <1>14 DEF IInv
LEMMA EnterTrace ==
  ASSUME NEW c, NEW A \in [0 .. N - 1 -> States], Typed, Starts(c),
         Trace(c, A), EnterBlock
  PROVE  IInv(c)'
<1>1. /\ phase = "translate" /\ st = NoState /\ k < N
      /\ st' = IF blockIn[k].live THEN blockIn[k] ELSE Fresh
      /\ UNCHANGED <<insns, phase, k, blockIn, error, emitted, machine>>
      /\ UNCHANGED <<at, reg, slot, width>>
  BY DEF EnterBlock, Between, machine, memory
<1>2. /\ k \in 0 .. N - 1 /\ N \in Nat /\ k \in Leaders
      /\ blockIn \in [Leaders -> States] /\ error \in BOOLEAN
      /\ N' = N /\ Leaders' = Leaders /\ insns \in Programs
  BY <1>1, Frame, TypedFacts DEF Typed
<1>3. st' \in States /\ st' # NoState
  BY <1>1, <1>2, SomeStates
<1>4. Grows
  BY <1>1, <1>2, CoversOrder DEF Grows
<1>5. Typed'
  BY <1>1, <1>2, <1>3 DEF Typed
<1>6. Starts(c)'
  BY <1>1, <1>4, StartsStill
<1>7. PICK B \in [0 .. N - 1 -> States] : B = [A EXCEPT ![k] = st']
  BY <1>2, <1>3
<1>8. B[k] = st' /\ \A i \in 0 .. N - 1 : i # k => B[i] = A[i]
  BY <1>2, <1>7
<1>9. ASSUME NEW i \in 0 .. N - 1
      PROVE  Entered(B, i)'
  <2> SUFFICES ASSUME i \in Leaders, blockIn[i].live, i < k \/ i = k
               PROVE  B[i] = blockIn[i]
    BY <1>1, <1>2 DEF Entered
  <2>1. CASE i = k
    BY <1>1, <1>8, <2>1
  <2>2. CASE i < k /\ i # k
    <3>1. A[i] = blockIn[i]
      BY <2>2 DEF Trace, Entered
    <3> QED
      BY <1>8, <2>2, <3>1
  <2>3. i < k => i # k
    BY <1>2
  <2> QED
    BY <2>1, <2>2, <2>3
<1>10. ASSUME NEW i \in 0 .. k - 1
       PROVE  Follows(c, B, i)'
  <2>1. i \in 0 .. N - 1 /\ i # k /\ Follows(c, A, i)
    BY <1>2 DEF Trace
  <2>2. B[i] = A[i]
    BY <1>8, <2>1
  <2>3. i + 1 \notin Leaders /\ i + 1 < N => B[i + 1] = A[i + 1]
    <3>1. i + 1 < N => i + 1 \in 0 .. N - 1
      BY <1>2
    <3> QED
      BY <1>2, <1>8, <3>1
  <2> QED
    BY <1>1, <1>2, <1>4, <2>1, <2>2, <2>3, FollowsStill
<1>11. Trace(c, B)'
  BY <1>1, <1>2, <1>8, <1>9, <1>10 DEF Trace
<1>12. Knows(c, B)'
  BY <1>1 DEF Knows
<1>13. B \in [0 .. N' - 1 -> States]
  BY <1>2
<1> QED
  BY <1>5, <1>6, <1>11, <1>12, <1>13 DEF IInv

(* Once translated, a program stays so.                                    *)
LEMMA TraceStill ==
  ASSUME NEW c, NEW A, Trace(c, A), UNCHANGED <<insns, translation>>
  PROVE  Trace(c, A)'
<1>1. /\ N' = N /\ Leaders' = Leaders
      /\ \A i : Insn(i)' = Insn(i) /\ Succ(i)' = Succ(i)
      /\ UNCHANGED <<k, blockIn, st, error, emitted>>
  BY Frame DEF translation
<1>2. \A i : Follows(c, A, i) => Follows(c, A, i)'
  BY <1>1 DEF Follows
<1>3. \A i : Entered(A, i) => Entered(A, i)'
  BY <1>1 DEF Entered
<1> QED
  BY <1>1, <1>2, <1>3 DEF Trace

LEMMA EndTrace ==
  ASSUME NEW c, NEW A \in [0 .. N - 1 -> States], Typed, Starts(c),
         Trace(c, A), TranslateEnd
  PROVE  IInv(c)'
<1>1. /\ phase = "translate" /\ st = NoState /\ k = N
      /\ phase' = IF error THEN "refused" ELSE "run"
      /\ UNCHANGED <<insns, translation, machine>>
      /\ UNCHANGED <<k, blockIn, st, error, emitted, at, reg, slot, width>>
  BY DEF TranslateEnd, Between, machine, memory, translation
<1>2. /\ N \in Nat /\ (N > 0 => 0 \in Leaders)
      /\ N' = N /\ Leaders' = Leaders /\ error \in BOOLEAN
  BY <1>1, Frame, TypedFacts
<1>3. Typed'
  BY <1>1, <1>2 DEF Typed
<1>4. Starts(c)'
  BY <1>1, <1>2 DEF Starts
<1>5. Trace(c, A)'
  BY <1>1, TraceStill
<1>6. Knows(c, A)'
  <2> SUFFICES ASSUME 0 < N PROVE Holds(c, A[0])' /\ blockIn[0].live
    BY <1>1, <1>2 DEF Knows, Starts
  <2>1. /\ blockIn[0].live /\ Covers(blockIn[0], Entry) /\ Holds(c, Entry)
        /\ 0 \in Leaders /\ 0 \in 0 .. N - 1 /\ 0 < k
    BY <1>1, <1>2 DEF Starts
  <2>2. A[0] = blockIn[0]
    BY <2>1 DEF Trace, Entered
  <2>3. Holds(c, A[0])
    BY <2>1, <2>2, CoversHolds
  <2>4. Holds(c, A[0])' <=> Holds(c, A[0])
    BY <1>1 DEF Holds, InSlotOf
  <2> QED
    BY <2>1, <2>3, <2>4
<1>7. A \in [0 .. N' - 1 -> States]
  BY <1>2
<1> QED
  BY <1>3, <1>4, <1>5, <1>6, <1>7 DEF IInv
(* -------------------------------- the run ------------------------------ *)
LEMMA SomeWords ==
  /\ \A n \in Int : Num(n) \in Words /\ Half(n) \in Words
  /\ \A b \in {"null", "undef", "ctx", "pkt", "stack", "map", "mapval"},
        m \in Int, n \in Int : Ptr(b, m, n) \in Words
  /\ Undef \in Words /\ Null \in Words /\ Read \subseteq Words
<1>1. \A n \in Int : n % M64 \in Int /\ n % M32 \in Int
  <2>1. \A n \in Int : n % M64 \in 0 .. M64 - 1 /\ n % M32 \in 0 .. M32 - 1
    BY HalfOfWord
  <2> QED
    BY <2>1, WordsAssumption
<1>2. \A n \in Int : Num(n) \in Words /\ Half(n) \in Words
  BY <1>1 DEF Num, Half, Ptr, Words, NoMap
<1> QED
  BY <1>2, InputsAssumption DEF Ptr, Undef, Null, Read, Words, NoMap

LEMMA SaysSome ==
  ASSUME NEW c
  PROVE  /\ \A a : Says(c, a, Undef)
         /\ \A v : Says(c, SCALAR, v)
         /\ \A n \in Int : Says(c, scalar_const(n), Num(n))
         /\ \A b, m, n, o : Says(c, map_pointer(b, o, m), Ptr(b, m, o))
<1>1. \A a : Says(c, a, Undef)
  BY DEF Says, Kind, Constant
<1>2. \A v : Says(c, SCALAR, v)
  BY DEF Says, Kind, Constant, SCALAR, Info
<1>3. \A n \in Int : Num(n % M64) = Num(n)
  BY HalfOfWord DEF Num
<1>4. \A n \in Int : Says(c, scalar_const(n), Num(n))
  BY <1>3 DEF Says, Kind, Constant, scalar_const, Info
<1>5. \A b, m, n, o : Says(c, map_pointer(b, o, m), Ptr(b, m, o))
  BY DEF Says, Kind, Constant, map_pointer, Info, Ptr, NoConst
<1> QED
  BY <1>1, <1>2, <1>4, <1>5

(* What a fact about a pointer says of a value.                            *)
LEMMA PointerFact ==
  ASSUME NEW a \in Facts, NEW v \in Words, Kind(a, v),
         a.tag \notin {"scalar", "unknown"}
  PROVE  /\ ~IsNum(v)
         /\ IsPtr(v) => /\ v.base = a.tag /\ v.map = a.map
                        /\ a.known => v.n = a.off
BY DEF Facts, Infos, Words, Kind, IsNum, IsPtr, Undef, Null, Ptr

LEMMA SignedType == \A n \in Int : Signed(n) \in Int
BY WordsAssumption DEF Signed

LEMMA ResultsType ==
  ASSUME NEW d \in Words, NEW s \in Words, There.op \in Alu
  PROVE  Results(d, s) \subseteq Words
<1> DEFINE V == CASE There.op = "mov" -> {s} \ {Undef}
                  [] There.op = "add" -> Sum(d, s)
                  [] There.op = "sub" -> Difference(d, s)
<1>1. /\ d.n \in Int /\ s.n \in Int /\ Signed(d.n) \in Int /\ Signed(s.n) \in Int
      /\ d.n + s.n \in Int /\ d.n - s.n \in Int
  BY SignedType DEF Words
<1>2. Sum(d, s) \subseteq Words
  BY <1>1, SomeWords DEF Sum, Words
<1>3. Difference(d, s) \subseteq Words
  BY <1>1, SomeWords DEF Difference, Words
<1>4. V \subseteq Words
  BY <1>2, <1>3 DEF Alu
<1>5. \A v \in Words : v.n % M32 \in Int
  <2>1. \A v \in Words : v.n \in Int /\ v.n % M32 \in 0 .. M32 - 1
    BY HalfOfWord DEF Words
  <2> QED
    BY <2>1, WordsAssumption
<1> HIDE DEF V
<1>6. Narrow(V) \subseteq Words
  BY <1>4, <1>5, SomeWords DEF Narrow
<1>7. Results(d, s) = IF There.w = "dw" THEN V ELSE Narrow(V)
  BY DEF Results, V
<1> QED
  BY <1>4, <1>6, <1>7

LEMMA AddSays ==
  ASSUME NEW c, NEW s \in States, NEW x \in Instructions,
         2 * x.imm \in -M64 .. M64 - 1, c = "constants" => ~Sums(s, x),
         x.op = "add", x.w = "dw",
         NEW d \in Words, Says(c, s.reg[x.dst], d),
         NEW o \in Words, IF x.src = Imm THEN o = Num(x.imm)
                                         ELSE Says(c, s.reg[x.src], o),
         NEW v \in Sum(d, o)
  PROVE  Says(c, AddInfo(s, x), v)
<1> DEFINE a == s.reg[x.dst]
           b == s.reg[x.src]
<1>1. /\ a \in Facts /\ x.imm \in Int /\ Kind(a, d)
      /\ a.tag # "scalar" => a.const = NoConst
      /\ x.src # Imm => b \in Facts /\ Kind(b, o)
      /\ x.src # Imm /\ b.tag # "scalar" => b.const = NoConst
  BY DEF States, Instructions, Facts, Says
<1>2. /\ d.n \in Int /\ o.n \in Int /\ Signed(o.n) \in Int /\ Signed(d.n) \in Int
  BY SignedType DEF Words
<1>3. \/ IsNum(d) /\ IsNum(o)
      \/ IsPtr(d) /\ IsNum(o) /\ v = [d EXCEPT !.n = @ + Signed(o.n)]
      \/ IsNum(d) /\ IsPtr(o) /\ v = [o EXCEPT !.n = @ + Signed(d.n)]
  BY DEF Sum
<1> HIDE DEF a, b
<1>4. CASE x.src = Imm /\ a.tag = "scalar"
  <2>1. AddInfo(s, x) = a
    BY <1>4 DEF AddInfo, a
  <2>2. c = "constants" => a.const = NoConst
    BY <1>4 DEF Sums, a
  <2> QED
    BY <1>4, <2>1, <2>2 DEF Says, Kind, Constant
<1>5. CASE a.tag = "unknown"
  <2>1. AddInfo(s, x).tag = "unknown" \/ AddInfo(s, x) = SCALAR
    BY <1>1, <1>5 DEF AddInfo, Moved, Facts, Infos, a
  <2>2. \A y : y.tag = "unknown" => Says(c, y, v)
    BY DEF Says, Kind, Constant
  <2> QED
    BY <2>1, <2>2, SaysSome
<1>6. CASE x.src = Imm /\ a.tag \notin {"scalar", "unknown"}
  <2>1. IsNum(o) /\ ~IsPtr(o) /\ o.n = x.imm % M64
    BY <1>6 DEF Num, Ptr, IsNum, IsPtr
  <2>2. Signed(o.n) = x.imm
    BY <1>1, <2>1, SignedImmediate
  <2>3. /\ IsPtr(d) /\ v = [d EXCEPT !.n = @ + x.imm]
        /\ d.base = a.tag /\ d.map = a.map /\ (a.known => d.n = a.off)
    BY <1>1, <1>3, <1>6, <2>1, <2>2, PointerFact
  <2>4. v.base = a.tag /\ v.map = a.map /\ v.n = d.n + x.imm
    BY <2>3 DEF Words
  <2>5. AddInfo(s, x) = IF a.known THEN [a EXCEPT !.off = @ + x.imm]
                                   ELSE Moved(a)
    BY <1>6 DEF AddInfo, a
  <2>6. CASE a.known
    BY <1>1, <1>6, <2>3, <2>4, <2>5, <2>6
       DEF Facts, Infos, Says, Kind, Constant
  <2>7. CASE ~a.known
    BY <1>1, <1>6, <2>4, <2>5, <2>7
       DEF Facts, Infos, Says, Kind, Constant, Moved
  <2> QED
    BY <2>6, <2>7
<1>7. CASE x.src # Imm /\ a.tag \notin {"scalar", "unknown"}
  <2>1. CASE b.tag = "scalar"
    <3>1. AddInfo(s, x) = Moved(a)
      BY <1>7, <2>1 DEF AddInfo, a, b
    <3>2. v.base = a.tag /\ v.map = a.map
      BY <1>1, <1>3, <1>7, PointerFact DEF Words
    <3> QED
      BY <1>1, <1>7, <3>1, <3>2 DEF Moved, Facts, Infos, Says, Kind, Constant
  <2>2. CASE b.tag # "scalar"
    <3>1. AddInfo(s, x) = SCALAR
      BY <1>7, <2>2 DEF AddInfo, a, b
    <3> QED
      BY <3>1, SaysSome
  <2> QED
    BY <2>1, <2>2
<1>8. CASE x.src # Imm /\ a.tag = "scalar" /\ b.tag # "scalar"
  <2>1. AddInfo(s, x) = Moved(b)
    BY <1>8 DEF AddInfo, a, b
  <2>2. CASE b.tag = "unknown"
    BY <1>1, <2>1, <2>2 DEF Moved, Facts, Infos, Says, Kind, Constant
  <2>3. CASE b.tag # "unknown"
    <3>1. v.base = b.tag /\ v.map = b.map
      BY <1>1, <1>3, <1>8, <2>3, PointerFact DEF Words
    <3> QED
      BY <1>1, <1>8, <2>1, <3>1 DEF Moved, Facts, Infos, Says, Kind, Constant
  <2> QED
    BY <2>2, <2>3
<1>9. CASE x.src # Imm /\ a.tag = "scalar" /\ b.tag = "scalar"
  <2>1. AddInfo(s, x) = SCALAR
    BY <1>9 DEF AddInfo, a, b
  <2> QED
    BY <2>1, SaysSome
<1> QED
  BY <1>4, <1>5, <1>6, <1>7, <1>8, <1>9
LEMMA AluSays ==
  ASSUME NEW c, NEW s \in States, There \in Instructions,
         There.op = "add" => 2 * There.imm \in -M64 .. M64 - 1,
         c = "constants" => ~Sums(s, There), Holds(c, s),
         reg \in [Regs -> Words], There.op \in Alu,
         NEW v \in Results(reg[There.dst], Operand)
  PROVE  v \in Words /\ Says(c, AluInfo(s, There), v)
<1> DEFINE x == There
           d == reg[There.dst]
           o == Operand
<1>1. /\ x.dst \in Regs /\ x.src \in Regs \cup {Imm} /\ x.imm \in Int
      /\ x.w \in {"dw", "w"} /\ x.op \in {"mov", "add", "sub"}
  BY DEF Instructions, Alu
<1>2. /\ d \in Words /\ o \in Words
      /\ o = IF x.src = Imm THEN Num(x.imm) ELSE reg[x.src]
      /\ Says(c, s.reg[x.dst], d)
      /\ x.src # Imm => Says(c, s.reg[x.src], o)
  BY <1>1, SomeWords DEF Operand, Holds
<1>3. v \in Words
  BY <1>2, ResultsType
<1>4. CASE x.op = "mov" /\ x.src = Imm /\ x.w = "dw"
  <2>1. v = Num(x.imm)
    BY <1>2, <1>4 DEF Results
  <2> QED
    BY <1>1, <1>3, <1>4, <2>1, SaysSome DEF AluInfo, MovInfo
<1>5. CASE x.op = "mov" /\ x.src = Imm /\ x.w = "w"
  <2>1. v \in Narrow({Num(x.imm)} \ {Undef})
    BY <1>2, <1>5 DEF Results
  <2>2. \A y \in {Num(x.imm)} \ {Undef} : y = Num(x.imm) /\ IsNum(y)
    BY DEF IsNum, Num, Ptr
  <2>3. v = Num(Num(x.imm).n % M32)
    BY <2>1, <2>2 DEF Narrow
  <2>4. Num(x.imm).n = x.imm % M64
    BY DEF Num, Ptr
  <2>5. v = Num(x.imm % M32) /\ x.imm % M32 \in Int
    <3>1. (x.imm % M64) % M32 = x.imm % M32 /\ x.imm % M32 \in 0 .. M32 - 1
      BY <1>1, HalfOfWord
    <3>2. x.imm % M32 \in Int
      BY <3>1, WordsAssumption
    <3> QED
      BY <2>3, <2>4, <3>1, <3>2
  <2>6. Says(c, scalar_const(x.imm % M32), v)
    BY <2>5, SaysSome
  <2>7. AluInfo(s, x) = scalar_const(x.imm % M32)
    BY <1>5 DEF AluInfo, MovInfo
  <2> QED
    BY <1>3, <2>6, <2>7
<1>6. CASE x.op = "mov" /\ x.src # Imm /\ x.w = "dw"
  <2>1. v = o
    BY <1>6 DEF Results
  <2> QED
    BY <1>2, <1>3, <1>6, <2>1 DEF AluInfo, MovInfo
<1>7. CASE x.op = "add" /\ x.w = "dw"
  <2>1. v \in Sum(d, o)
    BY <1>7 DEF Results
  <2>2. Says(c, AddInfo(s, x), v)
    BY <1>1, <1>2, <1>7, <2>1, AddSays
  <2> QED
    BY <1>3, <1>7, <2>2 DEF AluInfo
<1>8. CASE \/ x.op = "mov" /\ x.src # Imm /\ x.w = "w"
           \/ x.op = "add" /\ x.w = "w"
           \/ x.op = "sub"
  <2>1. AluInfo(s, x) = SCALAR
    BY <1>8 DEF AluInfo, MovInfo
  <2> QED
    BY <1>3, <2>1, SaysSome
<1> QED
  BY <1>1, <1>4, <1>5, <1>6, <1>7, <1>8

(* An access that is allowed, through a pointer that is described, is to   *)
(* where the translator fixed it.                                          *)
LEMMA AccessSays ==
  ASSUME NEW a \in Facts, NEW v \in Words, Kind(a, v), NEW off \in Int,
         Placed(a, off), Allowed(v, off)
  PROVE  /\ Place(a, off) = Location(v, off)
         /\ v.base = a.tag /\ v.map = a.map /\ (a.known => v.n = a.off)
         /\ a.tag = "stack" => /\ a.known /\ -(a.off + off) \in Slots
                               /\ -(v.n + off) = -(a.off + off)
<1>1. v.base \in {"stack", "ctx", "pkt", "mapval"}
  BY DEF Allowed
<1>2. a.tag \in {"stack", "ctx", "pkt", "mapval"}
  BY DEF Placed, HasRegion
<1>3. v.base = a.tag /\ v.map = a.map /\ (a.known => v.n = a.off)
  BY <1>1, <1>2, PointerFact DEF IsPtr
<1> QED
  BY <1>2, <1>3 DEF Placed, Place, Location
LEMMA LoadSays ==
  ASSUME NEW c, NEW s \in States, There \in Instructions, There.src \in Regs,
         Holds(c, s), reg \in [Regs -> Words], slot \in [Slots -> Words],
         AccessOK(s.reg[There.src], There.off),
         Allowed(reg[There.src], There.off),
         WidthOK(reg[There.src], There.off, There.w),
         NEW v \in Content(reg[There.src], There.off, There.w)
  PROVE  v \in Words /\ Says(c, Loaded(s, s.reg[There.src], There.off), v)
<1> DEFINE x == There
           a == s.reg[x.src]
           p == reg[x.src]
           q == -(a.off + x.off)
<1>1. /\ x.off \in Int /\ x.w \in {"dw", "w"} /\ a \in Facts /\ p \in Words
      /\ Kind(a, p) /\ Placed(a, x.off) /\ a.off \in Int /\ p.n \in Int
  BY DEF Instructions, States, Facts, Infos, Words, Holds, Says, AccessOK
<1>2. /\ p.base = a.tag /\ (a.known => p.n = a.off)
      /\ a.tag = "stack" => /\ a.known /\ q \in Slots
                            /\ -(p.n + x.off) = q
  BY <1>1, AccessSays
<1>3. CASE a.tag = "stack"
  <2>1. Loaded(s, a, x.off) = s.slot[q]
    BY <1>1, <1>3 DEF Loaded
  <2>2. v \in Slice(slot[q], x.w) /\ width[q] = x.w
    BY <1>2, <1>3 DEF Content, At, WidthOK
  <2> HIDE DEF q
  <2>3. slot[q] \in Words /\ slot[q].n \in Int
    BY <1>2, <1>3 DEF Words
  <2>4. slot[q].n % M32 \in Int
    <3>1. slot[q].n % M32 \in 0 .. M32 - 1
      BY <2>3, HalfOfWord
    <3> QED
      BY <3>1, WordsAssumption
  <2>5. v = InSlotOf(q) /\ v \in Words
    BY <1>1, <2>2, <2>3, <2>4, SomeWords DEF Slice, InSlotOf
  <2> QED
    BY <1>2, <1>3, <2>1, <2>5 DEF Holds
<1>4. CASE a.tag # "stack"
  <2>1. v \in (IF p.base = "ctx" /\ p.n + x.off \in CtxPkt
                 THEN {Ptr("pkt", NoMap, 2 * (p.n + x.off))} ELSE Read)
    BY <1>2, <1>4 DEF Content
  <2>2. 2 * (p.n + x.off) \in Int /\ NoMap \in Int
    BY <1>1 DEF NoMap
  <2>3. v \in Words
    BY <2>1, <2>2, SomeWords
  <2>4. CASE a.tag = "ctx" /\ a.known /\ a.off + x.off \in CtxPkt
    <3>1. Loaded(s, a, x.off) = Moved(pointer("pkt", 0))
      BY <2>4 DEF Loaded
    <3>2. v.base = "pkt" /\ v.map = NoMap
      BY <1>2, <2>1, <2>4 DEF Ptr
    <3> QED
      BY <2>3, <3>1, <3>2
         DEF Moved, pointer, Info, Says, Kind, Constant
  <2>5. CASE ~(a.tag = "ctx" /\ a.known /\ a.off + x.off \in CtxPkt)
    <3>1. Loaded(s, a, x.off) = SCALAR
      BY <1>4, <2>5 DEF Loaded
    <3> QED
      BY <2>3, <3>1, SaysSome
  <2> QED
    BY <2>4, <2>5
<1> QED
  BY <1>3, <1>4

LEMMA WrittenSays ==
  ASSUME NEW c, NEW b \in Facts, NEW old \in Words, NEW o \in Words,
         Says(c, b, o), NEW w \in {"dw", "w"}, NEW v \in Written(old, o, w)
  PROVE  /\ v \in Words
         /\ Says(c, b, IF w = "w" THEN Num(v.n % M32) ELSE v)
<1>1. CASE w = "dw"
  BY <1>1 DEF Written
<1>2. CASE w = "w"
  <2>1. /\ IsNum(o) /\ o.n \in Int /\ old.n \in Int
        /\ \/ v = Num(old.n - (old.n % M32) + (o.n % M32))
           \/ v = Half(o.n)
    BY <1>2 DEF Written, Words
  <2> DEFINE z == old.n - (old.n % M32) + (o.n % M32)
  <2>2. /\ z \in Int /\ (z % M64) % M32 = o.n % M32
        /\ (o.n % M32) % M32 = o.n % M32
    <3>1. old.n % M32 \in 0 .. M32 - 1 /\ o.n % M32 \in 0 .. M32 - 1
      BY <2>1, HalfOfWord
    <3>2. z \in Int
      BY <2>1, <3>1, WordsAssumption
    <3> QED
      BY <2>1, <3>2, HalfOfWord, LowerHalf
  <2>3. v.n = z % M64 \/ v.n = o.n % M32
    BY <2>1 DEF Num, Half, Ptr
  <2>4. v.n % M32 = o.n % M32
    BY <2>2, <2>3
  <2>5. v \in Words
    BY <2>1, <2>2, SomeWords
  <2> HIDE DEF z
  <2> DEFINE y == Num(o.n % M32)
  <2>6. b.tag \in {"scalar", "unknown"}
    BY <2>1, PointerFact DEF Says
  <2>7. Kind(b, y)
    BY <2>6 DEF Kind
  <2>8. ASSUME c = "constants", b.tag = "scalar", b.const # NoConst
        PROVE  y = Num(b.const % M32)
    <3>1. b.const \in Int
      <4>1. b.const \in 0 .. M64 - 1
        BY <2>8 DEF Facts, Infos
      <4> QED
        BY <4>1, WordsAssumption
    <3>2. o # Undef
      BY <2>1 DEF IsNum, Undef, Ptr
    <3>3. o = Num(b.const) \/ o = Num(b.const % M32)
      BY <2>8, <3>2 DEF Says, Constant
    <3>4. o.n = b.const % M64 \/ o.n = (b.const % M32) % M64
      BY <3>3 DEF Num, Ptr
    <3>5. o.n % M32 = b.const % M32
      <4>1. /\ (b.const % M64) % M32 = b.const % M32
            /\ (b.const % M32) % M64 = b.const % M32
            /\ (b.const % M32) % M32 = b.const % M32
        BY <3>1, HalfOfWord
      <4> QED
        BY <3>4, <4>1
    <3> QED
      BY <3>5
  <2>9. Says(c, b, y)
    BY <2>7, <2>8 DEF Says, Constant
  <2> QED
    BY <1>2, <2>4, <2>5, <2>9
<1> QED
  BY <1>1, <1>2

LEMMA StoreHolds ==
  ASSUME NEW c, NEW s \in States, NEW x \in Instructions, x = There,
         x.op = "st", Holds(c, s), reg \in [Regs -> Words], slot \in [Slots -> Words],
         width \in [Slots -> {"none", "dw", "w"}],
         AccessOK(s.reg[x.dst], x.off), RunStore
  PROVE  /\ Holds(c, Transfer(s, x))'
         /\ slot' \in [Slots -> Words]
         /\ width' \in [Slots -> {"none", "dw", "w"}]
<1> DEFINE a == s.reg[x.dst]
           p == reg[x.dst]
           q == -(a.off + x.off)
           o == Operand
           b == IF x.src = Imm THEN scalar_const(x.imm) ELSE s.reg[x.src]
<1>1. /\ x.off \in Int /\ x.w \in {"dw", "w"} /\ a \in Facts /\ p \in Words
      /\ x.dst \in Regs /\ x.src \in Regs \cup {Imm} /\ x.imm \in Int
      /\ Kind(a, p) /\ Placed(a, x.off) /\ Allowed(p, x.off)
      /\ reg' = reg
  BY DEF Instructions, States, Holds, Says, AccessOK, RunStore
<1>2. /\ p.base = a.tag
      /\ a.tag = "stack" => q \in Slots /\ -(p.n + x.off) = q
  BY <1>1, AccessSays
<1>3. o \in Words /\ b \in Facts /\ Says(c, b, o)
  <2>1. CASE x.src = Imm
    BY <1>1, <2>1, SomeWords, SomeFacts, SaysSome DEF Operand
  <2>2. CASE x.src # Imm
    BY <1>1, <2>2 DEF Operand, States, Holds
  <2> QED
    BY <2>1, <2>2
<1>4. Transfer(s, x) = IF a.tag = "stack" THEN [s EXCEPT !.slot[q] = b] ELSE s
  BY <1>1 DEF Transfer, Alu, Stored
<1>5. CASE a.tag = "stack"
  <2>1. PICK v \in Written(slot[q], o, x.w) : slot' = [slot EXCEPT ![q] = v]
    BY <1>2, <1>5 DEF RunStore
  <2>2. width' = [width EXCEPT ![q] = x.w]
    BY <1>2, <1>5 DEF RunStore
  <2>3. q \in Slots
    BY <1>2, <1>5
  <2>0. PICK T : T = [s EXCEPT !.slot[q] = b]
    OBVIOUS
  <2> HIDE DEF q, b, o
  <2>4. /\ v \in Words
        /\ Says(c, b, IF x.w = "w" THEN Num(v.n % M32) ELSE v)
    BY <1>1, <1>3, <2>3, WrittenSays
  <2>5. slot' \in [Slots -> Words] /\ width' \in [Slots -> {"none", "dw", "w"}]
    BY <1>1, <2>1, <2>2, <2>3, <2>4
  <2>6. T.reg = s.reg /\ T.slot = [s.slot EXCEPT ![q] = b]
    BY <2>0, <2>3 DEF States
  <2>7. \A r \in Regs : Says(c, T.reg[r], reg'[r])
    BY <1>1, <2>6 DEF Holds
  <2>8. ASSUME NEW i \in Slots
        PROVE  Says(c, T.slot[i], InSlotOf(i)')
    <3>1. CASE i = q
      <4>1. slot'[i] = v /\ width'[i] = x.w /\ T.slot[i] = b
        BY <2>1, <2>2, <2>3, <2>6, <3>1 DEF States
      <4> QED
        BY <2>4, <4>1 DEF InSlotOf
    <3>2. CASE i # q
      <4>1. slot'[i] = slot[i] /\ width'[i] = width[i] /\ T.slot[i] = s.slot[i]
        BY <2>1, <2>2, <2>3, <2>6, <3>2 DEF States
      <4> QED
        BY <4>1 DEF InSlotOf, Holds
    <3> QED
      BY <3>1, <3>2
  <2>9. Transfer(s, x) = T
    BY <1>4, <1>5, <2>0
  <2>10. Holds(c, T)'
    BY <2>7, <2>8 DEF Holds
  <2> QED
    BY <2>5, <2>9, <2>10
<1>6. CASE a.tag # "stack"
  <2>1. UNCHANGED <<slot, width>>
    BY <1>2, <1>6 DEF RunStore, memory
  <2> QED
    BY <1>1, <1>4, <1>6, <2>1 DEF Holds, InSlotOf
<1> QED
  BY <1>5, <1>6
LEMMA CallHolds ==
  ASSUME NEW c, NEW s \in States, Holds(c, s), reg \in [Regs -> Words],
         NEW a \in Facts, NEW v \in Words, Says(c, a, v), AfterCall(v)
  PROVE  Holds(c, Clobbered(s, a))' /\ reg' \in [Regs -> Words]
<1>1. /\ reg' = [r \in Regs |-> IF r \in Clobbers THEN Undef
                                ELSE IF r = 0 THEN v ELSE reg[r]]
      /\ UNCHANGED <<slot, width>>
  BY DEF AfterCall, memory
<1>2. PICK T : T = Clobbered(s, a)
  OBVIOUS
<1>3. /\ T.reg = [r \in Regs |-> IF r \in Clobbers THEN SCALAR
                                 ELSE IF r = 0 THEN a ELSE s.reg[r]]
      /\ T.slot = s.slot
  BY <1>2 DEF Clobbered, States
<1>4. \A r \in Regs : Says(c, T.reg[r], reg'[r])
  BY <1>1, <1>3, SaysSome DEF Holds
<1>5. \A q \in Slots : Says(c, T.slot[q], InSlotOf(q)')
  BY <1>1, <1>3 DEF Holds, InSlotOf
<1>6. Holds(c, T)'
  BY <1>4, <1>5 DEF Holds
<1>7. reg' \in [Regs -> Words]
  BY <1>1, SomeWords
<1> QED
  BY <1>2, <1>6, <1>7

(* What a helper gives is what the translator takes it to give.            *)
LEMMA ResultSays ==
  ASSUME NEW c, NEW s \in States, Holds(c, s), reg \in [Regs -> Words],
         There.op \in Calls, CallAllowed, s.reg[1].tag = "map",
         NEW v \in CallResults
  PROVE  /\ v \in Words
         /\ There.op = "lookup" =>
              Says(c, map_pointer("mapval", 0, s.reg[1].map), v)
         /\ There.op = "update" =>
              Says(c, IF s.reg[1].map \in ArrayMaps THEN scalar_const(0)
                                                    ELSE SCALAR, v)
         /\ s.reg[1].map = reg[1].map
<1>1. 1 \in Regs /\ reg[1] \in Words /\ s.reg[1] \in Facts
  BY DEF Regs, States
<1>2. s.reg[1].map = reg[1].map
  <2>1. Kind(s.reg[1], reg[1]) /\ IsPtr(reg[1])
    BY <1>1 DEF Holds, Says, CallAllowed, IsPtr
  <2> QED
    BY <1>1, <2>1, PointerFact
<1>3. reg[1].map \in Int
  BY <1>1 DEF Words
<1>4. v \in Words
  BY <1>3, SomeWords, 0 \in Int, -1 \in Int DEF CallResults
<1>5. Says(c, map_pointer("mapval", 0, s.reg[1].map), Null)
  BY DEF Says, Kind, Constant, map_pointer, Info
<1>6. CASE There.op = "lookup"
  BY <1>2, <1>4, <1>5, <1>6, SaysSome DEF CallResults
<1>7. CASE There.op = "update"
  <2>1. s.reg[1].map \in ArrayMaps => v = Num(0)
    BY <1>2, <1>7 DEF CallResults
  <2> QED
    BY <1>2, <1>4, <1>7, <2>1, SaysSome
<1> QED
  BY <1>6, <1>7 DEF Calls

(* One instruction of the run, from a state that is described.             *)
Runs == RunAlu \/ RunLdMap \/ RunLdx \/ RunStore \/ RunLdPkt \/ RunCall

LEMMA RunHolds ==
  ASSUME NEW c, NEW s \in States, NEW x \in Instructions, x = There,
         x.op = "ldx" => x.src \in Regs,
         x.op = "add" => 2 * x.imm \in -M64 .. M64 - 1,
         Accepts(s, x), c = "constants" => ~Sums(s, x), Holds(c, s),
         reg \in [Regs -> Words], slot \in [Slots -> Words],
         width \in [Slots -> {"none", "dw", "w"}],
         Runs, ~Reject
  PROVE  /\ Holds(c, Transfer(s, x))'
         /\ reg' \in [Regs -> Words] /\ slot' \in [Slots -> Words]
         /\ width' \in [Slots -> {"none", "dw", "w"}]
         /\ at' = at + 1 /\ x.op \notin Jumps
         /\ UNCHANGED <<insns, phase, translation>>
<1>1. x.dst \in Regs /\ x.imm \in Int
  BY DEF Instructions
<1>2. ASSUME NEW a \in Facts, NEW v \in Words, Says(c, a, v),
             reg' = [reg EXCEPT ![x.dst] = v], UNCHANGED memory
      PROVE  Holds(c, SetReg(s, x.dst, a))' /\ reg' \in [Regs -> Words]
  <2>1. PICK T : T = SetReg(s, x.dst, a)
    OBVIOUS
  <2>2. T.reg = [s.reg EXCEPT ![x.dst] = a] /\ T.slot = s.slot
    BY <1>1, <2>1 DEF SetReg, States
  <2>3. UNCHANGED <<slot, width>>
    BY <1>2 DEF memory
  <2>4. \A r \in Regs : Says(c, T.reg[r], reg'[r])
    BY <1>1, <1>2, <2>2 DEF Holds, States
  <2>5. \A q \in Slots : Says(c, T.slot[q], InSlotOf(q)')
    BY <2>2, <2>3 DEF Holds, InSlotOf
  <2>6. Holds(c, T)'
    BY <2>4, <2>5 DEF Holds
  <2> QED
    BY <1>1, <1>2, <2>1, <2>6
<1>3. CASE RunAlu
  <2>1. PICK v \in Results(reg[x.dst], Operand) :
          reg' = [reg EXCEPT ![x.dst] = v]
    BY <1>3 DEF RunAlu
  <2>2. /\ x.op \in Alu /\ at' = at + 1 /\ UNCHANGED memory
        /\ UNCHANGED <<insns, phase, translation>>
    BY <1>3 DEF RunAlu
  <2>3. v \in Words /\ Says(c, AluInfo(s, x), v)
    BY <2>1, <2>2, AluSays
  <2>4. AluInfo(s, x) \in Facts
    <3>1. Transfer(s, x) \in States /\ Transfer(s, x) = SetReg(s, x.dst, AluInfo(s, x))
      BY <2>2, TransferState DEF Transfer, Alu
    <3> QED
      BY <1>1, <3>1 DEF SetReg, States
  <2>5. Transfer(s, x) = SetReg(s, x.dst, AluInfo(s, x))
    BY <2>2 DEF Transfer, Alu
  <2> QED
    BY <1>2, <2>1, <2>2, <2>3, <2>4, <2>5 DEF Alu, Jumps, memory
<1>4. CASE RunLdMap
  <2>1. /\ x.op = "ldmap" /\ at' = at + 1 /\ UNCHANGED memory
        /\ UNCHANGED <<insns, phase, translation>>
        /\ reg' = [reg EXCEPT ![x.dst] = Ptr("map", x.imm, 0)]
    BY <1>4 DEF RunLdMap
  <2>2. /\ Ptr("map", x.imm, 0) \in Words
        /\ map_pointer("map", 0, x.imm) \in Facts
        /\ Says(c, map_pointer("map", 0, x.imm), Ptr("map", x.imm, 0))
    BY <1>1, SomeWords, SomeFacts, SaysSome
  <2>3. Transfer(s, x) = SetReg(s, x.dst, map_pointer("map", 0, x.imm))
    BY <2>1 DEF Transfer, Alu
  <2> QED
    BY <1>2, <2>1, <2>2, <2>3 DEF Jumps, memory
<1>5. CASE RunLdx
  <2> DEFINE p == reg[x.src]
             a == Loaded(s, s.reg[x.src], x.off)
  <2>1. /\ x.op = "ldx" /\ Allowed(p, x.off) /\ WidthOK(p, x.off, x.w)
        /\ at' = at + 1 /\ UNCHANGED memory
        /\ UNCHANGED <<insns, phase, translation>>
    BY <1>5 DEF RunLdx
  <2>2. PICK v \in Content(p, x.off, x.w) : reg' = [reg EXCEPT ![x.dst] = v]
    BY <1>5, <2>1 DEF RunLdx
  <2>3. AccessOK(s.reg[x.src], x.off)
    BY <2>1 DEF Accepts
  <2>4. v \in Words /\ Says(c, a, v)
    BY <2>1, <2>2, <2>3, LoadSays
  <2>5. Transfer(s, x) = SetReg(s, x.dst, a)
    BY <2>1 DEF Transfer, Alu
  <2>6. a \in Facts
    <3>1. SetReg(s, x.dst, a) \in States
      BY <2>1, <2>5, TransferState
    <3> HIDE DEF a
    <3> QED
      BY <1>1, <3>1 DEF SetReg, States
  <2> HIDE DEF a
  <2> QED
    BY <1>2, <2>1, <2>2, <2>4, <2>5, <2>6 DEF Jumps, memory
<1>6. CASE RunStore
  <2>1. /\ x.op = "st" /\ at' = at + 1
        /\ UNCHANGED <<insns, phase, translation, reg>>
    BY <1>6 DEF RunStore
  <2>2. AccessOK(s.reg[x.dst], x.off)
    BY <2>1 DEF Accepts
  <2> QED
    BY <1>6, <2>1, <2>2, StoreHolds DEF Jumps
<1>7. CASE RunLdPkt
  <2>1. PICK v \in Read : AfterCall(v)
    BY <1>7 DEF RunLdPkt
  <2>2. v \in Words /\ SCALAR \in Facts /\ Says(c, SCALAR, v)
    BY SomeWords, SomeFacts, SaysSome
  <2>3. x.op = "ldpkt" /\ Transfer(s, x) = Clobbered(s, SCALAR)
    BY <1>7 DEF RunLdPkt, Transfer, Alu
  <2> QED
    BY <2>1, <2>2, <2>3, CallHolds DEF AfterCall, Jumps, memory
<1>8. CASE RunCall
  <2>1. x.op \in Calls /\ CallAllowed
    BY <1>8 DEF RunCall
  <2>2. PICK v \in CallResults : AfterCall(v)
    BY <1>8 DEF RunCall
  <2>3. s.reg[1].tag = "map"
    BY <2>1 DEF Accepts, LookupOK, UpdateOK, Calls
  <2> DEFINE a == IF x.op = "lookup"
                    THEN map_pointer("mapval", 0, s.reg[1].map)
                  ELSE IF s.reg[1].map \in ArrayMaps THEN scalar_const(0)
                  ELSE SCALAR
  <2>4. v \in Words /\ Says(c, a, v)
    BY <2>1, <2>2, <2>3, ResultSays DEF Calls
  <2>5. s.reg[1].map \in Int
    BY DEF States, Facts, Infos, Regs
  <2>6. a \in Facts
    BY <2>5, SomeFacts
  <2>7. Transfer(s, x) = Clobbered(s, a)
    BY <2>1 DEF Transfer, Alu, Calls
  <2> HIDE DEF a
  <2> QED
    BY <2>1, <2>2, <2>4, <2>6, <2>7, CallHolds
       DEF AfterCall, Calls, Jumps, memory
<1> QED
  BY <1>3, <1>4, <1>5, <1>6, <1>7, <1>8 DEF Runs
(* The run goes on to an instruction that was translated from what is so.  *)
LEMMA Reached ==
  ASSUME NEW c, NEW A, Typed, Trace(c, A), k = N,
         NEW i \in 0 .. N - 1, NEW t \in Succ(i), t < N,
         NEW s, s = Transfer(A[i], Insn(i)), Holds(c, s)'
  PROVE  Holds(c, A[t])' /\ (t \in Leaders => blockIn[t].live)
<1>1. N \in Nat /\ i \in 0 .. k - 1 /\ insns \in Programs
  BY TypedFacts DEF Typed
<1>2. IF t \in Leaders THEN blockIn[t].live /\ Covers(blockIn[t], s)
                       ELSE A[t] = s
  BY <1>1 DEF Trace, Follows
<1>3. PICK a : a = A[t]
  OBVIOUS
<1>4. t \in 0 .. N - 1 /\ t < k
  BY <1>1, SuccFacts
<1>5. CASE t \in Leaders
  <2>1. A[t] = blockIn[t]
    BY <1>2, <1>4, <1>5 DEF Trace, Entered
  <2>2. Covers(a, s)
    BY <1>2, <1>3, <1>5, <2>1
  <2>3. Holds(c, a)'
    BY <2>2, WeakerSays DEF Covers, Holds
  <2> QED
    BY <1>2, <1>3, <1>5, <2>3
<1>6. CASE t \notin Leaders
  BY <1>2, <1>3, <1>6
<1> QED
  BY <1>5, <1>6

LEMMA RunTyped ==
  ASSUME Typed, phase = "run", UNCHANGED <<insns, translation>>,
         phase' \in {"run", "rejected", "done"}, at' \in 0 .. N,
         reg' \in [Regs -> Words], slot' \in [Slots -> Words],
         width' \in [Slots -> {"none", "dw", "w"}]
  PROVE  Typed'
BY Frame DEF Typed, translation

LEMMA RunTrace ==
  ASSUME NEW c, NEW A \in [0 .. N - 1 -> States], Typed, Starts(c),
         Trace(c, A), Knows(c, A), Runs \/ RunJump \/ RunEnd
  PROVE  IInv(c)'
<1>1. /\ phase = "run" /\ UNCHANGED <<insns, translation>>
      /\ UNCHANGED <<k, blockIn, st, error, emitted>>
  BY DEF Runs, RunAlu, RunLdMap, RunLdx, RunStore, RunLdPkt, RunCall, RunJump,
         RunEnd, Running, Reject, AfterCall, translation
<1>2. /\ k = N /\ N \in Nat /\ at \in 0 .. N /\ N' = N /\ Leaders' = Leaders
      /\ error = FALSE /\ insns \in Programs
      /\ reg \in [Regs -> Words] /\ slot \in [Slots -> Words]
      /\ width \in [Slots -> {"none", "dw", "w"}]
  BY <1>1, Frame, TypedFacts DEF Typed
<1>3. Trace(c, A)' /\ A \in [0 .. N' - 1 -> States]
  BY <1>1, <1>2, TraceStill
<1>4. ASSUME phase' \in {"run", "rejected", "done"}
      PROVE  Starts(c)'
  BY <1>1, <1>2, <1>4 DEF Starts
<1>5. ASSUME phase' \in {"rejected", "done"}, UNCHANGED machine
      PROVE  IInv(c)'
  <2>1. Typed'
    BY <1>1, <1>2, <1>5, RunTyped DEF machine, memory
  <2>2. Knows(c, A)'
    BY <1>5 DEF Knows
  <2> QED
    BY <1>3, <1>4, <1>5, <2>1, <2>2 DEF IInv
<1>6. CASE RunEnd
  BY <1>5, <1>6 DEF RunEnd
<1>7. CASE Reject
  BY <1>5, <1>7 DEF Reject
<1>8. ASSUME at < N, NEW i \in 0 .. N - 1, i = at, phase' = "run",
             NEW s, s = Transfer(A[i], Insn(i)), Holds(c, s)',
             at' \in 0 .. N, at' < N => at' \in Succ(i),
             reg' \in [Regs -> Words], slot' \in [Slots -> Words],
             width' \in [Slots -> {"none", "dw", "w"}]
      PROVE  IInv(c)'
  <2>1. Typed'
    BY <1>1, <1>8, RunTyped
  <2>2. PICK t : t = at'
    OBVIOUS
  <2>3. t < N => Holds(c, A[t])' /\ (t \in Leaders => blockIn[t].live)
    BY <1>2, <1>8, <2>2, Reached
  <2>4. Knows(c, A)'
    BY <1>1, <1>2, <2>2, <2>3 DEF Knows
  <2> QED
    BY <1>3, <1>4, <1>8, <2>1, <2>4 DEF IInv
<1>9. CASE (Runs /\ ~Reject) \/ RunJump
  <2>1. Running
    BY <1>9 DEF Runs, RunAlu, RunLdMap, RunLdx, RunStore, RunLdPkt, RunCall,
                RunJump
  <2>0. PICK x : x = There
    OBVIOUS
  <2>2. PICK i \in 0 .. N - 1 : i = at
    BY <1>2, <2>1 DEF Running
  <2>3. /\ x = Insn(i) /\ x \in Instructions
        /\ x.op = "ldx" => x.src \in Regs
        /\ x.op = "add" => 2 * x.imm \in -M64 .. M64 - 1
        /\ x.op \in {"jcc", "ja"} => Target(i) \in i + 1 .. N
    BY <1>2, <2>0, <2>2, ProgramFacts DEF There
  <2>4. A[i] \in States /\ Holds(c, A[i]) /\ Follows(c, A, i)
    BY <1>1, <1>2, <2>1, <2>2 DEF Knows, Trace, Running
  <2>5. /\ Accepts(A[i], x)
        /\ c = "constants" => ~Sums(A[i], x)
    BY <1>2, <2>3, <2>4 DEF Follows
  <2>6. CASE Runs /\ ~Reject
    <3>1. /\ Holds(c, Transfer(A[i], x))'
          /\ reg' \in [Regs -> Words] /\ slot' \in [Slots -> Words]
          /\ width' \in [Slots -> {"none", "dw", "w"}]
          /\ at' = at + 1 /\ x.op \notin Jumps
          /\ UNCHANGED <<insns, phase, translation>>
      BY <1>2, <2>0, <2>3, <2>4, <2>5, <2>6, RunHolds
    <3>2. at' \in Succ(i) /\ at' \in 0 .. N
      BY <1>2, <2>2, <2>3, <3>1 DEF Succ, Jumps
    <3>3. PICK s : s = Transfer(A[i], x)
      OBVIOUS
    <3>4. Holds(c, s)'
      BY <3>1, <3>3
    <3> QED
      BY <1>1, <1>8, <2>1, <2>2, <2>3, <3>1, <3>2, <3>3, <3>4 DEF Running
  <2>7. CASE RunJump
    <3>1. /\ x.op \in Jumps /\ UNCHANGED <<insns, phase, translation>>
          /\ UNCHANGED <<reg, slot, width>>
          /\ at' \in CASE x.op = "exit" -> {N}
                       [] x.op = "ja"   -> {Target(i)}
                       [] x.op = "jcc"  -> {i + 1, Target(i)}
      BY <2>0, <2>2, <2>7 DEF RunJump, memory
    <3>2. at' \in 0 .. N /\ (at' < N => at' \in Succ(i))
      BY <1>2, <2>3, <3>1 DEF Succ, Jumps
    <3>3. Transfer(A[i], x) = A[i]
      BY <3>1 DEF Transfer, Alu, Jumps
    <3>4. PICK s : s = A[i]
      OBVIOUS
    <3>5. Holds(c, s)'
      BY <2>4, <3>1, <3>4 DEF Holds, InSlotOf
    <3>6. s = Transfer(A[i], Insn(i))
      BY <2>3, <3>3, <3>4
    <3> QED
      BY <1>1, <1>2, <1>8, <2>1, <2>2, <3>1, <3>2, <3>5, <3>6 DEF Running
  <2> QED
    BY <1>9, <2>6, <2>7
<1> QED
  BY <1>6, <1>7, <1>9
(* ---------------------- the inductive invariant ------------------------ *)
LEMMA EntryHolds ==
  ASSUME NEW c, Init
  PROVE  Holds(c, Entry)
<1>1. /\ Entry.reg = [Fresh.reg EXCEPT ![1] = pointer("ctx", 0),
                                       ![10] = pointer("stack", 0)]
      /\ Entry.slot = Fresh.slot
  BY SomeStates DEF Entry, States
<1>2. /\ Fresh.reg = [r \in Regs |-> SCALAR]
      /\ Fresh.slot = [q \in Slots |-> SCALAR]
  BY DEF Fresh
<1>3. reg = [r \in Regs |-> CASE r = 1  -> Ptr("ctx", NoMap, 0)
                               [] r = 10 -> Ptr("stack", NoMap, 0)
                               [] OTHER  -> Undef]
  BY DEF Init
<1>4. /\ Says(c, pointer("ctx", 0), Ptr("ctx", NoMap, 0))
      /\ Says(c, pointer("stack", 0), Ptr("stack", NoMap, 0))
  BY DEF Says, Kind, Constant, pointer, Info, Ptr
<1>5. \A r \in Regs : Says(c, Entry.reg[r], reg[r])
  <2> TAKE r \in Regs
  <2>1. CASE r = 1
    <3>1. Entry.reg[r] = pointer("ctx", 0) /\ reg[r] = Ptr("ctx", NoMap, 0)
      BY <1>1, <1>2, <1>3, <2>1
    <3> QED
      BY <1>4, <3>1
  <2>2. CASE r = 10
    <3>1. Entry.reg[r] = pointer("stack", 0) /\ reg[r] = Ptr("stack", NoMap, 0)
      BY <1>1, <1>2, <1>3, <2>2
    <3> QED
      BY <1>4, <3>1
  <2>3. CASE r # 1 /\ r # 10
    <3>1. reg[r] = Undef
      BY <1>3, <2>3
    <3> QED
      BY <3>1, SaysSome
  <2> QED
    BY <2>1, <2>2, <2>3
<1>6. \A q \in Slots : Says(c, Entry.slot[q], InSlotOf(q))
  BY <1>1, <1>2, SaysSome
<1> QED
  BY <1>5, <1>6 DEF Holds

LEMMA InitIInv ==
  ASSUME NEW c, Init
  PROVE  IInv(c)
<1>1. /\ insns \in Programs /\ phase = "translate" /\ k = 0 /\ at = 0
      /\ blockIn = [l \in Leaders |-> IF l = 0 THEN Entry ELSE Fresh]
      /\ st = NoState /\ error = FALSE
      /\ emitted = [i \in 0 .. N - 1 |-> Nothing]
      /\ slot = [s \in Slots |-> Undef] /\ width = [s \in Slots |-> "none"]
      /\ reg = [r \in Regs |-> CASE r = 1  -> Ptr("ctx", NoMap, 0)
                                 [] r = 10 -> Ptr("stack", NoMap, 0)
                                 [] OTHER  -> Undef]
  BY DEF Init
<1>2. N \in Nat /\ Leaders \subseteq 0 .. N - 1 /\ (N > 0 => 0 \in Leaders)
  BY <1>1, ProgramFacts
<1>3. Typed
  <2>1. /\ Ptr("ctx", NoMap, 0) \in Words /\ Ptr("stack", NoMap, 0) \in Words
        /\ Undef \in Words
    BY SomeWords DEF NoMap
  <2>2. reg \in [Regs -> Words] /\ slot \in [Slots -> Words]
    BY <1>1, <2>1
  <2>3. blockIn \in [Leaders -> States]
    BY <1>1, SomeStates
  <2>4. k \in Leaders \cup {N} /\ k \in 0 .. N
    BY <1>1, <1>2
  <2>5. /\ width \in [Slots -> {"none", "dw", "w"}]
        /\ DOMAIN emitted = 0 .. N - 1
    BY <1>1
  <2> QED
    BY <1>1, <2>2, <2>3, <2>4, <2>5 DEF Typed
<1>4. Starts(c)
  <2>1. N > 0 => blockIn[0] = Entry
    BY <1>1, <1>2
  <2>2. Entry.live
    BY SomeStates DEF Entry, States
  <2> QED
    BY <1>1, <2>1, <2>2, EntryHolds, CoversOrder DEF Starts
<1>5. PICK A \in [0 .. N - 1 -> States] : A = [i \in 0 .. N - 1 |-> Fresh]
  BY SomeStates
<1>6. Trace(c, A)
  <2>1. \A i \in 0 .. N - 1 : Entered(A, i)
    BY <1>1, <1>2 DEF Entered
  <2>2. 0 .. k - 1 = {}
    BY <1>1
  <2> QED
    BY <1>1, <2>1, <2>2 DEF Trace
<1>7. Knows(c, A)
  BY <1>1 DEF Knows
<1> QED
  BY <1>3, <1>4, <1>6, <1>7 DEF IInv

LEMMA NextIInv ==
  ASSUME NEW c, IInv(c), c = "constants" => SumsNoConstant, [Next]_vars
  PROVE  IInv(c)'
<1>1. PICK A \in [0 .. N - 1 -> States] : Trace(c, A) /\ Knows(c, A)
  BY DEF IInv
<1>2. Typed /\ Starts(c)
  BY DEF IInv
<1>3. CASE EnterBlock
  BY <1>1, <1>2, <1>3, EnterTrace
<1>4. CASE TranslateInsn
  <2>1. phase = "translate" /\ Inside
    BY <1>4 DEF TranslateInsn, TranslateAlu, TranslateLdMap, TranslateLdx,
                TranslateStore, TranslateLdPkt, TranslateLookup,
                TranslateUpdate, TranslateJump, Inside
  <2> QED
    BY <1>1, <1>2, <1>4, <2>1, InsnTranslated, TranslatedTrace
       DEF SumsNoConstant
<1>5. CASE TranslateEnd
  BY <1>1, <1>2, <1>5, EndTrace
<1>6. CASE Runs \/ RunJump \/ RunEnd
  BY <1>1, <1>2, <1>6, RunTrace
<1>7. CASE UNCHANGED vars
  <2>1. /\ UNCHANGED <<insns, translation>>
        /\ UNCHANGED <<phase, k, blockIn, st, error, emitted>>
        /\ UNCHANGED <<at, reg, slot, width>>
        /\ N' = N /\ Leaders' = Leaders
    BY <1>7, Frame DEF vars, translation, machine, memory
  <2>2. Typed' /\ Trace(c, A)'
    BY <1>1, <1>2, <2>1, TraceStill DEF Typed
  <2>3. \A s : Holds(c, s)' <=> Holds(c, s)
    BY <2>1 DEF Holds, InSlotOf
  <2>4. Starts(c)'
    BY <1>2, <2>1, <2>3 DEF Starts
  <2>5. Knows(c, A)'
    BY <1>1, <2>1, <2>3 DEF Knows
  <2> QED
    BY <2>1, <2>2, <2>4, <2>5 DEF IInv
<1> QED
  BY <1>3, <1>4, <1>5, <1>6, <1>7 DEF Next, TranslateInsn, Runs

(* What the translator knows of the kind, the map and the offset of every  *)
(* register and stack slot is so at every instruction the run reaches,     *)
(* whatever path led there (RegInfo, AbsState.join_from,                   *)
(* translate_program): the states the instructions were translated in are  *)
(* a trace the run follows.                                                *)
THEOREM KindsKnown == Spec => []IInv("kinds")
<1>1. Init => IInv("kinds")
  BY InitIInv
<1>2. IInv("kinds") /\ [Next]_vars => IInv("kinds")'
  BY NextIInv
<1> QED
  BY <1>1, <1>2, PTL DEF Spec

(* The constants it knows are so as well, but for an upper half a store    *)
(* may have left off, as long as translate_alu does not keep a constant an *)
(* immediate is added to.                                                  *)
THEOREM ConstantsKnown == Spec /\ []SumsNoConstant => []IInv("constants")
<1>1. Init => IInv("constants")
  BY InitIInv
<1>2. IInv("constants") /\ SumsNoConstant /\ [Next]_vars
        => IInv("constants")'
  BY NextIInv
<1> QED
  BY <1>1, <1>2, PTL DEF Spec

(* ------------------------------ what follows --------------------------- *)
(* What is known is always of the kinds RegInfo has, and its constants are *)
(* words: offsets and constants stay what translate_alu makes them, and a  *)
(* join brings in nothing new.                                             *)
THEOREM TypeCorrect == Spec => []TypeOK
<1>1. ASSUME IInv("kinds")
      PROVE  TypeOK
  <2>1. Typed
    BY <1>1 DEF IInv
  <2>2. {blockIn[l] : l \in Leaders} \cup ({st} \ {NoState}) \subseteq States
    BY <2>1 DEF Typed
  <2>3. \A s \in States : /\ \A r \in Regs : s.reg[r] \in Infos
                          /\ \A i \in Slots : s.slot[i] \in Infos
    BY DEF States, Facts
  <2> QED
    BY <2>1, <2>2, <2>3 DEF Typed, TypeOK
<1> QED
  BY <1>1, KindsKnown, PTL

LEMMA AtRun ==
  ASSUME NEW c, IInv(c), Running
  PROVE  /\ There \in Instructions /\ (There.op = "ldx" => There.src \in Regs)
         /\ reg \in [Regs -> Words] /\ slot \in [Slots -> Words]
         /\ \E s \in States :
              /\ Holds(c, s) /\ Accepts(s, There)
              /\ There.op \in Accesses => emitted[at] = Fixed(s, There)
<1>1. PICK A \in [0 .. N - 1 -> States] : Trace(c, A) /\ Knows(c, A)
  BY DEF IInv
<1>2. /\ Typed /\ N \in Nat /\ k = N /\ error = FALSE /\ at \in 0 .. N - 1
      /\ reg \in [Regs -> Words] /\ slot \in [Slots -> Words]
  BY TypedFacts DEF IInv, Typed, Running
<1>3. There \in Instructions /\ (There.op = "ldx" => There.src \in Regs)
  BY <1>2, ProgramFacts DEF Typed, There
<1>4. Follows(c, A, at) /\ Holds(c, A[at]) /\ A[at] \in States
  BY <1>1, <1>2 DEF Trace, Knows, Running
<1>5. /\ Accepts(A[at], There)
      /\ There.op \in Accesses => emitted[at] = Fixed(A[at], There)
  BY <1>2, <1>4 DEF Follows, There
<1> QED
  BY <1>2, <1>3, <1>4, <1>5

(* Every load and store is translated to the stack slot, or the region,    *)
(* that its pointer points to when it runs (translate_ldx,                 *)
(* translate_store): a pointer the translator cannot place is refused,     *)
(* never guessed.                                                          *)
THEOREM AccessesRight == Spec => []AccessRight
<1>1. ASSUME IInv("kinds"), Running, There.op \in {"ldx", "st"},
             NEW p, p = reg[IF There.op = "ldx" THEN There.src ELSE There.dst],
             Allowed(p, There.off)
      PROVE  emitted[at] = Location(p, There.off)
  <2>1. /\ There \in Instructions /\ (There.op = "ldx" => There.src \in Regs)
        /\ reg \in [Regs -> Words]
    BY <1>1, AtRun
  <2>2. PICK s \in States :
               /\ Holds("kinds", s) /\ Accepts(s, There)
               /\ emitted[at] = Fixed(s, There)
    BY <1>1, AtRun DEF Accesses
  <2>3. PICK r \in Regs :
               r = IF There.op = "ldx" THEN There.src ELSE There.dst
    BY <2>1 DEF Instructions
  <2>4. /\ s.reg[r] \in Facts /\ p \in Words /\ Kind(s.reg[r], p)
        /\ There.off \in Int
    BY <1>1, <2>1, <2>2, <2>3 DEF States, Holds, Says, Instructions
  <2>5. /\ AccessOK(s.reg[r], There.off)
        /\ emitted[at] = Place(s.reg[r], There.off)
    BY <1>1, <2>2, <2>3 DEF Accepts, Fixed
  <2> QED
    BY <1>1, <2>4, <2>5, AccessSays DEF AccessOK
<1>2. IInv("kinds") => AccessRight
  BY <1>1 DEF AccessRight
<1> QED
  BY <1>2, KindsKnown, PTL

(* A call that is allowed has the map, and its pointers the places, that   *)
(* the translator fixed; the key is constant only for an array map.        *)
LEMMA CallSays ==
  ASSUME NEW c, NEW s \in States, There.op \in Calls, CallAllowed,
         Holds(c, s), Accepts(s, There), emitted[at] = Fixed(s, There),
         reg \in [Regs -> Words]
  PROVE  /\ emitted[at].map = reg[1].map /\ s.reg[1].map = reg[1].map
         /\ emitted[at].key = Key(s, s.reg[1].map)
         /\ KeyOK(s, s.reg[1].map)
         /\ emitted[at].key.kind # "const"
              => emitted[at].key = Location(reg[2], 0)
         /\ There.op = "update" => /\ emitted[at].val = Location(reg[3], 0)
                                   /\ FlagsOK(s.reg[4]) /\ IsNum(reg[4])
<1>1. /\ \A r \in Regs : /\ s.reg[r] \in Facts /\ reg[r] \in Words
                         /\ Kind(s.reg[r], reg[r])
      /\ {1, 2, 3, 4} \subseteq Regs
  BY DEF States, Holds, Says, Regs
<1>2. /\ There.op \in {"lookup", "update"}
      /\ s.reg[1].tag = "map" /\ KeyOK(s, s.reg[1].map)
      /\ There.op = "update" => FlagsOK(s.reg[4]) /\ Placed(s.reg[3], 0)
  BY DEF Accepts, LookupOK, UpdateOK, Calls
<1>3. /\ emitted[at].map = s.reg[1].map
      /\ emitted[at].key = Key(s, s.reg[1].map)
      /\ There.op = "update" => emitted[at].val = Place(s.reg[3], 0)
  BY <1>2 DEF Fixed, Call
<1>4. /\ reg[1].base = "map" /\ Allowed(reg[2], 0)
      /\ There.op = "update" => Allowed(reg[3], 0) /\ IsNum(reg[4])
  BY DEF CallAllowed, Argument
<1>5. s.reg[1].map = reg[1].map
  BY <1>1, <1>2, <1>4, PointerFact DEF IsPtr
<1>6. ASSUME emitted[at].key.kind # "const"
      PROVE  emitted[at].key = Location(reg[2], 0)
  <2>1. Key(s, s.reg[1].map).kind # "const"
    BY <1>3, <1>6
  <2>2. Placed(s.reg[2], 0)
    BY <1>2, <2>1 DEF KeyOK
  <2>3. Key(s, s.reg[1].map) = Place(s.reg[2], 0)
    BY <2>1 DEF Key, ConstKey
  <2> QED
    BY <1>1, <1>3, <1>4, <2>2, <2>3, AccessSays
<1>7. There.op = "update" => emitted[at].val = Location(reg[3], 0)
  BY <1>1, <1>2, <1>3, <1>4, AccessSays
<1> QED
  BY <1>2, <1>3, <1>4, <1>5, <1>6, <1>7

(* Every helper call is translated to the map, the key and the value of    *)
(* its arguments when it runs (emit_map_lookup, emit_map_update,           *)
(* read_map_key, copy_map_value).                                          *)
THEOREM CallsRight == Spec => []CallRight
<1>1. ASSUME IInv("kinds"), Running, There.op \in Calls, CallAllowed
      PROVE  /\ emitted[at].map = reg[1].map
             /\ emitted[at].key.kind # "const"
                  => emitted[at].key = Location(reg[2], 0)
             /\ There.op = "update" => emitted[at].val = Location(reg[3], 0)
  BY <1>1, AtRun, CallSays DEF Accesses
<1>2. IInv("kinds") => CallRight
  BY <1>1 DEF CallRight
<1> QED
  BY <1>2, KindsKnown, PTL

(* Every block the run enters was taken to be reachable, and what was      *)
(* joined on entry holds of the registers and of the stack                 *)
(* (AbsState.join_from, block_in), as long as no immediate is added to a   *)
(* known constant.                                                         *)
THEOREM BlocksDescribed == Spec /\ []SumsNoConstant => []Described
<1>1. \A a, v : Says("constants", a, v) => Describes(a, v)
  BY DEF Says, Kind, Constant, Describes
<1>2. ASSUME IInv("constants"), phase = "run", at \in DOMAIN blockIn
      PROVE  /\ blockIn[at].live
             /\ \A r \in Regs : Describes(blockIn[at].reg[r], reg[r])
             /\ \A q \in Slots : Describes(blockIn[at].slot[q], InSlotOf(q))
  <2>1. PICK A \in [0 .. N - 1 -> States] :
               Trace("constants", A) /\ Knows("constants", A)
    BY <1>2 DEF IInv
  <2>2. /\ Typed /\ N \in Nat /\ k = N /\ at \in Leaders
        /\ at \in 0 .. N - 1
    BY <1>2, TypedFacts, ProgramFacts DEF IInv, Typed
  <2>3. blockIn[at].live /\ Holds("constants", A[at])
    BY <1>2, <2>1, <2>2 DEF Knows
  <2>4. A[at] = blockIn[at]
    BY <2>1, <2>2, <2>3 DEF Trace, Entered
  <2> QED
    BY <1>1, <2>3, <2>4 DEF Holds
<1>3. IInv("constants") => Described
  BY <1>2 DEF Described
<1> QED
  BY <1>3, ConstantsKnown, PTL


(* An update that was translated is only ever called with BPF_ANY: what    *)
(* emit_map_update reads as the constant of r4 is its value, as long as no *)
(* immediate is added to a known constant.                                 *)
THEOREM FlagsChecked == Spec /\ []SumsNoConstant => []FlagsRight
<1>1. ASSUME IInv("constants"), Running, There.op = "update", CallAllowed
      PROVE  reg[4] = Num(0)
  <2>1. /\ reg \in [Regs -> Words]
        /\ \E s \in States :
             /\ Holds("constants", s) /\ Accepts(s, There)
             /\ emitted[at] = Fixed(s, There)
    BY <1>1, AtRun DEF Accesses, Calls
  <2>2. PICK s \in States :
               /\ Holds("constants", s) /\ Accepts(s, There)
               /\ emitted[at] = Fixed(s, There)
    BY <2>1
  <2>3. FlagsOK(s.reg[4]) /\ IsNum(reg[4])
    BY <1>1, <2>1, <2>2, CallSays DEF Calls
  <2>4. Constant(s.reg[4], reg[4]) /\ reg[4] # Undef
    BY <2>2, <2>3 DEF Holds, Says, Regs, IsNum, Undef, Ptr
  <2>5. reg[4] \in {Num(0), Num(0 % M32)}
    BY <2>3, <2>4 DEF FlagsOK, Constant, NoConst
  <2>6. 0 % M32 = 0
    BY WordsAssumption, Remainder
  <2> QED
    BY <2>5, <2>6
<1>2. IInv("constants") => FlagsRight
  BY <1>1 DEF FlagsRight
<1> QED
  BY <1>2, ConstantsKnown, PTL

(* No number on the stack is overwritten by its lower half alone.          *)
NumbersNotHalved ==
  /\ Running /\ There.op = "st" /\ There.w = "w"
  /\ reg[There.dst].base = "stack" /\ Allowed(reg[There.dst], There.off)
  => ~IsNum(At(reg[There.dst], There.off))

(* What was written by its lower half is not a whole number.               *)
Halves == \A q \in Slots : width[q] = "w" => ~IsNum(slot[q])

LEMMA InitHalves == Init => Halves
BY DEF Init, Halves

LEMMA NextHalves ==
  ASSUME IInv("kinds"), Halves, NumbersNotHalved, [Next]_vars
  PROVE  Halves'
<1>1. /\ slot \in [Slots -> Words] /\ width \in [Slots -> {"none", "dw", "w"}]
      /\ reg \in [Regs -> Words]
  BY DEF IInv, Typed
<1>2. CASE UNCHANGED <<slot, width>>
  BY <1>2 DEF Halves
<1>3. CASE RunStore /\ ~UNCHANGED <<slot, width>>
  <2> DEFINE p == reg[There.dst]
             s == -(p.n + There.off)
  <2>1. /\ Running /\ There.op = "st" /\ Allowed(p, There.off)
        /\ p.base = "stack" /\ width' = [width EXCEPT ![s] = There.w]
    BY <1>3 DEF RunStore, memory
  <2>2. PICK v \in Written(slot[s], Operand, There.w) :
               slot' = [slot EXCEPT ![s] = v]
    BY <1>3, <2>1 DEF RunStore
  <2>3. s \in Slots
    BY <2>1 DEF Allowed
  <2>4. There.w = "w" => ~IsNum(slot[s])
    BY <2>1 DEF NumbersNotHalved, At
  <2> HIDE DEF s
  <2>5. There.w = "w" => ~IsNum(v)
    BY <2>2, <2>4 DEF Written, IsNum, Half, Ptr
  <2> QED
    BY <1>1, <2>1, <2>2, <2>3, <2>5 DEF Halves
<1> QED
  BY <1>2, <1>3
     DEF Next, vars, machine, memory, EnterBlock, TranslateAlu, TranslateLdMap,
         TranslateLdx, TranslateStore, TranslateLdPkt, TranslateLookup,
         TranslateUpdate, TranslateJump, TranslateEnd, Emit, RunAlu, RunLdMap,
         RunLdx, RunLdPkt, RunCall, RunJump, RunEnd, Reject, AfterCall

(* An access to an array map translated for a constant key is only ever    *)
(* called with that key (const_key, check_array_key, emit_slot), as long   *)
(* as no immediate is added to a known constant and no half word is stored *)
(* over a number: the two ways the runs provenance_summed and              *)
(* provenance_halved break it.                                             *)
THEOREM KeysRight ==
  Spec /\ []SumsNoConstant /\ []NumbersNotHalved => []KeyRight
<1>1. ASSUME IInv("constants"), Halves, Running, There.op \in Calls,
             CallAllowed, emitted[at].key.kind = "const"
      PROVE  /\ reg[2].base = "stack"
             /\ At(reg[2], 0) = Num(emitted[at].key.key)
  <2>1. /\ reg \in [Regs -> Words] /\ slot \in [Slots -> Words]
        /\ \E s \in States :
             /\ Holds("constants", s) /\ Accepts(s, There)
             /\ emitted[at] = Fixed(s, There)
    BY <1>1, AtRun DEF Accesses
  <2>2. PICK s \in States :
               /\ Holds("constants", s) /\ Accepts(s, There)
               /\ emitted[at] = Fixed(s, There)
    BY <2>1
  <2> DEFINE m == s.reg[1].map
             a == s.reg[2]
             n == const_key(s)
  <2>3. Key(s, m).kind = "const" /\ KeyOK(s, m) /\ emitted[at].key = Key(s, m)
    BY <1>1, <2>1, <2>2, CallSays
  <2>4. /\ m \in ArrayMaps /\ n # NoConst /\ emitted[at].key.key = n
    <3>1. Key(s, m) # Place(a, 0)
      BY <2>3 DEF Place, InSlot, In
    <3> QED
      BY <2>3, <3>1 DEF Key, ConstKey
  <2>5. n < NSLOTS
    BY <2>3, <2>4 DEF KeyOK, check_array_key
  <2>6. /\ a.tag = "stack" /\ Placed(a, 0) /\ n = s.slot[-a.off].const
    BY <2>4 DEF const_key
  <2>7. /\ a \in Facts /\ a.off \in Int /\ reg[2] \in Words /\ Kind(a, reg[2])
        /\ reg[2].n \in Int
    BY <2>1, <2>2 DEF States, Facts, Infos, Words, Holds, Says, Regs
  <2>8. Allowed(reg[2], 0) /\ (reg[2].base = "stack" => IsNum(At(reg[2], 0)))
    BY <1>1 DEF CallAllowed, Argument
  <2>9. /\ reg[2].base = "stack" /\ -(a.off + 0) \in Slots
        /\ -(reg[2].n + 0) = -(a.off + 0)
    BY <2>6, <2>7, <2>8, AccessSays
  <2>10. PICK q \in Slots : q = -a.off /\ q = -(reg[2].n + 0)
    BY <2>7, <2>9
  <2>11. At(reg[2], 0) = slot[q] /\ IsNum(slot[q])
    BY <2>8, <2>9, <2>10 DEF At
  <2>12. s.slot[q] \in Facts /\ s.slot[q].const = n
    BY <2>6, <2>10 DEF States
  <2>13. Says("constants", s.slot[q], slot[q])
    BY <1>1, <2>2, <2>11 DEF Halves, Holds, InSlotOf
  <2>14. n \in 0 .. M64 - 1 /\ s.slot[q].tag = "scalar" /\ slot[q] # Undef
    BY <2>4, <2>11, <2>12 DEF Facts, Infos, IsNum, Undef, Ptr
  <2>15. slot[q] \in {Num(n), Num(n % M32)}
    BY <2>4, <2>12, <2>13, <2>14 DEF Says, Constant
  <2>16. n \in 0 .. M32 - 1 /\ n \in Int
    BY <2>5, <2>14, NslotsAssumption, WordsAssumption
  <2>17. n % M32 = n
    BY <2>16, WordsAssumption, Remainder
  <2> QED
    BY <2>4, <2>9, <2>11, <2>15, <2>17
<1>2. IInv("constants") /\ Halves => KeyRight
  BY <1>1 DEF KeyRight
<1>3. IInv("kinds") /\ Halves /\ NumbersNotHalved /\ [Next]_vars => Halves'
  BY NextHalves
<1> QED
  BY <1>2, <1>3, InitHalves, KindsKnown, ConstantsKnown, PTL DEF Spec
=============================================================================
