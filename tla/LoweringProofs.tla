--------------------------- MODULE LoweringProofs ---------------------------
(***************************************************************************)
(* Proofs about Lowering, for every set of programs: its types, that jumps *)
(* go forward, its guards, what it accepts, and that the chain it emits    *)
(* runs the program: Implements.                                           *)
(***************************************************************************)
EXTENDS Lowering, SequenceTheorems, TLAPS

USE DEF Idle, PC_HALT, BLOCK_PC, DECIDE_PC

(* A program has at least one instruction, each of one of the forms.       *)
LEMMA ProgramFacts ==
  ASSUME TypeOK
  PROVE  /\ N \in Nat \ {0}
         /\ \A k \in 0 .. N - 1 : Insn(k).op \in Ops /\ Insn(k).off \in Int
<1>1. insns \in Seq(Insns) /\ Len(insns) > 0
  BY ProgramsAssumption DEF TypeOK, ProgramsAssumption
<1>2. N \in Nat \ {0}
  BY <1>1 DEF N
<1>3. ASSUME NEW k \in 0 .. N - 1
      PROVE  Insn(k).op \in Ops /\ Insn(k).off \in Int
  <2>1. insns[k + 1] \in Insns
    BY <1>1, ElementOfSeq DEF N
  <2> QED
    BY <2>1 DEF Insn, Insns
<1> QED
  BY <1>2, <1>3

(* Nothing that depends on the program alone ever changes.                 *)
LEMMA SameProgram ==
  ASSUME insns' = insns
  PROVE  N' = N /\ Pcs' = Pcs /\ Arm' = Arm /\ Mod' = Mod
BY DEF N, Pcs, Arm, Mod

(* Every pc the translator computes from an instruction number is one.     *)
LEMMA PcTypes ==
  ASSUME TypeOK
  PROVE  /\ PC_HALT \in Pcs
         /\ \A t \in Int : PcOf(t) \in Pcs
         /\ \A s \in 0 .. N - 1 : BLOCK_PC(s) \in Pcs /\ DECIDE_PC(s) \in Pcs
BY DEF PcOf, Pcs

-----------------------------------------------------------------------------
(* What the block from start to e turns into.                              *)
Leaves(e, next) ==
  \/ next = PC_HALT
  \/ e < N /\ next = BLOCK_PC(e)
  \/ /\ Jumps(e - 1)
     /\ Target(e - 1) \in 0 .. N - 1
     /\ next = BLOCK_PC(Target(e - 1))

Emitted(e, new) ==
  /\ Len(new) \in 1 .. 2
  /\ new[1].pc = BLOCK_PC(start)
  /\ Len(new) = 2 => new[2].pc = DECIDE_PC(start)
  /\ \A a \in 1 .. Len(new) : \A r \in 1 .. Len(new[a].arms) :
       \/ Leaves(e, new[a].arms[r].next)
       \/ a = 1 /\ Len(new) = 2 /\ new[1].arms[r].next = DECIDE_PC(start)

LEMMA LeavesPcOf ==
  ASSUME TypeOK, NEW e \in 1 .. N
  PROVE  /\ Leaves(e, PcOf(e))
         /\ Jumps(e - 1) => Leaves(e, PcOf(Target(e - 1)))
BY ProgramFacts DEF Leaves, PcOf

LEMMA BodyType ==
  ASSUME TypeOK, NEW s \in 0 .. N - 1, NEW e \in 0 .. N, NEW next \in Pcs
  PROVE  /\ Body(s, e, next) \in Mod
         /\ Body(s, e, next).pc = BLOCK_PC(s)
         /\ Len(Body(s, e, next).arms) = 1
         /\ Body(s, e, next).arms[1].next = next
<1>1. [test |-> "always", next |-> next] \in Arm
  BY DEF Arm
<1>2. BLOCK_PC(s) \in Pcs
  BY DEF Pcs
<1> QED
  BY <1>1, <1>2, ProgramFacts DEF Body, Mod

LEMMA DecideType ==
  ASSUME TypeOK, NEW s \in 0 .. N - 1, NEW e \in 1 .. N,
         NEW one \in Arm, NEW two \in Arm
  PROVE  /\ DecideOn(s, e, <<one, two>>) \in Mod
         /\ DecideOn(s, e, <<one, two>>).pc = DECIDE_PC(s)
         /\ Len(DecideOn(s, e, <<one, two>>).arms) = 2
         /\ DecideOn(s, e, <<one, two>>).arms[1] = one
         /\ DecideOn(s, e, <<one, two>>).arms[2] = two
<1>1. DECIDE_PC(s) \in Pcs
  BY DEF Pcs
<1> DEFINE arms == <<one, two>>
<1>2. /\ arms \in Seq(Arm) \ {<<>>} /\ Len(arms) = 2
      /\ arms[1] = one /\ arms[2] = two
  OBVIOUS
<1> HIDE DEF arms
<1>3. /\ DecideOn(s, e, arms) \in Mod
      /\ DecideOn(s, e, arms).pc = DECIDE_PC(s)
      /\ DecideOn(s, e, arms).arms = arms
  BY <1>1, <1>2, ProgramFacts DEF DecideOn, Mod
<1> QED
  BY <1>2, <1>3 DEF arms

LEMMA EmittedOne ==
  ASSUME NEW e, NEW b \in Mod, b.pc = BLOCK_PC(start), Len(b.arms) = 1,
         Leaves(e, b.arms[1].next)
  PROVE  <<b>> \in Seq(Mod) /\ Emitted(e, <<b>>)
<1> DEFINE new == <<b>>
<1>1. new \in Seq(Mod) /\ Len(new) = 1 /\ new[1] = b
  OBVIOUS
<1> HIDE DEF new
<1>2. ASSUME NEW a \in 1 .. Len(new), NEW r \in 1 .. Len(new[a].arms)
      PROVE  Leaves(e, new[a].arms[r].next)
  <2>1. new[a] = b
    BY <1>1
  <2>2. Len(new[a].arms) = 1
    BY <2>1
  <2>3. r = 1
    BY <2>2
  <2> QED
    BY <2>1, <2>3
<1>3. Emitted(e, new)
  BY <1>1, <1>2 DEF Emitted
<1> QED
  BY <1>1, <1>3 DEF new

LEMMA EmittedTwo ==
  ASSUME NEW e, NEW b \in Mod, b.pc = BLOCK_PC(start), Len(b.arms) = 1,
         b.arms[1].next = DECIDE_PC(start),
         NEW d \in Mod, d.pc = DECIDE_PC(start), Len(d.arms) = 2,
         Leaves(e, d.arms[1].next), Leaves(e, d.arms[2].next)
  PROVE  <<b, d>> \in Seq(Mod) /\ Emitted(e, <<b, d>>)
<1> DEFINE new == <<b, d>>
<1>1. new \in Seq(Mod) /\ Len(new) = 2 /\ new[1] = b /\ new[2] = d
  OBVIOUS
<1> HIDE DEF new
<1>2. ASSUME NEW a \in 1 .. Len(new), NEW r \in 1 .. Len(new[a].arms)
      PROVE  \/ Leaves(e, new[a].arms[r].next)
             \/ a = 1 /\ Len(new) = 2 /\ new[1].arms[r].next = DECIDE_PC(start)
  <2>1. CASE a = 1
    <3>1. new[a] = b
      BY <1>1, <2>1
    <3>2. Len(new[a].arms) = 1
      BY <3>1
    <3>3. r = 1
      BY <3>2
    <3> QED
      BY <1>1, <2>1, <3>1, <3>3
  <2>2. CASE a = 2
    <3>1. new[a] = d
      BY <1>1, <2>2
    <3>2. Len(new[a].arms) = 2
      BY <3>1
    <3>3. r = 1 \/ r = 2
      BY <3>2
    <3> QED
      BY <3>1, <3>3
  <2> QED
    BY <1>1, <2>1, <2>2
<1>3. Emitted(e, new)
  BY <1>1, <1>2 DEF Emitted
<1> QED
  BY <1>1, <1>3 DEF new

(* Every block is emitted as one or two transformers guarded on its own    *)
(* pcs, which leave for its decision, the next block, its target or halt.  *)
LEMMA EmitsBlock ==
  ASSUME TypeOK, NEW e \in 1 .. N, EmitBlock(e)
  PROVE  \E new \in Seq(Mod), err \in BOOLEAN :
           EndsAt(e) /\ Emit(e, new, err) /\ Emitted(e, new)
<1> N \in Nat \ {0} /\ start \in 0 .. N /\ e \in start + 1 .. N
  BY ProgramFacts DEF TypeOK, EmitBlock, EmitFallthrough, EmitExit, EmitJump,
     EmitBranch, EmitNoBranch, EmitMapArms, EmitPlainCall, EndsAt
<1> start \in 0 .. N - 1 /\ e - 1 \in 0 .. N - 1 /\ e - 1 \in Int
  OBVIOUS
<1> Target(e - 1) \in Int
  BY ProgramFacts DEF Target
<1>0. ASSUME NEW x \in 0 .. N, NEW next \in Pcs,
             EndsAt(e), Leaves(e, next),
             \E err \in BOOLEAN : Emit(e, <<Body(start, x, next)>>, err)
      PROVE  \E new \in Seq(Mod), er \in BOOLEAN :
               EndsAt(e) /\ Emit(e, new, er) /\ Emitted(e, new)
  <2>1. /\ <<Body(start, x, next)>> \in Seq(Mod)
        /\ Emitted(e, <<Body(start, x, next)>>)
    BY <1>0, BodyType, EmittedOne
  <2> QED
    BY <1>0, <2>1
<1>1. ASSUME NEW one \in Arm, NEW two \in Arm, EndsAt(e),
             Emit(e, <<Body(start, e - 1, DECIDE_PC(start)),
                       DecideOn(start, e, <<one, two>>)>>, FALSE),
             Leaves(e, one.next), Leaves(e, two.next)
      PROVE  \E new \in Seq(Mod), er \in BOOLEAN :
               EndsAt(e) /\ Emit(e, new, er) /\ Emitted(e, new)
  <2> DEFINE b == Body(start, e - 1, DECIDE_PC(start))
             d == DecideOn(start, e, <<one, two>>)
  <2>1. /\ b \in Mod /\ b.pc = BLOCK_PC(start) /\ Len(b.arms) = 1
        /\ b.arms[1].next = DECIDE_PC(start)
    BY BodyType, PcTypes
  <2>2. /\ d \in Mod /\ d.pc = DECIDE_PC(start) /\ Len(d.arms) = 2
        /\ d.arms[1] = one /\ d.arms[2] = two
    BY DecideType
  <2>3. Leaves(e, d.arms[1].next) /\ Leaves(e, d.arms[2].next)
    BY <1>1, <2>2
  <2> HIDE DEF b, d
  <2>4. <<b, d>> \in Seq(Mod) /\ Emitted(e, <<b, d>>)
    BY <2>1, <2>2, <2>3, EmittedTwo
  <2> QED
    BY <1>1, <2>4 DEF b, d
<1>a. PcOf(e) \in Pcs /\ PcOf(Target(e - 1)) \in Pcs /\ PC_HALT \in Pcs
  BY PcTypes
<1>b. Leaves(e, PcOf(e)) /\ Leaves(e, PC_HALT)
  BY LeavesPcOf DEF Leaves
<1>2. CASE EmitFallthrough(e)
  <2>1. EndsAt(e) /\ \E err \in BOOLEAN : Emit(e, <<Body(start, e, PcOf(e))>>, err)
    BY <1>2 DEF EmitFallthrough
  <2> QED
    BY <1>0, <1>a, <1>b, <2>1
<1>3. CASE EmitExit(e)
  <2>1. EndsAt(e) /\ \E err \in BOOLEAN : Emit(e, <<Body(start, e - 1, PC_HALT)>>, err)
    BY <1>3 DEF EmitExit
  <2> QED
    BY <1>0, <1>a, <1>b, <2>1
<1>4. CASE EmitJump(e)
  <2>1. Jumps(e - 1)
    BY <1>4 DEF EmitJump, HasTerm, Jumps
  <2>2. /\ EndsAt(e)
        /\ \E err \in BOOLEAN : Emit(e, <<Body(start, e - 1, PcOf(Target(e - 1)))>>, err)
    BY <1>4 DEF EmitJump
  <2> QED
    BY <1>0, <1>a, <2>1, <2>2, LeavesPcOf
<1>5. CASE EmitBranch(e)
  <2> DEFINE op == Insn(e - 1).op
             one == [test |-> Entry(op),
                     next |-> IF Swapped(op) THEN PcOf(e)
                                             ELSE PcOf(Target(e - 1))]
             two == [test |-> "always",
                     next |-> IF Swapped(op) THEN PcOf(Target(e - 1))
                                             ELSE PcOf(e)]
  <2>1. Jumps(e - 1)
    BY <1>5 DEF EmitBranch, HasTerm, Jumps, Jcc
  <2>2. one \in Arm /\ two \in Arm
    BY PcTypes DEF Arm, Entry, Outcomes
  <2>3. Leaves(e, one.next) /\ Leaves(e, two.next)
    BY <2>1, LeavesPcOf
  <2>4. /\ EndsAt(e)
        /\ Emit(e, <<Body(start, e - 1, DECIDE_PC(start)),
                    DecideOn(start, e, <<one, two>>)>>, FALSE)
    BY <1>5 DEF EmitBranch
  <2> HIDE DEF one, two
  <2> QED
    BY <1>1, <2>2, <2>3, <2>4
<1>6. CASE EmitNoBranch(e)
  <2> DEFINE next == PcOf(IF Target(e - 1) \in 0 .. N - 1
                            THEN Target(e - 1) ELSE e)
  <2>1. Jumps(e - 1)
    BY <1>6 DEF EmitNoBranch, HasTerm, Jumps, Jcc
  <2>2. /\ EndsAt(e)
        /\ \E err \in BOOLEAN : Emit(e, <<Body(start, e - 1, next)>>, err)
    BY <1>6 DEF EmitNoBranch
  <2>3. next \in Pcs /\ Leaves(e, next)
    BY <1>a, <2>1, LeavesPcOf
  <2> HIDE DEF next
  <2> QED
    BY <1>0, <2>2, <2>3
<1>7. CASE EmitMapArms(e)
  <2>1. /\ [test |-> "yes", next |-> PcOf(e)] \in Arm
        /\ [test |-> "always", next |-> PcOf(e)] \in Arm
    BY PcTypes DEF Arm, Outcomes
  <2> QED
    BY <1>1, <1>7, <2>1, LeavesPcOf DEF EmitMapArms
<1>8. CASE EmitPlainCall(e)
  BY <1>0, <1>8, PcTypes, LeavesPcOf DEF EmitPlainCall
<1> QED
  BY <1>2, <1>3, <1>4, <1>5, <1>6, <1>7, <1>8 DEF EmitBlock
-----------------------------------------------------------------------------
(* What a step does to the program's parts.                                *)
LEMMA NoEmission ==
  ASSUME TypeOK, Scan \/ EmitEnd \/ Run
  PROVE  insns' = insns /\ mods' = mods /\ start' = start
BY DEF Scan, ScanWide, ScanStraight, ScanBlockEnd, ScanJump, ScanEnd, EmitEnd,
   Run, RunPreamble, RunDefault, RunEnter, RunOps, RunLeave, RunDecide,
   RunSink, translator

LEMMA RunTypes ==
  ASSUME TypeOK, Running
  PROVE  /\ Here \in Mod
         /\ 1 \in 1 .. Len(Here.arms)
         /\ \A r \in 1 .. Len(Here.arms) : Here.arms[r].next \in Pcs
<1>1. Here \in Mod
  BY ElementOfSeq DEF TypeOK, Running, Here
<1>2. Here.arms \in Seq(Arm) /\ Here.arms # <<>>
  BY <1>1 DEF Mod
<1>3. Len(Here.arms) \in Nat \ {0}
  BY <1>2, EmptySeq
<1>4. \A r \in 1 .. Len(Here.arms) : Here.arms[r] \in Arm
  BY <1>2, ElementOfSeq
<1> QED
  BY <1>1, <1>3, <1>4 DEF Arm

THEOREM InitTypeOK == Init => TypeOK
<1> SUFFICES ASSUME Init PROVE TypeOK
  OBVIOUS
<1>1. Len(insns) \in Nat \ {0} /\ N \in Nat
  BY ProgramsAssumption DEF Init, ProgramsAssumption, N
<1>2. mods \in Seq(Mod) /\ Len(mods) = 0
  BY DEF Init
<1>3. pc \in Pcs
  BY DEF Init, Pcs
<1>4. leader \subseteq 0 .. N /\ i \in 0 .. N + 1 /\ start \in 0 .. N
  BY <1>1 DEF Init
<1>5. m \in 0 .. Len(mods) + 1 /\ ip \in {Idle} \cup Nat
  BY <1>2 DEF Init
<1> QED
  BY <1>2, <1>3, <1>4, <1>5 DEF Init, TypeOK

THEOREM NextTypeOK == TypeOK /\ [Next]_vars => TypeOK'
<1> SUFFICES ASSUME TypeOK, [Next]_vars PROVE TypeOK'
  OBVIOUS
<1>0. N \in Nat \ {0}
  BY ProgramFacts
<1>1. ASSUME Scan PROVE TypeOK'
  <2>1. insns' = insns /\ mods' = mods /\ start' = start
    BY <1>1, NoEmission
  <2>2. N' = N /\ Pcs' = Pcs /\ Arm' = Arm /\ Mod' = Mod
    BY <2>1, SameProgram
  <2>3. m' = m /\ ip' = ip /\ pc' = pc /\ cond' = cond
    BY <1>1 DEF Scan, ScanWide, ScanStraight, ScanBlockEnd, ScanJump, ScanEnd,
       chain
  <2>4. i' \in 0 .. N + 1 /\ phase' \in {"scan", "emit"}
    BY <1>0, <1>1 DEF TypeOK, Scan, ScanWide, ScanStraight, ScanBlockEnd,
       ScanJump, ScanEnd, Scanning, translator
  <2>5. leader' \subseteq 0 .. N
    <3>1. ASSUME NEW x \in AfterJump PROVE x \in 0 .. N
      <4>1. CASE x \in leader
        BY <4>1 DEF TypeOK
      <4>2. CASE x = i + 1 /\ x < N
        BY <1>0, <4>2 DEF TypeOK
      <4> QED
        BY <4>1, <4>2 DEF AfterJump
    <3>2. leader' \subseteq leader \cup AfterJump \cup 0 .. N
      BY <1>1 DEF Scan, ScanWide, ScanStraight, ScanBlockEnd, ScanJump,
         ScanEnd, translator
    <3> QED
      BY <3>1, <3>2 DEF TypeOK
  <2>6. error' \in BOOLEAN
    BY <1>1 DEF TypeOK, Scan, ScanWide, ScanStraight, ScanBlockEnd,
       ScanJump, ScanEnd, translator
  <2> QED
    BY <2>1, <2>2, <2>3, <2>4, <2>5, <2>6 DEF TypeOK
<1>2. ASSUME NEW e \in 1 .. N, EmitBlock(e) PROVE TypeOK'
  <2>1. PICK new \in Seq(Mod), err \in BOOLEAN :
          EndsAt(e) /\ Emit(e, new, err) /\ Emitted(e, new)
    BY <1>2, EmitsBlock
  <2>2. /\ insns' = insns /\ phase' = phase /\ i' = i /\ leader' = leader
        /\ m' = m /\ ip' = ip /\ pc' = pc /\ cond' = cond
        /\ mods' = mods \o new /\ start' = e /\ error' \in BOOLEAN
    BY <2>1 DEF Emit, chain, TypeOK
  <2>3. N' = N /\ Pcs' = Pcs /\ Arm' = Arm /\ Mod' = Mod
    BY <2>2, SameProgram
  <2>4. mods' \in Seq(Mod) /\ Len(mods') = Len(mods) + Len(new)
    BY <2>1, <2>2, ConcatProperties DEF TypeOK
  <2>5. Len(new) \in Nat /\ Len(mods) \in Nat
    BY <2>1, LenProperties DEF TypeOK
  <2> QED
    BY <1>0, <2>2, <2>3, <2>4, <2>5 DEF TypeOK
<1>3. ASSUME EmitEnd PROVE TypeOK'
  <2>1. insns' = insns /\ UNCHANGED translator /\ UNCHANGED chain
    BY <1>3 DEF EmitEnd
  <2>2. N' = N /\ Pcs' = Pcs /\ Arm' = Arm /\ Mod' = Mod
    BY <2>1, SameProgram
  <2>3. phase' \in {"run", "refused"}
    BY <1>3 DEF EmitEnd
  <2> QED
    BY <2>1, <2>2, <2>3 DEF TypeOK, translator, chain
<1>4. ASSUME Run PROVE TypeOK'
  <2>1. /\ insns' = insns /\ mods' = mods /\ start' = start /\ i' = i
        /\ leader' = leader /\ error' = error
    BY <1>4 DEF Run, RunPreamble, RunDefault, RunEnter, RunOps, RunLeave,
       RunDecide, RunSink, translator
  <2>2. N' = N /\ Pcs' = Pcs /\ Arm' = Arm /\ Mod' = Mod
    BY <2>1, SameProgram
  <2>3. phase' \in {"run", "done"}
    BY <1>4 DEF Run, RunPreamble, RunDefault, RunEnter, RunOps, RunLeave,
       RunDecide, RunSink, Running
  <2>4. Len(mods) \in Nat
    BY LenProperties DEF TypeOK
  <2>5. /\ m' \in 0 .. Len(mods) + 1 /\ ip' \in {Idle} \cup Nat
        /\ pc' \in Pcs /\ cond' \in Outcomes \cup {"none"}
    <3>1. CASE RunPreamble
      <4>1. BLOCK_PC(0) \in Pcs
        BY <1>0, PcTypes
      <4> QED
        BY <2>4, <3>1, <4>1 DEF TypeOK, RunPreamble
    <3>2. CASE RunDefault
      BY <2>4, <3>2 DEF TypeOK, RunDefault, Running
    <3>3. CASE RunEnter
      BY <1>0, <3>3, RunTypes DEF TypeOK, RunEnter, Mod
    <3>4. CASE RunOps
      <4>1. ip' \in Nat
        BY <3>4 DEF TypeOK, RunOps
      <4> QED
        BY <3>4, <4>1 DEF TypeOK, RunOps
    <3>5. CASE RunLeave
      BY <2>4, <3>5, RunTypes DEF TypeOK, RunLeave, Running
    <3>6. CASE RunDecide
      BY <2>4, <3>6, RunTypes DEF TypeOK, RunDecide, Running
    <3>7. CASE RunSink
      BY <3>7 DEF TypeOK, RunSink, chain
    <3> QED
      BY <1>4, <3>1, <3>2, <3>3, <3>4, <3>5, <3>6, <3>7 DEF Run
  <2> QED
    BY <2>1, <2>2, <2>3, <2>5 DEF TypeOK
<1>5. ASSUME UNCHANGED vars PROVE TypeOK'
  <2>1. insns' = insns
    BY <1>5 DEF vars
  <2>2. N' = N /\ Pcs' = Pcs /\ Arm' = Arm /\ Mod' = Mod
    BY <2>1, SameProgram
  <2> QED
    BY <1>5, <2>2 DEF TypeOK, vars, translator, chain
<1> QED
  BY <1>1, <1>2, <1>3, <1>4, <1>5 DEF Next

(* The variables of a translation and of a run keep their types.           *)
THEOREM TypeCorrect == Spec => []TypeOK
BY InitTypeOK, NextTypeOK, PTL DEF Spec
-----------------------------------------------------------------------------
(* A pc that is resolved stays so while the translation goes on.           *)
LEMMA ResolvedScan ==
  ASSUME TypeOK, Scan, NEW x, NEW a \in Nat, Resolved(x, a)
  PROVE  Resolved(x, a)'
<1>1. mods' = mods /\ start' = start /\ N' = N
  BY NoEmission, SameProgram
<1>2. leader \subseteq leader'
  BY DEF Scan, ScanWide, ScanStraight, ScanBlockEnd, ScanJump, ScanEnd,
     AfterJump, translator
<1> QED
  BY <1>1, <1>2 DEF Resolved

LEMMA ResolvedEmit ==
  ASSUME TypeOK, NEW e \in 1 .. N, NEW new \in Seq(Mod), NEW err,
         EndsAt(e), Emit(e, new, err), Emitted(e, new)
  PROVE  /\ Len(mods) \in Nat /\ Len(new) \in 1 .. 2
         /\ Len(mods') = Len(mods) + Len(new)
         /\ \A b \in 1 .. Len(mods) : mods'[b] = mods[b]
         /\ \A b \in 1 .. Len(new) : mods'[Len(mods) + b] = new[b]
         /\ \A x : \A a \in 0 .. Len(mods) : Resolved(x, a) => Resolved(x, a)'
<1>1. N \in Nat \ {0} /\ start \in Nat /\ leader \subseteq 0 .. N
  BY ProgramFacts DEF TypeOK
<1>2. /\ mods' = mods \o new /\ start' = e /\ leader' = leader /\ N' = N
      /\ insns' = insns
  BY SameProgram DEF Emit
<1>3. Len(mods) \in Nat /\ Len(new) \in 1 .. 2
  BY LenProperties DEF TypeOK, Emitted
<1>n. \A a \in 0 .. Len(mods) :
        Len(mods) + 1 \in a + 1 .. Len(mods) + Len(new)
  <2>1. \A n \in Nat, k \in 1 .. 2 : \A a \in 0 .. n : n + 1 \in a + 1 .. n + k
    OBVIOUS
  <2> QED
    BY <1>3, <2>1
<1>4. /\ Len(mods') = Len(mods) + Len(new)
      /\ \A b \in 1 .. Len(mods) + Len(new) :
           mods'[b] = IF b <= Len(mods) THEN mods[b] ELSE new[b - Len(mods)]
  BY <1>2, ConcatProperties DEF TypeOK
<1>5. \A b \in 1 .. Len(mods) : mods'[b] = mods[b]
  BY <1>3, <1>4
<1>6. ASSUME NEW b \in 1 .. Len(new)
      PROVE  mods'[Len(mods) + b] = new[b]
  <2>1. /\ Len(mods) + b \in 1 .. Len(mods) + Len(new)
        /\ ~(Len(mods) + b <= Len(mods))
        /\ (Len(mods) + b) - Len(mods) = b
    BY <1>3
  <2> QED
    BY <1>4, <2>1
<1>7. ASSUME NEW x, NEW a \in 0 .. Len(mods), Resolved(x, a)
      PROVE  Resolved(x, a)'
  <2>1. CASE x = PC_HALT
    BY <2>1 DEF Resolved
  <2>2. CASE \E b \in a + 1 .. Len(mods) : mods[b].pc = x
    <3>1. PICK b \in a + 1 .. Len(mods) : mods[b].pc = x
      BY <2>2
    <3>2. b \in a + 1 .. Len(mods') /\ mods'[b].pc = x
      BY <1>3, <1>4, <1>5, <3>1
    <3> QED
      BY <3>2 DEF Resolved
  <2>3. CASE \E t \in start .. N - 1 :
               t \in leader \cup {start} /\ x = BLOCK_PC(t)
    <3>1. PICK t \in start .. N - 1 :
            t \in leader \cup {start} /\ x = BLOCK_PC(t)
      BY <2>3
    <3>2. CASE t = start
      <4>1. mods'[Len(mods) + 1] = new[1] /\ new[1].pc = BLOCK_PC(start)
        BY <1>3, <1>6 DEF Emitted
      <4>2. Len(mods) + 1 \in a + 1 .. Len(mods')
        BY <1>n, <1>4
      <4> QED
        BY <3>1, <3>2, <4>1, <4>2 DEF Resolved
    <3>3. CASE t # start
      <4>1. t \in e .. N - 1 /\ t \in leader
        BY <1>1, <3>1, <3>3 DEF EndsAt
      <4> QED
        BY <1>2, <3>1, <4>1 DEF Resolved
    <3> QED
      BY <3>2, <3>3
  <2> QED
    BY <1>7, <2>1, <2>2, <2>3 DEF Resolved
<1> QED
  BY <1>3, <1>4, <1>5, <1>6, <1>7
THEOREM InitForward == Init => ForwardInv
<1> SUFFICES ASSUME Init PROVE ForwardInv
  OBVIOUS
<1> TypeOK
  BY InitTypeOK
<1>1. N \in Nat \ {0}
  BY ProgramFacts
<1>2. JumpsCut
  BY <1>1 DEF Init, JumpsCut
<1>3. ChainForward
  <2>1. 0 \in start .. N - 1 /\ 0 \in leader \cup {start}
    BY <1>1 DEF Init
  <2>2. Resolved(BLOCK_PC(0), 0)
    BY <2>1 DEF Resolved
  <2>3. Len(mods) = 0
    BY DEF Init
  <2> QED
    BY <2>2, <2>3 DEF ChainForward
<1>4. RunForward
  BY DEF Init, RunForward
<1> QED
  BY <1>2, <1>3, <1>4 DEF ForwardInv

LEMMA ScanForward ==
  ASSUME TypeOK, ForwardInv, Scan
  PROVE  ForwardInv'
<1>1. N \in Nat \ {0} /\ i \in Nat /\ Len(mods) \in Nat
  BY ProgramFacts, LenProperties DEF TypeOK
<1>2. /\ insns' = insns /\ N' = N /\ mods' = mods /\ start' = start
      /\ m' = m /\ phase = "scan" /\ phase' \in {"scan", "emit"}
      /\ error' => TRUE
  BY NoEmission, SameProgram DEF Scan, ScanWide, ScanStraight, ScanBlockEnd,
     ScanJump, ScanEnd, Scanning, chain
<1>3. leader \subseteq leader' /\ (error => error')
  BY DEF TypeOK, Scan, ScanWide, ScanStraight, ScanBlockEnd, ScanJump, ScanEnd,
     AfterJump, translator
<1>4. JumpsCut'
  <2> SUFFICES ASSUME NEW k \in 0 .. N - 1, Jumps(k),
                      phase' = "scan" => k < i'
               PROVE  /\ Target(k) \in 0 .. N => Target(k) \in leader'
                      /\ ~error' => Target(k) \in k + 1 .. N
    BY <1>2 DEF JumpsCut, Jumps, Target, Insn
  <2>1. CASE k < i
    BY <1>2, <1>3, <2>1 DEF ForwardInv, JumpsCut
  <2>2. CASE k >= i
    <3>1. ~ScanEnd
      BY <1>1, <2>2 DEF ScanEnd
    <3>2. k < i' /\ i < N
      BY <3>1, <1>1 DEF Scan, ScanWide, ScanStraight, ScanBlockEnd, ScanJump,
         Scanning
    <3>3. ~ScanWide
      <4> SUFFICES ASSUME ScanWide PROVE FALSE
        OBVIOUS
      <4>1. Insn(i).op = "imm64" /\ i' = i + 2
        BY DEF ScanWide
      <4>2. k = i \/ k = i + 1
        BY <1>1, <2>2, <3>2, <4>1
      <4>3. k # i
        BY <4>1 DEF Jumps, Jcc
      <4>4. k + 1 \in 1 .. Len(insns) /\ k + 1 > 1 /\ (k + 1) - 1 = i + 1
        BY <1>1, <4>2, <4>3 DEF N
      <4>5. insns[k + 1].op = "hi"
        BY <4>1, <4>4, ProgramsAssumption
           DEF ProgramsAssumption, TypeOK, Insn
      <4> QED
        BY <4>5 DEF Jumps, Jcc, Insn
    <3>4. k = i
      BY <1>1, <2>2, <3>1, <3>2, <3>3 DEF Scan, ScanStraight, ScanBlockEnd,
         ScanJump
    <3>5. ScanJump
      BY <3>1, <3>3, <3>4 DEF Scan, ScanStraight, ScanBlockEnd, Jumps, IsJmp,
         Jcc, Calls
    <3>6. Target(k) \in Int
      BY ProgramFacts DEF Target
    <3>7. Target(i) \in 0 .. N => Target(i) \in leader'
      BY <3>5 DEF ScanJump
    <3>8. ~error' => Target(i) \in 0 .. N /\ ~(Target(i) <= i)
      BY <3>5 DEF ScanJump, Backward
    <3> QED
      BY <1>1, <3>4, <3>6, <3>7, <3>8
  <2> QED
    BY <1>1, <2>1, <2>2
<1>5. ChainForward'
  <2>1. Resolved(BLOCK_PC(0), 0)'
    BY ResolvedScan DEF ForwardInv, ChainForward
  <2>2. ASSUME ~error', NEW a \in 1 .. Len(mods),
               NEW r \in 1 .. Len(mods[a].arms)
        PROVE  Resolved(mods[a].arms[r].next, a)'
    <3>1. Resolved(mods[a].arms[r].next, a)
      BY <1>3, <2>2 DEF ForwardInv, ChainForward
    <3> DEFINE x == mods[a].arms[r].next
    <3>2. Resolved(x, a)
      BY <3>1
    <3>3. mods'[a].arms[r].next = x
      BY <1>2
    <3> HIDE DEF x
    <3>4. \A y : Resolved(y, a) => Resolved(y, a)'
      BY <1>1, ResolvedScan
    <3> QED
      BY <3>2, <3>3, <3>4 DEF x
  <2> QED
    BY <1>2, <2>1, <2>2 DEF ChainForward
<1>6. RunForward'
  BY <1>2 DEF ForwardInv, RunForward
<1> QED
  BY <1>4, <1>5, <1>6 DEF ForwardInv
LEMMA EmitForward ==
  ASSUME TypeOK, ForwardInv, NEW e \in 1 .. N, EmitBlock(e)
  PROVE  ForwardInv'
<1>0. PICK new \in Seq(Mod), err \in BOOLEAN :
        EndsAt(e) /\ Emit(e, new, err) /\ Emitted(e, new)
  BY EmitsBlock
<1>1. /\ N \in Nat \ {0} /\ start \in Nat /\ e \in start + 1 .. N
      /\ \A k \in 0 .. N - 1 : Target(k) \in Int
  BY <1>0, ProgramFacts DEF TypeOK, EndsAt, Target
<1>2. /\ insns' = insns /\ N' = N /\ phase = "emit" /\ phase' = "emit"
      /\ leader' = leader /\ m' = m /\ start' = e /\ (error => error')
  BY <1>0, SameProgram DEF Emit, chain
<1>3. /\ Len(mods) \in Nat /\ Len(new) \in 1 .. 2
      /\ Len(mods') = Len(mods) + Len(new)
      /\ \A b \in 1 .. Len(mods) : mods'[b] = mods[b]
      /\ \A b \in 1 .. Len(new) : mods'[Len(mods) + b] = new[b]
      /\ \A x : \A a \in 0 .. Len(mods) : Resolved(x, a) => Resolved(x, a)'
  BY <1>0, ResolvedEmit
<1>4. JumpsCut'
  BY <1>2 DEF ForwardInv, JumpsCut, Jumps, Target, Insn
<1>5. ASSUME ~error', NEW x, NEW a \in Nat, Leaves(e, x)
      PROVE  Resolved(x, a)'
  <2>1. CASE x = PC_HALT
    BY <2>1 DEF Resolved
  <2>2. CASE e < N /\ x = BLOCK_PC(e)
    <3>1. e \in start' .. N' - 1 /\ e \in leader' \cup {start'}
      BY <1>1, <1>2, <2>2
    <3> QED
      BY <2>2, <3>1 DEF Resolved
  <2>3. CASE /\ Jumps(e - 1)
             /\ Target(e - 1) \in 0 .. N - 1
             /\ x = BLOCK_PC(Target(e - 1))
    <3>1. Target(e - 1) \in leader /\ Target(e - 1) \in (e - 1) + 1 .. N
      BY <1>1, <1>2, <1>5, <2>3 DEF ForwardInv, JumpsCut
    <3>2. Target(e - 1) \in start' .. N' - 1
      BY <1>1, <1>2, <2>3, <3>1
    <3> QED
      BY <1>2, <2>3, <3>1, <3>2 DEF Resolved
  <2> QED
    BY <1>5, <2>1, <2>2, <2>3 DEF Leaves
<1>6. ASSUME ~error', NEW a \in 1 .. Len(mods'),
             NEW r \in 1 .. Len(mods'[a].arms)
      PROVE  Resolved(mods[a].arms[r].next, a)'
  <2>1. CASE a <= Len(mods)
    <3>1. a \in 1 .. Len(mods) /\ mods'[a] = mods[a]
      BY <1>3, <2>1
    <3>2. r \in 1 .. Len(mods[a].arms)
      BY <3>1
    <3>3. Resolved(mods[a].arms[r].next, a)
      BY <1>2, <1>6, <3>1, <3>2 DEF ForwardInv, ChainForward
    <3>4. PICK x : x = mods[a].arms[r].next
      OBVIOUS
    <3>5. Resolved(x, a)'
      BY <1>3, <3>1, <3>3, <3>4
    <3> QED
      BY <3>1, <3>4, <3>5
  <2>2. CASE a > Len(mods)
    <3> DEFINE b == a - Len(mods)
    <3>1. b \in 1 .. Len(new) /\ a = Len(mods) + b
      BY <1>3, <2>2
    <3> HIDE DEF b
    <3>2. mods'[a] = new[b]
      BY <1>3, <3>1
    <3>3. r \in 1 .. Len(new[b].arms)
      BY <3>2
    <3>4. PICK x, p : /\ x = new[b].arms[r].next /\ p = DECIDE_PC(start)
                      /\ mods'[a].arms[r].next = x
      BY <3>2
    <3>5. Leaves(e, x) \/ (b = 1 /\ Len(new) = 2 /\ x = p)
      BY <1>0, <3>1, <3>3, <3>4 DEF Emitted
    <3>6. CASE Leaves(e, x)
      <4>1. Resolved(x, a)'
        BY <1>3, <1>5, <1>6, <2>2, <3>6
      <4> QED
        BY <3>4, <4>1
    <3>7. CASE b = 1 /\ Len(new) = 2 /\ x = p
      <4>1. mods'[Len(mods) + 2].pc = x
        BY <1>0, <1>3, <3>4, <3>7 DEF Emitted
      <4>2. Len(mods) + 2 \in a + 1 .. Len(mods')
        BY <1>3, <3>1, <3>7
      <4>3. Resolved(x, a)'
        BY <4>1, <4>2 DEF Resolved
      <4> QED
        BY <3>4, <4>3
    <3> QED
      BY <3>5, <3>6, <3>7
  <2> QED
    BY <1>3, <2>1, <2>2
<1>7. ChainForward'
  <2>1. Resolved(BLOCK_PC(0), 0)'
    BY <1>3 DEF ForwardInv, ChainForward
  <2> QED
    BY <1>6, <2>1 DEF ChainForward
<1>8. RunForward'
  BY <1>2 DEF ForwardInv, RunForward
<1> QED
  BY <1>4, <1>7, <1>8 DEF ForwardInv
LEMMA EndForward ==
  ASSUME TypeOK, ForwardInv, EmitEnd
  PROVE  ForwardInv'
<1>1. /\ insns' = insns /\ N' = N /\ mods' = mods /\ start' = start
      /\ leader' = leader /\ error' = error /\ m' = m /\ pc' = pc
      /\ phase = "emit" /\ start = N
      /\ phase' = IF error THEN "refused" ELSE "run"
  BY SameProgram DEF EmitEnd, translator, chain
<1>2. JumpsCut'
  BY <1>1 DEF ForwardInv, JumpsCut, Jumps, Target, Insn
<1>3. ChainForward'
  BY <1>1 DEF ForwardInv, ChainForward, Resolved
<1>4. RunForward'
  BY <1>1 DEF ForwardInv, RunForward
<1> QED
  BY <1>2, <1>3, <1>4 DEF ForwardInv

(* Once everything is emitted, resolved means halt or a later transformer. *)
LEMMA ResolvedAtEnd ==
  ASSUME start = N, N \in Nat
  PROVE  \A x, a : Resolved(x, a) <=>
           x = PC_HALT \/ (\E b \in a + 1 .. Len(mods) : mods[b].pc = x)
BY DEF Resolved

LEMMA RunPreserves ==
  ASSUME TypeOK, ForwardInv, Run
  PROVE  ForwardInv'
<1>1. /\ insns' = insns /\ N' = N /\ mods' = mods /\ start' = start
      /\ leader' = leader /\ error' = error
      /\ phase = "run" /\ phase' \in {"run", "done"}
  BY SameProgram DEF Run, RunPreamble, RunDefault, RunEnter, RunOps, RunLeave,
     RunDecide, RunSink, Running, translator
<1>2. N \in Nat \ {0} /\ Len(mods) \in Nat /\ m \in Nat
  BY ProgramFacts, LenProperties DEF TypeOK
<1>3. start = N /\ ~error
  BY <1>1 DEF ForwardInv, RunForward
<1>4. \A x, a : Resolved(x, a) <=>
        x = PC_HALT \/ (\E b \in a + 1 .. Len(mods) : mods[b].pc = x)
  BY <1>2, <1>3, ResolvedAtEnd
<1>5. \A x, a : Resolved(x, a) <=> Resolved(x, a)'
  BY <1>1 DEF Resolved
<1>6. m > 0 => Resolved(pc, m - 1)
  BY <1>1 DEF ForwardInv, RunForward
<1>7. JumpsCut'
  BY <1>1 DEF ForwardInv, JumpsCut, Jumps, Target, Insn
<1>8. ChainForward'
  BY <1>1 DEF ForwardInv, ChainForward, Resolved
<1>9. ASSUME Running, NEW r \in 1 .. Len(Here.arms)
      PROVE  Resolved(Here.arms[r].next, m)
  BY <1>3, <1>9 DEF ForwardInv, ChainForward, Running, Here
<1>10. /\ m' > 0 => \E x : x = pc' /\ Resolved(x, m' - 1)
       /\ phase' = "done" => m' > Len(mods)
  <2>1. CASE RunPreamble
    <3>1. pc' = BLOCK_PC(0) /\ m' = 1 /\ phase' = phase
      BY <2>1 DEF RunPreamble
    <3>2. Resolved(BLOCK_PC(0), 0)
      BY DEF ForwardInv, ChainForward
    <3> QED
      BY <1>1, <3>1, <3>2
  <2>2. CASE RunDefault
    <3>1. pc' = pc /\ m' = m + 1 /\ phase' = phase /\ m \in 1 .. Len(mods)
          /\ mods[m].pc # pc
      BY <2>2 DEF RunDefault, Running, Here
    <3>2. Resolved(pc, m)
      BY <1>2, <1>4, <1>6, <3>1
    <3> QED
      BY <1>1, <1>2, <3>1, <3>2
  <2>3. CASE RunEnter \/ RunOps
    BY <1>1, <1>6, <2>3 DEF RunEnter, RunOps
  <2>4. CASE RunLeave
    <3>1. pc' = Here.arms[1].next /\ m' = m + 1 /\ phase' = phase /\ Running
      BY <2>4 DEF RunLeave
    <3>2. Resolved(Here.arms[1].next, m)
      BY <1>9, <3>1, RunTypes
    <3> QED
      BY <1>1, <1>2, <3>1, <3>2
  <2>5. CASE RunDecide
    <3>1. PICK r \in 1 .. Len(Here.arms) : pc' = Here.arms[r].next
      BY <2>5 DEF RunDecide
    <3>2. m' = m + 1 /\ phase' = phase /\ Running
      BY <2>5 DEF RunDecide
    <3>3. Resolved(Here.arms[r].next, m)
      BY <1>9, <3>2
    <3> QED
      BY <1>1, <1>2, <3>1, <3>2, <3>3
  <2>6. CASE RunSink
    BY <1>6, <2>6 DEF RunSink, chain
  <2> QED
    BY <2>1, <2>2, <2>3, <2>4, <2>5, <2>6 DEF Run
<1>11. RunForward'
  <2>1. m' > 0 => Resolved(pc, m - 1)'
    <3>1. SUFFICES ASSUME m' > 0 PROVE Resolved(pc, m - 1)'
      OBVIOUS
    <3>2. PICK x, a : x = pc' /\ a = m' - 1 /\ Resolved(x, a)
      BY <1>10, <3>1
    <3>3. Resolved(x, a)'
      BY <1>5, <3>2
    <3> QED
      BY <3>2, <3>3 DEF Resolved
  <2> QED
    BY <1>1, <1>3, <1>10, <2>1 DEF RunForward
<1> QED
  BY <1>7, <1>8, <1>11 DEF ForwardInv

THEOREM NextForward == TypeOK /\ ForwardInv /\ [Next]_vars => ForwardInv'
<1> SUFFICES ASSUME TypeOK, ForwardInv, [Next]_vars PROVE ForwardInv'
  OBVIOUS
<1>1. CASE Scan
  BY <1>1, ScanForward
<1>2. CASE \E e \in 1 .. N : EmitBlock(e)
  BY <1>2, EmitForward
<1>3. CASE EmitEnd
  BY <1>3, EndForward
<1>4. CASE Run
  BY <1>4, RunPreserves
<1>5. CASE UNCHANGED vars
  <2>1. N' = N
    BY <1>5, SameProgram DEF vars
  <2> QED
    BY <1>5, <2>1 DEF vars, translator, chain, ForwardInv, JumpsCut, Jumps,
       Target, Insn, ChainForward, RunForward, Resolved
<1> QED
  BY <1>1, <1>2, <1>3, <1>4, <1>5 DEF Next

LEMMA ForwardHalts == TypeOK /\ ForwardInv => HaltAtSink
<1> SUFFICES ASSUME TypeOK, ForwardInv, phase = "done" PROVE pc = PC_HALT
  BY DEF HaltAtSink
<1>1. N \in Nat /\ Len(mods) \in Nat /\ m \in Nat
  BY ProgramFacts, LenProperties DEF TypeOK
<1>2. start = N /\ m > Len(mods) /\ Resolved(pc, m - 1)
  BY <1>1 DEF ForwardInv, RunForward
<1> QED
  BY <1>1, <1>2, ResolvedAtEnd

(* Every pc a transformer leaves, and the pc the run carries, is halt or   *)
(* guards a transformer still ahead: find_leaders' cut of the section and  *)
(* its refusal of backward jumps make the chain a topological order.       *)
THEOREM Forward == Spec => []ForwardInv
<1>1. Init => TypeOK /\ ForwardInv
  BY InitTypeOK, InitForward
<1>2. TypeOK /\ ForwardInv /\ [Next]_vars => (TypeOK /\ ForwardInv)'
  BY NextTypeOK, NextForward
<1> QED
  BY <1>1, <1>2, PTL DEF Spec

(* The chain reaches the deparser only with the program halted: no jump    *)
(* targets a block that the chain has passed or that no transformer        *)
(* guards.                                                                 *)
THEOREM HaltedAtSink == Spec => []HaltAtSink
BY TypeCorrect, Forward, ForwardHalts, PTL

-----------------------------------------------------------------------------
(* The guards.  Every block is emitted once and in order, so a guard below *)
(* the two of the next block is never given out again.                     *)
GuardsBelow == \A a \in 1 .. Len(mods) : mods[a].pc \in 1 .. 2 * start
GuardInv    == GuardsBelow /\ DistinctGuards

LEMMA GuardsInit == Init => GuardInv
BY DEF Init, GuardInv, GuardsBelow, DistinctGuards

LEMMA GuardsEmit ==
  ASSUME TypeOK, GuardInv, NEW e \in 1 .. N, EmitBlock(e)
  PROVE  GuardInv'
<1>0. PICK new \in Seq(Mod), err \in BOOLEAN :
        EndsAt(e) /\ Emit(e, new, err) /\ Emitted(e, new)
  BY EmitsBlock
<1>1. /\ Len(mods) \in Nat /\ Len(new) \in 1 .. 2
      /\ Len(mods') = Len(mods) + Len(new)
      /\ \A b \in 1 .. Len(mods) : mods'[b] = mods[b]
      /\ \A b \in 1 .. Len(new) : mods'[Len(mods) + b] = new[b]
  BY <1>0, ResolvedEmit
<1>2. start \in Nat /\ e \in Nat /\ start + 1 <= e /\ start' = e
  BY <1>0, ProgramFacts DEF TypeOK, EndsAt, Emit
<1> DEFINE pcs == [b \in 1 .. Len(mods') |-> mods'[b].pc]
<1>3. PICK n \in Nat, k \in 1 .. 2 : n = Len(mods) /\ k = Len(new)
  BY <1>1
<1>4. /\ Len(mods') = n + k
      /\ \A b \in 1 .. n : mods'[b] = mods[b]
      /\ mods'[n + 1] = new[1]
      /\ k = 2 => mods'[n + 2] = new[2]
  <2>1. 1 \in 1 .. k /\ (k = 2 => 2 \in 1 .. k)
    OBVIOUS
  <2> QED
    BY <1>1, <1>3, <2>1
<1>5. DOMAIN mods = 1 .. n /\ DOMAIN mods' = 1 .. n + k
  <2>1. mods' = mods \o new
    BY <1>0 DEF Emit
  <2>2. mods \in Seq(Mod) /\ mods' \in Seq(Mod)
    BY <2>1, ConcatProperties DEF TypeOK
  <2> QED
    BY <1>3, <1>4, <2>2, LenProperties
<1>6. /\ \A b \in 1 .. n : b \in 1 .. n + k
      /\ n + 1 \in 1 .. n + k /\ (k = 2 => n + 2 \in 1 .. n + k)
  OBVIOUS
<1>7. \A b \in 1 .. n : pcs[b] = mods[b].pc
  BY <1>4, <1>6
<1>8. pcs[n + 1] = 2 * start + 1 /\ (k = 2 => pcs[n + 2] = 2 * start + 2)
  <2>1. pcs[n + 1] = new[1].pc /\ (k = 2 => pcs[n + 2] = new[2].pc)
    BY <1>4, <1>6
  <2> QED
    BY <1>0, <1>3, <2>1 DEF Emitted
<1>9. \A b \in 1 .. n : pcs[b] \in 1 .. 2 * start
  BY <1>3, <1>7 DEF GuardInv, GuardsBelow
<1>10. \A a, b \in 1 .. n : pcs[a] = pcs[b] => a = b
  BY <1>5, <1>7 DEF GuardInv, DistinctGuards
<1>11. /\ \A b \in 1 .. n + k : pcs[b] \in 1 .. 2 * e
       /\ \A a, b \in 1 .. n + k : pcs[a] = pcs[b] => a = b
  <2>0. PICK s \in Nat : s = start
    BY <1>2
  <2>1. PICK p : p = pcs
    OBVIOUS
  <2>2. /\ s + 1 <= e /\ p[n + 1] = 2 * s + 1 /\ (k = 2 => p[n + 2] = 2 * s + 2)
        /\ \A b \in 1 .. n : p[b] \in 1 .. 2 * s
        /\ \A a, b \in 1 .. n : p[a] = p[b] => a = b
    BY <1>2, <1>8, <1>9, <1>10, <2>0, <2>1
  <2> HIDE DEF pcs
  <2>3. \A b \in 1 .. n + k : b \in 1 .. n \/ b = n + 1 \/ (b = n + 2 /\ k = 2)
    OBVIOUS
  <2>4. \A b \in 1 .. n + k : p[b] \in 1 .. 2 * e
    BY <1>2, <2>2, <2>3
  <2>5. ASSUME NEW a \in 1 .. n + k, NEW b \in 1 .. n + k, p[a] = p[b]
        PROVE  a = b
    <3>1. /\ \A c \in 1 .. n : p[c] \in Int /\ p[c] <= 2 * s
          /\ p[n + 1] = 2 * s + 1 /\ (k = 2 => p[n + 2] = 2 * s + 2)
      BY <2>2
    <3>2. CASE a \in 1 .. n /\ b \in 1 .. n
      BY <2>2, <2>5, <3>2
    <3>3. CASE a \in 1 .. n /\ b \notin 1 .. n
      BY <2>3, <2>5, <3>1, <3>3
    <3>4. CASE a \notin 1 .. n /\ b \in 1 .. n
      BY <2>3, <2>5, <3>1, <3>4
    <3>5. CASE a \notin 1 .. n /\ b \notin 1 .. n
      BY <2>3, <2>5, <3>1, <3>5
    <3> QED
      BY <3>2, <3>3, <3>4, <3>5
  <2> QED
    BY <2>1, <2>4, <2>5
<1>12. \A b \in 1 .. n + k : pcs[b] = mods'[b].pc
  BY <1>4
<1> QED
  BY <1>2, <1>4, <1>5, <1>11, <1>12 DEF GuardInv, GuardsBelow, DistinctGuards

LEMMA GuardsStep == TypeOK /\ GuardInv /\ [Next]_vars => GuardInv'
<1> SUFFICES ASSUME TypeOK, GuardInv, [Next]_vars PROVE GuardInv'
  OBVIOUS
<1>1. CASE \E e \in 1 .. N : EmitBlock(e)
  BY <1>1, GuardsEmit
<1>2. CASE Scan \/ EmitEnd \/ Run \/ UNCHANGED vars
  <2>1. mods' = mods /\ start' = start
    BY <1>2, NoEmission DEF vars, translator
  <2> QED
    BY <2>1 DEF GuardInv, GuardsBelow, DistinctGuards
<1> QED
  BY <1>1, <1>2 DEF Next

(* No two transformers guard on the same pc (translate_program, BLOCK_PC,  *)
(* DECIDE_PC): an arm enters one of them.                                  *)
THEOREM GuardsDistinct == Spec => []DistinctGuards
<1>1. Init => TypeOK /\ GuardInv
  BY InitTypeOK, GuardsInit
<1>2. TypeOK /\ GuardInv /\ [Next]_vars => (TypeOK /\ GuardInv)'
  BY NextTypeOK, GuardsStep
<1>3. GuardInv => DistinctGuards
  BY DEF GuardInv
<1> QED
  BY <1>1, <1>2, <1>3, PTL DEF Spec

-----------------------------------------------------------------------------
(* The verdict.  It follows from where blocks start: behind every jump and *)
(* at every target, and nowhere else; and from what is known of the blocks *)
(* that were emitted without an error.                                     *)
Ends(k) == IsJmp(Insn(k)) /\ ~IsNopJump(Insn(k))

CutBehind ==
  \A k \in 0 .. N - 1 : Ends(k) /\ (phase = "scan" => k < i) => k + 1 = N \/ k + 1 \in leader
LeadersFrom ==
  \A l \in leader : \/ l = 0
                    \/ \E k \in 0 .. N - 1 : Ends(k) /\ l = k + 1
                    \/ \E k \in 0 .. N - 1 : Jumps(k) /\ l = Target(k)
Lowered(k) ==
  /\ Insn(k).op \notin {"bad", "jx", "helper"}
  /\ Insn(k).op = "imm64" => k + 1 < N
  /\ k \in leader => Insn(k).op # "hi"
Refusal == ~Supported \/ HasMapCall

VerdictInv ==
  /\ CutBehind /\ LeadersFrom
  /\ 0 \in leader /\ start \in leader \cup {N}
  /\ phase = "scan" => start = 0
  /\ ~error => \A k \in 0 .. start - 1 : Lowered(k)
  /\ error => Refusal
  /\ phase = "refused" => error

LEMMA VerdictInit == Init => VerdictInv
<1> SUFFICES ASSUME Init PROVE VerdictInv
  OBVIOUS
<1>1. N \in Nat \ {0}
  BY InitTypeOK, ProgramFacts
<1> QED
  BY <1>1 DEF Init, VerdictInv, CutBehind, LeadersFrom, Ends

(* What is said of the program alone does not change.                      *)
LEMMA SameText ==
  ASSUME insns' = insns
  PROVE  /\ N' = N /\ (Supported' <=> Supported) /\ (HasMapCall' <=> HasMapCall)
         /\ \A k : Insn(k)' = Insn(k) /\ Target(k)' = Target(k)
         /\ \A k : (Ends(k)' <=> Ends(k)) /\ (Jumps(k)' <=> Jumps(k))
BY DEF N, Insn, Target, Ends, Jumps, Supported, JumpOK, HasMapCall

(* An upper half follows an LD_IMM64, and nothing else does.               *)
LEMMA Halves ==
  ASSUME TypeOK
  PROVE  \A k \in 0 .. N - 1 : Insn(k).op = "hi" <=> k > 0 /\ Insn(k - 1).op = "imm64"
<1>1. \A k \in 1 .. Len(insns) : insns[k].op = "hi" <=> k > 1 /\ insns[k - 1].op = "imm64"
  BY ProgramsAssumption DEF TypeOK, ProgramsAssumption
<1>2. ASSUME NEW k \in 0 .. N - 1
      PROVE  Insn(k).op = "hi" <=> k > 0 /\ Insn(k - 1).op = "imm64"
  <2>1. N \in Nat
    BY ProgramFacts
  <2>2. k + 1 \in 1 .. Len(insns) /\ (k + 1) - 1 = (k - 1) + 1
    BY <2>1 DEF N
  <2>3. insns[k + 1].op = "hi" <=> k + 1 > 1 /\ insns[(k + 1) - 1].op = "imm64"
    BY <1>1, <2>2
  <2> QED
    BY <2>1, <2>2, <2>3 DEF Insn
<1> QED
  BY <1>2

(* ------------------------------ find_leaders --------------------------- *)
(* One step of the scan: the cursor, and what it may add.                  *)
Scanned ==
  /\ insns' = insns /\ mods' = mods /\ start' = start
  /\ phase = "scan" /\ phase' \in {"scan", "emit"}
  /\ phase' = "emit" => i >= N
  /\ phase' = "scan" =>
       /\ i < N
       /\ i' = IF Insn(i).op = "imm64" THEN i + 2 ELSE i + 1
       /\ Ends(i) => i + 1 = N \/ i + 1 \in leader'
  /\ leader \subseteq leader'
  /\ \A l \in leader' :
       l \in leader \/ (i < N /\ Ends(i) /\ (l = i + 1 \/ (Jumps(i) /\ l = Target(i))))
  /\ error => error'
  /\ error' => \/ error
               \/ i < N /\ Jumps(i) /\ (Target(i) \notin 0 .. N \/ Backward(i))

LEMMA ScanScanned ==
  ASSUME TypeOK, Scan
  PROVE  Scanned
<1> USE DEF Scanning, translator
<1>1. N \in Nat \ {0} /\ i \in Nat /\ leader \subseteq 0 .. N
  BY ProgramFacts DEF TypeOK
<1>2. CASE ScanWide
  BY <1>2 DEF ScanWide, Scanned, Ends, IsJmp, Jcc, Calls
<1>3. CASE ScanStraight
  BY <1>3 DEF ScanStraight, Scanned, Ends
<1>4. CASE ScanBlockEnd
  <2>1. Insn(i).op # "imm64" /\ Ends(i)
    BY <1>4 DEF ScanBlockEnd, Ends, IsJmp, IsNopJump, Calls
  <2>2. \A l : l \in leader' <=> l \in leader \/ (l = i + 1 /\ l < N)
    BY <1>4 DEF ScanBlockEnd, AfterJump
  <2>3. /\ insns' = insns /\ mods' = mods /\ start' = start /\ error' = error
        /\ phase = "scan" /\ phase' = "scan" /\ i < N /\ i' = i + 1
    BY <1>4 DEF ScanBlockEnd
  <2>4. leader \subseteq leader' /\ (i + 1 = N \/ i + 1 \in leader')
    BY <1>1, <2>2, <2>3
  <2>5. \A l \in leader' : l \in leader \/ l = i + 1
    BY <2>2
  <2> QED
    BY <2>1, <2>3, <2>4, <2>5 DEF Scanned
<1>5. CASE ScanJump
  <2>1. Insn(i).op # "imm64" /\ Ends(i) /\ Jumps(i)
    BY <1>5 DEF ScanJump, Ends, Jumps, IsJmp, IsNopJump, Jcc
  <2>2. \A l : l \in leader' <=>
          \/ l \in leader \/ (l = i + 1 /\ l < N)
          \/ l = Target(i) /\ l \in 0 .. N
    BY <1>5 DEF ScanJump, AfterJump
  <2>3. /\ insns' = insns /\ mods' = mods /\ start' = start
        /\ error' = (error \/ Target(i) \notin 0 .. N \/ Backward(i))
        /\ phase = "scan" /\ phase' = "scan" /\ i < N /\ i' = i + 1
    BY <1>5 DEF ScanJump
  <2>4. leader \subseteq leader' /\ (i + 1 = N \/ i + 1 \in leader')
    BY <1>1, <2>2, <2>3
  <2>5. \A l \in leader' : l \in leader \/ l = i + 1 \/ l = Target(i)
    BY <2>2
  <2> QED
    BY <2>1, <2>3, <2>4, <2>5 DEF Scanned
<1>6. CASE ScanEnd
  BY <1>1, <1>6 DEF ScanEnd, Scanned
<1> QED
  BY <1>2, <1>3, <1>4, <1>5, <1>6 DEF Scan

LEMMA VerdictScan ==
  ASSUME TypeOK, VerdictInv, Scan
  PROVE  VerdictInv'
<1>0. Scanned
  BY ScanScanned
<1>1. N \in Nat \ {0} /\ i \in Nat
  BY ProgramFacts DEF TypeOK
<1>2. CutBehind'
  <2>1. ASSUME NEW k \in 0 .. N - 1, Ends(k), phase' = "scan" => k < i'
        PROVE  k + 1 = N \/ k + 1 \in leader'
    <3>1. CASE k < i
      BY <1>0, <2>1, <3>1 DEF VerdictInv, CutBehind, Scanned
    <3>2. CASE k >= i
      <4>1. phase' = "scan" /\ k < i' /\ i < N
        BY <1>0, <1>1, <2>1, <3>2 DEF Scanned
      <4>2. k = i + 1 => Insn(k).op # "hi"
        BY <2>1 DEF Ends, IsJmp, Jcc, Calls
      <4>3. k = i + 1 => Insn(i).op # "imm64"
        <5>1. SUFFICES ASSUME k = i + 1, Insn(i).op = "imm64" PROVE FALSE
          OBVIOUS
        <5>2. k > 0 /\ k - 1 = i
          BY <1>1, <5>1
        <5> QED
          BY <4>2, <5>1, <5>2, Halves
      <4>4. k = i
        BY <1>0, <1>1, <3>2, <4>1, <4>3 DEF Scanned
      <4> QED
        BY <1>0, <2>1, <4>1, <4>4 DEF Scanned
    <3> QED
      BY <1>1, <3>1, <3>2
  <2> QED
    BY <1>0, <2>1, SameText DEF CutBehind, Scanned
<1>3. LeadersFrom'
  <2>1. ASSUME NEW l \in leader'
        PROVE  \/ l = 0
               \/ \E k \in 0 .. N - 1 : Ends(k) /\ l = k + 1
               \/ \E k \in 0 .. N - 1 : Jumps(k) /\ l = Target(k)
    <3>1. CASE l \in leader
      BY <3>1 DEF VerdictInv, LeadersFrom
    <3>2. CASE l \notin leader
      <4>1. i \in 0 .. N - 1 /\ Ends(i) /\ (l = i + 1 \/ (Jumps(i) /\ l = Target(i)))
        BY <1>0, <1>1, <3>2 DEF Scanned
      <4> QED
        BY <4>1
    <3> QED
      BY <3>1, <3>2
  <2> QED
    BY <1>0, <2>1, SameText DEF LeadersFrom, Scanned
<1>4. error' => Refusal'
  <2>1. SUFFICES ASSUME error' PROVE Refusal
    BY <1>0, SameText DEF Refusal, Scanned
  <2>2. CASE error
    BY <2>2 DEF VerdictInv
  <2>3. CASE ~error
    <3>1. i \in 0 .. N - 1 /\ Jumps(i) /\ (Target(i) \notin 0 .. N \/ Backward(i))
      BY <1>0, <1>1, <2>1, <2>3 DEF Scanned
    <3>2. Target(i) \in Int
      BY <3>1, ProgramFacts DEF Target
    <3>3. ~JumpOK(i)
      BY <1>1, <3>1, <3>2 DEF JumpOK, Backward
    <3>4. ~Supported
      BY <3>1, <3>3 DEF Supported, Jumps
    <3> QED
      BY <3>4 DEF Refusal
  <2> QED
    BY <2>2, <2>3
<1> QED
  BY <1>0, <1>1, <1>2, <1>3, <1>4, SameText DEF VerdictInv, Scanned

(* --------------------------- translate_program ------------------------- *)
(* One block emitted: it fails for a reason, and it fails when its last    *)
(* instruction is one that has no lowering.                                *)
BlockEmitted(e) ==
  /\ EndsAt(e) /\ phase = "emit"
  /\ insns' = insns /\ phase' = phase /\ leader' = leader /\ i' = i /\ start' = e
  /\ \E err \in BOOLEAN :
       /\ error' = (error \/ BodyError(e) \/ err)
       /\ err => Refusal
       /\ Insn(e - 1).op \in {"jx", "helper"} => err

LEMMA EmitEmitted ==
  ASSUME TypeOK, NEW e \in 1 .. N, EmitBlock(e)
  PROVE  BlockEmitted(e)
<1>1. N \in Nat \ {0} /\ e - 1 \in 0 .. N - 1
  BY ProgramFacts
<1>2. ASSUME NEW new, NEW err \in BOOLEAN, EndsAt(e), Emit(e, new, err), err => Refusal,
             Insn(e - 1).op \in {"jx", "helper"} => err
      PROVE  BlockEmitted(e)
  BY <1>2 DEF BlockEmitted, Emit
<1>3. Insn(e - 1).op \in {"jx", "helper"} => Refusal
  BY <1>1 DEF Refusal, Supported
<1>4. Insn(e - 1).op \in {"lookup", "update"} => Refusal
  BY <1>1 DEF Refusal, HasMapCall
<1> USE DEF HasTerm
<1>5. CASE EmitFallthrough(e)
  <2>1. Insn(e - 1).op \notin {"jx", "helper"}
    BY <1>5 DEF EmitFallthrough, IsJmp, IsNopJump, Jcc, Calls
  <2> QED
    BY <1>2, <1>5, <2>1 DEF EmitFallthrough
<1>6. CASE EmitExit(e)
  BY <1>2, <1>6 DEF EmitExit
<1>7. CASE EmitJump(e)
  BY <1>2, <1>7 DEF EmitJump
<1>8. CASE EmitBranch(e)
  BY <1>2, <1>8 DEF EmitBranch
<1>9. CASE EmitNoBranch(e)
  BY <1>2, <1>3, <1>9 DEF EmitNoBranch
<1>10. CASE EmitMapArms(e)
  BY <1>2, <1>10 DEF EmitMapArms
<1>11. CASE EmitPlainCall(e)
  <2>1. Refusal
    BY <1>3, <1>4, <1>11 DEF EmitPlainCall, Calls
  <2>2. PICK err \in BOOLEAN :
          /\ ~err => Insn(e - 1).op = "update"
          /\ Emit(e, <<Body(start, e, PcOf(e))>>, err)
    BY <1>11 DEF EmitPlainCall
  <2> QED
    BY <1>2, <1>11, <2>1, <2>2 DEF EmitPlainCall
<1> QED
  BY <1>5, <1>6, <1>7, <1>8, <1>9, <1>10, <1>11 DEF EmitBlock

LEMMA VerdictEmit ==
  ASSUME TypeOK, VerdictInv, NEW e \in 1 .. N, EmitBlock(e)
  PROVE  VerdictInv'
<1>0. BlockEmitted(e)
  BY EmitEmitted
<1>1. /\ N \in Nat \ {0} /\ start \in 0 .. N - 1 /\ e \in start + 1 .. N
      /\ \A k \in start + 1 .. e - 1 : k \notin leader
      /\ e \in leader \cup {N}
  BY <1>0, ProgramFacts DEF TypeOK, BlockEmitted, EndsAt
<1>2. PICK err \in BOOLEAN :
        /\ error' = (error \/ BodyError(e) \/ err)
        /\ err => Refusal
        /\ Insn(e - 1).op \in {"jx", "helper"} => err
  BY <1>0 DEF BlockEmitted
<1>3. CutBehind' /\ LeadersFrom'
  BY <1>0, SameText DEF VerdictInv, CutBehind, LeadersFrom, BlockEmitted
<1>4. ASSUME ~error', NEW k \in 0 .. e - 1
      PROVE  Lowered(k)
  <2>1. CASE k < start
    <3>1. ~error
      BY <1>2, <1>4
    <3>2. k \in 0 .. start - 1
      BY <1>1, <2>1
    <3> QED
      BY <3>1, <3>2 DEF VerdictInv
  <2>2. CASE k >= start
    <3>1. k \in start .. e - 1 /\ k \in 0 .. N - 1
      BY <1>1, <2>2
    <3>2. /\ Insn(k).op # "bad"
          /\ Insn(k).op = "imm64" => ~(k + 1 >= N)
          /\ Insn(k).op = "hi" => k # start
      BY <1>2, <1>4, <3>1 DEF BodyError
    <3>3. k \in leader => k = start
      BY <1>1, <3>1
    <3>4. Insn(k).op \notin {"jx", "helper"}
      <4>1. CASE k = e - 1
        BY <1>2, <1>4, <4>1
      <4>2. CASE k # e - 1
        <5>1. k + 1 # N /\ k + 1 \notin leader
          BY <1>1, <3>1, <4>2
        <5>2. ~Ends(k)
          BY <1>0, <3>1, <5>1 DEF VerdictInv, CutBehind, BlockEmitted
        <5> QED
          BY <5>2 DEF Ends, IsJmp, IsNopJump, Jcc, Calls
      <4> QED
        BY <4>1, <4>2
    <3> QED
      BY <1>1, <3>1, <3>2, <3>3, <3>4 DEF Lowered
  <2> QED
    BY <1>1, <2>1, <2>2
<1>5. BodyError(e) => Refusal
  <2>1. SUFFICES ASSUME NEW k \in start .. e - 1,
                        \/ Insn(k).op = "bad"
                        \/ Insn(k).op = "hi" /\ k = start
                        \/ Insn(k).op = "imm64" /\ k + 1 >= N
                 PROVE  ~Supported
    BY DEF BodyError, Refusal
  <2>2. k \in 0 .. N - 1
    BY <1>1
  <2>3. CASE Insn(k).op = "bad" \/ (Insn(k).op = "imm64" /\ k + 1 >= N)
    BY <1>1, <2>2, <2>3 DEF Supported
  <2>4. CASE Insn(k).op = "hi" /\ k = start
    <3>1. k > 0 /\ Insn(k - 1).op = "imm64" /\ k < N /\ k \in leader
      BY <1>1, <2>2, <2>4, Halves DEF VerdictInv
    <3>2. ASSUME NEW l \in 0 .. N - 1, Ends(l), k = l + 1
          PROVE  FALSE
      <4>1. k - 1 = l
        BY <3>2
      <4> QED
        BY <3>1, <3>2, <4>1 DEF Ends, IsJmp, Jcc, Calls
    <3>3. PICK l \in 0 .. N - 1 : Jumps(l) /\ k = Target(l)
      BY <1>1, <3>1, <3>2 DEF VerdictInv, LeadersFrom
    <3>4. ~JumpOK(l)
      BY <2>4, <3>1, <3>3 DEF JumpOK
    <3> QED
      BY <3>3, <3>4 DEF Supported, Jumps
  <2> QED
    BY <2>1, <2>3, <2>4
<1>6. error' => Refusal
  BY <1>2, <1>5 DEF VerdictInv
<1>7. ASSUME ~error', NEW k \in 0 .. e - 1
      PROVE  Lowered(k)'
  <2>1. Lowered(k)
    BY <1>4, <1>7
  <2> QED
    BY <1>0, <2>1, SameText DEF Lowered, BlockEmitted
<1> QED
  BY <1>0, <1>1, <1>3, <1>6, <1>7, SameText DEF VerdictInv, BlockEmitted, Refusal

LEMMA VerdictStep == TypeOK /\ VerdictInv /\ [Next]_vars => VerdictInv'
<1> SUFFICES ASSUME TypeOK, VerdictInv, [Next]_vars PROVE VerdictInv'
  OBVIOUS
<1>1. CASE EmitEnd \/ Run \/ UNCHANGED vars
  <2>1. /\ insns' = insns /\ start' = start /\ leader' = leader /\ error' = error /\ i' = i
        /\ phase' = "scan" => phase = "scan"
        /\ phase' = "refused" => phase = "refused" \/ error
    BY <1>1 DEF EmitEnd, vars, translator, Run, RunPreamble, RunDefault, RunEnter, RunOps,
       RunLeave, RunDecide, RunSink, Running
  <2>2. phase' = "scan" <=> phase = "scan"
    BY <1>1 DEF EmitEnd, vars, Run, RunPreamble, RunDefault, RunEnter, RunOps,
       RunLeave, RunDecide, RunSink, Running
  <2>3. CutBehind' /\ LeadersFrom'
    BY <2>1, <2>2, SameText DEF VerdictInv, CutBehind, LeadersFrom
  <2>4. \A k : Lowered(k)' <=> Lowered(k)
    BY <2>1, SameText DEF Lowered
  <2> QED
    BY <2>1, <2>2, <2>3, <2>4, SameText DEF VerdictInv, Refusal
<1> QED
  BY <1>1, VerdictScan, VerdictEmit DEF Next

(* What every block's lowering says together is that the program is        *)
(* supported.                                                              *)
LEMMA VerdictHolds == TypeOK /\ ForwardInv /\ VerdictInv => Verdict
<1> SUFFICES ASSUME TypeOK, ForwardInv, VerdictInv PROVE Verdict
  OBVIOUS
<1>1. N \in Nat \ {0} /\ \A k \in 0 .. N - 1 : Insn(k).off \in Int
  BY ProgramFacts
<1>2. phase = "refused" => ~Supported \/ HasMapCall
  BY DEF VerdictInv, Refusal
<1>3. ASSUME phase \in {"run", "done"}
      PROVE  Supported
  <2>1. start = N /\ ~error
    BY <1>3 DEF ForwardInv, RunForward
  <2>2. \A k \in 0 .. N - 1 : Lowered(k)
    BY <2>1 DEF VerdictInv
  <2>3. ASSUME NEW k \in 0 .. N - 1, Insn(k).op \in {"ja"} \cup Jcc
        PROVE  JumpOK(k)
    <3>1. CASE Jumps(k)
      <4>1. /\ Target(k) \in k + 1 .. N
            /\ Target(k) \in 0 .. N => Target(k) \in leader
        BY <1>3, <2>1, <3>1 DEF ForwardInv, JumpsCut
      <4>2. Target(k) < N => Target(k) \in 0 .. N - 1 /\ Target(k) \in leader
        BY <1>1, <4>1
      <4> QED
        BY <2>2, <4>1, <4>2 DEF JumpOK, Lowered
    <3>2. CASE ~Jumps(k)
      <4>1. Insn(k).op = "ja" /\ Insn(k).off = 0
        BY <2>3, <3>2 DEF Jumps, IsNopJump
      <4>2. Target(k) = k + 1
        BY <4>1 DEF Target
      <4>3. ASSUME k + 1 < N PROVE Insn(k + 1).op # "hi"
        <5>1. k + 1 \in 0 .. N - 1 /\ (k + 1) - 1 = k
          BY <1>1, <4>3
        <5>2. Insn(k + 1).op = "hi" => Insn((k + 1) - 1).op = "imm64"
          BY <5>1, Halves
        <5> QED
          BY <4>1, <5>1, <5>2
      <4> QED
        BY <1>1, <4>2, <4>3 DEF JumpOK
    <3> QED
      BY <3>1, <3>2
  <2> QED
    BY <2>2, <2>3 DEF Supported, Lowered
<1> QED
  BY <1>2, <1>3 DEF Verdict

(* A program is accepted only if all of it has a lowering, reachable or    *)
(* not, and refused only for a reason (find_leaders, translate_program,    *)
(* translate_one).                                                         *)
THEOREM VerdictRight == Spec => []Verdict
<1>1. Init => TypeOK /\ ForwardInv /\ VerdictInv
  BY InitTypeOK, InitForward, VerdictInit
<1>2. TypeOK /\ ForwardInv /\ VerdictInv /\ [Next]_vars
        => (TypeOK /\ ForwardInv /\ VerdictInv)'
  BY NextTypeOK, NextForward, VerdictStep
<1> QED
  BY <1>1, <1>2, VerdictHolds, PTL DEF Spec

-----------------------------------------------------------------------------
(* -------------- the chain runs the program ------------------------------ *)

(* What each transformer has to do with the program.  A body runs          *)
(* instructions that go on to the next one, up to the end of the block or  *)
(* to the jump that ends it ...                                            *)
Passes(k)   == Insn(k).op \in {"op", "imm64", "hi"} \/ IsNopJump(Insn(k))
Straight(b) ==
  /\ \A k \in b.first .. b.last - 1 :
       Passes(k) \/ (Insn(k).op = "update" /\ k = b.last - 1)
  /\ b.first < b.last => Insn(b.first).op # "hi"

(* ... and leaves to where its end goes.                                   *)
Falls(b) == b.last \in leader \cup {N} /\ b.arms[1].next = PcOf(b.last)
Exits(b) == b.last < N /\ Insn(b.last).op = "exit" /\ b.arms[1].next = PC_HALT
Goes(b)  == /\ b.last < N /\ Insn(b.last).op = "ja" /\ ~IsNopJump(Insn(b.last))
            /\ b.arms[1].next = PcOf(Target(b.last))
Asks(b, d) ==
  /\ b.last < N /\ Insn(b.last).op \in {"jeq", "jne", "lookup", "update"}
  /\ b.arms[1].next = DECIDE_PC(b.first)
  /\ d.kind = "decide" /\ d.pc = DECIDE_PC(b.first) /\ d.last = b.last

BodyShape(b) ==
  /\ b.first \in 0 .. N - 1 /\ b.last \in b.first .. N
  /\ b.pc = BLOCK_PC(b.first)
  /\ Straight(b)

(* A decision's first arm that holds goes where the instruction does.      *)
Leads(d, c) == IF d.arms[1].test = c THEN d.arms[1].next ELSE d.arms[2].next
DecideShape(d) ==
  /\ d.first \in 0 .. N - 1 /\ d.pc = DECIDE_PC(d.first)
  /\ d.last \in 0 .. N - 1
  /\ Len(d.arms) = 2 /\ d.arms[1].test \in Outcomes /\ d.arms[2].test = "always"
  /\ \/ /\ Insn(d.last).op \in {"lookup", "update"}
        /\ \A c \in Outcomes : Leads(d, c) = PcOf(d.last + 1)
     \/ /\ Insn(d.last).op \in {"jeq", "jne"} /\ Jumps(d.last)
        /\ Leads(d, "yes") = PcOf(Target(d.last)) /\ Leads(d, "no") = PcOf(d.last + 1)

Shape(a) ==
  \/ /\ mods[a].kind = "body" /\ BodyShape(mods[a])
     /\ \/ Falls(mods[a]) \/ Exits(mods[a]) \/ Goes(mods[a])
        \/ a < Len(mods) /\ Asks(mods[a], mods[a + 1])
  \/ mods[a].kind = "decide" /\ DecideShape(mods[a])

ShapeInv ==
  /\ phase = "scan" => mods = <<>>
  /\ ~error => \A a \in 1 .. Len(mods) : Shape(a)

(* Where the run is: in the middle of a body, at a decision with its       *)
(* outcome known, or between two transformers with a block to go to.       *)
Inside ==
  /\ ip # Idle /\ cond = "none" /\ m \in 1 .. Len(mods)
  /\ Here.kind = "body" /\ Here.pc = pc
  /\ ip \in Here.first .. Here.last
  /\ ip < Here.last => Insn(ip).op # "hi"
Deciding ==
  /\ ip = Idle /\ cond \in Outcomes /\ m \in 1 .. Len(mods)
  /\ Here.kind = "decide" /\ Here.pc = pc
Between ==
  /\ ip = Idle /\ cond = "none"
  /\ pc = PC_HALT \/ \E l \in 0 .. N - 1 : pc = BLOCK_PC(l)

RunInv ==
  /\ phase \in {"scan", "emit", "refused"} => m = 0
  /\ m = 0 => ip = Idle /\ cond = "none"
  /\ m # 0 => Inside \/ Deciding \/ Between

ChainInv == ShapeInv /\ RunInv

-----------------------------------------------------------------------------
(* The shapes.                                                             *)

(* A block emitted without an error: its instructions go on to the next    *)
(* one, except the last if it ends the block.                              *)
LEMMA BlockPasses ==
  ASSUME TypeOK, VerdictInv, NEW e \in 1 .. N, EmitBlock(e), ~error'
  PROVE  /\ N \in Nat \ {0} /\ start \in 0 .. N - 1 /\ e \in start + 1 .. N
         /\ e \in leader \cup {N} /\ ~error
         /\ \A k \in start .. e - 2 : Passes(k)
         /\ Passes(e - 1) \/ HasTerm(e)
         /\ Insn(start).op # "hi"
<1>0. BlockEmitted(e)
  BY EmitEmitted
<1>1. /\ N \in Nat \ {0} /\ start \in 0 .. N - 1 /\ e \in start + 1 .. N
      /\ \A k \in start + 1 .. e - 1 : k \notin leader
      /\ e \in leader \cup {N}
  BY <1>0, ProgramFacts DEF TypeOK, BlockEmitted, EndsAt
<1>2. ~error /\ ~BodyError(e)
  BY <1>0 DEF BlockEmitted
<1>3. ASSUME NEW k \in start .. e - 1
      PROVE  Insn(k).op # "bad" /\ (Insn(k).op = "hi" => k # start) /\ Insn(k).op \in Ops
  <2>1. k \in 0 .. N - 1
    BY <1>1
  <2> QED
    BY <1>2, <2>1, ProgramFacts DEF BodyError
<1>4. ASSUME NEW k \in start .. e - 1
      PROVE  Passes(k) \/ Ends(k)
  BY <1>3 DEF Passes, Ends, IsJmp, IsNopJump, Ops, Jcc, Calls
<1>5. ASSUME NEW k \in start .. e - 2
      PROVE  Passes(k)
  <2>1. k \in 0 .. N - 1 /\ k + 1 # N /\ k + 1 \notin leader /\ k \in start .. e - 1
    BY <1>1
  <2>2. ~Ends(k)
    BY <1>0, <2>1 DEF VerdictInv, CutBehind, BlockEmitted
  <2> QED
    BY <1>4, <2>1, <2>2
<1>6. Passes(e - 1) \/ HasTerm(e)
  BY <1>1, <1>4 DEF Ends, HasTerm
<1>7. Insn(start).op # "hi"
  BY <1>1, <1>3
<1> QED
  BY <1>1, <1>2, <1>5, <1>6, <1>7

(* What one block turns into.                                              *)
NewShape(new) ==
  \/ \E b \in Mod :
       /\ new = <<b>> /\ b.kind = "body" /\ BodyShape(b)
       /\ Falls(b) \/ Exits(b) \/ Goes(b)
  \/ \E b \in Mod, d \in Mod :
       /\ new = <<b, d>> /\ b.kind = "body" /\ BodyShape(b) /\ Asks(b, d)
       /\ d.kind = "decide" /\ DecideShape(d)

LEMMA BodyParts ==
  ASSUME NEW s, NEW e, NEW next
  PROVE  /\ Body(s, e, next).kind = "body" /\ Body(s, e, next).pc = BLOCK_PC(s)
         /\ Body(s, e, next).first = s /\ Body(s, e, next).last = e
         /\ Body(s, e, next).arms[1].next = next
BY DEF Body

LEMMA DecideParts ==
  ASSUME NEW s, NEW e, NEW one, NEW two
  PROVE  LET d == DecideOn(s, e, <<one, two>>)
         IN  /\ d.kind = "decide" /\ d.pc = DECIDE_PC(s) /\ d.first = s /\ d.last = e - 1
             /\ Len(d.arms) = 2 /\ d.arms[1] = one /\ d.arms[2] = two
BY DEF DecideOn

LEMMA EmitsShape ==
  ASSUME TypeOK, VerdictInv, NEW e \in 1 .. N, EmitBlock(e), ~error'
  PROVE  \E new \in Seq(Mod) : mods' = mods \o new /\ NewShape(new)
<1>1. /\ N \in Nat \ {0} /\ start \in 0 .. N - 1 /\ e \in start + 1 .. N
      /\ e \in leader \cup {N} /\ ~error
      /\ \A k \in start .. e - 2 : Passes(k)
      /\ Passes(e - 1) \/ HasTerm(e)
      /\ Insn(start).op # "hi"
  BY BlockPasses
<1>2. /\ e - 1 \in 0 .. N - 1 /\ e - 1 \in start .. N /\ e \in start .. N /\ e \in 0 .. N
      /\ e - 1 \in 0 .. N /\ e - 1 < N /\ (e - 1) - 1 = e - 2 /\ e - 1 + 1 = e
  BY <1>1
<1>3. /\ Target(e - 1) \in Int
      /\ PcOf(e) \in Pcs /\ PcOf(Target(e - 1)) \in Pcs /\ PC_HALT \in Pcs
      /\ BLOCK_PC(start) \in Pcs /\ DECIDE_PC(start) \in Pcs
  BY <1>1, <1>2, PcTypes, ProgramFacts DEF Target
<1>4. ASSUME NEW next \in Pcs
      PROVE  Body(start, e - 1, next) \in Mod /\ BodyShape(Body(start, e - 1, next))
  <2> DEFINE b == Body(start, e - 1, next)
  <2>1. b \in Mod
    BY <1>1, <1>2, BodyType
  <2>2. b.pc = BLOCK_PC(start) /\ b.first = start /\ b.last = e - 1
    BY BodyParts
  <2> HIDE DEF b
  <2>3. BodyShape(b)
    BY <1>1, <1>2, <2>2 DEF BodyShape, Straight
  <2> QED
    BY <2>1, <2>3 DEF b
<1>5. ASSUME NEW next \in Pcs, Passes(e - 1) \/ Insn(e - 1).op = "update"
      PROVE  Body(start, e, next) \in Mod /\ BodyShape(Body(start, e, next))
  <2> DEFINE b == Body(start, e, next)
  <2>1. b \in Mod
    BY <1>1, <1>2, BodyType
  <2>2. b.pc = BLOCK_PC(start) /\ b.first = start /\ b.last = e
    BY BodyParts
  <2> HIDE DEF b
  <2>3. \A k \in start .. e - 1 : k = e - 1 \/ k \in start .. e - 2
    BY <1>1
  <2>4. BodyShape(b)
    BY <1>1, <1>2, <1>5, <2>2, <2>3 DEF BodyShape, Straight
  <2> QED
    BY <2>1, <2>4 DEF b
<1>6. ASSUME NEW b \in Mod, b.kind = "body", BodyShape(b), Falls(b) \/ Exits(b) \/ Goes(b),
             NEW err, Emit(e, <<b>>, err)
      PROVE  \E new \in Seq(Mod) : mods' = mods \o new /\ NewShape(new)
  <2>1. <<b>> \in Seq(Mod)
    OBVIOUS
  <2>2. NewShape(<<b>>)
    BY <1>6 DEF NewShape
  <2>3. mods' = mods \o <<b>>
    BY <1>6 DEF Emit
  <2> QED
    BY <2>1, <2>2, <2>3
<1>7. ASSUME NEW one \in Arm, NEW two \in Arm, NEW err,
             Emit(e, <<Body(start, e - 1, DECIDE_PC(start)),
                       DecideOn(start, e, <<one, two>>)>>, err),
             Insn(e - 1).op \in {"jeq", "jne", "lookup", "update"},
             one.test \in Outcomes, two.test = "always",
             \/ /\ Insn(e - 1).op \in {"lookup", "update"}
                /\ one.next = PcOf(e) /\ two.next = PcOf(e)
             \/ /\ Insn(e - 1).op \in {"jeq", "jne"} /\ Jumps(e - 1)
                /\ (IF one.test = "yes" THEN one.next ELSE two.next) = PcOf(Target(e - 1))
                /\ (IF one.test = "no" THEN one.next ELSE two.next) = PcOf(e)
      PROVE  \E new \in Seq(Mod) : mods' = mods \o new /\ NewShape(new)
  <2> DEFINE b == Body(start, e - 1, DECIDE_PC(start))
             d == DecideOn(start, e, <<one, two>>)
  <2>1. b \in Mod /\ d \in Mod /\ BodyShape(b) /\ b.kind = "body"
    BY <1>1, <1>3, <1>4, DecideType, BodyParts
  <2>2. b.first = start /\ b.last = e - 1 /\ b.arms[1].next = DECIDE_PC(start)
    BY BodyParts
  <2>3. /\ d.kind = "decide" /\ d.pc = DECIDE_PC(start) /\ d.first = start /\ d.last = e - 1
        /\ Len(d.arms) = 2 /\ d.arms[1] = one /\ d.arms[2] = two
    BY DecideParts
  <2>4. mods' = mods \o <<b, d>>
    BY <1>7 DEF Emit
  <2> HIDE DEF b, d
  <2>5. Asks(b, d)
    BY <1>2, <1>7, <2>2, <2>3 DEF Asks
  <2>6. \A c : Leads(d, c) = IF one.test = c THEN one.next ELSE two.next
    BY <2>3 DEF Leads
  <2>7. DecideShape(d)
    <3>1. CASE Insn(e - 1).op \in {"lookup", "update"}
      BY <1>1, <1>2, <1>7, <2>3, <2>6, <3>1 DEF DecideShape
    <3>2. CASE Insn(e - 1).op \in {"jeq", "jne"}
      BY <1>1, <1>2, <1>7, <2>3, <2>6, <3>2 DEF DecideShape
    <3> QED
      BY <1>7, <3>1, <3>2
  <2>8. <<b, d>> \in Seq(Mod) /\ NewShape(<<b, d>>)
    BY <2>1, <2>3, <2>5, <2>7 DEF NewShape
  <2> QED
    BY <2>4, <2>8
<1>8. CASE EmitFallthrough(e)
  <2> DEFINE b == Body(start, e, PcOf(e))
  <2>1. Passes(e - 1)
    BY <1>1, <1>8 DEF EmitFallthrough
  <2>2. b \in Mod /\ BodyShape(b) /\ b.kind = "body"
    BY <1>3, <1>5, <2>1, BodyParts
  <2>3. Falls(b)
    BY <1>1, BodyParts DEF Falls
  <2>4. Emit(e, <<b>>, FALSE)
    BY <1>8 DEF EmitFallthrough
  <2> HIDE DEF b
  <2> QED
    BY <1>6, <2>2, <2>3, <2>4
<1>9. CASE EmitExit(e)
  <2> DEFINE b == Body(start, e - 1, PC_HALT)
  <2>1. b \in Mod /\ BodyShape(b) /\ b.kind = "body"
    BY <1>3, <1>4, BodyParts
  <2>2. Exits(b)
    BY <1>2, <1>9, BodyParts DEF Exits, EmitExit
  <2>3. Emit(e, <<b>>, FALSE)
    BY <1>9 DEF EmitExit
  <2> HIDE DEF b
  <2> QED
    BY <1>6, <2>1, <2>2, <2>3
<1>10. CASE EmitJump(e)
  <2> DEFINE b == Body(start, e - 1, PcOf(Target(e - 1)))
  <2>1. b \in Mod /\ BodyShape(b) /\ b.kind = "body"
    BY <1>3, <1>4, BodyParts
  <2>2. Goes(b)
    BY <1>2, <1>10, BodyParts DEF Goes, EmitJump, HasTerm
  <2>3. Emit(e, <<b>>, FALSE)
    BY <1>10 DEF EmitJump
  <2> HIDE DEF b
  <2> QED
    BY <1>6, <2>1, <2>2, <2>3
<1>11. CASE EmitBranch(e)
  <2> DEFINE op == Insn(e - 1).op
             one == [test |-> Entry(op), next |-> IF Swapped(op) THEN PcOf(e) ELSE PcOf(Target(e - 1))]
             two == [test |-> "always", next |-> IF Swapped(op) THEN PcOf(Target(e - 1)) ELSE PcOf(e)]
  <2>1. op \in {"jeq", "jne"} /\ Jumps(e - 1)
    BY <1>11 DEF EmitBranch, Jumps, HasTerm, Jcc
  <2>2. one \in Arm /\ two \in Arm
    BY <1>3, <2>1 DEF Arm, Entry, Outcomes
  <2>3. /\ one.test \in Outcomes /\ two.test = "always"
        /\ (IF one.test = "yes" THEN one.next ELSE two.next) = PcOf(Target(e - 1))
        /\ (IF one.test = "no" THEN one.next ELSE two.next) = PcOf(e)
    BY <2>1 DEF Entry, Swapped, Outcomes
  <2>4. Emit(e, <<Body(start, e - 1, DECIDE_PC(start)),
                  DecideOn(start, e, <<one, two>>)>>, FALSE)
    BY <1>11 DEF EmitBranch
  <2> HIDE DEF one, two
  <2> QED
    BY <1>7, <2>1, <2>2, <2>3, <2>4
<1>12. CASE EmitNoBranch(e)
  BY <1>12 DEF EmitNoBranch, Emit
<1>13. CASE EmitMapArms(e)
  <2> DEFINE one == [test |-> "yes", next |-> PcOf(e)]
             two == [test |-> "always", next |-> PcOf(e)]
  <2>1. one \in Arm /\ two \in Arm
    BY <1>3 DEF Arm, Outcomes
  <2>2. one.test \in Outcomes /\ two.test = "always" /\ one.next = PcOf(e) /\ two.next = PcOf(e)
    BY DEF Outcomes
  <2>3. /\ Insn(e - 1).op \in {"lookup", "update"}
        /\ Emit(e, <<Body(start, e - 1, DECIDE_PC(start)),
                     DecideOn(start, e, <<one, two>>)>>, FALSE)
    BY <1>13 DEF EmitMapArms
  <2> HIDE DEF one, two
  <2> QED
    BY <1>7, <2>1, <2>2, <2>3
<1>14. CASE EmitPlainCall(e)
  <2>1. PICK err \in BOOLEAN :
          /\ ~err => Insn(e - 1).op = "update"
          /\ Emit(e, <<Body(start, e, PcOf(e))>>, err)
    BY <1>14 DEF EmitPlainCall
  <2>2. Insn(e - 1).op = "update"
    BY <2>1 DEF Emit
  <2> DEFINE b == Body(start, e, PcOf(e))
  <2>3. b \in Mod /\ BodyShape(b) /\ b.kind = "body"
    BY <1>3, <1>5, <2>2, BodyParts
  <2>4. Falls(b)
    BY <1>1, BodyParts DEF Falls
  <2>5. Emit(e, <<b>>, err)
    BY <2>1
  <2> HIDE DEF b
  <2> QED
    BY <1>6, <2>3, <2>4, <2>5
<1> QED
  BY <1>8, <1>9, <1>10, <1>11, <1>12, <1>13, <1>14 DEF EmitBlock

(* A shape says nothing about what comes later in the chain.               *)
LEMMA SameShapes ==
  ASSUME insns' = insns, leader' = leader
  PROVE  /\ \A b : /\ BodyShape(b)' <=> BodyShape(b)
                   /\ Falls(b)' <=> Falls(b)
                   /\ Exits(b)' <=> Exits(b)
                   /\ Goes(b)' <=> Goes(b)
                   /\ DecideShape(b)' <=> DecideShape(b)
         /\ \A b, d : Asks(b, d)' <=> Asks(b, d)
<1>1. /\ N' = N /\ \A k : Insn(k)' = Insn(k) /\ Target(k)' = Target(k)
      /\ \A k : Jumps(k)' <=> Jumps(k)
      /\ \A k : Passes(k)' <=> Passes(k)
      /\ \A t : PcOf(t)' = PcOf(t)
  BY SameText DEF Passes, PcOf
<1> QED
  BY <1>1 DEF BodyShape, Straight, Falls, Exits, Goes, Asks, DecideShape, Leads

LEMMA ShapeEmit ==
  ASSUME TypeOK, VerdictInv, ShapeInv, NEW e \in 1 .. N, EmitBlock(e)
  PROVE  ShapeInv'
<1>0. BlockEmitted(e)
  BY EmitEmitted
<1>1. SUFFICES ASSUME ~error', NEW a \in 1 .. Len(mods') PROVE Shape(a)'
  BY <1>0 DEF ShapeInv, BlockEmitted
<1>2. PICK new \in Seq(Mod) : mods' = mods \o new /\ NewShape(new)
  BY <1>1, EmitsShape
<1>3. mods \in Seq(Mod) /\ ~error
  BY <1>0, <1>1 DEF TypeOK, BlockEmitted
<1>4. PICK n \in Nat, k \in Nat : n = Len(mods) /\ k = Len(new)
  BY <1>3, LenProperties
<1>5. /\ Len(mods') = n + k
      /\ \A j \in 1 .. n + k : mods'[j] = IF j <= n THEN mods[j] ELSE new[j - n]
  BY <1>2, <1>3, <1>4, ConcatProperties
<1>6. CASE a <= n
  <2>1. a \in 1 .. n /\ mods'[a] = mods[a] /\ Shape(a)
    BY <1>3, <1>4, <1>5, <1>6 DEF ShapeInv
  <2>2. a < n => mods'[a + 1] = mods[a + 1] /\ a < Len(mods')
    BY <1>5, <2>1
  <2> QED
    BY <1>0, <1>4, <2>1, <2>2, SameShapes DEF Shape, BlockEmitted
<1>7. CASE a > n
  <2>1. a - n \in 1 .. k /\ mods'[a] = new[a - n]
    BY <1>5, <1>7
  <2>2. CASE \E b \in Mod : /\ new = <<b>> /\ b.kind = "body" /\ BodyShape(b)
                            /\ Falls(b) \/ Exits(b) \/ Goes(b)
    <3>1. PICK b \in Mod : /\ new = <<b>> /\ b.kind = "body" /\ BodyShape(b)
                           /\ Falls(b) \/ Exits(b) \/ Goes(b)
      BY <2>2
    <3>2. k = 1 /\ new[1] = b
      BY <1>4, <3>1
    <3>3. mods'[a] = b
      BY <2>1, <3>2
    <3> QED
      BY <1>0, <3>1, <3>3, SameShapes DEF Shape, BlockEmitted
  <2>3. CASE \E b \in Mod, d \in Mod :
               /\ new = <<b, d>> /\ b.kind = "body" /\ BodyShape(b) /\ Asks(b, d)
               /\ d.kind = "decide" /\ DecideShape(d)
    <3>1. PICK b \in Mod, d \in Mod :
               /\ new = <<b, d>> /\ b.kind = "body" /\ BodyShape(b) /\ Asks(b, d)
               /\ d.kind = "decide" /\ DecideShape(d)
      BY <2>3
    <3>2. k = 2 /\ new[1] = b /\ new[2] = d
      BY <1>4, <3>1
    <3>3. CASE a = n + 1
      <4>1. mods'[a] = b /\ a < Len(mods') /\ mods'[a + 1] = d
        <5>1. a - n = 1 /\ a + 1 \in 1 .. n + k /\ ~(a + 1 <= n) /\ (a + 1) - n = 2
          BY <3>2, <3>3
        <5> QED
          BY <1>5, <2>1, <3>2, <5>1
      <4> QED
        BY <1>0, <3>1, <4>1, SameShapes DEF Shape, BlockEmitted
    <3>4. CASE a = n + 2
      <4>1. a - n = 2
        BY <3>4
      <4>2. mods'[a] = d
        BY <2>1, <3>2, <4>1
      <4> QED
        BY <1>0, <3>1, <4>2, SameShapes DEF Shape, BlockEmitted
    <3> QED
      BY <2>1, <3>2, <3>3, <3>4
  <2> QED
    BY <1>2, <2>2, <2>3 DEF NewShape
<1> QED
  BY <1>1, <1>4, <1>5, <1>6, <1>7

LEMMA ShapeStep == TypeOK /\ VerdictInv /\ ShapeInv /\ [Next]_vars => ShapeInv'
<1> SUFFICES ASSUME TypeOK, VerdictInv, ShapeInv, [Next]_vars PROVE ShapeInv'
  OBVIOUS
<1>1. CASE Scan
  <2>1. mods = <<>> /\ mods' = mods
    BY <1>1, ScanScanned DEF Scanned, ShapeInv
  <2>2. Len(mods') = 0
    BY <2>1
  <2> QED
    BY <2>1, <2>2 DEF ShapeInv
<1>2. CASE EmitEnd \/ Run \/ UNCHANGED vars
  <2>1. /\ insns' = insns /\ leader' = leader /\ error' = error /\ mods' = mods
        /\ phase' = "scan" => phase = "scan"
    BY <1>2 DEF EmitEnd, vars, translator, Run, RunPreamble, RunDefault, RunEnter, RunOps,
       RunLeave, RunDecide, RunSink, Running
  <2>2. \A a : Shape(a)' <=> Shape(a)
    BY <2>1, SameShapes DEF Shape
  <2> QED
    BY <2>1, <2>2 DEF ShapeInv
<1> QED
  BY <1>1, <1>2, ShapeEmit DEF Next

-----------------------------------------------------------------------------
(* The run.                                                                *)

(* What holds once the translation was accepted.                           *)
Accepted ==
  /\ N \in Nat \ {0}
  /\ Len(mods) \in Nat /\ m \in Nat
  /\ \A a \in 1 .. Len(mods) : Shape(a)
  /\ \A k \in 0 .. N - 1 : Lowered(k)
  /\ \A k \in 0 .. N - 1 : Jumps(k) => Target(k) \in k + 1 .. N

LEMMA RunAccepted ==
  TypeOK /\ ForwardInv /\ VerdictInv /\ ShapeInv /\ phase \in {"run", "done"} => Accepted
<1> SUFFICES ASSUME TypeOK, ForwardInv, VerdictInv, ShapeInv, phase \in {"run", "done"}
             PROVE  Accepted
  OBVIOUS
<1>1. N \in Nat \ {0} /\ Len(mods) \in Nat /\ m \in Nat
  BY ProgramFacts, LenProperties DEF TypeOK
<1>2. start = N /\ ~error
  BY DEF ForwardInv, RunForward
<1> QED
  BY <1>1, <1>2 DEF Accepted, ShapeInv, VerdictInv, ForwardInv, JumpsCut

(* A body guards an odd pc and a decision an even one, so the instruction  *)
(* about to run can be told from where the run is.                         *)
LEMMA AtBar ==
  Accepted /\ phase \in {"run", "done"} =>
    /\ m = 0 /\ ip = Idle => atBar = 0
    /\ Inside => atBar = ip
    /\ m # 0 /\ Deciding => atBar = Here.last
    /\ m # 0 /\ Between /\ pc = PC_HALT => atBar = N
    /\ \A l \in 0 .. N - 1 : m # 0 /\ Between /\ pc = BLOCK_PC(l) => atBar = l
<1> SUFFICES ASSUME Accepted, phase \in {"run", "done"}
             PROVE  /\ m = 0 /\ ip = Idle => atBar = 0
                    /\ Inside => atBar = ip
                    /\ m # 0 /\ Deciding => atBar = Here.last
                    /\ m # 0 /\ Between /\ pc = PC_HALT => atBar = N
                    /\ \A l \in 0 .. N - 1 : m # 0 /\ Between /\ pc = BLOCK_PC(l) => atBar = l
  OBVIOUS
<1>1. m = 0 /\ ip = Idle => atBar = 0
  BY DEF atBar
<1>2. Inside => atBar = ip
  BY DEF atBar, Inside
<1>3. ASSUME m # 0, Deciding PROVE atBar = Here.last
  <2>1. Shape(m) /\ Here.kind = "decide"
    BY <1>3 DEF Accepted, Deciding
  <2>2. DecideShape(Here)
    BY <2>1 DEF Shape, Here
  <2>3. pc # PC_HALT
    BY <1>3, <2>2 DEF DecideShape, Deciding, Accepted
  <2>4. m \in DOMAIN mods
    BY <1>3 DEF Deciding
  <2> QED
    BY <1>3, <2>3, <2>4 DEF atBar, Deciding, Here
<1>4. m # 0 /\ Between /\ pc = PC_HALT => atBar = N
  BY DEF atBar, Between
<1>5. ASSUME NEW l \in 0 .. N - 1, m # 0, Between, pc = BLOCK_PC(l)
      PROVE  atBar = l
  <2>1. l \in Nat /\ pc # PC_HALT /\ pc \div 2 = l
    BY <1>5 DEF Accepted
  <2>2. ~(m \in DOMAIN mods /\ pc = mods[m].pc /\ mods[m].kind = "decide")
    <3>1. SUFFICES ASSUME m \in 1 .. Len(mods), pc = mods[m].pc, mods[m].kind = "decide"
                   PROVE  FALSE
      OBVIOUS
    <3>2. DecideShape(mods[m])
      BY <3>1 DEF Accepted, Shape
    <3>3. PICK f \in Int : pc = 2 * f + 2
      BY <3>1, <3>2 DEF DecideShape, Accepted
    <3>4. pc = 2 * l + 1
      BY <1>5
    <3> QED
      BY <2>1, <3>3, <3>4
  <2> QED
    BY <1>5, <2>1, <2>2 DEF atBar, Between
<1> QED
  BY <1>1, <1>2, <1>3, <1>4, <1>5

Stays == insns' = insns /\ atBar' = atBar /\ cond' = cond
Moves == RunInv' /\ (Machine!Next \/ Stays)

(* A step of the run changes neither the program nor the chain.            *)
LEMMA RunFrame ==
  ASSUME TypeOK, Run, Accepted
  PROVE  /\ phase = "run" /\ phase' \in {"run", "done"}
         /\ insns' = insns /\ mods' = mods /\ leader' = leader /\ N' = N
         /\ \A k : Insn(k)' = Insn(k) /\ Target(k)' = Target(k)
         /\ \A t : PcOf(t)' = PcOf(t)
         /\ m' \in {m, m + 1} /\ Accepted'
<1>1. /\ phase = "run" /\ phase' \in {"run", "done"}
      /\ insns' = insns /\ mods' = mods /\ leader' = leader
      /\ m' \in {m, m + 1}
  BY DEF Run, RunPreamble, RunDefault, RunEnter, RunOps, RunLeave, RunDecide, RunSink,
     Running, translator, chain
<1>2. /\ N' = N /\ \A k : Insn(k)' = Insn(k) /\ Target(k)' = Target(k)
      /\ \A k : Jumps(k)' <=> Jumps(k)
      /\ \A t : PcOf(t)' = PcOf(t)
  BY <1>1, SameText DEF PcOf
<1>3. /\ \A a : Shape(a)' <=> Shape(a)
      /\ \A k : Lowered(k)' <=> Lowered(k)
  BY <1>1, <1>2, SameShapes DEF Shape, Lowered
<1>4. Accepted'
  BY <1>1, <1>2, <1>3 DEF Accepted
<1> QED
  BY <1>1, <1>2, <1>4

(* Going to an instruction of the program, or to its end.                  *)
LEMMA Arrives ==
  ASSUME TypeOK, Run, Accepted, NEW t \in 0 .. N,
         m' # 0, ip' = Idle, cond' = "none", pc' = PcOf(t)
  PROVE  RunInv' /\ atBar' = t
<1>1. N \in Nat \ {0} /\ N' = N /\ Accepted' /\ phase' \in {"run", "done"}
  BY RunFrame DEF Accepted
<1>2. \/ pc' = PC_HALT /\ t = N
      \/ pc' = BLOCK_PC(t) /\ t \in 0 .. N - 1
  BY <1>1 DEF PcOf
<1>3. Between'
  BY <1>1, <1>2 DEF Between
<1>4. RunInv'
  BY <1>1, <1>3 DEF RunInv
<1>5. /\ m' # 0 /\ Between' /\ pc' = PC_HALT => atBar' = N'
      /\ \A l \in 0 .. N' - 1 : m' # 0 /\ Between' /\ pc' = BLOCK_PC(l) => atBar' = l
  <2>1. (Accepted /\ phase \in {"run", "done"} =>
          /\ m # 0 /\ Between /\ pc = PC_HALT => atBar = N
          /\ \A l \in 0 .. N - 1 : m # 0 /\ Between /\ pc = BLOCK_PC(l) => atBar = l)'
    BY AtBar, PTL
  <2> QED
    BY <1>1, <2>1
<1> QED
  BY <1>1, <1>2, <1>3, <1>4, <1>5

LEMMA StaysInside ==
  ASSUME TypeOK, Run, Accepted, Inside'
  PROVE  RunInv' /\ atBar' = ip'
<1>1. Accepted' /\ phase' \in {"run", "done"}
  BY RunFrame
<1>2. (Accepted /\ phase \in {"run", "done"} => (Inside => atBar = ip))'
  BY AtBar, PTL
<1>3. m' # 0
  BY DEF Inside
<1> QED
  BY <1>1, <1>2, <1>3 DEF RunInv

(* Between two transformers the run is at the start of a block, or ended.  *)
LEMMA BetweenAt ==
  ASSUME Accepted, phase \in {"run", "done"}, m # 0, Between
  PROVE  \E t \in 0 .. N : atBar = t /\ pc = PcOf(t)
<1>1. N \in Nat
  BY DEF Accepted
<1>2. CASE pc = PC_HALT
  BY <1>1, <1>2, AtBar DEF PcOf
<1>3. CASE \E l \in 0 .. N - 1 : pc = BLOCK_PC(l)
  <2>1. PICK l \in 0 .. N - 1 : pc = BLOCK_PC(l)
    BY <1>3
  <2>2. l \in 0 .. N /\ pc = PcOf(l) /\ atBar = l
    BY <1>1, <2>1, AtBar DEF PcOf
  <2> QED
    BY <2>2
<1> QED
  BY <1>2, <1>3 DEF Between

LEMMA MovesPreamble ==
  ASSUME TypeOK, RunInv, Accepted, RunPreamble
  PROVE  Moves
<1>1. Run
  BY DEF Run
<1>2. N \in Nat \ {0} /\ atBar = 0 /\ cond = "none" /\ ip = Idle /\ insns' = insns
  BY <1>1, AtBar, RunFrame DEF RunInv, RunPreamble, Accepted
<1>3. 0 \in 0 .. N /\ pc' = PcOf(0) /\ m' # 0 /\ ip' = Idle /\ cond' = "none"
  BY <1>2 DEF RunPreamble, PcOf
<1>4. RunInv' /\ atBar' = 0
  BY <1>1, <1>3, Arrives
<1> QED
  BY <1>2, <1>3, <1>4 DEF Moves, Stays

LEMMA MovesDefault ==
  ASSUME TypeOK, RunInv, Accepted, RunDefault \/ RunSink
  PROVE  Moves
<1>1. Run /\ insns' = insns /\ phase = "run"
  BY RunFrame DEF Run
<1>2. Between /\ m # 0 /\ pc' = pc /\ ip' = ip /\ cond' = cond /\ m' # 0
  BY DEF RunDefault, RunSink, Running, RunInv, Inside, Deciding, Accepted, chain
<1>3. PICK t \in 0 .. N : atBar = t /\ pc = PcOf(t)
  BY <1>1, <1>2, BetweenAt
<1>4. ip' = Idle /\ cond' = "none"
  BY <1>2 DEF Between
<1>5. RunInv' /\ atBar' = t
  BY <1>1, <1>2, <1>3, <1>4, Arrives
<1> QED
  BY <1>1, <1>2, <1>3, <1>5 DEF Moves, Stays

LEMMA MovesEnter ==
  ASSUME TypeOK, RunInv, Accepted, RunEnter
  PROVE  Moves
<1>1. /\ Run /\ insns' = insns /\ mods' = mods /\ phase = "run"
      /\ \A k : Insn(k)' = Insn(k)
  BY RunFrame DEF Run
<1>2. m \in 1 .. Len(mods) /\ m # 0 /\ Here.kind = "body" /\ Here.pc = pc /\ Between
  BY DEF RunEnter, Running, RunInv, Inside, Deciding
<1>3. BodyShape(Here)
  BY <1>2 DEF Accepted, Shape, Here
<1>4. Here.first \in 0 .. N - 1 /\ Here.last \in Here.first .. N /\ pc = BLOCK_PC(Here.first)
  BY <1>2, <1>3 DEF BodyShape
<1>5. atBar = Here.first
  BY <1>1, <1>2, <1>4, AtBar
<1>6. Here' = Here /\ m' = m /\ pc' = pc /\ ip' = Here.first /\ cond' = cond
  BY <1>1 DEF RunEnter, Here
<1>7. Here.first # Idle /\ Here.first \in Here.first .. Here.last
  BY <1>4
<1>8. Here.first < Here.last => Insn(Here.first).op # "hi"
  BY <1>3 DEF BodyShape, Straight
<1>9. Inside'
  BY <1>1, <1>2, <1>6, <1>7, <1>8 DEF Inside, Between
<1>10. RunInv' /\ atBar' = Here.first
  BY <1>1, <1>6, <1>9, StaysInside
<1> QED
  BY <1>1, <1>5, <1>6, <1>10 DEF Moves, Stays

(* The body the run is in.                                                 *)
LEMMA InsideBody ==
  ASSUME Accepted, Inside
  PROVE  /\ N \in Nat \ {0}
         /\ BodyShape(Here) /\ Here.first \in 0 .. N - 1 /\ Here.last \in Here.first .. N
         /\ ip \in Here.first .. Here.last
         /\ Here.kind = "body"
         /\ \/ Falls(Here) \/ Exits(Here) \/ Goes(Here)
            \/ m < Len(mods) /\ Asks(Here, mods[m + 1])
<1>1. Shape(m) /\ Here.kind = "body"
  BY DEF Accepted, Inside
<1> QED
  BY <1>1 DEF Shape, Here, BodyShape, Inside, Accepted

(* No body ends on an upper half: the block would start on one.            *)
LEMMA EndsWhole ==
  ASSUME TypeOK, Accepted, Inside, Here.last < N
  PROVE  Insn(Here.last).op # "hi"
<1>1. Here.last \in 0 .. N - 1
  BY InsideBody
<1>2. Falls(Here) => Here.last \in leader
  BY <1>1 DEF Falls
<1>3. Here.last \in leader => Insn(Here.last).op # "hi"
  BY <1>1 DEF Accepted, Lowered
<1> QED
  BY <1>2, <1>3, InsideBody DEF Exits, Goes, Asks

LEMMA MovesOps ==
  ASSUME TypeOK, RunInv, Accepted, RunOps
  PROVE  Moves
<1>1. /\ Run /\ insns' = insns /\ mods' = mods /\ phase = "run"
      /\ \A k : Insn(k)' = Insn(k)
  BY RunFrame DEF Run
<1>2. Inside /\ ip < Here.last
  BY DEF RunOps, Running, RunInv, Deciding, Between
<1>3. /\ N \in Nat \ {0} /\ BodyShape(Here)
      /\ Here.first \in 0 .. N - 1 /\ Here.last \in Here.first .. N
      /\ ip \in Here.first .. Here.last - 1 /\ ip \in 0 .. N - 1
      /\ Insn(ip).op # "hi" /\ cond = "none"
  BY <1>2, InsideBody DEF Inside
<1>4. atBar = ip
  BY <1>1, <1>2, AtBar
<1>5. Here' = Here /\ m' = m /\ pc' = pc /\ cond' = cond
      /\ ip' = ip + (IF Insn(ip).op = "imm64" THEN 2 ELSE 1)
  BY <1>1 DEF RunOps, Here
<1>6. \/ Insn(ip).op \in {"op", "imm64"} \/ IsNopJump(Insn(ip))
      \/ Insn(ip).op = "update"
  BY <1>3 DEF BodyShape, Straight, Passes
<1>7. CASE Insn(ip).op = "imm64"
  <2>1. ip + 1 < N
    BY <1>3, <1>7 DEF Accepted, Lowered
  <2>2. Insn(ip + 1).op = "hi"
    <3>1. ip + 1 \in 0 .. N - 1 /\ ip + 1 > 0 /\ (ip + 1) - 1 = ip
      BY <1>3, <2>1
    <3> QED
      BY <1>7, <3>1, Halves
  <2>3. ip + 1 # Here.last
    BY <1>2, <2>1, <2>2, EndsWhole
  <2>4. ip + 2 \in Here.first .. Here.last
    BY <1>3, <2>3
  <2>5. ip + 2 < Here.last => Insn(ip + 2).op # "hi"
    <3>1. SUFFICES ASSUME ip + 2 < Here.last PROVE Insn(ip + 2).op # "hi"
      OBVIOUS
    <3>2. ip + 2 \in 0 .. N - 1 /\ (ip + 2) - 1 = ip + 1
      BY <1>3, <3>1
    <3>3. Insn(ip + 2).op = "hi" => Insn((ip + 2) - 1).op = "imm64"
      BY <3>2, Halves
    <3> QED
      BY <2>2, <3>2, <3>3
  <2>6. ip' = ip + 2 /\ ip' # Idle
    BY <1>3, <1>5, <1>7
  <2>7. Inside'
    BY <1>1, <1>2, <1>5, <2>4, <2>5, <2>6 DEF Inside
  <2>8. RunInv' /\ atBar' = atBar + 2
    BY <1>1, <1>4, <2>6, <2>7, StaysInside
  <2>9. Machine!WideImmediate
    BY <1>4, <1>5, <1>7, <2>8 DEF Machine!WideImmediate, Machine!Insn, Insn
  <2> QED
    BY <1>1, <1>3, <1>4, <2>8, <2>9 DEF Moves, Machine!Next, Machine!Step, N
<1>8. CASE Insn(ip).op # "imm64"
  <2>1. ip + 1 \in Here.first .. Here.last
    BY <1>3
  <2>2. ip + 1 < Here.last => Insn(ip + 1).op # "hi"
    <3>1. SUFFICES ASSUME ip + 1 < Here.last PROVE Insn(ip + 1).op # "hi"
      OBVIOUS
    <3>2. ip + 1 \in 0 .. N - 1 /\ (ip + 1) - 1 = ip
      BY <1>3, <3>1
    <3>3. Insn(ip + 1).op = "hi" => Insn((ip + 1) - 1).op = "imm64"
      BY <3>2, Halves
    <3> QED
      BY <1>8, <3>2, <3>3
  <2>3. ip' = ip + 1 /\ ip' # Idle
    BY <1>3, <1>5, <1>8
  <2>4. Inside'
    BY <1>1, <1>2, <1>5, <2>1, <2>2, <2>3 DEF Inside
  <2>5. RunInv' /\ atBar' = atBar + 1
    BY <1>1, <1>4, <2>3, <2>4, StaysInside
  <2>6. Machine!Straight \/ Machine!JumpAlways \/ Machine!Call
    <3>1. CASE Insn(ip).op = "op"
      BY <1>4, <1>5, <2>5, <3>1 DEF Machine!Straight, Machine!Insn, Insn
    <3>2. CASE IsNopJump(Insn(ip))
      <4>1. Insn(ip).op = "ja" /\ Insn(ip).off = 0 /\ atBar + 1 + 0 = atBar + 1
        BY <1>3, <1>4, <3>2 DEF IsNopJump
      <4> QED
        BY <1>4, <1>5, <2>5, <4>1 DEF Machine!JumpAlways, Machine!Insn, Insn
    <3>3. CASE Insn(ip).op = "update"
      BY <1>3, <1>4, <1>5, <2>5, <3>3 DEF Machine!Call, Machine!Calls, Machine!Insn, Insn
    <3> QED
      BY <1>6, <1>8, <3>1, <3>2, <3>3
  <2> QED
    BY <1>1, <1>3, <1>4, <2>5, <2>6 DEF Moves, Machine!Next, Machine!Step, N
<1> QED
  BY <1>7, <1>8

LEMMA MovesLeave ==
  ASSUME TypeOK, RunInv, Accepted, RunLeave
  PROVE  Moves
<1>1. /\ Run /\ insns' = insns /\ mods' = mods /\ phase = "run" /\ m' = m + 1 /\ ip' = Idle
      /\ m' # 0
  BY RunFrame DEF Run, RunLeave, Accepted
<1>2. Inside /\ ip >= Here.last
  BY DEF RunLeave, Running, RunInv, Deciding, Between
<1>3. /\ N \in Nat \ {0} /\ BodyShape(Here)
      /\ Here.first \in 0 .. N - 1 /\ Here.last \in Here.first .. N
      /\ ip = Here.last /\ cond = "none" /\ atBar = Here.last
  BY <1>1, <1>2, InsideBody, AtBar DEF Inside
<1>4. /\ pc' = Here.arms[1].next
      /\ pc' # DECIDE_PC(Here.first) => cond' = "none"
      /\ pc' = DECIDE_PC(Here.first) => cond' \in Outcomes
  BY DEF RunLeave
<1>5. \A t \in 0 .. N : PcOf(t) # DECIDE_PC(Here.first)
  BY <1>3 DEF PcOf
<1>6. CASE Falls(Here)
  <2>1. Here.last \in 0 .. N /\ pc' = PcOf(Here.last) /\ cond' = "none"
    BY <1>3, <1>4, <1>5, <1>6 DEF Falls
  <2>2. RunInv' /\ atBar' = Here.last
    BY <1>1, <2>1, Arrives
  <2> QED
    BY <1>1, <1>3, <2>1, <2>2 DEF Moves, Stays
<1>7. CASE Exits(Here)
  <2>1. N \in 0 .. N /\ PcOf(N) = PC_HALT
    BY <1>3 DEF PcOf
  <2>2. pc' = PcOf(N) /\ cond' = "none" /\ Here.last \in 0 .. N - 1 /\ Insn(Here.last).op = "exit"
    BY <1>3, <1>4, <1>5, <1>7, <2>1 DEF Exits
  <2>3. RunInv' /\ atBar' = N
    BY <1>1, <2>1, <2>2, Arrives
  <2>4. Machine!Exit
    BY <1>3, <2>2, <2>3 DEF Machine!Exit, Machine!Insn, Insn, N
  <2> QED
    BY <1>1, <1>3, <2>2, <2>3, <2>4 DEF Moves, Machine!Next, Machine!Step, N
<1>8. CASE Goes(Here)
  <2>1. Here.last \in 0 .. N - 1 /\ Jumps(Here.last) /\ Insn(Here.last).op = "ja"
    BY <1>3, <1>8 DEF Goes, Jumps
  <2>2. Target(Here.last) \in 0 .. N
    BY <1>3, <2>1 DEF Accepted
  <2>3. pc' = PcOf(Target(Here.last)) /\ cond' = "none"
    BY <1>4, <1>5, <1>8, <2>2 DEF Goes
  <2>4. RunInv' /\ atBar' = Target(Here.last)
    BY <1>1, <2>2, <2>3, Arrives
  <2>5. Machine!JumpAlways
    BY <1>3, <2>1, <2>3, <2>4 DEF Machine!JumpAlways, Machine!Insn, Insn, Target
  <2> QED
    BY <1>1, <1>3, <2>1, <2>4, <2>5 DEF Moves, Machine!Next, Machine!Step, N
<1>9. CASE m < Len(mods) /\ Asks(Here, mods[m + 1])
  <2>1. /\ m + 1 \in 1 .. Len(mods) /\ cond' \in Outcomes
        /\ Here.last \in 0 .. N - 1
        /\ Insn(Here.last).op \in {"jeq", "jne", "lookup", "update"}
    BY <1>3, <1>4, <1>9 DEF Asks, Accepted
  <2>2. Here' = mods[m + 1]
    BY <1>1 DEF Here
  <2>3. Here'.kind = "decide" /\ Here'.pc = pc' /\ Here'.last = Here.last
    BY <1>4, <1>9, <2>2 DEF Asks
  <2>4. Deciding'
    BY <1>1, <2>1, <2>3 DEF Deciding
  <2>5. RunInv'
    BY <1>1, <2>4, RunFrame DEF RunInv
  <2>6. atBar' = Here'.last
    <3>1. (Accepted /\ phase \in {"run", "done"} => (m # 0 /\ Deciding => atBar = Here.last))'
      BY AtBar, PTL
    <3>2. Accepted' /\ phase' \in {"run", "done"}
      BY <1>1, RunFrame
    <3> QED
      BY <1>1, <2>4, <3>1, <3>2
  <2>7. Machine!Decide
    BY <1>3, <2>1, <2>3, <2>6 DEF Machine!Decide, Machine!Jcc, Machine!Calls, Machine!Outcomes, Machine!Insn, Insn, Outcomes
  <2> QED
    BY <1>1, <1>3, <2>1, <2>5, <2>7 DEF Moves, Machine!Next, Machine!Step, N
<1> QED
  BY <1>2, <1>6, <1>7, <1>8, <1>9, InsideBody

LEMMA MovesDecide ==
  ASSUME TypeOK, RunInv, Accepted, RunDecide
  PROVE  Moves
<1>1. /\ Run /\ insns' = insns /\ phase = "run" /\ m' = m + 1 /\ m' # 0 /\ ip' = Idle
      /\ cond' = "none" /\ m \in 1 .. Len(mods) /\ m # 0 /\ N \in Nat \ {0}
  BY RunFrame DEF Run, RunDecide, Running, Accepted
<1>2. DecideShape(Here) /\ Here.pc = pc
  BY <1>1 DEF RunDecide, Accepted, Shape, Here
<1>3. Deciding
  <2>1. ~Inside
    BY DEF RunDecide, Inside
  <2>2. ~Between
    <3>1. SUFFICES ASSUME Between PROVE FALSE
      OBVIOUS
    <3>2. PICK f \in 0 .. N - 1 : pc = 2 * f + 2
      BY <1>2 DEF DecideShape
    <3>3. pc = 0 \/ \E l \in 0 .. N - 1 : pc = 2 * l + 1
      BY <3>1 DEF Between
    <3> QED
      BY <1>1, <3>2, <3>3
  <2> QED
    BY <1>1, <2>1, <2>2 DEF RunInv
<1>4. atBar = Here.last /\ Here.last \in 0 .. N - 1 /\ cond \in Outcomes
  BY <1>1, <1>2, <1>3, AtBar DEF Deciding, DecideShape
<1>5. pc' = Leads(Here, cond)
  <2>1. /\ Len(Here.arms) = 2 /\ Here.arms[1].test \in Outcomes
        /\ Here.arms[2].test = "always"
    BY <1>2 DEF DecideShape
  <2>2. PICK a \in 1 .. 2 : /\ Holds(Here.arms[a]) /\ pc' = Here.arms[a].next
                          /\ \A b \in 1 .. a - 1 : ~Holds(Here.arms[b])
    BY <2>1 DEF RunDecide
  <2>3. Holds(Here.arms[1]) <=> Here.arms[1].test = cond
    BY <2>1 DEF Holds, Outcomes
  <2>4. CASE a = 1
    BY <2>2, <2>3, <2>4 DEF Leads
  <2>5. CASE a = 2
    BY <2>2, <2>3, <2>5 DEF Leads
  <2> QED
    BY <2>4, <2>5
<1>6. CASE Insn(Here.last).op \in {"lookup", "update"}
  <2>1. Here.last + 1 \in 0 .. N /\ pc' = PcOf(Here.last + 1)
    BY <1>1, <1>2, <1>4, <1>5, <1>6 DEF DecideShape
  <2>2. RunInv' /\ atBar' = Here.last + 1
    BY <1>1, <2>1, Arrives
  <2>3. Machine!Call
    BY <1>1, <1>4, <1>6, <2>2 DEF Machine!Call, Machine!Calls, Machine!Insn, Insn
  <2> QED
    BY <1>1, <1>4, <2>2, <2>3 DEF Moves, Machine!Next, Machine!Step, N
<1>7. CASE Insn(Here.last).op \in {"jeq", "jne"}
  <2>1. /\ Jumps(Here.last)
        /\ pc' = PcOf(IF cond = "yes" THEN Target(Here.last) ELSE Here.last + 1)
    BY <1>2, <1>4, <1>5, <1>7 DEF DecideShape, Outcomes
  <2>2. Target(Here.last) \in 0 .. N /\ Here.last + 1 \in 0 .. N
    BY <1>1, <1>4, <2>1 DEF Accepted
  <2>3. PICK t \in 0 .. N : t = IF cond = "yes" THEN Target(Here.last) ELSE Here.last + 1
    BY <2>2
  <2>4. RunInv' /\ atBar' = t
    BY <1>1, <2>1, <2>3, Arrives
  <2>5. Machine!Branch
    BY <1>1, <1>4, <1>7, <2>3, <2>4
       DEF Machine!Branch, Machine!Jcc, Machine!Insn, Insn, Target, Outcomes
  <2> QED
    BY <1>1, <1>4, <2>4, <2>5 DEF Moves, Machine!Next, Machine!Step, N
<1> QED
  BY <1>2, <1>6, <1>7 DEF DecideShape

(* Until the run starts, and in a step that changes nothing, the program   *)
(* stands still.                                                           *)
LEMMA BeforeRun ==
  ASSUME TypeOK, ForwardInv, RunInv, Scan \/ EmitEnd \/ \E e \in 1 .. N : EmitBlock(e)
  PROVE  RunInv' /\ Stays
<1>1. /\ phase \in {"scan", "emit"} /\ phase' \in {"scan", "emit", "run", "refused"}
      /\ insns' = insns /\ m' = m /\ ip' = ip /\ cond' = cond
  BY DEF Scan, ScanWide, ScanStraight, ScanBlockEnd, ScanJump, ScanEnd, Scanning,
     EmitEnd, EmitBlock, EmitFallthrough, EmitExit, EmitJump, EmitBranch,
     EmitNoBranch, EmitMapArms, EmitPlainCall, Emit, translator, chain
<1>2. m = 0 /\ ip = Idle /\ cond = "none"
  BY <1>1 DEF RunInv
<1>3. atBar = 0 /\ atBar' = 0
  BY <1>1, <1>2 DEF atBar
<1> QED
  BY <1>1, <1>2, <1>3 DEF RunInv, Stays

LEMMA NothingMoves ==
  ASSUME RunInv, UNCHANGED vars
  PROVE  RunInv' /\ Stays
<1>1. /\ insns' = insns /\ phase' = phase /\ mods' = mods
      /\ m' = m /\ ip' = ip /\ pc' = pc /\ cond' = cond
  BY DEF vars, translator, chain
<1>2. N' = N /\ Here' = Here /\ \A k : Insn(k)' = Insn(k)
  BY <1>1 DEF N, Here, Insn
<1> QED
  BY <1>1, <1>2 DEF RunInv, Inside, Deciding, Between, Stays, atBar

LEMMA ChainInit == Init => ChainInv /\ Machine!Init
<1> SUFFICES ASSUME Init PROVE ChainInv /\ Machine!Init
  OBVIOUS
<1>1. mods = <<>> /\ Len(mods) = 0 /\ m = 0 /\ ip = Idle /\ cond = "none"
  BY DEF Init
<1>2. ShapeInv /\ RunInv
  BY <1>1 DEF ShapeInv, RunInv
<1>3. atBar = 0
  BY <1>1 DEF atBar
<1> QED
  BY <1>1, <1>2, <1>3 DEF ChainInv, Init, Machine!Init

(* Every step keeps the invariant, and moves the program as Bytecode does  *)
(* or not at all.                                                          *)
LEMMA ChainStep ==
  TypeOK /\ ForwardInv /\ VerdictInv /\ ChainInv /\ [Next]_vars
    => ChainInv' /\ [Machine!Next]_(Machine!bytecodeVars)
<1> SUFFICES ASSUME TypeOK, ForwardInv, VerdictInv, ChainInv, [Next]_vars
             PROVE  ChainInv' /\ [Machine!Next]_(Machine!bytecodeVars)
  OBVIOUS
<1>1. ShapeInv'
  BY ShapeStep DEF ChainInv
<1>2. ASSUME Run PROVE Moves
  <2>1. phase = "run"
    BY <1>2 DEF Run, RunPreamble, RunDefault, RunEnter, RunOps, RunLeave, RunDecide,
       RunSink, Running
  <2>2. Accepted
    BY <2>1, RunAccepted DEF ChainInv
  <2> QED
    BY <1>2, <2>2, MovesPreamble, MovesDefault, MovesEnter, MovesOps, MovesLeave,
       MovesDecide DEF ChainInv, Run
<1>3. Moves
  BY <1>2, BeforeRun, NothingMoves DEF Next, ChainInv, Moves
<1> QED
  BY <1>1, <1>3 DEF ChainInv, Moves, Stays, Machine!bytecodeVars

(* The chain of transformers runs the section: whatever the program, the   *)
(* translation followed by a run of its output takes the program's         *)
(* instructions in the order the bytecode machine does, and takes at each  *)
(* jump the arm the bytecode machine takes.                                *)
THEOREM Refinement == Spec => Implements
<1>1. Init => TypeOK /\ ForwardInv /\ VerdictInv /\ ChainInv /\ Machine!Init
  BY InitTypeOK, InitForward, VerdictInit, ChainInit
<1>2. TypeOK /\ ForwardInv /\ VerdictInv /\ ChainInv /\ [Next]_vars
        => /\ (TypeOK /\ ForwardInv /\ VerdictInv /\ ChainInv)'
           /\ [Machine!Next]_(Machine!bytecodeVars)
  BY NextTypeOK, NextForward, VerdictStep, ChainStep
<1> QED
  BY <1>1, <1>2, PTL DEF Spec, Implements, Machine!Spec
=============================================================================
