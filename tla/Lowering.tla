------------------------------ MODULE Lowering ------------------------------
(***************************************************************************)
(* The control flow of the translator, and of the program it emits.        *)
(*                                                                         *)
(* One behaviour is one translation followed by one run of its output:     *)
(*                                                                         *)
(*   scan    find_leaders walks the instructions and splits them into      *)
(*           basic blocks;                                                 *)
(*   emit    translate_program turns each block into one transformer, or   *)
(*           into two when the block ends in a decision;                   *)
(*   run     the chain runs once, from the preamble to the last            *)
(*           transformer, steered by the program-counter header;           *)
(*   done    the deparser is reached;                                      *)
(*   refused the translation reported an error and is not used.            *)
(*                                                                         *)
(* Registers, memory and the abstract state of registers are left to the   *)
(* module Provenance.  Where they decide what is emitted (can this map     *)
(* call be translated, does this update branch) the choice is free.        *)
(***************************************************************************)
EXTENDS Section

VARIABLES
  insns,    \* the instructions of the section
  phase,
  i,        \* find_leaders' cursor
  leader,   \* the instructions that start a block; may hold Len(insns)
  error,    \* had_error
  start,    \* the leader of the next block to emit, Len(insns) at the end
  mods,     \* the transformers emitted so far, in chain order
  m,        \* the transformer the run is at; 0 is the preamble
  ip,       \* the instruction whose ops run next, Idle between transformers
  pc,       \* the program-counter header H_PC
  cond      \* what the scratch headers of the last decision say

translator == <<i, leader, error, start, mods>>
chain      == <<m, ip, pc, cond>>
vars       == <<insns, phase, translator, chain>>

N       == Len(insns)
Insn(k) == insns[k + 1]
Idle    == -1

PC_HALT      == 0
BLOCK_PC(l)  == 2 * l + 1
DECIDE_PC_Overlapping(l) == 2 * l + 3                            \* mutant
DECIDE_PC(l) == 2 * l + 2

(* A transformer.  Its one rule (body) or its rules (decide) are guarded   *)
(* on pc; a body runs the ops of instructions first .. last - 1; arms are  *)
(* the rules' remaining test and the pc they leave, in first-match order.  *)
Body(s, e, next) ==
  [kind |-> "body", pc |-> BLOCK_PC(s), first |-> s, last |-> e,
   arms |-> <<[test |-> "always", next |-> next]>>]
DecideOn(s, e, arms) ==
  [kind |-> "decide", pc |-> DECIDE_PC(s), first |-> s, last |-> e - 1,
   arms |-> arms]

-----------------------------------------------------------------------------
Init ==
  /\ insns \in Programs
  /\ phase = "scan"
  /\ i = 0
  /\ leader = {0}
  /\ error = FALSE
  /\ start = 0
  /\ mods = <<>>
  /\ m = 0 /\ ip = Idle /\ pc = PC_HALT /\ cond = "none"

(* ------------------------------ find_leaders --------------------------- *)
Scanning == phase = "scan" /\ i < N

(* The end of a jump starts a block, if there is anything behind it.       *)
AfterJump == leader \cup {k \in {i + 1} : k < N}

ScanWide ==
  /\ Scanning
  /\ Insn(i).op = "imm64"
  /\ i' = i + 2
  /\ UNCHANGED <<insns, phase, leader, error, start, mods, chain>>

ScanStraight ==
  /\ Scanning
  /\ Insn(i).op # "imm64"
  /\ ~IsJmp(Insn(i)) \/ IsNopJump(Insn(i))
  /\ i' = i + 1
  /\ UNCHANGED <<insns, phase, leader, error, start, mods, chain>>

ScanBlockEnd ==
  /\ Scanning
  /\ Insn(i).op \in Calls \cup {"exit"}
  /\ leader' = AfterJump
  /\ i' = i + 1
  /\ UNCHANGED <<insns, phase, error, start, mods, chain>>

Target(k)        == k + 1 + Insn(k).off
Backward_Self(k) == Target(k) < k                                \* mutant
Backward(k)      == Target(k) <= k

(* A jump out of range is an error and makes no block; a jump backward is  *)
(* an error and does.                                                      *)
ScanJump ==
  /\ Scanning
  /\ Insn(i).op \in Jcc \cup {"ja"}
  /\ ~IsNopJump(Insn(i))
  /\ leader' = AfterJump \cup ({Target(i)} \cap 0 .. N)
  /\ error' = (error \/ Target(i) \notin 0 .. N \/ Backward(i))
  /\ i' = i + 1
  /\ UNCHANGED <<insns, phase, start, mods, chain>>

ScanEnd ==
  /\ phase = "scan" /\ i >= N
  /\ phase' = "emit"
  /\ UNCHANGED <<insns, translator, chain>>

(* --------------------------- translate_program ------------------------- *)
(* The block starting at start ends at e.                                  *)
EndsAt_NoLast(e) ==                                              \* mutant
  /\ e \in start + 1 .. N
  /\ e \in leader
  /\ \A k \in start + 1 .. e - 1 : k \notin leader
EndsAt(e) ==
  /\ e \in start + 1 .. N
  /\ e = N \/ e \in leader
  /\ \A k \in start + 1 .. e - 1 : k \notin leader

HasTerm(e) == IsJmp(Insn(e - 1)) /\ ~IsNopJump(Insn(e - 1))

(* What translate_one reports between start and e: an instruction it does  *)
(* not translate, a block starting on the upper half of an LD_IMM64, an    *)
(* LD_IMM64 without an upper half.                                         *)
BodyError_NoTail(e) ==                                           \* mutant
  \E k \in start .. e - 1 :
    \/ Insn(k).op = "bad"
    \/ Insn(k).op = "hi" /\ k = start
BodyError(e) ==
  \E k \in start .. e - 1 :
    \/ Insn(k).op = "bad"
    \/ Insn(k).op = "hi" /\ k = start
    \/ Insn(k).op = "imm64" /\ k + 1 >= N

PcOf_Unchecked(t) == BLOCK_PC(t)                                 \* mutant
PcOf(t) == IF t \in 0 .. N - 1 THEN BLOCK_PC(t) ELSE PC_HALT

Emit(e, new, err) ==
  /\ phase = "emit"
  /\ mods' = mods \o new
  /\ error' = (error \/ BodyError(e) \/ err)
  /\ start' = e
  /\ UNCHANGED <<insns, phase, i, leader, chain>>

EmitFallthrough(e) ==
  /\ EndsAt(e) /\ ~HasTerm(e)
  /\ Emit(e, <<Body(start, e, PcOf(e))>>, FALSE)

EmitExit(e) ==
  /\ EndsAt(e) /\ HasTerm(e) /\ Insn(e - 1).op = "exit"
  /\ Emit(e, <<Body(start, e - 1, PC_HALT)>>, FALSE)

EmitJump(e) ==
  /\ EndsAt(e) /\ HasTerm(e) /\ Insn(e - 1).op = "ja"
  /\ Emit(e, <<Body(start, e - 1, PcOf(Target(e - 1)))>>, FALSE)

(* A match pattern has no negation: a form that exists only as the         *)
(* complement of a comparison tests that comparison, which holds when the  *)
(* jump is not taken, and swaps the arms.                                  *)
Entry(op) == IF op = "jne" THEN "no" ELSE "yes"

Swapped_Never(op) == FALSE                                       \* mutant
Swapped(op)       == op = "jne"

EmitBranch(e) ==
  LET op   == Insn(e - 1).op
      take == PcOf(Target(e - 1))
      fall == PcOf(e)
      arms == <<[test |-> Entry(op), next |-> IF Swapped(op) THEN fall ELSE take],
                [test |-> "always",  next |-> IF Swapped(op) THEN take ELSE fall]>>
  IN  /\ EndsAt(e) /\ HasTerm(e) /\ op \in {"jeq", "jne"}
      /\ Emit(e, <<Body(start, e - 1, DECIDE_PC(start)),
                   DecideOn(start, e, arms)>>, FALSE)

(* emit_condition found no comparison: one transformer, and an error.      *)
EmitNoBranch(e) ==
  LET t == Target(e - 1)
  IN  /\ EndsAt(e) /\ HasTerm(e) /\ Insn(e - 1).op = "jx"
      /\ Emit(e, <<Body(start, e - 1,
                        PcOf(IF t \in 0 .. N - 1 THEN t ELSE e))>>, TRUE)

(* A map helper with arms: a lookup, or an update of a hash map.           *)
EmitMapArms(e) ==
  LET arms == <<[test |-> "yes", next |-> PcOf(e)],
                [test |-> "always", next |-> PcOf(e)]>>
  IN  /\ EndsAt(e) /\ HasTerm(e) /\ Insn(e - 1).op \in {"lookup", "update"}
      /\ Emit(e, <<Body(start, e - 1, DECIDE_PC(start)),
                   DecideOn(start, e, arms)>>, FALSE)

(* A call without arms: the update of an array map, which is straight-line *)
(* and no error, or any call that is refused.                              *)
EmitPlainCall(e) ==
  /\ EndsAt(e) /\ HasTerm(e) /\ Insn(e - 1).op \in Calls
  /\ \E err \in BOOLEAN :
       /\ ~err => Insn(e - 1).op = "update"
       /\ Emit(e, <<Body(start, e, PcOf(e))>>, err)

EmitBlock(e) ==
  \/ EmitFallthrough(e) \/ EmitExit(e) \/ EmitJump(e) \/ EmitBranch(e)
  \/ EmitNoBranch(e) \/ EmitMapArms(e) \/ EmitPlainCall(e)

(* The verdict is the exit status: a program with an error is not run.     *)
EmitEnd ==
  /\ phase = "emit" /\ start = N
  /\ phase' = IF error THEN "refused" ELSE "run"
  /\ UNCHANGED <<insns, translator, chain>>

(* ------------------------------- the chain ----------------------------- *)
Running == phase = "run" /\ m \in 1 .. Len(mods)
Here    == mods[m]

RunPreamble ==
  /\ phase = "run" /\ m = 0
  /\ pc' = BLOCK_PC(0)
  /\ m' = 1
  /\ UNCHANGED <<insns, phase, translator, ip, cond>>

(* No rule matches but the default one, which does nothing.                *)
RunDefault ==
  /\ Running /\ ip = Idle
  /\ Here.pc # pc
  /\ m' = m + 1
  /\ UNCHANGED <<insns, phase, translator, ip, pc, cond>>

RunEnter ==
  /\ Running /\ ip = Idle
  /\ Here.pc = pc /\ Here.kind = "body"
  /\ ip' = Here.first
  /\ UNCHANGED <<insns, phase, translator, m, pc, cond>>

(* The ops of one instruction.                                             *)
RunOps ==
  /\ Running /\ ip # Idle /\ ip < Here.last
  /\ ip' = ip + (IF Insn(ip).op = "imm64" THEN 2 ELSE 1)
  /\ UNCHANGED <<insns, phase, translator, m, pc, cond>>

(* The last op sets pc.  Ops that prepare a decision come just before it.  *)
RunLeave ==
  /\ Running /\ ip # Idle /\ ip >= Here.last
  /\ pc' = Here.arms[1].next
  /\ IF pc' = DECIDE_PC(Here.first) THEN cond' \in Outcomes ELSE cond' = "none"
  /\ m' = m + 1
  /\ ip' = Idle
  /\ UNCHANGED <<insns, phase, translator>>

Holds(arm) == arm.test = "always" \/ arm.test = cond

RunDecide ==
  /\ Running /\ ip = Idle
  /\ Here.pc = pc /\ Here.kind = "decide"
  /\ \E a \in 1 .. Len(Here.arms) :
       /\ Holds(Here.arms[a])
       /\ \A b \in 1 .. a - 1 : ~Holds(Here.arms[b])
       /\ pc' = Here.arms[a].next
  /\ cond' = "none"
  /\ m' = m + 1
  /\ UNCHANGED <<insns, phase, translator, ip>>

RunSink ==
  /\ phase = "run" /\ m > Len(mods)
  /\ phase' = "done"
  /\ UNCHANGED <<insns, translator, chain>>

-----------------------------------------------------------------------------
Scan == ScanWide \/ ScanStraight \/ ScanBlockEnd \/ ScanJump \/ ScanEnd
Run  == RunPreamble \/ RunDefault \/ RunEnter \/ RunOps \/ RunLeave
          \/ RunDecide \/ RunSink

Next ==
  \/ Scan
  \/ \E e \in 1 .. N : EmitBlock(e)
  \/ EmitEnd
  \/ Run

Spec == Init /\ [][Next]_vars

(* The translator is one sequential call and the evaluator runs the chain  *)
(* to its end: nothing but their own next step is assumed.                 *)
FairSpec == Spec /\ WF_vars(Next)

-----------------------------------------------------------------------------
Pcs  == {PC_HALT} \cup {BLOCK_PC(l) : l \in 0 .. N - 1}
                  \cup {DECIDE_PC(l) : l \in 0 .. N - 1}
Arm  == [test : Outcomes \cup {"always"}, next : Pcs]
Mod  == [kind : {"body", "decide"}, pc : Pcs, first : 0 .. N, last : 0 .. N,
         arms : Seq(Arm) \ {<<>>}]

(* Types of the variables of the translator and of the chain.              *)
TypeOK ==
  /\ insns \in Programs
  /\ phase \in {"scan", "emit", "run", "done", "refused"}
  /\ i \in 0 .. N + 1
  /\ leader \subseteq 0 .. N
  /\ error \in BOOLEAN
  /\ start \in 0 .. N
  /\ mods \in Seq(Mod)
  /\ m \in 0 .. Len(mods) + 1
  /\ ip \in {Idle} \cup Nat
  /\ pc \in Pcs
  /\ cond \in Outcomes \cup {"none"}

(* The deparser is only reached with the program halted: no block was      *)
(* skipped because it sits earlier in the chain than the jump to it, and   *)
(* no jump left for a pc that no transformer guards on.                    *)
HaltAtSink == phase = "done" => pc = PC_HALT

(* The chain runs each transformer once and first-match picks one rule, so *)
(* no two transformers may guard on the same pc: an arm that enters one    *)
(* would run the other as well.                                            *)
DistinctGuards ==
  \A a, b \in DOMAIN mods : mods[a].pc = mods[b].pc => a = b

(* Why HaltAtSink holds, as an inductive invariant.  Every pc a            *)
(* transformer leaves is halt, or guards a later transformer, or is that   *)
(* of a block still to be emitted; so the pc the run carries is halt or    *)
(* guards a transformer it has yet to reach.                               *)
Jumps(k) == Insn(k).op \in Jcc \cup {"ja"} /\ ~IsNopJump(Insn(k))

JumpsCut ==
  \A k \in 0 .. N - 1 :
    Jumps(k) /\ (phase = "scan" => k < i) =>
      /\ Target(k) \in 0 .. N => Target(k) \in leader
      /\ ~error => Target(k) \in k + 1 .. N

Resolved(x, a) ==
  \/ x = PC_HALT
  \/ \E b \in a + 1 .. Len(mods) : mods[b].pc = x
  \/ \E t \in start .. N - 1 : t \in leader \cup {start} /\ x = BLOCK_PC(t)

ChainForward ==
  /\ Resolved(BLOCK_PC(0), 0)
  /\ ~error => \A a \in 1 .. Len(mods) : \A r \in 1 .. Len(mods[a].arms) :
                 Resolved(mods[a].arms[r].next, a)

RunForward ==
  /\ phase \in {"scan", "emit"} => m = 0
  /\ phase \in {"run", "done"} => start = N /\ ~error
  /\ phase \in {"run", "done"} /\ m > 0 => Resolved(pc, m - 1)
  /\ phase = "done" => m > Len(mods)

ForwardInv == JumpsCut /\ ChainForward /\ RunForward

(* A program is accepted only if every instruction of it, reachable or     *)
(* not, has a lowering, every jump goes forward and inside the program,    *)
(* and none lands on the upper half of an LD_IMM64; it is refused only for *)
(* one of these reasons or because of a map call.                          *)
JumpOK(k) == /\ Target(k) \in k + 1 .. N
             /\ Target(k) < N => Insn(Target(k)).op # "hi"
Supported ==
  \A k \in 0 .. N - 1 :
    /\ Insn(k).op \notin {"bad", "jx", "helper"}
    /\ Insn(k).op = "imm64" => k + 1 < N
    /\ Insn(k).op \in {"ja"} \cup Jcc => JumpOK(k)
HasMapCall == \E k \in 0 .. N - 1 : Insn(k).op \in {"lookup", "update"}
Verdict ==
  /\ phase \in {"run", "done"} => Supported
  /\ phase = "refused" => ~Supported \/ HasMapCall

(* The emitted chain runs the program: the instruction about to run, as    *)
(* the chain's state tells it, moves as in Bytecode.                       *)
atBar ==
  IF ip # Idle THEN ip
  ELSE IF phase \notin {"run", "done"} \/ m = 0 THEN 0
  ELSE IF pc = PC_HALT THEN N
  ELSE IF m \in DOMAIN mods /\ pc = mods[m].pc /\ mods[m].kind = "decide"
         THEN mods[m].last
  ELSE pc \div 2
Machine    == INSTANCE Bytecode WITH at <- atBar
Implements == Machine!Spec

(* Every translation ends with a verdict, and every accepted program ends. *)
Terminates == <>(phase \in {"done", "refused"})
=============================================================================
