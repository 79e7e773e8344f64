------------------------------ MODULE Bytecode ------------------------------
(***************************************************************************)
(* The machine that runs a section: the abstract specification of control  *)
(* flow, which instruction runs next.  It follows the reference            *)
(* interpreter that the repository's property tests trust                  *)
(* (tests/bpfvm.py).  What an instruction computes is not modelled here;   *)
(* the only datum is the outcome of the decision an instruction makes --   *)
(* is the jump taken, does a map slot hold the key -- and that is free.    *)
(***************************************************************************)
EXTENDS Section

VARIABLES
  insns,   \* the program; never changes
  at,      \* the instruction about to run; halted when at or past the end
  cond     \* the outcome of the decision instruction `at` has just made

bytecodeVars == <<insns, at, cond>>

Insn(k) == insns[k + 1]

Init ==
  /\ insns \in Programs
  /\ at = 0
  /\ cond = "none"

Straight ==
  /\ Insn(at).op = "op"
  /\ at' = at + 1
  /\ cond' = cond

WideImmediate ==
  /\ Insn(at).op = "imm64"
  /\ at' = at + 2
  /\ cond' = cond

JumpAlways ==
  /\ Insn(at).op = "ja"
  /\ at' = at + 1 + Insn(at).off
  /\ cond' = cond

(* The decision is made before it is acted on.                             *)
Decide ==
  /\ Insn(at).op \in Jcc \cup Calls
  /\ cond = "none"
  /\ cond' \in Outcomes
  /\ at' = at

Branch ==
  /\ Insn(at).op \in Jcc
  /\ cond # "none"
  /\ at' = IF cond = "yes" THEN at + 1 + Insn(at).off ELSE at + 1
  /\ cond' = "none"

(* A helper returns to the next instruction whatever it decided.           *)
Call ==
  /\ Insn(at).op \in Calls
  /\ at' = at + 1
  /\ cond' = "none"

Exit ==
  /\ Insn(at).op = "exit"
  /\ at' = Len(insns)
  /\ cond' = cond

Step == Straight \/ WideImmediate \/ JumpAlways \/ Decide \/ Branch \/ Call
          \/ Exit

Next ==
  /\ at \in 0 .. Len(insns) - 1
  /\ Step
  /\ UNCHANGED insns

Spec == Init /\ [][Next]_bytecodeVars
=============================================================================
