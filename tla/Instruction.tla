---------------------------- MODULE Instruction -----------------------------
(***************************************************************************)
(* The translation of one instruction and its execution: an arithmetic     *)
(* instruction, a conditional jump, or a call on a hash map, the three     *)
(* that need scratch headers (translate_one).  Isa says what the first two *)
(* mean; a call is followed as far as its headers go.                      *)
(***************************************************************************)
EXTENDS Words

CONSTANTS
  NUM_BPF_REGS,              \* as in IrOps
  AluValues, AluOperands, AluImms, Offs,
  JumpValues, JumpImms,
  Junk,                      \* what the scratch headers start with
  NUM_TMPS,                  \* scratch headers
  Used,                      \* those of them an instruction but a call uses
  Slots                      \* numbers of slots a map may have

VARIABLES
  insn, phase, ops, hs,      \* of an instruction
  entry, swap, jumps,        \* of a jump
  call, at, todo, arms, tmp_next, mark, error, hdrOf, tmp   \* of a call

aluVars  == <<insn, phase, ops, hs>>
jumpVars == <<entry, swap, jumps>>
callVars == <<call, at, todo, arms, tmp_next, mark, error, hdrOf, tmp>>
vars     == <<aluVars, jumpVars, callVars>>

Alu  == INSTANCE AluOps WITH
          NUM_TMPS <- Used, Values <- AluValues, Operands <- AluOperands, Imms <- AluImms
Jump == INSTANCE Conditions WITH
          NUM_TMPS <- Used, Values <- JumpValues, Imms <- JumpImms
Pool == INSTANCE ScratchPool

(* Registers and scratch headers are numbered apart; an instruction other  *)
(* than a call needs three of the latter.  A map has a slot.  A shift      *)
(* amount may be reduced by the bits of a word before or after the word is *)
(* reduced to its width.                                                   *)
ASSUME PoolAssumption  == NUM_TMPS \in Nat /\ Slots \subseteq Nat \ {0}
ASSUME RegsAssumption  == NUM_BPF_REGS \in 1 .. 20 /\ Used \in Nat /\ Used >= 3
ASSUME WordsAssumption ==
  /\ Byte \in Nat \ {0}
  /\ \A w \in {W32, W64} : Modulus(w) % Bits(w) = 0
ASSUME ValuesAssumption ==
  /\ AluValues \cup AluOperands \cup JumpValues \subseteq Word(W64)
  /\ AluImms \cup JumpImms \cup Offs \subseteq Int
  /\ Junk \subseteq [w : Nat, v : Nat]

NoJump == entry = Jump!NoEntry /\ swap = FALSE /\ jumps = "none"
NoInsn ==
  /\ insn = [cls |-> "CALL"] /\ phase = "read" /\ ops = <<>>
  /\ hs = [h \in Alu!Headers |-> Alu!Cell(W64, 0)]
NoCall ==
  /\ call = [fn |-> "none"] /\ at = "none" /\ todo = <<>> /\ arms = 0
  /\ tmp_next = 0 /\ mark = 0 /\ error = FALSE /\ hdrOf = <<>> /\ tmp = <<>>

Init == \/ Alu!Init /\ NoJump /\ NoCall
        \/ Jump!Init /\ NoCall
        \/ Pool!Init /\ NoInsn /\ NoJump

TranslateAlu  == insn.cls \in {"ALU", "ALU64"} /\ Alu!Next /\ UNCHANGED <<jumpVars, callVars>>
TranslateJump == insn.cls \in {"JMP", "JMP32"} /\ Jump!Next /\ UNCHANGED callVars
TranslateCall == insn.cls = "CALL" /\ Pool!Next /\ UNCHANGED <<aluVars, jumpVars>>

Next == TranslateAlu \/ TranslateJump \/ TranslateCall
Spec == Init /\ [][Next]_vars

-----------------------------------------------------------------------------
(* A register holds a 64-bit word after every instruction: a 32-bit        *)
(* operation that forgot to widen would make every later read of the       *)
(* register ErrorVal (translate_alu).                                      *)
TypeOK ==
  /\ phase \in {"read", "refused", "emitted", "ran", "computed", "decided"}
  /\ \A n \in 0 .. NUM_BPF_REGS - 1 : hs[Alu!H_REG(n)] \in [w : {W64}, v : Word(W64)]

(* The operations emitted for an instruction leave in the registers what   *)
(* the instruction leaves there and change nothing else, and the           *)
(* transformer selects the target exactly when the instruction jumps,      *)
(* whatever the scratch headers held before (translate_alu,                *)
(* emit_arsh_const, emit_bswap, emit_condition).                           *)
Kernel == INSTANCE Isa WITH
  Regs <- 0 .. NUM_BPF_REGS - 1,
  reg <- [n \in 0 .. NUM_BPF_REGS - 1 |-> hs[Alu!H_REG(n)].v],
  taken <- jumps, ran <- phase \in {"ran", "decided"}
Implements == Kernel!Spec

(* Unless the translation failed, what the decision of a map call and the  *)
(* chosen arm read is what the block put there: no two values that are     *)
(* live together share a header (fresh_tmp, and the rewinding in           *)
(* emit_tagged_update).                                                    *)
ReadsRight == insn.cls = "CALL" => Pool!ReadsRight

(* An instruction that is not refused means to the kernel what the emitted *)
(* operations do, as the README promises of a build that succeeds          *)
(* (translate_alu).                                                        *)
AcceptedMeansSame ==
  [][TranslateAlu /\ phase = "emitted" /\ Kernel!Defined(insn) => Kernel!Calculate]_vars
=============================================================================
