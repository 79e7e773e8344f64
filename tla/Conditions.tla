---------------------------- MODULE Conditions -----------------------------
(***************************************************************************)
(* The lowering of a conditional jump (emit_condition): the operations the *)
(* block runs, the entry of a match pattern that the next transformer      *)
(* tests, and which of its two rules that entry selects.                   *)
(***************************************************************************)
EXTENDS IrOps

CONSTANTS
  Values,   \* values the registers start with
  Imms,     \* immediates, of W32 width and signed
  Junk      \* what the scratch headers start with

SignedOps == {"JSGT", "JSGE", "JSLT", "JSLE"}
Ops       == {"JEQ", "JNE", "JGT", "JGE", "JLT", "JLE", "JSET"} \cup SignedOps

Insns ==
  [cls : {"JMP", "JMP32"}, op : Ops \cup {"0xe0"}, isImm : {TRUE},
   dst : Regs, src : {0}, imm : Imms]
  \cup
  [cls : {"JMP", "JMP32"}, op : Ops \cup {"0xe0"}, isImm : {FALSE},
   dst : Regs, src : Regs, imm : {0}]

NoEntry == cmp_entry(0, "none", match_const(0, 0))

VARIABLES
  insn,    \* the instruction
  phase,   \* "read", then "refused", or "emitted", "computed" and "decided"
  ops,     \* the operations the block runs for it
  entry,   \* the entry that is tested
  swap,    \* does the entry select the fallthrough rather than the target
  hs,      \* the headers
  jumps    \* was the target selected: "yes", "no", "none" before

vars == <<insn, phase, ops, entry, swap, hs, jumps>>

-----------------------------------------------------------------------------
is32(in)      == in.cls = "JMP32"
width(in)     == IF is32(in) THEN W32 ELSE W64
is_signed(in) == in.op \in SignedOps
imm(in)       == Trunc(in.imm, width(in))

(* A signed comparison is an unsigned one of values whose sign is flipped. *)
bias_At64(w)  == exp2[Bits(W64) - 1]   \* mutant
bias(w)       == exp2[Bits(w) - 1]

(* A side of the comparison is brought into a scratch header to narrow or  *)
(* to bias it.                                                             *)
Side(in, h, t) ==
  LET w == width(in)
  IN  << IF is32(in) THEN cast(W64, W32, hdr(h), t) ELSE move(t, h) >>
      \o (IF is_signed(in) THEN << binop("XorOp", w, hdr(t), konst(bias(w)), t) >> ELSE <<>>)

(* JSET masks, and compares the result with zero.                          *)
Masked(in) ==
  LET l == H_REG(in.dst)
      r == H_REG(in.src)
      t == H_TMP(0)
  IN  IF is32(in)
      THEN << cast(W64, W32, hdr(l), H_TMP(1)) >>
           \o (IF in.isImm THEN << binop("AndOp", W32, hdr(H_TMP(1)), konst(imm(in)), t) >>
               ELSE << cast(W64, W32, hdr(r), H_TMP(2)),
                       binop("AndOp", W32, hdr(H_TMP(1)), hdr(H_TMP(2)), t) >>)
      ELSE << binop("AndOp", W64, hdr(l), IF in.isImm THEN konst(imm(in)) ELSE hdr(r), t) >>

Rewritten(in) == is32(in) \/ is_signed(in)

Emitted(in) ==
  IF in.op = "JSET" THEN Masked(in)
  ELSE IF ~Rewritten(in) THEN <<>>
  ELSE Side(in, H_REG(in.dst), H_TMP(0))
       \o (IF in.isImm THEN <<>> ELSE Side(in, H_REG(in.src), H_TMP(1)))

(* The or-equal and not-equal forms test the complement and swap the arms. *)
table ==
  [JEQ |-> "CmpEq", JNE |-> "CmpEq", JGT |-> "CmpGt", JSGT |-> "CmpGt",
   JLT |-> "CmpLt", JSLT |-> "CmpLt", JGE |-> "CmpLt", JSGE |-> "CmpLt",
   JLE |-> "CmpGt", JSLE |-> "CmpGt"]
Swaps == {"JNE", "JGE", "JSGE", "JLE", "JSLE", "JSET"}

Constant(in) ==
  IF is_signed(in) THEN imm(in) ^^ bias(width(in)) ELSE imm(in)

Entry(in) ==
  LET w == width(in)
  IN  IF in.op = "JSET" THEN cmp_entry(H_TMP(0), "CmpEq", match_const(0, w))
      ELSE cmp_entry(IF Rewritten(in) THEN H_TMP(0) ELSE H_REG(in.dst),
                     table[in.op],
                     IF in.isImm THEN match_const(Constant(in), w)
                     ELSE match_header(IF Rewritten(in) THEN H_TMP(1) ELSE H_REG(in.src)))

-----------------------------------------------------------------------------
Init ==
  /\ insn \in Insns
  /\ phase = "read" /\ ops = <<>> /\ entry = NoEntry /\ swap = FALSE /\ jumps = "none"
  /\ \E r \in [Regs -> Values], j \in Junk :
       /\ insn.isImm => \A n \in Regs \ {insn.dst} : r[n] = 0
       /\ hs = [h \in Headers |-> IF h \in {H_REG(n) : n \in Regs}
                                  THEN Cell(W64, r[h - H_REG(0)]) ELSE j]

Refuse ==
  /\ phase = "read" /\ insn.op \notin Ops
  /\ phase' = "refused"
  /\ UNCHANGED <<insn, ops, entry, swap, hs, jumps>>

EmitCondition ==
  /\ phase = "read" /\ insn.op \in Ops
  /\ phase' = "emitted"
  /\ ops' = Emitted(insn)
  /\ entry' = Entry(insn)
  /\ swap' = (insn.op \in Swaps)
  /\ UNCHANGED <<insn, hs, jumps>>

Run ==
  /\ phase = "emitted"
  /\ phase' = "computed"
  /\ hs' = Exec(hs, ops)
  /\ UNCHANGED <<insn, ops, entry, swap, jumps>>

(* The decision transformer: the rule with the entry comes first and leads *)
(* to the target, or to the fallthrough when the arms are swapped.         *)
Decide ==
  /\ phase = "computed"
  /\ phase' = "decided"
  /\ jumps' = IF Holds(hs, entry) # swap THEN "yes" ELSE "no"
  /\ UNCHANGED <<insn, ops, entry, swap, hs>>

Next == Refuse \/ EmitCondition \/ Run \/ Decide
Spec == Init /\ [][Next]_vars
=============================================================================
