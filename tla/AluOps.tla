------------------------------- MODULE AluOps -------------------------------
(***************************************************************************)
(* The lowering of one arithmetic instruction (translate_alu and the       *)
(* operators it synthesises out of multiply, divide and mask), and the     *)
(* execution of the operations it emits.  Translating and executing share  *)
(* the state, so that a scratch header starts with whatever the instruction *)
(* before left in it.                                                      *)
(*                                                                         *)
(* The effect of translate_alu on the abstract state is in Provenance.     *)
(***************************************************************************)
EXTENDS IrOps, SequencesExt

CONSTANTS
  Values,   \* values the destination starts with
  Operands, \* values the other registers start with
  Imms,     \* immediates, of W32 width and signed
  Offs,     \* off fields; 0 but for the signed forms of version 4
  Junk      \* what the scratch headers start with

Classes == {"ALU64", "ALU"}
Simple  == [ADD |-> "AddOp", SUB |-> "SubOp", AND |-> "AndOp", OR |-> "OrOp",
            XOR |-> "XorOp", MUL |-> "MulOp", DIV |-> "DivOp", MOD |-> "ModOp"]
Shifts  == {"LSH", "RSH", "ARSH"}
Others  == {"MOV", "NEG", "0xe0"}

(* The imm of a byte swap counts bits.                                     *)
EndBits == {Bits(w) : w \in {W8, W16, W32, W64}}

Insns ==
  [cls : Classes, op : DOMAIN Simple \cup Shifts \cup Others, isImm : {TRUE},
   dst : {0}, src : {0}, imm : Imms, off : Offs]
  \cup
  [cls : Classes, op : DOMAIN Simple \cup Shifts \cup Others, isImm : {FALSE},
   dst : {0}, src : 0 .. NUM_BPF_REGS, imm : {0}, off : Offs]
  \cup
  [cls : Classes, op : {"END"}, isImm : BOOLEAN,
   dst : {0, NUM_BPF_REGS}, src : {0}, imm : EndBits, off : {0}]

VARIABLES
  insn,    \* the instruction
  phase,   \* "read", then "refused", or "emitted" and "ran"
  ops,     \* the operations emitted for it
  hs       \* the headers

vars == <<insn, phase, ops, hs>>

-----------------------------------------------------------------------------
(* translate_alu.  n numbers the next scratch header.                      *)

is64(in) == in.cls = "ALU64"
width(in) == IF is64(in) THEN W64 ELSE W32

(* An arithmetic right shift by a constant: a logical one, and the sign    *)
(* spread over the bits it vacates.                                        *)
ArshMask_Half(k, w) == (exp2[k] - 1) * exp2[Bits(W64) - k]   \* mutant
ArshMask(k, w) == (exp2[k] - 1) * exp2[Bits(w) - k]
emit_arsh_const(h, k, w, n) ==
  IF k = 0 THEN <<>>
  ELSE << binop("DivOp", w, hdr(h), konst(exp2[Bits(w) - 1]), H_TMP(n)),
          binop("MulOp", w, hdr(H_TMP(n)), konst(ArshMask(k, w)), H_TMP(n + 1)),
          binop("DivOp", w, hdr(h), konst(exp2[k]), h),
          binop("OrOp", w, hdr(h), hdr(H_TMP(n + 1)), h) >>

(* A byte swap: each byte is brought down, masked, and put at its mirror   *)
(* place; target may be the source.                                        *)
SwapByte(i, n, t) ==
  LET src == H_TMP(t)  acc == H_TMP(t + 1)  b == H_TMP(t + 2)
      up  == Byte * (n - 1 - i)
  IN  << IF i = 0 THEN move(b, src) ELSE binop("DivOp", W64, hdr(src), konst(exp2[Byte * i]), b),
         binop("AndOp", W64, hdr(b), konst(exp2[Byte] - 1), b) >>
      \o (IF up = 0 THEN <<>> ELSE << binop("MulOp", W64, hdr(b), konst(exp2[up]), b) >>)
      \o << binop("OrOp", W64, hdr(acc), hdr(b), acc) >>

emit_bswap(src, n, target, t) ==
  IF n <= 1 THEN IF src = target THEN <<>> ELSE << move(target, src) >>
  ELSE << move(H_TMP(t), src), set_(H_TMP(t + 1), 0) >>
       \o FlattenSeq([i \in 1 .. n |-> SwapByte(i - 1, n, t)])
       \o << move(target, H_TMP(t + 1)) >>

(* A 32-bit operation narrows what it reads and widens what it leaves.     *)
narrow(h, t) == cast(W64, W32, hdr(h), t)
widen(t, h)  == cast(W32, W64, hdr(t), h)

Mov(in, d, s) ==
  CASE is64(in) /\ in.isImm   -> << set_(d, in.imm) >>
    [] is64(in) /\ ~in.isImm  -> << move(d, s) >>
    [] ~is64(in) /\ in.isImm  -> << set_(d, Trunc(in.imm, W32)) >>
    [] ~is64(in) /\ ~in.isImm -> << narrow(s, H_TMP(0)), widen(H_TMP(0), d) >>

(* Operations at the instruction's width on its destination, which for a   *)
(* 32-bit instruction is the scratch header 0.                             *)
InPlace_NotWidened(in, d, body) ==   \* mutant
  IF is64(in) THEN body
  ELSE << narrow(d, H_TMP(0)) >> \o body \o << binop("AddOp", W32, hdr(H_TMP(0)), konst(0), d) >>
InPlace(in, d, body) ==
  IF is64(in) THEN body
  ELSE << narrow(d, H_TMP(0)) >> \o body \o << widen(H_TMP(0), d) >>

Neg(in, d) ==
  LET t == IF is64(in) THEN d ELSE H_TMP(0)
  IN  InPlace(in, d, << binop("SubOp", width(in), konst(0), hdr(t), t) >>)

(* The amount of a shift is taken modulo the width.                        *)
ShiftBy(in) == Trunc(in.imm, W64) % Bits(width(in))
Shift(in, d) ==
  LET k == ShiftBy(in)
      t == IF is64(in) THEN d ELSE H_TMP(0)
      f == IF in.op = "LSH" THEN "MulOp" ELSE "DivOp"
  IN  InPlace(in, d,
        IF in.op = "ARSH" THEN emit_arsh_const(t, k, width(in), IF is64(in) THEN 0 ELSE 1)
        ELSE IF k = 0 THEN <<>>
        ELSE << binop(f, width(in), hdr(t), konst(exp2[k]), t) >>)

(* A byte swap truncates, and swaps when asked for the other byte order.   *)
End(in, d) ==
  (IF in.imm = Bits(W64) THEN <<>>
   ELSE << binop("AndOp", W64, hdr(d), konst(exp2[in.imm] - 1), d) >>)
  \o (IF is64(in) \/ ~in.isImm THEN emit_bswap(d, in.imm \div Byte, d, 0) ELSE <<>>)

Binop(in, d, s) ==
  LET f == Simple[in.op]
  IN  IF is64(in)
      THEN << binop(f, W64, hdr(d), IF in.isImm THEN konst(in.imm) ELSE hdr(s), d) >>
      ELSE InPlace(in, d,
             IF in.isImm
             THEN << binop(f, W32, hdr(H_TMP(0)), konst(Trunc(in.imm, W32)), H_TMP(0)) >>
             ELSE << narrow(s, H_TMP(1)),
                     binop(f, W32, hdr(H_TMP(0)), hdr(H_TMP(1)), H_TMP(0)) >>)

Refused(in) ==
  \/ ~ {in.dst, in.src} \subseteq Regs
  \/ in.op \in Shifts /\ ~in.isImm
  \/ in.op = "END" /\ in.imm \notin {Bits(W16), Bits(W32), Bits(W64)}
  \/ in.op \notin DOMAIN Simple \cup Shifts \cup {"MOV", "NEG", "END"}

Emitted(in) ==
  LET d == H_REG(in.dst)
      s == H_REG(in.src)
  IN  CASE in.op = "MOV"            -> Mov(in, d, s)
        [] in.op = "NEG"            -> Neg(in, d)
        [] in.op \in Shifts         -> Shift(in, d)
        [] in.op = "END"            -> End(in, d)
        [] in.op \in DOMAIN Simple  -> Binop(in, d, s)

-----------------------------------------------------------------------------
Init ==
  /\ insn \in Insns
  /\ phase = "read"
  /\ ops = <<>>
  /\ \E v \in Values, u \in (IF insn.isImm THEN {0} ELSE Operands), j \in Junk :
       hs = [h \in Headers |-> IF h = H_REG(0) THEN Cell(W64, v)
                               ELSE IF h \in {H_REG(n) : n \in Regs} THEN Cell(W64, u)
                               ELSE j]

(* unsupported: a diagnostic, and nothing emitted that matters.            *)
Refuse ==
  /\ phase = "read" /\ Refused(insn)
  /\ phase' = "refused"
  /\ UNCHANGED <<insn, ops, hs>>

Translate ==
  /\ phase = "read" /\ ~Refused(insn)
  /\ phase' = "emitted"
  /\ ops' = Emitted(insn)
  /\ UNCHANGED <<insn, hs>>

Run ==
  /\ phase = "emitted"
  /\ phase' = "ran"
  /\ hs' = Exec(hs, ops)
  /\ UNCHANGED <<insn, ops>>

Next == Refuse \/ Translate \/ Run
Spec == Init /\ [][Next]_vars
=============================================================================
