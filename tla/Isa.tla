-------------------------------- MODULE Isa ---------------------------------
(***************************************************************************)
(* One instruction of the bytecode, as its interpreter executes it: the    *)
(* abstract specification of the lowering of arithmetic and of conditional *)
(* jumps.  Registers are whole words; a 32-bit operation works on the      *)
(* lower halves and clears the upper half of its result.                   *)
(***************************************************************************)
EXTENDS Words

CONSTANT
  Regs    \* register numbers

VARIABLES
  insn,    \* the instruction
  reg,     \* the registers
  taken,   \* is the jump taken: "yes", "no", "none" before or without one
  ran      \* has it been executed

isaVars == <<insn, reg, taken, ran>>

M(w)    == Modulus(w)
S(v, w) == IF v >= M(w) \div 2 THEN v - M(w) ELSE v

Width(in)   == IF in.cls \in {"ALU64", "JMP"} THEN 8 ELSE 4
Source(in)  == (IF in.isImm THEN in.imm ELSE reg[in.src]) % M(Width(in))
Shift(y, w) == y % (w * Byte)

(* Truncating division, which the signed forms of version 4 use.           *)
Abs(a)     == IF a < 0 THEN -a ELSE a
Quot(a, b) == IF (a < 0) = (b < 0) THEN Abs(a) \div Abs(b) ELSE -(Abs(a) \div Abs(b))

Alu(op, x, y, w) ==
  CASE op = "ADD"  -> (x + y) % M(w)
    [] op = "SUB"  -> (x - y) % M(w)
    [] op = "MUL"  -> (x * y) % M(w)
    [] op = "DIV"  -> IF y = 0 THEN 0 ELSE x \div y
    [] op = "MOD"  -> IF y = 0 THEN x ELSE x % y
    [] op = "AND"  -> x & y
    [] op = "OR"   -> x | y
    [] op = "XOR"  -> x ^^ y
    [] op = "MOV"  -> y
    [] op = "NEG"  -> (-x) % M(w)
    [] op = "LSH"  -> (x * exp2[Shift(y, w)]) % M(w)
    [] op = "RSH"  -> x \div exp2[Shift(y, w)]
    [] op = "ARSH" -> (S(x, w) \div exp2[Shift(y, w)]) % M(w)

(* With off set, DIV and MOD are signed and MOV extends the sign of the    *)
(* lowest off bits.                                                        *)
AluSigned(op, x, y, w, off) ==
  CASE op = "DIV" -> IF y = 0 THEN 0 ELSE Quot(S(x, w), S(y, w)) % M(w)
    [] op = "MOD" -> IF y = 0 THEN x
                     ELSE (S(x, w) - S(y, w) * Quot(S(x, w), S(y, w))) % M(w)
    [] op = "MOV" -> S(y % M(off \div Byte), off \div Byte) % M(w)

(* The bytes of a word, lowest first, put together in the other order.     *)
ByteOf(v, i) == (v \div M(i)) % M(1)
Swap(v, n)   == LET f[i \in 0 .. n] == IF i = 0 THEN 0
                                       ELSE f[i - 1] * M(1) + ByteOf(v, i - 1)
                IN  f[n]

(* BPF_END on a little-endian host; imm is the width in bits.              *)
End(in) ==
  LET n == in.imm \div Byte
      v == reg[in.dst] % M(n)
  IN  IF in.cls = "ALU64" \/ ~in.isImm THEN Swap(v, n) ELSE v

Result(in) ==
  LET w == Width(in)
      x == reg[in.dst] % M(w)
  IN  IF in.op = "END" THEN End(in)
      ELSE IF in.off # 0 THEN AluSigned(in.op, x, Source(in), w, in.off)
      ELSE Alu(in.op, x, Source(in), w)

Cmp(op, a, b, w) ==
  CASE op = "JEQ"  -> a = b             [] op = "JNE"  -> a # b
    [] op = "JGT"  -> a > b             [] op = "JGE"  -> a >= b
    [] op = "JLT"  -> a < b             [] op = "JLE"  -> a <= b
    [] op = "JSGT" -> S(a, w) > S(b, w) [] op = "JSGE" -> S(a, w) >= S(b, w)
    [] op = "JSLT" -> S(a, w) < S(b, w) [] op = "JSLE" -> S(a, w) <= S(b, w)
    [] op = "JSET" -> (a & b) # 0

IsAlu(in)  == in.cls \in {"ALU64", "ALU"}
IsJump(in) == in.cls \in {"JMP", "JMP32"}

(* What the kernel accepts of these instructions.                          *)
Defined(in) ==
  /\ {in.dst, in.src} \subseteq Regs
  /\ in.op # "0xe0"
  /\ in.op = "END" => in.imm \in {2 * Byte, 4 * Byte, 8 * Byte}
  /\ IsAlu(in) /\ in.off # 0 =>
       \/ in.op \in {"DIV", "MOD"} /\ in.off = 1
       \/ in.op = "MOV" /\ ~in.isImm /\ in.off \in {Byte, 2 * Byte, 4 * Byte}
            /\ in.off < Width(in) * Byte

Init ==
  /\ reg \in [Regs -> 0 .. M(8) - 1]
  /\ taken = "none"
  /\ ran = FALSE

Calculate ==
  /\ ~ran /\ IsAlu(insn) /\ Defined(insn)
  /\ reg' = [reg EXCEPT ![insn.dst] = Result(insn)]
  /\ ran' = TRUE
  /\ UNCHANGED <<insn, taken>>

Branch ==
  /\ ~ran /\ IsJump(insn) /\ Defined(insn)
  /\ taken' = IF Cmp(insn.op, reg[insn.dst] % M(Width(insn)), Source(insn), Width(insn))
              THEN "yes" ELSE "no"
  /\ ran' = TRUE
  /\ UNCHANGED <<insn, reg>>

Next == Calculate \/ Branch
Spec == Init /\ [][Next]_isaVars
=============================================================================
