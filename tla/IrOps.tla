------------------------------- MODULE IrOps --------------------------------
(***************************************************************************)
(* The operations of the IR that the translator emits for registers, and   *)
(* what they do to the headers.                                            *)
(*                                                                         *)
(* A header holds a value together with its width; an operation at one     *)
(* width on a header of another gives ErrorVal, and a comparison with      *)
(* ErrorVal never holds.  A constant takes the width of the operation it   *)
(* is an operand of.                                                       *)
(***************************************************************************)
EXTENDS Words, Sequences

CONSTANTS
  NUM_BPF_REGS,   \* registers
  NUM_TMPS        \* scratch headers

H_REG(n) == 10 + n

(* The n-th header fresh_tmp hands out after the pool was last rewound,    *)
(* counting from 0.  No single instruction comes near the pool's end.      *)
H_TMP(n) == 30 + n

Regs    == 0 .. NUM_BPF_REGS - 1
Headers == {H_REG(n) : n \in Regs} \cup {H_TMP(n) : n \in 0 .. NUM_TMPS - 1}

(* Cells and operands.                                                     *)
Cell(w, v) == [w |-> w, v |-> v]
ErrorVal   == Cell(0, 0)
konst(v)   == [is |-> "const", v |-> v]
hdr(h)     == [is |-> "hdr", v |-> h]

(* Operations.                                                             *)
binop(f, w, a, b, t) == [f |-> f, w |-> w, a |-> a, b |-> b, to |-> t]
cast(from, w, a, t)  == [f |-> "Cast", w |-> w, a |-> a, b |-> konst(from), to |-> t]
set_(t, v)           == binop("AddOp", W64, konst(v), konst(0), t)
move(t, h)           == binop("AddOp", W64, hdr(h), konst(0), t)

(* What an operand is worth to an operation at width w.                    *)
Operand(hs, a, w) ==
  IF a.is = "const" THEN Cell(w, Trunc(a.v, w))
  ELSE IF hs[a.v].w = w THEN hs[a.v] ELSE ErrorVal

Compute(f, x, y, w) ==
  CASE f = "AddOp" -> Trunc(x + y, w)
    [] f = "SubOp" -> Trunc(x - y, w)
    [] f = "MulOp" -> Trunc(x * y, w)
    [] f = "DivOp" -> IF y = 0 THEN 0 ELSE x \div y
    [] f = "ModOp" -> IF y = 0 THEN x ELSE x % y
    [] f = "AndOp" -> x & y
    [] f = "OrOp"  -> x | y
    [] f = "XorOp" -> x ^^ y

(* The cell an operation leaves in its target.                             *)
Cast(hs, o) ==
  LET x == Operand(hs, o.a, o.b.v)
  IN  IF x = ErrorVal THEN ErrorVal ELSE Cell(o.w, Trunc(x.v, o.w))
Binary(hs, o) ==
  LET x == Operand(hs, o.a, o.w)
      y == Operand(hs, o.b, o.w)
  IN  IF ErrorVal \in {x, y} THEN ErrorVal ELSE Cell(o.w, Compute(o.f, x.v, y.v, o.w))

Effect(hs, o) ==
  [hs EXCEPT ![o.to] = IF o.f = "Cast" THEN Cast(hs, o) ELSE Binary(hs, o)]

(* The headers after a sequence of operations.                             *)
Exec(hs, ops) ==
  LET after[i \in 0 .. Len(ops)] ==
        IF i = 0 THEN hs ELSE Effect(after[i - 1], ops[i])
  IN  after[Len(ops)]

(* An entry of a match pattern: a header against a constant of a given     *)
(* width or another header.                                                *)
match_const(k, w) == [is |-> "const", v |-> Cell(w, k)]
match_header(h)   == [is |-> "hdr", v |-> h]
cmp_entry(h, cmp, rhs) == [lhs |-> h, cmp |-> cmp, rhs |-> rhs]

Holds(hs, e) ==
  LET x == hs[e.lhs]
      y == IF e.rhs.is = "const" THEN e.rhs.v ELSE hs[e.rhs.v]
  IN  /\ x # ErrorVal /\ y # ErrorVal /\ x.w = y.w
      /\ CASE e.cmp = "CmpEq" -> x.v = y.v
           [] e.cmp = "CmpGt" -> x.v > y.v
           [] e.cmp = "CmpLt" -> x.v < y.v
=============================================================================
