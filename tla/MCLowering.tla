----------------------------- MODULE MCLowering -----------------------------
(* Every program up to three instructions over the whole alphabet, and     *)
(* every program of four over one that keeps each form once or twice.      *)
EXTENDS Lowering

at0(op, offs) == {[op |-> op, off |-> o] : o \in offs}
Plain(ops)    == {[op |-> op, off |-> 0] : op \in ops}

Full ==
  Plain({"op", "bad", "imm64", "hi", "exit", "lookup", "update", "helper"})
    \cup at0("ja", -1 .. 2) \cup at0("jeq", -1 .. 2) \cup at0("jne", {0, 1})
    \cup at0("jx", {0, 1})

Small ==
  Plain({"op", "imm64", "hi", "exit", "lookup"})
    \cup at0("ja", {0, 2}) \cup at0("jeq", {1, 2}) \cup at0("jne", {-1, 1})

WellFormed(p) ==
  \A k \in DOMAIN p : p[k].op = "hi" <=> k > 1 /\ p[k - 1].op = "imm64"

MCPrograms ==
  {p \in UNION {[1 .. n -> Full] : n \in 1 .. 3} \cup [1 .. 4 -> Small] :
     WellFormed(p)}
=============================================================================
