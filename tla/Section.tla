------------------------------ MODULE Section -------------------------------
(***************************************************************************)
(* A BPF program as the lowering sees it: the instructions of one section. *)
(* Instructions are numbered from 0 as in the source; a program is a       *)
(* sequence, so instruction k is p[k + 1].                                 *)
(***************************************************************************)
EXTENDS Integers, Sequences

CONSTANT Programs      \* the programs considered: decoded sections

(* The instruction forms control flow tells apart.  "bad" is any           *)
(* straight-line instruction the translator reports as unsupported, "hi"   *)
(* the second slot of the two-slot LD_IMM64, "jx" a conditional jump with  *)
(* no lowering, "helper" any call but the two map helpers.                 *)
Jcc   == {"jeq", "jne", "jx"}
Calls == {"lookup", "update", "helper"}
Ops   == {"op", "bad", "imm64", "hi", "ja", "exit"} \cup Jcc \cup Calls

Insns == [op : Ops, off : Int]

(* How a decision comes out: is the jump taken, is the key in the map.     *)
Outcomes == {"yes", "no"}

IsJmp(x)     == x.op \in Jcc \cup Calls \cup {"ja", "exit"}
IsNopJump(x) == x.op = "ja" /\ x.off = 0

(* What decoding a section can yield: at least one instruction, and an     *)
(* upper half exactly behind each LD_IMM64 that has room for one.          *)
ProgramsAssumption ==
  \A p \in Programs :
    /\ p \in Seq(Insns)
    /\ Len(p) > 0
    /\ \A k \in 1 .. Len(p) :
         p[k].op = "hi" <=> k > 1 /\ p[k - 1].op = "imm64"
ASSUME ProgramsAssumption
=============================================================================
