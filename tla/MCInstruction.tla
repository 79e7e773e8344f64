--------------------------- MODULE MCInstruction ----------------------------
(***************************************************************************)
(* Instruction on bytes of one bit: 8-bit registers around the boundaries  *)
(* of both widths and of both signs, and every 4-bit immediate.  The calls *)
(* have the code's 64 scratch headers.                                     *)
(***************************************************************************)
EXTENDS Instruction

MCAluValues   == 0 .. 18 \cup 124 .. 131 \cup 238 .. 242 \cup 250 .. 255
MCAluOperands == {0, 1, 2, 3, 7, 8, 15, 16, 17, 127, 128, 129, 240, 255}
MCJumpValues  == {0, 1, 6, 7, 8, 9, 15, 16, 17, 24, 127, 128, 129, 135, 240, 247, 248, 255}
MCImms        == -8 .. 7
MCJunk        == {[w |-> 0, v |-> 0], [w |-> 8, v |-> 255]}   \* ErrorVal and a word

(* A handful of each, for the signed forms of version 4.                   *)
FewValues  == {0, 1, 7, 8, 128, 250, 255}
FewImms    == {-3, 2}
SignedOffs == {1, 2, 4}
=============================================================================
