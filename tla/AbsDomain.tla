----------------------------- MODULE AbsDomain ------------------------------
(***************************************************************************)
(* What the translator knows of a register or a stack slot, and how two    *)
(* such facts are joined where control flow meets: RegInfo and AbsState.   *)
(*                                                                         *)
(* Words are shrunk: a 64-bit value is a number below M64 and its lower    *)
(* half one below M32.  STACK is the size of the frame, in slots.          *)
(***************************************************************************)
EXTENDS Integers

CONSTANTS M64, M32, STACK

ASSUME WordsAssumption == /\ M64 \in Nat \ {0} /\ M32 \in Nat \ {0}
                          /\ M64 % M32 = 0
ASSUME StackAssumption == STACK \in Nat

Regs  == {0, 1, 2, 3, 4, 10}   \* the results, arguments and frame pointer
Slots == 0 .. STACK            \* by distance below the frame pointer

NoMap   == -1
NoConst == -1

Info(tag, off, known, map, const) ==
  [tag |-> tag, off |-> off, known |-> known, map |-> map, const |-> const]

SCALAR                    == Info("scalar", 0, TRUE, NoMap, NoConst)
UNKNOWN                   == Info("unknown", 0, FALSE, NoMap, NoConst)
scalar_const_Raw(n)       == Info("scalar", 0, TRUE, NoMap, n)  \* mutant
scalar_const(n)           == Info("scalar", 0, TRUE, NoMap, n % M64)
pointer(tag, off)         == Info(tag, off, TRUE, NoMap, NoConst)
map_pointer(tag, off, m)  == Info(tag, off, TRUE, m, NoConst)
Moved(a)                  == [a EXCEPT !.known = FALSE]

join_reg_FirstOff(a, b) ==                                       \* mutant
  IF a.tag # b.tag \/ a.map # b.map THEN UNKNOWN
  ELSE Info(a.tag, a.off, a.known /\ b.known, a.map,
            IF a.const = b.const THEN a.const ELSE NoConst)
join_reg_FirstConst(a, b) ==                                     \* mutant
  IF a.tag # b.tag \/ a.map # b.map THEN UNKNOWN
  ELSE LET known == a.known /\ b.known /\ a.off = b.off
       IN  Info(a.tag, IF known THEN a.off ELSE 0, known, a.map, a.const)
join_reg_AnyMap(a, b) ==                                         \* mutant
  IF a.tag # b.tag THEN UNKNOWN
  ELSE LET known == a.known /\ b.known /\ a.off = b.off
       IN  Info(a.tag, IF known THEN a.off ELSE 0, known, a.map,
                IF a.const = b.const THEN a.const ELSE NoConst)
join_reg(a, b) ==
  IF a.tag # b.tag \/ a.map # b.map THEN UNKNOWN
  ELSE LET known == a.known /\ b.known /\ a.off = b.off
       IN  Info(a.tag, IF known THEN a.off ELSE 0, known, a.map,
                IF a.const = b.const THEN a.const ELSE NoConst)

Fresh == [reg  |-> [r \in Regs |-> SCALAR],
          slot |-> [s \in Slots |-> SCALAR],
          live |-> FALSE]

(* The state `self` on entry to a block, after `src` leaves for it.        *)
join_from(self, src) ==
  IF ~src.live THEN self
  ELSE IF ~self.live THEN src
  ELSE [reg  |-> [r \in Regs |-> join_reg(self.reg[r], src.reg[r])],
        slot |-> [s \in Slots |-> join_reg(self.slot[s], src.slot[s])],
        live |-> TRUE]
=============================================================================
