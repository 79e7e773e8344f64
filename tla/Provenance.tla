----------------------------- MODULE Provenance -----------------------------
(***************************************************************************)
(* What the translator decides from what it knows of the registers, and    *)
(* whether it is so when the program runs.                                 *)
(*                                                                         *)
(*   translate  the instructions, block by block, over abstract states:    *)
(*              each load, store and helper call is fixed to a region, a   *)
(*              stack slot, a map, a constant key (emitted);               *)
(*   run        the program, over values that are numbers or pointers;     *)
(*   refused    the translation reported an error;                         *)
(*   rejected   a stack slot was read at another width than it was written *)
(*              at, which the IR answers with an error value;              *)
(*   done       the end of the program.                                    *)
(*                                                                         *)
(* Registers and stack slots are whole words ("dw"), of which an access    *)
(* may be to the lower half ("w").  The keys and values of the maps are    *)
(* whole words.  Only what the BPF verifier lets a program do is run: no   *)
(* access through a number or outside the frame, no read of what was never *)
(* written, no sum of two pointers or with NULL, no half of a pointer      *)
(* stored.  Stack accesses that start at other offsets do not overlap.     *)
(***************************************************************************)
EXTENDS AbsDomain, Sequences

CONSTANTS
  Programs,     \* sequences of instructions [op, dst, src, imm, off, w]
  ArrayMaps,    \* the maps, by index, that are arrays; the rest are hashes
  NSLOTS,       \* nslots of the array maps
  MAX_ENTRIES,  \* their max_entries
  Inputs        \* bound: the numbers memory can hold

Imm == -1      \* as src: the operand is the immediate

Instructions ==
  [op  : {"mov", "add", "sub", "ldmap", "ldx", "st", "ldpkt", "lookup",
          "update", "jcc", "ja", "exit"},
   dst : Regs, src : Regs \cup {Imm}, imm : Int, off : Int, w : {"dw", "w"}]

(* A load has a base register.  An immediate is a sign-extended half word. *)
(* Jumps go forward and stay inside, to the end at most: Lowering refuses  *)
(* the others.                                                             *)
WellFormed(p) ==
  /\ p \in Seq(Instructions)
  /\ \A i \in 1 .. Len(p) :
       /\ p[i].op = "ldx" => p[i].src # Imm
       /\ p[i].op = "add" => 2 * p[i].imm \in -M64 .. M64 - 1
       /\ p[i].op \in {"jcc", "ja"} => p[i].off \in 0 .. Len(p) - i

ASSUME ProgramsAssumption == \A p \in Programs : WellFormed(p)
ASSUME InputsAssumption   == Inputs \subseteq Int
(* MapInfo.nslots is at most max_entries, a 32-bit field of the map.       *)
ASSUME NslotsAssumption   == NSLOTS \in Nat /\ NSLOTS <= M32

CTX_LEN  == 3       \* struct xdp_md: data, data_end and one more field
CtxPkt   == {0, 1}
Clobbers == {1, 2, 3, 4}

VARIABLES
  insns, phase,
  k,         \* the instruction the translation is at
  blockIn,   \* the abstract state each block is entered with
  st,        \* the abstract state in the block, NoState between blocks
  error,     \* had_error
  emitted,   \* what each instruction was fixed to
  at,        \* the instruction the run is at
  reg, slot, \* the values of the registers and of the stack
  width      \* the width each stack slot was written at

translation == <<k, blockIn, st, error, emitted>>
memory      == <<slot, width>>
machine     == <<at, reg, memory>>
vars        == <<insns, phase, translation, machine>>

N       == Len(insns)
Insn(i) == insns[i + 1]
NoState == [live |-> FALSE]

(* The block starts of find_leaders; see module Lowering.                  *)
Jumps     == {"jcc", "ja", "exit"}
Calls     == {"lookup", "update"}
Alu       == {"mov", "add", "sub"}
Target(i) == i + 1 + Insn(i).off
Leaders ==
  {l \in 0 .. N - 1 :
     \/ l = 0
     \/ Insn(l - 1).op \in Jumps \cup Calls
     \/ \E i \in 0 .. N - 1 : Insn(i).op \in {"jcc", "ja"} /\ Target(i) = l}

(* Values: numbers, and pointers by what they point into.                  *)
(* Half is a word whose lower half alone is defined.                       *)
Ptr(b, m, n) == [base |-> b, map |-> m, n |-> n]
Undef        == Ptr("undef", NoMap, 0)
Null         == Ptr("null", NoMap, 0)
Num(n)       == Ptr("num", NoMap, n % M64)
Half(n)      == Ptr("half", NoMap, n % M32)
Read         == {Num(n) : n \in Inputs}
IsNum(v)     == v.base = "num"
IsPtr(v)     == v.base \in {"ctx", "pkt", "stack", "map", "mapval"}

(* What an access is fixed to.                                             *)
Nothing    == [kind |-> "nothing"]
InSlot(s)  == [kind |-> "slot", slot |-> s]
In(b, m)   == [kind |-> "region", base |-> b, map |-> m]
ConstKey(c) == [kind |-> "const", key |-> c]
Call(m, key, val) == [kind |-> "call", map |-> m, key |-> key, val |-> val]

Entry == [Fresh EXCEPT !.reg[1] = pointer("ctx", 0),
                       !.reg[10] = pointer("stack", 0), !.live = TRUE]

Init ==
  /\ insns \in Programs
  /\ phase = "translate"
  /\ k = 0
  /\ blockIn = [l \in Leaders |-> IF l = 0 THEN Entry ELSE Fresh]
  /\ st = NoState
  /\ error = FALSE
  /\ emitted = [i \in 0 .. N - 1 |-> Nothing]
  /\ at = 0
  /\ reg = [r \in Regs |-> CASE r = 1  -> Ptr("ctx", NoMap, 0)
                             [] r = 10 -> Ptr("stack", NoMap, 0)
                             [] OTHER  -> Undef]
  /\ slot = [s \in Slots |-> Undef]
  /\ width = [s \in Slots |-> "none"]

(* ---------------------------- the translation -------------------------- *)
Between == phase = "translate" /\ st = NoState
Inside  == phase = "translate" /\ st # NoState
Here    == Insn(k)

EnterBlock ==
  /\ Between /\ k < N
  /\ st' = IF blockIn[k].live THEN blockIn[k] ELSE Fresh
  /\ UNCHANGED <<insns, phase, k, blockIn, error, emitted, machine>>

Leave(s, Succs) ==
  /\ blockIn' = [l \in DOMAIN blockIn |->
                   IF l \in Succs
                     THEN join_from(blockIn[l], [s EXCEPT !.live = TRUE])
                     ELSE blockIn[l]]
  /\ st' = NoState

(* The instruction at k leaves state s and is fixed to e, or is refused.   *)
(* A refused translation is not used, so the state it goes on with is s.   *)
Emit(s, e, refused) ==
  /\ emitted' = [emitted EXCEPT ![k] = IF refused THEN Nothing ELSE e]
  /\ error' = (error \/ refused)
  /\ k' = k + 1
  /\ IF k + 1 \in Leaders \cup {N} THEN Leave(s, {k + 1})
                                   ELSE st' = s /\ UNCHANGED blockIn
  /\ UNCHANGED <<insns, phase, machine>>

SetReg(s, r, a) == [s EXCEPT !.reg[r] = a]
Clobbered(s, a) ==
  [s EXCEPT !.reg = [r \in Regs |-> IF r \in Clobbers THEN SCALAR
                                    ELSE IF r = 0 THEN a ELSE s.reg[r]]]

MovInfo_Keep32(s, x) ==                                          \* mutant
  IF x.src # Imm THEN s.reg[x.src]
  ELSE scalar_const(IF x.w = "dw" THEN x.imm ELSE x.imm % M32)
MovInfo(s, x) ==
  IF x.src = Imm THEN scalar_const(IF x.w = "dw" THEN x.imm ELSE x.imm % M32)
  ELSE IF x.w = "dw" THEN s.reg[x.src] ELSE SCALAR

AddInfo(s, x) ==
  LET d == s.reg[x.dst]
  IN  IF x.src = Imm
        THEN IF d.tag = "scalar" THEN d
             ELSE IF d.known THEN [d EXCEPT !.off = @ + x.imm] ELSE Moved(d)
      ELSE IF d.tag # "scalar" /\ s.reg[x.src].tag = "scalar" THEN Moved(d)
      ELSE IF d.tag = "scalar" /\ s.reg[x.src].tag # "scalar"
        THEN Moved(s.reg[x.src])
      ELSE SCALAR

AluInfo(s, x) ==
  CASE x.op = "mov"                -> MovInfo(s, x)
    [] x.op = "add" /\ x.w = "dw" -> AddInfo(s, x)
    [] OTHER                       -> SCALAR

TranslateAlu ==
  /\ Inside /\ Here.op \in Alu
  /\ Emit(SetReg(st, Here.dst, AluInfo(st, Here)), Nothing, FALSE)

TranslateLdMap ==
  /\ Inside /\ Here.op = "ldmap"
  /\ Emit(SetReg(st, Here.dst, map_pointer("map", 0, Here.imm)),
          Nothing, FALSE)

HasRegion(a) == a.tag \in {"ctx", "pkt", "mapval"}

(* Where base + off is, if the translator can tell.                        *)
Place(a, off) ==
  IF a.tag = "stack" THEN InSlot(-(a.off + off)) ELSE In(a.tag, a.map)
Placed(a, off) ==
  IF a.tag = "stack" THEN a.known /\ -(a.off + off) \in Slots ELSE HasRegion(a)

ctx_access_ok(a, off) ==
  a.tag = "ctx" /\ a.known => a.off + off \in 0 .. CTX_LEN - 1

Loaded(s, a, off) ==
  IF a.tag = "stack"
    THEN IF Placed(a, off) THEN s.slot[-(a.off + off)] ELSE SCALAR
  ELSE IF a.tag = "ctx" /\ a.known /\ a.off + off \in CtxPkt
    THEN Moved(pointer("pkt", 0)) ELSE SCALAR

AccessOK(a, off) == Placed(a, off) /\ ctx_access_ok(a, off)

TranslateLdx ==
  LET a == st.reg[Here.src]
  IN  /\ Inside /\ Here.op = "ldx"
      /\ Emit(SetReg(st, Here.dst, Loaded(st, a, Here.off)),
              Place(a, Here.off), ~AccessOK(a, Here.off))

Stored(s, x, a) ==
  IF a.tag = "stack" /\ Placed(a, x.off)
    THEN [s EXCEPT !.slot[-(a.off + x.off)] =
            IF x.src = Imm THEN scalar_const(x.imm) ELSE s.reg[x.src]]
    ELSE s

TranslateStore ==
  LET a == st.reg[Here.dst]
  IN  /\ Inside /\ Here.op = "st"
      /\ Emit(Stored(st, Here, a), Place(a, Here.off),
              ~AccessOK(a, Here.off))

TranslateLdPkt ==
  /\ Inside /\ Here.op = "ldpkt"
  /\ Emit(Clobbered(st, SCALAR), Nothing, FALSE)

(* The helpers' key: a constant where the translator knows one and the map *)
(* is an array, else a place to read it from.                              *)
const_key(s) ==
  LET a == s.reg[2]
  IN  IF a.tag = "stack" /\ Placed(a, 0) THEN s.slot[-a.off].const
                                         ELSE NoConst

Key(s, m) == IF m \in ArrayMaps /\ const_key(s) # NoConst
               THEN ConstKey(const_key(s)) ELSE Place(s.reg[2], 0)
check_array_key(s) ==
  IF const_key(s) = NoConst THEN MAX_ENTRIES <= NSLOTS
                            ELSE const_key(s) < NSLOTS
KeyOK(s, m) ==
  /\ m \in ArrayMaps => check_array_key(s)
  /\ Key(s, m).kind = "const" \/ Placed(s.reg[2], 0)

LookupOK(s) == s.reg[1].tag = "map" /\ KeyOK(s, s.reg[1].map)

TranslateLookup ==
  LET m == st.reg[1].map
  IN  /\ Inside /\ Here.op = "lookup"
      /\ Emit(Clobbered(st, map_pointer("mapval", 0, m)),
              Call(m, Key(st, m), Nothing), ~LookupOK(st))

FlagsOK_Unknown(a) == a.tag = "scalar" /\ a.const \in {0, NoConst}  \* mutant
FlagsOK(a)         == a.tag = "scalar" /\ a.const = 0

UpdateOK(s) ==
  /\ s.reg[1].tag = "map"
  /\ KeyOK(s, s.reg[1].map)
  /\ s.reg[1].map \in ArrayMaps => const_key(s) # NoConst
  /\ FlagsOK(s.reg[4])
  /\ Placed(s.reg[3], 0)

TranslateUpdate ==
  LET m == st.reg[1].map
  IN  /\ Inside /\ Here.op = "update"
      /\ Emit(Clobbered(st, IF m \in ArrayMaps THEN scalar_const(0)
                                               ELSE SCALAR),
              Call(m, Key(st, m), Place(st.reg[3], 0)), ~UpdateOK(st))

TranslateJump ==
  /\ Inside /\ Here.op \in Jumps
  /\ Leave(st, (IF Here.op = "exit" THEN {} ELSE {Target(k)})
                 \cup (IF Here.op = "jcc" THEN {k + 1} ELSE {}))
  /\ k' = k + 1
  /\ UNCHANGED <<insns, phase, error, emitted, machine>>

(* The verdict is the exit status: a program with an error is not run.     *)
TranslateEnd ==
  /\ Between /\ k = N
  /\ phase' = IF error THEN "refused" ELSE "run"
  /\ UNCHANGED <<insns, translation, machine>>

(* -------------------------------- the run ------------------------------ *)
Running == phase = "run" /\ at < N
There   == Insn(at)

Signed(n) == IF 2 * n >= M64 THEN n - M64 ELSE n
Operand   == IF There.src = Imm THEN Num(There.imm) ELSE reg[There.src]

(* The values an ALU instruction can leave; none if it is not allowed.     *)
Sum(d, s) ==
  CASE IsNum(d) /\ IsNum(s) -> {Num(d.n + s.n)}
    [] IsPtr(d) /\ IsNum(s) -> {[d EXCEPT !.n = @ + Signed(s.n)]}
    [] IsNum(d) /\ IsPtr(s) -> {[s EXCEPT !.n = @ + Signed(d.n)]}
    [] OTHER                -> {}
Difference(d, s) ==
  CASE IsNum(d) /\ IsNum(s) -> {Num(d.n - s.n)}
    [] IsPtr(d) /\ IsNum(s) -> {[d EXCEPT !.n = @ - Signed(s.n)]}
    [] IsPtr(d) /\ IsPtr(s) -> Read
    [] OTHER                -> {}
Narrow(V) ==
  UNION {IF IsNum(v) THEN {Num(v.n % M32)} ELSE IF IsPtr(v) THEN Read ELSE {}
           : v \in V}
Results(d, s) ==
  LET V == CASE There.op = "mov" -> {s} \ {Undef}
             [] There.op = "add" -> Sum(d, s)
             [] There.op = "sub" -> Difference(d, s)
  IN  IF There.w = "dw" THEN V ELSE Narrow(V)

RunAlu ==
  /\ Running /\ There.op \in Alu
  /\ \E v \in Results(reg[There.dst], Operand) :
       reg' = [reg EXCEPT ![There.dst] = v]
  /\ at' = at + 1
  /\ UNCHANGED <<insns, phase, translation, memory>>

RunLdMap ==
  /\ Running /\ There.op = "ldmap"
  /\ reg' = [reg EXCEPT ![There.dst] = Ptr("map", There.imm, 0)]
  /\ at' = at + 1
  /\ UNCHANGED <<insns, phase, translation, memory>>

(* The accesses the verifier allows; and what one may find.                *)
Allowed(v, off) ==
  \/ v.base = "stack" /\ -(v.n + off) \in Slots \ {0}
  \/ v.base = "ctx" /\ v.n + off \in 0 .. CTX_LEN - 1
  \/ v.base \in {"pkt", "mapval"}
At(v, off) == slot[-(v.n + off)]

(* A word of the stack, read whole or by its lower half.                   *)
Slice(x, w) ==
  CASE w = "dw" /\ x.base \notin {"undef", "half"} -> {x}
    [] w = "w" /\ x.base \in {"num", "half"}       -> {Num(x.n % M32)}
    [] OTHER                                       -> {}

Content(v, off, w) ==
  IF v.base = "stack" THEN Slice(At(v, off), w)
  ELSE IF v.base = "ctx" /\ v.n + off \in CtxPkt
    THEN {Ptr("pkt", NoMap, 2 * (v.n + off))}
  ELSE Read

(* The IR reads a stack slot at the width it was written at, or rejects.   *)
WidthOK(v, off, w) == v.base = "stack" => width[-(v.n + off)] = w

Reject ==
  /\ phase' = "rejected"
  /\ UNCHANGED <<insns, translation, machine>>

RunLdx ==
  LET p == reg[There.src]
  IN  /\ Running /\ There.op = "ldx" /\ Allowed(p, There.off)
      /\ \E v \in Content(p, There.off, There.w) :
           IF WidthOK(p, There.off, There.w)
             THEN /\ reg' = [reg EXCEPT ![There.dst] = v]
                  /\ at' = at + 1
                  /\ UNCHANGED <<insns, phase, translation, memory>>
             ELSE Reject

(* A word after its lower half is written; none if it was a pointer.       *)
Written(old, v, w) ==
  CASE w = "dw" -> {v} \ {Undef}
    [] w = "w" /\ IsNum(v) /\ IsNum(old) ->
         {Num(old.n - (old.n % M32) + (v.n % M32))}
    [] w = "w" /\ IsNum(v) /\ old.base \in {"undef", "half"} -> {Half(v.n)}
    [] OTHER -> {}

RunStore ==
  LET p == reg[There.dst]
      s == -(p.n + There.off)
  IN  /\ Running /\ There.op = "st" /\ Allowed(p, There.off)
      /\ IF p.base = "stack"
           THEN /\ \E v \in Written(slot[s], Operand, There.w) :
                     slot' = [slot EXCEPT ![s] = v]
                /\ width' = [width EXCEPT ![s] = There.w]
           ELSE IsNum(Operand) /\ UNCHANGED memory
      /\ at' = at + 1
      /\ UNCHANGED <<insns, phase, translation, reg>>

AfterCall(v) ==
  /\ reg' = [r \in Regs |-> IF r \in Clobbers THEN Undef
                            ELSE IF r = 0 THEN v ELSE reg[r]]
  /\ at' = at + 1
  /\ UNCHANGED <<insns, phase, translation, memory>>

RunLdPkt == Running /\ There.op = "ldpkt" /\ \E v \in Read : AfterCall(v)

(* A helper is given a map, a key, and for an update a value and flags.    *)
Argument(v) ==
  Allowed(v, 0) /\ (v.base = "stack" => IsNum(At(v, 0)))
CallAllowed ==
  /\ reg[1].base = "map" /\ reg[1].n = 0
  /\ Argument(reg[2])
  /\ There.op = "update" => Argument(reg[3]) /\ IsNum(reg[4])

(* A constant key is not read again, so its width is not looked at.        *)
ArgumentWidthsOK ==
  /\ emitted[at].key.kind = "slot" => WidthOK(reg[2], 0, "dw")
  /\ emitted[at].val.kind = "slot" => WidthOK(reg[3], 0, "dw")

CallResults ==
  IF There.op = "lookup" THEN {Ptr("mapval", reg[1].map, 0), Null}
  ELSE IF reg[1].map \in ArrayMaps THEN {Num(0)} ELSE {Num(0), Num(-1)}

RunCall ==
  /\ Running /\ There.op \in Calls /\ CallAllowed
  /\ IF ArgumentWidthsOK THEN \E v \in CallResults : AfterCall(v) ELSE Reject

RunJump ==
  /\ Running /\ There.op \in Jumps
  /\ at' \in CASE There.op = "exit" -> {N}
               [] There.op = "ja"   -> {Target(at)}
               [] There.op = "jcc"  -> {at + 1, Target(at)}
  /\ UNCHANGED <<insns, phase, translation, reg, memory>>

RunEnd ==
  /\ phase = "run" /\ at = N
  /\ phase' = "done"
  /\ UNCHANGED <<insns, translation, machine>>

Next ==
  \/ EnterBlock \/ TranslateAlu \/ TranslateLdMap \/ TranslateLdx
  \/ TranslateStore \/ TranslateLdPkt \/ TranslateLookup \/ TranslateUpdate
  \/ TranslateJump \/ TranslateEnd
  \/ RunAlu \/ RunLdMap \/ RunLdx \/ RunStore \/ RunLdPkt \/ RunCall
  \/ RunJump \/ RunEnd

Spec == Init /\ [][Next]_vars

-----------------------------------------------------------------------------
Infos ==
  [tag : {"scalar", "ctx", "pkt", "stack", "map", "mapval", "unknown"},
   off : Int, known : BOOLEAN, map : Int, const : {NoConst} \cup 0 .. M64 - 1]

(* What is known is of the kinds RegInfo has; constants are words.         *)
TypeOK ==
  /\ phase \in {"translate", "run", "refused", "rejected", "done"}
  /\ k \in 0 .. N /\ at \in 0 .. N
  /\ \A s \in {blockIn[l] : l \in Leaders} \cup ({st} \ {NoState}) :
       /\ \A r \in Regs : s.reg[r] \in Infos
       /\ \A i \in Slots : s.slot[i] \in Infos

(* The abstract value a describes the value v.  A scalar may be anything   *)
(* unless its constant is known, and that may have lost its upper half on  *)
(* its way through the stack.  What a lookup returns may be NULL.          *)
Describes(a, v) ==
  \/ v = Undef \/ a.tag = "unknown"
  \/ a.tag = "scalar" /\ a.const = NoConst
  \/ a.tag = "scalar" /\ v \in {Num(a.const), Num(a.const % M32)}
  \/ v.base = a.tag /\ v.map = a.map /\ (a.known => v.n = a.off)
  \/ a.tag = "mapval" /\ v = Null
InSlotOf(s) == IF width[s] = "w" THEN Num(slot[s].n % M32) ELSE slot[s]

(* Every block the run enters was taken to be reachable, and what was      *)
(* joined on entry, from the blocks that jump there, holds of the          *)
(* registers and of the stack.                                             *)
Described ==
  phase = "run" /\ at \in DOMAIN blockIn =>
    /\ blockIn[at].live
    /\ \A r \in Regs : Describes(blockIn[at].reg[r], reg[r])
    /\ \A s \in Slots : Describes(blockIn[at].slot[s], InSlotOf(s))

(* Where a pointer really points.                                          *)
Location(v, off) ==
  IF v.base = "stack" THEN InSlot(-(v.n + off)) ELSE In(v.base, v.map)

(* Every load and store is translated to the stack slot, or the region,    *)
(* that its pointer points to when it runs: whatever path led there,       *)
(* translate_ldx and translate_store never guess one.                      *)
AccessRight ==
  Running /\ There.op \in {"ldx", "st"} =>
    LET p == reg[IF There.op = "ldx" THEN There.src ELSE There.dst]
    IN  Allowed(p, There.off) => emitted[at] = Location(p, There.off)

(* Every helper call is translated to the map, the key and the value of    *)
(* its arguments when it runs.                                             *)
CallRight ==
  Running /\ There.op \in Calls /\ CallAllowed =>
    LET e == emitted[at]
    IN  /\ e.map = reg[1].map
        /\ e.key.kind # "const" => e.key = Location(reg[2], 0)
        /\ There.op = "update" => e.val = Location(reg[3], 0)

(* "The flags are checked, not assumed": an update that was translated is  *)
(* only ever called with BPF_ANY.                                          *)
FlagsRight ==
  Running /\ There.op = "update" /\ CallAllowed => reg[4] = Num(0)

(* An access to an array map that was translated for a constant key is     *)
(* only ever called with that key.                                         *)
KeyRight ==
  /\ Running /\ There.op \in Calls /\ CallAllowed
  /\ emitted[at].key.kind = "const"
  => reg[2].base = "stack" /\ At(reg[2], 0) = Num(emitted[at].key.key)
=============================================================================
