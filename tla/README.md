# TLA+ models of the BPF-to-IR translator

`bpf_to_ir` reads one BPF object file and prints it as a program of a network IR
(a parser, a chain of match-action transformers, a deparser, and the memory
regions they use). Two such outputs are then compared by an external
equivalence checker, so an unfaithful translation is a wrong verdict, and the
bad direction is a state or a path that silently goes missing. This directory
states what a faithful translation is, as TLA+ modules checked by TLC and
proved about with TLAPS.

## 1. Inventory of the system

| Part | State it keeps | Operations | Interacts with | Correct when |
|---|---|---|---|---|
| Control-flow lowering (`find_leaders`, `translate_program`, `push_transformer`) | leaders, block boundaries, `modules`, `had_error` | scan, one block at a time | every `emit_*` below supplies ops and arms | the chain, run once from top to bottom, steps through the program as the bytecode machine does |
| The chain (emitted program) | header `H_PC`, register, stack and scratch headers, regions | one transformer after another, first-match rules | the regions of the maps | ends halted; one transformer per pc |
| Abstract state (`RegInfo`, `AbsState`) | a tag, offset, map index and constant per register and stack slot, per block | transfer per instruction, join at block entry | decides region ids, stack headers, accepted flags and array keys | describes every concrete state that reaches the instruction |
| Hash-map helpers (`emit_tagged_lookup`, `emit_tagged_update`) | a region: presence bytes, tags, values, capacity byte | lookup, update (BPF_ANY), access through the returned pointer | the chain runs the arms | behaves as the kernel's map, from every initial region |
| Array-map helpers (`emit_array_lookup`, `check_array_key`, `emit_slot`) | a region indexed by key | lookup, update with constant key | abstract constants | no two keys share an entry |
| Map sizing (`probe_map_sites`, `size_maps`, `check_map_budget`) | sites per map, slots per map | throwaway pass, sizing, refusal | the other program of the pair, which it never sees | every map state two accepted programs can observe has a region |
| Conditions and synthesised ops (`emit_condition`, `emit_arsh_const`, `emit_bswap`, 32-bit ALU) | scratch headers | pure | bodies and decisions of the chain | equals the BPF operation at its width |
| Scratch and stack headers (`fresh_tmp`, `stack_header`) | pool cursor, slot to header | allocate, rewind | every `emit_*` | live values never share a header |
| Map discovery and BTF (`Btf`, `discover_*`) | map list, sorted by name | parse | sizing | same ids for the same source |
| Driver (`bpf_to_ir`, `Translator.run`) | options, exit code | one run | all | exit 0 only for a complete translation |
| The build (`Makefile`, `.DELETE_ON_ERROR`) | the `.ir` file | run, keep or delete | driver, checker | a file is there only if it is a whole translation |
| ELF reader, disassembler, s-expression text, `bpf_dump` | none | parse, print | driver | not modelled: pure I/O and formatting |
| Test driver `irrunner` | a child process, one file all programs are passed in, two pipes | observe, close | the evaluator, as a co-process | a report is whole and of the run asked for; no child is left behind |
| Sweeps (`mutation_sweep`, `witness_check`, ...) | none of their own | run the parts above over many programs | all | not modelled: they compare outputs |

What is hard here is mostly not concurrency (only the tests and their child run side by side) but:
the order of a chain that is run once; decisions that are read on entry only; a region that is
arbitrary on entry and shared by two programs translated apart; bounds (slots, sites, scratch
headers); operators synthesised out of others at the edges of words; a translator
that runs itself twice, the first time with its errors dropped; and facts tracked
about registers that must still be true when used. The list of hazards,
each with the line it is at, is in `PROJECT.json`.

## 2. The modules

| Module | What it is | Models |
|---|---|---|
| `Section` | the programs: sequences of instruction forms | what decoding a section yields |
| `Bytecode` | **abstract**: which instruction runs next | `tests/bpfvm.py`, the interpreter the property tests trust |
| `Lowering` | the leader scan, block and decision emission, then one run of the emitted chain | `find_leaders`, `translate_program`, `push_transformer`, the rules of `ir.py`; for the verdict, the exit status of `bpf_to_ir` |
| `MapCalls` | calls and their results, shared by the map modules | |
| `KernelMap` | **abstract**: a hash map as a program meets it | the kernel (external) |
| `MapRegion` | the region of a hash map, and the arms as patterns over it | `MapInfo`, `emit_tagged_lookup`, `emit_tagged_update` |
| `TaggedMap` | any sequence of calls and accesses on one hash map | `emit_map_lookup`, `emit_map_update`, loads and stores through value pointers |
| `MapPair` | two translations sized, budgeted, and compared on one region; composes `MapRegion` | `size_maps`, `check_map_budget`, `--map-slots`, the checker's use of them |
| `KernelArray` | **abstract**: an array map as a program meets it | the kernel (external) |
| `ArrayMap` | any sequence of calls and accesses on one array map | `emit_array_lookup`, `emit_slot`, `check_array_key`, the array arm of `emit_map_update` |
| `AbsDomain` | what is known of a register, and the join | `RegInfo`, `AbsState` |
| `Provenance` | the translation over that, then the run of the program; what the one decided against what the other does | `translate_alu`, `translate_ldx`, `translate_store`, `translate_ld_pkt`, the argument checks of the helpers; for the verdict, the exit status of `bpf_to_ir` |
| `Words` | words, their bits, and the bitwise operators put together from them | the masks and shifts of `tests/opeval.py` and `tests/bpfvm.py` |
| `Isa` | **abstract**: what one arithmetic instruction or conditional jump does to the registers | `tests/bpfvm.py` |
| `IrOps` | the IR's operations on headers, constants and match entries | `ir.py`, and `tests/opeval.py` for what they do |
| `AluOps` | one arithmetic instruction: the operations emitted, and their execution | `translate_alu`, `emit_arsh_const`, `emit_bswap` |
| `Conditions` | one conditional jump: the operations, the entry tested, the arm it selects | `emit_condition` |
| `ScratchPool` | the scratch headers of one call on a hash map, through the block and all arms | `fresh_tmp`, `emit_tagged_update`, `emit_slot_headers`, `copy_map_value`, `read_map_key` |
| `Instruction` | one instruction, from `translate_one` to its effect; composes `AluOps`, `Conditions` and `ScratchPool` | `translate_one` |
| `Btf` | the walk over an object's type records, and the chase that sizes a map | `btf.py` |
| `Driver` | one build: options, probe, translation, exit code, file; composes `Btf` | `bpf_to_ir`, `Translator.run`, `probe_map_sites`, `discover_btf_maps`, `add_map`, the `.ir` rule |
| `CoProcess` | the tests and the evaluator they keep as a child | `tests/irrunner.py` |
| `MCLowering`, `MCProvenance`, `MCInstruction`, `MCDriver`, `MCCoProcess` | the instances that are checked | |
| `LoweringProofs`, `InstructionProofs`, `ProvenanceProofs`, `TaggedMapProofs`, `ArrayMapProofs`, `MapPairProofs`, `DriverProofs`, `CoProcessProofs` | theorems on the modules they are named for (`DriverProofs` on `Btf` too) | |

### How state and actions correspond

*Lowering.* `i`, `leader` are the cursor and `is_leader`; `start` is the loop over
`block_start`, `mods` is `self.modules`, `error` is `had_error`. There is one action per
branch of `find_leaders` and one per kind of block `translate_program` emits; each
action does a whole iteration. `m`, `pc` are the position in the chain and header
`H_PC`; a transformer is entered when its guard holds, runs its ops and leaves by its
first matching rule, or its default rule lets the state pass. A decision's outcome
(`cond`) is chosen when the ops before it run, and read by the decision. Instruction forms stand
for classes of instructions: `bad` for anything `translate_one` reports, `jx` for a jump
`emit_condition` has no row for, `jne` for the forms whose arms are swapped.

*TaggedMap.* `region` is the cells of the region (`pres`, `tag`, `val`, the capacity byte
`full`), each free on entry; `held` the value pointers the program may have kept, as slot
numbers, since they are literal offsets. Each arm of a scan is an action, and its guard is the
arm's pattern together with the negation of the patterns before it.

*MapPair.* `SizeMap` is `size_maps` with the sites the throwaway pass counted,
`CheckMapBudget` the refusal. `Compare` picks any state of the kernel's map and looks for a region
that stands for it; the two programs then run from that region, one after the other, in lockstep
with the kernel's map.

*ArrayMap.* Only `val` is kept: an array's presence bytes are never read. A call that
`check_array_key` refuses is a call no action makes.

*Provenance.* `st` is the `AbsState` in the block, `blockIn` is `block_in`, `emitted` is
what each instruction was fixed to (a stack header, a region, a map, a constant key). `reg`,
`slot` and `width` are what the program really has there. An instruction is one action on each
side. A stack slot is a word of which an access may be to the lower half; the IR's
refusal to read a slot at another width is the phase `rejected`.

*Instruction.* An arithmetic instruction or a jump is emitted as a sequence of operations (`ops`,
for a jump also `entry` and `swap`) and these then run on headers (`hs`) that hold a value with its
width; the scratch headers start with anything. An operation on a header of another width gives an error
value, as in the evaluator. Words are scaled: a width is still 1, 2, 4 or 8 bytes, but a
byte has one bit, so a register has 8 bits and its lower half 4; the masks and biases of the code are
powers of two in the widths and scale with them. A call is followed as far as its headers go:
`tmp_next` is `self.tmp_next`, `mark` the point every arm rewinds to, `hdrOf` the header a value was
given while emitting and `tmp` what that header holds when the value is read.

*Driver.* `pc` is where `main` and `run` are, `pass` whether this is the throwaway pass;
the probe's `EndPass` keeps only the counts, as `probe_map_sites` does, and starts a fresh translator.
`error` is `had_error`; `said` records which pass printed. `target` is the file: the shell empties it
before `bpf_to_ir` starts, `Emit` writes it, `Made` is make deleting it after a failure. An object is
what it declares: types and their words, maps in the order of the symbols, sections with the calls in
them. Only the first section with code is translated, as in `run`.

*CoProcess.* One action per step of `_command` and `observe` (poll, write, read a line, see the end of
the file), one per step of `close`, and the child's own. The child is external: it is taken to
do what the commands sent to it ask for and to remember the file by its name, and may die at any moment.
Pipes are sequences of lines and the child blocks when its own is full.

## 3. The runs

| Run | Bounds | Shows |
|---|---|---|
| `lowering` | all programs of up to 3 instructions over 19 forms, of 4 over 9 | the chain **implements** `Bytecode`; it ends halted; guards are distinct; the verdict is right; a verdict and an end are always reached |
| `tagged_map` | 3 slots, 3 keys, 2 values, every initial region | the scan **implements** `KernelMap`; pointers stay valid; no update copies a key |
| `map_pair` | `MAP_SLOTS_MAX` 4, up to 3 sites a side, `max_entries` up to 5 | two accepted programs with the same region miss no state of the map and are answered as the kernel would |
| `array_map` | `max_entries` up to 4, slots up to 5, 6 keys | the calls **implement** `KernelArray` when computed keys are in range |
| `provenance` | some 26000 programs of 4 to 14 instructions | facts hold when used: accesses, calls, flags, constant keys |
| `instruction` | 8-bit registers, values around every boundary, all 4-bit immediates; the code's 64 scratch headers and up to 34 slots | an instruction is refused or **implements** `Isa`; registers stay whole words; live values never share a header |
| `driver` | up to 3 of 3 maps in any order, 2 sections, 3 calls, every option; all sequences of 4 type records | the file is a faithful program or absent; no failure is silent; the probe counts what the real pass uses; the walk stays in step; sizes are C's; the build ends |
| `co_process` | 2 programs, 2 seeds, pipes of 2 lines, reports of 1 and 3 lines, a death at any moment | reports are whole and right; nothing is left in the pipes; every observe ends; no child outlives the tests |
| `array_map_computed`, `provenance_summed`, `provenance_halved`, `alu_signed` | as the runs beside them | *findings* |

Why these are enough. *Lowering*: the chain is built block by block and a block looks only
at its own end and at its targets; four instructions hold two decisions that meet again, a jump
over a block, dead blocks, a backward jump, a jump to the end of the section and one into an
LD_IMM64. *Tagged map*: with three slots a key can be in two of
them with another between, and a free slot can lie before, between or behind filled ones; two
values tell a stale one from a fresh one. *Map pair*: two or three sites a side against up to four
slots passes and fails the budget on either side of the boundary, with `max_entries` below, at
and above the slots. What these three show for small sizes is proved for any.
*Array map*: the sizes include slots below, equal to and above `max_entries`, and keys beyond both.
*Provenance*: the programs hold each way a fact can be made, moved, spilled, read back
and joined, followed by each way it can be used; words are three bits with a two-bit lower half, so a
constant can exceed both, and the stack has two slots. A longer program only
repeats joins of the same facts. *Instruction*: with one bit to a byte the two widths, both signs, the shift
amounts up to the width and beyond, and every immediate of the width are there, and each operator's edges
lie within the values chosen (zero, the signs' boundary at 4 and at 8 bits, all ones); what a byte swap
needs of a byte is that it moves whole. The pool is not scaled: 26 to 34 slots lie on both sides
of where 64 headers are used up, for each place of the key and the value. *Driver*: two
regions for three maps passes the limit on maps; a slots option of 2 with up to
three uses of a map fails the budget and passes it; four type records hold a qualifier chain longer
than `strip` follows, arrays of arrays, and each kind of record before a map's type. *Co-process*: a report
longer than the pipe blocks the child in the middle of it, and one program follows
another in the same file.

Deadlock is checked where the model never stops (`tagged_map`, the array runs). The others stop:
when the run of the program is over, or the translation refused; when both programs have made
their calls; when the build is made; when the tests are over.

**Fairness.** `lowering` and `driver` assume `WF_vars(Next)`: the translator is one
sequential call over a finite input, make waits for it, and the IR's evaluator runs a finite chain once; nothing waits for
anything else, so the assumption is only that a step which can be taken is. `co_process` assumes
weak fairness of the tests' own next step, of the child's, and of the expiry of the five seconds
of `close`: each side is a process the system schedules. It does not assume that a test
ever starts a run, that the tests end, or that the child dies or lives. `Observed` then rests on the child
answering or dying; a child that lives and hangs is not ruled out by the code, which reads
without a timeout, and is excluded by the assumption on the child.

**What the models take from outside.** `KernelMap` keeps one element per key and lets an
update of a present key write that element; a kernel that replaces the element instead gives
the same answers to later calls, but a pointer held across such an update would see the
old value there and the new one in the model. `KernelArray` is what
`emit_array_lookup` says of arrays. `Provenance` runs only what the kernel's verifier lets
a program do, listed in its header; of these, that accesses at different stack
offsets do not overlap is a limit of the translator's stack model
(src/README.md:538), and that a NULL takes no part in arithmetic is assumed. `Isa!Defined` likewise
leaves out encodings the verifier refuses. The words of `Btf` are what the format lays down
for each kind.

**A note on the last arm.** src/README.md:313-317 and `emit_map_update` call the arm where no
slot is free and the capacity byte is clear an invented behaviour, since the kernel's map would still have room.
In `TaggedMap` that arm is a map with no room: the region stands for a map that is full, just
as with the byte set, so the arm adds nothing the kernel cannot do.

## 4. What is proved

All proofs are checked by TLAPS for every value of the constants, under the assumptions the
modules name:

| Assumption | Says | Because |
|---|---|---|
| `ProgramsAssumption` (`Section`) | a program is not empty and has an upper half exactly behind each LD_IMM64 | sections of size 0 are passed over; an assembler writes both halves |
| `ProgramsAssumption`, `InputsAssumption` (`Provenance`) | instructions have their operands, immediates are sign-extended half words, jumps go forward inside the program | the encoding; `translate_program` refuses other jumps, which `VerdictRight` shows |
| `WordsAssumption`, `StackAssumption` (`AbsDomain`) | the size of a word is a multiple of that of its half; the stack has a number of slots | 2^64 and 2^32 in the code |
| `NslotsAssumption`, `NSlotsAssumption`, `KeysAssumption`, `ArrayAssumption`, `BoundsAssumption`, `AbsentAssumption` | slots, keys and sizes are numbers, slots at least one (in `Provenance`, at most what a 32-bit field holds); there are at least as many keys as two programs have sites; the absent mark is no value | `MapInfo`, `size_maps`; a slot that is free holds a mark of its own |
| `ObjectsAssumption` (`Driver`) | the type section holds the words of the types, references are to types that exist, and no array or qualified type is made of itself | a compiler wrote it; a truncated or cyclic section is not covered by the theorems on sizes |
| `LengthAssumption` (`CoProcess`) | a report has some number of lines | |
| `WordsAssumption` (`Instruction`) | a byte has bits, and the bits of a word and of its half divide their moduli | a byte has 8 bits (any power of two would do); the code reduces a shift amount before the width is applied, the interpreter after |
| `RegsAssumption`, `PoolAssumption` (`Instruction`) | there are between 1 and 20 registers, at least three scratch headers for an instruction, and slots are numbers of at least one | 11 and 64 in the code; 20 is where the header numbers of the registers would meet those of the scratch headers |
| `ValuesAssumption` (`Instruction`) | registers start as words, immediates are integers, scratch headers hold any width and any value | the encoding; nothing is assumed of what an earlier instruction left |

- **`LoweringProofs`.** `TypeCorrect`; `Forward` and, from it, `HaltedAtSink`: the deparser is
  only reached with the program halted. `HaltAtSink` says nothing before the end, so it is
  not inductive. `ForwardInv` is: every jump the scan has passed has cut the section at its target
  (`JumpsCut`); every pc a transformer leaves is halt, or guards a later transformer, or
  belongs to a block still to be emitted (`ChainForward`); the pc of the run likewise
  (`RunForward`). The third case disappears when the last block is emitted, so at
  the sink only halt is left.
  `GuardsDistinct`: a new block's guards are those of an instruction no emitted
  transformer starts at, since blocks are emitted in order (`GuardInv`). `VerdictRight`: the
  verdict follows from where blocks start. `VerdictInv` says that the scan has cut the section behind
  every instruction that ends a block (`CutBehind`) and nowhere but there and at targets (`LeadersFrom`),
  that every instruction before the next block has a lowering unless an error was reported, and that
  an error has a reason in the program (`Refusal`). The first two together show that a block never has a jump in
  its middle, and that a block starting on an upper half means a jump into an LD_IMM64.
  `Refinement`: the chain of transformers implements the bytecode machine. The
  invariant has two further halves. `ShapeInv` relates each transformer to the program: a body
  holds instructions that go on to the next one, up to the one that ends the block, and leaves to where that
  instruction goes, or to the decision right behind it, whose arms lead where the instruction
  does for either outcome. `RunInv` says where the run is: inside a body whose guard is the pc
  (`Inside`), at a decision with its outcome known (`Deciding`), or on its way to a block with none pending (`Between`).
  Each action of the run then either moves the program by one instruction or leaves it where it is.
  That a skipped transformer loses nothing is not part of this theorem but of `Forward`.
- **`TaggedMapProofs`.** `TypeCorrect`; `PointersStable`; `NoNewCopies`; and `Refinement`: the scan
  implements the kernel's map from *every* region, with keys in several slots, junk presence
  bytes, or capacity and free slots that disagree. The inductive facts are the type
  invariant and `HeldStable`, that a held slot is the first filled one of its key; without it a
  store through an old pointer need not be a store to the map. The rest is counting: claiming a free
  slot takes one from the room.
- **`ArrayMapProofs`.** `TypeCorrect`, for any program; `Refinement`, for programs
  whose computed keys are in range. The argument is that the modulus is the identity wherever
  `check_array_key` accepts.
- **`MapPairProofs`.** `NothingDeleted`: an accepted program has at most half as many sites as slots
  (`PairInv`), so two of them observe at most as many keys as there are slots, and the present keys with
  as many absent ones as there is room for always fit. `PairAgrees`: the region and the kernel's map answer alike.
  The invariant is `StandsFor`: each present key has exactly one filled slot, with its value, and there are as
  many free slots as absent keys, or as there is room for; counting alone would not do, since an insert must find a free
  slot exactly when the kernel has room. That the first region stands for the map is a bijection between the
  present keys and their ranks. `AutoSizing`: what automatic sizing refuses cannot be had.
- **`ProvenanceProofs`.** `KindsKnown` and `ConstantsKnown`: what the translator knows of a register or a stack
  slot is so at every instruction, on every path. `Described` is not inductive, since it speaks of block entries
  only, and an abstract state inside a block is forgotten once it is translated. The invariant
  `IInv` therefore asserts that there is a *trace* A of abstract states, one to an instruction, such that each instruction was
  accepted, and fixed to what `emitted` has, in its state; that A is what was joined at each leader; that
  the state behind an instruction is the next in A, or is covered by what the leader it goes to was joined to
  (`Follows`); and that the run's registers and stack are described by A at the run's instruction
  (`Knows`). The blocks' entries only grow weaker, so later joins keep this, and as jumps go forward no block's
  entry changes after the block was translated (`Entered`). The invariant comes in two strengths. The first, "kinds",
  holds of every program and is tags, offsets and maps: from it `TypeCorrect`, `AccessesRight` and `CallsRight`. The
  second, "constants", is not true of the code, as finding 2 shows; it is proved, with
  `BlocksDescribed` and `FlagsChecked`, for the behaviours in which no immediate is added to a known constant
  (`SumsNoConstant`), and `KeysRight` for those in which besides no half word is stored over a number
  (`NumbersNotHalved`, finding 3). So what the two findings describe are the *only* ways these properties fail. Both hypotheses hold throughout
  the run `provenance`, whose invariants are then no special case, and each is what one of the
  runs `provenance_summed` and `provenance_halved` breaks.
- **`DriverProofs`.** All safety invariants of `Driver`.
  `NeverUnexplained`: exit code and diagnostics agree. `DriverInv` ties, in the pass
  that translates, `had_error` to what that pass has printed, and says that the probe never prints as
  that pass; the exit code is 2 for the first and 1 where `run` prints and gives up.
  `CountsRight`: the state of a pass without slots and errors (`At`) has one successor (`Turn`), so both
  passes follow the same trace from `Begun`. `TraceInv` says that the probe is at the end of a trace and, in the second pass,
  that `hint` is what the trace of the whole probe counted and the pass is at one of its states.
  `WalkRight`: the offsets of the records are those of a concatenation (`Flattened`, `LaidOut`), and `Reached(n)` says that n
  records were read and the walk is at the next; a step is right because `extra` is the length of
  `Data` for each kind and a header is never cut off.
  `SizesRight`: where references are well-founded (`Sound`), the recursions of `strip`, `size_of`, `CBare` and `CSize` all follow one
  map from a type to what it is made of (`Iterated`, `Followed`); `StripSays` says that `strip` finds what is behind the
  qualifiers or, where there are too many, nothing, and `SizeFound` that the size is C's or 0, which
  `add_map` does not accept.
  `BuildFaithful`: the maps have distinct names, those of the declarations as long as nothing was reported (`MapsInv`), sorting them
  exists and keeps them (`Ordered`, `Sorts`), and each call is the index its symbol has among them (`CallsInv`).
- **`CoProcessProofs`.** `ReportCorrect` and `StaysInStep`, for every set of programs, length of report and
  size of pipe. `CoInv` says where the answer to the command being exchanged is: what was read, what is in the
  pipe and what the child has still to write are together the report and the dot; and that between the
  forgetting and the run the child remembers nothing, so it reads the file, which holds the program
  wanted.
- **`InstructionProofs`.** All three properties of `Instruction`.
  `ScratchReadsRight`: `PoolInv` says which headers the values of a block have (`Given`: their place in it,
  counted from the start), which of them are filled so far (`Kept`), and that every arm starts at the mark,
  behind the block, so what it takes anew is never among what its decision or a later arm still reads.
  A call that has reported an error is not claimed about; the report is made exactly where a header would be
  taken that is not there.
  `InstructionRefines`: for every instruction without an off field, and every jump, the emitted operations and the tested
  entry implement `Isa`; `InstructionTypes`: the registers stay words. Both rest on one inductive invariant,
  `CodeInv`: registers hold words, the operations are those emitted for the instruction, and behind a jump's operations
  the entry and the swap of the arms decide as the kernel would on the *present* registers. Types alone would not be inductive,
  since that a 32-bit operation is widened again depends on which operations are about to run. The arithmetic is
  in `AluMeans` and `JumpMeans`: for an arithmetic instruction that is not refused, its operations, run on *any* headers, leave the
  kernel's result at full width in the destination and the other registers alone; for a jump, they change no register and the
  entry decides right. Under them are lemmas about words (`Exp2Sum`, `BitIs`, `AndMask`, `OrDisjoint`, `XorTop`: a mask is a
  remainder, an or of words that share no bit is a sum, flipping the top bit adds or subtracts it), about
  sequences of operations (`ExecJoin`), and one for each synthesised operator: `ArshRuns` (the sign multiplied by the mask is
  what a floor division of a negative number adds), `SwapMeans` (the accumulator after i bytes is what `Isa!Swap` has after
  i, shifted up), `SideIs` and `DecidesRight` (the signed order is the unsigned one of biased values).
  With an off field the refinement is false, which is finding 4; `NoOff` is the only hypothesis, and the run
  `instruction` satisfies it.

Induction over data, which the library's theorems state for an operator the provers cannot instantiate, is done in
these proofs through a *set* of numbers: the numbers at which a claim fails have a least element if there are
any (`Smallest`, from the library's fact that the order of the naturals is well-founded), and that one
refutes itself. The same is done for the types of an object, where `Sound` says that every set of them has a
member not made of another of the set. A recursive function of TLA+ is then unfolded at one argument at a time.

To be proved about, the bitwise operators are not those of the community module, which are recursive operators,
but sums of bits over a recursive function (`Words`).

Two of these proofs corrected the model. In `Provenance`, the cases of `Written` overlapped, so that a whole-word store of a number over a
number had two results to choose from; they exclude each other now. In `Btf`, what sizes C gives types made of themselves was
left open; what a compiler writes is now an assumption of its own (`Sound`), evaluated on the instances. `Faithful` says that the regions are in the
order of their names, where it used to name a sorting function.

Only model-checked: `Terminates`, `Observed`, `NoOrphan` and `Ends`, since liveness under fairness is out of
the prover's reach. Every other property of a passing run is a theorem, five of them (`FlagsRight`, `KeyRight` and
`Described` of `Provenance`, `Implements` of `ArrayMap` and of `Instruction`) under the hypotheses that the findings
show to be needed.

## 5. Findings

1. **An out-of-range key of an array map is never NULL** (`array_map_computed`,
   `HitInRange`). `emit_array_lookup` compares the slot, already reduced modulo `nslots`, with
   `max_entries`; with a computed key the two are only accepted equal, so the test always holds and
   the lookup returns another key's entry.
2. **A known constant survives the addition of an immediate** (`provenance_summed`,
   `FlagsRight`). `translate_alu` handles `ADD64` of an immediate for pointers only; a scalar
   keeps its old constant. An update with flags 1 is translated as one with flags 0, and an array
   key is taken to be the one before the sum.
3. **A store over half of an array key is taken for the whole key** (`provenance_halved`,
   `KeyRight`). The slot becomes the stored constant whatever the width, and since a constant
   key is not read back, the width check of the IR never happens.
4. **The signed forms of version 4 are taken for the plain ones** (`alu_signed`, `AcceptedMeansSame`).
   `translate_alu` does not look at the off field, which makes DIV and MOD signed and MOV sign-extending; the
   instruction is lowered as the unsigned one, without a diagnostic.

Seen while modelling, without a run of their own:

- The advice of the budget's refusal, "Raise --map-slots to ..." (src/pybpf/translate.py:1071), need not
  help: slots are capped by `max_entries` and by 28.
- 28 slots are said to be what fits (src/pybpf/translate.py:32-37, src/README.md:365-366). An update
  of a 28-slot map whose key is in a region and whose value is copied byte by byte needs 65 of the
  64 scratch headers and is refused; nothing wrong is emitted (`ReadsRight` holds).
- The throwaway pass is described as silent (src/pybpf/translate.py:1896-1897), but where `run` itself prints
  and gives up, a build with `--map-slots=auto` prints twice. `Explained` therefore disregards what the
  probe says.
- src/README.md:360-365 reads as if maps were always sized from their sites; `bpf_to_ir` does so with
  `--map-slots=auto` only, and its default is 4.
- Also by fields nobody reads, a sign-extending load (MEMSX) is lowered as a zero-extending one and the
  32-bit form of the unconditional jump is taken for a jump by its 16-bit offset. Neither is in the models.

## 6. Not modelled, and what is left

Not modelled, and not planned: the byte level of the ELF file and of relocations, legacy maps (fields
read at fixed offsets), the disassembler and
`bpf_dump`, the rendering of s-expressions (pure input and output); the sweeps of the tests, which run the
parts above and compare what they print; the equivalence checker
and the IR's evaluator, which are not in the repository and appear only as what uses the output.

Partly modelled: `Provenance` has the instructions whose effect on the abstract state differs, the others being
plain scalars; `ScratchPool` has the calls on hash maps, the only instructions that come near
the end of the pool.

Left, in this order:

1. The instructions of version 4 in `Lowering` and `Provenance`, once the translator tells them apart.
2. One run of several instructions over `AluOps` and `Conditions` together, for scratch headers that
   outlive their instruction.
