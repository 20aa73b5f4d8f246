# Mocker: a verification project

Mocker is a multi-hart RV32I emulator in C++: an assembler, a flat memory with
per-hart slots, an interpreter, a kernel written in C++ that handles traps and
system calls, and a round-robin scheduler with a timer. This directory holds
TLA+ modules translated from that code, TLC configurations that model-check
them, and TLAPS proofs of their main properties.

## The system

| Component | State | Operations |
|---|---|---|
| Scheduler (`scheduler.h`) | `harts`, `totalSteps`, `timerTick`, per turn `ran` | `spawnHart`, `run` |
| Kernel (`kernel.h`) | one message queue per hart | `handleTrap`, `doMRet`, `handleSyscall` (7 calls) |
| Hart (`cpu.h`) | state, mode, registers, pc, CSRs, `timerPending` | `init`, `deliverTrap`, `executeOne` |
| CSRs (`csr.h`) | mstatus, mepc, mcause, mtval, ... | `trapEnter`, `trapReturn`, `interruptsEnabled`, `read`, `write` |
| Memory (`memory.h`) | `data[MEM_SIZE]` | `check`, raw and protected accessors, `loadProgram` |
| Encoding (`encode.h`) | none | encoders, immediate decoders, `signExt` |
| Assembler (`assembler.h`) | `program`, `labelDefs`, `patches`, `hasError` | `loadFile`, `assembleLine`, `resolveLabels`, `finalise` |
| Boot (`main.cpp`) | `files`, `mgr.cfg` | parse the arguments, assemble and spawn each file, `run` |

**Interaction.** The emulator is a single thread. `run` gives each RUNNING hart a
turn of at most `quantum` instructions; each call of `executeOne` retires an
instruction, halts the hart or delivers a trap (to M-mode, saving the old state
in the CSRs). After every call `run` counts a tick and, every `timerInterval`
ticks, marks all RUNNING harts with a pending interrupt; then it lets the
kernel handle a trap, which ends the turn. The kernel returns to the guest,
stops the hart, or, for a RECV on an empty queue, blocks it until a SEND of
another hart makes it RUNNING again. Before that, `main` assembles each file of
the command line for the slot the next hart will get; assembler and interpreter
share nothing but `encode.h`.

**What is hard.** Harts interleave at quantum, trap and timer boundaries that no
test enumerates. The timer may mark a hart between its trap and the handling of
it. Blocking and waking rely on an ecall being executed twice. The step limit
is tested in one place only, and nothing else ends a run. Slots are protected by
a check of the first byte of an access. The assembler remembers places in a
program that is still growing and fills them in later; immediates are scattered
over a word in one file and collected in another. Refused and faulty files shift
ids and addresses. `PROJECT.json` lists these hazards with
their lines and the properties that watch them.

**What makes each component correct.**
Scheduler: bounded starvation, a bounded run, stopped harts stay stopped, a turn
touches nobody else. Kernel: no lost wake-up, FIFO delivery, a blocked hart
resumes at its call, a hart is faulted only for what it did. Hart and CSRs: guest
code never runs in M-mode, and traps and interrupts are invisible to it. Memory:
guests stay in their slots, the kernel region is intact, loads return what was
stored, programs are loaded intact. Encoding: what goes into a word comes out of
it. Assembler: every reference leads to its label, nothing else is touched, the
verdict is exact, and an instruction does what its mnemonic says. Boot: every
argument is accounted for, a program is assembled for the slot it gets, nothing
runs unless all files assembled.

## Modules

- `MemoryMap`: sizes as constants, slots, and `check`.
- `Csr`: what a trap saves and a return restores. `mstatus` is its three fields.
- `GuestIsa`: what a program is to the emulator. A slot image gives the word at
  every offset and `Decode` its class (halt, alu, jump, load, store, ecall,
  ebreak, mret, csr, illegal).
- `Cpu` EXTENDS both: the harts, and one action for each way `executeOne` can go.
- `Kernel` EXTENDS `Cpu`: the queues, and one action for each way `handleTrap` can go.
- `Scheduler` EXTENDS `Kernel`: the loop of `run`; `phase` is the place in it.
  This is the composition of the four components and holds their properties.
- `GuestMachine`: the abstract specification. Sequential harts with atomic system
  calls and FIFO mailboxes; no traps, modes, interrupts, quanta or rounds.
  `Scheduler` implements it (`ImplementsGuest`) under the mapping that takes a
  hart in M-mode to the instruction that trapped (mepc) and undoes the casts of
  queued values.
- `ProtectedMemory` EXTENDS `MemoryMap`: memory byte by byte. Programs are spawned,
  then harts load, store and print in any order.
- `Word32`: int32_t and uint32_t as sets of bit positions, with the C++ operators
  on them.
- `Encode` EXTENDS `Word32`: the encoders and decoders of `encode.h`.
- `Datapath` EXTENDS `Encode`: the switch of `executeOne` as a function of a word,
  the registers and the pc.
- `Assembly` EXTENDS `Encode`: what one line is assembled to, the references it
  leaves, its errors, and how one reference is patched.
- `Instructions` EXTENDS `Assembly` and `Datapath`: one source instruction from its
  text over its words to its effect, against the meaning of its mnemonic.
- `Assembler` EXTENDS `Assembly`: a whole file, line by line and patch by patch.
- `Boot` EXTENDS `MemoryMap`: `main` up to the call of `run`.
- `MCScheduler`, `MCProtectedMemory`, `MCInstructions`, `MCAssembler`, `MCBoot`: small
  instances for TLC.
- `MemoryMapProofs`, `MemoryProofs`, `EncodeProofs`, `BootProofs`: the theorems about these
  modules. `SchedulerProofs`, and on top of it `RefinementProofs`: the theorems about
  `Scheduler`. `AssemblerProofs` and `InstructionsProofs`, on top of `EncodeProofs`: those
  about `Assembler` and `Instructions`.

Operators whose name carries a suffix (`check_InclusiveTop`, `SysSend_NoWake`)
are plausible slips in the operator that follows them. They belong to no
specification; they serve to show that a property notices the slip.

### Correspondence and abstractions

- `harts` is `HartManager::harts`, `queues` is `Kernel::queues`, `cur` the hart of
  the range-for, `ran`, `totalSteps` and `timerTick` the locals of `run`, `ok` the
  value `executeOne` returned. `lost` (turns in a row lost to interrupts) and, in
  `ProtectedMemory`, `loaded`, `stored` and `last` are history variables.
- In `Scheduler`, registers are those the kernel uses (a0, a1, a7). What an
  instruction computes, where a jump goes and what address an access uses are
  inputs from `RegInputs`, `Targets` and `Addresses`: every guest that could
  compute these values is covered. An instruction that computes a value leaves any
  register file of `RegInputs`, or the old one when rd is none of the three
  (`Computed`). A jump may link: JAL and JALR put pc + 4 into rd, which is a0, a1, a7
  or another register, and a branch writes nothing (`Linked`). Registers hold -Half .. Half-1 and messages
  0 .. 2*Half-1, with the casts between them (Half is 2^31 in the code).
- Slot images do not change, so guests that overwrite their code, and stores
  that cross into a neighbour's code, are outside `Scheduler`. The image covers
  offsets that are not multiples of four, because the fetch does not check
  alignment.
- `timerInterval` <= 0 behaves as 1 in the code; `Scheduler` takes it as positive.
- Instructions executed in M-mode: `ExecMret`, `ExecEcall` and the memory id have
  their M-mode branch; the M-mode CSR instructions have none. That none of them
  is ever taken is `UserModeOnly`.
- In `ProtectedMemory` harts act in any order and may act after a fault, which
  includes all orders of `run`. A register is its uint32_t value, a byte has B
  values.
- Words in `Word32` and the modules above it are full 32-bit words, so nothing is
  scaled; `Scheduler` keeps its small registers, because there only the values
  the kernel looks at matter. `Datapath` gives the data that are input there.
  A load or store ends in `Datapath` in the access it asks for; `ProtectedMemory`
  carries it out.
- An operand of the assembler is what its parsers make of it: a register, a
  number, number(register), or other text. A label is a stem and the number of
  `__lo` at its end, which is all `resolveLabels` looks at. `Odd` are the stems
  with characters other than letters, digits and `_`: they can be defined on a
  line of their own but not before an instruction. A line may stand for many
  equal ones, so that labels 4 KB away need no long source.
- Assembling a repeated bad line, and `dump`, change nothing but the output. A
  file with an error is never patched (`loadFile(...) && finalise()`).
- In `Boot` a file is what assembling it yields: a number of words, a failure, or an
  exception (`Throwing`: `parseReg` hands a register number of any length to `stoi`,
  which throws when it does not fit an int). `stoi` is the number an argument begins
  with; without one it throws. Nothing catches either, and the process ends ("abort").
  `asm` is `main`'s Assembler with the base it was given; between phases "load" and
  "spawn" control passes from `main` to `spawnHart`, which works out `id` and `start`
  (its own `base`) afresh. A hart keeps both, its pc and the base of its program.
- Left out: console output, traces, `round`, `steps`, `cycle`, mip, mie, mhartid,
  the stack pointer, none of which any decision reads.

## Runs

| Run | Checks | Result |
|---|---|---|
| `safety` | two harts, all instruction classes and system calls; all safety and action properties (`StarvationBound` and `CallsCounted` among them), `ImplementsGuest` | holds |
| `ipc` | three harts sending and receiving, under `FairSpec`; `NoLostWakeup`, `ImplementsGuest`, `FinishesOrStalls` | holds |
| `memory` | loader, loads, stores, PRINT_STR at the slot boundaries | holds |
| `instructions` | every mnemonic at the edges of its operands; `MeansWhatItSays`, `NeverHalts` | holds |
| `assembler` | four lines in every order; `LabelsResolved`, `OthersKept`, `VerdictExact`, `TypeOK` | holds |
| `boot` | command lines of up to four arguments; `ArgumentsAccounted`, `RunsWhatFits` | holds |
| `timer` | `TimerStaysEnabled` | violated |
| `stall` | `StallEndsRun` | violated |
| `starve` | `NoStarvation` with timerInterval = NHarts + 1 | violated |
| `slot` | `OwnSlotOnly` | violated |
| `misaligned` | `FetchesAligned` | violated |
| `far` | `BranchesReachLabels`, a label out of reach | violated |

**Bounds.** Slots have four words, code at most three of them: enough for a loop,
two calls in a row and running off the code. Two harts give every pair of sender
and receiver and self-sends; three give two senders to one receiver and a hart
that runs between a block and its wake-up. A quantum of 2 lets a turn end by
exhaustion and by a trap in its first or second instruction. The interval (4, and
7 in `ipc`) is short enough to fire once or more before `maxCycles` (12, and 9 to 14 in
the violated runs; it is the only bound on the length of a run and the program's own). In `safety` a round of the other hart
takes up to Gap = 3 ticks, so `StarvationBound` allows three turns lost in a row; two
are reached. Memory has two slots of eight bytes and the
least size the map allows, so that the last word that may begin in a slot ends
in the last byte of memory; two accesses suffice for a store followed by a load or
a print by either hart. `MaxFiles` = 3 exceeds MAX_HARTS = 2.

`instructions` uses immediates at both ends of a 12-bit field and one beyond, shift
amounts up to 31, li values at every place where the rounding of the upper part
changes, and label distances at the ends of a branch's and a jump's reach; register
values are chosen so that the integers of the reference meaning stay in TLC's
range. The theorems about `Instructions` have none of these bounds. Four lines (`assembler`) are enough for a label defined before and after its
use, defined twice, and for an la, a jump and a
branch in any order with a line of two words between them. In `far` runs of 1022
nops put labels one word inside, at and outside 4 KB on both sides. `boot` has two
slots and command lines of four arguments: three files for two slots, an option
with its value and two files, options given twice.

**Fairness.** `FairSpec` is WF(Next): the emulator is one thread inside `run` and
keeps executing. Nothing is assumed about which hart runs; that is the loop's own
doing. `Terminated` stutters after `run` has returned; deadlock is checked in
every run.

### What the violated runs show

1. `timer`: a RECV that blocks leaves the trap without `trapReturn` (kernel.h:181).
   MIE stays 0, the repeated ecall saves that 0 as MPIE, and from then on every
   return restores 0: the hart is never interrupted again, against "Timer
   interrupts enabled by default" (cpu.h:54). `InterruptsKept` (run `safety`, and proved)
   says that this RECV is the only step that does it.
2. `stall`: harts that all wait keep `run` going round and round, and the step limit
   does not help because a round without instructions counts no steps. The
   repository's README has the loop as `while (anyHartRunning())`.
3. `starve`: the tick an interrupt uses counts towards the next one. If
   timerInterval is not larger than Gap = 1 + (NHarts - 1) * quantum, a hart can be
   interrupted at the start of each of its turns for ever, while the others, whose
   interrupts are off after a blocked RECV, run full quanta; against "no starvation"
   (README.md:461). With the default values (32 and 8) `StarvationBound` allows 1, 2 and
   4 turns lost in a row with 2, 3 and 4 harts, and nothing bounds them with more.
4. `slot`: only the first byte of an access is checked, so a word at the end of a
   slot reaches up to three bytes into the next one, against "may only access its
   own slot" (memory.h:53). `SpillBound` and `InBounds` say how far it goes.
5. `misaligned`: the fetch asks `check` for a LOAD, so its "misaligned fetch"
   (memory.h:91) is never given and a jump off a word boundary is executed.
6. `far`: a branch to a label more than 4 KB away is assembled with the offset cut
   to 13 bits, and goes elsewhere, without an error. `LabelsResolved` says that
   what is in reach is right (`MeansWhatItSays` tries both ends of it).

### Seen while modelling, without a run of their own

- A patch whose label ends in `__lo` is skipped (assembler.h:255), also when it is not
  the second half of an la: the jump stays a jump to itself and no error is given.
  `LabelsResolved` and `VerdictExact` except these labels, and so do their theorems.
- A program that is too large is passed over, and the files after it get the ids
  and slots of their predecessors (main.cpp:43); `RunsWhatFits` says exactly which.
- A text that is no number counts as 0 (assembler.h:70): `li a7, SEND`, as the
  repository's README has it, loads 0. Immediates that do not fit are cut.
- `jalr x0, 0(x1)`, `csrw mtvec, x1` and `csrrw x1, mstatus, x2` of that README are
  refused: jalr wants three operands, csrw does not exist, and the CSR is the
  last operand and a number.

## Proofs

All theorems hold for every value of the constants that satisfies the named
assumptions: `MemoryMapAssumption` (slots fit in memory with three bytes to
spare), `IsaAssumption` (among others: registers hold every address a jump
may link), `NHartsAssumption` (1 .. MAX_HARTS harts),
`ConfigAssumption`, `ByteAssumption`, `BootAssumption`, `AssemblerAssumption` (what a line
of source can be), `InstructionsAssumption` (operands are what the parsers return, x0 is 0,
label distances are even). TLC evaluates them in the runs of the modules that state them.

`SchedulerProofs` proves `TypeOK` first; it is inductive by itself. `UserModeOnly`,
`NoLostWakeup`, `ResumesAtRecv` and `FaultJustified` are not: that a blocked hart
stands at a RECV depends on the trap being handled having come from the ecall at
mepc, and that a return goes to U-mode depends on what mpp was set to several
steps earlier. `IndInv` adds the link: `mpp` is always U; between `executeOne` and
`handleTrap` (`CallOK`) the current hart is either halted or `Trapped`, i.e. RUNNING
in M-mode with a cause that the instruction at mepc justifies. `ExecOutcome` shows
that each way of `executeOne` establishes it, `HandleOutcome` that each way of
`handleTrap` uses it up, `Frame` that the other harts keep what is known of them.
The proof that a fault is justified rests on `CheckIsSlot`: for a hart in U-mode,
`check` refuses exactly the addresses outside the slot. `StoppedForGood` and
`OthersUntouched` follow from the same invariant through `StepTouches`.
`StepBudget` has an invariant of its own, `BudgetInv`: at hart `cur` the counter is
below maxCycles + cur * quantum + ran. `CallsCounted` needs `CallsInv`: from the
call that traps to the end of its handling the call has been made and its message is
not queued yet, unless the trap is an interrupt, which queues none and may have lost
the hart its turn.

Its last section proves `StarvationBound` from `LossInv`. `Elapsed(h)` bounds the ticks
since hart h's last call began, from the place `run` is at. A hart that can be interrupted
and has an interrupt pending got it within that time (`DueOK`), because a pending
interrupt is taken at its first call. Between two turns lost in a row the timer has run
through an interval while Gap ticks at most were counted, so each of them moves it
back by timerInterval - Gap (`LostOK`). The lemmas on what each way of `executeOne` and
`handleTrap` does to MIE and MPIE (`ExecFlags`, `HandleFlags`) also give `InterruptsKept`:
seen from the guest, MIE is changed by a blocking RECV and by nothing else.

`RefinementProofs` proves `ImplementsGuest`. `InitSimulates` maps the initial states;
`ExecSimulates` and `HandleSimulates` take every way of `executeOne` and `handleTrap` to a
guest step or to a stutter. Taking a trap is invisible because mepc is where the guest
stands; the guest's step is the trap's handling. A RECV that blocks only makes
the guest wait; the repeated ecall is its step. Besides `IndInv` the proof needs
`AddrInv`: a pending access fault carries an address the guest could have asked for.
`MailboxAppend` and `MailboxTail` show that queues with their casts are the guest's
mailboxes.

`MemoryProofs` proves `KernelIntact`, `InBounds`, `PrintConfined` and `SpillBound`
from `MemInv`, for any number of accesses; `TypeOK`, `BootImage` and `ReadBack` from
`ContentInv`. `BootImage` is kept by later programs because memory above the last slot
given is still zero (`ClearAbove`). `ReadBack` rests on the bytes of the last store still
being there (`HeldBytes`), and on the arithmetic that splits a word into bytes and puts
it together (`BytesOfWord`, `LoadOfStore`) and extends its sign (`SignExtBack`), for any
number of values of a byte.

`BootProofs` proves the two properties of `Boot` from `BootInv`: the arguments read so
far split into options, values and files (`ParseInv`), the harts spawned so far are
the files that fit among those tried (`LoadInv`), and each starts at the base it was
assembled for (`BasesOK`). The first two say so with the function that takes a file, or
a hart, to its place, which every step extends. The third needs that no hart is added
between `Assemble` and `Spawned`, so that the base `main` has passed to the assembler is
still the one `spawnHart` works out (`ShapeOK`, phase "spawn").

`EncodeProofs` proves for each of the six formats that decoding undoes encoding,
whatever the fields hold: first where each bit of each argument goes (`BitsB`), then
where each bit of the immediate is taken from (`RawB`), then that the two agree. The
immediate comes back cut to its width and sign-extended, and unchanged if it fits.
The theorems need no assumption but the widths of the fields. It also says what
the 32-bit addition of `Word32` does. Its carries are a recursive function; `AddBits`
shows that there is one and that the sum obeys the rule of the full adder bit by bit,
from a closed form of the carry (some bit below generates one, all between propagate
it). `Ripple` goes through the 32 bits one after another, in place of an induction, and
gives `AddSub`: adding what was subtracted gives the word back. `HiLo` uses it to show
that the upper and lower parts of li and la add up to their value, the carry of a
negative lower part included.

`AssemblerProofs` proves the four properties of `Assembler` for files of any length, from
`AsmInv`. No property is inductive alone: that a patch touches only its own line needs
that lines keep disjoint stretches of the program (`Layout`); that it finds there the
instruction it was made for, that each patch stands for one reference of one line and
that patches are in order (`PatchesMatch`); that it is applied to words nobody has
changed, that a line has the words emitted until its patch is applied and the resolved
ones from then on (`Content`). `ReadKeeps` is the step of a line, `ApplyKeeps` that of a
patch: the first half of an la writes both words, which the second half then passes
over. `PatchLeads` joins this to the round trips of `EncodeProofs`: a distance in reach
fits its field (`DistanceFits`), so what is decoded is the distance that was encoded.

`InstructionsProofs` proves `MeansWhatItSays` and `NeverHalts`, for every instruction,
register file, address and distance. The meaning of a mnemonic is stated with integers,
the datapath works on bits, so the argument goes up in layers. `Number` is a sum over a
set; it equals the last of 33 running sums (`Val`), whose existence is shown bit by bit
with `Ripple`'s method. A word is then an integer modulo 2^32: `EncodeProofs` shows that
`Bits` turns +, - and multiplication by 4096 into `Add`, `Sub` and `Shl` (`BitsAdd`,
`BitsSub`, `BitsShl`), this module that `Bits` takes the integer of a word back to the
word (`BitsSigned`) and that `Lt` and `Ltu` compare the integers. `ExecR`, `ExecI` and their like say what `executeOne` does with a
word of one opcode and given fields. `WordsAre` gives the words of every mnemonic and
`ImageIs` those left when its label is resolved. Joined, class by class (`DoesR` ...
`MeansSystem`), they say that the one word, or the first and then the second, has the
effect meant. The invariant `IInv` links this to the behaviour: what is left to execute
is a tail of the image and the hart is where executing the rest of it leads. It was
checked by TLC on the instance of the run before it was proved. `NeverHalts` does not
ask the operands to fit: `ImageProper` shows that whatever they are, each word keeps
the opcode it was encoded with, and `OpcodesProper` that no such word is 0 or all ones.

**Only model-checked:** `FinishesOrStalls`, because liveness is out of the prover's
reach. Every other property of the passing runs is a theorem.

## Not modelled

- Text processing in the assembler: removing comments, splitting a line into
  operands, recognising register names and numbers. It is input to the model.
- `CSRFile::read` and `write` and the CSR instructions in M-mode, which
  `UserModeCorrect` shows to be unreachable; mip, mie and cycle, which no decision
  reads.
- Printing: traces, `dump`, `printSummary`, `usage`.
- The sample programs; the models quantify over programs instead.
- Overflow of int32_t, undefined in C++, is taken to wrap, as it does in the build the
  repository documents (README.md:62, `g++ main.cpp -o cpu`, no optimisation). Overflow
  of `totalSteps`, which takes an enormous `--quantum`: the model's counter is unbounded,
  and `StepBudget` says how far it goes.
- The exception of `parseReg` is an outcome in `Boot` (`AssemblyThrows`); in `Assembler`
  and `Assembly` an operand is already parsed.
- `--quantum 0`, with which `run` never returns: nothing in the repository promises
  or excludes anything about it.

## Plan

Done: all components above, with the runs listed, and a theorem for every property
of the passing runs but the liveness one.
