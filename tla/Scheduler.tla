------------------------------ MODULE Scheduler ------------------------------
(***************************************************************************)
(* scheduler.h: HartManager::run, which drives executeOne and handleTrap.  *)
(* The emulator is one thread, so the only interleaving is the one this    *)
(* loop produces.  `phase` is the place in run() that is executed next:    *)
(*   "round"  the test of the while loop and the anyActive scan (62-69)    *)
(*   "turn"   the head of the loop over the harts, at hart cur (75-77)     *)
(*   "exec"   the inner while test and the call of executeOne (85-87)      *)
(*   "tick"   the counters and the timer after executeOne (88-108)         *)
(*   "trap"   the call of handleTrap (105)                                 *)
(*   "done"   run() has returned                                           *)
(* The round counter is only printed and is left out.                      *)
(***************************************************************************)
EXTENDS Kernel

CONSTANTS quantum, timerInterval, maxCycles    \* SchedulerConfig

\* quantum = 0 is a possible configuration; timerInterval <= 0 behaves as 1.
ASSUME ConfigAssumption ==
    /\ quantum \in Nat
    /\ timerInterval \in Nat \ {0}
    /\ maxCycles \in Nat

VARIABLES
    phase, cur, ran, totalSteps, timerTick,
    lost    \* history: consecutive turns a hart has lost to timer interrupts

loopVars == <<phase, cur, ran, totalSteps, timerTick>>
vars == <<harts, code, ok, queues, phase, cur, ran, totalSteps, timerTick, lost>>

Phase == {"round", "turn", "exec", "tick", "trap", "done"}

Init ==
    /\ CpuInit /\ KernelInit
    /\ phase = "round" /\ cur = 0 /\ ran = 0
    /\ totalSteps = 0 /\ timerTick = 0
    /\ lost = [h \in Hart |-> 0]

Running(h) == harts[h].state = "RUNNING"
Active(h)  == harts[h].state \in {"RUNNING", "WAITING"}

-----------------------------------------------------------------------------
BeginRound ==
    /\ phase = "round"
    /\ totalSteps < maxCycles
    /\ \E h \in Hart : Active(h)
    /\ phase' = "turn" /\ cur' = 0
    /\ UNCHANGED <<harts, code, ok, queues, ran, totalSteps, timerTick, lost>>

Finish ==
    /\ phase = "round"
    /\ totalSteps >= maxCycles \/ \A h \in Hart : ~Active(h)
    /\ phase' = "done"
    /\ UNCHANGED <<harts, code, ok, queues, cur, ran, totalSteps, timerTick, lost>>

EndRound ==
    /\ phase = "turn" /\ cur = NHarts
    /\ phase' = "round"
    /\ UNCHANGED <<harts, code, ok, queues, cur, ran, totalSteps, timerTick, lost>>

SkipHart ==
    /\ phase = "turn" /\ cur < NHarts
    /\ ~Running(cur)
    /\ cur' = cur + 1
    /\ UNCHANGED <<harts, code, ok, queues, phase, ran, totalSteps, timerTick, lost>>

\* A plausible slip: ran is set once for the run and not for every turn.
BeginTurn_NoReset ==
    /\ phase = "turn" /\ cur < NHarts
    /\ Running(cur)
    /\ phase' = "exec"
    /\ UNCHANGED <<harts, code, ok, queues, cur, ran, totalSteps, timerTick, lost>>

BeginTurn ==
    /\ phase = "turn" /\ cur < NHarts
    /\ Running(cur)
    /\ ran' = 0 /\ phase' = "exec"
    /\ UNCHANGED <<harts, code, ok, queues, cur, totalSteps, timerTick, lost>>

InQuantum == ran < quantum /\ Running(cur)

EndTurn ==
    /\ phase = "exec" /\ ~InQuantum
    /\ phase' = "turn" /\ cur' = cur + 1
    /\ UNCHANGED <<harts, code, ok, queues, ran, totalSteps, timerTick, lost>>

-----------------------------------------------------------------------------
(* One call of executeOne.                                                 *)

Calls == /\ phase = "exec" /\ InQuantum
         /\ phase' = "tick"
         /\ UNCHANGED <<code, queues, cur, ran, totalSteps, timerTick>>

ExecTimerInt ==
    /\ Calls /\ TakeTimerInt(cur)
    /\ lost' = [lost EXCEPT ![cur] = IF ran = 0 THEN @ + 1 ELSE 0]

Executing == Calls /\ lost' = [lost EXCEPT ![cur] = 0]

ExecuteOne ==
    \/ ExecTimerInt
    \/ Executing /\ FetchFault(cur)
    \/ Executing /\ ExecHalt(cur)
    \/ Executing /\ ExecAlu(cur)
    \/ Executing /\ ExecJump(cur)
    \/ Executing /\ ExecLoad(cur)
    \/ Executing /\ ExecStore(cur)
    \/ Executing /\ ExecEcall(cur)
    \/ Executing /\ ExecEbreak(cur)
    \/ Executing /\ ExecMret(cur)
    \/ Executing /\ ExecCsr(cur)
    \/ Executing /\ ExecIllegal(cur)

-----------------------------------------------------------------------------
(* After executeOne: totalSteps, the timer, and what comes next.           *)

Fire == timerTick + 1 >= timerInterval

\* A plausible slip: waiting harts are marked as well.
MarkPending_All ==
    harts' = [h \in Hart |-> IF Fire /\ Active(h)
                             THEN [harts[h] EXCEPT !.timerPending = TRUE]
                             ELSE harts[h]]

\* Every timerInterval ticks all RUNNING harts get a pending interrupt.
MarkPending ==
    harts' = [h \in Hart |-> IF Fire /\ Running(h)
                             THEN [harts[h] EXCEPT !.timerPending = TRUE]
                             ELSE harts[h]]

\* Plausible slips: only retired instructions are counted; the tick counter is
\* not reset.
CountTick_RetiredOnly ==
    /\ totalSteps' = IF ok THEN totalSteps + 1 ELSE totalSteps
    /\ timerTick' = IF Fire THEN 0 ELSE timerTick + 1

CountTick_NoReset ==
    /\ totalSteps' = totalSteps + 1
    /\ timerTick' = timerTick + 1

CountTick ==
    /\ totalSteps' = totalSteps + 1
    /\ timerTick' = IF Fire THEN 0 ELSE timerTick + 1

Tick ==
    /\ phase = "tick"
    /\ CountTick /\ MarkPending
    /\ UNCHANGED <<code, ok, queues, lost>>

\* The call retired an instruction: go on with the quantum.
TickRetired ==
    /\ Tick /\ ok
    /\ ran' = ran + 1 /\ phase' = "exec"
    /\ UNCHANGED cur

\* The call halted the hart: its turn is over and there is no trap to handle.
TickHalted ==
    /\ Tick /\ ~ok
    /\ harts[cur].state \in {"HALTED", "FAULTED"}
    /\ phase' = "turn" /\ cur' = cur + 1
    /\ UNCHANGED ran

\* The call trapped.
TickTrapped ==
    /\ Tick /\ ~ok
    /\ harts[cur].state \notin {"HALTED", "FAULTED"}
    /\ phase' = "trap"
    /\ UNCHANGED <<cur, ran>>

-----------------------------------------------------------------------------
(* handleTrap, then break: any trap ends the turn.                         *)

\* A plausible slip: the quantum goes on after a trap.
TrapReturns_NoBreak ==
    /\ phase = "trap"
    /\ phase' = "exec"
    /\ UNCHANGED <<code, ok, cur, ran, totalSteps, timerTick, lost>>

TrapReturns ==
    /\ phase = "trap"
    /\ phase' = "turn" /\ cur' = cur + 1
    /\ UNCHANGED <<code, ok, ran, totalSteps, timerTick, lost>>

HandleTrap ==
    \/ TrapReturns /\ HandleTimer(cur)
    \/ TrapReturns /\ HandleFatal(cur)
    \/ TrapReturns /\ SysPrint(cur)
    \/ TrapReturns /\ SysYield(cur)
    \/ TrapReturns /\ SysUnknown(cur)
    \/ TrapReturns /\ SysExit(cur)
    \/ TrapReturns /\ SysGetHartId(cur)
    \/ TrapReturns /\ SysSendBad(cur)
    \/ TrapReturns /\ SysSend(cur)
    \/ TrapReturns /\ SysRecvBlock(cur)
    \/ TrapReturns /\ SysRecv(cur)

\* run() has returned and main with it.
Terminated == phase = "done" /\ UNCHANGED vars

Next ==
    \/ BeginRound \/ Finish \/ EndRound \/ SkipHart \/ BeginTurn \/ EndTurn
    \/ ExecuteOne
    \/ TickRetired \/ TickHalted \/ TickTrapped
    \/ HandleTrap
    \/ Terminated

Spec == Init /\ [][Next]_vars

\* The emulator's thread keeps executing run().
FairSpec == Spec /\ WF_vars(Next)

-----------------------------------------------------------------------------
(* Properties.                                                             *)

\* The type invariant: harts, queues and the loop's counters have their types,
\* and inside a turn cur is a hart and ran has not passed the quantum.
TypeOK ==
    /\ harts \in [Hart -> HartRec]
    /\ code \in [Hart -> Programs]
    /\ ok \in BOOLEAN
    /\ queues \in [Hart -> Seq(Message)]
    /\ phase \in Phase
    /\ cur \in 0 .. NHarts
    /\ phase \in {"exec", "tick", "trap"} => cur \in Hart
    /\ ran \in 0 .. quantum
    /\ phase \in {"tick", "trap"} => ran < quantum
    /\ totalSteps \in Nat
    /\ timerTick \in 0 .. timerInterval - 1
    /\ lost \in [Hart -> Nat]

\* Hart h is between executeOne and the end of handleTrap.
InTrap(h) == h = cur /\ phase \in {"tick", "trap"}

\* Guest code only ever runs in U-mode: outside trap handling a runnable hart is
\* in U-mode, so no call of executeOne takes an M-mode branch of cpu.h, where
\* every address and every CSR would be open to the guest.
UserModeOnly ==
    \A h \in Hart : harts[h].state \in {"RUNNING", "WAITING"} /\ ~InTrap(h)
                       => harts[h].mode = "U"

\* No lost wake-up: a hart blocked in RECV never has a message in its queue,
\* whatever the order of SENDs, RECVs and interrupts was.
NoLostWakeup ==
    \A h \in Hart : harts[h].state = "WAITING" => queues[h] = <<>>

\* Hart h is about to run the ecall of a RECV.
AtRecv(h) ==
    /\ harts[h].mode = "U"
    /\ harts[h].pc \in SlotBytes(h)
    /\ Op(h) = "ecall"
    /\ harts[h].x.a7 = RECV

\* A blocked hart stands at its RECV with the registers of the call, so that
\* waking it runs the same call again ("re-execute ecall when woken").
ResumesAtRecv ==
    \A h \in Hart : harts[h].state = "WAITING" => AtRecv(h)

\* The trap recorded in h's CSRs is one the instruction at mepc gives rise to.
TrapJustified(h) ==
    LET c == harts[h].csr
        op == OpAt(code[h], h, c.mepc)
    IN  \/ c.mcause = "TIMER_INT"
        \/ c.mcause = "INSN_FAULT" /\ c.mtval = c.mepc /\ c.mepc \notin SlotBytes(h)
        \/ /\ c.mepc \in SlotBytes(h)
           /\ \/ c.mcause = "LOAD_FAULT" /\ op = "load" /\ c.mtval \notin SlotBytes(h)
              \/ c.mcause = "STORE_FAULT" /\ op = "store" /\ c.mtval \notin SlotBytes(h)
              \/ c.mcause = "ECALL_U" /\ op = "ecall"
              \/ c.mcause = "BREAKPOINT" /\ op = "ebreak"
              \/ c.mcause = "ILLEGAL_INSN" /\ op \in {"mret", "csr", "illegal"}

\* No hart is faulted without cause: a FAULTED hart's mepc, mcause and mtval
\* name an instruction of its program and an offence that instruction commits,
\* and they still do however long the other harts run on.  A timer interrupt is
\* no such offence.
FaultJustified ==
    \A h \in Hart : harts[h].state = "FAULTED"
                       => TrapJustified(h) /\ harts[h].csr.mcause # "TIMER_INT"

\* The step limit is only tested between rounds; a run overshoots it by less
\* than one full round of quanta.
StepBudget == totalSteps = 0 \/ totalSteps < maxCycles + NHarts * quantum

\* The calls of executeOne so far, if all of them are counted.
Called == IF phase = "tick" THEN totalSteps + 1 ELSE totalSteps

\* Only the step limit ends a run whose harts loop for ever, and nothing else
\* bounds a queue: every message in a queue and every turn a hart has lost to an
\* interrupt has cost a counted call of executeOne of its own, which retired
\* nothing.  With StepBudget this bounds the memory a run takes.
CallsCounted == \A h, g \in Hart : Len(queues[h]) + lost[g] <= Called

\* Round-robin without starvation: no hart loses more than NHarts turns in a row
\* to timer interrupts without executing anything.
NoStarvation == \A h \in Hart : lost[h] <= NHarts

\* The most ticks between the starts of two turns of a hart that loses the first:
\* its interrupt and a full quantum of every other hart.
Gap == 1 + (NHarts - 1) * quantum

\* How long a hart can be kept from executing: with every turn it loses in a row
\* the timer falls back by timerInterval - Gap, and it can do so by less than Gap
\* altogether.  (An interval of Gap or less bounds nothing.)
StarvationBound == \A h \in Hart : (lost[h] - 1) * (timerInterval - Gap) < Gap

\* A hart that has halted or faulted is never touched again: a SEND to it
\* queues the message and revives nothing, the timer does not mark it.
StoppedForGood ==
    [][\A h \in Hart : harts[h].state \in {"HALTED", "FAULTED"}
                           => harts'[h] = harts[h]]_vars

\* What one hart's turn does to another hart: the timer marks it if it is
\* RUNNING, or a SEND to it wakes it, leaving a message; nothing else.
OthersUntouched ==
    [][\A h \in Hart \ {cur} :
          \/ harts'[h] = harts[h]
          \/ /\ Running(h)
             /\ harts'[h] = [harts[h] EXCEPT !.timerPending = TRUE]
          \/ /\ harts[h].state = "WAITING" /\ Len(queues'[h]) = 1
             /\ harts'[h] = [harts[h] EXCEPT !.state = "RUNNING"]]_vars

\* Guest code of h runs, or will after the trap being handled, with MIE set.
MieInGuest(h) == IF harts[h].mode = "M" THEN harts[h].csr.mpie = 1
                 ELSE harts[h].csr.mie = 1

\* Traps, interrupts and system calls give a hart back the MIE it had: only the
\* RECV that blocks it takes the timer interrupt from it, and nothing turns it
\* on again.
InterruptsKept ==
    [][\A h \in Hart : \/ MieInGuest(h)' <=> MieInGuest(h)
                       \/ Running(h) /\ harts'[h].state = "WAITING"]_vars

\* Everyone alive is blocked in RECV.
Stalled == (\A h \in Hart : ~Running(h)) /\ (\E h \in Hart : Active(h))

\* run() returns, unless it comes to a point where every live hart is blocked
\* in RECV for good.
FinishesOrStalls == <>(phase = "done") \/ <>[]Stalled

\* README's loop is `while (anyHartRunning())`: with no hart RUNNING, run() ends.
StallEndsRun == (\A h \in Hart : ~Running(h)) ~> (phase = "done")

\* "Timer interrupts enabled by default", and a return from a trap restores MIE:
\* guest code always runs with timer interrupts enabled.
TimerStaysEnabled ==
    \A h \in Hart : Running(h) /\ harts[h].mode = "U"
                       => interruptsEnabled(harts[h].csr)

\* memory.h: check() refuses a "misaligned fetch": an instruction that got as
\* far as to trap by itself was fetched from a word boundary.
FetchesAligned ==
    \A h \in Hart :
        harts[h].csr.mcause \in {"LOAD_FAULT", "STORE_FAULT", "ECALL_U", "BREAKPOINT",
                                "ILLEGAL_INSN"}
            => harts[h].csr.mepc % 4 = 0

-----------------------------------------------------------------------------
(* The abstract specification.                                             *)

\* Where the guest is: in M-mode, at the instruction that trapped.
ResumePC(h) == IF harts[h].mode = "M" THEN harts[h].csr.mepc ELSE harts[h].pc

\* A queue as the guest sees it: senders and register values.
Mailbox(q) == [i \in 1 .. Len(q) |-> <<q[i].from, ToSigned(q[i].value)>>]

stateBar == [h \in Hart |-> harts[h].state]
pcBar    == [h \in Hart |-> ResumePC(h)]
xBar     == [h \in Hart |-> harts[h].x]
boxBar   == [h \in Hart |-> Mailbox(queues[h])]

Guest == INSTANCE GuestMachine WITH
    prog <- code, state <- stateBar, pc <- pcBar, x <- xBar, box <- boxBar

\* Traps, interrupts, quanta, blocking and the casts between registers and
\* messages are invisible to the guest: every behaviour of run() is one of
\* sequential harts with atomic system calls and FIFO mailboxes.
ImplementsGuest == Guest!GuestSpec
=============================================================================
