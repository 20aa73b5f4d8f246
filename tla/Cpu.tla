--------------------------------- MODULE Cpu ---------------------------------
(***************************************************************************)
(* cpu.h: the harts and executeOne.  Each action below is one way a call   *)
(* of executeOne can go for hart h; `ok` is the value the call returned    *)
(* (TRUE: an instruction retired; FALSE: the hart trapped or halted).      *)
(*                                                                         *)
(* No action is given for a CSR instruction executed in M-mode: that no    *)
(* call of executeOne finds its hart in M-mode is an invariant that        *)
(* Scheduler.tla states.                                                   *)
(***************************************************************************)
EXTENDS GuestIsa, Csr

CONSTANT NHarts     \* harts spawned before run()

ASSUME NHartsAssumption == NHarts \in 1 .. MAX_HARTS

Hart == 0 .. NHarts - 1

VARIABLES
    harts,  \* HartManager::harts
    code,   \* the program in each hart's slot; never changes
    ok      \* what the last executeOne returned

HartState == {"RUNNING", "HALTED", "WAITING", "FAULTED"}

HartRec == [state        : HartState,
            mode         : PrivMode,
            x            : RegFile,
            pc           : Nat,
            csr          : CsrFile,
            timerPending : BOOLEAN]

\* Hart::init
HartInit(h) == [state        |-> "RUNNING",
                mode         |-> "U",
                x            |-> [a0 |-> 0, a1 |-> 0, a7 |-> 0],
                pc           |-> hartSlotBase(h),
                csr          |-> CsrReset,
                timerPending |-> FALSE]

CpuInit ==
    /\ code \in [Hart -> Programs]
    /\ harts = [h \in Hart |-> HartInit(h)]
    /\ ok = TRUE

-----------------------------------------------------------------------------
\* mtvec stays 0: only a CSR instruction in M-mode could write it.
TrapVector == 0

\* deliverTrap, as a function of the hart.
deliverTrap(r, cause, tval) ==
    [r EXCEPT !.csr = trapEnter(@, r.pc, cause, tval, r.mode),
              !.mode = "M",
              !.pc = TrapVector]

Trap(h, cause, tval) ==
    /\ harts' = [harts EXCEPT ![h] = deliverTrap(@, cause, tval)]
    /\ ok' = FALSE

\* An instruction that retires: registers, next pc, executeOne returns true.
Retire(h, regs, next) ==
    /\ harts' = [harts EXCEPT ![h].x = regs, ![h].pc = next]
    /\ ok' = TRUE

\* The hart id the protection check is given: -1 in M-mode.
memId(h) == IF harts[h].mode = "M" THEN -1 ELSE h

TimerDue(h) == /\ harts[h].timerPending
               /\ interruptsEnabled(harts[h].csr)
               /\ harts[h].mode = "U"

\* A plausible slip: the pending flag is left set when the interrupt is taken.
TakeTimerInt_KeepPending(h) ==
    /\ TimerDue(h)
    /\ Trap(h, "TIMER_INT", 0)

\* The pending timer interrupt uses up this call.
TakeTimerInt(h) ==
    /\ TimerDue(h)
    /\ harts' = [harts EXCEPT ![h] =
                    deliverTrap([@ EXCEPT !.timerPending = FALSE], "TIMER_INT", 0)]
    /\ ok' = FALSE

\* The fetch asks for a LOAD, not a FETCH, of the word at pc.
FetchFaults(h) == check(harts[h].pc, "LOAD", memId(h))

Op(h) == OpAt(code[h], h, harts[h].pc)

Executes(h, op) == ~TimerDue(h) /\ ~FetchFaults(h) /\ Op(h) = op

FetchFault(h) ==
    /\ ~TimerDue(h)
    /\ FetchFaults(h)
    /\ Trap(h, "INSN_FAULT", harts[h].pc)

\* The all-zero and all-one words stop the hart without a trap.
ExecHalt(h) ==
    /\ Executes(h, "halt")
    /\ harts' = [harts EXCEPT ![h].state = "HALTED"]
    /\ ok' = FALSE

\* R-type, I-type arithmetic, LUI, AUIPC.
ExecAlu(h) ==
    /\ Executes(h, "alu")
    /\ \E regs \in Computed(harts[h].x) : Retire(h, regs, harts[h].pc + 4)

\* JAL, JALR and the branches; a branch may fall through.
ExecJump(h) ==
    /\ Executes(h, "jump")
    /\ \E next \in Targets \cup {harts[h].pc + 4}, regs \in Linked(harts[h].x, harts[h].pc) :
          Retire(h, regs, next)

ExecLoad(h) ==
    /\ Executes(h, "load")
    /\ \E addr \in Addresses :
          IF check(addr, "LOAD", memId(h))
          THEN Trap(h, "LOAD_FAULT", addr)
          ELSE \E regs \in Computed(harts[h].x) : Retire(h, regs, harts[h].pc + 4)

ExecStore(h) ==
    /\ Executes(h, "store")
    /\ \E addr \in Addresses :
          IF check(addr, "STORE", memId(h))
          THEN Trap(h, "STORE_FAULT", addr)
          ELSE Retire(h, harts[h].x, harts[h].pc + 4)

ExecEcall(h) ==
    /\ Executes(h, "ecall")
    /\ Trap(h, IF harts[h].mode = "M" THEN "ECALL_M" ELSE "ECALL_U", 0)

ExecEbreak(h) ==
    /\ Executes(h, "ebreak")
    /\ Trap(h, "BREAKPOINT", harts[h].pc)

\* MRET, and the CSR instructions, are illegal in U-mode.
ExecMret(h) ==
    /\ Executes(h, "mret")
    /\ IF harts[h].mode = "M"
       THEN /\ harts' = [harts EXCEPT ![h].csr  = trapReturn(@),
                                      ![h].mode = trapReturnMode(harts[h].csr),
                                      ![h].pc   = harts[h].csr.mepc]
            /\ ok' = TRUE
       ELSE Trap(h, "ILLEGAL_INSN", WordAt(code[h], h, harts[h].pc))

ExecCsr(h) ==
    /\ Executes(h, "csr")
    /\ harts[h].mode = "U"
    /\ Trap(h, "ILLEGAL_INSN", WordAt(code[h], h, harts[h].pc))

ExecIllegal(h) ==
    /\ Executes(h, "illegal")
    /\ Trap(h, "ILLEGAL_INSN", WordAt(code[h], h, harts[h].pc))
=============================================================================
