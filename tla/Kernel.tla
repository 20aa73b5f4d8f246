-------------------------------- MODULE Kernel --------------------------------
(***************************************************************************)
(* kernel.h: handleTrap and handleSyscall.  Each action is one way         *)
(* handleTrap can go for hart h, which is in M-mode with mepc and mcause   *)
(* set by deliverTrap.  What the handlers write to stdout is left out.     *)
(***************************************************************************)
EXTENDS Cpu, Sequences

VARIABLE queues     \* Kernel::queues, one FIFO of messages per hart

\* The casts between an int32_t register and the uint32_t value of a Message.
ToUnsigned(v) == v % (2 * Half)
ToSigned(u) == IF u >= Half THEN u - 2 * Half ELSE u

Message == [from : Hart, value : 0 .. 2 * Half - 1]

KernelInit == queues = [h \in Hart |-> <<>>]

-----------------------------------------------------------------------------
\* doMRet, as a function of the hart.
doMRet(r, advancePC) ==
    [r EXCEPT !.mode = trapReturnMode(r.csr),
              !.csr  = trapReturn(@),
              !.pc   = IF advancePC THEN r.csr.mepc + 4 ELSE r.csr.mepc]

Traps(h, cause) == harts[h].csr.mcause = cause

\* A plausible slip: the interrupted instruction is skipped on return.
HandleTimer_Advance(h) ==
    /\ Traps(h, "TIMER_INT")
    /\ harts' = [harts EXCEPT ![h] = doMRet(@, TRUE)]
    /\ UNCHANGED queues

\* Timer interrupt: back to the interrupted instruction.
HandleTimer(h) ==
    /\ Traps(h, "TIMER_INT")
    /\ harts' = [harts EXCEPT ![h] = doMRet(@, FALSE)]
    /\ UNCHANGED queues

\* An M-mode ecall halts the hart; a memory fault, an illegal instruction and
\* an unknown cause (a breakpoint) fault it.
HandleFatal(h) ==
    /\ harts[h].csr.mcause \notin {"TIMER_INT", "ECALL_U"}
    /\ harts' = [harts EXCEPT ![h].state =
                    IF Traps(h, "ECALL_M") THEN "HALTED" ELSE "FAULTED"]
    /\ UNCHANGED queues

Syscall(h, sc) == Traps(h, "ECALL_U") /\ harts[h].x.a7 = sc

\* PRINT_INT and PRINT_STR; what PRINT_STR reads is in ProtectedMemory.tla.
SysPrint(h) ==
    /\ Syscall(h, PRINT_INT) \/ Syscall(h, PRINT_STR)
    /\ harts' = [harts EXCEPT ![h] = doMRet(@, TRUE)]
    /\ UNCHANGED queues

\* Giving up the quantum is what every trap does: there is nothing more to do.
SysYield(h) ==
    /\ Syscall(h, YIELD)
    /\ harts' = [harts EXCEPT ![h] = doMRet(@, TRUE)]
    /\ UNCHANGED queues

SysUnknown(h) ==
    /\ Traps(h, "ECALL_U")
    /\ harts[h].x.a7 \notin PRINT_INT .. GET_HARTID
    /\ harts' = [harts EXCEPT ![h] = doMRet(@, TRUE)]
    /\ UNCHANGED queues

SysExit(h) ==
    /\ Syscall(h, EXIT)
    /\ harts' = [harts EXCEPT ![h].state = "HALTED"]
    /\ UNCHANGED queues

SysGetHartId(h) ==
    /\ Syscall(h, GET_HARTID)
    /\ harts' = [harts EXCEPT ![h] = doMRet([@ EXCEPT !.x.a0 = h], TRUE)]
    /\ UNCHANGED queues

SysSendBad(h) ==
    /\ Syscall(h, SEND)
    /\ harts[h].x.a0 \notin Hart
    /\ harts' = [harts EXCEPT ![h] = doMRet([@ EXCEPT !.x.a0 = -1], TRUE)]
    /\ UNCHANGED queues

Enqueue(h, target) ==
    queues' = [queues EXCEPT ![target] =
                  Append(@, [from |-> h, value |-> ToUnsigned(harts[h].x.a1)])]

\* Plausible slips: the receiver is not woken; it is woken whatever its state.
SysSend_NoWake(h) ==
    /\ Syscall(h, SEND)
    /\ \E target \in Hart :
          /\ target = harts[h].x.a0
          /\ Enqueue(h, target)
          /\ harts' = [harts EXCEPT ![h] = doMRet([@ EXCEPT !.x.a0 = 0], TRUE)]

SysSend_WakeAny(h) ==
    /\ Syscall(h, SEND)
    /\ \E target \in Hart :
          /\ target = harts[h].x.a0
          /\ Enqueue(h, target)
          /\ harts' = [g \in Hart |->
                IF g = h THEN doMRet([harts[h] EXCEPT !.x.a0 = 0], TRUE)
                ELSE IF g = target THEN [harts[g] EXCEPT !.state = "RUNNING"]
                ELSE harts[g]]

\* Enqueue, report success, wake the target if it waits, return to the guest.
SysSend(h) ==
    /\ Syscall(h, SEND)
    /\ \E target \in Hart :
          /\ target = harts[h].x.a0
          /\ Enqueue(h, target)
          /\ harts' = [g \in Hart |->
                IF g = h THEN doMRet([harts[h] EXCEPT !.x.a0 = 0], TRUE)
                ELSE IF g = target /\ harts[g].state = "WAITING"
                     THEN [harts[g] EXCEPT !.state = "RUNNING"]
                ELSE harts[g]]

\* A plausible slip: the blocked hart resumes after its ecall.
SysRecvBlock_Advance(h) ==
    /\ Syscall(h, RECV)
    /\ queues[h] = <<>>
    /\ harts' = [harts EXCEPT ![h].mode = "U",
                              ![h].state = "WAITING",
                              ![h].pc = harts[h].csr.mepc + 4]
    /\ UNCHANGED queues

\* RECV on an empty queue: block, and run the ecall again when woken.  The
\* trap is not returned from: mstatus keeps what trapEnter left in it.
SysRecvBlock(h) ==
    /\ Syscall(h, RECV)
    /\ queues[h] = <<>>
    /\ harts' = [harts EXCEPT ![h].mode = "U",
                              ![h].state = "WAITING",
                              ![h].pc = harts[h].csr.mepc]
    /\ UNCHANGED queues

\* RECV with a message: value in a0, sender in a1.
SysRecv(h) ==
    /\ Syscall(h, RECV)
    /\ queues[h] # <<>>
    /\ LET msg == Head(queues[h])
       IN  harts' = [harts EXCEPT ![h] =
               doMRet([@ EXCEPT !.x.a0 = ToSigned(msg.value),
                                !.x.a1 = msg.from], TRUE)]
    /\ queues' = [queues EXCEPT ![h] = Tail(@)]
=============================================================================
