--------------------------- MODULE RefinementProofs ---------------------------
(***************************************************************************)
(* Scheduler.tla implements GuestMachine.tla: whatever run() does is, for  *)
(* the guests, a step of sequential harts with atomic system calls and     *)
(* FIFO mailboxes, or nothing at all.                                      *)
(***************************************************************************)
EXTENDS SchedulerProofs, SequenceTheorems

-----------------------------------------------------------------------------
(* The two specifications mean the same by a slot and by an instruction.   *)

\* Slots and instruction classes are those of the abstract specification.
LEMMA SameIsa ==
    /\ Guest!Harts = Hart
    /\ \A h : Guest!SlotBytes(h) = SlotBytes(h) /\ Guest!hartSlotBase(h) = hartSlotBase(h)
    /\ \A p, h, a : Guest!OpAt(p, h, a) = OpAt(p, h, a)
    /\ \A regs, a : /\ Guest!Computed(regs) = Computed(regs)
                    /\ Guest!Linked(regs, a) = Linked(regs, a)
BY DEF Guest!Harts, Hart, Guest!SlotBytes, SlotBytes, Guest!hartSlotBase, hartSlotBase,
       Guest!hartSlotTop, hartSlotTop, Guest!OpAt, OpAt, Guest!WordAt, WordAt,
       Guest!Computed, Computed, Guest!Linked, Linked

-----------------------------------------------------------------------------
(* Mailboxes.                                                              *)

\* The casts of SEND and RECV undo each other: a register value survives its
\* way through a message.
LEMMA CastsCancel ==
    ASSUME NEW v \in Reg
    PROVE  ToSigned(ToUnsigned(v)) = v
<1>1. Half \in Nat \ {0} /\ v \in Int /\ v >= -Half /\ v <= Half - 1
  BY IsaAssumption DEF Reg
<1>2. CASE v >= 0
  <2>1. v % (2 * Half) = v
    BY <1>1, <1>2
  <2> QED
    BY <1>1, <1>2, <2>1 DEF ToUnsigned, ToSigned
<1>3. CASE v < 0
  <2>1. v % (2 * Half) = v + 2 * Half
    BY <1>1, <1>3
  <2> QED
    BY <1>1, <1>3, <2>1 DEF ToUnsigned, ToSigned
<1> QED
  BY <1>1, <1>2, <1>3

\* A mailbox is a sequence.
LEMMA MailboxSeq ==
    ASSUME NEW q \in Seq(Message)
    PROVE  /\ Mailbox(q) \in Seq(Hart \X Reg)
           /\ Len(Mailbox(q)) = Len(q)
           /\ \A i \in 1 .. Len(q) : Mailbox(q)[i] = <<q[i].from, ToSigned(q[i].value)>>
<1>1. ASSUME NEW i \in 1 .. Len(q)
      PROVE  q[i].from \in Hart /\ ToSigned(q[i].value) \in Reg
  <2>1. q[i] \in Message
    OBVIOUS
  <2>2. q[i].from \in Hart /\ q[i].value \in 0 .. 2 * Half - 1
    BY <2>1 DEF Message
  <2> QED
    BY <2>2, CastTypes
<1> QED
  BY <1>1 DEF Mailbox

\* A message sent is appended to the mailbox, as the register it came from.
LEMMA MailboxAppend ==
    ASSUME NEW q \in Seq(Message), NEW h \in Hart, NEW v \in Reg
    PROVE  Mailbox(Append(q, [from |-> h, value |-> ToUnsigned(v)]))
              = Append(Mailbox(q), <<h, v>>)
<1> DEFINE m == [from |-> h, value |-> ToUnsigned(v)]
           r == Append(q, m)
           s == Append(Mailbox(q), <<h, v>>)
<1>1. m \in Message
  BY CastTypes DEF Message
<1>2. m.from = h /\ ToSigned(m.value) = v
  BY CastsCancel
<1>3. /\ r \in Seq(Message) /\ Len(r) = Len(q) + 1 /\ Len(q) \in Nat
      /\ \A i \in 1 .. Len(q) : r[i] = q[i]
      /\ r[Len(q) + 1] = m
  BY <1>1
<1>4. /\ s \in Seq(Hart \X Reg) /\ Len(s) = Len(q) + 1
      /\ \A i \in 1 .. Len(q) : s[i] = <<q[i].from, ToSigned(q[i].value)>>
      /\ s[Len(q) + 1] = <<h, v>>
  BY MailboxSeq
<1> HIDE DEF m, r, s
<1>5. /\ Mailbox(r) \in Seq(Hart \X Reg) /\ Len(Mailbox(r)) = Len(q) + 1
      /\ \A i \in 1 .. Len(q) + 1 : Mailbox(r)[i] = <<r[i].from, ToSigned(r[i].value)>>
  BY <1>3, MailboxSeq
<1>6. ASSUME NEW i \in 1 .. Len(q) + 1 PROVE Mailbox(r)[i] = s[i]
  <2>1. CASE i = Len(q) + 1
    BY <1>2, <1>3, <1>4, <1>5, <2>1
  <2>2. CASE i \in 1 .. Len(q)
    BY <1>3, <1>4, <1>5, <2>2
  <2> QED
    BY <1>3, <2>1, <2>2
<1>7. Mailbox(r) = s
  BY <1>4, <1>5, <1>6, SeqEqual
<1> QED
  BY <1>7 DEF m, r, s

\* A message received is the first of the mailbox.
LEMMA MailboxTail ==
    ASSUME NEW q \in Seq(Message), q # <<>>
    PROVE  /\ Mailbox(q) # <<>>
           /\ Head(Mailbox(q)) = <<Head(q).from, ToSigned(Head(q).value)>>
           /\ Mailbox(Tail(q)) = Tail(Mailbox(q))
<1> DEFINE b == Mailbox(q)
           t == Tail(b)
           u == Tail(q)
<1>1. /\ b \in Seq(Hart \X Reg) /\ Len(b) = Len(q) /\ Len(q) \in Nat /\ Len(q) > 0
      /\ \A i \in 1 .. Len(q) : b[i] = <<q[i].from, ToSigned(q[i].value)>>
  BY MailboxSeq
<1>2. /\ u \in Seq(Message) /\ Len(u) = Len(q) - 1
      /\ \A i \in 1 .. Len(q) - 1 : u[i] = q[i + 1]
  BY <1>1
<1> HIDE DEF b
<1>3. b # <<>> /\ Head(b) = b[1] /\ Head(q) = q[1]
  BY <1>1
<1>4. /\ t \in Seq(Hart \X Reg) /\ Len(t) = Len(q) - 1
      /\ \A i \in 1 .. Len(q) - 1 : t[i] = b[i + 1]
  BY <1>1
<1> HIDE DEF t, u
<1>5. /\ Mailbox(u) \in Seq(Hart \X Reg) /\ Len(Mailbox(u)) = Len(q) - 1
      /\ \A i \in 1 .. Len(q) - 1 : Mailbox(u)[i] = <<u[i].from, ToSigned(u[i].value)>>
  BY <1>2, MailboxSeq
<1>6. ASSUME NEW i \in 1 .. Len(q) - 1 PROVE Mailbox(u)[i] = t[i]
  <2>1. i + 1 \in 1 .. Len(q) /\ u[i] = q[i + 1] /\ t[i] = b[i + 1]
    BY <1>1, <1>2, <1>4
  <2>2. Mailbox(u)[i] = <<u[i].from, ToSigned(u[i].value)>>
    BY <1>5
  <2>3. b[i + 1] = <<q[i + 1].from, ToSigned(q[i + 1].value)>>
    BY <1>1, <2>1
  <2> QED
    BY <2>1, <2>2, <2>3, Zenon
<1>7. Mailbox(u) = t
  BY <1>4, <1>5, <1>6, SeqEqual
<1>8. b[1] = <<q[1].from, ToSigned(q[1].value)>>
  BY <1>1
<1> QED
  BY <1>3, <1>7, <1>8 DEF b, t, u

-----------------------------------------------------------------------------
(* How a step looks through the refinement mapping.                        *)

\* A step that leaves what a guest can see alone is no step of the guest
\* machine: the mode, the CSRs and the timer's mark may change, the place where
\* the guest goes on may not.
LEMMA Unseen ==
    ASSUME code' = code, queues' = queues,
           \A h \in Hart : /\ harts'[h].state = harts[h].state
                           /\ harts'[h].x = harts[h].x
                           /\ ResumePC(h)' = ResumePC(h)
    PROVE  UNCHANGED Guest!gvars
<1>1. stateBar' = stateBar
  BY DEF stateBar
<1>2. xBar' = xBar
  BY DEF xBar
<1>3. pcBar' = pcBar
  BY DEF pcBar
<1>4. boxBar' = boxBar
  BY DEF boxBar
<1> QED
  BY <1>1, <1>2, <1>3, <1>4 DEF Guest!gvars

\* A step that changes one hart changes its place in the abstract state.
LEMMA OneHart ==
    ASSUME NEW c \in Hart, \A g \in Hart \ {c} : harts'[g] = harts[g]
    PROVE  /\ stateBar' = [stateBar EXCEPT ![c] = harts'[c].state]
           /\ pcBar' = [pcBar EXCEPT ![c] = ResumePC(c)']
           /\ xBar' = [xBar EXCEPT ![c] = harts'[c].x]
<1>1. stateBar' = [stateBar EXCEPT ![c] = harts'[c].state]
  BY DEF stateBar
<1>2. xBar' = [xBar EXCEPT ![c] = harts'[c].x]
  BY DEF xBar
<1>3. \A g \in Hart \ {c} : ResumePC(g)' = ResumePC(g)
  BY DEF ResumePC
<1>4. pcBar' = [pcBar EXCEPT ![c] = ResumePC(c)']
  BY <1>3 DEF pcBar
<1> QED
  BY <1>1, <1>2, <1>4

\* What the guest machine sees of hart c.
LEMMA Seen ==
    ASSUME NEW c \in Hart
    PROVE  /\ stateBar[c] = harts[c].state /\ xBar[c] = harts[c].x
           /\ pcBar[c] = ResumePC(c) /\ boxBar[c] = Mailbox(queues[c])
BY DEF stateBar, xBar, pcBar, boxBar

\* Hart c is at an instruction in the guest machine if it is at it here.
LEMMA SeenAt ==
    ASSUME NEW c \in Hart, NEW op, Running(c), ResumePC(c) \in SlotBytes(c),
           OpAt(code[c], c, ResumePC(c)) = op
    PROVE  Guest!At(c, op)
BY Seen, SameIsa DEF Guest!At, Running

-----------------------------------------------------------------------------
(* executeOne: an instruction that retires or halts the hart is a step of  *)
(* the guest machine, a trap is not seen.                                  *)

\* A trap leaves the guest where it was: in M-mode its place is mepc.
LEMMA TrapUnseen ==
    ASSUME TypeOK, NEW c \in Hart, code' = code, queues' = queues,
           harts[c].mode = "U", NEW r \in HartRec,
           r.state = harts[c].state, r.x = harts[c].x, r.pc = harts[c].pc,
           NEW cause, NEW tval, harts' = [harts EXCEPT ![c] = deliverTrap(r, cause, tval)]
    PROVE  UNCHANGED Guest!gvars
<1>1. /\ harts'[c].state = harts[c].state /\ harts'[c].x = harts[c].x
      /\ harts'[c].mode = "M" /\ harts'[c].csr.mepc = harts[c].pc
  BY DEF TypeOK, deliverTrap, trapEnter, HartRec, CsrFile
<1>2. ResumePC(c)' = ResumePC(c)
  BY <1>1 DEF ResumePC
<1>3. \A g \in Hart \ {c} : harts'[g] = harts[g] /\ ResumePC(g)' = ResumePC(g)
  BY DEF TypeOK, ResumePC
<1> QED
  BY <1>1, <1>2, <1>3, Unseen

\* An instruction that retires advances the guest.
LEMMA RetireSeen ==
    ASSUME TypeOK, NEW c \in Hart, code' = code, queues' = queues,
           harts[c].mode = "U", NEW regs, NEW next, Retire(c, regs, next)
    PROVE  Guest!Advance(c, regs, next) /\ UNCHANGED <<code, stateBar, boxBar>>
<1>1. /\ harts'[c].state = harts[c].state /\ harts'[c].x = regs
      /\ harts'[c].mode = "U" /\ harts'[c].pc = next
      /\ \A g \in Hart \ {c} : harts'[g] = harts[g]
  BY DEF Retire, TypeOK, HartRec
<1>2. ResumePC(c)' = next
  BY <1>1 DEF ResumePC
<1>3. stateBar' = stateBar
  BY <1>1 DEF stateBar
<1>4. boxBar' = boxBar
  BY DEF boxBar
<1> QED
  BY <1>1, <1>2, <1>3, <1>4, OneHart DEF Guest!Advance

\* Every call of executeOne is a step of its hart in the guest machine or unseen.
LEMMA ExecSimulates ==
    ASSUME TypeOK, NEW c \in Hart, code' = code, queues' = queues,
           Running(c), harts[c].mode = "U",
           \/ TakeTimerInt(c) \/ FetchFault(c) \/ ExecHalt(c) \/ ExecAlu(c)
           \/ ExecJump(c) \/ ExecLoad(c) \/ ExecStore(c) \/ ExecEcall(c)
           \/ ExecEbreak(c) \/ ExecMret(c) \/ ExecCsr(c) \/ ExecIllegal(c)
    PROVE  Guest!Compute(c) \/ Guest!Stop(c) \/ UNCHANGED Guest!gvars
<1>0. harts[c] \in HartRec /\ harts[c].pc \in Nat /\ memId(c) = c /\ ResumePC(c) = harts[c].pc
  BY DEF TypeOK, HartRec, memId, ResumePC
<1>a. ASSUME NEW op, Executes(c, op) PROVE Guest!At(c, op)
  <2>1. harts[c].pc \in SlotBytes(c)
    BY <1>0, <1>a, HartHasSlot, CheckIsSlot DEF Executes, FetchFaults
  <2> QED
    BY <1>0, <1>a, <2>1, SeenAt DEF Executes, Op
<1>b. ASSUME NEW cause, NEW tval, Trap(c, cause, tval) PROVE UNCHANGED Guest!gvars
  BY <1>0, <1>b, TrapUnseen DEF Trap
<1>c. pcBar[c] = harts[c].pc /\ xBar[c] = harts[c].x
  BY <1>0, Seen
<1>1. CASE TakeTimerInt(c)
  <2> DEFINE r == [harts[c] EXCEPT !.timerPending = FALSE]
  <2>1. /\ r \in HartRec
        /\ r.state = harts[c].state /\ r.x = harts[c].x /\ r.pc = harts[c].pc
    BY <1>0 DEF HartRec
  <2>2. harts' = [harts EXCEPT ![c] = deliverTrap(r, "TIMER_INT", 0)]
    BY <1>1 DEF TakeTimerInt, TypeOK
  <2> HIDE DEF r
  <2> QED
    BY <2>1, <2>2, TrapUnseen
<1>2. CASE FetchFault(c)
  BY <1>b, <1>2 DEF FetchFault
<1>3. CASE ExecHalt(c)
  <2>1. Guest!At(c, "halt")
    BY <1>a, <1>3 DEF ExecHalt
  <2>2. /\ harts'[c].state = "HALTED" /\ harts'[c].x = harts[c].x
        /\ harts'[c].mode = harts[c].mode /\ harts'[c].pc = harts[c].pc
        /\ \A g \in Hart \ {c} : harts'[g] = harts[g]
    BY <1>0, <1>3 DEF ExecHalt, TypeOK, HartRec
  <2>3. stateBar' = [stateBar EXCEPT ![c] = "HALTED"]
    BY <2>2, OneHart
  <2>4. xBar' = xBar /\ boxBar' = boxBar
    BY <2>2 DEF xBar, boxBar
  <2>5. pcBar' = pcBar
    BY <1>0, <2>2 DEF pcBar, ResumePC
  <2> QED
    BY <2>1, <2>3, <2>4, <2>5 DEF Guest!Stop
<1>4. CASE ExecAlu(c)
  <2>1. PICK regs \in Computed(harts[c].x) : Retire(c, regs, harts[c].pc + 4)
    BY <1>4 DEF ExecAlu
  <2>2. Guest!At(c, "alu")
    BY <1>a, <1>4 DEF ExecAlu
  <2> QED
    BY <1>c, <2>1, <2>2, RetireSeen, SameIsa DEF Guest!Compute
<1>5. CASE ExecJump(c)
  <2>1. PICK next \in Targets \cup {harts[c].pc + 4},
             regs \in Linked(harts[c].x, harts[c].pc) : Retire(c, regs, next)
    BY <1>5 DEF ExecJump
  <2>2. Guest!At(c, "jump")
    BY <1>a, <1>5 DEF ExecJump
  <2> QED
    BY <1>c, <2>1, <2>2, RetireSeen, SameIsa DEF Guest!Compute
<1>6. CASE ExecLoad(c)
  <2>1. Guest!At(c, "load")
    BY <1>a, <1>6 DEF ExecLoad
  <2>2. ASSUME NEW regs \in Computed(harts[c].x), Retire(c, regs, harts[c].pc + 4)
        PROVE  Guest!Compute(c)
    BY <1>c, <2>1, <2>2, RetireSeen, SameIsa DEF Guest!Compute
  <2> QED
    BY <1>b, <1>6, <2>2 DEF ExecLoad
<1>7. CASE ExecStore(c)
  <2>1. Guest!At(c, "store")
    BY <1>a, <1>7 DEF ExecStore
  <2>2. ASSUME Retire(c, harts[c].x, harts[c].pc + 4)
        PROVE  Guest!Compute(c)
    BY <1>c, <2>1, <2>2, RetireSeen DEF Guest!Compute
  <2> QED
    BY <1>b, <1>7, <2>2 DEF ExecStore
<1>8. CASE ExecEcall(c) \/ ExecEbreak(c) \/ ExecCsr(c) \/ ExecIllegal(c)
  BY <1>b, <1>8 DEF ExecEcall, ExecEbreak, ExecCsr, ExecIllegal
<1>9. CASE ExecMret(c)
  BY <1>b, <1>9 DEF ExecMret
<1> QED
  BY <1>1, <1>2, <1>3, <1>4, <1>5, <1>6, <1>7, <1>8, <1>9

-----------------------------------------------------------------------------
(* handleTrap: here the system calls and the faults of the guest machine   *)
(* take place, at the instruction that trapped.                            *)

\* The address recorded with a load or store fault is one the guest computed.
AddrInv ==
    \A h \in Hart : harts[h].csr.mcause \in {"LOAD_FAULT", "STORE_FAULT"}
                       => harts[h].csr.mtval \in Addresses

\* Returning from a trap advances the guest behind its ecall, with the registers
\* the call leaves.
LEMMA ReturnSeen ==
    ASSUME TypeOK, NEW c \in Hart, Running(c), harts[c].mode = "M",
           harts[c].csr.mpp = "U", NEW r \in HartRec, r.csr = harts[c].csr,
           r.state = harts[c].state, NEW adv \in BOOLEAN,
           harts'[c] = doMRet(r, adv)
    PROVE  /\ harts'[c].state = "RUNNING" /\ harts'[c].x = r.x
           /\ adv => ResumePC(c)' = ResumePC(c) + 4
           /\ ~adv => ResumePC(c)' = ResumePC(c)
<1>1. /\ harts'[c].state = "RUNNING" /\ harts'[c].x = r.x /\ harts'[c].mode = "U"
      /\ harts'[c].pc = IF adv THEN harts[c].csr.mepc + 4 ELSE harts[c].csr.mepc
  BY DEF doMRet, trapReturnMode, trapReturn, HartRec, Running
<1> QED
  BY <1>1 DEF ResumePC

\* A system call that returns, touching neither queues nor other harts.
LEMMA ReturnAdvances ==
    ASSUME TypeOK, NEW c \in Hart, Running(c), harts[c].mode = "M",
           harts[c].csr.mpp = "U", NEW r \in HartRec, r.csr = harts[c].csr,
           r.state = harts[c].state,
           harts' = [harts EXCEPT ![c] = doMRet(r, TRUE)]
    PROVE  Guest!Advance(c, r.x, pcBar[c] + 4) /\ stateBar' = stateBar
<1>1. harts'[c] = doMRet(r, TRUE) /\ \A g \in Hart \ {c} : harts'[g] = harts[g]
  BY DEF TypeOK
<1>2. /\ harts'[c].state = "RUNNING" /\ harts'[c].x = r.x
      /\ ResumePC(c)' = ResumePC(c) + 4
  BY <1>1, ReturnSeen
<1>3. \A g \in Hart : harts'[g].state = harts[g].state
  BY <1>1, <1>2 DEF Running
<1>4. stateBar' = stateBar
  BY <1>3 DEF stateBar
<1> QED
  BY <1>1, <1>2, <1>4, OneHart, Seen DEF Guest!Advance

\* Every way handleTrap can go on a hart that trapped out of guest code is one
\* step of that hart in the guest machine, or unseen (a timer interrupt).
LEMMA HandleSimulates ==
    ASSUME TypeOK, AddrInv, NEW c \in Hart, code' = code,
           Trapped(c), harts[c].csr.mpp = "U",
           \/ HandleTimer(c) \/ HandleFatal(c) \/ SysPrint(c) \/ SysYield(c)
           \/ SysUnknown(c) \/ SysExit(c)
           \/ SysGetHartId(c) \/ SysSendBad(c) \/ SysSend(c)
           \/ SysRecvBlock(c) \/ SysRecv(c)
    PROVE  \/ Guest!Stop(c) \/ Guest!Simple(c) \/ Guest!Send(c) \/ Guest!Wait(c)
           \/ Guest!Receive(c) \/ UNCHANGED Guest!gvars
<1>0. /\ harts[c] \in HartRec /\ harts[c].x \in RegFile /\ Running(c) /\ harts[c].mode = "M"
      /\ ResumePC(c) = harts[c].csr.mepc /\ TrapJustified(c) /\ queues[c] \in Seq(Message)
      /\ harts[c].state = "RUNNING"
  BY DEF TypeOK, HartRec, Trapped, ResumePC, Running
<1>a. /\ stateBar[c] = "RUNNING" /\ xBar[c] = harts[c].x
      /\ pcBar[c] = harts[c].csr.mepc /\ boxBar[c] = Mailbox(queues[c])
  BY <1>0, Seen
<1>b. Traps(c, "ECALL_U") => Guest!At(c, "ecall")
  BY <1>0, SeenAt DEF Traps, TrapJustified
<1>c. queues' = queues => boxBar' = boxBar
  BY DEF boxBar
<1>d. ASSUME NEW v \in Reg
      PROVE  LET r == [harts[c] EXCEPT !.x.a0 = v]
             IN  /\ r \in HartRec /\ r.csr = harts[c].csr /\ r.state = harts[c].state
                 /\ r.x = [harts[c].x EXCEPT !.a0 = v]
  BY <1>0 DEF HartRec, RegFile
<1>e. c \in Reg /\ 0 \in Reg /\ -1 \in Reg
  BY HartIsReg, IsaAssumption DEF Reg
<1>1. CASE HandleTimer(c)
  <2>1. /\ harts'[c] = doMRet(harts[c], FALSE) /\ queues' = queues
        /\ \A g \in Hart \ {c} : harts'[g] = harts[g]
    BY <1>1 DEF HandleTimer, TypeOK
  <2>2. /\ harts'[c].state = harts[c].state /\ harts'[c].x = harts[c].x
        /\ ResumePC(c)' = ResumePC(c)
    BY <1>0, <2>1, ReturnSeen
  <2>3. \A g \in Hart \ {c} : ResumePC(g)' = ResumePC(g)
    BY <2>1 DEF ResumePC
  <2> QED
    BY <2>1, <2>2, <2>3, Unseen
<1>2. CASE HandleFatal(c)
  <2>1. harts[c].csr.mcause \notin {"TIMER_INT", "ECALL_U", "ECALL_M"}
    BY <1>0, <1>2 DEF HandleFatal, TrapJustified
  <2>2. /\ harts'[c].state = "FAULTED" /\ harts'[c].x = harts[c].x
        /\ harts'[c].mode = "M" /\ harts'[c].csr = harts[c].csr
        /\ queues' = queues /\ \A g \in Hart \ {c} : harts'[g] = harts[g]
    BY <1>0, <1>2, <2>1 DEF HandleFatal, Traps, TypeOK, HartRec
  <2>3. stateBar' = [stateBar EXCEPT ![c] = "FAULTED"]
    BY <2>2, OneHart
  <2>4. xBar' = xBar
    BY <2>2 DEF xBar
  <2>5. pcBar' = pcBar
    BY <1>0, <2>2 DEF pcBar, ResumePC
  <2>6. \/ pcBar[c] \notin Guest!SlotBytes(c)
        \/ \E op \in {"ebreak", "mret", "csr", "illegal"} : Guest!At(c, op)
        \/ /\ Guest!At(c, "load") \/ Guest!At(c, "store")
           /\ Addresses \ Guest!SlotBytes(c) # {}
    <3>1. CASE harts[c].csr.mepc \notin SlotBytes(c)
      BY <1>a, <3>1, SameIsa
    <3>2. CASE harts[c].csr.mepc \in SlotBytes(c)
      <4>1. CASE harts[c].csr.mcause \in {"LOAD_FAULT", "STORE_FAULT"}
        <5>1. harts[c].csr.mtval \in Addresses \ SlotBytes(c)
          BY <1>0, <4>1 DEF TrapJustified, AddrInv
        <5>2. Guest!At(c, "load") \/ Guest!At(c, "store")
          BY <1>0, <3>2, <4>1, SeenAt DEF TrapJustified
        <5> QED
          BY <5>1, <5>2, SameIsa
      <4>2. CASE harts[c].csr.mcause \notin {"LOAD_FAULT", "STORE_FAULT"}
        <5>1. OpAt(code[c], c, harts[c].csr.mepc) \in {"ebreak", "mret", "csr", "illegal"}
          BY <1>0, <2>1, <3>2, <4>2 DEF TrapJustified
        <5> QED
          BY <1>0, <3>2, <5>1, SeenAt
      <4> QED
        BY <4>1, <4>2
    <3> QED
      BY <3>1, <3>2
  <2> QED
    BY <1>a, <1>c, <2>2, <2>3, <2>4, <2>5, <2>6 DEF Guest!Stop
<1>3. CASE SysPrint(c) \/ SysYield(c) \/ SysUnknown(c)
  <2>1. /\ harts' = [harts EXCEPT ![c] = doMRet(harts[c], TRUE)] /\ queues' = queues
        /\ Guest!At(c, "ecall")
    BY <1>b, <1>3 DEF SysPrint, SysYield, SysUnknown, Syscall, TypeOK
  <2>2. harts[c].x.a7 \notin {Guest!EXIT, Guest!SEND, Guest!RECV, Guest!GET_HARTID}
    <3>1. harts[c].x.a7 \in Int
      BY <1>0 DEF RegFile, Reg
    <3>2. harts[c].x.a7 \in {1, 2, 4} \/ harts[c].x.a7 \notin 1 .. 7
      BY <1>3 DEF SysPrint, SysYield, SysUnknown, Syscall, PRINT_INT, PRINT_STR, YIELD, GET_HARTID
    <3> QED
      BY <3>1, <3>2 DEF Guest!EXIT, Guest!SEND, Guest!RECV, Guest!GET_HARTID
  <2>3. Guest!Advance(c, harts[c].x, pcBar[c] + 4) /\ stateBar' = stateBar
    BY <1>0, <2>1, ReturnAdvances
  <2> QED
    BY <1>a, <1>c, <2>1, <2>2, <2>3 DEF Guest!Simple
<1>4. CASE SysExit(c)
  <2>1. /\ harts'[c].state = "HALTED" /\ harts'[c].x = harts[c].x
        /\ harts'[c].mode = "M" /\ harts'[c].csr = harts[c].csr
        /\ queues' = queues /\ \A g \in Hart \ {c} : harts'[g] = harts[g]
    BY <1>0, <1>4 DEF SysExit, TypeOK, HartRec
  <2>2. stateBar' = [stateBar EXCEPT ![c] = "HALTED"]
    BY <2>1, OneHart
  <2>3. xBar' = xBar
    BY <2>1 DEF xBar
  <2>4. pcBar' = pcBar
    BY <1>0, <2>1 DEF pcBar, ResumePC
  <2>5. Guest!At(c, "ecall") /\ xBar[c].a7 = Guest!EXIT
    BY <1>a, <1>b, <1>4 DEF SysExit, Syscall, EXIT, Guest!EXIT
  <2> QED
    BY <1>c, <2>1, <2>2, <2>3, <2>4, <2>5 DEF Guest!Stop
<1>5. CASE SysGetHartId(c)
  <2>1. /\ harts' = [harts EXCEPT ![c] = doMRet([harts[c] EXCEPT !.x.a0 = c], TRUE)]
        /\ queues' = queues /\ Guest!At(c, "ecall") /\ xBar[c].a7 = Guest!GET_HARTID
    BY <1>a, <1>b, <1>5 DEF SysGetHartId, Syscall, TypeOK, GET_HARTID, Guest!GET_HARTID
  <2>2. /\ Guest!Advance(c, [harts[c].x EXCEPT !.a0 = c], pcBar[c] + 4)
        /\ stateBar' = stateBar
    BY <1>0, <1>d, <1>e, <2>1, ReturnAdvances
  <2> QED
    BY <1>a, <1>c, <2>1, <2>2 DEF Guest!Simple
<1>6. CASE SysSendBad(c)
  <2>1. /\ harts' = [harts EXCEPT ![c] = doMRet([harts[c] EXCEPT !.x.a0 = -1], TRUE)]
        /\ queues' = queues /\ Guest!At(c, "ecall") /\ xBar[c].a7 = Guest!SEND
        /\ xBar[c].a0 \notin Guest!Harts
    BY <1>a, <1>b, <1>6, SameIsa DEF SysSendBad, Syscall, TypeOK, SEND, Guest!SEND
  <2>2. /\ Guest!Advance(c, [harts[c].x EXCEPT !.a0 = -1], pcBar[c] + 4)
        /\ stateBar' = stateBar
    BY <1>0, <1>d, <1>e, <2>1, ReturnAdvances
  <2> QED
    BY <1>a, <1>c, <2>1, <2>2 DEF Guest!Simple
<1>7. CASE SysRecvBlock(c)
  <2>1. /\ harts'[c].state = "WAITING" /\ harts'[c].x = harts[c].x
        /\ harts'[c].mode = "U" /\ harts'[c].pc = harts[c].csr.mepc
        /\ queues' = queues /\ \A g \in Hart \ {c} : harts'[g] = harts[g]
    BY <1>0, <1>7 DEF SysRecvBlock, TypeOK, HartRec
  <2>2. stateBar' = [stateBar EXCEPT ![c] = "WAITING"]
    BY <2>1, OneHart
  <2>3. xBar' = xBar
    BY <2>1 DEF xBar
  <2>4. pcBar' = pcBar
    BY <1>0, <2>1 DEF pcBar, ResumePC
  <2>5. Guest!At(c, "ecall") /\ xBar[c].a7 = Guest!RECV
    BY <1>a, <1>b, <1>7 DEF SysRecvBlock, Syscall, RECV, Guest!RECV
  <2>6. boxBar[c] = <<>>
    <3>1. queues[c] = <<>> /\ Len(queues[c]) = 0
      BY <1>7 DEF SysRecvBlock
    <3>2. boxBar[c] \in Seq(Hart \X Reg) /\ Len(boxBar[c]) = 0
      BY <1>0, <1>a, <3>1, MailboxSeq, Zenon
    <3> QED
      BY <3>2, EmptySeq, Zenon
  <2> QED
    BY <1>c, <2>1, <2>2, <2>3, <2>4, <2>5, <2>6 DEF Guest!Wait
<1>8. CASE SysRecv(c)
  <2> DEFINE msg == Head(queues[c])
             r == [harts[c] EXCEPT !.x.a0 = ToSigned(msg.value), !.x.a1 = msg.from]
  <2>1. msg \in Message /\ queues[c] # <<>>
    BY <1>0, <1>8 DEF SysRecv
  <2>2. ToSigned(msg.value) \in Reg /\ msg.from \in Reg
    BY <2>1, CastTypes, HartIsReg DEF Message
  <2>3. /\ r \in HartRec /\ r.csr = harts[c].csr /\ r.state = harts[c].state
        /\ r.x = [harts[c].x EXCEPT !.a0 = ToSigned(msg.value), !.a1 = msg.from]
    BY <1>0, <2>2 DEF HartRec, RegFile
  <2>4. /\ harts' = [harts EXCEPT ![c] = doMRet(r, TRUE)]
        /\ queues' = [queues EXCEPT ![c] = Tail(@)]
        /\ Guest!At(c, "ecall") /\ xBar[c].a7 = Guest!RECV
    BY <1>a, <1>b, <1>8 DEF SysRecv, Syscall, TypeOK, RECV, Guest!RECV
  <2> HIDE DEF r
  <2>5. Guest!Advance(c, r.x, pcBar[c] + 4) /\ stateBar' = stateBar
    BY <1>0, <2>3, <2>4, ReturnAdvances
  <2> HIDE DEF msg
  <2>6. /\ boxBar[c] # <<>> /\ Head(boxBar[c]) = <<msg.from, ToSigned(msg.value)>>
        /\ Mailbox(Tail(queues[c])) = Tail(boxBar[c])
    BY <1>0, <1>a, <2>1, MailboxTail DEF msg
  <2>7. boxBar' = [boxBar EXCEPT ![c] = Tail(@)]
    BY <2>4, <2>6 DEF boxBar, TypeOK
  <2>8. r.x = [xBar[c] EXCEPT !.a0 = Head(boxBar[c])[2], !.a1 = Head(boxBar[c])[1]]
    <3>1. Head(boxBar[c])[2] = ToSigned(msg.value) /\ Head(boxBar[c])[1] = msg.from
      BY <2>6
    <3> QED
      BY <1>a, <2>3, <3>1, Zenon
  <2> QED
    BY <2>4, <2>5, <2>6, <2>7, <2>8 DEF Guest!Receive
<1>9. CASE SysSend(c)
  <2>1. PICK t \in Hart :
           /\ t = harts[c].x.a0 /\ Enqueue(c, t)
           /\ harts' = [g \in Hart |->
                IF g = c THEN doMRet([harts[c] EXCEPT !.x.a0 = 0], TRUE)
                ELSE IF g = t /\ harts[g].state = "WAITING"
                     THEN [harts[g] EXCEPT !.state = "RUNNING"]
                ELSE harts[g]]
    BY <1>9 DEF SysSend
  <2>2. Guest!At(c, "ecall") /\ xBar[c].a7 = Guest!SEND
    BY <1>a, <1>b, <1>9 DEF SysSend, Syscall, SEND, Guest!SEND
  <2>3. /\ harts'[c].state = "RUNNING" /\ harts'[c].x = [harts[c].x EXCEPT !.a0 = 0]
        /\ ResumePC(c)' = ResumePC(c) + 4
    BY <1>0, <1>d, <1>e, <2>1, ReturnSeen
  <2>4. \A g \in Hart \ {c} :
           /\ harts'[g].x = harts[g].x /\ ResumePC(g)' = ResumePC(g)
           /\ harts'[g].state = IF g = t /\ harts[g].state = "WAITING"
                                THEN "RUNNING" ELSE harts[g].state
    BY <2>1 DEF TypeOK, HartRec, ResumePC
  <2>5. stateBar' = IF stateBar[t] = "WAITING"
                    THEN [stateBar EXCEPT ![t] = "RUNNING"] ELSE stateBar
    BY <1>0, <2>3, <2>4 DEF stateBar
  <2>6. xBar' = [xBar EXCEPT ![c] = [xBar[c] EXCEPT !.a0 = 0]]
    BY <1>a, <2>3, <2>4 DEF xBar
  <2>7. pcBar' = [pcBar EXCEPT ![c] = pcBar[c] + 4]
    BY <1>0, <1>a, <2>3, <2>4 DEF pcBar
  <2>8. boxBar' = [boxBar EXCEPT ![t] = Append(@, <<c, xBar[c].a1>>)]
    <3>1. harts[c].x.a1 \in Reg /\ queues[t] \in Seq(Message)
      BY <1>0 DEF RegFile, TypeOK
    <3>2. Mailbox(queues'[t]) = Append(Mailbox(queues[t]), <<c, harts[c].x.a1>>)
      BY <2>1, <3>1, MailboxAppend DEF Enqueue, TypeOK
    <3>3. \A g \in Hart \ {t} : queues'[g] = queues[g]
      BY <2>1 DEF Enqueue, TypeOK
    <3> QED
      BY <1>a, <3>2, <3>3 DEF boxBar
  <2> QED
    BY <1>a, <2>1, <2>2, <2>5, <2>6, <2>7, <2>8, SameIsa DEF Guest!Send, Guest!Advance
<1> QED
  BY <1>1, <1>2, <1>3, <1>4, <1>5, <1>6, <1>7, <1>8, <1>9

-----------------------------------------------------------------------------
(* run().                                                                  *)

\* A call of executeOne records no fault but of an address it used.
LEMMA ExecAddr ==
    ASSUME TypeOK, NEW c \in Hart,
           \/ TakeTimerInt(c) \/ FetchFault(c) \/ ExecHalt(c) \/ ExecAlu(c)
           \/ ExecJump(c) \/ ExecLoad(c) \/ ExecStore(c) \/ ExecEcall(c)
           \/ ExecEbreak(c) \/ ExecMret(c) \/ ExecCsr(c) \/ ExecIllegal(c)
    PROVE  /\ \A g \in Hart \ {c} : harts'[g] = harts[g]
           /\ \/ harts'[c].csr.mcause = harts[c].csr.mcause
                 /\ harts'[c].csr.mtval = harts[c].csr.mtval
              \/ harts'[c].csr.mcause \notin {"LOAD_FAULT", "STORE_FAULT"}
              \/ harts'[c].csr.mtval \in Addresses
<1>0. harts[c] \in HartRec /\ harts[c].csr \in CsrFile
  BY DEF TypeOK, HartRec
<1>1. ASSUME NEW cause, NEW tval, Trap(c, cause, tval)
      PROVE  /\ harts'[c].csr.mcause = cause /\ harts'[c].csr.mtval = tval
             /\ \A g \in Hart \ {c} : harts'[g] = harts[g]
  BY <1>0, <1>1 DEF Trap, deliverTrap, trapEnter, TypeOK, HartRec, CsrFile
<1>2. ASSUME NEW regs, NEW next, Retire(c, regs, next)
      PROVE  harts'[c].csr = harts[c].csr /\ \A g \in Hart \ {c} : harts'[g] = harts[g]
  BY <1>0, <1>2 DEF Retire, TypeOK, HartRec
<1>3. CASE TakeTimerInt(c)
  BY <1>0, <1>3 DEF TakeTimerInt, deliverTrap, trapEnter, TypeOK, HartRec, CsrFile
<1>4. CASE ExecHalt(c)
  BY <1>0, <1>4 DEF ExecHalt, TypeOK, HartRec
<1>5. CASE ExecAlu(c) \/ ExecJump(c)
  BY <1>2, <1>5 DEF ExecAlu, ExecJump
<1>6. CASE ExecLoad(c)
  BY <1>1, <1>2, <1>6 DEF ExecLoad
<1>7. CASE ExecStore(c)
  BY <1>1, <1>2, <1>7 DEF ExecStore
<1>8. CASE FetchFault(c) \/ ExecEcall(c) \/ ExecEbreak(c) \/ ExecCsr(c) \/ ExecIllegal(c)
  BY <1>1, <1>8 DEF FetchFault, ExecEcall, ExecEbreak, ExecCsr, ExecIllegal
<1>9. CASE ExecMret(c)
  <2>1. CASE harts[c].mode = "M"
    <3>1. harts' =
            [harts EXCEPT ![c] = [harts[c] EXCEPT
                !.csr = trapReturn(harts[c].csr),
                !.mode = trapReturnMode(harts[c].csr),
                !.pc = harts[c].csr.mepc]]
      BY <1>9, <2>1 DEF ExecMret, TypeOK
    <3>2. harts'[c].csr = trapReturn(harts[c].csr) /\ \A g \in Hart \ {c} : harts'[g] = harts[g]
      BY <1>0, <3>1 DEF TypeOK, HartRec
    <3> QED
      BY <1>0, <3>2 DEF trapReturn, CsrFile
  <2>2. CASE harts[c].mode # "M"
    BY <1>1, <1>9, <2>2 DEF ExecMret
  <2> QED
    BY <2>1, <2>2
<1> QED
  BY <1>3, <1>4, <1>5, <1>6, <1>7, <1>8, <1>9

\* handleTrap leaves the recorded cause and value of every hart alone.
LEMMA HandleAddr ==
    ASSUME TypeOK, NEW c \in Hart,
           \/ HandleTimer(c) \/ HandleFatal(c) \/ SysPrint(c) \/ SysYield(c)
           \/ SysUnknown(c) \/ SysExit(c)
           \/ SysGetHartId(c) \/ SysSendBad(c) \/ SysSend(c)
           \/ SysRecvBlock(c) \/ SysRecv(c),
           NEW g \in Hart
    PROVE  /\ harts'[g].csr.mcause = harts[g].csr.mcause
           /\ harts'[g].csr.mtval = harts[g].csr.mtval
<1>0. /\ harts[c] \in HartRec /\ harts[c].x \in RegFile /\ harts[c].csr \in CsrFile
      /\ harts \in [Hart -> HartRec] /\ queues[c] \in Seq(Message)
  BY DEF TypeOK, HartRec
<1>1. ASSUME NEW r \in HartRec, r.csr = harts[c].csr, NEW adv \in BOOLEAN
      PROVE  /\ doMRet(r, adv).csr.mcause = harts[c].csr.mcause
             /\ doMRet(r, adv).csr.mtval = harts[c].csr.mtval
  <2>1. doMRet(r, adv).csr = trapReturn(r.csr)
    BY <1>1 DEF doMRet, HartRec
  <2> QED
    BY <1>0, <1>1, <2>1 DEF trapReturn, CsrFile
<1>a. \A v \in Reg : /\ [harts[c] EXCEPT !.x.a0 = v] \in HartRec
                     /\ [harts[c] EXCEPT !.x.a0 = v].csr = harts[c].csr
  BY <1>0 DEF HartRec, RegFile
<1>b. c \in Reg /\ 0 \in Reg /\ -1 \in Reg
  BY HartIsReg, IsaAssumption DEF Reg
<1>2. CASE HandleTimer(c) \/ SysPrint(c) \/ SysYield(c) \/ SysUnknown(c)
  <2>1. \E adv \in BOOLEAN : harts' = [harts EXCEPT ![c] = doMRet(harts[c], adv)]
    BY <1>0, <1>2 DEF HandleTimer, SysPrint, SysYield, SysUnknown
  <2>2. \E adv \in BOOLEAN : harts'[c] = doMRet(harts[c], adv)
    BY <1>0, <2>1
  <2>3. g # c => harts'[g] = harts[g]
    BY <1>0, <2>1
  <2> QED
    BY <1>0, <1>1, <2>2, <2>3
<1>3. CASE HandleFatal(c) \/ SysExit(c)
  BY <1>0, <1>3 DEF HandleFatal, SysExit, HartRec
<1>4. CASE SysRecvBlock(c)
  BY <1>0, <1>4 DEF SysRecvBlock, HartRec
<1>5. CASE SysGetHartId(c) \/ SysSendBad(c)
  <2>1. PICK v \in Reg :
           harts' = [harts EXCEPT ![c] = doMRet([harts[c] EXCEPT !.x.a0 = v], TRUE)]
    BY <1>b, <1>5 DEF SysGetHartId, SysSendBad
  <2> DEFINE r == [harts[c] EXCEPT !.x.a0 = v]
  <2>2. r \in HartRec /\ r.csr = harts[c].csr
    BY <1>a
  <2>3. harts'[c] = doMRet(r, TRUE) /\ (g # c => harts'[g] = harts[g])
    BY <1>0, <2>1
  <2> HIDE DEF r
  <2> QED
    BY <1>1, <2>2, <2>3
<1>6. CASE SysSend(c)
  <2>1. PICK target \in Hart :
           harts' = [f \in Hart |->
                IF f = c THEN doMRet([harts[c] EXCEPT !.x.a0 = 0], TRUE)
                ELSE IF f = target /\ harts[f].state = "WAITING"
                     THEN [harts[f] EXCEPT !.state = "RUNNING"]
                ELSE harts[f]]
    BY <1>6 DEF SysSend
  <2> DEFINE r == [harts[c] EXCEPT !.x.a0 = 0]
  <2>2. r \in HartRec /\ r.csr = harts[c].csr
    BY <1>a, <1>b
  <2>3. harts'[c] = doMRet(r, TRUE)
    BY <2>1
  <2>4. g # c => harts'[g].csr = harts[g].csr
    BY <1>0, <2>1 DEF HartRec
  <2> HIDE DEF r
  <2> QED
    BY <1>1, <2>2, <2>3, <2>4
<1>7. CASE SysRecv(c)
  <2> DEFINE msg == Head(queues[c])
  <2> DEFINE r == [harts[c] EXCEPT !.x.a0 = ToSigned(msg.value), !.x.a1 = msg.from]
  <2>1. queues[c] # <<>> /\ msg \in Message
    BY <1>0, <1>7 DEF SysRecv
  <2>2. ToSigned(msg.value) \in Reg /\ msg.from \in Reg
    BY <2>1, CastTypes, HartIsReg DEF Message
  <2>3. r \in HartRec /\ r.csr = harts[c].csr
    BY <1>0, <2>2 DEF HartRec, RegFile
  <2>4. harts' = [harts EXCEPT ![c] = doMRet(r, TRUE)]
    BY <1>7 DEF SysRecv
  <2> HIDE DEF r
  <2>5. harts'[c] = doMRet(r, TRUE) /\ (g # c => harts'[g] = harts[g])
    BY <1>0, <2>4
  <2> QED
    BY <1>1, <2>3, <2>5
<1> QED
  BY <1>2, <1>3, <1>4, <1>5, <1>6, <1>7

\* Every step of run() keeps the recorded addresses.
LEMMA AddrNext == TypeOK /\ AddrInv /\ [Next]_vars => AddrInv'
<1> SUFFICES ASSUME TypeOK, AddrInv, [Next]_vars, NEW h \in Hart,
                    harts'[h].csr.mcause \in {"LOAD_FAULT", "STORE_FAULT"}
             PROVE  harts'[h].csr.mtval \in Addresses
  BY DEF AddrInv
<1>1. CASE \/ BeginRound \/ Finish \/ EndRound \/ SkipHart \/ BeginTurn \/ EndTurn
           \/ UNCHANGED vars
  BY <1>1 DEF BeginRound, Finish, EndRound, SkipHart, BeginTurn, EndTurn, vars, AddrInv
<1>2. CASE ExecuteOne
  <2>1. PICK c \in Hart : c = cur
    BY <1>2 DEF ExecuteOne, ExecTimerInt, Executing, Calls, TypeOK
  <2>2. /\ \A g \in Hart \ {c} : harts'[g] = harts[g]
        /\ \/ harts'[c].csr.mcause = harts[c].csr.mcause
              /\ harts'[c].csr.mtval = harts[c].csr.mtval
           \/ harts'[c].csr.mcause \notin {"LOAD_FAULT", "STORE_FAULT"}
           \/ harts'[c].csr.mtval \in Addresses
    BY <1>2, <2>1, ExecAddr DEF ExecuteOne, ExecTimerInt
  <2> QED
    BY <2>2 DEF AddrInv
<1>3. CASE TickRetired \/ TickHalted \/ TickTrapped
  <2>1. MarkPending
    BY <1>3 DEF TickRetired, TickHalted, TickTrapped, Tick
  <2>2. harts'[h].csr = harts[h].csr
    BY <2>1 DEF MarkPending, TypeOK, HartRec
  <2> QED
    BY <2>2 DEF AddrInv
<1>4. CASE HandleTrap
  <2>1. PICK c \in Hart : c = cur
    BY <1>4 DEF HandleTrap, TrapReturns, TypeOK
  <2> QED
    BY <1>4, <2>1, HandleAddr DEF HandleTrap, AddrInv
<1> QED
  BY <1>1, <1>2, <1>3, <1>4 DEF Next, Terminated

\* Every step of run() is a step of the guest machine or unseen.
LEMMA StepSimulates ==
    IndInv /\ AddrInv /\ [Next]_vars => [Guest!GuestNext]_(Guest!gvars)
<1> SUFFICES ASSUME IndInv, AddrInv, [Next]_vars
             PROVE  Guest!GuestNext \/ UNCHANGED Guest!gvars
  OBVIOUS
<1>0. TypeOK
  BY DEF IndInv
<1>1. CASE \/ BeginRound \/ Finish \/ EndRound \/ SkipHart \/ BeginTurn \/ EndTurn
           \/ UNCHANGED vars
  <2>1. harts' = harts /\ queues' = queues /\ code' = code
    BY <1>1 DEF BeginRound, Finish, EndRound, SkipHart, BeginTurn, EndTurn, vars
  <2> QED
    BY <2>1, Unseen DEF ResumePC
<1>2. CASE ExecuteOne
  <2>1. /\ phase = "exec" /\ cur \in Hart
        /\ Running(cur) /\ code' = code /\ queues' = queues
    BY <1>0, <1>2 DEF ExecuteOne, ExecTimerInt, Executing, Calls, InQuantum, TypeOK
  <2>2. PICK c \in Hart : c = cur
    BY <2>1
  <2>3. Running(c) /\ harts[c].mode = "U"
    BY <2>1, <2>2 DEF IndInv, ModeOK, InTrap
  <2>4. Guest!Compute(c) \/ Guest!Stop(c) \/ UNCHANGED Guest!gvars
    BY <1>0, <1>2, <2>1, <2>2, <2>3, ExecSimulates DEF ExecuteOne, ExecTimerInt
  <2> QED
    BY <2>4, SameIsa DEF Guest!GuestNext
<1>3. CASE TickRetired \/ TickHalted \/ TickTrapped
  <2>1. code' = code /\ queues' = queues /\ \A h \in Hart : SameHart(h)
    <3>1. code' = code /\ queues' = queues /\ MarkPending
      BY <1>3 DEF TickRetired, TickHalted, TickTrapped, Tick
    <3>2. \A h \in Hart : SameHart(h)
      BY <1>0, <3>1 DEF MarkPending, SameHart, TypeOK, HartRec
    <3> QED
      BY <3>1, <3>2
  <2> QED
    BY <2>1, Unseen DEF SameHart, ResumePC
<1>4. CASE HandleTrap
  <2>1. phase = "trap" /\ code' = code /\ cur \in Hart
    BY <1>0, <1>4 DEF HandleTrap, TrapReturns, TypeOK
  <2>2. PICK c \in Hart : c = cur
    BY <2>1
  <2>3. Trapped(c) /\ harts[c].csr.mpp = "U"
    BY <2>1, <2>2 DEF IndInv, CallOK, ModeOK
  <2>4. \/ Guest!Stop(c) \/ Guest!Simple(c) \/ Guest!Send(c) \/ Guest!Wait(c)
        \/ Guest!Receive(c) \/ UNCHANGED Guest!gvars
    BY <1>0, <1>4, <2>1, <2>2, <2>3, HandleSimulates DEF HandleTrap
  <2> QED
    BY <2>4, SameIsa DEF Guest!GuestNext
<1> QED
  BY <1>1, <1>2, <1>3, <1>4 DEF Next, Terminated

\* Freshly spawned harts are an initial state of the guest machine.
LEMMA InitSimulates == Init => Guest!GuestInit
<1> SUFFICES ASSUME Init PROVE Guest!GuestInit
  OBVIOUS
<1>1. \A h \in Hart : /\ harts[h].state = "RUNNING" /\ ResumePC(h) = hartSlotBase(h)
                      /\ harts[h].x = [a0 |-> 0, a1 |-> 0, a7 |-> 0]
                      /\ queues[h] = <<>>
  BY DEF Init, CpuInit, KernelInit, HartInit, ResumePC
<1>2. \A h \in Hart : Mailbox(queues[h]) = <<>>
  <2>1. <<>> \in Seq(Message) /\ Len(<<>>) = 0
    OBVIOUS
  <2>2. Mailbox(<<>>) \in Seq(Hart \X Reg) /\ Len(Mailbox(<<>>)) = 0
    BY <2>1, MailboxSeq, Zenon
  <2>3. Mailbox(<<>>) = <<>>
    BY <2>2, EmptySeq, Zenon
  <2> QED
    BY <1>1, <2>3, Zenon
<1>3. /\ stateBar = [h \in Hart |-> "RUNNING"]
      /\ xBar = [h \in Hart |-> [a0 |-> 0, a1 |-> 0, a7 |-> 0]]
  BY <1>1 DEF stateBar, xBar
<1>4. pcBar = [h \in Hart |-> hartSlotBase(h)]
  BY <1>1 DEF pcBar
<1>5. boxBar = [h \in Hart |-> <<>>]
  BY <1>2 DEF boxBar
<1>6. code \in [Hart -> Programs]
  BY DEF Init, CpuInit
<1> QED
  BY <1>3, <1>4, <1>5, <1>6, SameIsa DEF Guest!GuestInit

\* Traps, interrupts, quanta, blocking and casts are invisible: with any number
\* of harts, any programs and any configuration, every behaviour of run() is one
\* of sequential harts with atomic system calls and FIFO mailboxes.
THEOREM Refinement == Spec => ImplementsGuest
<1>1. Init => AddrInv
  BY DEF Init, CpuInit, HartInit, CsrReset, AddrInv
<1>2. Spec => []AddrInv
  BY <1>1, AddrNext, TypeCorrect, PTL DEF Spec
<1> QED
  BY <1>2, Inductive, InitSimulates, StepSimulates, PTL
     DEF Spec, ImplementsGuest, Guest!GuestSpec
=============================================================================
