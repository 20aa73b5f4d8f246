--------------------------- MODULE SchedulerProofs ---------------------------
(***************************************************************************)
(* Theorems about Scheduler.tla, for every number of harts, every program, *)
(* every quantum, timer interval and step limit.                           *)
(***************************************************************************)
EXTENDS Scheduler, MemoryMapProofs

-----------------------------------------------------------------------------
(* The operators on a hart's state keep its type.                          *)

\* Entering a trap yields a CSR file (CSRFile::trapEnter).
LEMMA TrapEnterType ==
    ASSUME NEW c \in CsrFile, NEW pc \in Nat, NEW cause \in Cause,
           NEW tval \in Nat, NEW from \in PrivMode
    PROVE  trapEnter(c, pc, cause, tval, from) \in CsrFile
BY DEF trapEnter, CsrFile, PrivMode

\* Leaving a trap yields a CSR file (CSRFile::trapReturn).
LEMMA TrapReturnType ==
    ASSUME NEW c \in CsrFile
    PROVE  trapReturn(c) \in CsrFile /\ trapReturnMode(c) \in PrivMode
BY DEF trapReturn, trapReturnMode, CsrFile, PrivMode

\* deliverTrap yields a hart.
LEMMA DeliverTrapType ==
    ASSUME NEW r \in HartRec, NEW cause \in Cause, NEW tval \in Nat
    PROVE  deliverTrap(r, cause, tval) \in HartRec
<1>1. r.csr \in CsrFile /\ r.pc \in Nat /\ r.mode \in PrivMode
  BY DEF HartRec
<1>2. trapEnter(r.csr, r.pc, cause, tval, r.mode) \in CsrFile
  BY <1>1, TrapEnterType
<1> QED
  BY <1>2 DEF deliverTrap, HartRec, TrapVector, PrivMode

\* doMRet yields a hart.
LEMMA DoMRetType ==
    ASSUME NEW r \in HartRec, NEW adv \in BOOLEAN
    PROVE  doMRet(r, adv) \in HartRec
<1>1. r.csr \in CsrFile /\ r.csr.mepc \in Nat
  BY DEF HartRec, CsrFile
<1>2. trapReturn(r.csr) \in CsrFile /\ trapReturnMode(r.csr) \in PrivMode
  BY <1>1, TrapReturnType
<1>3. (IF adv THEN r.csr.mepc + 4 ELSE r.csr.mepc) \in Nat
  BY <1>1
<1> QED
  BY <1>2, <1>3 DEF doMRet, HartRec

-----------------------------------------------------------------------------
(* Hart ids, registers and the casts between registers and messages.       *)

\* A hart of the manager has a slot.
LEMMA HartHasSlot == Hart \subseteq HartIds
BY NHartsAssumption, MemoryMapAssumption DEF Hart, HartIds

\* A hart id fits a register.
LEMMA HartIsReg == Hart \subseteq Reg
BY NHartsAssumption, MemoryMapAssumption, IsaAssumption DEF Hart, Reg

\* The cast of a register is a message value, and back.
LEMMA CastTypes ==
    /\ \A v \in Reg : ToUnsigned(v) \in 0 .. 2 * Half - 1
    /\ \A u \in 0 .. 2 * Half - 1 : ToSigned(u) \in Reg
<1>1. Half \in Nat \ {0}
  BY IsaAssumption
<1> QED
  BY <1>1 DEF Reg, ToUnsigned, ToSigned

-----------------------------------------------------------------------------
(* Type correctness.                                                       *)

\* The word a fetch reads is a word, so that it can be recorded in mtval.
LEMMA WordType ==
    ASSUME TypeOK, NEW h \in Hart, NEW pc \in Nat
    PROVE  WordAt(code[h], h, pc) \in Nat
<1>1. code[h] \in [0 .. HART_SLOT_SIZE - 1 -> Word]
  BY IsaAssumption DEF TypeOK
<1>2. pc \in SlotBytes(h) => pc - hartSlotBase(h) \in 0 .. HART_SLOT_SIZE - 1
  BY HartHasSlot, SlotInMemory, MemoryMapAssumption DEF SlotBytes
<1> QED
  BY <1>1, <1>2, IsaAssumption DEF WordAt

\* A trap taken by executeOne leaves a hart (deliverTrap).
LEMMA TrapType ==
    ASSUME TypeOK, NEW h \in Hart, NEW cause \in Cause, NEW tval \in Nat,
           Trap(h, cause, tval)
    PROVE  harts' \in [Hart -> HartRec] /\ ok' \in BOOLEAN
BY DeliverTrapType DEF Trap, TypeOK

\* An instruction that retires leaves a hart.
LEMMA RetireType ==
    ASSUME TypeOK, NEW h \in Hart, NEW regs \in RegFile, NEW next \in Nat,
           Retire(h, regs, next)
    PROVE  harts' \in [Hart -> HartRec] /\ ok' \in BOOLEAN
BY DEF Retire, TypeOK, HartRec

\* The registers left by an instruction that computes a value, or by a jump from
\* inside memory, are registers.
LEMMA RegsType ==
    ASSUME NEW regs \in RegFile, NEW pc \in Nat
    PROVE  /\ Computed(regs) \subseteq RegFile
           /\ pc < MEM_SIZE => Linked(regs, pc) \subseteq RegFile
<1>1. Computed(regs) \subseteq RegFile
  BY IsaAssumption DEF Computed
<1>2. ASSUME pc < MEM_SIZE, NEW rd \in DOMAIN regs
      PROVE  [regs EXCEPT ![rd] = pc + 4] \in RegFile
  <2>1. pc + 4 \in Reg
    BY <1>2, IsaAssumption, MemoryMapAssumption DEF Reg
  <2> QED
    BY <2>1 DEF RegFile
<1> QED
  BY <1>1, <1>2 DEF Linked

\* Every way a call of executeOne can go leaves a hart.
LEMMA ExecType ==
    ASSUME TypeOK, NEW h \in Hart,
           \/ TakeTimerInt(h) \/ FetchFault(h) \/ ExecHalt(h) \/ ExecAlu(h)
           \/ ExecJump(h) \/ ExecLoad(h) \/ ExecStore(h) \/ ExecEcall(h)
           \/ ExecEbreak(h) \/ ExecMret(h) \/ ExecCsr(h) \/ ExecIllegal(h)
    PROVE  harts' \in [Hart -> HartRec] /\ ok' \in BOOLEAN
<1>0. /\ harts[h] \in HartRec /\ harts[h].pc \in Nat /\ harts[h].pc + 4 \in Nat
      /\ harts[h].x \in RegFile /\ harts[h].csr \in CsrFile
      /\ harts[h].csr.mepc \in Nat /\ harts[h].mode \in PrivMode
  BY DEF TypeOK, HartRec, CsrFile
<1>a. Computed(harts[h].x) \subseteq RegFile /\ Targets \subseteq Nat /\ Addresses \subseteq Nat
  BY <1>0, RegsType, IsaAssumption
<1>b. WordAt(code[h], h, harts[h].pc) \in Nat
  BY <1>0, WordType
<1>1. CASE TakeTimerInt(h)
  <2>1. [harts[h] EXCEPT !.timerPending = FALSE] \in HartRec
    BY <1>0 DEF HartRec
  <2>2. deliverTrap([harts[h] EXCEPT !.timerPending = FALSE], "TIMER_INT", 0) \in HartRec
    BY <2>1, DeliverTrapType DEF Cause
  <2> QED
    BY <1>1, <2>2 DEF TakeTimerInt, TypeOK
<1>2. CASE FetchFault(h)
  BY <1>0, <1>2, TrapType DEF FetchFault, Cause
<1>3. CASE ExecHalt(h)
  BY <1>3 DEF ExecHalt, TypeOK, HartRec, HartState
<1>4. CASE ExecAlu(h)
  BY <1>0, <1>a, <1>4, RetireType DEF ExecAlu
<1>5. CASE ExecJump(h)
  <2>1. harts[h].pc < MEM_SIZE
    BY <1>0, <1>5, MemoryMapAssumption DEF ExecJump, Executes, FetchFaults, check
  <2>2. Linked(harts[h].x, harts[h].pc) \subseteq RegFile
    BY <1>0, <2>1, RegsType
  <2> QED
    BY <1>0, <1>a, <1>5, <2>2, RetireType DEF ExecJump
<1>6. CASE ExecLoad(h)
  BY <1>0, <1>a, <1>6, RetireType, TrapType DEF ExecLoad, Cause
<1>7. CASE ExecStore(h)
  BY <1>0, <1>a, <1>7, RetireType, TrapType DEF ExecStore, Cause
<1>8. CASE ExecEcall(h)
  BY <1>8, TrapType DEF ExecEcall, Cause
<1>9. CASE ExecEbreak(h)
  BY <1>0, <1>9, TrapType DEF ExecEbreak, Cause
<1>10. CASE ExecMret(h)
  <2>1. CASE harts[h].mode = "M"
    <3>1. trapReturn(harts[h].csr) \in CsrFile /\ trapReturnMode(harts[h].csr) \in PrivMode
      BY <1>0, TrapReturnType
    <3>2. [harts[h] EXCEPT !.csr = trapReturn(harts[h].csr),
                           !.mode = trapReturnMode(harts[h].csr),
                           !.pc = harts[h].csr.mepc] \in HartRec
      BY <1>0, <3>1 DEF HartRec
    <3>3. ok' = TRUE /\ harts' =
            [harts EXCEPT ![h] = [harts[h] EXCEPT
                !.csr = trapReturn(harts[h].csr),
                !.mode = trapReturnMode(harts[h].csr),
                !.pc = harts[h].csr.mepc]]
      BY <1>10, <2>1 DEF ExecMret, TypeOK
    <3> QED
      BY <3>2, <3>3 DEF TypeOK
  <2>2. CASE harts[h].mode # "M"
    BY <1>b, <1>10, <2>2, TrapType DEF ExecMret, Cause
  <2> QED
    BY <2>1, <2>2
<1>11. CASE ExecCsr(h)
  BY <1>b, <1>11, TrapType DEF ExecCsr, Cause
<1>12. CASE ExecIllegal(h)
  BY <1>b, <1>12, TrapType DEF ExecIllegal, Cause
<1> QED
  BY <1>1, <1>2, <1>3, <1>4, <1>5, <1>6, <1>7, <1>8, <1>9, <1>10, <1>11, <1>12

\* Every way handleTrap can go leaves harts and queues.
LEMMA HandleType ==
    ASSUME TypeOK, NEW h \in Hart,
           \/ HandleTimer(h) \/ HandleFatal(h) \/ SysPrint(h) \/ SysYield(h)
           \/ SysUnknown(h) \/ SysExit(h)
           \/ SysGetHartId(h) \/ SysSendBad(h) \/ SysSend(h)
           \/ SysRecvBlock(h) \/ SysRecv(h)
    PROVE  harts' \in [Hart -> HartRec] /\ queues' \in [Hart -> Seq(Message)]
<1>0. /\ harts[h] \in HartRec /\ harts[h].x \in RegFile
      /\ harts[h].csr.mepc \in Nat /\ queues[h] \in Seq(Message)
  BY DEF TypeOK, HartRec, CsrFile
<1>a. \A v \in Reg : [harts[h] EXCEPT !.x.a0 = v] \in HartRec
  BY <1>0 DEF HartRec, RegFile
<1>b. h \in Reg /\ 0 \in Reg /\ -1 \in Reg
  BY HartIsReg, IsaAssumption DEF Reg
<1>1. CASE HandleTimer(h)
  BY <1>0, <1>1, DoMRetType DEF HandleTimer, TypeOK
<1>2. CASE HandleFatal(h)
  BY <1>0, <1>2 DEF HandleFatal, TypeOK, HartRec, HartState
<1>3. CASE SysPrint(h) \/ SysYield(h) \/ SysUnknown(h)
  BY <1>0, <1>3, DoMRetType DEF SysPrint, SysYield, SysUnknown, TypeOK
<1>4. CASE SysExit(h)
  BY <1>0, <1>4 DEF SysExit, TypeOK, HartRec, HartState
<1>5. CASE SysGetHartId(h)
  BY <1>a, <1>b, <1>5, DoMRetType DEF SysGetHartId, TypeOK
<1>6. CASE SysSendBad(h)
  BY <1>a, <1>b, <1>6, DoMRetType DEF SysSendBad, TypeOK
<1>7. CASE SysSend(h)
  <2>1. PICK target \in Hart :
           /\ Enqueue(h, target)
           /\ harts' = [g \in Hart |->
                IF g = h THEN doMRet([harts[h] EXCEPT !.x.a0 = 0], TRUE)
                ELSE IF g = target /\ harts[g].state = "WAITING"
                     THEN [harts[g] EXCEPT !.state = "RUNNING"]
                ELSE harts[g]]
    BY <1>7 DEF SysSend
  <2>2. doMRet([harts[h] EXCEPT !.x.a0 = 0], TRUE) \in HartRec
    BY <1>a, <1>b, DoMRetType
  <2>3. \A g \in Hart : [harts[g] EXCEPT !.state = "RUNNING"] \in HartRec
    BY DEF TypeOK, HartRec, HartState
  <2>4. harts' \in [Hart -> HartRec]
    BY <2>1, <2>2, <2>3 DEF TypeOK
  <2>5. [from |-> h, value |-> ToUnsigned(harts[h].x.a1)] \in Message
    BY <1>0, CastTypes DEF Message, RegFile
  <2>6. queues' \in [Hart -> Seq(Message)]
    BY <2>1, <2>5 DEF Enqueue, TypeOK
  <2> QED
    BY <2>4, <2>6
<1>8. CASE SysRecvBlock(h)
  BY <1>0, <1>8 DEF SysRecvBlock, TypeOK, HartRec, HartState, PrivMode
<1>9. CASE SysRecv(h)
  <2> DEFINE msg == Head(queues[h])
  <2>1. queues[h] # <<>> /\ msg \in Message /\ Tail(queues[h]) \in Seq(Message)
    BY <1>0, <1>9 DEF SysRecv
  <2>2. ToSigned(msg.value) \in Reg /\ msg.from \in Reg
    BY <2>1, CastTypes, HartIsReg DEF Message
  <2>3. [harts[h] EXCEPT !.x.a0 = ToSigned(msg.value), !.x.a1 = msg.from] \in HartRec
    BY <1>0, <2>2 DEF HartRec, RegFile
  <2>4. doMRet([harts[h] EXCEPT !.x.a0 = ToSigned(msg.value), !.x.a1 = msg.from], TRUE)
           \in HartRec
    BY <2>3, DoMRetType
  <2> QED
    BY <1>9, <2>1, <2>4 DEF SysRecv, TypeOK
<1> QED
  BY <1>1, <1>2, <1>3, <1>4, <1>5, <1>6, <1>7, <1>8, <1>9

\* The harts as Hart::init leaves them, and run()'s counters, have their types.
LEMMA TypeInit == Init => TypeOK
<1> SUFFICES ASSUME Init PROVE TypeOK
  OBVIOUS
<1>1. Half \in Nat /\ 0 \in Reg
  BY IsaAssumption DEF Reg
<1>2. \A h \in Hart : HartInit(h) \in HartRec
  BY <1>1, HartHasSlot, SlotInMemory DEF HartInit, HartRec, HartState, PrivMode, RegFile,
                            CsrReset, CsrFile, Cause
<1>3. harts \in [Hart -> HartRec] /\ code \in [Hart -> Programs] /\ ok \in BOOLEAN
  BY <1>2 DEF Init, CpuInit
<1>4. queues \in [Hart -> Seq(Message)]
  BY DEF Init, KernelInit
<1> QED
  BY <1>3, <1>4, ConfigAssumption, NHartsAssumption, MemoryMapAssumption
     DEF Init, TypeOK, Phase

\* A step of run() leaves TypeOK true.
LEMMA TypeNext == TypeOK /\ [Next]_vars => TypeOK'
<1> SUFFICES ASSUME TypeOK, [Next]_vars PROVE TypeOK'
  OBVIOUS
<1>0. NHarts \in Nat /\ quantum \in Nat /\ timerInterval \in Nat \ {0}
  BY NHartsAssumption, MemoryMapAssumption, ConfigAssumption
<1>1. CASE BeginRound \/ Finish \/ EndRound \/ SkipHart \/ BeginTurn \/ EndTurn
  <2>1. /\ harts' = harts /\ code' = code /\ ok' = ok /\ queues' = queues
        /\ totalSteps' = totalSteps /\ timerTick' = timerTick /\ lost' = lost
    BY <1>1 DEF BeginRound, Finish, EndRound, SkipHart, BeginTurn, EndTurn
  <2>2. /\ phase' \in Phase /\ phase' \notin {"tick", "trap"}
        /\ cur' \in 0 .. NHarts /\ ran' \in 0 .. quantum
        /\ phase' = "exec" => cur' \in Hart
    BY <1>0, <1>1 DEF BeginRound, Finish, EndRound, SkipHart, BeginTurn, EndTurn,
                      TypeOK, Phase, Hart
  <2> QED
    BY <2>1, <2>2 DEF TypeOK
<1>2. CASE ExecuteOne
  <2>1. Calls /\ phase' = "tick" /\ cur \in Hart /\ ran < quantum
    BY <1>2 DEF ExecuteOne, ExecTimerInt, Executing, Calls, TypeOK, InQuantum
  <2>2. harts' \in [Hart -> HartRec] /\ ok' \in BOOLEAN
    BY <1>2, <2>1, ExecType DEF ExecuteOne, ExecTimerInt
  <2>3. lost' \in [Hart -> Nat]
    BY <1>2, <2>1 DEF ExecuteOne, ExecTimerInt, Executing, TypeOK
  <2> QED
    BY <2>1, <2>2, <2>3 DEF Calls, TypeOK, Phase
<1>3. CASE TickRetired \/ TickHalted \/ TickTrapped
  <2>1. Tick /\ cur \in Hart /\ ran < quantum
    BY <1>3 DEF TickRetired, TickHalted, TickTrapped, Tick, TypeOK
  <2>2. harts' \in [Hart -> HartRec]
    <3>1. \A h \in Hart : [harts[h] EXCEPT !.timerPending = TRUE] \in HartRec
      BY DEF TypeOK, HartRec
    <3> QED
      BY <2>1, <3>1 DEF Tick, MarkPending, TypeOK
  <2>3. totalSteps' \in Nat /\ timerTick' \in 0 .. timerInterval - 1
    BY <1>0, <2>1 DEF Tick, CountTick, Fire, TypeOK
  <2>4. /\ code' \in [Hart -> Programs] /\ ok' \in BOOLEAN
        /\ queues' \in [Hart -> Seq(Message)] /\ lost' \in [Hart -> Nat]
    BY <2>1 DEF Tick, TypeOK
  <2>5. /\ phase' \in {"exec", "turn", "trap"} /\ cur' \in 0 .. NHarts /\ ran' \in 0 .. quantum
        /\ phase' \in {"exec", "trap"} => cur' \in Hart
        /\ phase' = "trap" => ran' < quantum
    BY <1>0, <1>3, <2>1 DEF TickRetired, TickHalted, TickTrapped, TypeOK, Hart
  <2> QED
    BY <2>2, <2>3, <2>4, <2>5 DEF TypeOK, Phase
<1>4. CASE HandleTrap
  <2>1. TrapReturns /\ cur \in Hart
    BY <1>4 DEF HandleTrap, TrapReturns, TypeOK
  <2>2. harts' \in [Hart -> HartRec] /\ queues' \in [Hart -> Seq(Message)]
    BY <1>4, <2>1, HandleType DEF HandleTrap
  <2> QED
    BY <1>0, <2>1, <2>2 DEF TrapReturns, TypeOK, Phase, Hart
<1>5. CASE UNCHANGED vars
  BY <1>5 DEF vars, TypeOK
<1> QED
  BY <1>1, <1>2, <1>3, <1>4, <1>5 DEF Next, Terminated

\* Harts, queues and the counters of run() have their types in every state, with
\* any programs, number of harts and configuration.
THEOREM TypeCorrect == Spec => []TypeOK
BY TypeInit, TypeNext, PTL DEF Spec

-----------------------------------------------------------------------------
(* The inductive invariant.  What the kernel may rely on when it handles a *)
(* trap (Trapped) is established by executeOne and carried by run() from   *)
(* the one to the other (CallOK); the safety properties follow from it.    *)

\* Hart h has trapped out of guest code and nothing has been done about it.
Trapped(h) == Running(h) /\ harts[h].mode = "M" /\ TrapJustified(h)

WaitOK(h)  == harts[h].state = "WAITING" => AtRecv(h) /\ queues[h] = <<>>
FaultOK(h) == harts[h].state = "FAULTED"
                 => TrapJustified(h) /\ harts[h].csr.mcause # "TIMER_INT"
ModeOK(h)  == /\ harts[h].csr.mpp = "U"
              /\ Running(h) /\ ~InTrap(h) => harts[h].mode = "U"

CallOK ==
    /\ phase = "tick" /\ ok => Running(cur) /\ harts[cur].mode = "U"
    /\ phase = "tick" /\ ~ok => harts[cur].state = "HALTED" \/ Trapped(cur)
    /\ phase = "trap" => Trapped(cur)

IndInv ==
    /\ TypeOK
    /\ \A h \in Hart : WaitOK(h) /\ FaultOK(h) /\ ModeOK(h)
    /\ CallOK

\* A step that changes at most hart g's pending timer interrupt.
SameHart(g) ==
    /\ harts'[g].state = harts[g].state /\ harts'[g].mode = harts[g].mode
    /\ harts'[g].x = harts[g].x /\ harts'[g].pc = harts[g].pc
    /\ harts'[g].csr = harts[g].csr

\* Such a step preserves what is known of g.
LEMMA Frame ==
    ASSUME NEW g \in Hart, SameHart(g), code' = code
    PROVE  /\ WaitOK(g) /\ queues'[g] = queues[g] => WaitOK(g)'
           /\ FaultOK(g) => FaultOK(g)'
           /\ Trapped(g) => Trapped(g)'
<1>1. TrapJustified(g) => TrapJustified(g)'
  BY DEF SameHart, TrapJustified
<1>2. AtRecv(g) => AtRecv(g)'
  BY DEF SameHart, AtRecv, Op
<1> QED
  BY <1>1, <1>2 DEF SameHart, WaitOK, FaultOK, Trapped, Running

\* Freshly spawned harts satisfy the inductive invariant.
LEMMA IndInit == Init => IndInv
<1> SUFFICES ASSUME Init PROVE IndInv
  OBVIOUS
<1>1. TypeOK
  BY TypeInit
<1>2. \A h \in Hart : WaitOK(h) /\ FaultOK(h) /\ ModeOK(h)
  BY DEF Init, CpuInit, HartInit, CsrReset, WaitOK, FaultOK, ModeOK
<1>3. CallOK
  BY DEF Init, CallOK
<1> QED
  BY <1>1, <1>2, <1>3 DEF IndInv

-----------------------------------------------------------------------------
(* executeOne.                                                             *)

\* What a trap taken in guest code records, and that it touches no other hart.
LEMMA TrapPost ==
    ASSUME TypeOK, NEW h \in Hart, NEW cause, NEW tval,
           Running(h), harts[h].mode = "U", Trap(h, cause, tval)
    PROVE  /\ Running(h)' /\ harts'[h].mode = "M" /\ harts'[h].csr.mpp = "U"
           /\ harts'[h].csr.mepc = harts[h].pc
           /\ harts'[h].csr.mcause = cause /\ harts'[h].csr.mtval = tval
           /\ ok' = FALSE
           /\ \A g \in Hart \ {h} : harts'[g] = harts[g]
BY DEF Trap, TypeOK, deliverTrap, trapEnter, Running, HartRec, CsrFile

\* The outcome of a call of executeOne on hart h.
ExecPost(h) ==
    /\ \/ ok' /\ Running(h)' /\ harts'[h].mode = "U"
       \/ ~ok' /\ harts'[h].state = "HALTED"
       \/ ~ok' /\ Trapped(h)'
    /\ harts'[h].csr.mpp = "U"
    /\ \A g \in Hart \ {h} : harts'[g] = harts[g]

\* A call of executeOne on a running hart in U-mode retires an instruction in
\* U-mode, halts the hart, or leaves a trap that the instruction justifies.
LEMMA ExecOutcome ==
    ASSUME TypeOK, NEW h \in Hart, code' = code,
           Running(h), harts[h].mode = "U", harts[h].csr.mpp = "U",
           \/ TakeTimerInt(h) \/ FetchFault(h) \/ ExecHalt(h) \/ ExecAlu(h)
           \/ ExecJump(h) \/ ExecLoad(h) \/ ExecStore(h) \/ ExecEcall(h)
           \/ ExecEbreak(h) \/ ExecMret(h) \/ ExecCsr(h) \/ ExecIllegal(h)
    PROVE  ExecPost(h)
<1>0. harts[h] \in HartRec /\ harts[h].pc \in Nat /\ memId(h) = h /\ Addresses \subseteq Nat
  BY IsaAssumption DEF TypeOK, HartRec, memId
<1>a. FetchFaults(h) <=> harts[h].pc \notin SlotBytes(h)
  BY <1>0, HartHasSlot, CheckIsSlot DEF FetchFaults
<1>b. ASSUME NEW regs, NEW next, Retire(h, regs, next) PROVE ExecPost(h)
  BY <1>b DEF Retire, ExecPost, Running, TypeOK, HartRec
<1>c. ASSUME NEW cause, NEW tval, Trap(h, cause, tval), ~FetchFaults(h),
             \/ cause = "LOAD_FAULT" /\ Op(h) = "load" /\ tval \notin SlotBytes(h)
             \/ cause = "STORE_FAULT" /\ Op(h) = "store" /\ tval \notin SlotBytes(h)
             \/ cause = "ECALL_U" /\ Op(h) = "ecall"
             \/ cause = "BREAKPOINT" /\ Op(h) = "ebreak"
             \/ cause = "ILLEGAL_INSN" /\ Op(h) \in {"mret", "csr", "illegal"}
      PROVE  ExecPost(h)
  <2>1. /\ harts'[h].csr.mepc = harts[h].pc /\ harts'[h].csr.mcause = cause
        /\ harts'[h].csr.mtval = tval /\ harts[h].pc \in SlotBytes(h)
    BY <1>a, <1>c, TrapPost
  <2>2. OpAt(code'[h], h, harts'[h].csr.mepc) = Op(h)
    BY <2>1 DEF Op
  <2>3. TrapJustified(h)'
    BY <1>c, <2>1, <2>2 DEF TrapJustified
  <2> QED
    BY <1>c, <2>3, TrapPost DEF ExecPost, Trapped
<1>1. CASE TakeTimerInt(h)
  <2>1. /\ Running(h)' /\ harts'[h].mode = "M" /\ harts'[h].csr.mpp = "U"
        /\ harts'[h].csr.mcause = "TIMER_INT" /\ ok' = FALSE
        /\ \A g \in Hart \ {h} : harts'[g] = harts[g]
    BY <1>1 DEF TakeTimerInt, deliverTrap, trapEnter, TypeOK, Running, HartRec, CsrFile
  <2> QED
    BY <2>1 DEF ExecPost, Trapped, TrapJustified
<1>2. CASE FetchFault(h)
  <2>1. Trap(h, "INSN_FAULT", harts[h].pc) /\ harts[h].pc \notin SlotBytes(h)
    BY <1>a, <1>2 DEF FetchFault
  <2>2. TrapJustified(h)'
    BY <2>1, TrapPost DEF TrapJustified
  <2> QED
    BY <2>1, <2>2, TrapPost DEF ExecPost, Trapped
<1>3. CASE ExecHalt(h)
  BY <1>3 DEF ExecHalt, ExecPost, TypeOK, HartRec
<1>4. CASE ExecAlu(h)
  BY <1>b, <1>4 DEF ExecAlu
<1>5. CASE ExecJump(h)
  BY <1>b, <1>5 DEF ExecJump
<1>6. CASE ExecLoad(h)
  <2>1. PICK addr \in Addresses :
           IF check(addr, "LOAD", memId(h))
           THEN Trap(h, "LOAD_FAULT", addr)
           ELSE \E regs \in Computed(harts[h].x) : Retire(h, regs, harts[h].pc + 4)
    BY <1>6 DEF ExecLoad
  <2>2. check(addr, "LOAD", memId(h)) <=> addr \notin SlotBytes(h)
    BY <1>0, HartHasSlot, CheckIsSlot
  <2>3. ~FetchFaults(h) /\ Op(h) = "load"
    BY <1>6 DEF ExecLoad, Executes
  <2>4. CASE check(addr, "LOAD", memId(h))
    BY <1>c, <2>1, <2>2, <2>3, <2>4
  <2>5. CASE ~check(addr, "LOAD", memId(h))
    BY <1>b, <2>1, <2>5
  <2> QED
    BY <2>4, <2>5
<1>7. CASE ExecStore(h)
  <2>1. PICK addr \in Addresses :
           IF check(addr, "STORE", memId(h))
           THEN Trap(h, "STORE_FAULT", addr)
           ELSE Retire(h, harts[h].x, harts[h].pc + 4)
    BY <1>7 DEF ExecStore
  <2>2. check(addr, "STORE", memId(h)) <=> addr \notin SlotBytes(h)
    BY <1>0, HartHasSlot, CheckIsSlot
  <2>3. ~FetchFaults(h) /\ Op(h) = "store"
    BY <1>7 DEF ExecStore, Executes
  <2>4. CASE check(addr, "STORE", memId(h))
    BY <1>c, <2>1, <2>2, <2>3, <2>4
  <2>5. CASE ~check(addr, "STORE", memId(h))
    BY <1>b, <2>1, <2>5
  <2> QED
    BY <2>4, <2>5
<1>8. CASE ExecEcall(h)
  BY <1>c, <1>8 DEF ExecEcall, Executes
<1>9. CASE ExecEbreak(h)
  BY <1>c, <1>9 DEF ExecEbreak, Executes
<1>10. CASE ExecMret(h)
  BY <1>c, <1>10 DEF ExecMret, Executes
<1>11. CASE ExecCsr(h)
  BY <1>c, <1>11 DEF ExecCsr, Executes
<1>12. CASE ExecIllegal(h)
  BY <1>c, <1>12 DEF ExecIllegal, Executes
<1> QED
  BY <1>1, <1>2, <1>3, <1>4, <1>5, <1>6, <1>7, <1>8, <1>9, <1>10, <1>11, <1>12

-----------------------------------------------------------------------------
(* handleTrap.                                                             *)

\* Returning from a trap taken in U-mode goes back to U-mode (doMRet).
LEMMA DoMRetPost ==
    ASSUME NEW r \in HartRec, r.csr.mpp = "U", NEW adv \in BOOLEAN
    PROVE  /\ doMRet(r, adv).state = r.state
           /\ doMRet(r, adv).mode = "U"
           /\ doMRet(r, adv).csr.mpp = "U"
BY DEF doMRet, trapReturn, trapReturnMode, HartRec, CsrFile

\* What handleTrap leaves of hart h, which trapped: it runs in U-mode, has
\* halted, has faulted as its instruction deserves, or blocks at its RECV.
HandlePost(h) ==
    /\ \/ Running(h)' /\ harts'[h].mode = "U"
       \/ harts'[h].state = "HALTED"
       \/ harts'[h].state = "FAULTED" /\ FaultOK(h)'
       \/ harts'[h].state = "WAITING" /\ WaitOK(h)'
    /\ harts'[h].csr.mpp = "U"

\* What it leaves of another hart g: nothing changed, or it was woken.
OtherPost(g) ==
    \/ harts'[g] = harts[g] /\ (harts[g].state = "WAITING" => queues'[g] = queues[g])
    \/ /\ harts[g].state = "WAITING"
       /\ harts'[g] = [harts[g] EXCEPT !.state = "RUNNING"]

\* handleTrap on a hart that trapped out of guest code has these outcomes only.
LEMMA HandleOutcome ==
    ASSUME TypeOK, NEW h \in Hart, code' = code,
           Trapped(h), harts[h].csr.mpp = "U",
           \/ HandleTimer(h) \/ HandleFatal(h) \/ SysPrint(h) \/ SysYield(h)
           \/ SysUnknown(h) \/ SysExit(h)
           \/ SysGetHartId(h) \/ SysSendBad(h) \/ SysSend(h)
           \/ SysRecvBlock(h) \/ SysRecv(h)
    PROVE  HandlePost(h) /\ \A g \in Hart \ {h} : OtherPost(g)
<1>0. harts[h] \in HartRec /\ harts[h].x \in RegFile /\ harts[h].state = "RUNNING"
  BY DEF TypeOK, HartRec, Trapped, Running
<1>a. ASSUME NEW r \in HartRec, r.state = "RUNNING", r.csr.mpp = "U", NEW adv \in BOOLEAN,
             harts' = [harts EXCEPT ![h] = doMRet(r, adv)],
             \A g \in Hart \ {h} : queues'[g] = queues[g]
      PROVE  HandlePost(h) /\ \A g \in Hart \ {h} : OtherPost(g)
  BY <1>a, DoMRetPost DEF TypeOK, HandlePost, OtherPost, Running
<1>b. ASSUME NEW v \in Reg
      PROVE  LET r == [harts[h] EXCEPT !.x.a0 = v]
             IN  r \in HartRec /\ r.state = "RUNNING" /\ r.csr.mpp = "U"
  BY <1>0 DEF HartRec, RegFile
<1>c. h \in Reg /\ 0 \in Reg /\ -1 \in Reg
  BY HartIsReg, IsaAssumption DEF Reg
<1>1. CASE HandleTimer(h)
  BY <1>0, <1>a, <1>1 DEF HandleTimer
<1>2. CASE HandleFatal(h)
  <2>1. /\ harts'[h].state \in {"HALTED", "FAULTED"} /\ harts'[h].csr = harts[h].csr
        /\ harts[h].csr.mcause # "TIMER_INT"
        /\ queues' = queues /\ \A g \in Hart \ {h} : harts'[g] = harts[g]
    BY <1>0, <1>2 DEF HandleFatal, TypeOK, HartRec
  <2>2. TrapJustified(h)'
    BY <2>1 DEF Trapped, TrapJustified
  <2> QED
    BY <2>1, <2>2 DEF HandlePost, OtherPost, FaultOK
<1>3. CASE SysPrint(h) \/ SysYield(h) \/ SysUnknown(h)
  BY <1>0, <1>a, <1>3 DEF SysPrint, SysYield, SysUnknown
<1>4. CASE SysExit(h)
  BY <1>0, <1>4 DEF SysExit, HandlePost, OtherPost, TypeOK, HartRec
<1>5. CASE SysGetHartId(h)
  BY <1>a, <1>b, <1>c, <1>5 DEF SysGetHartId
<1>6. CASE SysSendBad(h)
  BY <1>a, <1>b, <1>c, <1>6 DEF SysSendBad
<1>7. CASE SysSend(h)
  <2>1. PICK target \in Hart :
           /\ Enqueue(h, target)
           /\ harts' = [g \in Hart |->
                IF g = h THEN doMRet([harts[h] EXCEPT !.x.a0 = 0], TRUE)
                ELSE IF g = target /\ harts[g].state = "WAITING"
                     THEN [harts[g] EXCEPT !.state = "RUNNING"]
                ELSE harts[g]]
    BY <1>7 DEF SysSend
  <2>2. HandlePost(h)
    BY <1>b, <1>c, <2>1, DoMRetPost DEF HandlePost, Running
  <2>3. \A g \in Hart \ {h} : OtherPost(g)
    BY <2>1 DEF OtherPost, Enqueue, TypeOK
  <2> QED
    BY <2>2, <2>3
<1>8. CASE SysRecvBlock(h)
  <2>1. /\ harts'[h].state = "WAITING" /\ harts'[h].mode = "U"
        /\ harts'[h].pc = harts[h].csr.mepc /\ harts'[h].x = harts[h].x
        /\ harts'[h].csr = harts[h].csr
        /\ queues' = queues /\ queues[h] = <<>>
        /\ \A g \in Hart \ {h} : harts'[g] = harts[g]
    BY <1>0, <1>8 DEF SysRecvBlock, TypeOK, HartRec
  <2>2. /\ harts[h].csr.mepc \in SlotBytes(h)
        /\ OpAt(code[h], h, harts[h].csr.mepc) = "ecall"
        /\ harts[h].x.a7 = RECV
    BY <1>8 DEF SysRecvBlock, Syscall, Traps, Trapped, TrapJustified
  <2>3. AtRecv(h)'
    BY <2>1, <2>2 DEF AtRecv, Op
  <2> QED
    BY <2>1, <2>3 DEF HandlePost, OtherPost, WaitOK
<1>9. CASE SysRecv(h)
  <2> DEFINE msg == Head(queues[h])
             r == [harts[h] EXCEPT !.x.a0 = ToSigned(msg.value), !.x.a1 = msg.from]
  <2>1. msg \in Message
    BY <1>9 DEF SysRecv, TypeOK
  <2>2. ToSigned(msg.value) \in Reg /\ msg.from \in Reg
    BY <2>1, CastTypes, HartIsReg DEF Message
  <2>3. r \in HartRec /\ r.state = "RUNNING" /\ r.csr.mpp = "U"
    BY <1>0, <2>2 DEF HartRec, RegFile
  <2>4. /\ harts' = [harts EXCEPT ![h] = doMRet(r, TRUE)]
        /\ \A g \in Hart \ {h} : queues'[g] = queues[g]
    BY <1>9 DEF SysRecv, TypeOK
  <2> HIDE DEF r
  <2> QED
    BY <1>a, <2>3, <2>4
<1> QED
  BY <1>1, <1>2, <1>3, <1>4, <1>5, <1>6, <1>7, <1>8, <1>9

-----------------------------------------------------------------------------
(* run().                                                                  *)

\* Every step of run() keeps the inductive invariant.
LEMMA IndNext == IndInv /\ [Next]_vars => IndInv'
<1> SUFFICES ASSUME IndInv, [Next]_vars PROVE IndInv'
  OBVIOUS
<1>0. TypeOK /\ TypeOK'
  BY TypeNext DEF IndInv
<1>1. CASE BeginRound \/ Finish \/ EndRound \/ SkipHart \/ BeginTurn \/ EndTurn
  <2>1. harts' = harts /\ queues' = queues /\ code' = code
    BY <1>1 DEF BeginRound, Finish, EndRound, SkipHart, BeginTurn, EndTurn
  <2>2. phase \notin {"tick", "trap"} /\ phase' \notin {"tick", "trap"}
    BY <1>1 DEF BeginRound, Finish, EndRound, SkipHart, BeginTurn, EndTurn
  <2>3. \A h \in Hart : WaitOK(h)' /\ FaultOK(h)'
    BY <2>1, Frame DEF IndInv, SameHart
  <2>4. \A h \in Hart : ModeOK(h)'
    BY <2>1, <2>2 DEF IndInv, ModeOK, InTrap, Running
  <2> QED
    BY <1>0, <2>2, <2>3, <2>4 DEF IndInv, CallOK
<1>2. CASE ExecuteOne
  <2>1. /\ phase = "exec" /\ phase' = "tick" /\ cur' = cur /\ cur \in Hart
        /\ Running(cur) /\ code' = code /\ queues' = queues
    BY <1>0, <1>2 DEF ExecuteOne, ExecTimerInt, Executing, Calls, InQuantum, TypeOK
  <2>2. PICK c \in Hart : c = cur
    BY <2>1
  <2>3. Running(c) /\ harts[c].mode = "U" /\ harts[c].csr.mpp = "U"
    BY <2>1, <2>2 DEF IndInv, ModeOK, InTrap
  <2>4. ExecPost(c)
    BY <1>0, <1>2, <2>1, <2>2, <2>3, ExecOutcome DEF ExecuteOne, ExecTimerInt
  <2>5. \A h \in Hart \ {c} : WaitOK(h)' /\ FaultOK(h)' /\ ModeOK(h)'
    <3> TAKE h \in Hart \ {c}
    <3>1. SameHart(h) /\ harts'[h] = harts[h]
      BY <2>4 DEF ExecPost, SameHart
    <3>2. WaitOK(h)' /\ FaultOK(h)'
      BY <2>1, <3>1, Frame DEF IndInv
    <3>3. ModeOK(h)'
      BY <2>1, <2>2, <3>1 DEF IndInv, ModeOK, InTrap, Running
    <3> QED
      BY <3>2, <3>3
  <2>6. WaitOK(c)' /\ FaultOK(c)' /\ ModeOK(c)'
    BY <2>1, <2>2, <2>4 DEF ExecPost, WaitOK, FaultOK, ModeOK, Trapped, Running, InTrap
  <2>7. CallOK'
    <3>1. cur' = c
      BY <2>1, <2>2
    <3> QED
      BY <2>1, <2>4, <3>1 DEF ExecPost, CallOK, Trapped, Running, TrapJustified
  <2> QED
    BY <1>0, <2>5, <2>6, <2>7 DEF IndInv
<1>3. CASE TickRetired \/ TickHalted \/ TickTrapped
  <2>1. /\ phase = "tick" /\ code' = code /\ queues' = queues /\ MarkPending /\ cur \in Hart
    BY <1>0, <1>3 DEF TickRetired, TickHalted, TickTrapped, Tick, TypeOK
  <2>2. \A h \in Hart : SameHart(h)
    BY <1>0, <2>1 DEF MarkPending, SameHart, TypeOK, HartRec
  <2>3. \A h \in Hart : WaitOK(h)' /\ FaultOK(h)'
    BY <2>1, <2>2, Frame DEF IndInv
  <2>4. CASE TickRetired
    <3>1. phase' = "exec" /\ cur' = cur /\ Running(cur) /\ harts[cur].mode = "U"
      BY <2>1, <2>4 DEF TickRetired, IndInv, CallOK
    <3>2. \A h \in Hart : ModeOK(h)'
      BY <2>2, <3>1 DEF IndInv, ModeOK, InTrap, Running, SameHart
    <3> QED
      BY <1>0, <2>3, <3>1, <3>2 DEF IndInv, CallOK
  <2>5. CASE TickHalted
    <3>1. phase' = "turn" /\ ~Running(cur)
      BY <2>5 DEF TickHalted, Running
    <3>2. \A h \in Hart : ModeOK(h)'
      BY <2>2, <3>1 DEF IndInv, ModeOK, InTrap, Running, SameHart
    <3> QED
      BY <1>0, <2>3, <3>1, <3>2 DEF IndInv, CallOK
  <2>6. CASE TickTrapped
    <3>1. phase' = "trap" /\ cur' = cur /\ Trapped(cur)
      BY <2>1, <2>6 DEF TickTrapped, IndInv, CallOK
    <3>2. \A h \in Hart : ModeOK(h)'
      BY <2>1, <2>2, <3>1 DEF IndInv, ModeOK, InTrap, Running, SameHart
    <3>3. Trapped(cur)'
      <4>1. cur \in Hart /\ SameHart(cur)
        BY <2>1, <2>2
      <4>2. TrapJustified(cur)' <=> TrapJustified(cur)
        BY <2>1, <3>1, <4>1 DEF TrapJustified, SameHart
      <4> QED
        BY <3>1, <4>1, <4>2 DEF Trapped, Running, SameHart
    <3> QED
      BY <1>0, <2>3, <3>1, <3>2, <3>3 DEF IndInv, CallOK
  <2> QED
    BY <1>3, <2>4, <2>5, <2>6
<1>4. CASE HandleTrap
  <2>1. phase = "trap" /\ phase' = "turn" /\ code' = code /\ cur \in Hart
    BY <1>0, <1>4 DEF HandleTrap, TrapReturns, TypeOK
  <2>a. PICK c \in Hart : c = cur
    BY <2>1
  <2>2. Trapped(c) /\ harts[c].csr.mpp = "U"
    BY <2>1, <2>a DEF IndInv, CallOK, ModeOK
  <2>3. HandlePost(c) /\ \A g \in Hart \ {c} : OtherPost(g)
    BY <1>0, <1>4, <2>1, <2>a, <2>2, HandleOutcome DEF HandleTrap
  <2>4. WaitOK(c)' /\ FaultOK(c)' /\ ModeOK(c)'
    BY <2>1, <2>3 DEF HandlePost, WaitOK, FaultOK, ModeOK, Running
  <2>5. \A h \in Hart \ {c} : WaitOK(h)' /\ FaultOK(h)' /\ ModeOK(h)'
    <3> TAKE h \in Hart \ {c}
    <3>1. CASE harts'[h] = harts[h] /\ (harts[h].state = "WAITING" => queues'[h] = queues[h])
      <4>1. SameHart(h)
        BY <3>1 DEF SameHart
      <4>2. FaultOK(h)'
        BY <2>1, <4>1, Frame DEF IndInv
      <4>3. WaitOK(h)'
        BY <2>1, <3>1, <4>1, Frame DEF IndInv, WaitOK
      <4>4. ModeOK(h)'
        BY <2>1, <2>a, <3>1 DEF IndInv, ModeOK, InTrap, Running
      <4> QED
        BY <4>2, <4>3, <4>4
    <3>2. CASE /\ harts[h].state = "WAITING"
               /\ harts'[h] = [harts[h] EXCEPT !.state = "RUNNING"]
      <4>1. harts[h] \in HartRec /\ harts[h].mode = "U" /\ harts[h].csr.mpp = "U"
        BY <1>0, <3>2 DEF IndInv, WaitOK, AtRecv, ModeOK, TypeOK
      <4>2. /\ harts'[h].state = "RUNNING" /\ harts'[h].mode = "U"
            /\ harts'[h].csr.mpp = "U"
        BY <3>2, <4>1 DEF HartRec
      <4> QED
        BY <4>2 DEF WaitOK, FaultOK, ModeOK
    <3> QED
      BY <2>3, <3>1, <3>2 DEF OtherPost
  <2> QED
    BY <1>0, <2>1, <2>4, <2>5 DEF IndInv, CallOK
<1>5. CASE UNCHANGED vars
  <2>1. /\ harts' = harts /\ queues' = queues /\ code' = code
        /\ phase' = phase /\ cur' = cur /\ ok' = ok
    BY <1>5 DEF vars
  <2>2. \A h \in Hart : WaitOK(h)' /\ FaultOK(h)'
    BY <2>1, Frame DEF IndInv, SameHart
  <2>3. \A h \in Hart : ModeOK(h)'
    BY <2>1 DEF IndInv, ModeOK, InTrap, Running
  <2>4. CallOK'
    BY <2>1 DEF IndInv, CallOK, Trapped, Running, TrapJustified
  <2> QED
    BY <1>0, <2>2, <2>3, <2>4 DEF IndInv
<1> QED
  BY <1>1, <1>2, <1>3, <1>4, <1>5 DEF Next, Terminated

\* The inductive invariant holds throughout every run.
THEOREM Inductive == Spec => []IndInv
BY IndInit, IndNext, PTL DEF Spec

-----------------------------------------------------------------------------
(* The safety properties.                                                  *)

\* Guest code only runs in U-mode: the M-mode branches of executeOne, its CSR
\* instructions and its unchecked memory accesses, are dead code, for every
\* program, number of harts and configuration.
THEOREM UserModeCorrect == Spec => []UserModeOnly
<1>1. IndInv => UserModeOnly
  BY DEF IndInv, ModeOK, WaitOK, AtRecv, UserModeOnly, Running
<1> QED
  BY <1>1, Inductive, PTL

\* SEND and RECV lose no wake-up, however many harts send.
THEOREM WakeupCorrect == Spec => []NoLostWakeup
<1>1. IndInv => NoLostWakeup
  BY DEF IndInv, WaitOK, NoLostWakeup
<1> QED
  BY <1>1, Inductive, PTL

\* A blocked hart re-executes its RECV when woken.
THEOREM ResumeCorrect == Spec => []ResumesAtRecv
<1>1. IndInv => ResumesAtRecv
  BY DEF IndInv, WaitOK, ResumesAtRecv
<1> QED
  BY <1>1, Inductive, PTL

\* A hart is only faulted for what the instruction at mepc did.
THEOREM FaultCorrect == Spec => []FaultJustified
<1>1. IndInv => FaultJustified
  BY DEF IndInv, FaultOK, FaultJustified
<1> QED
  BY <1>1, Inductive, PTL

-----------------------------------------------------------------------------
(* What a step may do to which hart.                                       *)

\* What a step does to a hart that is not at its turn (OthersUntouched).
Untouched(h) ==
    \/ harts'[h] = harts[h]
    \/ Running(h) /\ harts'[h] = [harts[h] EXCEPT !.timerPending = TRUE]
    \/ /\ harts[h].state = "WAITING" /\ Len(queues'[h]) = 1
       /\ harts'[h] = [harts[h] EXCEPT !.state = "RUNNING"]

\* A SEND wakes only its target, with one message in the target's queue.
LEMMA HandleOthers ==
    ASSUME IndInv, NEW c \in Hart, NEW h \in Hart \ {c},
           \/ HandleTimer(c) \/ HandleFatal(c) \/ SysPrint(c) \/ SysYield(c)
           \/ SysUnknown(c) \/ SysExit(c)
           \/ SysGetHartId(c) \/ SysSendBad(c) \/ SysSend(c)
           \/ SysRecvBlock(c) \/ SysRecv(c)
    PROVE  Untouched(h)
<1>0. TypeOK /\ WaitOK(h)
  BY DEF IndInv
<1>1. CASE \/ HandleTimer(c) \/ HandleFatal(c) \/ SysPrint(c) \/ SysYield(c)
           \/ SysUnknown(c) \/ SysExit(c)
  BY <1>0, <1>1 DEF HandleTimer, HandleFatal, SysPrint, SysYield, SysUnknown, SysExit, TypeOK, Untouched
<1>2. CASE SysGetHartId(c) \/ SysSendBad(c) \/ SysRecvBlock(c) \/ SysRecv(c)
  BY <1>0, <1>2 DEF SysGetHartId, SysSendBad, SysRecvBlock, SysRecv, TypeOK, Untouched
<1>3. CASE SysSend(c)
  <2>1. PICK target \in Hart :
           /\ Enqueue(c, target)
           /\ harts' = [g \in Hart |->
                IF g = c THEN doMRet([harts[c] EXCEPT !.x.a0 = 0], TRUE)
                ELSE IF g = target /\ harts[g].state = "WAITING"
                     THEN [harts[g] EXCEPT !.state = "RUNNING"]
                ELSE harts[g]]
    BY <1>3 DEF SysSend
  <2>2. CASE h = target /\ harts[h].state = "WAITING"
    <3>1. queues[h] = <<>>
      BY <1>0, <2>2 DEF WaitOK
    <3>2. queues'[h] = Append(<<>>, [from |-> c, value |-> ToUnsigned(harts[c].x.a1)])
      BY <1>0, <2>1, <2>2, <3>1 DEF Enqueue, TypeOK
    <3>3. Len(queues'[h]) = 1
      BY <3>2
    <3> QED
      BY <2>1, <2>2, <3>3 DEF Untouched
  <2>3. CASE ~(h = target /\ harts[h].state = "WAITING")
    BY <2>1, <2>3 DEF Untouched
  <2> QED
    BY <2>2, <2>3
<1> QED
  BY <1>1, <1>2, <1>3

\* No step touches a hart beyond what Untouched allows, unless it is that
\* hart's turn and the hart is running.
LEMMA StepTouches ==
    ASSUME IndInv, [Next]_vars, NEW h \in Hart
    PROVE  Untouched(h) \/ (h = cur /\ Running(h))
<1>0. TypeOK
  BY DEF IndInv
<1>1. CASE BeginRound \/ Finish \/ EndRound \/ SkipHart \/ BeginTurn \/ EndTurn
  BY <1>1 DEF BeginRound, Finish, EndRound, SkipHart, BeginTurn, EndTurn, Untouched
<1>2. CASE ExecuteOne
  <2>1. cur \in Hart /\ Running(cur)
    BY <1>0, <1>2 DEF ExecuteOne, ExecTimerInt, Executing, Calls, InQuantum, TypeOK
  <2>2. ASSUME h # cur PROVE harts'[h] = harts[h]
    BY <1>0, <1>2, <2>1, <2>2
       DEF ExecuteOne, ExecTimerInt, TakeTimerInt, FetchFault, ExecHalt, ExecAlu,
           ExecJump, ExecLoad, ExecStore, ExecEcall, ExecEbreak, ExecMret, ExecCsr,
           ExecIllegal, Trap, Retire, TypeOK
  <2> QED
    BY <2>1, <2>2 DEF Untouched
<1>3. CASE TickRetired \/ TickHalted \/ TickTrapped
  BY <1>3 DEF TickRetired, TickHalted, TickTrapped, Tick, MarkPending, Untouched
<1>4. CASE HandleTrap
  <2>1. PICK c \in Hart : c = cur /\ Running(c)
    BY <1>0, <1>4 DEF HandleTrap, TrapReturns, TypeOK, IndInv, CallOK, Trapped
  <2>2. ASSUME h # c PROVE Untouched(h)
    BY <1>4, <2>1, <2>2, HandleOthers DEF HandleTrap
  <2> QED
    BY <2>1, <2>2
<1>5. CASE UNCHANGED vars
  BY <1>5 DEF vars, Untouched
<1> QED
  BY <1>1, <1>2, <1>3, <1>4, <1>5 DEF Next, Terminated

\* A hart that has halted or faulted is never touched again, whatever is sent
\* to it and however often the timer fires.
THEOREM StoppedCorrect == Spec => StoppedForGood
<1>1. IndInv /\ [Next]_vars =>
         [\A h \in Hart : harts[h].state \in {"HALTED", "FAULTED"}
                              => harts'[h] = harts[h]]_vars
  BY StepTouches DEF Untouched, Running
<1> QED
  BY <1>1, Inductive, PTL DEF Spec, StoppedForGood

\* A hart's turn leaves the other harts alone but for timer marks and wake-ups.
THEOREM OthersCorrect == Spec => OthersUntouched
<1>1. IndInv /\ [Next]_vars =>
         [\A h \in Hart \ {cur} :
             \/ harts'[h] = harts[h]
             \/ /\ Running(h)
                /\ harts'[h] = [harts[h] EXCEPT !.timerPending = TRUE]
             \/ /\ harts[h].state = "WAITING" /\ Len(queues'[h]) = 1
                /\ harts'[h] = [harts[h] EXCEPT !.state = "RUNNING"]]_vars
  BY StepTouches DEF Untouched
<1> QED
  BY <1>1, Inductive, PTL DEF Spec, OthersUntouched

-----------------------------------------------------------------------------
(* The step limit.                                                         *)

\* How far past the limit the counter can be at each place in run().
BudgetInv ==
    /\ phase = "turn" => totalSteps < maxCycles + cur * quantum
    /\ phase \in {"exec", "tick"} => totalSteps < maxCycles + cur * quantum + ran
    /\ phase = "trap" => totalSteps < maxCycles + cur * quantum + ran + 1
    /\ phase \in {"round", "done"}
          => totalSteps = 0 \/ totalSteps < maxCycles + NHarts * quantum

\* Every step of run() keeps the counter within the budget of its place.
LEMMA BudgetNext == TypeOK /\ BudgetInv /\ [Next]_vars => BudgetInv'
<1> SUFFICES ASSUME TypeOK, BudgetInv, [Next]_vars PROVE BudgetInv'
  OBVIOUS
<1>0. /\ NHarts \in Nat /\ quantum \in Nat /\ maxCycles \in Nat
      /\ cur \in 0 .. NHarts /\ ran \in 0 .. quantum /\ totalSteps \in Nat
  BY NHartsAssumption, MemoryMapAssumption, ConfigAssumption DEF TypeOK
<1>a. /\ cur * quantum \in Nat /\ NHarts * quantum \in Nat
      /\ (cur + 1) * quantum = cur * quantum + quantum
      /\ 0 * quantum = 0
  BY <1>0
<1>1. CASE BeginRound \/ Finish \/ EndRound \/ SkipHart \/ BeginTurn \/ EndTurn
  <2>1. CASE BeginRound
    BY <1>0, <1>a, <2>1 DEF BeginRound, BudgetInv
  <2>2. CASE Finish \/ EndRound
    BY <1>0, <1>a, <2>2 DEF Finish, EndRound, BudgetInv
  <2>3. CASE SkipHart
    BY <1>0, <1>a, <2>3 DEF SkipHart, BudgetInv
  <2>4. CASE BeginTurn
    BY <1>0, <1>a, <2>4 DEF BeginTurn, BudgetInv
  <2>5. CASE EndTurn
    BY <1>0, <1>a, <2>5 DEF EndTurn, BudgetInv
  <2> QED
    BY <1>1, <2>1, <2>2, <2>3, <2>4, <2>5
<1>2. CASE ExecuteOne
  BY <1>2 DEF ExecuteOne, ExecTimerInt, Executing, Calls, BudgetInv
<1>3. CASE TickRetired \/ TickHalted \/ TickTrapped
  <2>1. ran < quantum /\ totalSteps' = totalSteps + 1 /\ phase = "tick"
    BY <1>3 DEF TickRetired, TickHalted, TickTrapped, Tick, CountTick, TypeOK
  <2> QED
    BY <1>0, <1>a, <1>3, <2>1 DEF TickRetired, TickHalted, TickTrapped, BudgetInv
<1>4. CASE HandleTrap
  <2>1. ran < quantum /\ TrapReturns
    BY <1>4 DEF HandleTrap, TrapReturns, TypeOK
  <2> QED
    BY <1>0, <1>a, <2>1 DEF TrapReturns, BudgetInv
<1>5. CASE UNCHANGED vars
  BY <1>5 DEF vars, BudgetInv
<1> QED
  BY <1>1, <1>2, <1>3, <1>4, <1>5 DEF Next, Terminated

\* The step limit, which run() tests between rounds only, is overshot by less
\* than NHarts quanta.
THEOREM BudgetCorrect == Spec => []StepBudget
<1>1. Init => BudgetInv
  BY DEF Init, BudgetInv
<1>2. TypeOK /\ BudgetInv => StepBudget
  <2> SUFFICES ASSUME TypeOK, BudgetInv, totalSteps # 0
               PROVE  totalSteps < maxCycles + NHarts * quantum
    BY DEF StepBudget
  <2>0. /\ NHarts \in Nat /\ quantum \in Nat /\ maxCycles \in Nat
        /\ cur \in 0 .. NHarts /\ ran \in 0 .. quantum /\ totalSteps \in Nat
    BY NHartsAssumption, MemoryMapAssumption, ConfigAssumption DEF TypeOK
  <2>1. \A a, b, c \in Nat : a <= b => a * c <= b * c /\ a * c \in Nat /\ b * c \in Nat
    OBVIOUS
  <2>2. cur * quantum <= NHarts * quantum /\ NHarts * quantum \in Nat /\ cur * quantum \in Nat
    BY <2>0, <2>1
  <2>3. CASE phase \in {"exec", "tick", "trap"}
    <3>1. (cur + 1) * quantum <= NHarts * quantum
      BY <2>0, <2>1, <2>3 DEF TypeOK, Hart
    <3>2. (cur + 1) * quantum = cur * quantum + quantum
      BY <2>0
    <3>3. totalSteps < maxCycles + cur * quantum + quantum
      BY <2>0, <2>2, <2>3 DEF BudgetInv, TypeOK
    <3> QED
      BY <2>0, <2>2, <3>1, <3>2, <3>3
  <2>4. CASE phase \in {"round", "done", "turn"}
    BY <2>0, <2>2, <2>4 DEF BudgetInv
  <2> QED
    BY <2>3, <2>4 DEF TypeOK, Phase
<1> QED
  BY <1>1, <1>2, BudgetNext, TypeCorrect, PTL DEF Spec

-----------------------------------------------------------------------------
(* The calls of executeOne that are counted.                               *)

\* While a trap other than an interrupt is being handled its call has been made
\* and the message it may send is not in a queue yet.
CallsInv ==
    \A h, g \in Hart :
        /\ Len(queues[h]) + lost[g] <= Called
        /\ phase \in {"tick", "trap"} /\ ~Traps(cur, "TIMER_INT")
              => Len(queues[h]) + lost[g] < Called

\* handleTrap makes no queue longer by more than one message.
LEMMA HandleGrows ==
    ASSUME TypeOK, NEW h \in Hart, NEW g \in Hart,
           \/ HandleTimer(h) \/ HandleFatal(h) \/ SysPrint(h) \/ SysYield(h)
           \/ SysUnknown(h) \/ SysExit(h)
           \/ SysGetHartId(h) \/ SysSendBad(h) \/ SysSend(h)
           \/ SysRecvBlock(h) \/ SysRecv(h)
    PROVE  Len(queues'[g]) <= Len(queues[g]) + 1
<1>0. queues \in [Hart -> Seq(Message)] /\ queues[g] \in Seq(Message)
  BY DEF TypeOK
<1>1. CASE queues' = queues
  BY <1>0, <1>1
<1>2. CASE SysSend(h)
  <2>1. PICK target \in Hart : Enqueue(h, target)
    BY <1>2 DEF SysSend
  <2>2. PICK m : queues' = [queues EXCEPT ![target] = Append(@, m)]
    BY <2>1 DEF Enqueue
  <2> QED
    BY <1>0, <2>2
<1>3. CASE SysRecv(h)
  BY <1>0, <1>3 DEF SysRecv
<1> QED
  BY <1>1, <1>2, <1>3 DEF HandleTimer, HandleFatal, SysPrint, SysYield, SysUnknown,
     SysExit, SysGetHartId, SysSendBad, SysRecvBlock

\* Every step of run() keeps messages and lost turns within the calls counted.
LEMMA CallsNext == TypeOK /\ CallsInv /\ [Next]_vars => CallsInv'
<1> SUFFICES ASSUME TypeOK, CallsInv, [Next]_vars, NEW h \in Hart, NEW g \in Hart
             PROVE  /\ Len(queues'[h]) + lost'[g] <= Called'
                    /\ phase' \in {"tick", "trap"} /\ ~Traps(cur, "TIMER_INT")'
                          => Len(queues'[h]) + lost'[g] < Called'
  BY DEF CallsInv
<1>0. /\ totalSteps \in Nat /\ queues[h] \in Seq(Message) /\ Len(queues[h]) \in Nat
      /\ lost \in [Hart -> Nat] /\ lost[g] \in Nat /\ Called \in Nat
      /\ Len(queues[h]) + lost[g] <= Called
      /\ phase \in {"tick", "trap"} /\ ~Traps(cur, "TIMER_INT")
            => Len(queues[h]) + lost[g] < Called
  BY DEF TypeOK, CallsInv, Called
<1>1. CASE BeginRound \/ Finish \/ EndRound \/ SkipHart \/ BeginTurn \/ EndTurn
  <2>1. /\ queues' = queues /\ lost' = lost /\ totalSteps' = totalSteps
        /\ phase \notin {"tick", "trap"} /\ phase' \notin {"tick", "trap"}
    BY <1>1 DEF BeginRound, Finish, EndRound, SkipHart, BeginTurn, EndTurn
  <2> QED
    BY <1>0, <2>1 DEF Called
<1>2. CASE ExecuteOne
  <2>1. /\ phase = "exec" /\ phase' = "tick" /\ totalSteps' = totalSteps /\ queues' = queues
        /\ cur' = cur /\ cur \in Hart /\ Running(cur)
    BY <1>2 DEF ExecuteOne, ExecTimerInt, Executing, Calls, InQuantum, TypeOK
  <2>2. Called' = Called + 1
    BY <1>0, <2>1 DEF Called
  <2>3. CASE ExecTimerInt
    <3>1. Traps(cur, "TIMER_INT")'
      BY <2>1, <2>3 DEF ExecTimerInt, TakeTimerInt, deliverTrap, trapEnter, Traps, TypeOK, HartRec
    <3>2. lost'[g] <= lost[g] + 1 /\ lost'[g] \in Nat
      BY <1>0, <2>1, <2>3 DEF ExecTimerInt
    <3> QED
      BY <1>0, <2>1, <2>2, <3>1, <3>2
  <2>4. CASE Executing
    <3>1. lost'[g] <= lost[g] /\ lost'[g] \in Nat
      BY <1>0, <2>1, <2>4 DEF Executing
    <3> QED
      BY <1>0, <2>1, <2>2, <3>1
  <2> QED
    BY <1>2, <2>3, <2>4 DEF ExecuteOne
<1>3. CASE TickRetired \/ TickHalted \/ TickTrapped
  <2>1. /\ phase = "tick" /\ phase' # "tick" /\ totalSteps' = totalSteps + 1
        /\ queues' = queues /\ lost' = lost
    BY <1>3 DEF TickRetired, TickHalted, TickTrapped, Tick, CountTick
  <2>2. Called' = Called
    BY <1>0, <2>1 DEF Called
  <2>3. phase' = "trap" => (Traps(cur, "TIMER_INT")' <=> Traps(cur, "TIMER_INT"))
    <3>1. phase' = "trap" => TickTrapped /\ cur' = cur /\ cur \in Hart
      BY <1>3 DEF TickRetired, TickHalted, TickTrapped, Tick, TypeOK
    <3> SUFFICES ASSUME phase' = "trap" PROVE Traps(cur, "TIMER_INT")' <=> Traps(cur, "TIMER_INT")
      OBVIOUS
    <3>2. harts'[cur].csr = harts[cur].csr
      <4>1. PICK c \in Hart : c = cur
        BY <3>1
      <4>2. harts'[c] = harts[c] \/ harts'[c] = [harts[c] EXCEPT !.timerPending = TRUE]
        BY <3>1 DEF TickTrapped, Tick, MarkPending
      <4>3. harts[c] \in HartRec
        BY DEF TypeOK
      <4>4. harts'[c].csr = harts[c].csr
        BY <4>2, <4>3 DEF HartRec
      <4> QED
        BY <4>1, <4>4
    <3> QED
      BY <3>1, <3>2 DEF Traps
  <2> QED
    BY <1>0, <2>1, <2>2, <2>3
<1>4. CASE HandleTrap
  <2>1. TrapReturns /\ cur \in Hart
    BY <1>4 DEF HandleTrap, TrapReturns, TypeOK
  <2>2. /\ phase = "trap" /\ phase' \notin {"tick", "trap"} /\ totalSteps' = totalSteps
        /\ lost' = lost
    BY <2>1 DEF TrapReturns
  <2>3. Called' = Called
    BY <2>2 DEF Called
  <2>4. CASE Traps(cur, "TIMER_INT")
    <3>1. queues' = queues
      BY <1>4, <2>4 DEF HandleTrap, Traps, HandleTimer, HandleFatal, Syscall, SysPrint, SysYield,
         SysUnknown, SysExit, SysGetHartId, SysSendBad, SysSend, SysRecvBlock, SysRecv
    <3> QED
      BY <1>0, <2>2, <2>3, <3>1
  <2>5. CASE ~Traps(cur, "TIMER_INT")
    <3>1. Len(queues'[h]) <= Len(queues[h]) + 1
      BY <1>4, <2>1, HandleGrows DEF HandleTrap
    <3>2. Len(queues'[h]) \in Nat
      <4>1. queues' \in [Hart -> Seq(Message)]
        BY <1>4, <2>1, HandleType DEF HandleTrap
      <4> QED
        BY <4>1
    <3> QED
      BY <1>0, <2>2, <2>3, <2>5, <3>1, <3>2
  <2> QED
    BY <2>4, <2>5
<1>5. CASE UNCHANGED vars
  BY <1>0, <1>5 DEF vars, Called, Traps
<1> QED
  BY <1>1, <1>2, <1>3, <1>4, <1>5 DEF Next, Terminated

\* Messages in a queue and turns lost to interrupts never outnumber the steps that
\* run() counts, whoever sends, whether or not anyone receives, and whatever the
\* timer interval.
THEOREM CallsCorrect == Spec => []CallsCounted
<1>1. Init => CallsInv
  <2> SUFFICES ASSUME Init PROVE CallsInv
    OBVIOUS
  <2>1. /\ totalSteps = 0 /\ phase \notin {"tick", "trap"}
        /\ \A h \in Hart : Len(queues[h]) = 0 /\ lost[h] = 0
    BY DEF Init, KernelInit
  <2> QED
    BY <2>1 DEF CallsInv, Called
<1>2. CallsInv => CallsCounted
  BY DEF CallsInv, CallsCounted
<1> QED
  BY <1>1, <1>2, CallsNext, TypeCorrect, PTL DEF Spec

-----------------------------------------------------------------------------
(* How many turns in a row timer interrupts can cost a hart.               *)
(*                                                                         *)
(* Elapsed(h) bounds the ticks counted since hart h's last call of         *)
(* executeOne began, from the place run() is at.  A hart that can be       *)
(* interrupted and has an interrupt pending got it within that time        *)
(* (DueOK); between two turns it loses the timer has run through a whole   *)
(* interval but counted Gap ticks at most (LostOK).                        *)

\* Ticks counted before turn c at most, since hart h lost its turn.
Before(c, h) == IF c > h THEN 1 + (c - h - 1) * quantum
                ELSE 1 + (NHarts - h - 1) * quantum + c * quantum

Elapsed(h) ==
    IF phase \in {"round", "done"} THEN Before(NHarts, h)
    ELSE IF phase = "turn" THEN Before(cur, h)
    ELSE IF cur # h THEN Before(cur, h) + ran + (IF phase = "trap" THEN 1 ELSE 0)
    ELSE IF phase = "exec" /\ ran = 0 THEN Gap
    ELSE IF phase = "tick" THEN 0 ELSE 1

Due(h) == Running(h) /\ harts[h].timerPending /\ MieInGuest(h)

\* A trap clears MIE, and a hart that blocks in RECV keeps it cleared.
MieOK(h) == harts[h].mode = "M" \/ harts[h].state = "WAITING" => harts[h].csr.mie = 0

DueOK(h) == Due(h) => timerTick < Elapsed(h)

Slack == timerInterval - Gap

LostOK(h) == lost[h] > 0 =>
    /\ Running(h)
    /\ InTrap(h) => ~ok /\ Traps(h, "TIMER_INT")
    /\ phase = "exec" /\ cur = h => ran = 0
    /\ (lost[h] - 1) * Slack < Gap
    /\ timerTick + (lost[h] - 1) * Slack
          + (IF harts[h].timerPending THEN timerInterval ELSE 0) < Gap + Elapsed(h)

LossInv == \A h \in Hart : MieOK(h) /\ DueOK(h) /\ LostOK(h)

-----------------------------------------------------------------------------
(* The clock.                                                              *)

\* What the proofs use of the arithmetic of turns.
LEMMA BeforeTurn ==
    ASSUME NEW h \in Hart
    PROVE  /\ Gap \in Nat \ {0} /\ Before(h, h) = Gap /\ Before(h + 1, h) = 1
           /\ Before(0, h) = Before(NHarts, h)
           /\ \A c \in 0 .. NHarts : Before(c, h) \in Nat \ {0}
           /\ \A c \in Hart \ {h} : Before(c + 1, h) = Before(c, h) + quantum
           /\ quantum = 0 => Gap = 1
<1>0. NHarts \in Nat \ {0} /\ quantum \in Nat /\ h \in 0 .. NHarts - 1
  BY NHartsAssumption, MemoryMapAssumption, ConfigAssumption DEF Hart
<1>1. \A a, b \in Nat : /\ a * b \in Nat
                        /\ (a + 1) * b = a * b + b
                        /\ 0 * b = 0 /\ a * 0 = 0
  OBVIOUS
<1>2. \A a, b, c \in Nat : (a + b) * c = a * c + b * c
  OBVIOUS
<1>3. NHarts - 1 \in Nat /\ NHarts - h - 1 \in Nat /\ NHarts - 1 = (NHarts - h - 1) + h
  BY <1>0
<1>4. (NHarts - 1) * quantum = (NHarts - h - 1) * quantum + h * quantum
  BY <1>0, <1>2, <1>3
<1>5. Gap \in Nat \ {0} /\ Before(h, h) = Gap /\ (quantum = 0 => Gap = 1)
  BY <1>0, <1>1, <1>3, <1>4 DEF Gap, Before
<1>6. Before(h + 1, h) = 1 /\ Before(0, h) = Before(NHarts, h)
  BY <1>0, <1>1, <1>3 DEF Before
<1>7. ASSUME NEW c \in 0 .. NHarts PROVE Before(c, h) \in Nat \ {0}
  <2>1. CASE c > h
    <3>1. c - h - 1 \in Nat
      BY <1>0, <2>1
    <3> QED
      BY <1>0, <1>1, <2>1, <3>1 DEF Before
  <2>2. CASE ~(c > h)
    <3>1. c \in Nat
      BY <1>0
    <3> QED
      BY <1>0, <1>1, <1>3, <2>2, <3>1 DEF Before
  <2> QED
    BY <2>1, <2>2
<1>8. ASSUME NEW c \in Hart \ {h} PROVE Before(c + 1, h) = Before(c, h) + quantum
  <2>0. c \in Nat /\ c # h /\ (c + 1) * quantum = c * quantum + quantum /\ c * quantum \in Nat
    BY <1>0, <1>1 DEF Hart
  <2>1. CASE c > h
    <3>1. c - h - 1 \in Nat /\ c + 1 - h - 1 = (c - h - 1) + 1 /\ c + 1 > h
      BY <1>0, <2>0, <2>1
    <3>2. (c + 1 - h - 1) * quantum = (c - h - 1) * quantum + quantum
      BY <1>0, <1>1, <3>1
    <3>3. (c - h - 1) * quantum \in Nat
      BY <1>0, <1>1, <3>1
    <3> QED
      BY <1>0, <2>1, <3>1, <3>2, <3>3 DEF Before
  <2>2. CASE c < h
    <3>1. ~(c > h) /\ ~(c + 1 > h)
      BY <1>0, <2>0, <2>2
    <3>2. (NHarts - h - 1) * quantum \in Nat
      BY <1>0, <1>1, <1>3
    <3> QED
      BY <1>0, <2>0, <3>1, <3>2 DEF Before
  <2> QED
    BY <1>0, <2>0, <2>1, <2>2
<1> QED
  BY <1>5, <1>6, <1>7, <1>8

\* Elapsed is a number of ticks, before and after a step.
LEMMA ElapsedType ==
    ASSUME NEW h \in Hart
    PROVE  (TypeOK => Elapsed(h) \in Nat) /\ (TypeOK' => Elapsed(h)' \in Nat)
<1>0. NHarts \in Nat /\ NHarts \in 0 .. NHarts /\ quantum \in Nat
  BY NHartsAssumption, MemoryMapAssumption, ConfigAssumption
<1>1. Gap \in Nat /\ \A c \in 0 .. NHarts : Before(c, h) \in Nat
  BY BeforeTurn
<1>2. ASSUME TypeOK PROVE Elapsed(h) \in Nat
  <2>1. Before(NHarts, h) \in Nat /\ Before(cur, h) \in Nat /\ ran \in Nat
    BY <1>0, <1>1, <1>2 DEF TypeOK
  <2> QED
    BY <1>1, <2>1 DEF Elapsed
<1>3. ASSUME TypeOK' PROVE Elapsed(h)' \in Nat
  <2>1. Before(NHarts, h) \in Nat /\ Before(cur', h) \in Nat /\ ran' \in Nat
    BY <1>0, <1>1, <1>3 DEF TypeOK
  <2> QED
    BY <1>1, <2>1 DEF Elapsed
<1> QED
  BY <1>2, <1>3

\* Between two calls of executeOne, Elapsed does not fall for a running hart.
LEMMA ElapsedKept ==
    ASSUME TypeOK, NEW h \in Hart, Running(h),
           \/ BeginRound \/ Finish \/ EndRound \/ SkipHart \/ BeginTurn \/ EndTurn
           \/ TrapReturns
    PROVE  Elapsed(h)' >= Elapsed(h)
<1>0. /\ NHarts \in Nat /\ NHarts \in 0 .. NHarts /\ cur \in 0 .. NHarts
      /\ quantum \in Nat /\ ran \in 0 .. quantum /\ h \in Nat
  BY NHartsAssumption, MemoryMapAssumption, ConfigAssumption DEF TypeOK, Hart
<1>1. /\ Gap \in Nat \ {0} /\ Before(NHarts, h) \in Nat \ {0} /\ Before(cur, h) \in Nat \ {0}
      /\ Before(h, h) = Gap /\ Before(h + 1, h) = 1 /\ Before(0, h) = Before(NHarts, h)
      /\ quantum = 0 => Gap = 1
  BY <1>0, BeforeTurn
<1>2. cur \in Hart \ {h} => Before(cur + 1, h) = Before(cur, h) + quantum
  BY BeforeTurn
<1>3. CASE BeginRound
  BY <1>0, <1>1, <1>3 DEF BeginRound, Elapsed
<1>4. CASE Finish
  BY <1>0, <1>1, <1>4 DEF Finish, Elapsed
<1>5. CASE EndRound
  BY <1>0, <1>1, <1>5 DEF EndRound, Elapsed
<1>6. CASE SkipHart
  <2>1. cur \in Hart \ {h}
    BY <1>0, <1>6 DEF SkipHart, Hart
  <2> QED
    BY <1>0, <1>1, <1>2, <1>6, <2>1 DEF SkipHart, Elapsed
<1>7. CASE BeginTurn
  BY <1>0, <1>1, <1>7 DEF BeginTurn, Elapsed
<1>8. CASE EndTurn
  <2>1. /\ phase = "exec" /\ phase' = "turn" /\ cur' = cur + 1
        /\ cur \in Hart /\ (cur = h => ran >= quantum)
    BY <1>0, <1>8 DEF EndTurn, InQuantum, TypeOK
  <2>2. CASE cur = h
    BY <1>0, <1>1, <2>1, <2>2 DEF Elapsed
  <2>3. CASE cur # h
    BY <1>0, <1>1, <1>2, <2>1, <2>3 DEF Elapsed
  <2> QED
    BY <2>2, <2>3
<1>9. CASE TrapReturns
  <2>1. phase = "trap" /\ phase' = "turn" /\ cur' = cur + 1 /\ cur \in Hart /\ ran < quantum
    BY <1>9 DEF TrapReturns, TypeOK
  <2>2. CASE cur = h
    BY <1>0, <1>1, <2>1, <2>2 DEF Elapsed
  <2>3. CASE cur # h
    BY <1>0, <1>1, <1>2, <2>1, <2>3 DEF Elapsed
  <2> QED
    BY <2>2, <2>3
<1> QED
  BY <1>3, <1>4, <1>5, <1>6, <1>7, <1>8, <1>9

\* A tick is one of the ticks Elapsed allows for.
LEMMA ElapsedTick ==
    ASSUME TypeOK, NEW h \in Hart, TickRetired \/ TickHalted \/ TickTrapped
    PROVE  Elapsed(h)' >= Elapsed(h) + 1
<1>0. /\ cur \in Hart /\ cur \in 0 .. NHarts /\ phase = "tick"
      /\ quantum \in Nat /\ ran \in 0 .. quantum /\ ran < quantum /\ h \in Nat
  BY NHartsAssumption, MemoryMapAssumption, ConfigAssumption
     DEF TickRetired, TickHalted, TickTrapped, Tick, TypeOK, Hart
<1>1. Before(cur, h) \in Nat \ {0} /\ Before(h + 1, h) = 1
  BY <1>0, BeforeTurn
<1>2. cur \in Hart \ {h} => Before(cur + 1, h) = Before(cur, h) + quantum
  BY BeforeTurn
<1>3. CASE TickRetired
  BY <1>0, <1>1, <1>3 DEF TickRetired, Elapsed
<1>4. CASE TickHalted
  BY <1>0, <1>1, <1>2, <1>4 DEF TickHalted, Elapsed
<1>5. CASE TickTrapped
  BY <1>0, <1>1, <1>5 DEF TickTrapped, Elapsed
<1> QED
  BY <1>3, <1>4, <1>5

-----------------------------------------------------------------------------
(* What executeOne and handleTrap do to the flags of a hart.               *)

\* A call of executeOne that does not take the interrupt leaves the pending
\* flag and, in the guest's view, MIE; a trap clears MIE itself.
LEMMA ExecFlags ==
    ASSUME TypeOK, NEW c \in Hart, harts[c].mode = "U", Running(c),
           \/ FetchFault(c) \/ ExecHalt(c) \/ ExecAlu(c)
           \/ ExecJump(c) \/ ExecLoad(c) \/ ExecStore(c) \/ ExecEcall(c)
           \/ ExecEbreak(c) \/ ExecMret(c) \/ ExecCsr(c) \/ ExecIllegal(c)
    PROVE  /\ ~TimerDue(c)
           /\ harts'[c].timerPending = harts[c].timerPending
           /\ harts'[c].state # "WAITING"
           /\ \/ harts'[c].mode = "M" /\ harts'[c].csr.mie = 0
                 /\ harts'[c].csr.mpie = harts[c].csr.mie
              \/ harts'[c].mode = "U" /\ harts'[c].csr.mie = harts[c].csr.mie
           /\ \A g \in Hart \ {c} : harts'[g] = harts[g]
<1> DEFINE Post ==
       /\ harts'[c].timerPending = harts[c].timerPending
       /\ harts'[c].state # "WAITING"
       /\ \/ harts'[c].mode = "M" /\ harts'[c].csr.mie = 0
             /\ harts'[c].csr.mpie = harts[c].csr.mie
          \/ harts'[c].mode = "U" /\ harts'[c].csr.mie = harts[c].csr.mie
       /\ \A g \in Hart \ {c} : harts'[g] = harts[g]
<1>0. harts[c] \in HartRec /\ harts[c].csr \in CsrFile /\ harts[c].state = "RUNNING"
  BY DEF TypeOK, HartRec, Running
<1>1. ASSUME NEW cause, NEW tval, Trap(c, cause, tval) PROVE Post
  BY <1>0, <1>1 DEF Trap, deliverTrap, trapEnter, TypeOK, HartRec, CsrFile
<1>2. ASSUME NEW regs, NEW next, Retire(c, regs, next) PROVE Post
  BY <1>0, <1>2 DEF Retire, TypeOK, HartRec
<1>3. ASSUME ExecHalt(c) PROVE Post
  BY <1>0, <1>3 DEF ExecHalt, Executes, TypeOK, HartRec
<1> HIDE DEF Post
<1>4. ASSUME ExecAlu(c) \/ ExecJump(c) PROVE Post
  BY <1>2, <1>4 DEF ExecAlu, ExecJump
<1>5. ASSUME ExecLoad(c) PROVE Post
  BY <1>1, <1>2, <1>5 DEF ExecLoad
<1>6. ASSUME ExecStore(c) PROVE Post
  BY <1>1, <1>2, <1>6 DEF ExecStore
<1>7. ASSUME \/ FetchFault(c) \/ ExecEcall(c) \/ ExecEbreak(c)
             \/ ExecMret(c) \/ ExecCsr(c) \/ ExecIllegal(c)
      PROVE  Post
  BY <1>1, <1>7 DEF FetchFault, ExecEcall, ExecEbreak, ExecMret, ExecCsr, ExecIllegal
<1>8. Post
  BY <1>3, <1>4, <1>5, <1>6, <1>7
<1>9. ~TimerDue(c)
  BY DEF FetchFault, ExecHalt, ExecAlu, ExecJump, ExecLoad, ExecStore, ExecEcall,
         ExecEbreak, ExecMret, ExecCsr, ExecIllegal, Executes
<1> QED
  BY <1>8, <1>9 DEF Post

\* Taking the interrupt clears the pending flag and leaves the hart trapped.
LEMMA TimerFlags ==
    ASSUME TypeOK, NEW c \in Hart, Running(c), TakeTimerInt(c)
    PROVE  /\ harts[c].mode = "U" /\ harts[c].timerPending /\ harts[c].csr.mie = 1
           /\ harts'[c].timerPending = FALSE /\ ok' = FALSE
           /\ harts'[c].state = "RUNNING"
           /\ harts'[c].mode = "M" /\ harts'[c].csr.mie = 0
           /\ harts'[c].csr.mcause = "TIMER_INT"
           /\ \A g \in Hart \ {c} : harts'[g] = harts[g]
<1>0. harts[c] \in HartRec /\ harts[c].csr \in CsrFile /\ harts[c].state = "RUNNING"
  BY DEF TypeOK, HartRec, Running
<1>1. harts[c].mode = "U" /\ harts[c].timerPending /\ harts[c].csr.mie = 1
  BY DEF TakeTimerInt, TimerDue, interruptsEnabled
<1> QED
  BY <1>0, <1>1 DEF TakeTimerInt, deliverTrap, trapEnter, TypeOK, HartRec, CsrFile

\* The hart whose trap is handled returns to guest code with the MIE it trapped
\* with, stops, or blocks with MIE cleared; its pending flag is left alone.
HandledFlags(c) ==
    /\ harts'[c].timerPending = harts[c].timerPending
    /\ \/ /\ harts'[c].state = "RUNNING" /\ harts'[c].mode = "U"
          /\ harts'[c].csr.mie = harts[c].csr.mpie
       \/ /\ harts'[c].state \in {"HALTED", "FAULTED", "WAITING"}
          /\ harts'[c].csr = harts[c].csr
          /\ harts'[c].state = "WAITING" \/ harts'[c].mode = harts[c].mode

\* doMRet on the trapped hart, whatever it wrote to the registers.
LEMMA ReturnFlags ==
    ASSUME NEW c \in Hart, harts[c].csr.mpp = "U",
           NEW r \in HartRec, NEW adv \in BOOLEAN, r.state = "RUNNING",
           r.csr = harts[c].csr, r.timerPending = harts[c].timerPending,
           harts'[c] = doMRet(r, adv)
    PROVE  HandledFlags(c) /\ harts'[c].state = "RUNNING"
<1>1. /\ harts'[c].state = "RUNNING" /\ harts'[c].mode = r.csr.mpp
      /\ harts'[c].timerPending = r.timerPending /\ harts'[c].csr = trapReturn(r.csr)
  BY DEF doMRet, trapReturnMode, HartRec
<1>2. r.csr \in CsrFile
  BY DEF HartRec
<1>3. harts'[c].csr.mie = r.csr.mpie
  BY <1>1, <1>2 DEF trapReturn, CsrFile
<1> QED
  BY <1>1, <1>3 DEF HandledFlags

\* handleTrap: the flags of the hart that trapped, and of the others.
LEMMA HandleFlags ==
    ASSUME TypeOK, NEW c \in Hart, Running(c), harts[c].csr.mpp = "U",
           \/ HandleTimer(c) \/ HandleFatal(c) \/ SysPrint(c) \/ SysYield(c)
           \/ SysUnknown(c) \/ SysExit(c)
           \/ SysGetHartId(c) \/ SysSendBad(c) \/ SysSend(c)
           \/ SysRecvBlock(c) \/ SysRecv(c)
    PROVE  /\ HandledFlags(c)
           /\ Traps(c, "TIMER_INT") => Running(c)'
<1>0. /\ harts[c] \in HartRec /\ harts[c].x \in RegFile /\ harts[c].state = "RUNNING"
      /\ harts \in [Hart -> HartRec] /\ queues[c] \in Seq(Message)
  BY DEF TypeOK, HartRec, Running
<1>a. \A v \in Reg : LET r == [harts[c] EXCEPT !.x.a0 = v]
                     IN  /\ r \in HartRec /\ r.csr = harts[c].csr
                         /\ r.state = "RUNNING" /\ r.timerPending = harts[c].timerPending
  BY <1>0 DEF HartRec, RegFile
<1>b. c \in Reg /\ 0 \in Reg /\ -1 \in Reg
  BY HartIsReg, IsaAssumption DEF Reg
<1>1. CASE HandleTimer(c) \/ SysPrint(c) \/ SysYield(c) \/ SysUnknown(c)
  <2>1. PICK adv \in BOOLEAN : harts' = [harts EXCEPT ![c] = doMRet(harts[c], adv)]
    BY <1>0, <1>1 DEF HandleTimer, SysPrint, SysYield, SysUnknown
  <2>2. harts'[c] = doMRet(harts[c], adv)
    BY <1>0, <2>1
  <2> QED
    BY <1>0, <2>2, ReturnFlags DEF Running
<1>2. CASE HandleFatal(c) \/ SysExit(c)
  <2>1. /\ harts'[c].state \in {"HALTED", "FAULTED"} /\ harts'[c].csr = harts[c].csr
        /\ harts'[c].mode = harts[c].mode
        /\ harts'[c].timerPending = harts[c].timerPending
    BY <1>0, <1>2 DEF HandleFatal, SysExit, HartRec
  <2>2. ~Traps(c, "TIMER_INT")
    BY <1>2 DEF HandleFatal, SysExit, Syscall, Traps
  <2> QED
    BY <2>1, <2>2 DEF HandledFlags
<1>3. CASE SysRecvBlock(c)
  <2>1. /\ harts'[c].state = "WAITING" /\ harts'[c].csr = harts[c].csr
        /\ harts'[c].timerPending = harts[c].timerPending
    BY <1>0, <1>3 DEF SysRecvBlock, HartRec
  <2>2. ~Traps(c, "TIMER_INT")
    BY <1>3 DEF SysRecvBlock, Syscall, Traps
  <2> QED
    BY <2>1, <2>2 DEF HandledFlags
<1>4. CASE SysGetHartId(c) \/ SysSendBad(c) \/ SysSend(c)
  <2>1. PICK v \in Reg : harts'[c] = doMRet([harts[c] EXCEPT !.x.a0 = v], TRUE)
    BY <1>0, <1>b, <1>4 DEF SysGetHartId, SysSendBad, SysSend
  <2> QED
    BY <1>a, <2>1, ReturnFlags DEF Running
<1>5. CASE SysRecv(c)
  <2> DEFINE msg == Head(queues[c])
  <2> DEFINE r == [harts[c] EXCEPT !.x.a0 = ToSigned(msg.value), !.x.a1 = msg.from]
  <2>1. queues[c] # <<>> /\ msg \in Message
    BY <1>0, <1>5 DEF SysRecv
  <2>2. ToSigned(msg.value) \in Reg /\ msg.from \in Reg
    BY <2>1, CastTypes, HartIsReg DEF Message
  <2>3. /\ r \in HartRec /\ r.csr = harts[c].csr
        /\ r.state = "RUNNING" /\ r.timerPending = harts[c].timerPending
    BY <1>0, <2>2 DEF HartRec, RegFile
  <2>4. harts'[c] = doMRet(r, TRUE)
    BY <1>0, <1>5 DEF SysRecv
  <2> HIDE DEF r
  <2> QED
    BY <2>3, <2>4, ReturnFlags DEF Running
<1> QED
  BY <1>1, <1>2, <1>3, <1>4, <1>5

-----------------------------------------------------------------------------
(* The invariant.                                                          *)

\* Freshly spawned harts have no interrupt pending and have lost no turn.
LEMMA LossInit == Init => LossInv
BY DEF Init, CpuInit, HartInit, CsrReset, LossInv, MieOK, DueOK, Due, LostOK

\* A step that leaves hart h, the timer and the turns h has lost alone.
LEMMA LossKept ==
    ASSUME TypeOK, NEW h \in Hart, harts'[h] = harts[h], timerTick' = timerTick,
           lost'[h] = lost[h], ok' = ok, MieOK(h), DueOK(h), LostOK(h),
           TypeOK', Running(h) => Elapsed(h)' >= Elapsed(h),
           InTrap(h)' => InTrap(h),
           phase' = "exec" /\ cur' = h => ran' = 0
    PROVE  MieOK(h)' /\ DueOK(h)' /\ LostOK(h)'
<1>0. /\ Elapsed(h) \in Nat /\ Elapsed(h)' \in Nat /\ timerTick \in Nat
      /\ lost[h] \in Nat /\ timerInterval \in Nat /\ Gap \in Nat
  <2>1. Elapsed(h) \in Nat /\ Elapsed(h)' \in Nat
    BY ElapsedType
  <2> QED
    BY <2>1, BeforeTurn, ConfigAssumption DEF TypeOK
<1>a. Slack \in Int /\ (lost[h] - 1) * Slack \in Int
  BY <1>0 DEF Slack
<1>1. MieOK(h)'
  BY DEF MieOK
<1>2. DueOK(h)'
  BY <1>0 DEF DueOK, Due, Running, MieInGuest
<1>3. LostOK(h)'
  <2> SUFFICES ASSUME lost[h] > 0 PROVE LostOK(h)'
    BY DEF LostOK
  <2> DEFINE p == (lost[h] - 1) * Slack
  <2>1. /\ Running(h) /\ p < Gap /\ p \in Int
        /\ timerTick + p + (IF harts[h].timerPending THEN timerInterval ELSE 0) < Gap + Elapsed(h)
        /\ InTrap(h) => ~ok /\ Traps(h, "TIMER_INT")
    BY <1>a DEF LostOK
  <2>2. p' = p
    BY DEF Slack, Gap
  <2> HIDE DEF p
  <2>3. timerTick + p + (IF harts[h].timerPending THEN timerInterval ELSE 0) < Gap + Elapsed(h)'
    BY <1>0, <2>1
  <2> QED
    BY <2>1, <2>2, <2>3 DEF LostOK, p, Running, Traps, Slack, Gap
<1> QED
  BY <1>1, <1>2, <1>3

\* A call of executeOne: it costs a hart its turn only if the timer has fallen
\* back far enough.
LEMMA LossExec ==
    ASSUME IndInv, LossInv, TypeOK', ExecuteOne, NEW h \in Hart
    PROVE  MieOK(h)' /\ DueOK(h)' /\ LostOK(h)'
<1>0. /\ TypeOK /\ phase = "exec" /\ cur \in Hart /\ Running(cur) /\ harts[cur].mode = "U"
      /\ phase' = "tick" /\ cur' = cur /\ ran' = ran /\ timerTick' = timerTick
  BY DEF IndInv, ModeOK, InTrap, ExecuteOne, ExecTimerInt, Executing, Calls, InQuantum, TypeOK
<1>a. PICK c \in Hart : c = cur
  BY <1>0
<1>b. MieOK(h) /\ DueOK(h) /\ LostOK(h)
  BY DEF LossInv
<1>c. /\ timerTick \in Nat /\ lost[c] \in Nat /\ lost \in [Hart -> Nat]
      /\ timerInterval \in Nat /\ Gap \in Nat
  BY <1>0, ConfigAssumption, BeforeTurn DEF TypeOK
<1>1. CASE TakeTimerInt(c) /\ lost' = [lost EXCEPT ![c] = IF ran = 0 THEN @ + 1 ELSE 0]
  <2>1. /\ harts[c].mode = "U" /\ harts[c].timerPending /\ harts[c].csr.mie = 1
        /\ harts'[c].timerPending = FALSE /\ ok' = FALSE
        /\ harts'[c].state = "RUNNING"
        /\ harts'[c].mode = "M" /\ harts'[c].csr.mie = 0
        /\ harts'[c].csr.mcause = "TIMER_INT"
        /\ \A g \in Hart \ {c} : harts'[g] = harts[g]
    BY <1>0, <1>a, <1>1, TimerFlags
  <2>2. CASE h # c
    <3>1. harts'[h] = harts[h] /\ lost'[h] = lost[h] /\ Elapsed(h)' = Elapsed(h)
      BY <1>0, <1>a, <1>c, <1>1, <2>1, <2>2 DEF Elapsed
    <3> QED
      BY <1>0, <1>a, <1>b, <2>2, <3>1
         DEF MieOK, DueOK, Due, LostOK, InTrap, Running, MieInGuest
  <2>3. CASE h = c /\ ran = 0
    <3>1. Elapsed(h) = Gap /\ Elapsed(h)' = 0 /\ lost'[h] = lost[h] + 1
      BY <1>0, <1>a, <1>c, <1>1, <2>3 DEF Elapsed
    <3>2. timerTick < Gap
      BY <1>a, <1>0, <1>b, <2>1, <2>3, <3>1 DEF DueOK, Due, MieInGuest
    <3>3. timerTick + lost[h] * Slack < Gap
      <4>1. CASE lost[h] = 0
        BY <1>c, <3>2, <4>1 DEF Slack
      <4>2. CASE lost[h] > 0
        <5>1. timerTick + (lost[h] - 1) * Slack + timerInterval < Gap + Gap
          BY <1>b, <2>1, <2>3, <3>1, <4>2 DEF LostOK
        <5>2. \A a \in Nat, b \in Int : a * b = (a - 1) * b + b /\ (a - 1) * b \in Int
          OBVIOUS
        <5>3. Slack \in Int /\ Slack = timerInterval - Gap
          BY <1>c DEF Slack
        <5>4. /\ lost[h] * Slack = (lost[h] - 1) * Slack + Slack
              /\ (lost[h] - 1) * Slack \in Int
          BY <1>c, <2>3, <5>2, <5>3
        <5> QED
          BY <1>c, <5>1, <5>3, <5>4
      <4> QED
        BY <1>c, <2>3, <4>1, <4>2
    <3>4. lost[h] * Slack \in Int /\ lost[h] \in Nat /\ lost[h] + 1 - 1 = lost[h]
      BY <1>c, <2>3 DEF Slack
    <3>5. MieOK(h)' /\ DueOK(h)'
      BY <2>1, <2>3 DEF MieOK, DueOK, Due
    <3>6. /\ (lost'[h] - 1) * Slack < Gap
          /\ timerTick' + (lost'[h] - 1) * Slack + 0 < Gap + Elapsed(h)'
      BY <1>0, <1>c, <3>1, <3>3, <3>4
    <3>7. LostOK(h)'
      BY <1>0, <1>a, <2>1, <2>3, <3>6 DEF LostOK, Running, InTrap, Traps, Slack, Gap
    <3> QED
      BY <3>5, <3>7
  <2>4. CASE h = c /\ ran # 0
    <3>1. lost'[h] = 0
      BY <1>c, <1>1, <2>4
    <3> QED
      BY <2>1, <2>4, <3>1 DEF MieOK, DueOK, Due, LostOK
  <2> QED
    BY <2>2, <2>3, <2>4
<1>2. CASE /\ lost' = [lost EXCEPT ![c] = 0]
           /\ \/ FetchFault(c) \/ ExecHalt(c) \/ ExecAlu(c)
              \/ ExecJump(c) \/ ExecLoad(c) \/ ExecStore(c) \/ ExecEcall(c)
              \/ ExecEbreak(c) \/ ExecMret(c) \/ ExecCsr(c) \/ ExecIllegal(c)
  <2>1. /\ ~TimerDue(c)
        /\ harts'[c].timerPending = harts[c].timerPending
        /\ harts'[c].state # "WAITING"
        /\ \/ harts'[c].mode = "M" /\ harts'[c].csr.mie = 0
              /\ harts'[c].csr.mpie = harts[c].csr.mie
           \/ harts'[c].mode = "U" /\ harts'[c].csr.mie = harts[c].csr.mie
        /\ \A g \in Hart \ {c} : harts'[g] = harts[g]
    BY <1>0, <1>a, <1>2, ExecFlags
  <2>2. CASE h # c
    <3>1. harts'[h] = harts[h] /\ lost'[h] = lost[h] /\ Elapsed(h)' = Elapsed(h)
      BY <1>0, <1>a, <1>c, <1>2, <2>1, <2>2 DEF Elapsed
    <3> QED
      BY <1>0, <1>a, <1>b, <2>2, <3>1
         DEF MieOK, DueOK, Due, LostOK, InTrap, Running, MieInGuest
  <2>3. CASE h = c
    <3>1. lost'[h] = 0
      BY <1>c, <1>2, <2>3
    <3>2. ~Due(h)'
      BY <1>0, <1>a, <2>1, <2>3 DEF Due, MieInGuest, TimerDue, interruptsEnabled
    <3> QED
      BY <2>1, <2>3, <3>1, <3>2 DEF MieOK, DueOK, LostOK
  <2> QED
    BY <2>2, <2>3
<1> QED
  BY <1>a, <1>1, <1>2 DEF ExecuteOne, ExecTimerInt, Executing

\* A tick: the timer counts it, or fires and starts again.
LEMMA LossTick ==
    ASSUME IndInv, LossInv, TypeOK', NEW h \in Hart,
           TickRetired \/ TickHalted \/ TickTrapped
    PROVE  MieOK(h)' /\ DueOK(h)' /\ LostOK(h)'
<1>0. /\ TypeOK /\ MieOK(h) /\ DueOK(h) /\ LostOK(h)
  BY DEF IndInv, LossInv
<1>1. /\ phase = "tick" /\ CountTick /\ MarkPending /\ lost' = lost /\ ok' = ok
      /\ cur \in Hart
  BY <1>0 DEF TickRetired, TickHalted, TickTrapped, Tick, TypeOK
<1>2. Elapsed(h) \in Nat /\ Elapsed(h)' \in Nat /\ Elapsed(h)' >= Elapsed(h) + 1
  BY <1>0, ElapsedType, ElapsedTick
<1>c. /\ timerTick \in 0 .. timerInterval - 1 /\ lost[h] \in Nat
      /\ timerInterval \in Nat \ {0} /\ Gap \in Nat
  BY <1>0, ConfigAssumption, BeforeTurn DEF TypeOK
<1>d. Slack \in Int /\ (lost[h] - 1) * Slack \in Int
  BY <1>c DEF Slack
<1>3. /\ harts'[h].state = harts[h].state /\ harts'[h].mode = harts[h].mode
      /\ harts'[h].csr = harts[h].csr
      /\ harts'[h].timerPending = IF Fire /\ Running(h) THEN TRUE ELSE harts[h].timerPending
  BY <1>0, <1>1 DEF MarkPending, TypeOK, HartRec
<1>4. timerTick' = IF Fire THEN 0 ELSE timerTick + 1
  BY <1>1 DEF CountTick
<1>5. Fire <=> timerTick = timerInterval - 1
  BY <1>c DEF Fire
<1>6. MieOK(h)'
  BY <1>0, <1>3 DEF MieOK
<1>7. DueOK(h)'
  <2>1. CASE Fire
    BY <1>2, <1>4, <2>1 DEF DueOK
  <2>2. CASE ~Fire
    <3>1. Due(h)' => Due(h)
      BY <1>3, <2>2 DEF Due, Running, MieInGuest
    <3> QED
      BY <1>0, <1>2, <1>c, <1>4, <2>2, <3>1 DEF DueOK
  <2> QED
    BY <2>1, <2>2
<1>8. LostOK(h)'
  <2> SUFFICES ASSUME lost[h] > 0 PROVE LostOK(h)'
    BY <1>1 DEF LostOK
  <2> DEFINE p == (lost[h] - 1) * Slack
  <2>1. /\ Running(h) /\ p < Gap /\ p \in Int
        /\ timerTick + p + (IF harts[h].timerPending THEN timerInterval ELSE 0) < Gap + Elapsed(h)
        /\ InTrap(h) => ~ok /\ Traps(h, "TIMER_INT")
    BY <1>0, <1>d DEF LostOK
  <2>2. (lost'[h] - 1) * Slack = p
    BY <1>1
  <2> HIDE DEF p
  <2>3. timerTick' + p + (IF harts'[h].timerPending THEN timerInterval ELSE 0)
           < Gap + Elapsed(h)'
    <3>1. CASE Fire
      BY <1>2, <1>c, <1>3, <1>4, <1>5, <2>1, <3>1
    <3>2. CASE ~Fire
      BY <1>2, <1>c, <1>3, <1>4, <1>5, <2>1, <3>2
    <3> QED
      BY <3>1, <3>2
  <2>4. /\ InTrap(h)' => ~ok' /\ Traps(h, "TIMER_INT")'
        /\ ~(phase' = "exec" /\ cur' = h)
    BY <1>1, <1>3, <2>1 DEF TickRetired, TickHalted, TickTrapped, InTrap, Traps
  <2> QED
    BY <1>3, <2>1, <2>2, <2>3, <2>4 DEF LostOK, Running, Slack, Gap
<1> QED
  BY <1>6, <1>7, <1>8

\* Handling a trap moves no timer and makes no interrupt pending.
LEMMA LossHandle ==
    ASSUME IndInv, LossInv, TypeOK', NEW h \in Hart, HandleTrap
    PROVE  MieOK(h)' /\ DueOK(h)' /\ LostOK(h)'
<1>0. TypeOK /\ MieOK(h) /\ DueOK(h) /\ LostOK(h)
  BY DEF IndInv, LossInv
<1>1. /\ TrapReturns /\ phase = "trap" /\ phase' = "turn" /\ cur' = cur + 1 /\ cur \in Hart
      /\ timerTick' = timerTick /\ lost' = lost /\ ok' = ok /\ code' = code
  BY <1>0 DEF HandleTrap, TrapReturns, TypeOK
<1>a. PICK c \in Hart : c = cur
  BY <1>1
<1>2. Trapped(c) /\ harts[c].csr.mpp = "U" /\ Running(c) /\ harts[c].mode = "M"
  BY <1>1, <1>a DEF IndInv, CallOK, ModeOK, Trapped
<1>3. HandledFlags(c) /\ (Traps(c, "TIMER_INT") => Running(c)')
  BY <1>0, <1>a, <1>2, HandleFlags DEF HandleTrap
<1>4. \A g \in Hart \ {c} : OtherPost(g)
  BY <1>0, <1>1, <1>a, <1>2, HandleOutcome DEF HandleTrap
<1>5. Running(h) => Elapsed(h)' >= Elapsed(h)
  BY <1>0, <1>1, ElapsedKept
<1>6. CASE h = c
  <2>1. MieOK(h)'
    BY <1>0, <1>2, <1>3, <1>6 DEF MieOK, HandledFlags
  <2>2. Due(h)' => Due(h)
    BY <1>2, <1>3, <1>6 DEF Due, HandledFlags, MieInGuest, Running
  <2>3. Elapsed(h) \in Nat /\ Elapsed(h)' \in Nat /\ Elapsed(h)' >= Elapsed(h)
    BY <1>0, <1>2, <1>5, <1>6, ElapsedType
  <2>c. timerTick \in Nat /\ lost[h] \in Nat /\ timerInterval \in Nat /\ Gap \in Nat
    BY <1>0, ConfigAssumption, BeforeTurn DEF TypeOK
  <2>4. DueOK(h)'
    BY <1>0, <1>1, <2>2, <2>3, <2>c DEF DueOK
  <2>5. LostOK(h)'
    <3> SUFFICES ASSUME lost[h] > 0 PROVE LostOK(h)'
      BY <1>1 DEF LostOK
    <3> DEFINE p == (lost[h] - 1) * Slack
    <3>0. p \in Int
      BY <2>c DEF Slack
    <3>1. /\ p < Gap /\ Traps(h, "TIMER_INT")
          /\ timerTick + p + (IF harts[h].timerPending THEN timerInterval ELSE 0)
                < Gap + Elapsed(h)
      BY <1>0, <1>1, <1>a, <1>6 DEF LostOK, InTrap
    <3>2. (lost'[h] - 1) * Slack = p
      BY <1>1
    <3> HIDE DEF p
    <3>3. Running(h)' /\ harts'[h].timerPending = harts[h].timerPending
      BY <1>3, <1>6, <3>1 DEF HandledFlags
    <3>4. timerTick' + p + (IF harts'[h].timerPending THEN timerInterval ELSE 0)
             < Gap + Elapsed(h)'
      BY <1>1, <2>3, <2>c, <3>0, <3>1, <3>3
    <3> QED
      BY <1>1, <3>1, <3>2, <3>3, <3>4 DEF LostOK, InTrap, Slack, Gap
  <2> QED
    BY <2>1, <2>4, <2>5
<1>7. CASE h # c /\ harts'[h] = harts[h]
  BY <1>0, <1>1, <1>5, <1>7, LossKept DEF InTrap
<1>8. CASE h # c /\ harts[h].state = "WAITING"
           /\ harts'[h] = [harts[h] EXCEPT !.state = "RUNNING"]
  <2>1. harts[h].csr.mie = 0 /\ harts[h].mode = "U" /\ harts[h] \in HartRec
    BY <1>0, <1>8 DEF MieOK, IndInv, WaitOK, AtRecv, TypeOK
  <2>2. harts'[h].csr.mie = 0 /\ harts'[h].mode = "U" /\ harts'[h].state = "RUNNING"
    BY <1>8, <2>1 DEF HartRec
  <2>3. lost'[h] = lost[h] /\ ~(lost[h] > 0)
    BY <1>0, <1>1, <1>8 DEF LostOK, Running
  <2> QED
    BY <2>2, <2>3 DEF MieOK, DueOK, Due, MieInGuest, LostOK
<1> QED
  BY <1>4, <1>6, <1>7, <1>8 DEF OtherPost

\* Every step of run() preserves the invariant.
LEMMA LossNext == IndInv /\ TypeOK' /\ LossInv /\ [Next]_vars => LossInv'
<1> SUFFICES ASSUME IndInv, TypeOK', LossInv, [Next]_vars, NEW h \in Hart
             PROVE  MieOK(h)' /\ DueOK(h)' /\ LostOK(h)'
  BY DEF LossInv
<1>0. TypeOK /\ MieOK(h) /\ DueOK(h) /\ LostOK(h)
  BY DEF IndInv, LossInv
<1>1. CASE BeginRound \/ Finish \/ EndRound \/ SkipHart \/ BeginTurn \/ EndTurn
  <2>1. /\ harts' = harts /\ timerTick' = timerTick /\ lost' = lost /\ ok' = ok
        /\ phase' \notin {"tick", "trap"} /\ (phase' = "exec" => ran' = 0)
    BY <1>1 DEF BeginRound, Finish, EndRound, SkipHart, BeginTurn, EndTurn
  <2>2. Running(h) => Elapsed(h)' >= Elapsed(h)
    BY <1>0, <1>1, ElapsedKept
  <2> QED
    BY <1>0, <2>1, <2>2, LossKept DEF InTrap
<1>2. CASE ExecuteOne
  BY <1>2, LossExec
<1>3. CASE TickRetired \/ TickHalted \/ TickTrapped
  BY <1>3, LossTick
<1>4. CASE HandleTrap
  BY <1>4, LossHandle
<1>5. CASE UNCHANGED vars
  <2>1. /\ harts' = harts /\ timerTick' = timerTick /\ lost' = lost /\ ok' = ok
        /\ phase' = phase /\ cur' = cur /\ ran' = ran
    BY <1>5 DEF vars
  <2>2. MieOK(h)' /\ DueOK(h)'
    BY <1>0, <2>1 DEF MieOK, DueOK, Due, Running, MieInGuest, Elapsed
  <2>3. LostOK(h)'
    BY <1>0, <2>1 DEF LostOK, Running, InTrap, Traps, Elapsed
  <2> QED
    BY <2>2, <2>3
<1> QED
  BY <1>1, <1>2, <1>3, <1>4, <1>5 DEF Next, Terminated

\* However the harts send, block and trap, a hart loses no more turns in a row
\* than the timer interval allows: none is starved for ever when the interval is
\* longer than an interrupt and a full quantum of every other hart.
THEOREM StarvationCorrect == Spec => []StarvationBound
<1>1. TypeOK /\ LossInv => StarvationBound
  <2> SUFFICES ASSUME TypeOK, LossInv, NEW h \in Hart
               PROVE  (lost[h] - 1) * (timerInterval - Gap) < Gap
    BY DEF StarvationBound
  <2>0. lost[h] \in Nat /\ timerInterval \in Nat \ {0} /\ Gap \in Nat
    BY ConfigAssumption, BeforeTurn DEF TypeOK
  <2>1. CASE lost[h] = 0
    BY <2>0, <2>1
  <2>2. CASE lost[h] > 0
    BY <2>2 DEF LossInv, LostOK, Slack
  <2> QED
    BY <2>0, <2>1, <2>2
<1>2. IndInv => TypeOK
  BY DEF IndInv
<1> QED
  BY <1>1, <1>2, LossInit, LossNext, Inductive, PTL DEF Spec

\* A trap, an interrupt or a system call gives a hart back the MIE it had, for any
\* harts and programs: of all the steps of run() only the RECV that blocks a hart
\* changes whether its guest code can be interrupted.
THEOREM InterruptsCorrect == Spec => InterruptsKept
<1> DEFINE Kept(h) == \/ MieInGuest(h)' <=> MieInGuest(h)
                      \/ Running(h) /\ harts'[h].state = "WAITING"
<1>1. ASSUME IndInv, [Next]_vars, NEW h \in Hart PROVE Kept(h)
  <2>0. TypeOK /\ harts[h] \in HartRec /\ harts[h].csr \in CsrFile
    BY <1>1 DEF IndInv, TypeOK, HartRec
  <2>1. CASE Untouched(h)
    BY <2>0, <2>1 DEF Untouched, MieInGuest, HartRec
  <2>2. CASE h = cur /\ Running(h) /\ ExecuteOne
    <3>1. harts[h].mode = "U"
      BY <1>1, <2>2 DEF IndInv, ModeOK, InTrap, ExecuteOne, ExecTimerInt, Executing, Calls, Running
    <3>2. CASE TakeTimerInt(h)
      <4>1. /\ harts[h].csr.mie = 1 /\ harts'[h].mode = "M"
            /\ harts'[h].csr.mpie = harts[h].csr.mie
        BY <2>0, <3>2 DEF TakeTimerInt, TimerDue, interruptsEnabled, deliverTrap, trapEnter,
                          TypeOK, HartRec, CsrFile
      <4> QED
        BY <3>1, <4>1 DEF MieInGuest
    <3>3. CASE ~TakeTimerInt(h)
      <4>1. \/ harts'[h].mode = "M" /\ harts'[h].csr.mpie = harts[h].csr.mie
            \/ harts'[h].mode = "U" /\ harts'[h].csr.mie = harts[h].csr.mie
        BY <2>0, <2>2, <3>1, <3>3, ExecFlags DEF ExecuteOne, ExecTimerInt
      <4> QED
        BY <3>1, <4>1 DEF MieInGuest
    <3> QED
      BY <3>2, <3>3
  <2>3. CASE h = cur /\ Running(h) /\ HandleTrap
    <3>1. harts[h].mode = "M" /\ harts[h].csr.mpp = "U"
      BY <1>1, <2>3 DEF IndInv, CallOK, ModeOK, Trapped, HandleTrap, TrapReturns
    <3>2. HandledFlags(h)
      BY <2>0, <2>3, <3>1, HandleFlags DEF HandleTrap
    <3> QED
      BY <2>3, <3>1, <3>2 DEF HandledFlags, MieInGuest
  <2>4. CASE h = cur /\ Running(h) /\ ~ExecuteOne /\ ~HandleTrap
    <3>1. CASE TickRetired \/ TickHalted \/ TickTrapped
      BY <2>0, <3>1 DEF TickRetired, TickHalted, TickTrapped, Tick, MarkPending, MieInGuest, HartRec
    <3>2. CASE harts' = harts
      BY <3>2 DEF MieInGuest
    <3> QED
      BY <1>1, <2>4, <3>1, <3>2 DEF Next, BeginRound, Finish, EndRound, SkipHart, BeginTurn,
                                    EndTurn, Terminated, vars
  <2> QED
    BY <1>1, <2>1, <2>2, <2>3, <2>4, StepTouches
<1>2. IndInv /\ [Next]_vars => [\A h \in Hart : Kept(h)]_vars
  BY <1>1
<1> QED
  BY <1>2, Inductive, PTL DEF Spec, InterruptsKept
=============================================================================
