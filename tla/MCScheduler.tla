----------------------------- MODULE MCScheduler -----------------------------
(***************************************************************************)
(* Small instances of Scheduler.tla for TLC: 16-byte slots of four words,  *)
(* of which at most three hold code.                                       *)
(***************************************************************************)
EXTENDS Scheduler

\* One instruction word per class.
MCDecode == [w \in 0 .. 9 |->
    CASE w = 0 -> "halt"   [] w = 1 -> "alu"    [] w = 2 -> "jump"
      [] w = 3 -> "load"   [] w = 4 -> "store"  [] w = 5 -> "ecall"
      [] w = 6 -> "ebreak" [] w = 7 -> "mret"   [] w = 8 -> "csr"
      [] w = 9 -> "illegal"]

MCWord == 0 .. 9

Regs(a7, a0, a1) == [a0 |-> a0, a1 |-> a1, a7 |-> a7]

\* Register files that make a following ecall each system call: SEND to each of
\* three harts and to a bad one, of a positive and a negative value.
IpcRegs == {Regs(SEND, 0, 1), Regs(SEND, 1, -1), Regs(RECV, 0, 0)}
AllRegs == IpcRegs \cup {Regs(SEND, 2, 1), Regs(SEND, -1, 1), Regs(EXIT, 0, 0),
                         Regs(YIELD, 0, 0), Regs(GET_HARTID, 0, 0), Regs(PRINT_INT, 0, 0)}

\* The image loadProgram makes of the words s, where a fetch that is not on a
\* word boundary inside the code reads m.  The rest of the slot is zero.
Image(s, m) == [o \in 0 .. HART_SLOT_SIZE - 1 |->
    IF o \div 4 >= Len(s) THEN 0 ELSE IF o % 4 = 0 THEN s[(o \div 4) + 1] ELSE m]

\* An endless loop of system calls (off a word boundary: of the same call),
\* two calls and off the end, and one program per remaining class.
Loop == Image(<<1, 5, 2>>, 5)
IpcPrograms == {Loop, Image(<<5, 1, 5>>, 9)}
AllPrograms == {Loop, Image(<<>>, 0)} \cup
    {Image(s, 9) : s \in {<<3, 5, 4>>, <<1, 6>>, <<1, 7>>, <<1, 8>>, <<1, 9>>}}

\* Targets: the first word of each slot and an address off a word boundary.
MCTargets == {hartSlotBase(0), hartSlotBase(1)}
AllTargets == MCTargets \cup {hartSlotBase(0) + 6}

\* Addresses: the ends of slot 0 and of slot 1, and beyond memory.
MCAddresses == {hartSlotBase(0), hartSlotBase(1) - 1, hartSlotBase(1),
                hartSlotTop(1), MEM_SIZE}
=============================================================================
