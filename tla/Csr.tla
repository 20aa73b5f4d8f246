--------------------------------- MODULE Csr ---------------------------------
(***************************************************************************)
(* csr.h: privilege modes, trap causes, and what a trap saves and MRET     *)
(* restores.  mstatus is represented by the three fields the code uses:    *)
(* MIE and MPIE (bits) and MPP (a mode); every other bit of it is carried  *)
(* along unread.  mip, the mie register and the counters take part in no   *)
(* decision of the code and are left out: CSRFile::interruptsEnabled       *)
(* consults mstatus.MIE only.                                              *)
(***************************************************************************)
EXTENDS Integers

PrivMode == {"U", "M"}

Cause == {"INSN_MISALIGN", "INSN_FAULT", "ILLEGAL_INSN", "BREAKPOINT",
          "LOAD_FAULT", "STORE_FAULT", "ECALL_U", "ECALL_M", "TIMER_INT"}

CsrFile == [mepc   : Nat,
            mcause : Cause,
            mtval  : Nat,
            mie    : {0, 1},
            mpie   : {0, 1},
            mpp    : PrivMode]

\* Hart::init leaves mepc, mcause and mtval zero (mcause 0 is INSN_MISALIGN)
\* and sets MIE, MPIE and MPP = U.
CsrReset == [mepc |-> 0, mcause |-> "INSN_MISALIGN", mtval |-> 0,
             mie |-> 1, mpie |-> 1, mpp |-> "U"]

\* A plausible slip: MPP records the mode trapped into instead of the one left.
trapEnter_MppM(c, pc, cause, tval, from) ==
    [c EXCEPT !.mepc = pc, !.mcause = cause, !.mtval = tval,
              !.mpie = c.mie, !.mie = 0, !.mpp = "M"]

\* CSRFile::trapEnter
trapEnter(c, pc, cause, tval, from) ==
    [c EXCEPT !.mepc = pc, !.mcause = cause, !.mtval = tval,
              !.mpie = c.mie, !.mie = 0, !.mpp = from]

\* A plausible slip: MIE is not restored.
trapReturn_NoMie(c) == [c EXCEPT !.mpie = 1, !.mpp = "U"]

\* CSRFile::trapReturn: the mode returned and the register file afterwards.
trapReturnMode(c) == c.mpp
trapReturn(c) == [c EXCEPT !.mie = c.mpie, !.mpie = 1, !.mpp = "U"]

interruptsEnabled(c) == c.mie = 1
=============================================================================
