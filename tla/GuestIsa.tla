------------------------------ MODULE GuestIsa ------------------------------
(***************************************************************************)
(* What a guest program is, as the emulator sees it: instruction words in  *)
(* a hart's slot, the class each word decodes to, and the registers the    *)
(* kernel reads and writes (a0, a1, a7).                                   *)
(*                                                                         *)
(* The classes keep the control of executeOne: how the instruction ends    *)
(* (retires, traps with which cause, halts) and where the pc goes.  What   *)
(* an instruction computes is input: one that writes a register leaves any *)
(* register file of RegInputs, or the old one if rd is another register; a *)
(* jump or branch may go to any address of Targets (or fall through); a    *)
(* load or store may touch any address of Addresses.  What JAL and JALR    *)
(* write is no input: it is the address of the next instruction.           *)
(*                                                                         *)
(* A program is the image of a slot: which word a fetch at each offset     *)
(* reads.  JALR clears bit 0 of its target only and the fetch checks no    *)
(* alignment, so the offsets that are not multiples of four count too.     *)
(* The image does not change: guests that overwrite code are left out.     *)
(***************************************************************************)
EXTENDS MemoryMap

CONSTANTS Word,       \* instruction words; 0 is the all-zero word
          Decode,     \* Word -> class
          Half,       \* registers hold -Half .. Half-1 (2^31 in the code)
          RegInputs,  \* register files an instruction may compute
          Targets,    \* addresses a jump or a taken branch may go to
          Addresses,  \* addresses a load or store may use
          Programs    \* the slot images a hart may be given

OpClass == {"halt", "alu", "jump", "load", "store", "ecall", "ebreak",
            "mret", "csr", "illegal"}

Reg == -Half .. Half - 1
RegFile == [a0 : Reg, a1 : Reg, a7 : Reg]

ASSUME IsaAssumption ==
    /\ 0 \in Word /\ Word \subseteq Nat
    /\ Decode \in [Word -> OpClass] /\ Decode[0] = "halt"
    /\ Half \in Nat /\ Half >= 8 /\ Half >= MEM_SIZE + 4
    /\ RegInputs \subseteq RegFile
    /\ Targets \subseteq Nat
    /\ Addresses \subseteq Nat
    /\ Programs \subseteq [0 .. HART_SLOT_SIZE - 1 -> Word]

\* The word a fetch at pc reads with image p in hart h's slot.  Only M-mode
\* could fetch outside the slot, from memory no program was loaded into.
WordAt(p, h, pc) ==
    IF pc \in SlotBytes(h) THEN p[pc - hartSlotBase(h)] ELSE 0

OpAt(p, h, pc) == Decode[WordAt(p, h, pc)]

\* What an instruction that computes a value can leave in the registers regs.
Computed(regs) == RegInputs \cup {regs}

\* What a jump at pc can leave in them: JAL and JALR put the address after it
\* into rd, which may be any of the three; a branch writes nothing.
Linked(regs, pc) == {regs} \cup {[regs EXCEPT ![rd] = pc + 4] : rd \in DOMAIN regs}

\* Syscall numbers (a7).
PRINT_INT  == 1
PRINT_STR  == 2
EXIT       == 3
YIELD      == 4
SEND       == 5
RECV       == 6
GET_HARTID == 7
=============================================================================
