------------------------------ MODULE MemoryMap ------------------------------
(***************************************************************************)
(* The memory map of memory.h: a kernel region, one slot per hart, and the *)
(* permission check every protected access goes through.  The sizes are    *)
(* constants so that TLC can use small slots; the code's values are        *)
(* MEM_SIZE = 2^20, HART_SLOT_BASE = HART_SLOT_SIZE = 2^16, MAX_HARTS = 8, *)
(* STACK_SIZE = 2^13.                                                      *)
(***************************************************************************)
EXTENDS Integers

CONSTANTS MEM_SIZE,        \* bytes of the flat memory
          HART_SLOT_BASE,  \* first byte of hart 0's slot (the kernel is below)
          HART_SLOT_SIZE,  \* bytes per hart slot
          MAX_HARTS,       \* slots
          STACK_SIZE       \* bytes of a slot reserved for the stack

\* What the constexprs of memory.h satisfy.  The last conjunct says that even
\* a word that begins in the last byte of the last slot ends inside memory.
ASSUME MemoryMapAssumption ==
    /\ MEM_SIZE \in Nat /\ HART_SLOT_BASE \in Nat \ {0}
    /\ HART_SLOT_SIZE \in Nat \ {0} /\ MAX_HARTS \in Nat \ {0}
    /\ STACK_SIZE \in 1 .. HART_SLOT_SIZE
    /\ HART_SLOT_BASE % 4 = 0 /\ HART_SLOT_SIZE % 4 = 0
    /\ HART_SLOT_BASE + MAX_HARTS * HART_SLOT_SIZE + 3 <= MEM_SIZE

HartIds == 0 .. MAX_HARTS - 1

\* A plausible slip: the kernel region forgotten.
hartSlotBase_NoKernel(id) == id * HART_SLOT_SIZE

hartSlotBase(id) == HART_SLOT_BASE + id * HART_SLOT_SIZE
hartSlotTop(id)  == hartSlotBase(id) + HART_SLOT_SIZE   \* exclusive

\* The bytes of a hart's slot, as memory.h's map states them; the
\* properties compare the permission check with it.
SlotBytes(id) == hartSlotBase(id) .. hartSlotTop(id) - 1

\* A plausible slip in the last test: the slot's upper end taken as inclusive.
check_InclusiveTop(addr, t, hartId) ==
    \/ t = "FETCH" /\ addr % 4 # 0
    \/ addr >= MEM_SIZE
    \/ hartId >= 0 /\ (addr < hartSlotBase(hartId) \/ addr > hartSlotTop(hartId))

\* A plausible slip at the lower end: the slot's first byte refused.
check_ExclusiveBase(addr, t, hartId) ==
    \/ t = "FETCH" /\ addr % 4 # 0
    \/ addr >= MEM_SIZE
    \/ hartId >= 0 /\ (addr <= hartSlotBase(hartId) \/ addr >= hartSlotTop(hartId))

\* ProtectedMemory::check: TRUE when the access faults.  hartId = -1 is M-mode,
\* which is only held to the size of memory.
check(addr, t, hartId) ==
    \/ t = "FETCH" /\ addr % 4 # 0
    \/ addr >= MEM_SIZE
    \/ hartId >= 0 /\ (addr < hartSlotBase(hartId) \/ addr >= hartSlotTop(hartId))
=============================================================================
