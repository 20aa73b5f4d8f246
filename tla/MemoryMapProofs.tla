--------------------------- MODULE MemoryMapProofs ---------------------------
(***************************************************************************)
(* Facts about the memory map and the permission check that the proofs     *)
(* about the scheduler and about memory share.                             *)
(***************************************************************************)
EXTENDS MemoryMap, TLAPS

\* Multiplication by a natural number is monotonic.
LEMMA TimesMonotonic ==
    ASSUME NEW a \in Nat, NEW b \in Nat, NEW c \in Nat, a <= b
    PROVE  a * c <= b * c /\ a * c \in Nat /\ b * c \in Nat
OBVIOUS

\* A slot lies above the kernel, and a word that begins in its last byte still
\* ends inside memory.
LEMMA SlotInMemory ==
    ASSUME NEW h \in HartIds
    PROVE  /\ h \in Nat
           /\ hartSlotBase(h) \in Nat /\ hartSlotBase(h) >= HART_SLOT_BASE
           /\ hartSlotTop(h) \in Nat
           /\ hartSlotTop(h) = hartSlotBase(h) + HART_SLOT_SIZE
           /\ hartSlotTop(h) + 3 <= MEM_SIZE
<1> USE MemoryMapAssumption DEF HartIds
<1>1. h \in Nat /\ h + 1 \in Nat /\ h + 1 <= MAX_HARTS /\ MAX_HARTS \in Nat
      /\ HART_SLOT_SIZE \in Nat
  OBVIOUS
<1>2. (h + 1) * HART_SLOT_SIZE <= MAX_HARTS * HART_SLOT_SIZE
  BY <1>1, TimesMonotonic
<1>3. (h + 1) * HART_SLOT_SIZE = h * HART_SLOT_SIZE + HART_SLOT_SIZE
  BY <1>1
<1>4. h * HART_SLOT_SIZE \in Nat /\ MAX_HARTS * HART_SLOT_SIZE \in Nat
  BY <1>1
<1> QED
  BY <1>1, <1>2, <1>3, <1>4 DEF hartSlotBase, hartSlotTop

\* The slots of two harts do not overlap.
THEOREM SlotsDisjoint ==
    ASSUME NEW g \in HartIds, NEW h \in HartIds, g < h
    PROVE  hartSlotTop(g) <= hartSlotBase(h) /\ SlotBytes(g) \cap SlotBytes(h) = {}
<1>1. g \in Nat /\ h \in Nat /\ HART_SLOT_SIZE \in Nat /\ HART_SLOT_BASE \in Nat
  BY MemoryMapAssumption, SlotInMemory
<1>2. (g + 1) * HART_SLOT_SIZE <= h * HART_SLOT_SIZE
  BY <1>1, TimesMonotonic
<1>3. (g + 1) * HART_SLOT_SIZE = g * HART_SLOT_SIZE + HART_SLOT_SIZE
  BY <1>1
<1>4. g * HART_SLOT_SIZE \in Nat /\ h * HART_SLOT_SIZE \in Nat
  BY <1>1
<1>5. hartSlotTop(g) <= hartSlotBase(h)
  BY <1>1, <1>2, <1>3, <1>4 DEF hartSlotTop, hartSlotBase
<1> QED
  BY <1>5, SlotInMemory DEF SlotBytes

\* For a hart in U-mode the permission check refuses a load or a store exactly
\* when its address lies outside the hart's slot (ProtectedMemory::check).
THEOREM CheckIsSlot ==
    ASSUME NEW h \in HartIds, NEW addr \in Nat, NEW t \in {"LOAD", "STORE"}
    PROVE  check(addr, t, h) <=> addr \notin SlotBytes(h)
BY SlotInMemory, MemoryMapAssumption DEF check, SlotBytes
=============================================================================
