--------------------------- MODULE ProtectedMemory ---------------------------
(***************************************************************************)
(* memory.h, byte by byte: the flat array all harts share, the programs    *)
(* main and HartManager::spawnHart put into it, the loads and stores of    *)
(* executeOne, and the string PRINT_STR reads for a guest.  Harts act in   *)
(* any order, which includes every order the scheduler produces, and       *)
(* always in U-mode: that guest code runs in no other mode is the theorem  *)
(* UserModeCorrect of SchedulerProofs.tla.  A register is represented by   *)
(* its uint32_t value.                                                     *)
(***************************************************************************)
EXTENDS MemoryMap, Sequences

CONSTANTS B,            \* values of a byte (256 in the code)
          Programs,     \* assembled programs: sequences of words
          Values,       \* register values a guest may store
          Addresses,    \* addresses a guest may compute
          MaxString,    \* bytes PRINT_STR reads at most (256 in the code)
          MaxFiles,     \* bound: programs on the command line
          MaxAccesses   \* bound: guest accesses carried out

Byte == 0 .. B - 1
Word == 0 .. B * B * B * B - 1

ASSUME ByteAssumption ==
    /\ B \in Nat /\ B >= 2 /\ B % 2 = 0
    /\ Programs \subseteq Seq(Word)
    /\ Values \subseteq Word
    /\ Addresses \subseteq Nat
    /\ MaxString \in Nat /\ MaxFiles \in Nat /\ MaxAccesses \in Nat

VARIABLES
    data,     \* ProtectedMemory::data
    loaded,   \* history: the program of each hart spawned, in order
    files,    \* programs of the command line dealt with
    running,  \* main has called run()
    count,    \* guest accesses carried out
    stored,   \* history: the last store
    last      \* history: the last access, and what it stored, read or printed

vars == <<data, loaded, files, running, count, stored, last>>

Address == 0 .. MEM_SIZE - 1
Width == {1, 2, 4}
Access == [op : {"none", "store", "load", "loadu", "print", "fault"},
           hart : HartIds, width : Nat, addr : Nat, val : Word]

NoAccess == [op |-> "none", hart |-> 0, width |-> 1, addr |-> 0, val |-> 0]

Hart == 0 .. Len(loaded) - 1

-----------------------------------------------------------------------------
(* Raw accessors: little-endian, of one, two or four bytes.                *)

\* B to the power w: the values of w bytes.
Span(w) == CASE w = 1 -> B [] w = 2 -> B * B [] w = 4 -> B * B * B * B

\* The i-th byte of a word: a division by B^i.
Shifted(v, i) == v \div CASE i = 0 -> 1 [] i = 1 -> B
                          [] i = 2 -> B * B [] i = 3 -> B * B * B

\* A plausible slip: the byte not masked.
ByteOf_NoMask(v, i) == Shifted(v, i)

ByteOf(v, i) == Shifted(v, i) % B

rawLoad(d, a, w) ==
    CASE w = 1 -> d[a]
      [] w = 2 -> d[a] + B * d[a + 1]
      [] w = 4 -> d[a] + B * d[a + 1] + B * B * d[a + 2] + B * B * B * d[a + 3]

rawStore(d, a, w, v) ==
    [b \in DOMAIN d |-> IF b \in a .. a + w - 1 THEN ByteOf(v, b - a) ELSE d[b]]

\* loadProgram: word i of the program at base + 4*i.
loadProgram(d, words, base) ==
    [b \in DOMAIN d |-> IF b \in base .. base + 4 * Len(words) - 1
                        THEN ByteOf(words[((b - base) \div 4) + 1], (b - base) % 4)
                        ELSE d[b]]

\* A plausible slip: no sign extension.
signExt_None(v, w) == v

\* signExt of a value of w bytes: (v ^ mask) - mask, in 32-bit arithmetic.
signExt(v, w) ==
    LET mask == Span(w) \div 2
        flipped == IF v >= mask THEN v - mask ELSE v + mask
    IN  (flipped - mask) % Span(4)

-----------------------------------------------------------------------------
Init ==
    /\ data = [a \in Address |-> 0]
    /\ loaded = <<>> /\ files = 0 /\ running = FALSE
    /\ count = 0 /\ stored = NoAccess /\ last = NoAccess

\* A plausible slip: the program's length compared in words.
TooLarge_InWords(p) == Len(p) > HART_SLOT_SIZE - STACK_SIZE

TooLarge(p) == Len(p) * 4 > HART_SLOT_SIZE - STACK_SIZE

\* One program of the command line.  spawnHart refuses one too many and one too
\* large; main goes on with the next either way.
SpawnHart(p) ==
    /\ ~running /\ files < MaxFiles
    /\ files' = files + 1
    /\ IF Len(loaded) >= MAX_HARTS \/ TooLarge(p)
       THEN UNCHANGED <<data, loaded>>
       ELSE /\ data' = loadProgram(data, p, hartSlotBase(Len(loaded)))
            /\ loaded' = Append(loaded, p)
    /\ UNCHANGED <<running, count, stored, last>>

\* main calls run() after the last program; with no program there is no run.
StartRun ==
    /\ ~running /\ files > 0
    /\ running' = TRUE
    /\ UNCHANGED <<data, loaded, files, count, stored, last>>

Accesses(op, h, w, addr, val) ==
    /\ running /\ count < MaxAccesses
    /\ count' = count + 1
    /\ last' = [op |-> op, hart |-> h, width |-> w, addr |-> addr, val |-> val]
    /\ UNCHANGED <<loaded, files, running>>

\* LB, LH, LW, SB, SH or SW outside the slot: nothing is read or written.
Refused(h, w, addr, t) ==
    /\ check(addr, t, h)
    /\ Accesses("fault", h, w, addr, 0)
    /\ UNCHANGED <<data, stored>>

\* SB, SH, SW
Store(h, w, addr, val) ==
    /\ ~check(addr, "STORE", h)
    /\ Accesses("store", h, w, addr, val)
    /\ data' = rawStore(data, addr, w, val)
    /\ stored' = last'

\* LB, LH, LW (sign-extending a whole word changes nothing)
Load(h, w, addr) ==
    /\ ~check(addr, "LOAD", h)
    /\ Accesses("load", h, w, addr, signExt(rawLoad(data, addr, w), w))
    /\ UNCHANGED <<data, stored>>

\* LBU, LHU
LoadUnsigned(h, w, addr) ==
    /\ ~check(addr, "LOAD", h)
    /\ Accesses("loadu", h, w, addr, rawLoad(data, addr, w))
    /\ UNCHANGED <<data, stored>>

\* A plausible slip: the kernel reads the string with its own rights.
Prints_AsKernel(h, a) == ~check(a, "LOAD", -1) /\ data[a] # 0

\* The loop of PRINT_STR goes on past the byte at a.
Prints(h, a) == ~check(a, "LOAD", h) /\ data[a] # 0

\* PRINT_STR: the bytes up to a zero, a refused access or the limit.
PrintStr(h, addr) ==
    \E len \in 0 .. MaxString :
        /\ \A i \in 0 .. len - 1 : Prints(h, addr + i)
        /\ len = MaxString \/ ~Prints(h, addr + len)
        /\ Accesses("print", h, len, addr, 0)
        /\ UNCHANGED <<data, stored>>

\* run() returns at once if no hart was spawned; otherwise it is followed as far
\* as the bound on accesses.
Over == running /\ (loaded = <<>> \/ count = MaxAccesses) /\ UNCHANGED vars

Next ==
    \/ \E p \in Programs : SpawnHart(p)
    \/ StartRun
    \/ \E h \in Hart, addr \in Addresses :
          \/ \E w \in Width, t \in {"LOAD", "STORE"} : Refused(h, w, addr, t)
          \/ \E w \in Width, val \in Values : Store(h, w, addr, val)
          \/ \E w \in Width : Load(h, w, addr)
          \/ \E w \in {1, 2} : LoadUnsigned(h, w, addr)
          \/ PrintStr(h, addr)
    \/ Over

Spec == Init /\ [][Next]_vars

-----------------------------------------------------------------------------
(* Properties.                                                             *)

\* The type invariant: memory holds bytes, no more harts than slots, and every
\* value that was stored or loaded is a word.
TypeOK ==
    /\ data \in [Address -> Byte]
    /\ loaded \in Seq(Programs) /\ Len(loaded) <= MAX_HARTS
    /\ files \in 0 .. MaxFiles /\ running \in BOOLEAN
    /\ count \in 0 .. MaxAccesses
    /\ stored \in Access /\ last \in Access

\* When run() starts, every hart's slot holds its program and zeros after it:
\* no program loaded later has run over it, and its stack is clear.
BootImage ==
    ~running => \A h \in Hart : \A a \in SlotBytes(h) :
        LET o == a - hartSlotBase(h)
        IN  data[a] = IF o < 4 * Len(loaded[h + 1])
                      THEN ByteOf(loaded[h + 1][(o \div 4) + 1], o % 4) ELSE 0

\* The kernel region is never written, by the loader or by any guest.
KernelIntact == \A a \in 0 .. HART_SLOT_BASE - 1 : data[a] = 0

\* No access reaches past the array, even one that begins in the last byte of
\* the last slot, which only its first byte is checked for.
InBounds ==
    last.op \in {"store", "load", "loadu"}
        => last.addr \in Address /\ last.addr + last.width - 1 \in Address

\* A guest changes only its own slot and at most the three bytes that follow
\* it, where a word that begins in its last byte ends.
SpillBound ==
    [][running => \A a \in Address : data'[a] # data[a] =>
          /\ last'.op = "store"
          /\ a \in hartSlotBase(last'.hart) .. hartSlotTop(last'.hart) + 2]_vars

\* memory.h: "U-mode (hartId >= 0) may only access its own slot."
OwnSlotOnly ==
    [][running => \A a \in Address : data'[a] # data[a]
                     => a \in SlotBytes(last'.hart)]_vars

\* v is a register value that sign-extending w bytes can give.
FitsWidth(v, w) == v < Span(w) \div 2 \/ v >= Span(4) - Span(w) \div 2

\* A load of the place last stored to gives the register stored: its low bytes
\* for an unsigned load, all of it for a signed one if it fits the width.
ReadBack ==
    last.addr = stored.addr /\ last.width = stored.width /\ stored.op = "store" =>
        /\ last.op = "loadu" => last.val = stored.val % Span(stored.width)
        /\ last.op = "load" /\ FitsWidth(stored.val, stored.width)
              => last.val = stored.val

\* PRINT_STR prints bytes of the calling hart's own slot only, wherever the
\* guest points it and whatever follows the slot.
PrintConfined ==
    last.op = "print" => \A i \in 0 .. last.width - 1 :
        last.addr + i \in SlotBytes(last.hart)
=============================================================================
