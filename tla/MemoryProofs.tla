---------------------------- MODULE MemoryProofs ----------------------------
(***************************************************************************)
(* Theorems about ProtectedMemory.tla: what guests can reach, for every    *)
(* memory map, byte size and program, and any number of accesses.          *)
(***************************************************************************)
EXTENDS ProtectedMemory, MemoryMapProofs

\* A spawned hart has a slot.
LEMMA SpawnedHasSlot ==
    ASSUME loaded \in Seq(Programs), Len(loaded) <= MAX_HARTS
    PROVE  Hart \subseteq HartIds
BY MemoryMapAssumption DEF Hart, HartIds

\* An access the check lets through begins in the slot.
LEMMA Allowed ==
    ASSUME NEW h \in HartIds, NEW a \in Nat, NEW t \in {"LOAD", "STORE"}, ~check(a, t, h)
    PROVE  a >= hartSlotBase(h) /\ a < hartSlotTop(h)
BY CheckIsSlot, SlotInMemory DEF SlotBytes

\* A word that begins in a slot ends at most three bytes after it, in memory
\* and above the kernel.
LEMMA AllowedInBounds ==
    ASSUME NEW h \in HartIds, NEW a \in Nat, a >= hartSlotBase(h), a < hartSlotTop(h),
           NEW w \in Width
    PROVE  /\ a \in Address /\ a + w - 1 \in Address
           /\ a >= HART_SLOT_BASE /\ a + w - 1 <= hartSlotTop(h) + 2
BY SlotInMemory, MemoryMapAssumption DEF Address, Width

-----------------------------------------------------------------------------
(* The part of the state that the permission check protects.  TypeOK is    *)
(* weakened to what the proofs need: the domain of the memory, the number  *)
(* of harts, and the fields of the last access.                            *)

ShapeOK ==
    /\ DOMAIN data = Address
    /\ data = [a \in Address |-> data[a]]
    /\ loaded \in Seq(Programs) /\ Len(loaded) <= MAX_HARTS
    /\ last.hart \in HartIds

MemInv == ShapeOK /\ KernelIntact /\ InBounds /\ PrintConfined

\* Zeroed memory without harts satisfies the invariant.
LEMMA MemInit == Init => MemInv
<1> SUFFICES ASSUME Init PROVE MemInv
  OBVIOUS
<1>1. 0 \in HartIds
  BY MemoryMapAssumption DEF HartIds
<1>2. \A a \in 0 .. HART_SLOT_BASE - 1 : a \in Address
  <2>1. HART_SLOT_BASE <= MEM_SIZE
    BY <1>1, SlotInMemory, MemoryMapAssumption
  <2> QED
    BY <2>1, MemoryMapAssumption DEF Address
<1> QED
  BY <1>1, <1>2, MemoryMapAssumption
     DEF Init, MemInv, ShapeOK, KernelIntact, InBounds, PrintConfined, NoAccess

\* A program that fits below the stack is loaded into its slot only.
LEMMA SpawnKeeps ==
    ASSUME MemInv, NEW p \in Programs, SpawnHart(p)
    PROVE  MemInv'
<1>0. ShapeOK /\ last' = last
  BY DEF MemInv, SpawnHart
<1>1. CASE Len(loaded) >= MAX_HARTS \/ TooLarge(p)
  BY <1>1 DEF SpawnHart, MemInv, ShapeOK, KernelIntact, InBounds, PrintConfined
<1>2. CASE ~(Len(loaded) >= MAX_HARTS \/ TooLarge(p))
  <2>1. /\ data' = loadProgram(data, p, hartSlotBase(Len(loaded)))
        /\ loaded' = Append(loaded, p) /\ Len(loaded) < MAX_HARTS
    BY <1>0, <1>2, MemoryMapAssumption DEF SpawnHart, ShapeOK
  <2>2. Len(loaded) \in HartIds
    BY <1>0, <2>1, MemoryMapAssumption DEF ShapeOK, HartIds
  <2>3. ShapeOK'
    BY <1>0, <2>1, MemoryMapAssumption DEF ShapeOK, loadProgram
  <2>4. \A a \in 0 .. HART_SLOT_BASE - 1 : data'[a] = data[a]
    <3> TAKE a \in 0 .. HART_SLOT_BASE - 1
    <3>1. a \in Address /\ a < hartSlotBase(Len(loaded))
      BY <2>2, SlotInMemory, MemoryMapAssumption DEF Address
    <3>2. a \notin hartSlotBase(Len(loaded)) .. hartSlotBase(Len(loaded)) + 4 * Len(p) - 1
      BY <2>2, <3>1, SlotInMemory, MemoryMapAssumption
    <3> QED
      BY <1>0, <2>1, <3>1, <3>2 DEF ShapeOK, loadProgram
  <2> QED
    BY <1>0, <2>3, <2>4 DEF MemInv, KernelIntact, InBounds, PrintConfined
<1> QED
  BY <1>1, <1>2

\* What a store changes: at most the bytes from its address on.
LEMMA StoreReach ==
    ASSUME ShapeOK, NEW h \in HartIds, NEW w \in Width, NEW addr \in Nat, NEW val,
           Store(h, w, addr, val)
    PROVE  /\ addr >= hartSlotBase(h) /\ addr < hartSlotTop(h)
           /\ \A a \in Address : a \notin addr .. addr + w - 1 => data'[a] = data[a]
           /\ DOMAIN data' = Address /\ data' = [a \in Address |-> data'[a]]
<1>1. data' = rawStore(data, addr, w, val) /\ ~check(addr, "STORE", h)
  BY DEF Store
<1>2. addr >= hartSlotBase(h) /\ addr < hartSlotTop(h)
  BY <1>1, Allowed
<1> QED
  BY <1>1, <1>2 DEF ShapeOK, rawStore

\* A store that the check lets through keeps the invariant.
LEMMA StoreKeeps ==
    ASSUME MemInv, NEW h \in HartIds, NEW w \in Width, NEW addr \in Nat, NEW val,
           Store(h, w, addr, val)
    PROVE  MemInv'
<1>0. ShapeOK
  BY DEF MemInv
<1>1. /\ last' = [op |-> "store", hart |-> h, width |-> w, addr |-> addr, val |-> val]
      /\ loaded' = loaded
  BY DEF Store, Accesses
<1>2. addr \in Address /\ addr + w - 1 \in Address /\ addr >= HART_SLOT_BASE
  BY <1>0, StoreReach, AllowedInBounds
<1>3. ShapeOK'
  BY <1>0, <1>1, StoreReach DEF ShapeOK
<1>4. \A a \in 0 .. HART_SLOT_BASE - 1 : data'[a] = data[a]
  <2> TAKE a \in 0 .. HART_SLOT_BASE - 1
  <2>1. a \in Address /\ a \notin addr .. addr + w - 1
    BY <1>2, MemoryMapAssumption DEF Address
  <2> QED
    BY <1>0, <2>1, StoreReach
<1> QED
  BY <1>1, <1>2, <1>3, <1>4 DEF MemInv, KernelIntact, InBounds, PrintConfined

\* An access that leaves memory alone.
LEMMA ReadKeeps ==
    ASSUME MemInv, NEW h \in HartIds, NEW op, NEW w, NEW addr \in Nat, NEW val,
           Accesses(op, h, w, addr, val), data' = data,
           op \in {"load", "loadu"} => w \in Width /\ ~check(addr, "LOAD", h),
           op # "store",
           op = "print" => \A i \in 0 .. w - 1 : addr + i \in SlotBytes(h)
    PROVE  MemInv'
<1>1. /\ last' = [op |-> op, hart |-> h, width |-> w, addr |-> addr, val |-> val]
      /\ loaded' = loaded
  BY DEF Accesses
<1>2. InBounds'
  <2>1. CASE op \in {"load", "loadu"}
    BY <1>1, <2>1, Allowed, AllowedInBounds DEF InBounds
  <2>2. CASE op \notin {"load", "loadu"}
    BY <1>1, <2>2 DEF InBounds
  <2> QED
    BY <2>1, <2>2
<1>3. PrintConfined'
  BY <1>1 DEF PrintConfined
<1>4. ShapeOK'
  BY <1>1 DEF MemInv, ShapeOK
<1> QED
  BY <1>2, <1>3, <1>4 DEF MemInv, KernelIntact

\* Every step of the loader and of the guests keeps the invariant.
LEMMA MemNext == MemInv /\ [Next]_vars => MemInv'
<1> SUFFICES ASSUME MemInv, [Next]_vars PROVE MemInv'
  OBVIOUS
<1>0. Hart \subseteq HartIds /\ Addresses \subseteq Nat
  BY SpawnedHasSlot, ByteAssumption DEF MemInv, ShapeOK
<1>1. ASSUME NEW p \in Programs, SpawnHart(p) PROVE MemInv'
  BY <1>1, SpawnKeeps
<1>2. CASE StartRun \/ UNCHANGED vars
  BY <1>2 DEF StartRun, vars, MemInv, ShapeOK, KernelIntact, InBounds, PrintConfined
<1>3. ASSUME NEW h \in Hart, NEW addr \in Addresses, NEW w \in Width,
             NEW t \in {"LOAD", "STORE"}, Refused(h, w, addr, t)
      PROVE  MemInv'
  BY <1>0, <1>3, ReadKeeps DEF Refused
<1>4. ASSUME NEW h \in Hart, NEW addr \in Addresses, NEW w \in Width, NEW val \in Values,
             Store(h, w, addr, val)
      PROVE  MemInv'
  BY <1>0, <1>4, StoreKeeps
<1>5. ASSUME NEW h \in Hart, NEW addr \in Addresses, NEW w \in Width, Load(h, w, addr)
      PROVE  MemInv'
  BY <1>0, <1>5, ReadKeeps DEF Load
<1>6. ASSUME NEW h \in Hart, NEW addr \in Addresses, NEW w \in {1, 2},
             LoadUnsigned(h, w, addr)
      PROVE  MemInv'
  BY <1>0, <1>6, ReadKeeps DEF LoadUnsigned, Width
<1>7. ASSUME NEW h \in Hart, NEW addr \in Addresses, PrintStr(h, addr) PROVE MemInv'
  <2>1. PICK len \in 0 .. MaxString :
           /\ \A i \in 0 .. len - 1 : Prints(h, addr + i)
           /\ Accesses("print", h, len, addr, 0) /\ data' = data
    BY <1>7 DEF PrintStr
  <2>2. \A i \in 0 .. len - 1 : addr + i \in SlotBytes(h)
    <3> TAKE i \in 0 .. len - 1
    <3>1. len \in Nat /\ addr \in Nat
      BY <1>0, ByteAssumption
    <3>2. addr + i \in Nat
      BY <3>1
    <3>3. ~check(addr + i, "LOAD", h)
      BY <2>1 DEF Prints
    <3> QED
      BY <1>0, <3>2, <3>3, CheckIsSlot
  <2> QED
    BY <1>0, <2>1, <2>2, ReadKeeps
<1> QED
  BY <1>1, <1>2, <1>3, <1>4, <1>5, <1>6, <1>7 DEF Next, Over

\* The invariant holds throughout boot and run.
THEOREM MemInductive == Spec => []MemInv
BY MemInit, MemNext, PTL DEF Spec

-----------------------------------------------------------------------------
\* No guest and no loaded program ever writes the kernel region.
THEOREM KernelCorrect == Spec => []KernelIntact
BY MemInductive, PTL DEF MemInv

\* No access of a guest leaves the array, although only its first byte is
\* checked: the memory map keeps three bytes free above the last slot.
THEOREM BoundsCorrect == Spec => []InBounds
BY MemInductive, PTL DEF MemInv

\* PRINT_STR shows a guest only bytes of its own slot.
THEOREM PrintCorrect == Spec => []PrintConfined
BY MemInductive, PTL DEF MemInv

\* A guest's store changes nothing but its slot and the three bytes after it.
THEOREM SpillCorrect == Spec => SpillBound
<1>1. MemInv /\ [Next]_vars =>
         [running => \A a \in Address : data'[a] # data[a] =>
             /\ last'.op = "store"
             /\ a \in hartSlotBase(last'.hart) .. hartSlotTop(last'.hart) + 2]_vars
  <2> SUFFICES ASSUME MemInv, Next, running, NEW a \in Address, data'[a] # data[a]
               PROVE  /\ last'.op = "store"
                      /\ a \in hartSlotBase(last'.hart) .. hartSlotTop(last'.hart) + 2
    OBVIOUS
  <2>0. Hart \subseteq HartIds /\ Addresses \subseteq Nat /\ ShapeOK
    BY SpawnedHasSlot, ByteAssumption DEF MemInv, ShapeOK
  <2>1. PICK h \in Hart, addr \in Addresses, w \in Width, val \in Values : Store(h, w, addr, val)
    BY DEF Next, SpawnHart, StartRun, Refused, Load, LoadUnsigned, PrintStr, Over, vars
  <2>2. a \in addr .. addr + w - 1 /\ addr >= hartSlotBase(h) /\ addr < hartSlotTop(h)
    BY <2>0, <2>1, StoreReach
  <2>3. last'.op = "store" /\ last'.hart = h
    BY <2>1 DEF Store, Accesses
  <2>4. a \in hartSlotBase(h) .. hartSlotTop(h) + 2
    BY <2>0, <2>2, AllowedInBounds, SlotInMemory DEF Address, Width
  <2> QED
    BY <2>3, <2>4
<1> QED
  BY <1>1, MemInductive, PTL DEF Spec, SpillBound

-----------------------------------------------------------------------------
(* Division by a number of byte values.                                    *)

\* Quotient and remainder.
LEMMA DivMod ==
    ASSUME NEW v \in Nat, NEW b \in Nat \ {0}
    PROVE  /\ v \div b \in Nat /\ v % b \in Nat /\ v % b < b
           /\ v = b * (v \div b) + (v % b)
OBVIOUS

\* They are unique.
LEMMA DivUnique ==
    ASSUME NEW v \in Nat, NEW b \in Nat \ {0}, NEW q \in Nat, NEW r \in Nat,
           v = b * q + r, r < b
    PROVE  v \div b = q /\ v % b = r
<1> DEFINE p == v \div b
           s == v % b
<1>0. p \in Nat /\ s \in Nat /\ s < b /\ v = b * p + s
  BY DivMod
<1> HIDE DEF p, s
<1>1. ASSUME NEW i \in Nat, NEW j \in Nat, i < j
      PROVE  b * i + b <= b * j
  <2>1. (i + 1) * b <= j * b
    BY <1>1, TimesMonotonic
  <2> QED
    BY <2>1
<1>2. b * p \in Nat /\ b * q \in Nat
  BY <1>0
<1>3. ~(p < q)
  BY <1>0, <1>1, <1>2
<1>4. ~(q < p)
  BY <1>0, <1>1, <1>2
<1>5. p = q
  BY <1>0, <1>3, <1>4
<1>6. s = r
  BY <1>0, <1>2, <1>5
<1> QED
  BY <1>5, <1>6 DEF p, s

\* Dividing twice is dividing by the product; the remainders put together are
\* the remainder by the product.
LEMMA DivTwice ==
    ASSUME NEW v \in Nat, NEW a \in Nat \ {0}, NEW b \in Nat \ {0}
    PROVE  /\ v \div (a * b) = (v \div a) \div b
           /\ v % (a * b) = a * ((v \div a) % b) + (v % a)
<1> DEFINE q == v \div a
           r == v % a
           qq == q \div b
           rr == q % b
<1>1. q \in Nat /\ r \in Nat /\ r < a /\ v = a * q + r
  BY DivMod
<1> HIDE DEF q, r
<1>2. qq \in Nat /\ rr \in Nat /\ rr < b /\ q = b * qq + rr
  BY <1>1, DivMod
<1> HIDE DEF qq, rr
<1>3. a * b \in Nat \ {0}
  OBVIOUS
<1>4. a * q = (a * b) * qq + a * rr
  BY <1>2
<1>5. a * rr + r < a * b /\ a * rr + r \in Nat
  <2>1. (rr + 1) * a <= b * a
    BY <1>2, TimesMonotonic
  <2>2. (rr + 1) * a = a * rr + a /\ b * a = a * b /\ a * rr \in Nat
    BY <1>2
  <2> QED
    BY <1>1, <1>3, <2>1, <2>2
<1>6. (a * b) * qq \in Nat /\ a * rr \in Nat
  BY <1>2, <1>3
<1>7. v = (a * b) * qq + (a * rr + r)
  BY <1>1, <1>4, <1>6
<1>8. v \div (a * b) = qq /\ v % (a * b) = a * rr + r
  BY <1>2, <1>3, <1>5, <1>7, DivUnique
<1> QED
  BY <1>8 DEF q, r, qq, rr

-----------------------------------------------------------------------------
(* Bytes, words and the sign extension.                                    *)

\* The sizes of one, two, three and four bytes.
LEMMA Sizes ==
    /\ B \in Nat \ {0} /\ B * B \in Nat \ {0} /\ B * B * B \in Nat \ {0}
    /\ B * B * B * B \in Nat \ {0}
    /\ B <= B * B * B * B /\ B * B <= B * B * B * B
<1>0. B \in Nat \ {0} /\ B >= 1
  BY ByteAssumption
<1>1. \A x \in Nat \ {0} : x * B \in Nat \ {0} /\ x <= x * B
  BY <1>0
<1> DEFINE p2 == B * B
           p3 == p2 * B
           p4 == p3 * B
<1>2. p2 \in Nat \ {0} /\ B <= p2
  BY <1>0, <1>1
<1> HIDE DEF p2
<1>3. p3 \in Nat \ {0} /\ p2 <= p3
  BY <1>1, <1>2
<1> HIDE DEF p3
<1>4. p4 \in Nat \ {0} /\ p3 <= p4
  BY <1>1, <1>3
<1> HIDE DEF p4
<1>5. B <= p4 /\ p2 <= p4
  BY <1>0, <1>2, <1>3, <1>4
<1> QED
  BY <1>0, <1>2, <1>3, <1>4, <1>5 DEF p2, p3, p4

\* The bytes of a word put together again, as far as they are taken.
LEMMA BytesOfWord ==
    ASSUME NEW v \in Word
    PROVE  /\ v \in Nat
           /\ \A i \in 0 .. 3 : ByteOf(v, i) \in Byte
           /\ ByteOf(v, 0) = v % Span(1)
           /\ ByteOf(v, 0) + B * ByteOf(v, 1) = v % Span(2)
           /\ ByteOf(v, 0) + B * ByteOf(v, 1) + B * B * ByteOf(v, 2)
                 + B * B * B * ByteOf(v, 3) = v
           /\ v % Span(4) = v
<1> DEFINE p2 == B * B
           p3 == p2 * B
           p4 == p3 * B
<1>0. /\ B \in Nat \ {0} /\ p2 \in Nat \ {0} /\ p3 \in Nat \ {0} /\ p4 \in Nat \ {0}
      /\ v \in Nat /\ v < p4
  BY Sizes DEF Word
<1>1. /\ Span(1) = B /\ Span(2) = p2 /\ Span(4) = p4
  BY DEF Span
<1>2. /\ ByteOf(v, 0) = v % B /\ ByteOf(v, 1) = (v \div B) % B
      /\ ByteOf(v, 2) = (v \div p2) % B /\ ByteOf(v, 3) = (v \div p3) % B
  <2>1. v \div 1 = v
    BY <1>0
  <2> QED
    BY <2>1 DEF ByteOf, Shifted
<1>3. v % p2 = B * ((v \div B) % B) + (v % B)
  BY <1>0, DivTwice
<1> HIDE DEF p2
<1>4. v % p3 = p2 * ((v \div p2) % B) + (v % p2)
  BY <1>0, DivTwice
<1> HIDE DEF p3
<1>5. v % p4 = p3 * ((v \div p3) % B) + (v % p3)
  BY <1>0, DivTwice
<1> HIDE DEF p4
<1>6. v % p4 = v
  <2>1. v = p4 * 0 + v
    BY <1>0
  <2> QED
    BY <1>0, <2>1, DivUnique
<1> DEFINE b0 == v % B
           b1 == (v \div B) % B
           b2 == (v \div p2) % B
           b3 == (v \div p3) % B
<1>7. b0 \in Byte /\ b1 \in Byte /\ b2 \in Byte /\ b3 \in Byte
  <2>1. v \div B \in Nat /\ v \div p2 \in Nat /\ v \div p3 \in Nat
    BY <1>0, DivMod
  <2>2. \A x \in Nat : x % B \in Byte
    BY <1>0, DivMod DEF Byte
  <2> QED
    BY <1>0, <2>1, <2>2
<1>8. \A i \in 0 .. 3 : ByteOf(v, i) \in Byte
  <2>1. \A i \in 0 .. 3 : i = 0 \/ i = 1 \/ i = 2 \/ i = 3
    OBVIOUS
  <2> QED
    BY <1>2, <1>7, <2>1
<1> HIDE DEF b0, b1, b2, b3
<1>9. v % p2 = b0 + B * b1 /\ v = b0 + B * b1 + p2 * b2 + p3 * b3
  <2>1. b0 \in Nat /\ B * b1 \in Nat /\ p2 * b2 \in Nat /\ p3 * b3 \in Nat
    BY <1>0, <1>7 DEF Byte
  <2>2. v % p2 = B * b1 + b0
    BY <1>3 DEF b0, b1
  <2>3. v % p3 = p2 * b2 + (v % p2)
    BY <1>4 DEF b2
  <2>4. v = p3 * b3 + (v % p3)
    BY <1>5, <1>6 DEF b3
  <2> DEFINE m2 == v % p2
             m3 == v % p3
  <2> HIDE DEF m2, m3
  <2>5. m2 = B * b1 + b0 /\ m3 = p2 * b2 + m2 /\ v = p3 * b3 + m3
    BY <2>2, <2>3, <2>4 DEF m2, m3
  <2>6. m2 = b0 + B * b1 /\ v = b0 + B * b1 + p2 * b2 + p3 * b3
    BY <2>1, <2>5
  <2> QED
    BY <2>6 DEF m2
<1>10. /\ ByteOf(v, 0) = b0 /\ ByteOf(v, 1) = b1 /\ ByteOf(v, 2) = b2 /\ ByteOf(v, 3) = b3
  BY <1>2 DEF b0, b1, b2, b3
<1>11. /\ b0 = v % Span(1) /\ b0 + B * b1 = v % Span(2) /\ v % Span(4) = v
  BY <1>1, <1>6, <1>9 DEF b0
<1> QED
  BY <1>0, <1>8, <1>9, <1>10, <1>11 DEF p2, p3

\* A load of bytes gives a value of its width.
LEMMA LoadType ==
    ASSUME NEW d \in [Address -> Byte], NEW w \in Width, NEW a \in Address,
           a + w - 1 \in Address
    PROVE  rawLoad(d, a, w) \in 0 .. Span(w) - 1
<1>0. B \in Nat \ {0} /\ MEM_SIZE \in Nat /\ a \in Nat /\ B * B \in Nat /\ B * B * B \in Nat
  BY Sizes, MemoryMapAssumption DEF Address
<1>1. \A i \in 0 .. w - 1 : a + i \in Address
  BY <1>0 DEF Address, Width
<1>2. ASSUME NEW p \in Nat, NEW x \in 0 .. p - 1, NEW y \in Byte
      PROVE  x + p * y \in 0 .. p * B - 1
  <2>1. y \in Nat /\ y + 1 <= B
    BY <1>0 DEF Byte
  <2>2. (y + 1) * p <= B * p
    BY <1>0, <2>1, TimesMonotonic
  <2>3. (y + 1) * p = p * y + p /\ B * p = p * B /\ p * y \in Nat /\ p * B \in Nat
    BY <1>0, <2>1
  <2> DEFINE z == p * y
             t == p * B
  <2>4. z + p <= t /\ z \in Nat /\ t \in Nat
    BY <2>2, <2>3
  <2> HIDE DEF z, t
  <2>5. x + z \in 0 .. t - 1
    BY <1>2, <2>4
  <2> QED
    BY <2>5 DEF z, t
<1>3. CASE w = 1
  BY <1>3 DEF rawLoad, Span, Byte
<1>4. CASE w = 2
  <2>1. d[a] \in Byte /\ d[a + 1] \in Byte
    BY <1>1, <1>4
  <2>2. d[a] + B * d[a + 1] \in 0 .. B * B - 1
    BY <1>0, <1>2, <2>1 DEF Byte
  <2> QED
    BY <1>4, <2>2 DEF rawLoad, Span
<1>5. CASE w = 4
  <2>1. d[a] \in Byte /\ d[a + 1] \in Byte /\ d[a + 2] \in Byte /\ d[a + 3] \in Byte
    BY <1>1, <1>5
  <2>2. d[a] + B * d[a + 1] \in 0 .. B * B - 1
    BY <1>0, <1>2, <2>1 DEF Byte
  <2>3. d[a] + B * d[a + 1] + B * B * d[a + 2] \in 0 .. B * B * B - 1
    BY <1>0, <1>2, <2>1, <2>2
  <2>4. d[a] + B * d[a + 1] + B * B * d[a + 2] + B * B * B * d[a + 3]
           \in 0 .. B * B * B * B - 1
    BY <1>0, <1>2, <2>1, <2>3
  <2> QED
    BY <1>5, <2>4 DEF rawLoad, Span
<1> QED
  BY <1>3, <1>4, <1>5 DEF Width

\* A load of the bytes that a store of v wrote gives v, cut to the width.
LEMMA LoadOfStore ==
    ASSUME NEW d, NEW w \in Width, NEW a \in Nat, NEW v \in Word,
           \A i \in 0 .. w - 1 : d[a + i] = ByteOf(v, i)
    PROVE  rawLoad(d, a, w) = v % Span(w)
<1>0. a + 0 = a
  OBVIOUS
<1>1. CASE w = 1
  <2>1. d[a + 0] = ByteOf(v, 0)
    BY <1>1
  <2> QED
    BY <1>0, <1>1, <2>1, BytesOfWord DEF rawLoad
<1>2. CASE w = 2
  <2>1. d[a + 0] = ByteOf(v, 0) /\ d[a + 1] = ByteOf(v, 1)
    BY <1>2
  <2> QED
    BY <1>0, <1>2, <2>1, BytesOfWord DEF rawLoad
<1>3. CASE w = 4
  <2>1. /\ d[a + 0] = ByteOf(v, 0) /\ d[a + 1] = ByteOf(v, 1)
        /\ d[a + 2] = ByteOf(v, 2) /\ d[a + 3] = ByteOf(v, 3)
    BY <1>3
  <2> QED
    BY <1>0, <1>3, <2>1, BytesOfWord DEF rawLoad
<1> QED
  BY <1>1, <1>2, <1>3 DEF Width

\* A width's size is even and divides the size of a word.
LEMMA SpanShape ==
    ASSUME NEW w \in Width
    PROVE  /\ Span(w) \in Nat \ {0} /\ Span(4) \in Nat \ {0} /\ Span(w) <= Span(4)
           /\ Word = 0 .. Span(4) - 1
           /\ \E m \in Nat \ {0} : Span(w) = 2 * m /\ Span(w) \div 2 = m
           /\ \E c \in Nat \ {0} : Span(4) = Span(w) * c
<1>0. PICK e \in Nat \ {0} : B = 2 * e
  BY ByteAssumption
<1>1. Span(4) = B * B * B * B /\ Word = 0 .. Span(4) - 1
  BY DEF Span, Word
<1>2. CASE w = 1
  <2>1. Span(w) = 2 * e /\ Span(w) \div 2 = e
    BY <1>0, <1>2 DEF Span
  <2>2. Span(4) = Span(w) * (B * B * B)
    BY <1>1, <1>2, Sizes DEF Span
  <2> QED
    BY <1>0, <1>1, <1>2, <2>1, <2>2, Sizes DEF Span
<1>3. CASE w = 2
  <2>1. e * B \in Nat \ {0} /\ Span(w) = 2 * (e * B)
    BY <1>0, <1>3, Sizes DEF Span
  <2>2. Span(w) \div 2 = e * B
    BY <2>1
  <2>3. Span(4) = Span(w) * (B * B)
    BY <1>1, <1>3, Sizes DEF Span
  <2> QED
    BY <1>1, <1>3, <2>1, <2>2, <2>3, Sizes DEF Span
<1>4. CASE w = 4
  <2>1. (B * B * B) * e \in Nat \ {0} /\ Span(w) = 2 * ((B * B * B) * e)
    BY <1>0, <1>4, Sizes DEF Span
  <2>2. Span(w) \div 2 = (B * B * B) * e
    BY <2>1
  <2>3. Span(w) = Span(4) /\ Span(4) \in Nat \ {0}
    BY <1>1, <1>4, Sizes
  <2>4. \E m \in Nat \ {0} : Span(w) = 2 * m /\ Span(w) \div 2 = m
    BY <2>1, <2>2
  <2>5. Span(4) = Span(w) * 1
    BY <2>3
  <2> QED
    BY <1>1, <2>3, <2>4, <2>5
<1> QED
  BY <1>2, <1>3, <1>4 DEF Width

\* Sign-extending the low bytes of a register that fits them gives it back.
LEMMA SignExtBack ==
    ASSUME NEW v \in Word, NEW w \in Width, FitsWidth(v, w)
    PROVE  signExt(v % Span(w), w) = v
<1> DEFINE S == Span(w)
           T == Span(4)
           u == v % S
<1>0. /\ S \in Nat \ {0} /\ T \in Nat \ {0} /\ v \in 0 .. T - 1 /\ S <= T
  BY SpanShape
<1>1. PICK m \in Nat \ {0} : S = 2 * m /\ S \div 2 = m
  BY SpanShape
<1>2. PICK c \in Nat \ {0} : T = S * c
  BY SpanShape
<1>3. v < m \/ v >= T - m
  BY <1>1 DEF FitsWidth
<1>a. signExt(u, w) = ((IF u >= m THEN u - m ELSE u + m) - m) % T
  BY <1>1 DEF signExt
<1> HIDE DEF S, T
<1>4. CASE v < m
  <2>1. v = S * 0 + v /\ v < S /\ v \in Nat
    BY <1>0, <1>1, <1>4
  <2>2. u = v
    BY <1>0, <2>1, DivUnique
  <2> HIDE DEF u
  <2>3. (u + m - m) % T = v
    <3>1. u + m - m = v
      BY <1>0, <1>1, <2>2
    <3>2. v = T * 0 + v /\ v < T
      BY <1>0
    <3> QED
      BY <1>0, <2>1, <3>1, <3>2, DivUnique
  <2>4. ~(u >= m)
    BY <1>0, <1>4, <2>2
  <2>5. (IF u >= m THEN u - m ELSE u + m) - m = u + m - m
    BY <1>0, <1>1, <2>2, <2>4
  <2>6. signExt(u, w) = v
    BY <1>a, <2>3, <2>5
  <2> QED
    BY <2>6 DEF S, u
<1>5. CASE v >= T - m
  <2>1. S * c = S * (c - 1) + S /\ c - 1 \in Nat /\ S * (c - 1) \in Nat
    BY <1>0, <1>2
  <2> DEFINE r == v - S * (c - 1)
  <2>2. r \in Nat /\ r < S /\ r >= m /\ v = S * (c - 1) + r
    BY <1>0, <1>1, <1>2, <1>5, <2>1
  <2> HIDE DEF r
  <2>a. v \in Nat
    BY <1>0
  <2>3. u = r
    BY <1>0, <2>a, <2>1, <2>2, DivUnique
  <2> HIDE DEF u
  <2>4. u >= m /\ u - m - m = v - T
    BY <1>0, <1>1, <1>2, <2>1, <2>2, <2>3
  <2>5. (v - T) % T = v
    BY <1>0
  <2> QED
    BY <1>a, <2>4, <2>5 DEF S, u
<1> QED
  BY <1>3, <1>4, <1>5

\* Sign-extending a value of a width gives a word.
LEMMA SignExtType ==
    ASSUME NEW w \in Width, NEW v \in 0 .. Span(w) - 1
    PROVE  signExt(v, w) \in Word /\ v \in Word
<1>1. PICK m \in Nat : Span(w) \div 2 = m
  BY SpanShape
<1>2. ASSUME NEW x \in Int, NEW t \in Nat \ {0} PROVE x % t \in 0 .. t - 1
  OBVIOUS
<1>3. /\ Span(w) \in Nat /\ Span(4) \in Nat \ {0} /\ Span(w) <= Span(4)
      /\ Word = 0 .. Span(4) - 1
  BY SpanShape
<1>4. (IF v >= m THEN v - m ELSE v + m) - m \in Int
  BY <1>3
<1>5. signExt(v, w) = ((IF v >= m THEN v - m ELSE v + m) - m) % Span(4)
  BY <1>1 DEF signExt
<1>6. v \in Word
  BY <1>3
<1> QED
  BY <1>2, <1>3, <1>4, <1>5, <1>6

-----------------------------------------------------------------------------
(* What memory holds.  Before run() the slots above the last hart's are    *)
(* still zero; after a store the bytes it wrote stay until the next one.   *)

ClearAbove ==
    ~running => \A a \in Address : a >= hartSlotBase(Len(loaded)) => data[a] = 0

HeldBytes ==
    stored.op = "store" =>
        /\ running /\ stored.width \in Width
        /\ \A i \in 0 .. stored.width - 1 :
              data[stored.addr + i] = ByteOf(stored.val, i)

ContentInv == TypeOK /\ BootImage /\ ClearAbove /\ HeldBytes /\ ReadBack

\* Zeroed memory without harts or accesses.
LEMMA ContentInit == Init => ContentInv
<1> SUFFICES ASSUME Init PROVE ContentInv
  OBVIOUS
<1>1. 0 \in HartIds /\ 0 \in Word /\ 0 \in Byte
  BY Sizes, MemoryMapAssumption DEF HartIds, Word, Byte
<1>2. NoAccess \in Access
  BY <1>1 DEF NoAccess, Access
<1>3. TypeOK
  <2>1. running \in BOOLEAN /\ stored \in Access /\ last \in Access
    BY <1>2 DEF Init
  <2>2. data \in [Address -> Byte]
    BY <1>1 DEF Init
  <2>3. loaded \in Seq(Programs) /\ Len(loaded) <= MAX_HARTS
    BY MemoryMapAssumption DEF Init
  <2>4. files \in 0 .. MaxFiles /\ count \in 0 .. MaxAccesses
    BY ByteAssumption DEF Init
  <2> QED
    BY <2>1, <2>2, <2>3, <2>4 DEF TypeOK
<1>4. BootImage
  BY DEF Init, BootImage, Hart
<1>5. ClearAbove
  BY DEF Init, ClearAbove
<1>6. HeldBytes /\ ReadBack
  BY DEF Init, HeldBytes, ReadBack, NoAccess
<1> QED
  BY <1>3, <1>4, <1>5, <1>6 DEF ContentInv

\* The loader writes bytes.
LEMMA LoadedBytes ==
    ASSUME NEW d \in [Address -> Byte], NEW p \in Programs, NEW base \in Nat
    PROVE  loadProgram(d, p, base) \in [Address -> Byte]
<1>0. p \in Seq(Word)
  BY ByteAssumption
<1>1. ASSUME NEW a \in Address, a \in base .. base + 4 * Len(p) - 1
      PROVE  ByteOf(p[((a - base) \div 4) + 1], (a - base) % 4) \in Byte
  <2>1. ((a - base) \div 4) + 1 \in 1 .. Len(p) /\ (a - base) % 4 \in 0 .. 3
    BY <1>0, <1>1
  <2>2. p[((a - base) \div 4) + 1] \in Word
    BY <1>0, <2>1
  <2> QED
    BY <2>1, <2>2, BytesOfWord
<1> QED
  BY <1>1 DEF loadProgram

\* A refused program changes nothing; one that is accepted is written into the
\* next slot, which was clear, and leaves the slots below it alone.
LEMMA SpawnContent ==
    ASSUME ContentInv, NEW p \in Programs, SpawnHart(p)
    PROVE  ContentInv'
<1>0. /\ TypeOK /\ BootImage /\ ClearAbove /\ ~running /\ ~running'
      /\ stored' = stored /\ last' = last /\ count' = count
      /\ files' \in 0 .. MaxFiles /\ p \in Seq(Word)
  BY ByteAssumption DEF ContentInv, SpawnHart, TypeOK
<1>1. HeldBytes' /\ ReadBack'
  BY <1>0 DEF ContentInv, HeldBytes, ReadBack
<1>2. CASE Len(loaded) >= MAX_HARTS \/ TooLarge(p)
  BY <1>0, <1>1, <1>2
     DEF SpawnHart, ContentInv, TypeOK, BootImage, ClearAbove, Hart
<1>3. CASE ~(Len(loaded) >= MAX_HARTS \/ TooLarge(p))
  <2> DEFINE n == Len(loaded)
             base == hartSlotBase(n)
  <2>1. /\ data' = loadProgram(data, p, base) /\ loaded' = Append(loaded, p)
        /\ n < MAX_HARTS /\ 4 * Len(p) <= HART_SLOT_SIZE
    <3>1. data' = loadProgram(data, p, base) /\ loaded' = Append(loaded, p)
      BY <1>3 DEF SpawnHart
    <3>2. Len(loaded) \in Nat /\ Len(p) \in Nat
      BY <1>0 DEF TypeOK
    <3>3. ~(Len(loaded) >= MAX_HARTS) /\ ~(Len(p) * 4 > HART_SLOT_SIZE - STACK_SIZE)
      BY <1>3 DEF TooLarge
    <3>4. MAX_HARTS \in Nat /\ HART_SLOT_SIZE \in Nat /\ STACK_SIZE \in Nat
      BY MemoryMapAssumption
    <3> HIDE DEF base
    <3> QED
      BY <3>1, <3>2, <3>3, <3>4
  <2>2. n \in HartIds /\ n \in Nat
    BY <1>0, <2>1, MemoryMapAssumption DEF TypeOK, HartIds
  <2>3. /\ base \in Nat /\ hartSlotTop(n) = base + HART_SLOT_SIZE
        /\ hartSlotTop(n) + 3 <= MEM_SIZE
    BY <2>2, SlotInMemory
  <2>4. /\ loaded' \in Seq(Programs) /\ Len(loaded') = n + 1
        /\ loaded'[n + 1] = p
        /\ \A i \in 1 .. n : loaded'[i] = loaded[i]
    BY <1>0, <2>1 DEF TypeOK
  <2>5. TypeOK'
    <3>1. data' \in [Address -> Byte]
      BY <1>0, <2>1, <2>3, LoadedBytes DEF TypeOK
    <3>2. Len(loaded') <= MAX_HARTS
      BY <2>1, <2>2, <2>4, MemoryMapAssumption
    <3>3. running' \in BOOLEAN /\ stored' \in Access /\ last' \in Access
      BY <1>0 DEF TypeOK, SpawnHart
    <3>4. count' \in 0 .. MaxAccesses
      BY <1>0 DEF TypeOK
    <3> QED
      BY <1>0, <2>4, <3>1, <3>2, <3>3, <3>4 DEF TypeOK
  <2>6. \A a \in Address : data'[a] =
           IF a \in base .. base + 4 * Len(p) - 1
           THEN ByteOf(p[((a - base) \div 4) + 1], (a - base) % 4) ELSE data[a]
    BY <1>0, <2>1 DEF TypeOK, loadProgram
  <2>7. hartSlotBase(n + 1) = hartSlotTop(n)
    <3>1. (n + 1) * HART_SLOT_SIZE = n * HART_SLOT_SIZE + HART_SLOT_SIZE
          /\ n * HART_SLOT_SIZE \in Nat
      BY <2>2, MemoryMapAssumption
    <3> QED
      BY <3>1, MemoryMapAssumption DEF hartSlotBase, hartSlotTop
  <2>8. ClearAbove'
    <3> SUFFICES ASSUME NEW a \in Address, a >= hartSlotTop(n) PROVE data'[a] = 0
      BY <2>4, <2>7 DEF ClearAbove
    <3>1. a \in Nat /\ Len(p) \in Nat /\ HART_SLOT_SIZE \in Nat /\ a >= base + HART_SLOT_SIZE
      BY <1>0, <2>3, MemoryMapAssumption DEF Address
    <3> HIDE DEF base
    <3>2. a >= base /\ a \notin base .. base + 4 * Len(p) - 1
      BY <2>1, <2>3, <3>1
    <3> QED
      BY <1>0, <2>6, <3>2 DEF ClearAbove, base
  <2>9. BootImage'
    <3>0. Hart' = 0 .. n
      BY <2>2, <2>4 DEF Hart
    <3> SUFFICES ASSUME NEW h \in 0 .. n, NEW a \in SlotBytes(h)
                 PROVE  data'[a] =
                   IF a - hartSlotBase(h) < 4 * Len(loaded'[h + 1])
                   THEN ByteOf(loaded'[h + 1][((a - hartSlotBase(h)) \div 4) + 1],
                               (a - hartSlotBase(h)) % 4)
                   ELSE 0
      BY <3>0 DEF BootImage
    <3>1. h \in HartIds /\ h \in Nat
      BY <2>2, MemoryMapAssumption DEF HartIds
    <3>2. /\ hartSlotBase(h) \in Nat /\ hartSlotTop(h) \in Nat
          /\ hartSlotTop(h) + 3 <= MEM_SIZE
          /\ a \in Nat /\ a >= hartSlotBase(h) /\ a < hartSlotTop(h)
      BY <3>1, SlotInMemory DEF SlotBytes
    <3>3. a \in Address
      BY <3>2, MemoryMapAssumption DEF Address
    <3>4. CASE h = n
      <4>1. a >= base /\ data[a] = 0 /\ loaded'[h + 1] = p
        BY <1>0, <2>4, <3>2, <3>3, <3>4 DEF ClearAbove
      <4>2. a \in base .. base + 4 * Len(p) - 1 <=> a - base < 4 * Len(p)
        BY <1>0, <2>3, <3>2, <4>1
      <4> QED
        BY <2>6, <3>3, <3>4, <4>1, <4>2
    <3>5. CASE h # n
      <4>1. h \in Hart /\ h < n /\ loaded'[h + 1] = loaded[h + 1]
        BY <2>2, <2>4, <3>1, <3>5 DEF Hart
      <4>2. a < base
        BY <2>2, <2>3, <3>1, <3>2, <4>1, SlotsDisjoint
      <4>3. data'[a] = data[a]
        BY <1>0, <2>3, <2>6, <3>2, <3>3, <4>2
      <4> QED
        BY <1>0, <4>1, <4>3 DEF BootImage
    <3> QED
      BY <3>4, <3>5
  <2> QED
    BY <1>1, <2>5, <2>8, <2>9 DEF ContentInv
<1> QED
  BY <1>2, <1>3

\* A store leaves its bytes behind.
LEMMA StoreContent ==
    ASSUME ContentInv, NEW h \in HartIds, NEW w \in Width, NEW addr \in Nat, NEW val \in Word,
           Store(h, w, addr, val)
    PROVE  ContentInv'
<1>0. /\ TypeOK /\ running /\ running' /\ loaded' = loaded /\ files' = files
      /\ count' \in 0 .. MaxAccesses
      /\ data' = rawStore(data, addr, w, val) /\ stored' = last'
      /\ last' = [op |-> "store", hart |-> h, width |-> w, addr |-> addr, val |-> val]
  BY ByteAssumption DEF ContentInv, Store, Accesses, TypeOK
<1>1. addr \in Address /\ addr + w - 1 \in Address
  <2>1. ~check(addr, "STORE", h)
    BY DEF Store
  <2> QED
    BY <2>1, Allowed, AllowedInBounds
<1>2. \A a \in addr .. addr + w - 1 : a \in Address /\ a - addr \in 0 .. 3
  BY <1>1, MemoryMapAssumption DEF Address, Width
<1>3. \A a \in addr .. addr + w - 1 : ByteOf(val, a - addr) \in Byte
  BY <1>2, BytesOfWord
<1>4. data' \in [Address -> Byte]
  BY <1>0, <1>3 DEF TypeOK, rawStore
<1>5. last' \in Access
  BY <1>0 DEF Access, Width
<1>6. TypeOK'
  BY <1>0, <1>4, <1>5 DEF TypeOK
<1>7. HeldBytes'
  <2>1. ASSUME NEW i \in 0 .. w - 1 PROVE data'[addr + i] = ByteOf(val, i)
    <3>1. addr + i \in addr .. addr + w - 1 /\ (addr + i) - addr = i
      BY DEF Width
    <3>2. addr + i \in DOMAIN data
      BY <1>0, <1>2, <3>1 DEF TypeOK
    <3> QED
      BY <1>0, <3>1, <3>2 DEF rawStore
  <2> QED
    BY <1>0, <2>1 DEF HeldBytes
<1>8. ReadBack' /\ BootImage' /\ ClearAbove'
  BY <1>0 DEF ReadBack, BootImage, ClearAbove
<1> QED
  BY <1>6, <1>7, <1>8 DEF ContentInv

\* An access that leaves memory alone: a load reads what the last store left.
LEMMA ReadContent ==
    ASSUME ContentInv, NEW h \in HartIds, NEW w \in Nat, NEW addr \in Nat, NEW val \in Word,
           NEW op \in {"load", "loadu", "print", "fault"},
           Accesses(op, h, w, addr, val), data' = data, stored' = stored,
           op = "load" => val = signExt(rawLoad(data, addr, w), w),
           op = "loadu" => val = rawLoad(data, addr, w)
    PROVE  ContentInv'
<1>0. /\ TypeOK /\ running /\ running' /\ loaded' = loaded /\ files' = files
      /\ count' \in 0 .. MaxAccesses
      /\ last' = [op |-> op, hart |-> h, width |-> w, addr |-> addr, val |-> val]
  BY ByteAssumption DEF ContentInv, Accesses, TypeOK
<1>1. last' \in Access
  BY <1>0 DEF Access
<1>2. TypeOK'
  BY <1>0, <1>1 DEF TypeOK
<1>3. HeldBytes' /\ BootImage' /\ ClearAbove'
  BY <1>0 DEF ContentInv, HeldBytes, BootImage, ClearAbove
<1>4. ReadBack'
  <2> SUFFICES ASSUME addr = stored.addr, w = stored.width, stored.op = "store"
               PROVE  /\ op = "loadu" => val = stored.val % Span(w)
                      /\ op = "load" /\ FitsWidth(stored.val, w) => val = stored.val
    BY <1>0 DEF ReadBack
  <2>1. stored.val \in Word /\ w \in Width
    BY <1>0 DEF ContentInv, HeldBytes, TypeOK, Access
  <2>2. \A i \in 0 .. w - 1 : data[addr + i] = ByteOf(stored.val, i)
    BY DEF ContentInv, HeldBytes
  <2>3. rawLoad(data, addr, w) = stored.val % Span(w)
    BY <2>1, <2>2, LoadOfStore
  <2> QED
    BY <2>1, <2>3, SignExtBack
<1> QED
  BY <1>2, <1>3, <1>4 DEF ContentInv

\* The value a permitted load gives is a word.
LEMMA LoadedWord ==
    ASSUME TypeOK, NEW h \in HartIds, NEW w \in Width, NEW addr \in Nat,
           ~check(addr, "LOAD", h)
    PROVE  rawLoad(data, addr, w) \in Word /\ signExt(rawLoad(data, addr, w), w) \in Word
<1>1. addr \in Address /\ addr + w - 1 \in Address
  BY Allowed, AllowedInBounds
<1>2. rawLoad(data, addr, w) \in 0 .. Span(w) - 1
  BY <1>1, LoadType DEF TypeOK
<1> QED
  BY <1>2, SignExtType

\* Every step of the loader and of the guests keeps the invariant.
LEMMA ContentNext == ContentInv /\ [Next]_vars => ContentInv'
<1> SUFFICES ASSUME ContentInv, [Next]_vars PROVE ContentInv'
  OBVIOUS
<1>0. /\ Hart \subseteq HartIds /\ Addresses \subseteq Nat /\ Values \subseteq Word
      /\ 0 \in Word /\ Width \subseteq Nat /\ TypeOK
  BY SpawnedHasSlot, ByteAssumption, Sizes DEF ContentInv, TypeOK, Word, Width
<1>1. ASSUME NEW p \in Programs, SpawnHart(p) PROVE ContentInv'
  BY <1>1, SpawnContent
<1>2. CASE StartRun
  BY <1>2 DEF StartRun, ContentInv, TypeOK, BootImage, ClearAbove, HeldBytes, ReadBack
<1>3. CASE UNCHANGED vars
  BY <1>3 DEF vars, ContentInv, TypeOK, BootImage, ClearAbove, HeldBytes, ReadBack, Hart
<1>4. ASSUME NEW h \in Hart, NEW addr \in Addresses, NEW w \in Width,
             NEW t \in {"LOAD", "STORE"}, Refused(h, w, addr, t)
      PROVE  ContentInv'
  BY <1>0, <1>4, ReadContent DEF Refused
<1>5. ASSUME NEW h \in Hart, NEW addr \in Addresses, NEW w \in Width, NEW val \in Values,
             Store(h, w, addr, val)
      PROVE  ContentInv'
  BY <1>0, <1>5, StoreContent
<1>6. ASSUME NEW h \in Hart, NEW addr \in Addresses, NEW w \in Width, Load(h, w, addr)
      PROVE  ContentInv'
  BY <1>0, <1>6, LoadedWord, ReadContent DEF Load
<1>7. ASSUME NEW h \in Hart, NEW addr \in Addresses, NEW w \in {1, 2},
             LoadUnsigned(h, w, addr)
      PROVE  ContentInv'
  <2>1. w \in Width
    BY DEF Width
  <2> QED
    BY <1>0, <1>7, <2>1, LoadedWord, ReadContent DEF LoadUnsigned
<1>8. ASSUME NEW h \in Hart, NEW addr \in Addresses, PrintStr(h, addr) PROVE ContentInv'
  <2>1. PICK len \in 0 .. MaxString :
           Accesses("print", h, len, addr, 0) /\ data' = data /\ stored' = stored
    BY <1>8 DEF PrintStr
  <2> QED
    BY <1>0, <2>1, ByteAssumption, ReadContent
<1> QED
  BY <1>1, <1>2, <1>3, <1>4, <1>5, <1>6, <1>7, <1>8 DEF Next, Over

\* The invariant on what memory holds, throughout boot and run.
THEOREM ContentInductive == Spec => []ContentInv
BY ContentInit, ContentNext, PTL DEF Spec

\* Memory holds bytes, whatever is stored, and loads give words.
THEOREM MemTypeCorrect == Spec => []TypeOK
BY ContentInductive, PTL DEF ContentInv

\* Until run() starts every slot holds its hart's program and zeros after it,
\* whichever programs the loader refused before or after it.
THEOREM BootImageCorrect == Spec => []BootImage
BY ContentInductive, PTL DEF ContentInv

\* A load gives back what was last stored at its place, whatever harts and
\* overlapping accesses came between the stores and the load.
THEOREM ReadBackCorrect == Spec => []ReadBack
BY ContentInductive, PTL DEF ContentInv
=============================================================================
