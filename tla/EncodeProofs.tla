---------------------------- MODULE EncodeProofs ----------------------------
(***************************************************************************)
(* Theorems about Encode.tla: what the assembler puts into a word is what  *)
(* executeOne takes out of it, for every value of every field; what the    *)
(* 32-bit addition does, bit by bit and to the integers; and the words of  *)
(* every mnemonic, with those of a label before and after it is resolved.  *)
(***************************************************************************)
EXTENDS Assembly, TLAPS

Field(n) == SUBSET (0 .. n - 1)     \* the numbers of n bits

\* Signed number i is one of n bits: the bits from n - 1 on are equal.
Fits(i, n) == \A b \in n .. 31 : b \in i <=> n - 1 \in i

-----------------------------------------------------------------------------
\* Words with the same bits are equal.
LEMMA SameBits ==
    ASSUME NEW v \in Word, NEW w \in Word, \A b \in Bit : b \in v <=> b \in w
    PROVE  v = w
<1>1. \A b : b \in v <=> b \in w
  BY DEF Word
<1> QED
  BY <1>1

\* A shifted number is a word, and so is a union of words.
LEMMA WordParts ==
    /\ \A w, n : Shl(w, n) \in Word
    /\ \A v, w \in Word : v \cup w \in Word
    /\ \A f \in Field(7) : f \in Word
    /\ \A w \in Word : \A n : Low(w, n) \in Word
    /\ \A w \in Word : w \ 0 .. 11 \in Word
<1>1. \A w, n : Shl(w, n) \in Word
  BY DEF Shl, Word
<1>2. \A w \in Word : \A n : Low(w, n) \in Word
  BY DEF Low, Word
<1>3. \A f \in Field(7) : f \in Word
  BY DEF Word, Bit, Field
<1> QED
  BY <1>1, <1>2, <1>3 DEF Word

\* A field taken out of a word (the decode functions shift and mask).
LEMMA FieldIs ==
    ASSUME NEW w \in Word, NEW n \in Bit, NEW k \in 1 .. 12, n + k <= 32,
           NEW f \in Field(k), \A b \in 0 .. k - 1 : b + n \in w <=> b \in f
    PROVE  Low(Shr(w, n), k) = f
<1>1. Low(Shr(w, n), k) \in Word /\ f \in Word
  BY DEF Low, Shr, Word, Bit, Field
<1>2. ASSUME NEW b \in Bit PROVE b \in Low(Shr(w, n), k) <=> b \in f
  BY <1>2 DEF Low, Shr, Word, Bit, Field
<1> QED
  BY <1>1, <1>2, SameBits

\* The same for the field at the end of the word.
LEMMA LowFieldIs ==
    ASSUME NEW w \in Word, NEW f \in Field(7), \A b \in 0 .. 6 : b \in w <=> b \in f
    PROVE  Low(w, 7) = f
<1>1. Low(w, 7) \in Word /\ f \in Word
  BY WordParts
<1>2. ASSUME NEW b \in Bit PROVE b \in Low(w, 7) <=> b \in f
  BY <1>2 DEF Low, Word, Bit, Field
<1> QED
  BY <1>1, <1>2, SameBits

\* Cutting a number off and extending its sign again gives back a number that
\* fits (signExt).
LEMMA SignExtFits ==
    ASSUME NEW i \in Word, NEW n \in 1 .. 31, Fits(i, n)
    PROVE  signExt(Low(i, n), n) = i
<1>1. Low(i, n) \in Word /\ n .. 31 \in Word /\ {} \in Word
  BY WordParts DEF Word, Bit
<1>2. signExt(Low(i, n), n) \in Word
  BY <1>1, WordParts DEF signExt
<1>3. ASSUME NEW b \in Bit PROVE b \in signExt(Low(i, n), n) <=> b \in i
  BY <1>3 DEF signExt, Low, Word, Bit, Fits
<1> QED
  BY <1>2, <1>3, SameBits

-----------------------------------------------------------------------------
\* Where encodeR puts the bits of its arguments.
LEMMA BitsR ==
    ASSUME NEW f7 \in Field(7), NEW rs2 \in Field(5), NEW rs1 \in Field(5),
           NEW f3 \in Field(3), NEW rd \in Field(5), NEW op \in Field(7)
    PROVE  LET w == encodeR(f7, rs2, rs1, f3, rd, op) IN
           /\ w \in Word
           /\ \A b \in 0 .. 6 : b + 25 \in w <=> b \in f7
           /\ \A b \in 0 .. 4 : b + 20 \in w <=> b \in rs2
           /\ \A b \in 0 .. 4 : b + 15 \in w <=> b \in rs1
           /\ \A b \in 0 .. 2 : b + 12 \in w <=> b \in f3
           /\ \A b \in 0 .. 4 : b + 7 \in w <=> b \in rd
           /\ \A b \in 0 .. 6 : b \in w <=> b \in op
<1> DEFINE w == encodeR(f7, rs2, rs1, f3, rd, op)
<1>1. w \in Word
  BY WordParts DEF encodeR
<1>2. \A b \in 0 .. 6 : b + 25 \in w <=> b \in f7
  BY DEF encodeR, Low, Shl, Shr, Word, Bit, Field
<1>3. \A b \in 0 .. 4 : b + 20 \in w <=> b \in rs2
  BY DEF encodeR, Low, Shl, Shr, Word, Bit, Field
<1>4. \A b \in 0 .. 4 : b + 15 \in w <=> b \in rs1
  BY DEF encodeR, Low, Shl, Shr, Word, Bit, Field
<1>5. \A b \in 0 .. 2 : b + 12 \in w <=> b \in f3
  BY DEF encodeR, Low, Shl, Shr, Word, Bit, Field
<1>6. \A b \in 0 .. 4 : b + 7 \in w <=> b \in rd
  BY DEF encodeR, Low, Shl, Shr, Word, Bit, Field
<1>7. \A b \in 0 .. 6 : b \in w <=> b \in op
  BY DEF encodeR, Low, Shl, Shr, Word, Bit, Field
<1> QED
  BY <1>1, <1>2, <1>3, <1>4, <1>5, <1>6, <1>7

\* Every field of a register-register instruction comes out of the word as it
\* went in (encodeR and the decode functions of executeOne).
THEOREM RFormat ==
    ASSUME NEW f7 \in Field(7), NEW rs2 \in Field(5), NEW rs1 \in Field(5),
           NEW f3 \in Field(3), NEW rd \in Field(5), NEW op \in Field(7)
    PROVE  LET w == encodeR(f7, rs2, rs1, f3, rd, op) IN
           /\ decodeOpcode(w) = op
           /\ decodeRd(w) = rd
           /\ decodeFunct3(w) = f3
           /\ decodeRs1(w) = rs1
           /\ decodeRs2(w) = rs2
           /\ decodeFunct7(w) = f7
<1> DEFINE w == encodeR(f7, rs2, rs1, f3, rd, op)
<1>1. /\ w \in Word
      /\ \A b \in 0 .. 6 : b + 25 \in w <=> b \in f7
      /\ \A b \in 0 .. 4 : b + 20 \in w <=> b \in rs2
      /\ \A b \in 0 .. 4 : b + 15 \in w <=> b \in rs1
      /\ \A b \in 0 .. 2 : b + 12 \in w <=> b \in f3
      /\ \A b \in 0 .. 4 : b + 7 \in w <=> b \in rd
      /\ \A b \in 0 .. 6 : b \in w <=> b \in op
  BY BitsR
<1> HIDE DEF w
<1>2. decodeOpcode(w) = op
  BY <1>1, LowFieldIs DEF decodeOpcode
<1>3. decodeRd(w) = rd
  BY <1>1, FieldIs DEF decodeRd, Bit
<1>4. decodeFunct3(w) = f3
  BY <1>1, FieldIs DEF decodeFunct3, Bit
<1>5. decodeRs1(w) = rs1
  BY <1>1, FieldIs DEF decodeRs1, Bit
<1>6. decodeRs2(w) = rs2
  BY <1>1, FieldIs DEF decodeRs2, Bit
<1>7. decodeFunct7(w) = f7
  BY <1>1, FieldIs DEF decodeFunct7, Bit
<1> QED
  BY <1>2, <1>3, <1>4, <1>5, <1>6, <1>7 DEF w

-----------------------------------------------------------------------------
\* Where encodeI puts the bits of its arguments.
LEMMA BitsI ==
    ASSUME NEW i \in Word, NEW rs1 \in Field(5), NEW f3 \in Field(3),
           NEW rd \in Field(5), NEW op \in Field(7)
    PROVE  LET w == encodeI(i, rs1, f3, rd, op) IN
           /\ w \in Word
           /\ \A b \in 0 .. 11 : b + 20 \in w <=> b \in i
           /\ \A b \in 0 .. 4 : b + 15 \in w <=> b \in rs1
           /\ \A b \in 0 .. 2 : b + 12 \in w <=> b \in f3
           /\ \A b \in 0 .. 4 : b + 7 \in w <=> b \in rd
           /\ \A b \in 0 .. 6 : b \in w <=> b \in op
<1> DEFINE w == encodeI(i, rs1, f3, rd, op)
<1>1. w \in Word
  BY WordParts DEF encodeI
<1>2. \A b \in 0 .. 11 : b + 20 \in w <=> b \in i
  BY DEF encodeI, Low, Shl, Shr, Word, Bit, Field
<1>3. \A b \in 0 .. 4 : b + 15 \in w <=> b \in rs1
  BY DEF encodeI, Low, Shl, Shr, Word, Bit, Field
<1>4. \A b \in 0 .. 2 : b + 12 \in w <=> b \in f3
  BY DEF encodeI, Low, Shl, Shr, Word, Bit, Field
<1>5. \A b \in 0 .. 4 : b + 7 \in w <=> b \in rd
  BY DEF encodeI, Low, Shl, Shr, Word, Bit, Field
<1>6. \A b \in 0 .. 6 : b \in w <=> b \in op
  BY DEF encodeI, Low, Shl, Shr, Word, Bit, Field
<1> QED
  BY <1>1, <1>2, <1>3, <1>4, <1>5, <1>6

\* The bits decodeImmI collects, before their sign is extended.
rawI(w) == Shr(w, 20)

\* The places of the word they come from.
LEMMA RawI ==
    ASSUME NEW w \in Word, NEW b \in Bit
    PROVE  b \in rawI(w) <=>
              \/ b \in 0 .. 11 /\ b + 20 \in w
BY DEF rawI, Low, Shl, Shr, Word, Bit

\* Every field of a instruction with a 12-bit immediate comes out of the word
\* as it went in (encodeI and the decode functions of executeOne). The
\* immediate is cut to 12 bits, and comes back whole if it fits.
THEOREM IFormat ==
    ASSUME NEW i \in Word, NEW rs1 \in Field(5), NEW f3 \in Field(3),
           NEW rd \in Field(5), NEW op \in Field(7)
    PROVE  LET w == encodeI(i, rs1, f3, rd, op) IN
           /\ decodeOpcode(w) = op
           /\ decodeRd(w) = rd
           /\ decodeFunct3(w) = f3
           /\ decodeRs1(w) = rs1
           /\ decodeImmI(w) = signExt(Low(i, 12), 12)
           /\ Fits(i, 12) => decodeImmI(w) = i
<1> DEFINE w == encodeI(i, rs1, f3, rd, op)
<1>1. /\ w \in Word
      /\ \A b \in 0 .. 11 : b + 20 \in w <=> b \in i
      /\ \A b \in 0 .. 4 : b + 15 \in w <=> b \in rs1
      /\ \A b \in 0 .. 2 : b + 12 \in w <=> b \in f3
      /\ \A b \in 0 .. 4 : b + 7 \in w <=> b \in rd
      /\ \A b \in 0 .. 6 : b \in w <=> b \in op
  BY BitsI
<1> HIDE DEF w
<1>2. decodeOpcode(w) = op
  BY <1>1, LowFieldIs DEF decodeOpcode
<1>3. decodeRd(w) = rd
  BY <1>1, FieldIs DEF decodeRd, Bit
<1>4. decodeFunct3(w) = f3
  BY <1>1, FieldIs DEF decodeFunct3, Bit
<1>5. decodeRs1(w) = rs1
  BY <1>1, FieldIs DEF decodeRs1, Bit
<1>6. rawI(w) = Low(i, 12)
  <2>1. rawI(w) \in Word /\ Low(i, 12) \in Word
    BY <1>1 DEF rawI, Low, Shl, Shr, Word, Bit
  <2>2. ASSUME NEW b \in Bit PROVE b \in rawI(w) <=> b \in Low(i, 12)
    BY <1>1, <2>2, RawI DEF Low, Bit
  <2> QED
    BY <2>1, <2>2, SameBits
<1>7. decodeImmI(w) = signExt(Low(i, 12), 12)
  BY <1>6 DEF decodeImmI, rawI
<1>8. Fits(i, 12) => decodeImmI(w) = i
  BY <1>7, SignExtFits
<1> QED
  BY <1>2, <1>3, <1>4, <1>5, <1>7, <1>8 DEF w

-----------------------------------------------------------------------------
\* Where encodeS puts the bits of its arguments.
LEMMA BitsS ==
    ASSUME NEW i \in Word, NEW rs2 \in Field(5), NEW rs1 \in Field(5),
           NEW f3 \in Field(3), NEW op \in Field(7)
    PROVE  LET w == encodeS(i, rs2, rs1, f3, op) IN
           /\ w \in Word
           /\ \A b \in 5 .. 11 : b + 20 \in w <=> b \in i
           /\ \A b \in 0 .. 4 : b + 7 \in w <=> b \in i
           /\ \A b \in 0 .. 4 : b + 20 \in w <=> b \in rs2
           /\ \A b \in 0 .. 4 : b + 15 \in w <=> b \in rs1
           /\ \A b \in 0 .. 2 : b + 12 \in w <=> b \in f3
           /\ \A b \in 0 .. 6 : b \in w <=> b \in op
<1> DEFINE w == encodeS(i, rs2, rs1, f3, op)
<1>1. w \in Word
  BY WordParts DEF encodeS
<1>2. \A b \in 5 .. 11 : b + 20 \in w <=> b \in i
  BY DEF encodeS, Low, Shl, Shr, Word, Bit, Field
<1>3. \A b \in 0 .. 4 : b + 7 \in w <=> b \in i
  BY DEF encodeS, Low, Shl, Shr, Word, Bit, Field
<1>4. \A b \in 0 .. 4 : b + 20 \in w <=> b \in rs2
  BY DEF encodeS, Low, Shl, Shr, Word, Bit, Field
<1>5. \A b \in 0 .. 4 : b + 15 \in w <=> b \in rs1
  BY DEF encodeS, Low, Shl, Shr, Word, Bit, Field
<1>6. \A b \in 0 .. 2 : b + 12 \in w <=> b \in f3
  BY DEF encodeS, Low, Shl, Shr, Word, Bit, Field
<1>7. \A b \in 0 .. 6 : b \in w <=> b \in op
  BY DEF encodeS, Low, Shl, Shr, Word, Bit, Field
<1> QED
  BY <1>1, <1>2, <1>3, <1>4, <1>5, <1>6, <1>7

\* The bits decodeImmS collects, before their sign is extended.
rawS(w) == Shl(Low(Shr(w, 25), 7), 5) \cup Low(Shr(w, 7), 5)

\* The places of the word they come from.
LEMMA RawS ==
    ASSUME NEW w \in Word, NEW b \in Bit
    PROVE  b \in rawS(w) <=>
              \/ b \in 5 .. 11 /\ b + 20 \in w
              \/ b \in 0 .. 4 /\ b + 7 \in w
BY DEF rawS, Low, Shl, Shr, Word, Bit

\* Every field of a store comes out of the word as it went in (encodeS and the
\* decode functions of executeOne). The offset, split over two fields, is cut
\* to 12 bits, and comes back whole if it fits.
THEOREM SFormat ==
    ASSUME NEW i \in Word, NEW rs2 \in Field(5), NEW rs1 \in Field(5),
           NEW f3 \in Field(3), NEW op \in Field(7)
    PROVE  LET w == encodeS(i, rs2, rs1, f3, op) IN
           /\ decodeOpcode(w) = op
           /\ decodeFunct3(w) = f3
           /\ decodeRs1(w) = rs1
           /\ decodeRs2(w) = rs2
           /\ decodeImmS(w) = signExt(Low(i, 12), 12)
           /\ Fits(i, 12) => decodeImmS(w) = i
<1> DEFINE w == encodeS(i, rs2, rs1, f3, op)
<1>1. /\ w \in Word
      /\ \A b \in 5 .. 11 : b + 20 \in w <=> b \in i
      /\ \A b \in 0 .. 4 : b + 7 \in w <=> b \in i
      /\ \A b \in 0 .. 4 : b + 20 \in w <=> b \in rs2
      /\ \A b \in 0 .. 4 : b + 15 \in w <=> b \in rs1
      /\ \A b \in 0 .. 2 : b + 12 \in w <=> b \in f3
      /\ \A b \in 0 .. 6 : b \in w <=> b \in op
  BY BitsS
<1> HIDE DEF w
<1>2. decodeOpcode(w) = op
  BY <1>1, LowFieldIs DEF decodeOpcode
<1>3. decodeFunct3(w) = f3
  BY <1>1, FieldIs DEF decodeFunct3, Bit
<1>4. decodeRs1(w) = rs1
  BY <1>1, FieldIs DEF decodeRs1, Bit
<1>5. decodeRs2(w) = rs2
  BY <1>1, FieldIs DEF decodeRs2, Bit
<1>6. rawS(w) = Low(i, 12)
  <2>1. rawS(w) \in Word /\ Low(i, 12) \in Word
    BY <1>1 DEF rawS, Low, Shl, Shr, Word, Bit
  <2>2. ASSUME NEW b \in Bit PROVE b \in rawS(w) <=> b \in Low(i, 12)
    BY <1>1, <2>2, RawS DEF Low, Bit
  <2> QED
    BY <2>1, <2>2, SameBits
<1>7. decodeImmS(w) = signExt(Low(i, 12), 12)
  BY <1>6 DEF decodeImmS, rawS
<1>8. Fits(i, 12) => decodeImmS(w) = i
  BY <1>7, SignExtFits
<1> QED
  BY <1>2, <1>3, <1>4, <1>5, <1>7, <1>8 DEF w

-----------------------------------------------------------------------------
\* Where encodeB puts the bits of its arguments.
LEMMA BitsB ==
    ASSUME NEW i \in Word, NEW rs2 \in Field(5), NEW rs1 \in Field(5),
           NEW f3 \in Field(3), NEW op \in Field(7)
    PROVE  LET w == encodeB(i, rs2, rs1, f3, op) IN
           /\ w \in Word
           /\ 31 \in w <=> 12 \in i
           /\ 7 \in w <=> 11 \in i
           /\ \A b \in 5 .. 10 : b + 20 \in w <=> b \in i
           /\ \A b \in 1 .. 4 : b + 7 \in w <=> b \in i
           /\ \A b \in 0 .. 4 : b + 20 \in w <=> b \in rs2
           /\ \A b \in 0 .. 4 : b + 15 \in w <=> b \in rs1
           /\ \A b \in 0 .. 2 : b + 12 \in w <=> b \in f3
           /\ \A b \in 0 .. 6 : b \in w <=> b \in op
<1> DEFINE w == encodeB(i, rs2, rs1, f3, op)
<1>1. w \in Word
  BY WordParts, ZenonT(30) DEF encodeB
<1>2. 31 \in w <=> 12 \in i
  BY DEF encodeB, Low, Shl, Shr, Word, Bit, Field
<1>3. 7 \in w <=> 11 \in i
  BY DEF encodeB, Low, Shl, Shr, Word, Bit, Field
<1>4. \A b \in 5 .. 10 : b + 20 \in w <=> b \in i
  BY DEF encodeB, Low, Shl, Shr, Word, Bit, Field
<1>5. \A b \in 1 .. 4 : b + 7 \in w <=> b \in i
  BY DEF encodeB, Low, Shl, Shr, Word, Bit, Field
<1>6. \A b \in 0 .. 4 : b + 20 \in w <=> b \in rs2
  BY DEF encodeB, Low, Shl, Shr, Word, Bit, Field
<1>7. \A b \in 0 .. 4 : b + 15 \in w <=> b \in rs1
  BY DEF encodeB, Low, Shl, Shr, Word, Bit, Field
<1>8. \A b \in 0 .. 2 : b + 12 \in w <=> b \in f3
  BY DEF encodeB, Low, Shl, Shr, Word, Bit, Field
<1>9. \A b \in 0 .. 6 : b \in w <=> b \in op
  BY DEF encodeB, Low, Shl, Shr, Word, Bit, Field
<1> QED
  BY <1>1, <1>2, <1>3, <1>4, <1>5, <1>6, <1>7, <1>8, <1>9

\* The bits decodeImmB collects, before their sign is extended.
rawB(w) == Shl(Low(Shr(w, 31), 1), 12) \cup Shl(Low(Shr(w, 7), 1), 11)
               \cup Shl(Low(Shr(w, 25), 6), 5) \cup Shl(Low(Shr(w, 8), 4), 1)

\* The places of the word they come from.
LEMMA RawB ==
    ASSUME NEW w \in Word, NEW b \in Bit
    PROVE  b \in rawB(w) <=>
              \/ b = 12 /\ 31 \in w
              \/ b = 11 /\ 7 \in w
              \/ b \in 5 .. 10 /\ b + 20 \in w
              \/ b \in 1 .. 4 /\ b + 7 \in w
BY DEF rawB, Low, Shl, Shr, Word, Bit

\* The lower n bits of a distance, bit 0 apart.
EvenLow(i, n) == Low(i, n) \ {0}

\* Every field of a branch comes out of the word as it went in (encodeB and
\* the decode functions of executeOne). The offset, scattered over four
\* fields, loses bit 0 and is cut to 13 bits, and comes back whole if it fits
\* and is even.
THEOREM BFormat ==
    ASSUME NEW i \in Word, NEW rs2 \in Field(5), NEW rs1 \in Field(5),
           NEW f3 \in Field(3), NEW op \in Field(7)
    PROVE  LET w == encodeB(i, rs2, rs1, f3, op) IN
           /\ decodeOpcode(w) = op
           /\ decodeFunct3(w) = f3
           /\ decodeRs1(w) = rs1
           /\ decodeRs2(w) = rs2
           /\ decodeImmB(w) = signExt(EvenLow(i, 13), 13)
           /\ Fits(i, 13) /\ 0 \notin i => decodeImmB(w) = i
<1> DEFINE w == encodeB(i, rs2, rs1, f3, op)
<1>1. /\ w \in Word
      /\ 31 \in w <=> 12 \in i
      /\ 7 \in w <=> 11 \in i
      /\ \A b \in 5 .. 10 : b + 20 \in w <=> b \in i
      /\ \A b \in 1 .. 4 : b + 7 \in w <=> b \in i
      /\ \A b \in 0 .. 4 : b + 20 \in w <=> b \in rs2
      /\ \A b \in 0 .. 4 : b + 15 \in w <=> b \in rs1
      /\ \A b \in 0 .. 2 : b + 12 \in w <=> b \in f3
      /\ \A b \in 0 .. 6 : b \in w <=> b \in op
  BY BitsB
<1> HIDE DEF w
<1>2. decodeOpcode(w) = op
  BY <1>1, LowFieldIs DEF decodeOpcode
<1>3. decodeFunct3(w) = f3
  BY <1>1, FieldIs DEF decodeFunct3, Bit
<1>4. decodeRs1(w) = rs1
  BY <1>1, FieldIs DEF decodeRs1, Bit
<1>5. decodeRs2(w) = rs2
  BY <1>1, FieldIs DEF decodeRs2, Bit
<1>6. rawB(w) = Low(i, 13) \ {0}
  <2>1. rawB(w) \in Word /\ Low(i, 13) \ {0} \in Word
    BY <1>1 DEF rawB, Low, Shl, Shr, Word, Bit
  <2>2. ASSUME NEW b \in Bit PROVE b \in rawB(w) <=> b \in Low(i, 13) \ {0}
    BY <1>1, <2>2, RawB DEF Low, Bit
  <2> QED
    BY <2>1, <2>2, SameBits
<1>7. decodeImmB(w) = signExt(EvenLow(i, 13), 13)
  BY <1>6 DEF decodeImmB, rawB, EvenLow
<1>8. 0 \notin i => EvenLow(i, 13) = Low(i, 13)
  BY DEF EvenLow, Low
<1>9. Fits(i, 13) /\ 0 \notin i => decodeImmB(w) = i
  BY <1>7, <1>8, SignExtFits
<1> QED
  BY <1>2, <1>3, <1>4, <1>5, <1>7, <1>9 DEF w

-----------------------------------------------------------------------------
\* Where encodeU puts the bits of its arguments.
LEMMA BitsU ==
    ASSUME NEW i \in Word, NEW rd \in Field(5), NEW op \in Field(7)
    PROVE  LET w == encodeU(i, rd, op) IN
           /\ w \in Word
           /\ \A b \in 12 .. 31 : b \in w <=> b \in i
           /\ \A b \in 0 .. 4 : b + 7 \in w <=> b \in rd
           /\ \A b \in 0 .. 6 : b \in w <=> b \in op
<1> DEFINE w == encodeU(i, rd, op)
<1>1. w \in Word
  BY WordParts DEF encodeU
<1>2. \A b \in 12 .. 31 : b \in w <=> b \in i
  BY DEF encodeU, Low, Shl, Shr, Word, Bit, Field
<1>3. \A b \in 0 .. 4 : b + 7 \in w <=> b \in rd
  BY DEF encodeU, Low, Shl, Shr, Word, Bit, Field
<1>4. \A b \in 0 .. 6 : b \in w <=> b \in op
  BY DEF encodeU, Low, Shl, Shr, Word, Bit, Field
<1> QED
  BY <1>1, <1>2, <1>3, <1>4

\* Every field of a instruction with an upper immediate comes out of the word
\* as it went in (encodeU and the decode functions of executeOne). The lower
\* 12 bits of the immediate are dropped.
THEOREM UFormat ==
    ASSUME NEW i \in Word, NEW rd \in Field(5), NEW op \in Field(7)
    PROVE  LET w == encodeU(i, rd, op) IN
           /\ decodeOpcode(w) = op
           /\ decodeRd(w) = rd
           /\ decodeImmU(w) = i \ 0 .. 11
<1> DEFINE w == encodeU(i, rd, op)
<1>1. /\ w \in Word
      /\ \A b \in 12 .. 31 : b \in w <=> b \in i
      /\ \A b \in 0 .. 4 : b + 7 \in w <=> b \in rd
      /\ \A b \in 0 .. 6 : b \in w <=> b \in op
  BY BitsU
<1> HIDE DEF w
<1>2. decodeOpcode(w) = op
  BY <1>1, LowFieldIs DEF decodeOpcode
<1>3. decodeRd(w) = rd
  BY <1>1, FieldIs DEF decodeRd, Bit
<1>4. decodeImmU(w) = i \ 0 .. 11
  <2>1. decodeImmU(w) \in Word /\ i \ 0 .. 11 \in Word
    BY <1>1, WordParts DEF decodeImmU
  <2>2. ASSUME NEW b \in Bit PROVE b \in decodeImmU(w) <=> b \in i \ 0 .. 11
    BY <1>1, <2>2 DEF decodeImmU, Bit
  <2> QED
    BY <2>1, <2>2, SameBits
<1> QED
  BY <1>2, <1>3, <1>4 DEF w

-----------------------------------------------------------------------------
\* Where encodeJ puts the bits of its arguments.
LEMMA BitsJ ==
    ASSUME NEW i \in Word, NEW rd \in Field(5), NEW op \in Field(7)
    PROVE  LET w == encodeJ(i, rd, op) IN
           /\ w \in Word
           /\ 31 \in w <=> 20 \in i
           /\ \A b \in 12 .. 19 : b \in w <=> b \in i
           /\ 20 \in w <=> 11 \in i
           /\ \A b \in 1 .. 10 : b + 20 \in w <=> b \in i
           /\ \A b \in 0 .. 4 : b + 7 \in w <=> b \in rd
           /\ \A b \in 0 .. 6 : b \in w <=> b \in op
<1> DEFINE w == encodeJ(i, rd, op)
<1>1. w \in Word
  BY WordParts DEF encodeJ
<1>2. 31 \in w <=> 20 \in i
  BY DEF encodeJ, Low, Shl, Shr, Word, Bit, Field
<1>3. \A b \in 12 .. 19 : b \in w <=> b \in i
  BY DEF encodeJ, Low, Shl, Shr, Word, Bit, Field
<1>4. 20 \in w <=> 11 \in i
  BY DEF encodeJ, Low, Shl, Shr, Word, Bit, Field
<1>5. \A b \in 1 .. 10 : b + 20 \in w <=> b \in i
  BY DEF encodeJ, Low, Shl, Shr, Word, Bit, Field
<1>6. \A b \in 0 .. 4 : b + 7 \in w <=> b \in rd
  BY DEF encodeJ, Low, Shl, Shr, Word, Bit, Field
<1>7. \A b \in 0 .. 6 : b \in w <=> b \in op
  BY DEF encodeJ, Low, Shl, Shr, Word, Bit, Field
<1> QED
  BY <1>1, <1>2, <1>3, <1>4, <1>5, <1>6, <1>7

\* The bits decodeImmJ collects, before their sign is extended.
rawJ(w) == Shl(Low(Shr(w, 31), 1), 20) \cup Shl(Low(Shr(w, 12), 8), 12)
               \cup Shl(Low(Shr(w, 20), 1), 11) \cup Shl(Low(Shr(w, 21), 10), 1)

\* The places of the word they come from.
LEMMA RawJ ==
    ASSUME NEW w \in Word, NEW b \in Bit
    PROVE  b \in rawJ(w) <=>
              \/ b = 20 /\ 31 \in w
              \/ b \in 12 .. 19 /\ b \in w
              \/ b = 11 /\ 20 \in w
              \/ b \in 1 .. 10 /\ b + 20 \in w
BY DEF rawJ, Low, Shl, Shr, Word, Bit

\* Every field of a jump comes out of the word as it went in (encodeJ and the
\* decode functions of executeOne). The offset, scattered over four fields,
\* loses bit 0 and is cut to 21 bits, and comes back whole if it fits and is
\* even.
THEOREM JFormat ==
    ASSUME NEW i \in Word, NEW rd \in Field(5), NEW op \in Field(7)
    PROVE  LET w == encodeJ(i, rd, op) IN
           /\ decodeOpcode(w) = op
           /\ decodeRd(w) = rd
           /\ decodeImmJ(w) = signExt(EvenLow(i, 21), 21)
           /\ Fits(i, 21) /\ 0 \notin i => decodeImmJ(w) = i
<1> DEFINE w == encodeJ(i, rd, op)
<1>1. /\ w \in Word
      /\ 31 \in w <=> 20 \in i
      /\ \A b \in 12 .. 19 : b \in w <=> b \in i
      /\ 20 \in w <=> 11 \in i
      /\ \A b \in 1 .. 10 : b + 20 \in w <=> b \in i
      /\ \A b \in 0 .. 4 : b + 7 \in w <=> b \in rd
      /\ \A b \in 0 .. 6 : b \in w <=> b \in op
  BY BitsJ
<1> HIDE DEF w
<1>2. decodeOpcode(w) = op
  BY <1>1, LowFieldIs DEF decodeOpcode
<1>3. decodeRd(w) = rd
  BY <1>1, FieldIs DEF decodeRd, Bit
<1>4. rawJ(w) = Low(i, 21) \ {0}
  <2>1. rawJ(w) \in Word /\ Low(i, 21) \ {0} \in Word
    BY <1>1 DEF rawJ, Low, Shl, Shr, Word, Bit
  <2>2. ASSUME NEW b \in Bit PROVE b \in rawJ(w) <=> b \in Low(i, 21) \ {0}
    BY <1>1, <2>2, RawJ DEF Low, Bit
  <2> QED
    BY <2>1, <2>2, SameBits
<1>5. decodeImmJ(w) = signExt(EvenLow(i, 21), 21)
  BY <1>4 DEF decodeImmJ, rawJ, EvenLow
<1>6. 0 \notin i => EvenLow(i, 21) = Low(i, 21)
  BY DEF EvenLow, Low
<1>7. Fits(i, 21) /\ 0 \notin i => decodeImmJ(w) = i
  BY <1>5, <1>6, SignExtFits
<1> QED
  BY <1>2, <1>3, <1>5, <1>7 DEF w

-----------------------------------------------------------------------------
(* Addition.                                                               *)

\* c holds the places that a carry comes into when a and b are added.
Carries(a, b, c) ==
    /\ 0 \notin c
    /\ \A i \in Bit : i + 1 \in c <=> \/ i \in a /\ i \in b
                                      \/ (i \in a \/ i \in b) /\ i \in c

\* The bits of a sum.
Sums(a, b, c) ==
    /\ Carries(a, b, c)
    /\ \A i \in Bit : i \in Add(a, b) <=> (i \in a <=> (i \in b <=> i \in c))

\* Add computes its carries with a recursive function.  That there is such a
\* function follows from what a carry is: somewhere below both words have a
\* bit, and from there on at least one of them has.
LEMMA AddBits ==
    ASSUME NEW a, NEW b
    PROVE  /\ Add(a, b) \in Word
           /\ \E c : Sums(a, b, c)
<1> DEFINE Into(i) == \E j \in 0 .. i - 1 : /\ j \in a /\ j \in b
                                            /\ \A m \in j + 1 .. i - 1 : m \in a \/ m \in b
           Rec(f) == f = [i \in 0 .. 32 |->
                            /\ i > 0
                            /\ \/ i - 1 \in a /\ i - 1 \in b
                               \/ (i - 1 \in a \/ i - 1 \in b) /\ f[i - 1]]
           g == [i \in 0 .. 32 |-> Into(i)]
           f == CHOOSE x : Rec(x)
<1>1. ASSUME NEW i \in 1 .. 32
      PROVE  Into(i) <=> \/ i - 1 \in a /\ i - 1 \in b
                         \/ (i - 1 \in a \/ i - 1 \in b) /\ Into(i - 1)
  <2>1. ASSUME NEW j \in 0 .. i - 1, j \in a, j \in b,
               \A m \in j + 1 .. i - 1 : m \in a \/ m \in b
        PROVE  \/ i - 1 \in a /\ i - 1 \in b
               \/ (i - 1 \in a \/ i - 1 \in b) /\ Into(i - 1)
    <3>1. CASE j = i - 1
      <4>1. i - 1 \in a /\ i - 1 \in b
        BY <2>1, <3>1
      <4> HIDE DEF Into
      <4> QED
        BY <4>1
    <3>2. CASE j # i - 1
      BY <2>1, <3>2
    <3> QED
      BY <3>1, <3>2
  <2>2. ASSUME i - 1 \in a /\ i - 1 \in b PROVE Into(i)
    BY <2>2
  <2>3. ASSUME i - 1 \in a \/ i - 1 \in b, Into(i - 1) PROVE Into(i)
    BY <2>3
  <2> QED
    BY <2>1, <2>2, <2>3
<1>2. Rec(g)
  <2>0. Into(0) = FALSE /\ \A i \in 0 .. 32 : Into(i) \in BOOLEAN
    OBVIOUS
  <2> HIDE DEF Into
  <2>1. \A i \in 1 .. 32 : g[i - 1] = Into(i - 1)
    OBVIOUS
  <2>2. ASSUME NEW i \in 0 .. 32
        PROVE  g[i] = (/\ i > 0
                       /\ \/ i - 1 \in a /\ i - 1 \in b
                          \/ (i - 1 \in a \/ i - 1 \in b) /\ g[i - 1])
    <3>1. Into(i) <=> /\ i > 0
                      /\ \/ i - 1 \in a /\ i - 1 \in b
                         \/ (i - 1 \in a \/ i - 1 \in b) /\ Into(i - 1)
      BY <1>1, <2>0
    <3>2. g[i] = Into(i) /\ Into(i) \in BOOLEAN
      BY <2>0
    <3>3. i > 0 => g[i - 1] = Into(i - 1)
      BY <2>1
    <3> HIDE DEF g
    <3> QED
      BY <3>1, <3>2, <3>3
  <2>3. g = [i \in 0 .. 32 |-> g[i]]
    OBVIOUS
  <2> HIDE DEF g
  <2> QED
    BY <2>2, <2>3
<1>3. Rec(f)
  BY <1>2
<1>4. Add(a, b) = {i \in Bit : (i \in a) # ((i \in b) # f[i])}
  BY DEF Add
<1> HIDE DEF f
<1>5. \A i \in 0 .. 32 : f[i] = (/\ i > 0
                                 /\ \/ i - 1 \in a /\ i - 1 \in b
                                    \/ (i - 1 \in a \/ i - 1 \in b) /\ f[i - 1])
  BY <1>3, Zenon
<1> HIDE DEF Rec
<1> DEFINE c == {i \in 0 .. 32 : f[i]}
<1>6. 0 \notin c
  <2>1. 0 \in 0 .. 32 /\ ~(0 > 0)
    OBVIOUS
  <2>2. f[0] = FALSE
    BY <1>5, <2>1
  <2> QED
    BY <2>2
<1>7. ASSUME NEW i \in Bit
      PROVE  i + 1 \in c <=> \/ i \in a /\ i \in b
                             \/ (i \in a \/ i \in b) /\ i \in c
  <2> HIDE DEF Into, g
  <2>1. i \in 0 .. 32
    BY DEF Bit
  <2>2. PICK n \in 0 .. 32 : n = i + 1 /\ n > 0 /\ n - 1 = i
    BY DEF Bit
  <2>3. f[n] = (/\ n > 0
                /\ \/ n - 1 \in a /\ n - 1 \in b
                   \/ (n - 1 \in a \/ n - 1 \in b) /\ f[n - 1])
    BY <1>5
  <2>4. f[n] = (\/ i \in a /\ i \in b
                \/ (i \in a \/ i \in b) /\ f[i])
    BY <2>2, <2>3
  <2> QED
    BY <2>1, <2>2, <2>4
<1>8. ASSUME NEW i \in Bit
      PROVE  i \in Add(a, b) <=> (i \in a <=> (i \in b <=> i \in c))
  <2>1. i \in 0 .. 32
    BY DEF Bit
  <2>2. f[i] \in BOOLEAN
    BY <1>5, <2>1
  <2> QED
    BY <1>4, <2>1, <2>2
<1> HIDE DEF c
<1> QED
  BY <1>4, <1>6, <1>7, <1>8 DEF Sums, Carries, Word

\* What holds of bit 0 and goes from a bit to the next holds of all.
LEMMA Ripple ==
    ASSUME NEW S, 0 \in S, \A i \in Bit : i \in S => i + 1 \in S
    PROVE  0 .. 32 \subseteq S
<1>1. 1 \in S /\ 2 \in S /\ 3 \in S /\ 4 \in S /\ 5 \in S /\ 6 \in S /\ 7 \in S /\ 8 \in S
  BY DEF Bit
<1>2. 9 \in S /\ 10 \in S /\ 11 \in S /\ 12 \in S /\ 13 \in S /\ 14 \in S /\ 15 \in S /\ 16 \in S
  BY <1>1 DEF Bit
<1>3. 17 \in S /\ 18 \in S /\ 19 \in S /\ 20 \in S /\ 21 \in S /\ 22 \in S /\ 23 \in S /\ 24 \in S
  BY <1>2 DEF Bit
<1>4. 25 \in S /\ 26 \in S /\ 27 \in S /\ 28 \in S /\ 29 \in S /\ 30 \in S /\ 31 \in S /\ 32 \in S
  BY <1>3 DEF Bit
<1> QED
  BY <1>1, <1>2, <1>3, <1>4

\* Subtracting a word and adding it again: the three additions together carry
\* exactly once out of every place.
LEMMA AddSub ==
    ASSUME NEW v \in Word, NEW x \in Word
    PROVE  Sub(v, x) \in Word /\ Add(x, Sub(v, x)) = v
<1> DEFINE s == Add(v, Bit \ x)
           t == Add(s, {0})
           r == Add(x, t)
<1>0. Sub(v, x) = t
  BY DEF Sub
<1>1. PICK c1 : Sums(v, Bit \ x, c1)
  BY AddBits
<1>2. PICK c2 : Sums(s, {0}, c2)
  BY AddBits
<1>3. PICK c3 : Sums(x, t, c3)
  BY AddBits
<1>4. t \in Word /\ r \in Word
  BY AddBits
<1> HIDE DEF s, t, r
<1> DEFINE One(i) == \/ i \in c1 /\ i \notin c2 /\ i \notin c3
                     \/ i \notin c1 /\ i \in c2 /\ i \notin c3
                     \/ i \notin c1 /\ i \notin c2 /\ i \in c3
           S == {i \in 0 .. 32 : i > 0 => One(i)}
<1>5. 0 \in S
  OBVIOUS
<1>6. ASSUME NEW i \in Bit, i \in S PROVE i + 1 \in S /\ (i \in r <=> i \in v)
  <2>0. i + 1 \in 0 .. 32
    BY DEF Bit
  <2>1. /\ i + 1 \in c1 <=> \/ i \in v /\ i \notin x
                            \/ (i \in v \/ i \notin x) /\ i \in c1
        /\ i \in s <=> (i \in v <=> (i \notin x <=> i \in c1))
    BY <1>1 DEF Sums, Carries, s
  <2>2. /\ i + 1 \in c2 <=> (i \in s /\ i = 0) \/ ((i \in s \/ i = 0) /\ i \in c2)
        /\ i \in t <=> (i \in s <=> (i = 0 <=> i \in c2))
    BY <1>2 DEF Sums, Carries, t
  <2>3. /\ i + 1 \in c3 <=> (i \in x /\ i \in t) \/ ((i \in x \/ i \in t) /\ i \in c3)
        /\ i \in r <=> (i \in x <=> (i \in t <=> i \in c3))
    BY <1>3 DEF Sums, Carries, r
  <2>4. CASE i = 0
    <3>1. i \notin c1 /\ i \notin c2 /\ i \notin c3
      BY <1>1, <1>2, <1>3, <2>4 DEF Sums, Carries
    <3>2. One(i + 1) /\ (i \in r <=> i \in v)
      BY <2>1, <2>2, <2>3, <2>4, <3>1
    <3> QED
      BY <2>0, <3>2
  <2>5. CASE i # 0
    <3>1. One(i)
      BY <1>6, <2>5
    <3>2. One(i + 1) /\ (i \in r <=> i \in v)
      BY <2>1, <2>2, <2>3, <2>5, <3>1
    <3> QED
      BY <2>0, <3>2
  <2> QED
    BY <2>4, <2>5
<1> HIDE DEF S
<1>7. 0 .. 32 \subseteq S
  BY <1>5, <1>6, Ripple
<1>8. \A i \in Bit : i \in r <=> i \in v
  BY <1>6, <1>7 DEF Bit
<1>9. r = v
  BY <1>4, <1>8, SameBits
<1> QED
  BY <1>0, <1>4, <1>9 DEF r

-----------------------------------------------------------------------------
(* The two halves of a value, and the opcode of a word.                    *)

\* hiPart has no bits below 12, and what is left for the ADDI fits 12 bits.
LEMMA HiLo ==
    ASSUME NEW v \in Word
    PROVE  /\ hiPart(v) \in Word /\ loPart(v) \in Word
           /\ hiPart(v) \ 0 .. 11 = hiPart(v)
           /\ Fits(loPart(v), 12)
           /\ Add(hiPart(v), loPart(v)) = v
<1> DEFINE u == Add(v, {11})
           h == hiPart(v)
           s == Add(v, Bit \ h)
           t == Add(s, {0})
<1>1. PICK c : Sums(v, {11}, c)
  BY AddBits
<1>2. h \in Word /\ \A i \in Bit : i \in h <=> i > 11 /\ i \in u
  <2>1. u \in Word
    BY AddBits
  <2> HIDE DEF u
  <2>2. \A i \in Bit : i > 11 => (i - 12 \in Sra(u, 12) <=> i \in u)
    BY <2>1 DEF Sra, Shr, Bit, Word
  <2>3. \A i \in Bit : i - 12 \in Sra(u, 12) => i > 11
    BY <2>1 DEF Sra, Shr, Bit, Word
  <2>4. h = {i \in Bit : i - 12 \in Sra(u, 12)}
    BY DEF hiPart, Shl, u
  <2> HIDE DEF h
  <2> QED
    BY <2>2, <2>3, <2>4 DEF Word
<1>3. PICK c1 : Sums(v, Bit \ h, c1)
  BY AddBits
<1>4. PICK c2 : Sums(s, {0}, c2)
  BY AddBits
<1>5. loPart(v) = t /\ t \in Word /\ Add(h, t) = v
  BY <1>2, AddSub DEF loPart, Sub
<1>6. h \ 0 .. 11 = h
  BY <1>2 DEF Word, Bit
<1> HIDE DEF u, h, s, t
<1> DEFINE C(i) == ~(i \in c1 <=> i \in c2)         \* one carry
           N(i) == i \notin c1 /\ i \notin c2       \* none
           Inv(i) == /\ i \in 1 .. 12 => C(i)
                     /\ i <= 11 => i \notin c
                     /\ i = 12 => (i \in c <=> 11 \in v)
                     /\ i > 12 => IF 11 \in v THEN IF i \in c THEN C(i) ELSE N(i)
                                  ELSE i \notin c /\ C(i)
           S == {i \in 0 .. 32 : Inv(i)}
<1>7. 0 \in S
  BY <1>1 DEF Sums, Carries
<1>8. ASSUME NEW i \in Bit, i \in S
      PROVE  i + 1 \in S /\ (i > 11 => (i \in t <=> 11 \in v)) /\ (i = 11 => (i \in t <=> i \in v))
  <2>0. i + 1 \in 0 .. 32 /\ i \in Nat
    BY DEF Bit
  <2>1. /\ i + 1 \in c <=> (i \in v /\ i = 11) \/ ((i \in v \/ i = 11) /\ i \in c)
        /\ i \in u <=> (i \in v <=> (i = 11 <=> i \in c))
    BY <1>1 DEF Sums, Carries, u
  <2>2. /\ i + 1 \in c1 <=> (i \in v /\ i \notin h) \/ ((i \in v \/ i \notin h) /\ i \in c1)
        /\ i \in s <=> (i \in v <=> (i \notin h <=> i \in c1))
        /\ i \in h <=> i > 11 /\ i \in u
    BY <1>2, <1>3 DEF Sums, Carries, s
  <2>3. /\ i + 1 \in c2 <=> (i \in s /\ i = 0) \/ ((i \in s \/ i = 0) /\ i \in c2)
        /\ i \in t <=> (i \in s <=> (i = 0 <=> i \in c2))
    BY <1>4 DEF Sums, Carries, t
  <2>4. Inv(i)
    BY <1>8
  <2>5. CASE i = 0
    <3>1. i \notin c1 /\ i \notin c2 /\ i \notin c
      BY <1>1, <1>3, <1>4, <2>5 DEF Sums, Carries
    <3>2. Inv(i + 1)
      BY <2>1, <2>2, <2>3, <2>5, <3>1
    <3> QED
      BY <2>0, <2>5, <3>2
  <2>6. CASE i \in 1 .. 10
    <3>1. C(i) /\ i \notin c
      BY <2>4, <2>6
    <3>2. C(i + 1) /\ i + 1 \notin c
      BY <2>1, <2>2, <2>3, <2>6, <3>1
    <3> QED
      BY <2>0, <2>6, <3>2
  <2>7. CASE i = 11
    <3>1. C(i) /\ i \notin c
      BY <2>4, <2>7
    <3>2. C(i + 1) /\ (i + 1 \in c <=> i \in v) /\ (i \in t <=> i \in v)
      BY <2>1, <2>2, <2>3, <2>7, <3>1
    <3> QED
      BY <2>0, <2>7, <3>2
  <2>8. CASE i > 11
    <3>1. IF 11 \in v THEN IF i \in c THEN C(i) ELSE N(i) ELSE i \notin c /\ C(i)
      <4>1. CASE i = 12
        BY <2>4, <4>1
      <4>2. CASE i > 12
        BY <2>4, <4>2
      <4> QED
        BY <2>0, <2>8, <4>1, <4>2
    <3>2. /\ IF 11 \in v THEN IF i + 1 \in c THEN C(i + 1) ELSE N(i + 1)
             ELSE i + 1 \notin c /\ C(i + 1)
          /\ i \in t <=> 11 \in v
      BY <2>0, <2>1, <2>2, <2>3, <2>8, <3>1
    <3>3. ~(i + 1 \in 1 .. 12) /\ ~(i + 1 <= 11) /\ i + 1 # 12 /\ i # 11
      BY <2>0, <2>8
    <3> QED
      BY <2>0, <2>8, <3>2, <3>3
  <2> QED
    BY <2>0, <2>5, <2>6, <2>7, <2>8
<1> HIDE DEF S
<1>9. 0 .. 32 \subseteq S
  BY <1>7, <1>8, Ripple
<1>10. \A i \in Bit : (i > 11 => (i \in t <=> 11 \in v)) /\ (i = 11 => (i \in t <=> i \in v))
  BY <1>8, <1>9 DEF Bit
<1>11. Fits(t, 12)
  BY <1>10 DEF Fits, Bit
<1> QED
  BY <1>2, <1>5, <1>6, <1>11 DEF h

\* An encoded word has the opcode that went in, whatever the other fields are.
LEMMA OpcodeKept ==
    ASSUME NEW op \in Field(7)
    PROVE  /\ \A a, b, c, d, e \in Word : /\ encodeR(a, b, c, d, e, op) \in Word
                                          /\ decodeOpcode(encodeR(a, b, c, d, e, op)) = op
           /\ \A a, b, c, d \in Word : /\ encodeI(a, b, c, d, op) \in Word
                                       /\ decodeOpcode(encodeI(a, b, c, d, op)) = op
           /\ \A a, b, c, d \in Word : /\ encodeS(a, b, c, d, op) \in Word
                                       /\ decodeOpcode(encodeS(a, b, c, d, op)) = op
           /\ \A a, b, c, d \in Word : /\ encodeB(a, b, c, d, op) \in Word
                                       /\ decodeOpcode(encodeB(a, b, c, d, op)) = op
           /\ \A a, b \in Word : /\ encodeU(a, b, op) \in Word
                                 /\ decodeOpcode(encodeU(a, b, op)) = op
           /\ \A a, b \in Word : /\ encodeJ(a, b, op) \in Word
                                 /\ decodeOpcode(encodeJ(a, b, op)) = op
<1>0. op \in Word
  BY WordParts
<1>1. \A w \in Word : \A m, k : \A n \in 7 .. 31, i \in 0 .. 6 :
         /\ i \notin Shl(w, n) /\ i \notin Shl(Low(w, m), n)
         /\ i \notin Shl(Low(Low(w, m), k), n)
  BY DEF Shl, Low, Word, Bit
<1>2. \A w, k, m : \A n \in 7 .. 31, i \in 0 .. 6 : i \notin Shl(Low(Shr(w, k), m), n)
  BY DEF Shl, Low, Shr, Bit
<1>3. ASSUME NEW w \in Word, \A i \in 0 .. 6 : i \in w <=> i \in op
      PROVE  decodeOpcode(w) = op
  BY <1>3, LowFieldIs DEF decodeOpcode
<1>4. ASSUME NEW a \in Word, NEW b \in Word, NEW c \in Word, NEW d \in Word, NEW e \in Word
      PROVE  /\ encodeR(a, b, c, d, e, op) \in Word
             /\ decodeOpcode(encodeR(a, b, c, d, e, op)) = op
  <2>1. encodeR(a, b, c, d, e, op) \in Word
    BY <1>0, WordParts DEF encodeR
  <2>2. \A i \in 0 .. 6 : i \in encodeR(a, b, c, d, e, op) <=> i \in op
    BY <1>1, <1>2 DEF encodeR
  <2> QED
    BY <1>3, <2>1, <2>2
<1>5. ASSUME NEW a \in Word, NEW b \in Word, NEW c \in Word, NEW d \in Word
      PROVE  /\ encodeI(a, b, c, d, op) \in Word
             /\ decodeOpcode(encodeI(a, b, c, d, op)) = op
  <2>1. encodeI(a, b, c, d, op) \in Word
    BY <1>0, WordParts DEF encodeI
  <2>2. \A i \in 0 .. 6 : i \in encodeI(a, b, c, d, op) <=> i \in op
    BY <1>1, <1>2 DEF encodeI
  <2> QED
    BY <1>3, <2>1, <2>2
<1>6. ASSUME NEW a \in Word, NEW b \in Word, NEW c \in Word, NEW d \in Word
      PROVE  /\ encodeS(a, b, c, d, op) \in Word
             /\ decodeOpcode(encodeS(a, b, c, d, op)) = op
  <2>1. encodeS(a, b, c, d, op) \in Word
    BY <1>0, WordParts DEF encodeS
  <2>2. \A i \in 0 .. 6 : i \in encodeS(a, b, c, d, op) <=> i \in op
    BY <1>1, <1>2 DEF encodeS
  <2> QED
    BY <1>3, <2>1, <2>2
<1>7. ASSUME NEW a \in Word, NEW b \in Word, NEW c \in Word, NEW d \in Word
      PROVE  /\ encodeB(a, b, c, d, op) \in Word
             /\ decodeOpcode(encodeB(a, b, c, d, op)) = op
  <2>1. encodeB(a, b, c, d, op) \in Word
    BY <1>0, WordParts, ZenonT(30) DEF encodeB
  <2>2. \A i \in 0 .. 6 : i \in encodeB(a, b, c, d, op) <=> i \in op
    BY <1>1, <1>2 DEF encodeB
  <2> QED
    BY <1>3, <2>1, <2>2
<1>8. ASSUME NEW a \in Word, NEW b \in Word
      PROVE  /\ encodeU(a, b, op) \in Word
             /\ decodeOpcode(encodeU(a, b, op)) = op
  <2>1. encodeU(a, b, op) \in Word
    BY <1>0, WordParts DEF encodeU
  <2>2. \A i \in 0 .. 6 : i \in encodeU(a, b, op) <=> i \in op
    BY <1>1, <1>2 DEF encodeU
  <2> QED
    BY <1>3, <2>1, <2>2
<1>9. ASSUME NEW a \in Word, NEW b \in Word
      PROVE  /\ encodeJ(a, b, op) \in Word
             /\ decodeOpcode(encodeJ(a, b, op)) = op
  <2>1. encodeJ(a, b, op) \in Word
    BY <1>0, WordParts DEF encodeJ
  <2>2. \A i \in 0 .. 6 : i \in encodeJ(a, b, op) <=> i \in op
    BY <1>1, <1>2 DEF encodeJ
  <2> QED
    BY <1>3, <2>1, <2>2
<1> QED
  BY <1>4, <1>5, <1>6, <1>7, <1>8, <1>9

\* The opcodes are fields of seven bits, no two of these are equal.
LEMMA OpcodeFields ==
    /\ R_TYPE \in Field(7) /\ I_ARITH \in Field(7) /\ LOAD \in Field(7) /\ STORE \in Field(7)
    /\ BRANCH \in Field(7) /\ JAL \in Field(7) /\ JALR \in Field(7) /\ LUI \in Field(7)
    /\ AUIPC \in Field(7) /\ SYSTEM \in Field(7)
    /\ JAL # BRANCH /\ JAL # LUI /\ BRANCH # LUI
    /\ I_ARITH # JAL /\ I_ARITH # BRANCH /\ I_ARITH # LUI
<1>1. /\ R_TYPE \in Field(7) /\ I_ARITH \in Field(7) /\ LOAD \in Field(7) /\ STORE \in Field(7)
      /\ BRANCH \in Field(7) /\ JAL \in Field(7) /\ JALR \in Field(7) /\ LUI \in Field(7)
      /\ AUIPC \in Field(7) /\ SYSTEM \in Field(7)
  BY DEF Field, R_TYPE, I_ARITH, LOAD, STORE, BRANCH, JAL, JALR, LUI, AUIPC, SYSTEM
<1>2. /\ 6 \notin LUI /\ 6 \in JAL /\ 6 \in BRANCH /\ 6 \notin I_ARITH
      /\ 3 \in JAL /\ 3 \notin BRANCH /\ 2 \in LUI /\ 2 \notin I_ARITH
  BY DEF LUI, JAL, BRANCH, I_ARITH
<1> QED
  BY <1>1, <1>2

\* The word of any integer is a word.
LEMMA BitsWord == \A n : Bits(n) \in Word
BY DEF Bits, Word, Bit

-----------------------------------------------------------------------------
(* Words and integers.                                                     *)

Pow(b) == 2^b

Quot(n, b) == n \div Pow(b)

\* The powers of two.
LEMMA Powers ==
    /\ \A b \in 0 .. 32 : Pow(b) \in Nat \ {0}
    /\ \A b \in Bit : Pow(b + 1) = 2 * Pow(b)
    /\ Pow(0) = 1
<1>1. (\A b \in 0 .. 32 : Pow(b) \in Nat \ {0}) /\ (\A b \in 0 .. 31 : Pow(b + 1) = 2 * Pow(b))
  BY SMT DEF Pow
<1>2. Pow(0) = 1
  BY SMT DEF Pow
<1> QED
  BY <1>1, <1>2, SMT DEF Bit

\* Those that bound the numbers of an instruction's fields.
LEMMA PowerTable ==
    Pow(5) = 32 /\ Pow(11) = 2048 /\ Pow(12) = 4096 /\ Pow(20) = 1048576
BY SMT DEF Pow

\* Dividing by twice a number is dividing by it and halving.
LEMMA HalfQuotient ==
    ASSUME NEW n \in Int, NEW m \in Nat \ {0}
    PROVE  n \div (2 * m) = (n \div m) \div 2
BY SMT

\* The bits of an integer are the parities of its halves, halves of halves and
\* so on.
LEMMA QuotBits ==
    ASSUME NEW n \in Int
    PROVE  /\ Quot(n, 0) = n
           /\ \A b \in 0 .. 32 : Quot(n, b) \in Int
           /\ \A b \in Bit : Quot(n, b + 1) = Quot(n, b) \div 2
           /\ \A b \in Bit : b \in Bits(n) <=> Quot(n, b) % 2 = 1
<1>1. Quot(n, 0) = n
  BY Powers DEF Quot
<1>2. ASSUME NEW b \in 0 .. 32 PROVE Quot(n, b) \in Int
  <2>1. Pow(b) \in Nat \ {0}
    BY Powers
  <2> QED
    BY <2>1 DEF Quot
<1>3. ASSUME NEW b \in Bit PROVE Quot(n, b + 1) = Quot(n, b) \div 2
  <2>1. b \in 0 .. 32
    BY DEF Bit
  <2>2. PICK m \in Nat \ {0} : m = Pow(b) /\ Pow(b + 1) = 2 * m
    BY <2>1, Powers
  <2> QED
    BY <2>2, HalfQuotient DEF Quot
<1>4. ASSUME NEW b \in Bit PROVE b \in Bits(n) <=> Quot(n, b) % 2 = 1
  <2>1. CASE b = 31
    <3>1. 31 \in Bits(n) <=> Quot(n, 30) % 4 > 1
      BY DEF Bits, Quot, Pow
    <3>2. Quot(n, 31) = Quot(n, 30) \div 2 /\ Quot(n, 30) \in Int
      <4>1. PICK k \in Bit : k = 30 /\ k + 1 = 31 /\ k \in 0 .. 32
        BY DEF Bit
      <4> QED
        BY <1>2, <1>3, <4>1
    <3> QED
      BY <2>1, <3>1, <3>2
  <2>2. CASE b # 31
    <3>1. b \in 0 .. 30
      BY <2>2 DEF Bit
    <3> QED
      BY <2>2, <3>1 DEF Bits, Quot, Pow
  <2> QED
    BY <2>1, <2>2
<1> QED
  BY <1>1, <1>2, <1>3, <1>4

\* Adding words is adding integers modulo 2^32.
LEMMA BitsAdd ==
    ASSUME NEW m \in Int, NEW n \in Int
    PROVE  Add(Bits(m), Bits(n)) = Bits(m + n)
<1>1. PICK c : Sums(Bits(m), Bits(n), c)
  BY AddBits
<1>2. PICK k \in Int : k = m + n
  OBVIOUS
<1> DEFINE Carry(b) == IF b \in c THEN 1 ELSE 0
           S == {b \in 0 .. 32 : Quot(k, b) = Quot(m, b) + Quot(n, b) + Carry(b)}
<1>3. 0 \in S
  BY <1>1, <1>2, QuotBits DEF Sums, Carries
<1>4. ASSUME NEW b \in Bit, b \in S
      PROVE  b + 1 \in S /\ (b \in Bits(k) <=> b \in Add(Bits(m), Bits(n)))
  <2>0. b \in 0 .. 32 /\ b + 1 \in 0 .. 32
    BY DEF Bit
  <2>1. PICK M \in Int, N \in Int, K \in Int :
           M = Quot(m, b) /\ N = Quot(n, b) /\ K = Quot(k, b)
    BY <2>0, QuotBits
  <2>2. K = M + N + Carry(b)
    BY <1>4, <2>1
  <2>3. /\ b \in Bits(m) <=> M % 2 = 1
        /\ b \in Bits(n) <=> N % 2 = 1
        /\ b \in Bits(k) <=> K % 2 = 1
    BY <2>1, QuotBits
  <2>4. /\ Quot(m, b + 1) = M \div 2
        /\ Quot(n, b + 1) = N \div 2
        /\ Quot(k, b + 1) = K \div 2
    BY <2>1, QuotBits
  <2>5. /\ b + 1 \in c <=> \/ b \in Bits(m) /\ b \in Bits(n)
                           \/ (b \in Bits(m) \/ b \in Bits(n)) /\ b \in c
        /\ b \in Add(Bits(m), Bits(n)) <=> (b \in Bits(m) <=> (b \in Bits(n) <=> b \in c))
    BY <1>1 DEF Sums, Carries
  <2>6. K \div 2 = M \div 2 + N \div 2 + Carry(b + 1)
    <3>1. b + 1 \in c <=> \/ M % 2 = 1 /\ N % 2 = 1
                          \/ (M % 2 = 1 \/ N % 2 = 1) /\ b \in c
      BY <2>3, <2>5
    <3> QED
      BY <2>2, <3>1
  <2>7. b \in Bits(k) <=> b \in Add(Bits(m), Bits(n))
    <3>1. b \in Add(Bits(m), Bits(n)) <=> (M % 2 = 1 <=> (N % 2 = 1 <=> b \in c))
      BY <2>3, <2>5
    <3>2. K % 2 = 1 <=> (M % 2 = 1 <=> (N % 2 = 1 <=> b \in c))
      BY <2>2
    <3> QED
      BY <2>3, <3>1, <3>2
  <2>8. b + 1 \in S
    BY <2>0, <2>4, <2>6
  <2> QED
    BY <2>7, <2>8
<1> HIDE DEF S
<1>5. 0 .. 32 \subseteq S
  BY <1>3, <1>4, Ripple
<1>6. \A b \in Bit : b \in Bits(k) <=> b \in Add(Bits(m), Bits(n))
  BY <1>4, <1>5 DEF Bit
<1>7. Bits(k) \in Word /\ Add(Bits(m), Bits(n)) \in Word
  BY AddBits, BitsWord
<1> QED
  BY <1>2, <1>6, <1>7, SameBits

\* Complementing every bit of n gives -1 - n.
LEMMA BitsNot ==
    ASSUME NEW n \in Int
    PROVE  Bits(-1 - n) = Bit \ Bits(n)
<1>2. PICK k \in Int : k = -1 - n
  OBVIOUS
<1> DEFINE S == {b \in 0 .. 32 : Quot(k, b) = -1 - Quot(n, b)}
<1>3. 0 \in S
  BY <1>2, QuotBits
<1>4. ASSUME NEW b \in Bit, b \in S
      PROVE  b + 1 \in S /\ (b \in Bits(k) <=> b \notin Bits(n))
  <2>0. b \in 0 .. 32 /\ b + 1 \in 0 .. 32
    BY DEF Bit
  <2>1. PICK N \in Int, K \in Int : N = Quot(n, b) /\ K = Quot(k, b)
    BY <2>0, QuotBits
  <2>2. K = -1 - N
    BY <1>4, <2>1
  <2>3. /\ b \in Bits(n) <=> N % 2 = 1
        /\ b \in Bits(k) <=> K % 2 = 1
        /\ Quot(n, b + 1) = N \div 2
        /\ Quot(k, b + 1) = K \div 2
    BY <2>1, QuotBits
  <2>4. K \div 2 = -1 - N \div 2 /\ (K % 2 = 1 <=> ~(N % 2 = 1))
    BY <2>2
  <2> QED
    BY <2>0, <2>3, <2>4
<1> HIDE DEF S
<1>5. 0 .. 32 \subseteq S
  BY <1>3, <1>4, Ripple
<1>6. \A b \in Bit : b \in Bits(k) <=> b \in Bit \ Bits(n)
  BY <1>4, <1>5 DEF Bit
<1>7. Bits(k) \in Word /\ Bit \ Bits(n) \in Word
  BY BitsWord DEF Word
<1>8. Bits(k) = Bit \ Bits(n)
  BY <1>6, <1>7, SameBits
<1> QED
  BY <1>2, <1>8

\* The words of small numbers.
LEMMA BitsConstants == Bits(0) = {} /\ Bits(1) = {0} /\ Bits(4) = {2} /\ Bits(-1) = Bit
<1>0. PICK S : S = 0 .. 30
  OBVIOUS
<1>1. /\ \A b \in S : (0 \div 2^b) % 2 # 1
      /\ \A b \in S : (1 \div 2^b) % 2 = 1 <=> b = 0
      /\ \A b \in S : (4 \div 2^b) % 2 = 1 <=> b = 2
  <2>1. /\ \A b \in 0 .. 30 : (0 \div 2^b) % 2 # 1
        /\ \A b \in 0 .. 30 : (1 \div 2^b) % 2 = 1 <=> b = 0
        /\ \A b \in 0 .. 30 : (4 \div 2^b) % 2 = 1 <=> b = 2
    BY SMT
  <2> QED
    BY <1>0, <2>1
<1>a. \A k : \A b \in S : b \in Bits(k) <=> (k \div 2^b) % 2 = 1
  BY <1>0 DEF Bits
<1>b. 31 \notin Bits(0) /\ 31 \notin Bits(1) /\ 31 \notin Bits(4)
  BY SMT DEF Bits
<1>c. Bits(0) \in Word /\ Bits(1) \in Word /\ Bits(4) \in Word
  BY BitsWord
<1>d. 0 \in S /\ 2 \in S /\ \A b \in Bit : b # 31 => b \in S
  BY <1>0 DEF Bit
<1>2. Bits(0) = {}
  <2>1. \A b \in Bit : b \notin Bits(0)
    BY <1>1, <1>a, <1>b, <1>d
  <2> QED
    BY <1>c, <2>1 DEF Word
<1>3. Bits(1) = {0}
  <2>0. \A b \in S : b \in Bits(1) <=> b = 0
    BY <1>1, <1>a, SMT
  <2>1. \A b \in Bit : b \in Bits(1) <=> b \in {0}
    BY <1>b, <1>d, <2>0 DEF Bit
  <2>2. {0} \in Word
    BY DEF Word, Bit
  <2> QED
    BY <1>c, <2>1, <2>2, SameBits
<1>4. Bits(4) = {2}
  <2>0. \A b \in S : b \in Bits(4) <=> b = 2
    BY <1>1, <1>a, SMT
  <2>1. \A b \in Bit : b \in Bits(4) <=> b \in {2}
    BY <1>b, <1>d, <2>0 DEF Bit
  <2>2. {2} \in Word
    BY DEF Word, Bit
  <2> QED
    BY <1>c, <2>1, <2>2, SameBits
<1>5. Bits(-1) = Bit
  <2>1. -1 - 0 = -1
    OBVIOUS
  <2>2. Bits(-1 - 0) = Bit \ Bits(0)
    BY BitsNot
  <2> QED
    BY <1>2, <2>1, <2>2
<1> QED
  BY <1>2, <1>3, <1>4, <1>5

\* Subtracting words is subtracting integers modulo 2^32.
LEMMA BitsSub ==
    ASSUME NEW m \in Int, NEW n \in Int
    PROVE  Sub(Bits(m), Bits(n)) = Bits(m - n)
<1>1. PICK j \in Int, k \in Int : j = -1 - n /\ k = m + j
  OBVIOUS
<1>2. Bits(j) = Bit \ Bits(n)
  BY <1>1, BitsNot
<1>3. Add(Bits(m), Bits(j)) = Bits(k)
  BY <1>1, BitsAdd
<1>4. Add(Bits(k), {0}) = Bits(k + 1)
  <2>1. Add(Bits(k), Bits(1)) = Bits(k + 1)
    BY BitsAdd
  <2> QED
    BY <2>1, BitsConstants
<1>5. k + 1 = m - n
  BY <1>1
<1> QED
  BY <1>2, <1>3, <1>4, <1>5 DEF Sub

\* Shifting by 12 is multiplying by 4096, modulo 2^32.
LEMMA BitsShl ==
    ASSUME NEW n \in Int
    PROVE  Bits(4096 * n) = Shl(Bits(n), 12)
<1>1. PICK k \in Int : k = 4096 * n
  OBVIOUS
<1>2. TRUE /\ \A b \in 0 .. 11 : Quot(k, b) % 2 # 1
  BY <1>1, SMT DEF Quot, Pow
<1>3. Quot(k, 12) = n
  BY <1>1, SMT DEF Quot, Pow
<1> DEFINE S == {b \in 0 .. 32 : b >= 12 => Quot(k, b) = Quot(n, b - 12)}
<1>4. \A b \in 0 .. 12 : b \in S
  <2>1. Quot(k, 12) = Quot(n, 0)
    BY <1>3, QuotBits
  <2>2. \A b \in 0 .. 12 : b # 12 => ~(b >= 12)
    OBVIOUS
  <2>3. 12 - 12 = 0 /\ \A b \in 0 .. 12 : b \in 0 .. 32
    OBVIOUS
  <2> QED
    BY <2>1, <2>2, <2>3
<1>5. ASSUME NEW b \in Bit, b \in S
      PROVE  b + 1 \in S /\ (b \in Bits(k) <=> b \in Shl(Bits(n), 12))
  <2>1. CASE b < 12
    <3>1. b + 1 \in 0 .. 12 /\ b \in 0 .. 11
      BY <2>1 DEF Bit
    <3>2. b \notin Bits(k)
      <4>1. Quot(k, b) % 2 # 1
        BY <1>2, <3>1
      <4> QED
        BY <4>1, QuotBits
    <3>3. b - 12 \notin Bits(n)
      BY <3>1, BitsWord DEF Word, Bit
    <3> QED
      BY <1>4, <3>1, <3>2, <3>3 DEF Shl
  <2>2. CASE b >= 12
    <3>1. PICK a \in Bit : a = b - 12 /\ b + 1 - 12 = a + 1 /\ b + 1 >= 12 /\ b + 1 \in 0 .. 32
      BY <2>2 DEF Bit
    <3>2. Quot(k, b) = Quot(n, a)
      BY <1>5, <2>2, <3>1
    <3>3. Quot(k, b + 1) = Quot(n, a + 1)
      BY <3>2, QuotBits
    <3>4. b \in Bits(k) <=> a \in Bits(n)
      <4>1. b \in Bits(k) <=> Quot(k, b) % 2 = 1
        BY QuotBits
      <4>2. a \in Bits(n) <=> Quot(n, a) % 2 = 1
        BY QuotBits
      <4> QED
        BY <3>2, <4>1, <4>2
    <3> QED
      BY <3>1, <3>3, <3>4 DEF Shl
  <2> QED
    BY <2>1, <2>2 DEF Bit
<1> HIDE DEF S
<1>6. 0 .. 32 \subseteq S
  <2>1. 0 \in S
    BY <1>4
  <2> QED
    BY <1>5, <2>1, Ripple
<1>7. \A b \in Bit : b \in Bits(k) <=> b \in Shl(Bits(n), 12)
  BY <1>5, <1>6 DEF Bit
<1>8. Bits(k) \in Word /\ Shl(Bits(n), 12) \in Word
  BY BitsWord, WordParts
<1> QED
  BY <1>1, <1>7, <1>8, SameBits

\* A number between -2^n and 2^n - 1 has only its sign above bit n - 1.
LEMMA SmallFits ==
    ASSUME NEW d \in Int, NEW n \in Bit, NEW P \in Nat \ {0}, P = Pow(n), -P <= d, d < P
    PROVE  /\ \A b \in n .. 31 : b \in Bits(d) <=> d < 0
           /\ Fits(Bits(d), n + 1)
<1>1. PICK s : s = IF d < 0 THEN -1 ELSE 0
  OBVIOUS
<1>2. Quot(d, n) = s
  <2>1. d \div P = s
    BY <1>1
  <2> QED
    BY <2>1 DEF Quot
<1> DEFINE S == {b \in 0 .. 32 : b >= n => Quot(d, b) = s}
<1>3. 0 \in S
  BY <1>2 DEF Bit
<1>4. ASSUME NEW b \in Bit, b \in S PROVE b + 1 \in S
  <2>0. b + 1 \in 0 .. 32
    BY DEF Bit
  <2>1. CASE b + 1 = n
    BY <1>2, <2>0, <2>1 DEF Bit
  <2>2. CASE b >= n
    <3>1. Quot(d, b + 1) = s \div 2
      BY <1>4, <2>2, QuotBits
    <3>2. s \div 2 = s
      BY <1>1
    <3> QED
      BY <2>0, <3>1, <3>2
  <2>3. CASE b + 1 < n
    BY <2>0, <2>3 DEF Bit
  <2> QED
    BY <2>1, <2>2, <2>3 DEF Bit
<1> HIDE DEF S
<1>5. 0 .. 32 \subseteq S
  BY <1>3, <1>4, Ripple
<1>6. ASSUME NEW b \in n .. 31 PROVE b \in Bits(d) <=> d < 0
  <2>1. b \in Bit /\ b \in 0 .. 32 /\ b >= n
    BY DEF Bit
  <2>2. Quot(d, b) = s
    BY <1>5, <2>1 DEF S
  <2>3. b \in Bits(d) <=> s % 2 = 1
    BY <2>1, <2>2, QuotBits
  <2> QED
    BY <1>1, <2>3
<1>7. \A b \in n + 1 .. 31 : b \in n .. 31
  BY DEF Bit
<1>8. n \in n .. 31 /\ n + 1 - 1 = n
  BY DEF Bit
<1> QED
  BY <1>6, <1>7, <1>8 DEF Fits

\* Even numbers have no bit 0.
LEMMA EvenBits ==
    ASSUME NEW d \in Int, d % 2 = 0
    PROVE  0 \notin Bits(d)
<1>0. 0 \in Bit
  BY DEF Bit
<1>1. 0 \in Bits(d) <=> Quot(d, 0) % 2 = 1
  BY <1>0, QuotBits
<1>2. Quot(d, 0) = d
  BY QuotBits
<1> QED
  BY <1>1, <1>2

\* A distance in reach fits the bits of the instruction, and is even.
LEMMA DistanceFits ==
    ASSUME NEW d \in Int, d % 2 = 0
    PROVE  /\ 0 \notin Bits(d)
           /\ BranchReach(d) => Fits(Bits(d), 13)
           /\ JumpReach(d) => Fits(Bits(d), 21)
<1>1. 0 \notin Bits(d)
  BY EvenBits
<1>2. ASSUME BranchReach(d) PROVE Fits(Bits(d), 13)
  <2>1. PICK n, P : n = 12 /\ P = 4096
    OBVIOUS
  <2>2. n \in Bit /\ P \in Nat \ {0} /\ P = Pow(n) /\ n + 1 = 13
    BY <2>1, PowerTable, SMT DEF Bit
  <2>3. -P <= d /\ d < P
    BY <1>2, <2>1, SMT DEF BranchReach
  <2> QED
    BY <2>2, <2>3, SmallFits
<1>3. ASSUME JumpReach(d) PROVE Fits(Bits(d), 21)
  <2>1. PICK n, P : n = 20 /\ P = 1048576
    OBVIOUS
  <2>2. n \in Bit /\ P \in Nat \ {0} /\ P = Pow(n) /\ n + 1 = 21
    BY <2>1, PowerTable, SMT DEF Bit
  <2>3. -P <= d /\ d < P
    BY <1>3, <2>1, SMT DEF JumpReach
  <2> QED
    BY <2>2, <2>3, SmallFits
<1> QED
  BY <1>1, <1>2, <1>3

-----------------------------------------------------------------------------
(* What the assembler makes of an instruction.                             *)

Mnemonics == NeedThree \cup NeedTwo \cup NeedOne \cup NeedNone

\* No mnemonic is in two of the sets that count operands.
LEMMA NeedIs ==
    ASSUME NEW m \in Mnemonics
    PROVE  /\ m \in NeedThree => need(m) = 3
           /\ m \in NeedTwo => need(m) = 2
           /\ m \in NeedOne => need(m) = 1
<1> USE DEF NeedThree, NeedTwo, NeedOne, Accesses, RMnem, IMnem, LoadMnem, StoreMnem,
            BranchMnem, BranchZ, ZBranch, CsrMnem
<1>1. m \in NeedTwo => m \notin NeedThree
  OBVIOUS
<1>2. m \in NeedOne => m \notin NeedThree /\ m \notin NeedTwo
  OBVIOUS
<1> HIDE DEF NeedThree, NeedTwo, NeedOne
<1> QED
  BY <1>1, <1>2 DEF need

\* The words of every mnemonic, one case of the assembler at a time.
LEMMA WordsAre ==
    ASSUME NEW m \in Mnemonics, NEW ops
    PROVE  LET reg(i) == parseReg(ops[i])
               imm(i) == parseImm(ops[i])
               mem(i) == memReg(ops[i])
           IN
           /\ m \in DOMAIN RMnem =>
                 words(m, ops) = <<encodeR(Bits(RMnem[m][1]), reg(3), reg(2), Bits(RMnem[m][2]),
                                           reg(1), R_TYPE)>>
           /\ m \in DOMAIN IMnem =>
                 words(m, ops) = <<encodeI(immOperand(m, imm(3)), reg(2), Bits(IMnem[m]),
                                           reg(1), I_ARITH)>>
           /\ m \in DOMAIN LoadMnem =>
                 words(m, ops) = <<encodeI(imm(2), mem(2), Bits(LoadMnem[m]), reg(1), LOAD)>>
           /\ m \in DOMAIN StoreMnem =>
                 words(m, ops) = <<encodeS(imm(2), reg(1), mem(2), Bits(StoreMnem[m]), STORE)>>
           /\ m \in DOMAIN BranchMnem =>
                 words(m, ops) = <<encodeB({}, reg(2), reg(1), Bits(BranchMnem[m]), BRANCH)>>
           /\ m \in DOMAIN BranchZ =>
                 words(m, ops) = <<encodeB({}, {}, reg(1), Bits(BranchZ[m]), BRANCH)>>
           /\ m \in DOMAIN ZBranch =>
                 words(m, ops) = <<encodeB({}, reg(1), {}, Bits(ZBranch[m]), BRANCH)>>
           /\ m \in DOMAIN CsrMnem =>
                 words(m, ops) = <<encodeI(imm(3), reg(2), Bits(CsrMnem[m]), reg(1), SYSTEM)>>
           /\ m = "csrr" => words(m, ops) = <<encodeI(imm(2), {}, {1}, reg(1), SYSTEM)>>
           /\ m = "nop" => words(m, ops) = <<encodeI({}, {}, {}, {}, I_ARITH)>>
           /\ m = "ret" => words(m, ops) = <<encodeI({}, {0}, {}, {}, JALR)>>
           /\ m = "mv" => words(m, ops) = <<encodeI({}, reg(2), {}, reg(1), I_ARITH)>>
           /\ m = "not" => words(m, ops) = <<encodeI(Bit, reg(2), {2}, reg(1), I_ARITH)>>
           /\ m = "neg" => words(m, ops) = <<encodeR(ALT, reg(2), {}, {}, reg(1), R_TYPE)>>
           /\ m = "li" =>
                 words(m, ops) = IF signExt(Low(imm(2), 12), 12) = imm(2)
                                   THEN <<encodeI(imm(2), {}, {}, reg(1), I_ARITH)>>
                                   ELSE <<encodeU(hiPart(imm(2)), reg(1), LUI),
                                          encodeI(loPart(imm(2)), reg(1), {}, reg(1), I_ARITH)>>
           /\ m = "la" =>
                 words(m, ops) = <<encodeU({}, reg(1), LUI),
                                   encodeI({}, reg(1), {}, reg(1), I_ARITH)>>
           /\ m = "j" => words(m, ops) = <<encodeJ({}, {}, JAL)>>
           /\ m = "call" => words(m, ops) = <<encodeJ({}, {0}, JAL)>>
           /\ m = "jal" => words(m, ops) = <<encodeJ({}, reg(1), JAL)>>
           /\ m = "jalr" => words(m, ops) = <<encodeI(imm(3), reg(2), {}, reg(1), JALR)>>
           /\ m = "lui" => words(m, ops) = <<encodeU(Shl(imm(2), 12), reg(1), LUI)>>
           /\ m = "auipc" => words(m, ops) = <<encodeU(Shl(imm(2), 12), reg(1), AUIPC)>>
           /\ m = "ecall" => words(m, ops) = <<SYSTEM>>
           /\ m = "ebreak" => words(m, ops) = <<SYSTEM \cup {20}>>
           /\ m = "mret" => words(m, ops) = <<SYSTEM \cup {21, 28, 29}>>
           /\ m = ".word" => words(m, ops) = <<imm(1)>>
<1> DEFINE reg(i) == parseReg(ops[i])
           imm(i) == parseImm(ops[i])
           mem(i) == memReg(ops[i])
<1> USE DEF ADDI, li, words, RMnem, IMnem, LoadMnem, StoreMnem, BranchMnem, BranchZ,
            ZBranch, CsrMnem
<1>1. m \in DOMAIN RMnem =>
      words(m, ops) = <<encodeR(Bits(RMnem[m][1]), reg(3), reg(2), Bits(RMnem[m][2]),
                                reg(1), R_TYPE)>>
  OBVIOUS
<1>2. m \in DOMAIN IMnem =>
      words(m, ops) = <<encodeI(immOperand(m, imm(3)), reg(2), Bits(IMnem[m]), reg(1), I_ARITH)>>
  OBVIOUS
<1>3. m \in DOMAIN LoadMnem =>
      words(m, ops) = <<encodeI(imm(2), mem(2), Bits(LoadMnem[m]), reg(1), LOAD)>>
  OBVIOUS
<1>4. m \in DOMAIN StoreMnem =>
      words(m, ops) = <<encodeS(imm(2), reg(1), mem(2), Bits(StoreMnem[m]), STORE)>>
  OBVIOUS
<1>5. m \in DOMAIN BranchMnem =>
      words(m, ops) = <<encodeB({}, reg(2), reg(1), Bits(BranchMnem[m]), BRANCH)>>
  OBVIOUS
<1>6. m \in DOMAIN BranchZ =>
      words(m, ops) = <<encodeB({}, {}, reg(1), Bits(BranchZ[m]), BRANCH)>>
  OBVIOUS
<1>7. m \in DOMAIN ZBranch =>
      words(m, ops) = <<encodeB({}, reg(1), {}, Bits(ZBranch[m]), BRANCH)>>
  OBVIOUS
<1>8. m \in DOMAIN CsrMnem =>
      words(m, ops) = <<encodeI(imm(3), reg(2), Bits(CsrMnem[m]), reg(1), SYSTEM)>>
  OBVIOUS
<1>9. m = "csrr" => words(m, ops) = <<encodeI(imm(2), {}, {1}, reg(1), SYSTEM)>>
  OBVIOUS
<1>10. m = "nop" => words(m, ops) = <<encodeI({}, {}, {}, {}, I_ARITH)>>
  OBVIOUS
<1>11. m = "ret" => words(m, ops) = <<encodeI({}, {0}, {}, {}, JALR)>>
  OBVIOUS
<1>12. m = "mv" => words(m, ops) = <<encodeI({}, reg(2), {}, reg(1), I_ARITH)>>
  OBVIOUS
<1>13. m = "not" => words(m, ops) = <<encodeI(Bit, reg(2), {2}, reg(1), I_ARITH)>>
  OBVIOUS
<1>14. m = "neg" => words(m, ops) = <<encodeR(ALT, reg(2), {}, {}, reg(1), R_TYPE)>>
  OBVIOUS
<1>15. m = "li" =>
      words(m, ops) = IF signExt(Low(imm(2), 12), 12) = imm(2)
                        THEN <<encodeI(imm(2), {}, {}, reg(1), I_ARITH)>>
                        ELSE <<encodeU(hiPart(imm(2)), reg(1), LUI),
                               encodeI(loPart(imm(2)), reg(1), {}, reg(1), I_ARITH)>>
  OBVIOUS
<1>16. m = "la" =>
      words(m, ops) = <<encodeU({}, reg(1), LUI), encodeI({}, reg(1), {}, reg(1), I_ARITH)>>
  OBVIOUS
<1>17. m = "j" => words(m, ops) = <<encodeJ({}, {}, JAL)>>
  OBVIOUS
<1>18. m = "call" => words(m, ops) = <<encodeJ({}, {0}, JAL)>>
  OBVIOUS
<1>19. m = "jal" => words(m, ops) = <<encodeJ({}, reg(1), JAL)>>
  OBVIOUS
<1>20. m = "jalr" => words(m, ops) = <<encodeI(imm(3), reg(2), {}, reg(1), JALR)>>
  OBVIOUS
<1>21. m = "lui" => words(m, ops) = <<encodeU(Shl(imm(2), 12), reg(1), LUI)>>
  OBVIOUS
<1>22. m = "auipc" => words(m, ops) = <<encodeU(Shl(imm(2), 12), reg(1), AUIPC)>>
  OBVIOUS
<1>23. m = "ecall" => words(m, ops) = <<SYSTEM>>
  OBVIOUS
<1>24. m = "ebreak" => words(m, ops) = <<SYSTEM \cup {20}>>
  OBVIOUS
<1>25. m = "mret" => words(m, ops) = <<SYSTEM \cup {21, 28, 29}>>
  OBVIOUS
<1>26. m = ".word" => words(m, ops) = <<imm(1)>>
  OBVIOUS
<1> HIDE DEF ADDI, li, words, RMnem, IMnem, LoadMnem, StoreMnem, BranchMnem, BranchZ,
             ZBranch, CsrMnem
<1> QED
  BY <1>1, <1>2, <1>3, <1>4, <1>5, <1>6, <1>7, <1>8, <1>9, <1>10, <1>11, <1>12, <1>13,
     <1>14, <1>15, <1>16, <1>17, <1>18, <1>19, <1>20, <1>21, <1>22, <1>23, <1>24, <1>25, <1>26
=============================================================================
