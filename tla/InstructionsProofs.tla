------------------------- MODULE InstructionsProofs -------------------------
(***************************************************************************)
(* Theorems about Instructions.tla, for every instruction, register        *)
(* file, address and distance: an instruction that fits its format does    *)
(* what its mnemonic says, and none but .word halts the hart.              *)
(*                                                                         *)
(* The argument goes up from the bits.  Number, a sum over a set, is the   *)
(* last of the running sums Val; with it the words of the datapath are     *)
(* integers modulo 2^32 and its operations the arithmetic the mnemonics    *)
(* mean.  A word with an opcode and fields does one thing in executeOne;   *)
(* the words of an accepted instruction, its label patched, have that      *)
(* opcode and those fields (EncodeProofs.tla).  The invariant IInv says    *)
(* how far into these words the hart is.                                   *)
(***************************************************************************)
EXTENDS Instructions, EncodeProofs, FiniteSetTheorems, SequenceTheorems

-----------------------------------------------------------------------------
(* The number of a word.                                                   *)

\* g[n] is what the bits of w below n add up to.
SumsUp(g, w) ==
    /\ g \in [0 .. 32 -> Int] /\ g[0] = 0
    /\ \A n \in Bit : g[n + 1] = g[n] + (IF n \in w THEN Pow(n) ELSE 0)

Val(w, n) == (CHOOSE g : SumsUp(g, w))[n]

\* Every set of bits has such sums, and they are those of a number of n bits.
LEMMA ValStep ==
    ASSUME NEW w
    PROVE  /\ Val(w, 0) = 0
           /\ \A n \in Bit : Val(w, n + 1) = Val(w, n) + (IF n \in w THEN Pow(n) ELSE 0)
           /\ \A n \in 0 .. 32 : Val(w, n) \in Nat /\ Val(w, n) < Pow(n)
<1> DEFINE Upto(g, k) == \A n \in Bit : n < k =>
                            g[n + 1] = g[n] + (IF n \in w THEN Pow(n) ELSE 0)
           S == {k \in 0 .. 32 : \E g \in [0 .. 32 -> Int] : g[0] = 0 /\ Upto(g, k)}
<1>1. 0 \in S
  <2>1. PICK g : g = [n \in 0 .. 32 |-> 0]
    OBVIOUS
  <2>2. g \in [0 .. 32 -> Int] /\ g[0] = 0 /\ 0 \in 0 .. 32
    BY <2>1
  <2>3. Upto(g, 0)
    BY DEF Bit
  <2> QED
    BY <2>2, <2>3
<1>2. ASSUME NEW k \in Bit, k \in S PROVE k + 1 \in S
  <2>1. PICK g \in [0 .. 32 -> Int] : g[0] = 0 /\ Upto(g, k)
    BY <1>2
  <2>2. k \in 0 .. 32 /\ k + 1 \in 0 .. 32 /\ k + 1 # 0 /\ Pow(k) \in Int
    BY Powers DEF Bit
  <2>3. PICK v \in Int : v = g[k] + (IF k \in w THEN Pow(k) ELSE 0)
    BY <2>2
  <2>4. PICK h : h = [g EXCEPT ![k + 1] = v]
    OBVIOUS
  <2>5. /\ h \in [0 .. 32 -> Int] /\ h[0] = 0 /\ h[k + 1] = v
        /\ \A n \in 0 .. 32 : n # k + 1 => h[n] = g[n]
    BY <2>1, <2>2, <2>4
  <2>6. Upto(h, k + 1)
    <3> SUFFICES ASSUME NEW n \in Bit, n < k + 1
                 PROVE  h[n + 1] = h[n] + (IF n \in w THEN Pow(n) ELSE 0)
      OBVIOUS
    <3>1. n \in 0 .. 32 /\ n + 1 \in 0 .. 32 /\ n # k + 1
      BY DEF Bit
    <3>2. CASE n = k
      BY <2>3, <2>5, <3>1, <3>2
    <3>3. CASE n # k
      <4>1. n < k /\ n + 1 # k + 1
        BY <3>3 DEF Bit
      <4>2. g[n + 1] = g[n] + (IF n \in w THEN Pow(n) ELSE 0)
        BY <2>1, <4>1
      <4> QED
        BY <2>5, <3>1, <4>1, <4>2
    <3> QED
      BY <3>2, <3>3
  <2> HIDE DEF Upto
  <2> QED
    BY <2>2, <2>5, <2>6
<1> HIDE DEF S
<1>3. 0 .. 32 \subseteq S
  BY <1>1, <1>2, Ripple
<1>4. \E g : SumsUp(g, w)
  <2>1. PICK g \in [0 .. 32 -> Int] : g[0] = 0 /\ Upto(g, 32)
    <3>1. 32 \in S
      BY <1>3
    <3> QED
      BY <3>1 DEF S
  <2>2. \A n \in Bit : n < 32
    BY DEF Bit
  <2>3. \A n \in Bit : g[n + 1] = g[n] + (IF n \in w THEN Pow(n) ELSE 0)
    BY <2>1, <2>2
  <2> QED
    BY <2>1, <2>3 DEF SumsUp
<1>5. PICK g : g = (CHOOSE f : SumsUp(f, w)) /\ SumsUp(g, w)
  BY <1>4
<1>6. \A n : Val(w, n) = g[n]
  BY <1>5 DEF Val
<1>7. /\ g \in [0 .. 32 -> Int] /\ g[0] = 0
      /\ \A n \in Bit : g[n + 1] = g[n] + (IF n \in w THEN Pow(n) ELSE 0)
  BY <1>5 DEF SumsUp
<1> DEFINE T == {n \in 0 .. 32 : g[n] >= 0 /\ g[n] < Pow(n)}
<1>8. 0 \in T
  BY <1>7, Powers
<1>9. ASSUME NEW n \in Bit, n \in T PROVE n + 1 \in T
  <2>1. n \in 0 .. 32 /\ n + 1 \in 0 .. 32
    BY DEF Bit
  <2>2. Pow(n) \in Nat /\ Pow(n + 1) = 2 * Pow(n) /\ g[n] \in Int
    BY <1>7, <2>1, Powers
  <2>3. g[n + 1] = g[n] + (IF n \in w THEN Pow(n) ELSE 0)
    BY <1>7
  <2>4. g[n] >= 0 /\ g[n] < Pow(n)
    BY <1>9
  <2>5. g[n + 1] >= 0 /\ g[n + 1] < Pow(n + 1)
    BY <2>2, <2>3, <2>4
  <2> QED
    BY <2>1, <2>5
<1> HIDE DEF T
<1>10. 0 .. 32 \subseteq T
  BY <1>8, <1>9, Ripple
<1>11. ASSUME NEW n \in 0 .. 32 PROVE g[n] \in Nat /\ g[n] < Pow(n)
  <2>1. n \in T /\ g[n] \in Int
    BY <1>7, <1>10
  <2> QED
    BY <2>1 DEF T
<1> QED
  BY <1>6, <1>7, <1>11

\* Sums over sets of bits that are related bit by bit.
LEMMA ValRemove ==
    ASSUME NEW w, NEW x \in Bit, x \in w
    PROVE  Val(w, 32) = Pow(x) + Val(w \ {x}, 32)
<1> DEFINE S == {n \in 0 .. 32 : Val(w, n) = Val(w \ {x}, n) + (IF x < n THEN Pow(x) ELSE 0)}
<1>1. 0 \in S
  BY ValStep DEF Bit
<1>2. ASSUME NEW n \in Bit, n \in S PROVE n + 1 \in S
  <2>1. n \in 0 .. 32 /\ n + 1 \in 0 .. 32 /\ x \in 0 .. 32
    BY DEF Bit
  <2>2. PICK a \in Int, b \in Int, p \in Int, q \in Int :
           a = Val(w, n) /\ b = Val(w \ {x}, n) /\ p = Pow(x) /\ q = Pow(n)
    <3>1. Val(w, n) \in Int /\ Val(w \ {x}, n) \in Int
      BY <2>1, ValStep
    <3>2. Pow(x) \in Int /\ Pow(n) \in Int
      BY <2>1, Powers
    <3> QED
      BY <3>1, <3>2
  <2>3. /\ Val(w, n + 1) = a + (IF n \in w THEN q ELSE 0)
        /\ Val(w \ {x}, n + 1) = b + (IF n \in w \ {x} THEN q ELSE 0)
    <3>1. \A u : Val(u, n + 1) = Val(u, n) + (IF n \in u THEN Pow(n) ELSE 0)
      BY ValStep
    <3> QED
      BY <2>2, <3>1
  <2>4. a = b + (IF x < n THEN p ELSE 0)
    BY <1>2, <2>2
  <2>5. Val(w, n + 1) = Val(w \ {x}, n + 1) + (IF x < n + 1 THEN p ELSE 0)
    <3>1. CASE n = x
      BY <2>1, <2>2, <2>3, <2>4, <3>1
    <3>2. CASE n # x
      <4>1. x < n + 1 <=> x < n
        BY <2>1, <3>2
      <4> QED
        BY <2>3, <2>4, <3>2, <4>1
    <3> QED
      BY <3>1, <3>2
  <2> QED
    BY <2>1, <2>2, <2>5
<1> HIDE DEF S
<1>3. 32 \in S
  BY <1>1, <1>2, Ripple
<1>4. Val(w, 32) = Val(w \ {x}, 32) + (IF x < 32 THEN Pow(x) ELSE 0)
  BY <1>3 DEF S
<1>5. x < 32 /\ Pow(x) \in Int /\ Val(w \ {x}, 32) \in Int
  <2>1. x \in 0 .. 32 /\ 32 \in 0 .. 32 /\ x < 32
    BY DEF Bit
  <2>2. Pow(x) \in Int
    BY <2>1, Powers
  <2>3. Val(w \ {x}, 32) \in Int
    BY <2>1, ValStep
  <2> QED
    BY <2>1, <2>2, <2>3
<1> QED
  BY <1>4, <1>5

\* The sum over no bits.
LEMMA ValEmpty == \A n \in 0 .. 32 : Val({}, n) = 0
<1> DEFINE S == {n \in 0 .. 32 : Val({}, n) = 0}
<1>1. 0 \in S
  BY ValStep
<1>2. ASSUME NEW n \in Bit, n \in S PROVE n + 1 \in S
  <2>1. n + 1 \in 0 .. 32
    BY DEF Bit
  <2>2. Val({}, n + 1) = Val({}, n)
    <3>1. Val({}, n) \in Int
      BY <1>2
    <3>2. Val({}, n + 1) = Val({}, n) + (IF n \in {} THEN Pow(n) ELSE 0)
      BY ValStep
    <3> QED
      BY <3>1, <3>2
  <2> QED
    BY <1>2, <2>1, <2>2
<1> HIDE DEF S
<1>3. 0 .. 32 \subseteq S
  BY <1>1, <1>2, Ripple
<1> QED
  BY <1>3 DEF S

\* Number, a fold over the bits in whatever order, is the sum of the bits.
LEMMA NumberIs ==
    ASSUME NEW w \in Word
    PROVE  Number(w) = Val(w, 32)
<1> DEFINE Rec(f) == f = [s \in SUBSET w |->
                            IF s = {} THEN 0
                            ELSE LET x == CHOOSE x \in s : TRUE IN 2^x + f[s \ {x}]]
           g == [s \in SUBSET w |-> Val(s, 32)]
           F == CHOOSE f : Rec(f)
<1>1. Number(w) = F[w]
  BY DEF Number, MapThenSumSet, MapThenFoldSet
<1>2. Rec(g)
  <2>1. ASSUME NEW s \in SUBSET w
        PROVE  g[s] = IF s = {} THEN 0
                      ELSE LET x == CHOOSE x \in s : TRUE IN 2^x + g[s \ {x}]
    <3>1. CASE s = {}
      BY <3>1, ValEmpty
    <3>2. CASE s # {}
      <4>1. PICK x : x = (CHOOSE y \in s : TRUE) /\ x \in s
        BY <3>2
      <4>2. x \in Bit /\ s \ {x} \in SUBSET w
        BY <4>1 DEF Word
      <4>3. Val(s, 32) = 2^x + Val(s \ {x}, 32)
        BY <4>1, <4>2, ValRemove DEF Pow
      <4>4. g[s] = Val(s, 32) /\ g[s \ {x}] = Val(s \ {x}, 32)
        BY <4>2
      <4> HIDE DEF g
      <4>5. g[s] = 2^x + g[s \ {x}]
        BY <4>3, <4>4
      <4> QED
        BY <3>2, <4>1, <4>5
    <3> QED
      BY <3>1, <3>2
  <2>2. g = [s \in SUBSET w |-> g[s]]
    OBVIOUS
  <2> HIDE DEF g
  <2> QED
    BY <2>1, <2>2
<1>3. Rec(F)
  BY <1>2
<1> HIDE DEF F, g
<1>4. ASSUME NEW s \in SUBSET w, s # {}
      PROVE  \E x \in s : F[s] = 2^x + F[s \ {x}]
  <2>1. PICK x : x = (CHOOSE y \in s : TRUE) /\ x \in s
    BY <1>4
  <2>2. F[s] = 2^x + F[s \ {x}]
    BY <1>3, <1>4, <2>1
  <2> QED
    BY <2>1, <2>2
<1>5. F[{}] = 0
  BY <1>3
<1> HIDE DEF Rec
<1> DEFINE S == {n \in 0 .. 32 : \A s \in SUBSET w : Cardinality(s) = n => F[s] = Val(s, 32)}
<1>6. IsFiniteSet(Bit) /\ Cardinality(Bit) = 32
  <2>1. 0 \in Int /\ 31 \in Int /\ ~(0 > 31) /\ 31 - 0 + 1 = 32
    OBVIOUS
  <2>2. /\ IsFiniteSet(0 .. 31)
        /\ Cardinality(0 .. 31) = IF 0 > 31 THEN 0 ELSE 31 - 0 + 1
    BY <2>1, FS_Interval, Zenon
  <2> QED
    BY <2>1, <2>2, Zenon DEF Bit
<1>7. \A s \in SUBSET w : IsFiniteSet(s) /\ Cardinality(s) \in 0 .. 32
  <2> SUFFICES ASSUME NEW s \in SUBSET w PROVE IsFiniteSet(s) /\ Cardinality(s) \in 0 .. 32
    OBVIOUS
  <2>1. s \in SUBSET Bit
    BY DEF Word
  <2>2. IsFiniteSet(s) /\ Cardinality(s) <= 32
    BY <1>6, <2>1, FS_Subset
  <2> QED
    <3>1. Cardinality(s) \in Nat
      BY <2>2, FS_CardinalityType
    <3> QED
      BY <2>2, <3>1
<1>8. 0 \in S
  <2>1. ASSUME NEW s \in SUBSET w, Cardinality(s) = 0 PROVE F[s] = Val(s, 32)
    <3>1. s = {}
      BY <1>7, <2>1, FS_EmptySet
    <3> QED
      BY <1>5, <3>1, ValEmpty
  <2> QED
    BY <2>1
<1>9. ASSUME NEW n \in Bit, n \in S PROVE n + 1 \in S
  <2>1. ASSUME NEW s \in SUBSET w, Cardinality(s) = n + 1 PROVE F[s] = Val(s, 32)
    <3>1. s # {}
      BY <2>1, FS_EmptySet DEF Bit
    <3>2. PICK x \in s : F[s] = 2^x + F[s \ {x}]
      BY <1>4, <3>1
    <3>3. x \in Bit /\ s \ {x} \in SUBSET w
      BY <3>2 DEF Word
    <3>4. Cardinality(s \ {x}) = n
      <4>1. Cardinality(s \ {x}) = Cardinality(s) - 1
        BY <1>7, <3>2, FS_RemoveElement
      <4> QED
        BY <2>1, <4>1 DEF Bit
    <3>5. F[s \ {x}] = Val(s \ {x}, 32)
      BY <1>9, <3>3, <3>4
    <3>6. Val(s, 32) = 2^x + Val(s \ {x}, 32)
      BY <3>2, <3>3, ValRemove DEF Pow
    <3> QED
      BY <3>2, <3>5, <3>6
  <2>2. n + 1 \in 0 .. 32
    BY DEF Bit
  <2> QED
    BY <2>1, <2>2
<1> HIDE DEF S
<1>10. 0 .. 32 \subseteq S
  BY <1>8, <1>9, Ripple
<1>11. Cardinality(w) \in S
  BY <1>7, <1>10
<1> QED
  BY <1>1, <1>11 DEF S

\* What is left of a number when its upper bits are masked out.
LEMMA NumberLow ==
    ASSUME NEW w \in Word, NEW k \in 0 .. 32
    PROVE  Number(Low(w, k)) = Val(w, k)
<1>1. PICK l : l = Low(w, k) /\ l \in Word
  BY WordParts
<1> DEFINE S == {n \in 0 .. 32 : Val(l, n) = IF n <= k THEN Val(w, n) ELSE Val(w, k)}
<1>2. 0 \in S
  BY ValStep
<1>3. ASSUME NEW n \in Bit, n \in S PROVE n + 1 \in S
  <2>1. n \in 0 .. 32 /\ n + 1 \in 0 .. 32
    BY DEF Bit
  <2>2. n \in l <=> n \in w /\ n < k
    BY <1>1 DEF Low
  <2>3. /\ Val(w, n + 1) = Val(w, n) + (IF n \in w THEN Pow(n) ELSE 0)
        /\ Val(l, n + 1) = Val(l, n) + (IF n \in l THEN Pow(n) ELSE 0)
    BY ValStep
  <2>4. Val(w, n) \in Int /\ Val(l, n) \in Int
    BY <2>1, ValStep
  <2>5. Val(l, n) = IF n <= k THEN Val(w, n) ELSE Val(w, k)
    BY <1>3
  <2>6. CASE n < k
    BY <2>1, <2>2, <2>3, <2>5, <2>6
  <2>7. CASE ~(n < k)
    <3>1. Val(l, n + 1) = Val(l, n) /\ ~(n + 1 <= k)
      BY <2>1, <2>2, <2>3, <2>4, <2>7
    <3>2. Val(l, n) = Val(w, k)
      <4>1. CASE n = k
        BY <2>5, <4>1
      <4>2. CASE n # k
        BY <2>1, <2>5, <2>7, <4>2
      <4> QED
        BY <4>1, <4>2
    <3> QED
      BY <2>1, <3>1, <3>2
  <2> QED
    BY <2>6, <2>7
<1> HIDE DEF S
<1>4. 32 \in S
  BY <1>2, <1>3, Ripple
<1>5. Val(l, 32) = IF 32 <= k THEN Val(w, 32) ELSE Val(w, k)
  BY <1>4 DEF S
<1>6. Val(l, 32) = Val(w, k)
  BY <1>5
<1> QED
  BY <1>1, <1>6, NumberIs

\* The upper bit counts as the rest would.
LEMMA ValTop ==
    ASSUME NEW w \in Word
    PROVE  /\ Val(w, 31) \in Nat /\ Val(w, 32) \in Nat /\ Pow(31) \in Nat \ {0}
           /\ Val(w, 31) < Pow(31)
           /\ Val(w, 32) = Val(w, 31) + (IF 31 \in w THEN Pow(31) ELSE 0)
<1>1. PICK n \in Bit : n = 31 /\ n + 1 = 32 /\ n \in 0 .. 32 /\ 32 \in 0 .. 32
  BY DEF Bit
<1>2. Val(w, n + 1) = Val(w, n) + (IF n \in w THEN Pow(n) ELSE 0)
  BY ValStep
<1>3. /\ Val(w, n) \in Nat /\ Val(w, n) < Pow(n)
      /\ Val(w, 32) \in Nat
  BY <1>1, ValStep
<1>4. Pow(n) \in Nat \ {0}
  BY <1>1, Powers
<1> QED
  BY <1>1, <1>2, <1>3, <1>4

\* A word and its complement add up to the largest number.
LEMMA ValComplement ==
    ASSUME NEW w, NEW c, \A b \in Bit : b < 31 => (b \in c <=> b \notin w)
    PROVE  Val(w, 31) + Val(c, 31) = Pow(31) - 1
<1> DEFINE S == {n \in 0 .. 32 : n <= 31 => Val(w, n) + Val(c, n) = Pow(n) - 1}
<1>1. 0 \in S
  <2>1. Val(w, 0) = 0 /\ Val(c, 0) = 0 /\ Pow(0) = 1
    BY ValStep, Powers
  <2> QED
    BY <2>1
<1>2. ASSUME NEW n \in Bit, n \in S PROVE n + 1 \in S
  <2>1. n \in 0 .. 32 /\ n + 1 \in 0 .. 32 /\ n <= 31
    BY DEF Bit
  <2>2. PICK a \in Int, b \in Int, p \in Int : a = Val(w, n) /\ b = Val(c, n) /\ p = Pow(n)
    <3>1. Val(w, n) \in Int /\ Val(c, n) \in Int
      BY <2>1, ValStep
    <3>2. Pow(n) \in Int
      BY <2>1, Powers
    <3> QED
      BY <3>1, <3>2
  <2>3. /\ Val(w, n + 1) = a + (IF n \in w THEN p ELSE 0)
        /\ Val(c, n + 1) = b + (IF n \in c THEN p ELSE 0)
    BY <2>2, ValStep
  <2>4. Pow(n + 1) = 2 * p
    BY <2>2, Powers
  <2>5. a + b = p - 1
    BY <1>2, <2>1, <2>2
  <2>6. n + 1 <= 31 => Val(w, n + 1) + Val(c, n + 1) = Pow(n + 1) - 1
    <3>1. n + 1 <= 31 => n < 31
      BY <2>1
    <3>2. n + 1 <= 31 => (n \in c <=> n \notin w)
      BY <3>1
    <3> QED
      BY <2>3, <2>4, <2>5, <3>2
  <2> QED
    BY <2>1, <2>6
<1> HIDE DEF S
<1>3. 31 \in S
  BY <1>1, <1>2, Ripple
<1> QED
  BY <1>3 DEF S

\* The integer an int32_t stands for.
LEMMA SignedVal ==
    ASSUME NEW w \in Word
    PROVE  /\ Signed(w) = Val(w, 31) - (IF 31 \in w THEN Pow(31) ELSE 0)
           /\ Signed(w) \in Int
           /\ Signed(w) < 0 <=> 31 \in w
           /\ -Pow(31) <= Signed(w) /\ Signed(w) < Pow(31)
           /\ Val(w, 32) = Signed(w) + (IF 31 \in w THEN 2 * Pow(31) ELSE 0)
<1>1. /\ Val(w, 31) \in Nat /\ Val(w, 32) \in Nat /\ Pow(31) \in Nat \ {0}
      /\ Val(w, 31) < Pow(31)
      /\ Val(w, 32) = Val(w, 31) + (IF 31 \in w THEN Pow(31) ELSE 0)
  BY ValTop
<1>2. Signed(w) = Val(w, 31) - (IF 31 \in w THEN Pow(31) ELSE 0)
  <2>1. CASE 31 \notin w
    <3>1. Signed(w) = Val(w, 32)
      BY <2>1, NumberIs DEF Signed
    <3> QED
      BY <1>1, <2>1, <3>1
  <2>2. CASE 31 \in w
    <3>1. PICK c : c = (0 .. 30) \ w
      OBVIOUS
    <3>2. c \in Word /\ 31 \notin c /\ \A b \in Bit : b < 31 => (b \in c <=> b \notin w)
      BY <3>1 DEF Word, Bit
    <3>3. Signed(w) = -1 - Val(c, 32)
      BY <2>2, <3>1, <3>2, NumberIs DEF Signed
    <3>4. Val(c, 32) = Val(c, 31) /\ Val(c, 31) \in Nat
      BY <3>2, ValTop
    <3>5. Val(w, 31) + Val(c, 31) = Pow(31) - 1
      BY <3>2, ValComplement
    <3> QED
      BY <1>1, <2>2, <3>3, <3>4, <3>5
  <2> QED
    BY <2>1, <2>2
<1> QED
  BY <1>1, <1>2

\* The word of the integer a word stands for is that word.
LEMMA BitsSigned ==
    ASSUME NEW w \in Word
    PROVE  Bits(Signed(w)) = w
<1>0. PICK d \in Int : d = Signed(w)
  BY SignedVal
<1> DEFINE Above(b, q) == d = Val(w, b) + Pow(b) * q /\ (q % 2 = 1 <=> b \in w)
           S == {i \in 0 .. 32 : i <= 31 => \E q \in Int : Above(31 - i, q)}
<1>1. 0 \in S
  <2>1. PICK q \in Int : q = IF 31 \in w THEN -1 ELSE 0
    OBVIOUS
  <2>2. Pow(31) \in Int /\ Val(w, 31) \in Int
    BY ValTop
  <2>3. d = Val(w, 31) + Pow(31) * q
    BY <1>0, <2>1, <2>2, SignedVal
  <2>4. Above(31, q)
    BY <2>1, <2>3
  <2>5. 31 - 0 = 31
    OBVIOUS
  <2> HIDE DEF Above
  <2> QED
    BY <2>4, <2>5
<1>2. ASSUME NEW i \in Bit, i \in S PROVE i + 1 \in S
  <2>0. i + 1 \in 0 .. 32 /\ i <= 31
    BY DEF Bit
  <2>1. CASE i = 31
    BY <2>0, <2>1
  <2>2. CASE i < 31
    <3>1. PICK b \in Bit : b = 31 - (i + 1) /\ b + 1 = 31 - i
      BY <2>2 DEF Bit
    <3>2. PICK q \in Int : d = Val(w, b + 1) + Pow(b + 1) * q
      BY <1>2, <2>0, <3>1
    <3>3. PICK p \in Int, v \in Int : p = Pow(b) /\ v = Val(w, b)
      <4>1. b \in 0 .. 32
        BY DEF Bit
      <4> QED
        BY <4>1, ValStep, Powers
    <3>4. Pow(b + 1) = 2 * p /\ Val(w, b + 1) = v + (IF b \in w THEN p ELSE 0)
      BY <3>3, ValStep, Powers
    <3>5. PICK r \in Int : r = 2 * q + (IF b \in w THEN 1 ELSE 0)
      OBVIOUS
    <3>6. d = v + p * r
      <4>1. (2 * p) * q = p * (2 * q)
        OBVIOUS
      <4>2. CASE b \in w
        <5>1. p * r = p * (2 * q) + p
          BY <3>5, <4>2
        <5> QED
          BY <3>2, <3>4, <4>1, <4>2, <5>1
      <4>3. CASE b \notin w
        BY <3>2, <3>4, <3>5, <4>1, <4>3
      <4> QED
        BY <4>2, <4>3
    <3>7. r % 2 = 1 <=> b \in w
      BY <3>5
    <3>8. Above(b, r)
      BY <3>3, <3>6, <3>7
    <3> HIDE DEF Above
    <3> QED
      BY <2>0, <3>1, <3>8
  <2>3. i = 31 \/ i < 31
    BY DEF Bit
  <2> QED
    BY <2>1, <2>2, <2>3
<1> HIDE DEF S
<1>3. 0 .. 32 \subseteq S
  BY <1>1, <1>2, Ripple
<1>4. ASSUME NEW b \in Bit PROVE b \in Bits(d) <=> b \in w
  <2>1. PICK i \in 0 .. 32 : i <= 31 /\ 31 - i = b
    <3>1. PICK i : i = 31 - b
      OBVIOUS
    <3>2. i \in 0 .. 32 /\ i <= 31 /\ 31 - i = b
      BY <3>1 DEF Bit
    <3> QED
      BY <3>2
  <2>2. \E q \in Int : Above(31 - i, q)
    BY <1>3, <2>1 DEF S
  <2>3. PICK q \in Int : d = Val(w, b) + Pow(b) * q /\ (q % 2 = 1 <=> b \in w)
    BY <2>1, <2>2
  <2>4. PICK p \in Nat \ {0}, v \in Nat : p = Pow(b) /\ v = Val(w, b) /\ v < p
    <3>1. b \in 0 .. 32
      BY DEF Bit
    <3> QED
      BY <3>1, ValStep, Powers
  <2>5. d \div p = q
    <3>1. PICK s : s = d - p * q
      OBVIOUS
    <3>2. s \in 0 .. p - 1
      BY <2>3, <2>4, <3>1
    <3> QED
      BY <3>1, <3>2
  <2>6. Quot(d, b) = q
    BY <2>4, <2>5 DEF Quot
  <2>7. b \in Bits(d) <=> Quot(d, b) % 2 = 1
    BY QuotBits
  <2> QED
    BY <2>3, <2>6, <2>7
<1>5. Bits(d) = w
  BY <1>4, BitsWord, SameBits
<1> QED
  BY <1>0, <1>5

\* Different words stand for different integers.
LEMMA SignedSame ==
    ASSUME NEW a \in Word, NEW b \in Word
    PROVE  Signed(a) = Signed(b) <=> a = b
BY BitsSigned

\* The bits of a number add up to it.
LEMMA ValBits ==
    ASSUME NEW d \in Int, NEW b \in 0 .. 32
    PROVE  d = Val(Bits(d), b) + Pow(b) * Quot(d, b)
<1>0. PICK w : w = Bits(d)
  OBVIOUS
<1> DEFINE S == {n \in 0 .. 32 : d = Val(w, n) + Pow(n) * Quot(d, n)}
<1>1. 0 \in S
  <2>1. Val(w, 0) = 0 /\ Pow(0) = 1 /\ Quot(d, 0) = d
    BY ValStep, Powers, QuotBits
  <2> QED
    BY <2>1
<1>2. ASSUME NEW n \in Bit, n \in S PROVE n + 1 \in S
  <2>1. n \in 0 .. 32 /\ n + 1 \in 0 .. 32
    BY DEF Bit
  <2>2. PICK p \in Int, v \in Int, q \in Int : p = Pow(n) /\ v = Val(w, n) /\ q = Quot(d, n)
    <3>1. Val(w, n) \in Int
      BY <2>1, ValStep
    <3>2. Pow(n) \in Int
      BY <2>1, Powers
    <3>3. Quot(d, n) \in Int
      BY <2>1, QuotBits
    <3> QED
      BY <3>1, <3>2, <3>3
  <2>3. Val(w, n + 1) = v + (IF n \in w THEN p ELSE 0) /\ Pow(n + 1) = 2 * p
    BY <2>2, ValStep, Powers
  <2>4. Quot(d, n + 1) = q \div 2 /\ (n \in w <=> q % 2 = 1)
    BY <1>0, <2>2, QuotBits
  <2>5. d = v + p * q
    BY <1>2, <2>2
  <2>6. PICK h \in Int : h = q \div 2
    BY <2>2
  <2>7. d = Val(w, n + 1) + (2 * p) * h
    <3>1. CASE n \in w
      <4>1. q = 2 * h + 1
        BY <2>4, <2>6, <3>1
      <4>2. p * q = (2 * p) * h + p
        BY <4>1
      <4> QED
        BY <2>3, <2>5, <3>1, <4>2
    <3>2. CASE n \notin w
      <4>1. q = 2 * h
        BY <2>4, <2>6, <3>2
      <4>2. p * q = (2 * p) * h
        BY <4>1
      <4> QED
        BY <2>3, <2>5, <3>2, <4>2
    <3> QED
      BY <3>1, <3>2
  <2> QED
    BY <2>1, <2>3, <2>4, <2>6, <2>7
<1> HIDE DEF S
<1>3. b \in S
  BY <1>1, <1>2, Ripple
<1> QED
  BY <1>0, <1>3 DEF S

\* The number of a register survives the encoding of a five-bit field.
LEMMA FiveBits ==
    ASSUME NEW k \in 0 .. 31
    PROVE  Bits(k) \in Field(5) /\ Number(Bits(k)) = k
<1>1. PICK n, P : n = 5 /\ P = 32
  OBVIOUS
<1>2. n \in Bit /\ P \in Nat \ {0} /\ P = Pow(n)
  BY <1>1, PowerTable DEF Bit
<1>3. \A b \in 5 .. 31 : b \notin Bits(k)
  <2>1. k \in Int /\ -P <= k /\ k < P /\ ~(k < 0)
    BY <1>1
  <2>2. \A b \in n .. 31 : b \in Bits(k) <=> k < 0
    BY <1>2, <2>1, SmallFits
  <2> QED
    BY <1>1, <2>1, <2>2
<1>4. Bits(k) \in Field(5)
  <2>1. Bits(k) \in Word
    BY BitsWord
  <2>2. \A b \in Bits(k) : b \in 0 .. 4
    BY <1>3, <2>1 DEF Word, Bit
  <2> QED
    BY <2>2 DEF Field
<1>5. Number(Bits(k)) = k
  <2>1. 5 \in 0 .. 32 /\ k \in Int
    OBVIOUS
  <2>2. k = Val(Bits(k), 5) + Pow(5) * Quot(k, 5)
    BY <2>1, ValBits
  <2>3. Quot(k, 5) = 0
    BY PowerTable DEF Quot
  <2>4. Val(Bits(k), 5) \in Int
    BY <2>1, ValStep
  <2>5. Val(Bits(k), 5) = k
    BY <2>1, <2>2, <2>3, <2>4, PowerTable
  <2>6. Low(Bits(k), 5) = Bits(k)
    BY <1>4 DEF Low, Field
  <2> QED
    BY <2>1, <2>5, <2>6, NumberLow, BitsWord
<1> QED
  BY <1>4, <1>5

-----------------------------------------------------------------------------
(* What the operations of executeOne do to the integers.                   *)

\* Ltu compares the numbers of its words.
LEMMA LtuVal ==
    ASSUME NEW a \in Word, NEW b \in Word
    PROVE  Ltu(a, b) <=> Val(a, 32) < Val(b, 32)
<1> DEFINE Top(i, n) == /\ i < n /\ i \in b /\ i \notin a
                        /\ \A j \in Bit : i < j /\ j < n => (j \in a <=> j \in b)
           Less(n) == \E i \in Bit : Top(i, n)
           S == {n \in 0 .. 32 : Less(n) <=> Val(a, n) < Val(b, n)}
<1>1. 0 \in S
  <2>1. ~Less(0)
    BY DEF Bit
  <2>2. Val(a, 0) = 0 /\ Val(b, 0) = 0
    BY ValStep
  <2> HIDE DEF Less
  <2> QED
    BY <2>1, <2>2
<1>2. ASSUME NEW n \in Bit
      PROVE  Less(n + 1) <=> (n \in b /\ n \notin a) \/ ((n \in a <=> n \in b) /\ Less(n))
  <2>0. n \in Int /\ \A i \in Bit : i \in Int
    BY DEF Bit
  <2>1. ASSUME NEW i \in Bit, Top(i, n + 1), i # n
        PROVE  (n \in a <=> n \in b) /\ Less(n)
    <3>1. i < n
      BY <2>0, <2>1
    <3>2. n \in a <=> n \in b
      BY <2>0, <2>1, <3>1
    <3>3. \A j \in Bit : i < j /\ j < n => (j \in a <=> j \in b)
      BY <2>0, <2>1
    <3> QED
      BY <2>1, <3>1, <3>2, <3>3
  <2>2. ASSUME n \in b, n \notin a PROVE Less(n + 1)
    <3>1. n < n + 1 /\ \A j \in Bit : ~(n < j /\ j < n + 1)
      BY <2>0
    <3>2. Top(n, n + 1)
      BY <2>2, <3>1
    <3> HIDE DEF Top
    <3> QED
      BY <3>2
  <2>3. ASSUME n \in a <=> n \in b, NEW i \in Bit, Top(i, n) PROVE Less(n + 1)
    <3>1. i < n + 1 /\ \A j \in Bit : j < n + 1 => j < n \/ j = n
      BY <2>0, <2>3
    <3>2. Top(i, n + 1)
      BY <2>3, <3>1
    <3> HIDE DEF Top
    <3> QED
      BY <3>2
  <2>4. Top(n, n + 1) => n \in b /\ n \notin a
    OBVIOUS
  <2> HIDE DEF Top
  <2> QED
    BY <2>1, <2>2, <2>3, <2>4
<1> HIDE DEF Less
<1>3. ASSUME NEW n \in Bit, n \in S PROVE n + 1 \in S
  <2>1. n \in 0 .. 32 /\ n + 1 \in 0 .. 32
    BY DEF Bit
  <2>2. PICK u \in Int, v \in Int, p \in Int :
           /\ u = Val(a, n) /\ v = Val(b, n) /\ p = Pow(n)
           /\ 0 <= u /\ u < p /\ 0 <= v /\ v < p
    <3>1. Pow(n) \in Int
      BY <2>1, Powers
    <3>2. Val(a, n) \in Nat /\ Val(a, n) < Pow(n) /\ Val(b, n) \in Nat /\ Val(b, n) < Pow(n)
      BY <2>1, ValStep
    <3> QED
      BY <3>1, <3>2
  <2>3. /\ Val(a, n + 1) = u + (IF n \in a THEN p ELSE 0)
        /\ Val(b, n + 1) = v + (IF n \in b THEN p ELSE 0)
    BY <2>2, ValStep
  <2>4. Less(n) <=> u < v
    BY <1>3, <2>2
  <2>5. Val(a, n + 1) < Val(b, n + 1)
           <=> (n \in b /\ n \notin a) \/ ((n \in a <=> n \in b) /\ u < v)
    BY <2>2, <2>3
  <2>6. Less(n + 1) <=> Val(a, n + 1) < Val(b, n + 1)
    BY <1>2, <2>4, <2>5
  <2> QED
    BY <2>1, <2>6
<1> HIDE DEF S
<1>4. 32 \in S
  BY <1>1, <1>3, Ripple
<1>5. Less(32) <=> Val(a, 32) < Val(b, 32)
  BY <1>4 DEF S
<1>6. Ltu(a, b) <=> Less(32)
  <2>1. \A i \in Bit : i < 32 /\ i \in Int
    BY DEF Bit
  <2>2. \A i, j \in Bit : j > i <=> i < j
    BY <2>1
  <2>3. \A i \in b \ a : i \in Bit
    BY DEF Word
  <2>4. Less(32) <=> \E i \in Bit : /\ i \in b /\ i \notin a
                                    /\ \A j \in Bit : i < j => (j \in a <=> j \in b)
    BY <2>1 DEF Less
  <2> QED
    BY <2>2, <2>3, <2>4 DEF Ltu
<1> QED
  BY <1>5, <1>6

\* The unsigned comparison (BLTU, BGEU, SLTU, SLTIU).
LEMMA LtuBelow ==
    ASSUME NEW a \in Word, NEW b \in Word
    PROVE  Ltu(a, b) <=> Below(Signed(a), Signed(b))
<1>1. PICK P \in Nat \ {0} : P = Pow(31)
  BY ValTop
<1>2. /\ Signed(a) \in Int /\ -P <= Signed(a) /\ Signed(a) < P /\ (Signed(a) < 0 <=> 31 \in a)
      /\ Val(a, 32) = Signed(a) + (IF 31 \in a THEN 2 * P ELSE 0)
  BY <1>1, SignedVal
<1>3. /\ Signed(b) \in Int /\ -P <= Signed(b) /\ Signed(b) < P /\ (Signed(b) < 0 <=> 31 \in b)
      /\ Val(b, 32) = Signed(b) + (IF 31 \in b THEN 2 * P ELSE 0)
  BY <1>1, SignedVal
<1>4. Val(a, 32) < Val(b, 32) <=> Below(Signed(a), Signed(b))
  <2>1. PICK s \in Int, t \in Int : s = Signed(a) /\ t = Signed(b)
    BY <1>2, <1>3
  <2>2. /\ Val(a, 32) = s + (IF s < 0 THEN 2 * P ELSE 0)
        /\ Val(b, 32) = t + (IF t < 0 THEN 2 * P ELSE 0)
    BY <1>2, <1>3, <2>1
  <2>3. -P <= s /\ s < P /\ -P <= t /\ t < P
    BY <1>2, <1>3, <2>1
  <2>4. Below(s, t) <=> IF s < 0 THEN t < 0 /\ s < t ELSE t < 0 \/ s < t
    BY DEF Below
  <2> QED
    BY <2>1, <2>2, <2>3, <2>4
<1> QED
  BY <1>4, LtuVal

\* The signed comparison (BLT, BGE, SLT, SLTI).
LEMMA LtSigned ==
    ASSUME NEW a \in Word, NEW b \in Word
    PROVE  Lt(a, b) <=> Signed(a) < Signed(b)
<1>1. ASSUME NEW w \in Word
      PROVE  Flip(w) \in Word /\ Val(Flip(w), 32) = Signed(w) + Pow(31)
  <2>1. PICK f : f = Flip(w) /\ f \in Word /\ (31 \in f <=> 31 \notin w)
                   /\ \A n \in Bit : n < 31 => (n \in f <=> n \in w)
    <3>1. Flip(w) \in Word
      BY DEF Flip, Word, Bit
    <3>2. 31 \in Flip(w) <=> 31 \notin w
      BY DEF Flip
    <3>3. \A n \in Bit : n < 31 => (n \in Flip(w) <=> n \in w)
      BY DEF Flip, Bit
    <3> QED
      BY <3>1, <3>2, <3>3
  <2> DEFINE S == {n \in 0 .. 32 : n <= 31 => Val(f, n) = Val(w, n)}
  <2>2. 0 \in S
    BY ValStep
  <2>3. ASSUME NEW n \in Bit, n \in S PROVE n + 1 \in S
    <3>1. n + 1 \in 0 .. 32 /\ (n + 1 <= 31 => n < 31 /\ n <= 31)
      BY DEF Bit
    <3>2. n + 1 <= 31 => Val(f, n) = Val(w, n) /\ (n \in f <=> n \in w)
      BY <2>1, <2>3, <3>1
    <3>3. /\ Val(f, n + 1) = Val(f, n) + (IF n \in f THEN Pow(n) ELSE 0)
          /\ Val(w, n + 1) = Val(w, n) + (IF n \in w THEN Pow(n) ELSE 0)
      BY ValStep
    <3>4. n + 1 <= 31 => Val(f, n + 1) = Val(w, n + 1)
      BY <3>2, <3>3
    <3> QED
      BY <3>1, <3>4
  <2> HIDE DEF S
  <2>4. 31 \in S
    BY <2>2, <2>3, Ripple
  <2>5. Val(f, 31) = Val(w, 31)
    BY <2>4 DEF S
  <2>6. PICK P \in Nat, v \in Nat : P = Pow(31) /\ v = Val(w, 31)
    BY ValTop
  <2>7. Val(f, 32) = v + (IF 31 \in f THEN P ELSE 0)
    BY <2>1, <2>5, <2>6, ValTop
  <2>8. Signed(w) = v - (IF 31 \in w THEN P ELSE 0)
    BY <2>6, SignedVal
  <2>9. Val(f, 32) = Signed(w) + P
    BY <2>1, <2>7, <2>8
  <2> QED
    BY <2>1, <2>6, <2>9
<1>2. Ltu(Flip(a), Flip(b)) <=> Signed(a) + Pow(31) < Signed(b) + Pow(31)
  BY <1>1, LtuVal
<1>3. Signed(a) \in Int /\ Signed(b) \in Int /\ Pow(31) \in Int
  BY SignedVal, ValTop
<1> QED
  BY <1>2, <1>3 DEF Lt

\* Addition and subtraction of words are those of the integers, modulo 2^32.
LEMMA AddSigned ==
    ASSUME NEW a \in Word, NEW b \in Word
    PROVE  /\ Add(a, b) = Bits(Signed(a) + Signed(b))
           /\ Sub(a, b) = Bits(Signed(a) - Signed(b))
           /\ Bit \ a = Bits(-1 - Signed(a))
<1>1. Signed(a) \in Int /\ Signed(b) \in Int
  BY SignedVal
<1>2. Bits(Signed(a)) = a /\ Bits(Signed(b)) = b
  BY BitsSigned
<1>3. Add(Bits(Signed(a)), Bits(Signed(b))) = Bits(Signed(a) + Signed(b))
  BY <1>1, BitsAdd
<1>4. Sub(Bits(Signed(a)), Bits(Signed(b))) = Bits(Signed(a) - Signed(b))
  BY <1>1, BitsSub
<1>5. Bits(-1 - Signed(a)) = Bit \ Bits(Signed(a))
  BY <1>1, BitsNot
<1> QED
  BY <1>2, <1>3, <1>4, <1>5

\* A sum with an address.
LEMMA AddAddress ==
    ASSUME NEW pc \in Int, NEW a \in Word
    PROVE  /\ Add(Bits(pc), a) = Bits(pc + Signed(a))
           /\ Add(Bits(pc), {2}) = Bits(pc + 4)
           /\ \A d \in Int : Add(Bits(pc), Bits(d)) = Bits(pc + d)
           /\ Add(Bits(pc), Shl(a, 12)) = Bits(pc + 4096 * Signed(a))
<1>1. Signed(a) \in Int /\ Bits(Signed(a)) = a
  BY SignedVal, BitsSigned
<1>2. Add(Bits(pc), Bits(Signed(a))) = Bits(pc + Signed(a))
  BY <1>1, BitsAdd
<1>3. Add(Bits(pc), {2}) = Bits(pc + 4)
  <2>1. Add(Bits(pc), Bits(4)) = Bits(pc + 4)
    BY BitsAdd
  <2> QED
    BY <2>1, BitsConstants
<1>4. \A d \in Int : Add(Bits(pc), Bits(d)) = Bits(pc + d)
  BY BitsAdd
<1>5. Add(Bits(pc), Shl(a, 12)) = Bits(pc + 4096 * Signed(a))
  <2>1. PICK s \in Int : s = Signed(a)
    BY <1>1
  <2>2. Bits(4096 * s) = Shl(a, 12)
    BY <1>1, <2>1, BitsShl
  <2>3. 4096 * s \in Int
    OBVIOUS
  <2>4. Add(Bits(pc), Bits(4096 * s)) = Bits(pc + 4096 * s)
    BY <2>3, BitsAdd
  <2> QED
    BY <2>1, <2>2, <2>4
<1> QED
  BY <1>1, <1>2, <1>3, <1>4, <1>5

\* A shift amount is below 32.
LEMMA AmountBelow ==
    ASSUME NEW b \in Word
    PROVE  Amount(b) \in 0 .. 31 /\ Amount(b) = Number(Low(b, 5))
<1>1. 5 \in 0 .. 32
  OBVIOUS
<1>2. Amount(b) = Val(b, 5) /\ Val(b, 5) \in Nat /\ Val(b, 5) < Pow(5)
  BY <1>1, NumberLow, ValStep DEF Amount
<1> QED
  BY <1>2, PowerTable DEF Amount

\* The shifts move every bit, drop those that leave the word, and fill with
\* zeros or, shifting a negative number right, with ones.
LEMMA ShiftIs ==
    ASSUME NEW a \in Word, NEW n \in 0 .. 31
    PROVE  /\ Shl(a, n) = {k + n : k \in a} \cap Bit
           /\ Shr(a, n) = {k - n : k \in a} \cap Bit
           /\ Sra(a, n) = {k \in Bit : IF k + n <= 31 THEN k + n \in a ELSE 31 \in a}
<1>0. \A k \in a : k \in 0 .. 31
  BY DEF Word, Bit
<1>1. ASSUME NEW k PROVE k \in Shl(a, n) <=> k \in {j + n : j \in a} \cap Bit
  BY <1>0 DEF Shl, Bit
<1>2. ASSUME NEW k PROVE k \in Shr(a, n) <=> k \in {j - n : j \in a} \cap Bit
  BY <1>0 DEF Shr, Bit
<1>3. ASSUME NEW k
      PROVE  k \in Sra(a, n) <=> k \in {j \in Bit : IF j + n <= 31 THEN j + n \in a ELSE 31 \in a}
  BY <1>0 DEF Sra, Shr, Bit
<1> QED
  BY <1>1, <1>2, <1>3

\* The operations of a register-register instruction are those its mnemonic
\* names (executeOne's R_TYPE and I_ARITH cases).
LEMMA AluResult ==
    ASSUME NEW a \in Word, NEW b \in Word
    PROVE  /\ aluR(0, a, b) = Result("add", a, b)
           /\ aluR(1, a, b) = Result("sll", a, b)
           /\ aluR(2, a, b) = Result("slt", a, b)
           /\ aluR(3, a, b) = Result("sltu", a, b)
           /\ aluR(4, a, b) = Result("xor", a, b)
           /\ aluR(5, a, b) = Result("srl", a, b)
           /\ aluR(6, a, b) = Result("or", a, b)
           /\ aluR(7, a, b) = Result("and", a, b)
           /\ aluAlt(0, a, b) = Result("sub", a, b)
           /\ aluAlt(5, a, b) = Result("sra", a, b)
<1>1. PICK n \in 0 .. 31 : n = Amount(b) /\ n = Number(Low(b, 5))
  BY AmountBelow
<1>2. aluR(0, a, b) = Result("add", a, b)
  BY AddSigned DEF aluR, Result
<1>3. aluR(1, a, b) = Result("sll", a, b)
  BY <1>1, ShiftIs DEF aluR, Result
<1>4. aluR(2, a, b) = Result("slt", a, b)
  BY LtSigned DEF aluR, Result, Truth
<1>5. aluR(3, a, b) = Result("sltu", a, b)
  BY LtuBelow DEF aluR, Result, Truth
<1>6. aluR(4, a, b) = Result("xor", a, b)
  <2>1. (a \ b) \cup (b \ a) = (a \cup b) \ (a \cap b)
    OBVIOUS
  <2> QED
    BY <2>1 DEF aluR, Result
<1>7. aluR(5, a, b) = Result("srl", a, b)
  BY <1>1, ShiftIs DEF aluR, Result
<1>8. aluR(6, a, b) = Result("or", a, b)
  BY DEF aluR, Result
<1>9. aluR(7, a, b) = Result("and", a, b)
  BY DEF aluR, Result
<1>10. aluAlt(0, a, b) = Result("sub", a, b)
  BY AddSigned DEF aluAlt, Result
<1>11. aluAlt(5, a, b) = Result("sra", a, b)
  BY <1>1, ShiftIs DEF aluAlt, Result
<1> QED
  BY <1>2, <1>3, <1>4, <1>5, <1>6, <1>7, <1>8, <1>9, <1>10, <1>11

-----------------------------------------------------------------------------
(* One call of executeOne, by opcode.                                      *)

\* No two opcodes are equal.
LEMMA OpcodesDiffer ==
    /\ R_TYPE # I_ARITH /\ R_TYPE # LOAD /\ R_TYPE # STORE /\ R_TYPE # BRANCH /\ R_TYPE # JAL
    /\ R_TYPE # JALR /\ R_TYPE # LUI /\ R_TYPE # AUIPC /\ R_TYPE # SYSTEM
    /\ I_ARITH # LOAD /\ I_ARITH # STORE /\ I_ARITH # BRANCH /\ I_ARITH # JAL /\ I_ARITH # JALR
    /\ I_ARITH # LUI /\ I_ARITH # AUIPC /\ I_ARITH # SYSTEM
    /\ LOAD # STORE /\ LOAD # BRANCH /\ LOAD # JAL /\ LOAD # JALR /\ LOAD # LUI /\ LOAD # AUIPC
    /\ LOAD # SYSTEM
    /\ STORE # BRANCH /\ STORE # JAL /\ STORE # JALR /\ STORE # LUI /\ STORE # AUIPC
    /\ STORE # SYSTEM
    /\ BRANCH # JAL /\ BRANCH # JALR /\ BRANCH # LUI /\ BRANCH # AUIPC /\ BRANCH # SYSTEM
    /\ JAL # JALR /\ JAL # LUI /\ JAL # AUIPC /\ JAL # SYSTEM
    /\ JALR # LUI /\ JALR # AUIPC /\ JALR # SYSTEM
    /\ LUI # AUIPC /\ LUI # SYSTEM
    /\ AUIPC # SYSTEM
<1>1. /\ 2 \notin R_TYPE /\ 2 \notin I_ARITH /\ 2 \notin LOAD /\ 2 \notin STORE /\ 2 \notin BRANCH
      /\ 2 \in JAL /\ 2 \in JALR /\ 2 \in LUI /\ 2 \in AUIPC /\ 2 \notin SYSTEM
  BY DEF R_TYPE, I_ARITH, LOAD, STORE, BRANCH, JAL, JALR, LUI, AUIPC, SYSTEM
<1>2. /\ 3 \notin R_TYPE /\ 3 \notin I_ARITH /\ 3 \notin LOAD /\ 3 \notin STORE /\ 3 \notin BRANCH
      /\ 3 \in JAL /\ 3 \notin JALR /\ 3 \notin LUI /\ 3 \notin AUIPC /\ 3 \notin SYSTEM
  BY DEF R_TYPE, I_ARITH, LOAD, STORE, BRANCH, JAL, JALR, LUI, AUIPC, SYSTEM
<1>3. /\ 4 \in R_TYPE /\ 4 \in I_ARITH /\ 4 \notin LOAD /\ 4 \notin STORE /\ 4 \notin BRANCH
      /\ 4 \notin JAL /\ 4 \notin JALR /\ 4 \in LUI /\ 4 \in AUIPC /\ 4 \in SYSTEM
  BY DEF R_TYPE, I_ARITH, LOAD, STORE, BRANCH, JAL, JALR, LUI, AUIPC, SYSTEM
<1>4. /\ 5 \in R_TYPE /\ 5 \notin I_ARITH /\ 5 \notin LOAD /\ 5 \in STORE /\ 5 \in BRANCH
      /\ 5 \in JAL /\ 5 \in JALR /\ 5 \in LUI /\ 5 \notin AUIPC /\ 5 \in SYSTEM
  BY DEF R_TYPE, I_ARITH, LOAD, STORE, BRANCH, JAL, JALR, LUI, AUIPC, SYSTEM
<1>5. /\ 6 \notin R_TYPE /\ 6 \notin I_ARITH /\ 6 \notin LOAD /\ 6 \notin STORE /\ 6 \in BRANCH
      /\ 6 \in JAL /\ 6 \in JALR /\ 6 \notin LUI /\ 6 \notin AUIPC /\ 6 \in SYSTEM
  BY DEF R_TYPE, I_ARITH, LOAD, STORE, BRANCH, JAL, JALR, LUI, AUIPC, SYSTEM
<1> QED
  BY <1>1, <1>2, <1>3, <1>4, <1>5

\* Writing x0 back as 0 after an instruction changes nothing, since no result
\* was written to it.
LEMMA ZeroKept ==
    ASSUME NEW x \in [Registers -> Word], x[0] = {}, NEW rd \in Registers, NEW v
    PROVE  [Put(x, rd, v) EXCEPT ![0] = {}] = Put(x, rd, v) /\ [x EXCEPT ![0] = {}] = x
<1>1. 0 \in Registers
  BY DEF Registers
<1>2. [x EXCEPT ![0] = {}] = x
  BY <1>1
<1>3. CASE rd = 0
  BY <1>2, <1>3 DEF Put
<1>4. CASE rd # 0
  <2>1. PICK y : y = [x EXCEPT ![rd] = v]
    OBVIOUS
  <2>2. y[0] = {} /\ y = [r \in Registers |-> y[r]]
    BY <1>1, <1>4, <2>1
  <2>3. [y EXCEPT ![0] = {}] = y
    BY <1>1, <2>2
  <2> QED
    BY <1>4, <2>1, <2>3 DEF Put
<1> QED
  BY <1>2, <1>3, <1>4

\* A word with one of the opcodes is neither of the two that halt.
LEMMA OpcodesProper ==
    ASSUME NEW w \in Word,
           decodeOpcode(w) \in {R_TYPE, I_ARITH, LOAD, STORE, BRANCH, JAL, JALR, LUI, AUIPC, SYSTEM}
    PROVE  w # {} /\ w # Bit
<1>1. 0 \in decodeOpcode(w)
  BY DEF R_TYPE, I_ARITH, LOAD, STORE, BRANCH, JAL, JALR, LUI, AUIPC, SYSTEM
<1>2. 3 \notin decodeOpcode(w) \/ 4 \notin decodeOpcode(w)
  BY DEF R_TYPE, I_ARITH, LOAD, STORE, BRANCH, JAL, JALR, LUI, AUIPC, SYSTEM
<1> QED
  BY <1>1, <1>2 DEF decodeOpcode, Low, Bit

\* Nor, unless the opcode is SYSTEM, one of those that trap by themselves.
LEMMA NotSystem ==
    ASSUME NEW w, decodeOpcode(w) # SYSTEM
    PROVE  w # ECALL /\ w # EBREAK
<1>1. Low(ECALL, 7) = SYSTEM /\ Low(EBREAK, 7) = SYSTEM
  BY DEF Low, ECALL, EBREAK, SYSTEM
<1> QED
  BY <1>1 DEF decodeOpcode

\* R_TYPE: the operation of funct3, SUB and SRA with the other funct7.
LEMMA ExecR ==
    ASSUME NEW w \in Word, NEW x \in [Registers -> Word], x[0] = {}, NEW pc,
           NEW rd \in Registers, NEW rs1 \in Registers, NEW rs2 \in Registers, NEW f3 \in 0 .. 7,
           decodeOpcode(w) = R_TYPE, decodeRd(w) = Bits(rd), decodeRs1(w) = Bits(rs1),
           decodeRs2(w) = Bits(rs2), decodeFunct3(w) = Bits(f3)
    PROVE  /\ decodeFunct7(w) = NORMAL =>
              executeOne(w, x, pc) =
                 Ends("retired", Put(x, rd, aluR(f3, x[rs1], x[rs2])), Add(pc, {2}), NoAccess)
           /\ decodeFunct7(w) = ALT /\ f3 \in {0, 5} =>
              executeOne(w, x, pc) =
                 Ends("retired", Put(x, rd, aluAlt(f3, x[rs1], x[rs2])), Add(pc, {2}), NoAccess)
<1>1. /\ Number(decodeRd(w)) = rd /\ Number(decodeRs1(w)) = rs1 /\ Number(decodeRs2(w)) = rs2
      /\ Number(decodeFunct3(w)) = f3
  BY FiveBits DEF Registers
<1>2. w # {} /\ w # Bit /\ w # ECALL /\ w # EBREAK
  BY OpcodesProper, NotSystem, OpcodesDiffer
<1>3. NORMAL # ALT
  BY DEF NORMAL, ALT
<1>4. /\ (IF rs1 = 0 THEN {} ELSE x[rs1]) = x[rs1]
      /\ (IF rs2 = 0 THEN {} ELSE x[rs2]) = x[rs2]
  OBVIOUS
<1>5. \A v : [Put(x, rd, v) EXCEPT ![0] = {}] = Put(x, rd, v)
  BY ZeroKept
<1>6. ASSUME decodeFunct7(w) = NORMAL
      PROVE  executeOne(w, x, pc) =
                 Ends("retired", Put(x, rd, aluR(f3, x[rs1], x[rs2])), Add(pc, {2}), NoAccess)
  BY <1>1, <1>2, <1>3, <1>4, <1>5, <1>6, OpcodesDiffer DEF executeOne
<1>7. ASSUME decodeFunct7(w) = ALT, f3 \in {0, 5}
      PROVE  executeOne(w, x, pc) =
                 Ends("retired", Put(x, rd, aluAlt(f3, x[rs1], x[rs2])), Add(pc, {2}), NoAccess)
  BY <1>1, <1>2, <1>3, <1>4, <1>5, <1>7, OpcodesDiffer DEF executeOne
<1> QED
  BY <1>6, <1>7

\* The immediate forms.
LEMMA ExecI ==
    ASSUME NEW w \in Word, NEW x \in [Registers -> Word], x[0] = {}, NEW pc,
           NEW rd \in Registers, NEW rs1 \in Registers, NEW f3 \in 0 .. 7,
           decodeOpcode(w) = I_ARITH, decodeRd(w) = Bits(rd), decodeRs1(w) = Bits(rs1),
           decodeFunct3(w) = Bits(f3)
    PROVE  executeOne(w, x, pc) =
              Ends("retired", Put(x, rd, aluI(decodeFunct7(w), f3, x[rs1], decodeImmI(w))),
                   Add(pc, {2}), NoAccess)
<1>1. Number(decodeRd(w)) = rd /\ Number(decodeRs1(w)) = rs1 /\ Number(decodeFunct3(w)) = f3
  BY FiveBits DEF Registers
<1>2. w # {} /\ w # Bit /\ w # ECALL /\ w # EBREAK
  BY OpcodesProper, NotSystem, OpcodesDiffer
<1>3. (IF rs1 = 0 THEN {} ELSE x[rs1]) = x[rs1]
  OBVIOUS
<1>4. \A v : [Put(x, rd, v) EXCEPT ![0] = {}] = Put(x, rd, v)
  BY ZeroKept
<1> QED
  BY <1>1, <1>2, <1>3, <1>4, OpcodesDiffer DEF executeOne

\* The access of a load or store with these operands.
AccessOf(op, f3, a, imm, r) ==
    [op |-> op, width |-> Width(f3), signed |-> op = "LOAD" /\ f3 < 2,
     addr |-> Add(a, imm), reg |-> r]

\* Loads: what is asked of memory.
LEMMA ExecLoad ==
    ASSUME NEW w \in Word, NEW x \in [Registers -> Word], x[0] = {}, NEW pc,
           NEW rd \in Registers, NEW rs1 \in Registers, NEW f3 \in {0, 1, 2, 4, 5},
           decodeOpcode(w) = LOAD, decodeRd(w) = Bits(rd), decodeRs1(w) = Bits(rs1),
           decodeFunct3(w) = Bits(f3)
    PROVE  executeOne(w, x, pc) =
              Ends("retired", x, Add(pc, {2}),
                   AccessOf("LOAD", f3, x[rs1], decodeImmI(w), rd))
<1>1. Number(decodeRd(w)) = rd /\ Number(decodeRs1(w)) = rs1 /\ Number(decodeFunct3(w)) = f3
  BY FiveBits DEF Registers
<1>2. w # {} /\ w # Bit /\ w # ECALL /\ w # EBREAK
  BY OpcodesProper, NotSystem, OpcodesDiffer
<1>3. (IF rs1 = 0 THEN {} ELSE x[rs1]) = x[rs1]
  OBVIOUS
<1> QED
  BY <1>1, <1>2, <1>3, OpcodesDiffer DEF executeOne, AccessOf

\* Stores.
LEMMA ExecStore ==
    ASSUME NEW w \in Word, NEW x \in [Registers -> Word], x[0] = {}, NEW pc,
           NEW rs1 \in Registers, NEW rs2 \in Registers, NEW f3 \in {0, 1, 2},
           decodeOpcode(w) = STORE, decodeRs1(w) = Bits(rs1), decodeRs2(w) = Bits(rs2),
           decodeFunct3(w) = Bits(f3)
    PROVE  executeOne(w, x, pc) =
              Ends("retired", x, Add(pc, {2}),
                   AccessOf("STORE", f3, x[rs1], decodeImmS(w), rs2))
<1>1. Number(decodeRs2(w)) = rs2 /\ Number(decodeRs1(w)) = rs1 /\ Number(decodeFunct3(w)) = f3
  BY FiveBits DEF Registers
<1>2. w # {} /\ w # Bit /\ w # ECALL /\ w # EBREAK
  BY OpcodesProper, NotSystem, OpcodesDiffer
<1>3. (IF rs1 = 0 THEN {} ELSE x[rs1]) = x[rs1]
  OBVIOUS
<1> QED
  BY <1>1, <1>2, <1>3, OpcodesDiffer DEF executeOne, AccessOf

\* Branches.
LEMMA ExecBranch ==
    ASSUME NEW w \in Word, NEW x \in [Registers -> Word], x[0] = {}, NEW pc,
           NEW rs1 \in Registers, NEW rs2 \in Registers, NEW f3 \in {0, 1, 4, 5, 6, 7},
           decodeOpcode(w) = BRANCH, decodeRs1(w) = Bits(rs1), decodeRs2(w) = Bits(rs2),
           decodeFunct3(w) = Bits(f3)
    PROVE  executeOne(w, x, pc) =
              Ends("retired", x, IF taken(f3, x[rs1], x[rs2]) THEN Add(pc, decodeImmB(w))
                                 ELSE Add(pc, {2}), NoAccess)
<1>1. Number(decodeRs2(w)) = rs2 /\ Number(decodeRs1(w)) = rs1 /\ Number(decodeFunct3(w)) = f3
  BY FiveBits DEF Registers
<1>2. w # {} /\ w # Bit /\ w # ECALL /\ w # EBREAK
  BY OpcodesProper, NotSystem, OpcodesDiffer
<1>3. /\ (IF rs1 = 0 THEN {} ELSE x[rs1]) = x[rs1]
      /\ (IF rs2 = 0 THEN {} ELSE x[rs2]) = x[rs2]
      /\ f3 \notin {2, 3}
  OBVIOUS
<1>4. [x EXCEPT ![0] = {}] = x
  BY ZeroKept
<1> QED
  BY <1>1, <1>2, <1>3, <1>4, OpcodesDiffer DEF executeOne

\* Jumps and upper immediates.
LEMMA ExecUpper ==
    ASSUME NEW w \in Word, NEW x \in [Registers -> Word], x[0] = {}, NEW pc,
           NEW rd \in Registers, decodeRd(w) = Bits(rd)
    PROVE  /\ decodeOpcode(w) = JAL => executeOne(w, x, pc) =
                 Ends("retired", Put(x, rd, Add(pc, {2})), Add(pc, decodeImmJ(w)), NoAccess)
           /\ decodeOpcode(w) = LUI => executeOne(w, x, pc) =
                 Ends("retired", Put(x, rd, decodeImmU(w)), Add(pc, {2}), NoAccess)
           /\ decodeOpcode(w) = AUIPC => executeOne(w, x, pc) =
                 Ends("retired", Put(x, rd, Add(pc, decodeImmU(w))), Add(pc, {2}), NoAccess)
<1>1. Number(decodeRd(w)) = rd
  BY FiveBits DEF Registers
<1>2. decodeOpcode(w) \in {JAL, LUI, AUIPC} => w # {} /\ w # Bit /\ w # ECALL /\ w # EBREAK
  BY OpcodesProper, NotSystem, OpcodesDiffer
<1>3. \A v : [Put(x, rd, v) EXCEPT ![0] = {}] = Put(x, rd, v)
  BY ZeroKept
<1>4. ASSUME decodeOpcode(w) = JAL
      PROVE  executeOne(w, x, pc) =
                 Ends("retired", Put(x, rd, Add(pc, {2})), Add(pc, decodeImmJ(w)), NoAccess)
  BY <1>1, <1>2, <1>3, <1>4, OpcodesDiffer DEF executeOne
<1>5. ASSUME decodeOpcode(w) = LUI
      PROVE  executeOne(w, x, pc) =
                 Ends("retired", Put(x, rd, decodeImmU(w)), Add(pc, {2}), NoAccess)
  BY <1>1, <1>2, <1>3, <1>5, OpcodesDiffer DEF executeOne
<1>6. ASSUME decodeOpcode(w) = AUIPC
      PROVE  executeOne(w, x, pc) =
                 Ends("retired", Put(x, rd, Add(pc, decodeImmU(w))), Add(pc, {2}), NoAccess)
  BY <1>1, <1>2, <1>3, <1>6, OpcodesDiffer DEF executeOne
<1> QED
  BY <1>4, <1>5, <1>6

\* Jumps through a register.
LEMMA ExecJalr ==
    ASSUME NEW w \in Word, NEW x \in [Registers -> Word], x[0] = {}, NEW pc,
           NEW rd \in Registers, NEW rs1 \in Registers,
           decodeOpcode(w) = JALR, decodeRd(w) = Bits(rd), decodeRs1(w) = Bits(rs1)
    PROVE  executeOne(w, x, pc) =
              Ends("retired", Put(x, rd, Add(pc, {2})),
                   Add(x[rs1], decodeImmI(w)) \ {0}, NoAccess)
<1>1. Number(decodeRd(w)) = rd /\ Number(decodeRs1(w)) = rs1
  BY FiveBits DEF Registers
<1>2. w # {} /\ w # Bit /\ w # ECALL /\ w # EBREAK
  BY OpcodesProper, NotSystem, OpcodesDiffer
<1>3. (IF rs1 = 0 THEN {} ELSE x[rs1]) = x[rs1]
  OBVIOUS
<1>4. \A v : [Put(x, rd, v) EXCEPT ![0] = {}] = Put(x, rd, v)
  BY ZeroKept
<1> QED
  BY <1>1, <1>2, <1>3, <1>4, OpcodesDiffer DEF executeOne

\* Words that trap.
LEMMA ExecSystem ==
    ASSUME NEW w \in Word, NEW x, NEW pc, decodeOpcode(w) = SYSTEM
    PROVE  executeOne(w, x, pc) =
              Ends(IF w = ECALL THEN "ECALL_U" ELSE IF w = EBREAK THEN "BREAKPOINT"
                   ELSE "ILLEGAL_INSN", x, pc, NoAccess)
<1>1. w # {} /\ w # Bit
  BY OpcodesProper
<1>2. ECALL # EBREAK
  BY DEF ECALL, EBREAK, SYSTEM
<1>3. CASE w = ECALL
  BY <1>1, <1>2, <1>3, OpcodesDiffer DEF executeOne
<1>4. CASE w = EBREAK
  BY <1>1, <1>2, <1>4, OpcodesDiffer DEF executeOne
<1>5. CASE w # ECALL /\ w # EBREAK
  BY <1>1, <1>2, <1>5, OpcodesDiffer DEF executeOne
<1> QED
  BY <1>3, <1>4, <1>5
-----------------------------------------------------------------------------
(* An accepted instruction: its operands, its words and its meaning.       *)

\* Operand i is the register of that number.
IsReg(i) == ins.ops[i].n \in Registers /\ parseReg(ins.ops[i]) = Bits(ins.ops[i].n)

\* Operand i is read by parseImm as its value.
IsImm(i) == ins.ops[i].v \in Word /\ parseImm(ins.ops[i]) = ins.ops[i].v

\* The inputs of a behaviour.
Inputs ==
    /\ ins \in Instrs
    /\ start.x \in [Registers -> Word] /\ start.x[0] = {}
    /\ start.pc \in Int
    /\ offset \in Int /\ offset % 2 = 0

Accepted == Inputs /\ ~assemble(ins.mnem, ins.ops).error

\* The words of the instruction, its label resolved.
Image == Patched(assemble(ins.mnem, ins.ops))

\* An instruction without an error has the operands it needs: where assembleLine
\* calls parseReg there is a register, and parseImm reads the value.
LEMMA OperandsAre ==
    ASSUME Accepted
    PROVE  LET m == ins.mnem IN
           /\ m \in Mnemonics /\ ins.ops \in Seq(Operand) /\ Len(ins.ops) >= need(m)
           /\ m \in DOMAIN RMnem => IsReg(1) /\ IsReg(2) /\ IsReg(3)
           /\ m \in NeedThree \/ m \in {"mv", "not", "neg"} => IsReg(1) /\ IsReg(2)
           /\ m \in NeedTwo => IsReg(1)
           /\ m \in Accesses => /\ ins.ops[2].n \in Registers
                                /\ memReg(ins.ops[2]) = Bits(ins.ops[2].n)
           /\ m \in NeedThree => IsImm(3)
           /\ m \in NeedTwo => IsImm(2)
           /\ m \in NeedOne => IsImm(1)
<1> DEFINE m == ins.mnem
           o == ins.ops
<1>1. ins \in Instrs /\ o \in Seq(Operand) /\ \A k \in DOMAIN o : Parsed(o[k])
  BY InstructionsAssumption DEF Accepted, Inputs
<1>2. /\ m \in Mnemonics /\ ~(Len(o) < need(m))
      /\ ~(m \in Accesses /\ o[2].kind # "mem")
      /\ ~(\E i \in regOperands(m) : o[i].kind # "reg")
      /\ ~(m \in Accesses /\ o[2].n = -1)
  BY DEF Accepted, assemble, Mnemonics
<1>3. \A i \in 1 .. Len(o) : o[i] \in Operand /\ Parsed(o[i])
  BY <1>1
<1>4. \A i \in 1 .. Len(o) : IsImm(i)
  BY <1>3 DEF Operand, Parsed, IsImm, parseImm
<1>5. \A i \in regOperands(m) : i \in 1 .. Len(o) => IsReg(i)
  <2> TAKE i \in regOperands(m)
  <2> HAVE i \in 1 .. Len(o)
  <2>1. o[i].kind = "reg" /\ o[i].n \in -1 .. 31 /\ o[i].n # -1
    BY <1>2, <1>3 DEF Operand, Parsed
  <2> QED
    BY <2>1 DEF IsReg, parseReg, Registers
<1>6. need(m) \in {0, 1, 2, 3} /\ Len(o) \in Nat
  BY <1>1 DEF need
<1>7. /\ m \in NeedThree => {1, 2, 3} \subseteq 1 .. Len(o)
      /\ m \in NeedTwo => {1, 2} \subseteq 1 .. Len(o)
      /\ m \in NeedOne => 1 \in 1 .. Len(o)
  BY <1>2, <1>6, NeedIs
<1>8. /\ m \in DOMAIN RMnem => m \in NeedThree /\ regOperands(m) = 1 .. 3
      /\ m \in NeedThree => {1, 2} \subseteq regOperands(m)
      /\ m \in {"mv", "not", "neg"} => m \in NeedTwo /\ {1, 2} \subseteq regOperands(m)
      /\ m \in NeedTwo => 1 \in regOperands(m)
  <2> USE DEF regOperands, NeedThree, NeedTwo, Accesses, RMnem, IMnem, LoadMnem, StoreMnem,
              BranchMnem, BranchZ, ZBranch, CsrMnem
  <2>1. m \in DOMAIN RMnem => m \in NeedThree /\ regOperands(m) = 1 .. 3
    OBVIOUS
  <2>2. m \in NeedThree => {1, 2} \subseteq regOperands(m)
    OBVIOUS
  <2>3. m \in {"mv", "not", "neg"} => m \in NeedTwo /\ {1, 2} \subseteq regOperands(m)
    OBVIOUS
  <2>4. m \in NeedTwo => 1 \in regOperands(m)
    OBVIOUS
  <2> HIDE DEF regOperands, NeedThree, NeedTwo, Accesses, RMnem, IMnem, LoadMnem, StoreMnem,
               BranchMnem, BranchZ, ZBranch, CsrMnem
  <2> QED
    BY <2>1, <2>2, <2>3, <2>4
<1>9. m \in Accesses => o[2].n \in Registers /\ memReg(o[2]) = Bits(o[2].n)
  <2>1. m \in Accesses => m \in NeedTwo
    BY DEF NeedTwo
  <2>2. m \in Accesses => o[2] \in Operand /\ o[2].n # -1
    BY <1>2, <1>3, <1>7, <2>1
  <2> QED
    BY <2>2 DEF Operand, memReg, Registers
<1> QED
  BY <1>1, <1>2, <1>4, <1>5, <1>6, <1>7, <1>8, <1>9

\* The words of an instruction without a label are those of assembleLine, those
\* of one with a label the ones patched by resolveLabels.
LEMMA ImageIs ==
    ASSUME Accepted
    PROVE  LET ws == words(ins.mnem, ins.ops) IN
           /\ ins.mnem \notin Labelled => Image = ws
           /\ ins.mnem \in Labelled =>
                 Image = patch(ws[1], Bits(offset), Bits(start.pc + offset))
<1> DEFINE a == assemble(ins.mnem, ins.ops)
<1>1. a.words = words(ins.mnem, ins.ops) /\ a.refs = refs(ins.mnem, ins.ops)
  BY DEF Accepted, assemble
<1>2. ins.mnem \notin Labelled => refs(ins.mnem, ins.ops) = <<>>
  BY DEF refs, Labelled
<1>3. ins.mnem \in Labelled => refs(ins.mnem, ins.ops) # <<>>
  BY DEF refs
<1> HIDE DEF a
<1> QED
  BY <1>1, <1>2, <1>3 DEF Image, Patched, a

\* The access a load or store asks for.
Accessed(op) ==
    [op |-> op, signed |-> ins.mnem \in {"lb", "lh"}, reg |-> ins.ops[1].n,
     width |-> CASE ins.mnem \in {"lb", "lbu", "sb"} -> 1
                 [] ins.mnem \in {"lh", "lhu", "sh"} -> 2
                 [] ins.mnem \in {"lw", "sw"} -> 4,
     addr |-> Bits(Signed(start.x[ins.ops[2].n]) + Signed(ins.ops[2].v))]

\* The meaning of every mnemonic, one case at a time.
LEMMA MeaningIs ==
    LET m == ins.mnem
        rd == ins.ops[1].n
        x(i) == start.x[ins.ops[i].n]
        v(i) == ins.ops[i].v
        pc == start.pc
        next == pc + 4 * Size
    IN
    /\ m \in DOMAIN RMnem => Meaning = Goes(Written(rd, Result(m, x(2), x(3))), next)
    /\ m \in DOMAIN IMnem => Meaning = Goes(Written(rd, Result(RegisterForm[m], x(2), v(3))), next)
    /\ m \in DOMAIN BranchMnem =>
          Meaning = Goes(start.x, IF Holds(m, Signed(x(1)), Signed(x(2)))
                                  THEN pc + offset ELSE pc + 4)
    /\ m \in DOMAIN BranchZ \cup DOMAIN ZBranch =>
          Meaning = Goes(start.x, IF Holds(m, Signed(x(1)), 0) THEN pc + offset ELSE pc + 4)
    /\ m = "nop" => Meaning = Goes(start.x, next)
    /\ m = "mv" => Meaning = Goes(Written(rd, x(2)), next)
    /\ m = "not" => Meaning = Goes(Written(rd, Bits(-1 - Signed(x(2)))), next)
    /\ m = "neg" => Meaning = Goes(Written(rd, Bits(0 - Signed(x(2)))), next)
    /\ m = "li" => Meaning = Goes(Written(rd, v(2)), next)
    /\ m = "la" => Meaning = Goes(Written(rd, Bits(pc + offset)), next)
    /\ m = "lui" => Meaning = Goes(Written(rd, Shl(v(2), 12)), next)
    /\ m = "auipc" => Meaning = Goes(Written(rd, Bits(pc + 4096 * Signed(v(2)))), next)
    /\ m = "j" => Meaning = Goes(start.x, pc + offset)
    /\ m = "call" => Meaning = Goes(Written(1, Bits(next)), pc + offset)
    /\ m = "jal" => Meaning = Goes(Written(rd, Bits(next)), pc + offset)
    /\ m = "ret" => Meaning = Goes(start.x, Signed(start.x[1] \ {0}))
    /\ m = "jalr" => Meaning = Goes(Written(rd, Bits(next)),
                                    Signed(Bits(Signed(x(2)) + Signed(v(3))) \ {0}))
    /\ m = "ecall" => Meaning = Ends("ECALL_U", start.x, Bits(pc), NoAccess)
    /\ m = "ebreak" => Meaning = Ends("BREAKPOINT", start.x, Bits(pc), NoAccess)
    /\ m \in DOMAIN CsrMnem \cup {"csrr", "mret"} =>
          Meaning = Ends("ILLEGAL_INSN", start.x, Bits(pc), NoAccess)
    /\ m \in DOMAIN LoadMnem =>
          Meaning = Ends("retired", start.x, Bits(next), Accessed("LOAD"))
    /\ m \in DOMAIN StoreMnem =>
          Meaning = Ends("retired", start.x, Bits(next), Accessed("STORE"))
<1> DEFINE m == ins.mnem
           rd == ins.ops[1].n
           x(i) == start.x[ins.ops[i].n]
           v(i) == ins.ops[i].v
           pc == start.pc
           next == pc + 4 * Size
<1> USE DEF Meaning, RMnem, IMnem, LoadMnem, StoreMnem, BranchMnem, BranchZ, ZBranch, CsrMnem
<1>1. m \in DOMAIN RMnem => Meaning = Goes(Written(rd, Result(m, x(2), x(3))), next)
  OBVIOUS
<1>2. m \in DOMAIN IMnem => Meaning = Goes(Written(rd, Result(RegisterForm[m], x(2), v(3))), next)
  OBVIOUS
<1>3. m \in DOMAIN BranchMnem =>
      Meaning = Goes(start.x, IF Holds(m, Signed(x(1)), Signed(x(2)))
                              THEN pc + offset ELSE pc + 4)
  OBVIOUS
<1>4. m \in DOMAIN BranchZ \cup DOMAIN ZBranch =>
      Meaning = Goes(start.x, IF Holds(m, Signed(x(1)), 0) THEN pc + offset ELSE pc + 4)
  OBVIOUS
<1>5. m = "nop" => Meaning = Goes(start.x, next)
  OBVIOUS
<1>6. m = "mv" => Meaning = Goes(Written(rd, x(2)), next)
  OBVIOUS
<1>7. m = "not" => Meaning = Goes(Written(rd, Bits(-1 - Signed(x(2)))), next)
  OBVIOUS
<1>8. m = "neg" => Meaning = Goes(Written(rd, Bits(0 - Signed(x(2)))), next)
  OBVIOUS
<1>9. m = "li" => Meaning = Goes(Written(rd, v(2)), next)
  OBVIOUS
<1>10. m = "la" => Meaning = Goes(Written(rd, Bits(pc + offset)), next)
  OBVIOUS
<1>11. m = "lui" => Meaning = Goes(Written(rd, Shl(v(2), 12)), next)
  OBVIOUS
<1>12. m = "auipc" => Meaning = Goes(Written(rd, Bits(pc + 4096 * Signed(v(2)))), next)
  OBVIOUS
<1>13. m = "j" => Meaning = Goes(start.x, pc + offset)
  OBVIOUS
<1>14. m = "call" => Meaning = Goes(Written(1, Bits(next)), pc + offset)
  OBVIOUS
<1>15. m = "jal" => Meaning = Goes(Written(rd, Bits(next)), pc + offset)
  OBVIOUS
<1>16. m = "ret" => Meaning = Goes(start.x, Signed(start.x[1] \ {0}))
  OBVIOUS
<1>17. m = "jalr" => Meaning = Goes(Written(rd, Bits(next)),
                                Signed(Bits(Signed(x(2)) + Signed(v(3))) \ {0}))
  OBVIOUS
<1>18. m = "ecall" => Meaning = Ends("ECALL_U", start.x, Bits(pc), NoAccess)
  OBVIOUS
<1>19. m = "ebreak" => Meaning = Ends("BREAKPOINT", start.x, Bits(pc), NoAccess)
  OBVIOUS
<1>20. m \in DOMAIN CsrMnem \cup {"csrr", "mret"} =>
      Meaning = Ends("ILLEGAL_INSN", start.x, Bits(pc), NoAccess)
  OBVIOUS
<1>21. m \in DOMAIN LoadMnem =>
      Meaning = Ends("retired", start.x, Bits(next), Accessed("LOAD"))
  BY DEF Accessed
<1>22. m \in DOMAIN StoreMnem =>
      Meaning = Ends("retired", start.x, Bits(next), Accessed("STORE"))
  BY DEF Accessed
<1> HIDE DEF Meaning, RMnem, IMnem, LoadMnem, StoreMnem, BranchMnem, BranchZ, ZBranch, CsrMnem
<1> QED
  BY <1>1, <1>2, <1>3, <1>4, <1>5, <1>6, <1>7, <1>8, <1>9, <1>10, <1>11, <1>12,
     <1>13, <1>14, <1>15, <1>16, <1>17, <1>18, <1>19, <1>20, <1>21, <1>22

-----------------------------------------------------------------------------
(* Numbers that fit the field they are put into.                           *)

\* The values of funct3 and funct7 are numbers of their fields.
LEMMA FunctFields ==
    /\ \A k \in 0 .. 7 : Bits(k) \in Field(3)
    /\ Bits(0) = NORMAL /\ Bits(32) = ALT
    /\ NORMAL \in Field(7) /\ ALT \in Field(7) /\ NORMAL # ALT
<1>1. ASSUME NEW k \in 0 .. 7 PROVE Bits(k) \in Field(3)
  <2>1. PICK n, P : n = 3 /\ P = 8
    OBVIOUS
  <2>2. n \in Bit /\ P \in Nat \ {0} /\ P = Pow(n)
    BY <2>1, SMT DEF Pow, Bit
  <2>3. \A b \in n .. 31 : b \in Bits(k) <=> k < 0
    BY <2>1, <2>2, SmallFits
  <2>4. Bits(k) \in Word /\ \A b \in 3 .. 31 : b \notin Bits(k)
    BY <2>1, <2>3, BitsWord
  <2> QED
    BY <2>4 DEF Field, Word, Bit
<1>2. Bits(32) = ALT
  <2>1. PICK S : S = 0 .. 30
    OBVIOUS
  <2>2. \A b \in S : (32 \div 2^b) % 2 = 1 <=> b = 5
    <3>1. TRUE /\ \A b \in 0 .. 30 : (32 \div 2^b) % 2 = 1 <=> b = 5
      BY SMT
    <3> QED
      BY <2>1, <3>1
  <2>3. \A b \in S : b \in Bits(32) <=> (32 \div 2^b) % 2 = 1
    BY <2>1 DEF Bits
  <2>4. 31 \notin Bits(32)
    BY SMT DEF Bits
  <2>5. 5 \in S /\ \A b \in Bit : b # 31 => b \in S
    BY <2>1 DEF Bit
  <2>6. \A b \in S : b \in Bits(32) <=> b = 5
    BY <2>2, <2>3, SMT
  <2>7. \A b \in Bit : b \in Bits(32) <=> b \in ALT
    BY <2>4, <2>5, <2>6 DEF ALT, Bit
  <2> QED
    BY <2>7, BitsWord, SameBits DEF ALT, Word, Bit
<1> QED
  BY <1>1, <1>2, BitsConstants DEF NORMAL, ALT, Field

\* A number of 12 bits fits an immediate, and one below 32 a shift amount.
LEMMA ImmediateFits ==
    ASSUME NEW v \in Word
    PROVE  /\ SmallImm(v) => Fits(v, 12)
           /\ ShiftAmount(v) => v \in Field(5)
<1>1. PICK d \in Int : d = Signed(v) /\ Bits(d) = v
  BY SignedVal, BitsSigned
<1>2. ASSUME SmallImm(v) PROVE Fits(v, 12)
  <2>1. PICK n, P : n = 11 /\ P = 2048
    OBVIOUS
  <2>2. n \in Bit /\ P \in Nat \ {0} /\ P = Pow(n) /\ n + 1 = 12
    BY <2>1, PowerTable, SMT DEF Bit
  <2>3. -P <= d /\ d < P
    BY <1>1, <1>2, <2>1 DEF SmallImm
  <2>4. Fits(Bits(d), n + 1)
    BY <2>2, <2>3, SmallFits
  <2> QED
    BY <1>1, <2>2, <2>4
<1>3. ASSUME ShiftAmount(v) PROVE v \in Field(5)
  <2>1. d \in 0 .. 31
    BY <1>1, <1>3 DEF ShiftAmount
  <2> QED
    BY <1>1, <2>1, FiveBits
<1> QED
  BY <1>2, <1>3

\* Adding to x0 gives the other operand, and x0 is the number 0.
LEMMA AddZero ==
    ASSUME NEW v \in Word
    PROVE  Signed({}) = 0 /\ Add({}, v) = v /\ Add(v, {}) = v
<1>1. {} \in Word /\ 31 \in 0 .. 32
  BY DEF Word
<1>2. Signed({}) = 0
  BY <1>1, SignedVal, ValEmpty
<1>3. Signed(v) \in Int /\ Bits(Signed(v)) = v
  BY SignedVal, BitsSigned
<1>4. Add({}, v) = Bits(Signed({}) + Signed(v)) /\ Add(v, {}) = Bits(Signed(v) + Signed({}))
  BY <1>1, AddSigned
<1>5. Signed({}) + Signed(v) = Signed(v) /\ Signed(v) + Signed({}) = Signed(v)
  BY <1>2, <1>3
<1> QED
  BY <1>2, <1>3, <1>4, <1>5

\* What executeOne takes for the funct7 of an instruction with an immediate is
\* the upper part of the immediate.
LEMMA ImmFunct7 ==
    ASSUME NEW i \in Word, NEW rs1 \in Field(5), NEW f3 \in Field(3), NEW rd \in Field(5),
           NEW op \in Field(7)
    PROVE  decodeFunct7(encodeI(i, rs1, f3, rd, op)) = {b \in 0 .. 6 : b + 5 \in i}
<1>1. PICK w : w = encodeI(i, rs1, f3, rd, op)
  OBVIOUS
<1>2. w \in Word /\ \A b \in 0 .. 11 : b + 20 \in w <=> b \in i
  BY <1>1, BitsI
<1>3. PICK f : f = {b \in 0 .. 6 : b + 5 \in i}
  OBVIOUS
<1>4. f \in Field(7)
  BY <1>3 DEF Field
<1>5. \A b \in 0 .. 7 - 1 : b + 25 \in w <=> b \in f
  <2>1. \A b \in 0 .. 6 : b + 5 \in 0 .. 11 /\ (b + 5) + 20 = b + 25
    OBVIOUS
  <2> QED
    BY <1>2, <1>3, <2>1
<1>6. Low(Shr(w, 25), 7) = f
  BY <1>2, <1>4, <1>5, FieldIs DEF Bit
<1> QED
  BY <1>1, <1>3, <1>6 DEF decodeFunct7

\* A shift amount passes through an immediate; the mark of srai is its funct7
\* and no part of the amount.
LEMMA AmountPasses ==
    ASSUME NEW v \in Field(5)
    PROVE  /\ v \in Word /\ Fits(v, 12) /\ {b \in 0 .. 6 : b + 5 \in v} = NORMAL
           /\ LET i == immOperand("srai", v) IN
              /\ i \in Word /\ Fits(i, 12) /\ {b \in 0 .. 6 : b + 5 \in i} = ALT
              /\ Low(i, 5) = Low(v, 5)
<1>1. v \in Word /\ Fits(v, 12) /\ {b \in 0 .. 6 : b + 5 \in v} = NORMAL
  BY DEF Field, Word, Bit, Fits, NORMAL
<1>2. PICK i : i = v \cup {10}
  OBVIOUS
<1>3. immOperand("srai", v) = i
  <2>1. Low(v, 5) = v
    <3>1. \A b \in v : b \in 0 .. 4 /\ b < 5
      BY DEF Field
    <3>2. \A b : b \in Low(v, 5) <=> b \in v
      BY <3>1 DEF Low
    <3> QED
      BY <3>2
  <2>2. Shl(ALT, 5) = {10}
    BY DEF Shl, ALT, Bit
  <2> QED
    BY <1>2, <2>1, <2>2 DEF immOperand
<1>4. i \in Word /\ Fits(i, 12)
  BY <1>2 DEF Field, Word, Bit, Fits
<1>5. {b \in 0 .. 6 : b + 5 \in i} = ALT
  BY <1>2 DEF Field, ALT
<1>6. Low(i, 5) = Low(v, 5)
  BY <1>2 DEF Low, Field
<1> QED
  BY <1>1, <1>3, <1>4, <1>5, <1>6

-----------------------------------------------------------------------------
(* What the words of an accepted instruction do, class by class.           *)

\* The call of executeOne that executes the first word.
First == executeOne(Image[1], start.x, Bits(start.pc))

\* One word, whose execution ends in e.
Ends1(e) == Len(Image) = 1 /\ First = e

\* Writing a register, in the datapath and in the meaning.
LEMMA WrittenIs == \A rd, v : Put(start.x, rd, v) = Written(rd, v)
  BY DEF Put, Written

\* The next instruction, and the one at a distance.
LEMMA GoesIs ==
    ASSUME Inputs
    PROVE  /\ \A x : Goes(x, start.pc + 4) = Ends("retired", x, Add(Bits(start.pc), {2}), NoAccess)
           /\ \A x : Goes(x, start.pc + offset) =
                     Ends("retired", x, Add(Bits(start.pc), Bits(offset)), NoAccess)
           /\ Add(Bits(start.pc), {2}) = Bits(start.pc + 4)
<1>1. PICK p \in Int, d \in Int : p = start.pc /\ d = offset
  BY DEF Inputs
<1>2. {} \in Word
  BY DEF Word
<1>3. Add(Bits(p), {2}) = Bits(p + 4)
  BY <1>2, AddAddress
<1>4. Add(Bits(p), Bits(d)) = Bits(p + d)
  BY <1>2, AddAddress
<1> QED
  BY <1>1, <1>3, <1>4 DEF Goes

\* Register with register: the operation of the mnemonic on the two registers.
LEMMA DoesR ==
    ASSUME Accepted, ins.mnem \in DOMAIN RMnem
    PROVE  Ends1(Goes(Written(ins.ops[1].n, Result(ins.mnem, start.x[ins.ops[2].n],
                                                   start.x[ins.ops[3].n])), start.pc + 4))
<1>1. PICK m, x, pc, rd, rs1, rs2 :
         /\ m = ins.mnem /\ x = start.x /\ pc = Bits(start.pc)
         /\ rd = ins.ops[1].n /\ rs1 = ins.ops[2].n /\ rs2 = ins.ops[3].n
  OBVIOUS
<1>2. /\ m \in Mnemonics /\ m \in DOMAIN RMnem /\ m \notin Labelled
      /\ x \in [Registers -> Word] /\ x[0] = {}
      /\ rd \in Registers /\ rs1 \in Registers /\ rs2 \in Registers
  <2>1. IsReg(1) /\ IsReg(2) /\ IsReg(3) /\ m \in Mnemonics
    BY <1>1, OperandsAre
  <2>2. m \notin Labelled
    BY <1>1 DEF Labelled, BranchLike, RMnem, BranchMnem, BranchZ, ZBranch
  <2> QED
    BY <1>1, <2>1, <2>2 DEF IsReg, Accepted, Inputs
<1>3. PICK f7, f3 : f7 = RMnem[m][1] /\ f3 = RMnem[m][2]
  OBVIOUS
<1>4. f7 \in {0, 32} /\ f3 \in 0 .. 7
  BY <1>2, <1>3 DEF RMnem
<1>5. PICK w : w = encodeR(Bits(f7), Bits(rs2), Bits(rs1), Bits(f3), Bits(rd), R_TYPE)
  OBVIOUS
<1>6. Image = <<w>>
  <2>1. /\ parseReg(ins.ops[1]) = Bits(rd) /\ parseReg(ins.ops[2]) = Bits(rs1)
        /\ parseReg(ins.ops[3]) = Bits(rs2)
    BY <1>1, OperandsAre DEF IsReg
  <2>2. words(ins.mnem, ins.ops) = <<w>>
    BY <1>1, <1>2, <1>3, <1>5, <2>1, WordsAre
  <2> QED
    BY <1>1, <1>2, <2>2, ImageIs
<1>7. /\ Bits(f7) \in Field(7) /\ Bits(f3) \in Field(3)
      /\ Bits(rd) \in Field(5) /\ Bits(rs1) \in Field(5) /\ Bits(rs2) \in Field(5)
  BY <1>2, <1>4, FunctFields, FiveBits DEF Registers
<1>8. /\ w \in Word /\ decodeOpcode(w) = R_TYPE /\ decodeRd(w) = Bits(rd)
      /\ decodeRs1(w) = Bits(rs1) /\ decodeRs2(w) = Bits(rs2) /\ decodeFunct3(w) = Bits(f3)
      /\ decodeFunct7(w) = Bits(f7)
  <2>1. R_TYPE \in Field(7)
    BY OpcodeFields
  <2>2. w \in Word
    BY <1>5, <1>7, <2>1, BitsR
  <2> QED
    BY <1>5, <1>7, <2>1, <2>2, RFormat
<1>9. x[rs1] \in Word /\ x[rs2] \in Word
  BY <1>2
<1>10. PICK r : r = Result(m, x[rs1], x[rs2])
  OBVIOUS
<1>11. \/ f7 = 0 /\ r = aluR(f3, x[rs1], x[rs2])
       \/ f7 = 32 /\ f3 \in {0, 5} /\ r = aluAlt(f3, x[rs1], x[rs2])
  BY <1>2, <1>3, <1>9, <1>10, AluResult DEF RMnem
<1>12. executeOne(w, x, pc) = Ends("retired", Put(x, rd, r), Add(pc, {2}), NoAccess)
  <2>1. CASE f7 = 0 /\ r = aluR(f3, x[rs1], x[rs2])
    BY <1>2, <1>4, <1>8, <2>1, ExecR, FunctFields
  <2>2. CASE f7 = 32 /\ f3 \in {0, 5} /\ r = aluAlt(f3, x[rs1], x[rs2])
    BY <1>2, <1>4, <1>8, <2>2, ExecR, FunctFields
  <2> QED
    BY <1>11, <2>1, <2>2
<1> QED
  <2>1. Len(Image) = 1 /\ Image[1] = w
    BY <1>6
  <2>2. First = Ends("retired", Written(rd, r), Add(Bits(start.pc), {2}), NoAccess)
    BY <1>1, <1>12, <2>1, WrittenIs DEF First
  <2>3. First = Goes(Written(rd, r), start.pc + 4)
    BY <2>2, GoesIs DEF Accepted
  <2> QED
    BY <1>1, <1>10, <2>1, <2>3 DEF Ends1

\* Register with immediate: the operation the mnemonic is a form of, on the
\* register and the number; the shifts shift by the number.
LEMMA DoesI ==
    ASSUME Accepted, Encodable, ins.mnem \in DOMAIN IMnem
    PROVE  Ends1(Goes(Written(ins.ops[1].n, Result(RegisterForm[ins.mnem], start.x[ins.ops[2].n],
                                                   ins.ops[3].v)), start.pc + 4))
<1>1. PICK m, x, pc, rd, rs1, v :
         /\ m = ins.mnem /\ x = start.x /\ pc = Bits(start.pc)
         /\ rd = ins.ops[1].n /\ rs1 = ins.ops[2].n /\ v = ins.ops[3].v
  OBVIOUS
<1>2. /\ m \in Mnemonics /\ m \in DOMAIN IMnem /\ m \in NeedThree /\ m \notin Labelled
      /\ x \in [Registers -> Word] /\ x[0] = {}
      /\ rd \in Registers /\ rs1 \in Registers /\ v \in Word
  <2>0. m \in NeedThree
    BY <1>1 DEF NeedThree
  <2>1. IsReg(1) /\ IsReg(2) /\ IsImm(3) /\ m \in Mnemonics
    BY <1>1, <2>0, OperandsAre
  <2>2. m \notin Labelled
    BY <1>1 DEF Labelled, BranchLike, IMnem, BranchMnem, BranchZ, ZBranch
  <2> QED
    BY <1>1, <2>0, <2>1, <2>2 DEF IsReg, IsImm, Accepted, Inputs
<1>3. PICK f3, i : f3 = IMnem[m] /\ i = immOperand(m, v)
  OBVIOUS
<1>4. f3 \in 0 .. 7
  BY <1>2, <1>3 DEF IMnem
<1>5. PICK w : w = encodeI(i, Bits(rs1), Bits(f3), Bits(rd), I_ARITH)
  OBVIOUS
<1>6. Image = <<w>>
  <2>1. /\ parseReg(ins.ops[1]) = Bits(rd) /\ parseReg(ins.ops[2]) = Bits(rs1)
        /\ parseImm(ins.ops[3]) = v
    BY <1>1, <1>2, OperandsAre DEF IsReg, IsImm
  <2>2. words(ins.mnem, ins.ops) = <<w>>
    BY <1>1, <1>2, <1>3, <1>5, <2>1, WordsAre
  <2> QED
    BY <1>1, <1>2, <2>2, ImageIs
<1>7. Bits(f3) \in Field(3) /\ Bits(rd) \in Field(5) /\ Bits(rs1) \in Field(5)
  BY <1>2, <1>4, FunctFields, FiveBits DEF Registers
<1>8. /\ i \in Word /\ Fits(i, 12)
      /\ m # "srai" => i = v
      /\ m = "srai" => {b \in 0 .. 6 : b + 5 \in i} = ALT /\ Low(i, 5) = Low(v, 5)
      /\ m = "srli" => {b \in 0 .. 6 : b + 5 \in i} = NORMAL
  <2>1. CASE m \in {"slli", "srli", "srai"}
    <3>0. ShiftAmount(v)
      BY <1>1, <2>1 DEF Encodable
    <3>1. v \in Field(5)
      BY <1>2, <3>0, ImmediateFits
    <3>2. CASE m = "srai"
      BY <1>3, <3>1, <3>2, AmountPasses
    <3>3. CASE m # "srai"
      <4>1. i = v
        BY <1>3, <3>3 DEF immOperand
      <4> QED
        BY <3>1, <3>3, <4>1, AmountPasses
    <3> QED
      BY <3>2, <3>3
  <2>2. CASE m \notin {"slli", "srli", "srai"}
    <3>0. SmallImm(v)
      BY <1>1, <2>2 DEF Encodable
    <3>1. Fits(v, 12)
      BY <1>2, <3>0, ImmediateFits
    <3>2. i = v
      BY <1>3, <2>2 DEF immOperand
    <3> QED
      BY <1>2, <2>2, <3>1, <3>2
  <2> QED
    BY <2>1, <2>2
<1>9. /\ w \in Word /\ decodeOpcode(w) = I_ARITH /\ decodeRd(w) = Bits(rd)
      /\ decodeRs1(w) = Bits(rs1) /\ decodeFunct3(w) = Bits(f3)
      /\ decodeImmI(w) = i /\ decodeFunct7(w) = {b \in 0 .. 6 : b + 5 \in i}
  <2>1. I_ARITH \in Field(7)
    BY OpcodeFields
  <2>2. w \in Word
    BY <1>5, <1>7, <1>8, <2>1, BitsI
  <2>3. /\ decodeOpcode(w) = I_ARITH /\ decodeRd(w) = Bits(rd)
        /\ decodeRs1(w) = Bits(rs1) /\ decodeFunct3(w) = Bits(f3) /\ decodeImmI(w) = i
    BY <1>5, <1>7, <1>8, <2>1, IFormat
  <2>4. decodeFunct7(w) = {b \in 0 .. 6 : b + 5 \in i}
    BY <1>5, <1>7, <1>8, <2>1, ImmFunct7
  <2> QED
    BY <2>2, <2>3, <2>4
<1>10. x[rs1] \in Word
  BY <1>2
<1>11. PICK r : r = Result(RegisterForm[m], x[rs1], v)
  OBVIOUS
<1>12. aluI(decodeFunct7(w), f3, x[rs1], i) = r
  <2>1. CASE m = "srai"
    <3>1. f3 = 5 /\ RegisterForm[m] = "sra" /\ decodeFunct7(w) = ALT
      BY <1>3, <1>8, <1>9, <2>1 DEF IMnem, RegisterForm
    <3>2. aluI(ALT, 5, x[rs1], i) = aluAlt(5, x[rs1], i)
      BY DEF aluI, aluAlt
    <3>3. aluAlt(5, x[rs1], i) = Result("sra", x[rs1], i)
      BY <1>8, <1>10, AluResult
    <3>4. Result("sra", x[rs1], i) = Result("sra", x[rs1], v)
      BY <1>8, <2>1 DEF Result
    <3> QED
      BY <1>11, <3>1, <3>2, <3>3, <3>4
  <2>2. CASE m # "srai"
    <3>1. i = v /\ (f3 = 5 => decodeFunct7(w) # ALT)
      <4>1. f3 = 5 => m = "srli"
        BY <1>1, <1>3, <2>2 DEF IMnem
      <4>2. NORMAL # ALT
        BY DEF NORMAL, ALT
      <4> QED
        BY <1>8, <1>9, <2>2, <4>1, <4>2
    <3>2. aluI(decodeFunct7(w), f3, x[rs1], i) = aluR(f3, x[rs1], v)
      BY <3>1 DEF aluI
    <3>3. aluR(f3, x[rs1], v) = Result(RegisterForm[m], x[rs1], v)
      BY <1>2, <1>3, <1>10, <2>2, AluResult DEF IMnem, RegisterForm
    <3> QED
      BY <1>11, <3>2, <3>3
  <2> QED
    BY <2>1, <2>2
<1>13. executeOne(w, x, pc) = Ends("retired", Put(x, rd, r), Add(pc, {2}), NoAccess)
  <2>1. /\ x \in [Registers -> Word] /\ x[0] = {} /\ rd \in Registers
        /\ rs1 \in Registers
    BY <1>2
  <2>2. /\ w \in Word /\ decodeOpcode(w) = I_ARITH /\ decodeRd(w) = Bits(rd)
        /\ decodeRs1(w) = Bits(rs1) /\ decodeFunct3(w) = Bits(f3)
    BY <1>9
  <2>3. executeOne(w, x, pc) =
           Ends("retired", Put(x, rd, aluI(decodeFunct7(w), f3, x[rs1], decodeImmI(w))),
                Add(pc, {2}), NoAccess)
    BY <1>4, <2>1, <2>2, ExecI
  <2> QED
    BY <1>9, <1>12, <2>3
<1> QED
  <2>1. Len(Image) = 1 /\ Image[1] = w
    BY <1>6
  <2>2. First = Ends("retired", Written(rd, r), Add(Bits(start.pc), {2}), NoAccess)
    BY <1>1, <1>13, <2>1, WrittenIs DEF First
  <2>3. First = Goes(Written(rd, r), start.pc + 4)
    BY <2>2, GoesIs DEF Accepted
  <2> QED
    BY <1>1, <1>11, <2>1, <2>3 DEF Ends1

\* Loads: the access asked for has the width and the sign of the mnemonic.
LEMMA DoesLoad ==
    ASSUME Accepted, Encodable, ins.mnem \in DOMAIN LoadMnem
    PROVE  Ends1(Ends("retired", start.x, Bits(start.pc + 4), Accessed("LOAD")))
<1>1. PICK m, x, pc, rd, rs1, v :
         /\ m = ins.mnem /\ x = start.x /\ pc = Bits(start.pc)
         /\ rd = ins.ops[1].n /\ rs1 = ins.ops[2].n /\ v = ins.ops[2].v
  OBVIOUS
<1>2. /\ m \in Mnemonics /\ m \in DOMAIN LoadMnem /\ m \notin Labelled
      /\ x \in [Registers -> Word] /\ x[0] = {}
      /\ rd \in Registers /\ rs1 \in Registers /\ v \in Word
      /\ parseReg(ins.ops[1]) = Bits(rd) /\ memReg(ins.ops[2]) = Bits(rs1)
      /\ parseImm(ins.ops[2]) = v
  <2>0. m \in Accesses /\ m \in NeedTwo
    BY <1>1 DEF NeedTwo, Accesses
  <2>1. IsReg(1) /\ IsImm(2) /\ m \in Mnemonics
    BY <1>1, <2>0, OperandsAre
  <2>2. m \notin Labelled
    BY <1>1 DEF Labelled, BranchLike, LoadMnem, BranchMnem, BranchZ, ZBranch
  <2>3. rs1 \in Registers /\ memReg(ins.ops[2]) = Bits(rs1)
    BY <1>1, <2>0, OperandsAre
  <2> QED
    BY <1>1, <2>1, <2>2, <2>3 DEF IsReg, IsImm, Accepted, Inputs
<1>3. PICK f3 : f3 = LoadMnem[m]
  OBVIOUS
<1>4. f3 \in {0, 1, 2, 4, 5} /\ f3 \in 0 .. 7
  BY <1>2, <1>3 DEF LoadMnem
<1>5. PICK w : w = encodeI(v, Bits(rs1), Bits(f3), Bits(rd), LOAD)
  OBVIOUS
<1>6. Image = <<w>>
  <2>1. words(ins.mnem, ins.ops) = <<w>>
    BY <1>1, <1>2, <1>3, <1>5, WordsAre
  <2> QED
    BY <1>1, <1>2, <2>1, ImageIs
<1>7. Bits(f3) \in Field(3) /\ Bits(rd) \in Field(5) /\ Bits(rs1) \in Field(5)
  BY <1>2, <1>4, FunctFields, FiveBits DEF Registers
<1>8. Fits(v, 12)
  <2>1. SmallImm(v)
    BY <1>1, <1>2 DEF Encodable, Accesses
  <2> QED
    BY <1>2, <2>1, ImmediateFits
<1>9. /\ w \in Word /\ decodeOpcode(w) = LOAD /\ decodeRd(w) = Bits(rd)
      /\ decodeRs1(w) = Bits(rs1) /\ decodeFunct3(w) = Bits(f3) /\ decodeImmI(w) = v
  BY <1>2, <1>5, <1>7, <1>8, OpcodeFields, BitsI, IFormat
<1>10. PICK a : a = AccessOf("LOAD", f3, x[rs1], v, rd)
  OBVIOUS
<1>11. executeOne(w, x, pc) = Ends("retired", x, Add(pc, {2}), a)
  BY <1>2, <1>4, <1>9, <1>10, ExecLoad
<1>12. a = Accessed("LOAD")
  <2>1. x[rs1] \in Word
    BY <1>2
  <2>2. Add(x[rs1], v) = Bits(Signed(x[rs1]) + Signed(v))
    BY <1>2, <2>1, AddSigned
  <2>3. ("LOAD" = "LOAD" /\ f3 < 2) = (m \in {"lb", "lh"})
    BY <1>2, <1>3 DEF LoadMnem
  <2>4. Width(f3) = CASE m \in {"lb", "lbu", "sb"} -> 1 [] m \in {"lh", "lhu", "sh"} -> 2
                      [] m \in {"lw", "sw"} -> 4
    BY <1>2, <1>3 DEF LoadMnem, Width
  <2> QED
    BY <1>1, <1>10, <2>2, <2>3, <2>4, Zenon DEF Accessed, AccessOf
<1>13. Add(pc, {2}) = Bits(start.pc + 4)
  BY <1>1, GoesIs DEF Accepted
<1>14. Len(Image) = 1 /\ Image[1] = w
  BY <1>6
<1> QED
  BY <1>1, <1>11, <1>12, <1>13, <1>14 DEF Ends1, First

\* Stores, likewise.
LEMMA DoesStore ==
    ASSUME Accepted, Encodable, ins.mnem \in DOMAIN StoreMnem
    PROVE  Ends1(Ends("retired", start.x, Bits(start.pc + 4), Accessed("STORE")))
<1>1. PICK m, x, pc, rs2, rs1, v :
         /\ m = ins.mnem /\ x = start.x /\ pc = Bits(start.pc)
         /\ rs2 = ins.ops[1].n /\ rs1 = ins.ops[2].n /\ v = ins.ops[2].v
  OBVIOUS
<1>2. /\ m \in Mnemonics /\ m \in DOMAIN StoreMnem /\ m \notin Labelled
      /\ x \in [Registers -> Word] /\ x[0] = {}
      /\ rs2 \in Registers /\ rs1 \in Registers /\ v \in Word
      /\ parseReg(ins.ops[1]) = Bits(rs2) /\ memReg(ins.ops[2]) = Bits(rs1)
      /\ parseImm(ins.ops[2]) = v
  <2>0. m \in Accesses /\ m \in NeedTwo
    BY <1>1 DEF NeedTwo, Accesses
  <2>1. IsReg(1) /\ IsImm(2) /\ m \in Mnemonics
    BY <1>1, <2>0, OperandsAre
  <2>2. m \notin Labelled
    BY <1>1 DEF Labelled, BranchLike, StoreMnem, BranchMnem, BranchZ, ZBranch
  <2>3. rs1 \in Registers /\ memReg(ins.ops[2]) = Bits(rs1)
    BY <1>1, <2>0, OperandsAre
  <2> QED
    BY <1>1, <2>1, <2>2, <2>3 DEF IsReg, IsImm, Accepted, Inputs
<1>3. PICK f3 : f3 = StoreMnem[m]
  OBVIOUS
<1>4. f3 \in {0, 1, 2} /\ f3 \in 0 .. 7
  BY <1>2, <1>3 DEF StoreMnem
<1>5. PICK w : w = encodeS(v, Bits(rs2), Bits(rs1), Bits(f3), STORE)
  OBVIOUS
<1>6. Image = <<w>>
  <2>1. words(ins.mnem, ins.ops) = <<w>>
    BY <1>1, <1>2, <1>3, <1>5, WordsAre
  <2> QED
    BY <1>1, <1>2, <2>1, ImageIs
<1>7. Bits(f3) \in Field(3) /\ Bits(rs2) \in Field(5) /\ Bits(rs1) \in Field(5)
  BY <1>2, <1>4, FunctFields, FiveBits DEF Registers
<1>8. Fits(v, 12)
  <2>1. SmallImm(v)
    BY <1>1, <1>2 DEF Encodable, Accesses
  <2> QED
    BY <1>2, <2>1, ImmediateFits
<1>9. /\ w \in Word /\ decodeOpcode(w) = STORE /\ decodeRs2(w) = Bits(rs2)
      /\ decodeRs1(w) = Bits(rs1) /\ decodeFunct3(w) = Bits(f3) /\ decodeImmS(w) = v
  <2>1. STORE \in Field(7)
    BY OpcodeFields
  <2>2. w \in Word
    BY <1>2, <1>5, <1>7, <2>1, BitsS
  <2> QED
    BY <1>2, <1>5, <1>7, <1>8, <2>1, <2>2, SFormat
<1>10. PICK a : a = AccessOf("STORE", f3, x[rs1], v, rs2)
  OBVIOUS
<1>11. executeOne(w, x, pc) = Ends("retired", x, Add(pc, {2}), a)
  BY <1>2, <1>4, <1>9, <1>10, ExecStore
<1>12. a = Accessed("STORE")
  <2>1. x[rs1] \in Word
    BY <1>2
  <2>2. Add(x[rs1], v) = Bits(Signed(x[rs1]) + Signed(v))
    BY <1>2, <2>1, AddSigned
  <2>3. ("STORE" = "LOAD" /\ f3 < 2) = (m \in {"lb", "lh"})
    BY <1>2, <1>3 DEF StoreMnem
  <2>4. Width(f3) = CASE m \in {"lb", "lbu", "sb"} -> 1 [] m \in {"lh", "lhu", "sh"} -> 2
                      [] m \in {"lw", "sw"} -> 4
    BY <1>2, <1>3 DEF StoreMnem, Width
  <2> QED
    BY <1>1, <1>10, <2>2, <2>3, <2>4, Zenon DEF Accessed, AccessOf
<1>13. Add(pc, {2}) = Bits(start.pc + 4)
  BY <1>1, GoesIs DEF Accepted
<1>14. Len(Image) = 1 /\ Image[1] = w
  BY <1>6
<1> QED
  BY <1>1, <1>11, <1>12, <1>13, <1>14 DEF Ends1, First

\* A branch in reach of its label goes there or to the next instruction.
LEMMA DoesBranch ==
    ASSUME Accepted, Encodable, ins.mnem \in BranchLike,
           NEW rs1 \in Registers, NEW rs2 \in Registers, NEW f3 \in {0, 1, 4, 5, 6, 7},
           words(ins.mnem, ins.ops) = <<encodeB({}, Bits(rs2), Bits(rs1), Bits(f3), BRANCH)>>
    PROVE  Ends1(Goes(start.x, IF taken(f3, start.x[rs1], start.x[rs2])
                               THEN start.pc + offset ELSE start.pc + 4))
<1>1. PICK x, pc, d : x = start.x /\ pc = Bits(start.pc) /\ d = Bits(offset)
  OBVIOUS
<1>2. /\ x \in [Registers -> Word] /\ x[0] = {} /\ {} \in Word /\ d \in Word
      /\ Bits(rs1) \in Field(5) /\ Bits(rs2) \in Field(5) /\ Bits(f3) \in Field(3)
      /\ BRANCH \in Field(7)
  <2>1. x \in [Registers -> Word] /\ x[0] = {} /\ {} \in Word
    BY <1>1 DEF Accepted, Inputs, Word
  <2>2. Bits(rs1) \in Field(5) /\ Bits(rs2) \in Field(5)
    BY FiveBits DEF Registers
  <2>3. f3 \in 0 .. 7
    OBVIOUS
  <2>4. Bits(f3) \in Field(3)
    BY <2>3, FunctFields
  <2> QED
    BY <1>1, <2>1, <2>2, <2>4, BitsWord, OpcodeFields
<1>3. PICK old : old = encodeB({}, Bits(rs2), Bits(rs1), Bits(f3), BRANCH)
  OBVIOUS
<1>4. /\ decodeOpcode(old) = BRANCH /\ decodeRs1(old) = Bits(rs1)
      /\ decodeRs2(old) = Bits(rs2) /\ decodeFunct3(old) = Bits(f3)
  BY <1>2, <1>3, BFormat
<1>5. PICK w : w = encodeB(d, Bits(rs2), Bits(rs1), Bits(f3), BRANCH)
  OBVIOUS
<1>6. Image = <<w>>
  <2>1. ins.mnem \in Labelled
    BY DEF Labelled
  <2>2. words(ins.mnem, ins.ops)[1] = old
    BY <1>3
  <2>3. Image = patch(old, d, Bits(start.pc + offset))
    BY <1>1, <2>1, <2>2, ImageIs
  <2> QED
    BY <1>4, <1>5, <2>3, OpcodeFields DEF patch
<1>7. Fits(d, 13) /\ 0 \notin d
  <2>1. BranchReach(offset)
    BY DEF Encodable
  <2>2. offset \in Int /\ offset % 2 = 0
    BY DEF Accepted, Inputs
  <2> QED
    BY <1>1, <2>1, <2>2, DistanceFits
<1>8. w \in Word
  BY <1>2, <1>5, BitsB
<1>9. /\ decodeOpcode(w) = BRANCH /\ decodeRs1(w) = Bits(rs1)
      /\ decodeRs2(w) = Bits(rs2) /\ decodeFunct3(w) = Bits(f3) /\ decodeImmB(w) = d
  BY <1>2, <1>5, <1>7, BFormat
<1>10. executeOne(w, x, pc) =
          Ends("retired", x, IF taken(f3, x[rs1], x[rs2]) THEN Add(pc, d) ELSE Add(pc, {2}),
               NoAccess)
  BY <1>2, <1>8, <1>9, ExecBranch
<1>11. Len(Image) = 1 /\ Image[1] = w
  BY <1>6
<1>12. First = IF taken(f3, x[rs1], x[rs2]) THEN Goes(x, start.pc + offset)
               ELSE Goes(x, start.pc + 4)
  <2>1. First = executeOne(w, x, pc)
    BY <1>1, <1>11 DEF First
  <2>2. /\ Goes(x, start.pc + 4) = Ends("retired", x, Add(pc, {2}), NoAccess)
        /\ Goes(x, start.pc + offset) = Ends("retired", x, Add(pc, d), NoAccess)
    BY <1>1, GoesIs DEF Accepted
  <2> QED
    BY <1>10, <2>1, <2>2
<1> QED
  BY <1>1, <1>11, <1>12 DEF Ends1

\* The comparison a funct3 selects, in terms of integers.
LEMMA TakenIs ==
    ASSUME NEW a \in Word, NEW b \in Word
    PROVE  /\ taken(0, a, b) <=> Signed(a) = Signed(b)
           /\ taken(1, a, b) <=> Signed(a) # Signed(b)
           /\ taken(4, a, b) <=> Signed(a) < Signed(b)
           /\ taken(5, a, b) <=> Signed(a) >= Signed(b)
           /\ taken(6, a, b) <=> Below(Signed(a), Signed(b))
           /\ taken(7, a, b) <=> ~Below(Signed(a), Signed(b))
<1>1. Signed(a) \in Int /\ Signed(b) \in Int
  BY SignedVal
<1>2. /\ taken(0, a, b) <=> a = b
      /\ taken(1, a, b) <=> a # b
      /\ taken(4, a, b) <=> Lt(a, b)
      /\ taken(5, a, b) <=> ~Lt(a, b)
      /\ taken(6, a, b) <=> Ltu(a, b)
      /\ taken(7, a, b) <=> ~Ltu(a, b)
  BY DEF taken
<1>3. Signed(a) >= Signed(b) <=> ~(Signed(a) < Signed(b))
  BY <1>1
<1>4. /\ Signed(a) = Signed(b) <=> a = b
      /\ Lt(a, b) <=> Signed(a) < Signed(b)
      /\ Ltu(a, b) <=> Below(Signed(a), Signed(b))
  BY SignedSame, LtSigned, LtuBelow
<1> QED
  BY <1>2, <1>3, <1>4

\* The comparisons of the mnemonics.
LEMMA HoldsIs ==
    ASSUME NEW a \in Int, NEW b \in Int
    PROVE  /\ Holds("beq", a, b) <=> a = b
           /\ Holds("beqz", a, b) <=> a = b
           /\ Holds("bne", a, b) <=> a # b
           /\ Holds("bnez", a, b) <=> a # b
           /\ Holds("blt", a, b) <=> a < b
           /\ Holds("bltz", a, b) <=> a < b
           /\ Holds("bge", a, b) <=> a >= b
           /\ Holds("bgez", a, b) <=> a >= b
           /\ Holds("bltu", a, b) <=> Below(a, b)
           /\ Holds("bgeu", a, b) <=> ~Below(a, b)
           /\ Holds("blez", a, b) <=> a <= b
           /\ Holds("bgtz", a, b) <=> a > b
  BY DEF Holds

\* Branches: taken exactly if the comparison of the mnemonic holds.
LEMMA MeansBranch ==
    ASSUME Accepted, Encodable, ins.mnem \in DOMAIN BranchMnem
    PROVE  Ends1(Goes(start.x, IF Holds(ins.mnem, Signed(start.x[ins.ops[1].n]),
                                        Signed(start.x[ins.ops[2].n]))
                               THEN start.pc + offset ELSE start.pc + 4))
<1>1. PICK m, rs1, rs2, f3 : /\ m = ins.mnem /\ rs1 = ins.ops[1].n /\ rs2 = ins.ops[2].n
                             /\ f3 = BranchMnem[m]
  OBVIOUS
<1>2. /\ m \in Mnemonics /\ m \in BranchLike /\ rs1 \in Registers /\ rs2 \in Registers
      /\ parseReg(ins.ops[1]) = Bits(rs1) /\ parseReg(ins.ops[2]) = Bits(rs2)
      /\ f3 \in {0, 1, 4, 5, 6, 7}
  <2>1. m \in NeedThree /\ m \in BranchLike
    BY <1>1 DEF NeedThree, BranchLike
  <2>2. f3 \in {0, 1, 4, 5, 6, 7}
    BY <1>1 DEF BranchMnem
  <2> QED
    BY <1>1, <2>1, <2>2, OperandsAre DEF IsReg
<1>3. words(ins.mnem, ins.ops) = <<encodeB({}, Bits(rs2), Bits(rs1), Bits(f3), BRANCH)>>
  BY <1>1, <1>2, WordsAre
<1>4. PICK a, b : a = start.x[rs1] /\ b = start.x[rs2]
  OBVIOUS
<1>5. Ends1(Goes(start.x, IF taken(f3, a, b) THEN start.pc + offset ELSE start.pc + 4))
  BY <1>1, <1>2, <1>3, <1>4, DoesBranch
<1>6. taken(f3, a, b) <=> Holds(m, Signed(a), Signed(b))
  <2>1. a \in Word /\ b \in Word
    BY <1>2, <1>4 DEF Accepted, Inputs
  <2>2. Signed(a) \in Int /\ Signed(b) \in Int
    BY <2>1, SignedVal
  <2>3. \/ m = "beq" /\ f3 = 0
        \/ m = "bne" /\ f3 = 1
        \/ m = "blt" /\ f3 = 4
        \/ m = "bge" /\ f3 = 5
        \/ m = "bltu" /\ f3 = 6
        \/ m = "bgeu" /\ f3 = 7
    BY <1>1 DEF BranchMnem
  <2>4. PICK k, l : k = Signed(a) /\ l = Signed(b)
    OBVIOUS
  <2>5. /\ taken(0, a, b) <=> k = l
        /\ taken(1, a, b) <=> k # l
        /\ taken(4, a, b) <=> k < l
        /\ taken(5, a, b) <=> k >= l
        /\ taken(6, a, b) <=> Below(k, l)
        /\ taken(7, a, b) <=> ~Below(k, l)
    BY <2>1, <2>4, TakenIs
  <2> QED
    BY <2>2, <2>3, <2>4, <2>5, HoldsIs
<1> QED
  BY <1>1, <1>4, <1>5, <1>6

\* Branches on a register and zero, with x0 on either side of the comparison.
LEMMA MeansBranchZero ==
    ASSUME Accepted, Encodable, ins.mnem \in DOMAIN BranchZ \cup DOMAIN ZBranch
    PROVE  Ends1(Goes(start.x, IF Holds(ins.mnem, Signed(start.x[ins.ops[1].n]), 0)
                               THEN start.pc + offset ELSE start.pc + 4))
<1>1. PICK m, rs : m = ins.mnem /\ rs = ins.ops[1].n
  OBVIOUS
<1>2. /\ m \in Mnemonics /\ m \in BranchLike /\ rs \in Registers /\ 0 \in Registers
      /\ parseReg(ins.ops[1]) = Bits(rs) /\ Bits(0) = {}
  <2>1. m \in NeedTwo /\ m \in BranchLike
    BY <1>1 DEF NeedTwo, BranchLike
  <2> QED
    BY <1>1, <2>1, OperandsAre, BitsConstants DEF IsReg, Registers
<1>3. PICK a : a = start.x[rs]
  OBVIOUS
<1>4. a \in Word /\ {} \in Word /\ start.x[0] = {} /\ Signed({}) = 0 /\ Signed(a) \in Int
  <2>1. a \in Word /\ {} \in Word /\ start.x[0] = {}
    BY <1>2, <1>3 DEF Accepted, Inputs, Word
  <2> QED
    BY <2>1, AddZero, SignedVal
<1>5. CASE m \in DOMAIN BranchZ
  <2>1. PICK f3 : f3 = BranchZ[m]
    OBVIOUS
  <2>2. f3 \in {0, 1, 4, 5, 6, 7}
    BY <1>5, <2>1 DEF BranchZ
  <2>3. words(ins.mnem, ins.ops) = <<encodeB({}, Bits(0), Bits(rs), Bits(f3), BRANCH)>>
    <3>1. words(ins.mnem, ins.ops) = <<encodeB({}, {}, Bits(rs), Bits(f3), BRANCH)>>
      BY <1>1, <1>2, <1>5, <2>1, WordsAre
    <3> QED
      BY <1>2, <3>1
  <2>4. Ends1(Goes(start.x, IF taken(f3, a, {}) THEN start.pc + offset ELSE start.pc + 4))
    <3>1. Ends1(Goes(start.x, IF taken(f3, start.x[rs], start.x[0])
                              THEN start.pc + offset ELSE start.pc + 4))
      BY <1>1, <1>2, <2>2, <2>3, DoesBranch
    <3> QED
      BY <1>3, <1>4, <3>1
  <2>5. taken(f3, a, {}) <=> Holds(m, Signed(a), 0)
    <3>1. \/ m = "beqz" /\ f3 = 0
          \/ m = "bnez" /\ f3 = 1
          \/ m = "bltz" /\ f3 = 4
          \/ m = "bgez" /\ f3 = 5
      BY <1>5, <2>1 DEF BranchZ
    <3>2. PICK k \in Int : k = Signed(a)
      BY <1>4
    <3>3. /\ taken(0, a, {}) <=> k = 0
          /\ taken(1, a, {}) <=> k # 0
          /\ taken(4, a, {}) <=> k < 0
          /\ taken(5, a, {}) <=> k >= 0
      BY <1>4, <3>2, TakenIs
    <3> QED
      BY <3>1, <3>2, <3>3, HoldsIs
  <2> QED
    BY <1>1, <1>3, <2>4, <2>5
<1>6. CASE m \in DOMAIN ZBranch
  <2>1. PICK f3 : f3 = ZBranch[m]
    OBVIOUS
  <2>2. f3 \in {0, 1, 4, 5, 6, 7}
    BY <1>6, <2>1 DEF ZBranch
  <2>3. words(ins.mnem, ins.ops) = <<encodeB({}, Bits(rs), Bits(0), Bits(f3), BRANCH)>>
    <3>1. words(ins.mnem, ins.ops) = <<encodeB({}, Bits(rs), {}, Bits(f3), BRANCH)>>
      BY <1>1, <1>2, <1>6, <2>1, WordsAre
    <3> QED
      BY <1>2, <3>1
  <2>4. Ends1(Goes(start.x, IF taken(f3, {}, a) THEN start.pc + offset ELSE start.pc + 4))
    <3>1. Ends1(Goes(start.x, IF taken(f3, start.x[0], start.x[rs])
                              THEN start.pc + offset ELSE start.pc + 4))
      BY <1>1, <1>2, <2>2, <2>3, DoesBranch
    <3> QED
      BY <1>3, <1>4, <3>1
  <2>5. taken(f3, {}, a) <=> Holds(m, Signed(a), 0)
    <3>1. \/ m = "blez" /\ f3 = 5
          \/ m = "bgtz" /\ f3 = 4
      BY <1>6, <2>1 DEF ZBranch
    <3>2. PICK k \in Int : k = Signed(a)
      BY <1>4
    <3>3. /\ taken(4, {}, a) <=> 0 < k
          /\ taken(5, {}, a) <=> 0 >= k
      BY <1>4, <3>2, TakenIs
    <3> QED
      BY <3>1, <3>2, <3>3, HoldsIs
  <2> QED
    BY <1>1, <1>3, <2>4, <2>5
<1> QED
  BY <1>1, <1>5, <1>6

\* ADDI with a number of 12 bits.
LEMMA ExecAddi ==
    ASSUME NEW i \in Word, signExt(Low(i, 12), 12) = i, NEW rd \in Registers, NEW rs1 \in Registers,
           NEW x \in [Registers -> Word], x[0] = {}, NEW pc
    PROVE  executeOne(encodeI(i, Bits(rs1), {}, Bits(rd), I_ARITH), x, pc) =
              Ends("retired", Put(x, rd, Add(x[rs1], i)), Add(pc, {2}), NoAccess)
<1>1. PICK w : w = encodeI(i, Bits(rs1), Bits(0), Bits(rd), I_ARITH)
  OBVIOUS
<1>2. Bits(0) \in Field(3) /\ Bits(rd) \in Field(5) /\ Bits(rs1) \in Field(5) /\ Bits(0) = {}
  <2>1. 0 \in 0 .. 7
    OBVIOUS
  <2> QED
    BY <2>1, FunctFields, FiveBits, BitsConstants DEF Registers
<1>3. /\ w \in Word /\ decodeOpcode(w) = I_ARITH /\ decodeRd(w) = Bits(rd)
      /\ decodeRs1(w) = Bits(rs1) /\ decodeFunct3(w) = Bits(0) /\ decodeImmI(w) = i
  BY <1>1, <1>2, OpcodeFields, BitsI, IFormat
<1>4. aluI(decodeFunct7(w), 0, x[rs1], i) = Add(x[rs1], i)
  BY DEF aluI, aluR
<1>5. 0 \in 0 .. 7
  OBVIOUS
<1>6. executeOne(w, x, pc) =
         Ends("retired", Put(x, rd, aluI(decodeFunct7(w), 0, x[rs1], decodeImmI(w))),
              Add(pc, {2}), NoAccess)
  BY <1>3, <1>5, ExecI
<1> QED
  BY <1>1, <1>2, <1>3, <1>4, <1>6

\* An instruction of one word that writes one register.
LEMMA OneWord ==
    ASSUME Accepted, ins.mnem \notin Labelled, NEW w, NEW rd, NEW v,
           words(ins.mnem, ins.ops) = <<w>>,
           executeOne(w, start.x, Bits(start.pc)) =
              Ends("retired", Put(start.x, rd, v), Add(Bits(start.pc), {2}), NoAccess)
    PROVE  Ends1(Goes(Written(rd, v), start.pc + 4))
<1>1. Image = <<w>>
  BY ImageIs
<1>2. Len(Image) = 1 /\ Image[1] = w
  BY <1>1
<1>3. First = Goes(Written(rd, v), start.pc + 4)
  BY <1>2, GoesIs, WrittenIs DEF First, Accepted
<1> QED
  BY <1>2, <1>3 DEF Ends1

\* The register file and the registers of the operands, for what follows.
LEMMA FileIs ==
    ASSUME Accepted
    PROVE  /\ start.x \in [Registers -> Word] /\ start.x[0] = {} /\ start.pc \in Int
           /\ 0 \in Registers /\ 1 \in Registers
           /\ Bits(0) = {} /\ Bits(1) = {0} /\ {} \in Word
           /\ \A r \in Registers : start.x[r] \in Word /\ Bits(r) \in Field(5)
  BY BitsConstants, FiveBits DEF Accepted, Inputs, Registers, Word

\* nop leaves everything as it is, and mv copies a register.
LEMMA MeansMove ==
    ASSUME Accepted
    PROVE  /\ ins.mnem = "nop" => Ends1(Goes(start.x, start.pc + 4))
           /\ ins.mnem = "mv" => Ends1(Goes(Written(ins.ops[1].n, start.x[ins.ops[2].n]),
                                            start.pc + 4))
<1>1. PICK x, pc : x = start.x /\ pc = Bits(start.pc)
  OBVIOUS
<1>2. {} \in Word /\ signExt(Low({}, 12), 12) = {}
  BY DEF Word, signExt, Low
<1>3. ins.mnem \in Mnemonics
  BY OperandsAre
<1>4. ASSUME ins.mnem = "nop" PROVE Ends1(Goes(start.x, start.pc + 4))
  <2>1. words(ins.mnem, ins.ops) = <<encodeI({}, {}, {}, {}, I_ARITH)>>
    BY <1>3, <1>4, WordsAre
  <2>2. executeOne(encodeI({}, Bits(0), {}, Bits(0), I_ARITH), x, pc) =
           Ends("retired", Put(x, 0, Add(x[0], {})), Add(pc, {2}), NoAccess)
    BY <1>1, <1>2, FileIs, ExecAddi
  <2>3. executeOne(encodeI({}, {}, {}, {}, I_ARITH), x, pc) =
           Ends("retired", Put(x, 0, Add(x[0], {})), Add(pc, {2}), NoAccess)
    BY <2>2, FileIs
  <2>4. ins.mnem \notin Labelled
    BY <1>4 DEF Labelled, BranchLike, BranchMnem, BranchZ, ZBranch
  <2>5. Ends1(Goes(Written(0, Add(x[0], {})), start.pc + 4))
    BY <1>1, <2>1, <2>3, <2>4, OneWord
  <2> QED
    BY <2>5 DEF Written
<1>5. ASSUME ins.mnem = "mv"
      PROVE  Ends1(Goes(Written(ins.ops[1].n, start.x[ins.ops[2].n]), start.pc + 4))
  <2>1. PICK rd, rs : rd = ins.ops[1].n /\ rs = ins.ops[2].n
    OBVIOUS
  <2>2. IsReg(1) /\ IsReg(2)
    BY <1>5, OperandsAre
  <2>3. rd \in Registers /\ rs \in Registers
    BY <2>1, <2>2 DEF IsReg
  <2>4. words(ins.mnem, ins.ops) = <<encodeI({}, Bits(rs), {}, Bits(rd), I_ARITH)>>
    BY <1>3, <1>5, <2>1, <2>2, WordsAre DEF IsReg
  <2>5. executeOne(encodeI({}, Bits(rs), {}, Bits(rd), I_ARITH), x, pc) =
           Ends("retired", Put(x, rd, Add(x[rs], {})), Add(pc, {2}), NoAccess)
    BY <1>1, <1>2, <2>3, FileIs, ExecAddi
  <2>6. ins.mnem \notin Labelled
    BY <1>5 DEF Labelled, BranchLike, BranchMnem, BranchZ, ZBranch
  <2>7. Ends1(Goes(Written(rd, Add(x[rs], {})), start.pc + 4))
    BY <1>1, <2>4, <2>5, <2>6, OneWord
  <2>8. Add(x[rs], {}) = x[rs]
    BY <1>1, <2>3, FileIs, AddZero
  <2> QED
    BY <1>1, <2>1, <2>7, <2>8
<1> QED
  BY <1>4, <1>5

\* not is an exclusive or with -1, and neg a subtraction from x0.
LEMMA MeansNegate ==
    ASSUME Accepted
    PROVE  LET a == Signed(start.x[ins.ops[2].n]) IN
           /\ ins.mnem = "not" => Ends1(Goes(Written(ins.ops[1].n, Bits(-1 - a)), start.pc + 4))
           /\ ins.mnem = "neg" => Ends1(Goes(Written(ins.ops[1].n, Bits(0 - a)), start.pc + 4))
<1>1. PICK x, pc, rd, rs : /\ x = start.x /\ pc = Bits(start.pc)
                           /\ rd = ins.ops[1].n /\ rs = ins.ops[2].n
  OBVIOUS
<1>2. SUFFICES ASSUME ins.mnem \in {"not", "neg"}
      PROVE  /\ ins.mnem = "not" =>
                   Ends1(Goes(Written(rd, Bits(-1 - Signed(x[rs]))), start.pc + 4))
             /\ ins.mnem = "neg" =>
                   Ends1(Goes(Written(rd, Bits(0 - Signed(x[rs]))), start.pc + 4))
  BY <1>1
<1>3. ins.mnem \in Mnemonics /\ IsReg(1) /\ IsReg(2) /\ ins.mnem \notin Labelled
  <2>1. ins.mnem \notin Labelled
    BY <1>2 DEF Labelled, BranchLike, BranchMnem, BranchZ, ZBranch
  <2> QED
    BY <1>2, <2>1, OperandsAre
<1>4. /\ rd \in Registers /\ rs \in Registers /\ x[rs] \in Word /\ x[0] = {}
      /\ x \in [Registers -> Word] /\ Bits(rd) \in Field(5) /\ Bits(rs) \in Field(5)
      /\ {} \in Word /\ 0 \in Registers /\ Bits(0) = {}
  BY <1>1, <1>3, FileIs DEF IsReg
<1>5. Bits(4) = {2} /\ Bits(4) \in Field(3) /\ Bits(0) \in Field(3) /\ ALT \in Field(7)
  <2>1. 4 \in 0 .. 7 /\ 0 \in 0 .. 7
    OBVIOUS
  <2> QED
    BY <2>1, BitsConstants, FunctFields
<1>6. ASSUME ins.mnem = "not"
      PROVE  Ends1(Goes(Written(rd, Bits(-1 - Signed(x[rs]))), start.pc + 4))
  <2>1. PICK w : w = encodeI(Bit, Bits(rs), Bits(4), Bits(rd), I_ARITH)
    OBVIOUS
  <2>2. words(ins.mnem, ins.ops) = <<w>>
    <3>1. words(ins.mnem, ins.ops) = <<encodeI(Bit, Bits(rs), {2}, Bits(rd), I_ARITH)>>
      BY <1>1, <1>3, <1>6, WordsAre DEF IsReg
    <3> QED
      BY <1>5, <2>1, <3>1
  <2>3. Bit \in Word /\ Fits(Bit, 12)
    BY DEF Word, Fits, Bit
  <2>4. /\ w \in Word /\ decodeOpcode(w) = I_ARITH /\ decodeRd(w) = Bits(rd)
        /\ decodeRs1(w) = Bits(rs) /\ decodeFunct3(w) = Bits(4) /\ decodeImmI(w) = Bit
    BY <1>4, <1>5, <2>1, <2>3, OpcodeFields, BitsI, IFormat
  <2>5. 4 \in 0 .. 7
    OBVIOUS
  <2>6. executeOne(w, x, pc) =
           Ends("retired", Put(x, rd, aluI(decodeFunct7(w), 4, x[rs], decodeImmI(w))),
                Add(pc, {2}), NoAccess)
    BY <1>4, <2>4, <2>5, ExecI
  <2>7. aluI(decodeFunct7(w), 4, x[rs], Bit) = (x[rs] \ Bit) \cup (Bit \ x[rs])
    BY DEF aluI, aluR
  <2>8. (x[rs] \ Bit) \cup (Bit \ x[rs]) = Bit \ x[rs]
    BY <1>4 DEF Word
  <2>9. Bit \ x[rs] = Bits(-1 - Signed(x[rs]))
    BY <1>4, AddSigned
  <2>10. Ends1(Goes(Written(rd, Bit \ x[rs]), start.pc + 4))
    BY <1>1, <1>3, <2>2, <2>4, <2>6, <2>7, <2>8, OneWord
  <2> QED
    BY <2>9, <2>10
<1>7. ASSUME ins.mnem = "neg"
      PROVE  Ends1(Goes(Written(rd, Bits(0 - Signed(x[rs]))), start.pc + 4))
  <2>1. PICK w : w = encodeR(ALT, Bits(rs), Bits(0), Bits(0), Bits(rd), R_TYPE)
    OBVIOUS
  <2>2. words(ins.mnem, ins.ops) = <<w>>
    <3>1. words(ins.mnem, ins.ops) = <<encodeR(ALT, Bits(rs), {}, {}, Bits(rd), R_TYPE)>>
      BY <1>1, <1>3, <1>7, WordsAre DEF IsReg
    <3> QED
      BY <1>4, <2>1, <3>1
  <2>3. Bits(0) \in Field(5) /\ R_TYPE \in Field(7)
    BY <1>4, OpcodeFields DEF Field
  <2>4. w \in Word
    BY <1>4, <1>5, <2>1, <2>3, BitsR
  <2>5. /\ decodeOpcode(w) = R_TYPE /\ decodeRd(w) = Bits(rd) /\ decodeRs1(w) = Bits(0)
        /\ decodeRs2(w) = Bits(rs) /\ decodeFunct3(w) = Bits(0) /\ decodeFunct7(w) = ALT
    BY <1>4, <1>5, <2>1, <2>3, RFormat
  <2>6. PICK f3 \in 0 .. 7, z \in Registers : f3 = 0 /\ f3 \in {0, 5} /\ z = 0
    BY <1>4
  <2>7. executeOne(w, x, pc) =
           Ends("retired", Put(x, rd, aluAlt(0, x[0], x[rs])), Add(pc, {2}), NoAccess)
    <3>1. decodeRs1(w) = Bits(z) /\ decodeFunct3(w) = Bits(f3)
      BY <2>5, <2>6
    <3>2. executeOne(w, x, pc) =
             Ends("retired", Put(x, rd, aluAlt(f3, x[z], x[rs])), Add(pc, {2}), NoAccess)
      BY <1>4, <2>4, <2>5, <2>6, <3>1, ExecR
    <3> QED
      BY <2>6, <3>2
  <2>8. aluAlt(0, x[0], x[rs]) = Sub({}, x[rs])
    BY <1>4 DEF aluAlt
  <2>9. Sub({}, x[rs]) = Bits(Signed({}) - Signed(x[rs])) /\ Signed({}) = 0
    BY <1>4, AddSigned, AddZero
  <2>10. Ends1(Goes(Written(rd, Sub({}, x[rs])), start.pc + 4))
    BY <1>1, <1>3, <2>2, <2>7, <2>8, OneWord
  <2> QED
    BY <2>9, <2>10
<1> QED
  BY <1>6, <1>7

\* Two words, the execution of the second of which ends in e.
Ends2(e) ==
    /\ Len(Image) = 2 /\ First.end = "retired"
    /\ executeOne(Image[2], First.x, First.pc) = e

\* LUI with the upper part and ADDI with the rest leave the whole value.
LEMMA PairLoads ==
    ASSUME Accepted, NEW rd \in Registers, NEW v \in Word,
           Image = <<encodeU(hiPart(v), Bits(rd), LUI),
                     encodeI(loPart(v), Bits(rd), {}, Bits(rd), I_ARITH)>>
    PROVE  Ends2(Goes(Written(rd, v), start.pc + 8))
<1>1. PICK x, pc, h, l : /\ x = start.x /\ pc = Bits(start.pc)
                         /\ h = hiPart(v) /\ l = loPart(v)
  OBVIOUS
<1>2. /\ x \in [Registers -> Word] /\ x[0] = {} /\ Bits(rd) \in Field(5)
      /\ h \in Word /\ l \in Word /\ h \ 0 .. 11 = h /\ Fits(l, 12) /\ Add(h, l) = v
  BY <1>1, FileIs, HiLo
<1>3. PICK u, w : /\ u = encodeU(h, Bits(rd), LUI)
                  /\ w = encodeI(l, Bits(rd), {}, Bits(rd), I_ARITH)
  OBVIOUS
<1>4. Len(Image) = 2 /\ Image[1] = u /\ Image[2] = w
  BY <1>1, <1>3
<1>5. PICK y : y = Put(x, rd, h)
  OBVIOUS
<1>6. First = Ends("retired", y, Add(pc, {2}), NoAccess)
  <2>1. u \in Word /\ decodeOpcode(u) = LUI /\ decodeRd(u) = Bits(rd) /\ decodeImmU(u) = h
    <3>1. LUI \in Field(7)
      BY OpcodeFields
    <3>2. u \in Word
      BY <1>2, <1>3, <3>1, BitsU
    <3>3. decodeOpcode(u) = LUI /\ decodeRd(u) = Bits(rd) /\ decodeImmU(u) = h \ 0 .. 11
      BY <1>2, <1>3, <3>1, UFormat
    <3> QED
      BY <1>2, <3>2, <3>3
  <2>2. executeOne(u, x, pc) = Ends("retired", Put(x, rd, decodeImmU(u)), Add(pc, {2}), NoAccess)
    BY <1>2, <2>1, ExecUpper
  <2> QED
    BY <1>1, <1>4, <1>5, <2>1, <2>2 DEF First
<1>7. y \in [Registers -> Word] /\ y[0] = {} /\ (rd # 0 => y[rd] = h) /\ (rd = 0 => y = x)
  BY <1>2, <1>5 DEF Put, Registers
<1>8. executeOne(w, y, Add(pc, {2})) =
         Ends("retired", Put(y, rd, Add(y[rd], l)), Add(Add(pc, {2}), {2}), NoAccess)
  <2>1. signExt(Low(l, 12), 12) = l
    BY <1>2, SignExtFits
  <2> QED
    BY <1>2, <1>3, <1>7, <2>1, ExecAddi
<1>9. Put(y, rd, Add(y[rd], l)) = Put(x, rd, v)
  <2>1. CASE rd = 0
    BY <1>7, <2>1 DEF Put
  <2>2. CASE rd # 0
    <3>1. Add(y[rd], l) = v
      BY <1>2, <1>7, <2>2
    <3> QED
      BY <1>2, <1>5, <2>2, <3>1 DEF Put
  <2> QED
    BY <2>1, <2>2
<1>10. Add(Add(pc, {2}), {2}) = Bits(start.pc + 8)
  <2>1. PICK p \in Int : p = start.pc
    BY FileIs
  <2>2. {} \in Word /\ p + 4 \in Int /\ (p + 4) + 4 = p + 8
    BY <2>1 DEF Word
  <2>3. Add(Bits(p), {2}) = Bits(p + 4)
    BY <2>2, AddAddress
  <2>4. Add(Bits(p + 4), {2}) = Bits((p + 4) + 4)
    BY <2>2, AddAddress
  <2> QED
    BY <1>1, <2>1, <2>2, <2>3, <2>4
<1>11. First.end = "retired" /\ First.x = y /\ First.pc = Add(pc, {2})
  BY <1>6 DEF Ends
<1>12. executeOne(Image[2], First.x, First.pc) =
          Ends("retired", Put(x, rd, v), Bits(start.pc + 8), NoAccess)
  BY <1>4, <1>8, <1>9, <1>10, <1>11
<1> QED
  BY <1>1, <1>4, <1>11, <1>12, WrittenIs DEF Ends2, Goes

\* li leaves its number, with one word if the number fits an immediate and with
\* two if not.
LEMMA MeansLi ==
    ASSUME Accepted, ins.mnem = "li"
    PROVE  \/ Ends1(Goes(Written(ins.ops[1].n, ins.ops[2].v), start.pc + 4))
           \/ Ends2(Goes(Written(ins.ops[1].n, ins.ops[2].v), start.pc + 8))
<1>1. PICK x, pc, rd, v : /\ x = start.x /\ pc = Bits(start.pc)
                          /\ rd = ins.ops[1].n /\ v = ins.ops[2].v
  OBVIOUS
<1>2. ins.mnem \in Mnemonics /\ IsReg(1) /\ IsImm(2) /\ ins.mnem \notin Labelled
  <2>1. ins.mnem \notin Labelled
    BY DEF Labelled, BranchLike, BranchMnem, BranchZ, ZBranch
  <2>2. ins.mnem \in NeedTwo
    BY DEF NeedTwo
  <2> QED
    BY <2>1, <2>2, OperandsAre
<1>3. rd \in Registers /\ v \in Word /\ parseReg(ins.ops[1]) = Bits(rd) /\ parseImm(ins.ops[2]) = v
  BY <1>1, <1>2 DEF IsReg, IsImm
<1>4. words(ins.mnem, ins.ops) =
         IF signExt(Low(v, 12), 12) = v THEN <<encodeI(v, {}, {}, Bits(rd), I_ARITH)>>
         ELSE <<encodeU(hiPart(v), Bits(rd), LUI),
                encodeI(loPart(v), Bits(rd), {}, Bits(rd), I_ARITH)>>
  BY <1>2, <1>3, WordsAre
<1>5. CASE signExt(Low(v, 12), 12) = v
  <2>1. executeOne(encodeI(v, Bits(0), {}, Bits(rd), I_ARITH), x, pc) =
           Ends("retired", Put(x, rd, Add(x[0], v)), Add(pc, {2}), NoAccess)
    BY <1>1, <1>3, <1>5, FileIs, ExecAddi
  <2>2. executeOne(encodeI(v, {}, {}, Bits(rd), I_ARITH), x, pc) =
           Ends("retired", Put(x, rd, v), Add(pc, {2}), NoAccess)
    <3>1. Bits(0) = {} /\ Add(x[0], v) = v
      BY <1>1, <1>3, FileIs, AddZero
    <3> QED
      BY <2>1, <3>1
  <2>3. words(ins.mnem, ins.ops) = <<encodeI(v, {}, {}, Bits(rd), I_ARITH)>>
    BY <1>4, <1>5
  <2>4. Ends1(Goes(Written(rd, v), start.pc + 4))
    BY <1>1, <1>2, <2>2, <2>3, OneWord
  <2> QED
    BY <1>1, <2>4
<1>6. CASE signExt(Low(v, 12), 12) # v
  <2>1. Image = <<encodeU(hiPart(v), Bits(rd), LUI),
                  encodeI(loPart(v), Bits(rd), {}, Bits(rd), I_ARITH)>>
    BY <1>2, <1>4, <1>6, ImageIs
  <2>2. Ends2(Goes(Written(rd, v), start.pc + 8))
    BY <1>3, <2>1, PairLoads
  <2> QED
    BY <1>1, <2>2
<1> QED
  BY <1>5, <1>6

\* la leaves the address of its label.
LEMMA MeansLa ==
    ASSUME Accepted, ins.mnem = "la"
    PROVE  Ends2(Goes(Written(ins.ops[1].n, Bits(start.pc + offset)), start.pc + 8))
<1>1. PICK rd, t : rd = ins.ops[1].n /\ t = Bits(start.pc + offset)
  OBVIOUS
<1>2. ins.mnem \in Mnemonics /\ IsReg(1) /\ ins.mnem \in Labelled
  <2>1. ins.mnem \in Labelled /\ ins.mnem \in NeedTwo
    BY DEF Labelled, NeedTwo
  <2> QED
    BY <2>1, OperandsAre
<1>3. rd \in Registers /\ t \in Word /\ parseReg(ins.ops[1]) = Bits(rd) /\ Bits(rd) \in Field(5)
  BY <1>1, <1>2, BitsWord, FileIs DEF IsReg
<1>4. PICK old : old = encodeU({}, Bits(rd), LUI)
  OBVIOUS
<1>5. decodeOpcode(old) = LUI /\ decodeRd(old) = Bits(rd)
  BY <1>3, <1>4, FileIs, OpcodeFields, UFormat
<1>6. words(ins.mnem, ins.ops)[1] = old
  <2>1. words(ins.mnem, ins.ops) = <<encodeU({}, Bits(rd), LUI),
                                     encodeI({}, Bits(rd), {}, Bits(rd), I_ARITH)>>
    BY <1>2, <1>3, WordsAre
  <2> QED
    BY <1>4, <2>1
<1>7. Image = patch(old, Bits(offset), t)
  BY <1>1, <1>2, <1>6, ImageIs
<1>8. Image = <<encodeU(hiPart(t), Bits(rd), LUI),
                encodeI(loPart(t), Bits(rd), {}, Bits(rd), I_ARITH)>>
  BY <1>5, <1>7, OpcodeFields DEF patch, ADDI
<1> QED
  BY <1>1, <1>3, <1>8, PairLoads

\* lui and auipc take the number as the upper 20 bits.
LEMMA MeansUpper ==
    ASSUME Accepted
    PROVE  LET v == ins.ops[2].v IN
           /\ ins.mnem = "lui" => Ends1(Goes(Written(ins.ops[1].n, Shl(v, 12)), start.pc + 4))
           /\ ins.mnem = "auipc" =>
                 Ends1(Goes(Written(ins.ops[1].n, Bits(start.pc + 4096 * Signed(v))), start.pc + 4))
<1>1. PICK x, pc, rd, v, s : /\ x = start.x /\ pc = Bits(start.pc)
                             /\ rd = ins.ops[1].n /\ v = ins.ops[2].v /\ s = Shl(v, 12)
  OBVIOUS
<1>2. SUFFICES ASSUME ins.mnem \in {"lui", "auipc"}
      PROVE  /\ ins.mnem = "lui" => Ends1(Goes(Written(rd, s), start.pc + 4))
             /\ ins.mnem = "auipc" =>
                   Ends1(Goes(Written(rd, Bits(start.pc + 4096 * Signed(v))), start.pc + 4))
  BY <1>1
<1>3. ins.mnem \in Mnemonics /\ IsReg(1) /\ IsImm(2) /\ ins.mnem \notin Labelled
  <2>1. ins.mnem \notin Labelled
    BY <1>2 DEF Labelled, BranchLike, BranchMnem, BranchZ, ZBranch
  <2>2. ins.mnem \in NeedTwo
    BY <1>2 DEF NeedTwo
  <2> QED
    BY <2>1, <2>2, OperandsAre
<1>4. /\ rd \in Registers /\ v \in Word /\ parseReg(ins.ops[1]) = Bits(rd)
      /\ parseImm(ins.ops[2]) = v /\ Bits(rd) \in Field(5)
      /\ x \in [Registers -> Word] /\ x[0] = {}
  BY <1>1, <1>3, FileIs DEF IsReg, IsImm
<1>5. s \in Word /\ s \ 0 .. 11 = s
  <2>1. \A b \in s : b \in Bit /\ b > 11
    BY <1>1, <1>4 DEF Shl, Word, Bit
  <2> QED
    BY <2>1 DEF Word, Bit
<1>6. ASSUME NEW op \in {LUI, AUIPC}
      PROVE  LET w == encodeU(s, Bits(rd), op) IN
             w \in Word /\ decodeOpcode(w) = op /\ decodeRd(w) = Bits(rd) /\ decodeImmU(w) = s
  <2>1. op \in Field(7)
    BY OpcodeFields
  <2> QED
    BY <1>4, <1>5, <2>1, BitsU, UFormat
<1>7. ASSUME ins.mnem = "lui" PROVE Ends1(Goes(Written(rd, s), start.pc + 4))
  <2>1. PICK w : w = encodeU(s, Bits(rd), LUI)
    OBVIOUS
  <2>2. words(ins.mnem, ins.ops) = <<w>>
    BY <1>1, <1>3, <1>4, <1>7, <2>1, WordsAre
  <2>3. w \in Word /\ decodeOpcode(w) = LUI /\ decodeRd(w) = Bits(rd) /\ decodeImmU(w) = s
    BY <1>6, <2>1
  <2>4. executeOne(w, x, pc) = Ends("retired", Put(x, rd, s), Add(pc, {2}), NoAccess)
    BY <1>4, <2>3, ExecUpper
  <2> QED
    BY <1>1, <1>3, <2>2, <2>4, OneWord
<1>8. ASSUME ins.mnem = "auipc"
      PROVE  Ends1(Goes(Written(rd, Bits(start.pc + 4096 * Signed(v))), start.pc + 4))
  <2>1. PICK w : w = encodeU(s, Bits(rd), AUIPC)
    OBVIOUS
  <2>2. words(ins.mnem, ins.ops) = <<w>>
    BY <1>1, <1>3, <1>4, <1>8, <2>1, WordsAre
  <2>3. w \in Word /\ decodeOpcode(w) = AUIPC /\ decodeRd(w) = Bits(rd) /\ decodeImmU(w) = s
    BY <1>6, <2>1
  <2>4. executeOne(w, x, pc) = Ends("retired", Put(x, rd, Add(pc, s)), Add(pc, {2}), NoAccess)
    BY <1>4, <2>3, ExecUpper
  <2>5. Ends1(Goes(Written(rd, Add(pc, s)), start.pc + 4))
    BY <1>1, <1>3, <2>2, <2>4, OneWord
  <2>6. Add(pc, s) = Bits(start.pc + 4096 * Signed(v))
    <3>1. PICK p \in Int : p = start.pc
      BY FileIs
    <3>2. Add(Bits(p), Shl(v, 12)) = Bits(p + 4096 * Signed(v))
      BY <1>4, AddAddress
    <3> QED
      BY <1>1, <3>1, <3>2
  <2> QED
    BY <2>5, <2>6
<1> QED
  BY <1>7, <1>8

\* j, call and jal in reach of their label go there; call and jal leave the
\* address of the next instruction.
LEMMA DoesJump ==
    ASSUME Accepted, Encodable, ins.mnem \in {"j", "call", "jal"}, NEW rd \in Registers,
           words(ins.mnem, ins.ops) = <<encodeJ({}, Bits(rd), JAL)>>
    PROVE  Ends1(Goes(Written(rd, Bits(start.pc + 4)), start.pc + offset))
<1>1. PICK x, pc, d : x = start.x /\ pc = Bits(start.pc) /\ d = Bits(offset)
  OBVIOUS
<1>2. /\ x \in [Registers -> Word] /\ x[0] = {} /\ {} \in Word /\ d \in Word
      /\ Bits(rd) \in Field(5) /\ JAL \in Field(7)
  BY <1>1, FileIs, BitsWord, OpcodeFields
<1>3. PICK old : old = encodeJ({}, Bits(rd), JAL)
  OBVIOUS
<1>4. decodeOpcode(old) = JAL /\ decodeRd(old) = Bits(rd)
  BY <1>2, <1>3, JFormat
<1>5. PICK w : w = encodeJ(d, Bits(rd), JAL)
  OBVIOUS
<1>6. Image = <<w>>
  <2>1. ins.mnem \in Labelled
    BY DEF Labelled
  <2>2. words(ins.mnem, ins.ops)[1] = old
    BY <1>3
  <2>3. Image = patch(old, d, Bits(start.pc + offset))
    BY <1>1, <2>1, <2>2, ImageIs
  <2> QED
    BY <1>4, <1>5, <2>3, OpcodeFields DEF patch
<1>7. Fits(d, 21) /\ 0 \notin d
  <2>1. JumpReach(offset)
    BY DEF Encodable
  <2>2. offset \in Int /\ offset % 2 = 0
    BY DEF Accepted, Inputs
  <2> QED
    BY <1>1, <2>1, <2>2, DistanceFits
<1>8. w \in Word
  BY <1>2, <1>5, BitsJ
<1>9. decodeOpcode(w) = JAL /\ decodeRd(w) = Bits(rd) /\ decodeImmJ(w) = d
  BY <1>2, <1>5, <1>7, JFormat
<1>10. executeOne(w, x, pc) = Ends("retired", Put(x, rd, Add(pc, {2})), Add(pc, d), NoAccess)
  BY <1>2, <1>8, <1>9, ExecUpper
<1>11. Len(Image) = 1 /\ Image[1] = w
  BY <1>6
<1>12. First = Ends("retired", Written(rd, Add(pc, {2})), Add(pc, d), NoAccess)
  BY <1>1, <1>10, <1>11, WrittenIs DEF First
<1>13. First = Goes(Written(rd, Bits(start.pc + 4)), start.pc + offset)
  BY <1>1, <1>12, GoesIs DEF Accepted
<1> QED
  BY <1>11, <1>13 DEF Ends1

\* The three jumps with the register they write.
LEMMA MeansJump ==
    ASSUME Accepted, Encodable
    PROVE  /\ ins.mnem = "j" => Ends1(Goes(start.x, start.pc + offset))
           /\ ins.mnem = "call" =>
                 Ends1(Goes(Written(1, Bits(start.pc + 4)), start.pc + offset))
           /\ ins.mnem = "jal" =>
                 Ends1(Goes(Written(ins.ops[1].n, Bits(start.pc + 4)), start.pc + offset))
<1>1. ins.mnem \in Mnemonics /\ 0 \in Registers /\ 1 \in Registers /\ Bits(0) = {} /\ Bits(1) = {0}
  BY OperandsAre, FileIs
<1>2. ASSUME ins.mnem = "j" PROVE Ends1(Goes(start.x, start.pc + offset))
  <2>1. words(ins.mnem, ins.ops) = <<encodeJ({}, {}, JAL)>>
    BY <1>1, <1>2, WordsAre
  <2>2. words(ins.mnem, ins.ops) = <<encodeJ({}, Bits(0), JAL)>>
    BY <1>1, <2>1
  <2>3. Ends1(Goes(Written(0, Bits(start.pc + 4)), start.pc + offset))
    BY <1>1, <1>2, <2>2, DoesJump
  <2> QED
    BY <2>3 DEF Written
<1>3. ASSUME ins.mnem = "call"
      PROVE  Ends1(Goes(Written(1, Bits(start.pc + 4)), start.pc + offset))
  <2>1. words(ins.mnem, ins.ops) = <<encodeJ({}, {0}, JAL)>>
    BY <1>1, <1>3, WordsAre
  <2>2. words(ins.mnem, ins.ops) = <<encodeJ({}, Bits(1), JAL)>>
    BY <1>1, <2>1
  <2> QED
    BY <1>1, <1>3, <2>2, DoesJump
<1>4. ASSUME ins.mnem = "jal"
      PROVE  Ends1(Goes(Written(ins.ops[1].n, Bits(start.pc + 4)), start.pc + offset))
  <2>1. PICK rd : rd = ins.ops[1].n
    OBVIOUS
  <2>2. ins.mnem \in NeedTwo
    BY <1>4 DEF NeedTwo
  <2>3. rd \in Registers /\ parseReg(ins.ops[1]) = Bits(rd)
    BY <2>1, <2>2, OperandsAre DEF IsReg
  <2>4. words(ins.mnem, ins.ops) = <<encodeJ({}, Bits(rd), JAL)>>
    BY <1>1, <1>4, <2>3, WordsAre
  <2> QED
    BY <1>4, <2>1, <2>3, <2>4, DoesJump
<1> QED
  BY <1>2, <1>3, <1>4

\* jalr goes to the sum of register and number, its lowest bit cleared, and
\* leaves the address of the next instruction; ret is the jalr to x1.
LEMMA DoesJalr ==
    ASSUME Accepted, ins.mnem \in {"jalr", "ret"}, NEW rd \in Registers, NEW rs1 \in Registers,
           NEW v \in Word, Fits(v, 12), NEW f3, f3 = {},
           words(ins.mnem, ins.ops) = <<encodeI(v, Bits(rs1), f3, Bits(rd), JALR)>>
    PROVE  Ends1(Goes(Written(rd, Bits(start.pc + 4)),
                      Signed(Add(start.x[rs1], v) \ {0})))
<1>1. PICK x, pc, w : /\ x = start.x /\ pc = Bits(start.pc)
                      /\ w = encodeI(v, Bits(rs1), f3, Bits(rd), JALR)
  OBVIOUS
<1>2. /\ x \in [Registers -> Word] /\ x[0] = {} /\ Bits(rs1) \in Field(5)
      /\ Bits(rd) \in Field(5) /\ f3 \in Field(3) /\ JALR \in Field(7)
  BY <1>1, FileIs, OpcodeFields DEF Field
<1>3. w \in Word
  BY <1>1, <1>2, BitsI
<1>4. /\ decodeOpcode(w) = JALR /\ decodeRd(w) = Bits(rd) /\ decodeRs1(w) = Bits(rs1)
      /\ decodeImmI(w) = v
  BY <1>1, <1>2, IFormat
<1>5. executeOne(w, x, pc) =
         Ends("retired", Put(x, rd, Add(pc, {2})), Add(x[rs1], v) \ {0}, NoAccess)
  BY <1>2, <1>3, <1>4, ExecJalr
<1>6. Image = <<w>>
  <2>1. ins.mnem \notin Labelled
    BY DEF Labelled, BranchLike, BranchMnem, BranchZ, ZBranch
  <2> QED
    BY <1>1, <2>1, ImageIs
<1>7. Len(Image) = 1 /\ Image[1] = w
  BY <1>6
<1>8. PICK t : t = Add(x[rs1], v) \ {0}
  OBVIOUS
<1>9. t \in Word /\ Bits(Signed(t)) = t
  <2>1. t \in Word
    BY <1>8, AddBits DEF Word
  <2> QED
    BY <2>1, BitsSigned
<1>10. First = Ends("retired", Written(rd, Bits(start.pc + 4)), t, NoAccess)
  <2>1. First = executeOne(w, x, pc)
    BY <1>1, <1>7 DEF First
  <2>2. Add(pc, {2}) = Bits(start.pc + 4)
    BY <1>1, GoesIs DEF Accepted
  <2> QED
    BY <1>1, <1>5, <1>8, <2>1, <2>2, WrittenIs
<1>11. First = Goes(Written(rd, Bits(start.pc + 4)), Signed(t))
  BY <1>9, <1>10 DEF Goes
<1> QED
  BY <1>1, <1>7, <1>8, <1>11 DEF Ends1

\* jalr and ret.
LEMMA MeansJalr ==
    ASSUME Accepted, Encodable
    PROVE  /\ ins.mnem = "ret" => Ends1(Goes(start.x, Signed(start.x[1] \ {0})))
           /\ ins.mnem = "jalr" =>
                 Ends1(Goes(Written(ins.ops[1].n, Bits(start.pc + 4)),
                            Signed(Bits(Signed(start.x[ins.ops[2].n]) + Signed(ins.ops[3].v))
                                   \ {0})))
<1>1. ins.mnem \in Mnemonics /\ 0 \in Registers /\ 1 \in Registers /\ Bits(0) = {} /\ Bits(1) = {0}
  BY OperandsAre, FileIs
<1>2. ASSUME ins.mnem = "ret" PROVE Ends1(Goes(start.x, Signed(start.x[1] \ {0})))
  <2>1. words(ins.mnem, ins.ops) = <<encodeI({}, {0}, {}, {}, JALR)>>
    BY <1>1, <1>2, WordsAre
  <2>2. PICK f3, v : f3 = {} /\ v = {}
    OBVIOUS
  <2>3. v \in Word /\ Fits(v, 12)
    BY <2>2 DEF Word, Fits
  <2>4. words(ins.mnem, ins.ops) = <<encodeI(v, Bits(1), f3, Bits(0), JALR)>>
    BY <1>1, <2>1, <2>2
  <2>5. Ends1(Goes(Written(0, Bits(start.pc + 4)), Signed(Add(start.x[1], v) \ {0})))
    BY <1>1, <1>2, <2>2, <2>3, <2>4, DoesJalr
  <2>6. Add(start.x[1], v) = start.x[1]
    BY <1>1, <2>2, FileIs, AddZero
  <2> QED
    BY <2>5, <2>6 DEF Written
<1>3. ASSUME ins.mnem = "jalr"
      PROVE  Ends1(Goes(Written(ins.ops[1].n, Bits(start.pc + 4)),
                        Signed(Bits(Signed(start.x[ins.ops[2].n]) + Signed(ins.ops[3].v)) \ {0})))
  <2>1. PICK rd, rs1, v, f3 : /\ rd = ins.ops[1].n /\ rs1 = ins.ops[2].n /\ v = ins.ops[3].v
                              /\ f3 = {}
    OBVIOUS
  <2>2. ins.mnem \in NeedThree
    BY <1>3 DEF NeedThree
  <2>3. IsReg(1) /\ IsReg(2) /\ IsImm(3)
    BY <2>2, OperandsAre
  <2>4. /\ rd \in Registers /\ rs1 \in Registers /\ v \in Word
        /\ parseReg(ins.ops[1]) = Bits(rd) /\ parseReg(ins.ops[2]) = Bits(rs1)
        /\ parseImm(ins.ops[3]) = v
    BY <2>1, <2>3 DEF IsReg, IsImm
  <2>5. Fits(v, 12)
    <3>1. SmallImm(v)
      BY <1>3, <2>1 DEF Encodable
    <3> QED
      BY <2>4, <3>1, ImmediateFits
  <2>6. words(ins.mnem, ins.ops) = <<encodeI(v, Bits(rs1), f3, Bits(rd), JALR)>>
    BY <1>1, <1>3, <2>1, <2>4, WordsAre
  <2>7. Ends1(Goes(Written(rd, Bits(start.pc + 4)), Signed(Add(start.x[rs1], v) \ {0})))
    BY <1>3, <2>1, <2>4, <2>5, <2>6, DoesJalr
  <2>8. Add(start.x[rs1], v) = Bits(Signed(start.x[rs1]) + Signed(v))
    BY <2>4, FileIs, AddSigned
  <2> QED
    BY <2>1, <2>7, <2>8
<1> QED
  BY <1>2, <1>3

\* ecall and ebreak trap by themselves; the instructions of a privileged mode
\* are illegal.
LEMMA MeansSystem ==
    ASSUME Accepted
    PROVE  /\ ins.mnem = "ecall" =>
                 Ends1(Ends("ECALL_U", start.x, Bits(start.pc), NoAccess))
           /\ ins.mnem = "ebreak" =>
                 Ends1(Ends("BREAKPOINT", start.x, Bits(start.pc), NoAccess))
           /\ ins.mnem \in DOMAIN CsrMnem \cup {"csrr", "mret"} =>
                 Ends1(Ends("ILLEGAL_INSN", start.x, Bits(start.pc), NoAccess))
<1>1. ins.mnem \in Mnemonics
  BY OperandsAre
<1>2. ASSUME ins.mnem \in DOMAIN CsrMnem \cup {"csrr", "mret", "ecall", "ebreak"}
      PROVE  Image = words(ins.mnem, ins.ops)
  <2>1. ins.mnem \notin Labelled
    BY <1>2 DEF CsrMnem, Labelled, BranchLike, BranchMnem, BranchZ, ZBranch
  <2> QED
    BY <2>1, ImageIs
<1>3. ASSUME NEW w \in Word, decodeOpcode(w) = SYSTEM, Image = <<w>>
      PROVE  Ends1(Ends(IF w = ECALL THEN "ECALL_U" ELSE IF w = EBREAK THEN "BREAKPOINT"
                        ELSE "ILLEGAL_INSN", start.x, Bits(start.pc), NoAccess))
  <2>1. Len(Image) = 1 /\ Image[1] = w
    BY <1>3
  <2> QED
    BY <1>3, <2>1, ExecSystem DEF Ends1, First
<1>4. /\ SYSTEM \in Word /\ EBREAK \in Word /\ SYSTEM \cup {21, 28, 29} \in Word
      /\ decodeOpcode(SYSTEM) = SYSTEM /\ decodeOpcode(EBREAK) = SYSTEM
      /\ decodeOpcode(SYSTEM \cup {21, 28, 29}) = SYSTEM
      /\ ECALL = SYSTEM /\ EBREAK # ECALL
      /\ SYSTEM \cup {21, 28, 29} # ECALL /\ SYSTEM \cup {21, 28, 29} # EBREAK
  <2>1. SYSTEM \in Word /\ EBREAK \in Word /\ SYSTEM \cup {21, 28, 29} \in Word
    BY DEF SYSTEM, EBREAK, Word, Bit
  <2>2. decodeOpcode(SYSTEM) = SYSTEM
    BY DEF SYSTEM, decodeOpcode, Low
  <2>3. decodeOpcode(EBREAK) = SYSTEM
    BY DEF SYSTEM, EBREAK, decodeOpcode, Low
  <2>4. decodeOpcode(SYSTEM \cup {21, 28, 29}) = SYSTEM
    BY DEF SYSTEM, decodeOpcode, Low
  <2>5. /\ ECALL = SYSTEM /\ EBREAK # ECALL
        /\ SYSTEM \cup {21, 28, 29} # ECALL /\ SYSTEM \cup {21, 28, 29} # EBREAK
    BY DEF ECALL, EBREAK, SYSTEM
  <2> QED
    BY <2>1, <2>2, <2>3, <2>4, <2>5
<1>5. ASSUME ins.mnem = "ecall"
      PROVE  Ends1(Ends("ECALL_U", start.x, Bits(start.pc), NoAccess))
  <2>1. Image = <<SYSTEM>>
    BY <1>1, <1>2, <1>5, WordsAre
  <2> QED
    BY <1>3, <1>4, <2>1
<1>6. ASSUME ins.mnem = "ebreak"
      PROVE  Ends1(Ends("BREAKPOINT", start.x, Bits(start.pc), NoAccess))
  <2>1. Image = <<EBREAK>>
    BY <1>1, <1>2, <1>6, WordsAre DEF EBREAK
  <2> QED
    BY <1>3, <1>4, <2>1
<1>7. ASSUME ins.mnem = "mret"
      PROVE  Ends1(Ends("ILLEGAL_INSN", start.x, Bits(start.pc), NoAccess))
  <2>1. Image = <<SYSTEM \cup {21, 28, 29}>>
    BY <1>1, <1>2, <1>7, WordsAre
  <2> QED
    BY <1>3, <1>4, <2>1
<1>8. ASSUME ins.mnem \in DOMAIN CsrMnem \cup {"csrr"}
      PROVE  Ends1(Ends("ILLEGAL_INSN", start.x, Bits(start.pc), NoAccess))
  <2>1. \E i \in Word, rs1 \in Field(5), f3 \in Field(3), rd \in Field(5) :
           f3 # {} /\ Image = <<encodeI(i, rs1, f3, rd, SYSTEM)>>
    <3>1. CASE ins.mnem \in DOMAIN CsrMnem
      <4>1. ins.mnem \in NeedThree
        BY <3>1 DEF NeedThree
      <4>2. IsReg(1) /\ IsReg(2) /\ IsImm(3)
        BY <4>1, OperandsAre
      <4>3. PICK i, a, d, k : /\ i = parseImm(ins.ops[3]) /\ a = parseReg(ins.ops[2])
                              /\ d = parseReg(ins.ops[1]) /\ k = CsrMnem[ins.mnem]
        OBVIOUS
      <4>4. i \in Word /\ a \in Field(5) /\ d \in Field(5)
        BY <4>2, <4>3, FileIs DEF IsReg, IsImm
      <4>5. k \in {1, 2, 3} /\ k \in 0 .. 7 /\ k \in 0 .. 31 /\ 0 \in 0 .. 31
        BY <3>1, <4>3 DEF CsrMnem
      <4>6. Bits(k) \in Field(3) /\ Bits(k) # {}
        <5>1. Number(Bits(k)) = k /\ Number(Bits(0)) = 0
          BY <4>5, FiveBits
        <5> QED
          BY <4>5, <5>1, FunctFields, BitsConstants
      <4>7. Image = <<encodeI(i, a, Bits(k), d, SYSTEM)>>
        BY <1>1, <1>2, <3>1, <4>3, WordsAre
      <4> QED
        BY <4>4, <4>6, <4>7
    <3>2. CASE ins.mnem = "csrr"
      <4>1. ins.mnem \in NeedTwo
        BY <3>2 DEF NeedTwo
      <4>2. IsReg(1) /\ IsImm(2)
        BY <4>1, OperandsAre
      <4>3. PICK i, d, f3, a : /\ i = parseImm(ins.ops[2]) /\ d = parseReg(ins.ops[1])
                               /\ f3 = {1} /\ a = {}
        OBVIOUS
      <4>4. i \in Word /\ d \in Field(5) /\ f3 \in Field(3) /\ a \in Field(5) /\ f3 # {}
        BY <4>2, <4>3, FileIs DEF IsReg, IsImm, Field
      <4>5. Image = <<encodeI(i, a, f3, d, SYSTEM)>>
        BY <1>1, <1>2, <3>2, <4>3, WordsAre
      <4> QED
        BY <4>4, <4>5
    <3> QED
      BY <1>8, <3>1, <3>2
  <2>2. PICK i \in Word, rs1 \in Field(5), f3 \in Field(3), rd \in Field(5) :
           f3 # {} /\ Image = <<encodeI(i, rs1, f3, rd, SYSTEM)>>
    BY <2>1
  <2>3. PICK w : w = encodeI(i, rs1, f3, rd, SYSTEM)
    OBVIOUS
  <2>4. w \in Word /\ decodeOpcode(w) = SYSTEM /\ decodeFunct3(w) = f3
    <3>1. SYSTEM \in Field(7)
      BY OpcodeFields
    <3>2. w \in Word
      BY <2>3, <3>1, BitsI
    <3> QED
      BY <2>3, <3>1, <3>2, IFormat
  <2>5. w # ECALL /\ w # EBREAK
    <3>1. decodeFunct3(ECALL) = {} /\ decodeFunct3(EBREAK) = {}
      BY DEF ECALL, EBREAK, SYSTEM, decodeFunct3, Low, Shr, Bit
    <3> QED
      BY <2>2, <2>4, <3>1
  <2>6. Ends1(Ends(IF w = ECALL THEN "ECALL_U" ELSE IF w = EBREAK THEN "BREAKPOINT"
                   ELSE "ILLEGAL_INSN", start.x, Bits(start.pc), NoAccess))
    BY <1>3, <2>2, <2>3, <2>4
  <2> QED
    BY <2>5, <2>6
<1> QED
  BY <1>5, <1>6, <1>7, <1>8

-----------------------------------------------------------------------------
(* Every mnemonic but .word makes instructions, in range or not.           *)

\* A word with the opcode of an instruction.
Proper(w) ==
    /\ w \in Word
    /\ decodeOpcode(w) \in {R_TYPE, I_ARITH, LOAD, STORE, BRANCH, JAL, JALR, LUI, AUIPC, SYSTEM}

\* executeOne halts on the words 0 and 0xFFFFFFFF only, which are no
\* instructions.
LEMMA ProperRuns ==
    ASSUME NEW w, Proper(w), NEW x, NEW pc
    PROVE  executeOne(w, x, pc).end # "halted"
<1>1. w # {} /\ w # Bit
  BY OpcodesProper DEF Proper
<1> QED
  BY <1>1 DEF executeOne, Ends

\* What the encode functions return is an instruction, whatever the fields.
LEMMA EncodedProper ==
    /\ \A a, b, c, d, e \in Word : Proper(encodeR(a, b, c, d, e, R_TYPE))
    /\ \A a, b, c, d \in Word : \A op \in {I_ARITH, LOAD, JALR, SYSTEM} :
          Proper(encodeI(a, b, c, d, op))
    /\ \A a, b, c, d \in Word : Proper(encodeS(a, b, c, d, STORE))
    /\ \A a, b, c, d \in Word : Proper(encodeB(a, b, c, d, BRANCH))
    /\ \A a, b \in Word : \A op \in {LUI, AUIPC} : Proper(encodeU(a, b, op))
    /\ \A a, b \in Word : Proper(encodeJ(a, b, JAL))
  BY OpcodeKept, OpcodeFields DEF Proper

\* The fields taken out of a word are words.
LEMMA DecodedWords ==
    ASSUME NEW w \in Word
    PROVE  /\ decodeRd(w) \in Word /\ decodeRs1(w) \in Word /\ decodeRs2(w) \in Word
           /\ decodeFunct3(w) \in Word
  BY DEF decodeRd, decodeRs1, decodeRs2, decodeFunct3, Low, Shr, Word, Bit

\* The words an accepted instruction leaves, its label resolved, are one or two
\* instructions.
LEMMA ImageProper ==
    ASSUME Accepted, ins.mnem # ".word"
    PROVE  \/ \E w : Proper(w) /\ Image = <<w>>
           \/ \E v, w : Proper(v) /\ Proper(w) /\ Image = <<v, w>>
<1> DEFINE m == ins.mnem
           reg(i) == parseReg(ins.ops[i])
           imm(i) == parseImm(ins.ops[i])
           mem(i) == memReg(ins.ops[i])
           ws == words(ins.mnem, ins.ops)
           d == Bits(offset)
           t == Bits(start.pc + offset)
<1>1. /\ {} \in Word /\ Bit \in Word /\ {0} \in Word /\ {1} \in Word /\ {2} \in Word
      /\ ALT \in Word
  BY DEF Word, Bit, ALT
<1>2. \A i : reg(i) \in Word /\ mem(i) \in Word
  BY <1>1, BitsWord DEF parseReg, memReg
<1>3. /\ m \in Mnemonics
      /\ m \in NeedThree => imm(3) \in Word
      /\ m \in NeedTwo => imm(2) \in Word
  BY OperandsAre DEF IsImm
<1>4. \A v \in Word : /\ hiPart(v) \in Word /\ loPart(v) \in Word
                      /\ immOperand(m, v) \in Word /\ Shl(v, 12) \in Word
  BY HiLo, WordParts DEF immOperand
<1>5. \A n : Bits(n) \in Word
  BY BitsWord
<1>6. /\ m \notin Labelled => Image = ws
      /\ m \in Labelled => Image = patch(ws[1], d, t)
  BY ImageIs
<1>7. d \in Word /\ t \in Word /\ hiPart(t) \in Word /\ loPart(t) \in Word
  BY <1>4, <1>5
<1> HIDE DEF reg, imm, mem, d, t
<1>8. CASE m \in {"j", "call", "jal"}
  <2>1. PICK r \in Word : ws = <<encodeJ({}, r, JAL)>>
    BY <1>1, <1>2, <1>3, <1>8, WordsAre DEF reg, imm, mem
  <2>2. PICK old : old = encodeJ({}, r, JAL)
    OBVIOUS
  <2>3. old \in Word /\ decodeOpcode(old) = JAL
    BY <1>1, <2>2, OpcodeKept, OpcodeFields
  <2>4. Image = <<encodeJ(d, decodeRd(old), JAL)>>
    BY <1>6, <1>8, <2>1, <2>2, <2>3, OpcodeFields DEF patch, Labelled
  <2>5. Proper(encodeJ(d, decodeRd(old), JAL))
    BY <1>7, <2>3, DecodedWords, EncodedProper
  <2> QED
    BY <2>4, <2>5
<1>9. CASE m \in BranchLike
  <2>1. PICK f \in Word, r1 \in Word, r2 \in Word : ws = <<encodeB({}, r2, r1, f, BRANCH)>>
    <3>1. PICK a, b, c \in Word : /\ a = Bits(BranchMnem[m]) /\ b = Bits(BranchZ[m])
                                  /\ c = Bits(ZBranch[m])
      BY <1>5
    <3>2. \/ ws = <<encodeB({}, reg(2), reg(1), a, BRANCH)>>
          \/ ws = <<encodeB({}, {}, reg(1), b, BRANCH)>>
          \/ ws = <<encodeB({}, reg(1), {}, c, BRANCH)>>
      BY <1>3, <1>9, <3>1, WordsAre DEF reg, imm, mem, BranchLike
    <3> QED
      BY <1>1, <1>2, <3>2
  <2>2. PICK old : old = encodeB({}, r2, r1, f, BRANCH)
    OBVIOUS
  <2>3. old \in Word /\ decodeOpcode(old) = BRANCH
    <3>1. BRANCH \in Field(7)
      BY OpcodeFields
    <3>2. \A a, b, c, e \in Word : /\ encodeB(a, b, c, e, BRANCH) \in Word
                                  /\ decodeOpcode(encodeB(a, b, c, e, BRANCH)) = BRANCH
      BY <3>1, OpcodeKept
    <3> QED
      BY <1>1, <2>1, <2>2, <3>2
  <2>4. Image = <<encodeB(d, decodeRs2(old), decodeRs1(old), decodeFunct3(old), BRANCH)>>
    BY <1>6, <1>9, <2>1, <2>2, <2>3, OpcodeFields DEF patch, Labelled
  <2>5. Proper(encodeB(d, decodeRs2(old), decodeRs1(old), decodeFunct3(old), BRANCH))
    BY <1>7, <2>3, DecodedWords, EncodedProper
  <2> QED
    BY <2>4, <2>5
<1>10. CASE m = "la"
  <2>1. PICK r, w : r \in Word /\ ws = <<encodeU({}, r, LUI), w>>
    BY <1>1, <1>2, <1>3, <1>10, WordsAre DEF reg, imm, mem
  <2>2. PICK old : old = encodeU({}, r, LUI)
    OBVIOUS
  <2>3. old \in Word /\ decodeOpcode(old) = LUI
    BY <1>1, <2>1, <2>2, OpcodeKept, OpcodeFields
  <2>4. PICK f : f = decodeRd(old)
    OBVIOUS
  <2>5. Image = <<encodeU(hiPart(t), f, LUI), encodeI(loPart(t), f, {}, f, I_ARITH)>>
    BY <1>6, <1>10, <2>1, <2>2, <2>3, <2>4, OpcodeFields DEF patch, Labelled, ADDI
  <2>6. f \in Word
    BY <2>3, <2>4, DecodedWords
  <2>7. Proper(encodeU(hiPart(t), f, LUI)) /\ Proper(encodeI(loPart(t), f, {}, f, I_ARITH))
    BY <1>1, <1>7, <2>6, EncodedProper
  <2> QED
    BY <2>5, <2>7
<1>11. CASE m = "li"
  <2>1. m \in NeedTwo /\ m \notin Labelled
    BY <1>11 DEF NeedTwo, Labelled, BranchLike, BranchMnem, BranchZ, ZBranch
  <2>2. PICK v \in Word, r \in Word : v = imm(2) /\ r = reg(1)
    BY <1>2, <1>3, <2>1
  <2>3. PICK a, b, c : /\ a = encodeI(v, {}, {}, r, I_ARITH)
                       /\ b = encodeU(hiPart(v), r, LUI)
                       /\ c = encodeI(loPart(v), r, {}, r, I_ARITH)
    OBVIOUS
  <2>4. Image = <<a>> \/ Image = <<b, c>>
    BY <1>3, <1>6, <1>11, <2>1, <2>2, <2>3, WordsAre DEF reg, imm, mem
  <2>5. Proper(a) /\ Proper(b) /\ Proper(c)
    BY <1>1, <1>4, <2>2, <2>3, EncodedProper
  <2> QED
    BY <2>4, <2>5
<1>12. CASE m \notin Labelled /\ m # "li"
  <2>1. \E w : Proper(w) /\ ws = <<w>>
    <3>1. CASE m \in DOMAIN RMnem \cup DOMAIN IMnem \cup DOMAIN CsrMnem \cup {"jalr"}
      <4>1. imm(3) \in Word /\ immOperand(m, imm(3)) \in Word
        BY <1>3, <1>4, <3>1 DEF NeedThree
      <4>2. CASE m \in DOMAIN RMnem
        <5>1. PICK a \in Word, b \in Word : a = Bits(RMnem[m][1]) /\ b = Bits(RMnem[m][2])
          BY <1>5
        <5>2. ws = <<encodeR(a, reg(3), reg(2), b, reg(1), R_TYPE)>>
          BY <1>3, <4>2, <5>1, WordsAre DEF reg, imm, mem
        <5>3. Proper(encodeR(a, reg(3), reg(2), b, reg(1), R_TYPE))
          BY <1>2, EncodedProper
        <5> QED
          BY <5>2, <5>3
      <4>3. CASE m \in DOMAIN IMnem
        <5>1. PICK a \in Word, b \in Word : a = immOperand(m, imm(3)) /\ b = Bits(IMnem[m])
          BY <1>5, <4>1
        <5>2. ws = <<encodeI(a, reg(2), b, reg(1), I_ARITH)>>
          BY <1>3, <4>3, <5>1, WordsAre DEF reg, imm, mem
        <5>3. Proper(encodeI(a, reg(2), b, reg(1), I_ARITH))
          BY <1>2, EncodedProper
        <5> QED
          BY <5>2, <5>3
      <4>4. CASE m \in DOMAIN CsrMnem
        <5>1. PICK b \in Word : b = Bits(CsrMnem[m])
          BY <1>5
        <5>2. ws = <<encodeI(imm(3), reg(2), b, reg(1), SYSTEM)>>
          BY <1>3, <4>4, <5>1, WordsAre DEF reg, imm, mem
        <5>3. Proper(encodeI(imm(3), reg(2), b, reg(1), SYSTEM))
          BY <1>2, <4>1, EncodedProper
        <5> QED
          BY <5>2, <5>3
      <4>5. CASE m = "jalr"
        <5>2. ws = <<encodeI(imm(3), reg(2), {}, reg(1), JALR)>>
          BY <1>3, <4>5, WordsAre DEF reg, imm, mem
        <5>3. Proper(encodeI(imm(3), reg(2), {}, reg(1), JALR))
          BY <1>1, <1>2, <4>1, EncodedProper
        <5> QED
          BY <5>2, <5>3
      <4> QED
        BY <3>1, <4>2, <4>3, <4>4, <4>5
    <3>2. CASE m \in Accesses
      <4>1. imm(2) \in Word
        BY <1>3, <3>2 DEF NeedTwo
      <4>2. CASE m \in DOMAIN LoadMnem
        <5>1. PICK b \in Word : b = Bits(LoadMnem[m])
          BY <1>5
        <5>2. ws = <<encodeI(imm(2), mem(2), b, reg(1), LOAD)>>
          BY <1>3, <4>2, <5>1, WordsAre DEF reg, imm, mem
        <5>3. Proper(encodeI(imm(2), mem(2), b, reg(1), LOAD))
          BY <1>2, <4>1, EncodedProper
        <5> QED
          BY <5>2, <5>3
      <4>3. CASE m \in DOMAIN StoreMnem
        <5>1. PICK b \in Word : b = Bits(StoreMnem[m])
          BY <1>5
        <5>2. ws = <<encodeS(imm(2), reg(1), mem(2), b, STORE)>>
          BY <1>3, <4>3, <5>1, WordsAre DEF reg, imm, mem
        <5>3. Proper(encodeS(imm(2), reg(1), mem(2), b, STORE))
          BY <1>2, <4>1, EncodedProper
        <5> QED
          BY <5>2, <5>3
      <4> QED
        BY <3>2, <4>2, <4>3 DEF Accesses
    <3>3. CASE m \in {"csrr", "lui", "auipc"}
      <4>1. imm(2) \in Word /\ Shl(imm(2), 12) \in Word
        BY <1>3, <1>4, <3>3 DEF NeedTwo
      <4>2. \/ ws = <<encodeI(imm(2), {}, {1}, reg(1), SYSTEM)>>
            \/ ws = <<encodeU(Shl(imm(2), 12), reg(1), LUI)>>
            \/ ws = <<encodeU(Shl(imm(2), 12), reg(1), AUIPC)>>
        BY <1>3, <3>3, WordsAre DEF reg, imm, mem
      <4>3. /\ Proper(encodeI(imm(2), {}, {1}, reg(1), SYSTEM))
            /\ Proper(encodeU(Shl(imm(2), 12), reg(1), LUI))
            /\ Proper(encodeU(Shl(imm(2), 12), reg(1), AUIPC))
        BY <1>1, <1>2, <4>1, EncodedProper
      <4> QED
        BY <4>2, <4>3
    <3>4. CASE m \in {"nop", "ret", "mv", "not", "neg"}
      <4>1. \/ ws = <<encodeI({}, {}, {}, {}, I_ARITH)>>
            \/ ws = <<encodeI({}, {0}, {}, {}, JALR)>>
            \/ ws = <<encodeI({}, reg(2), {}, reg(1), I_ARITH)>>
            \/ ws = <<encodeI(Bit, reg(2), {2}, reg(1), I_ARITH)>>
            \/ ws = <<encodeR(ALT, reg(2), {}, {}, reg(1), R_TYPE)>>
        BY <1>3, <3>4, WordsAre DEF reg, imm, mem
      <4>2. /\ Proper(encodeI({}, {}, {}, {}, I_ARITH))
            /\ Proper(encodeI({}, {0}, {}, {}, JALR))
            /\ Proper(encodeI({}, reg(2), {}, reg(1), I_ARITH))
            /\ Proper(encodeI(Bit, reg(2), {2}, reg(1), I_ARITH))
            /\ Proper(encodeR(ALT, reg(2), {}, {}, reg(1), R_TYPE))
        BY <1>1, <1>2, EncodedProper
      <4> QED
        BY <4>1, <4>2
    <3>5. CASE m \in {"ecall", "ebreak", "mret"}
      <4>1. ws = <<SYSTEM>> \/ ws = <<SYSTEM \cup {20}>> \/ ws = <<SYSTEM \cup {21, 28, 29}>>
        BY <1>3, <3>5, WordsAre DEF reg, imm, mem
      <4>2. /\ SYSTEM \in Word /\ SYSTEM \cup {20} \in Word
            /\ SYSTEM \cup {21, 28, 29} \in Word
        BY DEF Word, Bit, SYSTEM
      <4>3. /\ decodeOpcode(SYSTEM) = SYSTEM /\ decodeOpcode(SYSTEM \cup {20}) = SYSTEM
            /\ decodeOpcode(SYSTEM \cup {21, 28, 29}) = SYSTEM
        BY DEF decodeOpcode, Low, SYSTEM
      <4>4. /\ Proper(SYSTEM) /\ Proper(SYSTEM \cup {20})
            /\ Proper(SYSTEM \cup {21, 28, 29})
        BY <4>2, <4>3 DEF Proper
      <4> QED
        BY <4>1, <4>4
    <3> QED
      BY <1>3, <1>12, <3>1, <3>2, <3>3, <3>4, <3>5
      DEF Mnemonics, NeedThree, NeedTwo, NeedOne, NeedNone, Labelled, BranchLike
  <2> QED
    BY <1>6, <1>12, <2>1
<1> QED
  BY <1>8, <1>9, <1>10, <1>11, <1>12 DEF Labelled

-----------------------------------------------------------------------------
(* From the text to the effect: the inductive invariant.                   *)

\* The hart before the instruction.
Started == now = Ends("start", start.x, Bits(start.pc), NoAccess)

\* Where a behaviour is: before the first word, between two, and at the end.
BeforeFirst  == stage = "words" /\ left = Image /\ Started
BeforeSecond ==
    /\ stage = "words" /\ Len(Image) = 2 /\ left = Tail(Image)
    /\ now = First /\ First.end = "retired"
AfterFirst   ==
    /\ stage = "done" /\ left = Tail(Image) /\ now = First
    /\ Len(Image) = 1 \/ First.end # "retired"
AfterSecond  ==
    /\ stage = "done" /\ Len(Image) = 2 /\ left = <<>>
    /\ First.end = "retired" /\ now = executeOne(Image[2], First.x, First.pc)

\* The hart is where executing the words of the image so far has left it.
IInv ==
    /\ Inputs
    /\ stage \in {"text", "words", "done", "refused"}
    /\ stage \in {"text", "refused"} => Started
    /\ stage \in {"words", "done"} =>
          Accepted /\ (BeforeFirst \/ BeforeSecond \/ AfterFirst \/ AfterSecond)

\* An instruction has one word or two.
LEMMA ImageLength ==
    ASSUME Accepted
    PROVE  (\E w : Image = <<w>>) \/ (\E v, w : Image = <<v, w>>)
<1>1. CASE ins.mnem # ".word"
  BY <1>1, ImageProper
<1>2. CASE ins.mnem = ".word"
  <2>1. ins.mnem \in Mnemonics
    BY OperandsAre
  <2>2. ins.mnem \notin Labelled
    BY <1>2 DEF Labelled, BranchLike, BranchMnem, BranchZ, ZBranch
  <2>3. Image = <<parseImm(ins.ops[1])>>
    BY <1>2, <2>1, <2>2, ImageIs, WordsAre
  <2> QED
    BY <2>3
<1> QED
  BY <1>1, <1>2

\* A sequence of one or two, taken one at a time.
LEMMA OneOrTwo ==
    ASSUME NEW S, NEW s \in Seq(S), Len(s) \in {1, 2}
    PROVE  /\ Head(s) = s[1]
           /\ Len(s) = 1 => Tail(s) = <<>>
           /\ Len(s) = 2 => /\ Tail(s) # <<>> /\ Tail(Tail(s)) = <<>>
                           /\ Head(Tail(s)) = s[2]
<1>1. s # <<>> /\ Head(s) = s[1]
  <2>1. Len(s) # 0
    OBVIOUS
  <2> QED
    BY <2>1, EmptySeq
<1>2. PICK t : t = Tail(s)
  OBVIOUS
<1>3. t \in Seq(S) /\ Len(t) = Len(s) - 1 /\ \A i \in 1 .. Len(t) : t[i] = s[i + 1]
  BY <1>1, <1>2, HeadTailProperties
<1>4. ASSUME Len(s) = 1 PROVE t = <<>>
  <2>1. Len(t) = 0
    BY <1>3, <1>4
  <2> QED
    BY <1>3, <2>1, EmptySeq
<1>5. ASSUME Len(s) = 2 PROVE t # <<>> /\ Tail(t) = <<>> /\ Head(t) = s[2]
  <2>1. Len(t) = 1 /\ t[1] = s[2]
    BY <1>3, <1>5
  <2>2. t # <<>>
    BY <1>3, <2>1, EmptySeq
  <2>3. Head(t) = t[1]
    BY <1>3, <2>1
  <2>4. Tail(t) \in Seq(S) /\ Len(Tail(t)) = 0
    BY <1>3, <2>1, <2>2, HeadTailProperties
  <2>5. Tail(t) = <<>>
    BY <2>4, EmptySeq
  <2> QED
    BY <2>1, <2>2, <2>3, <2>5
<1> QED
  BY <1>1, <1>2, <1>4, <1>5

\* The words of an instruction, taken one at a time.
LEMMA ImageParts ==
    ASSUME Accepted
    PROVE  /\ Len(Image) \in {1, 2} /\ Head(Image) = Image[1]
           /\ Len(Image) = 1 => Tail(Image) = <<>>
           /\ Len(Image) = 2 => /\ Tail(Image) # <<>> /\ Tail(Tail(Image)) = <<>>
                              /\ Head(Tail(Image)) = Image[2]
<1>1. PICK v, w : Image = <<w>> \/ Image = <<v, w>>
  BY ImageLength
<1>2. PICK S : S = {v, w}
  OBVIOUS
<1>3. v \in S /\ w \in S
  BY <1>2
<1>4. Image \in Seq(S) /\ Len(Image) \in {1, 2}
  <2>1. CASE Image = <<w>>
    BY <1>3, <2>1
  <2>2. CASE Image = <<v, w>>
    BY <1>3, <2>2
  <2> QED
    BY <1>1, <2>1, <2>2
<1> QED
  BY <1>4, OneOrTwo

\* Before assembleLine the hart is in its initial state.
LEMMA InitIInv == Init => IInv
<1> SUFFICES ASSUME Init PROVE IInv
  OBVIOUS
<1>1. ins \in Instrs /\ stage = "text" /\ Started
  BY DEF Init, Started
<1>2. PICK x \in RegFiles, pc \in Origins : start = [x |-> x, pc |-> pc]
  BY DEF Init
<1>3. start.x \in [Registers -> Word] /\ start.x[0] = {} /\ start.pc \in Int
  <2>1. start.x = x /\ start.pc = pc
    BY <1>2
  <2>2. x \in [Registers -> Word] /\ x[0] = {} /\ pc \in Nat
    BY InstructionsAssumption
  <2> QED
    BY <2>1, <2>2
<1>4. offset \in Int /\ offset % 2 = 0
  <2>1. offset \in Offsets \/ offset = 0
    BY DEF Init
  <2>2. CASE offset \in Offsets
    BY <2>2, InstructionsAssumption
  <2>3. CASE offset = 0
    BY <2>3
  <2> QED
    BY <2>1, <2>2, <2>3
<1> QED
  BY <1>1, <1>3, <1>4 DEF IInv, Inputs

\* assembleLine, each call of executeOne and the end of the program keep it.
LEMMA NextIInv == IInv /\ [Next]_vars => IInv'
<1> SUFFICES ASSUME IInv, [Next]_vars PROVE IInv'
  OBVIOUS
<1>1. ins' = ins /\ start' = start /\ offset' = offset
  BY DEF Next, Assemble, Execute, Finished, vars
<1>2. /\ Inputs' <=> Inputs
      /\ Accepted' <=> Accepted
      /\ Image' = Image
      /\ First' = First
  <2>1. Image' = Image
    BY <1>1 DEF Image, Patched
  <2>2. First' = First
    BY <1>1, <2>1 DEF First
  <2>3. Inputs' <=> Inputs
    BY <1>1 DEF Inputs
  <2>4. Accepted' <=> Accepted
    BY <1>1, <2>3 DEF Accepted
  <2> QED
    BY <2>1, <2>2, <2>3, <2>4
<1>3. CASE Assemble
  <2>1. stage = "text" /\ Started /\ Inputs /\ now' = now
    BY <1>3 DEF Assemble, IInv
  <2>2. Started'
    BY <1>1, <2>1 DEF Started
  <2>3. CASE assemble(ins.mnem, ins.ops).error
    <3>1. stage' = "refused"
      BY <1>3, <2>3 DEF Assemble
    <3> QED
      BY <1>2, <2>1, <2>2, <3>1 DEF IInv
  <2>4. CASE ~assemble(ins.mnem, ins.ops).error
    <3>1. stage' = "words" /\ left' = Image
      BY <1>3, <2>4 DEF Assemble, Image
    <3>2. Accepted
      BY <2>1, <2>4 DEF Accepted
    <3>3. BeforeFirst'
      BY <1>2, <2>2, <3>1 DEF BeforeFirst
    <3> QED
      BY <1>2, <2>1, <3>1, <3>2, <3>3 DEF IInv
  <2> QED
    BY <2>3, <2>4
<1>4. CASE Execute
  <2>1. stage = "words" /\ Inputs /\ Accepted /\ (BeforeFirst \/ BeforeSecond)
    BY <1>4 DEF Execute, IInv, AfterFirst, AfterSecond
  <2>2. /\ now' = executeOne(Head(left), now.x, now.pc) /\ left' = Tail(left)
        /\ stage' = IF Tail(left) = <<>> \/ now'.end # "retired" THEN "done" ELSE "words"
    BY <1>4 DEF Execute
  <2>3. CASE BeforeFirst
    <3>1. left = Image /\ now.x = start.x /\ now.pc = Bits(start.pc)
      BY <2>3 DEF BeforeFirst, Started, Ends
    <3>2. Head(Image) = Image[1]
      BY <2>1, ImageParts
    <3>3. now' = First /\ left' = Tail(Image)
      BY <2>2, <3>1, <3>2 DEF First
    <3>4. CASE Len(Image) = 1 \/ First.end # "retired"
      <4>1. stage' = "done"
        <5>1. Len(Image) = 1 => Tail(Image) = <<>>
          BY <2>1, ImageParts
        <5> QED
          BY <2>2, <3>1, <3>3, <3>4, <5>1
      <4>2. AfterFirst'
        BY <1>2, <3>3, <3>4, <4>1 DEF AfterFirst
      <4> QED
        BY <1>2, <2>1, <4>1, <4>2 DEF IInv
    <3>5. CASE ~(Len(Image) = 1 \/ First.end # "retired")
      <4>1. Len(Image) = 2 /\ Tail(Image) # <<>>
        BY <2>1, <3>5, ImageParts
      <4>2. stage' = "words"
        BY <2>2, <3>1, <3>3, <3>5, <4>1
      <4>3. BeforeSecond'
        BY <1>2, <3>3, <3>5, <4>1, <4>2 DEF BeforeSecond
      <4> QED
        BY <1>2, <2>1, <4>2, <4>3 DEF IInv
    <3> QED
      BY <3>4, <3>5
  <2>4. CASE BeforeSecond
    <3>1. /\ Len(Image) = 2 /\ left = Tail(Image) /\ now = First /\ First.end = "retired"
      BY <2>4 DEF BeforeSecond
    <3>2. Head(Tail(Image)) = Image[2] /\ Tail(Tail(Image)) = <<>>
      BY <2>1, <3>1, ImageParts
    <3>3. stage' = "done" /\ left' = <<>> /\ now' = executeOne(Image[2], First.x, First.pc)
      BY <2>2, <3>1, <3>2
    <3>4. AfterSecond'
      BY <1>2, <3>1, <3>3 DEF AfterSecond
    <3> QED
      BY <1>2, <2>1, <3>3, <3>4 DEF IInv
  <2> QED
    BY <2>1, <2>3, <2>4
<1>5. CASE UNCHANGED vars
  <2>1. stage' = stage /\ left' = left /\ now' = now
    BY <1>5 DEF vars
  <2>2. /\ Started' <=> Started
        /\ BeforeFirst' <=> BeforeFirst
        /\ BeforeSecond' <=> BeforeSecond
        /\ AfterFirst' <=> AfterFirst
        /\ AfterSecond' <=> AfterSecond
    <3>1. Started' <=> Started
      BY <1>1, <2>1 DEF Started
    <3>2. BeforeFirst' <=> BeforeFirst
      BY <1>2, <2>1, <3>1 DEF BeforeFirst
    <3>3. BeforeSecond' <=> BeforeSecond
      BY <1>2, <2>1 DEF BeforeSecond
    <3>4. AfterFirst' <=> AfterFirst
      BY <1>2, <2>1 DEF AfterFirst
    <3>5. AfterSecond' <=> AfterSecond
      BY <1>2, <2>1 DEF AfterSecond
    <3> QED
      BY <3>1, <3>2, <3>3, <3>4, <3>5
  <2> QED
    BY <1>2, <2>1, <2>2 DEF IInv
<1> QED
  BY <1>3, <1>4, <1>5 DEF Next, Finished

\* Every state a behaviour reaches is one of these.
LEMMA SpecIInv == Spec => []IInv
<1>1. Init => IInv
  BY InitIInv
<1>2. IInv /\ [Next]_vars => IInv'
  BY NextIInv
<1> QED
  BY <1>1, <1>2, PTL DEF Spec

-----------------------------------------------------------------------------
(* The theorems.                                                           *)

\* The words of an instruction that fits its format do what it means: the one
\* word, or the first and then the second.
DoesOne == Len(Image) = 1 /\ (Size = 1 => First = Meaning)
DoesTwo ==
    /\ Len(Image) = 2 /\ First.end = "retired"
    /\ Size = 2 => executeOne(Image[2], First.x, First.pc) = Meaning

\* Every mnemonic but .word, class by class.
LEMMA MeansAll ==
    ASSUME Accepted, Encodable, ins.mnem # ".word"
    PROVE  DoesOne \/ DoesTwo
<1> DEFINE m == ins.mnem
           pc == start.pc
<1>1. pc \in Int /\ m \in Mnemonics
  BY FileIs, OperandsAre
<1>2. (Size = 1 => pc + 4 * Size = pc + 4) /\ (Size = 2 => pc + 4 * Size = pc + 8)
  BY <1>1
<1> HIDE DEF pc
<1>3. \A e : Ends1(e) /\ (Size = 1 => Meaning = e) => DoesOne
  BY DEF Ends1, DoesOne
<1>4. \A e : Ends2(e) /\ (Size = 2 => Meaning = e) => DoesTwo
  BY DEF Ends2, DoesTwo
<1>5. CASE m \in DOMAIN RMnem
  <2>1. PICK r : r = Written(ins.ops[1].n, Result(m, start.x[ins.ops[2].n],
                                                  start.x[ins.ops[3].n]))
    OBVIOUS
  <2>2. Ends1(Goes(r, pc + 4))
    BY <1>5, <2>1, DoesR DEF pc
  <2>3. Meaning = Goes(r, pc + 4 * Size)
    <3>1. Meaning = Goes(Written(ins.ops[1].n, Result(m, start.x[ins.ops[2].n],
                                                      start.x[ins.ops[3].n])),
                         start.pc + 4 * Size)
      BY <1>5, MeaningIs
    <3> QED
      BY <2>1, <3>1 DEF pc
  <2> QED
    BY <1>2, <1>3, <2>2, <2>3
<1>6. CASE m \in DOMAIN IMnem
  <2>1. PICK r : r = Written(ins.ops[1].n, Result(RegisterForm[m], start.x[ins.ops[2].n],
                                                  ins.ops[3].v))
    OBVIOUS
  <2>2. Ends1(Goes(r, pc + 4))
    BY <1>6, <2>1, DoesI DEF pc
  <2>3. Meaning = Goes(r, pc + 4 * Size)
    <3>1. Meaning = Goes(Written(ins.ops[1].n, Result(RegisterForm[m], start.x[ins.ops[2].n],
                                                      ins.ops[3].v)),
                         start.pc + 4 * Size)
      BY <1>6, MeaningIs
    <3> QED
      BY <2>1, <3>1 DEF pc
  <2> QED
    BY <1>2, <1>3, <2>2, <2>3
<1>7. CASE m \in BranchLike
  <2>1. CASE m \in DOMAIN BranchMnem
    <3>1. PICK t : t = IF Holds(m, Signed(start.x[ins.ops[1].n]), Signed(start.x[ins.ops[2].n]))
                       THEN pc + offset ELSE pc + 4
      OBVIOUS
    <3>2. Ends1(Goes(start.x, t))
      BY <2>1, <3>1, MeansBranch DEF pc
    <3>3. Meaning = Goes(start.x, t)
      <4>1. Meaning = Goes(start.x, IF Holds(m, Signed(start.x[ins.ops[1].n]),
                                             Signed(start.x[ins.ops[2].n]))
                                    THEN start.pc + offset ELSE start.pc + 4)
        BY <2>1, MeaningIs
      <4> QED
        BY <3>1, <4>1 DEF pc
    <3> QED
      BY <1>3, <3>2, <3>3
  <2>2. CASE m \in DOMAIN BranchZ \cup DOMAIN ZBranch
    <3>1. PICK t : t = IF Holds(m, Signed(start.x[ins.ops[1].n]), 0)
                       THEN pc + offset ELSE pc + 4
      OBVIOUS
    <3>2. Ends1(Goes(start.x, t))
      BY <2>2, <3>1, MeansBranchZero DEF pc
    <3>3. Meaning = Goes(start.x, t)
      <4>1. Meaning = Goes(start.x, IF Holds(m, Signed(start.x[ins.ops[1].n]), 0)
                                    THEN start.pc + offset ELSE start.pc + 4)
        BY <2>2, MeaningIs
      <4> QED
        BY <3>1, <4>1 DEF pc
    <3> QED
      BY <1>3, <3>2, <3>3
  <2> QED
    BY <1>7, <2>1, <2>2 DEF BranchLike
<1>8. CASE m \in Accesses
  <2>1. CASE m \in DOMAIN LoadMnem
    <3>1. Ends1(Ends("retired", start.x, Bits(pc + 4), Accessed("LOAD")))
      BY <2>1, DoesLoad DEF pc
    <3>2. Meaning = Ends("retired", start.x, Bits(pc + 4 * Size), Accessed("LOAD"))
      BY <2>1, MeaningIs DEF pc
    <3> QED
      BY <1>2, <1>3, <3>1, <3>2
  <2>2. CASE m \in DOMAIN StoreMnem
    <3>1. Ends1(Ends("retired", start.x, Bits(pc + 4), Accessed("STORE")))
      BY <2>2, DoesStore DEF pc
    <3>2. Meaning = Ends("retired", start.x, Bits(pc + 4 * Size), Accessed("STORE"))
      BY <2>2, MeaningIs DEF pc
    <3> QED
      BY <1>2, <1>3, <3>1, <3>2
  <2> QED
    BY <1>8, <2>1, <2>2 DEF Accesses
<1>9. CASE m \in {"nop", "mv", "not", "neg", "lui", "auipc"}
  <2>1. \E r : Ends1(Goes(r, pc + 4)) /\ Meaning = Goes(r, pc + 4 * Size)
    <3>1. CASE m = "nop"
      <4>1. PICK r : r = start.x
        OBVIOUS
      <4>2. Ends1(Goes(r, start.pc + 4))
        BY <3>1, <4>1, MeansMove
      <4>3. Meaning = Goes(r, start.pc + 4 * Size)
        BY <3>1, <4>1, MeaningIs
      <4> QED
        BY <4>2, <4>3 DEF pc
    <3>2. CASE m = "mv"
      <4>1. PICK r : r = Written(ins.ops[1].n, start.x[ins.ops[2].n])
        OBVIOUS
      <4>2. Ends1(Goes(r, start.pc + 4))
        BY <3>2, <4>1, MeansMove
      <4>3. Meaning = Goes(r, start.pc + 4 * Size)
        <5>1. Meaning = Goes(Written(ins.ops[1].n, start.x[ins.ops[2].n]), start.pc + 4 * Size)
          BY <3>2, MeaningIs
        <5> QED
          BY <4>1, <5>1
      <4> QED
        BY <4>2, <4>3 DEF pc
    <3>3. CASE m = "not"
      <4>1. PICK r : r = Written(ins.ops[1].n, Bits(-1 - Signed(start.x[ins.ops[2].n])))
        OBVIOUS
      <4>2. Ends1(Goes(r, start.pc + 4))
        <5>1. Ends1(Goes(Written(ins.ops[1].n, Bits(-1 - Signed(start.x[ins.ops[2].n]))),
                         start.pc + 4))
          BY <3>3, MeansNegate
        <5> QED
          BY <4>1, <5>1
      <4>3. Meaning = Goes(r, start.pc + 4 * Size)
        <5>1. Meaning = Goes(Written(ins.ops[1].n, Bits(-1 - Signed(start.x[ins.ops[2].n]))),
                             start.pc + 4 * Size)
          BY <3>3, MeaningIs
        <5> QED
          BY <4>1, <5>1
      <4> QED
        BY <4>2, <4>3 DEF pc
    <3>4. CASE m = "neg"
      <4>1. PICK r : r = Written(ins.ops[1].n, Bits(0 - Signed(start.x[ins.ops[2].n])))
        OBVIOUS
      <4>2. Ends1(Goes(r, start.pc + 4))
        <5>1. Ends1(Goes(Written(ins.ops[1].n, Bits(0 - Signed(start.x[ins.ops[2].n]))),
                         start.pc + 4))
          BY <3>4, MeansNegate
        <5> QED
          BY <4>1, <5>1
      <4>3. Meaning = Goes(r, start.pc + 4 * Size)
        <5>1. Meaning = Goes(Written(ins.ops[1].n, Bits(0 - Signed(start.x[ins.ops[2].n]))),
                             start.pc + 4 * Size)
          BY <3>4, MeaningIs
        <5> QED
          BY <4>1, <5>1
      <4> QED
        BY <4>2, <4>3 DEF pc
    <3>5. CASE m = "lui"
      <4>1. PICK r : r = Written(ins.ops[1].n, Shl(ins.ops[2].v, 12))
        OBVIOUS
      <4>2. Ends1(Goes(r, start.pc + 4))
        <5>1. Ends1(Goes(Written(ins.ops[1].n, Shl(ins.ops[2].v, 12)), start.pc + 4))
          BY <3>5, MeansUpper
        <5> QED
          BY <4>1, <5>1
      <4>3. Meaning = Goes(r, start.pc + 4 * Size)
        <5>1. Meaning = Goes(Written(ins.ops[1].n, Shl(ins.ops[2].v, 12)),
                             start.pc + 4 * Size)
          BY <3>5, MeaningIs
        <5> QED
          BY <4>1, <5>1
      <4> QED
        BY <4>2, <4>3 DEF pc
    <3>6. CASE m = "auipc"
      <4>1. PICK r : r = Written(ins.ops[1].n,
                                    Bits(start.pc + 4096 * Signed(ins.ops[2].v)))
        OBVIOUS
      <4>2. Ends1(Goes(r, start.pc + 4))
        <5>1. Ends1(Goes(Written(ins.ops[1].n, Bits(start.pc + 4096 * Signed(ins.ops[2].v))),
                         start.pc + 4))
          BY <3>6, MeansUpper
        <5> QED
          BY <4>1, <5>1
      <4>3. Meaning = Goes(r, start.pc + 4 * Size)
        <5>1. Meaning = Goes(Written(ins.ops[1].n, Bits(start.pc + 4096 * Signed(ins.ops[2].v))),
                             start.pc + 4 * Size)
          BY <3>6, MeaningIs
        <5> QED
          BY <4>1, <5>1
      <4> QED
        BY <4>2, <4>3 DEF pc
    <3> QED
      BY <1>9, <3>1, <3>2, <3>3, <3>4, <3>5, <3>6
  <2> QED
    BY <1>2, <1>3, <2>1
<1>10. CASE m = "li"
  <2>1. PICK r : r = Written(ins.ops[1].n, ins.ops[2].v)
    OBVIOUS
  <2>2. Ends1(Goes(r, pc + 4)) \/ Ends2(Goes(r, pc + 8))
    BY <1>10, <2>1, MeansLi DEF pc
  <2>3. Meaning = Goes(r, pc + 4 * Size)
    BY <1>10, <2>1, MeaningIs DEF pc
  <2> QED
    BY <1>2, <1>3, <1>4, <2>2, <2>3
<1>11. CASE m = "la"
  <2>1. PICK r : r = Written(ins.ops[1].n, Bits(pc + offset))
    OBVIOUS
  <2>2. Ends2(Goes(r, pc + 8))
    BY <1>11, <2>1, MeansLa DEF pc
  <2>3. Meaning = Goes(r, pc + 4 * Size)
    BY <1>11, <2>1, MeaningIs DEF pc
  <2> QED
    BY <1>2, <1>4, <2>2, <2>3
<1>12. CASE m \in {"j", "call", "jal", "jalr", "ret"}
  <2>1. CASE m = "j"
    BY <1>3, <2>1, MeansJump, MeaningIs
  <2>2. CASE m = "call"
    <3>1. Ends1(Goes(Written(1, Bits(pc + 4)), pc + offset))
      BY <2>2, MeansJump DEF pc
    <3>2. Meaning = Goes(Written(1, Bits(pc + 4 * Size)), pc + offset)
      BY <2>2, MeaningIs DEF pc
    <3> QED
      BY <1>2, <1>3, <3>1, <3>2
  <2>3. CASE m = "jal"
    <3>1. Ends1(Goes(Written(ins.ops[1].n, Bits(pc + 4)), pc + offset))
      BY <2>3, MeansJump DEF pc
    <3>2. Meaning = Goes(Written(ins.ops[1].n, Bits(pc + 4 * Size)), pc + offset)
      BY <2>3, MeaningIs DEF pc
    <3> QED
      BY <1>2, <1>3, <3>1, <3>2
  <2>4. CASE m = "jalr"
    <3>1. PICK t : t = Signed(Bits(Signed(start.x[ins.ops[2].n]) + Signed(ins.ops[3].v)) \ {0})
      OBVIOUS
    <3>2. Ends1(Goes(Written(ins.ops[1].n, Bits(pc + 4)), t))
      BY <2>4, <3>1, MeansJalr DEF pc
    <3>3. Meaning = Goes(Written(ins.ops[1].n, Bits(pc + 4 * Size)), t)
      <4>1. Meaning = Goes(Written(ins.ops[1].n, Bits(start.pc + 4 * Size)),
                           Signed(Bits(Signed(start.x[ins.ops[2].n]) + Signed(ins.ops[3].v))
                                  \ {0}))
        BY <2>4, MeaningIs
      <4> QED
        BY <3>1, <4>1 DEF pc
    <3> QED
      BY <1>2, <1>3, <3>2, <3>3
  <2>5. CASE m = "ret"
    BY <1>3, <2>5, MeansJalr, MeaningIs
  <2> QED
    BY <1>12, <2>1, <2>2, <2>3, <2>4, <2>5
<1>13. CASE m \in DOMAIN CsrMnem \cup {"csrr", "mret", "ecall", "ebreak"}
  <2>1. CASE m = "ecall"
    BY <1>3, <2>1, MeansSystem, MeaningIs
  <2>2. CASE m = "ebreak"
    BY <1>3, <2>2, MeansSystem, MeaningIs
  <2>3. CASE m \in DOMAIN CsrMnem \cup {"csrr", "mret"}
    BY <1>3, <2>3, MeansSystem, MeaningIs
  <2> QED
    BY <1>13, <2>1, <2>2, <2>3
<1> QED
  BY <1>1, <1>5, <1>6, <1>7, <1>8, <1>9, <1>10, <1>11, <1>12, <1>13
  DEF Mnemonics, NeedThree, NeedTwo, NeedOne, NeedNone, BranchLike

\* For every instruction, register file, address and distance: what executeOne
\* does with the words assembleLine and resolveLabels made of an instruction
\* that fits its format is what its mnemonic says.
THEOREM MeansCorrect == Spec => []MeansWhatItSays
<1>1. IInv => MeansWhatItSays
  <2> SUFFICES ASSUME IInv, stage = "done", Encodable, ins.mnem # ".word"
               PROVE  now = Meaning
    BY DEF MeansWhatItSays
  <2>1. Accepted /\ (AfterFirst \/ AfterSecond)
    BY DEF IInv, BeforeFirst, BeforeSecond
  <2>2. DoesOne \/ DoesTwo
    BY <2>1, MeansAll
  <2>3. left = <<>> => Size = Len(Image)
    BY DEF Size, Image
  <2>4. CASE DoesOne
    <3>1. Len(Image) = 1 /\ AfterFirst
      BY <2>1, <2>4 DEF DoesOne, AfterSecond
    <3>2. left = <<>> /\ now = First
      BY <2>1, <3>1, ImageParts DEF AfterFirst
    <3> QED
      BY <2>3, <2>4, <3>1, <3>2 DEF DoesOne
  <2>5. CASE DoesTwo
    <3>1. Len(Image) = 2 /\ AfterSecond
      BY <2>1, <2>5 DEF DoesTwo, AfterFirst
    <3>2. left = <<>> /\ now = executeOne(Image[2], First.x, First.pc)
      BY <3>1 DEF AfterSecond
    <3> QED
      BY <2>3, <2>5, <3>1, <3>2 DEF DoesTwo
  <2> QED
    BY <2>2, <2>4, <2>5
<1> QED
  BY <1>1, SpecIInv, PTL

\* For every instruction but .word, its operands in range or not: executeOne
\* never stops the hart on a word the assembler made of it.
THEOREM NeverHaltsCorrect == Spec => []NeverHalts
<1>1. IInv => NeverHalts
  <2> SUFFICES ASSUME IInv, ins.mnem # ".word"
               PROVE  now.end # "halted"
    BY DEF NeverHalts
  <2>1. CASE Started
    BY <2>1 DEF Started, Ends
  <2>2. CASE ~Started
    <3>1. Accepted /\ (now = First \/ AfterSecond)
      BY <2>2 DEF IInv, BeforeFirst, BeforeSecond, AfterFirst
    <3>2. Proper(Image[1]) /\ (Len(Image) = 2 => Proper(Image[2]))
      <4>1. CASE \E w : Proper(w) /\ Image = <<w>>
        <5>1. PICK w : Proper(w) /\ Image = <<w>>
          BY <4>1
        <5>2. Image[1] = w /\ Len(Image) = 1
          BY <5>1
        <5> QED
          BY <5>1, <5>2
      <4>2. CASE \E v, w : Proper(v) /\ Proper(w) /\ Image = <<v, w>>
        <5>1. PICK v, w : Proper(v) /\ Proper(w) /\ Image = <<v, w>>
          BY <4>2
        <5>2. Image[1] = v /\ Image[2] = w
          BY <5>1
        <5> QED
          BY <5>1, <5>2
      <4> QED
        BY <3>1, <4>1, <4>2, ImageProper
    <3>3. First.end # "halted"
      BY <3>2, ProperRuns DEF First
    <3>4. ASSUME AfterSecond PROVE now.end # "halted"
      BY <3>2, <3>4, ProperRuns DEF AfterSecond
    <3> QED
      BY <3>1, <3>3, <3>4
  <2> QED
    BY <2>1, <2>2
<1> QED
  BY <1>1, SpecIInv, PTL
=============================================================================
