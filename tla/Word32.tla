------------------------------- MODULE Word32 -------------------------------
(***************************************************************************)
(* 32-bit words as sets of bit positions, and the C++ operators on int32_t *)
(* and uint32_t the emulator applies to them.  Bitwise and, or and not are *)
(* \cap, \cup and Bit \ w; a cast between the two types changes nothing.   *)
(* Nothing is scaled down and nothing overflows TLC's integers.            *)
(***************************************************************************)
EXTENDS Integers

Bit == 0 .. 31
Word == SUBSET Bit

Shl(w, n) == {b \in Bit : b - n \in w}      \* w << n
Shr(w, n) == {b \in Bit : b + n \in w}      \* w >> n, unsigned
Low(w, n) == {b \in w : b < n}              \* w & (2^n - 1)

\* w >> n, signed
Sra(w, n) == Shr(w, n) \cup IF 31 \in w THEN {b \in Bit : b + n > 31} ELSE {}

\* Addition modulo 2^32: a ripple of carries.
Add(a, b) ==
    LET carry[i \in 0 .. 32] ==
            /\ i > 0
            /\ \/ i - 1 \in a /\ i - 1 \in b
               \/ (i - 1 \in a \/ i - 1 \in b) /\ carry[i - 1]
    IN  {i \in Bit : (i \in a) # ((i \in b) # carry[i])}

Sub(a, b) == Add(Add(a, Bit \ b), {0})

\* a < b, unsigned: the highest bit in which they differ is b's.
Ltu(a, b) == \E i \in b \ a : \A j \in Bit : j > i => (j \in a <=> j \in b)

Flip(w) == IF 31 \in w THEN w \ {31} ELSE w \cup {31}

Lt(a, b) == Ltu(Flip(a), Flip(b))           \* a < b, signed

\* The word of an integer, modulo 2^32.
Bits(n) ==
    {b \in 0 .. 30 : (n \div 2^b) % 2 = 1} \cup IF (n \div 2^30) % 4 > 1 THEN {31} ELSE {}
=============================================================================
