------------------------------- MODULE Encode -------------------------------
(***************************************************************************)
(* encode.h: instruction words put together from their fields and taken    *)
(* apart again.  Every argument is a word, register numbers included.      *)
(***************************************************************************)
EXTENDS Word32

(* Opcodes.                                                                *)
R_TYPE  == {0, 1, 4, 5}
I_ARITH == {0, 1, 4}
LOAD    == {0, 1}
STORE   == {0, 1, 5}
BRANCH  == {0, 1, 5, 6}
JAL     == {0, 1, 2, 3, 5, 6}
JALR    == {0, 1, 2, 5, 6}
LUI     == {0, 1, 2, 4, 5}
AUIPC   == {0, 1, 2, 4}
SYSTEM  == {0, 1, 4, 5, 6}

(* funct7.                                                                 *)
NORMAL == {}
ALT    == {5}

-----------------------------------------------------------------------------
encodeR(funct7, rs2, rs1, funct3, rd, opcode) ==
    Shl(funct7, 25) \cup Shl(rs2, 20) \cup Shl(rs1, 15)
        \cup Shl(funct3, 12) \cup Shl(rd, 7) \cup opcode

encodeI(imm, rs1, funct3, rd, opcode) ==
    Shl(Low(imm, 12), 20) \cup Shl(rs1, 15) \cup Shl(funct3, 12) \cup Shl(rd, 7) \cup opcode

encodeS(imm, rs2, rs1, funct3, opcode) ==
    LET i == Low(imm, 12) IN
    Shl(Low(Shr(i, 5), 7), 25) \cup Shl(rs2, 20) \cup Shl(rs1, 15)
        \cup Shl(funct3, 12) \cup Shl(Low(i, 5), 7) \cup opcode

encodeB(imm, rs2, rs1, funct3, opcode) ==
    LET i == Low(imm, 13) IN
    Shl(Low(Shr(i, 12), 1), 31) \cup Shl(Low(Shr(i, 5), 6), 25)
        \cup Shl(rs2, 20) \cup Shl(rs1, 15) \cup Shl(funct3, 12)
        \cup Shl(Low(Shr(i, 1), 4), 8) \cup Shl(Low(Shr(i, 11), 1), 7) \cup opcode

encodeU(imm, rd, opcode) == (imm \ 0 .. 11) \cup Shl(rd, 7) \cup opcode

encodeJ(imm, rd, opcode) ==
    LET i == Low(imm, 21) IN
    Shl(Low(Shr(i, 20), 1), 31) \cup Shl(Low(Shr(i, 1), 10), 21)
        \cup Shl(Low(Shr(i, 11), 1), 20) \cup Shl(Low(Shr(i, 12), 8), 12)
        \cup Shl(rd, 7) \cup opcode

-----------------------------------------------------------------------------
decodeOpcode(w) == Low(w, 7)
decodeRd(w)     == Low(Shr(w, 7), 5)
decodeFunct3(w) == Low(Shr(w, 12), 3)
decodeRs1(w)    == Low(Shr(w, 15), 5)
decodeRs2(w)    == Low(Shr(w, 20), 5)
decodeFunct7(w) == Low(Shr(w, 25), 7)

\* (val ^ mask) - mask, for a val of that many bits.
signExt(val, bits) == val \cup IF bits - 1 \in val THEN bits .. 31 ELSE {}

decodeImmI(w) == signExt(Shr(w, 20), 12)

decodeImmS(w) ==
    signExt(Shl(Low(Shr(w, 25), 7), 5) \cup Low(Shr(w, 7), 5), 12)

decodeImmB(w) ==
    signExt(Shl(Low(Shr(w, 31), 1), 12) \cup Shl(Low(Shr(w, 7), 1), 11)
                \cup Shl(Low(Shr(w, 25), 6), 5) \cup Shl(Low(Shr(w, 8), 4), 1), 13)

decodeImmU(w) == w \ 0 .. 11

decodeImmJ(w) ==
    signExt(Shl(Low(Shr(w, 31), 1), 20) \cup Shl(Low(Shr(w, 12), 8), 12)
                \cup Shl(Low(Shr(w, 20), 1), 11) \cup Shl(Low(Shr(w, 21), 10), 1), 21)
=============================================================================
