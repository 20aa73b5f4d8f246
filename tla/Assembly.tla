------------------------------ MODULE Assembly ------------------------------
(***************************************************************************)
(* assembler.h, one line at a time: the words an instruction or pseudo     *)
(* instruction is assembled to, the label references it leaves behind, the *)
(* errors it raises, and how a reference is patched into its word.         *)
(*                                                                         *)
(* An instruction is a mnemonic and a sequence of operands.  Splitting a   *)
(* line into operands and recognising register names and numbers is text   *)
(* processing and left out; what the parsers make of an operand is kept:   *)
(*   kind "reg"   a register name            n its number                  *)
(*   kind "imm"   a number                   v its value                   *)
(*   kind "mem"   a number and a name in     v the number, n the register  *)
(*                parentheses                or -1 if there is none        *)
(*   kind "name"  any other text                                           *)
(* and for each of them s, its text as a label.                            *)
(***************************************************************************)
EXTENDS Encode, Sequences

-----------------------------------------------------------------------------
(* A label is a stem followed by a number of "__lo".                       *)

Labels == [stem : STRING, lo : Nat]

Lo(label) == [label EXCEPT !.lo = @ + 1]     \* label + "__lo"

\* p.label.size() > 4 and the last four characters are "__lo"
Skipped(label) == label.lo > 0 /\ label # [stem |-> "", lo |-> 1]

Operand == [kind : {"reg", "imm", "mem", "name"}, n : -1 .. 31, v : Word, s : Labels]

\* A register has a number, and what is not a number has no value.
Parsed(o) == /\ o.kind = "reg" => o.n # -1
             /\ o.kind \notin {"imm", "mem"} => o.v = {}

-----------------------------------------------------------------------------
(* The mnemonics with their funct7 and funct3.                             *)

RMnem == [add |-> <<0, 0>>, sub |-> <<32, 0>>, sll |-> <<0, 1>>, slt |-> <<0, 2>>,
          sltu |-> <<0, 3>>, xor |-> <<0, 4>>, srl |-> <<0, 5>>, sra |-> <<32, 5>>,
          or |-> <<0, 6>>, and |-> <<0, 7>>]
IMnem == [addi |-> 0, slli |-> 1, slti |-> 2, sltiu |-> 3, xori |-> 4,
          srli |-> 5, srai |-> 5, ori |-> 6, andi |-> 7]
LoadMnem  == [lb |-> 0, lh |-> 1, lw |-> 2, lbu |-> 4, lhu |-> 5]
StoreMnem == [sb |-> 0, sh |-> 1, sw |-> 2]
BranchMnem == [beq |-> 0, bne |-> 1, blt |-> 4, bge |-> 5, bltu |-> 6, bgeu |-> 7]

\* Branches that compare a register with x0, and x0 with a register.
BranchZ == [beqz |-> 0, bnez |-> 1, bgez |-> 5, bltz |-> 4]
ZBranch == [blez |-> 5, bgtz |-> 4]
CsrMnem == [csrrw |-> 1, csrrs |-> 2, csrrc |-> 3]

BranchLike == DOMAIN BranchMnem \cup DOMAIN BranchZ \cup DOMAIN ZBranch
Labelled   == BranchLike \cup {"j", "call", "jal", "la"}
Accesses   == DOMAIN LoadMnem \cup DOMAIN StoreMnem

NeedThree == DOMAIN RMnem \cup DOMAIN IMnem \cup DOMAIN BranchMnem
                 \cup DOMAIN CsrMnem \cup {"jalr"}
NeedTwo   == Accesses \cup DOMAIN BranchZ \cup DOMAIN ZBranch
                 \cup {"mv", "not", "neg", "li", "la", "jal", "lui", "auipc", "csrr"}
NeedOne   == {"j", "call", ".word"}
NeedNone  == {"nop", "ret", "ecall", "ebreak", "mret"}

need(m) == CASE m \in NeedThree -> 3 [] m \in NeedTwo -> 2
             [] m \in NeedOne -> 1   [] OTHER -> 0

\* The operands read with parseReg.
regOperands(m) ==
    CASE m \in DOMAIN RMnem -> 1 .. 3
      [] m \in NeedThree \ DOMAIN RMnem \/ m \in {"mv", "not", "neg"} -> 1 .. 2
      [] m \in NeedTwo \ {"mv", "not", "neg"} -> {1}
      [] OTHER -> {}

-----------------------------------------------------------------------------
\* parseReg: anything but a register is an error and counts as x0.
parseReg(o) == IF o.kind = "reg" THEN Bits(o.n) ELSE {}

\* parseImm: a number, or the number the text begins with; anything else is 0
\* and no error.
parseImm(o) == IF o.kind \in {"imm", "mem"} THEN o.v ELSE {}

memReg(o) == IF o.n = -1 THEN {} ELSE Bits(o.n)

\* The upper part for LUI and the rest for ADDI, rounded so that the rest is a
\* signed 12-bit number.  Not rounding is a plausible slip.
hiPart_Truncated(v) == v \ 0 .. 11
hiPart(v) == Shl(Sra(Add(v, {11}), 12), 12)
loPart(v) == Sub(v, hiPart(v))

\* A plausible slip: the opcode forgotten; the nop is then the word that halts.
ADDI_NoOpcode(imm, rs1, rd) == encodeI(imm, rs1, {}, rd, {})

ADDI(imm, rs1, rd) == encodeI(imm, rs1, {}, rd, I_ARITH)

li(rd, v) ==
    IF signExt(Low(v, 12), 12) = v THEN <<ADDI(v, {}, rd)>>
    ELSE <<encodeU(hiPart(v), rd, LUI), ADDI(loPart(v), rd, rd)>>

\* srai marks its shift amount with funct7 ALT.
immOperand(m, i) == IF m = "srai" THEN Low(i, 5) \cup Shl(ALT, 5) ELSE i

words(m, ops) ==
    LET reg(i) == parseReg(ops[i])
        imm(i) == parseImm(ops[i])
        csr(i, rs1, f3) == encodeI(imm(i), rs1, f3, reg(1), SYSTEM)
    IN  CASE m \in DOMAIN RMnem ->
                 <<encodeR(Bits(RMnem[m][1]), reg(3), reg(2), Bits(RMnem[m][2]), reg(1), R_TYPE)>>
          [] m \in DOMAIN IMnem ->
                 <<encodeI(immOperand(m, imm(3)), reg(2), Bits(IMnem[m]), reg(1), I_ARITH)>>
          [] m \in DOMAIN LoadMnem ->
                 <<encodeI(imm(2), memReg(ops[2]), Bits(LoadMnem[m]), reg(1), LOAD)>>
          [] m \in DOMAIN StoreMnem ->
                 <<encodeS(imm(2), reg(1), memReg(ops[2]), Bits(StoreMnem[m]), STORE)>>
          [] m \in DOMAIN BranchMnem ->
                 <<encodeB({}, reg(2), reg(1), Bits(BranchMnem[m]), BRANCH)>>
          [] m \in DOMAIN BranchZ -> <<encodeB({}, {}, reg(1), Bits(BranchZ[m]), BRANCH)>>
          [] m \in DOMAIN ZBranch -> <<encodeB({}, reg(1), {}, Bits(ZBranch[m]), BRANCH)>>
          [] m \in DOMAIN CsrMnem -> <<csr(3, reg(2), Bits(CsrMnem[m]))>>
          [] m = "csrr"   -> <<csr(2, {}, {1})>>
          [] m = "nop"    -> <<ADDI({}, {}, {})>>
          [] m = "ret"    -> <<encodeI({}, {0}, {}, {}, JALR)>>
          [] m = "mv"     -> <<ADDI({}, reg(2), reg(1))>>
          [] m = "not"    -> <<encodeI(Bit, reg(2), {2}, reg(1), I_ARITH)>>
          [] m = "neg"    -> <<encodeR(ALT, reg(2), {}, {}, reg(1), R_TYPE)>>
          [] m = "li"     -> li(reg(1), imm(2))
          [] m = "la"     -> <<encodeU({}, reg(1), LUI), ADDI({}, reg(1), reg(1))>>
          [] m = "j"      -> <<encodeJ({}, {}, JAL)>>
          [] m = "call"   -> <<encodeJ({}, {0}, JAL)>>
          [] m = "jal"    -> <<encodeJ({}, reg(1), JAL)>>
          [] m = "jalr"   -> <<encodeI(imm(3), reg(2), {}, reg(1), JALR)>>
          [] m = "lui"    -> <<encodeU(Shl(imm(2), 12), reg(1), LUI)>>
          [] m = "auipc"  -> <<encodeU(Shl(imm(2), 12), reg(1), AUIPC)>>
          [] m = "ecall"  -> <<SYSTEM>>
          [] m = "ebreak" -> <<SYSTEM \cup {20}>>
          [] m = "mret"   -> <<SYSTEM \cup {21, 28, 29}>>
          [] m = ".word"  -> <<imm(1)>>

\* The label references of an instruction: which of its words, which label.
\* The label is the last operand needed.
refs(m, ops) ==
    CASE m = "la" -> <<[at |-> 0, label |-> ops[2].s], [at |-> 1, label |-> Lo(ops[2].s)]>>
      [] m \in Labelled \ {"la"} -> <<[at |-> 0, label |-> ops[need(m)].s]>>
      [] OTHER -> <<>>

\* assembleLine from the mnemonic on: unknown mnemonics, missing operands and
\* a load or store without imm(reg) emit nothing; a bad register emits the word.
assemble(m, ops) ==
    IF \/ m \notin NeedThree \cup NeedTwo \cup NeedOne \cup NeedNone
       \/ Len(ops) < need(m)
       \/ m \in Accesses /\ ops[2].kind # "mem"
    THEN [words |-> <<>>, refs |-> <<>>, error |-> TRUE]
    ELSE [words |-> words(m, ops), refs |-> refs(m, ops),
          error |-> \/ \E i \in regOperands(m) : ops[i].kind # "reg"
                    \/ m \in Accesses /\ ops[2].n = -1]

-----------------------------------------------------------------------------
\* resolveLabels, one reference: the words at the reference and after it.
Patchable == {JAL, BRANCH, LUI}

\* A plausible slip: the second word of an la is written after every reference.
patch_AddiAlways(old, offset, target) ==
    <<CASE decodeOpcode(old) = JAL    -> encodeJ(offset, decodeRd(old), JAL)
        [] decodeOpcode(old) = BRANCH -> encodeB(offset, decodeRs2(old), decodeRs1(old),
                                                 decodeFunct3(old), BRANCH)
        [] decodeOpcode(old) = LUI    -> encodeU(hiPart(target), decodeRd(old), LUI)
        [] OTHER -> old,
      ADDI(loPart(target), decodeRd(old), decodeRd(old))>>

patch(old, offset, target) ==
    CASE decodeOpcode(old) = JAL    -> <<encodeJ(offset, decodeRd(old), JAL)>>
      [] decodeOpcode(old) = BRANCH -> <<encodeB(offset, decodeRs2(old), decodeRs1(old),
                                                 decodeFunct3(old), BRANCH)>>
      [] decodeOpcode(old) = LUI    -> <<encodeU(hiPart(target), decodeRd(old), LUI),
                                         ADDI(loPart(target), decodeRd(old), decodeRd(old))>>
      [] OTHER -> <<old>>

\* The distance fits the instruction: 13 bits for a branch, 21 for a jump.
BranchReach(d) == -4096 <= d /\ d <= 4094
JumpReach(d)   == -1048576 <= d /\ d <= 1048574
=============================================================================
