--------------------------- MODULE AssemblerProofs ---------------------------
(***************************************************************************)
(* Theorems about Assembler.tla, for every file over any set of lines:     *)
(* words, labels and patches fit together, the verdict is exact, the words *)
(* of a line without a label are never touched, and in an assembled        *)
(* program every jump, branch and la in reach leads to its label.          *)
(***************************************************************************)
EXTENDS Assembler, EncodeProofs

-----------------------------------------------------------------------------
(* What the assembler makes of a line.                                     *)

\* An instruction with enough operands is assembled to words.
LEMMA WordsType ==
    ASSUME NEW m \in Mnemonics, NEW ops \in Seq(Operand), Len(ops) >= need(m)
    PROVE  words(m, ops) \in Seq(Word)
<1> DEFINE reg(i) == parseReg(ops[i])
           imm(i) == parseImm(ops[i])
           mem(i) == memReg(ops[i])
<1>a. /\ {} \in Word /\ Bit \in Word /\ {0} \in Word /\ {1} \in Word /\ {2} \in Word
      /\ ALT \in Word /\ SYSTEM \in Word /\ SYSTEM \cup {20} \in Word
      /\ SYSTEM \cup {21, 28, 29} \in Word
  BY DEF Word, Bit, ALT, SYSTEM
<1>b. \A i : reg(i) \in Word /\ mem(i) \in Word
  BY <1>a, BitsWord DEF parseReg, memReg
<1>c. \A i \in 1 .. Len(ops) : imm(i) \in Word
  <2>1. \A i \in 1 .. Len(ops) : ops[i].v \in Word
    <3>1. \A i \in 1 .. Len(ops) : ops[i] \in Operand
      OBVIOUS
    <3> QED
      BY <3>1 DEF Operand
  <2> QED
    BY <1>a, <2>1 DEF parseImm
<1>d. /\ m \in NeedThree => imm(3) \in Word
      /\ m \in NeedTwo => imm(2) \in Word
      /\ m \in NeedOne => imm(1) \in Word
  BY <1>c, NeedIs
<1>e. \A v \in Word : /\ hiPart(v) \in Word /\ loPart(v) \in Word
                      /\ immOperand(m, v) \in Word /\ Shl(v, 12) \in Word
  BY HiLo, WordParts DEF immOperand
<1>f. \A a, b, c, d, e \in Word : encodeR(a, b, c, d, e, R_TYPE) \in Word
  BY OpcodeKept, OpcodeFields
<1>g. \A a, b, c, d \in Word, op \in Field(7) : encodeI(a, b, c, d, op) \in Word
  BY OpcodeKept
<1>h. \A a, b, c, d \in Word : encodeS(a, b, c, d, STORE) \in Word
  BY OpcodeKept, OpcodeFields
<1>i. \A a, b, c, d \in Word : encodeB(a, b, c, d, BRANCH) \in Word
  BY OpcodeKept, OpcodeFields
<1>j. \A a, b \in Word, op \in Field(7) : encodeU(a, b, op) \in Word
  BY OpcodeKept
<1>k. \A a, b \in Word : encodeJ(a, b, JAL) \in Word
  BY OpcodeKept, OpcodeFields
<1>l. /\ \A v : Bits(v) \in Word
      /\ \A w \in Word : <<w>> \in Seq(Word)
      /\ \A v, w \in Word : <<v, w>> \in Seq(Word)
  BY BitsWord
<1> HIDE DEF reg, imm, mem
<1>1. CASE m \in DOMAIN RMnem
  <2>1. words(m, ops) = <<encodeR(Bits(RMnem[m][1]), reg(3), reg(2), Bits(RMnem[m][2]), reg(1),
                                  R_TYPE)>>
    BY <1>1, WordsAre DEF reg, imm, mem
  <2>2. encodeR(Bits(RMnem[m][1]), reg(3), reg(2), Bits(RMnem[m][2]), reg(1), R_TYPE) \in Word
    BY <1>a, <1>b, <1>f, <1>l
  <2> QED
    BY <2>1, <2>2, <1>l
<1>2. CASE m \in DOMAIN IMnem
  <2>1. words(m, ops) = <<encodeI(immOperand(m, imm(3)), reg(2), Bits(IMnem[m]), reg(1), I_ARITH)>>
    BY <1>2, WordsAre DEF reg, imm, mem
  <2>2. m \in NeedThree
    BY <1>2 DEF NeedThree
  <2>3. encodeI(immOperand(m, imm(3)), reg(2), Bits(IMnem[m]), reg(1), I_ARITH) \in Word
    BY <2>2, <1>a, <1>b, <1>d, <1>e, <1>g, OpcodeFields, <1>l
  <2> QED
    BY <2>1, <2>3, <1>l
<1>3. CASE m \in DOMAIN LoadMnem
  <2>1. words(m, ops) = <<encodeI(imm(2), mem(2), Bits(LoadMnem[m]), reg(1), LOAD)>>
    BY <1>3, WordsAre DEF reg, imm, mem
  <2>2. m \in NeedTwo
    BY <1>3 DEF NeedTwo, Accesses
  <2> QED
    BY <2>1, <2>2, <1>a, <1>b, <1>d, <1>g, OpcodeFields, <1>l
<1>4. CASE m \in DOMAIN StoreMnem
  <2>1. words(m, ops) = <<encodeS(imm(2), reg(1), mem(2), Bits(StoreMnem[m]), STORE)>>
    BY <1>4, WordsAre DEF reg, imm, mem
  <2>2. m \in NeedTwo
    BY <1>4 DEF NeedTwo, Accesses
  <2> QED
    BY <2>1, <2>2, <1>a, <1>b, <1>d, <1>h, <1>l
<1>5. CASE m \in DOMAIN BranchMnem
  <2>1. words(m, ops) = <<encodeB({}, reg(2), reg(1), Bits(BranchMnem[m]), BRANCH)>>
    BY <1>5, WordsAre DEF reg, imm, mem
  <2> QED
    BY <2>1, <1>a, <1>b, <1>i, <1>l
<1>6. CASE m \in DOMAIN BranchZ
  <2>1. words(m, ops) = <<encodeB({}, {}, reg(1), Bits(BranchZ[m]), BRANCH)>>
    BY <1>6, WordsAre DEF reg, imm, mem
  <2> QED
    BY <2>1, <1>a, <1>b, <1>i, <1>l
<1>7. CASE m \in DOMAIN ZBranch
  <2>1. words(m, ops) = <<encodeB({}, reg(1), {}, Bits(ZBranch[m]), BRANCH)>>
    BY <1>7, WordsAre DEF reg, imm, mem
  <2> QED
    BY <2>1, <1>a, <1>b, <1>i, <1>l
<1>8. CASE m \in DOMAIN CsrMnem
  <2>1. words(m, ops) = <<encodeI(imm(3), reg(2), Bits(CsrMnem[m]), reg(1), SYSTEM)>>
    BY <1>8, WordsAre DEF reg, imm, mem
  <2>2. m \in NeedThree
    BY <1>8 DEF NeedThree
  <2> QED
    BY <2>1, <2>2, <1>a, <1>b, <1>d, <1>g, OpcodeFields, <1>l
<1>9. CASE m = "csrr"
  <2>1. words(m, ops) = <<encodeI(imm(2), {}, {1}, reg(1), SYSTEM)>>
    BY <1>9, WordsAre DEF reg, imm, mem
  <2>2. m \in NeedTwo
    BY <1>9 DEF NeedTwo, Accesses
  <2> QED
    BY <2>1, <2>2, <1>a, <1>b, <1>d, <1>g, OpcodeFields, <1>l
<1>10. CASE m = "nop"
  <2>1. words(m, ops) = <<encodeI({}, {}, {}, {}, I_ARITH)>>
    BY <1>10, WordsAre DEF reg, imm, mem
  <2> QED
    BY <2>1, <1>a, <1>b, <1>g, OpcodeFields, <1>l
<1>11. CASE m = "ret"
  <2>1. words(m, ops) = <<encodeI({}, {0}, {}, {}, JALR)>>
    BY <1>11, WordsAre DEF reg, imm, mem
  <2> QED
    BY <2>1, <1>a, <1>b, <1>g, OpcodeFields, <1>l
<1>12. CASE m = "mv"
  <2>1. words(m, ops) = <<encodeI({}, reg(2), {}, reg(1), I_ARITH)>>
    BY <1>12, WordsAre DEF reg, imm, mem
  <2> QED
    BY <2>1, <1>a, <1>b, <1>g, OpcodeFields, <1>l
<1>13. CASE m = "not"
  <2>1. words(m, ops) = <<encodeI(Bit, reg(2), {2}, reg(1), I_ARITH)>>
    BY <1>13, WordsAre DEF reg, imm, mem
  <2> QED
    BY <2>1, <1>a, <1>b, <1>g, OpcodeFields, <1>l
<1>14. CASE m = "neg"
  <2>1. words(m, ops) = <<encodeR(ALT, reg(2), {}, {}, reg(1), R_TYPE)>>
    BY <1>14, WordsAre DEF reg, imm, mem
  <2> QED
    BY <2>1, <1>a, <1>b, <1>f, <1>l
<1>15. CASE m = "li"
  <2>1. \/ words(m, ops) = <<encodeI(imm(2), {}, {}, reg(1), I_ARITH)>>
        \/ words(m, ops) = <<encodeU(hiPart(imm(2)), reg(1), LUI),
                             encodeI(loPart(imm(2)), reg(1), {}, reg(1), I_ARITH)>>
    BY <1>15, WordsAre DEF reg, imm, mem
  <2>2. m \in NeedTwo
    BY <1>15 DEF NeedTwo
  <2>3. /\ encodeI(imm(2), {}, {}, reg(1), I_ARITH) \in Word
        /\ encodeI(loPart(imm(2)), reg(1), {}, reg(1), I_ARITH) \in Word
    BY <2>2, <1>a, <1>b, <1>d, <1>e, <1>g, OpcodeFields
  <2>4. encodeU(hiPart(imm(2)), reg(1), LUI) \in Word
    BY <2>2, <1>b, <1>d, <1>e, <1>j, OpcodeFields
  <2> QED
    BY <2>1, <2>3, <2>4, <1>l
<1>16. CASE m = "la"
  <2>1. words(m, ops) = <<encodeU({}, reg(1), LUI), encodeI({}, reg(1), {}, reg(1), I_ARITH)>>
    BY <1>16, WordsAre DEF reg, imm, mem
  <2>2. encodeU({}, reg(1), LUI) \in Word
    BY <1>a, <1>b, <1>j, OpcodeFields
  <2>3. encodeI({}, reg(1), {}, reg(1), I_ARITH) \in Word
    BY <1>a, <1>b, <1>g, OpcodeFields
  <2> QED
    BY <2>1, <2>2, <2>3, <1>l
<1>17. CASE m = "j"
  <2>1. words(m, ops) = <<encodeJ({}, {}, JAL)>>
    BY <1>17, WordsAre DEF reg, imm, mem
  <2> QED
    BY <2>1, <1>a, <1>b, <1>k, <1>l
<1>18. CASE m = "call"
  <2>1. words(m, ops) = <<encodeJ({}, {0}, JAL)>>
    BY <1>18, WordsAre DEF reg, imm, mem
  <2> QED
    BY <2>1, <1>a, <1>b, <1>k, <1>l
<1>19. CASE m = "jal"
  <2>1. words(m, ops) = <<encodeJ({}, reg(1), JAL)>>
    BY <1>19, WordsAre DEF reg, imm, mem
  <2> QED
    BY <2>1, <1>a, <1>b, <1>k, <1>l
<1>20. CASE m = "jalr"
  <2>1. words(m, ops) = <<encodeI(imm(3), reg(2), {}, reg(1), JALR)>>
    BY <1>20, WordsAre DEF reg, imm, mem
  <2>2. m \in NeedThree
    BY <1>20 DEF NeedThree
  <2> QED
    BY <2>1, <2>2, <1>a, <1>b, <1>d, <1>g, OpcodeFields, <1>l
<1>21. CASE m = "lui"
  <2>1. words(m, ops) = <<encodeU(Shl(imm(2), 12), reg(1), LUI)>>
    BY <1>21, WordsAre DEF reg, imm, mem
  <2>2. m \in NeedTwo
    BY <1>21 DEF NeedTwo, Accesses
  <2> QED
    BY <2>1, <2>2, <1>a, <1>b, <1>d, <1>e, <1>j, OpcodeFields, <1>l
<1>22. CASE m = "auipc"
  <2>1. words(m, ops) = <<encodeU(Shl(imm(2), 12), reg(1), AUIPC)>>
    BY <1>22, WordsAre DEF reg, imm, mem
  <2>2. m \in NeedTwo
    BY <1>22 DEF NeedTwo, Accesses
  <2> QED
    BY <2>1, <2>2, <1>a, <1>b, <1>d, <1>e, <1>j, OpcodeFields, <1>l
<1>23. CASE m = "ecall"
  <2>1. words(m, ops) = <<SYSTEM>>
    BY <1>23, WordsAre DEF reg, imm, mem
  <2> QED
    BY <2>1, <1>a, <1>b, <1>l
<1>24. CASE m = "ebreak"
  <2>1. words(m, ops) = <<SYSTEM \cup {20}>>
    BY <1>24, WordsAre DEF reg, imm, mem
  <2> QED
    BY <2>1, <1>a, <1>b, <1>l
<1>25. CASE m = "mret"
  <2>1. words(m, ops) = <<SYSTEM \cup {21, 28, 29}>>
    BY <1>25, WordsAre DEF reg, imm, mem
  <2> QED
    BY <2>1, <1>a, <1>b, <1>l
<1>26. CASE m = ".word"
  <2>1. words(m, ops) = <<imm(1)>>
    BY <1>26, WordsAre DEF reg, imm, mem
  <2>2. m \in NeedOne
    BY <1>26 DEF NeedOne
  <2> QED
    BY <2>1, <2>2, <1>a, <1>b, <1>d, <1>l
<1> QED
  BY <1>1, <1>2, <1>3, <1>4, <1>5, <1>6, <1>7, <1>8, <1>9, <1>10, <1>11, <1>12, <1>13, <1>14,
     <1>15, <1>16, <1>17, <1>18, <1>19, <1>20, <1>21, <1>22, <1>23, <1>24, <1>25, <1>26
     DEF Mnemonics, NeedThree, NeedTwo, NeedOne, NeedNone, Accesses

\* The opcodes of the words that carry a label.
LEMMA WordsLabelled ==
    ASSUME NEW m \in Mnemonics, NEW ops
    PROVE  /\ m \in BranchLike => /\ Len(words(m, ops)) = 1
                                  /\ decodeOpcode(words(m, ops)[1]) = BRANCH
           /\ m \in {"j", "call", "jal"} => /\ Len(words(m, ops)) = 1
                                            /\ decodeOpcode(words(m, ops)[1]) = JAL
           /\ m = "la" => /\ Len(words(m, ops)) = 2
                          /\ decodeOpcode(words(m, ops)[1]) = LUI
                          /\ decodeOpcode(words(m, ops)[2]) = I_ARITH
<1> DEFINE reg(i) == parseReg(ops[i])
<1>a. {} \in Word /\ {0} \in Word /\ (\A v : Bits(v) \in Word) /\ (\A i : reg(i) \in Word)
  BY BitsWord DEF parseReg, Word, Bit
<1>b. \A a, b, c, d \in Word : decodeOpcode(encodeB(a, b, c, d, BRANCH)) = BRANCH
  BY OpcodeKept, OpcodeFields
<1>c. \A a, b \in Word : decodeOpcode(encodeJ(a, b, JAL)) = JAL
  BY OpcodeKept, OpcodeFields
<1> HIDE DEF reg
<1>1. ASSUME m \in BranchLike
      PROVE  Len(words(m, ops)) = 1 /\ decodeOpcode(words(m, ops)[1]) = BRANCH
  <2>1. \E a, b, c \in Word : words(m, ops) = <<encodeB({}, a, b, c, BRANCH)>>
    <3>1. CASE m \in DOMAIN BranchMnem
      <4>1. words(m, ops) = <<encodeB({}, reg(2), reg(1), Bits(BranchMnem[m]), BRANCH)>>
        BY <3>1 DEF reg, words, RMnem, IMnem, LoadMnem, StoreMnem, BranchMnem,
                             BranchZ, ZBranch, CsrMnem
      <4> QED
        BY <1>a, <4>1
    <3>2. CASE m \in DOMAIN BranchZ
      <4>1. words(m, ops) = <<encodeB({}, {}, reg(1), Bits(BranchZ[m]), BRANCH)>>
        BY <3>2 DEF reg, words, RMnem, IMnem, LoadMnem, StoreMnem, BranchMnem,
                             BranchZ, ZBranch, CsrMnem
      <4> QED
        BY <1>a, <4>1
    <3>3. CASE m \in DOMAIN ZBranch
      <4>1. words(m, ops) = <<encodeB({}, reg(1), {}, Bits(ZBranch[m]), BRANCH)>>
        BY <3>3 DEF reg, words, RMnem, IMnem, LoadMnem, StoreMnem, BranchMnem,
                             BranchZ, ZBranch, CsrMnem
      <4> QED
        BY <1>a, <4>1
    <3> QED
      BY <1>1, <3>1, <3>2, <3>3 DEF BranchLike
  <2> QED
    BY <1>a, <1>b, <2>1
<1>2. ASSUME m \in {"j", "call", "jal"}
      PROVE  Len(words(m, ops)) = 1 /\ decodeOpcode(words(m, ops)[1]) = JAL
  <2>1. words(m, ops) \in {<<encodeJ({}, {}, JAL)>>, <<encodeJ({}, {0}, JAL)>>,
                           <<encodeJ({}, reg(1), JAL)>>}
    BY <1>2 DEF reg, words, RMnem, IMnem, LoadMnem, StoreMnem, BranchMnem,
                             BranchZ, ZBranch, CsrMnem
  <2> QED
    BY <1>a, <1>c, <2>1
<1>3. ASSUME m = "la"
      PROVE  /\ Len(words(m, ops)) = 2
             /\ decodeOpcode(words(m, ops)[1]) = LUI
             /\ decodeOpcode(words(m, ops)[2]) = I_ARITH
  <2>1. words(m, ops) = <<encodeU({}, reg(1), LUI), encodeI({}, reg(1), {}, reg(1), I_ARITH)>>
    BY <1>3 DEF reg, ADDI, words, RMnem, IMnem, LoadMnem, StoreMnem, BranchMnem,
                             BranchZ, ZBranch, CsrMnem
  <2>2. decodeOpcode(encodeU({}, reg(1), LUI)) = LUI
    BY <1>a, OpcodeKept, OpcodeFields
  <2>3. decodeOpcode(encodeI({}, reg(1), {}, reg(1), I_ARITH)) = I_ARITH
    BY <1>a, OpcodeKept, OpcodeFields
  <2> QED
    BY <2>1, <2>2, <2>3
<1> QED
  BY <1>1, <1>2, <1>3

\* What a line leaves behind: words, and no label reference, one in its only
\* word (a jump or a branch), or the two of an la, the second of them with the
\* marked label.
Emits(e) ==
    /\ e.words \in Seq(Word)
    /\ e.error \in BOOLEAN
    /\ \/ e.refs = <<>>
       \/ \E n \in Labels :
             /\ e.refs = <<[at |-> 0, label |-> n]>>
             /\ Len(e.words) = 1
             /\ decodeOpcode(e.words[1]) \in {JAL, BRANCH}
       \/ \E n \in Labels :
             /\ e.refs = <<[at |-> 0, label |-> n], [at |-> 1, label |-> Lo(n)]>>
             /\ Len(e.words) = 2
             /\ decodeOpcode(e.words[1]) = LUI
             /\ decodeOpcode(e.words[2]) = I_ARITH

\* assemble emits that, whatever the instruction.
LEMMA AssembleEmits ==
    ASSUME NEW m, NEW ops \in Seq(Operand), NEW e, e = assemble(m, ops)
    PROVE  Emits(e)
<1>1. CASE e = [words |-> <<>>, refs |-> <<>>, error |-> TRUE]
  BY <1>1 DEF Emits
<1>2. CASE e # [words |-> <<>>, refs |-> <<>>, error |-> TRUE]
  <2>1. m \in Mnemonics /\ Len(ops) >= need(m)
    <3>1. m \in Mnemonics /\ ~(Len(ops) < need(m))
      BY <1>2 DEF assemble, Mnemonics
    <3>2. need(m) \in Nat
      BY DEF need
    <3> QED
      BY <3>1, <3>2
  <2>2. e.words = words(m, ops) /\ e.refs = refs(m, ops)
    BY <1>2 DEF assemble
  <2>3. e.error \in BOOLEAN
    BY <1>2 DEF assemble
  <2>4. e.words \in Seq(Word)
    BY <2>1, <2>2, WordsType
  <2>5. CASE m = "la"
    <3>1. need(m) = 2
      BY <2>1, <2>5, NeedIs DEF NeedTwo
    <3>2. ops[2] \in Operand
      BY <2>1, <3>1
    <3>3. ops[2].s \in Labels
      BY <3>2 DEF Operand
    <3>4. e.refs = <<[at |-> 0, label |-> ops[2].s], [at |-> 1, label |-> Lo(ops[2].s)]>>
      BY <2>2, <2>5 DEF refs
    <3>5. /\ Len(e.words) = 2 /\ decodeOpcode(e.words[1]) = LUI
          /\ decodeOpcode(e.words[2]) = I_ARITH
      BY <2>1, <2>2, <2>5, WordsLabelled
    <3> QED
      BY <2>3, <2>4, <3>3, <3>4, <3>5 DEF Emits
  <2>6. CASE m \in Labelled /\ m # "la"
    <3>1. need(m) \in 1 .. 3
      BY <2>1, <2>6, NeedIs DEF NeedThree, NeedTwo, NeedOne, Labelled, BranchLike
    <3>2. ops[need(m)] \in Operand
      BY <2>1, <3>1
    <3>3. ops[need(m)].s \in Labels
      BY <3>2 DEF Operand
    <3>4. e.refs = <<[at |-> 0, label |-> ops[need(m)].s]>>
      BY <2>2, <2>6 DEF refs
    <3>5. /\ Len(e.words) = 1 /\ decodeOpcode(e.words[1]) \in {JAL, BRANCH}
      BY <2>1, <2>2, <2>6, WordsLabelled DEF Labelled
    <3> QED
      BY <2>3, <2>4, <3>3, <3>4, <3>5 DEF Emits
  <2>7. CASE m \notin Labelled
    <3>1. m # "la"
      BY <2>7 DEF Labelled
    <3>2. e.refs = <<>>
      BY <2>2, <2>7, <3>1 DEF refs
    <3> QED
      BY <2>3, <2>4, <3>2 DEF Emits
  <2> QED
    BY <2>5, <2>6, <2>7
<1> QED
  BY <1>1, <1>2

\* The same for assembleLine, whatever the line.
LEMMA EmittedEmits == \A l \in Lines : Emits(emitted(l))
<1> SUFFICES ASSUME NEW l \in Lines PROVE Emits(emitted(l))
  OBVIOUS
<1>1. l.ins.ops \in Seq(Operand)
  BY AssemblerAssumption
<1>2. CASE Garbled(l)
  <2>1. emitted(l) = [words |-> <<>>, refs |-> <<>>, error |-> TRUE]
    BY <1>2 DEF emitted, NoWords
  <2> QED
    BY <2>1 DEF Emits
<1>3. CASE ~Garbled(l) /\ l.ins = NoInstr
  <2>1. emitted(l) = [words |-> <<>>, refs |-> <<>>, error |-> FALSE]
    BY <1>3 DEF emitted, NoWords
  <2> QED
    BY <2>1 DEF Emits
<1>4. CASE ~Garbled(l) /\ l.ins # NoInstr
  <2>1. emitted(l) = assemble(l.ins.mnem, l.ins.ops)
    BY <1>4 DEF emitted
  <2> QED
    BY <1>1, <2>1, AssembleEmits
<1> QED
  BY <1>2, <1>3, <1>4

-----------------------------------------------------------------------------
(* The inductive invariant.  Every line keeps its own stretch of the       *)
(* program; a patch stands for one reference of one line; and the words of *)
(* a line are the ones emitted until its patch is applied, and from then   *)
(* on the ones resolveLabels makes of them.                                *)

Emitted(i) == emitted(source[i])

\* Words of line i, repeats included.
Size(i) == source[i].times * Len(Emitted(i).words)

Patch == [idx : Nat, label : Labels, instrPC : Nat]

ShapeOK ==
    /\ program \in Seq(Word)
    /\ source \in Seq(Lines)
    /\ first \in Seq(Nat) /\ Len(first) = Len(source)
    /\ patches \in Seq(Patch)
    /\ hasError \in BOOLEAN /\ ok \in BOOLEAN
    /\ phase \in {"read", "patch", "failed", "assembled"}
    /\ next \in 1 .. Len(patches) + 1

\* The stretches of the lines follow each other.
Layout ==
    /\ \A i \in LineNo : first[i] + Size(i) <= Len(program)
    /\ \A i, j \in LineNo : i < j => first[i] + Size(i) <= first[j]
    /\ \A i \in LineNo : Len(Emitted(i).refs) > 0 => source[i].times = 1

\* Patch p stands for the k-th reference of line i.
PatchOf(p, i, k) ==
    /\ k \in DOMAIN Emitted(i).refs
    /\ patches[p] = [idx     |-> first[i] + Emitted(i).refs[k].at,
                     label   |-> Emitted(i).refs[k].label,
                     instrPC |-> Address(first[i] + Emitted(i).refs[k].at)]

PatchesMatch ==
    /\ \A p \in DOMAIN patches : \E i \in LineNo : PatchOf(p, i, 1) \/ PatchOf(p, i, 2)
    /\ \A i \in LineNo : \A k \in DOMAIN Emitted(i).refs :
          \E p \in DOMAIN patches : PatchOf(p, i, k)
    /\ \A p, q \in DOMAIN patches : p < q => patches[p].idx < patches[q].idx

\* The words of line i as emitted, and as resolved to address a.
Original(i) ==
    \A k \in 1 .. Size(i) : program[first[i] + k] = Times(Emitted(i).words, source[i].times)[k]

Resolved(i, a) ==
    \A k \in 1 .. Size(i) :
        program[first[i] + k] =
            patch(Emitted(i).words[1], Bits(a - Address(first[i])), Bits(a))[k]

\* Patch p has been applied.
Applied(p) ==
    p < next /\ ~Skipped(patches[p].label) /\ patches[p].label \in DOMAIN labelDefs

Content ==
    /\ OthersKept
    /\ \A i \in LineNo : \A p \in DOMAIN patches :
          PatchOf(p, i, 1) => IF Applied(p) THEN Resolved(i, labelDefs[patches[p].label])
                                            ELSE Original(i)

\* A label is at the address of the last line that defines it.
LabelsMatch ==
    /\ \A i \in LineNo : Defines(source[i]) \subseteq DOMAIN labelDefs
    /\ \A n \in DOMAIN labelDefs :
          \E j \in DefinedIn(n) : /\ labelDefs[n] = Address(first[j])
                                  /\ \A k \in DefinedIn(n) : k <= j

\* What resolveLabels does not complain of.
Good(p) == \/ Skipped(patches[p].label)
           \/ /\ patches[p].label \in DOMAIN labelDefs
              /\ \E i \in LineNo : PatchOf(p, i, 1)

Verdicts ==
    /\ hasError <=> \E i \in LineNo : Emitted(i).error
    /\ ok <=> \A p \in DOMAIN patches : p < next => Good(p)
    /\ phase = "read" => next = 1
    /\ phase = "patch" => ~hasError
    /\ phase = "assembled" => ok /\ ~hasError /\ next > Len(patches)
    /\ phase = "failed" => hasError \/ (~ok /\ next > Len(patches))

AsmInv == ShapeOK /\ Layout /\ PatchesMatch /\ Content /\ LabelsMatch /\ Verdicts

-----------------------------------------------------------------------------
\* The references of a line: one for each of its words, or none.
LEMMA RefFacts ==
    ASSUME NEW l \in Lines, NEW e, e = emitted(l)
    PROVE  /\ e.words \in Seq(Word) /\ e.error \in BOOLEAN
           /\ Len(e.refs) \in 0 .. 2 /\ DOMAIN e.refs = 1 .. Len(e.refs)
           /\ \A k \in DOMAIN e.refs : e.refs[k].at = k - 1 /\ e.refs[k].label \in Labels
           /\ e.refs = <<>> <=> Len(e.refs) = 0
           /\ e.refs # <<>> => /\ Len(e.words) = Len(e.refs)
                               /\ decodeOpcode(e.words[1]) \in Patchable
                               /\ decodeOpcode(e.words[1]) = LUI <=> Len(e.refs) = 2
           /\ Len(e.refs) = 2 => /\ decodeOpcode(e.words[2]) = I_ARITH
                                 /\ e.refs[2].label = Lo(e.refs[1].label)
<1>1. Emits(e)
  BY EmittedEmits
<1>2. e.words \in Seq(Word) /\ e.error \in BOOLEAN
  BY <1>1 DEF Emits
<1>3. CASE e.refs = <<>>
  BY <1>2, <1>3
<1>4. CASE \E n \in Labels : /\ e.refs = <<[at |-> 0, label |-> n]>>
                             /\ Len(e.words) = 1
                             /\ decodeOpcode(e.words[1]) \in {JAL, BRANCH}
  <2>1. PICK n \in Labels : /\ e.refs = <<[at |-> 0, label |-> n]>>
                            /\ Len(e.words) = 1
                            /\ decodeOpcode(e.words[1]) \in {JAL, BRANCH}
    BY <1>4
  <2>2. /\ Len(e.refs) = 1 /\ DOMAIN e.refs = 1 .. 1
        /\ e.refs[1].at = 0 /\ e.refs[1].label = n
    BY <2>1
  <2> QED
    BY <1>2, <2>1, <2>2, OpcodeFields DEF Patchable
<1>5. CASE \E n \in Labels :
              /\ e.refs = <<[at |-> 0, label |-> n], [at |-> 1, label |-> Lo(n)]>>
              /\ Len(e.words) = 2
              /\ decodeOpcode(e.words[1]) = LUI
              /\ decodeOpcode(e.words[2]) = I_ARITH
  <2>1. PICK n \in Labels :
              /\ e.refs = <<[at |-> 0, label |-> n], [at |-> 1, label |-> Lo(n)]>>
              /\ Len(e.words) = 2
              /\ decodeOpcode(e.words[1]) = LUI
              /\ decodeOpcode(e.words[2]) = I_ARITH
    BY <1>5
  <2>2. /\ Len(e.refs) = 2 /\ DOMAIN e.refs = 1 .. 2
        /\ e.refs[1].at = 0 /\ e.refs[1].label = n
        /\ e.refs[2].at = 1 /\ e.refs[2].label = Lo(n)
    BY <2>1
  <2>3. Lo(n) \in Labels
    BY DEF Lo, Labels
  <2> QED
    BY <1>2, <2>1, <2>2, <2>3 DEF Patchable
<1> QED
  BY <1>1, <1>3, <1>4, <1>5 DEF Emits

\* The copies of a line's words.
LEMMA TimesFacts ==
    ASSUME NEW s \in Seq(Word), NEW n \in Nat
    PROVE  /\ n * Len(s) \in Nat
           /\ Times(s, n) \in Seq(Word) /\ Len(Times(s, n)) = n * Len(s)
           /\ Len(s) \in 1 .. 2 => \A k \in 1 .. Len(s) : Times(s, 1)[k] = s[k]
<1> DEFINE N == n * Len(s)
<1>1. N \in Nat
  OBVIOUS
<1>2. \A i \in 1 .. N : s[((i - 1) % Len(s)) + 1] \in Word
  <2> SUFFICES ASSUME NEW i \in 1 .. N PROVE s[((i - 1) % Len(s)) + 1] \in Word
    OBVIOUS
  <2>1. Len(s) > 0
    <3>1. Len(s) = 0 => N = 0
      OBVIOUS
    <3> QED
      BY <1>1, <3>1
  <2>2. (i - 1) % Len(s) \in 0 .. Len(s) - 1
    BY <1>1, <2>1
  <2>3. ((i - 1) % Len(s)) + 1 \in 1 .. Len(s)
    BY <2>1, <2>2
  <2> QED
    BY <2>3
<1>3. Times(s, n) = [i \in 1 .. N |-> s[((i - 1) % Len(s)) + 1]]
  BY DEF Times
<1>4. ASSUME Len(s) \in 1 .. 2, NEW k \in 1 .. Len(s)
      PROVE  Times(s, 1)[k] = s[k]
  <2>1. 1 * Len(s) = Len(s) /\ ((k - 1) % Len(s)) + 1 = k
    <3>1. CASE Len(s) = 1
      BY <1>4, <3>1
    <3>2. CASE Len(s) = 2
      BY <1>4, <3>2
    <3> QED
      BY <1>4, <3>1, <3>2
  <2>2. Times(s, 1) = [i \in 1 .. Len(s) |-> s[((i - 1) % Len(s)) + 1]]
    BY <2>1 DEF Times
  <2> QED
    BY <1>4, <2>1, <2>2
<1> HIDE DEF N
<1>5. Times(s, n) \in Seq(Word) /\ Len(Times(s, n)) = N
  BY <1>1, <1>2, <1>3
<1> QED
  BY <1>1, <1>4, <1>5 DEF N

\* What resolveLabels puts in the place of a line's words: as many words, with
\* the same opcodes.
LEMMA PatchFacts ==
    ASSUME NEW old \in Word, NEW v \in Word, NEW t \in Word,
           NEW new, new = patch(old, v, t)
    PROVE  /\ new \in Seq(Word)
           /\ decodeOpcode(new[1]) = decodeOpcode(old)
           /\ decodeOpcode(old) = LUI => Len(new) = 2 /\ decodeOpcode(new[2]) = I_ARITH
           /\ decodeOpcode(old) # LUI => Len(new) = 1
           /\ decodeOpcode(old) \notin Patchable => new = <<old>>
<1> DEFINE rd == decodeRd(old)
           u == encodeU(hiPart(t), rd, LUI)
           a == encodeI(loPart(t), rd, {}, rd, I_ARITH)
<1>1. /\ rd \in Word /\ decodeRs1(old) \in Word /\ decodeRs2(old) \in Word
      /\ decodeFunct3(old) \in Word /\ {} \in Word
  BY DEF decodeRd, decodeRs1, decodeRs2, decodeFunct3, Low, Shr, Word
<1> HIDE DEF rd
<1>2. CASE decodeOpcode(old) = JAL
  <2>1. new = <<encodeJ(v, rd, JAL)>>
    BY <1>2, OpcodeFields DEF patch, rd
  <2>2. encodeJ(v, rd, JAL) \in Word /\ decodeOpcode(encodeJ(v, rd, JAL)) = JAL
    BY <1>1, OpcodeKept, OpcodeFields
  <2> QED
    BY <1>2, <2>1, <2>2, OpcodeFields DEF Patchable
<1>3. CASE decodeOpcode(old) = BRANCH
  <2> DEFINE b == encodeB(v, decodeRs2(old), decodeRs1(old), decodeFunct3(old), BRANCH)
  <2>1. new = <<b>>
    BY <1>3, OpcodeFields DEF patch
  <2>2. b \in Word /\ decodeOpcode(b) = BRANCH
    BY <1>1, OpcodeKept, OpcodeFields
  <2> QED
    BY <1>3, <2>1, <2>2, OpcodeFields DEF Patchable
<1>4. CASE decodeOpcode(old) = LUI
  <2>1. new = <<u, a>>
    BY <1>4, OpcodeFields DEF patch, rd, ADDI
  <2>2. u \in Word /\ decodeOpcode(u) = LUI
    BY <1>1, HiLo, OpcodeKept, OpcodeFields
  <2>3. a \in Word /\ decodeOpcode(a) = I_ARITH
    <3>1. loPart(t) \in Word
      BY HiLo
    <3>2. I_ARITH \in Field(7) /\ {} \in Word
      BY OpcodeFields DEF Word
    <3> QED
      BY <1>1, <3>1, <3>2, OpcodeKept
  <2> HIDE DEF u, a
  <2> QED
    BY <1>4, <2>1, <2>2, <2>3, OpcodeFields DEF Patchable
<1>5. CASE decodeOpcode(old) \notin Patchable
  <2>1. new = <<old>>
    BY <1>5 DEF patch, Patchable
  <2>2. decodeOpcode(old) # LUI
    BY <1>5 DEF Patchable
  <2> QED
    BY <2>1, <2>2
<1> QED
  BY <1>2, <1>3, <1>4, <1>5 DEF Patchable

-----------------------------------------------------------------------------
(* Reading a line.                                                         *)

\* The lines' stretches do not overlap, and a patch lies in the stretch of its
\* line.
LEMMA Stretches ==
    ASSUME ShapeOK, Layout
    PROVE  /\ \A i \in LineNo : /\ source[i] \in Lines /\ first[i] \in Nat /\ Size(i) \in Nat
                                /\ source[i].times \in Nat \ {0}
                                /\ Len(Emitted(i).refs) > 0 =>
                                      /\ Size(i) = Len(Emitted(i).refs)
                                      /\ Len(Emitted(i).words) = Size(i)
                                      /\ Size(i) \in 1 .. 2
           /\ \A i, j \in LineNo : i # j => \/ first[i] + Size(i) <= first[j]
                                            \/ first[j] + Size(j) <= first[i]
           /\ \A i \in LineNo : \A p, k : PatchOf(p, i, k) =>
                 /\ k \in 1 .. Size(i) /\ patches[p].idx = first[i] + k - 1
                 /\ patches[p].label = Emitted(i).refs[k].label
                 /\ patches[p].instrPC = Address(first[i] + k - 1)
                 /\ Size(i) = Len(Emitted(i).refs)
                 /\ first[i] + Size(i) <= Len(program)
<1>1. ASSUME NEW i \in LineNo
      PROVE  /\ source[i] \in Lines /\ first[i] \in Nat /\ Size(i) \in Nat
             /\ source[i].times \in Nat \ {0}
             /\ Len(Emitted(i).refs) > 0 => /\ Size(i) = Len(Emitted(i).refs)
                                            /\ Len(Emitted(i).words) = Size(i)
                                            /\ Size(i) \in 1 .. 2
  <2>1. source[i] \in Lines /\ first[i] \in Nat
    BY DEF ShapeOK, LineNo
  <2>2. source[i].times \in Nat \ {0}
    BY <2>1, AssemblerAssumption
  <2>3. PICK e, r, w, t : /\ e = Emitted(i) /\ r = Len(e.refs) /\ w = Len(e.words)
                          /\ t = source[i].times
    OBVIOUS
  <2>4. e = emitted(source[i])
    BY <2>3 DEF Emitted
  <2>5. e.words \in Seq(Word) /\ r \in 0 .. 2 /\ w \in Nat /\ (r > 0 => w = r)
    BY <2>1, <2>3, <2>4, RefFacts
  <2>6. Size(i) = t * w /\ t * w \in Nat
    BY <2>2, <2>3, <2>5, TimesFacts DEF Size
  <2>7. r > 0 => t = 1
    BY <2>3 DEF Layout
  <2>8. r > 0 => t * w = r /\ w = t * w /\ t * w \in 1 .. 2
    BY <2>5, <2>7
  <2> QED
    BY <2>1, <2>2, <2>3, <2>6, <2>8
<1>2. ASSUME NEW i \in LineNo, NEW j \in LineNo, i # j
      PROVE  first[i] + Size(i) <= first[j] \/ first[j] + Size(j) <= first[i]
  <2>1. i < j \/ j < i
    BY <1>2 DEF ShapeOK, LineNo
  <2> QED
    BY <2>1 DEF Layout
<1>3. ASSUME NEW i \in LineNo, NEW p, NEW k, PatchOf(p, i, k)
      PROVE  /\ k \in 1 .. Size(i) /\ patches[p].idx = first[i] + k - 1
             /\ patches[p].label = Emitted(i).refs[k].label
             /\ patches[p].instrPC = Address(first[i] + k - 1)
             /\ Size(i) = Len(Emitted(i).refs)
             /\ first[i] + Size(i) <= Len(program)
  <2>1. PICK e, r : e = Emitted(i) /\ r = Len(e.refs)
    OBVIOUS
  <2>2. e = emitted(source[i])
    BY <2>1 DEF Emitted
  <2>3. /\ DOMAIN e.refs = 1 .. r /\ r \in 0 .. 2
        /\ \A x \in DOMAIN e.refs : e.refs[x].at = x - 1
    BY <1>1, <2>1, <2>2, RefFacts
  <2>4. /\ k \in DOMAIN e.refs /\ patches[p].idx = first[i] + e.refs[k].at
        /\ patches[p].label = e.refs[k].label
        /\ patches[p].instrPC = Address(first[i] + e.refs[k].at)
    BY <1>3, <2>1 DEF PatchOf
  <2>5. first[i] + e.refs[k].at = first[i] + k - 1 /\ r > 0 /\ k \in 1 .. r
    BY <1>1, <2>3, <2>4
  <2>6. first[i] + Size(i) <= Len(program)
    BY DEF Layout
  <2>7. Size(i) = r
    BY <1>1, <2>1, <2>5
  <2> QED
    BY <2>1, <2>4, <2>5, <2>6, <2>7
<1> QED
  BY <1>1, <1>2, <1>3

\* As long as lines are read no patch is applied.
LEMMA AllOriginal ==
    ASSUME AsmInv, phase = "read"
    PROVE  \A i \in LineNo : Original(i)
<1> SUFFICES ASSUME NEW i \in LineNo PROVE Original(i)
  OBVIOUS
<1>1. CASE Emitted(i).refs = <<>>
  BY <1>1 DEF AsmInv, Content, OthersKept, Original, Size, Emitted
<1>2. CASE Emitted(i).refs # <<>>
  <2>1. source[i] \in Lines
    BY DEF AsmInv, ShapeOK, LineNo
  <2>2. 1 \in DOMAIN Emitted(i).refs
    BY <1>2, <2>1, RefFacts DEF Emitted
  <2>3. PICK p \in DOMAIN patches : PatchOf(p, i, 1)
    BY <2>2 DEF AsmInv, PatchesMatch
  <2>4. ~Applied(p)
    BY DEF AsmInv, ShapeOK, Verdicts, Applied
  <2> QED
    BY <2>3, <2>4 DEF AsmInv, Content
<1> QED
  BY <1>1, <1>2

\* Reading a line keeps the invariant: its stretch is the end of the program.
LEMMA ReadKeeps ==
    ASSUME AsmInv, NEW l \in Lines, ReadLine(l)
    PROVE  AsmInv'
<1> USE DEF AsmInv
<1>a. PICK e : e = emitted(l)
  OBVIOUS
<1>b. PICK N, T, P : N = l.times * Len(e.words) /\ T = Times(e.words, l.times) /\ P = patchesOf(e)
  OBVIOUS
<1>c. PICK n, m, z, r :
         n = Len(source) + 1 /\ m = Len(program) /\ z = Len(patches) /\ r = Len(e.refs)
  OBVIOUS
<1>1. /\ e.words \in Seq(Word) /\ e.error \in BOOLEAN
      /\ r \in 0 .. 2 /\ DOMAIN e.refs = 1 .. r
      /\ \A k \in 1 .. r : e.refs[k].at = k - 1 /\ e.refs[k].label \in Labels
      /\ e.refs = <<>> <=> r = 0
      /\ e.refs # <<>> => Len(e.words) = r
  BY <1>a, <1>c, RefFacts
<1>2. l.times \in Nat \ {0}
  BY AssemblerAssumption
<1>3. N \in Nat /\ T \in Seq(Word) /\ Len(T) = N
  BY <1>b, <1>1, <1>2, TimesFacts
<1>4. n \in Nat /\ m \in Nat /\ z \in Nat /\ baseAddr \in Nat
  BY <1>c, AssemblerAssumption DEF ShapeOK
<1>5. /\ l.times > 1 => e.refs = <<>>
      /\ program' = program \o T
      /\ patches' = patches \o P
      /\ hasError' = (hasError \/ e.error)
      /\ labelDefs' = define(l)
      /\ source' = Append(source, l) /\ first' = Append(first, m)
      /\ phase = "read" /\ phase' = phase /\ ok' = ok /\ next' = next
  BY <1>a, <1>b, <1>c DEF ReadLine
<1>6. /\ P \in Seq(Patch)
      /\ Len(P) = r
      /\ \A k \in 1 .. r : P[k] = [idx |-> m + e.refs[k].at, label |-> e.refs[k].label,
                                          instrPC |-> Address(m + e.refs[k].at)]
  <2>1. P = [k \in 1 .. r |->
               [idx |-> m + e.refs[k].at, label |-> e.refs[k].label,
                instrPC |-> Address(m + e.refs[k].at)]]
    BY <1>b, <1>c DEF patchesOf
  <2>2. \A k \in 1 .. r : m + e.refs[k].at \in Nat /\ Address(m + e.refs[k].at) \in Nat
    <3>1. \A k \in 1 .. r : m + e.refs[k].at \in Nat
      BY <1>1, <1>4
    <3> QED
      BY <1>4, <3>1 DEF Address
  <2>3. \A k \in 1 .. r : P[k] \in Patch
    BY <1>1, <2>1, <2>2 DEF Patch
  <2> QED
    BY <1>1, <2>1, <2>3
<1>7. /\ Len(source') = n /\ LineNo' = 1 .. n /\ LineNo = 1 .. n - 1
      /\ source'[n] = l /\ first'[n] = m
      /\ \A i \in LineNo : source'[i] = source[i] /\ first'[i] = first[i]
  BY <1>c, <1>4, <1>5 DEF ShapeOK, LineNo
<1>8. /\ Len(program') = m + N
      /\ \A k \in 1 .. m : program'[k] = program[k]
      /\ \A k \in 1 .. N : program'[m + k] = T[k]
  <2>1. program \in Seq(Word)
    BY DEF ShapeOK
  <2>2. /\ Len(program \o T) = Len(program) + Len(T)
        /\ \A k \in 1 .. Len(program) : (program \o T)[k] = program[k]
        /\ \A k \in 1 .. Len(T) : (program \o T)[Len(program) + k] = T[k]
    BY <1>3, <2>1
  <2> QED
    BY <1>c, <1>3, <1>5, <2>2
<1>9. /\ DOMAIN patches = 1 .. z /\ DOMAIN patches' = 1 .. z + r
      /\ \A p \in 1 .. z : patches'[p] = patches[p]
      /\ \A k \in 1 .. r : patches'[z + k] = P[k]
  <2>1. patches \in Seq(Patch)
    BY DEF ShapeOK
  <2>2. DOMAIN patches = 1 .. z
    BY <1>c, <2>1
  <2>3. /\ DOMAIN (patches \o P) = 1 .. Len(patches) + Len(P)
        /\ \A k \in 1 .. Len(patches) : (patches \o P)[k] = patches[k]
        /\ \A k \in 1 .. Len(P) : (patches \o P)[Len(patches) + k] = P[k]
    <3>1. P \in Seq(Patch)
      BY <1>6
    <3> QED
      BY <2>1, <3>1
  <2> QED
    BY <1>c, <1>5, <1>6, <2>2, <2>3
<1>d. \A q \in DOMAIN patches' : q \in Nat /\ (q > z => \E k \in 1 .. r : q = z + k)
  <2> SUFFICES ASSUME NEW q \in DOMAIN patches'
               PROVE  q \in Nat /\ (q > z => \E k \in 1 .. r : q = z + k)
    OBVIOUS
  <2>1. r \in Nat /\ q \in 1 .. z + r
    BY <1>1, <1>9
  <2>2. ASSUME q > z PROVE q - z \in 1 .. r /\ q = z + (q - z)
    BY <1>4, <2>1, <2>2
  <2> QED
    BY <2>1, <2>2
<1>10. /\ \A i \in LineNo : Emitted(i)' = Emitted(i) /\ Size(i)' = Size(i)
       /\ Emitted(n)' = e /\ Size(n)' = N
  <2>1. \A i \in LineNo : Emitted(i)' = Emitted(i)
    BY <1>7 DEF Emitted
  <2>2. Emitted(n)' = e
    BY <1>a, <1>7 DEF Emitted
  <2> QED
    BY <1>b, <1>7, <2>1, <2>2 DEF Size
<1>11. ASSUME NEW i \in LineNo
       PROVE  /\ first[i] \in Nat /\ Size(i) \in Nat
              /\ \A p \in 1 .. z : \A k : PatchOf(p, i, k)' <=> PatchOf(p, i, k)
  BY <1>7, <1>9, <1>10, Stretches DEF PatchOf, Address
<1>12. \A k \in 1 .. r : PatchOf(z + k, n, k)'
  <2> SUFFICES ASSUME NEW k \in 1 .. r PROVE PatchOf(z + k, n, k)'
    OBVIOUS
  <2>1. k \in DOMAIN e.refs /\ patches'[z + k] = P[k] /\ first'[n] = m /\ Emitted(n)' = e
    BY <1>1, <1>7, <1>9, <1>10
  <2>2. P[k] = [idx |-> m + e.refs[k].at, label |-> e.refs[k].label,
                instrPC |-> Address(m + e.refs[k].at)]
    BY <1>6
  <2> QED
    BY <2>1, <2>2 DEF PatchOf, Address
<1>13. ShapeOK'
  BY <1>1, <1>3, <1>5, <1>6, <1>9, <1>4, <1>7 DEF ShapeOK
<1>14. Layout'
  <2>1. \A i \in LineNo' : i \in LineNo \/ i = n
    BY <1>4, <1>7
  <2>2. \A i \in LineNo : /\ (first[i] + Size(i))' = first[i] + Size(i)
                          /\ first[i] + Size(i) <= m /\ i < n
    BY <1>c, <1>4, <1>7, <1>10, <1>11 DEF Layout
  <2>3. (first[n] + Size(n))' = m + N /\ first'[n] = m
    BY <1>7, <1>10
  <2>4. \A i \in LineNo' : (first[i] + Size(i))' <= Len(program')
    BY <1>3, <1>4, <1>8, <1>11, <2>1, <2>2, <2>3
  <2>5. ASSUME NEW i \in LineNo', NEW j \in LineNo', i < j
        PROVE  (first[i] + Size(i))' <= first'[j]
    <3>1. CASE j = n
      <4>1. i \in LineNo
        BY <1>4, <1>7, <2>1, <2>5, <3>1
      <4> QED
        BY <2>2, <2>3, <3>1, <4>1
    <3>2. CASE j \in LineNo
      <4>1. i \in LineNo
        BY <1>4, <1>7, <2>5, <3>2
      <4> QED
        BY <1>7, <2>2, <2>5, <3>2, <4>1 DEF Layout
    <3> QED
      BY <2>1, <3>1, <3>2
  <2>6. ASSUME NEW i \in LineNo', Len(Emitted(i)'.refs) > 0
        PROVE  source'[i].times = 1
    <3>1. CASE i \in LineNo
      BY <1>7, <1>10, <2>6, <3>1 DEF Layout
    <3>2. CASE i = n
      <4>1. r > 0
        BY <1>c, <1>10, <2>6, <3>2
      <4>2. e.refs # <<>>
        BY <1>1, <4>1
      <4>3. ~(l.times > 1)
        BY <1>a, <4>2 DEF ReadLine
      <4> QED
        BY <1>2, <1>7, <3>2, <4>3
    <3> QED
      BY <2>1, <3>1, <3>2
  <2> QED
    BY <2>4, <2>5, <2>6 DEF Layout
<1>15. PatchesMatch'
  <2>1. ASSUME NEW p \in DOMAIN patches'
        PROVE  \E i \in LineNo' : PatchOf(p, i, 1)' \/ PatchOf(p, i, 2)'
    <3>1. CASE p \in 1 .. z
      BY <1>4, <1>7, <1>9, <1>11, <3>1 DEF PatchesMatch
    <3>2. CASE p > z
      <4>1. PICK k \in 1 .. r : p = z + k
        BY <1>d, <3>2
      <4>2. PatchOf(p, n, 1)' \/ PatchOf(p, n, 2)'
        BY <1>1, <1>12, <4>1
      <4> QED
        BY <1>c, <1>4, <1>7, <4>2
    <3> QED
      BY <1>1, <1>4, <1>9, <3>1, <3>2
  <2>2. ASSUME NEW i \in LineNo', NEW k \in DOMAIN Emitted(i)'.refs
        PROVE  \E p \in DOMAIN patches' : PatchOf(p, i, k)'
    <3>1. CASE i \in LineNo
      <4>1. PICK p \in DOMAIN patches : PatchOf(p, i, k)
        BY <1>10, <2>2, <3>1 DEF PatchesMatch
      <4> QED
        BY <1>1, <1>4, <1>9, <1>11, <3>1, <4>1
    <3>2. CASE i = n
      <4>1. k \in 1 .. r
        BY <1>1, <1>10, <2>2, <3>2
      <4>2. z + k \in 1 .. z + r
        <5>1. r \in Nat
          BY <1>1
        <5> QED
          BY <1>4, <4>1, <5>1
      <4>3. z + k \in DOMAIN patches' /\ PatchOf(z + k, n, k)'
        BY <1>9, <1>12, <4>1, <4>2
      <4> QED
        BY <3>2, <4>3
    <3> QED
      BY <1>4, <1>7, <3>1, <3>2
  <2>3. ASSUME NEW p \in DOMAIN patches', NEW q \in DOMAIN patches', p < q
        PROVE  patches'[p].idx < patches'[q].idx
    <3>1. \A x \in 1 .. z : patches[x].idx \in Nat /\ patches[x].idx < m
      <4>1. ASSUME NEW x \in 1 .. z PROVE patches[x].idx < m
        <5>1. PICK i \in LineNo : PatchOf(x, i, 1) \/ PatchOf(x, i, 2)
          BY <1>9 DEF PatchesMatch
        <5>2. PICK k \in 1 .. 2 : PatchOf(x, i, k)
          BY <5>1
        <5>3. /\ k \in 1 .. Size(i) /\ patches[x].idx = first[i] + k - 1
              /\ first[i] + Size(i) <= Len(program)
          BY <5>2, Stretches
        <5>4. first[i] \in Nat /\ Size(i) \in Nat
          BY <1>11
        <5> QED
          BY <1>c, <1>4, <5>3, <5>4
      <4>2. \A x \in 1 .. z : patches[x] \in Patch
        BY <1>c DEF ShapeOK
      <4> QED
        BY <4>1, <4>2 DEF Patch
    <3>2. \A k \in 1 .. r : patches'[z + k].idx = m + (k - 1)
      BY <1>1, <1>6, <1>9
    <3>3. CASE q \in 1 .. z
      BY <1>4, <1>9, <2>3, <3>3 DEF PatchesMatch
    <3>4. CASE q > z /\ p \in 1 .. z
      <4>1. PICK k \in 1 .. r : q = z + k
        BY <1>d, <3>4
      <4>2. patches'[q].idx = m + (k - 1) /\ patches'[p].idx = patches[p].idx
        BY <1>9, <3>2, <3>4, <4>1
      <4> QED
        BY <1>1, <1>4, <3>1, <3>4, <4>2
    <3>5. CASE p > z
      <4>1. q > z
        BY <1>d, <1>4, <2>3, <3>5
      <4>2. PICK k \in 1 .. r : p = z + k
        BY <1>d, <3>5
      <4>3. PICK j \in 1 .. r : q = z + j
        BY <1>d, <4>1
      <4>4. k < j /\ k \in Int /\ j \in Int
        BY <1>4, <2>3, <4>2, <4>3
      <4>5. patches'[p].idx = m + (k - 1) /\ patches'[q].idx = m + (j - 1)
        BY <3>2, <4>2, <4>3
      <4> QED
        BY <1>4, <4>4, <4>5
    <3> QED
      BY <1>1, <1>4, <1>9, <3>3, <3>4, <3>5
  <2> QED
    BY <2>1, <2>2, <2>3 DEF PatchesMatch
<1>16. \A i \in LineNo' : Original(i)'
  <2>1. ASSUME NEW i \in LineNo PROVE Original(i)'
    <3>1. Original(i)
      BY <1>5, AllOriginal
    <3>2. \A k \in 1 .. Size(i) : first[i] + k \in 1 .. m
      BY <1>c, <1>4, <1>11 DEF Layout
    <3> QED
      BY <1>7, <1>8, <1>10, <3>1, <3>2 DEF Original
  <2>2. Original(n)'
    BY <1>b, <1>7, <1>8, <1>10 DEF Original
  <2> QED
    BY <1>4, <1>7, <2>1, <2>2
<1>17. Content'
  <2>1. OthersKept'
    BY <1>16 DEF OthersKept, Original, Size, Emitted
  <2>2. next' = 1
    BY <1>5 DEF Verdicts
  <2>3. \A p \in DOMAIN patches' : ~Applied(p)'
    BY <1>1, <1>4, <1>9, <2>2 DEF Applied
  <2> QED
    BY <1>16, <2>1, <2>3 DEF Content
<1>18. LabelsMatch'
  <2>1. /\ DOMAIN labelDefs' = DOMAIN labelDefs \cup Defines(l)
        /\ \A x \in Defines(l) : labelDefs'[x] = Address(m)
        /\ \A x \in DOMAIN labelDefs \ Defines(l) : labelDefs'[x] = labelDefs[x]
    BY <1>c, <1>5 DEF define, currentPC
  <2>2. ASSUME NEW x
        PROVE  /\ x \in Defines(l) => n \in DefinedIn(x)' /\ \A k \in DefinedIn(x)' : k <= n
               /\ x \notin Defines(l) => DefinedIn(x)' = DefinedIn(x)
    <3>1. DefinedIn(x)' = {i \in 1 .. n : x \in Defines(source'[i])}
      BY <1>7 DEF DefinedIn
    <3>2. DefinedIn(x) = {i \in 1 .. n - 1 : x \in Defines(source[i])}
      BY <1>7 DEF DefinedIn
    <3>3. n \in 1 .. n /\ \A k \in 1 .. n : k <= n /\ (k \in 1 .. n - 1 \/ k = n)
      BY <1>c, <1>4 DEF ShapeOK
    <3>4. \A i \in 1 .. n - 1 : i \in 1 .. n /\ source'[i] = source[i]
      BY <1>4, <1>7
    <3> QED
      BY <1>7, <3>1, <3>2, <3>3, <3>4
  <2>3. \A i \in LineNo' : Defines(source'[i]) \subseteq DOMAIN labelDefs'
    BY <1>4, <1>7, <2>1 DEF LabelsMatch
  <2>4. ASSUME NEW x \in DOMAIN labelDefs'
        PROVE  \E j \in DefinedIn(x)' : /\ labelDefs'[x] = Address(first'[j])
                                        /\ \A k \in DefinedIn(x)' : k <= j
    <3>1. CASE x \in Defines(l)
      BY <1>7, <2>1, <2>2, <3>1
    <3>2. CASE x \notin Defines(l)
      <4>1. PICK j \in DefinedIn(x) : /\ labelDefs[x] = Address(first[j])
                                      /\ \A k \in DefinedIn(x) : k <= j
        BY <2>1, <3>2 DEF LabelsMatch
      <4>2. first'[j] = first[j]
        BY <1>7 DEF DefinedIn
      <4> QED
        BY <2>1, <2>2, <3>2, <4>1, <4>2
    <3> QED
      BY <3>1, <3>2
  <2> QED
    BY <2>3, <2>4 DEF LabelsMatch, Address
<1>19. Verdicts'
  <2>1. hasError' <=> \E i \in LineNo' : Emitted(i)'.error
    <3>1. hasError' <=> (hasError \/ e.error)
      BY <1>5
    <3>2. hasError <=> \E i \in LineNo : Emitted(i).error
      BY DEF Verdicts
    <3>3. \A i \in LineNo' : i \in LineNo \/ i = n
      BY <1>4, <1>7
    <3>4. n \in LineNo' /\ \A i \in LineNo : i \in LineNo'
      BY <1>c, <1>4, <1>7 DEF ShapeOK
    <3>5. (Emitted(n)').error <=> e.error
      BY <1>10
    <3> QED
      BY <1>10, <3>1, <3>2, <3>3, <3>4, <3>5
  <2>2. next = 1 /\ next' = 1
    BY <1>5 DEF Verdicts
  <2>3. \A p : p \in DOMAIN patches' \/ p \in DOMAIN patches => ~(p < 1)
    BY <1>1, <1>4, <1>9
  <2>4. ok
    BY <2>2, <2>3 DEF Verdicts
  <2>5. ok' <=> \A p \in DOMAIN patches' : p < next' => Good(p)'
    BY <1>5, <2>2, <2>3, <2>4
  <2>6. phase' = "read"
    BY <1>5
  <2> QED
    BY <2>1, <2>2, <2>5, <2>6 DEF Verdicts
<1> QED
  BY <1>13, <1>14, <1>15, <1>17, <1>18, <1>19

-----------------------------------------------------------------------------
(* Resolving labels.                                                       *)

\* The first reference of a line has one patch, and no other line shares it.
LEMMA OwnPatch ==
    ASSUME ShapeOK, Layout, PatchesMatch, NEW i \in LineNo, NEW j \in LineNo,
           NEW p \in DOMAIN patches, NEW q \in DOMAIN patches,
           NEW k \in 1 .. 2, PatchOf(p, i, 1), PatchOf(q, j, k)
    PROVE  /\ i = j /\ k = 1 => p = q
           /\ p = q => i = j /\ k = 1
<1>1. /\ k \in 1 .. Size(j) /\ patches[q].idx = first[j] + k - 1
      /\ 1 \in 1 .. Size(i) /\ patches[p].idx = first[i] + 1 - 1
  BY Stretches
<1>2. /\ first[i] \in Nat /\ first[j] \in Nat /\ Size(i) \in Nat /\ Size(j) \in Nat
      /\ i # j => first[i] + Size(i) <= first[j] \/ first[j] + Size(j) <= first[i]
  BY Stretches
<1>3. patches[p].idx = patches[q].idx => p = q
  <2>1. p \in Nat /\ q \in Nat
    BY DEF ShapeOK
  <2> QED
    BY <1>1, <1>2, <2>1 DEF PatchesMatch
<1> QED
  BY <1>1, <1>2, <1>3

\* A step that leaves program, lines, labels and patches as they are and goes
\* past a patch that is not applied keeps the content.
LEMMA PassKeeps ==
    ASSUME AsmInv, phase = "patch", next \in DOMAIN patches, next' = next + 1,
           UNCHANGED <<program, labelDefs, patches, hasError, phase, source, first>>,
           \/ Skipped(patches[next].label)
           \/ patches[next].label \notin DOMAIN labelDefs
           \/ \A i \in LineNo : ~PatchOf(next, i, 1),
           ok' = (ok /\ Good(next))
    PROVE  AsmInv'
<1> USE DEF AsmInv
<1>0. next \in Nat /\ \A p \in DOMAIN patches : p \in Nat
  BY DEF ShapeOK
<1>1. /\ LineNo' = LineNo
      /\ \A i : Emitted(i)' = Emitted(i) /\ Size(i)' = Size(i)
      /\ \A i : Original(i)' = Original(i) /\ \A a : Resolved(i, a)' = Resolved(i, a)
      /\ \A p, i, k : PatchOf(p, i, k)' = PatchOf(p, i, k)
  BY DEF LineNo, Emitted, Size, Original, Resolved, PatchOf, Address
<1>2. ok' \in BOOLEAN
  BY DEF ShapeOK
<1>3. ShapeOK'
  BY <1>0, <1>2 DEF ShapeOK
<1>4. Layout' /\ PatchesMatch'
  BY <1>1 DEF Layout, PatchesMatch
<1>5. Content'
  <2>1. OthersKept'
    BY <1>1 DEF Content, OthersKept
  <2>2. ASSUME NEW i \in LineNo, NEW p \in DOMAIN patches, PatchOf(p, i, 1)
        PROVE  Applied(p)' <=> Applied(p)
    <3>1. CASE p = next
      BY <1>0, <2>2, <3>1 DEF Applied
    <3>2. CASE p # next
      BY <1>0, <3>2 DEF Applied
    <3> QED
      BY <3>1, <3>2
  <2> QED
    BY <1>1, <2>1, <2>2 DEF Content
<1>6. LabelsMatch'
  BY <1>1 DEF LabelsMatch, DefinedIn, Address
<1>7. Verdicts'
  <2>1. \A p \in DOMAIN patches : Good(p)' <=> Good(p)
    BY <1>1 DEF Good
  <2>2. \A p \in DOMAIN patches : p < next + 1 <=> p < next \/ p = next
    BY <1>0
  <2>3. ok' <=> \A p \in DOMAIN patches' : p < next' => Good(p)'
    BY <2>1, <2>2 DEF Verdicts
  <2>4. hasError' <=> \E i \in LineNo' : Emitted(i)'.error
    BY <1>1 DEF Verdicts
  <2> QED
    BY <2>3, <2>4 DEF Verdicts
<1> QED
  BY <1>3, <1>4, <1>5, <1>6, <1>7

\* Applying a patch keeps the invariant: only the stretch of its line changes.
LEMMA ApplyKeeps ==
    ASSUME AsmInv, ApplyPatch
    PROVE  AsmInv'
<1> USE DEF AsmInv
<1>1. /\ phase = "patch" /\ next \in DOMAIN patches /\ next' = next + 1
      /\ UNCHANGED <<labelDefs, patches, hasError, phase, source, first>>
      /\ ~Skipped(patches[next].label) /\ patches[next].label \in DOMAIN labelDefs
  BY DEF ApplyPatch, AtPatch, ShapeOK
<1>2. PICK i0 \in LineNo, k0 \in 1 .. 2 : PatchOf(next, i0, k0)
  BY <1>1 DEF PatchesMatch
<1>3. /\ k0 \in 1 .. Size(i0) /\ patches[next].idx = first[i0] + k0 - 1
      /\ patches[next].label = Emitted(i0).refs[k0].label
      /\ patches[next].instrPC = Address(first[i0] + k0 - 1)
      /\ Size(i0) = Len(Emitted(i0).refs)
      /\ first[i0] + Size(i0) <= Len(program)
      /\ first[i0] \in Nat /\ Size(i0) \in Nat /\ source[i0] \in Lines
  BY <1>2, Stretches
<1>m. /\ program \in Seq(Word) /\ Len(program) \in Nat /\ DOMAIN program = 1 .. Len(program)
      /\ next \in Nat /\ \A p \in DOMAIN patches : p \in Nat
  BY DEF ShapeOK
<1>4. PICK e, f, s, old, target, v, new :
         /\ e = Emitted(i0) /\ f = first[i0] /\ s = Size(i0)
         /\ old = program[f + k0] /\ target = labelDefs[patches[next].label]
         /\ v = Bits(target - Address(f + k0 - 1)) /\ new = patch(old, v, Bits(target))
  OBVIOUS
<1>5. /\ e = emitted(source[i0]) /\ f \in Nat /\ s \in 1 .. 2 /\ s = Len(e.refs)
      /\ DOMAIN e.refs = 1 .. s /\ (e.refs = <<>> <=> s = 0)
      /\ Len(e.words) = s /\ k0 \in 1 .. s /\ f + s <= Len(program)
      /\ source[i0].times = 1
      /\ e.words \in Seq(Word) /\ decodeOpcode(e.words[1]) \in Patchable
      /\ decodeOpcode(e.words[1]) = LUI <=> s = 2
      /\ s = 2 => decodeOpcode(e.words[2]) = I_ARITH
  <2>1. e = emitted(source[i0])
    BY <1>4 DEF Emitted
  <2>2. f \in Nat /\ s \in Nat /\ s = Len(e.refs) /\ k0 \in 1 .. s /\ f + s <= Len(program)
    BY <1>3, <1>4
  <2>3. source[i0].times = 1
    BY <1>4, <2>2 DEF Layout
  <2>4. PICK l \in Lines : l = source[i0] /\ e = emitted(l)
    BY <1>3, <2>1
  <2>5. /\ e.words \in Seq(Word) /\ Len(e.refs) \in 0 .. 2 /\ DOMAIN e.refs = 1 .. Len(e.refs)
        /\ e.refs = <<>> <=> Len(e.refs) = 0
        /\ e.refs # <<>> => /\ Len(e.words) = Len(e.refs)
                            /\ decodeOpcode(e.words[1]) \in Patchable
                            /\ decodeOpcode(e.words[1]) = LUI <=> Len(e.refs) = 2
        /\ Len(e.refs) = 2 => decodeOpcode(e.words[2]) = I_ARITH
    BY <2>4, RefFacts
  <2>6. s \in 1 .. 2
    BY <2>2, <2>5
  <2> QED
    BY <2>1, <2>2, <2>3, <2>5, <2>6
<1>n. /\ f \in Nat /\ s \in 1 .. 2 /\ k0 \in 1 .. s /\ f + s <= Len(program)
      /\ Len(program) \in Nat /\ DOMAIN program = 1 .. Len(program)
      /\ DOMAIN e.refs = 1 .. s /\ e.refs # <<>>
  BY <1>m, <1>5
<1>6. /\ old \in Word /\ v \in Word /\ Bits(target) \in Word
      /\ f + k0 \in DOMAIN program
  <2>1. f + k0 \in DOMAIN program
    BY <1>m, <1>5
  <2>2. old \in Word
    BY <1>m, <1>4, <2>1
  <2> QED
    BY <1>4, <2>1, <2>2, BitsWord
<1>7. /\ program' = [x \in DOMAIN program |->
                        IF x \in f + k0 .. f + k0 - 1 + Len(new) THEN new[x - (f + k0 - 1)]
                        ELSE program[x]]
      /\ ok' = (ok /\ decodeOpcode(old) \in Patchable)
  <2>1. patches[next].idx = f + k0 - 1 /\ patches[next].idx + 1 = f + k0
    BY <1>3, <1>4, <1>5
  <2> QED
    BY <1>3, <1>4, <2>1 DEF ApplyPatch
<1>8. \A k \in 1 .. s : Times(e.words, source[i0].times)[k] = e.words[k]
  <2>1. e.words \in Seq(Word) /\ Len(e.words) = s /\ source[i0].times = 1
    BY <1>5
  <2>2. Len(e.words) \in 1 .. 2
    BY <1>n, <2>1
  <2>3. \A k \in 1 .. Len(e.words) : Times(e.words, 1)[k] = e.words[k]
    BY <2>1, <2>2, TimesFacts
  <2> QED
    BY <2>1, <2>3
<1>9. CASE k0 = 2
  <2>1. 1 \in DOMAIN e.refs /\ s = 2
    BY <1>n, <1>9
  <2>2. PICK p \in DOMAIN patches : PatchOf(p, i0, 1)
    BY <1>4, <2>1 DEF PatchesMatch
  <2>3. decodeOpcode(old) = I_ARITH
    <3>1. CASE Applied(p)
      <4>1. Resolved(i0, labelDefs[patches[p].label])
        BY <2>2, <3>1 DEF Content
      <4>2. PICK a, b, c : a = labelDefs[patches[p].label] /\ b = Bits(a - Address(f))
                           /\ c = patch(e.words[1], b, Bits(a))
        OBVIOUS
      <4>3. old = c[2]
        BY <1>4, <1>9, <2>1, <4>1, <4>2 DEF Resolved
      <4>4. b \in Word /\ Bits(a) \in Word /\ e.words[1] \in Word
        BY <1>5, <4>2, BitsWord
      <4>5. decodeOpcode(e.words[1]) = LUI
        BY <1>5, <2>1
      <4> QED
        BY <4>2, <4>3, <4>4, <4>5, PatchFacts
    <3>2. CASE ~Applied(p)
      <4>1. Original(i0)
        BY <2>2, <3>2 DEF Content
      <4>2. old = e.words[2]
        BY <1>4, <1>8, <1>9, <2>1, <4>1 DEF Original
      <4> QED
        BY <1>5, <2>1, <4>2
    <3> QED
      BY <3>1, <3>2
  <2>4. decodeOpcode(old) \notin Patchable
    BY <2>3, OpcodeFields DEF Patchable
  <2>5. new = <<old>>
    BY <1>4, <1>6, <2>4, PatchFacts
  <2>6. program' = program
    <3>1. ASSUME NEW x \in DOMAIN program PROVE program'[x] = program[x]
      <4>1. x \in f + k0 .. f + k0 - 1 + Len(new) <=> x = f + k0
        BY <1>n, <2>5
      <4>2. new[1] = old
        BY <2>5
      <4>3. CASE x = f + k0
        <5>1. x - (f + k0 - 1) = 1
          BY <1>n, <4>3
        <5>2. program'[x] = new[x - (f + k0 - 1)]
          BY <1>7, <4>1, <4>3
        <5> QED
          BY <1>4, <4>2, <4>3, <5>1, <5>2
      <4>4. CASE x # f + k0
        BY <1>7, <4>1, <4>4
      <4> QED
        BY <4>3, <4>4
    <3>2. /\ program' = [x \in DOMAIN program |-> program'[x]]
          /\ program = [x \in DOMAIN program |-> program[x]]
      BY <1>7 DEF ShapeOK
    <3> QED
      BY <3>1, <3>2
  <2>7. \A i \in LineNo : ~PatchOf(next, i, 1)
    BY <1>1, <1>2, <1>9, OwnPatch
  <2>8. ~Good(next)
    BY <1>1, <2>7 DEF Good
  <2>9. ok' = (ok /\ Good(next))
    BY <1>7, <2>4, <2>8
  <2> QED
    BY <1>1, <2>6, <2>7, <2>9, PassKeeps
<1>10. CASE k0 = 1
  <2>1. old = e.words[1]
    <3>1. ~Applied(next)
      BY <1>m DEF Applied
    <3>2. Original(i0)
      BY <1>1, <1>2, <1>10, <3>1 DEF Content
    <3> QED
      BY <1>4, <1>5, <1>8, <1>10, <3>2 DEF Original
  <2>2. new \in Seq(Word) /\ Len(new) = s /\ DOMAIN new = 1 .. s
    <3>1. new \in Seq(Word)
      BY <1>4, <1>6, PatchFacts
    <3>2. CASE s = 2
      <4>1. decodeOpcode(old) = LUI
        BY <1>5, <2>1, <3>2
      <4> QED
        BY <1>4, <1>6, <3>1, <3>2, <4>1, PatchFacts
    <3>3. CASE s = 1
      <4>1. decodeOpcode(old) # LUI
        BY <1>5, <2>1, <3>3
      <4> QED
        BY <1>4, <1>6, <3>1, <3>3, <4>1, PatchFacts
    <3> QED
      BY <1>n, <3>2, <3>3
  <2>3. ASSUME NEW x \in DOMAIN program
        PROVE  /\ x \in f + 1 .. f + s => program'[x] = new[x - f]
               /\ x \notin f + 1 .. f + s => program'[x] = program[x]
    <3>1. f + k0 = f + 1 /\ f + k0 - 1 + Len(new) = f + s /\ x - (f + k0 - 1) = x - f
      BY <1>m, <1>5, <1>10, <2>2
    <3> QED
      BY <1>7, <3>1
  <2>4. program' \in Seq(Word) /\ Len(program') = Len(program) /\ DOMAIN program' = DOMAIN program
    <3>1. DOMAIN program' = DOMAIN program
      BY <1>7
    <3>2. \A x \in DOMAIN program : program'[x] \in Word
      <4> SUFFICES ASSUME NEW x \in DOMAIN program PROVE program'[x] \in Word
        OBVIOUS
      <4>1. CASE x \in f + 1 .. f + s
        <5>1. x - f \in 1 .. s
          BY <1>m, <1>5, <4>1
        <5> QED
          BY <2>2, <2>3, <4>1, <5>1
      <4>2. CASE x \notin f + 1 .. f + s
        BY <1>m, <2>3, <4>2
      <4> QED
        BY <4>1, <4>2
    <3>3. program' = [x \in 1 .. Len(program) |-> program'[x]]
      BY <1>m, <1>7
    <3> QED
      BY <1>m, <3>1, <3>2, <3>3
  <2>5. /\ LineNo' = LineNo
        /\ \A i : Emitted(i)' = Emitted(i) /\ Size(i)' = Size(i)
        /\ \A p, i, k : PatchOf(p, i, k)' = PatchOf(p, i, k)
    BY <1>1 DEF LineNo, Emitted, Size, PatchOf, Address
  <2>6. ASSUME NEW i \in LineNo, i # i0
        PROVE  /\ Original(i)' <=> Original(i)
               /\ \A a : Resolved(i, a)' <=> Resolved(i, a)
    <3>1. \A k \in 1 .. Size(i) : program'[first[i] + k] = program[first[i] + k]
      <4>1. /\ first[i] \in Nat /\ Size(i) \in Nat /\ first[i] + Size(i) <= Len(program)
            /\ first[i] + Size(i) <= f \/ f + s <= first[i]
        BY <1>4, <2>6, Stretches DEF Layout
      <4>2. ASSUME NEW k \in 1 .. Size(i)
            PROVE  first[i] + k \in DOMAIN program /\ first[i] + k \notin f + 1 .. f + s
        BY <1>n, <4>1
      <4> QED
        BY <2>3, <4>2
    <3>2. first' = first /\ source' = source
      BY <1>1
    <3> QED
      BY <2>5, <3>1, <3>2 DEF Original, Resolved, Address
  <2>7. Resolved(i0, target)'
    <3>1. ASSUME NEW k \in 1 .. s PROVE program'[f + k] = new[k]
      <4>1. f + k \in f + 1 .. f + s /\ f + k \in DOMAIN program /\ f + k - f = k
        BY <1>n
      <4>2. PICK x : x = f + k
        OBVIOUS
      <4>3. program'[x] = new[x - f]
        BY <2>3, <4>1, <4>2
      <4>4. x - f = k
        BY <1>n, <4>2
      <4> QED
        BY <4>2, <4>3, <4>4
    <3>2. new = patch(e.words[1], Bits(target - Address(f)), Bits(target))
      <4>1. f + k0 - 1 = f
        BY <1>5, <1>10
      <4> QED
        BY <1>4, <2>1, <4>1
    <3>3. first'[i0] = f /\ Size(i0)' = s /\ Emitted(i0)' = e
      BY <1>1, <1>4, <2>5
    <3> QED
      BY <3>1, <3>2, <3>3 DEF Resolved, Address
  <2>8. decodeOpcode(old) \in Patchable /\ Good(next)
    BY <1>1, <1>2, <1>5, <1>10, <2>1 DEF Good
  <2>9. ShapeOK'
    <3>1. ok' \in BOOLEAN
      BY <1>7
    <3>2. next' \in 1 .. Len(patches') + 1
      BY <1>1 DEF ShapeOK
    <3> QED
      BY <1>1, <2>4, <3>1, <3>2 DEF ShapeOK
  <2>10. Layout' /\ PatchesMatch' /\ LabelsMatch'
    BY <1>1, <2>4, <2>5 DEF Layout, PatchesMatch, LabelsMatch, DefinedIn, Address
  <2>11. Content'
    <3>1. OthersKept'
      <4>1. ASSUME NEW i \in LineNo, Emitted(i).refs = <<>> PROVE Original(i)'
        <5>1. i # i0
          BY <1>4, <1>n, <4>1
        <5>2. Original(i)
          BY <4>1 DEF Content, OthersKept, Original, Size, Emitted
        <5> QED
          BY <2>6, <5>1, <5>2
      <4> QED
        BY <2>5, <4>1 DEF OthersKept, Original, Size, Emitted
    <3>2. ASSUME NEW i \in LineNo, NEW p \in DOMAIN patches, PatchOf(p, i, 1)
          PROVE  IF Applied(p)' THEN Resolved(i, labelDefs[patches[p].label])' ELSE Original(i)'
      <4>1. CASE p = next
        <5>1. i = i0
          BY <1>1, <1>2, <3>2, <4>1, OwnPatch
        <5>2. Applied(p)'
          BY <1>m, <1>1, <4>1 DEF Applied
        <5>3. labelDefs'[patches'[p].label] = target
          BY <1>1, <1>4, <4>1
        <5>4. Resolved(i, labelDefs[patches[p].label])'
          BY <2>7, <5>1, <5>3 DEF Resolved, Address
        <5> QED
          BY <5>2, <5>4
      <4>2. CASE p # next
        <5>1. i # i0
          BY <1>1, <1>2, <1>10, <3>2, <4>2, OwnPatch
        <5>2. Applied(p)' <=> Applied(p)
          BY <1>m, <1>1, <4>2 DEF Applied
        <5>3. IF Applied(p) THEN Resolved(i, labelDefs[patches[p].label]) ELSE Original(i)
          BY <3>2 DEF Content
        <5>4. Resolved(i, labelDefs[patches[p].label]) =>
                 Resolved(i, labelDefs[patches[p].label])'
          <6>1. PICK a : a = labelDefs[patches[p].label]
            OBVIOUS
          <6>2. Resolved(i, a)' <=> Resolved(i, a)
            BY <2>6, <5>1
          <6> QED
            BY <1>1, <6>1, <6>2 DEF Resolved, Address
        <5> QED
          BY <2>6, <5>1, <5>2, <5>3, <5>4
      <4> QED
        BY <4>1, <4>2
    <3> QED
      BY <1>1, <2>5, <3>1, <3>2 DEF Content
  <2>12. Verdicts'
    <3>1. \A p \in DOMAIN patches : Good(p)' <=> Good(p)
      BY <1>1, <2>5 DEF Good
    <3>2. \A p \in DOMAIN patches : p < next + 1 <=> p < next \/ p = next
      BY <1>m
    <3>3. ok' <=> ok
      BY <1>7, <2>8
    <3>4. ok' <=> \A p \in DOMAIN patches' : p < next' => Good(p)'
      BY <1>1, <2>8, <3>1, <3>2, <3>3 DEF Verdicts
    <3>5. hasError' <=> \E i \in LineNo' : Emitted(i)'.error
      BY <1>1, <2>5 DEF Verdicts
    <3> QED
      BY <1>1, <3>4, <3>5 DEF Verdicts
  <2> QED
    BY <2>9, <2>10, <2>11, <2>12
<1> QED
  BY <1>9, <1>10

\* Going from one phase to the next keeps the invariant.
LEMMA PhaseKeeps ==
    ASSUME AsmInv, UNCHANGED <<program, labelDefs, patches, hasError, ok, next, source, first>>,
           phase' \in {"read", "patch", "failed", "assembled"},
           /\ phase' = "read" => next = 1
           /\ phase' = "patch" => ~hasError
           /\ phase' = "assembled" => ok /\ ~hasError /\ next > Len(patches)
           /\ phase' = "failed" => hasError \/ (~ok /\ next > Len(patches))
    PROVE  AsmInv'
<1> USE DEF AsmInv
<1>1. /\ LineNo' = LineNo
      /\ \A i : Emitted(i)' = Emitted(i) /\ Size(i)' = Size(i)
      /\ \A i : Original(i)' = Original(i) /\ \A a : Resolved(i, a)' = Resolved(i, a)
      /\ \A p, i, k : PatchOf(p, i, k)' = PatchOf(p, i, k)
      /\ \A p : Applied(p)' = Applied(p)
  BY DEF LineNo, Emitted, Size, Original, Resolved, PatchOf, Address, Applied
<1>2. ShapeOK'
  BY DEF ShapeOK
<1>3. Layout' /\ PatchesMatch'
  BY <1>1 DEF Layout, PatchesMatch
<1>4. Content'
  BY <1>1 DEF Content, OthersKept
<1>5. LabelsMatch'
  BY <1>1 DEF LabelsMatch, DefinedIn, Address
<1>6. Verdicts'
  <2>1. \A p : Good(p)' = Good(p)
    BY <1>1 DEF Good
  <2>2. ok' <=> \A p \in DOMAIN patches' : p < next' => Good(p)'
    BY <2>1 DEF Verdicts
  <2>3. hasError' <=> \E i \in LineNo' : Emitted(i)'.error
    BY <1>1 DEF Verdicts
  <2> QED
    BY <2>2, <2>3 DEF Verdicts
<1> QED
  BY <1>2, <1>3, <1>4, <1>5, <1>6

\* Every step of the assembler keeps the invariant (loadFile, resolveLabels,
\* finalise).
THEOREM AsmInductive == Spec => []AsmInv
<1>1. Init => AsmInv
  <2> SUFFICES ASSUME Init PROVE AsmInv
    OBVIOUS
  <2> USE DEF Init
  <2>1. LineNo = {} /\ DOMAIN patches = {} /\ DOMAIN labelDefs = {}
    BY DEF LineNo
  <2>2. ShapeOK
    <3>1. /\ program \in Seq(Word) /\ source \in Seq(Lines) /\ first \in Seq(Nat)
          /\ patches \in Seq(Patch)
      OBVIOUS
    <3>2. Len(patches) = 0 /\ Len(first) = Len(source)
      OBVIOUS
    <3>3. next \in 1 .. 0 + 1
      OBVIOUS
    <3>4. hasError \in BOOLEAN /\ ok \in BOOLEAN
      OBVIOUS
    <3> QED
      BY <3>1, <3>2, <3>3, <3>4 DEF ShapeOK
  <2> QED
    BY <2>1, <2>2 DEF AsmInv, Layout, PatchesMatch, Content, OthersKept, LabelsMatch, Verdicts
<1>2. AsmInv /\ [Next]_vars => AsmInv'
  <2> SUFFICES ASSUME AsmInv, [Next]_vars PROVE AsmInv'
    OBVIOUS
  <2>1. CASE \E l \in Lines : ReadLine(l)
    BY <2>1, ReadKeeps
  <2>2. CASE EndOfFile
    BY <2>2, PhaseKeeps DEF EndOfFile
  <2>3. CASE SkipPatch
    <3>1. next \in DOMAIN patches /\ ok \in BOOLEAN
      BY <2>3 DEF SkipPatch, AtPatch, AsmInv, ShapeOK
    <3>2. Good(next)
      BY <2>3 DEF SkipPatch, Good
    <3>3. ok' = (ok /\ Good(next))
      BY <2>3, <3>1, <3>2 DEF SkipPatch
    <3> QED
      BY <2>3, <3>1, <3>3, PassKeeps DEF SkipPatch, AtPatch
  <2>4. CASE UndefinedLabel
    <3>1. next \in DOMAIN patches
      BY <2>4 DEF UndefinedLabel, AtPatch, AsmInv, ShapeOK
    <3>2. ~Good(next)
      BY <2>4 DEF UndefinedLabel, Good
    <3>3. ok' = (ok /\ Good(next))
      BY <2>4, <3>2 DEF UndefinedLabel
    <3> QED
      BY <2>4, <3>1, <3>3, PassKeeps DEF UndefinedLabel, AtPatch
  <2>5. CASE ApplyPatch
    BY <2>5, ApplyKeeps
  <2>6. CASE Finalised
    <3>1. phase' = "assembled" => ok /\ ~hasError /\ next > Len(patches)
      BY <2>6 DEF Finalised
    <3>2. phase' = "failed" => hasError \/ (~ok /\ next > Len(patches))
      BY <2>6 DEF Finalised
    <3>3. phase' \in {"assembled", "failed"}
      BY <2>6 DEF Finalised
    <3> QED
      BY <2>6, <3>1, <3>2, <3>3, PhaseKeeps DEF Finalised
  <2>7. CASE UNCHANGED vars
    BY <2>7, PhaseKeeps DEF vars, AsmInv, Verdicts, ShapeOK
  <2> QED
    BY <2>1, <2>2, <2>3, <2>4, <2>5, <2>6, <2>7 DEF Next, Over
<1> QED
  BY <1>1, <1>2, PTL DEF Spec

-----------------------------------------------------------------------------
(* What follows from it.                                                   *)

\* A label's value is the address of the last line that defines it.
LEMMA DefinedAt ==
    ASSUME AsmInv, NEW n \in DOMAIN labelDefs
    PROVE  /\ DefinedIn(n) # {}
           /\ labelDefs[n] = AddressOf(n)
           /\ \E j \in LineNo : labelDefs[n] = Address(first[j])
<1>1. PICK j \in DefinedIn(n) : /\ labelDefs[n] = Address(first[j])
                                /\ \A k \in DefinedIn(n) : k <= j
  BY DEF AsmInv, LabelsMatch
<1>2. \A k \in DefinedIn(n) : k \in Nat /\ k \in LineNo
  BY DEF DefinedIn, LineNo, AsmInv, ShapeOK
<1>3. PICK x : x = CHOOSE y \in DefinedIn(n) : \A k \in DefinedIn(n) : k <= y
  OBVIOUS
<1>4. x \in DefinedIn(n) /\ \A k \in DefinedIn(n) : k <= x
  BY <1>1, <1>3
<1>5. x = j
  BY <1>1, <1>2, <1>4
<1>6. AddressOf(n) = Address(first[x])
  BY <1>3 DEF AddressOf
<1> QED
  BY <1>1, <1>2, <1>5, <1>6

\* Labels lie within the program, or right behind it, and patches within it.
THEOREM AsmTypeCorrect == Spec => []TypeOK
<1>1. AsmInv => TypeOK
  <2> SUFFICES ASSUME AsmInv PROVE TypeOK
    OBVIOUS
  <2>1. ShapeOK /\ Layout /\ PatchesMatch
    BY DEF AsmInv
  <2>2. ASSUME NEW n \in DOMAIN labelDefs PROVE labelDefs[n] \in baseAddr .. currentPC
    <3>1. PICK j \in LineNo : labelDefs[n] = Address(first[j])
      BY DefinedAt
    <3>2. /\ first[j] \in Nat /\ Size(j) \in Nat /\ first[j] + Size(j) <= Len(program)
          /\ Len(program) \in Nat
      BY <2>1, Stretches DEF Layout, ShapeOK
    <3>3. baseAddr \in Nat
      BY AssemblerAssumption
    <3> QED
      BY <3>1, <3>2, <3>3 DEF Address, currentPC
  <2>3. ASSUME NEW p \in DOMAIN patches PROVE patches[p].idx \in 0 .. Len(program) - 1
    <3>1. PICK i \in LineNo, k \in 1 .. 2 : PatchOf(p, i, k)
      BY <2>1 DEF PatchesMatch
    <3>2. /\ k \in 1 .. Size(i) /\ patches[p].idx = first[i] + k - 1
          /\ first[i] + Size(i) <= Len(program)
          /\ first[i] \in Nat /\ Size(i) \in Nat /\ Len(program) \in Nat
      BY <2>1, <3>1, Stretches DEF ShapeOK
    <3> QED
      BY <3>2
  <2> QED
    BY <2>1, <2>2, <2>3 DEF TypeOK, ShapeOK
<1> QED
  BY <1>1, AsmInductive, PTL

\* Resolving the labels of some lines never touches the words of a line
\* without a label (resolveLabels).
THEOREM OthersCorrect == Spec => []OthersKept
<1>1. AsmInv => OthersKept
  BY DEF AsmInv, Content
<1> QED
  BY <1>1, AsmInductive, PTL

\* The second reference of an la is passed over, unless the first one has no
\* name at all: then that one is never defined.
LEMMA MarkedLabel ==
    ASSUME NEW n \in Labels, ~Skipped(Lo(n))
    PROVE  ~Skipped(n) /\ DefinedIn(n) = {}
<1>1. PICK m : m = Lo(n)
  OBVIOUS
<1>2. m \in Labels /\ m.lo = n.lo + 1 /\ m.stem = n.stem /\ n.lo \in Nat
  BY <1>1 DEF Lo, Labels
<1>3. n.lo = 0 /\ n.stem = ""
  <2>1. m.lo > 0
    BY <1>2
  <2>2. m = [stem |-> "", lo |-> 1]
    BY <1>1, <2>1 DEF Skipped
  <2>3. m.lo = 1 /\ m.stem = ""
    BY <2>2
  <2>4. PICK x \in Nat : x = n.lo
    BY <1>2
  <2>5. x + 1 = 1
    BY <1>2, <2>3, <2>4
  <2>6. x = 0
    BY <2>5
  <2>7. n.stem = ""
    BY <1>2, <2>3
  <2> QED
    BY <2>4, <2>6, <2>7
<1>4. n = NoLabel
  BY <1>3 DEF NoLabel, Labels
<1>5. \A l : n \notin Defines(l)
  BY <1>4 DEF Defines
<1>6. ~(n.lo > 0)
  <2>1. n.lo = 0
    BY <1>3
  <2> QED
    BY <2>1
<1> QED
  BY <1>5, <1>6 DEF Skipped, DefinedIn

\* A file is assembled if and only if no line is faulty and every label it
\* refers to, those that end in __lo apart, is defined in it (loadFile,
\* resolveLabels, finalise).
THEOREM VerdictCorrect == Spec => []VerdictExact
<1>1. AsmInv => VerdictExact
  <2> SUFFICES ASSUME AsmInv, phase \in {"assembled", "failed"}
               PROVE  phase = "assembled"
                         <=> \A i \in LineNo :
                                /\ ~emitted(source[i]).error
                                /\ \A n \in Reference(i) : Skipped(n) \/ DefinedIn(n) # {}
    BY DEF VerdictExact
  <2>1. /\ ShapeOK /\ Layout /\ PatchesMatch /\ Verdicts
        /\ \A i \in LineNo : source[i] \in Lines
        /\ \A p \in DOMAIN patches : p \in Nat /\ p <= Len(patches)
        /\ next \in Nat /\ Len(patches) \in Nat
    BY DEF AsmInv, ShapeOK, LineNo
  <2>2. \A n : n \in DOMAIN labelDefs <=> DefinedIn(n) # {}
    BY DefinedAt DEF AsmInv, LabelsMatch, DefinedIn
  <2>3. ASSUME phase = "assembled", NEW i \in LineNo
        PROVE  /\ ~emitted(source[i]).error
               /\ \A n \in Reference(i) : Skipped(n) \/ DefinedIn(n) # {}
    <3>1. ~emitted(source[i]).error
      BY <2>1, <2>3 DEF Verdicts, Emitted
    <3>2. ASSUME NEW n \in Reference(i) PROVE Skipped(n) \/ DefinedIn(n) # {}
      <4>1. Emitted(i).refs # <<>> /\ n = Emitted(i).refs[1].label
        BY <3>2 DEF Reference, Emitted
      <4>2. 1 \in DOMAIN Emitted(i).refs
        BY <2>1, <4>1, RefFacts DEF Emitted
      <4>3. PICK p \in DOMAIN patches : PatchOf(p, i, 1)
        BY <2>1, <4>2 DEF PatchesMatch
      <4>4. Good(p)
        BY <2>1, <2>3 DEF Verdicts
      <4>5. patches[p].label = n
        BY <4>1, <4>3 DEF PatchOf
      <4> QED
        BY <2>2, <4>4, <4>5 DEF Good
    <3> QED
      BY <3>1, <3>2
  <2>4. ASSUME phase = "failed",
               \A i \in LineNo : /\ ~emitted(source[i]).error
                                 /\ \A n \in Reference(i) : Skipped(n) \/ DefinedIn(n) # {}
        PROVE  FALSE
    <3>1. ~hasError
      BY <2>1, <2>4 DEF Verdicts, Emitted
    <3>2. PICK p \in DOMAIN patches : ~Good(p)
      BY <2>1, <2>4, <3>1 DEF Verdicts
    <3>3. PICK i \in LineNo, k \in 1 .. 2 : PatchOf(p, i, k)
      BY <2>1 DEF PatchesMatch
    <3>4. PICK e : e = Emitted(i)
      OBVIOUS
    <3>5. /\ DOMAIN e.refs = 1 .. Len(e.refs) /\ Len(e.refs) \in 0 .. 2
          /\ e.refs = <<>> <=> Len(e.refs) = 0
          /\ \A x \in DOMAIN e.refs : e.refs[x].label \in Labels
          /\ Len(e.refs) = 2 => e.refs[2].label = Lo(e.refs[1].label)
      BY <2>1, <3>4, RefFacts DEF Emitted
    <3>6. k \in DOMAIN e.refs /\ patches[p].label = e.refs[k].label
      BY <3>3, <3>4 DEF PatchOf
    <3>7. e.refs # <<>> /\ 1 \in DOMAIN e.refs /\ (k = 2 => Len(e.refs) = 2)
      BY <3>5, <3>6
    <3>8. PICK n \in Labels : n = e.refs[1].label
      BY <3>5, <3>7
    <3>9. n \in Reference(i)
      BY <3>4, <3>7, <3>8 DEF Reference, Emitted
    <3>10. Skipped(n) \/ DefinedIn(n) # {}
      BY <2>4, <3>9
    <3>11. CASE k = 1
      BY <2>2, <3>2, <3>3, <3>6, <3>8, <3>10, <3>11 DEF Good
    <3>12. CASE k = 2
      <4>1. patches[p].label = Lo(n)
        BY <3>5, <3>6, <3>7, <3>8, <3>12
      <4>2. ~Skipped(Lo(n))
        BY <3>2, <4>1 DEF Good
      <4> QED
        BY <3>10, <4>2, MarkedLabel
    <3> QED
      BY <3>11, <3>12
  <2> QED
    BY <2>3, <2>4
<1> QED
  BY <1>1, AsmInductive, PTL

-----------------------------------------------------------------------------
(* The distance to a label in reach survives its encoding.                 *)

\* The words new lead d bytes further (a jump, a branch) or load t (an la);
\* the other fields of old are kept.
LeadsOn(old, new, d, t) ==
    /\ decodeOpcode(new[1]) = decodeOpcode(old)
    /\ decodeOpcode(old) # BRANCH => decodeRd(new[1]) = decodeRd(old)
    /\ decodeOpcode(old) = JAL => decodeImmJ(new[1]) = Bits(d)
    /\ decodeOpcode(old) = BRANCH => /\ decodeImmB(new[1]) = Bits(d)
                                     /\ decodeRs1(new[1]) = decodeRs1(old)
                                     /\ decodeRs2(new[1]) = decodeRs2(old)
                                     /\ decodeFunct3(new[1]) = decodeFunct3(old)
    /\ decodeOpcode(old) = LUI =>
          /\ decodeRs1(new[2]) = decodeRd(new[1]) /\ decodeRd(new[2]) = decodeRd(new[1])
          /\ Add(decodeImmU(new[1]), decodeImmI(new[2])) = t

\* What a branch in reach says.
LEMMA BranchWord ==
    ASSUME NEW i \in Word, NEW rs2 \in Field(5), NEW rs1 \in Field(5), NEW f3 \in Field(3),
           Fits(i, 13), 0 \notin i, NEW w, w = encodeB(i, rs2, rs1, f3, BRANCH)
    PROVE  /\ decodeOpcode(w) = BRANCH /\ decodeRs1(w) = rs1 /\ decodeRs2(w) = rs2
           /\ decodeFunct3(w) = f3 /\ decodeImmB(w) = i
BY BFormat, OpcodeFields

\* What resolveLabels writes leads to the label.
LEMMA PatchLeads ==
    ASSUME NEW old \in Word, NEW x \in Int, NEW d, d = 4 * x, NEW t \in Word,
           NEW new, new = patch(old, Bits(d), t),
           decodeOpcode(old) \in Patchable,
           decodeOpcode(old) = BRANCH => BranchReach(d),
           decodeOpcode(old) = JAL => JumpReach(d)
    PROVE  LeadsOn(old, new, d, t)
<1>0. d \in Int /\ d % 2 = 0
  OBVIOUS
<1>1. PICK rd, rs1, rs2, f3, v : /\ rd = decodeRd(old) /\ rs1 = decodeRs1(old)
                                 /\ rs2 = decodeRs2(old) /\ f3 = decodeFunct3(old)
                                 /\ v = Bits(d)
  OBVIOUS
<1>2. rd \in Field(5) /\ rs1 \in Field(5) /\ rs2 \in Field(5) /\ f3 \in Field(3) /\ v \in Word
  BY <1>1, BitsWord DEF decodeRd, decodeRs1, decodeRs2, decodeFunct3, Low, Shr, Field, Bit
<1>3. CASE decodeOpcode(old) = JAL
  <2>1. new = <<encodeJ(v, rd, JAL)>>
    BY <1>1, <1>3, OpcodeFields DEF patch
  <2>2. Fits(v, 21) /\ 0 \notin v
    BY <1>0, <1>1, <1>3, DistanceFits
  <2>3. PICK w : w = encodeJ(v, rd, JAL)
    OBVIOUS
  <2>4. decodeOpcode(w) = JAL /\ decodeRd(w) = rd /\ decodeImmJ(w) = v
    BY <1>2, <2>2, <2>3, JFormat, OpcodeFields
  <2>5. new[1] = w
    BY <2>1, <2>3
  <2> QED
    BY <1>1, <1>3, <2>4, <2>5, OpcodeFields DEF LeadsOn
<1>4. CASE decodeOpcode(old) = BRANCH
  <2>1. new = <<encodeB(v, rs2, rs1, f3, BRANCH)>>
    BY <1>1, <1>4, OpcodeFields DEF patch
  <2>2. Fits(v, 13) /\ 0 \notin v
    BY <1>0, <1>1, <1>4, DistanceFits
  <2>3. PICK w : w = encodeB(v, rs2, rs1, f3, BRANCH)
    OBVIOUS
  <2>4. /\ decodeOpcode(w) = BRANCH /\ decodeRs1(w) = rs1 /\ decodeRs2(w) = rs2
        /\ decodeFunct3(w) = f3 /\ decodeImmB(w) = v
    BY <1>2, <2>2, <2>3, BranchWord
  <2>5. new[1] = w
    BY <2>1, <2>3
  <2> QED
    BY <1>1, <1>4, <2>4, <2>5, OpcodeFields DEF LeadsOn
<1>5. CASE decodeOpcode(old) = LUI
  <2>1. new = <<encodeU(hiPart(t), rd, LUI), encodeI(loPart(t), rd, {}, rd, I_ARITH)>>
    BY <1>1, <1>5, OpcodeFields DEF patch, ADDI
  <2>2. PICK h, l : h = hiPart(t) /\ l = loPart(t)
    OBVIOUS
  <2>3. /\ h \in Word /\ l \in Word /\ h \ 0 .. 11 = h /\ Fits(l, 12) /\ Add(h, l) = t
        /\ {} \in Field(3)
    BY <2>2, HiLo DEF Field
  <2>4. PICK u, a : u = encodeU(h, rd, LUI) /\ a = encodeI(l, rd, {}, rd, I_ARITH)
    OBVIOUS
  <2>5. decodeOpcode(u) = LUI /\ decodeRd(u) = rd /\ decodeImmU(u) = h
    BY <1>2, <2>3, <2>4, UFormat, OpcodeFields
  <2>6. decodeRs1(a) = rd /\ decodeRd(a) = rd /\ decodeImmI(a) = l
    BY <1>2, <2>3, <2>4, IFormat, OpcodeFields
  <2>7. new[1] = u /\ new[2] = a
    BY <2>1, <2>2, <2>4
  <2> QED
    BY <1>1, <1>5, <2>3, <2>5, <2>6, <2>7, OpcodeFields DEF LeadsOn
<1> QED
  BY <1>3, <1>4, <1>5 DEF Patchable

\* In an assembled program every reference in reach leads to its label, unless
\* the label ends in __lo (addInstr, addLabelInstr, resolveLabels).
THEOREM LabelsCorrect == Spec => []LabelsResolved
<1>1. AsmInv => LabelsResolved
  <2> SUFFICES ASSUME AsmInv, phase = "assembled",
                      NEW i \in LineNo, NEW n \in Reference(i),
                      ~Skipped(n), InReach(i, AddressOf(n))
               PROVE  Leads(i, AddressOf(n))
    BY DEF LabelsResolved
  <2>1. /\ ShapeOK /\ Layout /\ PatchesMatch /\ Content /\ Verdicts
        /\ source[i] \in Lines /\ first[i] \in Nat
    BY Stretches DEF AsmInv
  <2>2. PICK e : e = Emitted(i)
    OBVIOUS
  <2>3. e.refs # <<>> /\ n = e.refs[1].label /\ e = emitted(source[i])
    BY <2>2 DEF Reference, Emitted
  <2>4. /\ e.words \in Seq(Word) /\ Len(e.refs) \in 1 .. 2 /\ 1 \in DOMAIN e.refs
        /\ Len(e.words) = Len(e.refs)
        /\ decodeOpcode(e.words[1]) \in Patchable
        /\ decodeOpcode(e.words[1]) = LUI => Len(e.refs) = 2
    BY <2>1, <2>3, RefFacts
  <2>5. PICK s \in 1 .. 2 : s = Size(i) /\ s = Len(e.refs)
    <3>1. Len(Emitted(i).refs) > 0
      BY <2>2, <2>4
    <3>2. Size(i) = Len(Emitted(i).refs) /\ Size(i) \in 1 .. 2
      BY <2>1, <3>1, Stretches
    <3> QED
      BY <2>2, <3>2
  <2>6. PICK p \in DOMAIN patches : PatchOf(p, i, 1)
    BY <2>1, <2>2, <2>4 DEF PatchesMatch
  <2>7. p < next
    BY <2>1 DEF Verdicts, ShapeOK
  <2>8. patches[p].label = n
    <3>1. patches[p].label = Emitted(i).refs[1].label
      BY <2>6 DEF PatchOf
    <3> QED
      BY <2>2, <2>3, <3>1
  <2>9. n \in DOMAIN labelDefs
    <3>1. Good(p)
      BY <2>1, <2>7 DEF Verdicts
    <3> QED
      BY <2>8, <3>1 DEF Good
  <2>10. PICK a, j : /\ a = AddressOf(n) /\ a = labelDefs[n]
                     /\ j \in LineNo /\ a = Address(first[j])
    BY <2>9, DefinedAt
  <2>11. Resolved(i, a)
    <3>1. Applied(p)
      BY <2>7, <2>8, <2>9 DEF Applied
    <3> QED
      BY <2>1, <2>6, <2>8, <2>10, <3>1 DEF Content
  <2>12. PICK x \in Int : a - Address(first[i]) = 4 * x
    <3>1. first[i] \in Nat /\ first[j] \in Nat /\ baseAddr \in Nat
      BY <2>1, <2>10, Stretches, AssemblerAssumption
    <3>2. a - Address(first[i]) = 4 * (first[j] - first[i])
      BY <2>10, <3>1 DEF Address
    <3> QED
      BY <3>1, <3>2
  <2>13. PICK d, t, old, new : /\ d = a - Address(first[i]) /\ t = Bits(a)
                               /\ old = e.words[1] /\ new = patch(old, Bits(d), t)
    OBVIOUS
  <2>14. d = 4 * x /\ t \in Word /\ old \in Word /\ decodeOpcode(old) \in Patchable
    BY <2>4, <2>12, <2>13, BitsWord
  <2>15. /\ decodeOpcode(old) = BRANCH => BranchReach(d)
         /\ decodeOpcode(old) = JAL => JumpReach(d)
    BY <2>3, <2>10, <2>13 DEF InReach
  <2>16. LeadsOn(old, new, d, t)
    <3>1. new = patch(old, Bits(d), t)
      BY <2>13
    <3> QED
      BY <2>14, <2>15, <3>1, PatchLeads
  <2>17. \A k \in 1 .. s : program[first[i] + k] = new[k]
    BY <2>2, <2>5, <2>11, <2>13 DEF Resolved
  <2>18. program[first[i] + 1] = new[1]
    BY <2>17
  <2>19. decodeOpcode(old) = LUI => program[first[i] + 2] = new[2]
    BY <2>4, <2>5, <2>13, <2>17
  <2> QED
    BY <2>3, <2>10, <2>13, <2>16, <2>18, <2>19 DEF Leads, LeadsOn
<1> QED
  BY <1>1, AsmInductive, PTL
==============================================================================
