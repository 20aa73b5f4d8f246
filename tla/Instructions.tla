---------------------------- MODULE Instructions ----------------------------
(***************************************************************************)
(* One source instruction from its text to its effect: assembled and       *)
(* patched by Assembly.tla, its words executed by Datapath.tla.  The       *)
(* assembler and the interpreter share nothing but encode.h; that a        *)
(* program means what it says depends on the two agreeing on every field.  *)
(***************************************************************************)
EXTENDS Assembly, Datapath

CONSTANTS Instrs,     \* source instructions: records [mnem, ops]
          RegFiles,   \* register files a hart may have before it
          Origins,    \* addresses of the instruction
          Offsets     \* distances to the label it refers to

\* The operands are what the parsers make of a text, x0 is 0, and a label is the
\* address of a word, so a distance is even.
ASSUME InstructionsAssumption ==
    /\ Instrs \subseteq [mnem : STRING, ops : Seq(Operand)]
    /\ \A i \in Instrs : \A k \in DOMAIN i.ops : Parsed(i.ops[k])
    /\ RegFiles \subseteq [Registers -> Word]
    /\ \A x \in RegFiles : x[0] = {}
    /\ Origins \subseteq Nat /\ Offsets \subseteq Int
    /\ \A d \in Offsets : d % 2 = 0

VARIABLES ins, start, offset,  \* the inputs: instruction, registers and pc, distance
          stage,               \* "text", "words", "done" or "refused"
          left,                \* words still to be executed
          now                  \* the state of the hart, with the end of the last call

vars == <<ins, start, offset, stage, left, now>>

Init ==
    /\ ins \in Instrs
    /\ \E x \in RegFiles, pc \in Origins : start = [x |-> x, pc |-> pc]
    /\ offset \in IF ins.mnem \in Labelled THEN Offsets ELSE {0}
    /\ stage = "text" /\ left = <<>>
    /\ now = Ends("start", start.x, Bits(start.pc), NoAccess)

Patched(a) ==
    IF a.refs = <<>> THEN a.words
    ELSE patch(a.words[1], Bits(offset), Bits(start.pc + offset))

Assemble ==
    /\ stage = "text"
    /\ LET a == assemble(ins.mnem, ins.ops) IN
          /\ left' = IF a.error THEN <<>> ELSE Patched(a)
          /\ stage' = IF a.error THEN "refused" ELSE "words"
    /\ UNCHANGED <<ins, start, offset, now>>

Execute ==
    /\ stage = "words"
    /\ now' = executeOne(Head(left), now.x, now.pc)
    /\ left' = Tail(left)
    /\ stage' = IF Tail(left) = <<>> \/ now'.end # "retired" THEN "done" ELSE "words"
    /\ UNCHANGED <<ins, start, offset>>

Finished == stage \in {"done", "refused"} /\ UNCHANGED vars

Next == Assemble \/ Execute \/ Finished

Spec == Init /\ [][Next]_vars

-----------------------------------------------------------------------------
(* What the mnemonics mean, in terms of integers where these are meant.    *)

Signed(w) == IF 31 \in w THEN -1 - Number((0 .. 30) \ w) ELSE Number(w)

\* Unsigned comparison of two int32_t values.
Below(a, b) == IF (a < 0) = (b < 0) THEN a < b ELSE b < 0

\* The operation an immediate form is a form of.
RegisterForm == [addi |-> "add", slli |-> "sll", slti |-> "slt", sltiu |-> "sltu",
                 xori |-> "xor", srli |-> "srl", srai |-> "sra", ori |-> "or",
                 andi |-> "and"]

Result(m, a, b) ==
    LET n == Number(Low(b, 5)) IN
    CASE m = "add"  -> Bits(Signed(a) + Signed(b))
      [] m = "sub"  -> Bits(Signed(a) - Signed(b))
      [] m = "slt"  -> Truth(Signed(a) < Signed(b))
      [] m = "sltu" -> Truth(Below(Signed(a), Signed(b)))
      [] m = "and"  -> a \cap b
      [] m = "or"   -> a \cup b
      [] m = "xor"  -> (a \cup b) \ (a \cap b)
      [] m = "sll"  -> {k + n : k \in a} \cap Bit
      [] m = "srl"  -> {k - n : k \in a} \cap Bit
      [] m = "sra"  -> {k \in Bit : IF k + n <= 31 THEN k + n \in a ELSE 31 \in a}

Holds(m, a, b) ==
    CASE m \in {"beq", "beqz"} -> a = b
      [] m \in {"bne", "bnez"} -> a # b
      [] m \in {"blt", "bltz"} -> a < b
      [] m \in {"bge", "bgez"} -> a >= b
      [] m = "bltu" -> Below(a, b)
      [] m = "bgeu" -> ~Below(a, b)
      [] m = "blez" -> a <= b
      [] m = "bgtz" -> a > b

Written(rd, v) == IF rd = 0 THEN start.x ELSE [start.x EXCEPT ![rd] = v]

Size == IF left = <<>> /\ stage = "done" THEN Len(Patched(assemble(ins.mnem, ins.ops))) ELSE 1

Goes(x, pc) == Ends("retired", x, Bits(pc), NoAccess)

Meaning ==
    LET m == ins.mnem
        o == ins.ops
        pc == start.pc
        next == pc + 4 * Size
        Reg(i) == start.x[o[i].n]
        Val(i) == Signed(Reg(i))
        Access(op) == [op |-> op, signed |-> m \in {"lb", "lh"}, reg |-> o[1].n,
                       width |-> CASE m \in {"lb", "lbu", "sb"} -> 1
                                   [] m \in {"lh", "lhu", "sh"} -> 2
                                   [] m \in {"lw", "sw"} -> 4,
                       addr |-> Bits(Val(2) + Signed(o[2].v))]
        Branch(a, b) == Goes(start.x, IF Holds(m, a, b) THEN pc + offset ELSE pc + 4)
    IN  CASE m \in DOMAIN RMnem -> Goes(Written(o[1].n, Result(m, Reg(2), Reg(3))), next)
          [] m \in DOMAIN IMnem ->
                 Goes(Written(o[1].n, Result(RegisterForm[m], Reg(2), o[3].v)), next)
          [] m \in DOMAIN BranchMnem -> Branch(Val(1), Val(2))
          [] m \in DOMAIN BranchZ \cup DOMAIN ZBranch -> Branch(Val(1), 0)
          [] m \in DOMAIN LoadMnem  -> Ends("retired", start.x, Bits(next), Access("LOAD"))
          [] m \in DOMAIN StoreMnem -> Ends("retired", start.x, Bits(next), Access("STORE"))
          [] m = "nop"  -> Goes(start.x, next)
          [] m = "mv"   -> Goes(Written(o[1].n, Reg(2)), next)
          [] m = "not"  -> Goes(Written(o[1].n, Bits(-1 - Val(2))), next)
          [] m = "neg"  -> Goes(Written(o[1].n, Bits(0 - Val(2))), next)
          [] m = "li"   -> Goes(Written(o[1].n, o[2].v), next)
          [] m = "la"   -> Goes(Written(o[1].n, Bits(pc + offset)), next)
          [] m = "lui"  -> Goes(Written(o[1].n, Shl(o[2].v, 12)), next)
          [] m = "auipc" -> Goes(Written(o[1].n, Bits(pc + 4096 * Signed(o[2].v))), next)
          [] m = "j"    -> Goes(start.x, pc + offset)
          [] m = "call" -> Goes(Written(1, Bits(next)), pc + offset)
          [] m = "jal"  -> Goes(Written(o[1].n, Bits(next)), pc + offset)
          [] m = "ret"  -> Goes(start.x, Signed(start.x[1] \ {0}))
          [] m = "jalr" -> Goes(Written(o[1].n, Bits(next)),
                                Signed(Bits(Val(2) + Signed(o[3].v)) \ {0}))
          [] m = "ecall"  -> Ends("ECALL_U", start.x, Bits(pc), NoAccess)
          [] m = "ebreak" -> Ends("BREAKPOINT", start.x, Bits(pc), NoAccess)
          [] m \in DOMAIN CsrMnem \cup {"csrr", "mret"}
                          -> Ends("ILLEGAL_INSN", start.x, Bits(pc), NoAccess)

\* The number in v is one of the field's: 12 bits, or 5 for a shift.
SmallImm(v)    == -2048 <= Signed(v) /\ Signed(v) <= 2047
ShiftAmount(v) == 0 <= Signed(v) /\ Signed(v) <= 31

Encodable ==
    LET m == ins.mnem
        o == ins.ops
    IN  /\ m \in DOMAIN IMnem => IF m \in {"slli", "srli", "srai"}
                                 THEN ShiftAmount(o[3].v) ELSE SmallImm(o[3].v)
        /\ m = "jalr" => SmallImm(o[3].v)
        /\ m \in Accesses => SmallImm(o[2].v)
        /\ m \in BranchLike => BranchReach(offset)
        /\ m \in {"j", "call", "jal"} => JumpReach(offset)

\* An instruction whose operands fit its format does what its mnemonic says:
\* the right registers, operation, immediate, branch condition and target, and
\* the trap it is meant to raise.  li and la, which are two instructions, leave
\* the whole 32-bit value.  Only .word, which is data, has no meaning.
MeansWhatItSays ==
    stage = "done" /\ Encodable /\ ins.mnem # ".word" => now = Meaning

\* No instruction but .word is assembled to one of the two words that stop a
\* hart, whatever its operands are, in range or not.
NeverHalts == ins.mnem # ".word" => now.end # "halted"
=============================================================================
