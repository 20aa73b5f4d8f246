------------------------------ MODULE Datapath ------------------------------
(***************************************************************************)
(* The switch of executeOne (cpu.h) for a hart in U-mode: what one fetched *)
(* word does to the registers and the pc.  Fetching, interrupts and the    *)
(* delivery of a trap are in Cpu.tla, where the same step is an action     *)
(* with this data as input; a load or store ends here in the access it     *)
(* asks memory for, which is carried out in ProtectedMemory.tla.           *)
(***************************************************************************)
EXTENDS Encode, FiniteSetsExt

Number(w) == MapThenSumSet(LAMBDA b : 2^b, w)     \* of a field

Registers == 0 .. 31

NoAccess == [op |-> "none", width |-> 0, signed |-> FALSE, addr |-> {}, reg |-> 0]

\* How a call ends: retired, halted, or a trap's cause.
Ends(end, x, pc, access) == [end |-> end, x |-> x, pc |-> pc, access |-> access]

Amount(b) == Number(Low(b, 5))     \* b & 31

Truth(p) == IF p THEN {0} ELSE {}

\* A result is written to its register unless that is x0.
Put(x, rd, v) == IF rd = 0 THEN x ELSE [x EXCEPT ![rd] = v]

\* funct7 NORMAL, and all of I_ARITH but SRAI.
aluR(f3, a, b) ==
    CASE f3 = 0 -> Add(a, b)               [] f3 = 1 -> Shl(a, Amount(b))
      [] f3 = 2 -> Truth(Lt(a, b))         [] f3 = 3 -> Truth(Ltu(a, b))
      [] f3 = 4 -> (a \ b) \cup (b \ a)    [] f3 = 5 -> Shr(a, Amount(b))
      [] f3 = 6 -> a \cup b                [] f3 = 7 -> a \cap b

\* funct7 ALT: SUB and SRA.
aluAlt(f3, a, b) == IF f3 = 0 THEN Sub(a, b) ELSE Sra(a, Amount(b))

aluI(f7, f3, a, imm) ==
    IF f3 = 5 /\ f7 = ALT THEN Sra(a, Amount(imm)) ELSE aluR(f3, a, imm)

\* BEQ, BNE, BLT, BGE, BLTU, BGEU; funct3 2 and 3 are illegal.
taken(f3, a, b) ==
    CASE f3 = 0 -> a = b      [] f3 = 1 -> a # b
      [] f3 = 4 -> Lt(a, b)   [] f3 = 5 -> ~Lt(a, b)
      [] f3 = 6 -> Ltu(a, b)  [] f3 = 7 -> ~Ltu(a, b)

Width(f3) == CASE f3 \in {0, 4} -> 1 [] f3 \in {1, 5} -> 2 [] f3 = 2 -> 4

ECALL  == SYSTEM
EBREAK == SYSTEM \cup {20}

executeOne(w, x, pc) ==
    LET opcode == decodeOpcode(w)
        rd     == Number(decodeRd(w))
        f3     == Number(decodeFunct3(w))
        f7     == decodeFunct7(w)
        reg(r) == IF r = 0 THEN {} ELSE x[r]
        a      == reg(Number(decodeRs1(w)))
        b      == reg(Number(decodeRs2(w)))
        next   == Add(pc, {2})
        illegal == Ends("ILLEGAL_INSN", x, pc, NoAccess)
        put(v) == Put(x, rd, v)
        goto(regs, target) ==
            Ends("retired", [regs EXCEPT ![0] = {}], target, NoAccess)
        access(op, r, imm) ==
            Ends("retired", x, next, [op |-> op, width |-> Width(f3),
                 signed |-> op = "LOAD" /\ f3 < 2, addr |-> Add(a, imm), reg |-> r])
    IN  CASE w \in {{}, Bit}   -> Ends("halted", x, pc, NoAccess)
          [] opcode = R_TYPE   -> (CASE f7 = NORMAL -> goto(put(aluR(f3, a, b)), next)
                                     [] f7 = ALT /\ f3 \in {0, 5}
                                                    -> goto(put(aluAlt(f3, a, b)), next)
                                     [] OTHER       -> illegal)
          [] opcode = I_ARITH  -> goto(put(aluI(f7, f3, a, decodeImmI(w))), next)
          [] opcode = LOAD     -> IF f3 \in {0, 1, 2, 4, 5}
                                  THEN access("LOAD", rd, decodeImmI(w)) ELSE illegal
          [] opcode = STORE    -> IF f3 \in {0, 1, 2}
                                  THEN access("STORE", Number(decodeRs2(w)), decodeImmS(w))
                                  ELSE illegal
          [] opcode = BRANCH   -> IF f3 \in {2, 3} THEN illegal
                                  ELSE goto(x, IF taken(f3, a, b)
                                               THEN Add(pc, decodeImmB(w)) ELSE next)
          [] opcode = JAL      -> goto(put(next), Add(pc, decodeImmJ(w)))
          [] opcode = JALR     -> goto(put(next), Add(a, decodeImmI(w)) \ {0})
          [] opcode = LUI      -> goto(put(decodeImmU(w)), next)
          [] opcode = AUIPC    -> goto(put(Add(pc, decodeImmU(w))), next)
          [] w = ECALL         -> Ends("ECALL_U", x, pc, NoAccess)
          [] w = EBREAK        -> Ends("BREAKPOINT", x, pc, NoAccess)
          [] OTHER             -> illegal
=============================================================================
