----------------------------- MODULE MCAssembler -----------------------------
(***************************************************************************)
(* Instances of Assembler.tla: files of a few lines that define and use    *)
(* labels in every order.                                                  *)
(***************************************************************************)
EXTENDS Assembler

loop    == [stem |-> "loop", lo |-> 0]
loop_lo == [stem |-> "loop", lo |-> 1]
end     == [stem |-> "end",  lo |-> 0]
dotted  == [stem |-> ".L1",  lo |-> 0]

Reg(n)   == [kind |-> "reg",  n |-> n,  v |-> {}, s |-> NoLabel]
Imm(i)   == [kind |-> "imm",  n |-> -1, v |-> Bits(i), s |-> NoLabel]
Ref(l)   == [kind |-> "name", n |-> -1, v |-> {}, s |-> l]

Instr(m, o) == [mnem |-> m, ops |-> o]
nop == Instr("nop", <<>>)

Line(l, alone, ins, n) == [label |-> l, alone |-> alone, ins |-> ins, times |-> n]
Alone(l)     == Line(l, TRUE, NoInstr, 1)
Before(l, i) == Line(l, FALSE, i, 1)
Just(i)      == Line(NoLabel, FALSE, i, 1)
Many(i, n)   == Line(NoLabel, FALSE, i, n)

MCLines == {
    Alone(loop), Before(end, nop), Before(dotted, nop), Alone(dotted), Alone(loop_lo),
    Just(Instr("jal", <<Reg(1), Ref(end)>>)),
    Just(Instr("bne", <<Reg(10), Reg(11), Ref(loop)>>)),
    Before(loop, Instr("la", <<Reg(10), Ref(end)>>)),
    Just(Instr("j", <<Ref(loop_lo)>>)),
    Just(Instr("li", <<Reg(10), Imm(4096)>>)),
    Just(Instr("addi", <<Reg(10), Ref(end)>>)),
    Many(nop, 2), Just(NoInstr)}

\* Labels at the ends of a branch's reach and beyond.
FarLines == {
    Alone(loop), Just(Instr("bne", <<Reg(10), Reg(11), Ref(loop)>>)),
    Just(Instr("j", <<Ref(loop)>>)), Just(nop), Many(nop, 1022)}

OddStems == {".L1"}
=============================================================================
