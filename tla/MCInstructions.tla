--------------------------- MODULE MCInstructions ---------------------------
(***************************************************************************)
(* Instances of Instructions.tla: every mnemonic, with registers, numbers  *)
(* and distances at the edges of their fields.                             *)
(***************************************************************************)
EXTENDS Instructions

NoLabel == [stem |-> "", lo |-> 0]
Reg(n)  == [kind |-> "reg", n |-> n, v |-> {}, s |-> NoLabel]
Imm(i)  == [kind |-> "imm", n |-> -1, v |-> Bits(i), s |-> NoLabel]
Mem(i, n) == [kind |-> "mem", n |-> n, v |-> Bits(i), s |-> NoLabel]
Label   == [kind |-> "name", n |-> -1, v |-> {}, s |-> [stem |-> "loop", lo |-> 0]]

Instr(mnems, operands) == {[mnem |-> m, ops |-> o] : m \in mnems, o \in operands}

\* Numbers: the ends of a 12-bit field and one beyond, of a shift amount, and
\* of the rounding of li.
Small == {-2049, -2048, -1, 0, 31, 1029, 2047, 2048}
Large == Small \cup {4095, 4096, 305419896, 2147481599, 2147481600, 2147483647,
                     -2147483647, -2147481601, -4096}

MCInstrs ==
    Instr(DOMAIN RMnem, {<<Reg(d), Reg(a), Reg(b)>> : d \in {0, 10}, a \in {10, 31}, b \in {10, 31}})
    \cup Instr(DOMAIN IMnem, {<<Reg(d), Reg(31), Imm(i)>> : d \in {0, 10}, i \in Small})
    \cup Instr(Accesses, {<<Reg(10), Mem(i, b)>> : i \in Small, b \in {10, 31}})
    \cup Instr(DOMAIN BranchMnem, {<<Reg(a), Reg(b), Label>> : a \in {10}, b \in {0, 31}})
    \cup Instr(DOMAIN BranchZ \cup DOMAIN ZBranch, {<<Reg(10), Label>>})
    \cup Instr(DOMAIN CsrMnem, {<<Reg(10), Reg(31), Imm(773)>>})
    \cup Instr({"csrr"}, {<<Reg(10), Imm(834)>>})
    \cup Instr({"mv", "not", "neg"}, {<<Reg(d), Reg(31)>> : d \in {0, 10}})
    \cup Instr({"li"}, {<<Reg(d), Imm(i)>> : d \in {0, 10}, i \in Large})
    \cup Instr({"la", "jal"}, {<<Reg(d), Label>> : d \in {0, 10}})
    \cup Instr({"j", "call"}, {<<Label>>})
    \cup Instr({"jalr"}, {<<Reg(d), Reg(31), Imm(i)>> : d \in {0, 31}, i \in Small})
    \cup Instr({"lui", "auipc"}, {<<Reg(10), Imm(i)>> : i \in {0, 1, 8, 32767}})
    \cup Instr(NeedNone, {<<>>})
    \cup Instr({".word"}, {<<Imm(i)>> : i \in {0, -1, 115}})

\* Register values: no sum or difference of two of them leaves an int32_t.
Values == {0, 1, -1, 1073739776, -1073739776}

MCRegFiles ==
    {[r \in Registers |-> CASE r = 1 -> Bits(65541) [] r = 10 -> Bits(a)
                            [] r = 31 -> Bits(b) [] OTHER -> {}] : a, b \in Values}

MCOffsets == {-1048576, -4100, -4096, -2052, 0, 4, 2044, 4092, 4096, 65536, 1048572, 1048576}
=============================================================================
