------------------------------ MODULE Assembler ------------------------------
(***************************************************************************)
(* assembler.h, the whole of a file: loadFile reads line after line,       *)
(* collecting words, label definitions and patches; finalise goes through  *)
(* the patches.  main calls them as loadFile(...) && finalise(), so a file *)
(* with an error is never patched.                                         *)
(*                                                                         *)
(* A line is a record: the label before a colon, if any; whether it stands *)
(* alone (the rest of the line is blank) or before an instruction; the     *)
(* instruction, if any; and how often the line is repeated, so that far    *)
(* labels need no long sources.  Only lines without a label repeat.        *)
(***************************************************************************)
EXTENDS Assembly

CONSTANTS Lines,      \* source lines
          Odd,        \* stems of labels with other characters than a-z0-9_
          baseAddr,   \* the address the program is assembled for
          MaxLines    \* bound: lines (and repeated lines) of a file

NoLabel == [stem |-> "", lo |-> 0]
NoInstr == [mnem |-> "", ops |-> <<>>]

ASSUME AssemblerAssumption ==
    /\ baseAddr \in Nat /\ baseAddr % 4 = 0
    /\ MaxLines \in Nat
    /\ Lines \subseteq [label : Labels, alone : BOOLEAN, times : Nat \ {0},
                        ins : [mnem : STRING, ops : Seq(Operand)]]
    /\ \A l \in Lines : l.times > 1 => l.label = NoLabel

VARIABLES
    program, labelDefs, patches, hasError,
    phase,    \* "read", "patch", "failed" or "assembled"
    ok,       \* resolveLabels' ok
    next,     \* the patch to be dealt with
    source,   \* history: the lines read
    first     \* history: words before each line, its place in the program

vars == <<program, labelDefs, patches, hasError, phase, ok, next, source, first>>

Init ==
    /\ program = <<>> /\ labelDefs = <<>> /\ patches = <<>> /\ hasError = FALSE
    /\ phase = "read" /\ ok = TRUE /\ next = 1
    /\ source = <<>> /\ first = <<>>

Address(i) == baseAddr + 4 * i     \* of the i-th word of the program
currentPC  == Address(Len(program))

-----------------------------------------------------------------------------
\* A label before an instruction must be alphanumeric; otherwise it is taken
\* for the mnemonic, which does not exist.
Garbled(l) == l.label # NoLabel /\ ~l.alone /\ l.label.stem \in Odd

NoWords == [words |-> <<>>, refs |-> <<>>, error |-> FALSE]

\* What assembleLine makes of a line.
emitted(l) ==
    CASE Garbled(l) -> [NoWords EXCEPT !.error = TRUE]
      [] ~Garbled(l) /\ l.ins = NoInstr -> NoWords
      [] OTHER -> assemble(l.ins.mnem, l.ins.ops)

Defines(l) == IF l.label = NoLabel \/ Garbled(l) THEN {} ELSE {l.label}

\* The last definition of a label wins.
define(l) == [n \in DOMAIN labelDefs \cup Defines(l) |->
                 IF n \in Defines(l) THEN currentPC ELSE labelDefs[n]]

Times(s, n) == [i \in 1 .. n * Len(s) |-> s[((i - 1) % Len(s)) + 1]]

\* Plausible slips: the index of a patch, or only its pc, taken after the word
\* is emitted.
patchesOf_AfterEmit(e) ==
    [i \in 1 .. Len(e.refs) |->
        [idx |-> Len(program) + Len(e.words), label |-> e.refs[i].label,
         instrPC |-> Address(Len(program) + Len(e.words))]]

patchesOf_NextPC(e) ==
    [i \in 1 .. Len(e.refs) |->
        [idx |-> Len(program) + e.refs[i].at, label |-> e.refs[i].label,
         instrPC |-> Address(Len(program) + e.refs[i].at + 1)]]

\* The patches of a line (one that is not repeated).
patchesOf(e) ==
    [i \in 1 .. Len(e.refs) |->
        [idx |-> Len(program) + e.refs[i].at, label |-> e.refs[i].label,
         instrPC |-> Address(Len(program) + e.refs[i].at)]]

\* One round of loadFile's loop, or `times` rounds on equal lines.
ReadLine(l) ==
    /\ phase = "read" /\ Len(source) < MaxLines
    /\ LET e == emitted(l) IN
          /\ l.times > 1 => e.refs = <<>>
          /\ program' = program \o Times(e.words, l.times)
          /\ patches' = patches \o patchesOf(e)
          /\ hasError' = (hasError \/ e.error)
    /\ labelDefs' = define(l)
    /\ source' = Append(source, l) /\ first' = Append(first, Len(program))
    /\ UNCHANGED <<phase, ok, next>>

EndOfFile ==
    /\ phase = "read"
    /\ phase' = IF hasError THEN "failed" ELSE "patch"
    /\ UNCHANGED <<program, labelDefs, patches, hasError, ok, next, source, first>>

-----------------------------------------------------------------------------
(* resolveLabels, one patch at a time.                                     *)

AtPatch ==
    /\ phase = "patch" /\ next <= Len(patches)
    /\ next' = next + 1
    /\ UNCHANGED <<labelDefs, patches, hasError, phase, source, first>>

SkipPatch ==
    /\ AtPatch
    /\ Skipped(patches[next].label)
    /\ UNCHANGED <<program, ok>>

\* A plausible slip: the label is reported and the verdict forgotten.
UndefinedLabel_Ignored ==
    /\ AtPatch
    /\ ~Skipped(patches[next].label)
    /\ patches[next].label \notin DOMAIN labelDefs
    /\ UNCHANGED <<program, ok>>

UndefinedLabel ==
    /\ AtPatch
    /\ ~Skipped(patches[next].label)
    /\ patches[next].label \notin DOMAIN labelDefs
    /\ ok' = FALSE
    /\ UNCHANGED program

\* A word that is no JAL, branch or LUI is an internal error.
ApplyPatch ==
    /\ AtPatch
    /\ ~Skipped(patches[next].label)
    /\ patches[next].label \in DOMAIN labelDefs
    /\ LET i == patches[next].idx
           old == program[i + 1]
           target == labelDefs[patches[next].label]
           new == patch(old, Bits(target - patches[next].instrPC), Bits(target))
       IN  /\ program' = [k \in DOMAIN program |->
                             IF k \in i + 1 .. i + Len(new) THEN new[k - i] ELSE program[k]]
           /\ ok' = (ok /\ decodeOpcode(old) \in Patchable)

Finalised ==
    /\ phase = "patch" /\ next > Len(patches)
    /\ phase' = IF ok /\ ~hasError THEN "assembled" ELSE "failed"
    /\ UNCHANGED <<program, labelDefs, patches, hasError, ok, next, source, first>>

Over == phase \in {"failed", "assembled"} /\ UNCHANGED vars

Next ==
    \/ \E l \in Lines : ReadLine(l)
    \/ EndOfFile
    \/ SkipPatch \/ UndefinedLabel \/ ApplyPatch \/ Finalised
    \/ Over

Spec == Init /\ [][Next]_vars

-----------------------------------------------------------------------------
(* Properties.                                                             *)

LineNo == 1 .. Len(source)

\* Words, labels, patches and history fit together.
TypeOK ==
    /\ program \in Seq(Word)
    /\ \A n \in DOMAIN labelDefs : labelDefs[n] \in baseAddr .. currentPC
    /\ \A p \in DOMAIN patches : patches[p].idx \in 0 .. Len(program) - 1
    /\ hasError \in BOOLEAN /\ ok \in BOOLEAN
    /\ phase \in {"read", "patch", "failed", "assembled"}
    /\ next \in 1 .. Len(patches) + 1
    /\ Len(first) = Len(source)

\* The lines that define a label, and the address of the last of them.
DefinedIn(n) == {i \in LineNo : n \in Defines(source[i])}
AddressOf(n) == LET j == CHOOSE j \in DefinedIn(n) : \A k \in DefinedIn(n) : k <= j
                IN  Address(first[j])

\* The label a line refers to, if any.
Reference(i) == LET e == emitted(source[i])
                IN  IF e.refs = <<>> THEN {} ELSE {e.refs[1].label}

\* Instruction w, at the place of line i, leads to address a: it jumps or
\* branches there, keeping its other fields, or (with the word after it) loads a.
Leads(i, a) ==
    LET w    == program[first[i] + 1]
        old  == emitted(source[i]).words[1]
        dist == Bits(a - Address(first[i]))
        op   == decodeOpcode(old)
    IN  /\ decodeOpcode(w) = op
        /\ op # BRANCH => decodeRd(w) = decodeRd(old)
        /\ op = JAL => decodeImmJ(w) = dist
        /\ op = BRANCH => /\ decodeImmB(w) = dist
                          /\ decodeRs1(w) = decodeRs1(old)
                          /\ decodeRs2(w) = decodeRs2(old)
                          /\ decodeFunct3(w) = decodeFunct3(old)
        /\ op = LUI => LET w2 == program[first[i] + 2] IN
                          /\ decodeRs1(w2) = decodeRd(w) /\ decodeRd(w2) = decodeRd(w)
                          /\ Add(decodeImmU(w), decodeImmI(w2)) = Bits(a)

InReach(i, a) ==
    LET op   == decodeOpcode(emitted(source[i]).words[1])
        dist == a - Address(first[i])
    IN  (op = BRANCH => BranchReach(dist)) /\ (op = JAL => JumpReach(dist))

\* In an assembled program every jump and branch in reach of its label goes to
\* the label's last definition and every la loads its address, forwards and
\* backwards, whatever else was emitted before, between and after them.  Labels
\* that end in __lo are excepted: resolveLabels skips references to them
\* (BranchesReachLabels speaks of those too).
LabelsResolved ==
    phase = "assembled" =>
        \A i \in LineNo : \A n \in Reference(i) :
            ~Skipped(n) /\ InReach(i, AddressOf(n)) => Leads(i, AddressOf(n))

\* The verdict is exact: a file is assembled if and only if no line of it is
\* faulty and every label it refers to (and that is not skipped) is defined
\* somewhere in it, before or after.
VerdictExact ==
    phase \in {"assembled", "failed"} =>
        (phase = "assembled"
            <=> \A i \in LineNo : /\ ~emitted(source[i]).error
                                  /\ \A n \in Reference(i) : Skipped(n) \/ DefinedIn(n) # {})

\* Instructions without a label are never touched by the resolution of others.
OthersKept ==
    \A i \in LineNo :
        LET e == emitted(source[i])
        IN  e.refs = <<>> => \A k \in 1 .. source[i].times * Len(e.words) :
                program[first[i] + k] = Times(e.words, source[i].times)[k]

\* README.md: labels give symbolic names to instruction addresses; references
\* are substituted by them.  Whatever label a reference names, if the file
\* defines it then the reference leads to it: however far away it is, and
\* however it is spelt (resolveLabels skips a name that ends in __lo).
BranchesReachLabels ==
    phase = "assembled" =>
        \A i \in LineNo : \A n \in Reference(i) :
            DefinedIn(n) # {} => Leads(i, AddressOf(n))
=============================================================================
