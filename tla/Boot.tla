-------------------------------- MODULE Boot --------------------------------
(***************************************************************************)
(* main.cpp: the command line is read, every file is assembled for the     *)
(* slot of the next hart and handed to HartManager::spawnHart, which works *)
(* out for itself where to load it, and run() is called.  What assembling  *)
(* yields is input: the length of a file's program, a failure (an error in *)
(* it, or no such file) or an exception.  The trace options only switch    *)
(* output on and off.                                                      *)
(***************************************************************************)
EXTENDS MemoryMap, Sequences

CONSTANTS Args,      \* arguments of the command line
          stoi,      \* the integers that arguments begin with: Args -> Int
          Assembled, \* words of the program of each file that assembles
          Throwing,  \* files with a register number that is too large for stoi
          MaxArgs    \* bound: arguments

ASSUME BootAssumption ==
    /\ DOMAIN stoi \subseteq Args /\ \A a \in DOMAIN stoi : stoi[a] \in Int
    /\ DOMAIN Assembled \subseteq Args /\ \A a \in DOMAIN Assembled : Assembled[a] \in Nat
    /\ Throwing \subseteq Args \ DOMAIN Assembled
    /\ MaxArgs \in Nat

VARIABLES
    args,            \* argv without the program's name
    i,               \* the argument to be read
    files,           \* the files named so far
    cfg,             \* mgr.cfg
    k,               \* the file to be assembled
    asm,             \* main's Assembler: file and the base it was assembled for
    harts,           \* mgr.harts: what was assembled, and the pc it starts at
    phase            \* "parse", "load", "spawn" (in spawnHart), "run", "exit"
                     \* (main returns) or "abort"

vars == <<args, i, files, cfg, k, asm, harts, phase>>

Flags  == {"--no-trace", "--no-sched"}
Valued == {"--quantum", "--timer"}

Init ==
    /\ args \in UNION {[1 .. n -> Args] : n \in 0 .. MaxArgs}
    /\ i = 1 /\ files = <<>> /\ k = 1 /\ harts = <<>> /\ phase = "parse"
    /\ cfg = [quantum |-> 8, timerInterval |-> 32]
    /\ asm = [file |-> "", base |-> 0]

-----------------------------------------------------------------------------
Parses == phase = "parse" /\ i <= Len(args) /\ UNCHANGED <<args, k, asm, harts>>

ParseFlag ==
    /\ Parses /\ args[i] \in Flags
    /\ i' = i + 1
    /\ UNCHANGED <<files, cfg, phase>>

HasValue == args[i] \in Valued /\ i < Len(args)

\* A plausible slip: the value is looked at again as an argument.
Skip_ValueAgain == 1

Skip == 2

ParseOption ==
    /\ Parses /\ HasValue
    /\ args[i + 1] \in DOMAIN stoi
    /\ cfg' = IF args[i] = "--quantum" THEN [cfg EXCEPT !.quantum = stoi[args[i + 1]]]
                                       ELSE [cfg EXCEPT !.timerInterval = stoi[args[i + 1]]]
    /\ i' = i + Skip
    /\ UNCHANGED <<files, phase>>

\* stoi throws and nothing catches it.
ParseBadValue ==
    /\ Parses /\ HasValue
    /\ args[i + 1] \notin DOMAIN stoi
    /\ phase' = "abort"
    /\ UNCHANGED <<i, files, cfg>>

ParseHelp ==
    /\ Parses /\ args[i] = "--help"
    /\ phase' = "exit"
    /\ UNCHANGED <<i, files, cfg>>

\* Everything else is a file, an option without its value included.
ParseFile ==
    /\ Parses /\ args[i] \notin Flags \cup {"--help"} /\ ~HasValue
    /\ files' = Append(files, args[i])
    /\ i' = i + 1
    /\ UNCHANGED <<cfg, phase>>

EndOfArgs ==
    /\ phase = "parse" /\ i > Len(args)
    /\ phase' = IF files = <<>> THEN "exit" ELSE "load"
    /\ UNCHANGED <<args, i, files, cfg, k, asm, harts>>

-----------------------------------------------------------------------------
Loads == phase = "load" /\ k <= Len(files) /\ UNCHANGED <<args, i, files, cfg>>

\* One bad file ends main, whatever was spawned before it.
AssemblyFails ==
    /\ Loads /\ files[k] \notin DOMAIN Assembled \cup Throwing
    /\ phase' = "exit"
    /\ UNCHANGED <<k, asm, harts>>

\* parseReg's stoi throws out_of_range and nothing catches it.
AssemblyThrows ==
    /\ Loads /\ files[k] \in Throwing
    /\ phase' = "abort"
    /\ UNCHANGED <<k, asm, harts>>

\* A plausible slip: the base taken from the number of the file.
base_ByFile == hartSlotBase(k - 1)

\* The base a file is assembled for: the slot of the next hart.
base == hartSlotBase(Len(harts))

Assemble ==
    /\ Loads /\ files[k] \in DOMAIN Assembled
    /\ asm' = [file |-> files[k], base |-> base]
    /\ phase' = "spawn"
    /\ UNCHANGED <<k, harts>>

Spawns == phase = "spawn" /\ phase' = "load" /\ k' = k + 1 /\ UNCHANGED <<args, i, files, cfg, asm>>

\* spawnHart's id and its own base, where the program is loaded and starts.
id == Len(harts)
start == hartSlotBase(id)

\* A plausible slip: the length compared in words.
Refuses_InWords(f) == id >= MAX_HARTS \/ Assembled[f] > HART_SLOT_SIZE - STACK_SIZE

Refuses(f) == id >= MAX_HARTS \/ Assembled[f] * 4 > HART_SLOT_SIZE - STACK_SIZE

\* spawnHart refuses the program and main goes on.
SpawnRefused ==
    /\ Spawns /\ Refuses(asm.file)
    /\ UNCHANGED harts

Spawned ==
    /\ Spawns /\ ~Refuses(asm.file)
    /\ harts' = Append(harts, [file |-> asm.file, base |-> asm.base, pc |-> start])

\* run() returns at once if there are no harts.
CallRun ==
    /\ phase = "load" /\ k > Len(files)
    /\ phase' = IF harts = <<>> THEN "exit" ELSE "run"
    /\ UNCHANGED <<args, i, files, cfg, k, asm, harts>>

Over == phase \in {"run", "exit", "abort"} /\ UNCHANGED vars

Next ==
    \/ ParseFlag \/ ParseOption \/ ParseBadValue \/ ParseHelp \/ ParseFile \/ EndOfArgs
    \/ AssemblyFails \/ AssemblyThrows \/ Assemble \/ SpawnRefused \/ Spawned \/ CallRun
    \/ Over

Spec == Init /\ [][Next]_vars

-----------------------------------------------------------------------------
(* Properties.                                                             *)

\* V holds the arguments that are the value of the option before them: those
\* after an option that is not itself a value.
AreValues(V) ==
    V = {n \in 2 .. Len(args) : args[n - 1] \in Valued /\ n - 1 \notin V}

IsFile(n, V) == n \notin V /\ \/ args[n] \notin Flags \cup Valued \cup {"--help"}
                              \/ args[n] \in Valued /\ n = Len(args)

\* The value given last for an option, or d.
Given(option, d, V) ==
    LET at == {n \in 1 .. Len(args) - 1 : args[n] = option /\ n \notin V}
    IN  IF at = {} THEN d ELSE stoi[args[(CHOOSE n \in at : \A m \in at : m <= n) + 1]]

\* Once files are being loaded every argument is accounted for, once: it is an
\* option, the value of the option before it (the last one counts) or a file,
\* and the files are in order.
ArgumentsAccounted ==
    phase \in {"load", "spawn", "run"} => \E V \in SUBSET (1 .. Len(args)) :
        /\ AreValues(V)
        /\ \E pos \in [1 .. Len(files) -> 1 .. Len(args)] :
              /\ {pos[n] : n \in 1 .. Len(files)} = {n \in 1 .. Len(args) : IsFile(n, V)}
              /\ \A n \in 1 .. Len(files) : files[n] = args[pos[n]]
              /\ \A n \in 1 .. Len(files) - 1 : pos[n] < pos[n + 1]
        /\ cfg = [quantum |-> Given("--quantum", 8, V),
                  timerInterval |-> Given("--timer", 32, V)]

Fits(f) == Assembled[f] * 4 <= HART_SLOT_SIZE - STACK_SIZE

\* Nothing runs unless every file of the command line was assembled; the harts
\* then run the files that fit a slot, in order, and leave one out only when
\* files before it have taken all slots.  Each starts in its own slot, at the base
\* that the absolute addresses of its la instructions were assembled for, also
\* after another program has been refused.
RunsWhatFits ==
    phase = "run" =>
        /\ \A n \in 1 .. Len(files) : files[n] \in DOMAIN Assembled
        /\ Len(harts) <= MAX_HARTS
        /\ \A h \in 1 .. Len(harts) :
              harts[h].pc = hartSlotBase(h - 1) /\ harts[h].base = harts[h].pc
        /\ \E pos \in [1 .. Len(harts) -> 1 .. Len(files)] :
              /\ \A h \in 1 .. Len(harts) : files[pos[h]] = harts[h].file /\ Fits(harts[h].file)
              /\ \A h \in 1 .. Len(harts) - 1 : pos[h] < pos[h + 1]
              /\ \A n \in 1 .. Len(files) : Fits(files[n]) =>
                    \/ \E h \in 1 .. Len(harts) : pos[h] = n
                    \/ Len(harts) = MAX_HARTS /\ \A h \in 1 .. Len(harts) : pos[h] < n
=============================================================================
