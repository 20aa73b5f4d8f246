----------------------------- MODULE BootProofs -----------------------------
(***************************************************************************)
(* Theorems about Boot.tla: for every command line, whatever its files     *)
(* assemble to and however many slots there are.                           *)
(***************************************************************************)
EXTENDS Boot, MemoryMapProofs

Config == [quantum : Int, timerInterval : Int]
Program == [file : Args, base : Nat, pc : Nat]

\* The state's types, and where the indices stand in each phase of main.
ShapeOK ==
    /\ args \in Seq(Args) /\ files \in Seq(Args) /\ harts \in Seq(Program)
    /\ i \in 1 .. Len(args) + 1 /\ k \in 1 .. Len(files) + 1
    /\ cfg \in Config
    /\ phase \in {"parse", "load", "spawn", "run", "exit", "abort"}
    /\ phase = "parse" => k = 1 /\ harts = <<>>
    /\ phase \in {"load", "spawn", "run"} => i = Len(args) + 1
    /\ phase = "spawn" => /\ k <= Len(files) /\ files[k] \in DOMAIN Assembled
                          /\ asm = [file |-> files[k], base |-> hartSlotBase(Len(harts))]
    /\ phase = "run" => k = Len(files) + 1
    /\ Len(harts) <= MAX_HARTS

-----------------------------------------------------------------------------
(* The arguments before the i-th, accounted for.                           *)

\* V holds the values among them, and the next argument is none.
ValuesRead(V) ==
    /\ V \subseteq 2 .. i - 1
    /\ \A n \in 2 .. i - 1 : n \in V <=> args[n - 1] \in Valued /\ n - 1 \notin V
    /\ i \in 2 .. Len(args) => ~(args[i - 1] \in Valued /\ i - 1 \notin V)

\* files are the files among them; pos says where each was.
FilesRead(V, pos) ==
    /\ \A n \in 1 .. Len(files) : pos[n] < i /\ files[n] = args[pos[n]]
    /\ \A n \in 1 .. i - 1 : IsFile(n, V) <=> \E m \in 1 .. Len(files) : pos[m] = n
    /\ \A n \in 1 .. Len(files) - 1 : pos[n] < pos[n + 1]

\* The places of an option among them, and the value it has got.
Places(option, V) == {n \in 1 .. Len(args) - 1 : n < i /\ args[n] = option /\ n \notin V}

GivenSoFar(option, d, V, x) ==
    \/ Places(option, V) = {} /\ x = d
    \/ \E n \in Places(option, V) :
          (\A m \in Places(option, V) : m <= n) /\ x = stoi[args[n + 1]]

Accounted(V) ==
    /\ ValuesRead(V)
    /\ \E pos \in [1 .. Len(files) -> 1 .. Len(args)] : FilesRead(V, pos)
    /\ GivenSoFar("--quantum", 8, V, cfg.quantum)
    /\ GivenSoFar("--timer", 32, V, cfg.timerInterval)

ParseInv ==
    phase \in {"parse", "load", "spawn", "run"} => \E V \in SUBSET (1 .. Len(args)) : Accounted(V)

-----------------------------------------------------------------------------
(* The files before the k-th, spawned or refused.                          *)

Placed(pos) ==
    /\ \A h \in 1 .. Len(harts) :
          pos[h] < k /\ files[pos[h]] = harts[h].file /\ Fits(harts[h].file)
    /\ \A h \in 1 .. Len(harts) - 1 : pos[h] < pos[h + 1]
    /\ \A n \in 1 .. k - 1 : Fits(files[n]) =>
          \/ \E h \in 1 .. Len(harts) : pos[h] = n
          \/ Len(harts) = MAX_HARTS /\ \A h \in 1 .. Len(harts) : pos[h] < n

LoadInv ==
    phase \in {"parse", "load", "spawn", "run"} =>
        /\ \A n \in 1 .. k - 1 : files[n] \in DOMAIN Assembled
        /\ \E pos \in [1 .. Len(harts) -> 1 .. Len(files)] : Placed(pos)

\* Every hart starts in its own slot, at the base its program was assembled for.
BasesOK ==
    \A h \in 1 .. Len(harts) :
        harts[h].pc = hartSlotBase(h - 1) /\ harts[h].base = hartSlotBase(h - 1)

BootInv == ShapeOK /\ BasesOK /\ ParseInv /\ LoadInv

-----------------------------------------------------------------------------
\* The program's name stands alone before any argument is read.
LEMMA BootInit == Init => BootInv
<1> SUFFICES ASSUME Init PROVE BootInv
  OBVIOUS
<1>0. args \in Seq(Args) /\ Len(args) \in Nat
  <2>1. PICK n \in 0 .. MaxArgs : args \in [1 .. n -> Args]
    BY DEF Init
  <2>2. n \in Nat
    BY BootAssumption
  <2> QED
    BY <2>1, <2>2
<1>1. /\ i = 1 /\ files = <<>> /\ k = 1 /\ harts = <<>> /\ phase = "parse"
      /\ cfg = [quantum |-> 8, timerInterval |-> 32]
  BY DEF Init
<1>2. Len(files) = 0 /\ Len(harts) = 0
  BY <1>1
<1>3. ShapeOK
  BY <1>0, <1>1, MemoryMapAssumption DEF ShapeOK, Config
<1>4. BasesOK
  BY <1>2 DEF BasesOK
<1>5. ParseInv
  <2>1. \E pos \in [1 .. Len(files) -> 1 .. Len(args)] : FilesRead({}, pos)
    <3>1. PICK pos \in [1 .. Len(files) -> 1 .. Len(args)] : TRUE
      <4>1. [n \in 1 .. Len(files) |-> 1] \in [1 .. Len(files) -> 1 .. Len(args)]
        BY <1>2
      <4> QED
        BY <4>1
    <3>2. FilesRead({}, pos)
      BY <1>1, <1>2 DEF FilesRead
    <3> QED
      BY <3>2
  <2>2. ValuesRead({})
    BY <1>1 DEF ValuesRead
  <2>3. Places("--quantum", {}) = {} /\ Places("--timer", {}) = {}
    BY <1>0, <1>1 DEF Places
  <2>4. Accounted({})
    BY <1>1, <2>1, <2>2, <2>3 DEF Accounted, GivenSoFar
  <2> QED
    BY <2>4 DEF ParseInv
<1>6. LoadInv
  <2>1. PICK pos \in [1 .. Len(harts) -> 1 .. Len(files)] : TRUE
    <3>1. [n \in 1 .. Len(harts) |-> 1] \in [1 .. Len(harts) -> 1 .. Len(files)]
      BY <1>2
    <3> QED
      BY <3>1
  <2>2. Placed(pos)
    BY <1>1, <1>2 DEF Placed
  <2>3. \E q \in [1 .. Len(harts) -> 1 .. Len(files)] : Placed(q)
    BY <2>1, <2>2
  <2>4. \A n \in 1 .. k - 1 : files[n] \in DOMAIN Assembled
    BY <1>1
  <2> QED
    BY <2>3, <2>4 DEF LoadInv
<1> QED
  BY <1>3, <1>4, <1>5, <1>6 DEF BootInv

-----------------------------------------------------------------------------
(* Reading the command line.                                               *)

\* Passing over arguments that are no option with a value and no file.
LEMMA FlagKeeps ==
    ASSUME BootInv, ParseFlag
    PROVE  BootInv'
<1>0. /\ ShapeOK /\ phase = "parse" /\ i <= Len(args) /\ args[i] \in Flags /\ i' = i + 1
      /\ UNCHANGED <<args, k, harts, files, cfg, phase>>
  BY DEF BootInv, ParseFlag, Parses
<1>1. ShapeOK' /\ BasesOK'
  BY <1>0 DEF BootInv, ShapeOK, BasesOK
<1>2. LoadInv'
  BY <1>0 DEF BootInv, LoadInv, Placed, Fits
<1>3. PICK V \in SUBSET (1 .. Len(args)) : Accounted(V)
  BY <1>0 DEF BootInv, ParseInv
<1>4. PICK pos \in [1 .. Len(files) -> 1 .. Len(args)] : FilesRead(V, pos)
  BY <1>3 DEF Accounted
<1>5. /\ i \in Nat /\ i >= 1 /\ Len(args) \in Nat
      /\ args[i] \notin Valued /\ args[i] # "--quantum" /\ args[i] # "--timer"
  BY <1>0 DEF ShapeOK, Flags, Valued
<1>6. ValuesRead(V)'
  BY <1>0, <1>3, <1>5 DEF Accounted, ValuesRead
<1>7. FilesRead(V, pos)'
  <2>1. \A n \in 1 .. i : n < i \/ n = i
    BY <1>5
  <2>2. ~IsFile(i, V) /\ \A m \in 1 .. Len(files) : pos[m] # i
    BY <1>0, <1>4, <1>5 DEF IsFile, FilesRead
  <2>3. \A n \in 1 .. Len(files) : pos[n] < i' /\ files[n] = args[pos[n]]
    BY <1>0, <1>4, <1>5 DEF FilesRead
  <2>4. \A n \in 1 .. i : IsFile(n, V) <=> \E m \in 1 .. Len(files) : pos[m] = n
    BY <1>4, <1>5, <2>1, <2>2 DEF FilesRead
  <2> QED
    BY <1>0, <1>4, <1>5, <2>3, <2>4 DEF FilesRead, IsFile
<1>8. /\ Places("--quantum", V)' = Places("--quantum", V)
      /\ Places("--timer", V)' = Places("--timer", V)
  BY <1>0, <1>5 DEF Places
<1>9. Accounted(V)'
  BY <1>0, <1>3, <1>4, <1>6, <1>7, <1>8 DEF Accounted, GivenSoFar
<1> QED
  BY <1>0, <1>1, <1>2, <1>9 DEF BootInv, ParseInv

\* An option and its value are read together: the value is none of the next.
LEMMA OptionKeeps ==
    ASSUME BootInv, ParseOption
    PROVE  BootInv'
<1>0. /\ ShapeOK /\ phase = "parse" /\ args[i] \in Valued /\ i < Len(args) /\ i' = i + 2
      /\ args[i + 1] \in DOMAIN stoi
      /\ cfg' = IF args[i] = "--quantum" THEN [cfg EXCEPT !.quantum = stoi[args[i + 1]]]
                ELSE [cfg EXCEPT !.timerInterval = stoi[args[i + 1]]]
      /\ UNCHANGED <<args, k, harts, files, phase>>
  BY DEF BootInv, ParseOption, Parses, HasValue, Skip
<1>a. i \in Nat /\ i >= 1 /\ Len(args) \in Nat /\ stoi[args[i + 1]] \in Int
  BY <1>0, BootAssumption DEF ShapeOK
<1>b. cfg' \in Config
  BY <1>0, <1>a DEF ShapeOK, Config
<1>1. ShapeOK' /\ BasesOK'
  BY <1>0, <1>a, <1>b DEF BootInv, ShapeOK, BasesOK
<1>2. LoadInv'
  BY <1>0 DEF BootInv, LoadInv, Placed, Fits
<1>3. PICK V \in SUBSET (1 .. Len(args)) : Accounted(V)
  BY <1>0 DEF BootInv, ParseInv
<1>4. PICK pos \in [1 .. Len(files) -> 1 .. Len(args)] : FilesRead(V, pos)
  BY <1>3 DEF Accounted
<1>w. PICK W \in SUBSET (1 .. Len(args)) : W = V \cup {i + 1}
  <2>1. V \cup {i + 1} \in SUBSET (1 .. Len(args))
    BY <1>0, <1>a
  <2> QED
    BY <2>1
<1>5. /\ i \notin V /\ i + 1 \notin V /\ i + 1 \in W
      /\ V \subseteq 2 .. i - 1 /\ W \subseteq 2 .. i + 1
      /\ \A n \in 1 .. i : n \in W <=> n \in V
  BY <1>0, <1>3, <1>a, <1>w DEF Accounted, ValuesRead
<1>6. ValuesRead(W)'
  <2>2. ASSUME NEW n \in 2 .. i + 1
        PROVE  n \in W <=> args[n - 1] \in Valued /\ n - 1 \notin W
    <3>1. CASE n < i
      <4>1. n \in 2 .. i - 1 /\ n \in 1 .. i /\ n - 1 \in 1 .. i
        BY <1>a, <3>1
      <4> QED
        BY <1>3, <1>5, <4>1 DEF Accounted, ValuesRead
    <3>2. CASE n = i
      <4>1. i \in 2 .. Len(args) /\ i - 1 \in 1 .. i
        BY <1>0, <1>a, <3>2
      <4> QED
        BY <1>3, <1>5, <1>a, <3>2, <4>1 DEF Accounted, ValuesRead
    <3>3. CASE n = i + 1
      BY <1>0, <1>5, <1>a, <3>3
    <3> QED
      BY <1>a, <3>1, <3>2, <3>3
  <2>3. i' - 1 = i + 1
    BY <1>0, <1>a
  <2> QED
    BY <1>0, <1>5, <2>2, <2>3 DEF ValuesRead
<1>7. FilesRead(W, pos)'
  <2>1. \A n \in 1 .. i + 1 : n < i \/ n = i \/ n = i + 1
    BY <1>a
  <2>2. /\ ~IsFile(i, W) /\ ~IsFile(i + 1, W)
        /\ \A n \in 1 .. i - 1 : IsFile(n, W) <=> IsFile(n, V)
        /\ \A m \in 1 .. Len(files) : pos[m] < i
    BY <1>0, <1>4, <1>5, <1>a DEF IsFile, FilesRead, Valued, Flags
  <2>3. \A n \in 1 .. i + 1 : IsFile(n, W) <=> \E m \in 1 .. Len(files) : pos[m] = n
    <3> TAKE n \in 1 .. i + 1
    <3>1. CASE n < i
      BY <1>4, <1>a, <2>2, <3>1 DEF FilesRead
    <3>2. CASE n = i \/ n = i + 1
      BY <1>4, <1>a, <2>2, <3>2
    <3> QED
      BY <2>1, <3>1, <3>2
  <2>4. \A n \in 1 .. Len(files) : pos[n] < i' /\ files[n] = args[pos[n]]
    BY <1>0, <1>4, <1>a, <2>2 DEF FilesRead
  <2>5. i' - 1 = i + 1
    BY <1>0, <1>a
  <2> QED
    BY <1>0, <1>4, <2>3, <2>4, <2>5 DEF FilesRead, IsFile
<1>8. ASSUME NEW o \in Valued
      PROVE  Places(o, W)' = IF args[i] = o THEN Places(o, V) \cup {i} ELSE Places(o, V)
  <2>1. ASSUME NEW n \in 1 .. Len(args) - 1, args[n] = o
        PROVE  (n < i + 2 /\ n \notin W) <=> ((n < i /\ n \notin V) \/ n = i)
    BY <1>5, <1>a
  <2> QED
    BY <1>0, <1>a, <1>5, <2>1 DEF Places
<1>9. ASSUME NEW o \in Valued, NEW d, NEW x, NEW y, GivenSoFar(o, d, V, x),
             y = IF args[i] = o THEN stoi[args[i + 1]] ELSE x
      PROVE  GivenSoFar(o, d, W, y)'
  <2>1. CASE args[i] = o
    <3>1. i \in Places(o, W)' /\ \A m \in Places(o, W)' : m <= i
      <4>1. Places(o, W)' = Places(o, V) \cup {i} /\ \A m \in Places(o, V) : m <= i
        BY <1>8, <1>a, <2>1 DEF Places
      <4> QED
        BY <1>a, <4>1
    <3> QED
      BY <1>0, <1>9, <2>1, <3>1 DEF GivenSoFar
  <2>2. CASE args[i] # o
    <3>1. Places(o, W)' = Places(o, V) /\ y = x
      BY <1>8, <1>9, <2>2
    <3> QED
      BY <1>0, <1>9, <3>1 DEF GivenSoFar
  <2> QED
    BY <2>1, <2>2
<1>10. PICK q, r, u, v : q = cfg.quantum /\ r = cfg.timerInterval
                         /\ u = cfg'.quantum /\ v = cfg'.timerInterval
  OBVIOUS
<1>11. /\ u = IF args[i] = "--quantum" THEN stoi[args[i + 1]] ELSE q
       /\ v = IF args[i] = "--timer" THEN stoi[args[i + 1]] ELSE r
       /\ "--quantum" \in Valued /\ "--timer" \in Valued
  BY <1>0, <1>10 DEF ShapeOK, Config, Valued
<1>g. GivenSoFar("--quantum", 8, W, u)' /\ GivenSoFar("--timer", 32, W, v)'
  <2>1. GivenSoFar("--quantum", 8, V, q) /\ GivenSoFar("--timer", 32, V, r)
    BY <1>3, <1>10 DEF Accounted
  <2> QED
    BY <1>9, <1>11, <2>1
<1>12. Accounted(W)'
  BY <1>0, <1>4, <1>6, <1>7, <1>10, <1>g DEF Accounted, GivenSoFar
<1> QED
  BY <1>0, <1>1, <1>2, <1>12 DEF BootInv, ParseInv

\* Any other argument is a file, the option at the end without its value too.
LEMMA FileKeeps ==
    ASSUME BootInv, ParseFile
    PROVE  BootInv'
<1>0. /\ ShapeOK /\ phase = "parse" /\ i <= Len(args) /\ i' = i + 1
      /\ args[i] \notin Flags \cup {"--help"}
      /\ args[i] \notin Valued \/ ~(i < Len(args))
      /\ files' = Append(files, args[i])
      /\ UNCHANGED <<args, k, harts, cfg, phase>>
  BY DEF BootInv, ParseFile, Parses, HasValue
<1>a. /\ i \in Nat /\ i >= 1 /\ Len(args) \in Nat /\ Len(files) \in Nat
      /\ args[i] \in Args
      /\ args[i] \in Valued => i = Len(args)
  BY <1>0 DEF ShapeOK
<1>b. /\ files' \in Seq(Args) /\ Len(files') = Len(files) + 1
      /\ files'[Len(files) + 1] = args[i]
      /\ \A n \in 1 .. Len(files) : files'[n] = files[n]
  BY <1>0, <1>a DEF ShapeOK
<1>1. ShapeOK' /\ BasesOK'
  BY <1>0, <1>a, <1>b DEF BootInv, ShapeOK, BasesOK
<1>2. LoadInv'
  <2>1. k = 1 /\ harts = <<>> /\ Len(harts) = 0
    BY <1>0 DEF ShapeOK
  <2>2. PICK pos \in [1 .. Len(harts') -> 1 .. Len(files')] : TRUE
    <3>1. [n \in 1 .. Len(harts') |-> 1] \in [1 .. Len(harts') -> 1 .. Len(files')]
      BY <1>0, <2>1
    <3> QED
      BY <3>1
  <2>3. Placed(pos)'
    BY <1>0, <2>1 DEF Placed
  <2>4. \E q \in [1 .. Len(harts') -> 1 .. Len(files')] : Placed(q)'
    BY <2>2, <2>3
  <2>5. \A n \in 1 .. k' - 1 : files'[n] \in DOMAIN Assembled
    BY <1>0, <2>1
  <2> QED
    BY <2>4, <2>5 DEF LoadInv
<1>3. PICK V \in SUBSET (1 .. Len(args)) : Accounted(V)
  BY <1>0 DEF BootInv, ParseInv
<1>4. PICK pos \in [1 .. Len(files) -> 1 .. Len(args)] : FilesRead(V, pos)
  BY <1>3 DEF Accounted
<1>5. i \notin V /\ IsFile(i, V)
  BY <1>0, <1>3, <1>a DEF Accounted, ValuesRead, IsFile
<1>6. ValuesRead(V)'
  <2>1. V \subseteq 2 .. i' - 1
    BY <1>0, <1>3, <1>a DEF Accounted, ValuesRead
  <2>2. \A n \in 2 .. i' - 1 : n \in V <=> args[n - 1] \in Valued /\ n - 1 \notin V
    BY <1>0, <1>3, <1>5, <1>a DEF Accounted, ValuesRead
  <2>3. i' \in 2 .. Len(args) => args[i' - 1] \notin Valued
    BY <1>0, <1>a
  <2> QED
    BY <1>0, <2>1, <2>2, <2>3 DEF ValuesRead
<1>7. PICK new \in [1 .. Len(files) + 1 -> 1 .. Len(args)] :
         new[Len(files) + 1] = i /\ \A n \in 1 .. Len(files) : new[n] = pos[n]
  <2> DEFINE f == [n \in 1 .. Len(files) + 1 |-> IF n = Len(files) + 1 THEN i ELSE pos[n]]
  <2>1. f \in [1 .. Len(files) + 1 -> 1 .. Len(args)]
    BY <1>0, <1>a
  <2>2. f[Len(files) + 1] = i /\ \A n \in 1 .. Len(files) : f[n] = pos[n]
    BY <1>a
  <2> HIDE DEF f
  <2> QED
    BY <2>1, <2>2
<1>8. FilesRead(V, new)'
  <2>1. \A n \in 1 .. Len(files) + 1 : new[n] < i + 1 /\ files'[n] = args[new[n]]
    <3> TAKE n \in 1 .. Len(files) + 1
    <3>1. CASE n = Len(files) + 1
      BY <1>7, <1>a, <1>b, <3>1
    <3>2. CASE n # Len(files) + 1
      <4>1. n \in 1 .. Len(files)
        BY <1>a, <3>2
      <4>2. new[n] = pos[n] /\ files'[n] = files[n] /\ pos[n] \in 1 .. Len(args)
            /\ pos[n] < i /\ files[n] = args[pos[n]]
        BY <1>4, <1>7, <1>b, <4>1 DEF FilesRead
      <4> QED
        BY <1>a, <4>2
    <3> QED
      BY <3>1, <3>2
  <2>2. ASSUME NEW n \in 1 .. i
        PROVE  IsFile(n, V) <=> \E m \in 1 .. Len(files) + 1 : new[m] = n
    <3>1. CASE n = i
      BY <1>5, <1>7, <1>a, <3>1
    <3>2. CASE n < i
      <4>1. IsFile(n, V) <=> \E m \in 1 .. Len(files) : pos[m] = n
        BY <1>4, <1>a, <3>2 DEF FilesRead
      <4>2. (\E m \in 1 .. Len(files) : pos[m] = n)
               <=> \E m \in 1 .. Len(files) + 1 : new[m] = n
        <5>1. ASSUME NEW m \in 1 .. Len(files) PROVE m \in 1 .. Len(files) + 1 /\ new[m] = pos[m]
          BY <1>7, <1>a
        <5>2. ASSUME NEW m \in 1 .. Len(files) + 1, new[m] = n PROVE m \in 1 .. Len(files)
          BY <1>7, <1>a, <3>2, <5>2
        <5> QED
          BY <5>1, <5>2
      <4> QED
        BY <4>1, <4>2
    <3> QED
      BY <1>a, <3>1, <3>2
  <2>3. \A n \in 1 .. Len(files) : new[n] < new[n + 1]
    BY <1>4, <1>7, <1>a DEF FilesRead
  <2>4. i' - 1 = i /\ Len(files') - 1 = Len(files)
    BY <1>0, <1>a, <1>b
  <2>5. \A n : IsFile(n, V)' <=> IsFile(n, V)
    BY <1>0 DEF IsFile
  <2> QED
    BY <1>0, <1>b, <2>1, <2>2, <2>3, <2>4, <2>5 DEF FilesRead
<1>9. /\ Places("--quantum", V)' = Places("--quantum", V)
      /\ Places("--timer", V)' = Places("--timer", V)
  <2>1. \A n \in 1 .. Len(args) - 1 : args[n] \in Valued => (n < i + 1 <=> n < i)
    <3> TAKE n \in 1 .. Len(args) - 1
    <3>1. n \in Nat /\ n # Len(args)
      BY <1>a
    <3>2. CASE n = i
      BY <1>a, <3>1, <3>2
    <3>3. CASE n # i
      BY <1>a, <3>1, <3>3
    <3> QED
      BY <3>2, <3>3
  <2> QED
    BY <1>0, <2>1 DEF Places, Valued
<1>10. Accounted(V)'
  <2>1. \E q \in [1 .. Len(files') -> 1 .. Len(args')] : FilesRead(V, q)'
    BY <1>0, <1>7, <1>8, <1>b
  <2> QED
    BY <1>0, <1>3, <1>6, <1>9, <2>1 DEF Accounted, GivenSoFar
<1> QED
  BY <1>0, <1>1, <1>2, <1>10 DEF BootInv, ParseInv

-----------------------------------------------------------------------------
(* Loading the files.                                                      *)

\* A step that leaves the command line alone keeps it accounted for.
LEMMA ParseKept ==
    ASSUME ParseInv, UNCHANGED <<args, i, files, cfg>>,
           phase' \in {"parse", "load", "spawn", "run"} => phase \in {"parse", "load", "spawn", "run"}
    PROVE  ParseInv'
<1> SUFFICES ASSUME NEW V \in SUBSET (1 .. Len(args)), Accounted(V) PROVE Accounted(V)'
  BY DEF ParseInv
<1>1. ValuesRead(V)'
  BY DEF Accounted, ValuesRead
<1>2. PICK pos \in [1 .. Len(files) -> 1 .. Len(args)] : FilesRead(V, pos)
  BY DEF Accounted
<1>3. FilesRead(V, pos)'
  BY <1>2 DEF FilesRead, IsFile
<1>4. /\ GivenSoFar("--quantum", 8, V, cfg.quantum)'
      /\ GivenSoFar("--timer", 32, V, cfg.timerInterval)'
  BY DEF Accounted, GivenSoFar, Places
<1> QED
  BY <1>1, <1>2, <1>3, <1>4 DEF Accounted

\* A file that is refused is too large, or there is no slot left.
LEMMA RefusedKeeps ==
    ASSUME BootInv, SpawnRefused
    PROVE  BootInv'
<1>0. /\ ShapeOK /\ phase = "spawn" /\ phase' = "load" /\ k <= Len(files) /\ k' = k + 1
      /\ files[k] \in DOMAIN Assembled /\ Refuses(files[k])
      /\ UNCHANGED <<args, i, files, cfg, harts>>
  BY DEF BootInv, SpawnRefused, Spawns, ShapeOK
<1>a. k \in Nat /\ k >= 1 /\ Len(files) \in Nat /\ Len(harts) \in Nat
  BY <1>0 DEF ShapeOK
<1>1. ShapeOK' /\ BasesOK'
  BY <1>0, <1>a DEF BootInv, ShapeOK, BasesOK
<1>2. ParseInv'
  BY <1>0, ParseKept DEF BootInv
<1>3. PICK pos \in [1 .. Len(harts) -> 1 .. Len(files)] : Placed(pos)
  BY <1>0 DEF BootInv, LoadInv
<1>4. Fits(files[k]) => Len(harts) = MAX_HARTS /\ \A h \in 1 .. Len(harts) : pos[h] < k
  <2>1. Assembled[files[k]] \in Nat
    BY <1>0, BootAssumption
  <2>2. Len(harts) >= MAX_HARTS \/ Assembled[files[k]] * 4 > HART_SLOT_SIZE - STACK_SIZE
    BY <1>0 DEF Refuses, id
  <2>3. Fits(files[k]) => Len(harts) >= MAX_HARTS
    BY <2>1, <2>2, MemoryMapAssumption DEF Fits
  <2>4. Len(harts) <= MAX_HARTS /\ MAX_HARTS \in Nat
    BY <1>0, MemoryMapAssumption DEF ShapeOK
  <2>5. \A h \in 1 .. Len(harts) : pos[h] < k
    BY <1>3 DEF Placed
  <2> QED
    BY <1>a, <2>3, <2>4, <2>5
<1>5. Placed(pos)'
  <2>1. \A h \in 1 .. Len(harts) : pos[h] < k + 1
    BY <1>3, <1>a DEF Placed
  <2>2. ASSUME NEW n \in 1 .. k, Fits(files[n])
        PROVE  \/ \E h \in 1 .. Len(harts) : pos[h] = n
               \/ Len(harts) = MAX_HARTS /\ \A h \in 1 .. Len(harts) : pos[h] < n
    BY <1>3, <1>4, <1>a, <2>2 DEF Placed
  <2>3. k' - 1 = k
    BY <1>0, <1>a
  <2> QED
    BY <1>0, <1>3, <2>1, <2>2, <2>3 DEF Placed, Fits
<1>6. \A n \in 1 .. k' - 1 : files[n] \in DOMAIN Assembled
  BY <1>0, <1>a DEF BootInv, LoadInv
<1>7. LoadInv'
  BY <1>0, <1>5, <1>6 DEF LoadInv
<1> QED
  BY <1>1, <1>2, <1>7 DEF BootInv

\* A file that fits gets the next slot.
LEMMA SpawnedKeeps ==
    ASSUME BootInv, Spawned
    PROVE  BootInv'
<1>0. /\ ShapeOK /\ phase = "spawn" /\ phase' = "load" /\ k <= Len(files) /\ k' = k + 1
      /\ files[k] \in DOMAIN Assembled /\ ~Refuses(files[k])
      /\ harts' = Append(harts, [file |-> files[k], base |-> hartSlotBase(Len(harts)),
                                 pc |-> start])
      /\ UNCHANGED <<args, i, files, cfg>>
  BY DEF BootInv, Spawned, Spawns, ShapeOK
<1>a. /\ k \in Nat /\ k >= 1 /\ Len(files) \in Nat /\ Len(harts) \in Nat
      /\ files[k] \in Args
  BY <1>0 DEF ShapeOK
<1> DEFINE N == Len(harts)
<1>b. N < MAX_HARTS /\ Fits(files[k])
  <2>1. Assembled[files[k]] \in Nat
    BY <1>0, BootAssumption
  <2>2. /\ ~(Len(harts) >= MAX_HARTS)
        /\ ~(Assembled[files[k]] * 4 > HART_SLOT_SIZE - STACK_SIZE)
    BY <1>0 DEF Refuses, id
  <2>3. MAX_HARTS \in Nat /\ HART_SLOT_SIZE \in Nat /\ STACK_SIZE \in Nat
    BY MemoryMapAssumption
  <2>4. N < MAX_HARTS
    BY <1>a, <2>2, <2>3
  <2>5. Assembled[files[k]] * 4 <= HART_SLOT_SIZE - STACK_SIZE
    BY <2>1, <2>2, <2>3
  <2> QED
    BY <2>4, <2>5 DEF Fits
<1>c. start \in Nat /\ start = hartSlotBase(N)
  <2>1. N \in HartIds
    BY <1>a, <1>b, MemoryMapAssumption DEF HartIds
  <2> QED
    BY <2>1, SlotInMemory DEF start, id
<1>d. /\ harts' \in Seq(Program) /\ Len(harts') = N + 1
      /\ harts'[N + 1] = [file |-> files[k], base |-> start, pc |-> start]
      /\ \A h \in 1 .. N : harts'[h] = harts[h]
  <2>1. [file |-> files[k], base |-> start, pc |-> start] \in Program
    BY <1>a, <1>c DEF Program
  <2> QED
    BY <1>0, <1>c, <2>1 DEF ShapeOK
<1>1. ShapeOK'
  BY <1>0, <1>a, <1>b, <1>d, MemoryMapAssumption DEF ShapeOK
<1>2. BasesOK'
  <2>1. \A h \in 1 .. N + 1 :
           harts'[h].pc = hartSlotBase(h - 1) /\ harts'[h].base = hartSlotBase(h - 1)
    <3> TAKE h \in 1 .. N + 1
    <3>1. CASE h = N + 1
      <4>1. h - 1 = N
        BY <1>a, <3>1
      <4> QED
        BY <1>c, <1>d, <3>1, <4>1
    <3>2. CASE h # N + 1
      <4>1. h \in 1 .. N
        BY <1>a, <3>2
      <4> QED
        BY <1>d, <4>1 DEF BootInv, BasesOK
    <3> QED
      BY <3>1, <3>2
  <2> QED
    BY <1>d, <2>1 DEF BasesOK
<1>3. ParseInv'
  BY <1>0, ParseKept DEF BootInv
<1>4. PICK pos \in [1 .. N -> 1 .. Len(files)] : Placed(pos)
  BY <1>0 DEF BootInv, LoadInv
<1>5. PICK new \in [1 .. N + 1 -> 1 .. Len(files)] :
         new[N + 1] = k /\ \A h \in 1 .. N : new[h] = pos[h]
  <2> DEFINE f == [h \in 1 .. N + 1 |-> IF h = N + 1 THEN k ELSE pos[h]]
  <2>1. f \in [1 .. N + 1 -> 1 .. Len(files)]
    BY <1>0, <1>a
  <2>2. f[N + 1] = k /\ \A h \in 1 .. N : f[h] = pos[h]
    BY <1>a
  <2> HIDE DEF f
  <2> QED
    BY <2>1, <2>2
<1>6. Placed(new)'
  <2>1. \A h \in 1 .. N + 1 :
           new[h] < k + 1 /\ files[new[h]] = harts'[h].file /\ Fits(harts'[h].file)
    <3> TAKE h \in 1 .. N + 1
    <3>1. CASE h = N + 1
      <4>1. new[h] = k /\ harts'[h].file = files[k]
        BY <1>5, <1>d, <3>1
      <4> QED
        BY <1>a, <1>b, <4>1
    <3>2. CASE h # N + 1
      <4>1. h \in 1 .. N
        BY <1>a, <3>2
      <4>2. new[h] = pos[h] /\ harts'[h] = harts[h] /\ pos[h] \in 1 .. Len(files)
        BY <1>4, <1>5, <1>d, <4>1
      <4>3. pos[h] < k /\ files[pos[h]] = harts[h].file /\ Fits(harts[h].file)
        BY <1>4, <4>1 DEF Placed
      <4> QED
        BY <1>a, <4>2, <4>3
    <3> QED
      BY <3>1, <3>2
  <2>2. \A h \in 1 .. N : new[h] < new[h + 1]
    <3> TAKE h \in 1 .. N
    <3>1. CASE h = N
      <4>1. new[h] = pos[h] /\ new[h + 1] = k /\ pos[h] < k
        BY <1>4, <1>5, <3>1 DEF Placed
      <4> QED
        BY <4>1
    <3>2. CASE h # N
      <4>1. h \in 1 .. N - 1 /\ h + 1 \in 1 .. N
        BY <1>a, <3>2
      <4>2. pos[h] < pos[h + 1]
        BY <1>4, <4>1 DEF Placed
      <4> QED
        BY <1>5, <4>1, <4>2
    <3> QED
      BY <3>1, <3>2
  <2>3. ASSUME NEW n \in 1 .. k, Fits(files[n])
        PROVE  \E h \in 1 .. N + 1 : new[h] = n
    <3>1. CASE n = k
      BY <1>5, <1>a, <3>1
    <3>2. CASE n # k
      <4>1. n \in 1 .. k - 1 /\ N # MAX_HARTS
        BY <1>a, <1>b, <3>2, MemoryMapAssumption
      <4>2. PICK h \in 1 .. N : pos[h] = n
        BY <1>4, <2>3, <4>1 DEF Placed
      <4> QED
        BY <1>5, <1>a, <4>2
    <3> QED
      BY <3>1, <3>2
  <2>4. k' - 1 = k /\ Len(harts') - 1 = N
    BY <1>0, <1>a, <1>d
  <2>5. \A h \in 1 .. Len(harts') : /\ new[h] < k'
                                    /\ files'[new[h]] = harts'[h].file /\ Fits(harts'[h].file)
    BY <1>0, <1>d, <2>1
  <2>6. \A h \in 1 .. Len(harts') - 1 : new[h] < new[h + 1]
    BY <2>2, <2>4
  <2>7. \A n \in 1 .. k' - 1 : Fits(files'[n]) => \E h \in 1 .. Len(harts') : new[h] = n
    BY <1>0, <1>d, <2>3, <2>4
  <2>8. \A f : Fits(f)' <=> Fits(f)
    BY DEF Fits
  <2> QED
    BY <2>5, <2>6, <2>7, <2>8 DEF Placed
<1>7. \A n \in 1 .. k' - 1 : files[n] \in DOMAIN Assembled
  <2>1. \A n \in 1 .. k - 1 : files[n] \in DOMAIN Assembled
    BY <1>0 DEF BootInv, LoadInv
  <2>2. \A n \in 1 .. k' - 1 : n \in 1 .. k - 1 \/ n = k
    BY <1>0, <1>a
  <2> QED
    BY <1>0, <2>1, <2>2
<1>8. LoadInv'
  <2>1. \E q \in [1 .. Len(harts') -> 1 .. Len(files')] : Placed(q)'
    BY <1>0, <1>5, <1>6, <1>d
  <2> QED
    BY <1>0, <1>7, <2>1 DEF LoadInv
<1> QED
  BY <1>1, <1>2, <1>3, <1>8 DEF BootInv

\* Steps that only move main to another phase, with what was assembled on its
\* way to spawnHart.
LEMMA PhaseKeeps ==
    ASSUME BootInv, \/ ParseBadValue \/ ParseHelp \/ EndOfArgs \/ AssemblyFails
                    \/ AssemblyThrows \/ Assemble \/ CallRun \/ UNCHANGED vars
    PROVE  BootInv'
<1>1. /\ ShapeOK /\ UNCHANGED <<args, i, files, cfg, k, harts>>
      /\ \/ phase' \in {"exit", "abort"}
         \/ phase' = phase /\ asm' = asm
         \/ phase = "parse" /\ phase' = "load" /\ i > Len(args)
         \/ phase = "load" /\ phase' = "spawn" /\ k <= Len(files)
            /\ files[k] \in DOMAIN Assembled
            /\ asm' = [file |-> files[k], base |-> hartSlotBase(Len(harts))]
         \/ phase = "load" /\ phase' = "run" /\ k > Len(files)
  BY DEF BootInv, ParseBadValue, ParseHelp, EndOfArgs, AssemblyFails, AssemblyThrows, Assemble,
         base, CallRun, Parses, Loads, vars
<1>2. ShapeOK'
  BY <1>1 DEF ShapeOK
<1>3. ParseInv'
  BY <1>1, ParseKept DEF BootInv
<1>4. LoadInv' /\ BasesOK'
  BY <1>1 DEF BootInv, LoadInv, Placed, Fits, BasesOK
<1> QED
  BY <1>2, <1>3, <1>4 DEF BootInv

\* Every step of main keeps the invariant.
THEOREM BootInductive == Spec => []BootInv
<1>1. ASSUME BootInv, [Next]_vars PROVE BootInv'
  <2>1. CASE ParseFlag
    BY <1>1, <2>1, FlagKeeps
  <2>2. CASE ParseOption
    BY <1>1, <2>2, OptionKeeps
  <2>3. CASE ParseFile
    BY <1>1, <2>3, FileKeeps
  <2>4. CASE SpawnRefused
    BY <1>1, <2>4, RefusedKeeps
  <2>5. CASE Spawned
    BY <1>1, <2>5, SpawnedKeeps
  <2>6. CASE \/ ParseBadValue \/ ParseHelp \/ EndOfArgs \/ AssemblyFails
             \/ AssemblyThrows \/ Assemble \/ CallRun \/ UNCHANGED vars
    BY <1>1, <2>6, PhaseKeeps
  <2> QED
    BY <1>1, <2>1, <2>2, <2>3, <2>4, <2>5, <2>6, Zenon DEF Next, Over
<1> QED
  BY <1>1, BootInit, PTL DEF Spec

-----------------------------------------------------------------------------
\* The value found last is the one the property speaks of.
LEMMA GivenIs ==
    ASSUME ShapeOK, i = Len(args) + 1, NEW option, NEW d, NEW V, NEW x,
           GivenSoFar(option, d, V, x)
    PROVE  x = Given(option, d, V)
<1> DEFINE at == {n \in 1 .. Len(args) - 1 : args[n] = option /\ n \notin V}
<1>1. Places(option, V) = at /\ at \subseteq Nat
  BY DEF Places, ShapeOK
<1> HIDE DEF at
<1>2. CASE at = {} /\ x = d
  BY <1>2 DEF Given, at
<1>3. ASSUME NEW n \in at, \A m \in at : m <= n, x = stoi[args[n + 1]]
      PROVE  x = Given(option, d, V)
  <2> DEFINE c == CHOOSE a \in at : \A m \in at : m <= a
  <2>0. c \in at /\ \A m \in at : m <= c
    BY <1>3
  <2> HIDE DEF c
  <2>a. c = n
    BY <1>1, <1>3, <2>0
  <2>1. Given(option, d, V) = IF at = {} THEN d ELSE stoi[args[c + 1]]
    BY Zenon DEF Given, at, c
  <2> QED
    BY <1>3, <2>a, <2>1
<1> QED
  BY <1>1, <1>2, <1>3 DEF GivenSoFar

\* main accounts for every argument of every command line.
THEOREM ArgumentsCorrect == Spec => []ArgumentsAccounted
<1>1. BootInv => ArgumentsAccounted
  <2> SUFFICES ASSUME BootInv, phase \in {"load", "spawn", "run"}
               PROVE  \E V \in SUBSET (1 .. Len(args)) :
                 /\ AreValues(V)
                 /\ \E pos \in [1 .. Len(files) -> 1 .. Len(args)] :
                       /\ {pos[n] : n \in 1 .. Len(files)}
                             = {n \in 1 .. Len(args) : IsFile(n, V)}
                       /\ \A n \in 1 .. Len(files) : files[n] = args[pos[n]]
                       /\ \A n \in 1 .. Len(files) - 1 : pos[n] < pos[n + 1]
                 /\ cfg = [quantum |-> Given("--quantum", 8, V),
                           timerInterval |-> Given("--timer", 32, V)]
    BY DEF ArgumentsAccounted
  <2>0. ShapeOK /\ args \in Seq(Args) /\ i = Len(args) + 1
    BY DEF BootInv, ShapeOK
  <2>1. Len(args) \in Nat /\ i - 1 = Len(args) /\ ShapeOK /\ i = Len(args) + 1
    BY <2>0
  <2>2. PICK V \in SUBSET (1 .. Len(args)) : Accounted(V)
    BY DEF BootInv, ParseInv
  <2>3. PICK pos \in [1 .. Len(files) -> 1 .. Len(args)] : FilesRead(V, pos)
    BY <2>2 DEF Accounted
  <2>4. AreValues(V)
    BY <2>1, <2>2 DEF Accounted, ValuesRead, AreValues
  <2>5. {pos[n] : n \in 1 .. Len(files)} = {n \in 1 .. Len(args) : IsFile(n, V)}
    <3>1. \A n \in 1 .. Len(args) : IsFile(n, V) <=> \E m \in 1 .. Len(files) : pos[m] = n
      BY <2>1, <2>3 DEF FilesRead
    <3>2. \A m \in 1 .. Len(files) : pos[m] \in 1 .. Len(args)
      OBVIOUS
    <3> QED
      BY <3>1, <3>2
  <2>6. /\ \A n \in 1 .. Len(files) : files[n] = args[pos[n]]
        /\ \A n \in 1 .. Len(files) - 1 : pos[n] < pos[n + 1]
    BY <2>3 DEF FilesRead
  <2>7. /\ cfg.quantum = Given("--quantum", 8, V)
        /\ cfg.timerInterval = Given("--timer", 32, V)
    BY <2>1, <2>2, GivenIs DEF Accounted
  <2>8. cfg = [quantum |-> Given("--quantum", 8, V), timerInterval |-> Given("--timer", 32, V)]
    BY <2>1, <2>7 DEF ShapeOK, Config
  <2> QED
    BY <2>2, <2>3, <2>4, <2>5, <2>6, <2>8
<1> QED
  BY <1>1, BootInductive, PTL

\* The harts are the files that fit, in order, until the slots run out, and each
\* runs where it was assembled for: main and spawnHart agree on its slot.
THEOREM RunsCorrect == Spec => []RunsWhatFits
<1>1. BootInv => RunsWhatFits
  <2> SUFFICES ASSUME BootInv, phase = "run" PROVE RunsWhatFits
    BY DEF RunsWhatFits
  <2>1. ShapeOK /\ k - 1 = Len(files) /\ Len(harts) <= MAX_HARTS
    BY DEF BootInv, ShapeOK
  <2>0. \A h \in 1 .. Len(harts) :
           harts[h].pc = hartSlotBase(h - 1) /\ harts[h].base = harts[h].pc
    BY DEF BootInv, BasesOK
  <2>2. \A n \in 1 .. Len(files) : files[n] \in DOMAIN Assembled
    BY <2>1 DEF BootInv, LoadInv
  <2>3. PICK pos \in [1 .. Len(harts) -> 1 .. Len(files)] : Placed(pos)
    BY DEF BootInv, LoadInv
  <2>4. /\ \A h \in 1 .. Len(harts) : files[pos[h]] = harts[h].file /\ Fits(harts[h].file)
        /\ \A h \in 1 .. Len(harts) - 1 : pos[h] < pos[h + 1]
        /\ \A n \in 1 .. Len(files) : Fits(files[n]) =>
              \/ \E h \in 1 .. Len(harts) : pos[h] = n
              \/ Len(harts) = MAX_HARTS /\ \A h \in 1 .. Len(harts) : pos[h] < n
    BY <2>1, <2>3 DEF Placed
  <2> QED
    BY <2>0, <2>1, <2>2, <2>3, <2>4 DEF RunsWhatFits
<1> QED
  BY <1>1, BootInductive, PTL
=============================================================================
