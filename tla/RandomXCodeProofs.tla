-------------------------- MODULE RandomXCodeProofs --------------------------
(***************************************************************************)
(* CodeAgrees for programs of any length and code of any size: the         *)
(* interpreter and both compilers lead a branch to the same place, no      *)
(* other branch and no write of its register is on the way, and erasing a  *)
(* CFROUND changes no rounding mode that is used.                          *)
(*                                                                         *)
(* Recorded says that usage remembers the last write of a register,        *)
(* Addressed that the compilers remember the address behind it.  Ordered   *)
(* says that the address of a CFROUND is its own, so that an erased one    *)
(* can be told; and then Rounds that behind it comes another before any    *)
(* use of the mode, and Modes that a difference of the modes ends there.   *)
(*                                                                         *)
(* The second half is about Superscalar, for any registers and latency:    *)
(* what is left of an instruction finds its slot (SlotsFit), and operands  *)
(* are ready when it executes (OperandsInTime).  A full product selects    *)
(* its destination before its source, so the invariant keeps that no       *)
(* register was available before the destination (DestinationFirst).       *)
(***************************************************************************)
EXTENDS RandomXCode, Superscalar, NaturalsInduction, WellFoundedInduction, TLAPS

N == Len(program)

Output == [at : Int, lands : Int]

X86State == [pos : Int, use : [Reg -> Int], prev : Int, out : Seq(Output),
             erased : SUBSET Int]

A64State == [pos : Int, use : [Reg -> Int], out : Seq(Output)]

CodeTypes ==
    /\ program \in Seq(Instructions)
    /\ targets \in Seq(Nat) /\ Len(targets) = N
    /\ usage \in [Reg -> Nat]
    /\ x86 \in X86State /\ Len(x86.out) = N
    /\ a64 \in A64State /\ Len(a64.out) = N
    /\ pc \in Nat /\ pc <= ProgramSize + 1
    /\ pc # 0 => N = ProgramSize

Recorded ==
    /\ \A i \in 1 .. N : targets[i] < i
    /\ \A r \in Reg :
        /\ usage[r] <= N
        /\ \A i \in 1 .. N : usage[r] < i =>
            program[i].op # "cbranch" /\ r \notin ExeWrites(program[i])

Addressed ==
    \A r \in Reg :
        /\ x86.use[r] = StartOf(x86, usage[r] + 1)
        /\ a64.use[r] = StartOf(a64, usage[r] + 1)

Rounding(i) == program[i].op = "cfround"

Depends(i) == program[i].op \in {"float", "cbranch"}

At(i) == x86.out[i].at

Ordered ==
    /\ x86.pos > 0
    /\ \A e \in x86.erased : e < x86.pos
    /\ \A i \in 1 .. N :
        /\ 0 < At(i) /\ At(i) <= x86.pos
        /\ Rounding(i) => At(i) < x86.pos
    /\ \A i, j \in 1 .. N : Rounding(i) /\ Rounding(j) /\ At(i) = At(j) => i = j

\* A CFROUND comes at or behind i, before anything depends on the mode.
Ahead(i) ==
    \E k \in 1 .. N : i <= k /\ Rounding(k)
                   /\ \A j \in 1 .. N : i <= j /\ j < k => ~Depends(j)

Rounds ==
    /\ x86.prev # 0 =>
        \E k \in 1 .. N :
            Rounding(k) /\ At(k) = x86.prev /\ \A j \in 1 .. N : k < j => ~Depends(j)
    /\ \A i \in 1 .. N : Rounding(i) /\ At(i) \in x86.erased => Ahead(i + 1)

Modes == mode = modeX86 \/ (pc # 0 /\ Ahead(pc))

Translated == LoopsApart /\ JumpsAgree /\ Recorded /\ Addressed /\ Ordered /\ Rounds

CodeInv == CodeTypes /\ Translated /\ Modes

-----------------------------------------------------------------------------
\* A sequence and one more element.
LEMMA OneMore ==
    ASSUME NEW S, NEW s \in Seq(S), NEW e \in S
    PROVE  /\ Append(s, e) \in Seq(S) /\ Len(Append(s, e)) = Len(s) + 1
           /\ Append(s, e)[Len(s) + 1] = e
           /\ \A i \in 1 .. Len(s) : Append(s, e)[i] = s[i]
           /\ Len(s) \in Nat
  OBVIOUS

LEMMA Kind ==
    ASSUME NEW ins \in Instructions
    PROVE  /\ ins.op \in Kinds /\ ins.dst \in Reg
           /\ Bytes[ins.op] \in Nat \ {0} /\ Words[ins.op] \in Nat \ {0}
  BY CodeAssumption DEF CodeAssumption

\* The generators mark the same registers, and all that are written.
LEMMA MarksAgree ==
    ASSUME NEW ins \in Instructions
    PROVE  /\ ins.op = "cbranch" => InterpMarks(ins) = Reg
           /\ ins.op # "cbranch" => X86Marks(ins) = InterpMarks(ins)
                                    /\ A64Marks(ins) = InterpMarks(ins)
           /\ ExeWrites(ins) \subseteq InterpMarks(ins)
  <1>1. ins.op = "cbranch" => InterpMarks(ins) = Reg
    BY DEF InterpMarks, InterpArith, InterpRcp, InterpBits, InterpSwap, InterpBranch
  <1>2. ins.op # "cbranch" => X86Marks(ins) = InterpMarks(ins)
    BY DEF InterpMarks, InterpArith, InterpRcp, InterpBits, InterpSwap, InterpBranch,
           X86Marks, X86Arith, X86Rcp, X86Bits, X86Swap
  <1>3. ins.op # "cbranch" => A64Marks(ins) = InterpMarks(ins)
    BY DEF InterpMarks, InterpArith, InterpRcp, InterpBits, InterpSwap, InterpBranch,
           A64Marks, A64Arith, A64Rcp, A64Bits, A64Swap
  <1>4. ExeWrites(ins) \subseteq InterpMarks(ins)
    BY DEF InterpMarks, InterpArith, InterpRcp, InterpBits, InterpSwap, InterpBranch,
           ExeWrites
  <1> QED
    BY <1>1, <1>2, <1>3, <1>4

\* The padding is a natural number.
LEMMA PaddingNat ==
    ASSUME NEW pos \in Int, NEW offset \in Int
    PROVE  Padding(pos, offset) \in Nat
  <1>1. CodeLine \in Nat \ {0} /\ (pos + 7) % CodeLine \in 0 .. CodeLine - 1
    BY CodeAssumption DEF CodeAssumption
  <1> QED
    BY <1>1 DEF Padding

\* What compiling one instruction adds for x86: its code begins at the present position
\* and a branch leads where use says.
LEMMA X86Adds ==
    ASSUME NEW c \in X86State, NEW ins \in Instructions
    PROVE  LET d == X86Compile(c, ins) IN
           /\ d \in X86State /\ d.pos >= c.pos
           /\ \E l \in Int : d.out = Append(c.out, [at |-> c.pos, lands |-> l])
                             /\ (ins.op = "cbranch" => l = c.use[ins.dst])
           /\ \A r \in Reg :
                d.use[r] = IF r \in InterpMarks(ins) THEN d.pos ELSE c.use[r]
           /\ IF ins.op = "cfround"
                THEN /\ d.prev = c.pos /\ d.pos > c.pos
                     /\ d.erased = IF c.prev = 0 THEN c.erased ELSE c.erased \cup {c.prev}
                ELSE /\ d.prev = IF ins.op \in {"float", "cbranch"} THEN 0 ELSE c.prev
                     /\ d.erased = c.erased
  <1> DEFINE d == X86Compile(c, ins)
  <1>0. c.pos \in Int /\ c.use \in [Reg -> Int] /\ c.prev \in Int /\ c.out \in Seq(Output)
        /\ c.erased \in SUBSET Int
    BY DEF X86State
  <1>1. CASE ins.op = "cbranch"
    <2>1. PICK u \in Int : u = c.use[ins.dst]
      BY <1>0, Kind
    <2>2. PICK wanted \in Int : wanted = u - (c.pos + 16)
      BY <1>0
    <2>3. PICK pad \in Nat : pad = Padding(c.pos, wanted)
      BY <1>0, PaddingNat
    <2>4. PICK offset \in Int : offset = wanted - pad
      OBVIOUS
    <2> DEFINE short == offset >= -ShortJump
    <2> DEFINE end   == c.pos + pad + 14 + IF short THEN 2 ELSE 6
               coded == IF short THEN offset ELSE offset - 4
    <2>5. PICK pos \in Int : pos = c.pos
      BY <1>0
    <2>6. end \in Int /\ end >= pos /\ end + coded = u
      <3>1. CASE short
        <4>1. end = pos + pad + 14 + 2 /\ coded = offset
          BY <2>5, <3>1
        <4> HIDE DEF end, coded, short
        <4> QED
          BY <2>2, <2>4, <2>5, <4>1
      <3>2. CASE ~short
        <4>1. end = pos + pad + 14 + 6 /\ coded = offset - 4
          BY <2>5, <3>2
        <4> HIDE DEF end, coded, short
        <4> QED
          BY <2>2, <2>4, <2>5, <4>1
      <3> QED
        BY <3>1, <3>2
    <2>7. d = [pos    |-> end,
               use    |-> [r \in Reg |-> end],
               prev   |-> 0,
               out    |-> Append(c.out, [at |-> c.pos, lands |-> end + coded]),
               erased |-> c.erased]
      BY <1>1, <2>1, <2>2, <2>3, <2>4, Zenon DEF X86Compile, X86Branch
    <2> HIDE DEF d, end, coded
    <2>8. [at |-> c.pos, lands |-> u] \in Output
      BY <1>0 DEF Output
    <2>9. /\ d.pos = end /\ d.prev = 0 /\ d.erased = c.erased
          /\ d.out = Append(c.out, [at |-> c.pos, lands |-> u])
          /\ \A r \in Reg : d.use[r] = end
      BY <2>6, <2>7
    <2>10. d.out \in Seq(Output)
      BY <1>0, <2>8, <2>9, OneMore
    <2>11. d \in X86State
      BY <1>0, <2>6, <2>7, <2>10 DEF X86State
    <2>12. \A r \in Reg : d.use[r] = IF r \in InterpMarks(ins) THEN d.pos ELSE c.use[r]
      BY <1>1, <2>9, MarksAgree
    <2> QED
      BY <1>1, <2>1, <2>5, <2>6, <2>9, <2>11, <2>12 DEF d
  <1>2. CASE ins.op = "cfround"
    <2>1. d = [pos    |-> c.pos + Bytes[ins.op],
               use    |-> c.use,
               prev   |-> c.pos,
               out    |-> Append(c.out, [at |-> c.pos, lands |-> 0]),
               erased |-> IF c.prev = 0 THEN c.erased ELSE c.erased \cup {c.prev}]
      BY <1>2 DEF X86Compile, X86Round
    <2>2. InterpMarks(ins) = {}
      BY <1>2
      DEF InterpMarks, InterpArith, InterpRcp, InterpBits, InterpSwap, InterpBranch
    <2>3. [at |-> c.pos, lands |-> 0] \in Output
      BY <1>0 DEF Output
    <2> HIDE DEF d
    <2>4. d.out \in Seq(Output)
      BY <1>0, <2>1, <2>3, OneMore
    <2>5. d.pos \in Int /\ d.pos > c.pos
      BY <1>0, <2>1, Kind
    <2>6. d.erased \in SUBSET Int
      BY <1>0, <2>1
    <2>7. d \in X86State
      BY <1>0, <2>1, <2>4, <2>5, <2>6 DEF X86State
    <2>8. /\ d.prev = c.pos /\ d.use = c.use
          /\ d.out = Append(c.out, [at |-> c.pos, lands |-> 0])
          /\ d.erased = IF c.prev = 0 THEN c.erased ELSE c.erased \cup {c.prev}
      BY <2>1
    <2> QED
      BY <1>0, <1>2, <2>2, <2>5, <2>7, <2>8 DEF d
  <1>3. CASE ins.op \notin {"cbranch", "cfround"}
    <2> DEFINE end == c.pos + IF Empty(ins) THEN 0 ELSE Bytes[ins.op]
    <2>1. d = [pos    |-> end,
               use    |-> Marked(c.use, X86Marks(ins), end),
               prev   |-> IF ins.op = "float" THEN 0 ELSE c.prev,
               out    |-> Append(c.out, [at |-> c.pos, lands |-> 0]),
               erased |-> c.erased]
      BY <1>3 DEF X86Compile, X86Plain
    <2>2. end \in Int /\ end >= c.pos
      BY <1>0, Kind
    <2> HIDE DEF end
    <2>3. [at |-> c.pos, lands |-> 0] \in Output
      BY <1>0 DEF Output
    <2>4. Marked(c.use, X86Marks(ins), end) \in [Reg -> Int]
          /\ \A r \in Reg : Marked(c.use, X86Marks(ins), end)[r]
                              = IF r \in InterpMarks(ins) THEN end ELSE c.use[r]
      BY <1>0, <1>3, <2>2, MarksAgree DEF Marked
    <2> HIDE DEF d
    <2>5. d.out \in Seq(Output)
      BY <1>0, <2>1, <2>3, OneMore
    <2>6. d.prev \in Int
      BY <1>0, <2>1
    <2>7. /\ d.pos = end /\ d.use = Marked(c.use, X86Marks(ins), end)
          /\ d.prev = IF ins.op = "float" THEN 0 ELSE c.prev
          /\ d.out = Append(c.out, [at |-> c.pos, lands |-> 0])
          /\ d.erased = c.erased
      BY <2>1
    <2>8. d \in X86State
      BY <1>0, <2>1, <2>2, <2>4, <2>5, <2>6 DEF X86State
    <2> QED
      BY <1>3, <2>2, <2>4, <2>7, <2>8 DEF d
  <1> QED
    BY <1>1, <1>2, <1>3

LEMMA A64Adds ==
    ASSUME NEW c \in A64State, NEW ins \in Instructions
    PROVE  LET d == A64Compile(c, ins) IN
           /\ d \in A64State
           /\ \E l \in Int : d.out = Append(c.out, [at |-> c.pos, lands |-> l])
                             /\ (ins.op = "cbranch" => l = c.use[ins.dst])
           /\ \A r \in Reg :
                d.use[r] = IF r \in InterpMarks(ins) THEN d.pos ELSE c.use[r]
  <1> DEFINE d == A64Compile(c, ins)
  <1>0. c.pos \in Int /\ c.use \in [Reg -> Int] /\ c.out \in Seq(Output)
    BY DEF A64State
  <1>1. CASE ins.op = "cbranch"
    <2>1. PICK u \in Int : u = c.use[ins.dst]
      BY <1>0, Kind
    <2>2. PICK jump \in Int : jump = c.pos + Words[ins.op] - 1
      BY <1>0, Kind
    <2>3. jump + (u - jump) = u /\ jump + 1 \in Int
      OBVIOUS
    <2>4. d = [pos |-> jump + 1,
               use |-> [r \in Reg |-> jump + 1],
               out |-> Append(c.out, [at |-> c.pos, lands |-> jump + (u - jump)])]
      BY <1>1, <2>1, <2>2, Zenon DEF A64Compile, A64Branch
    <2> HIDE DEF d
    <2>5. [at |-> c.pos, lands |-> u] \in Output
      BY <1>0 DEF Output
    <2>6. /\ d.pos = jump + 1 /\ d.out = Append(c.out, [at |-> c.pos, lands |-> u])
          /\ \A r \in Reg : d.use[r] = jump + 1
      BY <2>3, <2>4
    <2>7. d.out \in Seq(Output)
      BY <1>0, <2>5, <2>6, OneMore
    <2>8. d \in A64State
      BY <2>3, <2>4, <2>7 DEF A64State
    <2>9. \A r \in Reg : d.use[r] = IF r \in InterpMarks(ins) THEN d.pos ELSE c.use[r]
      BY <1>1, <2>6, MarksAgree
    <2> QED
      BY <2>1, <2>6, <2>8, <2>9 DEF d
  <1>2. CASE ins.op # "cbranch"
    <2> DEFINE end == c.pos + IF Empty(ins) THEN 0 ELSE Words[ins.op]
    <2>1. d = [pos |-> end,
               use |-> Marked(c.use, A64Marks(ins), end),
               out |-> Append(c.out, [at |-> c.pos, lands |-> 0])]
      BY <1>2 DEF A64Compile
    <2>2. end \in Int
      BY <1>0, Kind
    <2> HIDE DEF end
    <2>3. [at |-> c.pos, lands |-> 0] \in Output
      BY <1>0 DEF Output
    <2>4. Marked(c.use, A64Marks(ins), end) \in [Reg -> Int]
          /\ \A r \in Reg : Marked(c.use, A64Marks(ins), end)[r]
                              = IF r \in InterpMarks(ins) THEN end ELSE c.use[r]
      BY <1>0, <1>2, <2>2, MarksAgree DEF Marked
    <2> HIDE DEF d
    <2>5. d.out \in Seq(Output)
      BY <1>0, <2>1, <2>3, OneMore
    <2>6. /\ d.pos = end /\ d.use = Marked(c.use, A64Marks(ins), end)
          /\ d.out = Append(c.out, [at |-> c.pos, lands |-> 0])
      BY <2>1
    <2>7. d \in A64State
      BY <1>0, <2>1, <2>2, <2>4, <2>5 DEF A64State
    <2> QED
      BY <1>2, <2>4, <2>6, <2>7 DEF d
  <1> QED
    BY <1>1, <1>2

-----------------------------------------------------------------------------
LEMMA CodeInitially == CodeInit => CodeInv
  <1> SUFFICES ASSUME CodeInit PROVE CodeInv
    OBVIOUS
  <1> USE DEF CodeInit
  <1>1. FirstPos \in Nat \ {0} /\ ProgramSize \in Nat
    BY CodeAssumption DEF CodeAssumption
  <1>2. N = 0 /\ 1 .. N = {} /\ Len(<<>>) = 0
    BY DEF N
  <1>3. <<>> \in Seq(Instructions) /\ <<>> \in Seq(Nat) /\ <<>> \in Seq(Output)
    OBVIOUS
  <1>4. [r \in Reg |-> FirstPos] \in [Reg -> Int]
    BY <1>1
  <1>5. /\ x86 \in X86State /\ x86.out = <<>> /\ x86.pos = FirstPos
        /\ x86.use = [r \in Reg |-> FirstPos] /\ x86.prev = 0 /\ x86.erased = {}
    BY <1>1, <1>3, <1>4 DEF X86Begin, X86State
  <1>6. /\ a64 \in A64State /\ a64.out = <<>> /\ a64.pos = FirstPos
        /\ a64.use = [r \in Reg |-> FirstPos]
    BY <1>1, <1>3, <1>4 DEF A64Begin, A64State
  <1>7. CodeTypes
    BY <1>1, <1>2, <1>3, <1>5, <1>6 DEF CodeTypes
  <1>8. LoopsApart /\ JumpsAgree
    BY <1>2 DEF LoopsApart, JumpsAgree, Branches, N
  <1>9. Recorded
    BY <1>2 DEF Recorded
  <1>10. Addressed
    <2>1. ASSUME NEW r \in Reg PROVE usage[r] + 1 = 1
      OBVIOUS
    <2>2. /\ StartOf(x86, 1) = FirstPos /\ StartOf(a64, 1) = FirstPos
      BY <1>2, <1>5, <1>6 DEF StartOf
    <2>3. \A r \in Reg : x86.use[r] = FirstPos /\ a64.use[r] = FirstPos
      BY <1>5, <1>6
    <2> HIDE DEF CodeInit
    <2> QED
      BY <2>1, <2>2, <2>3 DEF Addressed
  <1>11. Ordered /\ Rounds
    BY <1>1, <1>2, <1>5 DEF Ordered, Rounds
  <1>12. Modes
    BY DEF Modes
  <1> QED
    BY <1>7, <1>8, <1>9, <1>10, <1>11, <1>12 DEF CodeInv, Translated

\* What a step of the translation does to the program and to what is recorded of it.
LEMMA TranslateAdds ==
    ASSUME CodeTypes, NEW ins \in Instructions, Translate(ins)
    PROVE  /\ CodeTypes'
           /\ N \in Nat /\ N' = N + 1
           /\ program'[N + 1] = ins /\ \A i \in 1 .. N : program'[i] = program[i]
           /\ targets'[N + 1] = usage[ins.dst]
           /\ \A i \in 1 .. N : targets'[i] = targets[i]
           /\ \A r \in Reg :
                usage'[r] = IF r \in InterpMarks(ins) THEN N + 1 ELSE usage[r]
           /\ \E l \in Int : x86'.out = Append(x86.out, [at |-> x86.pos, lands |-> l])
                             /\ (ins.op = "cbranch" => l = x86.use[ins.dst])
           /\ \E l \in Int : a64'.out = Append(a64.out, [at |-> a64.pos, lands |-> l])
                             /\ (ins.op = "cbranch" => l = a64.use[ins.dst])
  <1>1. /\ program' = Append(program, ins) /\ targets' = Append(targets, usage[ins.dst])
        /\ usage' = Marked(usage, InterpMarks(ins), Len(program) + 1)
        /\ x86' = X86Compile(x86, ins) /\ a64' = A64Compile(a64, ins)
        /\ pc = 0 /\ pc' = 0 /\ N < ProgramSize
    BY DEF Translate, N
  <1>2. N \in Nat
    BY DEF CodeTypes, N
  <1>3. /\ program' \in Seq(Instructions) /\ N' = N + 1 /\ program'[N + 1] = ins
        /\ \A i \in 1 .. N : program'[i] = program[i]
    BY <1>1, OneMore DEF CodeTypes, N
  <1>4. usage[ins.dst] \in Nat
    BY Kind DEF CodeTypes
  <1>5. /\ targets' \in Seq(Nat) /\ Len(targets') = N + 1
        /\ targets'[N + 1] = usage[ins.dst]
        /\ \A i \in 1 .. N : targets'[i] = targets[i]
    BY <1>1, <1>4, OneMore DEF CodeTypes
  <1>6. /\ usage' \in [Reg -> Nat]
        /\ \A r \in Reg :
             usage'[r] = IF r \in InterpMarks(ins) THEN N + 1 ELSE usage[r]
    BY <1>1, <1>2 DEF CodeTypes, Marked, N
  <1>7. x86 \in X86State /\ a64 \in A64State
    BY DEF CodeTypes
  <1>8. PICK l \in Int : x86'.out = Append(x86.out, [at |-> x86.pos, lands |-> l])
                        /\ (ins.op = "cbranch" => l = x86.use[ins.dst])
    BY <1>1, <1>7, X86Adds
  <1>9. PICK k \in Int : a64'.out = Append(a64.out, [at |-> a64.pos, lands |-> k])
                        /\ (ins.op = "cbranch" => k = a64.use[ins.dst])
    BY <1>1, <1>7, A64Adds
  <1>10. x86' \in X86State /\ a64' \in A64State
    BY <1>1, <1>7, X86Adds, A64Adds
  <1>11. /\ x86.out \in Seq(Output) /\ [at |-> x86.pos, lands |-> l] \in Output
         /\ a64.out \in Seq(Output) /\ [at |-> a64.pos, lands |-> k] \in Output
    BY <1>7 DEF X86State, A64State, Output
  <1>12. Len(x86'.out) = N + 1 /\ Len(a64'.out) = N + 1
    BY <1>8, <1>9, <1>11, OneMore DEF CodeTypes
  <1>13. CodeTypes'
    BY <1>1, <1>2, <1>3, <1>5, <1>6, <1>10, <1>12, CodeAssumption
    DEF CodeTypes, CodeAssumption
  <1> QED
    BY <1>2, <1>3, <1>5, <1>6, <1>8, <1>9, <1>13

\* Code that was emitted keeps its place, and the next code begins where it ends.
LEMMA StartKept ==
    ASSUME NEW c, NEW d, NEW n \in Nat,
           c.out \in Seq(Output), Len(c.out) = n, c.pos \in Int,
           NEW e \in Output, e.at = c.pos, d.out = Append(c.out, e)
    PROVE  /\ \A i \in 1 .. n + 1 : StartOf(d, i) = StartOf(c, i)
           /\ StartOf(d, n + 2) = d.pos
           /\ d.out[n + 1] = e
           /\ \A i \in 1 .. n : d.out[i] = c.out[i]
  <1>2. /\ Len(d.out) = n + 1 /\ d.out[n + 1] = e
        /\ \A i \in 1 .. n : d.out[i] = c.out[i]
    BY OneMore
  <1>3. \A i \in 1 .. n + 1 : StartOf(d, i) = StartOf(c, i)
    <2> SUFFICES ASSUME NEW i \in 1 .. n + 1 PROVE StartOf(d, i) = StartOf(c, i)
      OBVIOUS
    <2>1. CASE i = n + 1
      BY <1>2, <2>1 DEF StartOf
    <2>2. CASE i # n + 1
      BY <1>2, <2>2 DEF StartOf
    <2> QED
      BY <2>1, <2>2
  <1>4. StartOf(d, n + 2) = d.pos
    BY <1>2 DEF StartOf
  <1> QED
    BY <1>2, <1>3, <1>4

LEMMA RecordedKept ==
    ASSUME CodeInv, NEW ins \in Instructions, Translate(ins)
    PROVE  Recorded'
  <1> USE DEF CodeInv, Translated
  <1>1. \A i \in 1 .. N' : targets'[i] < i
    <2> SUFFICES ASSUME NEW i \in 1 .. N' PROVE targets'[i] < i
      OBVIOUS
    <2>1. usage[ins.dst] \in Nat /\ usage[ins.dst] <= N
      BY Kind DEF CodeTypes, Recorded
    <2>2. CASE i = N + 1
      BY <2>1, <2>2, TranslateAdds
    <2>3. CASE i # N + 1
      <3>1. i \in 1 .. N
        BY <2>3, TranslateAdds
      <3> QED
        BY <3>1, TranslateAdds DEF Recorded
    <2> QED
      BY <2>2, <2>3
  <1>2. ASSUME NEW r \in Reg PROVE usage'[r] <= N'
    <2>1. usage[r] \in Nat /\ usage[r] <= N
      BY <1>2 DEF Recorded, CodeTypes
    <2>2. CASE r \in InterpMarks(ins)
      BY <1>2, <2>2, TranslateAdds
    <2>3. CASE r \notin InterpMarks(ins)
      BY <1>2, <2>1, <2>3, TranslateAdds
    <2> QED
      BY <2>2, <2>3
  <1>3. ASSUME NEW r \in Reg, NEW i \in 1 .. N', usage'[r] < i
        PROVE  program'[i].op # "cbranch" /\ r \notin ExeWrites(program'[i])
    <2>1. r \notin InterpMarks(ins) /\ usage'[r] = usage[r]
      BY <1>3, TranslateAdds
    <2>2. CASE i = N + 1
      BY <2>1, <2>2, TranslateAdds, MarksAgree
    <2>3. CASE i # N + 1
      <3>1. i \in 1 .. N
        BY <2>3, TranslateAdds
      <3> QED
        BY <1>3, <2>1, <3>1, TranslateAdds DEF Recorded
    <2> QED
      BY <2>2, <2>3
  <1> QED
    BY <1>1, <1>2, <1>3 DEF Recorded

LEMMA LoopsKept ==
    ASSUME CodeInv, NEW ins \in Instructions, Translate(ins)
    PROVE  LoopsApart'
  <1> USE DEF CodeInv, Translated
  <1>1. ASSUME NEW b \in 1 .. N', program'[b].op = "cbranch",
               NEW i \in 1 .. N', targets'[b] < i, i < b
        PROVE  program'[i].op # "cbranch" /\ program'[b].dst \notin ExeWrites(program'[i])
    <2>1. i \in 1 .. N /\ program'[i] = program[i]
      BY <1>1, TranslateAdds
    <2>2. CASE b = N + 1
      BY <1>1, <2>1, <2>2, TranslateAdds, Kind DEF Recorded
    <2>3. CASE b # N + 1
      <3>1. b \in 1 .. N /\ program'[b] = program[b] /\ targets'[b] = targets[b]
        BY <2>3, TranslateAdds
      <3>2. b \in Branches /\ i \in Loop(b)
        BY <1>1, <2>1, <3>1 DEF Branches, Loop, N
      <3> QED
        BY <2>1, <3>1, <3>2 DEF LoopsApart, Branches, Loop, N
    <2> QED
      BY <2>2, <2>3
  <1> QED
    BY <1>1 DEF LoopsApart, Branches, Loop, N

LEMMA AddressedKept ==
    ASSUME CodeInv, NEW ins \in Instructions, Translate(ins)
    PROVE  Addressed' /\ JumpsAgree'
  <1> USE DEF CodeInv, Translated
  <1>0. N \in Nat /\ N' = N + 1
    BY TranslateAdds
  <1>1. PICK l \in Int : x86'.out = Append(x86.out, [at |-> x86.pos, lands |-> l])
                        /\ (ins.op = "cbranch" => l = x86.use[ins.dst])
    BY TranslateAdds
  <1>2. PICK k \in Int : a64'.out = Append(a64.out, [at |-> a64.pos, lands |-> k])
                        /\ (ins.op = "cbranch" => k = a64.use[ins.dst])
    BY TranslateAdds
  <1>3. /\ x86.out \in Seq(Output) /\ Len(x86.out) = N /\ x86.pos \in Int
        /\ a64.out \in Seq(Output) /\ Len(a64.out) = N /\ a64.pos \in Int
    BY DEF CodeTypes, X86State, A64State
  <1>4. /\ \A i \in 1 .. N + 1 : StartOf(x86', i) = StartOf(x86, i)
        /\ StartOf(x86', N + 2) = x86'.pos
        /\ x86'.out[N + 1].lands = l
        /\ \A i \in 1 .. N : x86'.out[i] = x86.out[i]
    <2>1. PICK c, d : c = x86 /\ d = x86'
      OBVIOUS
    <2>2. PICK n \in Nat : n = N
      BY <1>0
    <2>3. PICK e \in Output : e = [at |-> x86.pos, lands |-> l]
      BY <1>3 DEF Output
    <2>4. /\ c.out \in Seq(Output) /\ Len(c.out) = n /\ c.pos \in Int
          /\ e.at = c.pos /\ e.lands = l /\ d.out = Append(c.out, e)
      BY <1>1, <1>3, <2>1, <2>2, <2>3
    <2> HIDE DEF CodeInv, N
    <2>5. \A i \in 1 .. N + 1 : StartOf(x86', i) = StartOf(x86, i)
      BY <2>1, <2>2, <2>4, StartKept DEF StartOf
    <2>6. StartOf(x86', N + 2) = x86'.pos
      BY <2>1, <2>2, <2>4, StartKept DEF StartOf
    <2>7. x86'.out[N + 1].lands = l /\ \A i \in 1 .. N : x86'.out[i] = x86.out[i]
      BY <2>1, <2>2, <2>4, StartKept DEF StartOf
    <2> QED
      BY <2>5, <2>6, <2>7
  <1>5. /\ \A i \in 1 .. N + 1 : StartOf(a64', i) = StartOf(a64, i)
        /\ StartOf(a64', N + 2) = a64'.pos
        /\ a64'.out[N + 1].lands = k
        /\ \A i \in 1 .. N : a64'.out[i] = a64.out[i]
    <2>1. PICK c, d : c = a64 /\ d = a64'
      OBVIOUS
    <2>2. PICK n \in Nat : n = N
      BY <1>0
    <2>3. PICK e \in Output : e = [at |-> a64.pos, lands |-> k]
      BY <1>3 DEF Output
    <2>4. /\ c.out \in Seq(Output) /\ Len(c.out) = n /\ c.pos \in Int
          /\ e.at = c.pos /\ e.lands = k /\ d.out = Append(c.out, e)
      BY <1>2, <1>3, <2>1, <2>2, <2>3
    <2> HIDE DEF CodeInv, N
    <2>5. \A i \in 1 .. N + 1 : StartOf(a64', i) = StartOf(a64, i)
      BY <2>1, <2>2, <2>4, StartKept DEF StartOf
    <2>6. StartOf(a64', N + 2) = a64'.pos
      BY <2>1, <2>2, <2>4, StartKept DEF StartOf
    <2>7. a64'.out[N + 1].lands = k /\ \A i \in 1 .. N : a64'.out[i] = a64.out[i]
      BY <2>1, <2>2, <2>4, StartKept DEF StartOf
    <2> QED
      BY <2>5, <2>6, <2>7
  <1>6. \A r \in Reg :
          /\ x86'.use[r] = IF r \in InterpMarks(ins) THEN x86'.pos ELSE x86.use[r]
          /\ a64'.use[r] = IF r \in InterpMarks(ins) THEN a64'.pos ELSE a64.use[r]
    <2>1. x86' = X86Compile(x86, ins) /\ a64' = A64Compile(a64, ins)
      BY DEF Translate
    <2>2. x86 \in X86State /\ a64 \in A64State
      BY DEF CodeTypes
    <2> HIDE DEF CodeInv
    <2>3. \A r \in Reg :
             x86'.use[r] = IF r \in InterpMarks(ins) THEN x86'.pos ELSE x86.use[r]
      BY <2>1, <2>2, X86Adds
    <2>4. \A r \in Reg :
             a64'.use[r] = IF r \in InterpMarks(ins) THEN a64'.pos ELSE a64.use[r]
      BY <2>1, <2>2, A64Adds
    <2> QED
      BY <2>3, <2>4
  <1>7. \A r \in Reg : usage[r] \in Nat /\ usage[r] + 1 \in 1 .. N + 1
    BY <1>0 DEF CodeTypes, Recorded
  <1>8. Addressed'
    <2> SUFFICES ASSUME NEW r \in Reg
                 PROVE  /\ x86'.use[r] = StartOf(x86', usage'[r] + 1)
                        /\ a64'.use[r] = StartOf(a64', usage'[r] + 1)
      BY DEF Addressed
    <2>1. CASE r \in InterpMarks(ins)
      <3>1. usage'[r] + 1 = N + 2
        BY <1>0, <2>1, TranslateAdds
      <3> QED
        BY <1>4, <1>5, <1>6, <2>1, <3>1
    <2>2. CASE r \notin InterpMarks(ins)
      <3>1. usage'[r] = usage[r]
        BY <2>2, TranslateAdds
      <3> QED
        BY <1>4, <1>5, <1>6, <1>7, <2>2, <3>1 DEF Addressed
    <2> QED
      BY <2>1, <2>2
  <1>9. JumpsAgree'
    <2> SUFFICES ASSUME NEW b \in 1 .. N', program'[b].op = "cbranch"
                 PROVE  /\ x86'.out[b].lands = StartOf(x86', targets'[b] + 1)
                        /\ a64'.out[b].lands = StartOf(a64', targets'[b] + 1)
      BY DEF JumpsAgree, Branches, N
    <2>1. CASE b = N + 1
      <3>1. ins.op = "cbranch" /\ targets'[b] = usage[ins.dst] /\ ins.dst \in Reg
        BY <2>1, TranslateAdds, Kind
      <3> QED
        BY <1>1, <1>2, <1>4, <1>5, <1>7, <2>1, <3>1 DEF Addressed
    <2>2. CASE b # N + 1
      <3>1. b \in 1 .. N
        BY <1>0, <2>2
      <3>2. program'[b] = program[b] /\ targets'[b] = targets[b]
        BY <3>1, TranslateAdds
      <3>3. targets[b] \in Nat /\ targets[b] < b
        BY <1>0, <3>1 DEF CodeTypes, Recorded
      <3>4. targets[b] + 1 \in 1 .. N + 1
        BY <1>0, <3>1, <3>3
      <3>5. b \in Branches
        BY <3>1, <3>2 DEF Branches, N
      <3> QED
        BY <1>4, <1>5, <3>1, <3>2, <3>4, <3>5 DEF JumpsAgree
    <2> QED
      BY <2>1, <2>2
  <1> QED
    BY <1>8, <1>9

\* What the translation of an instruction does to the addresses of x86 code.
LEMMA AddressesKept ==
    ASSUME CodeInv, NEW ins \in Instructions, Translate(ins), NEW n \in Nat, n = N
    PROVE  /\ x86.pos \in Int /\ x86'.pos \in Int /\ x86'.pos >= x86.pos
           /\ ins.op = "cfround" => x86'.pos > x86.pos
           /\ At(n + 1)' = x86.pos /\ (Rounding(n + 1)' <=> ins.op = "cfround")
           /\ Depends(n + 1)' <=> ins.op \in {"float", "cbranch"}
           /\ \A i \in 1 .. N : /\ At(i)' = At(i) /\ (Rounding(i)' <=> Rounding(i))
                               /\ (Depends(i)' <=> Depends(i)) /\ At(i) \in Int
           /\ x86'.erased = IF ins.op = "cfround" /\ x86.prev # 0
                              THEN x86.erased \cup {x86.prev} ELSE x86.erased
           /\ x86'.prev = CASE ins.op = "cfround" -> x86.pos
                            [] ins.op \in {"float", "cbranch"} -> 0
                            [] OTHER -> x86.prev
  <1> USE DEF CodeInv, Translated
  <1>1. PICK l \in Int : x86'.out = Append(x86.out, [at |-> x86.pos, lands |-> l])
    BY TranslateAdds
  <1>2. x86.out \in Seq(Output) /\ Len(x86.out) = N /\ x86.pos \in Int /\ N \in Nat
    BY TranslateAdds DEF CodeTypes, X86State
  <1>3. x86'.out[N + 1].at = x86.pos /\ \A i \in 1 .. N : x86'.out[i] = x86.out[i]
    BY <1>1, <1>2, StartKept
  <1>4. \A i \in 1 .. N : x86.out[i] \in Output
    BY <1>2
  <1>5. \A i \in 1 .. N : At(i)' = At(i) /\ At(i) \in Int
    BY <1>3, <1>4 DEF At, Output
  <1>6. At(n + 1)' = x86.pos /\ (Rounding(n + 1)' <=> ins.op = "cfround")
        /\ (Depends(n + 1)' <=> ins.op \in {"float", "cbranch"})
    <2>1. program'[N + 1] = ins /\ x86'.out[N + 1].at = x86.pos
      BY <1>3, TranslateAdds
    <2>2. program'[n + 1] = ins /\ x86'.out[n + 1].at = x86.pos
      BY <2>1
    <2> QED
      BY <2>2 DEF At, Rounding, Depends
  <1>7. \A i \in 1 .. N : (Rounding(i)' <=> Rounding(i)) /\ (Depends(i)' <=> Depends(i))
    BY TranslateAdds DEF Rounding, Depends
  <1>8. x86' = X86Compile(x86, ins) /\ x86 \in X86State
    BY DEF Translate, CodeTypes
  <1>9. x86'.pos \in Int /\ x86'.pos >= x86.pos
    BY <1>8, X86Adds DEF X86State
  <1>10. /\ ins.op = "cfround" => x86'.pos > x86.pos
         /\ x86'.erased = IF ins.op = "cfround" /\ x86.prev # 0
                            THEN x86.erased \cup {x86.prev} ELSE x86.erased
         /\ x86'.prev = CASE ins.op = "cfround" -> x86.pos
                          [] ins.op \in {"float", "cbranch"} -> 0
                          [] OTHER -> x86.prev
    BY <1>8, X86Adds
  <1> QED
    BY <1>2, <1>5, <1>6, <1>7, <1>9, <1>10

LEMMA OrderedKept ==
    ASSUME CodeInv, NEW ins \in Instructions, Translate(ins), NEW n \in Nat, n = N
    PROVE  Ordered' /\ \A e \in x86'.erased : e < x86.pos
  <1> USE DEF CodeInv, Translated
  <1>0. N' = n + 1 /\ 1 .. N' = 1 .. N \cup {n + 1}
    BY TranslateAdds
  <1>1. x86.pos > 0 /\ x86'.pos > 0
    BY AddressesKept DEF Ordered
  <1>2. \A e \in x86'.erased : e < x86.pos /\ e \in Int
    <2>1. x86.erased \subseteq Int /\ \A e \in x86.erased : e < x86.pos
      BY DEF Ordered, CodeTypes, X86State
    <2>2. x86.prev # 0 => x86.prev < x86.pos /\ x86.prev \in Int
      BY AddressesKept DEF Ordered, Rounds
    <2> QED
      BY <2>1, <2>2, AddressesKept
  <1>3. \A e \in x86'.erased : e < x86'.pos
    BY <1>2, AddressesKept
  <1>4. ASSUME NEW i \in 1 .. N'
        PROVE  0 < At(i)' /\ At(i)' <= x86'.pos /\ (Rounding(i)' => At(i)' < x86'.pos)
    <2>1. CASE i = n + 1
      BY <1>1, <2>1, AddressesKept
    <2>2. CASE i \in 1 .. N
      BY <2>2, AddressesKept DEF Ordered
    <2> QED
      BY <1>0, <2>1, <2>2
  <1>5. ASSUME NEW i \in 1 .. N', NEW j \in 1 .. N', Rounding(i)', Rounding(j)',
               At(i)' = At(j)'
        PROVE  i = j
    <2>1. CASE i \in 1 .. N /\ j \in 1 .. N
      BY <1>5, <2>1, AddressesKept DEF Ordered
    <2>2. CASE i = n + 1 /\ j \in 1 .. N
      BY <1>5, <2>2, AddressesKept DEF Ordered
    <2>3. CASE i \in 1 .. N /\ j = n + 1
      BY <1>5, <2>3, AddressesKept DEF Ordered
    <2> QED
      BY <1>0, <2>1, <2>2, <2>3
  <1>6. Ordered'
    BY <1>1, <1>3, <1>4, <1>5 DEF Ordered
  <1> QED
    BY <1>2, <1>6

LEMMA RoundsKept ==
    ASSUME CodeInv, NEW ins \in Instructions, Translate(ins), NEW n \in Nat, n = N
    PROVE  Rounds'
  <1> USE DEF CodeInv, Translated
  <1>0. N' = n + 1 /\ 1 .. N' = 1 .. N \cup {n + 1}
    BY TranslateAdds
  <1>1. ASSUME x86'.prev # 0
        PROVE  \E k \in 1 .. N' : Rounding(k)' /\ At(k)' = x86'.prev
                                 /\ \A j \in 1 .. N' : k < j => ~Depends(j)'
    <2>1. CASE ins.op = "cfround"
      BY <1>0, <2>1, AddressesKept
    <2>2. CASE ins.op # "cfround"
      <3>1. ins.op \notin {"float", "cbranch"} /\ x86'.prev = x86.prev
        BY <1>1, <2>2, AddressesKept
      <3>2. PICK k \in 1 .. N :
              Rounding(k) /\ At(k) = x86.prev /\ \A j \in 1 .. N : k < j => ~Depends(j)
        BY <1>1, <3>1 DEF Rounds
      <3> QED
        BY <1>0, <3>1, <3>2, AddressesKept
    <2> QED
      BY <2>1, <2>2
  <1>2. ASSUME NEW i \in 1 .. N', Rounding(i)', At(i)' \in x86'.erased
        PROVE  Ahead(i + 1)'
    <2>1. i # n + 1
      BY <1>2, AddressesKept, OrderedKept
    <2>2. i \in 1 .. N /\ Rounding(i) /\ At(i) \in x86'.erased
      BY <1>0, <1>2, <2>1, AddressesKept
    <2>3. CASE At(i) \in x86.erased
      <3>1. PICK k \in 1 .. N : i + 1 <= k /\ Rounding(k)
              /\ \A j \in 1 .. N : i + 1 <= j /\ j < k => ~Depends(j)
        BY <2>2, <2>3 DEF Rounds, Ahead
      <3>2. k \in 1 .. N' /\ Rounding(k)'
            /\ \A j \in 1 .. N' : i + 1 <= j /\ j < k => ~Depends(j)'
        BY <1>0, <3>1, AddressesKept
      <3> QED
        BY <3>1, <3>2 DEF Ahead
    <2>4. CASE At(i) \notin x86.erased
      <3>1. ins.op = "cfround" /\ x86.prev # 0 /\ At(i) = x86.prev
        BY <2>2, <2>4, AddressesKept
      <3>2. PICK k \in 1 .. N :
              Rounding(k) /\ At(k) = x86.prev /\ \A j \in 1 .. N : k < j => ~Depends(j)
        BY <3>1 DEF Rounds
      <3>3. k = i
        BY <2>2, <3>1, <3>2 DEF Ordered
      <3>4. n + 1 \in 1 .. N' /\ Rounding(n + 1)' /\ i + 1 <= n + 1
            /\ \A j \in 1 .. N' : i + 1 <= j /\ j < n + 1 => ~Depends(j)'
        BY <1>0, <2>2, <3>1, <3>2, <3>3, AddressesKept
      <3> QED
        BY <3>4 DEF Ahead
    <2> QED
      BY <2>3, <2>4
  <1> QED
    BY <1>1, <1>2 DEF Rounds

-----------------------------------------------------------------------------
\* The program stays as it is while it runs.
LEMMA ProgramKept ==
    ASSUME Translated, UNCHANGED <<program, targets, usage, x86, a64>>
    PROVE  /\ Translated' /\ N' = N /\ \A i : Ahead(i)' <=> Ahead(i)
  <1>1. LoopsApart' /\ JumpsAgree'
    BY DEF Translated, LoopsApart, JumpsAgree, Loop, Branches
  <1>2. Recorded' /\ Addressed' /\ Ordered' /\ Rounds' /\ N' = N
    BY DEF Translated, Recorded, Addressed, Ordered, Rounds, Rounding, Depends, At,
           Ahead, N
  <1>3. \A i : Ahead(i)' <=> Ahead(i)
    BY DEF Ahead, Rounding, Depends, N
  <1> QED
    BY <1>1, <1>2, <1>3 DEF Translated

LEMMA ExecuteStep ==
    ASSUME CodeInv, Execute
    PROVE  CodeInv'
  <1> USE DEF CodeInv, Execute
  <1>0. pc \in 1 .. N /\ N = ProgramSize /\ N \in Nat
    BY CodeAssumption DEF CodeTypes, CodeAssumption, N
  <1> DEFINE ins == program[pc]
  <1>1. Translated' /\ N' = N /\ \A i : Ahead(i)' <=> Ahead(i)
    BY ProgramKept
  <1>2. targets[pc] \in Nat /\ targets[pc] < pc
    BY <1>0 DEF CodeTypes, Translated, Recorded
  <1>3. pc' \in Nat /\ pc' # 0 /\ pc' <= ProgramSize + 1
    BY <1>0, <1>2
  <1>4. CodeTypes'
    BY <1>0, <1>1, <1>3 DEF CodeTypes
  <1>5. Modes'
    <2>1. CASE ins.op = "cfround" /\ x86.out[pc].at \notin x86.erased
      BY <2>1 DEF Modes
    <2>2. CASE ins.op = "cfround" /\ x86.out[pc].at \in x86.erased
      <3>1. Ahead(pc + 1)
        BY <1>0, <2>2 DEF Translated, Rounds, Rounding, At
      <3>2. pc' = pc + 1
        BY <2>2
      <3> QED
        BY <1>1, <1>3, <3>1, <3>2 DEF Modes
    <2>3. CASE ins.op # "cfround"
      <3>1. UNCHANGED <<mode, modeX86>>
        BY <2>3
      <3>2. CASE mode = modeX86
        BY <3>1, <3>2 DEF Modes
      <3>3. CASE mode # modeX86
        <4>1. PICK k \in 1 .. N : pc <= k /\ Rounding(k)
                /\ \A j \in 1 .. N : pc <= j /\ j < k => ~Depends(j)
          BY <3>3 DEF Modes, Ahead
        <4>2. k # pc
          BY <2>3, <4>1 DEF Rounding
        <4>3. ~Depends(pc) /\ pc + 1 <= k
          BY <1>0, <4>1, <4>2
        <4>4. pc' = pc + 1
          BY <4>3 DEF Depends
        <4>5. Ahead(pc + 1)
          BY <1>0, <4>1, <4>3 DEF Ahead
        <4> QED
          BY <1>1, <1>3, <4>4, <4>5 DEF Modes
      <3> QED
        BY <3>2, <3>3
    <2> QED
      BY <2>1, <2>2, <2>3
  <1> QED
    BY <1>1, <1>4, <1>5

LEMMA CodeStep == CodeInv /\ [CodeNext]_codeVars => CodeInv'
  <1> SUFFICES ASSUME CodeInv, [CodeNext]_codeVars PROVE CodeInv'
    OBVIOUS
  <1>1. ASSUME NEW ins \in Instructions, Translate(ins) PROVE CodeInv'
    <2>0. N \in Nat /\ CodeTypes'
      BY <1>1, TranslateAdds DEF CodeInv
    <2>1. Recorded' /\ LoopsApart' /\ Addressed' /\ JumpsAgree' /\ Ordered' /\ Rounds'
      BY <1>1, <2>0, RecordedKept, LoopsKept, AddressedKept, OrderedKept, RoundsKept
    <2>2. Modes'
      BY <1>1 DEF Translate, CodeInv, Modes
    <2> QED
      BY <2>0, <2>1, <2>2 DEF CodeInv, Translated
  <1>2. CASE Run
    <2>1. Translated' /\ N' = N
      BY <1>2, ProgramKept DEF Run, CodeInv
    <2>2. CodeTypes'
      BY <1>2, <2>1 DEF Run, CodeInv, CodeTypes, N
    <2>3. mode = modeX86
      BY <1>2, CodeAssumption DEF Run, CodeInv, Modes, Ahead, N, CodeAssumption
    <2>4. Modes'
      BY <1>2, <2>3 DEF Run, Modes
    <2> QED
      BY <2>1, <2>2, <2>4 DEF CodeInv
  <1>3. CASE Execute
    BY <1>3, ExecuteStep
  <1>4. CASE UNCHANGED codeVars
    <2>1. Translated' /\ \A i : Ahead(i)' <=> Ahead(i)
      BY <1>4, ProgramKept DEF codeVars, CodeInv
    <2> QED
      BY <1>4, <2>1 DEF codeVars, CodeInv, CodeTypes, Modes, N
  <1> QED
    BY <1>1, <1>2, <1>3, <1>4 DEF CodeNext

\* The interpreter and the code of both compilers take the same ways and compute with
\* the same rounding mode, and the loop of a branch contains no other and leaves its
\* register alone (h_CBRANCH and h_CFROUND of both compilers, compileInstruction).
THEOREM MachinesAgree == CodeSpec => []CodeAgrees
  <1>1. ASSUME CodeInv PROVE RoundingAgrees
    <2> SUFFICES ASSUME pc \in 1 .. Len(program), program[pc].op = "float"
                 PROVE  mode = modeX86
      BY DEF RoundingAgrees
    <2>1. ~Ahead(pc)
      BY DEF Ahead, Rounding, Depends, N
    <2> QED
      BY <1>1, <2>1 DEF CodeInv, Modes
  <1>2. CodeInv => CodeAgrees
    BY <1>1 DEF CodeInv, Translated, CodeAgrees
  <1> QED
    BY <1>2, CodeInitially, CodeStep, PTL DEF CodeSpec

-----------------------------------------------------------------------------
Types == {"ISUB_R", "IXOR_R", "IADD_RS", "IMUL_R", "IROR_C", "IADD_C", "IXOR_C",
          "IMULH_R", "ISMULH_R", "IMUL_RCP", "NOP"}

Products == {"IMULH_R", "ISMULH_R"}

Pars == RandomPars \cup Registers \cup {-1, 0}

Instruction == [type : Types, src : Registers \cup {-1}, dst : Registers \cup {-1},
                par : Pars]

SuperTypes ==
    /\ phase \in {"fetch", "fill", "done"} /\ saturated \in BOOLEAN
    /\ cycle \in Nat /\ depCycle \in Nat
    /\ buffer \in 1 .. 6 /\ slot \in Nat \ {0} /\ opIndex \in Nat \ {0}
    /\ current \in Instruction
    /\ registers \in [Registers -> [latency : Nat, group : Types, par : Pars]]

\* The next buffer is one for an instruction that is not complete.
Continued ==
    (phase = "fill" \/ (phase = "fetch" /\ ~saturated)) /\ ~Whole =>
        /\ current.type \in Products \cup {"IMUL_RCP"}
        /\ \/ /\ opIndex = 2
              /\ \/ phase = "fetch"
                 \/ slot > Len(Slots[buffer])
                 \/ slot = 1 /\ buffer \in IF current.type \in Products THEN {6} ELSE {1, 4, 5}
           \/ /\ opIndex = 3 /\ buffer = 6 /\ slot = 2 /\ phase = "fill"
              /\ current.type \in Products

\* An instruction with a constant has no source.
Sourceless == InfoOf[current.type].src = 0 => current.src = -1

\* No register holds a product of the same kind and parameter.
NewParameter(ins) ==
    \A r \in Registers : registers[r].group # ins.type \/ registers[r].par # ins.par

\* The full product under way has drawn a parameter of its own.
Fresh == (current.type \in Products /\ opIndex = 2) => NewParameter(current)

\* From this cycle on, no register is available before dst is.
First(dst) ==
    /\ dst \in Registers
    /\ \A r \in Registers : \/ registers[dst].latency <= cycle
                            \/ registers[dst].latency <= registers[r].latency

\* The destination of a full product is selected one cycle before its source.
DestinationFirst ==
    (Fresh /\ current.type \in Products /\ opIndex = 2) => First(current.dst)

SuperInv == SuperTypes /\ Continued /\ Sourceless /\ DestinationFirst

-----------------------------------------------------------------------------
\* A set of natural numbers has a least element.
LEMMA LeastIn ==
    ASSUME NEW S, S \subseteq Nat, S # {}
    PROVE  \E x \in S : \A y \in S : x <= y
  <1> DEFINE Before == OpToRel(<, Nat)
  <1>1. IsWellFoundedOn(Before, Nat)
    BY NatLessThanWellFounded
  <1>2. \A a, b \in Nat : a < b => <<a, b>> \in Before
    BY DEF OpToRel
  <1> HIDE DEF Before
  <1>3. PICK x \in S : \A y \in S : <<y, x>> \notin Before
    BY <1>1, WFMin, Zenon
  <1>4. \A y \in S : ~ (y < x)
    BY <1>2, <1>3
  <1> QED
    BY <1>4

\* Earliest returns it.
LEMMA EarliestIn ==
    ASSUME NEW S, S \subseteq Nat
    PROVE  IF S = {} THEN Earliest(S) = -1
           ELSE Earliest(S) \in S /\ \A c \in S : Earliest(S) <= c
  BY LeastIn DEF Earliest

\* Macro-ops of the instructions.
LEMMA Ops ==
    ASSUME NEW t \in Types
    PROVE  /\ Len(InfoOf[t].ops) \in Nat
           /\ \A k \in 1 .. Len(InfoOf[t].ops) : /\ InfoOf[t].ops[k].latency \in Nat
                                                 /\ InfoOf[t].ops[k].dependent \in BOOLEAN
           /\ t \in Products => /\ Len(InfoOf[t].ops) = 3 /\ InfoOf[t].result = 2
                                /\ InfoOf[t].dst = 1 /\ InfoOf[t].src = 2
                                /\ InfoOf[t].ops[1].dependent = FALSE
                                /\ InfoOf[t].ops[1].uops = {}
                                /\ InfoOf[t].ops[2].size = 3 /\ InfoOf[t].ops[3].size = 3
           /\ t = "IMUL_RCP" => /\ Len(InfoOf[t].ops) = 2 /\ InfoOf[t].result = 2
                                /\ InfoOf[t].dst = 2 /\ InfoOf[t].src = 0
                                /\ InfoOf[t].ops[2].size = 4
           /\ t = "NOP" => Len(InfoOf[t].ops) = 0 /\ InfoOf[t].src # 0
           /\ t \notin Products \cup {"IMUL_RCP", "NOP"} =>
                /\ Len(InfoOf[t].ops) = 1 /\ InfoOf[t].result = 1 /\ InfoOf[t].dst = 1
                /\ InfoOf[t].src \in {0, 1}
  <1> DEFINE Good(i) == \A k \in 1 .. Len(i.ops) : /\ i.ops[k].latency \in Nat
                                                   /\ i.ops[k].dependent \in BOOLEAN
             Single(i) == /\ Len(i.ops) = 1 /\ i.result = 1 /\ i.dst = 1
                          /\ i.src \in {0, 1} /\ Good(i)
  <1>1. ASSUME NEW mop, NEW src \in {0, 1}, mop.latency \in Nat, mop.dependent \in BOOLEAN
        PROVE  Single(Info(<<mop>>, 1, 1, src))
    BY <1>1 DEF Info
  <1>2. \A mop \in {Arith_rr, Arith_ri, Lea_sib, Ror_ri, Imul_rr, Mul_r, Mov_rr, Mov_ri64} :
            mop.latency \in Nat /\ mop.dependent = FALSE
    BY DEF Arith_rr, Arith_ri, Lea_sib, Ror_ri, Imul_rr, Mul_r, Mov_rr, Mov_ri64, Mop
  <1>3. CASE t \in {"ISUB_R", "IXOR_R", "IADD_RS", "IMUL_R"}
    <2>1. \E mop \in {Arith_rr, Lea_sib, Imul_rr} : InfoOf[t] = Info(<<mop>>, 1, 1, 1)
      BY <1>3 DEF InfoOf
    <2>2. Single(InfoOf[t])
      <3> HIDE DEF Single
      <3> QED
        BY <1>1, <1>2, <2>1
    <2> QED
      BY <1>3, <2>2 DEF Products
  <1>4. CASE t \in {"IROR_C", "IADD_C", "IXOR_C"}
    <2>1. \E mop \in {Ror_ri, Arith_ri} : InfoOf[t] = Info(<<mop>>, 1, 1, 0)
      BY <1>4 DEF InfoOf
    <2>2. Single(InfoOf[t])
      <3> HIDE DEF Single
      <3> QED
        BY <1>1, <1>2, <2>1
    <2> QED
      BY <1>4, <2>2 DEF Products
  <1>5. CASE t \in {"IMULH_R", "ISMULH_R"}
    <2>1. InfoOf[t] = Info(<<Mov_rr, Mul_r, Mov_rr>>, 2, 1, 2)
      BY <1>5 DEF InfoOf
    <2>2. /\ InfoOf[t].ops = <<Mov_rr, Mul_r, Mov_rr>> /\ InfoOf[t].result = 2
          /\ InfoOf[t].dst = 1 /\ InfoOf[t].src = 2
      BY <2>1 DEF Info
    <2>3. Mov_rr.uops = {} /\ Mov_rr.size = 3 /\ Mul_r.size = 3
      BY DEF Mov_rr, Mul_r, Mop
    <2>4. Len(InfoOf[t].ops) = 3 /\ InfoOf[t].ops[1] = Mov_rr /\ InfoOf[t].ops[2] = Mul_r
          /\ InfoOf[t].ops[3] = Mov_rr
      BY <2>2
    <2>5. Good(InfoOf[t])
      <3>1. \A k \in 1 .. Len(InfoOf[t].ops) : k = 1 \/ k = 2 \/ k = 3
        BY <2>4
      <3> QED
        BY <1>2, <2>4, <3>1
    <2>6. InfoOf[t].ops[1].dependent = FALSE /\ InfoOf[t].ops[1].uops = {}
          /\ InfoOf[t].ops[2].size = 3 /\ InfoOf[t].ops[3].size = 3
      BY <1>2, <2>3, <2>4
    <2> QED
      BY <1>5, <2>2, <2>4, <2>5, <2>6 DEF Products
  <1>6. CASE t = "IMUL_RCP"
    <2> DEFINE mul == [Imul_rr EXCEPT !.dependent = TRUE]
    <2>1. InfoOf[t] = Info(<<Mov_ri64, mul>>, 2, 2, 0)
      BY <1>6 DEF InfoOf
    <2>2. mul.latency \in Nat /\ mul.dependent = TRUE /\ mul.size = 4
      BY DEF Imul_rr, Mop
    <2> HIDE DEF mul
    <2>3. /\ InfoOf[t].ops = <<Mov_ri64, mul>> /\ InfoOf[t].result = 2
          /\ InfoOf[t].dst = 2 /\ InfoOf[t].src = 0
      BY <2>1 DEF Info
    <2>4. Len(InfoOf[t].ops) = 2 /\ InfoOf[t].ops[1] = Mov_ri64 /\ InfoOf[t].ops[2] = mul
      BY <2>3
    <2>5. Good(InfoOf[t])
      <3>1. \A k \in 1 .. Len(InfoOf[t].ops) : k = 1 \/ k = 2
        BY <2>4
      <3> QED
        BY <1>2, <2>2, <2>4, <3>1
    <2> QED
      BY <1>6, <2>2, <2>3, <2>4, <2>5 DEF Products
  <1>7. CASE t = "NOP"
    <2>1. InfoOf[t] = Info(<<>>, 1, 1, 1)
      BY <1>7 DEF InfoOf
    <2>2. Len(InfoOf[t].ops) = 0 /\ InfoOf[t].src # 0
      BY <2>1 DEF Info
    <2> QED
      BY <1>7, <2>2 DEF Products
  <1> QED
    BY <1>3, <1>4, <1>5, <1>6, <1>7 DEF Types

\* A macro-op is scheduled at or after the cycle that was asked for, if at all.
LEMMA Scheduled ==
    ASSUME NEW mop, NEW from \in Nat, NEW dep \in Nat, mop.dependent \in BOOLEAN
    PROVE  /\ Schedule(mop, from, dep) \in Nat \cup {-1}
           /\ Schedule(mop, from, dep) # -1 => Schedule(mop, from, dep) >= from
           /\ mop.uops = {} /\ ~mop.dependent => Schedule(mop, from, dep) = from
  <1> DEFINE start == IF mop.dependent /\ dep > from THEN dep ELSE from
             S == {c \in start .. Limit - 1 :
                      \A ports \in mop.uops : FreePorts(ports, c) # {}}
  <1>1. start \in Nat /\ start >= from /\ (~mop.dependent => start = from)
    OBVIOUS
  <1>2. Schedule(mop, from, dep) = IF mop.uops = {} THEN start ELSE Earliest(S)
    BY DEF Schedule
  <1> HIDE DEF start
  <1>3. Limit \in Int
    BY SuperAssumption DEF SuperAssumption, Limit
  <1>4. S \subseteq Nat /\ \A c \in S : c >= start
    BY <1>1, <1>3
  <1> HIDE DEF S
  <1>5. S = {} => Earliest(S) = -1
    BY <1>4, EarliestIn
  <1>6. S # {} => Earliest(S) \in S
    BY <1>4, EarliestIn
  <1> DEFINE e == Earliest(S)
  <1>7. e = -1 \/ (e \in Nat /\ e >= start)
    BY <1>4, <1>5, <1>6
  <1> HIDE DEF e
  <1>8. Schedule(mop, from, dep) = IF mop.uops = {} THEN start ELSE e
    BY <1>2 DEF e
  <1>9. CASE mop.uops = {}
    BY <1>1, <1>8, <1>9
  <1>10. CASE mop.uops # {}
    BY <1>1, <1>7, <1>8, <1>10
  <1> QED
    BY <1>9, <1>10

\* A wait that succeeds is the shortest one.
LEMMA Waiting ==
    ASSUME NEW choices
    PROVE  \/ Wait(choices) = -1
           \/ /\ Wait(choices) \in 0 .. LookForward - 1 /\ choices[Wait(choices)] # {}
              /\ \A w \in 0 .. LookForward - 1 : w < Wait(choices) => choices[w] = {}
  <1> DEFINE S == {w \in 0 .. LookForward - 1 : choices[w] # {}}
  <1>1. S \subseteq Nat /\ Wait(choices) = Earliest(S)
    BY SuperAssumption DEF SuperAssumption, Wait
  <1>2. CASE S = {}
    <2> HIDE DEF S
    <2> QED
      BY <1>1, <1>2, EarliestIn
  <1>3. CASE S # {}
    <2>1. Earliest(S) \in S /\ \A c \in S : Earliest(S) <= c
      <3> HIDE DEF S
      <3> QED
        BY <1>1, <1>3, EarliestIn
    <2> DEFINE e == Earliest(S)
    <2>2. e \in 0 .. LookForward - 1 /\ choices[e] # {}
      BY <2>1
    <2>3. ASSUME NEW w \in 0 .. LookForward - 1, w < e PROVE choices[w] = {}
      <3>1. SUFFICES ASSUME choices[w] # {} PROVE FALSE
        OBVIOUS
      <3>2. w \in S
        BY <3>1
      <3>3. e <= w
        <4> HIDE DEF S
        <4> QED
          BY <2>1, <3>2
      <3> HIDE DEF e
      <3> QED
        BY <2>2, <2>3, <3>3
    <2> HIDE DEF e
    <2>4. Wait(choices) = e
      BY <1>1 DEF e
    <2> QED
      BY <2>2, <2>3, <2>4
  <1> QED
    BY <1>2, <1>3

\* A source is available after the cycles waited, and nothing else is decided.
LEMMA SourceChosen ==
    ASSUME SuperTypes, NEW ins \in Instruction, NEW k \in Nat, NEW at \in Nat,
           NEW s \in WithSource(ins, k, at)
    PROVE  /\ s.ins \in Instruction /\ s.wait \in Nat
           /\ s.ins.type = ins.type /\ s.ins.dst = ins.dst
           /\ s.ins.type \in Products => s.ins.par = ins.par
           /\ InfoOf[ins.type].src # k => s.ins = ins /\ s.wait = 0
           /\ InfoOf[ins.type].src = k => /\ s.ins.src \in Registers
                                          /\ registers[s.ins.src].latency <= at + s.wait
  <1> DEFINE choices == [w \in 0 .. LookForward - 1 |-> Sources(ins, at + w)]
             wait == Wait(choices)
  <1>1. CASE InfoOf[ins.type].src # k
    <2>1. s = [ins |-> ins, wait |-> 0]
      BY <1>1 DEF WithSource
    <2> QED
      BY <1>1, <2>1
  <1>2. CASE InfoOf[ins.type].src = k
    <2>1. wait # -1 /\ \E r \in choices[wait] :
              s = [ins  |-> [ins EXCEPT !.src = r,
                               !.par = IF ins.type \in {"IMULH_R", "ISMULH_R"} THEN @ ELSE r],
                   wait |-> wait]
      BY <1>2 DEF WithSource
    <2>2. wait \in 0 .. LookForward - 1
      <3> HIDE DEF choices
      <3> QED
        BY <2>1, Waiting
    <2>3. choices[wait] = Sources(ins, at + wait)
      <3> HIDE DEF wait
      <3> QED
        BY <2>2
    <2>4. Sources(ins, at + wait) \subseteq Ready(at + wait)
      BY DEF Sources
    <2> HIDE DEF choices, wait
    <2>5. PICK r \in Ready(at + wait) :
              s = [ins  |-> [ins EXCEPT !.src = r,
                               !.par = IF ins.type \in {"IMULH_R", "ISMULH_R"} THEN @ ELSE r],
                   wait |-> wait]
      BY <2>1, <2>3, <2>4
    <2>6. r \in Registers /\ registers[r].latency <= at + wait
      BY <2>5 DEF Ready
    <2>7. wait \in Nat
      BY <2>2
    <2>8. s.wait = wait /\ s.ins.src = r /\ s.ins.type = ins.type /\ s.ins.dst = ins.dst
          /\ (ins.type \in Products => s.ins.par = ins.par)
      BY <2>5 DEF Instruction, Products
    <2>9. s.ins \in Instruction
      BY <2>5, <2>6 DEF Instruction, Pars
    <2> QED
      BY <1>2, <2>6, <2>7, <2>8, <2>9
  <1> QED
    BY <1>1, <1>2

\* So is a destination, and nothing excludes it for a full product with a new parameter:
\* if that waited, no register was available before.
LEMMA DestinationChosen ==
    ASSUME SuperTypes, NEW ins \in Instruction, NEW k \in Nat, NEW at \in Nat,
           NEW d \in WithDestination(ins, k, at)
    PROVE  /\ d.ins \in Instruction /\ d.wait \in Nat
           /\ d.ins.type = ins.type /\ d.ins.src = ins.src /\ d.ins.par = ins.par
           /\ InfoOf[ins.type].dst # k => d.ins = ins /\ d.wait = 0
           /\ InfoOf[ins.type].dst = k =>
                /\ d.ins.dst \in Registers
                /\ registers[d.ins.dst].latency <= at + d.wait
                /\ ins.type \in Products
                   /\ (\A r \in Registers : registers[r].group # ins.type
                                              \/ registers[r].par # ins.par) =>
                      \A r \in Registers : \/ registers[d.ins.dst].latency <= at
                                           \/ registers[d.ins.dst].latency
                                                <= registers[r].latency
  <1> DEFINE choices == [w \in 0 .. LookForward - 1 |-> Destinations(ins, at + w)]
             wait == Wait(choices)
  <1>1. CASE InfoOf[ins.type].dst # k
    <2>1. d = [ins |-> ins, wait |-> 0]
      BY <1>1 DEF WithDestination
    <2> QED
      BY <1>1, <2>1
  <1>2. CASE InfoOf[ins.type].dst = k
    <2>1. wait # -1 /\ \E r \in choices[wait] :
              d = [ins |-> [ins EXCEPT !.dst = r], wait |-> wait]
      BY <1>2 DEF WithDestination
    <2>2. /\ wait \in 0 .. LookForward - 1
          /\ \A w \in 0 .. LookForward - 1 : w < wait => choices[w] = {}
      <3> HIDE DEF choices
      <3> QED
        BY <2>1, Waiting
    <2>3. \A w \in 0 .. LookForward - 1 : choices[w] = Destinations(ins, at + w)
      OBVIOUS
    <2> HIDE DEF choices, wait
    <2>4. PICK r \in Destinations(ins, at + wait) :
              d = [ins |-> [ins EXCEPT !.dst = r], wait |-> wait]
      BY <2>1, <2>2, <2>3
    <2>5. r \in Registers /\ registers[r].latency <= at + wait
      BY <2>4 DEF Destinations, Ready
    <2>6. wait \in Nat
      BY <2>2
    <2>7. /\ d.wait = wait /\ d.ins.dst = r /\ d.ins.type = ins.type
          /\ d.ins.src = ins.src /\ d.ins.par = ins.par
      BY <2>4 DEF Instruction
    <2>8. d.ins \in Instruction
      BY <2>4, <2>5 DEF Instruction
    <2>9. ASSUME ins.type \in Products, NEW q \in Registers,
                 \A x \in Registers : registers[x].group # ins.type \/ registers[x].par # ins.par
          PROVE  registers[r].latency <= at \/ registers[r].latency <= registers[q].latency
      <3>1. SUFFICES ASSUME wait > 0, registers[q].latency < at + wait PROVE FALSE
        <4>1. registers[q].latency \in Nat /\ registers[r].latency \in Nat
          BY <2>5 DEF SuperTypes
        <4> QED
          BY <2>5, <2>6, <3>1, <4>1
      <3>2. wait - 1 \in 0 .. LookForward - 1 /\ wait - 1 < wait
        BY <2>2, <3>1, SuperAssumption DEF SuperAssumption
      <3>3. Destinations(ins, at + (wait - 1)) = {}
        BY <2>2, <2>3, <3>2
      <3>4. q \in Ready(at + (wait - 1))
        <4>1. registers[q].latency \in Nat
          BY DEF SuperTypes
        <4>2. registers[q].latency <= at + (wait - 1)
          BY <2>6, <3>1, <4>1
        <4> QED
          BY <4>2 DEF Ready
      <3>5. q \in Destinations(ins, at + (wait - 1))
        BY <2>9, <3>4 DEF Destinations, Products, GroupOf
      <3> QED
        BY <3>3, <3>5
    <2> QED
      BY <1>2, <2>5, <2>6, <2>7, <2>8, <2>9
  <1> QED
    BY <1>1, <1>2

-----------------------------------------------------------------------------
\* What an attempt to issue macro-op k of an instruction decides about its operands.
Selected(ins, k, new) ==
    /\ new \in Instruction /\ new.type = ins.type
    /\ InfoOf[ins.type].src # k => new.src = ins.src
    /\ InfoOf[ins.type].dst # k => new.dst = ins.dst
    /\ ins.type \in Products => new.par = ins.par

\* What holds of the operands that were selected for a macro-op issued at a cycle.
InTime(ins, k, new, at) ==
    /\ InfoOf[ins.type].src = k =>
          new.src \in Registers /\ registers[new.src].latency <= at
    /\ InfoOf[ins.type].dst = k =>
          new.dst \in Registers /\ registers[new.dst].latency <= at

\* Every outcome of an attempt: no port, no operand, or issued with its operands in time.
LEMMA Attempts ==
    ASSUME SuperTypes, NEW ins \in Instruction, NEW k \in 1 .. SizeOf(ins), Attempt(ins, k)
    PROVE  \E new, waited :
              /\ Selected(ins, k, new) /\ waited \in Nat
              /\ \/ NoPort(new, k, waited)
                 \/ NoOperand(new, waited)
                 \/ \E at \in Nat :
                      /\ Issue(new, k, at) /\ at >= cycle /\ InTime(ins, k, new, at)
                      /\ (ins.type \in Products /\ k = 1 /\ NewParameter(ins)) =>
                            First(new.dst)
  <1> DEFINE mop  == InfoOf[ins.type].ops[k]
             at0  == Schedule(mop, cycle, depCycle)
             srcs == WithSource(ins, k, at0)
  <1>1. /\ k \in Nat \ {0} /\ ins.type \in Types /\ cycle \in Nat /\ depCycle \in Nat
        /\ mop.dependent \in BOOLEAN
    <2>1. ins.type \in Types
      BY DEF Instruction
    <2>2. Len(InfoOf[ins.type].ops) \in Nat /\ k \in 1 .. Len(InfoOf[ins.type].ops)
      BY <2>1, Ops DEF SizeOf
    <2>3. mop.dependent \in BOOLEAN
      BY <2>1, <2>2, Ops
    <2> QED
      BY <2>1, <2>2, <2>3 DEF SuperTypes
  <1>2. LookForward \in Nat
    BY SuperAssumption DEF SuperAssumption
  <1>3. at0 # -1 => at0 \in Nat /\ at0 >= cycle
    BY <1>1, Scheduled
  <1>4. \/ at0 = -1 /\ NoPort(ins, k, 0)
        \/ at0 # -1 /\ NoOperand(ins, LookForward)
        \/ /\ at0 # -1
           /\ \E s \in srcs :
                \/ NoOperand(s.ins, s.wait + LookForward)
                \/ \E d \in WithDestination(s.ins, k, at0 + s.wait) :
                     LET from  == Waited(at0, s, d)
                         start == Schedule(mop, from, from)
                     IN  IF start = -1 THEN NoPort(d.ins, k, s.wait + d.wait)
                                       ELSE Issue(d.ins, k, start)
    BY DEF Attempt
  <1> HIDE DEF mop, srcs
  <1>5. CASE NoPort(ins, k, 0)
    BY <1>5 DEF Selected
  <1>6. CASE NoOperand(ins, LookForward)
    BY <1>2, <1>6 DEF Selected
  <1>7. ASSUME at0 # -1, NEW s \in srcs
        PROVE  /\ Selected(ins, k, s.ins) /\ s.wait \in Nat
               /\ InfoOf[ins.type].src # k => s.ins = ins /\ s.wait = 0
               /\ InfoOf[ins.type].src = k =>
                    s.ins.src \in Registers /\ registers[s.ins.src].latency <= at0 + s.wait
    <2> HIDE DEF at0
    <2>1. s \in WithSource(ins, k, at0) /\ k \in Nat /\ at0 \in Nat
      BY <1>1, <1>3, <1>7 DEF srcs
    <2> QED
      BY <2>1, SourceChosen DEF Selected
  <1>8. ASSUME at0 # -1, NEW s \in srcs, NoOperand(s.ins, s.wait + LookForward)
        PROVE  \E new, waited : Selected(ins, k, new) /\ waited \in Nat /\ NoOperand(new, waited)
    BY <1>2, <1>7, <1>8
  <1>9. ASSUME at0 # -1, NEW s \in srcs, NEW d \in WithDestination(s.ins, k, at0 + s.wait)
        PROVE  /\ Selected(ins, k, d.ins) /\ d.ins.src = s.ins.src /\ d.wait \in Nat
               /\ InfoOf[ins.type].dst = k =>
                    /\ d.ins.dst \in Registers
                    /\ registers[d.ins.dst].latency <= at0 + s.wait + d.wait
               /\ (ins.type \in Products /\ k = 1 /\ NewParameter(ins)) => First(d.ins.dst)
    <2>1. /\ Selected(ins, k, s.ins) /\ s.wait \in Nat /\ at0 \in Nat
          /\ InfoOf[ins.type].src # k => s.ins = ins /\ s.wait = 0
      BY <1>3, <1>7, <1>9
    <2>2. (ins.type \in Products /\ k = 1) =>
             s.ins = ins /\ at0 + s.wait = cycle /\ InfoOf[ins.type].dst = k
      <3> SUFFICES ASSUME ins.type \in Products, k = 1
                   PROVE  s.ins = ins /\ at0 + s.wait = cycle /\ InfoOf[ins.type].dst = k
        OBVIOUS
      <3>1. /\ InfoOf[ins.type].src = 2 /\ InfoOf[ins.type].dst = 1
            /\ mop.uops = {} /\ mop.dependent = FALSE
        BY <1>1, Ops DEF mop
      <3>2. at0 = cycle
        BY <1>1, <3>1, Scheduled
      <3> HIDE DEF at0
      <3> QED
        BY <1>1, <2>1, <3>1, <3>2
    <2> HIDE DEF at0
    <2>3. /\ s.ins \in Instruction /\ s.ins.type = ins.type /\ at0 + s.wait \in Nat
      BY <2>1 DEF Selected
    <2>4. /\ d.ins \in Instruction /\ d.wait \in Nat
          /\ d.ins.type = s.ins.type /\ d.ins.src = s.ins.src /\ d.ins.par = s.ins.par
          /\ InfoOf[s.ins.type].dst # k => d.ins = s.ins /\ d.wait = 0
          /\ InfoOf[s.ins.type].dst = k =>
                /\ d.ins.dst \in Registers
                /\ registers[d.ins.dst].latency <= at0 + s.wait + d.wait
                /\ s.ins.type \in Products
                   /\ (\A r \in Registers : registers[r].group # s.ins.type
                                              \/ registers[r].par # s.ins.par) =>
                      \A r \in Registers : \/ registers[d.ins.dst].latency <= at0 + s.wait
                                           \/ registers[d.ins.dst].latency
                                                <= registers[r].latency
      <3>1. k \in Nat
        BY <1>1
      <3> QED
        BY <1>9, <2>3, <3>1, DestinationChosen
    <2>5. Selected(ins, k, d.ins)
      BY <2>1, <2>3, <2>4 DEF Selected
    <2>6. (ins.type \in Products /\ k = 1 /\ NewParameter(ins)) => First(d.ins.dst)
      BY <2>2, <2>4 DEF First, NewParameter
    <2> QED
      BY <2>3, <2>4, <2>5, <2>6
  <1>10. ASSUME at0 # -1, NEW s \in srcs, NEW d \in WithDestination(s.ins, k, at0 + s.wait),
                LET from  == Waited(at0, s, d)
                    start == Schedule(mop, from, from)
                IN  IF start = -1 THEN NoPort(d.ins, k, s.wait + d.wait)
                                  ELSE Issue(d.ins, k, start)
         PROVE  \E new, waited :
                   /\ Selected(ins, k, new) /\ waited \in Nat
                   /\ \/ NoPort(new, k, waited)
                      \/ \E at \in Nat :
                           /\ Issue(new, k, at) /\ at >= cycle /\ InTime(ins, k, new, at)
                           /\ (ins.type \in Products /\ k = 1 /\ NewParameter(ins)) =>
                                 First(new.dst)
    <2> DEFINE from == Waited(at0, s, d)
               start == Schedule(mop, from, from)
    <2>1. IF start = -1 THEN NoPort(d.ins, k, s.wait + d.wait) ELSE Issue(d.ins, k, start)
      BY <1>10
    <2>2. /\ s.wait \in Nat /\ d.wait \in Nat /\ at0 \in Nat /\ at0 >= cycle
          /\ from = at0 + s.wait + d.wait
      BY <1>3, <1>7, <1>9, <1>10 DEF Waited
    <2>3. from \in Nat /\ s.wait + d.wait \in Nat /\ from >= cycle /\ from >= at0 + s.wait
      <3> HIDE DEF at0, from
      <3> QED
        BY <1>1, <2>2
    <2>4. /\ Selected(ins, k, d.ins) /\ d.ins.src = s.ins.src
          /\ InfoOf[ins.type].dst = k =>
                d.ins.dst \in Registers /\ registers[d.ins.dst].latency <= from
          /\ (ins.type \in Products /\ k = 1 /\ NewParameter(ins)) => First(d.ins.dst)
      <3> HIDE DEF at0, from
      <3> QED
        BY <1>9, <1>10, <2>2
    <2>5. start # -1 => start \in Nat /\ start >= from
      <3> HIDE DEF from
      <3> QED
        BY <1>1, <2>3, Scheduled
    <2>6. InfoOf[ins.type].src = k =>
            s.ins.src \in Registers /\ registers[s.ins.src].latency <= at0 + s.wait
      BY <1>7, <1>10
    <2>7. \A r \in Registers : registers[r].latency \in Nat
      BY DEF SuperTypes
    <2> HIDE DEF at0, from, start
    <2>8. CASE start = -1
      BY <2>1, <2>3, <2>4, <2>8
    <2>9. CASE start # -1
      <3>1. start \in Nat /\ start >= from /\ start >= cycle
        BY <1>1, <2>3, <2>5, <2>9
      <3>2. InTime(ins, k, d.ins, start)
        BY <2>2, <2>3, <2>4, <2>6, <2>7, <3>1 DEF InTime
      <3> QED
        BY <2>1, <2>4, <2>9, <3>1, <3>2
    <2> QED
      BY <2>8, <2>9
  <1> HIDE DEF at0
  <1> QED
    BY <1>4, <1>5, <1>6, <1>8, <1>10

\* What the decode buffers begin and end with.
LEMMA Buffers ==
    ASSUME NEW b \in 1 .. 6
    PROVE  /\ Len(Slots[b]) \in {3, 4}
           /\ \A i \in 1 .. Len(Slots[b]) : /\ Slots[b][i] \in {3, 4, 7, 8, 9, 10}
                                            /\ Slots[b][i] = 10 => i = Len(Slots[b])
           /\ b \in {1, 4, 5} => Slots[b][1] = 4
           /\ b = 6 => Slots[b][1] = 3 /\ Slots[b][2] = 3
  <1>1. ASSUME NEW x, NEW y, NEW z, x \in {3, 4, 7, 8, 9}, y \in {3, 4, 7, 8, 9},
               z \in {3, 4, 7, 8, 9, 10}
        PROVE  /\ Len(<<x, y, z>>) = 3
               /\ \A i \in 1 .. 3 : /\ <<x, y, z>>[i] \in {3, 4, 7, 8, 9, 10}
                                    /\ <<x, y, z>>[i] = 10 => i = 3
    <2>1. \A i \in 1 .. 3 : i = 1 \/ i = 2 \/ i = 3
      OBVIOUS
    <2> QED
      BY <1>1, <2>1
  <1>2. ASSUME NEW x, NEW y, NEW z, NEW u, x \in {3, 4, 7, 8, 9}, y \in {3, 4, 7, 8, 9},
               z \in {3, 4, 7, 8, 9}, u \in {3, 4, 7, 8, 9, 10}
        PROVE  /\ Len(<<x, y, z, u>>) = 4
               /\ \A i \in 1 .. 4 : /\ <<x, y, z, u>>[i] \in {3, 4, 7, 8, 9, 10}
                                    /\ <<x, y, z, u>>[i] = 10 => i = 4
    <2>1. \A i \in 1 .. 4 : i = 1 \/ i = 2 \/ i = 3 \/ i = 4
      OBVIOUS
    <2> QED
      BY <1>2, <2>1
  <1>3. CASE b = 1
    <2>1. Slots[b] = <<4, 8, 4>>
      BY <1>3 DEF Slots
    <2> QED
      BY <1>1, <1>3, <2>1
  <1>4. CASE b = 2
    <2>1. Slots[b] = <<7, 3, 3, 3>>
      BY <1>4 DEF Slots
    <2> QED
      BY <1>2, <1>4, <2>1
  <1>5. CASE b = 3
    <2>1. Slots[b] = <<3, 7, 3, 3>>
      BY <1>5 DEF Slots
    <2> QED
      BY <1>2, <1>5, <2>1
  <1>6. CASE b = 4
    <2>1. Slots[b] = <<4, 9, 3>>
      BY <1>6 DEF Slots
    <2> QED
      BY <1>1, <1>6, <2>1
  <1>7. CASE b = 5
    <2>1. Slots[b] = <<4, 4, 4, 4>>
      BY <1>7 DEF Slots
    <2> QED
      BY <1>2, <1>7, <2>1
  <1>8. CASE b = 6
    <2>1. Slots[b] = <<3, 3, 10>>
      BY <1>8 DEF Slots
    <2> QED
      BY <1>1, <1>8, <2>1
  <1> QED
    BY <1>3, <1>4, <1>5, <1>6, <1>7, <1>8

\* What is created has one macro-op, or the last slot.
LEMMA Creation ==
    ASSUME SuperTypes, slot <= Len(Slots[buffer]),
           NEW type \in TypesFor(Slots[buffer][slot], slot = Len(Slots[buffer])),
           NEW ins \in Created(type)
    PROVE  /\ ins \in Instruction /\ ins.type = type /\ ins.src = -1
           /\ type # "NOP"
           /\ type \in Products \cup {"IMUL_RCP"} => slot = Len(Slots[buffer])
  <1>1. slot \in 1 .. Len(Slots[buffer]) /\ buffer \in 1 .. 6
    <2>1. Len(Slots[buffer]) \in {3, 4}
      BY Buffers DEF SuperTypes
    <2> QED
      BY <2>1 DEF SuperTypes
  <1>2. Slots[buffer][slot] \in {3, 4, 7, 8, 9, 10}
        /\ (Slots[buffer][slot] = 10 => slot = Len(Slots[buffer]))
    BY <1>1, Buffers
  <1>3. type \in Types \ {"NOP"}
        /\ (type \in Products \cup {"IMUL_RCP"} => slot = Len(Slots[buffer]))
    <2> DEFINE size == Slots[buffer][slot]
               last == slot = Len(Slots[buffer])
    <2>1. type \in TypesFor(size, last) /\ size \in {3, 4, 7, 8, 9, 10} /\ (size = 10 => last)
          /\ last \in BOOLEAN
      BY <1>2
    <2> SUFFICES type \in Types \ {"NOP"} /\ (type \in Products \cup {"IMUL_RCP"} => last)
      OBVIOUS
    <2> HIDE DEF size, last
    <2>2. CASE size = 3
      BY <2>1, <2>2 DEF TypesFor, Types, Products
    <2>3. CASE size = 4
      BY <2>1, <2>3 DEF TypesFor, Types, Products
    <2>4. CASE size \in {7, 8, 9}
      BY <2>1, <2>4 DEF TypesFor, Types, Products
    <2>5. CASE size = 10
      BY <2>1, <2>5 DEF TypesFor, Types, Products
    <2> QED
      BY <2>1, <2>2, <2>3, <2>4, <2>5
  <1>4. PICK p \in RandomPars \cup {-1, 0} : ins = [Null EXCEPT !.type = type, !.par = p]
    BY DEF Created
  <1>5. ins = [type |-> type, src |-> -1, dst |-> -1, par |-> p]
    BY <1>4 DEF Null
  <1> QED
    BY <1>3, <1>5 DEF Instruction, Pars

\* What an attempt leaves behind, whatever its outcome.
LEMMA AttemptTypes ==
    ASSUME SuperTypes, phase = "fill", NEW ins \in Instruction, NEW k \in 1 .. SizeOf(ins),
           Attempt(ins, k)
    PROVE  SuperTypes'
  <1>1. PICK new, waited :
              /\ Selected(ins, k, new) /\ waited \in Nat
              /\ \/ NoPort(new, k, waited)
                 \/ NoOperand(new, waited)
                 \/ \E at \in Nat : Issue(new, k, at) /\ InTime(ins, k, new, at)
    BY Attempts
  <1>2. new \in Instruction /\ new.type \in Types /\ new.type = ins.type
    BY <1>1 DEF Selected, Instruction
  <1>3. SizeOf(new) \in Nat /\ SizeOf(new) = Len(InfoOf[new.type].ops) /\ SizeOf(new) = SizeOf(ins)
    BY <1>2, Ops DEF SizeOf
  <1>4. k \in Nat \ {0} /\ k \in 1 .. Len(InfoOf[new.type].ops)
    BY <1>3
  <1>5. Null \in Instruction
    BY DEF Null, Instruction, Types, Pars
  <1>6. CASE NoPort(new, k, waited)
    BY <1>1, <1>2, <1>4, <1>6 DEF NoPort, Leave, SuperTypes
  <1>7. CASE NoOperand(new, waited)
    <2>1. CASE throwAway < MaxThrowaway
      BY <1>1, <1>2, <1>3, <1>7, <2>1 DEF NoOperand, SuperTypes
    <2>2. CASE ~ (throwAway < MaxThrowaway)
      BY <1>1, <1>5, <1>7, <2>2 DEF NoOperand, Leave, SuperTypes
    <2> QED
      BY <2>1, <2>2
  <1>8. ASSUME NEW at \in Nat, Issue(new, k, at) PROVE SuperTypes'
    <2>1. InfoOf[new.type].ops[k].latency \in Nat
      BY <1>2, <1>4, Ops
    <2>2. depCycle' \in Nat
      BY <1>8, <2>1 DEF Issue
    <2>3. GroupOf(new.type) \in Types /\ new.par \in Pars
      BY <1>2 DEF GroupOf, Types, Instruction
    <2>4. registers' \in [Registers -> [latency : Nat, group : Types, par : Pars]]
      <3>1. \/ registers' = registers
            \/ registers' = [registers EXCEPT ![new.dst] =
                                [latency |-> depCycle', group |-> GroupOf(new.type),
                                 par |-> new.par]]
        BY <1>8 DEF Issue
      <3> QED
        BY <2>2, <2>3, <3>1 DEF SuperTypes
    <2>5. saturated' \in BOOLEAN /\ phase' = phase /\ cycle' = cycle /\ buffer' = buffer
          /\ slot' = slot + 1 /\ opIndex' = k + 1 /\ current' = new
      BY <1>8 DEF Issue
    <2> QED
      BY <1>2, <1>4, <2>2, <2>4, <2>5 DEF SuperTypes
  <1> QED
    BY <1>1, <1>6, <1>7, <1>8

LEMMA SuperInitially == SuperInit => SuperInv
  <1> SUFFICES ASSUME SuperInit PROVE SuperInv
    OBVIOUS
  <1> USE DEF SuperInit
  <1>1. Null \in Instruction /\ Null.type = "NOP"
    BY DEF Null, Instruction, Types, Pars
  <1>2. Len(InfoOf["NOP"].ops) = 0 /\ InfoOf["NOP"].src # 0
    BY Ops DEF Types
  <1>3. SuperTypes
    <2>1. "NOP" \in Types /\ -1 \in Pars
      BY DEF Types, Pars
    <2>2. registers \in [Registers -> [latency : Nat, group : Types, par : Pars]]
      BY <2>1
    <2>3. phase \in {"fetch", "fill", "done"} /\ saturated \in BOOLEAN
      BY Zenon
    <2>4. /\ cycle \in Nat /\ depCycle \in Nat
          /\ buffer \in 1 .. 6 /\ slot \in Nat \ {0} /\ opIndex \in Nat \ {0}
      OBVIOUS
    <2> QED
      BY <1>1, <2>2, <2>3, <2>4 DEF SuperTypes
  <1>4. Whole
    BY <1>1, <1>2 DEF Whole, SizeOf
  <1> QED
    BY <1>1, <1>2, <1>3, <1>4
       DEF SuperInv, Continued, Sourceless, DestinationFirst, Products

\* An attempt for macro-op k, with what is known of the place it is made at.
LEMMA AttemptStep ==
    ASSUME SuperTypes, phase = "fill", slot <= Len(Slots[buffer]),
           NEW ins \in Instruction, NEW k \in 1 .. SizeOf(ins), Attempt(ins, k),
           InfoOf[ins.type].src = 0 => ins.src = -1,
           (k = 1 /\ ins.type \in Products \cup {"IMUL_RCP"}) => slot = Len(Slots[buffer]),
           (k = 2 /\ ins.type \in Products) => buffer = 6 /\ slot = 1,
           (k = 2 /\ ins.type \in Products /\ NewParameter(ins)) => First(ins.dst)
    PROVE  SuperInv'
  <1>1. PICK new, waited :
              /\ Selected(ins, k, new) /\ waited \in Nat
              /\ \/ NoPort(new, k, waited)
                 \/ NoOperand(new, waited)
                 \/ \E at \in Nat :
                      /\ Issue(new, k, at)
                      /\ (ins.type \in Products /\ k = 1 /\ NewParameter(ins)) =>
                            First(new.dst)
    BY Attempts
  <1> DEFINE n == SizeOf(new)
  <1>2. /\ new \in Instruction /\ new.type \in Types /\ new.type = ins.type
        /\ k \in Nat \ {0} /\ k <= n /\ n \in Nat
        /\ n = Len(InfoOf[ins.type].ops) /\ n = SizeOf(ins)
    <2>1. new \in Instruction /\ new.type \in Types /\ new.type = ins.type
      BY <1>1 DEF Selected, Instruction
    <2>2. SizeOf(new) = Len(InfoOf[ins.type].ops) /\ SizeOf(ins) = SizeOf(new)
          /\ SizeOf(new) \in Nat
      BY <2>1, Ops DEF SizeOf
    <2> QED
      BY <2>1, <2>2
  <1>3. SuperTypes'
    BY AttemptTypes
  <1>4. /\ ins.type \in Products => /\ n = 3 /\ InfoOf[ins.type].result = 2
                                    /\ InfoOf[ins.type].dst = 1
        /\ ins.type = "IMUL_RCP" => n = 2
        /\ ins.type \notin Products \cup {"IMUL_RCP"} => n = 0 \/ n = 1
    BY <1>2, Ops
  <1> HIDE DEF n
  <1>5. InfoOf[new.type].src = 0 => new.src = -1
    <2>1. InfoOf[new.type].src = 0 => InfoOf[new.type].src # k
      BY <1>2
    <2> QED
      BY <1>1, <1>2, <2>1 DEF Selected
  <1>6. InfoOf["NOP"].src # 0 /\ Len(InfoOf["NOP"].ops) = 0
    BY Ops DEF Types
  <1>7. (k = 2 /\ new.type \in Products) =>
          new.dst = ins.dst /\ (NewParameter(new) <=> NewParameter(ins))
    BY <1>1, <1>2, <1>4 DEF Selected, NewParameter
  <1>8. CASE NoPort(new, k, waited)
    <2>1. /\ saturated' = TRUE /\ current' = new /\ opIndex' = k /\ phase' = "fetch"
          /\ cycle' = cycle + waited + 1 /\ registers' = registers
      BY <1>8 DEF NoPort, Leave
    <2>2. Continued' /\ Sourceless'
      BY <1>5, <2>1 DEF Continued, Sourceless
    <2>3. DestinationFirst'
      <3> SUFFICES ASSUME Fresh', new.type \in Products, k = 2
                   PROVE  /\ new.dst \in Registers
                          /\ \A r \in Registers :
                                \/ registers[new.dst].latency <= cycle + waited + 1
                                \/ registers[new.dst].latency <= registers[r].latency
        BY <2>1 DEF DestinationFirst, First
      <3>1. NewParameter(ins)
        BY <1>7, <2>1 DEF Fresh, NewParameter
      <3>2. First(new.dst)
        BY <1>2, <1>7, <3>1
      <3>3. cycle \in Nat /\ \A r \in Registers : registers[r].latency \in Nat
        BY DEF SuperTypes
      <3> QED
        BY <1>1, <3>2, <3>3 DEF First
    <2> QED
      BY <1>3, <2>2, <2>3 DEF SuperInv
  <1>9. CASE NoOperand(new, waited)
    <2>1. CASE throwAway < MaxThrowaway
      <3>1. current' = new /\ opIndex' = n + 1
        BY <1>9, <2>1 DEF NoOperand, n
      <3>2. Whole'
        BY <1>2, <3>1 DEF Whole, SizeOf
      <3>3. ~ (current'.type \in Products /\ opIndex' = 2)
        BY <1>2, <1>4, <3>1
      <3> QED
        BY <1>3, <1>5, <3>1, <3>2, <3>3
           DEF SuperInv, Continued, Sourceless, DestinationFirst
    <2>2. CASE ~ (throwAway < MaxThrowaway)
      <3>1. current' = Null /\ opIndex' = 1 /\ Null.type = "NOP"
        BY <1>9, <2>2 DEF NoOperand, Null
      <3>2. Whole'
        BY <1>6, <3>1 DEF Whole, SizeOf
      <3> QED
        BY <1>3, <1>6, <3>1, <3>2
           DEF SuperInv, Continued, Sourceless, DestinationFirst, Products
    <2> QED
      BY <2>1, <2>2
  <1>10. ASSUME NEW at \in Nat, Issue(new, k, at),
                (ins.type \in Products /\ k = 1 /\ NewParameter(ins)) => First(new.dst)
         PROVE  SuperInv'
    <2>1. /\ phase' = "fill" /\ cycle' = cycle /\ buffer' = buffer /\ slot' = slot + 1
          /\ opIndex' = k + 1 /\ current' = new
          /\ InfoOf[new.type].result # k => registers' = registers
      BY <1>10 DEF Issue
    <2>2. Sourceless'
      BY <1>5, <2>1 DEF Sourceless
    <2>3. Continued'
      <3>1. slot \in Nat /\ buffer \in 1 .. 6 /\ Len(Slots[buffer]) \in Nat
        <4>1. Len(Slots[buffer]) \in {3, 4}
          BY Buffers DEF SuperTypes
        <4> QED
          BY <4>1 DEF SuperTypes
      <3> SUFFICES ASSUME ~Whole'
                   PROVE  /\ new.type \in Products \cup {"IMUL_RCP"}
                          /\ \/ k + 1 = 2 /\ slot + 1 > Len(Slots[buffer])
                             \/ /\ k + 1 = 3 /\ buffer = 6 /\ slot + 1 = 2
                                /\ new.type \in Products
        BY <2>1 DEF Continued
      <3>2. k + 1 <= n
        BY <1>2, <2>1 DEF Whole, SizeOf
      <3>3. new.type \in Products \cup {"IMUL_RCP"}
        BY <1>2, <1>4, <3>2
      <3>4. CASE k = 1
        BY <1>2, <3>1, <3>3, <3>4
      <3>5. CASE k # 1
        <4>1. k = 2 /\ new.type \in Products
          BY <1>2, <1>4, <3>2, <3>3, <3>5
        <4> QED
          BY <1>2, <4>1
      <3> QED
        BY <3>4, <3>5
    <2>4. DestinationFirst'
      <3> SUFFICES ASSUME Fresh', new.type \in Products, k + 1 = 2
                   PROVE  /\ new.dst \in Registers
                          /\ \A r \in Registers :
                                \/ registers'[new.dst].latency <= cycle
                                \/ registers'[new.dst].latency <= registers'[r].latency
        BY <2>1 DEF DestinationFirst, First
      <3>1. k = 1 /\ registers' = registers
        BY <1>2, <1>4, <2>1
      <3>2. new.par = ins.par
        BY <1>1, <1>2 DEF Selected
      <3>3. NewParameter(ins)
        BY <1>2, <2>1, <3>1, <3>2 DEF Fresh, NewParameter
      <3> QED
        BY <1>2, <1>10, <3>1, <3>3 DEF First
    <2> QED
      BY <1>3, <2>2, <2>3, <2>4 DEF SuperInv
  <1> QED
    BY <1>1, <1>8, <1>9, <1>10

\* Every instruction but NOP has a macro-op.
LEMMA Sized ==
    ASSUME NEW ins \in Instruction, ins.type # "NOP"
    PROVE  1 \in 1 .. SizeOf(ins)
  <1> DEFINE n == Len(InfoOf[ins.type].ops)
  <1>1. ins.type \in Types
    BY DEF Instruction
  <1>2. CASE ins.type \in Products
    <2>1. n = 3
      BY <1>1, <1>2, Ops
    <2> QED
      BY <2>1 DEF SizeOf
  <1>3. CASE ins.type = "IMUL_RCP"
    <2>1. n = 2
      BY <1>1, <1>3, Ops
    <2> QED
      BY <2>1 DEF SizeOf
  <1>4. CASE ins.type \notin Products \cup {"IMUL_RCP"}
    <2>1. n = 1
      BY <1>1, <1>4, Ops
    <2> QED
      BY <2>1 DEF SizeOf
  <1> QED
    BY <1>2, <1>3, <1>4

\* The next macro-op of the instruction under way, at the place Continued says.
LEMMA ContinueStep == SuperInv /\ Continue => SuperInv'
  <1> SUFFICES ASSUME SuperInv, Continue PROVE SuperInv'
    OBVIOUS
  <1>1. /\ phase = "fill" /\ slot <= Len(Slots[buffer]) /\ ~Whole /\ Attempt(current, opIndex)
        /\ SuperTypes /\ current \in Instruction /\ current.type \in Types
    BY DEF Continue, SuperInv, SuperTypes, Instruction
  <1>2. opIndex \in 1 .. SizeOf(current)
    <2>1. Len(InfoOf[current.type].ops) \in Nat
      BY <1>1, Ops
    <2> QED
      BY <1>1, <2>1 DEF Whole, SizeOf, SuperTypes
  <1>3. Len(Slots[buffer]) \in Nat /\ slot \in Nat
    <2>1. Len(Slots[buffer]) \in {3, 4}
      BY <1>1, Buffers DEF SuperTypes
    <2> QED
      BY <1>1, <2>1 DEF SuperTypes
  <1>4. \/ /\ opIndex = 2 /\ slot = 1
           /\ buffer \in IF current.type \in Products THEN {6} ELSE {1, 4, 5}
        \/ opIndex = 3
    BY <1>1, <1>3 DEF SuperInv, Continued
  <1>5. opIndex # 1 /\ ((opIndex = 2 /\ current.type \in Products) => buffer = 6 /\ slot = 1)
    BY <1>4
  <1>6. (opIndex = 2 /\ current.type \in Products /\ NewParameter(current)) => First(current.dst)
    BY DEF SuperInv, DestinationFirst, Fresh
  <1>7. InfoOf[current.type].src = 0 => current.src = -1
    BY DEF SuperInv, Sourceless
  <1> QED
    BY <1>1, <1>2, <1>5, <1>6, <1>7, AttemptStep

\* The first macro-op of a new instruction.
LEMMA CreateStep == SuperInv /\ Create => SuperInv'
  <1> SUFFICES ASSUME SuperInv, Create PROVE SuperInv'
    OBVIOUS
  <1>1. PICK type \in TypesFor(Slots[buffer][slot], slot = Len(Slots[buffer])) :
            \E ins \in Created(type) : Attempt(ins, 1)
    BY DEF Create
  <1>2. PICK ins \in Created(type) : Attempt(ins, 1)
    BY <1>1
  <1>3. phase = "fill" /\ slot <= Len(Slots[buffer]) /\ SuperTypes
    BY DEF Create, SuperInv
  <1>4. /\ ins \in Instruction /\ ins.type = type /\ ins.src = -1 /\ type # "NOP"
        /\ type \in Products \cup {"IMUL_RCP"} => slot = Len(Slots[buffer])
    BY <1>3, Creation
  <1>5. 1 \in 1 .. SizeOf(ins)
    BY <1>4, Sized
  <1> QED
    BY <1>2, <1>3, <1>4, <1>5, AttemptStep

\* The buffer after a product or a reciprocal begins with the slots the rest needs.
LEMMA FetchStep == SuperInv /\ Fetch => SuperInv'
  <1> SUFFICES ASSUME SuperInv, Fetch PROVE SuperInv'
    OBVIOUS
  <1>1. /\ phase = "fetch" /\ SuperTypes
        /\ UNCHANGED <<cycle, depCycle, opIndex, current, registers, saturated>>
    BY DEF Fetch, SuperInv
  <1>2. \/ /\ ~saturated /\ buffer' \in FetchNext(current.type) /\ slot' = 1 /\ phase' = "fill"
        \/ phase' = "done" /\ buffer' = buffer /\ slot' = slot
    BY DEF Fetch
  <1>3. Sourceless' /\ DestinationFirst'
    BY <1>1 DEF SuperInv, Sourceless, DestinationFirst, Fresh, NewParameter, First
  <1>4. CASE phase' = "done"
    <2>1. buffer' = buffer /\ slot' = slot
      BY <1>2, <1>4
    <2> QED
      BY <1>1, <1>3, <1>4, <2>1 DEF SuperInv, SuperTypes, Continued
  <1>5. CASE /\ ~saturated /\ buffer' \in FetchNext(current.type) /\ slot' = 1
             /\ phase' = "fill"
    <2>1. /\ buffer' \in 1 .. 6
          /\ current.type \in Products => buffer' \in {6}
          /\ current.type = "IMUL_RCP" => buffer' \in {1, 4, 5}
      BY <1>5 DEF FetchNext, Products
    <2>2. SuperTypes'
      BY <1>1, <1>5, <2>1 DEF SuperTypes
    <2>3. Continued'
      <3> SUFFICES ASSUME ~Whole
                   PROVE  /\ current.type \in Products \cup {"IMUL_RCP"}
                          /\ \/ opIndex = 2 /\ slot' = 1 /\ buffer' \in
                                   IF current.type \in Products THEN {6} ELSE {1, 4, 5}
                             \/ opIndex = 3 /\ buffer' = 6 /\ slot' = 2
                                   /\ current.type \in Products
        BY <1>1, <1>5 DEF Continued, Whole
      <3>1. /\ current.type \in Products \cup {"IMUL_RCP"} /\ opIndex \in {2, 3}
        BY <1>1, <1>5 DEF SuperInv, Continued
      <3>2. opIndex = 2
        BY <1>1, <1>5 DEF SuperInv, Continued
      <3> QED
        BY <1>5, <2>1, <3>1, <3>2
    <2> QED
      BY <1>3, <2>2, <2>3 DEF SuperInv
  <1> QED
    BY <1>2, <1>4, <1>5

LEMMA SuperStep == SuperInv /\ [SuperNext]_superVars => SuperInv'
  <1> SUFFICES ASSUME SuperInv, [SuperNext]_superVars PROVE SuperInv'
    OBVIOUS
  <1>1. CASE EndOfBuffer
    <2>1. /\ phase = "fill" /\ phase' = "fetch" /\ cycle' = cycle + 0 + 1
          /\ UNCHANGED <<buffer, slot, current, opIndex, depCycle, registers, saturated>>
          /\ slot > Len(Slots[buffer]) \/ (Whole /\ (saturated \/ programSize >= MaxSize))
      BY <1>1 DEF EndOfBuffer, Leave
    <2>2. cycle \in Nat /\ slot \in Nat /\ Len(Slots[buffer]) \in Nat
          /\ ((slot = 2 /\ buffer = 6) => ~ (slot > Len(Slots[buffer])))
          /\ (slot = 1 => ~ (slot > Len(Slots[buffer])))
      <3>1. buffer \in 1 .. 6 /\ cycle \in Nat /\ slot \in Nat
        BY DEF SuperInv, SuperTypes
      <3> DEFINE n == Len(Slots[buffer])
      <3>2. n = 3 \/ n = 4
        BY <3>1, Buffers
      <3> HIDE DEF n
      <3>3. n \in Nat /\ (slot = 2 => ~ (slot > n)) /\ (slot = 1 => ~ (slot > n))
        BY <3>1, <3>2
      <3> QED
        BY <3>1, <3>3 DEF n
    <2>3. SuperTypes' /\ Sourceless'
      BY <2>1, <2>2 DEF SuperInv, SuperTypes, Sourceless
    <2>4. Continued'
      <3> SUFFICES ASSUME ~Whole PROVE current.type \in Products \cup {"IMUL_RCP"} /\ opIndex = 2
        BY <2>1 DEF Continued, Whole
      <3> QED
        BY <2>1, <2>2 DEF SuperInv, Continued
    <2>5. DestinationFirst'
      <3>1. \A r \in Registers : registers[r].latency \in Nat
        BY DEF SuperInv, SuperTypes
      <3> QED
        BY <2>1, <2>2, <3>1 DEF SuperInv, DestinationFirst, Fresh, NewParameter, First
    <2> QED
      BY <2>3, <2>4, <2>5 DEF SuperInv
  <1>2. CASE UNCHANGED superVars
    BY <1>2 DEF superVars, SuperInv, SuperTypes, Continued, Whole, Sourceless,
                DestinationFirst, Fresh, NewParameter, First
  <1> QED
    BY <1>1, <1>2, FetchStep, ContinueStep, CreateStep DEF SuperNext

\* An attempt changes a register only when its operands are ready.
LEMMA AttemptReady ==
    ASSUME SuperTypes, NEW ins \in Instruction, NEW k \in 1 .. SizeOf(ins), Attempt(ins, k),
           InfoOf[ins.type].src = 0 => ins.src = -1,
           (k = 2 /\ ins.type \in Products) => First(ins.dst),
           NEW r \in Registers, registers'[r] # registers[r]
    PROVE  LET start == registers'[r].latency
                          - InfoOf[current'.type].ops[opIndex' - 1].latency
           IN  /\ registers[r].latency <= start
               /\ current'.src # -1 => registers[current'.src].latency <= start
  <1>1. PICK new, waited :
              /\ Selected(ins, k, new)
              /\ \/ NoPort(new, k, waited)
                 \/ NoOperand(new, waited)
                 \/ \E at \in Nat : Issue(new, k, at) /\ at >= cycle /\ InTime(ins, k, new, at)
    BY Attempts
  <1>2. PICK at \in Nat : Issue(new, k, at) /\ at >= cycle /\ InTime(ins, k, new, at)
    BY <1>1 DEF NoPort, NoOperand
  <1>3. /\ new \in Instruction /\ new.type \in Types /\ new.type = ins.type
        /\ InfoOf[ins.type].src # k => new.src = ins.src
        /\ InfoOf[ins.type].dst # k => new.dst = ins.dst
    BY <1>1 DEF Selected, Instruction
  <1>4. k \in Nat \ {0} /\ k \in 1 .. Len(InfoOf[ins.type].ops)
    <2>1. Len(InfoOf[ins.type].ops) \in Nat
      BY <1>3, Ops
    <2> QED
      BY <2>1 DEF SizeOf
  <1> DEFINE latency == InfoOf[ins.type].ops[k].latency
  <1>5. latency \in Nat
    BY <1>3, <1>4, Ops
  <1>6. /\ depCycle' = at + latency /\ current' = new /\ opIndex' = k + 1
        /\ k = InfoOf[ins.type].result
        /\ registers' = [registers EXCEPT ![new.dst] =
                            [latency |-> depCycle', group |-> GroupOf(new.type),
                             par |-> new.par]]
    BY <1>2, <1>3 DEF Issue
  <1>7. r = new.dst /\ registers'[r].latency = at + latency
    BY <1>6 DEF SuperTypes
  <1>8. registers'[r].latency - InfoOf[current'.type].ops[opIndex' - 1].latency = at
    <2>1. InfoOf[current'.type].ops[opIndex' - 1].latency = latency
      <3>1. k + 1 - 1 = k
        BY <1>4
      <3> QED
        BY <1>3, <1>6, <3>1
    <2> HIDE DEF latency
    <2> QED
      BY <1>5, <1>7, <2>1
  <1>9. cycle \in Nat /\ \A q \in Registers : registers[q].latency \in Nat
    BY DEF SuperTypes
  <1>10. CASE ins.type \in Products
    <2>1. k = 2 /\ InfoOf[ins.type].src = k /\ InfoOf[ins.type].dst = 1
      BY <1>3, <1>6, <1>10, Ops
    <2>2. First(new.dst) /\ new.src \in Registers /\ registers[new.src].latency <= at
      BY <1>2, <1>3, <1>10, <2>1 DEF InTime
    <2>3. registers[new.dst].latency <= at
      BY <1>2, <1>9, <2>2 DEF First
    <2> QED
      BY <1>6, <1>7, <1>8, <2>2, <2>3
  <1>11. CASE ins.type \notin Products
    <2>1. InfoOf[ins.type].dst = k /\ (InfoOf[ins.type].src # k => InfoOf[ins.type].src = 0)
      <3>1. CASE ins.type = "IMUL_RCP"
        BY <1>3, <1>6, <3>1, Ops
      <3>2. CASE ins.type = "NOP"
        <4>1. Len(InfoOf[ins.type].ops) = 0
          BY <1>3, <3>2, Ops
        <4> QED
          BY <1>4, <4>1
      <3>3. CASE ins.type \notin {"IMUL_RCP", "NOP"}
        BY <1>3, <1>6, <1>11, <3>3, Ops
      <3> QED
        BY <3>1, <3>2, <3>3
    <2>2. registers[new.dst].latency <= at
      BY <1>2, <2>1 DEF InTime
    <2>3. new.src # -1 => registers[new.src].latency <= at
      BY <1>2, <1>3, <2>1 DEF InTime
    <2> QED
      BY <1>6, <1>7, <1>8, <2>2, <2>3
  <1> QED
    BY <1>10, <1>11

\* The body of OperandsReady.
ReadyStep ==
    \A r \in Registers :
       registers'[r] # registers[r] =>
         LET start == registers'[r].latency
                        - InfoOf[current'.type].ops[opIndex' - 1].latency
         IN  /\ registers[r].latency <= start
             /\ current'.src # -1 => registers[current'.src].latency <= start

\* Only an issued macro-op that writes a result changes a register.
LEMMA NextReady == SuperInv /\ Fresh /\ SuperNext => ReadyStep
  <1> SUFFICES ASSUME SuperInv, Fresh, SuperNext, NEW r \in Registers,
                      registers'[r] # registers[r]
               PROVE  LET start == registers'[r].latency
                                     - InfoOf[current'.type].ops[opIndex' - 1].latency
                      IN  /\ registers[r].latency <= start
                          /\ current'.src # -1 => registers[current'.src].latency <= start
    BY DEF ReadyStep
  <1>1. CASE Fetch \/ EndOfBuffer
    BY <1>1 DEF Fetch, EndOfBuffer
  <1>2. CASE Continue
    <2>1. Attempt(current, opIndex) /\ ~Whole /\ SuperTypes
          /\ current \in Instruction /\ current.type \in Types
      BY <1>2 DEF Continue, SuperInv, SuperTypes, Instruction
    <2>2. opIndex \in 1 .. SizeOf(current)
      <3>1. Len(InfoOf[current.type].ops) \in Nat
        BY <2>1, Ops
      <3> QED
        BY <2>1, <3>1 DEF Whole, SizeOf, SuperTypes
    <2>3. InfoOf[current.type].src = 0 => current.src = -1
      BY DEF SuperInv, Sourceless
    <2>4. (opIndex = 2 /\ current.type \in Products) => First(current.dst)
      BY DEF SuperInv, DestinationFirst
    <2> QED
      BY <2>1, <2>2, <2>3, <2>4, AttemptReady
  <1>3. CASE Create
    <2>1. PICK type \in TypesFor(Slots[buffer][slot], slot = Len(Slots[buffer])) :
              \E ins \in Created(type) : Attempt(ins, 1)
      BY <1>3 DEF Create
    <2>2. PICK ins \in Created(type) : Attempt(ins, 1)
      BY <2>1
    <2>3. slot <= Len(Slots[buffer]) /\ SuperTypes
      BY <1>3 DEF Create, SuperInv
    <2>4. ins \in Instruction /\ ins.type = type /\ ins.src = -1 /\ type # "NOP"
      BY <2>3, Creation
    <2>5. 1 \in 1 .. SizeOf(ins)
      BY <2>4, Sized
    <2> QED
      BY <2>2, <2>3, <2>4, <2>5, AttemptReady
  <1> QED
    BY <1>1, <1>2, <1>3 DEF SuperNext

\* generateSuperscalar issues an instruction when its source and its destination are ready,
\* provided that no two products of one kind that meet draw the same 32-bit parameter: then
\* selectDestination excludes no register for a product, and its destination, selected a
\* macro-op before its source, is the first register available.
THEOREM OperandsInTime == SuperSpec /\ []Fresh => OperandsReady
  <1>1. SuperSpec => []SuperInv
    BY SuperInitially, SuperStep, PTL DEF SuperSpec
  <1>2. SuperInv /\ Fresh /\ [SuperNext]_superVars => [ReadyStep]_superVars
    BY NextReady
  <1>3. OperandsReady <=> [][ReadyStep]_superVars
    BY DEF OperandsReady, ReadyStep
  <1> QED
    BY <1>1, <1>2, <1>3, PTL DEF SuperSpec

\* Whatever fetchNext chooses, what is left of an instruction when its buffer ends finds a slot
\* of its size in the next one, so that generateSuperscalar need not compare sizes there.
THEOREM SlotsFit == SuperSpec => []SlotFits
  <1>1. SuperSpec => []SuperInv
    BY SuperInitially, SuperStep, PTL DEF SuperSpec
  <1>2. SuperInv => SlotFits
    <2> SUFFICES ASSUME SuperInv, phase = "fill", slot <= Len(Slots[buffer]), ~Whole
                 PROVE  InfoOf[current.type].ops[opIndex].size = Slots[buffer][slot]
      BY DEF SlotFits
    <2>1. current.type \in Types /\ buffer \in 1 .. 6
      BY DEF SuperInv, SuperTypes, Instruction
    <2>2. ~ (slot > Len(Slots[buffer]))
      <3>1. Len(Slots[buffer]) \in {3, 4} /\ slot \in Nat
        BY <2>1, Buffers DEF SuperInv, SuperTypes
      <3> QED
        BY <3>1
    <2>3. \/ /\ opIndex = 2 /\ slot = 1 /\ current.type \in Products /\ buffer = 6
          \/ /\ opIndex = 2 /\ slot = 1 /\ current.type = "IMUL_RCP" /\ buffer \in {1, 4, 5}
          \/ /\ opIndex = 3 /\ slot = 2 /\ current.type \in Products /\ buffer = 6
      BY <2>2 DEF SuperInv, Continued, Products
    <2>4. CASE current.type \in Products /\ buffer = 6
      <3>1. Slots[buffer][1] = 3 /\ Slots[buffer][2] = 3
        BY <2>1, <2>4, Buffers
      <3>2. InfoOf[current.type].ops[2].size = 3 /\ InfoOf[current.type].ops[3].size = 3
        BY <2>1, <2>4, Ops
      <3> QED
        BY <2>3, <2>4, <3>1, <3>2 DEF Products
    <2>5. CASE opIndex = 2 /\ slot = 1 /\ current.type = "IMUL_RCP" /\ buffer \in {1, 4, 5}
      <3>1. Slots[buffer][1] = 4
        BY <2>1, <2>5, Buffers
      <3>2. InfoOf[current.type].ops[2].size = 4
        BY <2>1, <2>5, Ops
      <3> QED
        BY <2>5, <3>1, <3>2
    <2> QED
      BY <2>3, <2>4, <2>5
  <1> QED
    BY <1>1, <1>2, PTL

=============================================================================
