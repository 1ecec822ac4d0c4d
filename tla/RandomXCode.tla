---------------------------- MODULE RandomXCode ----------------------------
(***************************************************************************)
(* A RandomX program is executed by the interpreter or compiled for x86-64 *)
(* or AArch64, and every machine must compute the same hash.  Two things   *)
(* are decided while the instructions are translated one by one: where     *)
(* CBRANCH jumps to (behind the last instruction that modified its         *)
(* register, or behind the last branch), and which CFROUND the x86         *)
(* compiler erases, since another one follows before the mode is used.     *)
(*                                                                         *)
(* The three generators translate the same program in lock step; then the  *)
(* program runs, with branches that are taken or not.  Instructions are    *)
(* numbered from 1, and 0 stands for the place before the first (the       *)
(* interpreter's -1).  Positions are code addresses, so that the encoded   *)
(* displacement and the padding in front of a branch are part of the       *)
(* model.  The result of an instruction is left out, only which integer    *)
(* registers it writes matters.                                            *)
(***************************************************************************)
EXTENDS Integers, Sequences

CONSTANTS
    Reg,           \* the integer registers
    Instructions,  \* what a program is made of
    ProgramSize,   \* RandomX_CurrentConfig.ProgramSize
    FirstPos,      \* where the generated code begins, not 0
    CodeLine,      \* code is aligned so that no branch crosses a line (32)
    ShortJump,     \* reach of the short form of a jump (128)
    Bytes,         \* [kind of instruction -> size of its x86 code]
    Words          \* [kind of instruction -> size of its AArch64 code]

Kinds == {"arith", "rcp", "bits", "swap", "float", "cfround", "cbranch", "other"}

CodeAssumption ==
    /\ ProgramSize \in Nat
    /\ FirstPos \in Nat \ {0}
    /\ CodeLine \in Nat \ {0}
    /\ ShortJump \in Nat
    /\ Instructions \subseteq
         [op : Kinds, dst : Reg, src : Reg, pow2 : BOOLEAN]
    /\ Bytes \in [Kinds -> Nat \ {0}]
    /\ Words \in [Kinds -> Nat \ {0}]

ASSUME CodeAssumption

VARIABLES
    program,   \* the instructions translated so far
    targets,   \* the interpreter's ibc.target of each
    usage,     \* its registerUsage
    x86,       \* state and output of the x86 compiler
    a64,       \* state and output of the AArch64 compiler
    pc,        \* 0 while translating, then the instruction to execute
    mode,      \* the CFROUND that set the rounding mode in the interpreter
    modeX86    \* the one that did in the x86 code

codeVars == <<program, targets, usage, x86, a64, pc, mode, modeX86>>

(***************************************************************************)
(* What an instruction writes when it is executed (exe_... of the          *)
(* bytecode machine).  IMUL_RCP of zero or a power of two and ISWAP_R of a *)
(* register with itself are translated to nothing.                         *)
(***************************************************************************)
ExeWrites(ins) ==
    {r \in Reg :
        \/ ins.op \in {"arith", "bits", "cbranch"} /\ r = ins.dst
        \/ ins.op = "rcp" /\ ~ins.pow2 /\ r = ins.dst
        \/ ins.op = "swap" /\ r \in {ins.dst, ins.src} /\ ins.src # ins.dst}

-----------------------------------------------------------------------------
(***************************************************************************)
(* The registers each generator marks as used by an instruction.           *)
(***************************************************************************)
InterpArith(ins) == {r \in Reg : ins.op = "arith" /\ r = ins.dst}

InterpRcp(ins) == {r \in Reg : ins.op = "rcp" /\ ~ins.pow2 /\ r = ins.dst}

InterpBits(ins) == {r \in Reg : ins.op = "bits" /\ r = ins.dst}

InterpSwap(ins) ==
    {r \in Reg : ins.op = "swap" /\ ins.src # ins.dst /\ r \in {ins.dst, ins.src}}

InterpBranch(ins) == {r \in Reg : ins.op = "cbranch"}

InterpMarks(ins) ==
    InterpArith(ins) \cup InterpRcp(ins) \cup InterpBits(ins)
        \cup InterpSwap(ins) \cup InterpBranch(ins)

X86Arith(ins) == {r \in Reg : ins.op = "arith" /\ r = ins.dst}

X86Rcp(ins) == {r \in Reg : ins.op = "rcp" /\ ~ins.pow2 /\ r = ins.dst}

X86Bits(ins) == {r \in Reg : ins.op = "bits" /\ r = ins.dst}

X86Swap(ins) ==
    {r \in Reg : ins.op = "swap" /\ ins.src # ins.dst /\ r \in {ins.dst, ins.src}}

X86Marks(ins) ==
    X86Arith(ins) \cup X86Rcp(ins) \cup X86Bits(ins) \cup X86Swap(ins)

A64Arith(ins) == {r \in Reg : ins.op = "arith" /\ r = ins.dst}

A64Rcp(ins) == {r \in Reg : ins.op = "rcp" /\ ~ins.pow2 /\ r = ins.dst}

A64Bits(ins) == {r \in Reg : ins.op = "bits" /\ r = ins.dst}

\* Mutation of A64Swap: only the destination is marked.
A64SwapDestination(ins) == {r \in Reg : ins.op = "swap" /\ r = ins.dst}

A64Swap(ins) ==
    {r \in Reg : ins.op = "swap" /\ ins.src # ins.dst /\ r \in {ins.dst, ins.src}}

A64Marks(ins) ==
    A64Arith(ins) \cup A64Rcp(ins) \cup A64Bits(ins) \cup A64Swap(ins)

Marked(use, regs, at) == [r \in Reg |-> IF r \in regs THEN at ELSE use[r]]

\* Nothing is emitted for these.
Empty(ins) ==
    \/ ins.op = "rcp" /\ ins.pow2
    \/ ins.op = "swap" /\ ins.src = ins.dst

-----------------------------------------------------------------------------
(***************************************************************************)
(* The x86 compiler.  Its output is, for each instruction, where its code  *)
(* begins and, for a branch, where the encoded displacement leads.         *)
(***************************************************************************)
X86Begin ==
    [pos |-> FirstPos, use |-> [r \in Reg |-> FirstPos], prev |-> 0,
     out |-> <<>>, erased |-> {}]

\* A branch that would cross or touch the end of a line is moved behind it.
Padding(pos, offset) ==
    LET begin == pos + 7
        end   == begin + IF offset >= -ShortJump THEN 9 ELSE 13
    IN  IF begin \div CodeLine # end \div CodeLine THEN CodeLine - (begin % CodeLine) ELSE 0

X86Branch(c, ins) ==
    LET wanted == c.use[ins.dst] - (c.pos + 16)
        pad    == Padding(c.pos, wanted)
        offset == wanted - pad
        short  == offset >= -ShortJump
        end    == c.pos + pad + 14 + IF short THEN 2 ELSE 6
        coded  == IF short THEN offset ELSE offset - 4
    IN  [pos    |-> end,
         use    |-> [r \in Reg |-> end],
         prev   |-> 0,
         out    |-> Append(c.out, [at |-> c.pos, lands |-> end + coded]),
         erased |-> c.erased]

\* The CFROUND before this one is overwritten with NOPs when no instruction
\* that depends on the mode and no branch came in between.
X86Round(c, ins) ==
    [pos    |-> c.pos + Bytes[ins.op],
     use    |-> c.use,
     prev   |-> c.pos,
     out    |-> Append(c.out, [at |-> c.pos, lands |-> 0]),
     erased |-> IF c.prev = 0 THEN c.erased ELSE c.erased \cup {c.prev}]

X86Plain(c, ins) ==
    LET end == c.pos + IF Empty(ins) THEN 0 ELSE Bytes[ins.op]
    IN  [pos    |-> end,
         use    |-> Marked(c.use, X86Marks(ins), end),
         prev   |-> IF ins.op = "float" THEN 0 ELSE c.prev,
         out    |-> Append(c.out, [at |-> c.pos, lands |-> 0]),
         erased |-> c.erased]

X86Compile(c, ins) ==
    CASE ins.op = "cbranch" -> X86Branch(c, ins)
      [] ins.op = "cfround" -> X86Round(c, ins)
      [] OTHER              -> X86Plain(c, ins)

(***************************************************************************)
(* The AArch64 compiler: the last word of a branch is the jump, relative   *)
(* to its own address, in words.  CFROUND is always kept.                  *)
(***************************************************************************)
A64Begin ==
    [pos |-> FirstPos, use |-> [r \in Reg |-> FirstPos], out |-> <<>>]

A64Branch(c, ins) ==
    LET jump   == c.pos + Words[ins.op] - 1
        offset == c.use[ins.dst] - jump
    IN  [pos |-> jump + 1,
         use |-> [r \in Reg |-> jump + 1],
         out |-> Append(c.out, [at |-> c.pos, lands |-> jump + offset])]

A64Compile(c, ins) ==
    LET end == c.pos + IF Empty(ins) THEN 0 ELSE Words[ins.op]
    IN  IF ins.op = "cbranch" THEN A64Branch(c, ins)
        ELSE [pos |-> end,
              use |-> Marked(c.use, A64Marks(ins), end),
              out |-> Append(c.out, [at |-> c.pos, lands |-> 0])]

-----------------------------------------------------------------------------
CodeInit ==
    /\ program = <<>> /\ targets = <<>>
    /\ usage = [r \in Reg |-> 0]
    /\ x86 = X86Begin /\ a64 = A64Begin
    /\ pc = 0 /\ mode = 0 /\ modeX86 = 0

\* compileInstruction, and the handlers h_... of both compilers.
Translate(ins) ==
    /\ pc = 0 /\ Len(program) < ProgramSize
    /\ program' = Append(program, ins)
    /\ targets' = Append(targets, usage[ins.dst])
    /\ usage' = Marked(usage, InterpMarks(ins), Len(program) + 1)
    /\ x86' = X86Compile(x86, ins)
    /\ a64' = A64Compile(a64, ins)
    /\ UNCHANGED <<pc, mode, modeX86>>

\* executeBytecode begins (again, for each of the program's iterations).
Run ==
    /\ Len(program) = ProgramSize /\ pc \in {0, ProgramSize + 1}
    /\ pc' = 1
    /\ UNCHANGED <<program, targets, usage, x86, a64, mode, modeX86>>

Execute ==
    /\ pc \in 1 .. ProgramSize
    /\ LET ins == program[pc] IN
        /\ \/ pc' = pc + 1
           \/ ins.op = "cbranch" /\ pc' = targets[pc] + 1
        /\ mode' = IF ins.op = "cfround" THEN pc ELSE mode
        /\ modeX86' = IF ins.op = "cfround" /\ x86.out[pc].at \notin x86.erased
                        THEN pc ELSE modeX86
    /\ UNCHANGED <<program, targets, usage, x86, a64>>

CodeNext == (\E ins \in Instructions : Translate(ins)) \/ Run \/ Execute

CodeSpec == CodeInit /\ [][CodeNext]_codeVars

-----------------------------------------------------------------------------
Branches == {i \in 1 .. Len(program) : program[i].op = "cbranch"}

\* The instructions a branch repeats, without itself.
Loop(b) == {i \in 1 .. Len(program) : targets[b] < i /\ i < b}

\* The loop of a branch contains no other branch, and nothing in it modifies
\* the register the branch tests (registerUsage in the bytecode machine):
\* else a program could run for a long time, or for ever.
LoopsApart ==
    \A b \in Branches :
        /\ Loop(b) \cap Branches = {}
        /\ \A i \in Loop(b) : program[b].dst \notin ExeWrites(program[i])

\* Where the code of instruction i begins.
StartOf(c, i) == IF i <= Len(c.out) THEN c.out[i].at ELSE c.pos

\* The displacements both compilers encode lead to the instruction at which the
\* interpreter goes on, with padding and the long form of the jump in x86.
JumpsAgree ==
    \A b \in Branches :
        /\ x86.out[b].lands = StartOf(x86, targets[b] + 1)
        /\ a64.out[b].lands = StartOf(a64, targets[b] + 1)

\* An instruction that depends on the rounding mode finds in the x86 code the mode
\* it has in the interpreter: no CFROUND was erased that some path still needs.
RoundingAgrees ==
    pc \in 1 .. Len(program) /\ program[pc].op = "float" => mode = modeX86

\* The machines agree on what a program does, and no loop of it can be long.
CodeAgrees == LoopsApart /\ JumpsAgree /\ RoundingAgrees

=============================================================================
