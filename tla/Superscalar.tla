---------------------------- MODULE Superscalar ----------------------------
(***************************************************************************)
(* generateSuperscalar: the programs that compute dataset items.  A        *)
(* simplified processor is simulated, in which 16 bytes of code are        *)
(* decoded per cycle into slots of given sizes and the operations of an    *)
(* instruction wait for a port and for their operands, so that the program *)
(* keeps a real processor busy.  The random generator is a choice here;    *)
(* immediates and the other data of an instruction are left out, and of    *)
(* the program itself only its length is kept.                             *)
(***************************************************************************)
EXTENDS Integers, Sequences, FiniteSets

CONSTANTS
    Registers,      \* 0 .. 7 in the code
    Displaced,      \* RegisterNeedsDisplacement, no destination of IADD_RS
    Latency,        \* RandomX_CurrentConfig.SuperscalarLatency
    LookForward,    \* LOOK_FORWARD_CYCLES
    MaxThrowaway,   \* MAX_THROWAWAY_COUNT
    RandomPars      \* values of a random opGroupPar

\* Both are numbers of cycles.
ASSUME SuperAssumption == Latency \in Nat /\ LookForward \in Nat

VARIABLES
    phase,       \* "fetch", "fill" or "done"
    cycle, decodeCycle,
    buffer,      \* index of the decode buffer
    slot,        \* bufferIndex, from 1
    current,     \* the current instruction
    opIndex,     \* macroOpIndex, from 1: the next of its macro-ops
    depCycle,    \* when the result of the last macro-op is ready
    busy,        \* portBusy: pairs of a cycle and a port
    registers,   \* RegisterInfo of each register
    saturated, programSize, mulCount, throwAway

superVars == <<phase, cycle, decodeCycle, buffer, slot, current, opIndex, depCycle,
               busy, registers, saturated, programSize, mulCount, throwAway>>

-----------------------------------------------------------------------------
\* A macro-op: its size, latency, and for each of its micro-ops the ports.
Mop(size, latency, uops, dependent) ==
    [size |-> size, latency |-> latency, uops |-> uops, dependent |-> dependent]

Arith_rr == Mop(3, 1, {{0, 1, 5}}, FALSE)           \* Sub_rr, Xor_rr
Arith_ri == Mop(7, 1, {{0, 1, 5}}, FALSE)           \* Add_ri, Xor_ri
Lea_sib  == Mop(4, 1, {{0, 1}}, FALSE)
Ror_ri   == Mop(4, 1, {{0, 5}}, FALSE)
Imul_rr  == Mop(4, 3, {{1}}, FALSE)
Mul_r    == Mop(3, 4, {{1}, {5}}, FALSE)            \* and Imul_r
Mov_rr   == Mop(3, 0, {}, FALSE)
Mov_ri64 == Mop(10, 1, {{0, 1, 5}}, FALSE)

\* An instruction: its macro-ops and which of them (0: none) writes the result,
\* needs the destination and needs the source.  The constants of IADD and IXOR have
\* three lengths that differ in the padding of the slot only.
Info(ops, result, dst, src) ==
    [ops |-> ops, result |-> result, dst |-> dst, src |-> src]

InfoOf ==
    [ISUB_R   |-> Info(<<Arith_rr>>, 1, 1, 1),
     IXOR_R   |-> Info(<<Arith_rr>>, 1, 1, 1),
     IADD_RS  |-> Info(<<Lea_sib>>, 1, 1, 1),
     IMUL_R   |-> Info(<<Imul_rr>>, 1, 1, 1),
     IROR_C   |-> Info(<<Ror_ri>>, 1, 1, 0),
     IADD_C   |-> Info(<<Arith_ri>>, 1, 1, 0),
     IXOR_C   |-> Info(<<Arith_ri>>, 1, 1, 0),
     IMULH_R  |-> Info(<<Mov_rr, Mul_r, Mov_rr>>, 2, 1, 2),
     ISMULH_R |-> Info(<<Mov_rr, Mul_r, Mov_rr>>, 2, 1, 2),
     IMUL_RCP |-> Info(<<Mov_ri64, [Imul_rr EXCEPT !.dependent = TRUE]>>, 2, 2, 0),
     NOP      |-> Info(<<>>, 1, 1, 1)]

SizeOf(ins) == Len(InfoOf[ins.type].ops)

IsMultiplication(type) == type \in {"IMUL_R", "IMULH_R", "ISMULH_R", "IMUL_RCP"}

Null == [type |-> "NOP", src |-> -1, dst |-> -1, par |-> 0]

\* opGroup: instructions that could be merged when applied twice.
GroupOf(type) == IF type = "ISUB_R" THEN "IADD_RS" ELSE type

Slots == <<  <<4, 8, 4>>, <<7, 3, 3, 3>>, <<3, 7, 3, 3>>, <<4, 9, 3>>,
             <<4, 4, 4, 4>>, <<3, 3, 10>>  >>

\* fetchNext: the decode buffers (by their place in Slots) that may come next.
FetchNext(type) ==
    IF type \in {"IMULH_R", "ISMULH_R"} THEN {6}
    ELSE IF mulCount < decodeCycle + 1 THEN {5}
    ELSE IF type = "IMUL_RCP" THEN {1, 4}
    ELSE 1 .. 4

\* createForSlot: instructions whose first macro-op fits into a slot.
TypesFor(size, isLast) ==
    CASE size = 3 -> {"ISUB_R", "IXOR_R"}
                       \cup (IF isLast THEN {"IMULH_R", "ISMULH_R"} ELSE {})
      [] size = 4 -> IF buffer = 5 /\ ~isLast THEN {"IMUL_R"} ELSE {"IROR_C", "IADD_RS"}
      [] size \in 7 .. 9 -> {"IADD_C", "IXOR_C"}
      [] size = 10 -> {"IMUL_RCP"}

\* create: the parameter of a constant is -1, of a full product random; the source
\* register becomes the parameter of the others once it is selected.
Created(type) ==
    {[Null EXCEPT !.type = type, !.par = p] :
        p \in IF type \in {"IMULH_R", "ISMULH_R"} THEN RandomPars
              ELSE IF InfoOf[type].src = 0 THEN {-1} ELSE {0}}

-----------------------------------------------------------------------------
Limit == Latency + 4

Earliest(S) == IF S = {} THEN -1 ELSE CHOOSE c \in S : \A d \in S : c <= d

FreePorts(ports, c) == {p \in ports : <<c, p>> \notin busy}

\* scheduleMop: the first cycle at which all micro-ops find a free port.
Schedule(mop, from, dep) ==
    LET start == IF mop.dependent /\ dep > from THEN dep ELSE from
    IN  IF mop.uops = {} THEN start
        ELSE Earliest({c \in start .. Limit - 1 :
                          \A ports \in mop.uops : FreePorts(ports, c) # {}})

\* scheduleUop tries P5, then P0, then P1.
Preferred(S) == IF 5 \in S THEN 5 ELSE IF 0 \in S THEN 0 ELSE 1

Occupied(mop, c) == {<<c, Preferred(FreePorts(ports, c))>> : ports \in mop.uops}

Ready(c) == {r \in Registers : registers[r].latency <= c}

\* selectSource
Sources(ins, c) ==
    IF ins.type = "IADD_RS" /\ Cardinality(Ready(c)) = 2 /\ Displaced \in Ready(c)
      THEN {Displaced} ELSE Ready(c)

\* selectDestination
Destinations(ins, c) ==
    {r \in Ready(c) :
        /\ r # ins.src \/ ins.type \in {"IMULH_R", "ISMULH_R"}
        /\ throwAway > 0 \/ ins.type # "IMUL_R" \/ registers[r].group # "IMUL_R"
        /\ registers[r].group # GroupOf(ins.type) \/ registers[r].par # ins.par
        /\ ins.type # "IADD_RS" \/ r # Displaced}

\* The number of cycles to wait until one of a set of registers is available:
\* choices[w] are those available after w cycles.
Wait(choices) ==
    Earliest({w \in 0 .. LookForward - 1 : choices[w] # {}})

\* Macro-op k of an instruction with the source it needs, if it needs one: all
\* outcomes with the cycles waited, none if no register becomes ready in time.
WithSource(ins, k, at) ==
    LET choices == [w \in 0 .. LookForward - 1 |-> Sources(ins, at + w)]
        wait    == Wait(choices)
    IN  IF InfoOf[ins.type].src # k THEN {[ins |-> ins, wait |-> 0]}
        ELSE IF wait = -1 THEN {}
        ELSE {[ins  |-> [ins EXCEPT !.src = r,
                           !.par = IF ins.type \in {"IMULH_R", "ISMULH_R"} THEN @ ELSE r],
               wait |-> wait] : r \in choices[wait]}

WithDestination(ins, k, at) ==
    LET choices == [w \in 0 .. LookForward - 1 |-> Destinations(ins, at + w)]
        wait    == Wait(choices)
    IN  IF InfoOf[ins.type].dst # k THEN {[ins |-> ins, wait |-> 0]}
        ELSE IF wait = -1 THEN {}
        ELSE {[ins |-> [ins EXCEPT !.dst = r], wait |-> wait] : r \in choices[wait]}

-----------------------------------------------------------------------------
SuperInit ==
    /\ phase = "fetch" /\ cycle = 0 /\ decodeCycle = 0 /\ buffer = 1 /\ slot = 1
    /\ current = Null /\ opIndex = 1 /\ depCycle = 0 /\ busy = {}
    /\ registers = [r \in Registers |-> [latency |-> 0, group |-> "NOP", par |-> -1]]
    /\ saturated = FALSE /\ programSize = 0 /\ mulCount = 0 /\ throwAway = 0

MaxSize == 3 * Latency + 2

\* A new decode cycle, as long as there is room in the program and on the ports.
Fetch ==
    /\ phase = "fetch"
    /\ IF decodeCycle < Latency /\ ~saturated /\ programSize < MaxSize
         THEN /\ buffer' \in FetchNext(current.type)
              /\ slot' = 1 /\ phase' = "fill"
         ELSE /\ phase' = "done"
              /\ UNCHANGED <<buffer, slot>>
    /\ UNCHANGED <<cycle, decodeCycle, current, opIndex, depCycle, busy, registers,
                   saturated, programSize, mulCount, throwAway>>

\* The decode buffer is left, with some cycles waited in vain.
Leave(waited) ==
    /\ phase' = "fetch"
    /\ cycle' = cycle + waited + 1 /\ decodeCycle' = decodeCycle + 1
    /\ UNCHANGED <<buffer, slot>>

Whole == opIndex > SizeOf(current)   \* the current instruction is complete

EndOfBuffer ==
    /\ phase = "fill"
    /\ \/ slot > Len(Slots[buffer])
       \/ Whole /\ (saturated \/ programSize >= MaxSize)
    /\ Leave(0)
    /\ UNCHANGED <<current, opIndex, depCycle, busy, registers, saturated,
                   programSize, mulCount, throwAway>>

\* No port is free for macro-op k in the cycles that are simulated.
NoPort(ins, k, waited) ==
    /\ saturated' = TRUE
    /\ current' = ins /\ opIndex' = k
    /\ Leave(waited)
    /\ UNCHANGED <<depCycle, busy, registers, programSize, mulCount>>

\* No operand is ready in time: another instruction is tried, or the buffer is
\* given up when that was done too often.
NoOperand(ins, waited) ==
    /\ IF throwAway < MaxThrowaway
         THEN /\ throwAway' = throwAway + 1
              /\ current' = ins /\ opIndex' = SizeOf(ins) + 1
              /\ cycle' = cycle + waited
              /\ UNCHANGED <<phase, decodeCycle, buffer, slot>>
         ELSE /\ current' = Null /\ opIndex' = 1
              /\ Leave(waited)
              /\ UNCHANGED throwAway
    /\ UNCHANGED <<depCycle, busy, registers, saturated, programSize, mulCount>>

\* Macro-op k is issued at a cycle; the last one completes the instruction.
Issue(ins, k, at) ==
    LET mop  == InfoOf[ins.type].ops[k]
        last == k = SizeOf(ins)
    IN  /\ busy' = busy \cup Occupied(mop, at)
        /\ depCycle' = at + mop.latency
        /\ registers' = IF k # InfoOf[ins.type].result THEN registers
                        ELSE [registers EXCEPT ![ins.dst] =
                                [latency |-> depCycle', group |-> GroupOf(ins.type),
                                 par |-> ins.par]]
        /\ current' = ins /\ opIndex' = k + 1 /\ slot' = slot + 1
        /\ saturated' = (saturated \/ at >= Latency)
        /\ programSize' = programSize + IF last THEN 1 ELSE 0
        /\ mulCount' = mulCount + IF last /\ IsMultiplication(ins.type) THEN 1 ELSE 0
        /\ UNCHANGED <<phase, cycle, decodeCycle, buffer>>

\* Mutation of Waited: the cycles waited for operands are forgotten.
NotWaited(at, s, d) == at

Waited(at, s, d) == at + s.wait + d.wait

\* The body of the loop over the slots, for macro-op k of an instruction.
Attempt(ins, k) ==
    LET mop  == InfoOf[ins.type].ops[k]
        at   == Schedule(mop, cycle, depCycle)
        srcs == WithSource(ins, k, at)
    IN  \/ at = -1 /\ NoPort(ins, k, 0) /\ UNCHANGED throwAway
        \/ at # -1 /\ srcs = {} /\ NoOperand(ins, LookForward)
        \/ /\ at # -1
           /\ \E s \in srcs :
                LET dsts == WithDestination(s.ins, k, at + s.wait)
                IN  \/ dsts = {} /\ NoOperand(s.ins, s.wait + LookForward)
                    \/ \E d \in dsts :
                         LET from  == Waited(at, s, d)
                             start == Schedule(mop, from, from)
                         IN  /\ throwAway' = 0
                             /\ IF start = -1 THEN NoPort(d.ins, k, s.wait + d.wait)
                                              ELSE Issue(d.ins, k, start)

Continue ==
    /\ phase = "fill" /\ slot <= Len(Slots[buffer]) /\ ~Whole
    /\ Attempt(current, opIndex)

Create ==
    /\ phase = "fill" /\ slot <= Len(Slots[buffer])
    /\ Whole /\ ~saturated /\ programSize < MaxSize
    /\ \E type \in TypesFor(Slots[buffer][slot], slot = Len(Slots[buffer])) :
         \E ins \in Created(type) : Attempt(ins, 1)

SuperNext == Fetch \/ EndOfBuffer \/ Continue \/ Create

SuperSpec == SuperInit /\ [][SuperNext]_superVars

-----------------------------------------------------------------------------
\* An instruction of several macro-ops goes on in the next slot, or the next buffer,
\* and finds a slot of its size there: the rules of fetchNext see to that.
SlotFits ==
    phase = "fill" /\ slot <= Len(Slots[buffer]) /\ ~Whole =>
        LET size == InfoOf[current.type].ops[opIndex].size
        IN  \/ size = Slots[buffer][slot]
            \/ size = 7 /\ Slots[buffer][slot] \in {8, 9}

\* An instruction executes when its operands are ready, whatever was waited for,
\* thrown away or moved to a later cycle since they were selected.
OperandsReady ==
    [][\A r \in Registers :
         registers'[r] # registers[r] =>
           LET start == registers'[r].latency
                          - InfoOf[current'.type].ops[opIndex' - 1].latency
           IN  /\ registers[r].latency <= start
               /\ current'.src # -1 => registers[current'.src].latency <= start]_superVars

=============================================================================
