------------------------------ MODULE MCParts ------------------------------
(* The components that do not share state with one another or with the     *)
(* rest, checked in one run: each behaviour is one of one part, and the    *)
(* others stay in an initial state.                                        *)
EXTENDS RandomXCode, Superscalar, RandomXMemory, MemoryPool, LineReader,
        DaemonClient, SelfSelectClient, ConfigWatch, Hashrate, AutoPause

VARIABLE part   \* the component this behaviour is one of

codeIns(op, d, s, p) == [op |-> op, dst |-> d, src |-> s, pow2 |-> p]
MCInstructions ==
    {codeIns("arith", 0, 1, FALSE), codeIns("arith", 1, 0, FALSE),
     codeIns("bits", 0, 0, FALSE), codeIns("rcp", 0, 0, FALSE),
     codeIns("rcp", 1, 1, TRUE), codeIns("swap", 0, 1, FALSE),
     codeIns("swap", 1, 1, FALSE), codeIns("float", 0, 0, FALSE),
     codeIns("cfround", 0, 0, FALSE), codeIns("cbranch", 0, 0, FALSE),
     codeIns("cbranch", 1, 1, FALSE), codeIns("other", 0, 0, FALSE)}
MCBytes == [k \in Kinds |-> IF k = "cfround" THEN 13 ELSE 7]
MCWords == [k \in Kinds |-> IF k = "cbranch" THEN 3 ELSE 1]
MCReads == UNION {[1 .. n -> {"byte", "feed"}] : n \in 1 .. 4}

\* The parts other than p stand still.
OthersIdle(p) ==
    /\ IF p = "code" THEN TRUE ELSE UNCHANGED codeVars
    /\ IF p = "super" THEN TRUE ELSE UNCHANGED superVars
    /\ IF p = "memory" THEN TRUE ELSE UNCHANGED memoryVars
    /\ IF p = "pool" THEN TRUE ELSE UNCHANGED poolVars
    /\ IF p = "line" THEN TRUE ELSE UNCHANGED lineVars
    /\ IF p = "daemon" THEN TRUE ELSE UNCHANGED daemonVars
    /\ IF p = "self" THEN TRUE ELSE UNCHANGED selfVars
    /\ IF p = "config" THEN TRUE ELSE UNCHANGED configVars
    /\ IF p = "rate" THEN TRUE ELSE UNCHANGED rateVars
    /\ IF p = "pause" THEN TRUE ELSE UNCHANGED pauseVars

partsVars == <<codeVars, superVars, memoryVars, poolVars, lineVars, daemonVars,
               selfVars, configVars, rateVars, pauseVars, part>>

PartsInit ==
    /\ part \in {"code", "super", "memory", "pool", "line", "daemon", "self",
                "config", "rate", "pause"}
    /\ CodeInit /\ SuperInit /\ MemoryInit /\ PoolInit /\ LineInit
    /\ DaemonInit /\ SelfInit /\ ConfigInit /\ RateInit /\ PauseInit
    \* a part that stands still needs one initial state only
    /\ part # "daemon" => dNode = "monero"
    /\ part # "config" => watcher
    /\ part # "pause"  => pauseOnBattery /\ pauseOnActive

PartsNext ==
    /\ \/ part = "code" /\ CodeNext
       \/ part = "super" /\ SuperNext
       \/ part = "memory" /\ MemoryNext
       \/ part = "pool" /\ PoolNext
       \/ part = "line" /\ LineNext
       \/ part = "daemon" /\ DaemonNext
       \/ part = "self" /\ SelfNext
       \/ part = "config" /\ ConfigNext
       \/ part = "rate" /\ RateNext
       \/ part = "pause" /\ PauseNext
    /\ OthersIdle(part) /\ UNCHANGED part

PartsSpec == PartsInit /\ [][PartsNext]_partsVars

=============================================================================
