--------------------------- MODULE DatasetService ---------------------------
(***************************************************************************)
(* What the RandomX dataset service (src/src/crypto/rx/RxQueue.cpp)        *)
(* promises to the miner: it works on the seed that was asked for last, a  *)
(* dataset that is ready is ready for that seed, and what it announces is  *)
(* the seed that is wanted at that moment.                                 *)
(***************************************************************************)
CONSTANTS Seeds, NoSeed

VARIABLES
    wanted,    \* the seed asked for last
    busy,      \* the last request has not been answered
    ready,     \* the seed whose dataset can be used
    told       \* the seed announced since it was asked for

vars == <<wanted, busy, ready, told>>

Init ==
    /\ wanted = NoSeed /\ busy = FALSE
    /\ ready = NoSeed /\ told = NoSeed

Ask(s) ==
    /\ wanted' = s /\ busy' = TRUE
    /\ ready' = NoSeed /\ told' = NoSeed

\* The dataset for the seed wanted now is built, or can not be allocated.
Answer ==
    /\ busy /\ busy' = FALSE
    /\ ready' \in {wanted, NoSeed}
    /\ UNCHANGED <<wanted, told>>

Announce ==
    /\ ~ busy
    /\ told' = wanted
    /\ UNCHANGED <<wanted, busy, ready>>

\* The service is being shut down: nothing is ever ready again.
Close ==
    /\ busy' = TRUE /\ ready' = NoSeed
    /\ UNCHANGED <<wanted, told>>

Next == (\E s \in Seeds : Ask(s)) \/ Answer \/ Announce \/ Close

Spec == Init /\ [][Next]_vars
=============================================================================
