---------------------------- MODULE DaemonClient ----------------------------
(***************************************************************************)
(* DaemonClient mines for a node: it asks for a block template, polls for  *)
(* the top of the chain and asks again when that has changed.  Each        *)
(* request has a connection of its own, so that answers arrive in any      *)
(* order.  A tip of the chain is a number that grows with time, and stands *)
(* for its height and its hash; 0 is the height of no job.                 *)
(***************************************************************************)
EXTENDS Integers, Bags, BagsExt

CONSTANTS
    Apis,       \* what the node may speak: "monero", "default" or "dero"
    MaxTip,     \* bound: tips of the chain
    MaxFlight   \* bound: requests on their way

VARIABLES
    dNode,      \* what it speaks
    dState,     \* m_state: "unconnected", "connecting" or "connected"
    dApi,       \* m_apiVersion
    dTimer,     \* "off", "once" (retry) or "poll"
    dJob,       \* the tip of m_job and m_prevHash
    dRequested, \* m_blocktemplateRequestHeight and ...Hash
    flight,     \* requests and answers: a bag of [kind, tip], tip 0 without an answer
    tip,        \* top of the node's chain
    told,       \* the newest tip an answer has told (history)
    late        \* a template came that was older than that (history)

daemonVars == <<dNode, dState, dApi, dTimer, dJob, dRequested, flight, tip, told, late>>

Msg(kind, t) == [kind |-> kind, tip |-> t]

DaemonInit ==
    /\ dState = "unconnected" /\ dTimer = "off"
    /\ dNode \in Apis /\ dApi = IF dNode = "dero" THEN "dero" ELSE "monero"
    /\ dJob = 0 /\ dRequested = 0
    /\ flight = EmptyBag /\ tip = 1 /\ told = 0 /\ late = FALSE

Room == BagCardinality(flight) < MaxFlight

Fetched(bag, kind) == BagAdd(bag, Msg(kind, 0))

-----------------------------------------------------------------------------
\* The node: blocks are found, requests answered, or lost on the way (a negative tip).
NewBlock ==
    /\ tip < MaxTip /\ tip' = tip + 1
    /\ UNCHANGED <<dNode, dState, dApi, dTimer, dJob, dRequested, flight, told, late>>

Answer(m) ==
    /\ m.tip = 0
    /\ \E t \in {tip, -1} : flight' = BagAdd(BagRemove(flight, m), [m EXCEPT !.tip = t])
    /\ UNCHANGED <<dNode, dState, dApi, dTimer, dJob, dRequested, tip, told, late>>

-----------------------------------------------------------------------------
\* connect: the strategy begins, or asks this pool again.
DaemonConnect ==
    /\ dState = "unconnected" /\ Room
    /\ dState' = "connecting"
    /\ flight' = Fetched(flight, "template")
    /\ UNCHANGED <<dNode, dApi, dTimer, dJob, dRequested, tip, told, late>>

\* disconnect: what is on its way still arrives.
DaemonDisconnect ==
    /\ dState # "unconnected"
    /\ dState' = "unconnected" /\ dTimer' = "off"
    /\ UNCHANGED <<dNode, dApi, dJob, dRequested, flight, tip, told, late>>

PollKind ==
    CASE dApi = "dero" -> "get_info" [] dApi = "monero" -> "getheight" [] OTHER -> "getinfo"

\* onTimer.
DaemonTimer ==
    /\ dTimer # "off" /\ Room
    /\ dTimer' = IF dTimer = "once" THEN "off" ELSE dTimer
    /\ flight' = CASE dState = "connecting" -> Fetched(flight, "template")
                   [] dState = "connected"  -> Fetched(flight, PollKind)
                   [] OTHER -> flight
    /\ UNCHANGED <<dNode, dState, dApi, dJob, dRequested, tip, told, late>>

\* submit, of a share for the current template.
DaemonSubmit ==
    /\ dState = "connected" /\ Room
    /\ flight' = Fetched(flight, "submit")
    /\ UNCHANGED <<dNode, dState, dApi, dTimer, dJob, dRequested, tip, told, late>>

\* Mutation of Retry: the client stays connected, and polls once more.
RetryConnected ==
    /\ dState' = dState
    /\ dTimer' = "once"

\* retry.  After a disconnect (m_failures was -1) it starts the timer as well.
Retry ==
    /\ dState' = IF dState = "connected" THEN "connecting" ELSE dState
    /\ dTimer' = "once"

\* onHttpData with an answer that failed, or an error.
Failed(m) ==
    /\ m.tip = -1 /\ flight' = BagRemove(flight, m)
    /\ Retry
    /\ UNCHANGED <<dNode, dApi, dJob, dRequested, tip, told, late>>

NewerOf(a, b) == IF a > b THEN a ELSE b

\* parseJob; setState(ConnectedState) starts the polling.
Template(m) ==
    /\ m.kind = "template" /\ m.tip > 0
    /\ flight' = BagRemove(flight, m)
    /\ dJob' = m.tip
    /\ IF dState = "connecting" THEN dState' = "connected" /\ dTimer' = "poll"
       ELSE UNCHANGED <<dState, dTimer>>
    /\ told' = NewerOf(told, m.tip) /\ late' = (late \/ m.tip < told)
    /\ UNCHANGED <<dNode, dApi, dRequested, tip>>

\* A node without a hash in /getheight is asked with /getinfo from now on.
NoHash(m) ==
    /\ m.kind = "getheight" /\ m.tip > 0 /\ dNode = "default"
    /\ dApi' = "default" /\ flight' = Fetched(BagRemove(flight, m), "getinfo")
    /\ UNCHANGED <<dNode, dState, dTimer, dJob, dRequested, tip, told, late>>

Outdated(t) == dJob # t

\* Several answers may come at once; only the first asks for a template.
Height(m) ==
    /\ \/ m.kind = "getheight" /\ dNode = "monero"
       \/ m.kind = "getinfo"
    /\ m.tip > 0
    /\ IF Outdated(m.tip) /\ m.tip # dRequested
         THEN /\ dRequested' = m.tip
              /\ flight' = Fetched(BagRemove(flight, m), "template")
         ELSE /\ flight' = BagRemove(flight, m)
              /\ UNCHANGED dRequested
    /\ told' = NewerOf(told, m.tip)
    /\ UNCHANGED <<dNode, dState, dApi, dTimer, dJob, tip, late>>

\* parseResponse of DERO's get_info.
DeroInfo(m) ==
    /\ m.kind = "get_info" /\ m.tip > 0
    /\ flight' = IF Outdated(m.tip) THEN Fetched(BagRemove(flight, m), "template")
                 ELSE BagRemove(flight, m)
    /\ told' = NewerOf(told, m.tip)
    /\ UNCHANGED <<dNode, dState, dApi, dTimer, dJob, dRequested, tip, late>>

\* A share was accepted: there is a new block, and a new template is needed.
Accepted(m) ==
    /\ m.kind = "submit" /\ m.tip > 0
    /\ flight' = Fetched(BagRemove(flight, m), "template")
    /\ UNCHANGED <<dNode, dState, dApi, dTimer, dJob, dRequested, tip, told, late>>

DaemonNext ==
    \/ NewBlock \/ DaemonConnect \/ DaemonDisconnect \/ DaemonTimer \/ DaemonSubmit
    \/ \E m \in BagToSet(flight) :
        \/ Answer(m) \/ Failed(m) \/ Template(m) \/ NoHash(m)
        \/ Height(m) \/ DeroInfo(m) \/ Accepted(m)

DaemonSpec == DaemonInit /\ [][DaemonNext]_daemonVars

-----------------------------------------------------------------------------
\* A template that will be at least as new as t is on its way.
Coming(t) ==
    \E m \in BagToSet(flight) :
        m.kind = "template" /\ (m.tip \in {0, -1} \/ m.tip >= t)

\* While it is connected the client mines the newest tip it was told of, or the template
\* is on its way: neither a failed request nor one saved by the comparison with the last
\* request (onHttpData) leaves it behind.  What can is a template that arrives late, after
\* a newer tip was told: the polls that follow ask for nothing.
TemplateFollows ==
    dState = "connected" /\ ~late => dJob = told \/ Coming(told)

=============================================================================
