------------------------------- MODULE Pools --------------------------------
(***************************************************************************)
(* The pools: several connections (Client), the user's FailoverStrategy    *)
(* over them, the DonateStrategy with its own connection, and Network,     *)
(* which decides whose jobs the miner gets (base/net/stratum/strategies/,  *)
(* net/strategies/DonateStrategy.cpp, net/Network.cpp).                    *)
(*                                                                         *)
(* Everything runs in the event loop: an action is a callback with all the *)
(* calls that it makes, through the client, the strategy and Network, down *)
(* to the miner.                                                           *)
(***************************************************************************)
EXTENDS Client

CONSTANTS
    Last,          \* the user's pools are 0..Last
    Reliable,      \* pools whose names resolve and that answer as they should
    Sends,         \* Sends[p]: the jobs that pool p sends
    Diardi         \* jobs with a height that Network pauses for

VARIABLES
    client,        \* the clients of all pools
    index,         \* FailoverStrategy::m_index
    active,        \* FailoverStrategy::m_active
    donate,        \* DonateStrategy::m_state
    timer,         \* DonateStrategy::m_timer is running
    mining,        \* MinerPrivate::active
    job,           \* MinerPrivate::job: the pool and its job
    freed          \* a client was deleted while its lookup was in flight

vars == <<client, index, active, donate, timer, mining, job, freed>>

User == 0..Last
Fee == Last + 1         \* the donation pool, under a SinglePoolStrategy
All == User \cup {Fee}

ASSUME PoolsAssumption ==
    /\ Last \in Nat \ {0} /\ Retries \in Nat \ {0} /\ NoJob \notin Jobs
    /\ Reliable \subseteq All /\ Sends \in [All -> SUBSET Jobs]

miner == <<mining, job>>
strategy == <<index, active>>
donation == <<donate, timer>>

\* The clients of the pools that connect may leave behind, from clients cs, for
\* pool p
Connecting(cs, p) ==
    {[cs EXCEPT ![p] = c] :
        c \in IF p \in Reliable THEN {LookUp(Resolve(cs[p]))} ELSE Connect(cs[p])}

Init ==
    /\ client \in Connecting([p \in All |-> Fresh], 0)
    /\ index = 0 /\ active = -1
    /\ donate = "idle" /\ timer = TRUE
    /\ mining = FALSE /\ job = <<0, NoJob>>
    /\ freed = FALSE

-----------------------------------------------------------------------------
(* Network and the miner.                                                  *)

\* Network::setJob for the job of client c of pool p, then Miner::setJob
Mine(p, c) ==
    IF c.job \in Diardi THEN mining' = FALSE /\ UNCHANGED job
    ELSE mining' = TRUE /\ job' = <<p, c.job>>

\* Network::onPause for the user's strategy when it has no pool any more
PauseMiner == mining' = FALSE /\ UNCHANGED job

\* Mutation of NoPoolLeft: Network is not told.
IgnoresLoss(lost) == FALSE

NoPoolLeft(lost) == lost

-----------------------------------------------------------------------------
(* FailoverStrategy.                                                       *)

Update(p, c) == [client EXCEPT ![p] = c]

HasNext(i) == i < Last


\* The first pool gets all its retries.
KeepsTrying(f) == index = 0 /\ f < Retries

\* onClose for pool p; cs is what its client did before.
UserClosed(p, cs) ==
    LET f == cs[p].failures
        lost == active = p
        next == ~ KeepsTrying(f) /\ index = p /\ HasNext(index)
    IN IF f = -1
       THEN client' = cs /\ UNCHANGED <<strategy, miner>>
       ELSE /\ active' = IF lost THEN -1 ELSE active
            /\ index' = IF next THEN index + 1 ELSE index
            /\ client' \in IF next THEN Connecting(cs, index + 1) ELSE {cs}
            /\ IF NoPoolLeft(lost) THEN PauseMiner ELSE UNCHANGED miner

\* SinglePoolStrategy::onClose tells DonateStrategy::onPause, which does nothing.
OnClose(p, c) ==
    /\ IF p = Fee THEN client' = Update(p, c) /\ UNCHANGED <<strategy, miner>>
       ELSE UserClosed(p, Update(p, c))
    /\ UNCHANGED <<donation, freed>>

\* Mutation of Backups: the first pool is disconnected as well.
AllPools == User

Backups == 1..Last

\* Mutation of Chosen: the last pool to log in wins.
LastChosen(p) == p

\* The pool that is active once pool p has logged in
Chosen(p) == IF p = 0 \/ active = -1 THEN p ELSE active

\* onLoginSuccess and the onJobReceived that follows
UserLogin(p, c) ==
    LET chosen == Chosen(p)
        cs == Update(p, c)
    IN /\ client' = [q \in All |-> IF q \in Backups /\ q # chosen THEN Disconnect(cs[q]) ELSE cs[q]]
       /\ active' = chosen
       /\ index' = IF chosen # active THEN chosen ELSE index
       /\ IF chosen = p /\ donate # "active" THEN Mine(p, c) ELSE UNCHANGED miner
       /\ UNCHANGED donation

\* Mutation of TimerOnActive: only a donation that was asked for is timed.
TimerOnSchedule == timer \/ donate = "connect"

TimerOnActive == TRUE

\* DonateStrategy::onActive, whatever state the strategy is in, and setJob
FeeLogin(c) ==
    /\ client' = Update(Fee, c)
    /\ donate' = "active"
    /\ timer' = TimerOnActive
    /\ Mine(Fee, c)
    /\ UNCHANGED strategy

-----------------------------------------------------------------------------
(* Callbacks and ticks of the client of pool p.                            *)

\* The model ends where a client has two connections under way, or a callback
\* of libuv reaches a client that is gone.
Defined == ~ freed /\ \A p \in All : ~ Double(client[p])

Event(p, state) == Defined /\ client[p].state = state

\* onResolved.  The close callback of an older socket runs in the same
\* iteration of the loop, before the answer of a lookup.
Resolved(p) ==
    /\ Defined
    /\ client[p].lookups = 1 /\ client[p].socket = "none"
    /\ client' = Update(p, OpenSocket(client[p]))
    /\ UNCHANGED <<strategy, donation, miner, freed>>

LookupFails(p) ==
    /\ Defined /\ p \notin Reliable
    /\ client[p].lookups = 1 /\ client[p].socket = "none"
    /\ OnClose(p, Reconnect([client[p] EXCEPT !.lookups = 0]))

\* onConnect; then handshake and login
Connected(p) ==
    /\ Event(p, "connecting")
    /\ client' = Update(p, [client[p] EXCEPT !.state = "connected"])
    /\ UNCHANGED <<strategy, donation, miner, freed>>

\* A line that neither begins a session nor closes the connection: one that is
\* not understood, or an error as the answer to the login.  Only the client
\* with m_id 1, the first backup, closes on any error, the others on some.
Ignored(p) ==
    /\ Event(p, "connected") /\ p \notin Reliable
    /\ ~ Session(client[p])
    /\ client' = Update(p, Heard(client[p]))
    /\ UNCHANGED <<strategy, donation, miner, freed>>

\* An error, a time-out or a bad answer: close.
Fails(p) ==
    /\ Event(p, "connecting") \/ Event(p, "connected")
    /\ p \notin Reliable
    /\ client' = Update(p, Close(client[p]))
    /\ UNCHANGED <<strategy, donation, miner, freed>>

OnCloseCallback(p) ==
    /\ Defined /\ client[p].socket = "closing"
    /\ OnClose(p, Closed(client[p]))

\* tick: the pause between retries is over.
Retry(p) ==
    /\ Event(p, "reconnecting")
    /\ client[p].expire = "set"
    /\ client' \in Connecting(client, p)
    /\ UNCHANGED <<strategy, donation, miner, freed>>

\* The answer to login
Login(p, j) ==
    /\ Event(p, "connected")
    /\ ~ Session(client[p])
    /\ LET c == LoggedIn(client[p], j)
       IN IF p = Fee THEN FeeLogin(c) ELSE UserLogin(p, c)
    /\ UNCHANGED freed

\* A job notification: the strategy and Network may ignore it.
Job(p, j) ==
    /\ Event(p, "connected")
    /\ Session(client[p])
    /\ client' = Update(p, NewJob(client[p], j))
    /\ IF \/ p = Fee /\ donate = "active"
          \/ p = active /\ donate # "active"
       THEN Mine(p, NewJob(client[p], j)) ELSE UNCHANGED miner
    /\ UNCHANGED <<strategy, donation, freed>>

\* parseResponse: the pool sends the client elsewhere.
Redirect(p) ==
    /\ Event(p, "connected") /\ p \notin Reliable
    /\ client' \in Connecting(Update(p, Disconnect(client[p])), p)
    /\ UNCHANGED <<strategy, donation, miner, freed>>

-----------------------------------------------------------------------------
(* DonateStrategy, Network::onConfigChanged.                               *)

TimerOnConnect == FALSE

\* onTimer when idle.  That lasts for minutes: an attempt to connect that was
\* not cancelled by stop has come to its end, or is stuck.
DonateConnect ==
    /\ Defined /\ timer /\ donate = "idle"
    /\ client[Fee].lookups = 0
    /\ client[Fee].socket = "none" \/ Stuck(client[Fee])
    /\ timer' = TimerOnConnect
    /\ donate' = "connect"
    /\ client' \in Connecting(client, Fee)
    /\ UNCHANGED <<strategy, miner, freed>>

\* Mutation of ResumeUser: the user waits for the next job.
ResumeNothing == UNCHANGED miner

\* IStrategy::resume, then Network pauses the miner if there is no pool.
ResumeUser == IF active = -1 THEN PauseMiner ELSE Mine(active, client[active])

\* onTimer when active
DonateWait ==
    /\ Defined /\ timer /\ donate = "active"
    /\ timer' = FALSE
    /\ donate' = "wait"
    /\ ResumeUser
    /\ UNCHANGED <<client, strategy, freed>>

\* tick, three seconds later
DonateIdle ==
    /\ Defined /\ donate = "wait"
    /\ donate' = "idle"
    /\ timer' = TRUE
    /\ client' = Update(Fee, Disconnect(client[Fee]))
    /\ UNCHANGED <<strategy, miner, freed>>

\* Another pool list: stop the strategy, delete it and its clients, start anew.
Reload ==
    /\ Defined
    /\ freed' = \E p \in User : client[p].lookups > 0
    /\ client' \in Connecting([p \in All |-> IF p = Fee THEN client[p] ELSE Fresh], 0)
    /\ index' = 0 /\ active' = -1
    /\ PauseMiner
    /\ UNCHANGED donation

Callback(p) ==
    \/ Resolved(p) \/ LookupFails(p) \/ Connected(p) \/ Fails(p) \/ OnCloseCallback(p)
    \/ Redirect(p) \/ Ignored(p)
    \/ \E j \in Sends[p] : Job(p, j)

Next ==
    \/ \E p \in All : Callback(p) \/ Retry(p) \/ \E j \in Sends[p] : Login(p, j)
    \/ DonateConnect \/ DonateWait \/ DonateIdle \/ Reload

Spec == Init /\ [][Next]_vars

\* With m_expire set, a connection that is up gets some line or times out.
LoginEnds(p) ==
    /\ ~ Session(client[p]) /\ client[p].expire = "set"
    /\ Fails(p) \/ Ignored(p) \/ Redirect(p) \/ \E j \in Sends[p] : Login(p, j)

\* The loop calls back and timers fire.  Nothing is assumed of a client that is
\* stuck, nor of a session.
FairSpec ==
    /\ Spec
    /\ \A p \in All :
        /\ WF_vars(Resolved(p) \/ LookupFails(p))
        /\ WF_vars(Connected(p) \/ Fails(p))
        /\ WF_vars(LoginEnds(p))
        /\ WF_vars(OnCloseCallback(p))
        /\ WF_vars(Retry(p))
    /\ WF_vars(DonateConnect) /\ WF_vars(DonateWait) /\ WF_vars(DonateIdle)

-----------------------------------------------------------------------------
\* The shapes of clients, strategies and miner.
TypeOK ==
    /\ client \in [All -> Client]
    /\ index \in User /\ active \in User \cup {-1}
    /\ donate \in {"idle", "connect", "active", "wait"} /\ timer \in BOOLEAN
    /\ mining \in BOOLEAN /\ job \in All \X (Jobs \cup {NoJob})
    /\ freed \in BOOLEAN

\* At most one of the user's pools has a session, and it is the active one,
\* which has one unless its socket is about to be closed.
OneSession ==
    /\ \A p \in User : Session(client[p]) => active = p
    /\ active # -1 => Session(client[active]) \/ client[active].socket = "closing"

\* When a pool becomes active every backup is told not to come back, wherever
\* it is in its attempt to connect, and while a pool is active nothing but a
\* redirection by the backup's own pool takes that back.
BackupsRetired ==
    [][\A p \in Backups :
        active' \notin {-1, p} /\ (active' # active \/ client[p].failures = -1)
            => client'[p].failures = -1 \/ Redirect(p)]_vars

\* The first pool is never given up, whichever pool is active.
FirstPoolTried ==
    client[0].failures # -1 /\ client[0].state # "unconnected"

\* Outside of a donation, with a pool active, the miner has the last job of
\* that pool, or is paused for it, although the pool may have sent jobs,
\* been lost and been replaced during the donation.
UserJobMined ==
    Defined /\ donate # "active" /\ active # -1 =>
        IF client[active].job \in Diardi THEN ~ mining
        ELSE mining /\ job = <<active, client[active].job>>

\* The miner mines only if there is a pool of the user or a donation, and for
\* the donation pool exactly during a donation.
MinesForSomebody ==
    mining => IF donate = "active" THEN job[1] = Fee ELSE active # -1 /\ job[1] = active


\* A donation ends, even if the donation pool is lost in the meantime.
DonationEnds == donate = "active" ~> donate # "active" \/ ~ Defined

\* The ChangeLog's promise of no double connection to a pool: a client that
\* looks up its pool or connects to it does not start to do so again.
OneConnection == \A p \in All : ~ Double(client[p])

=============================================================================
