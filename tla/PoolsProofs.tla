---------------------------- MODULE PoolsProofs ----------------------------
(***************************************************************************)
(* Pools for any number of pools, retries and jobs.  Everything that the   *)
(* runs check of a single state is one inductive invariant, together with  *)
(* what the strategy and the clients keep to themselves: a client that is  *)
(* up has a socket, a job comes with a session and goes with the socket,   *)
(* one that was given up is not retried (Sound), and the index of the      *)
(* strategy is that of the active pool, which has not been told to stay    *)
(* away.  Operations of the client are opaque in the steps, which use the  *)
(* facts of the lemmas.                                                    *)
(***************************************************************************)
EXTENDS Pools, TLAPS

Sound(c) ==
    /\ c \in Client
    /\ c.state \in {"connecting", "connected"} => c.socket = "open"
    /\ c.state = "connecting" \/ c.socket = "none" => c.job = NoJob
    /\ c.state = "reconnecting" /\ c.expire = "set" => c.failures # -1

LEMMA Natural == Retries \in Nat \ {0} /\ Last \in Nat \ {0} /\ NoJob \notin Jobs
                 /\ Sends \in [All -> SUBSET Jobs]
  BY PoolsAssumption DEF PoolsAssumption

LEMMA FreshClient ==
    /\ Sound(Fresh) /\ ~ Session(Fresh) /\ Fresh.failures = 0 /\ Fresh.state = "unconnected"
  BY Natural DEF Sound, Fresh, Session, Client, States

LEMMA ResolveClient ==
    ASSUME NEW c, Sound(c)
    PROVE  LET d == Resolve(c) IN
           /\ Sound(d) /\ ~ Session(d)
           /\ d.state = "hostLookup" /\ d.socket = c.socket /\ d.job = c.job
           /\ d.failures # -1
  <1> DEFINE f == IF c.failures = -1 THEN 0 ELSE c.failures
             d == [c EXCEPT !.state = "hostLookup", !.expire = "none", !.failures = f]
  <1>1. f \in -1 .. Retries /\ f # -1
    BY Natural DEF Sound, Client
  <1>2. Resolve(c) = d
    BY DEF Resolve, Sound, Client
  <1> HIDE DEF f
  <1>3. d \in Client /\ d.state = "hostLookup" /\ d.socket = c.socket /\ d.job = c.job
        /\ d.failures = f
    BY <1>1 DEF Sound, Client, States
  <1> HIDE DEF d
  <1> QED
    BY <1>1, <1>2, <1>3 DEF Sound, Session

LEMMA LookUpClient ==
    ASSUME NEW c, Sound(c)
    PROVE  LET d == LookUp(c) IN
           /\ Sound(d)
           /\ d.state = c.state /\ d.socket = c.socket /\ d.job = c.job
           /\ d.failures = c.failures
  <1> DEFINE n == IF c.lookups = 2 THEN 2 ELSE c.lookups + 1
             d == [c EXCEPT !.lookups = n]
  <1>1. n \in 0 .. 2
    BY DEF Sound, Client
  <1>2. LookUp(c) = d
    BY DEF LookUp, Sound, Client
  <1> HIDE DEF n
  <1>3. d \in Client /\ d.state = c.state /\ d.socket = c.socket /\ d.job = c.job
        /\ d.failures = c.failures /\ d.expire = c.expire
    BY <1>1 DEF Sound, Client
  <1> HIDE DEF d
  <1> QED
    BY <1>2, <1>3 DEF Sound

\* connect, whatever the resolver does
LEMMA ConnectClient ==
    ASSUME NEW c, Sound(c), NEW d, d = LookUp(Resolve(c)) \/ d \in Connect(c)
    PROVE  /\ Sound(d) /\ ~ Session(d)
           /\ d.state = "hostLookup" /\ d.socket = c.socket /\ d.job = c.job
           /\ d.failures # -1
  <1> DEFINE e == Resolve(c)
             l == LookUp(e)
  <1>1. /\ Sound(e) /\ ~ Session(e)
        /\ e.state = "hostLookup" /\ e.socket = c.socket /\ e.job = c.job
        /\ e.failures # -1
    BY ResolveClient
  <1>2. d \in {e, l}
    BY DEF Connect
  <1> HIDE DEF e
  <1>3. Sound(l) /\ l.state = e.state /\ l.socket = e.socket /\ l.job = e.job
        /\ l.failures = e.failures
    BY <1>1, LookUpClient
  <1> HIDE DEF l
  <1> QED
    BY <1>1, <1>2, <1>3 DEF Session

LEMMA ConnectingClients ==
    ASSUME NEW cs \in [All -> Client], NEW p \in All, Sound(cs[p]),
           NEW ds \in Connecting(cs, p)
    PROVE  /\ ds \in [All -> Client] /\ \A q \in All : q # p => ds[q] = cs[q]
           /\ ds = [cs EXCEPT ![p] = ds[p]]
           /\ Sound(ds[p]) /\ ~ Session(ds[p])
           /\ ds[p].state = "hostLookup" /\ ds[p].failures # -1
           /\ ds[p].socket = cs[p].socket /\ ds[p].job = cs[p].job
  <1>1. PICK c : /\ ds = [cs EXCEPT ![p] = c]
                 /\ c = LookUp(Resolve(cs[p])) \/ c \in Connect(cs[p])
    BY DEF Connecting
  <1>2. /\ Sound(c) /\ ~ Session(c)
        /\ c.state = "hostLookup" /\ c.socket = cs[p].socket /\ c.job = cs[p].job
        /\ c.failures # -1
    BY <1>1, ConnectClient
  <1>3. ds[p] = c /\ c \in Client
    BY <1>1, <1>2 DEF Sound
  <1> QED
    BY <1>1, <1>2, <1>3

LEMMA CloseClient ==
    ASSUME NEW c, Sound(c)
    PROVE  LET d == Close(c) IN
           /\ Sound(d) /\ ~ Session(d)
           /\ d.failures = c.failures /\ d.job = c.job
           /\ c.state # "unconnected" => d.state # "unconnected"
           /\ c.state \in {"connecting", "connected"} => d.socket = "closing"
           /\ c.socket = "closing" => d.socket = "closing"
  BY DEF Sound, Close, Session, Client, States

LEMMA DisconnectClient ==
    ASSUME NEW c, Sound(c)
    PROVE  LET d == Disconnect(c) IN
           /\ Sound(d) /\ ~ Session(d)
           /\ d.failures = -1 /\ d.job = c.job
           /\ c.state \in {"connecting", "connected"} => d.socket = "closing"
  <1> DEFINE f == -1
             e == [c EXCEPT !.failures = f, !.expire = "none"]
  <1>1. f \in -1 .. Retries
    BY Natural
  <1> HIDE DEF f
  <1>2. e \in Client /\ e.failures = f /\ e.state = c.state /\ e.socket = c.socket
        /\ e.job = c.job /\ e.expire = "none"
    BY <1>1 DEF Sound, Client
  <1> HIDE DEF e
  <1>3. Sound(e)
    BY <1>2 DEF Sound
  <1>4. Disconnect(c) = Close(e)
    BY DEF Disconnect, e, f
  <1> QED
    BY <1>2, <1>3, <1>4, CloseClient DEF f

LEMMA ReconnectClient ==
    ASSUME NEW c, Sound(c), ~ Session(c)
    PROVE  LET d == Reconnect(c) IN
           /\ Sound(d) /\ ~ Session(d)
           /\ d.failures = -1 <=> c.failures = -1
           /\ c.failures # -1 => d.state = "reconnecting"
  <1> DEFINE f == IF c.failures = Retries THEN c.failures ELSE c.failures + 1
             d == [c EXCEPT !.state = "reconnecting", !.expire = "set", !.failures = f]
  <1>1. CASE c.failures = -1
    BY <1>1 DEF Reconnect
  <1>2. CASE c.failures # -1
    <2>1. f \in -1 .. Retries /\ f # -1
      BY <1>2, Natural DEF Sound, Client
    <2>2. Reconnect(c) = d
      BY <1>2 DEF Reconnect, Sound, Client
    <2> HIDE DEF f
    <2>3. d \in Client /\ d.state = "reconnecting" /\ d.socket = c.socket /\ d.job = c.job
          /\ d.failures = f
      BY <2>1 DEF Sound, Client, States
    <2> HIDE DEF d
    <2> QED
      BY <1>2, <2>1, <2>2, <2>3 DEF Sound, Session
  <1> QED
    BY <1>1, <1>2

LEMMA OpenClient ==
    ASSUME NEW c, Sound(c), c.socket = "none", c.lookups = 1
    PROVE  LET d == OpenSocket(c) IN
           /\ Sound(d) /\ ~ Session(d)
           /\ d.failures = c.failures /\ d.state = "connecting"
  <1> DEFINE n == c.lookups - 1
             d == [c EXCEPT !.state = "connecting", !.expire = "set", !.socket = "open",
                            !.lookups = n]
  <1>1. OpenSocket(c) = d
    BY DEF OpenSocket, Sound, Client
  <1>2. n \in 0 .. 2
    OBVIOUS
  <1> HIDE DEF n
  <1>3. d \in Client /\ d.state = "connecting" /\ d.socket = "open" /\ d.job = c.job
        /\ d.failures = c.failures
    BY <1>2 DEF Sound, Client, States
  <1> HIDE DEF d
  <1> QED
    BY <1>1, <1>3 DEF Sound, Session

LEMMA ClosedClient ==
    ASSUME NEW c, Sound(c)
    PROVE  LET d == Closed(c) IN
           /\ Sound(d) /\ ~ Session(d)
           /\ d.failures = -1 <=> c.failures = -1
           /\ c.failures # -1 => d.state = "reconnecting"
  <1> DEFINE e == [c EXCEPT !.state = "unconnected", !.socket = "none", !.job = NoJob]
  <1>1. Sound(e) /\ ~ Session(e) /\ e.failures = c.failures
    BY DEF Sound, Client, States, Session
  <1> HIDE DEF e
  <1>2. Closed(c) = Reconnect(e)
    BY DEF Closed, e
  <1> QED
    BY <1>1, <1>2, ReconnectClient

LEMMA JobClient ==
    ASSUME NEW c, Sound(c), c.state = "connected", NEW j \in Jobs
    PROVE  LET d == NewJob(c, j) IN
           /\ Sound(d) /\ Session(d)
           /\ d.failures = c.failures /\ d.state = "connected" /\ d.job = j
  BY Natural DEF Sound, NewJob, Session, Client, States

LEMMA HeardClient ==
    ASSUME NEW c, Sound(c)
    PROVE  LET d == Heard(c) IN
           /\ Sound(d) /\ (Session(d) <=> Session(c))
           /\ d.state = c.state /\ d.job = c.job /\ d.failures = c.failures
  BY DEF Sound, Heard, Session, Client

LEMMA LoginClient ==
    ASSUME NEW c, Sound(c), c.state = "connected", NEW j \in Jobs
    PROVE  LET d == LoggedIn(c, j) IN
           /\ Sound(d) /\ Session(d)
           /\ d.failures = 0 /\ d.state = "connected" /\ d.job = j
  <1> DEFINE h == Heard(c)
             e == NewJob(h, j)
  <1>1. Sound(h) /\ h.state = "connected"
    BY HeardClient
  <1> HIDE DEF h
  <1>2. Sound(e) /\ e.state = "connected" /\ e.job = j
    BY <1>1, JobClient
  <1> HIDE DEF e
  <1>3. LoggedIn(c, j) = [e EXCEPT !.failures = 0]
    BY DEF LoggedIn, e, h
  <1> QED
    BY <1>2, <1>3, Natural DEF Sound, Session, Client

-----------------------------------------------------------------------------
PoolsInv ==
    /\ TypeOK
    /\ \A p \in All : Sound(client[p])
    /\ active # -1 => index = active /\ client[active].failures # -1
    /\ OneSession /\ FirstPoolTried /\ UserJobMined /\ MinesForSomebody

\* What a step may not do to the backups, see BackupsRetired.
Retiring ==
    \A p \in Backups :
        active' \notin {-1, p} /\ (active' # active \/ client[p].failures = -1)
            => client'[p].failures = -1 \/ Redirect(p)

LEMMA PoolSets ==
    /\ User \subseteq All /\ Fee \in All /\ Fee \notin User /\ All = User \cup {Fee}
    /\ 0 \in User /\ Backups = User \ {0} /\ -1 \notin All /\ User \subseteq Nat
    /\ \A i \in User : HasNext(i) => i + 1 \in User
    /\ Fee # -1
  BY Natural DEF All, User, Fee, Backups, HasNext

LEMMA PoolsInitially == Init => PoolsInv
  <1> SUFFICES ASSUME Init PROVE PoolsInv
    OBVIOUS
  <1> USE DEF Init
  <1> DEFINE cs == [p \in All |-> Fresh]
  <1>1. cs \in [All -> Client] /\ \A p \in All : cs[p] = Fresh
    BY FreshClient DEF Sound
  <1>2. client \in Connecting(cs, 0)
    OBVIOUS
  <1> HIDE DEF cs
  <1>3. /\ client \in [All -> Client]
        /\ \A p \in All : Sound(client[p]) /\ ~ Session(client[p])
        /\ client[0].failures # -1 /\ client[0].state = "hostLookup"
    BY <1>1, <1>2, FreshClient, ConnectingClients, PoolSets
  <1>4. TypeOK
    BY <1>3, PoolSets DEF TypeOK
  <1> QED
    BY <1>3, <1>4, PoolSets
    DEF PoolsInv, OneSession, FirstPoolTried, UserJobMined, MinesForSomebody

\* A callback that only concerns one client, whose session it does not begin.
LEMMA ClientStep ==
    ASSUME PoolsInv, Defined, NEW p \in All, NEW c, client' = Update(p, c),
           UNCHANGED <<strategy, donation, miner>>, freed' \in BOOLEAN,
           Sound(c), ~ Session(c), c.job = client[p].job \/ p # active,
           c.failures = client[p].failures \/ (c.failures # -1 /\ client[p].failures # -1)
              \/ (c.failures # -1 /\ Redirect(p)) \/ p = Fee,
           p = 0 => c.state # "unconnected" /\ c.failures # -1,
           p = active => c.socket = "closing" /\ c.failures # -1
    PROVE  PoolsInv' /\ Retiring
  <1>1. client' \in [All -> Client] /\ client'[p] = c
        /\ \A q \in All : q # p => client'[q] = client[q]
    BY DEF PoolsInv, TypeOK, Update, Sound
  <1>2. UNCHANGED <<index, active, donate, timer, mining, job>>
    BY DEF strategy, donation, miner
  <1>3. TypeOK'
    BY <1>1, <1>2 DEF PoolsInv, TypeOK
  <1>4. \A q \in All : Sound(client'[q])
    BY <1>1 DEF PoolsInv
  <1>5. active \in User \cup {-1}
    BY DEF PoolsInv, TypeOK
  <1>6. OneSession'
    BY <1>1, <1>2, <1>5, PoolSets DEF PoolsInv, OneSession
  <1>7. FirstPoolTried'
    BY <1>1, PoolSets DEF PoolsInv, FirstPoolTried
  <1>8. active' # -1 => index' = active' /\ client'[active'].failures # -1
    BY <1>1, <1>2, <1>5, PoolSets DEF PoolsInv
  <1>9. UserJobMined'
    BY <1>1, <1>2, <1>5, PoolSets DEF PoolsInv, UserJobMined
  <1>10. MinesForSomebody'
    BY <1>2 DEF PoolsInv, MinesForSomebody
  <1>11. Retiring
    BY <1>1, <1>2, PoolSets DEF Retiring
  <1> QED
    BY <1>3, <1>4, <1>6, <1>7, <1>8, <1>9, <1>10, <1>11 DEF PoolsInv

\* A connection is closed, or its pool was not found: FailoverStrategy::onClose.
LEMMA CloseStep ==
    ASSUME PoolsInv, Defined, NEW p \in All, NEW c, OnClose(p, c),
           Sound(c), ~ Session(c), c.failures = -1 <=> client[p].failures = -1,
           c.failures # -1 => c.state = "reconnecting"
    PROVE  PoolsInv' /\ Retiring
  <1>1. UNCHANGED <<donate, timer, freed>> /\ freed' \in BOOLEAN
    BY DEF OnClose, donation, PoolsInv, TypeOK
  <1>2. p = 0 => c.state # "unconnected" /\ c.failures # -1
    BY DEF PoolsInv, FirstPoolTried
  <1>3. active \in User \cup {-1} /\ index \in User /\ client \in [All -> Client]
    BY DEF PoolsInv, TypeOK
  <1>4. active # -1 => index = active /\ client[active].failures # -1
    BY DEF PoolsInv
  <1> DEFINE next == ~ KeepsTrying(c.failures) /\ index = p /\ HasNext(index)
  <1>5. CASE p # active /\ client' = Update(p, c) /\ UNCHANGED <<strategy, miner>>
    BY <1>1, <1>2, <1>5, ClientStep DEF donation
  <1>6. CASE p = Fee
    BY <1>3, <1>5, <1>6, PoolSets DEF OnClose
  <1>7. CASE p # Fee /\ c.failures = -1
    <2>1. client' = Update(p, c) /\ UNCHANGED <<strategy, miner>>
      BY <1>3, <1>7, PoolSets DEF OnClose, UserClosed, Update
    <2>2. p # active
      BY <1>4, <1>7, PoolSets
    <2> QED
      BY <1>5, <2>1, <2>2
  <1>8. CASE p # Fee /\ c.failures # -1
    <2> DEFINE cs == Update(p, c)
    <2>1. cs[p] = c /\ cs \in [All -> Client] /\ \A q \in All : q # p => cs[q] = client[q]
      BY <1>3 DEF Update, Sound
    <2>2. UserClosed(p, cs)
      BY <1>8 DEF OnClose
    <2>3. /\ active' = IF active = p THEN -1 ELSE active
          /\ index' = IF next THEN index + 1 ELSE index
          /\ client' \in IF next THEN Connecting(cs, index + 1) ELSE {cs}
          /\ IF active = p THEN PauseMiner ELSE UNCHANGED miner
      BY <1>8, <2>1, <2>2 DEF UserClosed, NoPoolLeft
    <2>4. CASE active # -1 /\ active # p
      <3>1. ~ next
        BY <1>4, <2>4
      <3>2. client' = Update(p, c) /\ UNCHANGED <<strategy, miner>>
        BY <2>3, <2>4, <3>1 DEF strategy
      <3> QED
        BY <1>5, <2>4, <3>2
    <2>5. CASE active = -1 \/ active = p
      <3>1. active' = -1 /\ job' = job
        BY <2>3, <2>5 DEF PauseMiner, miner
      <3>2. index' \in User
        BY <1>3, <2>3, PoolSets
      <3> HIDE DEF cs
      <3>3. \A q \in All : /\ Sound(cs[q]) /\ (q \in User => ~ Session(cs[q]))
                          /\ (q = 0 => cs[q].failures # -1 /\ cs[q].state # "unconnected")
        BY <2>1, <2>5, <1>2, PoolSets DEF PoolsInv, OneSession, FirstPoolTried
      <3>4. /\ client' \in [All -> Client]
            /\ \A q \in All : Sound(client'[q]) /\ (q \in User => ~ Session(client'[q]))
            /\ client'[0].failures # -1 /\ client'[0].state # "unconnected"
        <4>1. CASE ~ next
          BY <2>1, <2>3, <3>3, <4>1, PoolSets
        <4>2. CASE next
          <5>1. index + 1 \in All /\ client' \in Connecting(cs, index + 1)
            BY <1>3, <2>3, <4>2, PoolSets
          <5>2. /\ client' \in [All -> Client]
                /\ \A q \in All : q # index + 1 => client'[q] = cs[q]
                /\ Sound(client'[index + 1]) /\ ~ Session(client'[index + 1])
                /\ client'[index + 1].state = "hostLookup"
                /\ client'[index + 1].failures # -1
            BY <2>1, <3>3, <5>1, ConnectingClients
          <5> QED
            BY <3>3, <5>2, PoolSets
        <4> QED
          BY <4>1, <4>2
      <3>5. mining' \in BOOLEAN /\ (mining' => mining /\ active = -1)
        <4>1. CASE active = p
          BY <2>3, <4>1 DEF PauseMiner
        <4>2. CASE active # p
          BY <2>3, <2>5, <4>2 DEF miner, PoolsInv, TypeOK
        <4> QED
          BY <4>1, <4>2
      <3>6. TypeOK'
        BY <1>1, <3>1, <3>2, <3>4, <3>5 DEF PoolsInv, TypeOK
      <3>7. MinesForSomebody'
        BY <1>1, <3>1, <3>5 DEF PoolsInv, MinesForSomebody
      <3>8. OneSession'
        BY <3>1, <3>4, PoolSets DEF OneSession
      <3>9. FirstPoolTried'
        BY <3>4 DEF FirstPoolTried
      <3>10. UserJobMined'
        BY <3>1 DEF UserJobMined
      <3>11. Retiring
        BY <3>1 DEF Retiring
      <3> QED
        BY <3>1, <3>4, <3>6, <3>7, <3>8, <3>9, <3>10, <3>11 DEF PoolsInv
    <2> QED
      BY <2>4, <2>5
  <1> QED
    BY <1>6, <1>7, <1>8

\* The network thinks of a job of pool q, of which client c has the last.
LEMMA Mined ==
    ASSUME TypeOK, NEW q \in All, NEW c \in Client, Mine(q, c)
    PROVE  /\ mining' \in BOOLEAN /\ job' \in All \X (Jobs \cup {NoJob})
           /\ IF c.job \in Diardi THEN ~ mining' ELSE mining' /\ job' = <<q, c.job>>
           /\ mining' => job'[1] = q
  <1>1. c.job \in Jobs \cup {NoJob} /\ job \in All \X (Jobs \cup {NoJob})
    BY DEF TypeOK, Client
  <1>2. CASE c.job \in Diardi
    BY <1>1, <1>2 DEF Mine
  <1>3. CASE c.job \notin Diardi
    <2>1. mining' = TRUE /\ job' = <<q, c.job>>
      BY <1>3 DEF Mine
    <2>2. job' \in All \X (Jobs \cup {NoJob}) /\ job'[1] = q
      BY <1>1, <2>1
    <2> QED
      BY <1>3, <2>1, <2>2
  <1> QED
    BY <1>2, <1>3

\* A pool of the user accepts the login: FailoverStrategy::onLoginSuccess.
LEMMA UserLoginStep ==
    ASSUME PoolsInv, Defined, NEW p \in User, NEW j \in Jobs,
           client[p].state = "connected", ~ Session(client[p]),
           UserLogin(p, LoggedIn(client[p], j)), UNCHANGED freed
    PROVE  PoolsInv' /\ Retiring
  <1> DEFINE c == LoggedIn(client[p], j)
             chosen == Chosen(p)
             cs == Update(p, c)
  <1>1. active \in User \cup {-1} /\ index \in User /\ client \in [All -> Client]
        /\ p \in All /\ TypeOK
    BY PoolSets DEF PoolsInv, TypeOK
  <1>2. Sound(c) /\ Session(c) /\ c.failures = 0 /\ c.state = "connected" /\ c.job = j
    BY <1>1, LoginClient DEF PoolsInv
  <1> HIDE DEF c
  <1>3. cs[p] = c /\ \A q \in All : Sound(cs[q]) /\ (q # p => cs[q] = client[q])
    BY <1>1, <1>2 DEF Update, PoolsInv
  <1>4. /\ client' = [q \in All |->
                       IF q \in Backups /\ q # chosen THEN Disconnect(cs[q]) ELSE cs[q]]
        /\ active' = chosen
        /\ index' = IF chosen # active THEN chosen ELSE index
        /\ IF chosen = p /\ donate # "active" THEN Mine(p, c) ELSE UNCHANGED miner
        /\ UNCHANGED donation
    BY DEF UserLogin, c
  <1> HIDE DEF cs
  <1>5. \/ chosen = p /\ (p = 0 \/ active = -1)
        \/ chosen = active /\ p # 0 /\ active # -1
    BY DEF Chosen
  <1>6. p # active
    BY <1>1, PoolSets DEF PoolsInv, OneSession, Sound
  <1> HIDE DEF chosen
  <1>7. \A q \in All :
          /\ q \in Backups /\ q # chosen =>
               Sound(client'[q]) /\ ~ Session(client'[q]) /\ client'[q].failures = -1
          /\ ~ (q \in Backups /\ q # chosen) => client'[q] = cs[q]
    BY <1>3, <1>4, DisconnectClient
  <1>8. chosen \in User /\ chosen \in All /\ chosen # -1 /\ client'[chosen] = cs[chosen]
    BY <1>1, <1>5, <1>7, PoolSets
  <1>9. \A q \in All : Sound(client'[q])
    BY <1>3, <1>7
  <1>10. client' \in [All -> Client]
    <2>1. client' = [q \in All |-> client'[q]]
      BY <1>4
    <2> QED
      BY <1>9, <2>1 DEF Sound
  <1>11. \A q \in User : Session(client'[q]) => chosen = q
    <2> SUFFICES ASSUME NEW q \in User, Session(client'[q]), chosen # q PROVE FALSE
      OBVIOUS
    <2>1. q = 0 /\ client'[q] = cs[q]
      BY <1>7, PoolSets
    <2>2. q # p
      BY <1>5, <2>1
    <2>3. Session(client[q])
      BY <1>3, <2>1, <2>2, PoolSets
    <2>4. active = q
      BY <2>3 DEF PoolsInv, OneSession
    <2> QED
      BY <1>5, <2>1, <2>2, <2>4, PoolSets
  <1>12. chosen # p => client'[chosen] = client[chosen] /\ chosen = active
    BY <1>3, <1>5, <1>8
  <1>13. chosen = p => client'[chosen] = c
    BY <1>3, <1>8
  <1>14. OneSession'
    BY <1>2, <1>4, <1>8, <1>11, <1>12, <1>13 DEF OneSession, PoolsInv
  <1>15. index' = active' /\ client'[active'].failures # -1
    BY <1>2, <1>4, <1>8, <1>12, <1>13 DEF PoolsInv
  <1>16. FirstPoolTried'
    <2>1. client'[0] = cs[0]
      BY <1>7, PoolSets
    <2> QED
      BY <1>2, <1>3, <2>1, PoolSets DEF PoolsInv, FirstPoolTried
  <1>17. chosen = p /\ donate # "active" =>
           /\ mining' \in BOOLEAN /\ job' \in All \X (Jobs \cup {NoJob})
           /\ IF c.job \in Diardi THEN ~ mining' ELSE mining' /\ job' = <<p, c.job>>
           /\ mining' => job'[1] = p
    <2>1. c \in Client
      BY <1>2 DEF Sound
    <2> QED
      BY <1>1, <1>4, <2>1, Mined
  <1>18. ~ (chosen = p /\ donate # "active") => UNCHANGED <<mining, job>>
    BY <1>4 DEF miner
  <1>19. UNCHANGED <<donate, timer>>
    BY <1>4 DEF donation
  <1>20. TypeOK'
    BY <1>1, <1>4, <1>8, <1>10, <1>15, <1>17, <1>18, <1>19 DEF TypeOK
  <1>21. UserJobMined'
    BY <1>4, <1>8, <1>12, <1>13, <1>17, <1>18, <1>19 DEF PoolsInv, UserJobMined
  <1>22. MinesForSomebody'
    BY <1>4, <1>8, <1>12, <1>17, <1>18, <1>19 DEF PoolsInv, MinesForSomebody
  <1>23. Retiring
    BY <1>4, <1>7, PoolSets DEF Retiring
  <1> QED
    BY <1>4, <1>8, <1>9, <1>14, <1>15, <1>16, <1>20, <1>21, <1>22, <1>23 DEF PoolsInv

\* The donation pool accepts the login: DonateStrategy::onActive.
LEMMA FeeLoginStep ==
    ASSUME PoolsInv, Defined, NEW j \in Jobs,
           client[Fee].state = "connected", FeeLogin(LoggedIn(client[Fee], j)), UNCHANGED freed
    PROVE  PoolsInv' /\ Retiring
  <1> DEFINE c == LoggedIn(client[Fee], j)
  <1>1. active \in User \cup {-1} /\ index \in User /\ client \in [All -> Client] /\ TypeOK
    BY PoolSets DEF PoolsInv, TypeOK
  <1>2. Sound(c) /\ c \in Client
    BY LoginClient, PoolSets DEF PoolsInv, Sound
  <1>3. /\ client' = Update(Fee, c) /\ donate' = "active" /\ timer' = TRUE
        /\ Mine(Fee, c) /\ UNCHANGED <<index, active>>
    BY DEF FeeLogin, strategy, TimerOnActive
  <1> HIDE DEF c
  <1>4. client' \in [All -> Client] /\ client'[Fee] = c
        /\ \A q \in All : q # Fee => client'[q] = client[q]
    BY <1>1, <1>2, <1>3, PoolSets DEF Update
  <1>5. /\ mining' \in BOOLEAN /\ job' \in All \X (Jobs \cup {NoJob})
        /\ mining' => job'[1] = Fee
    BY <1>1, <1>2, <1>3, Mined, PoolSets
  <1>6. TypeOK'
    BY <1>1, <1>3, <1>4, <1>5 DEF TypeOK
  <1>7. OneSession' /\ FirstPoolTried' /\ (active' # -1 => client'[active'].failures # -1)
    BY <1>1, <1>3, <1>4, PoolSets DEF PoolsInv, OneSession, FirstPoolTried
  <1>8. UserJobMined' /\ MinesForSomebody'
    BY <1>3, <1>5 DEF UserJobMined, MinesForSomebody
  <1>9. Retiring
    BY <1>3, <1>4, PoolSets DEF Retiring
  <1> QED
    BY <1>2, <1>3, <1>4, <1>6, <1>7, <1>8, <1>9 DEF PoolsInv

\* A pool sends another job.
LEMMA JobStep ==
    ASSUME PoolsInv, NEW p \in All, NEW j \in Jobs, Job(p, j)
    PROVE  PoolsInv' /\ Retiring
  <1> DEFINE c == NewJob(client[p], j)
             mined == \/ p = Fee /\ donate = "active"
                      \/ p = active /\ donate # "active"
  <1>1. active \in User \cup {-1} /\ index \in User /\ client \in [All -> Client] /\ TypeOK
    BY PoolSets DEF PoolsInv, TypeOK
  <1>2. client[p].state = "connected" /\ Defined
    BY DEF Job, Event
  <1>3. /\ Sound(c) /\ Session(c) /\ c \in Client /\ c.failures = client[p].failures
        /\ c.state = "connected" /\ c.job = j
    BY <1>2, JobClient DEF PoolsInv, Sound
  <1>4. /\ client' = Update(p, c)
        /\ IF mined THEN Mine(p, c) ELSE UNCHANGED miner
        /\ UNCHANGED <<index, active, donate, timer, freed>>
    BY DEF Job, strategy, donation
  <1>5. p \in User => active = p
    BY DEF Job, PoolsInv, OneSession
  <1> HIDE DEF c
  <1>6. client' \in [All -> Client] /\ client'[p] = c
        /\ \A q \in All : q # p => client'[q] = client[q]
    BY <1>1, <1>3, <1>4 DEF Update
  <1>7. mined => /\ mining' \in BOOLEAN /\ job' \in All \X (Jobs \cup {NoJob})
                 /\ IF c.job \in Diardi THEN ~ mining' ELSE mining' /\ job' = <<p, c.job>>
                 /\ mining' => job'[1] = p
    BY <1>1, <1>3, <1>4, Mined
  <1>8. ~ mined => UNCHANGED <<mining, job>>
    BY <1>4 DEF miner
  <1>9. TypeOK'
    BY <1>1, <1>4, <1>6, <1>7, <1>8 DEF TypeOK
  <1>10. OneSession' /\ FirstPoolTried' /\ (active' # -1 => client'[active'].failures # -1)
    BY <1>1, <1>3, <1>4, <1>5, <1>6, PoolSets DEF PoolsInv, OneSession, FirstPoolTried
  <1>11. UserJobMined'
    BY <1>1, <1>2, <1>4, <1>6, <1>7, <1>8, PoolSets DEF PoolsInv, UserJobMined
  <1>12. MinesForSomebody'
    BY <1>1, <1>4, <1>7, <1>8, PoolSets DEF PoolsInv, MinesForSomebody
  <1>13. Retiring
    BY <1>3, <1>4, <1>6, PoolSets DEF Retiring
  <1> QED
    BY <1>3, <1>4, <1>6, <1>9, <1>10, <1>11, <1>12, <1>13 DEF PoolsInv

\* A donation ends, and the miner gets the last job of the user's pool again.
LEMMA DonateWaitStep ==
    ASSUME PoolsInv, DonateWait
    PROVE  PoolsInv' /\ Retiring
  <1>1. active \in User \cup {-1} /\ client \in [All -> Client] /\ TypeOK
    BY DEF PoolsInv, TypeOK
  <1>2. UNCHANGED <<client, index, active, freed>> /\ donate' = "wait" /\ timer' = FALSE
    BY DEF DonateWait, strategy
  <1>3. CASE active = -1
    <2>1. mining' = FALSE /\ job' = job
      BY <1>3 DEF DonateWait, ResumeUser, PauseMiner
    <2>2. TypeOK'
      BY <1>1, <1>2, <2>1 DEF TypeOK
    <2> QED
      BY <1>2, <1>3, <2>1, <2>2
      DEF PoolsInv, OneSession, FirstPoolTried, UserJobMined, MinesForSomebody, Retiring
  <1>4. CASE active # -1
    <2>1. Mine(active, client[active]) /\ active \in All /\ client[active] \in Client
      BY <1>1, <1>4, PoolSets DEF DonateWait, ResumeUser
    <2>2. /\ mining' \in BOOLEAN /\ job' \in All \X (Jobs \cup {NoJob})
          /\ IF client[active].job \in Diardi THEN ~ mining'
             ELSE mining' /\ job' = <<active, client[active].job>>
          /\ mining' => job'[1] = active
      BY <1>1, <2>1, Mined
    <2>3. TypeOK'
      BY <1>1, <1>2, <2>2 DEF TypeOK
    <2>4. UserJobMined' /\ MinesForSomebody'
      BY <1>2, <1>4, <2>2 DEF UserJobMined, MinesForSomebody
    <2>5. OneSession' /\ FirstPoolTried' /\ Retiring
      BY <1>2 DEF PoolsInv, OneSession, FirstPoolTried, Retiring
    <2> QED
      BY <1>2, <2>3, <2>4, <2>5 DEF PoolsInv
  <1> QED
    BY <1>3, <1>4

\* The other changes of the donation concern its own client.
LEMMA FeeStep ==
    ASSUME PoolsInv, Defined, NEW c, Sound(c), client' = Update(Fee, c),
           donate # "active", donate' \in {"idle", "connect"}, timer' \in BOOLEAN,
           UNCHANGED <<strategy, miner, freed>>
    PROVE  PoolsInv' /\ Retiring
  <1>1. active \in User \cup {-1} /\ client \in [All -> Client] /\ TypeOK
    BY DEF PoolsInv, TypeOK
  <1>2. UNCHANGED <<index, active, mining, job, freed>>
    BY DEF strategy, miner
  <1>3. client' \in [All -> Client] /\ client'[Fee] = c
        /\ \A q \in All : q # Fee => client'[q] = client[q]
    BY <1>1, PoolSets DEF Update, Sound
  <1>4. TypeOK'
    BY <1>1, <1>2, <1>3 DEF TypeOK
  <1>5. OneSession' /\ FirstPoolTried' /\ (active' # -1 => client'[active'].failures # -1)
    BY <1>1, <1>2, <1>3, PoolSets DEF PoolsInv, OneSession, FirstPoolTried
  <1>6. MinesForSomebody'
    BY <1>2 DEF PoolsInv, MinesForSomebody
  <1>7. UserJobMined'
    BY <1>1, <1>2, <1>3, PoolSets DEF PoolsInv, UserJobMined
  <1>8. Retiring
    BY <1>2, <1>3, PoolSets DEF Retiring
  <1> QED
    BY <1>2, <1>3, <1>4, <1>5, <1>6, <1>7, <1>8 DEF PoolsInv

\* Network::onConfigChanged: another list of pools.
LEMMA ReloadStep ==
    ASSUME PoolsInv, Reload
    PROVE  PoolsInv' /\ Retiring
  <1> DEFINE cs == [p \in All |-> IF p = Fee THEN client[p] ELSE Fresh]
  <1>1. TypeOK /\ client[Fee] \in Client /\ Sound(client[Fee])
    BY PoolSets DEF PoolsInv, Sound
  <1>2. /\ cs \in [All -> Client] /\ cs[Fee] = client[Fee]
        /\ \A p \in User : cs[p] = Fresh
    BY <1>1, FreshClient, PoolSets DEF Sound
  <1>3. /\ client' \in Connecting(cs, 0)
        /\ index' = 0 /\ active' = -1 /\ mining' = FALSE /\ job' = job
        /\ freed' \in BOOLEAN /\ UNCHANGED <<donate, timer>>
    BY DEF Reload, PauseMiner, donation
  <1> HIDE DEF cs
  <1>4. /\ client' \in [All -> Client]
        /\ \A p \in All : Sound(client'[p]) /\ (p \in User => ~ Session(client'[p]))
        /\ client'[0].failures # -1 /\ client'[0].state = "hostLookup"
    <2>1. Sound(cs[0])
      BY <1>2, FreshClient, PoolSets
    <2>2. /\ client' \in [All -> Client] /\ \A q \in All : q # 0 => client'[q] = cs[q]
          /\ Sound(client'[0]) /\ ~ Session(client'[0])
          /\ client'[0].state = "hostLookup" /\ client'[0].failures # -1
      BY <1>2, <1>3, <2>1, ConnectingClients, PoolSets
    <2> QED
      BY <1>1, <1>2, <2>2, FreshClient, PoolSets
  <1>5. TypeOK'
    BY <1>1, <1>3, <1>4, PoolSets DEF TypeOK
  <1>6. OneSession' /\ FirstPoolTried'
    BY <1>3, <1>4, PoolSets DEF OneSession, FirstPoolTried
  <1>7. UserJobMined' /\ MinesForSomebody' /\ Retiring
    BY <1>3 DEF UserJobMined, MinesForSomebody, Retiring
  <1> QED
    BY <1>3, <1>4, <1>5, <1>6, <1>7 DEF PoolsInv

\* The callbacks that concern one client and do not end a connection.
LEMMA CallbackStep ==
    ASSUME PoolsInv, NEW p \in All,
           \/ Resolved(p) \/ Connected(p) \/ Ignored(p)
           \/ Fails(p) \/ Redirect(p) \/ Retry(p)
    PROVE  PoolsInv' /\ Retiring
  <1>1. Defined /\ freed' \in BOOLEAN /\ UNCHANGED <<strategy, donation, miner>>
    BY DEF Resolved, Connected, Ignored, Fails, Redirect, Retry, Event, PoolsInv, TypeOK
  <1>2. Sound(client[p])
    BY DEF PoolsInv
  <1>3. p = active => /\ Session(client[p]) \/ client[p].socket = "closing"
                      /\ client[p].failures # -1
    BY PoolSets DEF PoolsInv, OneSession
  <1>4. p = 0 => client[p].failures # -1 /\ client[p].state # "unconnected"
    BY DEF PoolsInv, FirstPoolTried
  <1>5. CASE Resolved(p)
    <2>1. client[p].socket = "none" /\ client[p].lookups = 1
          /\ client' = Update(p, OpenSocket(client[p]))
      BY <1>5 DEF Resolved
    <2>2. p # active
      BY <1>2, <1>3, <2>1 DEF Sound, Session
    <2>3. LET d == OpenSocket(client[p]) IN
            Sound(d) /\ ~ Session(d) /\ d.failures = client[p].failures
            /\ d.state = "connecting"
      BY <1>2, <2>1, OpenClient
    <2> QED
      BY <1>1, <1>4, <2>1, <2>2, <2>3, ClientStep
  <1>6. CASE Connected(p)
    <2> DEFINE d == [client[p] EXCEPT !.state = "connected"]
    <2>1. client[p].state = "connecting" /\ client' = Update(p, d)
      BY <1>6 DEF Connected, Event
    <2>2. /\ Sound(d) /\ ~ Session(d) /\ d.failures = client[p].failures
          /\ d.state = "connected" /\ d.job = client[p].job
      BY <1>2, <2>1 DEF Sound, Session, Client, States
    <2>3. p # active
      BY <1>2, <1>3, <2>1 DEF Sound, Session
    <2> HIDE DEF d
    <2> QED
      BY <1>1, <1>4, <2>1, <2>2, <2>3, ClientStep
  <1>7. CASE Fails(p)
    <2> DEFINE d == Close(client[p])
    <2>1. client[p].state \in {"connecting", "connected"} /\ client' = Update(p, d)
      BY <1>7 DEF Fails, Event
    <2>2. /\ Sound(d) /\ ~ Session(d) /\ d.failures = client[p].failures
          /\ d.job = client[p].job /\ d.state # "unconnected" /\ d.socket = "closing"
      BY <1>2, <2>1, CloseClient
    <2> HIDE DEF d
    <2> QED
      BY <1>1, <1>3, <1>4, <2>1, <2>2, ClientStep
  <1>8. CASE Redirect(p)
    <2> DEFINE e == Disconnect(client[p])
               cs == Update(p, e)
               d == client'[p]
    <2>1. client[p].state = "connected" /\ client' \in Connecting(cs, p)
      BY <1>8 DEF Redirect, Event
    <2>2. Sound(e) /\ e.job = client[p].job /\ e.socket = "closing"
      BY <1>2, <2>1, DisconnectClient
    <2> HIDE DEF e
    <2>3. /\ cs \in [All -> Client] /\ cs[p] = e
          /\ \A c : [cs EXCEPT ![p] = c] = Update(p, c)
      BY <2>2 DEF PoolsInv, TypeOK, Update, Sound
    <2> HIDE DEF cs
    <2>4. /\ Sound(d) /\ ~ Session(d) /\ d.failures # -1 /\ d.job = client[p].job
          /\ d.state = "hostLookup" /\ d.socket = "closing" /\ client' = Update(p, d)
      BY <2>1, <2>2, <2>3, ConnectingClients
    <2> HIDE DEF d
    <2> QED
      BY <1>1, <1>8, <2>4, ClientStep
  <1>9. CASE Retry(p)
    <2> DEFINE d == client'[p]
    <2>1. client[p].state = "reconnecting" /\ client[p].failures # -1
          /\ client' \in Connecting(client, p)
      BY <1>2, <1>9 DEF Retry, Event, Sound
    <2>2. /\ Sound(d) /\ ~ Session(d) /\ d.failures # -1 /\ d.job = client[p].job
          /\ d.state = "hostLookup" /\ d.socket = client[p].socket /\ client' = Update(p, d)
      BY <1>2, <2>1, ConnectingClients DEF PoolsInv, TypeOK, Update
    <2>3. p = active => client[p].socket = "closing"
      BY <1>3, <2>1 DEF Session
    <2> HIDE DEF d
    <2> QED
      BY <1>1, <2>1, <2>2, <2>3, ClientStep
  <1>10. CASE Ignored(p)
    <2> DEFINE d == Heard(client[p])
    <2>1. client[p].state = "connected" /\ ~ Session(client[p]) /\ client' = Update(p, d)
      BY <1>10 DEF Ignored, Event
    <2>2. /\ Sound(d) /\ ~ Session(d) /\ d.failures = client[p].failures
          /\ d.job = client[p].job /\ d.state = "connected"
      BY <1>2, <2>1, HeardClient
    <2>3. p # active
      BY <1>2, <1>3, <2>1 DEF Sound
    <2> HIDE DEF d
    <2> QED
      BY <1>1, <1>4, <2>1, <2>2, <2>3, ClientStep
  <1> QED
    BY <1>5, <1>6, <1>7, <1>8, <1>9, <1>10

\* The callbacks that end a connection or an attempt.
LEMMA EndStep ==
    ASSUME PoolsInv, NEW p \in All, LookupFails(p) \/ OnCloseCallback(p)
    PROVE  PoolsInv' /\ Retiring
  <1>1. Sound(client[p])
    BY DEF PoolsInv
  <1>2. CASE OnCloseCallback(p)
    <2>1. Defined /\ OnClose(p, Closed(client[p]))
      BY <1>2 DEF OnCloseCallback
    <2>2. LET d == Closed(client[p]) IN
            /\ Sound(d) /\ ~ Session(d) /\ (d.failures = -1 <=> client[p].failures = -1)
            /\ d.failures # -1 => d.state = "reconnecting"
      BY <1>1, ClosedClient
    <2> QED
      BY <2>1, <2>2, CloseStep
  <1>3. CASE LookupFails(p)
    <2> DEFINE e == [client[p] EXCEPT !.lookups = 0]
    <2>1. Defined /\ OnClose(p, Reconnect(e)) /\ client[p].socket = "none"
      BY <1>3 DEF LookupFails
    <2>2. Sound(e) /\ ~ Session(e) /\ e.failures = client[p].failures
      <3> DEFINE n == 0
      <3>1. n \in 0 .. 2
        OBVIOUS
      <3>2. e = [client[p] EXCEPT !.lookups = n]
        OBVIOUS
      <3> HIDE DEF n
      <3> QED
        BY <1>1, <2>1, <3>1, <3>2 DEF Sound, Session, Client
    <2> HIDE DEF e
    <2>3. LET d == Reconnect(e) IN
            /\ Sound(d) /\ ~ Session(d) /\ (d.failures = -1 <=> client[p].failures = -1)
            /\ d.failures # -1 => d.state = "reconnecting"
      BY <2>2, ReconnectClient
    <2> QED
      BY <2>1, <2>3, CloseStep
  <1> QED
    BY <1>2, <1>3

LEMMA PoolsStep == PoolsInv /\ [Next]_vars => PoolsInv' /\ (Retiring \/ UNCHANGED vars)
  <1> SUFFICES ASSUME PoolsInv, [Next]_vars PROVE PoolsInv' /\ (Retiring \/ UNCHANGED vars)
    OBVIOUS
  <1>1. \A p \in All : Sends[p] \subseteq Jobs
    BY Natural
  <1>2. ASSUME NEW p \in All, Callback(p) \/ Retry(p) PROVE PoolsInv' /\ Retiring
    BY <1>1, <1>2, CallbackStep, EndStep, JobStep DEF Callback
  <1>3. ASSUME NEW p \in All, NEW j \in Sends[p], Login(p, j) PROVE PoolsInv' /\ Retiring
    <2>1. Defined /\ client[p].state = "connected" /\ ~ Session(client[p]) /\ UNCHANGED freed
          /\ IF p = Fee THEN FeeLogin(LoggedIn(client[p], j))
             ELSE UserLogin(p, LoggedIn(client[p], j))
      BY <1>3 DEF Login, Event
    <2> QED
      BY <1>1, <2>1, FeeLoginStep, UserLoginStep, PoolSets
  <1>4. CASE DonateConnect
    <2> DEFINE c == client'[Fee]
    <2>1. client' \in Connecting(client, Fee)
      BY <1>4 DEF DonateConnect
    <2>2. Sound(c) /\ client' = Update(Fee, c)
      BY <2>1, ConnectingClients, PoolSets DEF PoolsInv, TypeOK, Update
    <2> HIDE DEF c
    <2> QED
      BY <1>4, <2>2, FeeStep DEF DonateConnect, TimerOnConnect
  <1>5. CASE DonateIdle
    <2>1. Sound(Disconnect(client[Fee]))
      BY DisconnectClient, PoolSets DEF PoolsInv
    <2> QED
      BY <1>5, <2>1, FeeStep DEF DonateIdle
  <1>6. CASE UNCHANGED vars
    BY <1>6 DEF vars, PoolsInv, TypeOK, OneSession, FirstPoolTried, UserJobMined,
                MinesForSomebody, Defined
  <1> QED
    BY <1>2, <1>3, <1>4, <1>5, <1>6, DonateWaitStep, ReloadStep DEF Next

LEMMA PoolsAlways == Spec => []PoolsInv
  BY PoolsInitially, PoolsStep, PTL DEF Spec

-----------------------------------------------------------------------------
\* Clients, strategies and miner keep their shapes.
THEOREM Typing == Spec => []TypeOK
  BY PoolsAlways, PTL DEF PoolsInv

\* At most one pool of the user has a session, the active one (FailoverStrategy).
THEOREM SingleSession == Spec => []OneSession
  BY PoolsAlways, PTL DEF PoolsInv

\* FailoverStrategy::onLoginSuccess tells every backup to stay away, and only a redirection
\* by its own pool brings one back while a pool is active.
THEOREM RetiredStay == Spec => BackupsRetired
  <1>1. PoolsInv /\ [Next]_vars => [Retiring]_vars
    BY PoolsStep
  <1>2. [Retiring]_vars =>
          [\A p \in Backups :
             active' \notin {-1, p} /\ (active' # active \/ client[p].failures = -1)
                 => client'[p].failures = -1 \/ Redirect(p)]_vars
    BY DEF Retiring
  <1> QED
    BY <1>1, <1>2, PoolsAlways, PTL DEF Spec, BackupsRetired

\* The first pool is tried for ever (FailoverStrategy::onClose, Client::reconnect).
THEOREM FirstPool == Spec => []FirstPoolTried
  BY PoolsAlways, PTL DEF PoolsInv

\* The job of the active pool is mined again after a donation (DonateStrategy, Network).
THEOREM UserReturns == Spec => []UserJobMined
  BY PoolsAlways, PTL DEF PoolsInv

\* The miner mines for the user's pool or, during a donation, for the donation pool.
THEOREM SomebodyPaid == Spec => []MinesForSomebody
  BY PoolsAlways, PTL DEF PoolsInv

=============================================================================
