-------------------------- MODULE EventLoopProofs --------------------------
(***************************************************************************)
(* Parts of the event loop, for any length of the history.  First who      *)
(* controls the miner: the automatic pauses of AutoPause agree with the    *)
(* user's commands, and the configuration of ConfigWatch follows its file. *)
(* Then the clients that ask a node for templates, for any number of       *)
(* blocks, jobs and requests on their way: DaemonClient follows the tips   *)
(* it is told of, and SelfSelectClient mines templates made for their job. *)
(*                                                                         *)
(* PauseInv adds to PausesAgree that auto_pause counts the pauses in       *)
(* effect.  WatchInv adds to ConfigFollows why the file's last change is   *)
(* not forgotten: a watch that is not on the file was left by an event     *)
(* that is still to be dealt with (Watched), and what reload has read is   *)
(* still in the file (Loaded).  DaemonInv adds to TemplateFollows that     *)
(* nobody is told of a tip before it exists, and that the tip of the last  *)
(* request was told.  SelfInv adds to JobWhole that the request with the   *)
(* last number was made for the present job, and that a submission that    *)
(* was not replaced is of it.                                              *)
(***************************************************************************)
EXTENDS AutoPause, ConfigWatch, DaemonClient, SelfSelectClient, SequenceTheorems, TLAPS

Count(b) == IF b THEN 1 ELSE 0

PauseTypes ==
    /\ enabled \in BOOLEAN /\ battery_power \in BOOLEAN /\ user_active \in BOOLEAN
    /\ pauseOnBattery \in BOOLEAN /\ pauseOnActive \in BOOLEAN
    /\ onBattery \in BOOLEAN /\ userPresent \in BOOLEAN
    /\ lastWord \in {"auto", "user"}

PauseInv ==
    /\ PauseTypes
    /\ auto_pause = Count(battery_power) + Count(user_active)
    /\ PausesAgree

LEMMA PauseInitially == PauseInit => PauseInv
  <1> SUFFICES ASSUME PauseInit PROVE PauseInv
    OBVIOUS
  <1>1. PauseTypes /\ PausesAgree
    BY Zenon DEF PauseInit, PauseTypes, PausesAgree
  <1>2. Count(battery_power) = 0 /\ Count(user_active) = 0 /\ auto_pause = 0
    BY Zenon DEF PauseInit, Count
  <1> QED
    BY <1>1, <1>2 DEF PauseInv

LEMMA PauseStep == PauseInv /\ [PauseNext]_pauseVars => PauseInv'
  <1> SUFFICES ASSUME PauseInv, [PauseNext]_pauseVars PROVE PauseInv'
    OBVIOUS
  <1> USE DEF PauseInv, PauseTypes, PausesAgree, Count
  <1>1. CASE UserCommand
    <2> PICK wanted \in BOOLEAN : SetEnabled(wanted, battery_power)
      BY <1>1 DEF UserCommand
    <2> QED
      BY <1>1 DEF UserCommand, SetEnabled
  <1>2. CASE LookAtBattery
    BY <1>2 DEF LookAtBattery, Found, SetEnabled
  <1>3. CASE LookAtUser
    BY <1>3 DEF LookAtUser, Found, SetEnabled
  <1>4. CASE ChangeOptions
    BY <1>4 DEF ChangeOptions
  <1>5. CASE MachineChanges
    BY <1>5 DEF MachineChanges
  <1>6. CASE UNCHANGED pauseVars
    BY <1>6 DEF pauseVars
  <1> QED
    BY <1>1, <1>2, <1>3, <1>4, <1>5, <1>6 DEF PauseNext

\* The miner does not run on battery power, and unless the user has spoken last it runs
\* exactly when no automatic pause is in effect (Miner::onTimer, setEnabled).
THEOREM PausesRespected == PauseSpec => []PausesAgree
  <1>1. PauseInv => PausesAgree
    BY DEF PauseInv
  <1> QED
    BY <1>1, PauseInitially, PauseStep, PTL DEF PauseSpec

-----------------------------------------------------------------------------
WatchTypes ==
    /\ file \in [number : Nat, ok : BOOLEAN, watched : BOOLEAN]
    /\ contents \in Nat
    /\ watcher \in BOOLEAN /\ event \in BOOLEAN /\ settling \in BOOLEAN
    /\ missed \in BOOLEAN /\ unsaved \in BOOLEAN
    /\ watch \in {"file", "gone", "nothing"} /\ step \in {"idle", "loaded"}

Watched ==
    /\ watch = "file" => file # Missing
    /\ watcher /\ watch # "file" /\ step = "idle" => event \/ settling \/ missed

Loaded ==
    step = "loaded" /\ watcher /\ file.ok /\ ~missed => config = file.number \/ unsaved

WatchInv == WatchTypes /\ Watched /\ Loaded /\ ConfigFollows

\* What is written to a file makes it one.
LEMMA Written ==
    ASSUME contents \in Nat, NEW ok \in BOOLEAN, NEW watched \in BOOLEAN
    PROVE  /\ Content(ok, watched) \in [number : Nat, ok : BOOLEAN, watched : BOOLEAN]
           /\ Content(ok, watched) # Missing
  BY DEF Content, Missing

LEMMA WatchInitially == ConfigInit => WatchInv
  <1> SUFFICES ASSUME ConfigInit PROVE WatchInv
    OBVIOUS
  <1> USE DEF ConfigInit
  <1>1. file \in [number : Nat, ok : BOOLEAN, watched : BOOLEAN] /\ contents \in Nat
    BY SMT
  <1>2. file # Missing
    BY SMT DEF Missing
  <1>3. WatchTypes
    BY <1>1, Zenon DEF WatchTypes
  <1>4. Watched /\ Loaded /\ ConfigFollows
    BY <1>2 DEF Watched, Loaded, ConfigFollows
  <1> QED
    BY <1>3, <1>4 DEF WatchInv

LEMMA WatchStep == WatchInv /\ [ConfigNext]_configVars => WatchInv'
  <1> SUFFICES ASSUME WatchInv, [ConfigNext]_configVars PROVE WatchInv'
    OBVIOUS
  <1> USE DEF WatchInv, WatchTypes, Watched, Loaded, ConfigFollows
  <1>0. Missing \in [number : Nat, ok : BOOLEAN, watched : BOOLEAN] /\ ~Missing.ok
    BY DEF Missing
  <1>1. CASE Edit
    <2>1. PICK ok \in BOOLEAN, watched \in BOOLEAN : file' = Content(ok, watched)
      BY <1>1 DEF Edit
    <2> QED
      BY <1>1, <2>1, Written DEF Edit
  <1>2. CASE Remove
    BY <1>0, <1>2 DEF Remove
  <1>3. CASE QueueUpdate
    BY <1>3 DEF QueueUpdate
  <1>4. CASE Load
    BY <1>4 DEF Load
  <1>5. CASE WatchAnew
    BY <1>0, <1>5 DEF WatchAnew
  <1>6. CASE Put
    <2>1. PICK watched \in BOOLEAN, saved \in BOOLEAN :
            /\ file' = IF saved THEN Content(TRUE, watched) ELSE file
            /\ event' = (event \/ (saved /\ watch = "file"))
            /\ config' = IF watched /\ watcher /\ saved THEN config ELSE contents + 1
            /\ unsaved' = IF saved THEN (unsaved /\ watched /\ watcher) ELSE TRUE
      BY <1>6 DEF Put
    <2>2. contents' \in Nat /\ UNCHANGED <<watcher, watch, settling, step, missed>>
      BY <1>6 DEF Put
    <2>3. file' \in [number : Nat, ok : BOOLEAN, watched : BOOLEAN]
      BY <2>1, Written
    <2>4. event' \in BOOLEAN /\ unsaved' \in BOOLEAN
      BY <2>1
    <2>5. WatchTypes'
      BY <2>2, <2>3, <2>4
    <2>6. step = "idle"
      BY <1>6 DEF Put
    <2>7. Watched' /\ Loaded'
      BY <2>1, <2>2, <2>6, Written
    <2>8. ConfigFollows'
      BY <2>1, <2>2, <2>6
    <2> QED
      BY <2>5, <2>7, <2>8
  <1>7. CASE UNCHANGED configVars
    BY <1>7 DEF configVars
  <1> QED
    BY <1>1, <1>2, <1>3, <1>4, <1>5, <1>6, <1>7 DEF ConfigNext

\* At rest the configuration is the one in the file, unless a change fell into the gap
\* in which Watcher::reload does not watch.
THEOREM ConfigurationFollows == ConfigSpec => []ConfigFollows
  <1>1. WatchInv => ConfigFollows
    BY DEF WatchInv
  <1> QED
    BY <1>1, WatchInitially, WatchStep, PTL DEF ConfigSpec

-----------------------------------------------------------------------------
\* What BagAdd and BagRemove do to the elements of a bag.
LEMMA Added == \A B, x : BagToSet(BagAdd(B, x)) = BagToSet(B) \cup {x}
  <1> SUFFICES ASSUME NEW B, NEW x PROVE BagToSet(BagAdd(B, x)) = BagToSet(B) \cup {x}
    OBVIOUS
  <1>1. CASE x \in DOMAIN B
    BY <1>1 DEF BagToSet, BagAdd
  <1>2. CASE x \notin DOMAIN B
    BY <1>2 DEF BagToSet, BagAdd
  <1> QED
    BY <1>1, <1>2

LEMMA Removed ==
    \A B, x : /\ BagToSet(BagRemove(B, x)) \subseteq BagToSet(B)
              /\ BagToSet(B) \ {x} \subseteq BagToSet(BagRemove(B, x))
  BY DEF BagToSet, BagRemove

LEMMA NothingIn == BagToSet(EmptyBag) = {}
  BY DEF BagToSet, EmptyBag, SetToBag

-----------------------------------------------------------------------------
\* All requests and answers on their way.
Flying == BagToSet(flight)

DaemonTypes ==
    /\ dJob \in Nat /\ dRequested \in Nat /\ tip \in Nat /\ told \in Nat
    /\ late \in BOOLEAN
    /\ \A m \in Flying : m = [kind |-> m.kind, tip |-> m.tip] /\ m.tip \in Int

ToldInTime ==
    /\ told <= tip /\ dRequested <= told
    /\ \A m \in Flying : m.tip <= tip

DaemonInv == DaemonTypes /\ ToldInTime /\ TemplateFollows

LEMMA DaemonInitially == DaemonInit => DaemonInv
  <1> SUFFICES ASSUME DaemonInit PROVE DaemonInv
    OBVIOUS
  <1>1. Flying = {}
    BY NothingIn DEF DaemonInit, Flying
  <1>2. late \in BOOLEAN /\ dJob = 0 /\ dRequested = 0 /\ tip = 1 /\ told = 0
    BY DEF DaemonInit
  <1>3. DaemonTypes /\ ToldInTime
    BY <1>1, <1>2 DEF DaemonTypes, ToldInTime
  <1>4. TemplateFollows
    BY DEF DaemonInit, TemplateFollows
  <1> QED
    BY <1>3, <1>4 DEF DaemonInv

\* A step that only makes a request.
LEMMA Request ==
    ASSUME DaemonInv, NEW kind, flight' = Fetched(flight, kind),
           UNCHANGED <<dJob, dRequested, tip, told, late>>
    PROVE  DaemonTypes' /\ ToldInTime' /\ (\A t : Coming(t) => Coming(t)')
  <1>1. Flying' = Flying \cup {[kind |-> kind, tip |-> 0]}
    BY Added DEF Flying, Fetched, Msg
  <1>2. DaemonTypes' /\ ToldInTime'
    BY <1>1 DEF DaemonInv, DaemonTypes, ToldInTime
  <1>3. \A t : Coming(t) => Coming(t)'
    BY <1>1 DEF Coming, Flying
  <1> QED
    BY <1>2, <1>3

\* A tip is told of by an answer that is taken from the bag.
LEMMA Telling ==
    ASSUME DaemonInv, NEW m \in Flying, m.tip > 0, m.kind # "template",
           UNCHANGED <<dState, dJob, tip, late>>,
           told' = NewerOf(told, m.tip),
           \/ /\ flight' = Fetched(BagRemove(flight, m), "template")
              /\ dRequested' \in {dRequested, m.tip}
           \/ /\ flight' = BagRemove(flight, m) /\ dRequested' = dRequested
              /\ dJob = m.tip \/ m.tip = dRequested
    PROVE  DaemonInv'
  <1> USE DEF DaemonInv
  <1> DEFINE New == [kind |-> "template", tip |-> 0]
  <1>1. Flying \ {m} \subseteq Flying' /\ Flying' \subseteq Flying \cup {New}
    BY Added, Removed DEF Flying, Fetched, Msg
  <1>2. m.tip \in Nat /\ m.tip <= tip /\ told' \in Nat /\ told <= told' /\ m.tip <= told'
        /\ told' <= tip /\ told' \in {told, m.tip}
    BY DEF DaemonTypes, ToldInTime, NewerOf
  <1>3. DaemonTypes'
    BY <1>1, <1>2 DEF DaemonTypes
  <1>4. dRequested' <= told'
    BY <1>2 DEF DaemonTypes, ToldInTime
  <1>5. ToldInTime'
    BY <1>1, <1>2, <1>4 DEF ToldInTime, DaemonTypes
  <1>6. CASE flight' = Fetched(BagRemove(flight, m), "template")
    <2>1. New \in Flying' /\ New.kind = "template" /\ New.tip = 0
      BY <1>6, Added DEF Flying, Fetched, Msg
    <2> QED
      BY <1>3, <1>5, <2>1 DEF TemplateFollows, Coming, Flying
  <1>7. CASE flight' = BagRemove(flight, m) /\ (dJob = m.tip \/ m.tip = dRequested)
    <2>1. \A t : Coming(t) => Coming(t)'
      BY <1>1 DEF Coming, Flying
    <2>2. TemplateFollows'
      BY <1>2, <1>7, <2>1 DEF TemplateFollows, ToldInTime, DaemonTypes, NewerOf
    <2> QED
      BY <1>3, <1>5, <2>2
  <1> QED
    BY <1>6, <1>7
LEMMA DaemonStep == DaemonInv /\ [DaemonNext]_daemonVars => DaemonInv'
  <1> SUFFICES ASSUME DaemonInv, [DaemonNext]_daemonVars PROVE DaemonInv'
    OBVIOUS
  <1> USE DEF DaemonInv
  <1>1. CASE NewBlock
    <2>1. tip' \in Nat /\ tip <= tip' /\ Flying' = Flying
      BY <1>1 DEF NewBlock, DaemonTypes, Flying
    <2>2. DaemonTypes' /\ ToldInTime'
      BY <1>1, <2>1 DEF NewBlock, DaemonTypes, ToldInTime
    <2>3. TemplateFollows'
      BY <1>1 DEF NewBlock, TemplateFollows, Coming
    <2> QED
      BY <2>2, <2>3
  <1>2. CASE DaemonConnect \/ DaemonDisconnect
    <2>1. dState' # "connected"
      BY <1>2 DEF DaemonConnect, DaemonDisconnect
    <2>2. CASE DaemonConnect
      BY <2>1, <2>2, Request DEF DaemonConnect, TemplateFollows
    <2>3. CASE DaemonDisconnect
      BY <2>1, <2>3 DEF DaemonDisconnect, DaemonTypes, ToldInTime, TemplateFollows, Flying
    <2> QED
      BY <1>2, <2>2, <2>3
  <1>3. CASE DaemonTimer
    <2>1. CASE flight' = flight
      BY <1>3, <2>1
      DEF DaemonTimer, DaemonTypes, ToldInTime, TemplateFollows, Coming, Flying
    <2>2. CASE \E kind : flight' = Fetched(flight, kind)
      <3> PICK kind : flight' = Fetched(flight, kind)
        BY <2>2
      <3> QED
        BY <1>3, Request DEF DaemonTimer, TemplateFollows
    <2> QED
      BY <1>3, <2>1, <2>2 DEF DaemonTimer
  <1>4. CASE DaemonSubmit
    BY <1>4, Request DEF DaemonSubmit, TemplateFollows
  <1>5. ASSUME NEW m \in Flying, Answer(m) PROVE DaemonInv'
    <2>1. PICK t \in {tip, -1} :
            flight' = BagAdd(BagRemove(flight, m), [m EXCEPT !.tip = t])
      BY <1>5 DEF Answer
    <2>2. m = [kind |-> m.kind, tip |-> 0] /\ t \in Int /\ t <= tip
      BY <1>5, <2>1 DEF Answer, DaemonTypes
    <2>3. [m EXCEPT !.tip = t] = [kind |-> m.kind, tip |-> t]
      BY <2>2
    <2>4. /\ Flying' \subseteq Flying \cup {[kind |-> m.kind, tip |-> t]}
          /\ (Flying \ {m}) \cup {[kind |-> m.kind, tip |-> t]} \subseteq Flying'
      BY <2>1, <2>3, Added, Removed DEF Flying
    <2>5. DaemonTypes' /\ ToldInTime'
      BY <1>5, <2>2, <2>4 DEF Answer, DaemonTypes, ToldInTime
    <2>6. ASSUME Coming(told) PROVE Coming(told)'
      <3> PICK n \in Flying : n.kind = "template" /\ (n.tip \in {0, -1} \/ n.tip >= told)
        BY <2>6 DEF Coming, Flying
      <3>1. CASE n = m
        BY <1>5, <2>1, <2>4, <3>1
        DEF Answer, Coming, Flying, ToldInTime, DaemonTypes
      <3>2. CASE n # m
        BY <1>5, <2>4, <3>2 DEF Answer, Coming, Flying
      <3> QED
        BY <3>1, <3>2
    <2> QED
      BY <1>5, <2>5, <2>6 DEF Answer, TemplateFollows
  <1>6. ASSUME NEW m \in Flying, Failed(m) PROVE DaemonInv'
    <2>1. Flying' \subseteq Flying /\ dState' # "connected"
      BY <1>6, Removed DEF Failed, Retry, Flying
    <2> QED
      BY <1>6, <2>1 DEF Failed, DaemonTypes, ToldInTime, TemplateFollows
  <1>7. ASSUME NEW m \in Flying, Template(m) PROVE DaemonInv'
    <2>1. Flying' \subseteq Flying /\ m.tip \in Nat /\ m.tip <= tip
      BY <1>7, Removed DEF Template, Flying, DaemonTypes, ToldInTime
    <2>2. told' \in Nat /\ told <= told' /\ told' <= tip /\ (told <= m.tip => told' = m.tip)
      BY <1>7, <2>1 DEF Template, NewerOf, DaemonTypes, ToldInTime
    <2>3. late' \in BOOLEAN
      BY <1>7 DEF Template
    <2>4. DaemonTypes' /\ ToldInTime'
      BY <1>7, <2>1, <2>2, <2>3 DEF Template, DaemonTypes, ToldInTime
    <2>5. ~late' => told <= m.tip
      <3>1. ~late' => ~(m.tip < told)
        BY <1>7, Zenon DEF Template
      <3> QED
        BY <2>1, <3>1 DEF DaemonTypes
    <2>6. TemplateFollows'
      BY <1>7, <2>2, <2>5 DEF Template, TemplateFollows
    <2> QED
      BY <2>4, <2>6
  <1>8. ASSUME NEW m \in Flying, NoHash(m) PROVE DaemonInv'
    <2>1. /\ Flying' \subseteq Flying \cup {[kind |-> "getinfo", tip |-> 0]}
          /\ Flying \ {m} \subseteq Flying'
      BY <1>8, Added, Removed DEF NoHash, Flying, Fetched, Msg
    <2>2. DaemonTypes' /\ ToldInTime'
      BY <1>8, <2>1 DEF NoHash, DaemonTypes, ToldInTime
    <2>3. Coming(told) => Coming(told)'
      BY <1>8, <2>1 DEF NoHash, Coming, Flying
    <2> QED
      BY <1>8, <2>2, <2>3 DEF NoHash, TemplateFollows
  <1>9. ASSUME NEW m \in Flying, Height(m) PROVE DaemonInv'
    BY <1>9, Telling DEF Height, Outdated
  <1>10. ASSUME NEW m \in Flying, DeroInfo(m) PROVE DaemonInv'
    BY <1>10, Telling DEF DeroInfo, Outdated
  <1>11. ASSUME NEW m \in Flying, Accepted(m) PROVE DaemonInv'
    <2>1. /\ Flying' \subseteq Flying \cup {[kind |-> "template", tip |-> 0]}
          /\ [kind |-> "template", tip |-> 0] \in Flying'
      BY <1>11, Added, Removed DEF Accepted, Flying, Fetched, Msg
    <2>2. DaemonTypes' /\ ToldInTime'
      BY <1>11, <2>1 DEF Accepted, DaemonTypes, ToldInTime
    <2>3. TemplateFollows'
      BY <2>1 DEF TemplateFollows, Coming, Flying
    <2> QED
      BY <2>2, <2>3
  <1>12. CASE UNCHANGED daemonVars
    BY <1>12 DEF daemonVars, DaemonTypes, ToldInTime, TemplateFollows, Coming, Flying
  <1> QED
    BY <1>1, <1>2, <1>3, <1>4, <1>5, <1>6, <1>7, <1>8, <1>9, <1>10, <1>11, <1>12
    DEF DaemonNext, Flying

\* Unless a template came late the client mines the newest tip it was told of, or asks
\* for it (DaemonClient::onHttpData, isOutdated).
THEOREM TipFollowed == DaemonSpec => []TemplateFollows
  <1>1. DaemonInv => TemplateFollows
    BY DEF DaemonInv
  <1> QED
    BY <1>1, DaemonInitially, DaemonStep, PTL DEF DaemonSpec

-----------------------------------------------------------------------------
Asking == BagToSet(atNode)

Job == [id : Nat, for : Nat]

SelfTypes ==
    /\ sJob \in Job /\ given \in Job /\ jobs \in Nat /\ sSequence \in Nat
    /\ atPool \in Seq(Job)
    /\ sActive \in BOOLEAN /\ overtaken \in BOOLEAN /\ replaced \in BOOLEAN

\* Numbers of requests are below the next one, and the last one is of the present job.
Numbered ==
    \A m \in Asking :
        /\ m.id \in Nat /\ m.id < sSequence /\ m.for \in Nat
        /\ m.kind = "template" /\ sSequence - m.id = 1 => m.for = sJob.id

\* What is shown to the pool is whole, and is m_job itself if nothing came in between.
Shown ==
    /\ \A i \in 1 .. Len(atPool) : atPool[i].for = atPool[i].id
    /\ atPool # <<>> /\ ~replaced => Len(atPool) = 1 /\ atPool[1] = sJob

SelfInv == SelfTypes /\ Numbered /\ Shown /\ JobWhole

LEMMA SelfInitially == SelfInit => SelfInv
  <1> SUFFICES ASSUME SelfInit PROVE SelfInv
    OBVIOUS
  <1> USE DEF SelfInit
  <1>1. NoJob \in Job /\ NoJob.for = 0 /\ NoJob.id = 0
    BY DEF NoJob, Job
  <1>2. <<>> \in Seq(Job) /\ Len(<<>>) = 0
    OBVIOUS
  <1>3. sActive \in BOOLEAN /\ overtaken \in BOOLEAN /\ replaced \in BOOLEAN
    OBVIOUS
  <1>4. sJob \in Job /\ given \in Job /\ jobs \in Nat /\ sSequence \in Nat
    BY <1>1
  <1>5. Numbered
    BY NothingIn DEF Numbered, Asking
  <1>6. Shown /\ JobWhole
    BY <1>1, <1>2 DEF Shown, JobWhole
  <1> QED
    BY <1>2, <1>3, <1>4, <1>5, <1>6 DEF SelfInv, SelfTypes

\* getBlockTemplate for the job that is then the present one.
LEMMA NewRequest ==
    ASSUME SelfTypes, Numbered, NEW bag, NEW j \in Nat,
           \A m \in BagToSet(bag) :
               m \in Asking \/ m = [id |-> sSequence, kind |-> "block", for |-> 0],
           atNode' = Asked(bag, j), sSequence' = sSequence + 1, sJob'.id = j
    PROVE  Numbered' /\ sSequence' \in Nat
  <1>1. Asking' = BagToSet(bag) \cup {[id |-> sSequence, kind |-> "template", for |-> j]}
    BY Added DEF Asking, Asked
  <1> QED
    BY <1>1 DEF Numbered, SelfTypes

\* A request is answered.
LEMMA Answered ==
    ASSUME Numbered, NEW m, atNode' = BagRemove(atNode, m), sSequence' = sSequence,
           sJob'.id = sJob.id
    PROVE  Numbered'
  BY Removed DEF Numbered, Asking

\* The oldest submission is answered.
LEMMA PoolAnswer ==
    ASSUME SelfTypes, Shown, atPool # <<>>, atPool' = Tail(atPool),
           replaced' = (replaced /\ Len(atPool) > 1), sJob' = sJob
    PROVE  /\ atPool' \in Seq(Job) /\ replaced' \in BOOLEAN /\ Shown'
           /\ ~replaced => Head(atPool) = sJob /\ sJob.for = sJob.id
  <1>1. /\ atPool' \in Seq(Job) /\ Len(atPool') = Len(atPool) - 1
        /\ \A i \in 1 .. Len(atPool') : atPool'[i] = atPool[i + 1]
        /\ Len(atPool) \in Nat \ {0} /\ Head(atPool) = atPool[1]
    BY DEF SelfTypes
  <1>2. \A i \in 1 .. Len(atPool') : atPool'[i].for = atPool'[i].id
    BY <1>1 DEF Shown
  <1>3. replaced' \in BOOLEAN /\ (~replaced' => Len(atPool) <= 1)
    <2>1. replaced' \in BOOLEAN /\ (~replaced' => ~replaced \/ ~(Len(atPool) > 1))
      BY Zenon
    <2>2. ~replaced => Len(atPool) = 1
      BY DEF Shown
    <2> QED
      BY <1>1, <2>1, <2>2
  <1>4. Shown'
    BY <1>1, <1>2, <1>3 DEF Shown
  <1>5. ~replaced => Head(atPool) = sJob /\ sJob.for = sJob.id
    BY <1>1 DEF Shown
  <1> QED
    BY <1>1, <1>3, <1>4, <1>5
LEMMA SelfStep == SelfInv /\ [SelfNext]_selfVars => SelfInv'
  <1> SUFFICES ASSUME SelfInv, [SelfNext]_selfVars PROVE SelfInv'
    OBVIOUS
  <1> USE DEF SelfInv
  <1>1. CASE LoggedIn
    BY <1>1 DEF LoggedIn, SelfTypes, Numbered, Asking, Shown, JobWhole
  <1>2. CASE Closed
    <2>1. atPool' \in Seq(Job) /\ Len(atPool') = 0 /\ atPool' = <<>>
      BY <1>2 DEF Closed
    <2>2. sActive' \in BOOLEAN /\ replaced' \in BOOLEAN
      BY <1>2 DEF Closed
    <2>3. Numbered' /\ JobWhole'
      BY <1>2 DEF Closed, Numbered, Asking, JobWhole
    <2>4. Shown'
      BY <2>1 DEF Shown
    <2> QED
      BY <1>2, <2>1, <2>2, <2>3, <2>4 DEF Closed, SelfTypes
  <1>3. CASE PoolJob
    <2>1. jobs' \in Nat /\ sJob' = [id |-> jobs + 1, for |-> 0] /\ jobs + 1 \in Nat
      BY <1>3 DEF PoolJob, SelfTypes
    <2>2. sJob' \in Job /\ sJob'.id = jobs + 1 /\ sJob'.for = 0
      BY <2>1 DEF Job
    <2>3. Numbered' /\ sSequence' \in Nat
      BY <1>3, <2>1, <2>2, NewRequest DEF PoolJob, GetBlockTemplate, Asking
    <2>4. replaced' \in BOOLEAN /\ (~replaced' => atPool' = <<>>)
      BY <1>3 DEF PoolJob
    <2>5. Shown' /\ JobWhole'
      BY <1>3, <2>2, <2>4 DEF PoolJob, Shown, JobWhole
    <2> QED
      BY <1>3, <2>1, <2>2, <2>3, <2>4, <2>5 DEF PoolJob, SelfTypes
  <1>4. CASE RetryTick
    <2>1. sJob.id \in Nat
      BY DEF SelfTypes, Job
    <2>2. Numbered' /\ sSequence' \in Nat
      BY <1>4, <2>1, NewRequest DEF RetryTick, GetBlockTemplate, Asking
    <2> QED
      BY <1>4, <2>2 DEF RetryTick, SelfTypes, Shown, JobWhole
  <1>5. CASE Submit
    <2>1. sJob.id \in Nat
      BY DEF SelfTypes, Job
    <2> DEFINE Bag == BagAdd(atNode, [id |-> sSequence, kind |-> "block", for |-> 0])
    <2>2. BagToSet(Bag) = Asking \cup {[id |-> sSequence, kind |-> "block", for |-> 0]}
      BY Added DEF Asking
    <2>3. Numbered' /\ sSequence' \in Nat
      BY <1>5, <2>1, <2>2, NewRequest DEF Submit, GetBlockTemplate
    <2> QED
      BY <1>5, <2>3 DEF Submit, SelfTypes, Shown, JobWhole
  <1>6. CASE PoolAgreed
    <2> USE <1>6 DEF PoolAgreed
    <2>1. /\ atPool' \in Seq(Job) /\ replaced' \in BOOLEAN /\ Shown'
          /\ ~replaced => Head(atPool) = sJob /\ sJob.for = sJob.id
      BY PoolAnswer
    <2>2. Numbered'
      BY DEF Numbered, Asking
    <2>3. given' \in Job /\ overtaken' \in BOOLEAN
      BY DEF SelfTypes
    <2>4. JobWhole'
      BY <2>1 DEF JobWhole
    <2> QED
      BY <2>1, <2>2, <2>3, <2>4 DEF SelfTypes
  <1>7. CASE PoolRefused
    <2> USE <1>7 DEF PoolRefused
    <2>1. atPool' \in Seq(Job) /\ replaced' \in BOOLEAN /\ Shown'
      BY PoolAnswer
    <2>2. Numbered' /\ JobWhole'
      BY DEF Numbered, Asking, JobWhole
    <2> QED
      BY <2>1, <2>2 DEF SelfTypes
  <1>8. ASSUME NEW m \in Asking, NodeFailed(m) \/ NodeStale(m) PROVE SelfInv'
    <2>1. UNCHANGED <<sActive, sJob, sSequence, atPool, jobs, given, overtaken, agreed, replaced>>
          /\ atNode' = BagRemove(atNode, m)
      BY <1>8 DEF NodeFailed, NodeStale
    <2>2. Numbered'
      BY <2>1, Answered
    <2> QED
      BY <2>1, <2>2 DEF SelfTypes, Shown, JobWhole
  <1>9. ASSUME NEW m \in Asking, NodeTemplate(m) PROVE SelfInv'
    <2> USE <1>9 DEF NodeTemplate
    <2>1. m.for = sJob.id /\ m.for \in Nat
      BY DEF Numbered, Superseded
    <2>2. sJob' \in Job /\ sJob'.id = sJob.id /\ sJob'.for = sJob'.id
      BY <2>1 DEF SelfTypes, Job
    <2>3. Numbered'
      BY <2>2, Answered
    <2>4. JobWhole'
      BY <2>2 DEF JobWhole
    <2>5. replaced' \in BOOLEAN /\ (~replaced' => atPool = <<>>)
      BY DEF SelfTypes
    <2>6. CASE atPool' = Append(atPool, sJob')
      <3>1. /\ atPool' \in Seq(Job) /\ Len(atPool') = Len(atPool) + 1
            /\ atPool'[Len(atPool) + 1] = sJob'
            /\ \A i \in 1 .. Len(atPool) : atPool'[i] = atPool[i]
            /\ Len(atPool) \in Nat
        <4> HIDE <1>9 DEF NodeTemplate
        <4> QED
          BY <2>2, <2>6 DEF SelfTypes
      <3>2. \A i \in 1 .. Len(atPool') : atPool'[i].for = atPool'[i].id
        <4> HIDE <1>9 DEF NodeTemplate
        <4> SUFFICES ASSUME NEW i \in 1 .. Len(atPool') PROVE atPool'[i].for = atPool'[i].id
          OBVIOUS
        <4>1. CASE i = Len(atPool) + 1
          BY <2>2, <3>1, <4>1
        <4>2. CASE i # Len(atPool) + 1
          BY <3>1, <4>2 DEF Shown
        <4> QED
          BY <4>1, <4>2
      <3>3. ~replaced' => Len(atPool') = 1 /\ atPool'[1] = sJob'
        <4>1. ASSUME atPool = <<>> PROVE Len(atPool) = 0
          BY <4>1
        <4> QED
          BY <2>5, <3>1, <4>1
      <3>4. Shown'
        BY <3>2, <3>3 DEF Shown
      <3> QED
        BY <2>2, <2>3, <2>4, <2>5, <3>1, <3>4 DEF SelfTypes
    <2>7. CASE UNCHANGED atPool
      <3>1. Shown'
        BY <2>5, <2>7 DEF Shown
      <3> QED
        BY <2>2, <2>3, <2>4, <2>5, <2>7, <3>1 DEF SelfTypes
    <2> QED
      BY <2>6, <2>7
  <1>10. CASE UNCHANGED selfVars
    BY <1>10 DEF selfVars, SelfTypes, Numbered, Asking, Shown, JobWhole
  <1> QED
    BY <1>1, <1>2, <1>3, <1>4, <1>5, <1>6, <1>7, <1>8, <1>9, <1>10 DEF SelfNext, Asking

\* Templates are combined with the job they were made for, and the listener is given a
\* whole job the pool agreed to unless something came in between (onHttpData's
\* comparison of ids, submitBlockTemplate).
THEOREM JobsWhole == SelfSpec => []JobWhole
  <1>1. SelfInv => JobWhole
    BY DEF SelfInv
  <1> QED
    BY <1>1, SelfInitially, SelfStep, PTL DEF SelfSpec

=============================================================================
