-------------------------- MODULE JobResultsProofs --------------------------
(***************************************************************************)
(* JobResults for any number of workers and shares: shares are delivered   *)
(* once and in order, a waiting share has a wake-up on its way, and the    *)
(* whole implements the abstract Mailbox.                                  *)
(*                                                                         *)
(* Locking says that mutex holds at most the worker that is between Push   *)
(* and Leave; without it the merged wake-ups could not be told apart.      *)
(* MainThread says that the list being delivered is empty elsewhere.       *)
(***************************************************************************)
EXTENDS JobResults, SequenceTheorems, TLAPS

Places == {"hash", "assert", "enter", "send", "leave", "undefined", "off"}

Locking ==
    handler = "live" =>
        /\ \A w \in Workers : pc[w] \in {"send", "leave"} => mutex = {w}
        /\ \A w \in mutex : pc[w] \in {"send", "leave"}

MainThread ==
    /\ handler = "live" <=> main \in {"poll", "swap", "deliver"}
    /\ main # "deliver" => batch = <<>>
    /\ main = "deleted" => handler = "freed"

Finding ==
    \A w \in Workers :
        /\ found[w] <= MaxShares
        /\ pc[w] \in {"assert", "enter"} => found[w] # 0

IInv == TypeOK /\ ExactlyOnce /\ WakeUpPending /\ Locking /\ MainThread /\ Finding

\* Goto changes one place.
LEMMA GotoPlace ==
    ASSUME NEW w \in Workers, NEW place \in Places, Goto(w, place), pc \in [Workers -> Places]
    PROVE  /\ pc' \in [Workers -> Places]
           /\ pc'[w] = place
           /\ \A v \in Workers \ {w} : pc'[v] = pc[v]
  BY DEF Goto

\* A share that is found has a number.
LEMMA ShareFound ==
    ASSUME IInv, NEW w \in Workers, pc[w] = "enter"
    PROVE  <<w, found[w]>> \in Shares
  <1>1. found[w] \in Nat /\ found[w] <= MaxShares /\ found[w] # 0
    BY DEF IInv, TypeOK, Finding
  <1>2. found[w] \in 1..MaxShares
    BY <1>1, SharesAssumption, SMT DEF SharesAssumption
  <1>3. QED
    BY <1>2 DEF Shares

\* The invariant holds initially.
LEMMA Initially == Init => IInv
  <1> SUFFICES ASSUME Init PROVE IInv
    OBVIOUS
  <1> USE DEF Init
  <1>1. <<>> \in Seq(Shares) /\ <<>> \o <<>> \o <<>> = <<>>
    BY SMT
  <1>2. TypeOK
    BY <1>1, 0 \in Nat DEF TypeOK
  <1>3. ExactlyOnce /\ WakeUpPending /\ Locking /\ MainThread
    BY <1>1 DEF ExactlyOnce, WakeUpPending, Locking, MainThread
  <1>4. Finding
    BY SharesAssumption, SMT DEF Finding, SharesAssumption
  <1>5. QED
    BY <1>2, <1>3, <1>4 DEF IInv

\* A worker's steps keep the invariant.
LEMMA WorkerStep ==
    ASSUME IInv, NEW w \in Workers, Find(w) \/ Submit(w) \/ UseFreed(w) \/ Exit(w)
    PROVE  IInv'
  <1> USE DEF IInv, Places
  <1> DEFINE Types == pc' \in [Workers -> Places] /\ found' \in [Workers -> Nat]
  <1>0. pc \in [Workers -> Places]
    BY DEF TypeOK
  <1>1. ASSUME UNCHANGED <<handler, results, mutex, signal, mainVars, posted>>,
               Finding', Types,
               pc[w] \notin {"send", "leave"} \/ handler # "live",
               pc'[w] \notin {"send", "leave"} \/ handler # "live",
               \A v \in Workers \ {w} : pc'[v] = pc[v]
        PROVE  IInv'
    <2>1. TypeOK'
      BY <1>1 DEF TypeOK, mainVars
    <2>2. ExactlyOnce'
      BY <1>1 DEF ExactlyOnce, mainVars
    <2>3. MainThread'
      BY <1>1 DEF MainThread, mainVars
    <2>4. Locking'
      BY <1>1 DEF Locking, TypeOK
    <2>5. WakeUpPending'
      BY <1>1 DEF WakeUpPending, mainVars, TypeOK
    <2>6. QED
      BY <1>1, <2>1, <2>2, <2>3, <2>4, <2>5
  <1>2. CASE Find(w)
    <2>1. found' \in [Workers -> Nat] /\ found'[w] = found[w] + 1
          /\ \A v \in Workers \ {w} : found'[v] = found[v]
      BY <1>2, SMT DEF Find, TypeOK
    <2>2. pc' \in [Workers -> Places] /\ pc'[w] = "assert"
          /\ \A v \in Workers \ {w} : pc'[v] = pc[v]
      BY <1>2, <1>0, GotoPlace DEF Find
    <2>3. Finding'
      <3>1. found'[w] <= MaxShares /\ found'[w] # 0
        BY <1>2, <2>1, SharesAssumption, SMT DEF Find, TypeOK, SharesAssumption
      <3>2. QED
        BY <2>1, <2>2, <3>1 DEF Finding
    <2>4. QED
      BY <1>2, <2>1, <2>2, <2>3, <1>1 DEF Find
  <1>3. CASE TestHandler(w) \/ UseFreed(w) \/ Exit(w)
    <2> DEFINE place == IF TestHandler(w) THEN IF handler = "null" THEN "hash" ELSE "enter"
                        ELSE IF UseFreed(w) THEN "undefined" ELSE "off"
    <2>1. Goto(w, place) /\ place \in Places
      BY <1>3 DEF TestHandler, UseFreed, Exit
    <2>2. pc' \in [Workers -> Places] /\ pc'[w] = place
          /\ \A v \in Workers \ {w} : pc'[v] = pc[v]
      BY <2>1, <1>0, GotoPlace
    <2>3. UNCHANGED <<handler, results, mutex, signal, mainVars, found, posted>>
      BY <1>3 DEF TestHandler, UseFreed, Exit
    <2>4. pc'[w] \in {"assert", "enter"} => pc[w] = "assert"
      BY <1>3, <2>2 DEF TestHandler, UseFreed, Exit
    <2>5. Finding'
      BY <2>2, <2>3, <2>4 DEF Finding
    <2>6. pc[w] \notin {"send", "leave"} \/ handler # "live"
      BY <1>3 DEF TestHandler, UseFreed, Exit
    <2>7. pc'[w] \notin {"send", "leave"} \/ handler # "live"
      BY <1>3, <2>2 DEF TestHandler, UseFreed, Exit
    <2>8. QED
      BY <2>2, <2>3, <2>5, <2>6, <2>7, <1>1 DEF TypeOK
  <1>4. CASE Push(w)
    <2> DEFINE m == <<w, found[w]>>
    <2>1. pc' \in [Workers -> Places] /\ pc'[w] = "send"
          /\ \A v \in Workers \ {w} : pc'[v] = pc[v]
      BY <1>4, <1>0, GotoPlace DEF Push
    <2>2. <<m>> \in Seq(Shares)
      BY <1>4, ShareFound, SMT DEF Push
    <2>3. TypeOK'
      <3>1. results' \in Seq(Shares) /\ posted' \in Seq(Shares)
        BY <1>4, <2>2, ConcatProperties DEF Push, TypeOK
      <3>2. QED
        BY <1>4, <2>1, <3>1 DEF Push, TypeOK, mainVars
    <2>4. ExactlyOnce'
      <3>1. ASSUME posted = delivered \o batch \o results
            PROVE  posted \o <<m>> = delivered \o batch \o (results \o <<m>>)
        <4>1. delivered \o batch \in Seq(Shares)
          BY ConcatProperties DEF TypeOK
        <4>2. QED
          BY <2>2, <3>1, <4>1, ConcatAssociative DEF TypeOK
      <3>2. QED
        BY <1>4, <3>1 DEF Push, ExactlyOnce, mainVars
    <2>5. WakeUpPending'
      BY <1>4, <2>1 DEF Push, WakeUpPending
    <2>6. Locking'
      <3>1. \A v \in Workers : pc[v] \notin {"send", "leave"}
        BY <1>4 DEF Push, Locking
      <3>2. mutex' = {w}
        BY <1>4 DEF Push
      <3>3. QED
        BY <2>1, <3>1, <3>2 DEF Locking
    <2>7. MainThread' /\ Finding'
      BY <1>4, <2>1 DEF Push, MainThread, Finding, mainVars
    <2>8. QED
      BY <2>3, <2>4, <2>5, <2>6, <2>7
  <1>5. CASE Send(w) \/ Leave(w)
    <2>1. pc' \in [Workers -> Places] /\ pc'[w] \in {"leave", "hash"}
          /\ \A v \in Workers \ {w} : pc'[v] = pc[v]
      BY <1>5, <1>0, GotoPlace DEF Send, Leave
    <2>2. handler = "live" /\ mutex = {w} /\ UNCHANGED <<handler, results, mainVars, found, posted>>
      BY <1>5 DEF Send, Leave, Locking
    <2>3. \/ mutex' = mutex /\ signal' = TRUE /\ pc'[w] = "leave"
          \/ mutex' = {} /\ signal' = signal /\ pc[w] = "leave" /\ pc'[w] = "hash"
      BY <1>5, <1>0, GotoPlace DEF Send, Leave, Readable
    <2>4. TypeOK'
      BY <2>1, <2>2, <2>3 DEF TypeOK, mainVars
    <2>5. ExactlyOnce' /\ MainThread'
      BY <2>2 DEF ExactlyOnce, MainThread, mainVars
    <2>6. Finding'
      BY <2>1, <2>2 DEF Finding
    <2>7. Locking'
      BY <2>1, <2>2, <2>3 DEF Locking
    <2>8. WakeUpPending'
      BY <2>1, <2>2, <2>3 DEF WakeUpPending, mainVars
    <2>9. QED
      BY <2>4, <2>5, <2>6, <2>7, <2>8
  <1>6. QED
    BY <1>2, <1>3, <1>4, <1>5 DEF Submit

\* The main thread's steps keep the invariant.
LEMMA MainStep ==
    ASSUME IInv, Loop \/ StopDelete \/ StopNull \/ StopWorkers
    PROVE  IInv'
  <1> USE DEF IInv
  <1>1. UNCHANGED <<mutex, workVars, posted>>
    BY DEF Loop, Drain, Swap, Deliver, DeliverEnd, StopDelete, StopNull, StopWorkers
  <1>2. Finding'
    BY <1>1 DEF Finding, workVars
  <1>3. CASE Drain \/ DeliverEnd
    <2>1. /\ UNCHANGED <<handler, results, batch, delivered>> /\ handler = "live"
          /\ main' \in {"swap", "poll"} /\ signal' \in BOOLEAN /\ batch = <<>>
          /\ (main' = "swap" \/ (main = "deliver" /\ signal' = signal))
      BY <1>3 DEF Drain, DeliverEnd, AfterDelivery, MainThread, TypeOK
    <2>2. TypeOK'
      BY <1>1, <2>1 DEF TypeOK, workVars
    <2>3. ExactlyOnce' /\ Locking' /\ MainThread'
      BY <1>1, <2>1 DEF ExactlyOnce, Locking, MainThread, workVars
    <2>4. WakeUpPending'
      BY <1>1, <2>1 DEF WakeUpPending, workVars
    <2>5. QED
      BY <1>2, <2>2, <2>3, <2>4
  <1>4. CASE Swap
    <2> USE <1>4 DEF Swap, Taken
    <2>1. <<>> \in Seq(Shares)
      BY SMT
    <2>2. TypeOK'
      BY <1>1, <2>1 DEF TypeOK, workVars
    <2>3. delivered \o <<>> \o results = delivered \o results \o <<>>
      <3>1. delivered \o results \in Seq(Shares)
        BY ConcatProperties DEF TypeOK
      <3>2. QED
        BY <3>1, ConcatEmptySeq DEF TypeOK
    <2>4. batch = <<>> /\ handler = "live"
      BY DEF MainThread
    <2>5. ExactlyOnce'
      BY <1>1, <2>3, <2>4 DEF ExactlyOnce
    <2>6. WakeUpPending' /\ Locking' /\ MainThread'
      BY <1>1, <2>4 DEF WakeUpPending, Locking, MainThread, workVars
    <2>7. QED
      BY <1>2, <2>2, <2>5, <2>6
  <1>5. CASE Deliver
    <2> USE <1>5 DEF Deliver, NextShare
    <2>1. batch \in Seq(Shares) /\ batch # <<>> /\ results \in Seq(Shares) /\ delivered \in Seq(Shares)
      BY DEF TypeOK
    <2>2. Head(batch) \in Shares /\ Tail(batch) \in Seq(Shares)
      BY <2>1, HeadTailProperties
    <2>3. <<Head(batch)>> \in Seq(Shares) /\ delivered \o <<Head(batch)>> \in Seq(Shares)
      <3>1. <<Head(batch)>> \in Seq(Shares)
        BY <2>2, SMT
      <3>2. QED
        BY <2>1, <3>1, ConcatProperties
    <2>4. TypeOK'
      BY <1>1, <2>2, <2>3 DEF TypeOK, workVars
    <2>5. batch = <<Head(batch)>> \o Tail(batch)
      BY <2>1, SMT
    <2>6. delivered \o batch = (delivered \o <<Head(batch)>>) \o Tail(batch)
      <3> HIDE <1>5 DEF Deliver, NextShare, IInv
      <3>1. delivered \o (<<Head(batch)>> \o Tail(batch))
              = (delivered \o <<Head(batch)>>) \o Tail(batch)
        BY <2>1, <2>2, <2>3, ConcatAssociative, SMTT(30)
      <3>2. QED
        BY <2>5, <3>1, Zenon
    <2>7. ExactlyOnce'
      BY <1>1, <2>6 DEF ExactlyOnce
    <2>8. WakeUpPending' /\ Locking' /\ MainThread'
      BY <1>1 DEF WakeUpPending, Locking, MainThread, workVars
    <2>9. QED
      BY <1>2, <2>4, <2>7, <2>8
  <1>6. CASE StopDelete \/ StopNull \/ StopWorkers
    <2>1. handler' \in {"freed", "null"} /\ UNCHANGED <<batch, delivered>>
      BY <1>6 DEF StopDelete, StopNull, StopWorkers, MainThread, TypeOK
    <2>2. results' \in Seq(Shares)
      <3>1. <<>> \in Seq(Shares)
        BY SMT
      <3>2. QED
        BY <1>6, <3>1 DEF StopDelete, StopNull, StopWorkers, TypeOK
    <2>3. signal' \in BOOLEAN /\ main' \in {"deleted", "stopped", "join"}
      BY <1>6 DEF StopDelete, StopNull, StopWorkers, TypeOK
    <2>4. TypeOK'
      BY <1>1, <2>1, <2>2, <2>3 DEF TypeOK, workVars
    <2>5. MainThread'
      BY <1>6, <2>1, <2>3 DEF StopDelete, StopNull, StopWorkers, MainThread
    <2>6. ExactlyOnce' /\ WakeUpPending' /\ Locking'
      BY <2>1 DEF ExactlyOnce, WakeUpPending, Locking
    <2>7. QED
      BY <1>2, <2>4, <2>5, <2>6
  <1>7. QED
    BY <1>3, <1>4, <1>5, <1>6 DEF Loop

\* The invariant holds in every reachable state.
LEMMA Inductive == Spec => []IInv
  <1>1. IInv /\ UNCHANGED vars => IInv'
    BY DEF IInv, TypeOK, ExactlyOnce, WakeUpPending, Locking, MainThread, Finding,
           vars, mainVars, workVars
  <1>2. IInv /\ [Next]_vars => IInv'
    BY <1>1, WorkerStep, MainStep DEF Next
  <1>3. QED
    BY <1>2, Initially, PTL DEF Spec

-----------------------------------------------------------------------------
\* Typing of every reachable state.
THEOREM Typing == Spec => []TypeOK
  BY Inductive, PTL DEF IInv

\* submit, swap and deliver neither lose, nor double, nor reorder a share.
THEOREM NothingLost == Spec => []ExactlyOnce
  BY Inductive, PTL DEF IInv

\* Sends that add up to one wake-up leave no share behind: the descriptor is
\* drained before the list is swapped.
THEOREM NoLostWakeUp == Spec => []WakeUpPending
  BY Inductive, PTL DEF IInv

-----------------------------------------------------------------------------
\* Taking from the front of a list does not disturb what follows it.
LEMMA HeadOfConcat ==
    ASSUME NEW S, NEW s \in Seq(S), NEW t \in Seq(S), s # <<>>
    PROVE  /\ s \o t # <<>>
           /\ Head(s \o t) = Head(s)
           /\ Tail(s \o t) = Tail(s) \o t
  <1>1. Head(s) \in S /\ Tail(s) \in Seq(S) /\ Len(s) > 0
    BY HeadTailProperties, EmptySeq, LenProperties, SMT
  <1>2. s \o t # <<>> /\ Head(s \o t) = Head(s)
    BY <1>1, SMT
  <1>3. Tail(s \o t) = Tail(s) \o t
    BY <1>1, SMT
  <1>4. QED
    BY <1>2, <1>3

\* Every step of JobResults is a step of the mailbox or a stutter.
LEMMA BoxStep == IInv /\ [Next]_vars => [Box!Next]_(Box!vars)
  <1> SUFFICES ASSUME IInv, [Next]_vars PROVE [Box!Next]_(Box!vars)
    OBVIOUS
  <1> USE DEF Box!vars
  <1>1. ASSUME UNCHANGED <<handler, batch, results, delivered>>
        PROVE  UNCHANGED Box!vars
    BY <1>1
  <1>2. ASSUME NEW w \in Workers, Find(w) \/ TestHandler(w) \/ Send(w) \/ Leave(w) \/ UseFreed(w) \/ Exit(w)
        PROVE  UNCHANGED Box!vars
    BY <1>2, <1>1 DEF Find, TestHandler, Send, Leave, UseFreed, Exit, mainVars
  <1>3. CASE Drain \/ DeliverEnd \/ UNCHANGED vars
    BY <1>3, <1>1 DEF Drain, DeliverEnd, vars, mainVars
  <1>4. ASSUME NEW w \in Workers, Push(w)
        PROVE  Box!Next
    <2>1. <<w, found[w]>> \in Shares
      BY <1>4, ShareFound DEF Push
    <2>2. <<<<w, found[w]>>>> \in Seq(Shares)
      BY <2>1, SMT
    <2>3. batch \o (results \o <<<<w, found[w]>>>>) = (batch \o results) \o <<<<w, found[w]>>>>
      BY <2>2, ConcatAssociative DEF IInv, TypeOK
    <2>4. Box!Post(<<w, found[w]>>)
      BY <1>4, <2>3 DEF Push, Box!Post, mainVars
    <2>5. QED
      BY <2>1, <2>4 DEF Box!Next
  <1>5. CASE Swap
    <2>1. batch = <<>> /\ handler = "live" /\ results \in Seq(Shares)
      BY <1>5 DEF Swap, IInv, MainThread, TypeOK
    <2>2. results \o <<>> = <<>> \o results
      BY <2>1, ConcatEmptySeq
    <2>3. QED
      BY <1>5, <2>1, <2>2 DEF Swap, Taken
  <1>6. CASE Deliver
    <2>1. handler = "live" /\ batch \in Seq(Shares) /\ results \in Seq(Shares) /\ batch # <<>>
      BY <1>6 DEF Deliver, IInv, MainThread, TypeOK
    <2>2. /\ batch \o results # <<>>
          /\ Head(batch \o results) = Head(batch)
          /\ Tail(batch \o results) = Tail(batch) \o results
      BY <2>1, HeadOfConcat
    <2>3. Box!Deliver
      BY <1>6, <2>1, <2>2 DEF Deliver, NextShare, Box!Deliver
    <2>4. QED
      BY <2>3 DEF Box!Next
  <1>7. CASE StopDelete \/ StopNull \/ StopWorkers
    <2>1. handler' # "live" /\ delivered' = delivered
      BY <1>7 DEF StopDelete, StopNull, StopWorkers, IInv, MainThread
    <2>2. Box!Close
      BY <2>1 DEF Box!Close
    <2>3. QED
      BY <2>2 DEF Box!Next
  <1>8. QED
    BY <1>2, <1>3, <1>4, <1>5, <1>6, <1>7 DEF Next, Submit, Loop

\* JobResults implements Mailbox.
THEOREM Implements == Spec => MailboxSpec
  <1>1. Init => Box!Init
    <2>1. <<>> \o <<>> = <<>>
      BY SMT
    <2>2. QED
      BY <2>1 DEF Init, Box!Init
  <1>2. QED
    BY <1>1, Inductive, BoxStep, PTL DEF Spec, MailboxSpec, Box!Spec

=============================================================================
