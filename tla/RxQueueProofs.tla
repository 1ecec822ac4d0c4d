--------------------------- MODULE RxQueueProofs ---------------------------
(***************************************************************************)
(* RxQueue for every set of seeds and any number of requests: what isReady *)
(* reports is complete and for the newest seed, the background thread      *)
(* never touches a deleted storage, and the queue implements the abstract  *)
(* DatasetService.                                                         *)
(*                                                                         *)
(* The invariant follows the item through the build: NewestKept says where *)
(* the newest seed is (at the end of the queue, or under construction, or  *)
(* built), BuildState what the storage holds in each phase, Lifetime ties  *)
(* the storage to the life of the background thread.                       *)
(***************************************************************************)
EXTENDS RxQueue, TLAPS

NewestKept ==
    /\ queue # <<>> => queue[Len(queue)] = seed /\ seed \in Seeds
    /\ bg.at \in Building /\ queue = <<>> => bg.item = seed /\ seed \in Seeds
    /\ state = "PENDING" /\ bg.at \notin Building => queue # <<>>
    /\ state = "IDLE" => queue = <<>> /\ bg.at \notin Building

BuildState ==
    /\ bg.at \in {"create", "fill", "finish"} => storage.seed = bg.item
    /\ bg.at = "create" => storage.stage = "empty"
    /\ bg.at = "fill" => storage.stage = "allocated"
    /\ bg.at = "finish" /\ Allocated => storage.stage = "ready"
    /\ state = "IDLE" /\ Allocated => storage.stage = "ready" /\ storage.seed = seed

Lifetime ==
    /\ bg.at \in Building => Exists
    /\ queue # <<>> /\ client.at # "destroyed" => Exists
    /\ state = "SHUTDOWN" <=> client.at \in {"shutdown", "join", "destroyed"}
    /\ client.at = "destroyed" => bg.at = "gone"
    /\ bg.at = "gone" => state = "SHUTDOWN"
    /\ client.at = "enqueue" => client.arg \in Seeds

IInv == TypeOK /\ NewestKept /\ BuildState /\ Lifetime

\* Every action keeps the invariant; each step names the action it is about.
LEMMA Step == IInv /\ [Next]_vars => IInv'
  <1> SUFFICES ASSUME IInv, [Next]_vars PROVE IInv'
    OBVIOUS
  <1> USE RxAssumption
      DEF RxAssumption, IInv, TypeOK, NewestKept, BuildState, Lifetime, Building, MaybeSeed, Exists, Allocated, Created
  <1>1. ASSUME NEW s \in Seeds, CheckNotReady(s)
        PROVE  IInv'
    BY <1>1, SMT DEF CheckNotReady, IsReady
  <1>2. CASE EnqueueSame
    BY <1>2, SMT DEF EnqueueSame, At, SameRequest
  <1>3. CASE Enqueue
    <2>1. /\ queue' \in Seq(Seeds) /\ queue' # <<>>
          /\ queue'[Len(queue')] = client.arg /\ client.arg \in Seeds
      BY <1>3, SMT DEF Enqueue
    <2>2. QED
      BY <1>3, <2>1, SMT DEF Enqueue, At, SameRequest
  <1>4. CASE Notify
    BY <1>4, SMT DEF Notify, At, WakeUp
  <1>5. CASE OnReady
    <2>1. told' \in MaybeSeed
      BY <1>5 DEF OnReady
    <2>2. signal' \in BOOLEAN
      BY <1>5 DEF OnReady
    <2>3. UNCHANGED <<state, seed, queue, storage, bg, client, requests>>
      BY <1>5 DEF OnReady
    <2>4. QED
      BY <2>1, <2>2, <2>3
  <1>6. CASE Shutdown
    BY <1>6, SMT DEF Shutdown, At
  <1>7. CASE NotifyShutdown
    BY <1>7, SMT DEF NotifyShutdown, At, WakeUp
  <1>8. CASE JoinAndDelete
    BY <1>8, SMT DEF JoinAndDelete, At, Joined, NoStorage
  <1>9. CASE BgExit
    BY <1>9, SMT DEF BgExit
  <1>10. CASE BgSkip
    BY <1>10, SMT DEF BgSkip
  <1>11. CASE BgSleep
    BY <1>11, SMT DEF BgSleep
  <1>12. CASE BgTake
    BY <1>12, SMT DEF BgTake, Newest
  <1>13. CASE BuildSetSeed
    BY <1>13, SMT DEF BuildSetSeed
  <1>14. CASE BuildCreate
    <2>1. CASE /\ storage' = [storage EXCEPT !.stage = "allocated"]
               /\ bg' = [bg EXCEPT !.at = "fill"]
      BY <1>14, <2>1, SMT DEF BuildCreate
    <2>2. CASE UNCHANGED storage /\ bg' = [bg EXCEPT !.at = "finish"]
      BY <1>14, <2>2, SMT DEF BuildCreate
    <2>3. QED
      BY <1>14, <2>1, <2>2 DEF BuildCreate
  <1>15. CASE BuildFill
    BY <1>15, SMT DEF BuildFill
  <1>16. CASE FinishStale
    BY <1>16, SMT DEF FinishStale, Superseded
  <1>17. CASE Finish
    BY <1>17, SMT DEF Finish, Superseded, Send
  <1>18. CASE UNCHANGED vars
    BY <1>18, SMT DEF vars
  <1>19. QED
    BY <1>1, <1>2, <1>3, <1>4, <1>5, <1>6, <1>7, <1>8, <1>9, <1>10, <1>11, <1>12, <1>13, <1>14, <1>15, <1>16, <1>17, <1>18 DEF Next, Proceed, Background

\* The invariant holds in every reachable state.
LEMMA Inductive == Spec => []IInv
  <1>1. Init => IInv
    <2> SUFFICES ASSUME Init PROVE IInv
      OBVIOUS
    <2> USE DEF Init, NoStorage, Building, MaybeSeed, Exists, Allocated
    <2>1. TypeOK
      <3>1. queue \in Seq(Seeds) /\ requests \in Nat
        BY SMT
      <3>2. QED
        BY <3>1 DEF TypeOK
    <2>2. NewestKept /\ BuildState /\ Lifetime
      BY SMT DEF NewestKept, BuildState, Lifetime
    <2>3. QED
      BY <2>1, <2>2 DEF IInv
  <1>2. QED
    BY <1>1, Step, PTL DEF Spec

-----------------------------------------------------------------------------
\* Typing of every reachable state.
THEOREM Typing == Spec => []TypeOK
  BY Inductive, PTL DEF IInv

\* A seed that isReady accepts has its complete dataset, and nothing is being
\* built: Rx::dataset never returns memory that is being filled.
THEOREM LatestReady == Spec => []ReadyIsLatest
  <1>1. IInv => ReadyIsLatest
    BY SMT DEF IInv, TypeOK, NewestKept, BuildState, ReadyIsLatest, IsReady, HasDataset,
               Exists, Allocated
  <1>2. QED
    BY <1>1, Inductive, PTL

\* m_queue.back() is defined whenever the background thread uses it.
THEOREM QueueHasItem == Spec => []PendingHasItem
  <1>1. IInv => PendingHasItem
    BY DEF IInv, NewestKept, PendingHasItem
  <1>2. QED
    BY <1>1, Inductive, PTL

\* The destructor deletes the storage only after the last build.
THEOREM StorageOutlivesBuilder == Spec => []BuilderHasStorage
  <1>1. IInv => BuilderHasStorage
    BY DEF IInv, Lifetime, BuilderHasStorage
  <1>2. QED
    BY <1>1, Inductive, PTL

\* Rx::init answers "not ready" only with a build of that seed pending.
THEOREM NotReadyHonest == Spec => NotReadyMeansPending
  <1> DEFINE Honest == client.at = "enqueue" /\ client'.at # "enqueue"
                         => state' = "PENDING" /\ seed' = client.arg
  <1>1. IInv /\ [Next]_vars => Honest
    <2> SUFFICES ASSUME IInv, [Next]_vars, client.at = "enqueue", client'.at # "enqueue"
                 PROVE  state' = "PENDING" /\ seed' = client.arg
      OBVIOUS
    <2>1. EnqueueSame \/ Enqueue
      BY DEF Next, Proceed, Background, CheckNotReady, Notify, OnReady, Shutdown,
             NotifyShutdown, JoinAndDelete, BgExit, BgSleep, BgSkip, BgTake, BuildSetSeed,
             BuildCreate, BuildFill, FinishStale, Finish, vars
    <2>2. QED
      BY <2>1 DEF EnqueueSame, Enqueue, SameRequest
  <1>2. QED
    BY <1>1, Inductive, PTL DEF Spec, NotReadyMeansPending

-----------------------------------------------------------------------------
\* Every step of the queue is a step of the abstract service or a stutter.
LEMMA ServiceStep == IInv /\ [Next]_vars => [Service!Next]_(Service!vars)
  <1> SUFFICES ASSUME IInv, [Next]_vars PROVE [Service!Next]_(Service!vars)
    OBVIOUS
  <1> USE DEF Service!vars, Usable, Allocated
  <1>1. ASSUME UNCHANGED <<seed, state, told>>, Usable' = Usable
        PROVE  UNCHANGED Service!vars
    BY <1>1
  <1>2. ASSUME UNCHANGED <<seed, state, told>>, state # "IDLE" \/ storage' = storage
        PROVE  UNCHANGED Service!vars
    BY <1>2, <1>1
  <1>3. ASSUME bg.at \in Building
        PROVE  state # "IDLE"
    BY <1>3 DEF IInv, NewestKept
  <1>4. CASE \/ \E s \in Seeds : CheckNotReady(s)
             \/ Notify \/ NotifyShutdown \/ BgExit \/ BgSleep \/ BgSkip \/ BgTake
             \/ FinishStale \/ UNCHANGED vars
    BY <1>4, <1>2 DEF CheckNotReady, Notify, NotifyShutdown, BgExit, BgSleep, BgSkip, BgTake,
                      FinishStale, vars
  <1>5. CASE BuildSetSeed \/ BuildCreate \/ BuildFill
    <2>1. bg.at \in Building /\ UNCHANGED <<seed, state, told>>
      BY <1>5 DEF BuildSetSeed, BuildCreate, BuildFill, Building
    <2>2. QED
      BY <2>1, <1>2, <1>3
  <1>6. CASE EnqueueSame
    BY <1>6, <1>2 DEF EnqueueSame, SameRequest
  <1>7. CASE JoinAndDelete
    <2>1. state = "SHUTDOWN"
      BY <1>7, SMT DEF JoinAndDelete, IInv, Lifetime
    <2>2. QED
      BY <1>7, <1>2, <2>1 DEF JoinAndDelete
  <1>8. CASE Enqueue
    <2>1. client.arg \in Seeds
      BY <1>8 DEF Enqueue, IInv, Lifetime
    <2>2. Service!Ask(client.arg)
      BY <1>8 DEF Enqueue, Service!Ask
    <2>3. QED
      BY <2>1, <2>2 DEF Service!Next
  <1>9. CASE Finish
    <2>1. bg.at \in Building /\ queue = <<>> /\ state # "IDLE" /\ bg.at = "finish"
      BY <1>9, <1>3 DEF Finish, Superseded, Building
    <2>2. storage.seed = seed
      BY <2>1 DEF IInv, NewestKept, BuildState
    <2>3. Service!Answer
      BY <1>9, <2>1, <2>2 DEF Finish, Service!Answer
    <2>4. QED
      BY <2>3 DEF Service!Next
  <1>10. CASE OnReady
    <2>1. CASE state = "IDLE"
      <3>1. Service!Announce
        BY <1>10, <2>1 DEF OnReady, Service!Announce
      <3>2. QED
        BY <3>1 DEF Service!Next
    <2>2. CASE state # "IDLE"
      BY <1>10, <1>2, <2>2 DEF OnReady
    <2>3. QED
      BY <2>1, <2>2
  <1>11. CASE Shutdown
    <2>1. Service!Close
      BY <1>11 DEF Shutdown, Service!Close
    <2>2. QED
      BY <2>1 DEF Service!Next
  <1>12. QED
    BY <1>4, <1>5, <1>6, <1>7, <1>8, <1>9, <1>10, <1>11 DEF Next, Proceed, Background

\* RxQueue implements DatasetService.
THEOREM Implements == Spec => ServiceSpec
  <1>1. Init => Service!Init
    BY DEF Init, Service!Init, Usable, Allocated, NoStorage
  <1>2. QED
    BY <1>1, Inductive, ServiceStep, PTL DEF Spec, ServiceSpec, Service!Spec

=============================================================================
