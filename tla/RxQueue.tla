------------------------------ MODULE RxQueue ------------------------------
(***************************************************************************)
(* The RandomX dataset service: src/src/crypto/rx/RxQueue.cpp with the     *)
(* part of Rx.cpp and RxBasicStorage.cpp it works through.                 *)
(*                                                                         *)
(* The main thread asks for a dataset (Rx::init), the background thread of *)
(* RxQueue builds the newest request and wakes the main loop through an    *)
(* Async handle.  Every critical section of m_mutex is one action; the     *)
(* notify_one after the unlock, the three phases of IRxStorage::init and   *)
(* the delivery of the wake-up are actions of their own.                   *)
(***************************************************************************)
EXTENDS Naturals, Sequences

CONSTANTS
    Seeds,         \* RxSeed values: algorithm and seed hash of a job
    NoSeed,        \* the default-constructed RxSeed
    MaxRequests    \* bound: calls of Rx::init that reach the queue

ASSUME RxAssumption == NoSeed \notin Seeds /\ MaxRequests \in Nat

VARIABLES
    state,         \* RxQueue::m_state
    seed,          \* RxQueue::m_seed
    queue,         \* RxQueue::m_queue
    storage,       \* what *m_storage holds
    bg,            \* where the background thread is, and the item it took
    client,        \* where the main thread is, and the seed it asks for
    signal,        \* the Async handle is readable
    told,          \* history: seed announced by onDatasetReady since the last request
    requests       \* bound counter

vars == <<state, seed, queue, storage, bg, client, signal, told, requests>>

\* m_storage: not created, created without memory, with memory, filled.
NoStorage == [stage |-> "none", seed |-> NoSeed]
Exists == storage.stage # "none"
Allocated == storage.stage \in {"allocated", "ready"}    \* IRxStorage::isAllocated
Created == [storage EXCEPT !.stage = IF @ = "none" THEN "empty" ELSE @]

Init ==
    /\ state = "IDLE"
    /\ seed = NoSeed
    /\ queue = <<>>
    /\ storage = NoStorage
    /\ bg = [at |-> "loop", item |-> NoSeed]
    /\ client = [at |-> "free", arg |-> NoSeed]
    /\ signal = FALSE
    /\ told = NoSeed
    /\ requests = 0

\* RxQueue::isReadyUnsafe
IsReady(s) ==
    Exists /\ Allocated /\ state = "IDLE" /\ seed = s

\* RxQueue::dataset returns a pointer for a job of seed s.
HasDataset(s) == IsReady(s) /\ storage = [stage |-> "ready", seed |-> s]

-----------------------------------------------------------------------------
(* The main thread.                                                        *)

At(place) == [at |-> place, arg |-> NoSeed]

\* Rx::init finds the dataset not ready; it enqueues under a second lock.
CheckNotReady(s) ==
    /\ client.at = "free"
    /\ requests < MaxRequests
    /\ ~ IsReady(s)
    /\ client' = [at |-> "enqueue", arg |-> s]
    /\ requests' = requests + 1
    /\ UNCHANGED <<state, seed, queue, storage, bg, signal, told>>

\* Mutation of SameRequest: a seed is the same whatever the state.
SameSeed == seed = client.arg

SameRequest == state = "PENDING" /\ seed = client.arg

\* A request for the seed that is being built already is dropped.
EnqueueSame ==
    /\ client.at = "enqueue"
    /\ SameRequest
    /\ client' = At("free")
    /\ storage' = Created
    /\ UNCHANGED <<state, seed, queue, bg, signal, told, requests>>

Enqueue ==
    /\ client.at = "enqueue"
    /\ ~ SameRequest
    /\ queue' = Append(queue, client.arg)
    /\ seed' = client.arg
    /\ state' = "PENDING"
    /\ storage' = Created
    /\ client' = At("notify")
    /\ told' = NoSeed
    /\ UNCHANGED <<bg, signal, requests>>

\* Mutation of WakeUp: nobody is notified.
WakeNobody(b) == b

WakeUp(b) == IF b.at = "asleep" THEN [b EXCEPT !.at = "woken"] ELSE b

\* m_cv.notify_one(), after the mutex was released.
Notify ==
    /\ client.at = "notify"
    /\ bg' = WakeUp(bg)
    /\ client' = At("free")
    /\ UNCHANGED <<state, seed, queue, storage, signal, told, requests>>

\* The main loop handles the Async handle: RxQueue::onReady.
OnReady ==
    /\ client.at = "free"
    /\ signal
    /\ signal' = FALSE
    /\ told' = IF state = "IDLE" THEN seed ELSE told
    /\ UNCHANGED <<state, seed, queue, storage, bg, client, requests>>

\* ~RxQueue: SHUTDOWN, notify, join, delete.
Shutdown ==
    /\ client.at = "free"
    /\ state' = "SHUTDOWN"
    /\ client' = At("shutdown")
    /\ UNCHANGED <<seed, queue, storage, bg, signal, told, requests>>

NotifyShutdown ==
    /\ client.at = "shutdown"
    /\ bg' = WakeUp(bg)
    /\ client' = At("join")
    /\ UNCHANGED <<state, seed, queue, storage, signal, told, requests>>

\* Mutation of Joined: the storage is deleted while the thread may still run.
NotJoined == TRUE

Joined == bg.at = "gone"

JoinAndDelete ==
    /\ client.at = "join"
    /\ Joined
    /\ storage' = NoStorage
    /\ client' = At("destroyed")
    /\ UNCHANGED <<state, seed, queue, bg, signal, told, requests>>

-----------------------------------------------------------------------------
(* RxQueue::backgroundInit.                                                *)

BgExit ==
    /\ bg.at = "loop"
    /\ state = "SHUTDOWN"
    /\ bg' = [bg EXCEPT !.at = "gone"]
    /\ UNCHANGED <<state, seed, queue, storage, client, signal, told, requests>>

\* m_cv.wait releases the mutex and goes to sleep in one step.
BgSleep ==
    /\ bg.at \in {"loop", "woken"}
    /\ state = "IDLE"
    /\ bg' = [bg EXCEPT !.at = "asleep"]
    /\ UNCHANGED <<state, seed, queue, storage, client, signal, told, requests>>

\* Woken by a shutdown: m_state != STATE_PENDING, back to the loop test.
BgSkip ==
    /\ bg.at = "woken"
    /\ state = "SHUTDOWN"
    /\ bg' = [bg EXCEPT !.at = "loop"]
    /\ UNCHANGED <<state, seed, queue, storage, client, signal, told, requests>>

\* Mutation of Newest: m_queue.front().
Oldest == queue[1]

Newest == queue[Len(queue)]

\* The newest request is taken, the older ones are forgotten.
BgTake ==
    /\ bg.at \in {"loop", "woken"}
    /\ state = "PENDING"
    /\ bg' = [at |-> "setSeed", item |-> Newest]
    /\ queue' = <<>>
    /\ UNCHANGED <<state, seed, storage, client, signal, told, requests>>

\* IRxStorage::init, without the lock: setSeed ...
BuildSetSeed ==
    /\ bg.at = "setSeed"
    /\ storage' = [stage |-> IF Allocated THEN "allocated" ELSE storage.stage,
                   seed |-> bg.item]
    /\ bg' = [bg EXCEPT !.at = IF Allocated THEN "fill" ELSE "create"]
    /\ UNCHANGED <<state, seed, queue, client, signal, told, requests>>

\* ... createDataset, once for the life of the storage; it may fail ...
BuildCreate ==
    /\ bg.at = "create"
    /\ \/ /\ storage' = [storage EXCEPT !.stage = "allocated"]
          /\ bg' = [bg EXCEPT !.at = "fill"]
       \/ /\ bg' = [bg EXCEPT !.at = "finish"]
          /\ UNCHANGED storage
    /\ UNCHANGED <<state, seed, queue, client, signal, told, requests>>

\* ... initDataset.
BuildFill ==
    /\ bg.at = "fill"
    /\ storage' = [storage EXCEPT !.stage = "ready"]
    /\ bg' = [bg EXCEPT !.at = "finish"]
    /\ UNCHANGED <<state, seed, queue, client, signal, told, requests>>

\* Mutation of Superseded: requests queued during the build are not looked at.
SupersededByShutdown == state = "SHUTDOWN"

Superseded == state = "SHUTDOWN" \/ queue # <<>>

\* m_async->send(): sends add up to one wake-up.
Send == TRUE

\* Shut down, or superseded while building: nothing is announced.
FinishStale ==
    /\ bg.at = "finish"
    /\ Superseded
    /\ bg' = [at |-> "loop", item |-> NoSeed]
    /\ UNCHANGED <<state, seed, queue, storage, client, signal, told, requests>>

Finish ==
    /\ bg.at = "finish"
    /\ ~ Superseded
    /\ state' = "IDLE"
    /\ signal' = Send
    /\ bg' = [at |-> "loop", item |-> NoSeed]
    /\ UNCHANGED <<seed, queue, storage, client, told, requests>>

Background ==
    \/ BgExit \/ BgSleep \/ BgSkip \/ BgTake
    \/ BuildSetSeed \/ BuildCreate \/ BuildFill
    \/ FinishStale \/ Finish

\* The main thread inside a call of Rx::init or of the destructor.
Proceed == EnqueueSame \/ Enqueue \/ Notify \/ NotifyShutdown \/ JoinAndDelete

Next ==
    \/ \E s \in Seeds : CheckNotReady(s)
    \/ Proceed
    \/ OnReady
    \/ Shutdown
    \/ Background

Spec == Init /\ [][Next]_vars

\* Threads are scheduled and the event loop polls its descriptors.
FairSpec == Spec /\ WF_vars(Background) /\ WF_vars(Proceed) /\ WF_vars(OnReady)

-----------------------------------------------------------------------------
MaybeSeed == Seeds \cup {NoSeed}

Building == {"setSeed", "create", "fill", "finish"}

\* The states of the queue, of its background thread and of its client.
TypeOK ==
    /\ state \in {"IDLE", "PENDING", "SHUTDOWN"}
    /\ seed \in MaybeSeed
    /\ queue \in Seq(Seeds)
    /\ storage \in [stage : {"none", "empty", "allocated", "ready"}, seed : MaybeSeed]
    /\ bg \in [at : Building \cup {"loop", "asleep", "woken", "gone"}, item : MaybeSeed]
    /\ client \in [at : {"free", "enqueue", "notify", "shutdown", "join", "destroyed"},
                   arg : MaybeSeed]
    /\ signal \in BOOLEAN
    /\ told \in MaybeSeed
    /\ requests \in Nat

\* Whenever isReady says yes for a seed, the storage was built completely for
\* that very seed, however often requests superseded one another while the
\* background thread was building: a worker never gets the dataset of an older
\* job, nor a dataset that is being filled.
ReadyIsLatest == \A s \in Seeds : IsReady(s) => HasDataset(s) /\ bg.at \notin Building

\* m_queue.back() is never taken from an empty vector: a pending state always
\* has its request in the queue, or under construction.
PendingHasItem ==
    /\ state = "PENDING" /\ bg.at \notin Building => queue # <<>> /\ queue[Len(queue)] = seed
    /\ state = "PENDING" /\ bg.at \in Building /\ queue = <<>> => bg.item = seed
    /\ state = "IDLE" => queue = <<>> /\ bg.at \notin Building

\* The background thread never builds in a storage that does not exist or was
\* deleted by the destructor.
BuilderHasStorage == bg.at \in Building => Exists

\* When Rx::init tells the miner "not ready, you will be called", a build for
\* that seed is pending: also after a failed allocation, and when the same
\* seed was ready a moment ago.
NotReadyMeansPending ==
    [][client.at = "enqueue" /\ client'.at # "enqueue"
         => state' = "PENDING" /\ seed' = client.arg]_vars

\* Every request is answered: the state does not stay PENDING for ever, even
\* though the notification is sent after the mutex was released; and a dataset
\* that became ready is announced to the miner, although wake-ups are merged,
\* unless another request or the shutdown got in between.
RequestsAnswered ==
    /\ state = "PENDING" ~> state # "PENDING"
    /\ state = "IDLE" /\ Exists ~> told = seed \/ state # "IDLE"

\* The destructor returns: the background thread notices SHUTDOWN wherever it
\* is, so the join does not wait for ever.
ShutdownCompletes == state = "SHUTDOWN" ~> client.at = "destroyed"

-----------------------------------------------------------------------------
Usable == IF state = "IDLE" /\ Allocated THEN storage.seed ELSE NoSeed

Service == INSTANCE DatasetService WITH
    wanted <- seed, busy <- state # "IDLE", ready <- Usable

\* RxQueue implements the abstract dataset service: a request makes the old
\* dataset unusable at once, only the newest request is answered, and what
\* onDatasetReady announces is the seed that is wanted then.
ServiceSpec == Service!Spec

=============================================================================
