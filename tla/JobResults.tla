----------------------------- MODULE JobResults -----------------------------
(***************************************************************************)
(* Delivery of shares from the worker threads to the main loop:            *)
(* src/src/net/JobResults.cpp over src/src/base/io/Async.cpp, with the     *)
(* shutdown order of Controller::stop.                                     *)
(*                                                                         *)
(* A worker appends its share to a list under a mutex and, still holding   *)
(* it, makes the event descriptor readable.  The main loop first drains    *)
(* the descriptor (any number of sends make it readable once), then swaps  *)
(* the list under the mutex and calls the listener for each share.         *)
(***************************************************************************)
EXTENDS Naturals, Sequences

LOCAL INSTANCE Functions

CONSTANTS
    Workers,
    MaxShares      \* bound: shares of one worker

ASSUME SharesAssumption == MaxShares \in Nat

VARIABLES
    handler,       \* the static `handler': live, freed (dangling) or null
    results,       \* JobResultsPrivate::m_results
    mutex,         \* JobResultsPrivate::m_mutex: the workers that hold it
    signal,        \* the event descriptor is readable
    main,          \* where the main thread is
    batch,         \* the swapped list that is being delivered
    pc,            \* where each worker is
    found,         \* number of shares each worker found
    posted,        \* history: shares in the order of their push_back
    delivered      \* history: calls of IJobResultListener::onJobResult

mainVars == <<main, batch, delivered>>
workVars == <<pc, found>>
vars == <<handler, results, mutex, signal, main, batch, pc, found, posted, delivered>>

Shares == Workers \X (1..MaxShares)     \* a worker and the number of the share it found

Init ==
    /\ handler = "live"      \* JobResults::setListener, from Network's constructor
    /\ results = <<>> /\ mutex = {} /\ signal = FALSE
    /\ main = "poll" /\ batch = <<>>
    /\ pc = [w \in Workers |-> "hash"] /\ found = [w \in Workers |-> 0]
    /\ posted = <<>> /\ delivered = <<>>

Goto(w, place) == pc' = [pc EXCEPT ![w] = place]

-----------------------------------------------------------------------------
(* A worker thread.                                                        *)

\* CpuWorker::start: value < job.target(), or the nonces of the job ran out.
\* The hashes under way when the sequence becomes 0 are still submitted.
Find(w) ==
    /\ pc[w] = "hash"
    /\ found[w] < MaxShares
    /\ found' = [found EXCEPT ![w] = @ + 1]
    /\ Goto(w, "assert")
    /\ UNCHANGED <<handler, results, mutex, signal, mainVars, posted>>

\* assert(handler != nullptr); if (handler) ... of JobResults::submit
TestHandler(w) ==
    /\ pc[w] = "assert"
    /\ Goto(w, IF handler = "null" THEN "hash" ELSE "enter")
    /\ UNCHANGED <<handler, results, mutex, signal, mainVars, found, posted>>

\* lock_guard and push_back
Push(w) ==
    /\ pc[w] = "enter" /\ handler = "live"
    /\ mutex = {}
    /\ mutex' = {w}
    /\ results' = results \o <<<<w, found[w]>>>>
    /\ posted' = posted \o <<<<w, found[w]>>>>
    /\ Goto(w, "send")
    /\ UNCHANGED <<handler, signal, mainVars, found>>

\* Mutation of Readable: the wake-up is left out.
StaysQuiet == signal

\* uv_async_send: sends add up to one readable descriptor.
Readable == TRUE

\* m_async->send(), inside the critical section
Send(w) ==
    /\ pc[w] = "send" /\ handler = "live"
    /\ signal' = Readable
    /\ Goto(w, "leave")
    /\ UNCHANGED <<handler, results, mutex, mainVars, found, posted>>

Leave(w) ==
    /\ pc[w] = "leave" /\ handler = "live"
    /\ mutex' = {}
    /\ Goto(w, "hash")
    /\ UNCHANGED <<handler, results, signal, mainVars, found, posted>>

\* Anything may follow the use of a deleted handler; the model stops here.
UseFreed(w) ==
    /\ pc[w] \in {"enter", "send", "leave"} /\ handler # "live"
    /\ Goto(w, "undefined")
    /\ UNCHANGED <<handler, results, mutex, signal, mainVars, found, posted>>

\* The job sequence is 0: the worker leaves CpuWorker::start.
Exit(w) ==
    /\ pc[w] = "hash" /\ main = "join"
    /\ Goto(w, "off")
    /\ UNCHANGED <<handler, results, mutex, signal, mainVars, found, posted>>

-----------------------------------------------------------------------------
(* The main thread.                                                        *)

\* on_schedule: read the descriptor until EAGAIN
Drain ==
    /\ main = "poll" /\ signal /\ handler = "live"
    /\ signal' = FALSE
    /\ main' = "swap"
    /\ UNCHANGED <<handler, results, mutex, batch, workVars, posted, delivered>>

\* Mutation of Taken: the list is copied, not swapped.
Copied == results

Taken == <<>>

\* m_results.swap(results), under the mutex
Swap ==
    /\ main = "swap"
    /\ mutex = {}
    /\ batch' = results
    /\ results' = Taken
    /\ main' = "deliver"
    /\ UNCHANGED <<handler, mutex, signal, workVars, posted, delivered>>

\* Mutation of NextShare: the list is read from its end.
LastShare == batch[Len(batch)]

NextShare == Head(batch)

Deliver ==
    /\ main = "deliver" /\ batch # <<>>
    /\ delivered' = delivered \o <<NextShare>>
    /\ batch' = Tail(batch)
    /\ UNCHANGED <<handler, results, mutex, signal, main, workVars, posted>>

\* Mutation of AfterDelivery: the descriptor is drained after the swap.
DrainedAfter == FALSE

AfterDelivery == signal

DeliverEnd ==
    /\ main = "deliver" /\ batch = <<>>
    /\ main' = "poll"
    /\ signal' = AfterDelivery
    /\ UNCHANGED <<handler, results, mutex, batch, workVars, posted, delivered>>

\* Controller::stop: m_network.reset() runs JobResults::stop ...
StopDelete ==
    /\ main = "poll"
    /\ handler' = "freed" /\ signal' = FALSE /\ results' = <<>>
    /\ main' = "deleted"
    /\ UNCHANGED <<mutex, batch, workVars, posted, delivered>>

StopNull ==
    /\ main = "deleted"
    /\ handler' = "null"
    /\ main' = "stopped"
    /\ UNCHANGED <<results, mutex, signal, batch, workVars, posted, delivered>>

\* ... and m_miner->stop(), which ends and joins the workers, comes after it.
StopWorkers ==
    /\ main = "stopped"
    /\ main' = "join"
    /\ UNCHANGED <<handler, results, mutex, signal, batch, workVars, posted, delivered>>

Submit(w) == TestHandler(w) \/ Push(w) \/ Send(w) \/ Leave(w)

Loop == Drain \/ Swap \/ Deliver \/ DeliverEnd

Next ==
    \/ \E w \in Workers : Find(w) \/ Submit(w) \/ UseFreed(w) \/ Exit(w)
    \/ Loop
    \/ StopDelete \/ StopNull \/ StopWorkers

Spec == Init /\ [][Next]_vars

\* The scheduler runs a worker that is inside submit, and the event loop
\* polls its descriptors.  Shares are rare, so that weak fairness is enough
\* for those who wait for the mutex.
FairSpec == Spec /\ WF_vars(Loop) /\ \A w \in Workers : WF_vars(Submit(w))

-----------------------------------------------------------------------------
\* Types of the handler, of the list and of the two kinds of threads.
TypeOK ==
    /\ handler \in {"live", "freed", "null"}
    /\ results \in Seq(Shares) /\ batch \in Seq(Shares)
    /\ posted \in Seq(Shares) /\ delivered \in Seq(Shares)
    /\ mutex \in SUBSET Workers
    /\ signal \in BOOLEAN
    /\ main \in {"poll", "swap", "deliver", "deleted", "stopped", "join"}
    /\ pc \in [Workers -> {"hash", "assert", "enter", "send", "leave", "undefined", "off"}]
    /\ found \in [Workers -> Nat]

\* As long as the handler lives every share that was submitted is either
\* delivered or still on its way, once, in the order of submission: a coalesced
\* wake-up loses nothing and a share is never delivered twice.
ExactlyOnce == handler = "live" => posted = delivered \o batch \o results

\* A share that waits in the list has a wake-up on its way: the descriptor is
\* readable, or the main thread will still swap, or the worker that holds the
\* mutex has yet to send.
WakeUpPending ==
    handler = "live" /\ results # <<>> =>
        signal \/ main = "swap" \/ \E w \in mutex : pc[w] = "send"

\* Every submitted share reaches the listener, unless the miner is shut down:
\* none is forgotten in the list by a wake-up that came too early.
SharesDelivered ==
    \A s \in Shares : s \in Range(posted) ~> s \in Range(delivered) \/ handler # "live"

\* JobResults.cpp asserts in submit that the handler exists.
HandlerExists == \A w \in Workers : pc[w] = "assert" => handler # "null"

-----------------------------------------------------------------------------
Box == INSTANCE Mailbox WITH box <- IF handler = "live" THEN batch \o results ELSE <<>>

\* JobResults implements the mailbox.
MailboxSpec == Box!Spec

=============================================================================
