-------------------------- MODULE SelfSelectClient --------------------------
(***************************************************************************)
(* In self-select mode the pool sends a wallet and an extra nonce, the     *)
(* client asks a node for a block template with them, shows it to the pool *)
(* and mines it when the pool agrees.  The requests to the node overtake   *)
(* each other, answers of the pool come in order; and at any time the pool *)
(* sends another job.  Jobs are numbered, and a template is told apart by  *)
(* the job it was made for; 0 stands for none.                             *)
(***************************************************************************)
EXTENDS Integers, Sequences, Bags, BagsExt

CONSTANTS
    SubmitToOrigin,  \* m_submitToOrigin
    MaxJobs,         \* bound: jobs of the pool
    MaxRequests,     \* bound: m_sequence
    MaxAtPool,       \* bound: submissions without an answer
    Retries          \* m_retries

VARIABLES
    sState,      \* m_state: "idle", "wait" or "retry"
    sActive,     \* m_active
    sFailures,   \* m_failures, counted up to one more than the retries
    sJob,        \* m_job: its number, and the job its blob was made for
    sSequence,   \* m_sequence
    atNode,      \* requests to the node: a bag of [id, kind, for]
    atPool,      \* templates shown to the pool, in order
    jobs,        \* jobs sent by the pool
    given,       \* the job the listener was given last
    overtaken,   \* and whether it was then replaced (history)
    agreed,      \* jobs with a template the pool agreed to (history)
    replaced     \* m_job is not the one of the oldest submission (history)

selfVars == <<sState, sActive, sFailures, sJob, sSequence, atNode, atPool, jobs,
              given, overtaken, agreed, replaced>>

NoJob == [id |-> 0, for |-> 0]

SelfInit ==
    /\ sState = "idle" /\ sActive = FALSE /\ sFailures = 0
    /\ sJob = NoJob /\ sSequence = 1
    /\ atNode = EmptyBag /\ atPool = <<>> /\ jobs = 0
    /\ given = NoJob /\ overtaken = FALSE /\ agreed = {} /\ replaced = FALSE

-----------------------------------------------------------------------------
\* setState.
SetState(s) ==
    /\ sState' = s
    /\ sFailures' =
         CASE s = sState   -> sFailures
           [] s = "idle"   -> 0
           [] s = "retry" /\ sFailures <= Retries -> sFailures + 1
           [] OTHER        -> sFailures

\* The request for a template of job j, added to the requests in bag.
Asked(bag, j) == BagAdd(bag, [id |-> sSequence, kind |-> "template", for |-> j])

\* getBlockTemplate.
GetBlockTemplate(j) ==
    /\ sSequence < MaxRequests /\ sSequence' = sSequence + 1
    /\ SetState("wait")

\* onLoginSuccess, which arrives before the job that comes with the login.
LoggedIn ==
    /\ ~sActive /\ sActive' = TRUE
    /\ SetState("idle")
    /\ UNCHANGED <<sJob, sSequence, atNode, atPool, jobs, given, overtaken, agreed, replaced>>

\* onClose: callbacks of the session are not called any more.
Closed ==
    /\ sActive' = FALSE /\ SetState("idle")
    /\ atPool' = <<>> /\ replaced' = FALSE
    /\ UNCHANGED <<sJob, sSequence, atNode, jobs, given, overtaken, agreed>>

\* onJobReceived of the wrapped client: the job has no blob yet.
PoolJob ==
    /\ sActive /\ jobs < MaxJobs
    /\ jobs' = jobs + 1
    /\ sJob' = [id |-> jobs + 1, for |-> 0]
    /\ GetBlockTemplate(jobs + 1)
    /\ atNode' = Asked(atNode, jobs + 1)
    /\ replaced' = (atPool # <<>>)
    /\ UNCHANGED <<sActive, atPool, given, overtaken, agreed>>

\* tick, when the pause of a retry is over.
RetryTick ==
    /\ sState = "retry"
    /\ GetBlockTemplate(sJob.id)
    /\ atNode' = Asked(atNode, sJob.id)
    /\ UNCHANGED <<sActive, sJob, atPool, jobs, given, overtaken, agreed, replaced>>

\* submit with submitOriginDaemon: the block and the request for the next template have
\* the same id, since only getBlockTemplate counts.
Submit ==
    /\ SubmitToOrigin /\ sActive /\ given.id # 0
    /\ GetBlockTemplate(sJob.id)
    /\ atNode' = Asked(BagAdd(atNode, [id |-> sSequence, kind |-> "block", for |-> 0]),
                       sJob.id)
    /\ UNCHANGED <<sActive, sJob, atPool, jobs, given, overtaken, agreed, replaced>>

-----------------------------------------------------------------------------
\* onHttpData, with any answer that is not of use: retry.  The answer to a block is one
\* of them, for want of the fields of a template.
NodeFailed(m) ==
    /\ atNode' = BagRemove(atNode, m)
    /\ SetState("retry")
    /\ UNCHANGED <<sActive, sJob, sSequence, atPool, jobs, given, overtaken, agreed, replaced>>

\* Mutation of Superseded: any answer is taken.
NeverSuperseded(m) == FALSE

Superseded(m) == sSequence - m.id # 1

\* An answer to a request that is not the last one.
NodeStale(m) ==
    /\ Superseded(m)
    /\ atNode' = BagRemove(atNode, m)
    /\ UNCHANGED <<sState, sActive, sFailures, sJob, sSequence, atPool, jobs,
                   given, overtaken, agreed, replaced>>

\* parseResponse and submitBlockTemplate.  Without a session it may be sent or not.
NodeTemplate(m) ==
    /\ ~Superseded(m) /\ m.kind = "template" /\ Len(atPool) < MaxAtPool
    /\ atNode' = BagRemove(atNode, m)
    /\ sJob' = [sJob EXCEPT !.for = m.for]
    /\ \/ atPool' = Append(atPool, sJob')
       \/ ~sActive /\ UNCHANGED atPool
    /\ replaced' = (replaced \/ atPool # <<>>)
    /\ UNCHANGED <<sState, sActive, sFailures, sSequence, jobs, given, overtaken, agreed>>

\* The callback of submitBlockTemplate: m_job is given to the listener, whatever it is
\* by now.
PoolAgreed ==
    /\ atPool # <<>>
    /\ atPool' = Tail(atPool)
    /\ agreed' = agreed \cup {Head(atPool).id}
    /\ replaced' = (replaced /\ Len(atPool) > 1)
    /\ IF sActive THEN SetState("idle") /\ given' = sJob /\ overtaken' = replaced
       ELSE UNCHANGED <<sState, sFailures, given, overtaken>>
    /\ UNCHANGED <<sActive, sJob, sSequence, atNode, jobs>>

PoolRefused ==
    /\ atPool # <<>>
    /\ atPool' = Tail(atPool)
    /\ SetState("retry")
    /\ replaced' = (replaced /\ Len(atPool) > 1)
    /\ UNCHANGED <<sActive, sJob, sSequence, atNode, jobs, given, overtaken, agreed>>

SelfNext ==
    \/ LoggedIn \/ Closed \/ PoolJob \/ RetryTick \/ Submit \/ PoolAgreed \/ PoolRefused
    \/ \E m \in BagToSet(atNode) :
        NodeFailed(m) \/ NodeStale(m) \/ NodeTemplate(m)

SelfSpec == SelfInit /\ [][SelfNext]_selfVars

-----------------------------------------------------------------------------
\* A template is only ever combined with the job it was asked for, though requests
\* overtake each other (the comparison of ids in onHttpData).  The listener is given a
\* job that is whole and that the pool has agreed to, unless another job or template
\* came between the submission and its answer.
JobWhole ==
    /\ sJob.for \in {0, sJob.id}
    /\ given.for \in {0, given.id}
    /\ ~overtaken => given.for = given.id /\ (given = NoJob \/ given.id \in agreed)

=============================================================================
