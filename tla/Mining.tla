------------------------------- MODULE Mining -------------------------------
(***************************************************************************)
(* The main thread that controls mining (src/src/core/Miner.cpp,           *)
(* backend/cpu/CpuBackend.cpp, backend/common/Workers.cpp) against the CPU *)
(* workers (backend/cpu/CpuWorker.cpp), which talk through the atomics of  *)
(* crypto/common/Nonce: a sequence number and a pause flag.                *)
(*                                                                         *)
(* A command of the main thread is a script: the list of its effects on    *)
(* what the workers can see, one effect per step.  Its conditions are on   *)
(* variables of the main thread alone and are decided when the script is   *)
(* made; what depends on the dataset is decided when it is reached.  A     *)
(* worker does one atomic read or write per step.  The RandomX dataset is  *)
(* the abstract DatasetService, which RxQueue implements.  Nonces are      *)
(* added by MinerNonces: here a round may end well or have come to the end *)
(* of the nonce range, in which case Nonce::next raises the pause flag.    *)
(***************************************************************************)
EXTENDS Naturals, Sequences

CONSTANTS
    Workers,
    Jobs, NoJob,
    DonateJobs,    \* the jobs that come from the donation pool
    Seeds, NoSeed,
    SeedOf(_),     \* RandomX seed of a job, NoSeed for other algorithms
    L3(_),         \* scratchpad size of the algorithm of a job
    Configs,       \* settings of the CPU threads; "disabled" is cpu.enabled = false
    NoThreads,     \* CpuBackendPrivate::threads is empty
    Commands,      \* kinds of commands that reach the main thread
    MaxCommands    \* bound: number of commands

VARIABLES
    \* what the main thread shares with the workers
    seq,           \* Nonce::m_sequence[CPU]
    paused,        \* Nonce::m_paused
    published,     \* MinerPrivate::job, under its mutex
    \* the main thread
    todo,          \* what is left of the current command
    incoming,      \* the argument of setJob
    userJob,       \* MinerPrivate::userJobId
    reset,         \* MinerPrivate::reset
    active,        \* MinerPrivate::active
    enabled,       \* MinerPrivate::enabled
    config,        \* the settings of the CPU backend
    threads,       \* CpuBackendPrivate::threads: what the workers were launched for
    commands,      \* bound counter
    \* the workers
    at,            \* where the worker is
    after,         \* where it goes when consumeJob returns
    got,           \* the job that consumeJob read
    job,           \* WorkerJob::currentJob
    mseq,          \* WorkerJob::m_sequence
    late,          \* history: workers that added a job which was no longer published
    \* the dataset service
    wanted, busy, ready, told

sharedVars == <<seq, paused, published>>
jobVars == <<userJob, reset>>
mainVars == <<todo, incoming, userJob, reset, active, enabled, config, threads, commands>>
workVars == <<at, after, got, job, mseq, late>>
dataVars == <<wanted, busy, ready, told>>
vars == <<sharedVars, mainVars, workVars, dataVars>>

Service == INSTANCE DatasetService

Launch(j, c) == <<L3(j), c>>      \* CpuConfig::get: the launch data for a job

\* Threads that were launched are not the empty list.
LaunchAssumption ==
    \A j \in Jobs \cup {NoJob}, c \in Configs : Launch(j, c) # NoThreads

ASSUME LaunchAssumption

Init ==
    /\ seq = 1 /\ paused = TRUE /\ published = NoJob
    /\ todo = <<>> /\ incoming = NoJob /\ userJob = NoJob /\ reset = TRUE
    /\ active = FALSE /\ enabled = TRUE
    /\ config \in Configs /\ threads = NoThreads /\ commands = 0
    /\ at = [w \in Workers |-> "none"] /\ after = [w \in Workers |-> "top"]
    /\ got = [w \in Workers |-> NoJob] /\ job = [w \in Workers |-> NoJob]
    /\ mseq = [w \in Workers |-> 0] /\ late = {}
    /\ Service!Init

\* The dataset of a RandomX job can be used; other jobs need none.
HasData(j) == SeedOf(j) \in {NoSeed, ready}

-----------------------------------------------------------------------------
(* Scripts of the main thread.                                             *)

\* Mutation of StopWorkers: the sequence starts again before the join.
TouchedFirst(t) == IF t = NoThreads THEN <<>> ELSE <<"zero", "touch", "join">>

\* Workers<T>::stop, called by CpuBackend::stop when there are threads
StopWorkers(t) == IF t = NoThreads THEN <<>> ELSE <<"zero", "join", "touch">>

\* Mutation of SameThreads: workers that run need not be started again.
AnyThreads(j, t, c) == t # NoThreads

SameThreads(j, t, c) == t = Launch(j, c)      \* CpuLaunchData::isEqual

\* CpuBackend::setJob for threads t and settings c
BackendSetJob(j, t, c) ==
    IF j = NoJob \/ c = "disabled" THEN StopWorkers(t)
    ELSE IF SameThreads(j, t, c) THEN <<>>
    ELSE StopWorkers(t) \o <<"touch", "start">>

\* Mutation of Touch: the workers are not told.
NoTouch == <<>>

Touch == <<"touch">>

\* Mutation of Resumes: the pool connection is not asked for.
ResumesInactive(act) == enabled

Resumes(act) == act /\ enabled

\* MinerPrivate::handleJobChange
HandleJobChange(j, t, act, r) ==
    (IF enabled THEN <<>> ELSE <<"pause">>)
    \o (IF r THEN <<"reset">> ELSE <<>>)
    \o BackendSetJob(j, t, config)
    \o Touch
    \o (IF Resumes(act) THEN <<"resume">> ELSE <<>>)

\* Miner::stop: Nonce::stop, then the backends
MinerStop == <<"resume", "zero">> \o StopWorkers(threads)

Idle == todo = <<>>

Command(kind) ==
    /\ Idle
    /\ kind \in Commands
    /\ commands < MaxCommands
    /\ commands' = commands + 1

\* Mutation of StopFirst: the dataset changes under the workers.
StopNever(j) == <<>>

StopFirst(j) == IF HasData(j) THEN <<>> ELSE MinerStop

\* Miner::setJob: a job whose dataset is not ready stops the workers first.
SetJob(j) ==
    /\ Command("job")
    /\ incoming' = j
    /\ todo' = StopFirst(j) \o <<"publish">>
    /\ UNCHANGED <<sharedVars, jobVars, active, enabled, config, threads, workVars, dataVars>>

\* Miner::pause: no pool is connected
Pause ==
    /\ Command("pause")
    /\ active' = FALSE
    /\ todo' = <<"pause", "touch">>
    /\ UNCHANGED <<sharedVars, incoming, jobVars, enabled, config, threads, workVars, dataVars>>

\* Miner::setEnabled: by key, by JSON-RPC or by auto-pause
SetEnabled(b) ==
    /\ Command("enable")
    /\ enabled # b
    /\ enabled' = b
    /\ todo' = IF active THEN <<IF b THEN "resume" ELSE "pause", "touch">> ELSE <<>>
    /\ UNCHANGED <<sharedVars, incoming, jobVars, active, config, threads, workVars, dataVars>>

\* Miner::stop, by JSON-RPC or at the end of the program
Stop ==
    /\ Command("stop")
    /\ todo' = MinerStop
    /\ UNCHANGED <<sharedVars, incoming, jobVars, active, enabled, config, threads, workVars, dataVars>>

\* Miner::onConfigChanged; when the pools changed the backends are not told.
Reload(c) ==
    /\ Command("reload")
    /\ config' = c
    /\ todo' \in {<<>>, BackendSetJob(published, threads, c)}
    /\ UNCHANGED <<sharedVars, incoming, jobVars, active, enabled, threads, workVars, dataVars>>

\* RxQueue::onReady calls Miner::onDatasetReady, once for a request.
OnDatasetReady ==
    /\ Idle
    /\ told # wanted
    /\ Service!Announce
    /\ todo' = IF published # NoJob /\ SeedOf(published) # NoSeed /\ HasData(published)
               THEN HandleJobChange(published, threads, active, reset) ELSE <<>>
    /\ UNCHANGED <<sharedVars, incoming, jobVars, active, enabled, config, threads, commands, workVars>>

-----------------------------------------------------------------------------
(* The steps of a script.                                                  *)

First(step) == todo # <<>> /\ Head(todo) = step

StepDone == todo' = Tail(todo)

SetPause ==
    /\ First("pause") \/ First("resume")
    /\ paused' = First("pause")
    /\ StepDone
    /\ UNCHANGED <<seq, published, incoming, jobVars, active, enabled, config, threads, commands,
                   workVars, dataVars>>

SetSequence ==
    /\ First("touch") \/ First("zero")
    /\ seq' = IF First("touch") THEN seq + 1 ELSE 0
    /\ StepDone
    /\ UNCHANGED <<paused, published, incoming, jobVars, active, enabled, config, threads, commands,
                   workVars, dataVars>>

\* MinerPrivate::handleJobChange: Nonce::reset of the counter of the job
ResetNonces ==
    /\ First("reset")
    /\ StepDone
    /\ UNCHANGED <<sharedVars, incoming, jobVars, active, enabled, config, threads, commands,
                   workVars, dataVars>>

Index(j) == IF j \in DonateJobs THEN 1 ELSE 0

\* Mutation of BackToUser: the counter is reset after a donation as well.
NeverBack == FALSE

\* After a donation the user's job goes on where it was left.
BackToUser == Index(published) = 1 /\ Index(incoming) = 0 /\ userJob = incoming

\* The critical section of setJob with initRX, and active = true after it.
Publish ==
    /\ First("publish")
    /\ published' = incoming
    /\ reset' = ~ BackToUser
    /\ userJob' = IF Index(incoming) = 0 THEN incoming ELSE userJob
    /\ active' = TRUE
    /\ IF HasData(incoming)
       THEN todo' = HandleJobChange(incoming, threads, TRUE, reset') /\ UNCHANGED dataVars
       ELSE StepDone /\ Service!Ask(SeedOf(incoming))
    /\ UNCHANGED <<seq, paused, incoming, enabled, config, threads, commands, workVars>>

AllGone == \A w \in Workers : at[w] = "gone"

\* delete worker: ~Thread joins; then m_workers and threads are cleared.
Join ==
    /\ First("join")
    /\ AllGone
    /\ at' = [w \in Workers |-> "none"]
    /\ threads' = NoThreads
    /\ StepDone
    /\ UNCHANGED <<sharedVars, incoming, jobVars, active, enabled, config, commands,
                   after, got, job, mseq, late, dataVars>>

\* Workers<T>::start: fresh workers with an empty WorkerJob
Start ==
    /\ First("start")
    /\ threads' = Launch(published, config)
    /\ at' = [w \in Workers |-> "new"]
    /\ after' = [w \in Workers |-> "top"]
    /\ got' = [w \in Workers |-> NoJob]
    /\ job' = [w \in Workers |-> NoJob]
    /\ mseq' = [w \in Workers |-> 0]
    /\ late' = {}
    /\ StepDone
    /\ UNCHANGED <<sharedVars, incoming, jobVars, active, enabled, config, commands, dataVars>>

Script == SetPause \/ ResetNonces \/ SetSequence \/ Publish \/ Join \/ Start

-----------------------------------------------------------------------------
(* The workers.                                                            *)

Goto(w, place) == at' = [at EXCEPT ![w] = place]

OnlyMoves == UNCHANGED <<sharedVars, mainVars, after, got, job, mseq, late, dataVars>>

\* Workers<T>::onReady: the self-test may fail.
Begin(w) ==
    /\ at[w] = "new"
    /\ Goto(w, "top") \/ Goto(w, "gone")
    /\ OnlyMoves

\* while (Nonce::sequence(CPU) > 0)
LoopTop(w) ==
    /\ at[w] = "top"
    /\ Goto(w, IF seq = 0 THEN "gone" ELSE "isPaused")
    /\ OnlyMoves

IsPaused(w) ==
    /\ at[w] = "isPaused"
    /\ Goto(w, IF paused THEN "sleep" ELSE "isOutdated")
    /\ OnlyMoves

\* Mutation of Wakes: a sleeping worker does not look at the sequence.
WakesOnlyForWork == ~ paused

Wakes == ~ paused \/ seq = 0

\* while (Nonce::isPaused() && Nonce::sequence(CPU) > 0), two reads
WakeUp(w) ==
    /\ at[w] = "sleep"
    /\ Wakes
    /\ Goto(w, "awake")
    /\ OnlyMoves

Awake(w) ==
    /\ at[w] = "awake"
    /\ Goto(w, IF seq = 0 THEN "gone" ELSE "consume")
    /\ after' = [after EXCEPT ![w] = "isOutdated"]
    /\ UNCHANGED <<sharedVars, mainVars, got, job, mseq, late, dataVars>>

\* consumeJob: the test of the sequence ...
Consume(w) ==
    /\ at[w] = "consume"
    /\ Goto(w, IF seq = 0 THEN after[w] ELSE "read")
    /\ OnlyMoves

\* ... Miner::job, under the mutex ...
ReadJob(w) ==
    /\ at[w] = "read"
    /\ got' = [got EXCEPT ![w] = published]
    /\ Goto(w, "add")
    /\ UNCHANGED <<sharedVars, mainVars, after, job, mseq, late, dataVars>>

\* consumeJob goes on to allocateRandomX_VM for a RandomX job.
Added(w) == Goto(w, IF SeedOf(got[w]) = NoSeed THEN after[w] ELSE "dataset")

\* ... WorkerJob::add, which takes the sequence number after the job ...
AddJob(w) ==
    /\ at[w] = "add"
    /\ mseq' = [mseq EXCEPT ![w] = seq]
    /\ late' = IF got[w] # published THEN late \cup {w} ELSE late \ {w}
    /\ IF got[w] = job[w] THEN Added(w) ELSE Goto(w, "save")
    /\ UNCHANGED <<sharedVars, mainVars, after, got, job, dataVars>>

\* ... and save, which may take the last range of nonces.
SaveJob(w) ==
    /\ at[w] = "save"
    /\ job' = [job EXCEPT ![w] = got[w]]
    /\ Added(w) \/ Goto(w, "lastSave")
    /\ UNCHANGED <<sharedVars, mainVars, after, got, mseq, late, dataVars>>

LastSave(w) ==
    /\ at[w] = "lastSave"
    /\ paused' = TRUE
    /\ Added(w)
    /\ UNCHANGED <<seq, published, mainVars, after, got, job, mseq, late, dataVars>>

\* allocateRandomX_VM: Rx::dataset, and if there is none sleep ...
FindDataset(w) ==
    /\ at[w] = "dataset"
    /\ Goto(w, IF HasData(job[w]) THEN after[w] ELSE "waiting")
    /\ OnlyMoves

\* ... and look at the sequence before the next attempt.
AwaitDataset(w) ==
    /\ at[w] = "waiting"
    /\ seq = 0 \/ HasData(job[w])
    /\ Goto(w, after[w])
    /\ OnlyMoves

\* Nonce::isOutdated, then the test of the scratchpad size; an empty job has none.
Outdated(w) == mseq[w] # seq \/ job[w] = NoJob \/ L3(job[w]) # threads[1]

IsOutdated(w) ==
    /\ at[w] = "isOutdated"
    /\ IF Outdated(w)
       THEN Goto(w, "consume") /\ after' = [after EXCEPT ![w] = "top"]
       ELSE Goto(w, "hash") /\ UNCHANGED after
    /\ UNCHANGED <<sharedVars, mainVars, got, job, mseq, late, dataVars>>

\* The hash and nextRound; the share is for JobResults.
Hash(w) ==
    /\ at[w] = "hash"
    /\ Goto(w, "isOutdated")
    /\ OnlyMoves

\* Nonce::next returns false: JobResults::done, and the next job is consumed.
Exhausted(w) ==
    /\ at[w] \in {"hash", "lastRange"}
    /\ paused' = (paused \/ at[w] = "lastRange")
    /\ Goto(w, "consume")
    /\ after' = [after EXCEPT ![w] = "top"]
    /\ UNCHANGED <<seq, published, mainVars, got, job, mseq, late, dataVars>>

\* Nonce::next found the end of the range and is about to call pause(true);
\* the range ends exactly there, or it is too short.
LastRange(w) ==
    /\ at[w] = "hash"
    /\ Goto(w, "lastRange")
    /\ OnlyMoves

LastRangeFits(w) ==
    /\ at[w] = "lastRange"
    /\ paused' = TRUE
    /\ Goto(w, "isOutdated")
    /\ UNCHANGED <<seq, published, mainVars, after, got, job, mseq, late, dataVars>>

Worker(w) ==
    \/ Begin(w) \/ LoopTop(w) \/ IsPaused(w) \/ WakeUp(w) \/ Awake(w)
    \/ Consume(w) \/ ReadJob(w) \/ AddJob(w) \/ SaveJob(w) \/ LastSave(w)
    \/ FindDataset(w) \/ AwaitDataset(w) \/ IsOutdated(w) \/ Hash(w) \/ LastRange(w) \/ LastRangeFits(w) \/ Exhausted(w)

\* The background thread of RxQueue.
Build ==
    /\ Service!Answer
    /\ UNCHANGED <<sharedVars, mainVars, workVars>>

Operation ==
    \/ \E j \in Jobs : SetJob(j)
    \/ \E b \in BOOLEAN : SetEnabled(b)
    \/ \E c \in Configs : Reload(c)
    \/ Pause \/ Stop

Next == Operation \/ OnDatasetReady \/ Script \/ Build \/ \E w \in Workers : Worker(w)

Spec == Init /\ [][Next]_vars

\* Every thread runs.  A worker that is never told to stop still comes to the
\* end of its nonces while the main thread waits for it, since nobody resets
\* the counter then.
FairSpec ==
    /\ Spec /\ WF_vars(Script) /\ WF_vars(Build) /\ WF_vars(OnDatasetReady)
    /\ \A w \in Workers : WF_vars(Worker(w)) /\ SF_vars(Exhausted(w) /\ First("join"))

-----------------------------------------------------------------------------
Hashing == {"hash", "lastRange"}

Alive(w) == at[w] \notin {"none", "gone"}

Steps == {"pause", "resume", "touch", "zero", "join", "start", "publish", "reset"}

Places == {"none", "new", "top", "isPaused", "sleep", "awake", "consume", "read", "add", "save", "lastSave",
           "dataset", "waiting", "isOutdated", "hash", "lastRange", "gone"}

\* The shapes of the script, of the atomics and of what a worker keeps.
TypeOK ==
    /\ seq \in Nat /\ paused \in BOOLEAN /\ published \in Jobs \cup {NoJob}
    /\ todo \in Seq(Steps) /\ incoming \in Jobs \cup {NoJob}
    /\ userJob \in Jobs \cup {NoJob} /\ reset \in BOOLEAN
    /\ active \in BOOLEAN /\ enabled \in BOOLEAN /\ config \in Configs
    /\ threads \in {Launch(j, c) : j \in Jobs, c \in Configs} \cup {NoThreads}
    /\ commands \in Nat
    /\ at \in [Workers -> Places] /\ after \in [Workers -> {"top", "isOutdated"}]
    /\ got \in [Workers -> Jobs \cup {NoJob}] /\ job \in [Workers -> Jobs \cup {NoJob}]
    /\ mseq \in [Workers -> Nat] /\ late \in SUBSET Workers

\* A worker never hashes with a dataset that is missing, of another seed or
\* being rebuilt.  A worker that took 0 for its sequence (see StopSeen) may
\* have given up waiting for it.
DatasetStable ==
    \A w \in Workers :
        at[w] \in Hashing /\ mseq[w] # 0 => HasData(job[w])

\* The sequence starts again from 0 only when nobody is left who remembers an
\* older number: a worker can not take a later sequence for its own.
SequenceFresh == \A w \in Workers : Alive(w) /\ seq # 0 => mseq[w] <= seq

\* Between commands, a worker that hashes and believes to be up to date has the
\* published job, unless setJob came between its reading of the job and of the sequence:
\* that window is the only way to mine an old job with a current sequence.
CurrentJob ==
    \A w \in Workers :
        Idle /\ at[w] \in Hashing /\ seq # 0 /\ mseq[w] = seq /\ w \notin late => job[w] = published

\* Between commands, the workers were launched for the published job's
\* scratchpad size: they do not spin between consumeJob and the test of it.
ScratchpadFits == Idle /\ threads # NoThreads => threads[1] = L3(published)

\* Between commands, workers exist only paused unless mining is enabled and a
\* pool is connected.
QuietUnlessWanted == Idle /\ threads # NoThreads /\ ~ (enabled /\ active) => paused

\* A worker that looks at the sequence after Miner::stop sees that it is outdated.
StopSeen == \A w \in Workers : at[w] = "isOutdated" /\ seq = 0 => Outdated(w)

\* The main thread never waits for ever in a join.
CommandsReturn == todo # <<>> ~> Idle

=============================================================================
