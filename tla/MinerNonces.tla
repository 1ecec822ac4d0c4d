---------------------------- MODULE MinerNonces ----------------------------
(***************************************************************************)
(* Mining with the nonces: what the scripts of Miner.cpp do to the nonce   *)
(* counters of crypto/common/Nonce.cpp, and how each worker walks through  *)
(* the ranges it takes from them (backend/common/WorkerJob.h, for N = 1).  *)
(* There are two counters, and a worker has two slots: 0 for the job of    *)
(* the user and 1 for that of the donation pool.                           *)
(*                                                                         *)
(* Every action is one of Mining together with its effect on the nonces,   *)
(* which decides what Mining leaves open: when a range is the last one and *)
(* when there is none left.                                                *)
(***************************************************************************)
EXTENDS Mining

CONSTANTS
    Reserve,     \* kReserveCount: the length of a range
    Mask,        \* Job::nonceMask: the last nonce
    MaxNonce     \* bound: workers that run past the mask stop there

\* kReserveCount and Mask + 1 are powers of two: no range is cut short.
ASSUME RangesFit ==
    Reserve \in Nat \ {0} /\ Mask \in Nat /\ (Mask + 1) % Reserve = 0 /\ MaxNonce > Mask

\* An empty job is none of the jobs of the pools.
ASSUME JobsReal == NoJob \notin Jobs \cup DonateJobs

VARIABLES
    counter,     \* Nonce::m_nonces
    slot,        \* WorkerJob::m_jobs, nonces in m_blobs, m_rounds
    given,       \* jobs the network has given so far
    \* history
    owner,       \* the job for which each counter was last reset
    fresh,       \* no reset since the last setJob
    hashed,      \* the nonces hashed for each job
    doubled,     \* jobs for which a nonce was hashed twice
    overrun,     \* jobs for which a nonce beyond the mask was hashed
    raced,       \* jobs that took a range from a counter of another job,
                 \* or whose counter was reset again
    spent        \* jobs for which Nonce::next returned false

history == <<owner, fresh, hashed, doubled, overrun, raced, spent>>
nonceVars == <<counter, slot, given, history>>
allVars == <<vars, nonceVars>>

Empty == [job |-> NoJob, nonce |-> 0, round |-> 0]

NonceInit ==
    /\ Init
    /\ counter = [i \in 0..1 |-> 0]
    /\ slot = [w \in Workers |-> [i \in 0..1 |-> Empty]]
    /\ given = {} /\ owner = [i \in 0..1 |-> NoJob] /\ fresh = FALSE
    /\ hashed = [j \in Jobs |-> {}]
    /\ doubled = {} /\ overrun = {} /\ raced = {} /\ spent = {}

-----------------------------------------------------------------------------
(* The main thread.                                                        *)

\* A pool gives a job once.  When a donation ends, IStrategy::resume repeats
\* the user's last job.
GiveJob(j) ==
    /\ SetJob(j)
    /\ j \notin given \/ (Index(published) = 1 /\ j = userJob)
    /\ given' = given \cup {j}
    /\ UNCHANGED <<counter, slot, history>>

PublishJob ==
    /\ Publish
    /\ fresh' = TRUE
    /\ UNCHANGED <<counter, slot, given, owner, hashed, doubled, overrun, raced, spent>>

\* Nonce::reset of the counter of the published job
ResetCounter ==
    /\ ResetNonces
    /\ counter' = [counter EXCEPT ![Index(published)] = 0]
    /\ owner' = [owner EXCEPT ![Index(published)] = published]
    /\ fresh' = FALSE
    /\ raced' = IF fresh THEN raced ELSE raced \cup {published}
    /\ UNCHANGED <<slot, given, hashed, doubled, overrun, spent>>

\* New workers have an empty WorkerJob.
StartWorkers ==
    /\ Start
    /\ slot' = [w \in Workers |-> [i \in 0..1 |-> Empty]]
    /\ UNCHANGED <<counter, given, history>>

-----------------------------------------------------------------------------
(* Nonce::next for job j: the atomic addition.                             *)

\* Mutation of NextCounter: ranges overlap.
OverlappingCounter(i) == IF counter[i] > Mask THEN counter[i] ELSE counter[i] + Reserve - 1

\* Beyond the mask all values are alike, so that the counter may stop there.
NextCounter(i) == IF counter[i] > Mask THEN counter[i] ELSE counter[i] + Reserve

Take(j) ==
    /\ counter' = [counter EXCEPT ![Index(j)] = NextCounter(Index(j))]
    /\ raced' = IF owner[Index(j)] = j THEN raced ELSE raced \cup {j}

Granted(j) == counter[Index(j)] <= Mask

LastOne(j) == Mask - counter[Index(j)] <= Reserve - 1

Current(w) == slot[w][Index(job[w])]

SetSlot(w, j, nonce, round) ==
    slot' = [slot EXCEPT ![w][Index(j)] = [job |-> j, nonce |-> nonce, round |-> round]]

\* The worker already has this job of the user: it goes back to slot 0.
HasSlot(w) == job[w] # NoJob /\ Index(job[w]) = 1 /\ slot[w][0].job = got[w]

BackToSlot(w) ==
    /\ SaveJob(w) /\ Added(w)
    /\ HasSlot(w)
    /\ UNCHANGED nonceVars

\* WorkerJob::save ignores that Nonce::next found no range: the nonce stays
\* the one in the pool's blob.
Save(w) ==
    /\ SaveJob(w)
    /\ got[w] # NoJob /\ ~ HasSlot(w)
    /\ Take(got[w])
    /\ IF Granted(got[w])
       THEN /\ at'[w] = "lastSave" <=> LastOne(got[w])
            /\ SetSlot(w, got[w], counter[Index(got[w])], 0)
            /\ UNCHANGED spent
       ELSE /\ Added(w)
            /\ SetSlot(w, got[w], 0, 0)
            /\ spent' = spent \cup {got[w]}
    /\ UNCHANGED <<given, owner, fresh, hashed, doubled, overrun>>

\* The hash of the nonce in the blob reaches the test of its value.
Hashed(w) ==
    LET j == job[w]
        n == Current(w).nonce
    IN /\ hashed' = [hashed EXCEPT ![j] = @ \cup {n}]
       /\ doubled' = IF n \in hashed[j] THEN doubled \cup {j} ELSE doubled
       /\ overrun' = IF n > Mask THEN overrun \cup {j} ELSE overrun

\* m_rounds[index()]++; at a multiple of rounds a new range is needed.
\* Mutation of RangeDone: the range is left one nonce too late.
RangeDoneLate(w) == Current(w).round = Reserve

RangeDone(w) == Current(w).round + 1 = Reserve

NextNonce(w) ==
    /\ Hash(w)
    /\ ~ RangeDone(w)
    /\ Current(w).nonce < MaxNonce
    /\ Hashed(w)
    /\ SetSlot(w, job[w], Current(w).nonce + 1, Current(w).round + 1)
    /\ UNCHANGED <<counter, given, owner, fresh, raced, spent>>

NextRange(w) ==
    /\ Hash(w)
    /\ RangeDone(w)
    /\ Granted(job[w]) /\ ~ LastOne(job[w])
    /\ Take(job[w])
    /\ Hashed(w)
    /\ SetSlot(w, job[w], counter[Index(job[w])], 0)
    /\ UNCHANGED <<given, owner, fresh, spent>>

\* The last range: the pause comes after the addition.
FoundLastRange(w) ==
    /\ LastRange(w)
    /\ RangeDone(w)
    /\ Granted(job[w]) /\ LastOne(job[w])
    /\ Take(job[w])
    /\ Hashed(w)
    /\ SetSlot(w, job[w], counter[Index(job[w])], 0)
    /\ UNCHANGED <<given, owner, fresh, spent>>

\* No range: the hash is dropped and the nonce stays.
NoRange(w) ==
    /\ at[w] = "hash" /\ Exhausted(w)
    /\ RangeDone(w)
    /\ ~ Granted(job[w])
    /\ Take(job[w])
    /\ SetSlot(w, job[w], Current(w).nonce, 0)
    /\ spent' = spent \cup {job[w]}
    /\ UNCHANGED <<given, owner, fresh, hashed, doubled, overrun>>

Elsewhere(w) ==
    \/ Begin(w) \/ LoopTop(w) \/ IsPaused(w) \/ WakeUp(w) \/ Awake(w) \/ Consume(w) \/ ReadJob(w)
    \/ AddJob(w) \/ LastSave(w) \/ FindDataset(w) \/ AwaitDataset(w) \/ IsOutdated(w) \/ LastRangeFits(w)

Unrelated ==
    \/ Pause \/ Stop
    \/ \E b \in BOOLEAN : SetEnabled(b)
    \/ \E c \in Configs : Reload(c)
    \/ OnDatasetReady \/ SetPause \/ SetSequence \/ Join \/ Build
    \/ \E w \in Workers : Elsewhere(w)

NonceNext ==
    \/ \E j \in Jobs : GiveJob(j)
    \/ PublishJob \/ ResetCounter \/ StartWorkers
    \/ \E w \in Workers :
        BackToSlot(w) \/ Save(w) \/ NextNonce(w) \/ NextRange(w) \/ FoundLastRange(w) \/ NoRange(w)
    \/ Unrelated /\ UNCHANGED nonceVars

NonceSpec == NonceInit /\ [][NonceNext]_allVars

-----------------------------------------------------------------------------
\* The counters and the slots have their shapes, and the current slot of a
\* worker holds its job.
NonceTypeOK ==
    /\ counter \in [0..1 -> Nat]
    /\ slot \in [Workers -> [0..1 -> [job : Jobs \cup {NoJob}, nonce : Nat, round : 0..Reserve - 1]]]
    /\ \A w \in Workers : Current(w).job = job[w]

\* No nonce of a job is hashed twice, through donations, pauses, restarts of
\* the workers and new jobs, unless the counter was shared in a race between
\* consumeJob and handleJobChange or the job came to the end of its nonces.
TwiceOnlyInRaces == doubled \subseteq raced \cup spent

\* Only a job that came to the end of its nonces goes beyond the mask.
MaskKept == overrun \subseteq spent

=============================================================================
