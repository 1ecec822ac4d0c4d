------------------------------- MODULE Nonce -------------------------------
(***************************************************************************)
(* The process-wide nonce allocator of src/src/crypto/common/Nonce.cpp:    *)
(* the pause flag, one nonce counter per job index and the lock-free       *)
(* Nonce::next that mining threads call to reserve `count' consecutive     *)
(* nonces.  (The job sequence numbers, the third static of the class, do   *)
(* not touch the allocation; they are in Mining.)                          *)
(*                                                                         *)
(* Nonce::next is not atomic: between its fetch_add and the test of the    *)
(* value it got, any other thread may run, the counter may be reset for a  *)
(* new job and the pause flag may be written.  Each access to an atomic is *)
(* therefore an action of its own.                                         *)
(***************************************************************************)
EXTENDS Integers, FiniteSets

CONSTANTS
    Threads,      \* mining threads, of any backend
    Mask,         \* Mask[i]: nonce mask of the job of index i (Job::nonceMask)
    Counts,       \* the reserveCount values the backends ask for
    WordSize,     \* 2^32 in the code: a worker adds to the low word only
    TopBit,       \* 2^63 in the code: mask &= 0x7FFFFFFFFFFFFFFF
    MaxEpoch,     \* bound: resets, of both counters together
    MaxCounter    \* bound: no new call once the counters' sum is past this

Indexes == {0, 1}     \* 0: user pool, 1: donation pool

\* Masks are 2^k - 1, so every mask wider than a word has all its low bits set.
ASSUME NonceAssumption ==
    /\ WordSize \in Nat \ {0}
    /\ TopBit \in Nat \ {0}
    /\ Counts \subseteq Nat
    /\ \A n \in Counts : n <= WordSize
    /\ Mask \in [Indexes -> Nat]
    /\ MaxEpoch \in Nat /\ MaxCounter \in Nat

ASSUME MaskShape ==
    \A i \in Indexes : (Mask[i] % TopBit) >= WordSize
                         => ((Mask[i] % TopBit) + 1) % WordSize = 0

VARIABLES
    paused,       \* Nonce::m_paused
    nonces,       \* Nonce::m_nonces[index]
    call,         \* the locals of the call of Nonce::next each thread is in
    epoch,        \* history: how often each counter was reset
    granted,      \* history: the ranges handed out by successful calls
    drained       \* history: <<index, epoch>> whose end raised the pause flag

atomics == <<paused, nonces>>
history == <<epoch, granted, drained>>
vars == <<paused, nonces, call, epoch, granted, drained>>

\* mask &= 0x7FFF...: the sign bit never belongs to the counter.
Limit(i) == Mask[i] % TopBit

NotCalling == [at |-> "out", index |-> 0, count |-> 0, from |-> 0, epoch |-> 0]

Range(t) == [index |-> call[t].index, epoch |-> call[t].epoch,
             from |-> call[t].from, count |-> call[t].count, by |-> t]

Init ==
    /\ paused = TRUE
    /\ nonces = [i \in Indexes |-> 0]
    /\ call = [t \in Threads |-> NotCalling]
    /\ epoch = [i \in Indexes |-> 0]
    /\ granted = {}
    /\ drained = {}

-----------------------------------------------------------------------------
(* Nonce::next, one action per access to an atomic.                        *)

\* The argument test: an empty or oversized reservation is refused at once.
Call(t, i, n) ==
    /\ call[t].at = "out"
    /\ nonces[0] + nonces[1] <= MaxCounter
    /\ n # 0 /\ Limit(i) >= n - 1
    /\ call' = [call EXCEPT ![t] = [at |-> "fetch", index |-> i, count |-> n,
                                    from |-> 0, epoch |-> 0]]
    /\ UNCHANGED <<atomics, history>>

\* The next step of the same call, with the counter it last fetched.
Goto(t, at, from, ep) ==
    call' = [call EXCEPT ![t] = [at |-> at, index |-> call[t].index,
                                 count |-> call[t].count, from |-> from, epoch |-> ep]]

\* Mutation of Fetch: the read and the addition are two accesses, and the
\* addition of another thread is lost.
FetchWithoutAdd(t) ==
    /\ call[t].at = "fetch"
    /\ LET i == call[t].index IN
         /\ Goto(t, "test", nonces[i], epoch[i])
         /\ \/ nonces' = [nonces EXCEPT ![i] = @ + call[t].count]
            \/ UNCHANGED nonces
    /\ UNCHANGED <<paused, history>>

\* counter = m_nonces[index].fetch_add(reserveCount)
Fetch(t) ==
    /\ call[t].at = "fetch"
    /\ LET i == call[t].index IN
         /\ Goto(t, "test", nonces[i], epoch[i])
         /\ nonces' = [nonces EXCEPT ![i] = @ + call[t].count]
    /\ UNCHANGED <<paused, history>>

Left(t) == Limit(call[t].index) - call[t].from    \* mask - counter
Testing(t) == call[t].at = "test"
Return(t) == call' = [call EXCEPT ![t] = NotCalling]

\* mask < counter: refused without a word to anyone.
Overshot(t) ==
    /\ Testing(t)
    /\ Left(t) < 0
    /\ Return(t)
    /\ UNCHANGED <<atomics, history>>

\* Mutation of EndOfRange: the last full range does not count as the end.
EndOfRangeStrict(t) == Left(t) >= 0 /\ Left(t) < call[t].count - 1

EndOfRange(t) == Left(t) >= 0 /\ Left(t) <= call[t].count - 1

\* mask - counter < reserveCount - 1: the rest is too short, pause and refuse.
LastPart(t) ==
    /\ Testing(t)
    /\ EndOfRange(t)
    /\ Left(t) < call[t].count - 1
    /\ paused' = TRUE
    /\ drained' = drained \cup {<<call[t].index, call[t].epoch>>}
    /\ Return(t)
    /\ UNCHANGED <<nonces, epoch, granted>>

\* mask - counter = reserveCount - 1: the last range, pause and hand it out.
LastRange(t) ==
    /\ Testing(t)
    /\ EndOfRange(t)
    /\ Left(t) = call[t].count - 1
    /\ paused' = TRUE
    /\ drained' = drained \cup {<<call[t].index, call[t].epoch>>}
    /\ granted' = granted \cup {Range(t)}
    /\ Return(t)
    /\ UNCHANGED <<nonces, epoch>>

\* Mutation of CrossesWord: off by one at the end of the word.
CrossesWordOffByOne(t) == WordSize - (call[t].from % WordSize) < call[t].count - 1

\* 0xFFFFFFFF - (uint32_t)counter < reserveCount - 1
CrossesWord(t) == WordSize - 1 - (call[t].from % WordSize) < call[t].count - 1

\* Mutation of SkipWordEnd: the loop goes around without a new fetch_add.
SkipWithoutFetch(t) ==
    /\ Testing(t)
    /\ Left(t) > call[t].count - 1
    /\ CrossesWord(t)
    /\ UNCHANGED vars

\* The range would carry out of the low word: drop it and fetch again.
SkipWordEnd(t) ==
    /\ Testing(t)
    /\ Left(t) > call[t].count - 1
    /\ CrossesWord(t)
    /\ Goto(t, "fetch", 0, 0)
    /\ UNCHANGED <<atomics, history>>

Grant(t) ==
    /\ Testing(t)
    /\ Left(t) > call[t].count - 1
    /\ ~ CrossesWord(t)
    /\ granted' = granted \cup {Range(t)}
    /\ Return(t)
    /\ UNCHANGED <<atomics, epoch, drained>>

-----------------------------------------------------------------------------
(* The one-line operations of Nonce.h, called from the main thread.        *)

Reset(i) ==
    /\ epoch[0] + epoch[1] < MaxEpoch
    /\ nonces' = [nonces EXCEPT ![i] = 0]
    /\ epoch' = [epoch EXCEPT ![i] = @ + 1]
    /\ UNCHANGED <<paused, call, granted, drained>>

Pause(p) ==
    /\ paused' = p
    /\ UNCHANGED <<nonces, call, history>>

Advance(t) ==
    Fetch(t) \/ Overshot(t) \/ LastPart(t) \/ LastRange(t) \/ SkipWordEnd(t) \/ Grant(t)

NextStep(t) ==
    \/ \E i \in Indexes, n \in Counts : Call(t, i, n)
    \/ Advance(t)

Control ==
    \/ \E i \in Indexes : Reset(i)
    \/ \E p \in BOOLEAN : Pause(p)

Next == Control \/ \E t \in Threads : NextStep(t)

Spec == Init /\ [][Next]_vars

\* The operating system runs every thread that is inside Nonce::next.
FairSpec == Spec /\ \A t \in Threads : WF_vars(Advance(t))

-----------------------------------------------------------------------------
Ranges == [index : Indexes, epoch : Nat, from : Nat, count : Nat, by : Threads]

Calls == [at : {"out", "fetch", "test"}, index : Indexes, count : Nat,
          from : Nat, epoch : Nat]

\* Every variable has the type of the atomic or local it stands for.
TypeOK ==
    /\ paused \in BOOLEAN
    /\ nonces \in [Indexes -> Nat]
    /\ call \in [Threads -> Calls]
    /\ epoch \in [Indexes -> Nat]
    /\ granted \subseteq Ranges
    /\ drained \subseteq Indexes \X Nat

Apart(c, d) ==
    c.index = d.index /\ c.epoch = d.epoch /\ c # d
      => c.from + c.count <= d.from \/ d.from + d.count <= c.from

\* Two reservations made from one counter between two resets never overlap,
\* however the calls of Nonce::next interleave, and whichever calls had to
\* fetch twice: no nonce of a job is given to two threads.
GrantsDisjoint == \A c, d \in granted : Apart(c, d)

InMask(c) ==
    /\ c.count >= 1
    /\ c.from + c.count - 1 <= Limit(c.index)
    /\ (c.from % WordSize) + c.count - 1 < WordSize

\* Nonce::next never hands out a range that leaves the mask of the job (with
\* nicehash, the top byte of the nonce belongs to the pool), nor one whose low
\* word would wrap while the worker counts up with `*nonce += 1'.
GrantsInMask == \A c \in granted : InMask(c)

\* A counter past the end of the mask has been noticed: the thread that took
\* the last part either raised the pause flag in this epoch or is still
\* between its fetch_add and its pause(true).  Calls that find the counter
\* past the mask return false silently because of it.
ExhaustionPauses ==
    \A i \in Indexes :
        nonces[i] > Limit(i) =>
            \/ <<i, epoch[i]>> \in drained
            \/ \E t \in Threads : /\ Testing(t) /\ call[t].index = i
                                  /\ call[t].epoch = epoch[i] /\ EndOfRange(t)

\* A call of Nonce::next always returns: the loop that drops ranges crossing a
\* word boundary can not spin, because every turn fetches a new counter.
CallsReturn == \A t \in Threads : call[t].at # "out" ~> call[t].at = "out"

=============================================================================
