------------------------------ MODULE Hashrate ------------------------------
(***************************************************************************)
(* The hash rate over a window: samples of a counter in a ring, searched   *)
(* backwards from the newest one.  One of the rings of class Hashrate; the *)
(* total and each thread have one.  Times are in arbitrary units from the  *)
(* start of the machine, 0 marks a place of the ring that was never used.  *)
(***************************************************************************)
EXTENDS Integers, Sequences, FiniteSets, FiniteSetsExt

CONSTANTS
    BucketSize,  \* kBucketSize
    Windows,     \* ShortInterval, MediumInterval and LargeInterval
    MaxTime,     \* bound of the clock, below 2^64
    TimeWidth    \* 2^64: times are unsigned

\* Clock and windows fit into the unsigned type of a time, and the clock has started.
ASSUME RateAssumption ==
    /\ BucketSize \in Nat \ {0} /\ TimeWidth \in Nat
    /\ MaxTime \in 1 .. TimeWidth - 1 /\ Windows \subseteq 0 .. TimeWidth - 1

VARIABLES
    stamps, counts,  \* the ring
    top,             \* where the next sample goes
    now,             \* steadyMSecs()
    samples          \* all samples (history)

rateVars == <<stamps, counts, top, now, samples>>

RateInit ==
    /\ stamps = [i \in 0 .. BucketSize - 1 |-> 0]
    /\ counts = [i \in 0 .. BucketSize - 1 |-> 0]
    /\ top = 0 /\ now = 1 /\ samples = <<>>

Latest == IF samples = <<>> THEN 0 ELSE samples[Len(samples)].count

\* addData, called by Workers::tick with the count of a worker, which never falls.
AddData(count) ==
    /\ stamps' = [stamps EXCEPT ![top] = now]
    /\ counts' = [counts EXCEPT ![top] = count]
    /\ top' = (top + 1) % BucketSize
    /\ samples' = Append(samples, [stamp |-> now, count |-> count])
    /\ UNCHANGED now

Tick == now < MaxTime /\ now' = now + 1 /\ UNCHANGED <<stamps, counts, top, samples>>

RateNext ==
    \/ Tick
    \/ Len(samples) <= MaxTime /\ \E more \in 0 .. 1 : AddData(Latest + more)

RateSpec == RateInit /\ [][RateNext]_rateVars

-----------------------------------------------------------------------------
Nan == <<>>

Rate(from, to) ==
    IF from.stamp = to.stamp THEN Nan
    ELSE <<to.count - from.count, to.stamp - from.stamp>>

At(i) == [stamp |-> stamps[i], count |-> counts[i]]

\* Mutation of Back: the place of the next sample instead of the newest.
BackFromTop(k) == (top - k) % BucketSize

\* The place k before the newest sample.
Back(k) == (top - 1 - k) % BucketSize

\* hashrate(): backwards to the first sample before the window; the one after it is the
\* earliest of the window.  Without such a sample there is not enough data yet.
Calc(ms) ==
    LET limit == (now - ms) % TimeWidth
        older == {k \in 0 .. BucketSize - 1 : stamps[Back(k)] < limit}
    IN  IF older = {} THEN Nan
        ELSE LET k == Min(older) IN
             IF k = 0 \/ stamps[Back(k)] = 0 \/ stamps[Back(k - 1)] = 0 THEN Nan
             ELSE Rate(At(Back(k - 1)), At(Back(0)))

-----------------------------------------------------------------------------
\* What the ring still has of the samples.
Remembered == {i \in 1 .. Len(samples) : i > Len(samples) - BucketSize}

\* The definition: if the samples remembered reach back beyond the window, the hashes
\* counted between the first and the last sample inside it.
Expected(ms) ==
    LET before == {i \in Remembered : samples[i].stamp < now - ms}
        inside == Remembered \ before
    IN  IF before = {} \/ inside = {} THEN Nan
        ELSE Rate(samples[Min(inside)], samples[Len(samples)])

\* At every moment of the ring's life, before it is filled, when it begins again at its
\* first place, and in the first moments after the machine was started, when the limit
\* of the window is negative (hashrate and addData).
WindowRight == \A ms \in Windows : Calc(ms) = Expected(ms)

=============================================================================
