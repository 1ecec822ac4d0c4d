----------------------------- MODULE MiningProofs -----------------------------
(***************************************************************************)
(* The invariants of Mining for any number of workers, jobs and commands.  *)
(*                                                                         *)
(* What a worker may do depends on what the main thread has still to do,   *)
(* so that the inductive invariant relates three things: the rest of the   *)
(* script (ScriptInv: behind every zero of the sequence comes a join       *)
(* before the sequence or the workers start again, and a job without its   *)
(* dataset is published when the workers are gone), the threads            *)
(* (ThreadsInv), and each worker with the script (WorkerInv: while the     *)
(* sequence is 0 a worker that remembers a number has a join ahead, and    *)
(* one that has an old job under a current number has a touch ahead).      *)
(* Scripts are put together from pieces, so that the first part is about   *)
(* what concatenation and Tail do to these conditions.                     *)
(*                                                                         *)
(* The second half is about MinerNonces, whose steps are steps of Mining.  *)
(* NonceInv says when the counter of a job can be reset again (GivenInv),  *)
(* that ranges start at multiples of their length (SlotsInv), and that the *)
(* ranges of a job are apart (Once).                                       *)
(***************************************************************************)
EXTENDS MinerNonces, Integers, TLAPS

Has(s, step) == \E i \in 1 .. Len(s) : s[i] = step

\* A join comes before the sequence or the workers start again.
Joins(s) ==
    \E k \in 1 .. Len(s) :
        s[k] = "join" /\ \A i \in 1 .. k - 1 : s[i] \notin {"touch", "start"}

\* Behind every zero a join comes before that.
Closed(s) ==
    \A i \in 1 .. Len(s) : s[i] = "zero" =>
        \E k \in i + 1 .. Len(s) :
            s[k] = "join" /\ \A m \in i + 1 .. k - 1 : s[m] \notin {"touch", "start"}

PublishLast(s) == \A i \in 1 .. Len(s) : s[i] = "publish" => i = Len(s)

LEMMA OneStep ==
    ASSUME NEW x \in Steps
    PROVE  /\ <<x>> \in Seq(Steps)
           /\ \A y : Has(<<x>>, y) <=> x = y
           /\ x # "zero" => Closed(<<x>>)
  BY DEF Has, Closed

LEMMA NoStep ==
    /\ <<>> \in Seq(Steps) /\ Closed(<<>>) /\ PublishLast(<<>>) /\ ~Joins(<<>>)
    /\ \A y : ~Has(<<>>, y)
  BY DEF Has, Closed, PublishLast, Joins

LEMMA Joined ==
    ASSUME NEW s \in Seq(Steps), NEW t \in Seq(Steps)
    PROVE  /\ s \o t \in Seq(Steps) /\ Len(s \o t) = Len(s) + Len(t)
           /\ \A i \in 1 .. Len(s) : (s \o t)[i] = s[i]
           /\ \A i \in 1 .. Len(t) : (s \o t)[Len(s) + i] = t[i]
           /\ Len(s) \in Nat /\ Len(t) \in Nat
  OBVIOUS

LEMMA Both ==
    ASSUME NEW s \in Seq(Steps), NEW t \in Seq(Steps)
    PROVE  /\ s \o t \in Seq(Steps)
           /\ \A y : Has(s \o t, y) <=> Has(s, y) \/ Has(t, y)
           /\ Closed(s) /\ Closed(t) => Closed(s \o t)
           /\ ~Has(s, "publish") /\ PublishLast(t) => PublishLast(s \o t)
  <1>1. /\ s \o t \in Seq(Steps) /\ Len(s \o t) = Len(s) + Len(t)
        /\ \A i \in 1 .. Len(s) : (s \o t)[i] = s[i]
        /\ \A i \in 1 .. Len(t) : (s \o t)[Len(s) + i] = t[i]
        /\ Len(s) \in Nat /\ Len(t) \in Nat
    BY Joined
  <1>2. ASSUME NEW y PROVE Has(s \o t, y) <=> Has(s, y) \/ Has(t, y)
    <2>1. ASSUME Has(s \o t, y) PROVE Has(s, y) \/ Has(t, y)
      <3>1. PICK i \in 1 .. Len(s) + Len(t) : (s \o t)[i] = y
        BY <1>1, <2>1 DEF Has
      <3>2. CASE i <= Len(s)
        BY <1>1, <3>1, <3>2 DEF Has
      <3>3. CASE i > Len(s)
        <4>1. PICK k \in 1 .. Len(t) : i = Len(s) + k
          <5>1. i - Len(s) \in 1 .. Len(t) /\ i = Len(s) + (i - Len(s))
            BY <1>1, <3>3
          <5> QED
            BY <5>1
        <4> QED
          BY <1>1, <3>1, <4>1 DEF Has
      <3> QED
        BY <1>1, <3>2, <3>3
    <2>2. ASSUME Has(s, y) PROVE Has(s \o t, y)
      BY <1>1, <2>2 DEF Has
    <2>3. ASSUME Has(t, y) PROVE Has(s \o t, y)
      <3>1. PICK k \in 1 .. Len(t) : t[k] = y
        BY <2>3 DEF Has
      <3>2. Len(s) + k \in 1 .. Len(s \o t) /\ (s \o t)[Len(s) + k] = y
        BY <1>1, <3>1
      <3> QED
        BY <3>2 DEF Has
    <2> QED
      BY <2>1, <2>2, <2>3
  <1>3. ASSUME Closed(s), Closed(t) PROVE Closed(s \o t)
    <2> SUFFICES ASSUME NEW i \in 1 .. Len(s) + Len(t), (s \o t)[i] = "zero"
                 PROVE  \E k \in i + 1 .. Len(s) + Len(t) : (s \o t)[k] = "join"
                          /\ \A m \in i + 1 .. k - 1 : (s \o t)[m] \notin {"touch", "start"}
      BY <1>1 DEF Closed
    <2>1. CASE i <= Len(s)
      <3>1. PICK k \in i + 1 .. Len(s) : s[k] = "join"
                /\ \A m \in i + 1 .. k - 1 : s[m] \notin {"touch", "start"}
        BY <1>1, <1>3, <2>1 DEF Closed
      <3>2. k \in i + 1 .. Len(s) + Len(t) /\ (s \o t)[k] = "join"
        BY <1>1, <3>1
      <3>3. \A m \in i + 1 .. k - 1 : (s \o t)[m] \notin {"touch", "start"}
        BY <1>1, <3>1
      <3> QED
        BY <3>2, <3>3
    <2>2. CASE i > Len(s)
      <3>1. PICK n \in 1 .. Len(t) : i = Len(s) + n
        <4>1. i - Len(s) \in 1 .. Len(t) /\ i = Len(s) + (i - Len(s))
          BY <1>1, <2>2
        <4> QED
          BY <4>1
      <3>2. t[n] = "zero"
        BY <1>1, <3>1
      <3>3. PICK k \in n + 1 .. Len(t) : t[k] = "join"
                /\ \A m \in n + 1 .. k - 1 : t[m] \notin {"touch", "start"}
        BY <1>3, <3>2 DEF Closed
      <3>4. PICK q \in i + 1 .. Len(s) + Len(t) :
                q = Len(s) + k /\ (s \o t)[q] = "join"
        <4>1. k \in 1 .. Len(t) /\ Len(s) + k \in i + 1 .. Len(s) + Len(t)
          BY <1>1, <3>1, <3>3
        <4>2. (s \o t)[Len(s) + k] = "join"
          BY <1>1, <3>3, <4>1
        <4> QED
          BY <4>1, <4>2
      <3>5. ASSUME NEW m \in i + 1 .. q - 1
            PROVE  (s \o t)[m] \notin {"touch", "start"}
        <4>1. /\ m - Len(s) \in n + 1 .. k - 1 /\ m - Len(s) \in 1 .. Len(t)
              /\ m = Len(s) + (m - Len(s))
          BY <1>1, <3>1, <3>3, <3>4
        <4>2. PICK l \in n + 1 .. k - 1 : l \in 1 .. Len(t) /\ m = Len(s) + l
          BY <4>1
        <4> QED
          BY <1>1, <3>3, <4>2
      <3> QED
        BY <3>4, <3>5
    <2>3. i <= Len(s) \/ i > Len(s)
      BY <1>1
    <2> QED
      BY <2>1, <2>2, <2>3, Zenon
  <1>4. ASSUME ~Has(s, "publish"), PublishLast(t) PROVE PublishLast(s \o t)
    BY <1>1, <1>4 DEF Has, PublishLast
  <1> QED
    BY <1>1, <1>2, <1>3, <1>4

LEMMA Remaining ==
    ASSUME NEW s \in Seq(Steps), s # <<>>
    PROVE  /\ Head(s) \in Steps /\ Tail(s) \in Seq(Steps)
           /\ Has(s, Head(s))
           /\ \A y : Has(Tail(s), y) => Has(s, y)
           /\ \A y : Has(s, y) /\ y # Head(s) => Has(Tail(s), y)
           /\ Closed(s) => Closed(Tail(s))
           /\ Closed(s) /\ Head(s) = "zero" => Joins(Tail(s))
           /\ Joins(s) /\ Head(s) # "join" =>
                Joins(Tail(s)) /\ Head(s) \notin {"touch", "start"}
           /\ PublishLast(s) => PublishLast(Tail(s))
           /\ PublishLast(s) /\ Head(s) = "publish" => ~Has(s, "join")
  <1>1. /\ Head(s) = s[1] /\ Head(s) \in Steps /\ Tail(s) \in Seq(Steps)
        /\ Len(Tail(s)) = Len(s) - 1 /\ Len(s) \in Nat \ {0}
        /\ \A i \in 1 .. Len(Tail(s)) : Tail(s)[i] = s[i + 1]
        /\ \A i \in 2 .. Len(s) : i - 1 \in 1 .. Len(Tail(s)) /\ Tail(s)[i - 1] = s[i]
    OBVIOUS
  <1>2. Has(s, Head(s))
    BY <1>1 DEF Has
  <1>3. \A y : Has(Tail(s), y) => Has(s, y)
    BY <1>1 DEF Has
  <1>4. \A y : Has(s, y) /\ y # Head(s) => Has(Tail(s), y)
    BY <1>1 DEF Has
  <1>5. ASSUME Closed(s) PROVE Closed(Tail(s))
    <2> SUFFICES ASSUME NEW i \in 1 .. Len(Tail(s)), Tail(s)[i] = "zero"
                 PROVE  \E k \in i + 1 .. Len(Tail(s)) : Tail(s)[k] = "join"
                          /\ \A m \in i + 1 .. k - 1 : Tail(s)[m] \notin {"touch", "start"}
      BY DEF Closed
    <2>1. i + 1 \in 1 .. Len(s) /\ s[i + 1] = "zero"
      BY <1>1
    <2>2. PICK k \in (i + 1) + 1 .. Len(s) : s[k] = "join"
              /\ \A m \in (i + 1) + 1 .. k - 1 : s[m] \notin {"touch", "start"}
      BY <1>5, <2>1 DEF Closed
    <2>3. k - 1 \in i + 1 .. Len(Tail(s)) /\ Tail(s)[k - 1] = "join"
      BY <1>1, <2>2
    <2>4. ASSUME NEW m \in i + 1 .. (k - 1) - 1 PROVE Tail(s)[m] \notin {"touch", "start"}
      <3>1. m + 1 \in (i + 1) + 1 .. k - 1 /\ m \in 1 .. Len(Tail(s))
        BY <1>1, <2>2
      <3> QED
        BY <1>1, <2>2, <3>1
    <2> QED
      BY <2>3, <2>4
  <1>6. ASSUME Closed(s), Head(s) = "zero" PROVE Joins(Tail(s))
    <2>1. 1 \in 1 .. Len(s) /\ s[1] = "zero"
      BY <1>1, <1>6
    <2>2. PICK k \in 1 + 1 .. Len(s) : s[k] = "join"
              /\ \A m \in 1 + 1 .. k - 1 : s[m] \notin {"touch", "start"}
      BY <1>6, <2>1 DEF Closed
    <2>3. k - 1 \in 1 .. Len(Tail(s)) /\ Tail(s)[k - 1] = "join"
      BY <1>1, <2>2
    <2>4. ASSUME NEW m \in 1 .. (k - 1) - 1 PROVE Tail(s)[m] \notin {"touch", "start"}
      <3>1. m + 1 \in 1 + 1 .. k - 1 /\ m \in 1 .. Len(Tail(s))
        BY <1>1, <2>2
      <3> QED
        BY <1>1, <2>2, <3>1
    <2> QED
      BY <2>3, <2>4 DEF Joins
  <1>7. Joins(s) /\ Head(s) # "join" =>
          Joins(Tail(s)) /\ Head(s) \notin {"touch", "start"}
    BY <1>1 DEF Joins
  <1>8. PublishLast(s) => PublishLast(Tail(s))
    <2> SUFFICES ASSUME PublishLast(s), NEW i \in 1 .. Len(Tail(s)), Tail(s)[i] = "publish"
                 PROVE  i = Len(Tail(s))
      BY DEF PublishLast
    <2>1. i + 1 \in 1 .. Len(s) /\ s[i + 1] = "publish"
      BY <1>1
    <2>2. i + 1 = Len(s)
      BY <2>1 DEF PublishLast
    <2>3. Len(Tail(s)) = Len(s) - 1 /\ Len(s) \in Nat
      BY <1>1
    <2> QED
      BY <2>2, <2>3
  <1>9. ASSUME PublishLast(s), Head(s) = "publish" PROVE ~Has(s, "join")
    <2>1. 1 \in 1 .. Len(s) /\ s[1] = "publish"
      BY <1>1, <1>9
    <2>2. Len(s) = 1
      BY <1>9, <2>1 DEF PublishLast
    <2> QED
      BY <2>1, <2>2 DEF Has
  <1> QED
    BY <1>1, <1>2, <1>3, <1>4, <1>5, <1>6, <1>7, <1>8, <1>9

-----------------------------------------------------------------------------
\* What the scripts consist of.
LEMMA StopScript ==
    ASSUME NEW t
    PROVE  /\ StopWorkers(t) \in Seq(Steps) /\ Closed(StopWorkers(t))
           /\ ~Has(StopWorkers(t), "publish") /\ ~Has(StopWorkers(t), "start")
           /\ t # NoThreads => Has(StopWorkers(t), "join")
           /\ t # NoThreads => Closed(<<"resume", "zero">> \o StopWorkers(t))
  <1>1. CASE t = NoThreads
    BY <1>1, NoStep DEF StopWorkers
  <1>2. CASE t # NoThreads
    <2>1. StopWorkers(t) = <<"zero", "join", "touch">>
      BY <1>2 DEF StopWorkers
    <2> DEFINE a == <<"resume", "zero">>
               u == <<"zero", "join", "touch">>
               v == a \o u
    <2>2. a \in Seq(Steps) /\ Len(a) = 2 /\ a[1] = "resume" /\ a[2] = "zero"
      BY DEF Steps
    <2>3. u \in Seq(Steps) /\ Len(u) = 3 /\ u[1] = "zero" /\ u[2] = "join" /\ u[3] = "touch"
      BY DEF Steps
    <2> HIDE DEF a, u
    <2>4. Len(v) = 5 /\ v[1] = "resume" /\ v[2] = "zero" /\ v[3] = "zero"
          /\ v[4] = "join" /\ v[5] = "touch"
      <3>1. /\ Len(v) = Len(a) + Len(u) /\ \A i \in 1 .. Len(a) : v[i] = a[i]
            /\ \A i \in 1 .. Len(u) : v[Len(a) + i] = u[i]
        BY <2>2, <2>3, Joined
      <3> HIDE DEF v
      <3>2. v[2 + 1] = u[1] /\ v[2 + 2] = u[2] /\ v[2 + 3] = u[3]
        BY <2>2, <2>3, <3>1
      <3> QED
        BY <2>2, <2>3, <3>1, <3>2
    <2> HIDE DEF v
    <2>5. Closed(u)
      <3> SUFFICES ASSUME NEW i \in 1 .. 3, u[i] = "zero"
                   PROVE  \E k \in i + 1 .. 3 :
                            u[k] = "join" /\ \A m \in i + 1 .. k - 1 : u[m] \notin {"touch", "start"}
        BY <2>3 DEF Closed
      <3>1. i = 1
        BY <2>3
      <3>2. 2 \in i + 1 .. 3 /\ \A m \in i + 1 .. 2 - 1 : u[m] \notin {"touch", "start"}
        BY <3>1
      <3> QED
        BY <2>3, <3>2
    <2>6. Closed(v)
      <3> SUFFICES ASSUME NEW i \in 1 .. 5, v[i] = "zero"
                   PROVE  \E k \in i + 1 .. 5 :
                            v[k] = "join" /\ \A m \in i + 1 .. k - 1 : v[m] \notin {"touch", "start"}
        BY <2>4 DEF Closed
      <3>1. i \in {2, 3}
        BY <2>4
      <3>2. 4 \in i + 1 .. 5 /\ \A m \in i + 1 .. 4 - 1 : m = 3
        BY <3>1
      <3> QED
        BY <2>4, <3>2
    <2>7. Has(u, "join") /\ ~Has(u, "publish") /\ ~Has(u, "start")
      BY <2>3 DEF Has
    <2> QED
      BY <2>1, <2>3, <2>5, <2>6, <2>7 DEF a, u, v
  <1> QED
    BY <1>1, <1>2

LEMMA BackendScript ==
    ASSUME NEW j, NEW t, NEW c
    PROVE  LET b == BackendSetJob(j, t, c) IN
           /\ b \in Seq(Steps) /\ Closed(b) /\ ~Has(b, "publish")
           /\ Has(b, "start") => j # NoJob
           /\ t # NoThreads => Has(b, "join") \/ t = Launch(j, c)
  <1>1. CASE j = NoJob \/ c = "disabled"
    BY <1>1, StopScript DEF BackendSetJob
  <1>2. CASE ~(j = NoJob \/ c = "disabled") /\ SameThreads(j, t, c)
    <2>1. BackendSetJob(j, t, c) = <<>> /\ t = Launch(j, c)
      BY <1>2 DEF BackendSetJob, SameThreads
    <2> QED
      BY <2>1, NoStep
  <1>3. CASE ~(j = NoJob \/ c = "disabled") /\ ~SameThreads(j, t, c)
    <2>1. BackendSetJob(j, t, c) = StopWorkers(t) \o <<"touch", "start">>
      BY <1>3 DEF BackendSetJob
    <2> DEFINE u == <<"touch", "start">>
    <2>2. u \in Seq(Steps) /\ Len(u) = 2 /\ u[1] = "touch" /\ u[2] = "start"
      BY DEF Steps
    <2> HIDE DEF u
    <2>3. Closed(u) /\ ~Has(u, "publish")
      BY <2>2 DEF Closed, Has
    <2>4. BackendSetJob(j, t, c) = StopWorkers(t) \o u
      BY <2>1 DEF u
    <2> QED
      BY <1>3, <2>2, <2>3, <2>4, StopScript, Both
  <1> QED
    BY <1>1, <1>2, <1>3

LEMMA JobScript ==
    ASSUME NEW j, NEW t, NEW act, NEW r
    PROVE  LET h == HandleJobChange(j, t, act, r) IN
           /\ h \in Seq(Steps) /\ Closed(h) /\ ~Has(h, "publish") /\ Has(h, "touch")
           /\ Has(h, "start") => j # NoJob
           /\ t # NoThreads => Has(h, "join") \/ t = Launch(j, config)
  <1> DEFINE Plain(s) == /\ s \in Seq(Steps) /\ Closed(s)
                         /\ ~Has(s, "publish") /\ ~Has(s, "start")
             p1 == IF enabled THEN <<>> ELSE <<"pause">>
             p2 == IF r THEN <<"reset">> ELSE <<>>
             p3 == BackendSetJob(j, t, config)
             p4 == <<"touch">>
             p5 == IF Resumes(act) THEN <<"resume">> ELSE <<>>
  <1>1. \A x \in Steps : x \notin {"publish", "start", "zero"} => Plain(<<x>>)
    BY OneStep
  <1>2. Plain(<<>>)
    BY NoStep
  <1>3. /\ "pause" \in Steps /\ "reset" \in Steps /\ "touch" \in Steps /\ "resume" \in Steps
    BY DEF Steps
  <1> HIDE DEF Plain
  <1>4. Plain(p1) /\ Plain(p2) /\ Plain(p4) /\ Plain(p5)
    BY <1>1, <1>2, <1>3
  <1>5. Has(p4, "touch")
    BY <1>3, OneStep
  <1>6. /\ p3 \in Seq(Steps) /\ Closed(p3) /\ ~Has(p3, "publish")
        /\ Has(p3, "start") => j # NoJob
        /\ t # NoThreads => Has(p3, "join") \/ t = Launch(j, config)
    BY BackendScript
  <1>7. HandleJobChange(j, t, act, r) = p1 \o p2 \o p3 \o p4 \o p5
    BY DEF HandleJobChange, Touch
  <1> HIDE DEF p1, p2, p3, p4, p5
  <1> DEFINE q2 == p1 \o p2
             q3 == q2 \o p3
             q4 == q3 \o p4
             q5 == q4 \o p5
  <1>8. Plain(q2)
    BY <1>4, Both DEF Plain
  <1> HIDE DEF q2
  <1>9. /\ q3 \in Seq(Steps) /\ Closed(q3) /\ ~Has(q3, "publish")
        /\ Has(q3, "start") => j # NoJob
        /\ t # NoThreads => Has(q3, "join") \/ t = Launch(j, config)
    BY <1>6, <1>8, Both DEF Plain
  <1> HIDE DEF q3
  <1>10. /\ q4 \in Seq(Steps) /\ Closed(q4) /\ ~Has(q4, "publish") /\ Has(q4, "touch")
         /\ Has(q4, "start") => j # NoJob
         /\ t # NoThreads => Has(q4, "join") \/ t = Launch(j, config)
    BY <1>4, <1>5, <1>9, Both DEF Plain
  <1> HIDE DEF q4
  <1>11. /\ q5 \in Seq(Steps) /\ Closed(q5) /\ ~Has(q5, "publish") /\ Has(q5, "touch")
         /\ Has(q5, "start") => j # NoJob
         /\ t # NoThreads => Has(q5, "join") \/ t = Launch(j, config)
    BY <1>4, <1>10, Both DEF Plain
  <1>12. HandleJobChange(j, t, act, r) = q5
    BY <1>7 DEF q2, q3, q4
  <1> HIDE DEF q5
  <1> QED
    BY <1>11, <1>12

LEMMA MinerStopScript ==
    /\ MinerStop \in Seq(Steps) /\ ~Has(MinerStop, "publish") /\ ~Has(MinerStop, "start")
    /\ threads # NoThreads => Closed(MinerStop) /\ Has(MinerStop, "join")
  <1> DEFINE u == <<"resume", "zero">>
  <1>1. u \in Seq(Steps) /\ Len(u) = 2 /\ u[1] = "resume" /\ u[2] = "zero"
    BY DEF Steps
  <1>2. MinerStop = u \o StopWorkers(threads)
    BY DEF MinerStop
  <1>3. threads # NoThreads => Closed(MinerStop)
    BY StopScript DEF MinerStop
  <1> HIDE DEF u
  <1>4. ~Has(u, "publish") /\ ~Has(u, "start")
    BY <1>1 DEF Has
  <1>5. PICK s \in Seq(Steps) : s = StopWorkers(threads)
    BY StopScript
  <1>6. /\ ~Has(s, "publish") /\ ~Has(s, "start")
        /\ threads # NoThreads => Has(s, "join")
    BY <1>5, StopScript
  <1>7. /\ u \o s \in Seq(Steps) /\ ~Has(u \o s, "publish") /\ ~Has(u \o s, "start")
        /\ threads # NoThreads => Has(u \o s, "join")
    BY <1>1, <1>4, <1>6, Both
  <1>8. MinerStop = u \o s
    BY <1>2, <1>5
  <1> QED
    BY <1>3, <1>7, <1>8

LEMMA SetJobScript ==
    ASSUME NEW j
    PROVE  LET s == StopFirst(j) \o <<"publish">> IN
           /\ s \in Seq(Steps) /\ PublishLast(s) /\ ~Has(s, "start")
           /\ threads = NoThreads \/ Closed(s)
           /\ HasData(j) \/ threads = NoThreads \/ Has(s, "join")
  <1> DEFINE u == <<"publish">>
             f == StopFirst(j)
  <1>1. u \in Seq(Steps) /\ PublishLast(u) /\ ~Has(u, "start") /\ Closed(u)
    <2>1. "publish" \in Steps /\ Len(u) = 1
      BY DEF Steps
    <2>2. PublishLast(u)
      BY DEF PublishLast
    <2> QED
      BY <2>1, <2>2, OneStep
  <1>2. /\ f \in Seq(Steps) /\ ~Has(f, "publish") /\ ~Has(f, "start")
        /\ threads = NoThreads \/ Closed(f)
        /\ HasData(j) \/ threads = NoThreads \/ Has(f, "join")
    BY MinerStopScript, NoStep DEF StopFirst
  <1> HIDE DEF u, f
  <1>3. LET s == f \o u IN
        /\ s \in Seq(Steps) /\ PublishLast(s) /\ ~Has(s, "start")
        /\ threads = NoThreads \/ Closed(s)
        /\ HasData(j) \/ threads = NoThreads \/ Has(s, "join")
    BY <1>1, <1>2, Both
  <1> QED
    BY <1>3 DEF u, f

-----------------------------------------------------------------------------
\* What the scripts promise: a stop ends in a join unless there are no workers, setJob
\* publishes at its end and, for a job without its dataset, after the workers are gone.
ScriptInv ==
    /\ Closed(todo) \/ (threads = NoThreads /\ ~Has(todo, "start"))
    /\ PublishLast(todo)
    /\ Has(todo, "start") => published # NoJob
    /\ Has(todo, "publish") =>
         /\ ~Has(todo, "start")
         /\ HasData(incoming) \/ threads = NoThreads \/ Has(todo, "join")

\* Workers exist while there are threads, for the scratchpad of the published job.
ThreadsInv ==
    /\ threads = NoThreads => \A w \in Workers : at[w] = "none"
    /\ threads # NoThreads => threads[1] = L3(published) \/ Has(todo, "join")

DataInv == busy => ready = NoSeed

\* The worker is about to take over the job it read and to look for its dataset.
Renewing == {"save", "lastSave", "dataset", "waiting"}

WorkerInv(w) ==
    /\ Alive(w) /\ seq # 0 => mseq[w] <= seq
    /\ Alive(w) /\ seq = 0 /\ mseq[w] # 0 => Joins(todo)
    /\ Alive(w) /\ seq # 0 /\ mseq[w] = seq /\ w \notin late =>
         \/ Has(todo, "touch")
         \/ published = IF at[w] = "save" THEN got[w] ELSE job[w]
    /\ at[w] = "lastSave" => job[w] = got[w]
    /\ Alive(w) /\ mseq[w] # 0 /\ mseq[w] = seq /\ at[w] \notin Renewing => HasData(job[w])
    /\ at[w] \in Hashing /\ mseq[w] # 0 => HasData(job[w])

IInv ==
    /\ TypeOK /\ ScriptInv /\ ThreadsInv /\ DataInv
    /\ \A w \in Workers : WorkerInv(w)

LEMMA Initially == Init => IInv
  <1> SUFFICES ASSUME Init PROVE IInv
    OBVIOUS
  <1>1. TypeOK
    <2>1. /\ seq \in Nat /\ paused \in BOOLEAN /\ published \in Jobs \cup {NoJob}
          /\ incoming \in Jobs \cup {NoJob} /\ userJob \in Jobs \cup {NoJob}
          /\ reset \in BOOLEAN /\ active \in BOOLEAN /\ enabled \in BOOLEAN
      BY DEF Init
    <2>2. /\ todo \in Seq(Steps) /\ config \in Configs /\ commands \in Nat
          /\ threads \in {Launch(j, c) : j \in Jobs, c \in Configs} \cup {NoThreads}
      BY NoStep DEF Init
    <2>3. /\ at \in [Workers -> Places] /\ after \in [Workers -> {"top", "isOutdated"}]
          /\ got \in [Workers -> Jobs \cup {NoJob}]
          /\ job \in [Workers -> Jobs \cup {NoJob}]
          /\ mseq \in [Workers -> Nat] /\ late \in SUBSET Workers
      BY DEF Init, Places
    <2> QED
      BY <2>1, <2>2, <2>3 DEF TypeOK
  <1>2. ScriptInv
    BY NoStep DEF Init, ScriptInv
  <1>3. ThreadsInv /\ DataInv
    BY DEF Init, ThreadsInv, DataInv, Service!Init
  <1>4. ASSUME NEW w \in Workers PROVE WorkerInv(w)
    BY DEF Init, WorkerInv, Alive, Hashing
  <1> QED
    BY <1>1, <1>2, <1>3, <1>4 DEF IInv

-----------------------------------------------------------------------------
\* The steps of a worker concern nobody else's state, and of the shared state only
\* the pause flag.
WorkTypes ==
    /\ at \in [Workers -> Places] /\ after \in [Workers -> {"top", "isOutdated"}]
    /\ got \in [Workers -> Jobs \cup {NoJob}] /\ job \in [Workers -> Jobs \cup {NoJob}]
    /\ mseq \in [Workers -> Nat] /\ late \in SUBSET Workers
    /\ seq \in Nat /\ paused \in BOOLEAN /\ published \in Jobs \cup {NoJob}

LEMMA WorkerEffect ==
    ASSUME WorkTypes, NEW w \in Workers, Worker(w)
    PROVE  /\ UNCHANGED <<seq, published, mainVars, dataVars>>
           /\ WorkTypes'
           /\ \A v \in Workers \ {w} :
                /\ at'[v] = at[v] /\ got'[v] = got[v] /\ job'[v] = job[v]
                /\ mseq'[v] = mseq[v] /\ (v \in late' <=> v \in late)
           /\ Alive(w)
  <1> USE DEF WorkTypes, Places, Goto, OnlyMoves, sharedVars, Alive, Added
  <1>1. CASE Begin(w)
    BY <1>1 DEF Begin
  <1>2. CASE LoopTop(w)
    BY <1>2 DEF LoopTop
  <1>3. CASE IsPaused(w)
    BY <1>3 DEF IsPaused
  <1>4. CASE WakeUp(w)
    BY <1>4 DEF WakeUp
  <1>5. CASE Awake(w)
    BY <1>5 DEF Awake
  <1>6. CASE Consume(w)
    BY <1>6 DEF Consume
  <1>7. CASE ReadJob(w)
    BY <1>7 DEF ReadJob
  <1>8. CASE AddJob(w)
    BY <1>8 DEF AddJob
  <1>9. CASE SaveJob(w)
    BY <1>9 DEF SaveJob
  <1>10. CASE LastSave(w)
    BY <1>10 DEF LastSave
  <1>11. CASE FindDataset(w)
    BY <1>11 DEF FindDataset
  <1>12. CASE AwaitDataset(w)
    BY <1>12 DEF AwaitDataset
  <1>13. CASE IsOutdated(w)
    BY <1>13 DEF IsOutdated
  <1>14. CASE Hash(w)
    BY <1>14 DEF Hash
  <1>15. CASE LastRange(w)
    BY <1>15 DEF LastRange
  <1>16. CASE LastRangeFits(w)
    BY <1>16 DEF LastRangeFits
  <1>17. CASE Exhausted(w)
    BY <1>17 DEF Exhausted
  <1> QED
    BY <1>1, <1>2, <1>3, <1>4, <1>5, <1>6, <1>7, <1>8, <1>9, <1>10, <1>11, <1>12, <1>13,
       <1>14, <1>15, <1>16, <1>17 DEF Worker

LEMMA WorkerFrame ==
    ASSUME TypeOK, NEW w \in Workers, Worker(w)
    PROVE  /\ UNCHANGED <<seq, published, mainVars, dataVars>>
           /\ TypeOK'
           /\ \A v \in Workers \ {w} :
                /\ at'[v] = at[v] /\ got'[v] = got[v] /\ job'[v] = job[v]
                /\ mseq'[v] = mseq[v] /\ (v \in late' <=> v \in late)
           /\ Alive(w)
  <1>1. WorkTypes
    BY DEF TypeOK, WorkTypes
  <1>2. /\ UNCHANGED <<seq, published, mainVars, dataVars>>
        /\ WorkTypes'
    BY <1>1, WorkerEffect
  <1>3. /\ UNCHANGED <<todo, incoming, userJob, reset, active, enabled>>
        /\ UNCHANGED <<config, threads, commands>>
    BY <1>2 DEF mainVars, jobVars
  <1>4. TypeOK'
    <2>1. /\ todo' \in Seq(Steps) /\ incoming' \in Jobs \cup {NoJob}
          /\ userJob' \in Jobs \cup {NoJob} /\ reset' \in BOOLEAN
          /\ active' \in BOOLEAN /\ enabled' \in BOOLEAN /\ config' \in Configs
          /\ threads' \in {Launch(j, c) : j \in Jobs, c \in Configs} \cup {NoThreads}
          /\ commands' \in Nat
      BY <1>3 DEF TypeOK
    <2> QED
      BY <1>2, <2>1 DEF TypeOK, WorkTypes
  <1> QED
    BY <1>1, <1>2, <1>4, WorkerEffect

LEMMA OwnStep ==
    ASSUME TypeOK, NEW w \in Workers, Worker(w), WorkerInv(w)
    PROVE  WorkerInv(w)'
  <1>0. UNCHANGED <<seq, published, todo, ready>> /\ TypeOK'
    BY WorkerFrame DEF mainVars, dataVars
  <1> USE <1>0 DEF TypeOK, Places, Goto, OnlyMoves, sharedVars, Alive, Added, WorkerInv, HasData,
                   Renewing, Hashing
  <1>1. CASE Begin(w)
    BY <1>1 DEF Begin
  <1>2. CASE LoopTop(w)
    BY <1>2 DEF LoopTop
  <1>3. CASE IsPaused(w)
    BY <1>3 DEF IsPaused
  <1>4. CASE WakeUp(w)
    BY <1>4 DEF WakeUp
  <1>5. CASE Awake(w)
    BY <1>5 DEF Awake
  <1>6. CASE Consume(w)
    BY <1>6 DEF Consume
  <1>7. CASE ReadJob(w)
    BY <1>7 DEF ReadJob
  <1>8. CASE AddJob(w)
    BY <1>8 DEF AddJob
  <1>9. CASE SaveJob(w)
    BY <1>9 DEF SaveJob
  <1>10. CASE LastSave(w)
    BY <1>10 DEF LastSave
  <1>11. CASE FindDataset(w)
    BY <1>11 DEF FindDataset
  <1>12. CASE AwaitDataset(w)
    BY <1>12 DEF AwaitDataset
  <1>13. CASE IsOutdated(w)
    BY <1>13 DEF IsOutdated, Outdated
  <1>14. CASE Hash(w)
    BY <1>14 DEF Hash
  <1>15. CASE LastRange(w)
    BY <1>15 DEF LastRange
  <1>16. CASE LastRangeFits(w)
    BY <1>16 DEF LastRangeFits
  <1>17. CASE Exhausted(w)
    BY <1>17 DEF Exhausted
  <1> QED
    BY <1>1, <1>2, <1>3, <1>4, <1>5, <1>6, <1>7, <1>8, <1>9, <1>10, <1>11, <1>12, <1>13,
       <1>14, <1>15, <1>16, <1>17 DEF Worker

LEMMA WorkerStep ==
    ASSUME IInv, NEW w \in Workers, Worker(w)
    PROVE  IInv'
  <1>1. TypeOK /\ ScriptInv /\ ThreadsInv /\ DataInv /\ \A v \in Workers : WorkerInv(v)
    BY DEF IInv
  <1>2. /\ UNCHANGED <<seq, published, mainVars, dataVars>> /\ TypeOK' /\ Alive(w)
        /\ \A v \in Workers \ {w} :
             /\ at'[v] = at[v] /\ got'[v] = got[v] /\ job'[v] = job[v]
             /\ mseq'[v] = mseq[v] /\ (v \in late' <=> v \in late)
    BY <1>1, WorkerFrame
  <1>3. UNCHANGED <<seq, published, todo, incoming, threads, busy, ready>>
    BY <1>2 DEF mainVars, dataVars
  <1>4. ScriptInv' /\ DataInv'
    BY <1>1, <1>3 DEF ScriptInv, DataInv, HasData
  <1>5. ThreadsInv'
    <2>1. threads # NoThreads
      BY <1>1, <1>2 DEF ThreadsInv, Alive
    <2> QED
      BY <1>1, <1>3, <2>1 DEF ThreadsInv
  <1>6. ASSUME NEW v \in Workers PROVE WorkerInv(v)'
    <2>1. CASE v = w
      BY <1>1, <2>1, OwnStep
    <2>2. CASE v # w
      BY <1>1, <1>2, <1>3, <2>2 DEF WorkerInv, Alive, HasData
    <2> QED
      BY <2>1, <2>2
  <1> QED
    BY <1>2, <1>4, <1>5, <1>6 DEF IInv

LEMMA BuildStep ==
    ASSUME IInv, Build
    PROVE  IInv'
  <1>1. TypeOK /\ ScriptInv /\ ThreadsInv /\ DataInv /\ \A v \in Workers : WorkerInv(v)
    BY DEF IInv
  <1>2. UNCHANGED <<sharedVars, mainVars, workVars>> /\ busy /\ ready = NoSeed /\ ~busy'
    BY <1>1 DEF Build, Service!Answer, DataInv
  <1>3. /\ UNCHANGED <<seq, paused, published, todo, incoming, userJob, reset, active>>
        /\ UNCHANGED <<enabled, config, threads, commands, at, after, got, job, mseq, late>>
    BY <1>2 DEF sharedVars, mainVars, workVars
  <1>4. \A j : HasData(j) => HasData(j)'
    BY <1>2 DEF HasData
  <1>5. TypeOK' /\ DataInv' /\ ThreadsInv'
    BY <1>1, <1>2, <1>3 DEF TypeOK, DataInv, ThreadsInv
  <1>6. ScriptInv'
    <2>1. HasData(incoming) => HasData(incoming)'
      BY <1>2, <1>3 DEF HasData
    <2> QED
      BY <1>1, <1>3, <2>1 DEF ScriptInv
  <1>7. ASSUME NEW v \in Workers PROVE WorkerInv(v)'
    <2>1. HasData(job[v]) => HasData(job[v])'
      BY <1>2, <1>3 DEF HasData
    <2> QED
      BY <1>1, <1>3, <2>1 DEF WorkerInv, Alive
  <1> QED
    BY <1>5, <1>6, <1>7 DEF IInv

-----------------------------------------------------------------------------
\* A command changes nothing that the workers see before its first step.
LEMMA NewScript ==
    ASSUME IInv, Idle, UNCHANGED <<seq, published, threads, workVars, ready, busy>>
    PROVE  ThreadsInv' /\ DataInv' /\ \A w \in Workers : WorkerInv(w)'
  <1>1. ThreadsInv /\ DataInv /\ \A w \in Workers : WorkerInv(w)
    BY DEF IInv
  <1>2. UNCHANGED <<seq, published, threads, at, after, got, job, mseq, late, ready, busy>>
    BY DEF workVars
  <1>3. ~Joins(todo) /\ ~Has(todo, "touch") /\ ~Has(todo, "join")
    BY NoStep DEF Idle
  <1>4. ThreadsInv' /\ DataInv'
    BY <1>1, <1>2, <1>3 DEF ThreadsInv, DataInv
  <1>5. ASSUME NEW w \in Workers PROVE WorkerInv(w)'
    BY <1>1, <1>2, <1>3 DEF WorkerInv, Alive, HasData
  <1> QED
    BY <1>4, <1>5

LEMMA OperationStep ==
    ASSUME IInv, Operation
    PROVE  IInv'
  <1>0. TypeOK /\ ScriptInv
    BY DEF IInv
  <1>1. ASSUME NEW j \in Jobs, SetJob(j) PROVE IInv'
    <2>1. /\ Idle /\ incoming' = j /\ todo' = StopFirst(j) \o <<"publish">>
          /\ commands' = commands + 1
          /\ UNCHANGED <<seq, paused, published, userJob, reset, active, enabled, config>>
          /\ UNCHANGED <<threads, workVars, ready, busy>>
      BY <1>1 DEF SetJob, Command, sharedVars, jobVars, dataVars
    <2>2. /\ todo' \in Seq(Steps) /\ PublishLast(todo') /\ ~Has(todo', "start")
          /\ threads = NoThreads \/ Closed(todo')
          /\ HasData(j) \/ threads = NoThreads \/ Has(todo', "join")
      BY <2>1, SetJobScript
    <2>3. ScriptInv'
      BY <2>1, <2>2 DEF ScriptInv, HasData
    <2>4. TypeOK'
      BY <1>0, <2>1, <2>2 DEF TypeOK, workVars
    <2> QED
      BY <2>1, <2>3, <2>4, NewScript DEF IInv
  <1>2. ASSUME todo' \in Seq(Steps), Closed(todo'), ~Has(todo', "publish"),
               Has(todo', "start") => published # NoJob,
               Idle, active' \in BOOLEAN, enabled' \in BOOLEAN, config' \in Configs,
               commands' \in Nat,
               UNCHANGED <<seq, paused, published, incoming, userJob, reset>>,
               UNCHANGED <<threads, workVars, ready, busy>>
        PROVE  IInv'
    <2>1. ScriptInv'
      BY <1>2 DEF ScriptInv, PublishLast, Has
    <2>2. TypeOK'
      BY <1>0, <1>2 DEF TypeOK, workVars
    <2> QED
      BY <1>2, <2>1, <2>2, NewScript DEF IInv
  <1>3. commands \in Nat /\ active \in BOOLEAN /\ enabled \in BOOLEAN /\ config \in Configs
    BY <1>0 DEF TypeOK
  <1>4. ASSUME NEW x \in Steps, NEW y \in Steps,
               x \notin {"zero", "publish", "start"}, y \notin {"zero", "publish", "start"}
        PROVE  LET s == <<x, y>> IN /\ s \in Seq(Steps) /\ Closed(s)
                                    /\ ~Has(s, "publish") /\ ~Has(s, "start")
    <2> DEFINE s == <<x, y>>
    <2>1. s \in Seq(Steps) /\ Len(s) = 2 /\ s[1] = x /\ s[2] = y
      OBVIOUS
    <2> HIDE DEF s
    <2>2. \A i \in 1 .. Len(s) : s[i] \notin {"zero", "publish", "start"}
      BY <1>4, <2>1
    <2>3. Closed(s) /\ ~Has(s, "publish") /\ ~Has(s, "start")
      BY <2>2 DEF Has, Closed
    <2> QED
      BY <2>1, <2>3 DEF s
  <1>5. "pause" \in Steps /\ "resume" \in Steps /\ "touch" \in Steps
    BY DEF Steps
  <1>6. ASSUME Pause PROVE IInv'
    <2>1. /\ Idle /\ todo' = <<"pause", "touch">> /\ active' = FALSE
          /\ commands' = commands + 1
          /\ UNCHANGED <<seq, paused, published, incoming, userJob, reset, enabled, config>>
          /\ UNCHANGED <<threads, workVars, ready, busy>>
      BY <1>6 DEF Pause, Command, sharedVars, jobVars, dataVars
    <2>2. /\ todo' \in Seq(Steps) /\ Closed(todo')
          /\ ~Has(todo', "publish") /\ ~Has(todo', "start")
      BY <1>4, <1>5, <2>1
    <2>3. commands' \in Nat
      BY <1>3, <2>1
    <2>4. active' \in BOOLEAN
      BY <2>1
    <2>5. enabled' \in BOOLEAN
      BY <1>3, <2>1
    <2> QED
      BY <1>2, <1>3, <2>1, <2>2, <2>3, <2>4, <2>5
  <1>7. ASSUME NEW b \in BOOLEAN, SetEnabled(b) PROVE IInv'
    <2>1. /\ Idle /\ enabled' = b /\ commands' = commands + 1
          /\ todo' = IF active THEN <<IF b THEN "resume" ELSE "pause", "touch">> ELSE <<>>
          /\ UNCHANGED <<seq, paused, published, incoming, userJob, reset, active, config>>
          /\ UNCHANGED <<threads, workVars, ready, busy>>
      BY <1>7 DEF SetEnabled, Command, sharedVars, jobVars, dataVars
    <2>2. /\ todo' \in Seq(Steps) /\ Closed(todo')
          /\ ~Has(todo', "publish") /\ ~Has(todo', "start")
      <3>1. CASE active /\ b
        BY <1>4, <1>5, <2>1, <3>1
      <3>2. CASE active /\ ~b
        BY <1>4, <1>5, <2>1, <3>2
      <3>3. CASE ~active
        BY <2>1, <3>3, NoStep
      <3> QED
        BY <3>1, <3>2, <3>3
    <2> QED
      BY <1>2, <1>3, <2>1, <2>2
  <1>8. ASSUME Stop PROVE IInv'
    <2>1. /\ Idle /\ todo' = MinerStop /\ commands' = commands + 1
          /\ UNCHANGED <<seq, paused, published, incoming, userJob, reset, active, enabled>>
          /\ UNCHANGED <<config, threads, workVars, ready, busy>>
      BY <1>8 DEF Stop, Command, sharedVars, jobVars, dataVars
    <2>2. /\ todo' \in Seq(Steps) /\ ~Has(todo', "publish") /\ ~Has(todo', "start")
          /\ threads = NoThreads \/ Closed(todo')
      BY <2>1, MinerStopScript
    <2>3. ScriptInv'
      BY <2>1, <2>2 DEF ScriptInv, PublishLast, Has
    <2>4. TypeOK'
      BY <1>0, <2>1, <2>2 DEF TypeOK, workVars
    <2> QED
      BY <2>1, <2>3, <2>4, NewScript DEF IInv
  <1>9. ASSUME NEW c \in Configs, Reload(c) PROVE IInv'
    <2>1. /\ Idle /\ config' = c /\ commands' = commands + 1
          /\ todo' \in {<<>>, BackendSetJob(published, threads, c)}
          /\ UNCHANGED <<seq, paused, published, incoming, userJob, reset, active, enabled>>
          /\ UNCHANGED <<threads, workVars, ready, busy>>
      BY <1>9 DEF Reload, Command, sharedVars, jobVars, dataVars
    <2>2. /\ todo' \in Seq(Steps) /\ Closed(todo') /\ ~Has(todo', "publish")
          /\ Has(todo', "start") => published # NoJob
      BY <2>1, NoStep, BackendScript
    <2> QED
      BY <1>2, <1>3, <2>1, <2>2
  <1> QED
    BY <1>1, <1>6, <1>7, <1>8, <1>9 DEF Operation

LEMMA DatasetReadyStep ==
    ASSUME IInv, OnDatasetReady
    PROVE  IInv'
  <1>0. TypeOK
    BY DEF IInv
  <1>1. /\ Idle
        /\ todo' \in {HandleJobChange(published, threads, active, reset), <<>>}
        /\ published = NoJob => todo' = <<>>
        /\ UNCHANGED <<seq, paused, published, incoming, userJob, reset, active, enabled>>
        /\ UNCHANGED <<config, threads, commands, workVars, ready, busy>>
    BY DEF OnDatasetReady, Service!Announce, sharedVars, jobVars
  <1>2. /\ todo' \in Seq(Steps) /\ Closed(todo') /\ ~Has(todo', "publish")
        /\ Has(todo', "start") => published # NoJob
    BY <1>1, NoStep, JobScript
  <1>3. ScriptInv'
    BY <1>1, <1>2 DEF ScriptInv, PublishLast, Has
  <1>4. TypeOK'
    BY <1>0, <1>1, <1>2 DEF TypeOK, workVars
  <1> QED
    BY <1>1, <1>3, <1>4, NewScript DEF IInv

-----------------------------------------------------------------------------
\* A step that neither publishes nor stops or starts workers leaves a script like before.
LEMMA SameThreadsScript ==
    ASSUME IInv, todo # <<>>, Head(todo) \notin {"publish", "join", "start"},
           todo' = Tail(todo), UNCHANGED <<published, incoming, threads, at, ready, busy>>
    PROVE  ScriptInv' /\ ThreadsInv' /\ DataInv'
  <1>1. TypeOK /\ ScriptInv /\ ThreadsInv /\ DataInv
    BY DEF IInv
  <1>2. todo \in Seq(Steps)
    BY <1>1 DEF TypeOK
  <1>3. /\ \A y : Has(todo', y) => Has(todo, y)
        /\ Has(todo, "join") => Has(todo', "join")
        /\ Closed(todo) => Closed(todo')
        /\ PublishLast(todo) => PublishLast(todo')
    BY <1>2, Remaining
  <1>4. ScriptInv'
    BY <1>1, <1>3 DEF ScriptInv, HasData
  <1>5. ThreadsInv' /\ DataInv'
    BY <1>1, <1>3 DEF ThreadsInv, DataInv
  <1> QED
    BY <1>4, <1>5

LEMMA PlainStep ==
    ASSUME IInv, SetPause \/ ResetNonces
    PROVE  IInv'
  <1>1. TypeOK /\ \A w \in Workers : WorkerInv(w)
    BY DEF IInv
  <1>2. /\ todo # <<>> /\ Head(todo) \in {"pause", "resume", "reset"} /\ todo' = Tail(todo)
        /\ paused' \in BOOLEAN
        /\ UNCHANGED <<seq, published, incoming, userJob, reset, active, enabled, config>>
        /\ UNCHANGED <<threads, commands, at, after, got, job, mseq, late, ready, busy>>
    <2>1. CASE SetPause
      BY <2>1 DEF SetPause, First, StepDone, jobVars, workVars, dataVars
    <2>2. CASE ResetNonces
      BY <1>1, <2>2 DEF ResetNonces, First, StepDone, sharedVars, jobVars, workVars, dataVars,
                        TypeOK
    <2> QED
      BY <2>1, <2>2
  <1>3. todo \in Seq(Steps) /\ todo' \in Seq(Steps)
    BY <1>1, <1>2, Remaining DEF TypeOK
  <1>4. Joins(todo) => Joins(todo')
    BY <1>2, <1>3, Remaining
  <1>5. Has(todo, "touch") => Has(todo', "touch")
    BY <1>2, <1>3, Remaining
  <1>6. TypeOK'
    BY <1>1, <1>2, <1>3 DEF TypeOK
  <1>7. ASSUME NEW w \in Workers PROVE WorkerInv(w)'
    BY <1>1, <1>2, <1>4, <1>5 DEF WorkerInv, Alive, HasData
  <1> QED
    BY <1>2, <1>6, <1>7, SameThreadsScript DEF IInv

LEMMA SequenceStep ==
    ASSUME IInv, SetSequence
    PROVE  IInv'
  <1>1. TypeOK /\ ScriptInv /\ ThreadsInv /\ \A w \in Workers : WorkerInv(w)
    BY DEF IInv
  <1>2. /\ todo # <<>> /\ Head(todo) \in {"touch", "zero"} /\ todo' = Tail(todo)
        /\ seq' = IF Head(todo) = "touch" THEN seq + 1 ELSE 0
        /\ UNCHANGED <<paused, published, incoming, userJob, reset, active, enabled, config>>
        /\ UNCHANGED <<threads, commands, at, after, got, job, mseq, late, ready, busy>>
    BY DEF SetSequence, First, StepDone, jobVars, workVars, dataVars
  <1>3. todo \in Seq(Steps) /\ todo' \in Seq(Steps) /\ seq \in Nat /\ seq' \in Nat
        /\ mseq \in [Workers -> Nat]
    BY <1>1, <1>2, Remaining DEF TypeOK
  <1>4. TypeOK'
    BY <1>1, <1>2, <1>3 DEF TypeOK
  <1>5. ASSUME NEW w \in Workers, Head(todo) = "touch" PROVE WorkerInv(w)'
    <2>1. ~Joins(todo)
      BY <1>3, <1>2, <1>5, Remaining
    <2>2. seq' = seq + 1 /\ mseq[w] \in Nat
      BY <1>2, <1>3, <1>5
    <2>3. Alive(w) => mseq[w] < seq'
      BY <1>1, <1>3, <2>1, <2>2 DEF WorkerInv
    <2> QED
      BY <1>1, <1>2, <1>3, <2>2, <2>3 DEF WorkerInv, Alive, HasData
  <1>6. ASSUME NEW w \in Workers, Head(todo) = "zero" PROVE WorkerInv(w)'
    <2>1. seq' = 0
      BY <1>2, <1>6
    <2>2. Alive(w) => Joins(todo')
      <3>1. CASE Closed(todo)
        BY <1>2, <1>3, <1>6, <3>1, Remaining
      <3>2. CASE threads = NoThreads
        BY <1>1, <3>2 DEF ThreadsInv, Alive
      <3> QED
        BY <1>1, <3>1, <3>2 DEF ScriptInv
    <2> QED
      BY <1>1, <1>2, <2>1, <2>2 DEF WorkerInv, Alive, HasData
  <1>7. ScriptInv' /\ ThreadsInv' /\ DataInv'
    BY <1>2, SameThreadsScript
  <1> QED
    BY <1>2, <1>4, <1>5, <1>6, <1>7 DEF IInv

LEMMA PublishStep ==
    ASSUME IInv, Publish
    PROVE  IInv'
  <1>1. TypeOK /\ ScriptInv /\ ThreadsInv /\ DataInv /\ \A w \in Workers : WorkerInv(w)
    BY DEF IInv
  <1>2. /\ todo # <<>> /\ Head(todo) = "publish" /\ published' = incoming
        /\ reset' = ~BackToUser
        /\ userJob' = IF Index(incoming) = 0 THEN incoming ELSE userJob
        /\ active' = TRUE
        /\ UNCHANGED <<seq, paused, incoming, enabled, config, threads, commands>>
        /\ UNCHANGED <<at, after, got, job, mseq, late>>
    BY DEF Publish, First, workVars
  <1>3. todo \in Seq(Steps) /\ Has(todo, "publish") /\ ~Has(todo, "join")
    BY <1>1, <1>2, Remaining DEF TypeOK, ScriptInv
  <1>4. ~Has(todo, "start") /\ (HasData(incoming) \/ threads = NoThreads)
    BY <1>1, <1>3 DEF ScriptInv
  <1>5. ASSUME todo' \in Seq(Steps) PROVE TypeOK'
    BY <1>1, <1>2, <1>5 DEF TypeOK
  <1>6. CASE HasData(incoming)
    <2>1. /\ todo' = HandleJobChange(incoming, threads, TRUE, reset')
          /\ UNCHANGED <<ready, busy>>
      BY <1>6 DEF Publish, dataVars
    <2>2. /\ todo' \in Seq(Steps) /\ Closed(todo') /\ ~Has(todo', "publish")
          /\ Has(todo', "touch") /\ (Has(todo', "start") => incoming # NoJob)
          /\ threads # NoThreads => Has(todo', "join") \/ threads = Launch(incoming, config)
      BY <2>1, JobScript
    <2>3. ScriptInv'
      BY <1>2, <2>2 DEF ScriptInv, PublishLast, Has
    <2>4. ThreadsInv' /\ DataInv'
      <3>1. threads = Launch(incoming, config) => threads[1] = L3(incoming)
        BY DEF Launch
      <3> QED
        BY <1>1, <1>2, <2>1, <2>2, <3>1 DEF ThreadsInv, DataInv
    <2>5. ~Joins(todo)
      BY <1>3 DEF Joins, Has
    <2>6. ASSUME NEW w \in Workers PROVE WorkerInv(w)'
      BY <1>1, <1>2, <2>1, <2>2, <2>5 DEF WorkerInv, Alive, HasData
    <2> QED
      BY <1>5, <2>2, <2>3, <2>4, <2>6 DEF IInv
  <1>7. CASE ~HasData(incoming)
    <2>1. todo' = Tail(todo) /\ busy' = TRUE /\ ready' = NoSeed
      BY <1>7 DEF Publish, StepDone, Service!Ask
    <2>2. threads = NoThreads /\ \A w \in Workers : ~Alive(w)
      BY <1>1, <1>4, <1>7 DEF ThreadsInv, Alive
    <2>3. /\ todo' \in Seq(Steps) /\ ~Has(todo', "start") /\ PublishLast(todo')
      BY <1>1, <1>2, <1>3, <1>4, <2>1, Remaining DEF ScriptInv
    <2>4. ScriptInv' /\ ThreadsInv' /\ DataInv'
      BY <1>1, <1>2, <2>1, <2>2, <2>3 DEF ScriptInv, ThreadsInv, DataInv
    <2>5. ASSUME NEW w \in Workers PROVE WorkerInv(w)'
      BY <1>1, <1>2, <2>2 DEF WorkerInv, Alive, Hashing
    <2> QED
      BY <1>5, <2>3, <2>4, <2>5 DEF IInv
  <1> QED
    BY <1>6, <1>7

LEMMA JoinStep ==
    ASSUME IInv, Join
    PROVE  IInv'
  <1>1. TypeOK /\ ScriptInv /\ DataInv
    BY DEF IInv
  <1>2. /\ todo # <<>> /\ Head(todo) = "join" /\ todo' = Tail(todo)
        /\ at' = [w \in Workers |-> "none"] /\ threads' = NoThreads
        /\ UNCHANGED <<seq, paused, published, incoming, userJob, reset, active, enabled>>
        /\ UNCHANGED <<config, commands, after, got, job, mseq, late, ready, busy>>
    BY DEF Join, First, StepDone, sharedVars, jobVars, dataVars
  <1>3. todo \in Seq(Steps) /\ todo' \in Seq(Steps)
    BY <1>1, <1>2, Remaining DEF TypeOK
  <1>4. /\ \A y : Has(todo', y) => Has(todo, y)
        /\ Closed(todo) => Closed(todo')
        /\ PublishLast(todo) => PublishLast(todo')
    BY <1>2, <1>3, Remaining
  <1>5. ScriptInv'
    BY <1>1, <1>2, <1>4 DEF ScriptInv
  <1>6. TypeOK'
    BY <1>1, <1>2, <1>3 DEF TypeOK, Places
  <1>7. ThreadsInv' /\ DataInv'
    BY <1>1, <1>2 DEF ThreadsInv, DataInv
  <1>8. ASSUME NEW w \in Workers PROVE WorkerInv(w)'
    BY <1>2 DEF WorkerInv, Alive, Hashing
  <1> QED
    BY <1>5, <1>6, <1>7, <1>8 DEF IInv

LEMMA StartStep ==
    ASSUME IInv, Start
    PROVE  IInv'
  <1>1. TypeOK /\ ScriptInv /\ DataInv
    BY DEF IInv
  <1>2. /\ todo # <<>> /\ Head(todo) = "start" /\ todo' = Tail(todo)
        /\ threads' = Launch(published, config) /\ late' = {}
        /\ at' = [w \in Workers |-> "new"] /\ after' = [w \in Workers |-> "top"]
        /\ got' = [w \in Workers |-> NoJob] /\ job' = [w \in Workers |-> NoJob]
        /\ mseq' = [w \in Workers |-> 0]
        /\ UNCHANGED <<seq, paused, published, incoming, userJob, reset, active, enabled>>
        /\ UNCHANGED <<config, commands, ready, busy>>
    BY DEF Start, First, StepDone, sharedVars, jobVars, dataVars
  <1>3. todo \in Seq(Steps) /\ todo' \in Seq(Steps) /\ Has(todo, "start")
    BY <1>1, <1>2, Remaining DEF TypeOK
  <1>4. /\ \A y : Has(todo', y) => Has(todo, y)
        /\ Closed(todo) => Closed(todo')
        /\ PublishLast(todo) => PublishLast(todo')
    BY <1>2, <1>3, Remaining
  <1>5. published \in Jobs /\ config \in Configs /\ threads' # NoThreads
    BY <1>1, <1>2, <1>3, LaunchAssumption DEF ScriptInv, TypeOK, LaunchAssumption
  <1>6. ScriptInv'
    BY <1>1, <1>2, <1>3, <1>4 DEF ScriptInv
  <1>7. TypeOK'
    <2>1. threads' \in {Launch(j, c) : j \in Jobs, c \in Configs}
      BY <1>2, <1>5
    <2>2. /\ at' \in [Workers -> Places] /\ after' \in [Workers -> {"top", "isOutdated"}]
          /\ got' \in [Workers -> Jobs \cup {NoJob}]
          /\ job' \in [Workers -> Jobs \cup {NoJob}]
          /\ mseq' \in [Workers -> Nat] /\ late' \in SUBSET Workers
      BY <1>2 DEF Places
    <2> QED
      BY <1>1, <1>2, <1>3, <2>1, <2>2 DEF TypeOK
  <1>8. ThreadsInv' /\ DataInv'
    BY <1>1, <1>2, <1>5 DEF ThreadsInv, DataInv, Launch
  <1>9. ASSUME NEW w \in Workers PROVE WorkerInv(w)'
    BY <1>1, <1>2 DEF WorkerInv, Alive, Hashing, TypeOK, Renewing
  <1> QED
    BY <1>6, <1>7, <1>8, <1>9 DEF IInv

LEMMA Step == IInv /\ [Next]_vars => IInv'
  <1> SUFFICES ASSUME IInv, [Next]_vars PROVE IInv'
    OBVIOUS
  <1>1. CASE Script
    BY <1>1, PlainStep, SequenceStep, PublishStep, JoinStep, StartStep DEF Script
  <1>2. CASE UNCHANGED vars
    <2>1. /\ UNCHANGED <<seq, paused, published, todo, incoming, userJob, reset, active>>
          /\ UNCHANGED <<enabled, config, threads, commands, at, after, got, job, mseq, late>>
          /\ UNCHANGED <<ready, busy>>
      BY <1>2 DEF vars, sharedVars, mainVars, workVars, dataVars
    <2>2. TypeOK' /\ ScriptInv' /\ ThreadsInv' /\ DataInv'
      BY <2>1 DEF IInv, TypeOK, ScriptInv, ThreadsInv, DataInv, HasData
    <2>3. ASSUME NEW w \in Workers PROVE WorkerInv(w)'
      BY <2>1 DEF IInv, WorkerInv, Alive, HasData
    <2> QED
      BY <2>2, <2>3 DEF IInv
  <1> QED
    BY <1>1, <1>2, OperationStep, DatasetReadyStep, BuildStep, WorkerStep DEF Next

LEMMA Inductive == Spec => []IInv
  BY Initially, Step, PTL DEF Spec

-----------------------------------------------------------------------------
\* Commands, scripts and workers keep the shapes of TypeOK (Miner.cpp, CpuWorker.cpp).
THEOREM Typing == Spec => []TypeOK
  BY Inductive, PTL DEF IInv

\* For any number of workers and commands, a worker hashes only with a dataset that is
\* there for its job: Miner::setJob and RxQueue do not change it under a worker.
THEOREM DatasetKept == Spec => []DatasetStable
  <1>1. IInv => DatasetStable
    BY DEF IInv, WorkerInv, DatasetStable
  <1> QED
    BY <1>1, Inductive, PTL

\* No worker remembers a number that Nonce::m_sequence has yet to reach: after
\* Nonce::stop it is counted again from 0 only when all workers were joined.
THEOREM SequenceMonotone == Spec => []SequenceFresh
  <1>1. IInv => SequenceFresh
    BY DEF IInv, WorkerInv, SequenceFresh
  <1> QED
    BY <1>1, Inductive, PTL

\* Between commands a worker whose sequence is current has the published job, but for
\* the window between its two reads in CpuWorker::consumeJob.
THEOREM JobCurrent == Spec => []CurrentJob
  <1>1. IInv => CurrentJob
    BY NoStep DEF IInv, WorkerInv, CurrentJob, Idle, Hashing, Alive
  <1> QED
    BY <1>1, Inductive, PTL

\* Between commands the workers have scratchpads for the published job
\* (CpuBackend::setJob).
THEOREM ScratchpadOfJob == Spec => []ScratchpadFits
  <1>1. IInv => ScratchpadFits
    BY NoStep DEF IInv, ThreadsInv, ScratchpadFits, Idle
  <1> QED
    BY <1>1, Inductive, PTL

-----------------------------------------------------------------------------
\* The workers will be paused, or there will be none, when the script is over.
Pausing == ~Has(todo, "resume") /\ (paused = TRUE \/ Has(todo, "pause"))

Absent == active = TRUE /\ threads = NoThreads /\ ~Has(todo, "start")

QuietInv == ~(enabled /\ active) => Pausing \/ Has(todo, "publish") \/ Absent

LEMMA BackendQuiet ==
    ASSUME NEW j, NEW t, NEW c
    PROVE  ~Has(BackendSetJob(j, t, c), "resume")
  <1>1. ~Has(StopWorkers(t), "resume") /\ StopWorkers(t) \in Seq(Steps)
    <2>1. ~Has(<<"zero", "join", "touch">>, "resume")
      BY DEF Has
    <2> QED
      BY <2>1, NoStep, StopScript DEF StopWorkers
  <1>2. <<"touch", "start">> \in Seq(Steps) /\ ~Has(<<"touch", "start">>, "resume")
    BY DEF Has, Steps
  <1>3. ~Has(StopWorkers(t) \o <<"touch", "start">>, "resume")
    BY <1>1, <1>2, Both
  <1> QED
    BY <1>1, <1>3, NoStep DEF BackendSetJob

LEMMA JobScriptPauses ==
    ASSUME NEW j, NEW t, NEW act, NEW r
    PROVE  LET h == HandleJobChange(j, t, act, r) IN
           /\ Has(h, "resume") => act /\ enabled
           /\ ~enabled => Has(h, "pause")
  <1> DEFINE p1 == IF enabled THEN <<>> ELSE <<"pause">>
             p2 == IF r THEN <<"reset">> ELSE <<>>
             p3 == BackendSetJob(j, t, config)
             p4 == <<"touch">>
             p5 == IF Resumes(act) THEN <<"resume">> ELSE <<>>
  <1>1. /\ "pause" \in Steps /\ "reset" \in Steps /\ "touch" \in Steps /\ "resume" \in Steps
    BY DEF Steps
  <1>2. /\ p1 \in Seq(Steps) /\ ~Has(p1, "resume") /\ (~enabled => Has(p1, "pause"))
    BY <1>1, OneStep, NoStep
  <1>3. p2 \in Seq(Steps) /\ ~Has(p2, "resume")
    BY <1>1, OneStep, NoStep
  <1>4. p4 \in Seq(Steps) /\ ~Has(p4, "resume")
    BY <1>1, OneStep
  <1>5. p5 \in Seq(Steps) /\ (Has(p5, "resume") => act /\ enabled)
    BY <1>1, OneStep, NoStep DEF Resumes
  <1>6. p3 \in Seq(Steps) /\ ~Has(p3, "resume")
    BY BackendScript, BackendQuiet
  <1>7. HandleJobChange(j, t, act, r) = p1 \o p2 \o p3 \o p4 \o p5
    BY DEF HandleJobChange, Touch
  <1> HIDE DEF p1, p2, p3, p4, p5
  <1> DEFINE q2 == p1 \o p2
             q3 == q2 \o p3
             q4 == q3 \o p4
             q5 == q4 \o p5
  <1>8. q2 \in Seq(Steps) /\ ~Has(q2, "resume") /\ (~enabled => Has(q2, "pause"))
    BY <1>2, <1>3, Both
  <1> HIDE DEF q2
  <1>9. q3 \in Seq(Steps) /\ ~Has(q3, "resume") /\ (~enabled => Has(q3, "pause"))
    BY <1>6, <1>8, Both
  <1> HIDE DEF q3
  <1>10. q4 \in Seq(Steps) /\ ~Has(q4, "resume") /\ (~enabled => Has(q4, "pause"))
    BY <1>4, <1>9, Both
  <1> HIDE DEF q4
  <1>11. (Has(q5, "resume") => act /\ enabled) /\ (~enabled => Has(q5, "pause"))
    BY <1>5, <1>10, Both
  <1>12. HandleJobChange(j, t, act, r) = q5
    BY <1>7 DEF q2, q3, q4
  <1> HIDE DEF q5
  <1> QED
    BY <1>11, <1>12

LEMMA QuietStep ==
    ASSUME "stop" \notin Commands, "reload" \notin Commands, IInv, QuietInv, [Next]_vars
    PROVE  QuietInv'
  <1> USE DEF QuietInv, Pausing, Absent
  <1>0. TypeOK /\ ScriptInv /\ ThreadsInv
    BY DEF IInv
  <1>1. ~Has(<<>>, "resume") /\ ~Has(<<>>, "pause") /\ ~Has(<<>>, "publish")
        /\ ~Has(<<>>, "start")
    BY NoStep
  <1>2. ASSUME NEW j \in Jobs, SetJob(j) PROVE QuietInv'
    <2>1. StopFirst(j) \in Seq(Steps) /\ <<"publish">> \in Seq(Steps)
          /\ Has(<<"publish">>, "publish")
      BY MinerStopScript, NoStep, OneStep DEF StopFirst, Steps
    <2>2. Has(StopFirst(j) \o <<"publish">>, "publish")
      BY <2>1, Both
    <2> QED
      BY <1>2, <2>2 DEF SetJob
  <1>3. CASE Pause
    <2>1. todo' = <<"pause", "touch">>
      BY <1>3 DEF Pause
    <2>2. Has(<<"pause", "touch">>, "pause") /\ ~Has(<<"pause", "touch">>, "resume")
      BY DEF Has
    <2> QED
      BY <2>1, <2>2
  <1>4. ASSUME NEW b \in BOOLEAN, SetEnabled(b) PROVE QuietInv'
    <2>1. /\ Idle /\ enabled' = b /\ UNCHANGED <<active, paused, threads>>
          /\ todo' = IF active THEN <<IF b THEN "resume" ELSE "pause", "touch">> ELSE <<>>
      BY <1>4 DEF SetEnabled, Command, sharedVars
    <2>2. CASE active /\ b
      BY <2>1, <2>2
    <2>3. CASE active /\ ~b
      <3>1. todo' = <<"pause", "touch">>
        BY <2>1, <2>3
      <3>2. Has(<<"pause", "touch">>, "pause") /\ ~Has(<<"pause", "touch">>, "resume")
        BY DEF Has
      <3> QED
        BY <3>1, <3>2
    <2>4. CASE ~active
      BY <1>1, <2>1, <2>4 DEF Idle
    <2> QED
      BY <2>2, <2>3, <2>4
  <1>5. ~Stop /\ \A c \in Configs : ~Reload(c)
    BY DEF Stop, Reload, Command
  <1>6. CASE OnDatasetReady
    <2>1. /\ Idle /\ UNCHANGED <<active, enabled, paused, threads>>
          /\ todo' \in {HandleJobChange(published, threads, active, reset), <<>>}
      BY <1>6 DEF OnDatasetReady, sharedVars
    <2>2. CASE todo' = <<>>
      BY <1>1, <2>1, <2>2 DEF Idle
    <2>3. CASE todo' = HandleJobChange(published, threads, active, reset)
      <3>1. (Has(todo', "resume") => active /\ enabled) /\ (~enabled => Has(todo', "pause"))
        BY <2>3, JobScriptPauses
      <3>2. ~(enabled /\ active) => paused = TRUE \/ ~enabled
        BY <1>1, <2>1 DEF Idle
      <3> QED
        BY <2>1, <3>1, <3>2
    <2> QED
      BY <2>1, <2>2, <2>3
  <1>7. ASSUME todo # <<>>, todo' = Tail(todo), Head(todo) # "publish",
               UNCHANGED <<active, enabled>>,
               threads' = threads \/ threads' = NoThreads \/ Head(todo) = "start",
               paused' = IF Head(todo) \in {"pause", "resume"} THEN Head(todo) = "pause" ELSE paused
        PROVE  QuietInv'
    <2>1. todo \in Seq(Steps)
      BY <1>0 DEF TypeOK
    <2>2. /\ \A y : Has(todo', y) => Has(todo, y)
          /\ \A y : Has(todo, y) /\ y # Head(todo) => Has(todo', y)
          /\ Has(todo, Head(todo))
      BY <1>7, <2>1, Remaining
    <2>3. Pausing => Pausing'
      <3>1. CASE Head(todo) = "pause"
        BY <1>7, <2>2, <3>1
      <3>2. CASE Head(todo) # "pause"
        BY <1>7, <2>2, <3>2
      <3> QED
        BY <3>1, <3>2
    <2>4. Has(todo, "publish") => Has(todo', "publish")
      BY <1>7, <2>2
    <2>5. Absent => Absent'
      BY <1>7, <2>2
    <2> QED
      BY <1>7, <2>3, <2>4, <2>5
  <1>8. CASE SetPause
    BY <1>7, <1>8 DEF SetPause, First, StepDone
  <1>9. CASE SetSequence
    BY <1>7, <1>9 DEF SetSequence, First, StepDone
  <1>10. CASE ResetNonces
    BY <1>7, <1>10 DEF ResetNonces, First, StepDone, sharedVars
  <1>11. CASE Join
    BY <1>7, <1>11 DEF Join, First, StepDone, sharedVars
  <1>12. CASE Start
    BY <1>7, <1>12 DEF Start, First, StepDone, sharedVars
  <1>13. CASE Publish
    <2>1. /\ todo # <<>> /\ Head(todo) = "publish" /\ active' = TRUE
          /\ UNCHANGED <<enabled, paused, threads>>
      BY <1>13 DEF Publish, First
    <2>2. CASE HasData(incoming)
      <3>1. todo' = HandleJobChange(incoming, threads, TRUE, reset')
        BY <1>13, <2>2 DEF Publish
      <3>2. (Has(todo', "resume") => enabled) /\ (~enabled => Has(todo', "pause"))
        BY <3>1, JobScriptPauses
      <3> QED
        BY <2>1, <3>2
    <2>3. CASE ~HasData(incoming)
      <3>1. todo' = Tail(todo) /\ todo \in Seq(Steps)
        BY <1>0, <1>13, <2>3 DEF Publish, StepDone, TypeOK
      <3>2. Has(todo, "publish") /\ ~Has(todo, "join")
            /\ (Has(todo', "start") => Has(todo, "start"))
        BY <1>0, <2>1, <3>1, Remaining DEF ScriptInv
      <3>3. threads = NoThreads /\ ~Has(todo', "start")
        BY <1>0, <2>3, <3>2 DEF ScriptInv
      <3> QED
        BY <2>1, <3>3
    <2> QED
      BY <2>2, <2>3
  <1>14. ASSUME UNCHANGED <<todo, active, enabled, threads>>, paused = TRUE => paused' = TRUE
         PROVE  QuietInv'
    BY <1>14
  <1>15. CASE Build
    BY <1>14, <1>15 DEF Build, sharedVars, mainVars
  <1>16. ASSUME NEW w \in Workers, Worker(w) PROVE QuietInv'
    <2>1. UNCHANGED <<todo, active, enabled, threads>>
      BY <1>0, <1>16, WorkerFrame DEF mainVars
    <2>2. paused = TRUE => paused' = TRUE
      BY <1>16 DEF Worker, Begin, LoopTop, IsPaused, WakeUp, Awake, Consume, ReadJob, AddJob,
                   SaveJob, LastSave, FindDataset, AwaitDataset, IsOutdated, Hash, LastRange,
                   LastRangeFits, Exhausted, OnlyMoves, sharedVars
    <2> QED
      BY <1>14, <2>1, <2>2
  <1>17. CASE UNCHANGED vars
    BY <1>14, <1>17 DEF vars, sharedVars, mainVars
  <1> QED
    BY <1>2, <1>3, <1>4, <1>5, <1>6, <1>8, <1>9, <1>10, <1>11, <1>12, <1>13, <1>15, <1>16,
       <1>17 DEF Next, Operation, Script

\* Without a reload of the configuration and a stop by JSON-RPC, workers are paused
\* between commands unless mining is enabled and a pool is connected (Miner::pause,
\* setEnabled and handleJobChange).
THEOREM Quiet ==
    ASSUME "stop" \notin Commands, "reload" \notin Commands
    PROVE  Spec => []QuietUnlessWanted
  <1>1. Init => QuietInv
    BY NoStep DEF Init, QuietInv, Pausing
  <1>2. IInv /\ QuietInv /\ [Next]_vars => QuietInv'
    BY QuietStep
  <1>3. IInv /\ QuietInv => QuietUnlessWanted
    BY NoStep DEF QuietInv, Pausing, Absent, QuietUnlessWanted, Idle
  <1> QED
    BY <1>1, <1>2, <1>3, Inductive, PTL DEF Spec

-----------------------------------------------------------------------------
(* The nonces.                                                             *)

\* The nonces that are left of the range in slot s
Left(s) == s.nonce .. s.nonce + Reserve - 1 - s.round

\* The worker has a range of job j.
HasRange(w, j) == slot[w][Index(j)].job = j

Part(w, j) == slot[w][Index(j)]

\* Nobody has met job j.
Unknown(j) ==
    /\ published # j /\ hashed[j] = {}
    /\ \A i \in 0..1 : owner[i] # j
    /\ \A w \in Workers : got[w] # j /\ job[w] # j /\ \A i \in 0..1 : slot[w][i].job # j

\* The counter was not reset for job j, so that who took a range of it was too early.
Unreset(j) ==
    /\ owner[Index(j)] # j
    /\ j \in raced \/ (hashed[j] = {} /\ \A w \in Workers : ~HasRange(w, j))

\* Ranges of job j are apart from each other and from the nonces that were hashed, and
\* while the counter is that of the job it is beyond all of them.
Once(j) ==
    /\ \A w \in Workers : HasRange(w, j) => Left(Part(w, j)) \cap hashed[j] = {}
    /\ \A v, w \in Workers : v # w /\ HasRange(v, j) /\ HasRange(w, j) =>
         Left(Part(v, j)) \cap Left(Part(w, j)) = {}
    /\ owner[Index(j)] = j =>
         /\ \A n \in hashed[j] : n < counter[Index(j)]
         /\ \A w \in Workers : HasRange(w, j) =>
              \A n \in Left(Part(w, j)) : n < counter[Index(j)]

\* A range of a job that has not come to its end is inside of the mask.
InMask(s) == s.job \in spent \/ \A n \in Left(s) : n <= Mask

NonceTypes ==
    /\ NonceTypeOK
    /\ given \subseteq Jobs /\ owner \in [0..1 -> Jobs \cup {NoJob}] /\ fresh \in BOOLEAN
    /\ hashed \in [Jobs -> SUBSET Nat]

GivenInv ==
    /\ userJob # NoJob => Index(userJob) = 0
    /\ \A j \in Jobs \ given : Unknown(j)
    /\ Has(todo, "publish") => incoming \in given
                               /\ ((Index(published) = 1 /\ incoming = userJob) \/ Unknown(incoming))
    /\ Has(todo, "reset") => reset
    /\ fresh /\ reset /\ published # NoJob => Unreset(published)

SlotsInv ==
    /\ \A i \in 0..1 : counter[i] % Reserve = 0
    /\ \A w \in Workers : at[w] \in Hashing => job[w] # NoJob
    /\ \A w \in Workers, i \in 0..1 :
         /\ slot[w][i].job # NoJob => Index(slot[w][i].job) = i
         /\ InMask(slot[w][i])

NonceInv ==
    /\ NonceTypes /\ GivenInv /\ SlotsInv
    /\ \A j \in Jobs \ (raced \cup spent) : Once(j)
    /\ TwiceOnlyInRaces /\ MaskKept

-----------------------------------------------------------------------------
\* Counter, mask and ranges.
LEMMA Constants ==
    /\ Reserve \in Nat \ {0} /\ Mask \in Nat /\ (Mask + 1) % Reserve = 0
    /\ NoJob \notin Jobs /\ NoJob \notin DonateJobs
  BY RangesFit, JobsReal DEF RangesFit, JobsReal

LEMMA Multiple ==
    ASSUME NEW k \in Nat \ {0}, NEW c \in Nat, c % k = 0
    PROVE  \E n \in Nat : c = n * k
  <1>1. c \div k \in Int /\ c = (c \div k) * k + (c % k) /\ c \div k >= 0
    OBVIOUS
  <1> QED
    BY <1>1

LEMMA NoRemainder ==
    ASSUME NEW k \in Nat \ {0}, NEW n \in Nat
    PROVE  (n * k) % k = 0
  <1> DEFINE c == n * k
             q == c \div k
             r == c % k
  <1>1. c \in Nat
    OBVIOUS
  <1> HIDE DEF c
  <1>2. q \in Int /\ r \in 0 .. k - 1 /\ c = q * k + r
    BY <1>1
  <1> HIDE DEF q, r
  <1>3. n * k = q * k + r
    BY <1>2 DEF c
  <1>4. (n - q) * k = r
    BY <1>2, <1>3
  <1>5. n - q >= 1 => (n - q) * k >= k
    BY <1>2
  <1>6. n - q <= -1 => (n - q) * k <= -k
    BY <1>2
  <1>7. n - q = 0
    BY <1>2, <1>4, <1>5, <1>6
  <1>8. r = 0
    BY <1>2, <1>4, <1>7
  <1> QED
    BY <1>8 DEF r, c

\* Ranges begin at multiples of Reserve, so that a range ends with the mask or before it.
LEMMA WholeRange ==
    ASSUME NEW c \in Nat, c % Reserve = 0
    PROVE  /\ (c + Reserve) % Reserve = 0
           /\ c <= Mask => c + Reserve - 1 <= Mask
  <1>1. PICK n \in Nat : c = n * Reserve
    BY Constants, Multiple
  <1>2. PICK m \in Nat : Mask + 1 = m * Reserve
    BY Constants, Multiple
  <1>3. (c + Reserve) % Reserve = 0
    <2>1. n + 1 \in Nat /\ Reserve \in Nat \ {0} /\ c + Reserve = (n + 1) * Reserve
      BY <1>1, Constants
    <2>2. ((n + 1) * Reserve) % Reserve = 0
      BY <2>1, NoRemainder
    <2> QED
      BY <2>1, <2>2
  <1>4. ASSUME c <= Mask PROVE c + Reserve - 1 <= Mask
    <2>1. n * Reserve < m * Reserve /\ Reserve \in Nat
      BY <1>1, <1>2, <1>4, Constants
    <2>2. n < m
      BY <2>1
    <2>3. (n + 1) * Reserve <= m * Reserve
      BY <2>1, <2>2
    <2> QED
      BY <1>1, <1>2, <2>3, Constants
  <1> QED
    BY <1>3, <1>4

-----------------------------------------------------------------------------
\* The counter is reset only by handleJobChange, and only if its job asks for that.
LEMMA StopKeepsNonces ==
    ASSUME NEW t
    PROVE  ~Has(StopWorkers(t), "reset")
  <1>1. ~Has(<<"zero", "join", "touch">>, "reset")
    BY DEF Has
  <1> QED
    BY <1>1, NoStep DEF StopWorkers

LEMMA BackendKeepsNonces ==
    ASSUME NEW j, NEW t, NEW c
    PROVE  ~Has(BackendSetJob(j, t, c), "reset")
  <1>1. <<"touch", "start">> \in Seq(Steps) /\ ~Has(<<"touch", "start">>, "reset")
    BY DEF Has, Steps
  <1>2. ~Has(StopWorkers(t) \o <<"touch", "start">>, "reset")
    BY <1>1, StopKeepsNonces, StopScript, Both
  <1> QED
    BY <1>2, StopKeepsNonces, NoStep DEF BackendSetJob

LEMMA JobResets ==
    ASSUME NEW j, NEW t, NEW act, NEW r
    PROVE  Has(HandleJobChange(j, t, act, r), "reset") => r
  <1> DEFINE p1 == IF enabled THEN <<>> ELSE <<"pause">>
             p2 == IF r THEN <<"reset">> ELSE <<>>
             p3 == BackendSetJob(j, t, config)
             p4 == <<"touch">>
             p5 == IF Resumes(act) THEN <<"resume">> ELSE <<>>
  <1>1. /\ p1 \in Seq(Steps) /\ p2 \in Seq(Steps) /\ p4 \in Seq(Steps) /\ p5 \in Seq(Steps)
        /\ ~Has(p1, "reset") /\ ~Has(p4, "reset") /\ ~Has(p5, "reset")
        /\ Has(p2, "reset") => r
    BY OneStep, NoStep DEF Steps
  <1>2. p3 \in Seq(Steps) /\ ~Has(p3, "reset")
    BY BackendKeepsNonces, BackendScript
  <1>3. HandleJobChange(j, t, act, r) = p1 \o p2 \o p3 \o p4 \o p5
    BY DEF HandleJobChange, Touch
  <1> HIDE DEF p1, p2, p3, p4, p5
  <1>4. p1 \o p2 \in Seq(Steps) /\ (Has(p1 \o p2, "reset") => r)
    BY <1>1, Both
  <1>5. p1 \o p2 \o p3 \in Seq(Steps) /\ (Has(p1 \o p2 \o p3, "reset") => r)
    BY <1>2, <1>4, Both
  <1>6. p1 \o p2 \o p3 \o p4 \in Seq(Steps) /\ (Has(p1 \o p2 \o p3 \o p4, "reset") => r)
    BY <1>1, <1>5, Both
  <1>7. Has(p1 \o p2 \o p3 \o p4 \o p5, "reset") => r
    BY <1>1, <1>6, Both
  <1> QED
    BY <1>3, <1>7

LEMMA MinerStopKeepsNonces == ~Has(MinerStop, "reset")
  <1>1. <<"resume", "zero">> \in Seq(Steps) /\ ~Has(<<"resume", "zero">>, "reset")
    BY DEF Has, Steps
  <1> QED
    BY <1>1, StopKeepsNonces, StopScript, Both DEF MinerStop

LEMMA SetJobKeepsNonces ==
    ASSUME NEW j
    PROVE  ~Has(StopFirst(j) \o <<"publish">>, "reset")
  <1>1. <<"publish">> \in Seq(Steps) /\ ~Has(<<"publish">>, "reset")
    BY OneStep DEF Steps
  <1>2. StopFirst(j) \in Seq(Steps) /\ ~Has(StopFirst(j), "reset")
    BY MinerStopKeepsNonces, MinerStopScript, NoStep DEF StopFirst
  <1> QED
    BY <1>1, <1>2, Both

\* Every step of the miner with its nonces is a step of the miner.
LEMMA StepOfMining == NonceNext => Next
  <1> SUFFICES ASSUME NonceNext PROVE Next
    OBVIOUS
  <1>1. CASE \E j \in Jobs : GiveJob(j)
    BY <1>1 DEF GiveJob, Next, Operation
  <1>2. CASE PublishJob \/ ResetCounter \/ StartWorkers
    BY <1>2 DEF PublishJob, ResetCounter, StartWorkers, Next, Script
  <1>3. ASSUME NEW w \in Workers,
               BackToSlot(w) \/ Save(w) \/ NextNonce(w) \/ NextRange(w)
                 \/ FoundLastRange(w) \/ NoRange(w)
        PROVE  Worker(w)
    BY <1>3 DEF BackToSlot, Save, NextNonce, NextRange, FoundLastRange, NoRange, Worker
  <1>4. CASE Unrelated
    BY <1>4 DEF Unrelated, Elsewhere, Next, Operation, Script, Worker
  <1> QED
    BY <1>1, <1>2, <1>3, <1>4 DEF NonceNext, Next

LEMMA NoncesRefine == NonceSpec => Spec
  <1>1. NonceInit => Init
    BY DEF NonceInit
  <1>2. [NonceNext]_allVars => [Next]_vars
    BY StepOfMining DEF allVars
  <1> QED
    BY <1>1, <1>2, PTL DEF NonceSpec, Spec

-----------------------------------------------------------------------------
LEMMA NoncesInitially == NonceInit => NonceInv
  <1> SUFFICES ASSUME NonceInit PROVE NonceInv
    OBVIOUS
  <1> USE Constants
  <1>1. /\ published = NoJob /\ userJob = NoJob /\ todo = <<>>
        /\ at = [w \in Workers |-> "none"]
        /\ got = [w \in Workers |-> NoJob] /\ job = [w \in Workers |-> NoJob]
        /\ counter = [i \in 0..1 |-> 0] /\ slot = [w \in Workers |-> [i \in 0..1 |-> Empty]]
        /\ given = {} /\ owner = [i \in 0..1 |-> NoJob] /\ fresh = FALSE
        /\ hashed = [j \in Jobs |-> {}]
        /\ doubled = {} /\ overrun = {} /\ raced = {} /\ spent = {}
    BY DEF NonceInit, Init
  <1>2. \A w \in Workers, i \in 0..1 : slot[w][i] = [job |-> NoJob, nonce |-> 0, round |-> 0]
    BY <1>1 DEF Empty
  <1>3. Index(NoJob) = 0
    BY DEF Index
  <1>4. NonceTypes
    <2>1. slot \in [Workers -> [0..1 -> [job : Jobs \cup {NoJob}, nonce : Nat,
                                         round : 0..Reserve - 1]]]
      BY <1>1 DEF Empty
    <2>2. ASSUME NEW w \in Workers PROVE Current(w).job = job[w]
      <3>1. job[w] = NoJob /\ Current(w) = slot[w][0] /\ 0 \in 0..1
        BY <1>1, <1>3 DEF Current
      <3> QED
        BY <1>2, <3>1
    <2> QED
      BY <1>1, <2>1, <2>2 DEF NonceTypes, NonceTypeOK
  <1>5. GivenInv
    <2>1. \A j \in Jobs : Unknown(j)
      BY <1>1, <1>2 DEF Unknown
    <2> QED
      BY <1>1, <2>1, NoStep DEF GivenInv
  <1>6. SlotsInv
    <2>1. \A i \in 0..1 : counter[i] % Reserve = 0
      BY <1>1
    <2>2. \A w \in Workers : at[w] \notin Hashing
      BY <1>1 DEF Hashing
    <2>3. 0 + Reserve - 1 <= Mask
      <3>1. 0 % Reserve = 0
        OBVIOUS
      <3> QED
        BY <3>1, WholeRange
    <2>4. \A w \in Workers, i \in 0..1 : InMask(slot[w][i])
      BY <1>2, <2>3 DEF InMask, Left
    <2> QED
      BY <1>2, <2>1, <2>2, <2>4 DEF SlotsInv
  <1>7. \A j \in Jobs : Once(j)
    BY <1>1, <1>2 DEF Once, HasRange, Index
  <1> QED
    BY <1>1, <1>4, <1>5, <1>6, <1>7 DEF NonceInv, TwiceOnlyInRaces, MaskKept

\* Steps that touch neither a range nor the published job
Apart ==
    /\ UNCHANGED <<published, incoming, userJob, reset, job>>
    /\ Has(todo', "publish") => Has(todo, "publish")
    /\ Has(todo', "reset") => Has(todo, "reset") \/ reset
    /\ \A w \in Workers : got'[w] \in {got[w], published}
    /\ \A w \in Workers : at'[w] \in Hashing => at[w] \in Hashing \/ job[w] # NoJob

LEMMA ApartKeeps ==
    ASSUME NonceInv, Apart, UNCHANGED nonceVars
    PROVE  NonceInv'
  <1>1. /\ UNCHANGED <<published, incoming, userJob, reset, job>>
        /\ UNCHANGED <<counter, slot, given, owner, fresh, hashed>>
        /\ UNCHANGED <<doubled, overrun, raced, spent>>
    BY DEF Apart, nonceVars, history
  <1>2. NonceTypes' /\ TwiceOnlyInRaces' /\ MaskKept'
    BY <1>1 DEF NonceInv, NonceTypes, NonceTypeOK, TwiceOnlyInRaces, MaskKept, Current
  <1>3. \A j : Unknown(j) => Unknown(j)'
    BY <1>1 DEF Apart, Unknown
  <1>4. \A j : Unreset(j) => Unreset(j)'
    BY <1>1 DEF Unreset, HasRange
  <1>5. GivenInv'
    BY <1>1, <1>3, <1>4 DEF NonceInv, GivenInv, Apart
  <1>6. SlotsInv'
    BY <1>1 DEF NonceInv, SlotsInv, Apart, InMask, Left
  <1>7. \A j : Once(j) => Once(j)'
    BY <1>1 DEF Once, HasRange, Part, Left
  <1> QED
    BY <1>1, <1>2, <1>5, <1>6, <1>7 DEF NonceInv

LEMMA ElsewhereApart ==
    ASSUME TypeOK, NEW w \in Workers, Elsewhere(w)
    PROVE  Apart
  <1>1. Worker(w)
    BY DEF Elsewhere, Worker
  <1>2. UNCHANGED <<published, incoming, userJob, reset, todo>>
    BY <1>1, WorkerFrame DEF mainVars, jobVars
  <1>3. \A v \in Workers \ {w} : at'[v] = at[v] /\ got'[v] = got[v]
    BY <1>1, WorkerFrame
  <1>4. job' = job
    BY DEF Elsewhere, Begin, LoopTop, IsPaused, WakeUp, Awake, Consume, ReadJob, AddJob, LastSave,
           FindDataset, AwaitDataset, IsOutdated, LastRangeFits, OnlyMoves
  <1>5. got'[w] \in {got[w], published}
    BY DEF Elsewhere, Begin, LoopTop, IsPaused, WakeUp, Awake, Consume, ReadJob, AddJob, LastSave,
           FindDataset, AwaitDataset, IsOutdated, LastRangeFits, OnlyMoves, TypeOK
  <1>6. at'[w] \in Hashing => at[w] \in Hashing \/ job[w] # NoJob
    BY DEF Elsewhere, Begin, LoopTop, IsPaused, WakeUp, Awake, Consume, ReadJob, AddJob, LastSave,
           FindDataset, AwaitDataset, IsOutdated, LastRangeFits, Goto, Added, Outdated, TypeOK, Hashing
  <1> QED
    BY <1>2, <1>3, <1>4, <1>5, <1>6 DEF Apart

LEMMA UnrelatedApart ==
    ASSUME IInv, Unrelated
    PROVE  Apart
  <1>0. TypeOK
    BY DEF IInv
  <1>1. CASE Pause \/ Stop \/ (\E b \in BOOLEAN : SetEnabled(b)) \/ (\E c \in Configs : Reload(c))
    <2>1. /\ UNCHANGED <<published, incoming, userJob, reset, job, got, at>>
          /\ \/ todo' \in {<<>>, <<"pause", "touch">>, <<"resume", "touch">>, MinerStop}
             \/ \E c \in Configs : todo' = BackendSetJob(published, threads, c)
      BY <1>1 DEF Pause, Stop, SetEnabled, Reload, Command, sharedVars, jobVars, workVars
    <2>2. /\ ~Has(<<"pause", "touch">>, "publish") /\ ~Has(<<"pause", "touch">>, "reset")
          /\ ~Has(<<"resume", "touch">>, "publish") /\ ~Has(<<"resume", "touch">>, "reset")
      BY DEF Has
    <2>3. ~Has(todo', "publish") /\ ~Has(todo', "reset")
      BY <2>1, <2>2, NoStep, MinerStopScript, MinerStopKeepsNonces, BackendScript, BackendKeepsNonces
    <2> QED
      BY <2>1, <2>3 DEF Apart
  <1>2. CASE OnDatasetReady
    <2>1. /\ UNCHANGED <<published, incoming, userJob, reset, job, got, at>>
          /\ todo' \in {HandleJobChange(published, threads, active, reset), <<>>}
      BY <1>2 DEF OnDatasetReady, sharedVars, jobVars, workVars
    <2>2. ~Has(todo', "publish") /\ (Has(todo', "reset") => reset)
      BY <2>1, NoStep, JobScript, JobResets
    <2> QED
      BY <2>1, <2>2 DEF Apart
  <1>3. CASE SetPause \/ SetSequence \/ Join
    <2>1. /\ UNCHANGED <<published, incoming, userJob, reset, job, got>>
          /\ todo # <<>> /\ todo' = Tail(todo)
          /\ at' = at \/ at' = [w \in Workers |-> "none"]
      BY <1>3 DEF SetPause, SetSequence, Join, First, StepDone, sharedVars, jobVars, workVars
    <2>2. (Has(todo', "publish") => Has(todo, "publish")) /\ (Has(todo', "reset") => Has(todo, "reset"))
      BY <1>0, <2>1, Remaining DEF TypeOK
    <2> QED
      BY <2>1, <2>2 DEF Apart, Hashing
  <1>4. CASE Build
    BY <1>4 DEF Build, Apart, sharedVars, mainVars, workVars
  <1>5. CASE \E w \in Workers : Elsewhere(w)
    BY <1>0, <1>5, ElsewhereApart
  <1> QED
    BY <1>1, <1>2, <1>3, <1>4, <1>5 DEF Unrelated

-----------------------------------------------------------------------------
\* Steps of the main thread
LEMMA IndexOf == \A j : Index(j) \in 0..1
  BY DEF Index

LEMMA GiveJobStep ==
    ASSUME IInv, NonceInv, NEW j \in Jobs, GiveJob(j)
    PROVE  NonceInv'
  <1>1. /\ incoming' = j /\ todo' = StopFirst(j) \o <<"publish">> /\ todo = <<>>
        /\ UNCHANGED <<published, userJob, reset, job, got, at>>
        /\ j \notin given \/ (Index(published) = 1 /\ j = userJob)
        /\ given' = given \cup {j}
        /\ UNCHANGED <<counter, slot, owner, fresh, hashed, doubled, overrun, raced, spent>>
    BY DEF GiveJob, SetJob, Command, Idle, sharedVars, jobVars, workVars, history
  <1>2. ~Has(todo', "reset")
    BY <1>1, SetJobKeepsNonces
  <1>3. NonceTypes' /\ TwiceOnlyInRaces' /\ MaskKept'
    BY <1>1 DEF NonceInv, NonceTypes, NonceTypeOK, TwiceOnlyInRaces, MaskKept, Current
  <1>4. \A k : Unknown(k) => Unknown(k)'
    BY <1>1 DEF Unknown
  <1>5. \A k : Unreset(k) => Unreset(k)'
    BY <1>1 DEF Unreset, HasRange
  <1>6. GivenInv'
    BY <1>1, <1>2, <1>4, <1>5 DEF NonceInv, GivenInv
  <1>7. SlotsInv'
    BY <1>1 DEF NonceInv, SlotsInv, InMask, Left
  <1>8. \A k : Once(k) => Once(k)'
    BY <1>1 DEF Once, HasRange, Part, Left
  <1> QED
    BY <1>1, <1>3, <1>6, <1>7, <1>8 DEF NonceInv

LEMMA PublishJobStep ==
    ASSUME IInv, NonceInv, PublishJob
    PROVE  NonceInv'
  <1>0. TypeOK /\ ScriptInv
    BY DEF IInv
  <1>1. /\ todo # <<>> /\ Head(todo) = "publish"
        /\ published' = incoming /\ reset' = ~BackToUser
        /\ userJob' = IF Index(incoming) = 0 THEN incoming ELSE userJob
        /\ todo' = HandleJobChange(incoming, threads, TRUE, reset') \/ todo' = Tail(todo)
        /\ UNCHANGED <<incoming, job, got, at>>
        /\ fresh' = TRUE
        /\ UNCHANGED <<counter, slot, given, owner, hashed, doubled, overrun, raced, spent>>
    BY DEF PublishJob, Publish, First, StepDone, workVars
  <1>2. todo \in Seq(Steps) /\ Has(todo, "publish")
    BY <1>0, <1>1, Remaining DEF TypeOK
  <1>3. \A y : ~Has(Tail(todo), y)
    <2>1. todo[1] = "publish" /\ 1 \in 1 .. Len(todo)
      BY <1>1, <1>2
    <2>2. Len(todo) = 1
      BY <1>0, <2>1 DEF ScriptInv, PublishLast
    <2>3. Len(Tail(todo)) = 0
      BY <1>1, <1>2, <2>2
    <2> QED
      BY <2>3 DEF Has
  <1>4. ~Has(todo', "publish") /\ (Has(todo', "reset") => reset')
    BY <1>1, <1>3, NoStep, JobScript, JobResets
  <1>5. incoming \in given /\ incoming \in Jobs
    BY <1>2 DEF NonceInv, GivenInv, NonceTypes
  <1>6. reset' => Unknown(incoming)
    BY <1>1, <1>2, <1>5, Constants DEF NonceInv, GivenInv, BackToUser
  <1>7. \A j : Unknown(j) => Unreset(j)'
    BY <1>1, IndexOf DEF Unknown, Unreset, HasRange
  <1>8. \A j \in Jobs \ given : Unknown(j)'
    BY <1>1, <1>5 DEF NonceInv, GivenInv, Unknown
  <1>9. userJob' # NoJob => Index(userJob') = 0
    BY <1>1 DEF NonceInv, GivenInv
  <1>10. GivenInv'
    BY <1>1, <1>4, <1>6, <1>7, <1>8, <1>9 DEF GivenInv
  <1>11. NonceTypes' /\ TwiceOnlyInRaces' /\ MaskKept'
    BY <1>1 DEF NonceInv, NonceTypes, NonceTypeOK, TwiceOnlyInRaces, MaskKept, Current
  <1>12. SlotsInv'
    BY <1>1 DEF NonceInv, SlotsInv, InMask, Left
  <1>13. \A k : Once(k) => Once(k)'
    BY <1>1 DEF Once, HasRange, Part, Left
  <1> QED
    BY <1>1, <1>10, <1>11, <1>12, <1>13 DEF NonceInv

LEMMA ResetCounterStep ==
    ASSUME IInv, NonceInv, ResetCounter
    PROVE  NonceInv'
  <1>0. TypeOK
    BY DEF IInv
  <1> DEFINE i == Index(published)
  <1>1. /\ todo # <<>> /\ Head(todo) = "reset" /\ todo' = Tail(todo)
        /\ UNCHANGED <<published, incoming, userJob, reset, job, got, at>>
        /\ counter' = [counter EXCEPT ![i] = 0]
        /\ owner' = [owner EXCEPT ![i] = published]
        /\ fresh' = FALSE
        /\ raced' = IF fresh THEN raced ELSE raced \cup {published}
        /\ UNCHANGED <<slot, given, hashed, doubled, overrun, spent>>
    BY DEF ResetCounter, ResetNonces, First, StepDone, sharedVars, jobVars, workVars
  <1>2. /\ Has(todo, "reset") /\ (Has(todo', "publish") => Has(todo, "publish"))
        /\ published \in Jobs \cup {NoJob} /\ i \in 0..1
    BY <1>0, <1>1, Remaining, IndexOf DEF TypeOK
  <1>3. reset
    BY <1>2 DEF NonceInv, GivenInv
  <1>4. NonceTypes /\ GivenInv /\ SlotsInv /\ counter \in [0..1 -> Nat]
        /\ owner \in [0..1 -> Jobs \cup {NoJob}]
    BY DEF NonceInv, NonceTypes, NonceTypeOK
  <1>5. NonceTypes'
    BY <1>1, <1>2, <1>4 DEF NonceTypes, NonceTypeOK, Current
  <1>6. \A j : Unknown(j) => Unknown(j)'
    BY <1>1, <1>2, <1>4 DEF Unknown
  <1>7. GivenInv'
    BY <1>1, <1>2, <1>3, <1>4, <1>6 DEF GivenInv
  <1>8. SlotsInv'
    <2>1. 0 % Reserve = 0
      BY Constants
    <2>2. \A k \in 0..1 : counter'[k] % Reserve = 0
      BY <1>1, <1>2, <1>4, <2>1 DEF SlotsInv
    <2> QED
      BY <1>1, <1>4, <2>2 DEF SlotsInv, InMask, Left
  <1>9. ASSUME NEW j \in Jobs \ (raced' \cup spent') PROVE Once(j)'
    <2>1. Once(j) /\ Index(j) \in 0..1 /\ j \in Jobs \ raced
      BY <1>1, <1>9, IndexOf DEF NonceInv
    <2>2. CASE j = published
      <3>1. fresh /\ Unreset(j)
        BY <1>1, <1>3, <1>4, <1>9, <2>1, <2>2, Constants DEF GivenInv
      <3>2. hashed[j] = {} /\ \A w \in Workers : ~HasRange(w, j)
        BY <2>1, <3>1 DEF Unreset
      <3> QED
        BY <1>1, <3>2 DEF Once, HasRange
    <2>3. CASE j # published /\ Index(j) = i
      <3>1. owner'[Index(j)] # j
        BY <1>1, <1>4, <2>1, <2>3
      <3> QED
        BY <1>1, <2>1, <3>1 DEF Once, HasRange, Part, Left
    <2>4. CASE Index(j) # i
      <3>1. owner'[Index(j)] = owner[Index(j)] /\ counter'[Index(j)] = counter[Index(j)]
        BY <1>1, <1>4, <2>1, <2>4
      <3> QED
        BY <1>1, <2>1, <3>1 DEF Once, HasRange, Part, Left
    <2> QED
      BY <2>2, <2>3, <2>4
  <1>10. TwiceOnlyInRaces' /\ MaskKept'
    BY <1>1 DEF NonceInv, TwiceOnlyInRaces, MaskKept
  <1> QED
    BY <1>5, <1>7, <1>8, <1>9, <1>10 DEF NonceInv

LEMMA StartWorkersStep ==
    ASSUME IInv, NonceInv, StartWorkers
    PROVE  NonceInv'
  <1>0. TypeOK
    BY DEF IInv
  <1>1. /\ todo # <<>> /\ todo' = Tail(todo)
        /\ UNCHANGED <<published, incoming, userJob, reset>>
        /\ at' = [w \in Workers |-> "new"]
        /\ got' = [w \in Workers |-> NoJob] /\ job' = [w \in Workers |-> NoJob]
        /\ slot' = [w \in Workers |-> [i \in 0..1 |-> Empty]]
        /\ UNCHANGED <<counter, given, owner, fresh, hashed, doubled, overrun, raced, spent>>
    BY DEF StartWorkers, Start, First, StepDone, sharedVars, jobVars, history
  <1>2. (Has(todo', "publish") => Has(todo, "publish")) /\ (Has(todo', "reset") => Has(todo, "reset"))
    BY <1>0, <1>1, Remaining DEF TypeOK
  <1>3. \A w \in Workers, i \in 0..1 : slot'[w][i] = [job |-> NoJob, nonce |-> 0, round |-> 0]
    BY <1>1 DEF Empty
  <1>4. \A j \in Jobs : \A w \in Workers : ~HasRange(w, j)'
    BY <1>3, Constants, IndexOf DEF HasRange
  <1>5. NonceTypes'
    <2>1. slot' \in [Workers -> [0..1 -> [job : Jobs \cup {NoJob}, nonce : Nat,
                                          round : 0..Reserve - 1]]]
      BY <1>1, Constants DEF Empty
    <2>2. ASSUME NEW w \in Workers PROVE Current(w)'.job = job'[w]
      <3>1. job'[w] = NoJob /\ Index(NoJob) \in 0..1 /\ Current(w)' = slot'[w][Index(NoJob)]
        BY <1>1, IndexOf DEF Current
      <3> QED
        BY <1>3, <3>1
    <2> QED
      BY <1>1, <2>1, <2>2 DEF NonceInv, NonceTypes, NonceTypeOK
  <1>6. GivenInv'
    <2>1. \A j \in Jobs : Unknown(j) => Unknown(j)'
      BY <1>1, <1>3, Constants DEF Unknown
    <2>2. \A j \in Jobs : Unreset(j) => Unreset(j)'
      BY <1>1, <1>4 DEF Unreset
    <2>3. published \in Jobs \cup {NoJob}
      BY <1>0 DEF TypeOK
    <2> QED
      BY <1>1, <1>2, <2>1, <2>2, <2>3 DEF NonceInv, NonceTypes, GivenInv
  <1>7. SlotsInv'
    <2>1. 0 + Reserve - 1 <= Mask
      <3>1. 0 % Reserve = 0
        BY Constants
      <3> QED
        BY <3>1, WholeRange, Constants
    <2>2. \A w \in Workers, i \in 0..1 : InMask(slot[w][i])'
      BY <1>3, <2>1, Constants DEF InMask, Left
    <2>3. \A w \in Workers : at'[w] \notin Hashing
      BY <1>1 DEF Hashing
    <2> QED
      BY <1>1, <1>3, <2>2, <2>3 DEF NonceInv, SlotsInv
  <1>8. ASSUME NEW j \in Jobs \ (raced' \cup spent') PROVE Once(j)'
    BY <1>1, <1>4 DEF NonceInv, Once
  <1> QED
    BY <1>1, <1>5, <1>6, <1>7, <1>8 DEF NonceInv, TwiceOnlyInRaces, MaskKept

-----------------------------------------------------------------------------
(* Steps of a worker w that put s into its slot for job j.                 *)

Puts(w, j, s) ==
    /\ slot' = [slot EXCEPT ![w][Index(j)] = s]
    /\ s \in [job : {j}, nonce : Nat, round : 0..Reserve - 1]
    /\ job' = [job EXCEPT ![w] = j]
    /\ UNCHANGED <<published, incoming, userJob, reset, todo, got, given, owner, fresh>>

Slots == [Workers -> [0..1 -> [job : Jobs \cup {NoJob}, nonce : Nat, round : 0..Reserve - 1]]]

LEMMA SlotsAfter ==
    ASSUME slot \in Slots, NEW w \in Workers, NEW j \in Jobs, NEW s, Puts(w, j, s)
    PROVE  /\ slot' \in Slots /\ owner' = owner
           /\ slot'[w][Index(j)] = s /\ s.job = j
           /\ \A v \in Workers, i \in 0..1 : v # w \/ i # Index(j) => slot'[v][i] = slot[v][i]
  BY IndexOf DEF Slots, Puts

LEMMA PutsTypes ==
    ASSUME TypeOK, NonceTypes, NEW w \in Workers, NEW j \in Jobs, NEW s, Puts(w, j, s),
           counter' \in [0..1 -> Nat], hashed' \in [Jobs -> SUBSET Nat]
    PROVE  NonceTypes'
  <1>1. slot \in Slots /\ job \in [Workers -> Jobs \cup {NoJob}]
    BY DEF NonceTypes, NonceTypeOK, Slots, TypeOK
  <1>2. /\ slot' \in Slots /\ slot'[w][Index(j)] = s /\ s.job = j
        /\ \A v \in Workers, i \in 0..1 : v # w \/ i # Index(j) => slot'[v][i] = slot[v][i]
    BY <1>1, SlotsAfter
  <1>3. \A v \in Workers : job'[v] = IF v = w THEN j ELSE job[v]
    BY <1>1 DEF Puts
  <1>4. ASSUME NEW v \in Workers PROVE Current(v)'.job = job'[v]
    BY <1>2, <1>3, IndexOf DEF NonceTypes, NonceTypeOK, Current
  <1> QED
    BY <1>2, <1>4 DEF NonceTypes, NonceTypeOK, Slots, Puts

LEMMA PutsGiven ==
    ASSUME TypeOK, NonceTypes, GivenInv, NEW w \in Workers, NEW j \in Jobs, NEW s, Puts(w, j, s),
           raced \subseteq raced', \A k \in Jobs \ {j} : hashed'[k] = hashed[k],
           got[w] = j \/ job[w] = j, Unreset(j) => j \in raced'
    PROVE  GivenInv'
  <1>1. slot \in Slots /\ job \in [Workers -> Jobs \cup {NoJob}]
    BY DEF NonceTypes, NonceTypeOK, Slots, TypeOK
  <1>2. /\ slot'[w][Index(j)] = s /\ s.job = j
        /\ \A v \in Workers, i \in 0..1 : v # w \/ i # Index(j) => slot'[v][i] = slot[v][i]
    BY <1>1, SlotsAfter
  <1>3. /\ UNCHANGED <<published, incoming, userJob, reset, todo, got, given, owner, fresh>>
        /\ \A v \in Workers : job'[v] = IF v = w THEN j ELSE job[v]
    BY <1>1 DEF Puts
  <1>4. ~Unknown(j)
    BY DEF Unknown
  <1>5. ASSUME NEW k \in Jobs, Unknown(k) PROVE Unknown(k)'
    BY <1>2, <1>3, <1>4, <1>5 DEF Unknown
  <1>6. ASSUME NEW k \in Jobs, Unreset(k) PROVE Unreset(k)'
    <2>1. CASE k = j
      BY <1>3, <1>6, <2>1 DEF Unreset
    <2>2. CASE k # j
      <3>1. \A v \in Workers : HasRange(v, k)' => HasRange(v, k)
        BY <1>2, <2>2, IndexOf DEF HasRange
      <3> QED
        BY <1>3, <1>6, <2>2, <3>1 DEF Unreset
    <2> QED
      BY <2>1, <2>2
  <1>7. published \in Jobs \cup {NoJob}
    BY DEF TypeOK
  <1> QED
    BY <1>3, <1>5, <1>6, <1>7 DEF GivenInv, NonceTypes

LEMMA PutsSlots ==
    ASSUME TypeOK, NonceTypes, SlotsInv, NEW w \in Workers, NEW j \in Jobs, NEW s, Puts(w, j, s),
           spent \subseteq spent', j \in spent' \/ \A n \in Left(s) : n <= Mask,
           \A i \in 0..1 : counter'[i] % Reserve = 0,
           \A v \in Workers \ {w} : at'[v] = at[v]
    PROVE  SlotsInv'
  <1>1. slot \in Slots /\ job \in [Workers -> Jobs \cup {NoJob}]
    BY DEF NonceTypes, NonceTypeOK, Slots, TypeOK
  <1>2. /\ slot'[w][Index(j)] = s /\ s.job = j
        /\ \A v \in Workers, i \in 0..1 : v # w \/ i # Index(j) => slot'[v][i] = slot[v][i]
    BY <1>1, SlotsAfter
  <1>3. \A v \in Workers : job'[v] = IF v = w THEN j ELSE job[v]
    BY <1>1 DEF Puts
  <1>4. \A v \in Workers : at'[v] \in Hashing => job'[v] # NoJob
    BY <1>3, Constants DEF SlotsInv
  <1>5. ASSUME NEW v \in Workers, NEW i \in 0..1
        PROVE  /\ slot'[v][i].job # NoJob => Index(slot'[v][i].job) = i
               /\ InMask(slot[v][i])'
    BY <1>2 DEF SlotsInv, InMask, Left
  <1> QED
    BY <1>4, <1>5 DEF SlotsInv

LEMMA OthersOnce ==
    ASSUME NonceTypes, NEW w \in Workers, NEW j \in Jobs, NEW s, Puts(w, j, s),
           NEW k \in Jobs, k # j, Once(k), hashed'[k] = hashed[k],
           \A i \in 0..1 : counter'[i] \in Nat /\ counter'[i] >= counter[i]
    PROVE  Once(k)'
  <1>1. slot \in Slots
    BY DEF NonceTypes, NonceTypeOK, Slots
  <1>2. /\ slot'[w][Index(j)] = s /\ s.job = j /\ owner' = owner
        /\ \A v \in Workers, i \in 0..1 : v # w \/ i # Index(j) => slot'[v][i] = slot[v][i]
    BY <1>1, SlotsAfter
  <1>3. ASSUME NEW v \in Workers, HasRange(v, k)'
        PROVE  HasRange(v, k) /\ Part(v, k)' = Part(v, k)
    BY <1>2, <1>3, IndexOf DEF HasRange, Part
  <1>4. \A v \in Workers : HasRange(v, k)' => Left(Part(v, k))' = Left(Part(v, k))
    BY <1>3 DEF Left
  <1>5. ASSUME owner[Index(k)] = k
        PROVE  /\ \A n \in hashed'[k] : n < counter'[Index(k)]
               /\ \A v \in Workers : HasRange(v, k)' =>
                    \A n \in Left(Part(v, k))' : n < counter'[Index(k)]
    <2>1. Index(k) \in 0..1 /\ counter[Index(k)] \in Nat /\ counter'[Index(k)] \in Nat
          /\ counter'[Index(k)] >= counter[Index(k)]
      BY IndexOf DEF NonceTypes, NonceTypeOK
    <2>2. \A n \in Nat : n < counter[Index(k)] => n < counter'[Index(k)]
      BY <2>1
    <2>3. hashed[k] \subseteq Nat
      BY DEF NonceTypes
    <2>4. \A v \in Workers : HasRange(v, k) => Left(Part(v, k)) \subseteq Nat
      BY <1>1, IndexOf, Constants DEF Slots, Left, Part
    <2> QED
      BY <1>3, <1>4, <1>5, <2>2, <2>3, <2>4 DEF Once
  <1> QED
    BY <1>2, <1>3, <1>4, <1>5 DEF Once

\* A worker hashes a nonce of its own range.
LEMMA HashOfRange ==
    ASSUME IInv, NonceInv, NEW w \in Workers, at[w] \in Hashing, Hashed(w),
           raced \subseteq raced', spent \subseteq spent'
    PROVE  LET j == job[w]
               s == Part(w, j)
           IN /\ j \in Jobs /\ HasRange(w, j) /\ s = Current(w)
              /\ s \in [job : {j}, nonce : Nat, round : 0..Reserve - 1]
              /\ s.nonce \in Left(s)
              /\ hashed' = [hashed EXCEPT ![j] = @ \cup {s.nonce}]
              /\ hashed' \in [Jobs -> SUBSET Nat]
              /\ TwiceOnlyInRaces' /\ MaskKept'
  <1> DEFINE j == job[w]
             s == Part(w, j)
  <1>1. TypeOK /\ NonceTypes /\ SlotsInv /\ TwiceOnlyInRaces /\ MaskKept
        /\ \A k \in Jobs \ (raced \cup spent) : Once(k)
    BY DEF IInv, NonceInv
  <1>2. j \in Jobs
    BY <1>1 DEF TypeOK, SlotsInv
  <1>3. HasRange(w, j) /\ s = Current(w) /\ Index(j) \in 0..1
    BY <1>1, IndexOf DEF NonceTypes, NonceTypeOK, HasRange, Part, Current
  <1>4. s \in [job : {j}, nonce : Nat, round : 0..Reserve - 1]
    BY <1>1, <1>3 DEF NonceTypes, NonceTypeOK, Part, HasRange
  <1>5. s.nonce \in Left(s)
    BY <1>4, Constants DEF Left
  <1>6. /\ hashed' = [hashed EXCEPT ![j] = @ \cup {s.nonce}]
        /\ doubled' = IF s.nonce \in hashed[j] THEN doubled \cup {j} ELSE doubled
        /\ overrun' = IF s.nonce > Mask THEN overrun \cup {j} ELSE overrun
    BY <1>3 DEF Hashed
  <1>7. hashed' \in [Jobs -> SUBSET Nat]
    <2>1. hashed \in [Jobs -> SUBSET Nat] /\ s.nonce \in Nat
      BY <1>1, <1>4 DEF NonceTypes
    <2> HIDE DEF j, s
    <2> QED
      BY <1>2, <1>6, <2>1
  <1>8. TwiceOnlyInRaces'
    <2>1. s.nonce \in hashed[j] => j \in raced \cup spent
      BY <1>1, <1>2, <1>3, <1>5 DEF Once
    <2> QED
      BY <1>1, <1>6, <2>1 DEF TwiceOnlyInRaces
  <1>9. MaskKept'
    <2>1. j \in spent \/ s.nonce <= Mask
      BY <1>1, <1>3, <1>5 DEF SlotsInv, InMask, HasRange, Part
    <2>2. s.nonce > Mask => j \in spent
      BY <1>4, <2>1, Constants
    <2> QED
      BY <1>1, <1>6, <2>2 DEF MaskKept
  <1> QED
    BY <1>2, <1>3, <1>4, <1>5, <1>6, <1>7, <1>8, <1>9

\* Nonce::next: the range that w takes for job j while it hashes the nonces in H.
LEMMA TakeRange ==
    ASSUME IInv, NonceInv, NEW w \in Workers, NEW j \in Jobs, NEW H,
           Puts(w, j, [job |-> j, nonce |-> counter[Index(j)], round |-> 0]),
           Take(j), Granted(j), spent' = spent,
           got[w] = j \/ job[w] = j,
           \A v \in Workers \ {w} : at'[v] = at[v],
           hashed' \in [Jobs -> SUBSET Nat],
           hashed' = [hashed EXCEPT ![j] = @ \cup H],
           H = {} \/ (HasRange(w, j) /\ H \subseteq Left(Part(w, j)))
    PROVE  NonceTypes' /\ GivenInv' /\ SlotsInv' /\ \A k \in Jobs \ (raced' \cup spent') : Once(k)'
  <1> DEFINE i == Index(j)
             c == counter[i]
             s == [job |-> j, nonce |-> c, round |-> 0]
  <1>1. TypeOK /\ NonceTypes /\ GivenInv /\ SlotsInv /\ \A k \in Jobs \ (raced \cup spent) : Once(k)
    BY DEF IInv, NonceInv
  <1>2. /\ i \in 0..1 /\ c \in Nat /\ c <= Mask /\ c % Reserve = 0
        /\ counter \in [0..1 -> Nat] /\ slot \in Slots
        /\ hashed \in [Jobs -> SUBSET Nat]
    BY <1>1, IndexOf DEF NonceTypes, NonceTypeOK, Granted, SlotsInv, Slots
  <1>3. /\ counter' = [counter EXCEPT ![i] = c + Reserve]
        /\ raced' = IF owner[i] = j THEN raced ELSE raced \cup {j}
    <2>1. NextCounter(i) = c + Reserve
      BY <1>2, Constants DEF NextCounter
    <2> QED
      BY <2>1 DEF Take
  <1>4. /\ counter' \in [0..1 -> Nat] /\ counter'[i] = c + Reserve
        /\ \A k \in 0..1 : counter'[k] \in Nat /\ counter'[k] >= counter[k]
    BY <1>2, <1>3, Constants
  <1>5. (c + Reserve) % Reserve = 0 /\ c + Reserve - 1 <= Mask
    BY <1>2, WholeRange
  <1>6. s \in [job : {j}, nonce : Nat, round : 0..Reserve - 1] /\ Left(s) = c .. c + Reserve - 1
    BY <1>2, Constants DEF Left
  <1>7. /\ \A k \in Jobs \ {j} : hashed'[k] = hashed[k]
        /\ hashed'[j] = hashed[j] \cup H
    BY <1>2
  <1>8. Puts(w, j, s)
    OBVIOUS
  <1>9. NonceTypes'
    BY <1>1, <1>4, <1>8, PutsTypes
  <1>10. GivenInv'
    <2>1. Unreset(j) => j \in raced'
      BY <1>3 DEF Unreset
    <2>2. raced \subseteq raced'
      BY <1>3
    <2> QED
      BY <1>1, <1>7, <1>8, <2>1, <2>2, PutsGiven
  <1>11. SlotsInv'
    <2>1. \A k \in 0..1 : counter'[k] % Reserve = 0
      BY <1>1, <1>2, <1>3, <1>5 DEF SlotsInv
    <2>2. \A n \in Left(s) : n <= Mask
      BY <1>2, <1>5, <1>6, Constants
    <2> QED
      BY <1>1, <1>8, <2>1, <2>2, PutsSlots
  <1>12. /\ slot'[w][i] = s /\ owner' = owner
         /\ \A v \in Workers \ {w} : slot'[v][i] = slot[v][i]
    BY <1>2, <1>8, SlotsAfter
  <1>13. ASSUME NEW k \in Jobs \ (raced' \cup spent') PROVE Once(k)'
    <2>1. k \in Jobs \ (raced \cup spent) /\ Once(k)
      BY <1>1, <1>3, <1>13
    <2>2. CASE k # j
      BY <1>1, <1>4, <1>7, <1>8, <2>1, <2>2, OthersOnce
    <2>3. CASE k = j
      <3>1. owner[i] = j
        BY <1>3, <1>13, <2>3
      <3>2. /\ \A n \in hashed[j] : n < c
            /\ \A v \in Workers : HasRange(v, j) =>
                 /\ \A n \in Left(Part(v, j)) : n < c
                 /\ Left(Part(v, j)) \cap hashed[j] = {}
        BY <2>1, <2>3, <3>1 DEF Once
      <3>3. \A n \in H : n < c
        BY <3>2
      <3>4. \A v \in Workers \ {w} : /\ HasRange(v, j)' <=> HasRange(v, j)
                                     /\ Left(Part(v, j))' = Left(Part(v, j))
        BY <1>12 DEF HasRange, Part, Left
      <3>5. Left(Part(w, j))' = c .. c + Reserve - 1
        BY <1>6, <1>12 DEF Part, Left
      <3>6. hashed[j] \subseteq Nat /\ hashed'[j] \subseteq Nat
        BY <1>2
      <3>7. \A n \in hashed'[j] : n < c
        BY <1>7, <3>2, <3>3
      <3>8. ASSUME NEW v \in Workers, HasRange(v, j)'
            PROVE  Left(Part(v, j))' \cap hashed'[j] = {}
        <4>1. CASE v = w
          BY <1>2, <3>5, <3>6, <3>7, <4>1
        <4>2. CASE v # w
          <5>1. HasRange(v, j) /\ Left(Part(v, j))' = Left(Part(v, j))
            BY <3>4, <3>8, <4>2
          <5>2. Left(Part(v, j)) \cap H = {}
            BY <2>1, <2>3, <4>2, <5>1 DEF Once
          <5> QED
            BY <1>7, <3>2, <5>1, <5>2
        <4> QED
          BY <4>1, <4>2
      <3>9. ASSUME NEW u \in Workers, NEW v \in Workers, u # v, HasRange(u, j)', HasRange(v, j)'
            PROVE  Left(Part(u, j))' \cap Left(Part(v, j))' = {}
        <4>1. \A x \in Workers \ {w} : HasRange(x, j)' => \A n \in Left(Part(x, j))' : n < c
          BY <3>2, <3>4
        <4>2. CASE u # w /\ v # w
          BY <2>1, <2>3, <3>4, <3>9, <4>2 DEF Once
        <4>3. CASE u = w
          BY <1>2, <3>5, <3>9, <4>1, <4>3
        <4>4. CASE v = w
          BY <1>2, <3>5, <3>9, <4>1, <4>4
        <4> QED
          BY <4>2, <4>3, <4>4
      <3>10. /\ \A n \in hashed'[j] : n < counter'[i]
             /\ \A v \in Workers : HasRange(v, j)' =>
                  \A n \in Left(Part(v, j))' : n < counter'[i]
        <4>1. \A n \in Nat : n < c => n < c + Reserve
          BY <1>2, Constants
        <4>2. \A n \in c .. c + Reserve - 1 : n < c + Reserve
          BY <1>2, Constants
        <4>3. \A v \in Workers : HasRange(v, j) => Left(Part(v, j)) \subseteq Nat
          BY <1>2, Constants DEF Slots, Left, Part
        <4> QED
          BY <1>4, <3>2, <3>4, <3>5, <3>6, <3>7, <4>1, <4>2, <4>3
      <3> QED
        BY <1>12, <2>3, <3>8, <3>9, <3>10 DEF Once
    <2> QED
      BY <2>2, <2>3
  <1> QED
    BY <1>9, <1>10, <1>11, <1>13

\* No range is left for job j, whose slot in w becomes s.
LEMMA NothingTaken ==
    ASSUME IInv, NonceInv, NEW w \in Workers, NEW j \in Jobs, NEW s, Puts(w, j, s),
           Take(j), ~Granted(j), spent' = spent \cup {j},
           got[w] = j \/ job[w] = j,
           \A v \in Workers \ {w} : at'[v] = at[v],
           UNCHANGED <<hashed, doubled, overrun>>
    PROVE  NonceInv'
  <1> DEFINE i == Index(j)
  <1>1. TypeOK /\ NonceTypes /\ GivenInv /\ SlotsInv /\ TwiceOnlyInRaces /\ MaskKept
        /\ \A k \in Jobs \ (raced \cup spent) : Once(k)
    BY DEF IInv, NonceInv
  <1>2. i \in 0..1 /\ counter \in [0..1 -> Nat] /\ hashed' = hashed
    BY <1>1, IndexOf DEF NonceTypes, NonceTypeOK
  <1>3. /\ counter' = counter
        /\ raced' = IF owner[i] = j THEN raced ELSE raced \cup {j}
    <2>1. NextCounter(i) = counter[i]
      BY <1>2, Constants DEF NextCounter, Granted
    <2> QED
      BY <1>2, <2>1 DEF Take
  <1>4. NonceTypes'
    <2>1. counter' \in [0..1 -> Nat] /\ hashed' \in [Jobs -> SUBSET Nat]
      BY <1>1, <1>2, <1>3 DEF NonceTypes
    <2> QED
      BY <1>1, <2>1, PutsTypes
  <1>5. GivenInv'
    <2>1. (Unreset(j) => j \in raced') /\ raced \subseteq raced'
      BY <1>3 DEF Unreset
    <2> QED
      BY <1>1, <1>2, <2>1, PutsGiven
  <1>6. SlotsInv'
    <2>1. \A k \in 0..1 : counter'[k] % Reserve = 0
      BY <1>1, <1>3 DEF SlotsInv
    <2>2. j \in spent' /\ spent \subseteq spent'
      OBVIOUS
    <2> QED
      BY <1>1, <2>1, <2>2, PutsSlots
  <1>7. ASSUME NEW k \in Jobs \ (raced' \cup spent') PROVE Once(k)'
    <2>1. k # j /\ k \in Jobs /\ Once(k) /\ hashed'[k] = hashed[k]
      BY <1>1, <1>2, <1>3, <1>7
    <2>2. \A m \in 0..1 : counter'[m] \in Nat /\ counter'[m] >= counter[m]
      BY <1>2, <1>3
    <2> QED
      BY <1>1, <2>1, <2>2, OthersOnce
  <1>8. TwiceOnlyInRaces' /\ MaskKept'
    BY <1>1, <1>3 DEF TwiceOnlyInRaces, MaskKept
  <1> QED
    BY <1>4, <1>5, <1>6, <1>7, <1>8 DEF NonceInv

LEMMA BackToSlotStep ==
    ASSUME IInv, NonceInv, NEW w \in Workers, BackToSlot(w)
    PROVE  NonceInv'
  <1>1. TypeOK /\ NonceTypes /\ GivenInv /\ SlotsInv
    BY DEF IInv, NonceInv
  <1>2. /\ at[w] = "save" /\ job' = [job EXCEPT ![w] = got[w]]
        /\ at' \in {[at EXCEPT ![w] = after[w]], [at EXCEPT ![w] = "dataset"]}
        /\ job[w] # NoJob /\ Index(job[w]) = 1 /\ slot[w][0].job = got[w]
        /\ UNCHANGED <<published, incoming, userJob, reset, todo, got>>
        /\ UNCHANGED <<counter, slot, given, owner, fresh, hashed>>
        /\ UNCHANGED <<doubled, overrun, raced, spent>>
    BY DEF BackToSlot, SaveJob, Added, Goto, HasSlot, sharedVars, mainVars, jobVars,
           nonceVars, history
  <1>3. /\ job \in [Workers -> Jobs \cup {NoJob}] /\ got \in [Workers -> Jobs \cup {NoJob}]
        /\ at \in [Workers -> Places] /\ after[w] \in {"top", "isOutdated"}
    BY <1>1 DEF TypeOK
  <1>4. Index(got[w]) = 0
    BY <1>1, <1>2, Constants DEF SlotsInv, Index
  <1>5. \A v \in Workers : job'[v] = IF v = w THEN got[w] ELSE job[v]
    BY <1>2, <1>3
  <1>6. NonceTypes'
    <2>1. \A v \in Workers : Current(v)'.job = job'[v]
      BY <1>1, <1>2, <1>4, <1>5 DEF Current, NonceTypes, NonceTypeOK
    <2> QED
      BY <1>1, <1>2, <2>1 DEF NonceTypes, NonceTypeOK
  <1>7. \A j : Unknown(j) => Unknown(j)'
    BY <1>2, <1>5 DEF Unknown
  <1>8. \A j : Unreset(j) => Unreset(j)'
    BY <1>2 DEF Unreset, HasRange
  <1>9. GivenInv'
    BY <1>1, <1>2, <1>7, <1>8 DEF GivenInv
  <1>10. SlotsInv'
    <2>1. \A v \in Workers : at'[v] \in Hashing => v # w /\ at[v] \in Hashing
      BY <1>2, <1>3 DEF Hashing
    <2> QED
      BY <1>1, <1>2, <1>5, <2>1 DEF SlotsInv, InMask, Left
  <1>11. \A j : Once(j) => Once(j)'
    BY <1>2 DEF Once, HasRange, Part, Left
  <1> QED
    BY <1>2, <1>6, <1>9, <1>10, <1>11 DEF NonceInv, TwiceOnlyInRaces, MaskKept

LEMMA SaveStep ==
    ASSUME IInv, NonceInv, NEW w \in Workers, Save(w)
    PROVE  NonceInv'
  <1> DEFINE j == got[w]
  <1>1. TypeOK /\ NonceTypes
    BY DEF IInv, NonceInv
  <1>2. j \in Jobs
    BY <1>1 DEF TypeOK, Save
  <1>3. /\ SaveJob(w) /\ Take(j) /\ job' = [job EXCEPT ![w] = j]
        /\ UNCHANGED <<published, incoming, userJob, reset, todo, got>>
        /\ UNCHANGED <<given, owner, fresh, hashed, doubled, overrun>>
    BY DEF Save, SaveJob, sharedVars, mainVars, jobVars
  <1>4. \A v \in Workers \ {w} : at'[v] = at[v]
    <2>1. Worker(w)
      BY <1>3 DEF Worker
    <2> QED
      BY <1>1, <2>1, WorkerFrame
  <1>5. counter[Index(j)] \in Nat /\ 0 \in 0..Reserve - 1
    BY <1>1, IndexOf, Constants DEF NonceTypes, NonceTypeOK
  <1>6. CASE Granted(j)
    <2>1. spent' = spent /\ SetSlot(w, j, counter[Index(j)], 0)
      BY <1>6 DEF Save
    <2>2. Puts(w, j, [job |-> j, nonce |-> counter[Index(j)], round |-> 0])
      BY <1>3, <1>5, <2>1 DEF Puts, SetSlot
    <2>3. hashed' \in [Jobs -> SUBSET Nat] /\ hashed' = [hashed EXCEPT ![j] = @ \cup {}]
      BY <1>1, <1>2, <1>3 DEF NonceTypes
    <2>4. NonceTypes' /\ GivenInv' /\ SlotsInv' /\ \A k \in Jobs \ (raced' \cup spent') : Once(k)'
      <3> HIDE DEF j
      <3>1. got[w] = j
        BY DEF j
      <3> QED
        BY <1>2, <1>3, <1>4, <1>6, <2>1, <2>2, <2>3, <3>1, TakeRange
    <2>5. TwiceOnlyInRaces' /\ MaskKept'
      BY <1>3, <2>1 DEF NonceInv, TwiceOnlyInRaces, MaskKept, Take
    <2> QED
      BY <2>4, <2>5 DEF NonceInv
  <1>7. CASE ~Granted(j)
    <2>1. spent' = spent \cup {j} /\ SetSlot(w, j, 0, 0)
      BY <1>7 DEF Save
    <2>2. Puts(w, j, [job |-> j, nonce |-> 0, round |-> 0])
      BY <1>3, <1>5, <2>1 DEF Puts, SetSlot
    <2> HIDE DEF j
    <2>3. got[w] = j
      BY DEF j
    <2> QED
      BY <1>2, <1>3, <1>4, <1>7, <2>1, <2>2, <2>3, NothingTaken
  <1> QED
    BY <1>6, <1>7

LEMMA NextNonceStep ==
    ASSUME IInv, NonceInv, NEW w \in Workers, NextNonce(w)
    PROVE  NonceInv'
  <1>0. TypeOK /\ at[w] \in Hashing
    BY DEF IInv, NextNonce, Hash, Hashing
  <1> PICK j \in Jobs : j = job[w]
    BY <1>0 DEF NonceInv, SlotsInv, TypeOK
  <1> DEFINE s == Part(w, j)
             t == [job |-> j, nonce |-> s.nonce + 1, round |-> s.round + 1]
  <1>1. TypeOK /\ NonceTypes /\ GivenInv /\ SlotsInv
        /\ \A k \in Jobs \ (raced \cup spent) : Once(k)
    BY DEF IInv, NonceInv
  <1>2. /\ at[w] = "hash" /\ at' = [at EXCEPT ![w] = "isOutdated"]
        /\ Hashed(w) /\ Current(w).round + 1 # Reserve
        /\ j = job[w] /\ SetSlot(w, j, Current(w).nonce + 1, Current(w).round + 1)
        /\ UNCHANGED <<published, incoming, userJob, reset, todo, got, job>>
        /\ UNCHANGED <<counter, given, owner, fresh, raced, spent>>
    BY DEF NextNonce, Hash, Goto, OnlyMoves, RangeDone, sharedVars, mainVars, jobVars
  <1>3. /\ HasRange(w, j) /\ s = Current(w)
        /\ s \in [job : {j}, nonce : Nat, round : 0..Reserve - 1]
        /\ s.nonce \in Left(s)
        /\ hashed' = [hashed EXCEPT ![j] = @ \cup {s.nonce}]
        /\ hashed' \in [Jobs -> SUBSET Nat]
        /\ TwiceOnlyInRaces' /\ MaskKept'
    BY <1>2, HashOfRange DEF Hashing
  <1>4. /\ t \in [job : {j}, nonce : Nat, round : 0..Reserve - 1]
        /\ Left(t) = Left(s) \ {s.nonce}
    BY <1>2, <1>3, Constants DEF Left
  <1>5. Puts(w, j, t)
    <2>1. job \in [Workers -> Jobs \cup {NoJob}]
      BY <1>1 DEF TypeOK
    <2>2. slot' = [slot EXCEPT ![w][Index(j)] = t]
      BY <1>2, <1>3 DEF SetSlot
    <2> HIDE DEF t, s
    <2>3. job' = [job EXCEPT ![w] = j]
      BY <1>2, <2>1
    <2> QED
      BY <1>2, <1>4, <2>2, <2>3 DEF Puts
  <1>6. \A v \in Workers \ {w} : at'[v] = at[v]
    BY <1>1, <1>2 DEF TypeOK
  <1>7. /\ hashed \in [Jobs -> SUBSET Nat] /\ counter \in [0..1 -> Nat] /\ slot \in Slots
        /\ Index(j) \in 0..1
    BY <1>1, IndexOf DEF NonceTypes, NonceTypeOK, Slots
  <1> HIDE DEF t, s
  <1>8. /\ \A k \in Jobs \ {j} : hashed'[k] = hashed[k]
        /\ hashed'[j] = hashed[j] \cup {s.nonce}
    BY <1>3, <1>7
  <1>9. NonceTypes'
    <2>1. counter' \in [0..1 -> Nat]
      BY <1>2, <1>7
    <2> QED
      BY <1>1, <1>3, <1>5, <2>1, PutsTypes
  <1>10. GivenInv'
    <2>1. Unreset(j) => j \in raced'
      BY <1>2, <1>3 DEF Unreset
    <2>2. job[w] = j /\ raced \subseteq raced'
      BY <1>2
    <2> QED
      BY <1>1, <1>3, <1>5, <1>8, <2>1, <2>2, PutsGiven
  <1>11. SlotsInv'
    <2>1. j \in spent \/ \A n \in Left(s) : n <= Mask
      BY <1>1, <1>3, <1>7 DEF SlotsInv, InMask, HasRange, Part, s
    <2>2. spent \subseteq spent' /\ (j \in spent' \/ \A n \in Left(t) : n <= Mask)
      BY <1>2, <1>4, <2>1
    <2>3. \A i \in 0..1 : counter'[i] % Reserve = 0
      BY <1>1, <1>2 DEF SlotsInv
    <2> QED
      BY <1>1, <1>3, <1>5, <1>6, <2>2, <2>3, PutsSlots
  <1>12. ASSUME NEW k \in Jobs \ (raced' \cup spent') PROVE Once(k)'
    <2>1. k \in Jobs /\ Once(k)
      BY <1>1, <1>2, <1>12
    <2>2. CASE k # j
      <3>1. \A i \in 0..1 : counter'[i] \in Nat /\ counter'[i] >= counter[i]
        BY <1>2, <1>7
      <3> QED
        BY <1>1, <1>3, <1>5, <1>8, <2>1, <2>2, <3>1, OthersOnce
    <2>3. CASE k = j
      <3>1. /\ slot'[w][Index(j)] = t
            /\ \A v \in Workers \ {w} : slot'[v][Index(j)] = slot[v][Index(j)]
        BY <1>3, <1>5, <1>7, SlotsAfter
      <3>2. /\ \A v \in Workers : HasRange(v, j)' => HasRange(v, j)
            /\ \A v \in Workers \ {w} : Left(Part(v, j))' = Left(Part(v, j))
        BY <1>3, <3>1 DEF HasRange, Part, Left, s
      <3>3. Left(Part(w, j))' = Left(Part(w, j)) \ {s.nonce}
        BY <1>2, <1>4, <3>1 DEF Part, Left, s
      <3>4. ASSUME NEW v \in Workers, HasRange(v, j)'
            PROVE  Left(Part(v, j))' \cap hashed'[j] = {}
        <4>1. CASE v = w
          BY <1>3, <1>8, <2>1, <2>3, <3>3, <4>1 DEF Once
        <4>2. CASE v # w
          <5>1. s.nonce \notin Left(Part(v, j))
            BY <1>3, <2>1, <2>3, <3>2, <3>4, <4>2 DEF Once, s
          <5> QED
            BY <1>8, <2>1, <2>3, <3>2, <3>4, <4>2, <5>1 DEF Once
        <4> QED
          BY <4>1, <4>2
      <3>5. ASSUME NEW u \in Workers, NEW v \in Workers, u # v, HasRange(u, j)', HasRange(v, j)'
            PROVE  Left(Part(u, j))' \cap Left(Part(v, j))' = {}
        <4>1. Left(Part(u, j)) \cap Left(Part(v, j)) = {}
          BY <2>1, <2>3, <3>2, <3>5 DEF Once
        <4>2. \A x \in Workers : Left(Part(x, j))' \subseteq Left(Part(x, j))
          BY <3>2, <3>3
        <4> QED
          BY <4>1, <4>2
      <3>6. ASSUME owner'[Index(j)] = j
            PROVE  /\ \A n \in hashed'[j] : n < counter'[Index(j)]
                   /\ \A v \in Workers : HasRange(v, j)' =>
                        \A n \in Left(Part(v, j))' : n < counter'[Index(j)]
        BY <1>2, <1>3, <1>8, <2>1, <2>3, <3>2, <3>3, <3>6 DEF Once, s
      <3> QED
        BY <1>2, <2>3, <3>4, <3>5, <3>6 DEF Once
    <2> QED
      BY <2>2, <2>3
  <1> QED
    BY <1>3, <1>9, <1>10, <1>11, <1>12 DEF NonceInv

LEMMA NextRangeStep ==
    ASSUME IInv, NonceInv, NEW w \in Workers, NextRange(w) \/ FoundLastRange(w)
    PROVE  NonceInv'
  <1> DEFINE j == job[w]
             s == Part(w, j)
  <1>1. TypeOK /\ NonceTypes
    BY DEF IInv, NonceInv
  <1>2. /\ at[w] = "hash" /\ \A v \in Workers \ {w} : at'[v] = at[v]
        /\ Granted(j) /\ Take(j) /\ Hashed(w) /\ SetSlot(w, j, counter[Index(j)], 0)
        /\ UNCHANGED <<published, incoming, userJob, reset, todo, got, job>>
        /\ UNCHANGED <<given, owner, fresh, spent>>
    BY <1>1 DEF NextRange, FoundLastRange, Hash, LastRange, Goto, OnlyMoves, sharedVars,
                mainVars, jobVars, TypeOK
  <1>3. raced \subseteq raced'
    BY <1>2 DEF Take
  <1>4. /\ j \in Jobs /\ HasRange(w, j)
        /\ s.nonce \in Left(s)
        /\ hashed' = [hashed EXCEPT ![j] = @ \cup {s.nonce}]
        /\ hashed' \in [Jobs -> SUBSET Nat]
        /\ TwiceOnlyInRaces' /\ MaskKept'
    BY <1>2, <1>3, HashOfRange DEF Hashing
  <1>5. Puts(w, j, [job |-> j, nonce |-> counter[Index(j)], round |-> 0])
    <2>1. job \in [Workers -> Jobs \cup {NoJob}]
          /\ counter[Index(j)] \in Nat /\ 0 \in 0..Reserve - 1
      BY <1>1, IndexOf, Constants DEF TypeOK, NonceTypes, NonceTypeOK
    <2>2. job' = [job EXCEPT ![w] = j]
      BY <1>2, <2>1
    <2> QED
      BY <1>2, <2>1, <2>2 DEF Puts, SetSlot
  <1>6. job[w] = j
    OBVIOUS
  <1> DEFINE H == {s.nonce}
  <1>7. H \subseteq Left(Part(w, j)) /\ hashed' = [hashed EXCEPT ![j] = @ \cup H]
    BY <1>4
  <1> HIDE DEF j, s, H
  <1>8. NonceTypes' /\ GivenInv' /\ SlotsInv' /\ \A k \in Jobs \ (raced' \cup spent') : Once(k)'
    BY <1>2, <1>4, <1>5, <1>6, <1>7, TakeRange
  <1> QED
    BY <1>4, <1>8 DEF NonceInv

LEMMA NoRangeStep ==
    ASSUME IInv, NonceInv, NEW w \in Workers, NoRange(w)
    PROVE  NonceInv'
  <1> DEFINE j == job[w]
  <1>1. TypeOK /\ NonceTypes /\ SlotsInv
    BY DEF IInv, NonceInv
  <1>2. /\ at[w] = "hash" /\ \A v \in Workers \ {w} : at'[v] = at[v]
        /\ ~Granted(j) /\ Take(j) /\ SetSlot(w, j, Current(w).nonce, 0)
        /\ spent' = spent \cup {j}
        /\ UNCHANGED <<published, incoming, userJob, reset, todo, got, job>>
        /\ UNCHANGED <<given, owner, fresh, hashed, doubled, overrun>>
    BY <1>1 DEF NoRange, Exhausted, Goto, sharedVars, mainVars, jobVars, TypeOK
  <1>3. j \in Jobs
    BY <1>1, <1>2 DEF TypeOK, SlotsInv, Hashing
  <1> DEFINE s == [job |-> j, nonce |-> Current(w).nonce, round |-> 0]
  <1>4. Puts(w, j, s)
    <2>1. job \in [Workers -> Jobs \cup {NoJob}]
          /\ Current(w).nonce \in Nat /\ 0 \in 0..Reserve - 1
      BY <1>1, IndexOf, Constants DEF TypeOK, NonceTypes, NonceTypeOK, Current
    <2>2. job' = [job EXCEPT ![w] = j]
      BY <1>2, <2>1
    <2> QED
      BY <1>2, <2>1, <2>2 DEF Puts, SetSlot
  <1>5. job[w] = j
    OBVIOUS
  <1> HIDE DEF j, s
  <1> QED
    BY <1>2, <1>3, <1>4, <1>5, NothingTaken

LEMMA NoncesStep == IInv /\ NonceInv /\ [NonceNext]_allVars => NonceInv'
  <1> SUFFICES ASSUME IInv, NonceInv, [NonceNext]_allVars PROVE NonceInv'
    OBVIOUS
  <1>1. CASE Unrelated /\ UNCHANGED nonceVars
    BY <1>1, UnrelatedApart, ApartKeeps
  <1>2. CASE UNCHANGED allVars
    <2>1. UNCHANGED nonceVars
      BY <1>2 DEF allVars
    <2>2. Apart
      BY <1>2 DEF allVars, vars, sharedVars, mainVars, workVars, Apart
    <2> QED
      BY <2>1, <2>2, ApartKeeps
  <1> QED
    BY <1>1, <1>2, GiveJobStep, PublishJobStep, ResetCounterStep, StartWorkersStep, BackToSlotStep,
       SaveStep, NextNonceStep, NextRangeStep, NoRangeStep DEF NonceNext

LEMMA NoncesAlways == NonceSpec => []NonceInv
  <1>1. NonceSpec => []IInv
    BY NoncesRefine, Inductive, PTL
  <1> QED
    BY <1>1, NoncesInitially, NoncesStep, PTL DEF NonceSpec

-----------------------------------------------------------------------------
\* Counters and slots keep their shapes, and the current slot of a worker holds its job
\* (WorkerJob::index, WorkerJob::add).
THEOREM NonceTyping == NonceSpec => []NonceTypeOK
  BY NoncesAlways, PTL DEF NonceInv, NonceTypes

\* No nonce of a job is hashed twice, whatever jobs, donations, pauses and restarts come
\* in between, unless a worker took a range of the job from a counter that was not (or not only
\* once) reset for it, or the job came to the end of its nonces (WorkerJob, Nonce::next,
\* Miner::setJob).
THEOREM NoNonceTwice == NonceSpec => []TwiceOnlyInRaces
  BY NoncesAlways, PTL DEF NonceInv

\* Only a job that came to the end of its nonces is hashed beyond the mask of the pool
\* (WorkerJob::save, WorkerJob::nextRound).
THEOREM InsideMask == NonceSpec => []MaskKept
  BY NoncesAlways, PTL DEF NonceInv

=============================================================================
