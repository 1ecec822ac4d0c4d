---------------------------- MODULE NonceProofs ----------------------------
(***************************************************************************)
(* What Nonce promises, for every number of threads, mask, word size and   *)
(* reservation size: ranges of one epoch never overlap, stay inside the    *)
(* mask without carrying out of the low word, and the end of the range is  *)
(* never passed unnoticed.                                                 *)
(*                                                                         *)
(* The disjointness of the granted ranges is not inductive: a range that a *)
(* thread has fetched but not yet tested counts as much.  Claims adds      *)
(* those, and Behind says that every claim lies below the counter it came  *)
(* from.                                                                   *)
(***************************************************************************)
EXTENDS Nonce, TLAPS

Claims == granted \cup {Range(t) : t \in {u \in Threads : Testing(u)}}

Behind ==
    \A c \in Claims :
        /\ c.epoch <= epoch[c.index]
        /\ c.epoch = epoch[c.index] => c.from + c.count <= nonces[c.index]

ClaimsApart == \A c, d \in Claims : Apart(c, d)

CallsSane ==
    \A t \in Threads : call[t].at # "out" => call[t].count \in 1..WordSize

IInv == TypeOK /\ Behind /\ ClaimsApart /\ CallsSane

-----------------------------------------------------------------------------
\* The masked limit of a job is a natural number (mask &= 2^63 - 1).
LEMMA LimitNat == \A i \in Indexes : Limit(i) \in Nat
  BY NonceAssumption, SMT DEF NonceAssumption, Limit

\* Nonce::next and the one-line operations keep every variable in its type.
LEMMA TypingStep == TypeOK /\ [Next]_vars => TypeOK'
  <1> SUFFICES ASSUME TypeOK, [Next]_vars PROVE TypeOK'
    OBVIOUS
  <1> USE NonceAssumption, LimitNat
  <1>1. ASSUME NEW t \in Threads, NEW i \in Indexes, NEW n \in Counts, Call(t, i, n)
        PROVE  TypeOK'
    BY <1>1, SMT DEF TypeOK, Call, atomics, history, Calls, Indexes, NonceAssumption
  <1>2. ASSUME NEW t \in Threads, Fetch(t)
        PROVE  TypeOK'
    <2> DEFINE i == call[t].index
    <2>1. i \in Indexes /\ nonces[i] \in Nat /\ epoch[i] \in Nat /\ call[t].count \in Nat
      BY SMT DEF TypeOK, Calls
    <2>2. nonces' \in [Indexes -> Nat]
      BY <1>2, <2>1, SMT DEF TypeOK, Fetch
    <2>3. call' \in [Threads -> Calls]
      BY <1>2, <2>1, SMT DEF TypeOK, Fetch, Goto, Calls
    <2>4. QED
      BY <1>2, <2>2, <2>3 DEF TypeOK, Fetch, history
  <1>3. ASSUME NEW t \in Threads, Overshot(t) \/ SkipWordEnd(t)
        PROVE  TypeOK'
    BY <1>3, SMT DEF TypeOK, Overshot, SkipWordEnd, Goto, Return, NotCalling, atomics,
                     history, Calls, Indexes
  <1>4. ASSUME NEW t \in Threads, LastPart(t) \/ LastRange(t) \/ Grant(t)
        PROVE  TypeOK'
    <2>1. Range(t) \in Ranges /\ <<call[t].index, call[t].epoch>> \in Indexes \X Nat
      BY SMT DEF TypeOK, Calls, Range, Ranges
    <2>2. call' \in [Threads -> Calls]
      BY <1>4, SMT DEF TypeOK, LastPart, LastRange, Grant, Return, NotCalling, Calls,
                       Indexes
    <2>3. QED
      BY <1>4, <2>1, <2>2 DEF TypeOK, LastPart, LastRange, Grant, atomics
  <1>5. ASSUME NEW i \in Indexes, Reset(i)
        PROVE  TypeOK'
    BY <1>5, SMT DEF TypeOK, Reset
  <1>6. ASSUME NEW p \in BOOLEAN, Pause(p)
        PROVE  TypeOK'
    BY <1>6 DEF TypeOK, Pause, history
  <1>7. CASE UNCHANGED vars
    BY <1>7 DEF TypeOK, vars
  <1>8. QED
    BY <1>1, <1>2, <1>3, <1>4, <1>5, <1>6, <1>7 DEF Next, Control, NextStep, Advance

\* Every reachable state of the allocator is well typed.
THEOREM Typing == Spec => []TypeOK
  <1>1. Init => TypeOK
    BY NonceAssumption, SMT DEF Init, TypeOK, NotCalling, Calls, Indexes
  <1>2. QED
    BY <1>1, TypingStep, PTL DEF Spec

-----------------------------------------------------------------------------
\* The range that a thread about to fetch will claim.
NextClaim(t) ==
    [index |-> call[t].index, epoch |-> epoch[call[t].index],
     from |-> nonces[call[t].index], count |-> call[t].count, by |-> t]

\* Ranges in flight have the type of granted ranges.
LEMMA ClaimsTyped == TypeOK => Claims \subseteq Ranges
  BY SMT DEF TypeOK, Claims, Range, Ranges, Calls

\* fetch_add is the only step that claims nonces; every other step of
\* Nonce::next keeps a claim, hands it out or drops it.
LEMMA ClaimsStep ==
  ASSUME TypeOK, NEW t \in Threads, Advance(t)
  PROVE  /\ Fetch(t) => Claims' \subseteq Claims \cup {NextClaim(t)}
         /\ ~ Fetch(t) => Claims' \subseteq Claims
  <1>1. ASSUME NEW u \in Threads, u # t
        PROVE  Range(u)' = Range(u) /\ (Testing(u)' <=> Testing(u))
    <2>1. call'[u] = call[u]
      BY <1>1, SMT DEF Advance, Fetch, Overshot, LastPart, LastRange, SkipWordEnd, Grant,
                       Goto, Return, TypeOK
    <2>2. QED
      BY <2>1 DEF Range, Testing
  <1>2. ASSUME Fetch(t)
        PROVE  Range(t)' = NextClaim(t) /\ granted' = granted
    BY <1>2, SMT DEF Fetch, Goto, Range, NextClaim, history, TypeOK
  <1>3. ASSUME Fetch(t)
        PROVE  Claims' \subseteq Claims \cup {NextClaim(t)}
    BY <1>1, <1>2, <1>3 DEF Claims
  <1>4. ASSUME ~ Fetch(t)
        PROVE  Claims' \subseteq Claims
    <2>1. Testing(t) /\ ~ Testing(t)' /\ granted' \subseteq granted \cup {Range(t)}
      BY <1>4, SMT DEF Advance, Overshot, LastPart, LastRange, SkipWordEnd, Grant, Goto,
                       Return, NotCalling, Testing, TypeOK, history
    <2>2. QED
      BY <1>1, <2>1 DEF Claims
  <1>5. QED
    BY <1>3, <1>4

\* The arguments of a call passed the test at the head of Nonce::next.
LEMMA CallsSaneStep == TypeOK /\ CallsSane /\ [Next]_vars => CallsSane'
  <1> SUFFICES ASSUME TypeOK, CallsSane, [Next]_vars,
                      NEW u \in Threads, call'[u].at # "out"
               PROVE  call'[u].count \in 1..WordSize
    BY DEF CallsSane
  <1>1. ASSUME NEW t \in Threads, NEW i \in Indexes, NEW n \in Counts, Call(t, i, n)
        PROVE  call'[u].count \in 1..WordSize
    <2>1. n \in 1..WordSize
      BY <1>1, NonceAssumption, SMT DEF Call, NonceAssumption
    <2>2. CASE u = t
      BY <1>1, <2>1, <2>2, SMT DEF Call, TypeOK
    <2>3. CASE u # t
      BY <1>1, <2>3, SMT DEF Call, TypeOK, CallsSane
    <2>4. QED
      BY <2>2, <2>3
  <1>2. ASSUME NEW t \in Threads, Advance(t)
        PROVE  call'[u].count \in 1..WordSize
    <2>1. call'[t].at # "out" => call[t].at # "out" /\ call'[t].count = call[t].count
      BY <1>2, SMT DEF Advance, Fetch, Overshot, LastPart, LastRange, SkipWordEnd, Grant,
                       Goto, Return, NotCalling, Testing, TypeOK
    <2>2. u # t => call'[u] = call[u]
      BY <1>2, SMT DEF Advance, Fetch, Overshot, LastPart, LastRange, SkipWordEnd, Grant,
                       Goto, Return, TypeOK
    <2>3. QED
      BY <2>1, <2>2 DEF CallsSane
  <1>3. ASSUME call' = call
        PROVE  call'[u].count \in 1..WordSize
    BY <1>3 DEF CallsSane
  <1>4. QED
    BY <1>1, <1>2, <1>3 DEF Next, Control, NextStep, Reset, Pause, vars

\* A claim lies below the counter it came from, or belongs to an older epoch.
LEMMA BehindStep == TypeOK /\ CallsSane /\ Behind /\ [Next]_vars => Behind'
  <1> SUFFICES ASSUME TypeOK, CallsSane, Behind, [Next]_vars, NEW c \in Claims'
               PROVE  /\ c.epoch <= epoch'[c.index]
                      /\ c.epoch = epoch'[c.index] => c.from + c.count <= nonces'[c.index]
    BY DEF Behind
  <1> DEFINE Goal == /\ c.epoch <= epoch'[c.index]
                     /\ c.epoch = epoch'[c.index] => c.from + c.count <= nonces'[c.index]
  <1>0. TypeOK'
    BY TypingStep
  <1>1. c \in Ranges
    BY <1>0, SMT DEF TypeOK, Claims, Range, Ranges, Calls
  <1>2. ASSUME NEW t \in Threads, Fetch(t)
        PROVE  Goal
    <2> DEFINE i == call[t].index
    <2>1. i \in Indexes /\ call[t].count \in Nat
      BY SMT DEF TypeOK, Calls
    <2>2. epoch' = epoch /\ nonces' = [nonces EXCEPT ![i] = @ + call[t].count]
      BY <1>2 DEF Fetch, history
    <2>3. CASE c \in Claims
      BY <1>1, <2>1, <2>2, <2>3, SMT DEF Behind, TypeOK, Ranges
    <2>4. CASE c = NextClaim(t)
      BY <2>1, <2>2, <2>4, SMT DEF NextClaim, TypeOK
    <2>5. c \in Claims \cup {NextClaim(t)}
      BY <1>2, ClaimsStep DEF Advance
    <2>6. QED
      BY <2>3, <2>4, <2>5
  <1>3. ASSUME NEW t \in Threads, Advance(t), ~ Fetch(t)
        PROVE  Goal
    <2>1. c \in Claims
      BY <1>3, ClaimsStep
    <2>2. epoch' = epoch /\ nonces' = nonces
      BY <1>3 DEF Advance, Overshot, LastPart, LastRange, SkipWordEnd, Grant, atomics, history
    <2>3. QED
      BY <2>1, <2>2 DEF Behind
  <1>4. ASSUME NEW i \in Indexes, Reset(i)
        PROVE  Goal
    <2>1. c \in Claims
      BY <1>4 DEF Reset, Claims, Range, Testing
    <2>2. QED
      BY <1>1, <1>4, <2>1, SMT DEF Reset, Behind, TypeOK, Ranges
  <1>5. ASSUME UNCHANGED <<granted, epoch, nonces>>,
               \A t \in Threads : /\ Testing(t)' <=> Testing(t)
                                  /\ Testing(t) => call'[t] = call[t]
        PROVE  Goal
    <2>1. c \in Claims
      BY <1>5 DEF Claims, Range
    <2>2. QED
      BY <1>5, <2>1 DEF Behind
  <1>6. ASSUME NEW t \in Threads, NEW i \in Indexes, NEW n \in Counts, Call(t, i, n)
        PROVE  Goal
    <2>1. \A u \in Threads : /\ Testing(u)' <=> Testing(u)
                             /\ Testing(u) => call'[u] = call[u]
      BY <1>6, SMT DEF Call, Testing, TypeOK
    <2>2. QED
      BY <1>5, <1>6, <2>1 DEF Call, atomics, history
  <1>7. ASSUME (\E p \in BOOLEAN : Pause(p)) \/ UNCHANGED vars
        PROVE  Goal
    BY <1>5, <1>7 DEF Pause, history, vars, Testing
  <1>8. QED
    BY <1>2, <1>3, <1>4, <1>6, <1>7 DEF Next, Control, NextStep

\* A new claim starts where every older claim of its epoch has ended.
LEMMA ApartStep == TypeOK /\ CallsSane /\ Behind /\ ClaimsApart /\ [Next]_vars => ClaimsApart'
  <1> SUFFICES ASSUME TypeOK, CallsSane, Behind, ClaimsApart, [Next]_vars
               PROVE  ClaimsApart'
    OBVIOUS
  <1>1. ASSUME NEW t \in Threads, Fetch(t)
        PROVE  ClaimsApart'
    <2>1. Claims' \subseteq Claims \cup {NextClaim(t)}
      BY <1>1, ClaimsStep DEF Advance
    <2>2. ASSUME NEW c \in Claims
          PROVE  Apart(c, NextClaim(t)) /\ Apart(NextClaim(t), c)
      BY <2>2 DEF Apart, Behind, NextClaim
    <2>3. ASSUME NEW c \in Claims', NEW d \in Claims'
          PROVE  Apart(c, d)
      BY <2>1, <2>2, <2>3 DEF ClaimsApart, Apart
    <2>4. QED
      BY <2>3 DEF ClaimsApart, Apart
  <1>2. ASSUME Claims' \subseteq Claims
        PROVE  ClaimsApart'
    BY <1>2 DEF ClaimsApart, Apart
  <1>3. ASSUME NEW t \in Threads, NEW i \in Indexes, NEW n \in Counts, Call(t, i, n)
        PROVE  Claims' \subseteq Claims
    <2>1. \A u \in Threads : Testing(u)' => Testing(u) /\ call'[u] = call[u]
      BY <1>3, SMT DEF Call, Testing, TypeOK
    <2>2. QED
      BY <1>3, <2>1 DEF Call, Claims, Range, history
  <1>4. ASSUME UNCHANGED <<call, granted>>
        PROVE  Claims' \subseteq Claims
    BY <1>4 DEF Claims, Range, Testing
  <1>5. QED
    BY <1>1, <1>2, <1>3, <1>4, ClaimsStep
       DEF Next, Control, NextStep, Reset, Pause, history, vars

\* IInv holds in the initial state and is kept by every step.
LEMMA Inductive == Spec => []IInv
  <1>1. Init => IInv
    <2> SUFFICES ASSUME Init PROVE IInv
      OBVIOUS
    <2>1. TypeOK
      BY NonceAssumption, SMT DEF Init, TypeOK, NotCalling, Calls, Indexes
    <2>2. Claims = {} /\ CallsSane
      BY DEF Init, Claims, Testing, NotCalling, CallsSane
    <2>3. QED
      BY <2>1, <2>2 DEF IInv, Behind, ClaimsApart
  <1>2. IInv /\ [Next]_vars => IInv'
    BY TypingStep, CallsSaneStep, BehindStep, ApartStep DEF IInv
  <1>3. QED
    BY <1>1, <1>2, PTL DEF Spec

\* No nonce of an epoch is ever handed to two threads, or twice to one.
THEOREM Disjointness == Spec => []GrantsDisjoint
  <1>1. IInv => GrantsDisjoint
    BY DEF IInv, ClaimsApart, GrantsDisjoint, Claims
  <1>2. QED
    BY <1>1, Inductive, PTL

-----------------------------------------------------------------------------
\* A number whose distance to a multiple of w is at most w lies in the last
\* c places of its word.
LEMMA WordEnd ==
  ASSUME NEW w \in Nat \ {0}, NEW a \in Nat, NEW c \in 1..w, (a + c) % w = 0
  PROVE  (a % w) + c = w
  <1> DEFINE q == a \div w
             r == a % w
             k == (a + c) \div w
  <1>1. q \in Int /\ k \in Int /\ r \in 0..(w - 1) /\ a = w * q + r /\ a + c = w * k
    BY SMT
  <1> HIDE DEF q, r, k
  <1>2. w * (k - q) = r + c
    BY <1>1, SMT
  <1>3. CASE k - q <= 0
    <2>1. w * (k - q) <= 0
      BY <1>1, <1>3, SMT
    <2>2. QED
      BY <1>1, <1>2, <2>1, SMT
  <1>4. CASE k - q >= 2
    <2>1. w * (k - q) >= w + w
      BY <1>1, <1>4, SMT
    <2>2. QED
      BY <1>1, <1>2, <2>1, SMT
  <1>5. CASE k - q = 1
    <2>1. w * (k - q) = w
      BY <1>5, SMT
    <2>2. QED
      BY <1>1, <1>2, <2>1, SMT DEF r
  <1>6. QED
    BY <1>1, <1>3, <1>4, <1>5, SMT

\* The last range of a mask never carries out of the low word.
LEMMA LastRangeFits ==
  ASSUME NEW i \in Indexes, NEW a \in Nat, NEW c \in 1..WordSize, a + c = Limit(i) + 1
  PROVE  (a % WordSize) + c - 1 < WordSize
  <1> USE NonceAssumption DEF NonceAssumption
  <1>1. Limit(i) \in Nat
    BY LimitNat
  <1>2. CASE Limit(i) < WordSize
    <2>1. a % WordSize = a
      BY <1>1, <1>2, SMT
    <2>2. QED
      BY <1>1, <1>2, <2>1, SMT
  <1>3. CASE Limit(i) >= WordSize
    <2>1. (a + c) % WordSize = 0
      BY <1>3, MaskShape DEF MaskShape, Limit
    <2>2. (a % WordSize) + c = WordSize
      BY <2>1, WordEnd
    <2>3. QED
      BY <2>2, SMT
  <1>4. QED
    BY <1>1, <1>2, <1>3, SMT

\* The two branches of Nonce::next that return true hand out fitting ranges.
LEMMA GrantFits ==
  ASSUME TypeOK, CallsSane, NEW t \in Threads, LastRange(t) \/ Grant(t)
  PROVE  InMask(Range(t))
  <1> DEFINE c == Range(t)
  <1>1. /\ c.index \in Indexes /\ c.from \in Nat /\ c.count \in 1..WordSize
        /\ c.index = call[t].index /\ c.from = call[t].from /\ c.count = call[t].count
    BY SMT DEF TypeOK, Calls, Range, CallsSane, LastRange, Grant, Testing
  <1>2. Limit(c.index) \in Nat /\ WordSize \in Nat \ {0}
    BY <1>1, LimitNat, NonceAssumption DEF NonceAssumption
  <1>3. c.from % WordSize \in Nat
    BY <1>1, <1>2, SMT
  <1> HIDE DEF c
  <1>4. CASE LastRange(t)
    <2>1. c.from + c.count = Limit(c.index) + 1
      BY <1>1, <1>2, <1>4, SMT DEF LastRange, Left
    <2>2. (c.from % WordSize) + c.count - 1 < WordSize
      BY <1>1, <2>1, LastRangeFits
    <2>3. QED
      BY <1>1, <1>2, <2>1, <2>2, SMT DEF InMask, c
  <1>5. CASE Grant(t)
    <2>1. Limit(c.index) - c.from > c.count - 1
      BY <1>1, <1>5 DEF Grant, Left
    <2>2. ~ (WordSize - 1 - (c.from % WordSize) < c.count - 1)
      BY <1>1, <1>5 DEF Grant, CrossesWord
    <2>3. QED
      BY <1>1, <1>2, <1>3, <2>1, <2>2, SMT DEF InMask, c
  <1>6. QED
    BY <1>4, <1>5

\* Every range handed out stays inside the mask and inside one low word.
THEOREM MaskRespected == Spec => []GrantsInMask
  <1>1. Init => GrantsInMask
    BY DEF Init, GrantsInMask
  <1>2. IInv /\ GrantsInMask /\ [Next]_vars => GrantsInMask'
    <2> SUFFICES ASSUME IInv, GrantsInMask, [Next]_vars, NEW c \in granted'
                 PROVE  InMask(c)
      BY DEF GrantsInMask
    <2>1. ASSUME NEW t \in Threads, LastRange(t) \/ Grant(t)
          PROVE  InMask(c)
      <3>1. granted' = granted \cup {Range(t)}
        BY <2>1 DEF LastRange, Grant
      <3>2. InMask(Range(t))
        BY <2>1, GrantFits DEF IInv
      <3>3. QED
        BY <3>1, <3>2 DEF GrantsInMask
    <2>2. CASE granted' = granted
      BY <2>2 DEF GrantsInMask, InMask
    <2>3. QED
      BY <2>1, <2>2 DEF Next, Control, NextStep, Advance, Call, Fetch, Overshot, LastPart,
                        SkipWordEnd, Reset, Pause, history, vars
  <1>3. QED
    BY <1>1, <1>2, Inductive, PTL DEF Spec

-----------------------------------------------------------------------------
\* Some thread of the present epoch is about to raise the pause flag.
Noticing(i, t) ==
    Testing(t) /\ call[t].index = i /\ call[t].epoch = epoch[i] /\ EndOfRange(t)

\* The step that carries a counter past its mask is the step that notices it.
LEMMA PausesStep == IInv /\ ExhaustionPauses /\ [Next]_vars => ExhaustionPauses'
  <1> SUFFICES ASSUME IInv, ExhaustionPauses, [Next]_vars, NEW i \in Indexes,
                      nonces'[i] > Limit(i), <<i, epoch'[i]>> \notin drained'
               PROVE  \E t \in Threads : Noticing(i, t)'
    BY DEF ExhaustionPauses, Noticing, EndOfRange, Left, Limit, Testing
  <1> USE DEF IInv
  <1>1. ASSUME UNCHANGED <<nonces, epoch, drained>>,
               \A t \in Threads : Noticing(i, t) => call'[t] = call[t]
        PROVE  \E t \in Threads : Noticing(i, t)'
    <2>1. PICK t \in Threads : Noticing(i, t)
      BY <1>1 DEF ExhaustionPauses, Noticing
    <2>2. Noticing(i, t)'
      BY <1>1, <2>1 DEF Noticing, Testing, EndOfRange, Left
    <2>3. QED
      BY <2>2
  <1>2. ASSUME NEW u \in Threads, NEW j \in Indexes, NEW n \in Counts, Call(u, j, n)
        PROVE  \E t \in Threads : Noticing(i, t)'
    <2>1. \A t \in Threads : Noticing(i, t) => call'[t] = call[t]
      BY <1>2, SMT DEF Call, Noticing, Testing, TypeOK
    <2>2. QED
      BY <1>1, <1>2, <2>1 DEF Call, atomics, history
  <1>3. ASSUME NEW u \in Threads, Fetch(u)
        PROVE  \E t \in Threads : Noticing(i, t)'
    <2>1. epoch' = epoch /\ drained' = drained
      BY <1>3 DEF Fetch, history
    <2>2. CASE nonces[i] > Limit(i)
      <3>1. PICK t \in Threads : Noticing(i, t)
        BY <2>1, <2>2 DEF ExhaustionPauses, Noticing
      <3>2. call'[t] = call[t]
        BY <1>3, <3>1, SMT DEF Fetch, Goto, Noticing, Testing, TypeOK
      <3>3. Noticing(i, t)'
        BY <2>1, <3>1, <3>2 DEF Noticing, Testing, EndOfRange, Left
      <3>4. QED
        BY <3>3
    <2>3. CASE ~ (nonces[i] > Limit(i))
      <3>1. i = call[u].index /\ nonces'[i] = nonces[i] + call[u].count
        BY <1>3, <2>3, SMT DEF Fetch, TypeOK, Calls
      <3>2. call'[u] = [at |-> "test", index |-> i, count |-> call[u].count,
                        from |-> nonces[i], epoch |-> epoch[i]]
        BY <1>3, <3>1, SMT DEF Fetch, Goto, TypeOK
      <3>3. nonces[i] \in Nat /\ Limit(i) \in Nat /\ call[u].count \in Nat
        BY LimitNat, SMT DEF TypeOK, Calls
      <3>4. Limit(i) - nonces[i] >= 0 /\ Limit(i) - nonces[i] <= call[u].count - 1
        BY <2>3, <3>1, <3>3, SMT
      <3>5. Noticing(i, u)'
        BY <2>1, <3>2, <3>4 DEF Noticing, Testing, EndOfRange, Left, Limit
      <3>6. QED
        BY <3>5
    <2>4. QED
      BY <2>2, <2>3
  <1>4. ASSUME NEW u \in Threads, Overshot(u) \/ SkipWordEnd(u) \/ Grant(u)
        PROVE  \E t \in Threads : Noticing(i, t)'
    <2>1. ~ EndOfRange(u)
      <3>1. Left(u) \in Int /\ call[u].count \in Nat
        BY LimitNat, SMT DEF TypeOK, Calls, Left
      <3>2. QED
        BY <1>4, <3>1, SMT DEF Overshot, SkipWordEnd, Grant, EndOfRange
    <2>2. \A t \in Threads : t # u => call'[t] = call[t]
      BY <1>4, SMT DEF Overshot, SkipWordEnd, Grant, Goto, Return, TypeOK
    <2>3. QED
      BY <1>1, <1>4, <2>1, <2>2 DEF Noticing, Overshot, SkipWordEnd, Grant, atomics, history
  <1>5. ASSUME NEW u \in Threads, LastPart(u) \/ LastRange(u)
        PROVE  \E t \in Threads : Noticing(i, t)'
    <2>1. /\ UNCHANGED <<nonces, epoch>>
          /\ drained' = drained \cup {<<call[u].index, call[u].epoch>>}
      BY <1>5 DEF LastPart, LastRange
    <2>2. PICK t \in Threads : Noticing(i, t)
      BY <2>1 DEF ExhaustionPauses, Noticing
    <2>3. t # u
      BY <2>1, <2>2 DEF Noticing
    <2>4. call'[t] = call[t]
      BY <1>5, <2>3, SMT DEF LastPart, LastRange, Return, TypeOK
    <2>5. Noticing(i, t)'
      BY <2>1, <2>2, <2>4 DEF Noticing, Testing, EndOfRange, Left
    <2>6. QED
      BY <2>5
  <1>6. ASSUME NEW j \in Indexes, Reset(j)
        PROVE  \E t \in Threads : Noticing(i, t)'
    <2>1. i # j
      BY <1>6, LimitNat, SMT DEF Reset, TypeOK
    <2>2. nonces'[i] = nonces[i] /\ epoch'[i] = epoch[i] /\ call' = call /\ drained' = drained
      BY <1>6, <2>1, SMT DEF Reset, TypeOK
    <2>3. PICK t \in Threads : Noticing(i, t)
      BY <2>2 DEF ExhaustionPauses, Noticing
    <2>4. Noticing(i, t)'
      BY <2>2, <2>3 DEF Noticing, Testing, EndOfRange, Left
    <2>5. QED
      BY <2>4
  <1>7. CASE UNCHANGED <<nonces, epoch, drained, call>>
    BY <1>1, <1>7
  <1>8. QED
    BY <1>2, <1>3, <1>4, <1>5, <1>6, <1>7
       DEF Next, Control, NextStep, Advance, Pause, history, vars

\* A job whose nonces ran out has raised the pause flag, or is about to.
THEOREM ExhaustionNoticed == Spec => []ExhaustionPauses
  <1>1. Init => ExhaustionPauses
    BY LimitNat, SMT DEF Init, ExhaustionPauses, Indexes
  <1>2. QED
    BY <1>1, Inductive, PausesStep, PTL DEF Spec

=============================================================================
