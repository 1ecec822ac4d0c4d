---------------------------- MODULE MemoryProofs ----------------------------
(***************************************************************************)
(* MemoryPool for any number of users, nodes and sizes: the scratchpads    *)
(* that come from one pool are apart.  RandomXMemory for any sizes: every  *)
(* item is initialised and every access is inside.                         *)
(*                                                                         *)
(* The offset of a pool goes back to 0 when its count of users does, so    *)
(* the count must be the number of users and the offset behind all of them *)
(* (Counted): with that the invariant is inductive.  For the dataset the   *)
(* invariant says that what is not written yet is in a range of the thread *)
(* it belongs to, and that ranges consist of whole batches (FillInv).      *)
(*                                                                         *)
(* LineReader for any readers, reads and sizes: lines are whole and no two *)
(* readers share a buffer.  A line is whole because what a reader keeps is *)
(* its beginning (LinesKept) and what is parsed goes on from there         *)
(* (InputFits), and that lasts because every buffer has one owner          *)
(* (BuffersApart).  Hashrate for any ring and windows: the search through  *)
(* the ring returns the rate of the window.  The ring holds the last       *)
(* samples at their places (Kept), places not used yet are empty (Unused), *)
(* and times grow (InOrder), so that the samples before a window are those *)
(* from some place of the ring on.                                         *)
(***************************************************************************)
EXTENDS MemoryPool, RandomXMemory, LineReader, Hashrate, FiniteSetTheorems, SequenceTheorems,
        WellFoundedInduction, TLAPS

Pool == [offset : Nat, align : 0 .. Alignment - 1, refs : Nat,
         huge : BOOLEAN, exists : BOOLEAN]

Memory == [kind : {"none", "own", "pool"}, node : Nodes \cup {None.node},
           from : Nat, size : Nat]

UsersOf(f, n) == {u \in Users : f[u].kind = "pool" /\ f[u].node = n}

\* Pool p counts its users S, whose memory f is before its offset.
Counted(p, S, f) ==
    /\ p \in Pool /\ (~p.exists => S = {})
    /\ p.refs = Cardinality(S)
    /\ p.offset + p.align <= PoolSize + Alignment
    /\ \A u \in S : /\ p.align <= f[u].from
                    /\ f[u].from + f[u].size <= p.offset + p.align

Apart(S, f) ==
    \A u, v \in S : u # v => \/ f[u].from + f[u].size <= f[v].from
                             \/ f[v].from + f[v].size <= f[u].from

Sound(p, S, f) == Counted(p, S, f) /\ Apart(S, f)

PoolInv ==
    /\ pool \in [Nodes -> Pool] /\ mem \in [Users -> Memory]
    /\ \A n \in Nodes : Sound(pool[n], UsersOf(mem, n), mem)

LEMMA PoolInitially == PoolInit => PoolInv
  <1> SUFFICES ASSUME PoolInit PROVE PoolInv
    OBVIOUS
  <1>1. NoPool \in Pool /\ ~NoPool.exists /\ NoPool.refs = 0
        /\ NoPool.offset + NoPool.align <= PoolSize + Alignment
    BY PoolAssumption DEF NoPool, Pool, PoolAssumption
  <1>2. None \in Memory /\ None.kind = "none"
    BY DEF None, Memory
  <1>3. \A n \in Nodes : UsersOf(mem, n) = {} /\ pool[n] = NoPool
    BY <1>2 DEF PoolInit, UsersOf
  <1>4. \A n \in Nodes : Sound(pool[n], UsersOf(mem, n), mem)
    BY <1>1, <1>3, FS_EmptySet DEF Sound, Counted, Apart
  <1> QED
    BY <1>1, <1>2, <1>4 DEF PoolInit, PoolInv

LEMMA UsersFinite == \A f, n : IsFiniteSet(UsersOf(f, n))
  BY PoolAssumption, FS_Subset DEF UsersOf, PoolAssumption

\* A step changes one pool and the memory of one user.
LEMMA OneChange ==
    ASSUME PoolInv, NEW n \in Nodes, NEW u \in Users, NEW p \in Pool, NEW m \in Memory,
           pool' = [pool EXCEPT ![n] = p], mem' = [mem EXCEPT ![u] = m],
           mem[u].kind = "pool" => mem[u].node = n, m.kind = "pool" => m.node = n,
           Sound(p, UsersOf(mem', n), mem')
    PROVE  PoolInv'
  <1>1. pool' \in [Nodes -> Pool] /\ mem' \in [Users -> Memory]
    BY DEF PoolInv
  <1>2. ASSUME NEW k \in Nodes \ {n} PROVE Sound(pool'[k], UsersOf(mem', k), mem')
    <2>1. UsersOf(mem', k) = UsersOf(mem, k) /\ pool'[k] = pool[k]
      BY <1>2 DEF UsersOf, PoolInv
    <2>2. \A v \in UsersOf(mem, k) : mem'[v] = mem[v]
      BY <1>2 DEF UsersOf, PoolInv
    <2>3. Sound(pool[k], UsersOf(mem, k), mem)
      BY <1>2 DEF PoolInv
    <2> QED
      BY <2>1, <2>2, <2>3 DEF Sound, Counted, Apart
  <1>3. pool'[n] = p
    BY DEF PoolInv
  <1> QED
    BY <1>1, <1>2, <1>3 DEF PoolInv

\* The pool that is asked, made if need be, is sound.
LEMMA AskedPool ==
    ASSUME PoolInv, NEW n \in Nodes, NEW p \in GetOrCreate(n)
    PROVE  Sound(p, UsersOf(mem, n), mem) /\ p.exists = TRUE
  <1>1. Sound(pool[n], UsersOf(mem, n), mem)
    BY DEF PoolInv
  <1>2. CASE pool[n].exists
    <2>1. p = pool[n] /\ pool[n] \in Pool
      BY <1>2 DEF GetOrCreate, PoolInv
    <2> QED
      BY <1>1, <1>2, <2>1 DEF Pool
  <1>3. CASE ~pool[n].exists
    <2>1. PICK a \in 0 .. Alignment - 1, h \in {HugePages, FALSE} :
            p = [offset |-> 0, align |-> a, refs |-> 0, huge |-> h, exists |-> TRUE]
      BY <1>3 DEF GetOrCreate
    <2>2. h \in BOOLEAN
      BY PoolAssumption, Zenon DEF PoolAssumption
    <2>3. 0 \in Nat /\ a \in Nat /\ 0 + a <= PoolSize + Alignment
      BY PoolAssumption DEF PoolAssumption
    <2>4. p \in Pool /\ p.exists = TRUE /\ p.refs = 0
          /\ p.offset + p.align <= PoolSize + Alignment
      BY <2>1, <2>2, <2>3 DEF Pool
    <2>5. UsersOf(mem, n) = {}
      BY <1>1, <1>3 DEF Sound, Counted
    <2> QED
      BY <2>4, <2>5, FS_EmptySet DEF Sound, Counted, Apart
  <1> QED
    BY <1>2, <1>3

\* Memory that is taken from a pool is behind that of the other users.
LEMMA Taken ==
    ASSUME PoolInv, NEW n \in Nodes, NEW u \in Users, mem[u].kind = "none",
           NEW p, Sound(p, UsersOf(mem, n), mem), p.exists = TRUE,
           NEW size \in Nat, Fits(p, size),
           NEW m \in Memory, mem' = [mem EXCEPT ![u] = m], m.kind = "pool", m.node = n,
           m.from = p.align + p.offset, m.size = size,
           NEW q, q = [p EXCEPT !.offset = @ + size, !.refs = @ + 1]
    PROVE  Sound(q, UsersOf(mem', n), mem') /\ q \in Pool
  <1> DEFINE S == UsersOf(mem, n)
  <1>0. /\ IsFiniteSet(S) /\ u \notin S /\ UsersOf(mem', n) = S \cup {u}
        /\ mem'[u] = m
        /\ \A v \in S : mem'[v] = mem[v] /\ mem[v].from \in Nat /\ mem[v].size \in Nat
    <2>1. mem \in [Users -> Memory]
      BY DEF PoolInv
    <2>2. IsFiniteSet(S)
      BY UsersFinite
    <2>3. u \notin S /\ S \subseteq Users
      BY DEF UsersOf
    <2>4. UsersOf(mem', n) = S \cup {u} /\ mem'[u] = m /\ \A v \in S : mem'[v] = mem[v]
      BY <2>1, <2>3 DEF UsersOf
    <2>5. \A v \in S : mem[v].from \in Nat /\ mem[v].size \in Nat
      BY <2>1, <2>3 DEF Memory
    <2> QED
      BY <2>2, <2>3, <2>4, <2>5
  <1> HIDE DEF S
  <1>1. p \in Pool /\ p.offset \in Nat /\ p.align \in Nat /\ p.refs \in Nat
    BY DEF Sound, Counted, Pool
  <1>2. /\ q \in Pool /\ q.offset = p.offset + size /\ q.refs = p.refs + 1
        /\ q.align = p.align /\ q.exists = TRUE
    <2>1. PICK o \in Nat, r \in Nat : o = p.offset + size /\ r = p.refs + 1
      BY <1>1
    <2>2. q = [p EXCEPT !.offset = o, !.refs = r]
      BY <2>1, Zenon
    <2>3. /\ q \in Pool /\ q.offset = o /\ q.refs = r /\ q.align = p.align
          /\ q.exists = p.exists
      BY <1>1, <2>2 DEF Pool
    <2> QED
      BY <2>1, <2>3, Zenon
  <1>3. /\ p.refs = Cardinality(S) /\ Apart(S, mem)
        /\ \A v \in S : /\ p.align <= mem[v].from
                        /\ mem[v].from + mem[v].size <= p.offset + p.align
    BY Zenon DEF Sound, Counted, S
  <1>4. q.refs = Cardinality(S \cup {u})
    <2>1. Cardinality(S \cup {u}) = Cardinality(S) + 1
      BY <1>0, FS_AddElement
    <2> QED
      BY <1>2, <1>3, <2>1
  <1>5. q.offset + q.align <= PoolSize + Alignment
    BY <1>1, <1>2, PoolAssumption DEF Fits, PoolAssumption
  <1>6. \A v \in S \cup {u} : /\ q.align <= mem'[v].from
                             /\ mem'[v].from + mem'[v].size <= q.offset + q.align
    BY <1>0, <1>1, <1>2, <1>3
  <1>7. Apart(S \cup {u}, mem')
    BY <1>0, <1>1, <1>3 DEF Apart
  <1> QED
    BY <1>0, <1>2, <1>4, <1>5, <1>6, <1>7 DEF Sound, Counted

\* A user leaves the pool.
LEMMA Left ==
    ASSUME NEW S, IsFiniteSet(S), NEW p, NEW f, Sound(p, S, f), NEW u \in S,
           NEW g, \A v \in S \ {u} : g[v] = f[v]
    PROVE  Sound(Released(p), S \ {u}, g) /\ Released(p) \in Pool
  <1>1. p \in Pool /\ p.offset \in Nat /\ p.align \in Nat /\ p.refs \in Nat
    BY DEF Sound, Counted, Pool
  <1>2. p.refs = Cardinality(S) /\ p.refs > 0
    <2>1. Cardinality(S) # 0
      BY FS_EmptySet
    <2> QED
      BY <1>1, <2>1 DEF Sound, Counted
  <1>3. /\ Released(p).refs = p.refs - 1
        /\ Released(p).offset = IF p.refs - 1 = 0 THEN 0 ELSE p.offset
        /\ Released(p).align = p.align /\ Released(p).exists = p.exists
        /\ Released(p) \in Pool
    <2>1. p.refs - 1 \in Nat
      BY <1>1, <1>2
    <2>2. PICK o \in Nat : o = IF p.refs - 1 = 0 THEN 0 ELSE p.offset
      BY <1>1
    <2>3. Released(p) = [p EXCEPT !.refs = p.refs - 1, !.offset = o]
      BY <1>2, <2>2 DEF Released
    <2> QED
      BY <1>1, <2>1, <2>2, <2>3 DEF Pool
  <1>4. Released(p).refs = Cardinality(S \ {u}) /\ IsFiniteSet(S \ {u})
    BY <1>2, <1>3, FS_RemoveElement
  <1>5. CASE p.refs - 1 = 0
    <2>1. S \ {u} = {}
      BY <1>3, <1>4, <1>5, FS_EmptySet
    <2>2. Released(p).offset + Released(p).align <= PoolSize + Alignment
      BY <1>1, <1>3, <1>5, PoolAssumption DEF Pool, PoolAssumption
    <2> QED
      BY <1>3, <1>4, <2>1, <2>2 DEF Sound, Counted, Apart
  <1>6. CASE p.refs - 1 # 0
    <2>1. Counted(Released(p), S \ {u}, g)
      BY <1>3, <1>4, <1>6 DEF Sound, Counted
    <2>2. Apart(S \ {u}, g)
      BY DEF Sound, Apart
    <2> QED
      BY <1>3, <2>1, <2>2 DEF Sound
  <1> QED
    BY <1>5, <1>6

LEMMA Allocating ==
    ASSUME PoolInv, NEW u \in Users, NEW n \in Nodes, NEW size \in Sizes,
           AllocateMemory(u, n, size)
    PROVE  PoolInv'
  <1> DEFINE Own == [kind |-> "own", node |-> n, from |-> 0, size |-> size]
             S == UsersOf(mem, n)
  <1>1. PICK p \in GetOrCreate(n) :
          \/ mem' = [mem EXCEPT ![u] = Own] /\ pool' = [pool EXCEPT ![n] = p]
          \/ /\ Fits(p, size)
             /\ mem' = [mem EXCEPT ![u] =
                  [kind |-> "pool", node |-> n, from |-> p.align + p.offset, size |-> size]]
             /\ pool' = [pool EXCEPT ![n] = [p EXCEPT !.offset = @ + size, !.refs = @ + 1]]
    BY DEF AllocateMemory
  <1>2. Sound(p, S, mem) /\ p.exists = TRUE /\ p \in Pool
    BY AskedPool DEF Sound, Counted
  <1>3. mem[u].kind = "none" /\ u \notin S /\ S \subseteq Users
    BY DEF AllocateMemory, None, UsersOf
  <1>4. size \in Nat
    BY PoolAssumption DEF PoolAssumption
  <1>5. mem \in [Users -> Memory]
    BY DEF PoolInv
  <1>6. CASE mem' = [mem EXCEPT ![u] = Own] /\ pool' = [pool EXCEPT ![n] = p]
    <2>1. Own \in Memory /\ Own.kind = "own"
      BY <1>4 DEF Memory
    <2>2. UsersOf(mem', n) = S /\ \A v \in S : mem'[v] = mem[v]
      BY <1>3, <1>5, <1>6, <2>1 DEF UsersOf
    <2>3. Sound(p, UsersOf(mem', n), mem')
      BY <1>2, <2>2 DEF Sound, Counted, Apart
    <2> HIDE DEF Own
    <2> QED
      BY <1>2, <1>3, <1>6, <2>1, <2>3, OneChange
  <1>7. CASE ~(mem' = [mem EXCEPT ![u] = Own] /\ pool' = [pool EXCEPT ![n] = p])
    <2> DEFINE m == [kind |-> "pool", node |-> n, from |-> p.align + p.offset, size |-> size]
               q == [p EXCEPT !.offset = @ + size, !.refs = @ + 1]
    <2>1. p.align + p.offset \in Nat
      BY <1>2 DEF Pool
    <2>2. m \in Memory /\ m.kind = "pool" /\ m.node = n
          /\ m.from = p.align + p.offset /\ m.size = size
      BY <1>4, <2>1 DEF Memory
    <2>3. mem' = [mem EXCEPT ![u] = m] /\ pool' = [pool EXCEPT ![n] = q] /\ Fits(p, size)
      BY <1>1, <1>7
    <2>4. q = [p EXCEPT !.offset = @ + size, !.refs = @ + 1]
      OBVIOUS
    <2> HIDE DEF m, q
    <2>5. Sound(q, UsersOf(mem', n), mem') /\ q \in Pool
      BY <1>2, <1>3, <1>4, <2>2, <2>3, <2>4, Taken
    <2> QED
      BY <1>3, <2>2, <2>3, <2>5, OneChange
  <1> QED
    BY <1>6, <1>7

LEMMA Freeing ==
    ASSUME PoolInv, NEW u \in Users, FreeMemory(u)
    PROVE  PoolInv'
  <1>0. None \in Memory /\ None.kind = "none"
    BY DEF None, Memory
  <1>1. mem \in [Users -> Memory] /\ mem' = [mem EXCEPT ![u] = None]
    BY DEF PoolInv, FreeMemory
  <1>2. CASE mem[u].kind = "pool"
    <2>1. CASE mem[u].node \in Nodes
      <3> DEFINE n == mem[u].node
      <3>1. pool' = [pool EXCEPT ![n] = Released(pool[n])]
        BY <1>2 DEF FreeMemory
      <3>2. u \in UsersOf(mem, n) /\ Sound(pool[n], UsersOf(mem, n), mem)
        BY <1>2, <2>1 DEF UsersOf, PoolInv
      <3>3. /\ UsersOf(mem', n) = UsersOf(mem, n) \ {u}
            /\ \A v \in UsersOf(mem, n) \ {u} : mem'[v] = mem[v]
        BY <1>0, <1>1 DEF UsersOf
      <3>4. Sound(Released(pool[n]), UsersOf(mem', n), mem') /\ Released(pool[n]) \in Pool
        BY <3>2, <3>3, UsersFinite, Left
      <3> QED
        BY <1>0, <1>1, <1>2, <2>1, <3>1, <3>4, OneChange
    <2>2. CASE mem[u].node \notin Nodes
      <3>1. pool' = pool
        BY <1>2, <2>2 DEF FreeMemory, PoolInv
      <3>2. \A n \in Nodes : /\ UsersOf(mem', n) = UsersOf(mem, n)
                             /\ \A v \in UsersOf(mem, n) : mem'[v] = mem[v]
        BY <1>0, <1>1, <2>2 DEF UsersOf
      <3>3. \A n \in Nodes : Sound(pool'[n], UsersOf(mem', n), mem')
        BY <3>1, <3>2 DEF PoolInv, Sound, Counted, Apart
      <3> QED
        BY <1>0, <1>1, <3>1, <3>3 DEF PoolInv
    <2> QED
      BY <2>1, <2>2
  <1>3. CASE mem[u].kind # "pool"
    <2>1. pool' = pool
      BY <1>3 DEF FreeMemory
    <2>2. \A n \in Nodes : /\ UsersOf(mem', n) = UsersOf(mem, n)
                           /\ \A v \in UsersOf(mem, n) : mem'[v] = mem[v]
      BY <1>0, <1>1, <1>3 DEF UsersOf
    <2>3. \A n \in Nodes : Sound(pool'[n], UsersOf(mem', n), mem')
      BY <2>1, <2>2 DEF PoolInv, Sound, Counted, Apart
    <2> QED
      BY <1>0, <1>1, <2>1, <2>3 DEF PoolInv
  <1> QED
    BY <1>2, <1>3

LEMMA PoolStep == PoolInv /\ [PoolNext]_poolVars => PoolInv'
  <1> SUFFICES ASSUME PoolInv, [PoolNext]_poolVars PROVE PoolInv'
    OBVIOUS
  <1>1. CASE PoolNext
    BY <1>1, Allocating, Freeing DEF PoolNext
  <1>2. CASE UNCHANGED poolVars
    BY <1>2 DEF poolVars, PoolInv
  <1> QED
    BY <1>1, <1>2

\* The scratchpads of one pool are apart and inside it, in whatever order their users
\* come and go (MemoryPool::get and release).
THEOREM PadsApart == PoolSpec => []ScratchpadsApart
  <1>1. ASSUME PoolInv PROVE ScratchpadsApart
    <2>1. ASSUME NEW n \in Nodes, NEW u \in PoolUsers(n)
          PROVE  mem[u].from + mem[u].size <= PoolSize + Alignment
      <3>1. mem[u] \in Memory /\ pool[n] \in Pool /\ Counted(pool[n], PoolUsers(n), mem)
        BY <1>1 DEF PoolInv, PoolUsers, UsersOf, Sound
      <3> QED
        BY <2>1, <3>1, PoolAssumption DEF Counted, Memory, Pool, PoolAssumption
    <2>2. \A n \in Nodes : Apart(PoolUsers(n), mem)
      BY <1>1 DEF PoolInv, PoolUsers, UsersOf, Sound
    <2> QED
      BY <2>1, <2>2 DEF ScratchpadsApart, Apart
  <1> QED
    BY <1>1, PoolInitially, PoolStep, PTL DEF PoolSpec

-----------------------------------------------------------------------------
\* Integer division, which shares and masks are made of.
LEMMA Division ==
    ASSUME NEW x \in Nat, NEW k \in Nat \ {0}
    PROVE  /\ x \div k \in Nat /\ x % k \in Nat /\ x % k < k
           /\ (x \div k) * k \in Nat /\ x = (x \div k) * k + (x % k)
           /\ (x \div k) * k <= x /\ x < (x \div k) * k + k
  <1>1. x \in Int /\ k \in Int /\ k > 0
    OBVIOUS
  <1>2. x \div k \in Int /\ x % k \in 0 .. k - 1 /\ x = (x \div k) * k + (x % k)
    BY <1>1
  <1>3. x \div k >= 0
    BY <1>1
  <1>4. (x \div k) * k \in Int /\ (x \div k) * k >= 0
    BY <1>1, <1>2, <1>3
  <1> QED
    BY <1>1, <1>2, <1>3, <1>4

LEMMA Factors ==
    ASSUME NEW m \in Int, NEW n \in Int, NEW k \in Nat
    PROVE  /\ m <= n => m * k <= n * k
           /\ m * k < n * k => m < n
  OBVIOUS

\* The same for any number, with the uniqueness of the remainder.
LEMMA IntDivision ==
    ASSUME NEW x \in Int, NEW k \in Nat \ {0}
    PROVE  /\ x \div k \in Int /\ x % k \in 0 .. k - 1
           /\ x = (x \div k) * k + (x % k)
  <1>1. k \in Int /\ k > 0
    OBVIOUS
  <1> QED
    BY <1>1
\* The remainder is the only one.
LEMMA Residue ==
    ASSUME NEW k \in Nat \ {0}, NEW q \in Int, NEW r \in 0 .. k - 1
    PROVE  (q * k + r) % k = r
  <1>1. q * k \in Int /\ q * k + r \in Int
    OBVIOUS
  <1>2. PICK p \in Int, s \in 0 .. k - 1 : q * k + r = p * k + s /\ (q * k + r) % k = s
    BY <1>1, IntDivision
  <1>3. p * k \in Int /\ (p + 1) * k = p * k + k /\ (q + 1) * k = q * k + k
    OBVIOUS
  <1>4. q * k < (p + 1) * k /\ p * k < (q + 1) * k
    BY <1>1, <1>2, <1>3
  <1>5. q < p + 1 /\ p < q + 1
    BY <1>4, Factors
  <1>6. p = q
    BY <1>5
  <1> QED
    BY <1>1, <1>2, <1>6

LEMMA Wraps ==
    ASSUME NEW x \in Int, NEW k \in Nat \ {0}
    PROVE  (x + k) % k = x % k
  <1>1. PICK q \in Int, r \in 0 .. k - 1 : x = q * k + r /\ x % k = r
    BY IntDivision
  <1>2. x + k = (q + 1) * k + r
    BY <1>1
  <1> QED
    BY <1>1, <1>2, Residue

LEMMA Small ==
    ASSUME NEW k \in Nat \ {0}, NEW r \in 0 .. k - 1
    PROVE r % k = r
  <1>1. 0 * k + r = r
    OBVIOUS
  <1> QED
    BY <1>1, Residue

LEMMA Shifted ==
    ASSUME NEW x \in Int, NEW y \in Int, NEW k \in Nat \ {0}
    PROVE  ((x % k) + y) % k = (x + y) % k
  <1>1. PICK q \in Int, r \in 0 .. k - 1 : x = q * k + r /\ x % k = r
    BY IntDivision
  <1>2. r + y \in Int
    OBVIOUS
  <1>3. PICK p \in Int, s \in 0 .. k - 1 : r + y = p * k + s /\ (r + y) % k = s
    BY <1>2, IntDivision
  <1>4. x + y = (q + p) * k + s
    BY <1>1, <1>3
  <1>5. ((q + p) * k + s) % k = s
    <2>1. q + p \in Int
      OBVIOUS
    <2> QED
      BY <2>1, Residue
  <1> QED
    BY <1>1, <1>3, <1>4, <1>5

LEMMA Distinct ==
    ASSUME NEW a \in Int, NEW b \in Int, NEW k \in Nat \ {0}, a < b, b < a + k
    PROVE  a % k # b % k
  <1> SUFFICES ASSUME a % k = b % k PROVE FALSE
    OBVIOUS
  <1>1. PICK q \in Int, r \in 0 .. k - 1 : a = q * k + r /\ a % k = r
    BY IntDivision
  <1>2. PICK p \in Int : b = p * k + r
    BY <1>1, IntDivision
  <1>3. q * k \in Int /\ p * k \in Int /\ (q + 1) * k = q * k + k
    OBVIOUS
  <1>4. q * k < p * k /\ p * k < (q + 1) * k
    BY <1>1, <1>2, <1>3
  <1>5. q < p /\ p < q + 1
    BY <1>4, Factors
  <1> QED
    BY <1>5

\* Comparison with a quotient needs no division.
LEMMA Quotient ==
    ASSUME NEW x \in Nat, NEW k \in Nat \ {0}, NEW n \in Nat
    PROVE  /\ x < (n + 1) * k => x \div k <= n
           /\ n * k <= x => n <= x \div k
  <1> DEFINE q == x \div k
  <1>1. q \in Nat /\ q * k \in Nat /\ q * k <= x /\ x < (q + 1) * k
    BY Division
  <1>2. ASSUME x < (n + 1) * k PROVE q <= n
    <2>1. q * k < (n + 1) * k
      BY <1>1, <1>2
    <2>2. q < n + 1
      BY <1>1, <2>1, Factors
    <2> QED
      BY <1>1, <2>2
  <1>3. ASSUME n * k <= x PROVE n <= q
    <2>1. n * k < (q + 1) * k
      BY <1>1, <1>3
    <2>2. n < q + 1
      BY <1>1, <2>1, Factors
    <2> QED
      BY <1>1, <2>2
  <1> QED
    BY <1>2, <1>3

\* What a mask leaves lies inside, with all of its line.
LEMMA MaskInside ==
    ASSUME NEW a \in Nat, NEW size \in Nat \ {0}, NEW align \in Nat \ {0},
           size % align = 0
    PROVE  /\ Masked(a, size, align) \in Nat
           /\ Masked(a, size, align) + align <= size
  <1> DEFINE x == a % size
             n == x \div align
             m == size \div align
  <1>1. x \in Nat /\ x < size
    BY Division
  <1>2. n \in Nat /\ n * align \in Nat /\ n * align <= x
    BY <1>1, Division
  <1>3. m \in Nat /\ size = m * align
    BY Division
  <1>4. n * align < m * align
    BY <1>1, <1>2, <1>3
  <1>5. n + 1 <= m
    BY <1>2, <1>3, <1>4, Factors
  <1>6. (n + 1) * align <= m * align
    BY <1>2, <1>3, <1>5, Factors
  <1>7. (n + 1) * align = n * align + align
    BY <1>2
  <1> QED
    BY <1>2, <1>3, <1>6, <1>7 DEF Masked

\* Thread t begins with item First(t).
First(t) == (Count * t) \div Threads

LEMMA Shares ==
    /\ Count \in Nat \ {0} /\ Threads \in Nat \ {0}
    /\ \A t \in 0 .. Threads - 1 :
         /\ First(t) \in Nat /\ First(t + 1) \in Nat
         /\ First(t) + 5 <= First(t + 1) /\ First(t + 1) <= Count
    /\ \A i \in 0 .. Count - 1 : \E t \in 0 .. Threads - 1 :
         First(t) <= i /\ i < First(t + 1)
  <1>1. Count \in Nat \ {0} /\ Threads \in Nat \ {0} /\ Count \div Threads >= 5
    BY MemoryAssumption DEF MemoryAssumption, Count
  <1>2. ASSUME NEW t \in 0 .. Threads - 1
        PROVE  /\ First(t) \in Nat /\ First(t + 1) \in Nat
               /\ First(t) + 5 <= First(t + 1) /\ First(t + 1) <= Count
    <2> DEFINE a == First(t)
               b == First(t + 1)
    <2>1. Count * t \in Nat /\ Count * (t + 1) \in Nat
          /\ Count * (t + 1) = Count * t + Count
      BY <1>1
    <2>2. a \in Nat /\ b \in Nat
      BY <1>1, <2>1, Division DEF First
    <2>3. a * Threads <= Count * t
      BY <1>1, <2>1, Division DEF First
    <2>4. 5 * Threads <= Count
      <3>1. (Count \div Threads) * Threads <= Count
        BY <1>1, Division
      <3>2. Count \div Threads \in Nat
        BY <1>1, Division
      <3>3. 5 * Threads <= (Count \div Threads) * Threads
        BY <1>1, <3>2, Factors
      <3> QED
        BY <1>1, <3>1, <3>2, <3>3
    <2>5. (a + 5) * Threads <= Count * (t + 1)
      <3>1. (a + 5) * Threads = a * Threads + 5 * Threads
        BY <1>1, <2>2
      <3> QED
        BY <1>1, <2>1, <2>2, <2>3, <2>4, <3>1
    <2>6. a + 5 <= b
      BY <1>1, <2>1, <2>2, <2>5, Quotient DEF First
    <2>7. b <= Count
      <3>1. t + 1 \in Int /\ t + 1 <= Threads /\ (t + 1) * Count <= Threads * Count
        BY <1>1, Factors
      <3>2. Count * (t + 1) < (Count + 1) * Threads
        BY <1>1, <3>1
      <3> QED
        BY <1>1, <2>1, <3>2, Quotient DEF First
    <2> QED
      BY <2>2, <2>6, <2>7
  <1>3. ASSUME NEW i \in 0 .. Count - 1
        PROVE  \E t \in 0 .. Threads - 1 : First(t) <= i /\ i < First(t + 1)
    <2> DEFINE x == (i + 1) * Threads - 1
               t == x \div Count
    <2>1. x \in Nat
      <3>1. i + 1 \in Nat /\ 1 * Threads <= (i + 1) * Threads
        BY <1>1, Factors
      <3> QED
        BY <1>1, <3>1
    <2>2. t \in Nat /\ t * Count <= x /\ x < (t + 1) * Count
      BY <1>1, <2>1, Division
    <2>3. t < Threads
      <3>1. i + 1 \in Int /\ (i + 1) * Threads <= Count * Threads
        BY <1>1, Factors
      <3>2. t * Count < Threads * Count
        BY <1>1, <2>1, <2>2, <3>1
      <3> QED
        BY <1>1, <2>2, <3>2, Factors
    <2>4. First(t) <= i
      <3>1. Count * t \in Nat /\ Count * t < (i + 1) * Threads
        BY <1>1, <2>1, <2>2
      <3> QED
        BY <1>1, <3>1, Quotient DEF First
    <2>5. i + 1 <= First(t + 1)
      <3>1. Count * (t + 1) \in Nat /\ (i + 1) * Threads <= Count * (t + 1)
        BY <1>1, <2>1, <2>2
      <3> QED
        BY <1>1, <3>1, Quotient DEF First
    <2>6. First(t + 1) \in Nat /\ t \in 0 .. Threads - 1
      <3>1. t \in 0 .. Threads - 1
        BY <1>1, <2>2, <2>3
      <3> QED
        BY <1>2, <3>1
    <2>7. i < First(t + 1)
      BY <2>5, <2>6
    <2> QED
      BY <2>4, <2>6, <2>7
  <1> QED
    BY <1>1, <1>2, <1>3

-----------------------------------------------------------------------------
\* Item i is in a range that thread t has still to initialise.
Remaining(t, i) == \E k \in 1 .. Len(todo[t]) : todo[t][k][1] <= i /\ i < todo[t][k][2]

\* A range is inside the dataset and consists of whole batches.
Whole(range) ==
    /\ 0 <= range[1] /\ range[2] <= Count
    /\ range[1] < range[2] /\ (range[2] - range[1]) % Batch = 0

FillInv ==
    /\ todo \in [0 .. Threads - 1 -> Seq(Int \X Int)]
    /\ written \subseteq 0 .. Count - 1
    /\ \A t \in 0 .. Threads - 1 : \A k \in 1 .. Len(todo[t]) : Whole(todo[t][k])
    /\ \A t \in 0 .. Threads - 1 : \A i \in First(t) .. First(t + 1) - 1 :
         i \in written \/ Remaining(t, i)
    /\ stage # "init" => written = 0 .. Count - 1

\* ReadDataset stores to the lines that LoadLines has mixed in.
MachineInv ==
    /\ ma \in 0 .. BaseItems - 1 /\ mx \in Nat /\ offset \in 0 .. ExtraItems
    /\ item \in -1 .. Count - 1 /\ (stage = "init" => item = -1)
    /\ sp0 \in Nat /\ sp1 \in Nat
    /\ stage = "code" => sp0 + LineWords <= L3 /\ sp1 + LineWords <= L3
    /\ touched \subseteq 0 .. L3 - 1

HandedOut ==
    /\ next \in Nat /\ DatasetPages + CachePages <= next
    /\ scratchpads \subseteq DatasetPages + CachePages .. Capacity - 1

MemoryInv == FillInv /\ MachineInv /\ HandedOut

LEMMA PagesNatural == DatasetPages \in Nat /\ CachePages \in Nat /\ Capacity \in Nat
  BY MemoryAssumption DEF MemoryAssumption

LEMMA Dimensions ==
    /\ BaseItems \in Nat \ {0} /\ ExtraItems \in Nat /\ Count = BaseItems + ExtraItems
    /\ LineWords \in Nat \ {0} /\ L3 \in Nat \ {0} /\ L3 % LineWords = 0
    /\ \A size \in {L1, L2, L3} : size \in Nat \ {0} /\ size <= L3
    /\ Addresses \subseteq Nat
  BY MemoryAssumption DEF MemoryAssumption, Count

\* Two ranges, the second of which may overlap the first, make up a share.
LEMMA RangesCover ==
    ASSUME NEW a \in Nat, NEW n \in Nat, n >= 5, a + n <= Count
    PROVE  /\ Ranges(a, n) \in Seq(Int \X Int)
           /\ \A k \in 1 .. Len(Ranges(a, n)) : Whole(Ranges(a, n)[k])
           /\ \A i \in a .. a + n - 1 : \E k \in 1 .. Len(Ranges(a, n)) :
                Ranges(a, n)[k][1] <= i /\ i < Ranges(a, n)[k][2]
  <1>1. Batch \in {1, 5} /\ Count \in Nat
    BY Shares, MemoryAssumption DEF MemoryAssumption
  <1>2. CASE Batch = 5 /\ n % 5 # 0
    <2> DEFINE one == <<a, a + n - (n % 5)>>
               two == <<a + n - 5, a + n>>
    <2>1. n % 5 \in 1 .. 4
      BY <1>2
    <2>2. Ranges(a, n) = <<one, two>>
      BY <1>2 DEF Ranges
    <2>3. one \in Int \X Int /\ two \in Int \X Int
      BY <2>1
    <2>4. Whole(one)
      BY <1>2, <2>1, <1>1 DEF Whole
    <2>5. Whole(two)
      BY <1>2, <1>1 DEF Whole
    <2>6. ASSUME NEW i \in a .. a + n - 1
          PROVE  (one[1] <= i /\ i < one[2]) \/ (two[1] <= i /\ i < two[2])
      BY <2>1
    <2> HIDE DEF one, two
    <2>7. <<one, two>> \in Seq(Int \X Int) /\ Len(<<one, two>>) = 2
          /\ <<one, two>>[1] = one /\ <<one, two>>[2] = two
      BY <2>3
    <2> QED
      BY <2>2, <2>4, <2>5, <2>6, <2>7
  <1>3. CASE ~(Batch = 5 /\ n % 5 # 0)
    <2> DEFINE one == <<a, a + n>>
    <2>1. Ranges(a, n) = <<one>>
      BY <1>3 DEF Ranges
    <2>2. n % Batch = 0 /\ a + n - a = n
      BY <1>1, <1>3
    <2>3. Whole(one) /\ one \in Int \X Int
      BY <2>2, <1>1 DEF Whole
    <2>4. \A i \in a .. a + n - 1 : one[1] <= i /\ i < one[2]
      OBVIOUS
    <2> HIDE DEF one
    <2>5. <<one>> \in Seq(Int \X Int) /\ Len(<<one>>) = 1 /\ <<one>>[1] = one
      BY <2>3
    <2> QED
      BY <2>1, <2>3, <2>4, <2>5
  <1> QED
    BY <1>2, <1>3

LEMMA MemoryInitially == MemoryInit => MemoryInv
  <1> SUFFICES ASSUME MemoryInit PROVE MemoryInv
    OBVIOUS
  <1>1. ASSUME NEW t \in 0 .. Threads - 1
        PROVE  /\ todo[t] \in Seq(Int \X Int)
               /\ \A k \in 1 .. Len(todo[t]) : Whole(todo[t][k])
               /\ \A i \in First(t) .. First(t + 1) - 1 : Remaining(t, i)
    <2> DEFINE a == First(t)
               n == First(t + 1) - First(t)
    <2>1. a \in Nat /\ n \in Nat /\ n >= 5 /\ a + n <= Count /\ a + n = First(t + 1)
      BY Shares
    <2>2. todo[t] = Ranges(a, n)
      BY DEF MemoryInit, Share, First
    <2> HIDE DEF a, n
    <2>3. /\ Ranges(a, n) \in Seq(Int \X Int)
          /\ \A k \in 1 .. Len(Ranges(a, n)) : Whole(Ranges(a, n)[k])
          /\ \A i \in a .. a + n - 1 : \E k \in 1 .. Len(Ranges(a, n)) :
                Ranges(a, n)[k][1] <= i /\ i < Ranges(a, n)[k][2]
      BY <2>1, RangesCover
    <2>4. a .. a + n - 1 = First(t) .. First(t + 1) - 1
      BY <2>1 DEF a
    <2> QED
      BY <2>2, <2>3, <2>4 DEF Remaining
  <1>2. todo \in [0 .. Threads - 1 -> Seq(Int \X Int)]
    <2>1. todo = [t \in 0 .. Threads - 1 |-> todo[t]]
      BY DEF MemoryInit
    <2> QED
      BY <1>1, <2>1
  <1>3. written = {} /\ stage = "init"
    BY DEF MemoryInit
  <1>4. FillInv
    BY <1>1, <1>2, <1>3 DEF FillInv
  <1>5. MachineInv
    BY Dimensions DEF MemoryInit, MachineInv
  <1>6. HandedOut
    BY PagesNatural DEF MemoryInit, HandedOut
  <1> QED
    BY <1>4, <1>5, <1>6 DEF MemoryInv

\* A batch is written, and what is left of its range consists of whole batches.
LEMMA WriteItemsStep ==
    ASSUME FillInv, NEW t \in 0 .. Threads - 1, WriteItems(t)
    PROVE  FillInv'
  <1> DEFINE s == todo[t]
             from == s[1][1]
             to == s[1][2]
             rest == <<from + Batch, to>>
             new == IF from + Batch < to THEN <<rest>> \o Tail(s) ELSE Tail(s)
             batch == from .. from + Batch - 1
  <1>1. Batch \in {1, 5} /\ Count \in Nat
    BY Shares, MemoryAssumption DEF MemoryAssumption
  <1>2. s \in Seq(Int \X Int) /\ s # <<>> /\ Len(s) \in Nat \ {0}
    BY DEF FillInv, WriteItems
  <1>3. s[1] \in Int \X Int /\ from \in Int /\ to \in Int /\ Whole(s[1])
    BY <1>2 DEF FillInv
  <1>4. 0 <= from /\ to <= Count /\ from < to /\ (to - from) % Batch = 0
    BY <1>3 DEF Whole
  <1>5. from + Batch <= to
    BY <1>1, <1>3, <1>4
  <1>6. from + Batch < to => Whole(rest) /\ rest \in Int \X Int
    <2> SUFFICES ASSUME from + Batch < to PROVE Whole(rest) /\ rest \in Int \X Int
      OBVIOUS
    <2>1. (to - (from + Batch)) % Batch = 0
      BY <1>1, <1>3, <1>4
    <2> QED
      BY <2>1, <1>1, <1>3, <1>4 DEF Whole
  <1>7. todo' = [todo EXCEPT ![t] = new]
    BY DEF WriteItems
  <1>8. written' = written \cup batch
    <2>1. from + Batch - 1 = (from + Batch) - 1
      BY <1>1, <1>3
    <2> QED
      BY <2>1 DEF WriteItems
  <1>9. stage = "init" /\ stage' = "init"
    BY DEF WriteItems
  <1> HIDE DEF from, to, batch
  <1>10. batch \subseteq 0 .. Count - 1
    BY <1>1, <1>3, <1>4, <1>5 DEF batch
  <1>11. /\ Tail(s) \in Seq(Int \X Int) /\ Len(Tail(s)) = Len(s) - 1
         /\ \A k \in 1 .. Len(Tail(s)) : Tail(s)[k] = s[k + 1] /\ k + 1 \in 1 .. Len(s)
    BY <1>2
  <1> DEFINE Good(z) ==
        /\ z \in Seq(Int \X Int)
        /\ \A k \in 1 .. Len(z) : Whole(z[k])
        /\ \A i \in Int : \A k \in 1 .. Len(s) :
             s[k][1] <= i /\ i < s[k][2] =>
               i \in batch \/ \E m \in 1 .. Len(z) : z[m][1] <= i /\ i < z[m][2]
  <1>12. \A k \in 1 .. Len(s) : Whole(s[k])
    BY DEF FillInv
  <1>13. ASSUME from + Batch < to PROVE Good(new)
    <2> HIDE DEF rest, s
    <2>1. new = <<rest>> \o Tail(s)
      BY <1>13
    <2>2. /\ new \in Seq(Int \X Int) /\ Len(new) = Len(s) /\ new[1] = rest
          /\ \A k \in 2 .. Len(s) : new[k] = s[k]
      BY <1>2, <1>6, <1>11, <1>13, <2>1
    <2>3. \A k \in 1 .. Len(new) : Whole(new[k])
      BY <1>2, <1>6, <1>12, <1>13, <2>2
    <2>4. ASSUME NEW i \in Int, NEW k \in 1 .. Len(s),
                 s[k][1] <= i, i < s[k][2], i \notin batch
          PROVE  \E m \in 1 .. Len(new) : new[m][1] <= i /\ i < new[m][2]
      <3>1. CASE k = 1
        <4>1. from <= i /\ i < to
          BY <2>4, <3>1 DEF from, to
        <4>2. rest[1] <= i /\ i < rest[2]
          BY <2>4, <4>1, <1>1, <1>3 DEF batch, rest
        <4>3. 1 \in 1 .. Len(new) /\ new[1] = rest
          BY <1>2, <2>2
        <4> HIDE DEF new
        <4> QED
          BY <4>2, <4>3
      <3>2. CASE k # 1
        <4>1. k \in 2 .. Len(s) /\ k \in 1 .. Len(new) /\ new[k] = s[k]
          BY <2>2, <3>2
        <4> HIDE DEF new
        <4> QED
          BY <2>4, <4>1
      <3> QED
        BY <3>1, <3>2
    <2> HIDE DEF new
    <2> QED
      BY <2>2, <2>3, <2>4
  <1>14. ASSUME ~(from + Batch < to) PROVE Good(new)
    <2> HIDE DEF rest, s
    <2>1. new = Tail(s) /\ from + Batch = to
      BY <1>1, <1>3, <1>5, <1>14
    <2>2. ASSUME NEW i \in Int, NEW k \in 1 .. Len(s),
                 s[k][1] <= i, i < s[k][2], i \notin batch
          PROVE  \E m \in 1 .. Len(new) : new[m][1] <= i /\ i < new[m][2]
      <3>1. CASE k = 1
        BY <2>1, <2>2, <3>1, <1>1, <1>3 DEF batch, from, to
      <3>2. CASE k # 1
        <4>1. k - 1 \in 1 .. Len(Tail(s)) /\ (k - 1) + 1 = k
          BY <3>2, <1>2, <1>11
        <4>2. new[k - 1] = s[k] /\ k - 1 \in 1 .. Len(new)
          BY <4>1, <2>1, <1>11
        <4> QED
          BY <4>2, <2>2
      <3> QED
        BY <3>1, <3>2
    <2>3. new \in Seq(Int \X Int) /\ \A k \in 1 .. Len(new) : Whole(new[k])
      BY <2>1, <1>2, <1>11, <1>12
    <2> HIDE DEF new
    <2> QED
      BY <2>2, <2>3
  <1>15. Good(new)
    BY <1>13, <1>14
  <1> HIDE DEF new
  <1>16. todo'[t] = new /\ \A u \in 0 .. Threads - 1 : u # t => todo'[u] = todo[u]
    BY <1>7 DEF FillInv
  <1>17. todo' \in [0 .. Threads - 1 -> Seq(Int \X Int)]
    BY <1>7, <1>15 DEF FillInv
  <1>18. written' \subseteq 0 .. Count - 1
    BY <1>8, <1>10 DEF FillInv
  <1>19. \A u \in 0 .. Threads - 1 : \A k \in 1 .. Len(todo'[u]) : Whole(todo'[u][k])
    BY <1>15, <1>16 DEF FillInv
  <1>20. ASSUME NEW u \in 0 .. Threads - 1, NEW i \in First(u) .. First(u + 1) - 1,
                i \notin written'
         PROVE  Remaining(u, i)'
    <2>1. i \in Int /\ i \notin written /\ i \notin batch
      BY <1>8, <1>20, Shares
    <2>2. Remaining(u, i)
      BY <2>1 DEF FillInv
    <2>3. CASE u = t
      BY <2>1, <2>2, <2>3, <1>15, <1>16 DEF Remaining
    <2>4. CASE u # t
      BY <2>2, <2>4, <1>16 DEF Remaining
    <2> QED
      BY <2>3, <2>4
  <1> HIDE DEF s
  <1> QED
    BY <1>9, <1>17, <1>18, <1>19, <1>20 DEF FillInv, Whole

\* All threads have come to their end: the shares make up the dataset.
LEMMA JoinStep == FillInv /\ Join => FillInv'
  <1> SUFFICES ASSUME FillInv, Join PROVE FillInv'
    OBVIOUS
  <1>1. ASSUME NEW i \in 0 .. Count - 1 PROVE i \in written
    <2>1. PICK t \in 0 .. Threads - 1 : First(t) <= i /\ i < First(t + 1)
      BY Shares
    <2>2. First(t) \in Nat /\ First(t + 1) \in Nat
      BY Shares
    <2>3. i \in First(t) .. First(t + 1) - 1
      BY <2>1, <2>2
    <2>4. i \in written \/ Remaining(t, i)
      BY <2>3 DEF FillInv
    <2>5. todo[t] = <<>>
      BY DEF Join
    <2>6. ~Remaining(t, i)
      BY <2>5 DEF Remaining
    <2> QED
      BY <2>4, <2>6
  <1>2. written = 0 .. Count - 1
    BY <1>1 DEF FillInv
  <1>3. UNCHANGED <<todo, written>>
    BY DEF Join
  <1> QED
    BY <1>2, <1>3 DEF FillInv, Remaining, Whole
LEMMA BeginStep == MachineInv /\ Begin => MachineInv'
  <1> SUFFICES ASSUME MachineInv, Begin PROVE MachineInv'
    OBVIOUS
  <1>1. PICK a \in Addresses, x \in Addresses, e \in Addresses :
          ma' = Masked(a, BaseItems, 1) /\ mx' = x /\ offset' = e % (ExtraItems + 1)
    BY DEF Begin
  <1>2. a \in Nat /\ x \in Nat /\ e \in Nat
    BY Dimensions
  <1>3. ma' \in 0 .. BaseItems - 1
    <2>1. BaseItems % 1 = 0
      BY Dimensions
    <2>2. Masked(a, BaseItems, 1) \in Nat /\ Masked(a, BaseItems, 1) + 1 <= BaseItems
      BY <1>2, <2>1, MaskInside, Dimensions
    <2> QED
      BY <1>1, <2>2, Dimensions
  <1>4. offset' \in 0 .. ExtraItems
    BY <1>1, <1>2, Division, Dimensions
  <1>5. mx' \in Nat
    BY <1>1, <1>2
  <1>6. sp0' \in Nat /\ sp1' \in Nat
    BY <1>3, <1>5, Dimensions DEF Begin
  <1>7. stage' = "loop" /\ UNCHANGED <<item, touched>> /\ stage = "run"
    BY DEF Begin
  <1> QED
    BY <1>3, <1>4, <1>5, <1>6, <1>7 DEF MachineInv

LEMMA LoadLinesStep == MachineInv /\ LoadLines => MachineInv'
  <1> SUFFICES ASSUME MachineInv, LoadLines PROVE MachineInv'
    OBVIOUS
  <1>1. PICK a \in Addresses, b \in Addresses :
          /\ sp0' = Masked(sp0 + a, L3, LineWords)
          /\ sp1' = Masked(sp1 + b, L3, LineWords)
    BY DEF LoadLines
  <1>2. sp0 + a \in Nat /\ sp1 + b \in Nat
    BY Dimensions DEF MachineInv
  <1>3. /\ sp0' \in Nat /\ sp0' + LineWords <= L3
        /\ sp1' \in Nat /\ sp1' + LineWords <= L3
    BY <1>1, <1>2, MaskInside, Dimensions
  <1>4. touched' \subseteq 0 .. L3 - 1
    BY <1>3, Dimensions DEF LoadLines, WordsAt
  <1>5. stage' = "code" /\ stage = "loop" /\ UNCHANGED <<ma, mx, offset, item>>
    BY DEF LoadLines
  <1> QED
    BY <1>3, <1>4, <1>5 DEF MachineInv

LEMMA MemoryOperandStep == MachineInv /\ MemoryOperand => MachineInv'
  <1> SUFFICES ASSUME MachineInv, MemoryOperand PROVE MachineInv'
    OBVIOUS
  <1>1. PICK a \in Addresses, size \in {L1, L2, L3} :
          touched' = WordsAt(Masked(a, size, 1), 1)
    BY DEF MemoryOperand
  <1>2. a \in Nat /\ size \in Nat \ {0} /\ size <= L3
    BY Dimensions, Zenon
  <1>3. size % 1 = 0
    BY <1>2
  <1>4. Masked(a, size, 1) \in Nat /\ Masked(a, size, 1) + 1 <= size
    BY <1>2, <1>3, MaskInside
  <1>5. touched' \subseteq 0 .. L3 - 1
    BY <1>1, <1>2, <1>4, Dimensions DEF WordsAt
  <1>6. UNCHANGED <<stage, ma, mx, offset, item, sp0, sp1>>
    BY DEF MemoryOperand
  <1> QED
    BY <1>5, <1>6 DEF MachineInv

LEMMA ReadDatasetStep == MachineInv /\ ReadDataset => MachineInv'
  <1> SUFFICES ASSUME MachineInv, ReadDataset PROVE MachineInv'
    OBVIOUS
  <1>1. PICK x \in Addresses : ma' = Masked(mx + x, BaseItems, 1)
    BY DEF ReadDataset
  <1>2. mx + x \in Nat /\ BaseItems % 1 = 0
    BY Dimensions DEF MachineInv
  <1>3. Masked(mx + x, BaseItems, 1) \in Nat /\ Masked(mx + x, BaseItems, 1) + 1 <= BaseItems
    BY <1>2, MaskInside, Dimensions
  <1>4. ma' \in 0 .. BaseItems - 1
    BY <1>1, <1>3, Dimensions
  <1>5. item' \in -1 .. Count - 1 /\ mx' \in Nat
    BY Dimensions DEF ReadDataset, MachineInv
  <1>6. touched' \subseteq 0 .. L3 - 1
    BY Dimensions DEF ReadDataset, MachineInv, WordsAt
  <1>7. sp0' = 0 /\ sp1' = 0 /\ stage' \in {"loop", "run"} /\ offset' = offset
    BY DEF ReadDataset
  <1> QED
    BY <1>4, <1>5, <1>6, <1>7 DEF MachineInv

LEMMA MemoryStep == MemoryInv /\ [MemoryNext]_memoryVars => MemoryInv'
  <1> SUFFICES ASSUME MemoryInv, [MemoryNext]_memoryVars PROVE MemoryInv'
    OBVIOUS
  <1> USE DEF MemoryInv
  <1>1. ASSUME NEW t \in 0 .. Threads - 1, WriteItems(t) PROVE MemoryInv'
    <2>1. UNCHANGED <<stage, ma, mx, offset, item, sp0, sp1, touched, next, scratchpads>>
      BY <1>1 DEF WriteItems
    <2> QED
      BY <1>1, <2>1, WriteItemsStep DEF MachineInv, HandedOut
  <1>2. CASE Join
    <2>1. UNCHANGED <<ma, mx, offset, item, sp0, sp1, touched, next, scratchpads>>
          /\ stage = "init" /\ stage' = "run"
      BY <1>2 DEF Join
    <2> QED
      BY <1>2, <2>1, JoinStep DEF MachineInv, HandedOut
  <1>3. CASE AllocateScratchpad
    <2>1. UNCHANGED <<todo, written, stage, ma, mx, offset, item, sp0, sp1, touched>>
      BY <1>3 DEF AllocateScratchpad
    <2>2. FillInv' /\ MachineInv'
      BY <2>1 DEF FillInv, MachineInv, Remaining, Whole
    <2>3. HandedOut'
      BY <1>3, PagesNatural DEF AllocateScratchpad, HandedOut
    <2> QED
      BY <2>2, <2>3
  <1>4. ASSUME stage # "init", stage' # "init", UNCHANGED <<todo, written, next, scratchpads>>
        PROVE  FillInv' /\ HandedOut'
    BY <1>4 DEF FillInv, HandedOut, Remaining, Whole
  <1>5. CASE Begin
    <2>1. stage # "init" /\ stage' # "init" /\ UNCHANGED <<todo, written, next, scratchpads>>
      BY <1>5 DEF Begin
    <2> QED
      BY <1>4, <1>5, <2>1, BeginStep
  <1>6. CASE LoadLines
    <2>1. stage # "init" /\ stage' # "init" /\ UNCHANGED <<todo, written, next, scratchpads>>
      BY <1>6 DEF LoadLines
    <2> QED
      BY <1>4, <1>6, <2>1, LoadLinesStep
  <1>7. CASE MemoryOperand
    <2>1. stage # "init" /\ stage' # "init" /\ UNCHANGED <<todo, written, next, scratchpads>>
      BY <1>7 DEF MemoryOperand
    <2> QED
      BY <1>4, <1>7, <2>1, MemoryOperandStep
  <1>8. CASE ReadDataset
    <2>1. stage # "init" /\ stage' # "init" /\ UNCHANGED <<todo, written, next, scratchpads>>
      BY <1>8 DEF ReadDataset
    <2> QED
      BY <1>4, <1>8, <2>1, ReadDatasetStep
  <1>9. CASE UNCHANGED memoryVars
    BY <1>9 DEF memoryVars, FillInv, MachineInv, HandedOut, Remaining, Whole
  <1> QED
    BY <1>1, <1>2, <1>3, <1>5, <1>6, <1>7, <1>8, <1>9 DEF MemoryNext

\* Every item of the dataset is initialised, by any number of threads and with any size
\* of batches, and no address leaves dataset, scratchpad or allocation (RxDataset::init,
\* the masks of virtual_machine.cpp and vm_compiled.cpp, tryAllocateScrathpad).
THEOREM Inside == MemorySpec => []AccessesInside
  <1>1. ASSUME MemoryInv PROVE AccessesInside
    <2>1. written \subseteq 0 .. Count - 1 /\ (stage # "init" => written = 0 .. Count - 1)
      BY <1>1 DEF MemoryInv, FillInv
    <2>2. item \in written \cup {-1}
      BY <1>1, <2>1, Shares DEF MemoryInv, MachineInv
    <2> QED
      BY <1>1, <2>1, <2>2 DEF MemoryInv, MachineInv, HandedOut, AccessesInside
  <1> QED
    BY <1>1, MemoryInitially, MemoryStep, PTL DEF MemorySpec

-----------------------------------------------------------------------------
\* A set of natural numbers has a least element.
LEMMA LeastExists ==
    ASSUME NEW S, S \subseteq Nat, S # {}
    PROVE  \E x \in S : \A y \in S : x <= y
  <1> DEFINE Before == OpToRel(<, Nat)
  <1>1. IsWellFoundedOn(Before, Nat)
    BY NatLessThanWellFounded
  <1>2. \A a, b \in Nat : a < b => <<a, b>> \in Before
    BY DEF OpToRel
  <1> HIDE DEF Before
  <1>3. PICK x \in S : \A y \in S : <<y, x>> \notin Before
    BY <1>1, WFMin, Zenon
  <1>4. \A y \in S : ~ (y < x)
    BY <1>2, <1>3
  <1> QED
    BY <1>4

\* Min returns it.
LEMMA Least ==
    ASSUME NEW S, S \subseteq Nat, S # {}
    PROVE  Min(S) \in S /\ \A y \in S : Min(S) <= y
  BY LeastExists DEF Min

\* A bounded one has a greatest element.
LEMMA GreatestExists ==
    ASSUME NEW S, NEW n \in Nat, S \subseteq 0 .. n, S # {}
    PROVE  \E x \in S : \A y \in S : x >= y
  <1> DEFINE T == {n - x : x \in S}
  <1>1. T \subseteq Nat /\ T # {}
    <2>1. \A x \in S : n - x \in Nat
      OBVIOUS
    <2> QED
      BY <2>1
  <1>2. PICK m \in T : \A y \in T : m <= y
    <2> HIDE DEF T
    <2> QED
      BY <1>1, LeastExists
  <1>3. PICK x \in S : m = n - x
    OBVIOUS
  <1>4. \A y \in S : n - y \in T
    OBVIOUS
  <1>5. ASSUME NEW y \in S PROVE x >= y
    <2>1. n - x <= n - y
      BY <1>2, <1>3, <1>4
    <2> QED
      BY <2>1
  <1> QED
    BY <1>5

\* Max returns it.
LEMMA Greatest ==
    ASSUME NEW S, NEW n \in Nat, S \subseteq 0 .. n, S # {}
    PROVE  Max(S) \in S /\ \A y \in S : Max(S) >= y
  BY GreatestExists DEF Max

-----------------------------------------------------------------------------
\* Bytes of a line from its beginning on.
Prefix(n) == [i \in 1 .. n |-> i]

\* Of what comes after the first n bytes of a line, a byte without a line feed before it
\* is the next one of that line, and after a line feed a line begins.
Follows(in, n) ==
    /\ \A i \in 1 .. Len(in) : (\A j \in 1 .. i : in[j] # 0) => in[i] = n + i
    /\ \A f, i \in 1 .. Len(in) :
          f < i /\ in[f] = 0 /\ (\A j \in f + 1 .. i : in[j] # 0) => in[i] = i - f

LineTypes ==
    /\ line \in [Readers -> Seq(Nat)] /\ chunk \in [Readers -> Nat \cup {NoChunk}]
    /\ input \in Seq(Nat)
    /\ reading \in {Idle} \cup [reader : Readers, chunk : Nat]
    /\ freeChunks \subseteq Nat /\ usedChunks \subseteq Nat /\ blocks \in Nat
    /\ sent \in [Readers -> Nat] /\ whole \in Nat

\* A line is kept from its beginning on while it fits, in a buffer of its own.
LinesKept ==
    \A r \in Readers : /\ sent[r] <= ChunkSize => line[r] = Prefix(sent[r])
                       /\ line[r] # <<>> => chunk[r] # NoChunk

\* What is parsed continues the reader's line; it ends with the input only after a feed.
InputFits ==
    IF reading = Idle THEN input = <<>>
    ELSE /\ Follows(input, sent[reading.reader])
         /\ input = <<>> => sent[reading.reader] = 0

Lent == {chunk[r] : r \in {r \in Readers : chunk[r] # NoChunk}}
            \cup ({reading.chunk} \ {NoChunk})

BuffersApart ==
    /\ usedChunks = Lent /\ Lent \subseteq 0 .. blocks * InitChunks - 1
    /\ freeChunks = (0 .. blocks * InitChunks - 1) \ usedChunks
    /\ \A r \in Readers : chunk[r] # NoChunk =>
          chunk[r] # reading.chunk /\ \A s \in Readers : chunk[s] = chunk[r] => s = r

LineInv == LineTypes /\ LinesKept /\ InputFits /\ BuffersApart /\ LinesWhole

\* What a read brings continues the line, and begins new ones after its line feeds.
LEMMA PlacedFollows ==
    ASSUME NEW read \in Reads, NEW n \in Nat
    PROVE  /\ Placed(read, n) \in Seq(Nat) /\ Placed(read, n) # <<>>
           /\ Follows(Placed(read, n), n)
  <1> DEFINE L == Len(read)
             P == Placed(read, n)
             F(i) == {j \in 1 .. i - 1 : read[j] = "feed"}
  <1>1. L \in Nat /\ L # 0 /\ read \in Seq({"byte", "feed"})
    <2>1. read \in Seq({"byte", "feed"}) /\ read # <<>>
      BY LineAssumption DEF LineAssumption
    <2> QED
      BY <2>1, EmptySeq
  <1>2. \A i \in 1 .. L : P[i] = IF read[i] = "feed" THEN 0
                                 ELSE IF F(i) = {} THEN n + i ELSE i - Max(F(i))
    BY DEF Placed
  <1>3. ASSUME NEW i \in 1 .. L, F(i) # {}
        PROVE  Max(F(i)) \in F(i) /\ \A j \in F(i) : Max(F(i)) >= j
    <2>1. F(i) \subseteq 0 .. L
      BY <1>1
    <2> HIDE DEF F, L
    <2> QED
      BY <1>1, <1>3, <2>1, Greatest
  <1>4. \A i \in 1 .. L : P[i] \in Nat /\ (P[i] = 0 <=> read[i] = "feed")
    <2> TAKE i \in 1 .. L
    <2>1. F(i) # {} => Max(F(i)) \in 1 .. i - 1
      BY <1>3
    <2> HIDE DEF P, F
    <2>2. P[i] = IF read[i] = "feed" THEN 0
                 ELSE IF F(i) = {} THEN n + i ELSE i - Max(F(i))
      BY <1>2
    <2> QED
      BY <1>1, <2>1, <2>2
  <1>5. DOMAIN P = 1 .. L /\ P \in [1 .. L -> Nat]
    <2>1. DOMAIN P = 1 .. L /\ P = [i \in 1 .. L |-> P[i]]
      BY DEF Placed
    <2> HIDE DEF P
    <2> QED
      BY <1>4, <2>1
  <1>6. P \in Seq(Nat) /\ Len(P) = L
    <2> HIDE DEF P, L
    <2> QED
      BY <1>1, <1>5
  <1>7. P # <<>>
    BY <1>1, <1>6, EmptySeq
  <1>8. ASSUME NEW i \in 1 .. L, \A j \in 1 .. i : P[j] # 0 PROVE P[i] = n + i
    <2>1. \A j \in 1 .. i : read[j] # "feed"
      BY <1>1, <1>4, <1>8
    <2>2. F(i) = {}
      BY <2>1
    <2> HIDE DEF P, F
    <2> QED
      BY <1>1, <1>2, <2>1, <2>2
  <1>9. ASSUME NEW f \in 1 .. L, NEW i \in 1 .. L, f < i, P[f] = 0,
               \A j \in f + 1 .. i : P[j] # 0
        PROVE  P[i] = i - f
    <2>1. read[f] = "feed" /\ \A j \in f + 1 .. i : read[j] # "feed"
      BY <1>1, <1>4, <1>9
    <2>2. f \in F(i) /\ \A j \in F(i) : j <= f
      BY <1>9, <2>1
    <2>3. Max(F(i)) \in F(i) /\ Max(F(i)) >= f
      BY <1>3, <2>2
    <2>4. Max(F(i)) = f
      BY <2>2, <2>3
    <2>5. read[i] # "feed" /\ F(i) # {}
      BY <1>9, <2>1, <2>2
    <2> HIDE DEF P, F
    <2> QED
      BY <1>2, <2>4, <2>5
  <1> QED
    <2> HIDE DEF P, L
    <2> QED
      BY <1>6, <1>7, <1>8, <1>9 DEF Follows, P

\* Feed is the place of the first line feed.
LEMMA FirstFeed ==
    ASSUME input \in Seq(Nat)
    PROVE  /\ Feed \in 0 .. Len(input)
           /\ Feed = 0 => \A i \in 1 .. Len(input) : input[i] # 0
           /\ Feed # 0 => input[Feed] = 0 /\ \A i \in 1 .. Feed - 1 : input[i] # 0
  <1> DEFINE Z == {i \in DOMAIN input : input[i] = 0}
  <1>1. Len(input) \in Nat /\ DOMAIN input = 1 .. Len(input)
    BY LenProperties
  <1>2. CASE Z = {}
    BY <1>1, <1>2 DEF Feed
  <1>3. CASE Z # {}
    <2>1. Feed = Min(Z)
      BY <1>3 DEF Feed
    <2>2. Z \subseteq Nat
      BY <1>1
    <2>3. Min(Z) \in Z /\ \A i \in Z : Min(Z) <= i
      <3> HIDE DEF Z
      <3> QED
        BY <1>3, <2>2, Least
    <2>4. Feed \in 1 .. Len(input) /\ input[Feed] = 0
      BY <1>1, <2>1, <2>3
    <2>5. \A i \in 1 .. Feed - 1 : input[i] # 0
      <3> SUFFICES ASSUME NEW i \in 1 .. Feed - 1, input[i] = 0 PROVE FALSE
        OBVIOUS
      <3>1. i \in Z /\ i < Feed
        BY <1>1, <2>4
      <3> HIDE DEF Z
      <3>2. Feed <= i
        BY <2>1, <2>3, <3>1
      <3> QED
        BY <2>4, <3>1, <3>2
    <2> QED
      BY <1>1, <2>4, <2>5
  <1> QED
    BY <1>2, <1>3

\* The first n bytes of a line are a sequence of that length.
LEMMA PrefixSeq ==
    ASSUME NEW n \in Nat
    PROVE  /\ Prefix(n) \in Seq(Nat) /\ Len(Prefix(n)) = n
           /\ \A i \in 1 .. n : Prefix(n)[i] = i
           /\ Prefix(n) = <<>> <=> n = 0
  <1>1. Prefix(n) \in [1 .. n -> Nat] /\ \A i \in 1 .. n : Prefix(n)[i] = i
    BY DEF Prefix
  <1>2. Prefix(n) \in Seq(Nat) /\ Len(Prefix(n)) = n
    BY <1>1
  <1> QED
    BY <1>1, <1>2, EmptySeq

\* A sequence is a prefix if each element is its place.
LEMMA IsPrefix ==
    ASSUME NEW s \in Seq(Nat), NEW n \in Nat, Len(s) = n, \A i \in 1 .. n : s[i] = i
    PROVE  s = Prefix(n)
  BY PrefixSeq, SeqEqual

InLent(x) == \/ \E r \in Readers : chunk[r] = x /\ x # NoChunk
             \/ reading.chunk = x /\ x # NoChunk

LEMMA LentBy == \A x : x \in Lent <=> InLent(x)
  BY DEF Lent, InLent

\* The number of blocks after something was allocated.
Grown == IF freeChunks = {} THEN blocks + 1 ELSE blocks

\* What is allocated was free or is new, and everything else stays as it was.
LEMMA Borrowed ==
    ASSUME LineTypes, BuffersApart
    PROVE  /\ Min(Available) \in Nat /\ Min(Available) \notin usedChunks
           /\ Min(Available) \in Available /\ Grown \in Nat
           /\ usedChunks \cup {Min(Available)} \subseteq 0 .. Grown * InitChunks - 1
           /\ Available \ {Min(Available)} =
                (0 .. Grown * InitChunks - 1) \ (usedChunks \cup {Min(Available)})
  <1>1. /\ blocks \in Nat /\ InitChunks \in Nat \ {0}
        /\ blocks * InitChunks \in Nat
        /\ (blocks + 1) * InitChunks = blocks * InitChunks + InitChunks
        /\ usedChunks \subseteq 0 .. blocks * InitChunks - 1
        /\ freeChunks = (0 .. blocks * InitChunks - 1) \ usedChunks
    BY LineAssumption DEF LineAssumption, LineTypes, BuffersApart
  <1> DEFINE b == blocks * InitChunks
  <1>2. /\ Grown \in Nat /\ usedChunks \subseteq 0 .. Grown * InitChunks - 1
        /\ Available = (0 .. Grown * InitChunks - 1) \ usedChunks
        /\ Available # {} /\ Available \subseteq Nat
    <2>1. CASE freeChunks # {}
      <3>1. Available = freeChunks /\ Grown = blocks
        BY <2>1 DEF Available, Grown
      <3> QED
        BY <1>1, <2>1, <3>1
    <2>2. CASE freeChunks = {}
      <3>1. /\ Available = {b + i : i \in 0 .. InitChunks - 1} /\ Grown = blocks + 1
            /\ Grown * InitChunks = b + InitChunks
        BY <1>1, <2>2 DEF Available, Grown
      <3>2. usedChunks = 0 .. b - 1
        BY <1>1, <2>2
      <3>3. b \in Nat
        BY <1>1
      <3> HIDE DEF b
      <3>4. {b + i : i \in 0 .. InitChunks - 1} = b .. b + InitChunks - 1
        <4>1. \A x \in b .. b + InitChunks - 1 : x - b \in 0 .. InitChunks - 1 /\ x = b + (x - b)
          BY <1>1, <3>3
        <4>2. \A i \in 0 .. InitChunks - 1 : b + i \in b .. b + InitChunks - 1
          BY <1>1, <3>3
        <4> QED
          BY <4>1, <4>2
      <3>5. b .. b + InitChunks - 1 = (0 .. b + InitChunks - 1) \ (0 .. b - 1)
        BY <1>1, <3>3
      <3>6. b \in b .. b + InitChunks - 1 /\ 0 .. b - 1 \subseteq 0 .. b + InitChunks - 1
        BY <1>1, <3>3
      <3>7. b .. b + InitChunks - 1 \subseteq Nat /\ Grown \in Nat
        BY <1>1, <3>1, <3>3
      <3>8. 0 .. Grown * InitChunks - 1 = 0 .. b + InitChunks - 1
        <4> DEFINE size == Grown * InitChunks
        <4>1. size = b + InitChunks
          BY <3>1
        <4> HIDE DEF size
        <4>2. 0 .. size - 1 = 0 .. b + InitChunks - 1
          BY <1>1, <3>3, <4>1
        <4> QED
          BY <4>2 DEF size
      <3>9. Available = (0 .. Grown * InitChunks - 1) \ usedChunks
        BY <3>1, <3>2, <3>4, <3>5, <3>8, Zenon
      <3>10. usedChunks \subseteq 0 .. Grown * InitChunks - 1
        BY <3>2, <3>6, <3>8, Zenon
      <3>11. Available # {} /\ Available \subseteq Nat
        BY <3>1, <3>4, <3>6, <3>7, Zenon
      <3> QED
        BY <3>7, <3>9, <3>10, <3>11
    <2> QED
      BY <2>1, <2>2
  <1>3. Min(Available) \in Available
    BY <1>2, Least
  <1> QED
    BY <1>2, <1>3

\* A read takes a buffer that nobody has.
LEMMA ReceiveBuffers ==
    ASSUME LineInv, NEW r \in Readers, NEW read \in Reads, Receive(r, read)
    PROVE  BuffersApart' /\ LineTypes'
  <1>1. LineTypes /\ BuffersApart
    BY DEF LineInv
  <1> DEFINE c == Min(Available)
  <1>2. /\ c \in Nat /\ c \notin usedChunks /\ Grown \in Nat
        /\ usedChunks \cup {c} \subseteq 0 .. Grown * InitChunks - 1
        /\ Available \ {c} = (0 .. Grown * InitChunks - 1) \ (usedChunks \cup {c})
    BY <1>1, Borrowed
  <1>3. /\ reading = Idle /\ reading' = [reader |-> r, chunk |-> c]
        /\ freeChunks' = Available \ {c} /\ usedChunks' = usedChunks \cup {c}
        /\ blocks' = Grown /\ chunk' = chunk
        /\ input' = Placed(read, sent[r])
        /\ UNCHANGED <<line, chunk, sent, whole, heard>>
    BY DEF Receive, Allocate, Grown
  <1> HIDE DEF c
  <1>4. sent[r] \in Nat
    BY <1>1 DEF LineTypes
  <1>5. input' \in Seq(Nat)
    BY <1>3, <1>4, PlacedFollows
  <1>6. 0 .. Grown * InitChunks - 1 \subseteq Nat
    BY <1>2, LineAssumption DEF LineAssumption
  <1>7. LineTypes'
    BY <1>1, <1>2, <1>3, <1>5, <1>6 DEF LineTypes
  <1>8. Lent' = Lent \cup {c}
    <2>1. \A x : x \in Lent' <=> InLent(x)'
      BY DEF Lent, InLent
    <2>2. \A x : InLent(x)' <=> InLent(x) \/ x = c
      BY <1>2, <1>3 DEF InLent, Idle, NoChunk
    <2> QED
      BY <2>1, <2>2, LentBy
  <1> QED
    BY <1>1, <1>2, <1>3, <1>7, <1>8, LentBy DEF BuffersApart, InLent

\* The reader that parses.
LEMMA Parses ==
    ASSUME LineInv, NEW r \in Readers, reading.reader = r
    PROVE  /\ reading # Idle /\ reading.chunk \in Nat /\ reading.chunk # NoChunk
           /\ Follows(input, sent[r]) /\ (input = <<>> => sent[r] = 0)
  <1>1. reading # Idle
    BY LineAssumption DEF LineAssumption, Idle
  <1>2. reading \in [reader : Readers, chunk : Nat]
    BY <1>1 DEF LineInv, LineTypes
  <1> QED
    BY <1>1, <1>2 DEF LineInv, InputFits, NoChunk

\* Buffers go back: those of a set that no reader holds afterwards.
LEMMA Returned ==
    ASSUME LineInv, NEW D, D \subseteq Lent, Deallocate(D),
           chunk' \in [Readers -> Nat \cup {NoChunk}],
           \A r \in Readers : chunk'[r] # chunk[r] => chunk'[r] = NoChunk,
           reading' = Idle,
           \A x : x \in D <=> /\ InLent(x)
                              /\ \A r \in Readers : chunk'[r] # x
    PROVE  /\ BuffersApart'
           /\ freeChunks' \subseteq Nat /\ usedChunks' \subseteq Nat /\ blocks' \in Nat
  <1>1. LineTypes /\ BuffersApart
    BY DEF LineInv
  <1>2. /\ freeChunks' = freeChunks \cup D /\ usedChunks' = usedChunks \ D
        /\ blocks' = blocks
    BY DEF Deallocate
  <1>3. Lent' = Lent \ D
    <2>1. \A x : x \in Lent' <=> \E r \in Readers : chunk'[r] = x /\ x # NoChunk
      BY DEF Lent, Idle
    <2>2. \A x : (\E r \in Readers : chunk'[r] = x /\ x # NoChunk) => InLent(x) /\ x \notin D
      BY DEF InLent
    <2>3. \A x : InLent(x) /\ x \notin D => \E r \in Readers : chunk'[r] = x /\ x # NoChunk
      BY DEF InLent
    <2> QED
      BY <2>1, <2>2, <2>3, LentBy
  <1>4. /\ usedChunks' = Lent' /\ Lent' \subseteq 0 .. blocks' * InitChunks - 1
        /\ freeChunks' = (0 .. blocks' * InitChunks - 1) \ usedChunks'
    BY <1>1, <1>2, <1>3, Zenon DEF BuffersApart
  <1>5. \A r \in Readers : chunk'[r] # NoChunk =>
          chunk'[r] # reading'.chunk /\ \A s \in Readers : chunk'[s] = chunk'[r] => s = r
    BY <1>1 DEF BuffersApart, Idle
  <1>6. freeChunks' \subseteq Nat /\ usedChunks' \subseteq Nat /\ blocks' \in Nat
    <2>1. D \subseteq usedChunks
      BY <1>1 DEF BuffersApart
    <2> QED
      BY <1>1, <1>2, <2>1 DEF LineTypes
  <1> QED
    BY <1>4, <1>5, <1>6 DEF BuffersApart

LEMMA HeldBy == \A r \in Readers : \A x : x \in Held(r) <=> chunk[r] = x /\ x # NoChunk
  BY DEF Held

\* A complete line gives the reader's own buffer back.
LEMMA CompleteBuffers ==
    ASSUME LineInv, NEW r \in Readers, Complete(r)
    PROVE  BuffersApart' /\ LineTypes'
  <1>1. LineTypes /\ BuffersApart
    BY DEF LineInv
  <1>2. /\ Deallocate({reading.chunk} \cup Held(r)) /\ reading.reader = r /\ reading' = Idle
        /\ chunk' = [chunk EXCEPT ![r] = NoChunk]
        /\ line' = [line EXCEPT ![r] = IF chunk[r] = NoChunk THEN @ ELSE <<>>]
        /\ UNCHANGED <<input, sent, whole, heard>>
    BY DEF Complete
  <1>3. reading.chunk \in Nat /\ reading.chunk # NoChunk
    BY <1>2, Parses
  <1>4. /\ chunk' \in [Readers -> Nat \cup {NoChunk}]
        /\ \A s \in Readers : chunk'[s] = IF s = r THEN NoChunk ELSE chunk[s]
    BY <1>1, <1>2 DEF LineTypes
  <1>5. \A x : x \in {reading.chunk} \cup Held(r) <=>
               InLent(x) /\ \A s \in Readers : chunk'[s] # x
    BY <1>1, <1>3, <1>4, HeldBy DEF InLent, BuffersApart
  <1>6. {reading.chunk} \cup Held(r) \subseteq Lent
    BY <1>5, LentBy
  <1>7. /\ BuffersApart'
        /\ freeChunks' \subseteq Nat /\ usedChunks' \subseteq Nat /\ blocks' \in Nat
    BY <1>2, <1>4, <1>5, <1>6, Returned
  <1>8. line' \in [Readers -> Seq(Nat)]
    BY <1>1, <1>2 DEF LineTypes
  <1> QED
    BY <1>1, <1>2, <1>4, <1>7, <1>8 DEF LineTypes

\* So does reset.
LEMMA ResetBuffers ==
    ASSUME LineInv, NEW r \in Readers, Reset(r)
    PROVE  BuffersApart' /\ LineTypes'
  <1>1. LineTypes /\ BuffersApart
    BY DEF LineInv
  <1>2. /\ Deallocate(Held(r)) /\ reading = Idle /\ reading' = Idle
        /\ chunk' = [chunk EXCEPT ![r] = NoChunk]
        /\ line' = [line EXCEPT ![r] = IF chunk[r] = NoChunk THEN @ ELSE <<>>]
        /\ sent' = [sent EXCEPT ![r] = 0]
        /\ UNCHANGED <<input, whole, heard>>
    BY DEF Reset
  <1>3. /\ chunk' \in [Readers -> Nat \cup {NoChunk}]
        /\ \A s \in Readers : chunk'[s] = IF s = r THEN NoChunk ELSE chunk[s]
    BY <1>1, <1>2 DEF LineTypes
  <1>4. \A x : x \in Held(r) <=> InLent(x) /\ \A s \in Readers : chunk'[s] # x
    BY <1>1, <1>2, <1>3, HeldBy DEF InLent, BuffersApart, Idle
  <1>5. Held(r) \subseteq Lent
    BY <1>4, LentBy
  <1>6. /\ BuffersApart'
        /\ freeChunks' \subseteq Nat /\ usedChunks' \subseteq Nat /\ blocks' \in Nat
    BY <1>2, <1>3, <1>4, <1>5, Returned
  <1>7. line' \in [Readers -> Seq(Nat)] /\ sent' \in [Readers -> Nat]
    BY <1>1, <1>2 DEF LineTypes
  <1> QED
    BY <1>1, <1>2, <1>3, <1>6, <1>7 DEF LineTypes

\* Too much is dropped.  What fits is appended.
LEMMA AddedBytes ==
    ASSUME NEW old \in Seq(Nat), NEW bytes \in Seq(Nat)
    PROVE  /\ Added(old, bytes) \in Seq(Nat)
           /\ Len(bytes) + Len(old) > ChunkSize => Added(old, bytes) = old
           /\ Len(bytes) + Len(old) <= ChunkSize => Added(old, bytes) = old \o bytes
  <1>1. Len(old) \in Nat /\ Len(bytes) \in Nat /\ ChunkSize \in Nat
    BY LineAssumption DEF LineAssumption
  <1>2. old \o bytes \in Seq(Nat)
    BY ConcatProperties
  <1> QED
    BY <1>1, <1>2 DEF Added

\* What is appended to the first n bytes of a line, and continues it, makes it longer.
LEMMA Continued ==
    ASSUME NEW n \in Nat, NEW bytes \in Seq(Nat),
           \A i \in 1 .. Len(bytes) : bytes[i] = n + i
    PROVE  Prefix(n) \o bytes = Prefix(n + Len(bytes))
  <1>1. Len(bytes) \in Nat
    OBVIOUS
  <1>2. /\ Prefix(n) \in Seq(Nat) /\ Len(Prefix(n)) = n
        /\ \A i \in 1 .. n : Prefix(n)[i] = i
    BY PrefixSeq
  <1>3. /\ Prefix(n) \o bytes \in Seq(Nat) /\ Len(Prefix(n) \o bytes) = n + Len(bytes)
        /\ \A i \in 1 .. n + Len(bytes) :
              (Prefix(n) \o bytes)[i] = IF i <= n THEN Prefix(n)[i] ELSE bytes[i - n]
    BY <1>2, ConcatProperties
  <1>4. \A i \in 1 .. n + Len(bytes) : (Prefix(n) \o bytes)[i] = i
    <2> TAKE i \in 1 .. n + Len(bytes)
    <2>1. CASE i <= n
      BY <1>1, <1>2, <1>3, <2>1
    <2>2. CASE i > n
      <3>1. i - n \in 1 .. Len(bytes)
        BY <1>1, <2>2
      <3>2. bytes[i - n] = n + (i - n)
        BY <3>1
      <3> QED
        BY <1>1, <1>3, <2>2, <3>2
    <2>3. i <= n \/ i > n
      BY <1>1
    <2> QED
      BY <2>1, <2>2, <2>3, Zenon
  <1>5. n + Len(bytes) \in Nat
    BY <1>1
  <1> QED
    BY <1>3, <1>4, <1>5, IsPrefix, Zenon

\* What is kept stays in the reader's buffer or moves to one of its own.
LEMMA RemainderBuffers ==
    ASSUME LineInv, NEW r \in Readers, Remainder(r)
    PROVE  BuffersApart' /\ LineTypes'
  <1>1. LineTypes /\ BuffersApart
    BY DEF LineInv
  <1>2. /\ reading.reader = r /\ reading' = Idle /\ input # <<>> /\ input' = <<>>
        /\ line' = [line EXCEPT ![r] = Added(@, input)]
        /\ sent' = [sent EXCEPT ![r] = input[Len(input)]]
        /\ UNCHANGED <<whole, heard>>
    BY DEF Remainder
  <1>3. reading.chunk \in Nat /\ reading.chunk # NoChunk
    BY <1>2, Parses
  <1>4. /\ line' \in [Readers -> Seq(Nat)] /\ sent' \in [Readers -> Nat]
        /\ input' \in Seq(Nat) /\ reading' \in {Idle}
    <2>1. Added(line[r], input) \in Seq(Nat)
      BY <1>1, AddedBytes DEF LineTypes
    <2>2. input[Len(input)] \in Nat
      <3>1. Len(input) \in 1 .. Len(input)
        BY <1>1, <1>2, EmptySeq DEF LineTypes
      <3> QED
        BY <1>1, <3>1, ElementOfSeq DEF LineTypes
    <2> QED
      BY <1>1, <1>2, <2>1, <2>2, EmptySeq DEF LineTypes
  <1>5. CASE Deallocate({reading.chunk}) /\ chunk' = chunk
    <2>1. \A x : x \in {reading.chunk} <=> InLent(x) /\ \A s \in Readers : chunk'[s] # x
      BY <1>1, <1>3, <1>5 DEF InLent, BuffersApart
    <2>2. {reading.chunk} \subseteq Lent
      BY <2>1, LentBy
    <2>3. chunk' \in [Readers -> Nat \cup {NoChunk}]
      BY <1>1, <1>5 DEF LineTypes
    <2>4. /\ BuffersApart'
          /\ freeChunks' \subseteq Nat /\ usedChunks' \subseteq Nat /\ blocks' \in Nat
      BY <1>2, <1>5, <2>1, <2>2, <2>3, Returned
    <2> QED
      BY <1>1, <1>2, <1>4, <2>3, <2>4 DEF LineTypes
  <1>6. ASSUME NEW c, c = Min(Available), chunk[r] = NoChunk,
               chunk' = [chunk EXCEPT ![r] = c],
               freeChunks' = (Available \ {c}) \cup {reading.chunk},
               usedChunks' = (usedChunks \cup {c}) \ {reading.chunk},
               blocks' = Grown
        PROVE  BuffersApart' /\ LineTypes'
    <2>1. /\ c \in Nat /\ c \notin usedChunks /\ Grown \in Nat
          /\ usedChunks \cup {c} \subseteq 0 .. Grown * InitChunks - 1
          /\ Available \ {c} = (0 .. Grown * InitChunks - 1) \ (usedChunks \cup {c})
      BY <1>1, <1>6, Borrowed
    <2>2. 0 .. Grown * InitChunks - 1 \subseteq Nat
      BY <2>1, LineAssumption DEF LineAssumption
    <2>3. c # NoChunk /\ NoChunk \notin Nat
      BY <2>1 DEF NoChunk
    <2>4. reading.chunk \in usedChunks /\ c \notin Lent /\ usedChunks = Lent
      BY <1>1, <1>3, <2>1, LentBy DEF BuffersApart, InLent
    <2>5. /\ chunk' \in [Readers -> Nat \cup {NoChunk}]
          /\ \A s \in Readers : chunk'[s] = IF s = r THEN c ELSE chunk[s]
      BY <1>1, <1>6, <2>1 DEF LineTypes
    <2>6. Lent' = (Lent \cup {c}) \ {reading.chunk}
      <3>1. \A x : x \in Lent' <=> \E s \in Readers : chunk'[s] = x /\ x # NoChunk
        BY <1>2 DEF Lent, Idle
      <3>2. \A x : x \in Lent <=> \/ \E s \in Readers : chunk[s] = x /\ x # NoChunk
                                  \/ x = reading.chunk
        BY <1>3, LentBy DEF InLent
      <3>3. \A s \in Readers : chunk[s] # reading.chunk
        BY <1>1, <1>3 DEF BuffersApart
      <3>4. c # reading.chunk
        BY <2>1, <2>4
      <3> QED
        BY <1>6, <2>3, <2>5, <3>1, <3>2, <3>3, <3>4
    <2>7. \A s, t \in Readers : chunk'[s] # NoChunk /\ chunk'[t] = chunk'[s] => s = t
      <3>1. \A s \in Readers : chunk[s] # NoChunk => chunk[s] # c
        BY <2>4, LentBy DEF InLent
      <3> QED
        BY <1>1, <2>5, <3>1 DEF BuffersApart
    <2>8. \A s \in Readers : chunk'[s] # NoChunk => chunk'[s] # reading'.chunk
      BY <1>2 DEF Idle
    <2>9. BuffersApart'
      <3>1. usedChunks' = Lent'
        BY <1>6, <2>4, <2>6
      <3>2. Lent' \subseteq 0 .. blocks' * InitChunks - 1
        BY <1>6, <2>1, <2>4, <2>6, Zenon
      <3>3. freeChunks' = (0 .. blocks' * InitChunks - 1) \ usedChunks'
        <4> DEFINE all == 0 .. Grown * InitChunks - 1
        <4>1. all = 0 .. blocks' * InitChunks - 1
          BY <1>6, Zenon
        <4>2. reading.chunk \in all /\ Available \ {c} = all \ (usedChunks \cup {c})
          BY <2>1, <2>4
        <4> HIDE DEF all
        <4>3. freeChunks' = all \ usedChunks'
          BY <1>6, <4>2
        <4> QED
          BY <4>1, <4>3
      <3> QED
        BY <2>7, <2>8, <3>1, <3>2, <3>3 DEF BuffersApart
    <2>10. freeChunks' \subseteq Nat /\ usedChunks' \subseteq Nat /\ blocks' \in Nat
      BY <1>1, <1>3, <1>6, <2>1, <2>2 DEF LineTypes
    <2> QED
      BY <1>1, <1>2, <1>4, <2>5, <2>9, <2>10 DEF LineTypes
  <1> QED
    BY <1>5, <1>6 DEF Remainder, Grown

\* onRead: what was read continues the line of its reader.
LEMMA ReceiveStep ==
    ASSUME LineInv, NEW r \in Readers, NEW read \in Reads, Receive(r, read)
    PROVE  LineInv'
  <1>1. BuffersApart' /\ LineTypes'
    BY ReceiveBuffers
  <1>2. /\ reading'.reader = r /\ reading' # Idle /\ input' = Placed(read, sent[r])
        /\ UNCHANGED <<line, chunk, sent, whole, heard>>
    <2>1. r # "none"
      BY LineAssumption DEF LineAssumption
    <2> QED
      BY <2>1 DEF Receive, Idle
  <1>3. LinesKept' /\ LinesWhole'
    BY <1>2 DEF LineInv, LinesKept, LinesWhole
  <1>4. sent[r] \in Nat
    BY DEF LineInv, LineTypes
  <1>5. input' # <<>> /\ Follows(input', sent'[r])
    BY <1>2, <1>4, PlacedFollows
  <1>6. InputFits'
    BY <1>2, <1>5 DEF InputFits
  <1> QED
    BY <1>1, <1>3, <1>6 DEF LineInv

\* A reader that parsed everything has no line and keeps no buffer.
LEMMA CompleteStep ==
    ASSUME LineInv, NEW r \in Readers, Complete(r)
    PROVE  LineInv'
  <1>1. BuffersApart' /\ LineTypes'
    BY CompleteBuffers
  <1>2. /\ reading.reader = r /\ input = <<>> /\ reading' = Idle
        /\ chunk' = [chunk EXCEPT ![r] = NoChunk]
        /\ line' = [line EXCEPT ![r] = IF chunk[r] = NoChunk THEN @ ELSE <<>>]
        /\ UNCHANGED <<input, sent, whole, heard>>
    BY DEF Complete
  <1>3. sent[r] = 0
    BY <1>2, Parses
  <1>4. /\ line \in [Readers -> Seq(Nat)] /\ chunk \in [Readers -> Nat \cup {NoChunk}]
        /\ line[r] # <<>> => chunk[r] # NoChunk
    BY DEF LineInv, LineTypes, LinesKept
  <1>5. line'[r] = <<>> /\ Prefix(0) = <<>>
    BY <1>2, <1>4, PrefixSeq
  <1>6. LinesKept'
    <2> SUFFICES ASSUME NEW s \in Readers
                 PROVE  /\ sent'[s] <= ChunkSize => line'[s] = Prefix(sent'[s])
                        /\ line'[s] # <<>> => chunk'[s] # NoChunk
      BY DEF LinesKept
    <2>1. CASE s = r
      BY <1>2, <1>3, <1>5, <2>1
    <2>2. CASE s # r
      BY <1>2, <1>4, <2>2 DEF LineInv, LinesKept
    <2> QED
      BY <2>1, <2>2
  <1>7. InputFits' /\ LinesWhole'
    BY <1>2 DEF InputFits, LineInv, LinesWhole
  <1> QED
    BY <1>1, <1>6, <1>7 DEF LineInv

\* A reader that is closed forgets its line.
LEMMA ResetStep ==
    ASSUME LineInv, NEW r \in Readers, Reset(r)
    PROVE  LineInv'
  <1>1. BuffersApart' /\ LineTypes'
    BY ResetBuffers
  <1>2. /\ reading = Idle /\ reading' = Idle /\ sent' = [sent EXCEPT ![r] = 0]
        /\ chunk' = [chunk EXCEPT ![r] = NoChunk]
        /\ line' = [line EXCEPT ![r] = IF chunk[r] = NoChunk THEN @ ELSE <<>>]
        /\ UNCHANGED <<input, whole, heard>>
    BY DEF Reset
  <1>3. /\ line \in [Readers -> Seq(Nat)] /\ chunk \in [Readers -> Nat \cup {NoChunk}]
        /\ sent \in [Readers -> Nat] /\ (line[r] # <<>> => chunk[r] # NoChunk)
    BY DEF LineInv, LineTypes, LinesKept
  <1>4. line'[r] = <<>> /\ sent'[r] = 0 /\ Prefix(0) = <<>>
    BY <1>2, <1>3, PrefixSeq
  <1>5. LinesKept'
    <2> SUFFICES ASSUME NEW s \in Readers
                 PROVE  /\ sent'[s] <= ChunkSize => line'[s] = Prefix(sent'[s])
                        /\ line'[s] # <<>> => chunk'[s] # NoChunk
      BY DEF LinesKept
    <2>1. CASE s = r
      BY <1>4, <2>1
    <2>2. CASE s # r
      BY <1>2, <1>3, <2>2 DEF LineInv, LinesKept
    <2> QED
      BY <2>1, <2>2
  <1>6. InputFits' /\ LinesWhole'
    BY <1>2 DEF InputFits, LineInv, LinesWhole
  <1> QED
    BY <1>1, <1>5, <1>6 DEF LineInv

\* What is left after the last line feed is the beginning of a line.
LEMMA RemainderStep ==
    ASSUME LineInv, NEW r \in Readers, Remainder(r)
    PROVE  LineInv'
  <1>1. BuffersApart' /\ LineTypes'
    BY RemainderBuffers
  <1> DEFINE n == Len(input)
  <1>2. /\ reading.reader = r /\ reading' = Idle /\ input # <<>> /\ input' = <<>>
        /\ Feed = 0 /\ line' = [line EXCEPT ![r] = Added(@, input)]
        /\ sent' = [sent EXCEPT ![r] = input[n]]
        /\ \/ chunk' = chunk /\ (n + Len(line[r]) > ChunkSize \/ chunk[r] # NoChunk)
           \/ \E c : c = Min(Available) /\ chunk' = [chunk EXCEPT ![r] = c]
        /\ UNCHANGED <<whole, heard>>
    BY DEF Remainder
  <1>3. /\ line \in [Readers -> Seq(Nat)] /\ chunk \in [Readers -> Nat \cup {NoChunk}]
        /\ sent \in [Readers -> Nat] /\ input \in Seq(Nat) /\ ChunkSize \in Nat
        /\ LinesKept
    BY LineAssumption DEF LineAssumption, LineInv, LineTypes
  <1>4. n \in Nat /\ n # 0
    BY <1>2, <1>3, EmptySeq
  <1>5. \A i \in 1 .. n : input[i] = sent[r] + i
    <2>1. \A i \in 1 .. n : input[i] # 0
      BY <1>2, <1>3, FirstFeed
    <2>2. Follows(input, sent[r])
      BY <1>2, Parses
    <2> QED
      BY <1>4, <2>1, <2>2 DEF Follows
  <1>6. sent'[r] = sent[r] + n /\ line'[r] = Added(line[r], input)
    BY <1>2, <1>3, <1>4, <1>5
  <1>7. sent'[r] <= ChunkSize => line'[r] = Prefix(sent'[r])
    <2> SUFFICES ASSUME sent[r] + n <= ChunkSize PROVE line'[r] = Prefix(sent[r] + n)
      BY <1>6
    <2>1. line[r] = Prefix(sent[r])
      BY <1>3, <1>4 DEF LinesKept
    <2>2. Len(line[r]) = sent[r]
      BY <1>3, <2>1, PrefixSeq
    <2>3. Added(line[r], input) = line[r] \o input
      <3>1. Len(input) + Len(line[r]) <= ChunkSize
        BY <1>3, <1>4, <2>2
      <3> QED
        BY <1>3, <3>1, AddedBytes
    <2>4. Prefix(sent[r]) \o input = Prefix(sent[r] + n)
      BY <1>3, <1>5, Continued
    <2> QED
      BY <1>6, <2>1, <2>3, <2>4
  <1>8. line'[r] # <<>> => chunk'[r] # NoChunk
    <2>1. CASE chunk' = chunk /\ (n + Len(line[r]) > ChunkSize \/ chunk[r] # NoChunk)
      <3>1. n + Len(line[r]) > ChunkSize => line'[r] = line[r]
        BY <1>3, <1>6, AddedBytes
      <3> QED
        BY <1>3, <2>1, <3>1 DEF LinesKept
    <2>2. CASE chunk' = [chunk EXCEPT ![r] = Min(Available)]
      <3>1. Min(Available) \in Nat
        BY Borrowed DEF LineInv
      <3> QED
        BY <1>3, <2>2, <3>1 DEF NoChunk
    <2> QED
      BY <1>2, <2>1, <2>2
  <1>9. LinesKept'
    <2> SUFFICES ASSUME NEW s \in Readers
                 PROVE  /\ sent'[s] <= ChunkSize => line'[s] = Prefix(sent'[s])
                        /\ line'[s] # <<>> => chunk'[s] # NoChunk
      BY DEF LinesKept
    <2>1. CASE s = r
      BY <1>7, <1>8, <2>1
    <2>2. CASE s # r
      BY <1>2, <1>3, <2>2 DEF LinesKept
    <2> QED
      BY <2>1, <2>2
  <1>10. InputFits' /\ LinesWhole'
    BY <1>2 DEF InputFits, LineInv, LinesWhole
  <1> QED
    BY <1>1, <1>9, <1>10 DEF LineInv

\* What is left after the first line feed begins new lines.
LEMMA Rest ==
    ASSUME NEW in \in Seq(Nat), NEW n \in Nat, Follows(in, n),
           NEW f \in 1 .. Len(in), in[f] = 0
    PROVE  /\ SubSeq(in, f + 1, Len(in)) \in Seq(Nat)
           /\ Follows(SubSeq(in, f + 1, Len(in)), 0)
  <1> DEFINE L == Len(in)
             s == SubSeq(in, f + 1, L)
  <1>1. L \in Nat /\ f \in Nat /\ f <= L
    OBVIOUS
  <1>2. s \in Seq(Nat) /\ Len(s) = L - f /\ \A i \in 1 .. L - f : s[i] = in[f + i]
    <2>1. \A i \in f + 1 .. L : in[i] \in Nat
      BY <1>1
    <2>2. /\ s \in Seq(Nat) /\ Len(s) = IF f + 1 <= L THEN L - (f + 1) + 1 ELSE 0
          /\ \A i \in 1 .. L - (f + 1) + 1 : s[i] = in[f + 1 + i - 1]
      BY <1>1, <2>1, SubSeqProperties
    <2>3. L - (f + 1) + 1 = L - f /\ (~ (f + 1 <= L) => L - f = 0)
      BY <1>1
    <2>4. \A i \in 1 .. L - f : f + 1 + i - 1 = f + i
      BY <1>1
    <2> HIDE DEF s, L
    <2> QED
      BY <2>2, <2>3, <2>4
  <1> HIDE DEF s
  <1>3. ASSUME NEW i \in 1 .. L - f, \A j \in 1 .. i : s[j] # 0 PROVE s[i] = i
    <2>1. f + i \in 1 .. L /\ f < f + i /\ s[i] = in[f + i]
      BY <1>1, <1>2
    <2>2. ASSUME NEW j \in f + 1 .. f + i PROVE in[j] # 0
      <3>1. j - f \in 1 .. i /\ j - f \in 1 .. L - f /\ f + (j - f) = j
        BY <1>1
      <3>2. s[j - f] = in[f + (j - f)] /\ s[j - f] # 0
        BY <1>2, <1>3, <3>1
      <3> QED
        BY <3>1, <3>2
    <2>3. in[f + i] = (f + i) - f
      BY <1>1, <2>1, <2>2 DEF Follows
    <2> QED
      BY <1>1, <2>1, <2>3
  <1>4. ASSUME NEW g \in 1 .. L - f, NEW i \in 1 .. L - f, g < i, s[g] = 0,
               \A j \in g + 1 .. i : s[j] # 0
        PROVE  s[i] = i - g
    <2>1. /\ f + g \in 1 .. L /\ f + i \in 1 .. L /\ f + g < f + i
          /\ in[f + g] = 0 /\ s[i] = in[f + i]
      <3>1. f + g \in 1 .. L /\ f + i \in 1 .. L /\ f + g < f + i
        BY <1>1, <1>4
      <3>2. s[g] = in[f + g] /\ s[i] = in[f + i]
        BY <1>2
      <3> QED
        BY <1>4, <3>1, <3>2
    <2>2. ASSUME NEW j \in (f + g) + 1 .. f + i PROVE in[j] # 0
      <3>1. j - f \in g + 1 .. i /\ j - f \in 1 .. L - f /\ f + (j - f) = j
        BY <1>1
      <3>2. s[j - f] = in[f + (j - f)] /\ s[j - f] # 0
        BY <1>2, <1>4, <3>1
      <3> QED
        BY <3>1, <3>2
    <2>3. in[f + i] = (f + i) - (f + g)
      BY <2>1, <2>2 DEF Follows
    <2> QED
      BY <1>1, <2>1, <2>3
  <1>5. \A i \in 1 .. Len(s) : (\A j \in 1 .. i : s[j] # 0) => s[i] = 0 + i
    BY <1>1, <1>2, <1>3
  <1>6. \A g, i \in 1 .. Len(s) :
          g < i /\ s[g] = 0 /\ (\A j \in g + 1 .. i : s[j] # 0) => s[i] = i - g
    BY <1>2, <1>4
  <1> QED
    BY <1>2, <1>5, <1>6 DEF Follows, s

\* A line that fits is what onLine is given, whether its beginning was kept or not.
LEMMA GivenWhole ==
    ASSUME LineInv, NEW r \in Readers, reading.reader = r, Feed # 0,
           sent[r] + Feed <= ChunkSize
    PROVE  Given(r) = Prefix(sent[r] + Feed - 1)
  <1> DEFINE n == sent[r]
             piece == FirstBytes(input, Feed)
             kept == Added(line[r], piece)
  <1>1. /\ line[r] \in Seq(Nat) /\ n \in Nat /\ input \in Seq(Nat) /\ ChunkSize \in Nat
        /\ Len(input) \in Nat
    BY LineAssumption DEF LineAssumption, LineInv, LineTypes
  <1>2. /\ Feed \in 1 .. Len(input) /\ Feed \in Nat
        /\ \A i \in 1 .. Feed - 1 : input[i] # 0
    <2>1. /\ Feed \in 0 .. Len(input)
          /\ Feed # 0 => \A i \in 1 .. Feed - 1 : input[i] # 0
      BY <1>1, FirstFeed
    <2> QED
      BY <1>1, <2>1
  <1>3. \A i \in 1 .. Feed - 1 : input[i] = n + i
    <2>1. Follows(input, n)
      BY Parses
    <2>2. \A i \in 1 .. Feed - 1 : i \in 1 .. Len(input) /\ \A j \in 1 .. i : input[j] # 0
      BY <1>1, <1>2
    <2> QED
      BY <2>1, <2>2 DEF Follows
  <1>4. /\ piece \in Seq(Nat) /\ Len(piece) = Feed
        /\ \A i \in 1 .. Feed : piece[i] = input[i]
    <2>1. \A i \in 1 .. Feed : input[i] \in Nat
      BY <1>1, <1>2
    <2>2. Feed \in Int /\ 1 \in Int
      BY <1>1, <1>2
    <2>3. /\ piece \in Seq(Nat) /\ Len(piece) = IF 1 <= Feed THEN Feed - 1 + 1 ELSE 0
          /\ \A i \in 1 .. Feed - 1 + 1 : piece[i] = input[1 + i - 1]
      BY <2>1, <2>2, SubSeqProperties DEF FirstBytes
    <2> HIDE DEF piece
    <2> QED
      BY <1>2, <2>2, <2>3
  <1>5. line[r] = Prefix(n) /\ Len(line[r]) = n
    <2>1. n <= ChunkSize
      BY <1>1, <1>2
    <2> QED
      BY <1>1, <2>1, PrefixSeq DEF LineInv, LinesKept
  <1> HIDE DEF n, piece
  <1>6. CASE n # 0
    <2>1. kept = line[r] \o piece
      <3>1. Len(piece) + Len(line[r]) <= ChunkSize
        BY <1>1, <1>2, <1>4, <1>5 DEF n
      <3> QED
        BY <1>1, <1>4, <3>1, AddedBytes
    <2>2. /\ kept \in Seq(Nat) /\ Len(kept) = n + Feed
          /\ \A i \in 1 .. n + Feed :
                kept[i] = IF i <= n THEN line[r][i] ELSE piece[i - n]
      <3>1. /\ line[r] \o piece \in Seq(Nat)
            /\ Len(line[r] \o piece) = Len(line[r]) + Len(piece)
            /\ \A i \in 1 .. Len(line[r]) + Len(piece) : (line[r] \o piece)[i] =
                  IF i <= Len(line[r]) THEN line[r][i] ELSE piece[i - Len(line[r])]
        <4>1. line[r] \in Seq(Nat) /\ piece \in Seq(Nat)
          BY <1>1, <1>4
        <4> QED
          BY <4>1, ConcatProperties, Zenon
      <3>2. Len(line[r]) = n /\ Len(piece) = Feed
        BY <1>4, <1>5
      <3> HIDE DEF kept
      <3> QED
        BY <2>1, <3>1, <3>2
    <2> HIDE DEF kept
    <2>3. \A i \in 1 .. n + Feed - 1 : kept[i] = i
      <3> TAKE i \in 1 .. n + Feed - 1
      <3>1. i <= n => kept[i] = i
        BY <1>1, <1>2, <1>5, <2>2, PrefixSeq
      <3>2. i > n => kept[i] = i
        <4> SUFFICES ASSUME i > n PROVE kept[i] = i
          OBVIOUS
        <4>1. i - n \in 1 .. Feed - 1 /\ i \in 1 .. n + Feed
          BY <1>1, <1>2
        <4>2. kept[i] = piece[i - n]
          BY <1>1, <2>2, <4>1
        <4>3. piece[i - n] = input[i - n]
          BY <1>2, <1>4, <4>1
        <4>4. input[i - n] = n + (i - n)
          BY <1>3, <4>1
        <4> QED
          BY <1>1, <1>2, <4>2, <4>3, <4>4
      <3>3. i <= n \/ i > n
        BY <1>1, <1>2
      <3> QED
        BY <3>1, <3>2, <3>3, Zenon
    <2>4. FirstBytes(kept, Len(kept) - 1) = Prefix(n + Feed - 1)
      <3> DEFINE m == n + Feed - 1
                 t == FirstBytes(kept, m)
      <3>1. m \in Nat /\ m \in Int /\ 1 \in Int /\ Len(kept) - 1 = m
        BY <1>1, <1>2, <2>2
      <3>2. \A i \in 1 .. m : kept[i] \in Nat /\ kept[i] = i
        BY <2>3, <3>1
      <3> HIDE DEF m
      <3>3. /\ t \in Seq(Nat) /\ Len(t) = IF 1 <= m THEN m - 1 + 1 ELSE 0
            /\ \A i \in 1 .. m - 1 + 1 : t[i] = kept[1 + i - 1]
        BY <3>1, <3>2, SubSeqProperties DEF FirstBytes
      <3> HIDE DEF t
      <3>4. Len(t) = m /\ \A i \in 1 .. m : t[i] = i
        BY <3>1, <3>2, <3>3
      <3>5. t = Prefix(m)
        BY <3>1, <3>3, <3>4, IsPrefix
      <3> QED
        BY <3>1, <3>5 DEF t, m
    <2>5. line[r] # <<>>
      BY <1>1, <1>5, <1>6, PrefixSeq
    <2> QED
      BY <2>4, <2>5 DEF Given, kept, piece, n
  <1>7. CASE n = 0
    <2>1. line[r] = <<>>
      BY <1>5, <1>7, PrefixSeq
    <2> DEFINE m == Feed - 1
               t == FirstBytes(piece, m)
    <2>2. m \in Nat /\ m \in Int /\ 1 \in Int /\ n + Feed - 1 = m
      BY <1>1, <1>2, <1>7
    <2>3. \A i \in 1 .. m : piece[i] \in Nat /\ piece[i] = i
      <3> TAKE i \in 1 .. m
      <3>1. i \in 1 .. Feed - 1 /\ i \in 1 .. Feed
        BY <1>2
      <3>2. piece[i] = input[i] /\ input[i] = 0 + i
        BY <1>3, <1>4, <1>7, <3>1
      <3> QED
        BY <3>2
    <2> HIDE DEF m
    <2>4. /\ t \in Seq(Nat) /\ Len(t) = IF 1 <= m THEN m - 1 + 1 ELSE 0
          /\ \A i \in 1 .. m - 1 + 1 : t[i] = piece[1 + i - 1]
      BY <2>2, <2>3, SubSeqProperties DEF FirstBytes
    <2> HIDE DEF t
    <2>5. Len(t) = m /\ \A i \in 1 .. m : t[i] = i
      BY <2>2, <2>3, <2>4
    <2>6. t = Prefix(m)
      BY <2>2, <2>4, <2>5, IsPrefix
    <2> QED
      BY <2>1, <2>2, <2>6 DEF Given, t, m, piece, n
  <1> QED
    BY <1>6, <1>7

\* A line that is given to the listener is whole, and the next one begins behind it.
LEMMA LineStep ==
    ASSUME LineInv, NEW r \in Readers, Line(r)
    PROVE  LineInv'
  <1> DEFINE n == sent[r]
             length == IF Feed = 1 THEN sent[r] ELSE input[Feed - 1]
  <1>1. /\ reading.reader = r /\ Feed # 0
        /\ IF length < ChunkSize THEN whole' = length /\ heard' = Given(r)
                                 ELSE whole' = 0 /\ heard' = <<>>
        /\ line' = [line EXCEPT ![r] = <<>>]
        /\ input' = SubSeq(input, Feed + 1, Len(input))
        /\ sent' = [sent EXCEPT ![r] = 0]
        /\ UNCHANGED <<chunk, reading, freeChunks, usedChunks, blocks>>
    BY DEF Line
  <1>2. /\ LineTypes /\ n \in Nat /\ input \in Seq(Nat) /\ ChunkSize \in Nat
        /\ line \in [Readers -> Seq(Nat)] /\ sent \in [Readers -> Nat]
    BY LineAssumption DEF LineAssumption, LineInv, LineTypes
  <1>3. reading # Idle /\ Follows(input, n)
    BY <1>1, Parses
  <1>4. /\ Feed \in 1 .. Len(input) /\ Feed \in Nat /\ input[Feed] = 0
        /\ \A i \in 1 .. Feed - 1 : input[i] # 0
    <2>1. /\ Feed \in 0 .. Len(input) /\ Len(input) \in Nat
          /\ input[Feed] = 0 /\ \A i \in 1 .. Feed - 1 : input[i] # 0
      BY <1>1, <1>2, FirstFeed
    <2> QED
      BY <1>1, <2>1
  <1>5. length = n + Feed - 1
    <2>1. CASE Feed = 1
      BY <1>2, <2>1
    <2>2. CASE Feed # 1
      <3>1. /\ Feed - 1 \in 1 .. Len(input) /\ \A j \in 1 .. Feed - 1 : input[j] # 0
            /\ Len(input) \in Nat
        BY <1>2, <1>4, <2>2
      <3>2. input[Feed - 1] = n + (Feed - 1)
        BY <1>3, <3>1 DEF Follows
      <3> QED
        BY <1>2, <1>4, <2>2, <3>2
    <2> QED
      BY <2>1, <2>2
  <1> HIDE DEF length
  <1>6. LinesWhole' /\ whole' \in Nat
    <2>1. CASE length < ChunkSize
      <3>1. n + Feed <= ChunkSize
        BY <1>2, <1>4, <1>5, <2>1
      <3>2. Given(r) = Prefix(n + Feed - 1)
        BY <1>1, <3>1, GivenWhole
      <3>3. n + Feed - 1 \in Nat
        BY <1>2, <1>4
      <3> QED
        BY <1>1, <1>5, <2>1, <3>2, <3>3 DEF LinesWhole, Prefix
    <2>2. CASE ~ (length < ChunkSize)
      <3>1. Prefix(0) = <<>>
        BY PrefixSeq
      <3> QED
        BY <1>1, <2>2, <3>1 DEF LinesWhole, Prefix
    <2> QED
      BY <2>1, <2>2
  <1>7. input' \in Seq(Nat) /\ Follows(input', 0)
    BY <1>1, <1>2, <1>3, <1>4, Rest
  <1>8. LineTypes'
    <2>1. <<>> \in Seq(Nat)
      OBVIOUS
    <2>2. line' \in [Readers -> Seq(Nat)] /\ sent' \in [Readers -> Nat]
      BY <1>1, <1>2, <2>1
    <2> QED
      BY <1>1, <1>2, <1>6, <1>7, <2>2 DEF LineTypes
  <1>9. LinesKept'
    <2> SUFFICES ASSUME NEW s \in Readers
                 PROVE  /\ sent'[s] <= ChunkSize => line'[s] = Prefix(sent'[s])
                        /\ line'[s] # <<>> => chunk'[s] # NoChunk
      BY DEF LinesKept
    <2>1. CASE s = r
      BY <1>1, <1>2, <2>1, PrefixSeq
    <2>2. CASE s # r
      BY <1>1, <1>2, <2>2 DEF LineInv, LinesKept
    <2> QED
      BY <2>1, <2>2
  <1>10. InputFits'
    <2>1. sent'[r] = 0 /\ reading' = reading
      BY <1>1, <1>2
    <2> QED
      BY <1>1, <1>3, <1>7, <2>1 DEF InputFits
  <1>11. BuffersApart'
    BY <1>1 DEF LineInv, BuffersApart, Lent
  <1> QED
    BY <1>6, <1>8, <1>9, <1>10, <1>11 DEF LineInv

\* No line and no buffer to begin with.
LEMMA LineInitially == LineInit => LineInv
  <1> SUFFICES ASSUME LineInit PROVE LineInv
    OBVIOUS
  <1>1. /\ line = [r \in Readers |-> <<>>] /\ chunk = [r \in Readers |-> NoChunk]
        /\ input = <<>> /\ reading = Idle
        /\ freeChunks = {} /\ usedChunks = {} /\ blocks = 0
        /\ sent = [r \in Readers |-> 0] /\ whole = 0 /\ heard = <<>>
    BY DEF LineInit
  <1>2. Prefix(0) = <<>> /\ <<>> \in Seq(Nat)
    BY PrefixSeq
  <1>3. LineTypes
    BY <1>1, <1>2 DEF LineTypes
  <1>4. LinesKept /\ InputFits /\ LinesWhole
    BY <1>1, <1>2 DEF LinesKept, InputFits, LinesWhole, Prefix
  <1>5. Lent = {}
    BY <1>1 DEF Lent, Idle
  <1>6. 0 .. blocks * InitChunks - 1 = {}
    BY <1>1, LineAssumption DEF LineAssumption
  <1>7. BuffersApart
    BY <1>1, <1>5, <1>6 DEF BuffersApart
  <1> QED
    BY <1>3, <1>4, <1>7 DEF LineInv

\* Every step of a reader keeps the invariant.
LEMMA LineNextStep == LineInv /\ [LineNext]_lineVars => LineInv'
  <1> SUFFICES ASSUME LineInv, [LineNext]_lineVars PROVE LineInv'
    OBVIOUS
  <1>1. CASE LineNext
    <2>1. PICK r \in Readers :
             \/ \E read \in Reads : Receive(r, read)
             \/ Line(r) \/ Complete(r) \/ Remainder(r) \/ Reset(r)
      BY <1>1 DEF LineNext
    <2> QED
      BY <2>1, ReceiveStep, LineStep, CompleteStep, RemainderStep, ResetStep
  <1>2. CASE UNCHANGED lineVars
    BY <1>2 DEF lineVars, LineInv, LineTypes, LinesKept, InputFits, BuffersApart, Lent,
                LinesWhole
  <1> QED
    BY <1>1, <1>2

\* As many buffers are lent as there are owners.
LEMMA OneOwner == LineInv => BuffersAccounted
  <1> SUFFICES ASSUME LineInv PROVE BuffersAccounted
    OBVIOUS
  <1> DEFINE H == {r \in Readers : chunk[r] # NoChunk}
             C == {chunk[r] : r \in H}
             f == [r \in H |-> chunk[r]]
  <1>1. Lent = C \cup ({reading.chunk} \ {NoChunk})
    BY DEF Lent
  <1>2. \A r \in H : chunk[r] # reading.chunk /\ \A s \in H : chunk[s] = chunk[r] => s = r
    BY DEF LineInv, BuffersApart
  <1>3. IsFiniteSet(H)
    BY FS_Subset, LineAssumption DEF LineAssumption
  <1>4. ExistsBijection(H, C)
    <2>1. f \in Bijection(H, C)
      BY <1>2 DEF Bijection, Injection, Surjection, IsInjective
    <2> QED
      BY <2>1 DEF ExistsBijection
  <1>5. IsFiniteSet(C) /\ Cardinality(C) = Cardinality(H) /\ Cardinality(H) \in Nat
    BY <1>3, <1>4, FS_Bijection, FS_CardinalityType
  <1>6. reading.chunk \notin C
    BY <1>2
  <1>7. Cardinality(Lent) = Cardinality(H) + IF reading = Idle THEN 0 ELSE 1
    <2> HIDE DEF H, C
    <2>1. CASE reading = Idle
      <3>1. Lent = C
        BY <1>1, <2>1 DEF Idle
      <3> QED
        BY <1>5, <2>1, <3>1
    <2>2. CASE reading # Idle
      <3>1. reading.chunk # NoChunk
        BY <2>2 DEF LineInv, LineTypes, NoChunk
      <3>2. Lent = C \cup {reading.chunk}
        BY <1>1, <3>1
      <3> QED
        BY <1>5, <1>6, <2>2, <3>2, FS_AddElement
    <2> QED
      BY <2>1, <2>2
  <1> QED
    BY <1>1, <1>7 DEF LineInv, BuffersApart, BuffersAccounted

\* A line that fits a buffer is given to its listener by LineReader::getline whole, without a
\* byte of another line or connection, although NetBuffer lends the buffers of one MemPool to
\* all connections; and the buffers that are lent are as many as reads and readers that have
\* one, so that add and reset neither lose one nor give one back twice.
THEOREM Connections == LineSpec => []ConnectionsApart
  <1>1. LineSpec => []LineInv
    BY LineInitially, LineNextStep, PTL DEF LineSpec
  <1>2. LineInv => ConnectionsApart
    BY OneOwner DEF LineInv, ConnectionsApart
  <1> QED
    BY <1>1, <1>2, PTL

-----------------------------------------------------------------------------
Sample == [stamp : Nat, count : Nat]

RateTypes ==
    /\ now \in 1 .. MaxTime /\ samples \in Seq(Sample)
    /\ stamps \in [0 .. BucketSize - 1 -> Nat]
    /\ counts \in [0 .. BucketSize - 1 -> Nat]
    /\ top = Len(samples) % BucketSize

InOrder ==
    /\ \A i \in 1 .. Len(samples) : samples[i].stamp \in 1 .. now
    /\ \A i, j \in 1 .. Len(samples) : i <= j => samples[i].stamp <= samples[j].stamp

Kept == \A i \in Remembered : At((i - 1) % BucketSize) = samples[i]

Unused == \A p \in 0 .. BucketSize - 1 : p >= Len(samples) => stamps[p] = 0

RateInv == RateTypes /\ InOrder /\ Kept /\ Unused

\* The ring is empty to begin with.
LEMMA RateInitially == RateInit => RateInv
  <1> SUFFICES ASSUME RateInit PROVE RateInv
    OBVIOUS
  <1> USE RateAssumption DEF RateAssumption
  <1>1. Len(samples) = 0 /\ samples \in Seq(Sample)
    BY DEF RateInit
  <1>2. 0 % BucketSize = 0
    BY Small
  <1>3. RateTypes
    BY <1>1, <1>2 DEF RateInit, RateTypes
  <1>4. InOrder /\ Kept /\ Unused
    BY <1>1 DEF RateInit, InOrder, Kept, Unused, Remembered
  <1> QED
    BY <1>3, <1>4 DEF RateInv

\* Time passes.
LEMMA TickStep == RateInv /\ Tick => RateInv'
  <1> SUFFICES ASSUME RateInv, Tick PROVE RateInv'
    OBVIOUS
  <1> USE RateAssumption DEF RateAssumption
  <1>1. RateTypes'
    BY DEF RateInv, RateTypes, Tick
  <1>2. InOrder'
    BY DEF RateInv, RateTypes, InOrder, Tick
  <1>3. Kept' /\ Unused'
    BY DEF RateInv, Kept, Unused, Remembered, At, Tick
  <1> QED
    BY <1>1, <1>2, <1>3 DEF RateInv

\* The new sample takes the place of the oldest one that is remembered, or an unused one.
LEMMA AddStep ==
    ASSUME RateInv, NEW count \in Nat, AddData(count)
    PROVE  RateInv'
  <1> USE RateAssumption DEF RateAssumption
  <1> DEFINE n == Len(samples)
             new == [stamp |-> now, count |-> count]
  <1>1. n \in Nat /\ new \in Sample /\ samples \in Seq(Sample) /\ now \in 1 .. MaxTime
    <2>1. samples \in Seq(Sample) /\ now \in 1 .. MaxTime
      BY DEF RateInv, RateTypes
    <2> QED
      BY <2>1 DEF Sample
  <1>2. /\ samples' = Append(samples, new) /\ Len(samples') = n + 1
        /\ \A i \in 1 .. n : samples'[i] = samples[i]
        /\ samples'[n + 1] = new /\ samples' \in Seq(Sample)
    BY <1>1 DEF AddData
  <1>3. top = n % BucketSize /\ top \in 0 .. BucketSize - 1 /\ top' = (n + 1) % BucketSize
    <2>1. top = n % BucketSize
      BY DEF RateInv, RateTypes
    <2>2. n % BucketSize \in 0 .. BucketSize - 1
      BY <1>1, IntDivision
    <2>3. n \in Int /\ 1 \in Int /\ BucketSize \in Nat \ {0}
      BY <1>1
    <2>4. ((n % BucketSize) + 1) % BucketSize = (n + 1) % BucketSize
      BY <2>3, Shifted, Zenon
    <2> QED
      BY <2>1, <2>2, <2>4 DEF AddData
  <1>4. /\ stamps' = [stamps EXCEPT ![top] = now]
        /\ counts' = [counts EXCEPT ![top] = count] /\ now' = now
        /\ stamps \in [0 .. BucketSize - 1 -> Nat]
        /\ counts \in [0 .. BucketSize - 1 -> Nat]
    BY DEF AddData, RateInv, RateTypes
  <1> HIDE DEF n, new
  <1>5. RateTypes'
    <2>1. (n + 1) % BucketSize = Len(samples') % BucketSize
      BY <1>2
    <2> QED
      BY <1>1, <1>2, <1>3, <1>4, <2>1 DEF RateTypes
  <1>6. InOrder'
    <2>1. \A i \in 1 .. n : samples[i].stamp \in 1 .. now
      BY DEF RateInv, InOrder, n
    <2>2. \A i, j \in 1 .. n : i <= j => samples[i].stamp <= samples[j].stamp
      BY DEF RateInv, InOrder, n
    <2>3. samples'[n + 1].stamp = now
      BY <1>2 DEF new
    <2>4. ASSUME NEW i \in 1 .. n + 1 PROVE samples'[i].stamp \in 1 .. now
      BY <1>1, <1>2, <2>1, <2>3
    <2>5. ASSUME NEW i \in 1 .. n + 1, NEW j \in 1 .. n + 1, i <= j
          PROVE  samples'[i].stamp <= samples'[j].stamp
      <3>1. CASE j = n + 1
        BY <1>1, <2>3, <2>4, <3>1
      <3>2. CASE j # n + 1
        BY <1>1, <1>2, <2>2, <2>5, <3>2
      <3> QED
        BY <3>1, <3>2
    <2> QED
      BY <1>2, <1>4, <2>4, <2>5 DEF InOrder
  <1>7. Kept'
    <2> SUFFICES ASSUME NEW i \in Remembered'
                 PROVE  At((i - 1) % BucketSize)' = samples'[i]
      BY DEF Kept
    <2>1. i \in 1 .. n + 1 /\ i > n + 1 - BucketSize
      BY <1>1, <1>2 DEF Remembered
    <2>2. (i - 1) % BucketSize \in 0 .. BucketSize - 1
      <3>1. i - 1 \in Int
        BY <1>1, <2>1
      <3> QED
        BY <3>1, IntDivision
    <2>3. CASE i = n + 1
      <3>1. (i - 1) % BucketSize = top
        BY <1>1, <1>3, <2>3
      <3>2. stamps'[top] = new.stamp /\ counts'[top] = new.count /\ samples'[i] = new
        BY <1>2, <1>3, <1>4, <2>3 DEF new
      <3> QED
        BY <3>1, <3>2 DEF At, new
    <2>4. CASE i # n + 1
      <3>1. (i - 1) % BucketSize # top
        <4>1. i - 1 \in Int /\ i - 1 < n /\ n < i - 1 + BucketSize
          BY <1>1, <2>1, <2>4
        <4>2. n \in Int /\ BucketSize \in Nat \ {0}
          BY <1>1
        <4>3. (i - 1) % BucketSize # n % BucketSize
          BY <4>1, <4>2, Distinct, Zenon
        <4> QED
          BY <1>3, <4>3
      <3>2. i \in Remembered /\ samples'[i] = samples[i]
        BY <1>1, <1>2, <2>1, <2>4 DEF Remembered, n
      <3>3. At((i - 1) % BucketSize) = samples[i]
        BY <3>2 DEF RateInv, Kept
      <3> QED
        BY <1>3, <1>4, <2>2, <3>1, <3>2, <3>3 DEF At
    <2> QED
      BY <2>3, <2>4
  <1>8. Unused'
    <2> SUFFICES ASSUME NEW p \in 0 .. BucketSize - 1, p >= n + 1 PROVE stamps'[p] = 0
      BY <1>2 DEF Unused
    <2>1. n % BucketSize = n
      BY <1>1, Small
    <2>2. stamps[p] = 0
      BY <1>1 DEF RateInv, Unused, n
    <2> QED
      BY <1>1, <1>3, <1>4, <2>1, <2>2
  <1> QED
    BY <1>5, <1>6, <1>7, <1>8 DEF RateInv

\* Every step keeps the invariant.
LEMMA RateStep == RateInv /\ [RateNext]_rateVars => RateInv'
  <1> SUFFICES ASSUME RateInv, [RateNext]_rateVars PROVE RateInv'
    OBVIOUS
  <1>1. CASE Tick
    BY <1>1, TickStep
  <1>2. CASE \E more \in 0 .. 1 : AddData(Latest + more)
    <2>1. Latest \in Nat
      <3>1. samples \in Seq(Sample)
        BY DEF RateInv, RateTypes
      <3>2. samples # <<>> => samples[Len(samples)] \in Sample
        BY <3>1
      <3> QED
        BY <3>2 DEF Latest, Sample
    <2> QED
      BY <1>2, <2>1, AddStep
  <1>3. CASE UNCHANGED rateVars
    BY <1>3 DEF rateVars, RateInv, RateTypes, InOrder, Kept, Unused, Remembered, At
  <1> QED
    BY <1>1, <1>2, <1>3 DEF RateNext

\* Backwards through the ring are the samples from the newest one on, then unused places.
LEMMA Backwards ==
    ASSUME RateInv, NEW k \in 0 .. BucketSize - 1
    PROVE  /\ k < Len(samples) => At(Back(k)) = samples[Len(samples) - k]
           /\ k >= Len(samples) => stamps[Back(k)] = 0
  <1> DEFINE n == Len(samples)
  <1>1. /\ BucketSize \in Nat \ {0} /\ n \in Nat /\ top = n % BucketSize
        /\ k \in Nat /\ k < BucketSize
    <2>1. samples \in Seq(Sample) /\ top = n % BucketSize
      BY Zenon DEF RateInv, RateTypes
    <2>2. n \in Nat
      BY <2>1
    <2> HIDE DEF n
    <2> QED
      BY <2>1, <2>2, RateAssumption DEF RateAssumption
  <1> HIDE DEF n
  <1>2. Back(k) = (n - k - 1) % BucketSize
    <2>1. n \in Int /\ 0 - k - 1 \in Int /\ n % BucketSize \in Int
      BY <1>1, IntDivision
    <2>2. ((n % BucketSize) + (0 - k - 1)) % BucketSize = (n + (0 - k - 1)) % BucketSize
      BY <1>1, <2>1, Shifted, Zenon
    <2>3. top - 1 - k = (n % BucketSize) + (0 - k - 1) /\ n + (0 - k - 1) = n - k - 1
      BY <1>1, <2>1
    <2> QED
      BY <2>2, <2>3 DEF Back
  <1>3. ASSUME k < n PROVE At(Back(k)) = samples[n - k]
    <2>1. n - k \in Remembered
      BY <1>1, <1>3 DEF Remembered, n
    <2> QED
      BY <1>2, <2>1 DEF RateInv, Kept
  <1>4. ASSUME k >= n PROVE stamps[Back(k)] = 0
    <2> DEFINE p == BucketSize + n - k - 1
    <2>1. p \in 0 .. BucketSize - 1 /\ p >= n /\ p = (n - k - 1) + BucketSize
      BY <1>1, <1>4
    <2>2. n - k - 1 \in Int
      BY <1>1
    <2>3. (n - k - 1 + BucketSize) % BucketSize = (n - k - 1) % BucketSize
      BY <1>1, <2>2, Wraps, Zenon
    <2>4. p % BucketSize = p
      BY <1>1, <2>1, Small, Zenon
    <2>5. stamps[p] = 0
      BY <2>1 DEF RateInv, Unused, n
    <2> QED
      BY <1>2, <2>1, <2>3, <2>4, <2>5
  <1> QED
    BY <1>3, <1>4 DEF n

\* A window that begins before the clock did has a limit in the far future.
LEMMA Limits ==
    ASSUME RateInv, NEW ms \in Windows
    PROVE  /\ (now - ms) % TimeWidth \in Int
           /\ now >= ms => (now - ms) % TimeWidth = now - ms
           /\ now < ms => (now - ms) % TimeWidth > now
  <1>1. /\ TimeWidth \in Nat \ {0} /\ now \in Nat /\ ms \in Nat /\ now < TimeWidth
        /\ ms < TimeWidth /\ now - ms \in Int
    BY RateAssumption DEF RateAssumption, RateInv, RateTypes
  <1>2. (now - ms) % TimeWidth \in Int
    <2>1. (now - ms) % TimeWidth \in 0 .. TimeWidth - 1
      BY <1>1, IntDivision, Zenon
    <2> QED
      BY <2>1
  <1>3. ASSUME now >= ms PROVE (now - ms) % TimeWidth = now - ms
    <2>1. now - ms \in 0 .. TimeWidth - 1
      BY <1>1, <1>3
    <2> QED
      BY <1>1, <2>1, Small, Zenon
  <1>4. ASSUME now < ms PROVE (now - ms) % TimeWidth > now
    <2>1. (now - ms) + TimeWidth \in 0 .. TimeWidth - 1
      BY <1>1, <1>4
    <2>2. ((now - ms) + TimeWidth) % TimeWidth = (now - ms) + TimeWidth
      BY <1>1, <2>1, Small, Zenon
    <2>3. ((now - ms) + TimeWidth) % TimeWidth = (now - ms) % TimeWidth
      BY <1>1, Wraps, Zenon
    <2> QED
      BY <1>1, <1>4, <2>2, <2>3
  <1> QED
    BY <1>2, <1>3, <1>4

\* The samples remembered that were taken before a window; those after them are inside.
Before(limit) == {i \in Remembered : samples[i].stamp < limit}

Older(limit) == {k \in 0 .. BucketSize - 1 : stamps[Back(k)] < limit}

\* The place k of the ring is before the window if the sample there is.
LEMMA SameOrder ==
    ASSUME RateInv, NEW limit \in Int, NEW i \in Remembered
    PROVE  /\ Len(samples) - i \in 0 .. BucketSize - 1
           /\ i \in Before(limit) <=> Len(samples) - i \in Older(limit)
  <1>1. /\ i \in 1 .. Len(samples) /\ Len(samples) \in Nat /\ BucketSize \in Nat
        /\ i > Len(samples) - BucketSize
    <2>1. samples \in Seq(Sample)
      BY DEF RateInv, RateTypes
    <2>2. Len(samples) \in Nat
      BY <2>1
    <2> QED
      BY <2>2, RateAssumption DEF RateAssumption, Remembered
  <1>2. /\ Len(samples) - i \in 0 .. BucketSize - 1 /\ Len(samples) - i < Len(samples)
        /\ Len(samples) - (Len(samples) - i) = i
    BY <1>1
  <1>3. At(Back(Len(samples) - i)) = samples[i]
    BY <1>2, Backwards
  <1>4. stamps[Back(Len(samples) - i)] = samples[i].stamp
    BY <1>3 DEF At
  <1> QED
    BY <1>2, <1>4 DEF Before, Older

\* The search finds the newest sample before the window and takes the one after it.
LEMMA RingRight == RateInv => WindowRight
  <1> SUFFICES ASSUME RateInv, NEW ms \in Windows PROVE Calc(ms) = Expected(ms)
    BY DEF WindowRight
  <1> DEFINE n == Len(samples)
             limit == (now - ms) % TimeWidth
             older == Older(limit)
             before == Before(now - ms)
             inside == Remembered \ before
  <1>1. /\ Calc(ms) = IF older = {} THEN Nan
                      ELSE IF \/ Min(older) = 0 \/ stamps[Back(Min(older))] = 0
                              \/ stamps[Back(Min(older) - 1)] = 0 THEN Nan
                      ELSE Rate(At(Back(Min(older) - 1)), At(Back(0)))
        /\ Expected(ms) = IF before = {} \/ inside = {} THEN Nan
                          ELSE Rate(samples[Min(inside)], samples[n])
    BY DEF Calc, Expected, Older, Before
  <1>2. /\ n \in Nat /\ BucketSize \in Nat \ {0} /\ limit \in Int /\ now \in Int /\ ms \in Int
        /\ \A i \in 1 .. n : samples[i].stamp \in 1 .. now
        /\ \A i, j \in 1 .. n : i <= j => samples[i].stamp <= samples[j].stamp
    <2>1. samples \in Seq(Sample) /\ limit \in Int
      BY Limits DEF RateInv, RateTypes
    <2>2. n \in Nat
      BY <2>1
    <2>3. now \in Int /\ ms \in Int /\ BucketSize \in Nat \ {0}
      <3>1. now \in 1 .. MaxTime /\ MaxTime \in Int /\ Windows \subseteq Int
        BY RateAssumption DEF RateAssumption, RateInv, RateTypes
      <3> QED
        BY <3>1, RateAssumption DEF RateAssumption
    <2>4. /\ \A i \in 1 .. n : samples[i].stamp \in 1 .. now
          /\ \A i, j \in 1 .. n : i <= j => samples[i].stamp <= samples[j].stamp
      BY Zenon DEF RateInv, InOrder
    <2> HIDE DEF n, limit, older, before, inside
    <2> QED
      BY <2>1, <2>2, <2>3, <2>4
  <1>3. Remembered = {i \in 1 .. n : i > n - BucketSize}
    BY DEF Remembered
  <1>4. older \subseteq 0 .. BucketSize - 1
    BY DEF Older
  <1>5. older # {} => /\ Min(older) \in older /\ Min(older) \in 0 .. BucketSize - 1
                      /\ \A k \in older : Min(older) <= k
    <2>1. older \subseteq Nat
      BY <1>2, <1>4
    <2> QED
      BY <1>4, <2>1, Least
  <1>6. CASE now < ms
    <2>1. before = {}
      BY <1>2, <1>3, <1>6 DEF Before
    <2>2. limit > now
      BY <1>6, Limits
    <2>3. stamps[Back(0)] < limit
      <3>1. 0 \in 0 .. BucketSize - 1
        BY <1>2
      <3>2. n = 0 => stamps[Back(0)] = 0
        BY <1>2, <3>1, Backwards
      <3>3. n > 0 => At(Back(0)) = samples[n - 0]
        BY <1>2, <3>1, Backwards
      <3>4. n > 0 => stamps[Back(0)] = samples[n].stamp
        BY <1>2, <3>3 DEF At
      <3>5. now > 0
        BY DEF RateInv, RateTypes
      <3> QED
        BY <1>2, <2>2, <3>2, <3>4, <3>5
    <2>4. 0 \in older
      BY <1>2, <2>3 DEF Older
    <2>5. Min(older) = 0
      BY <1>5, <2>4
    <2> QED
      BY <1>1, <2>1, <2>5
  <1>7. CASE now >= ms
    <2>1. limit = now - ms
      BY <1>7, Limits
    <2>2. \A i \in Remembered : n - i \in 0 .. BucketSize - 1 /\ (i \in before <=> n - i \in older)
      BY <1>2, <2>1, SameOrder
    <2> HIDE DEF n, limit, older, before, inside
    <2>3. CASE older = {}
      <3>1. before = {}
        BY <2>2, <2>3 DEF before, Before
      <3> QED
        BY <1>1, <2>3, <3>1
    <2>4. CASE older # {} /\ Min(older) = 0
      <3>1. \A i \in Remembered : i \in before
        <4> TAKE i \in Remembered
        <4>1. i \in 1 .. n /\ n \in Remembered
          BY <1>2, <1>3
        <4>2. n - n \in older
          BY <1>2, <1>5, <2>4
        <4>3. n \in before
          BY <2>2, <4>1, <4>2
        <4>4. samples[i].stamp <= samples[n].stamp /\ samples[n].stamp < now - ms
          BY <1>2, <4>1, <4>3 DEF before, Before
        <4> QED
          BY <1>2, <4>1, <4>4 DEF before, Before
      <3>2. inside = {}
        BY <3>1 DEF inside
      <3> QED
        BY <1>1, <2>4, <3>2
    <2>5. CASE older # {} /\ Min(older) >= n
      <3>1. stamps[Back(Min(older))] = 0
        BY <1>5, <2>5, Backwards DEF n
      <3>2. \A i \in Remembered : i \notin before
        BY <1>2, <1>3, <1>5, <2>2, <2>5
      <3>3. before = {}
        BY <3>2 DEF before, Before
      <3> QED
        BY <1>1, <3>1, <3>3
    <2>6. CASE older # {} /\ Min(older) > 0 /\ Min(older) < n
      <3> DEFINE m == Min(older)
      <3>1. /\ m \in older /\ m \in 1 .. BucketSize - 1 /\ m < n
            /\ \A k \in older : m <= k
        BY <1>2, <1>5, <2>6
      <3> HIDE DEF m
      <3>2. /\ At(Back(m)) = samples[n - m] /\ At(Back(m - 1)) = samples[n - m + 1]
            /\ At(Back(0)) = samples[n]
        <4>1. /\ m \in 0 .. BucketSize - 1 /\ m - 1 \in 0 .. BucketSize - 1
              /\ 0 \in 0 .. BucketSize - 1 /\ m < n /\ m - 1 < n /\ 0 < n
          BY <1>2, <3>1
        <4>2. /\ At(Back(m)) = samples[n - m] /\ At(Back(m - 1)) = samples[n - (m - 1)]
              /\ At(Back(0)) = samples[n - 0]
          BY <4>1, Backwards DEF n
        <4>3. n - (m - 1) = n - m + 1 /\ n - 0 = n
          BY <1>2, <3>1
        <4> QED
          BY <4>2, <4>3
      <3>3. /\ stamps[Back(m)] = samples[n - m].stamp
            /\ stamps[Back(m - 1)] = samples[n - m + 1].stamp
        BY <3>2 DEF At
      <3>4. stamps[Back(m)] # 0 /\ stamps[Back(m - 1)] # 0
        <4>1. n - m \in 1 .. n /\ n - m + 1 \in 1 .. n
          BY <1>2, <3>1
        <4> QED
          BY <1>2, <3>3, <4>1
      <3>5. Calc(ms) = Rate(samples[n - m + 1], samples[n])
        BY <1>1, <2>6, <3>1, <3>2, <3>4 DEF m
      <3>6. n - m \in before
        <4>1. n - m \in Remembered /\ n - (n - m) = m
          BY <1>2, <1>3, <3>1
        <4> QED
          BY <2>2, <3>1, <4>1
      <3>7. n - m + 1 \in inside
        <4>1. n - m + 1 \in Remembered /\ n - (n - m + 1) < m
          BY <1>2, <1>3, <3>1
        <4>2. n - (n - m + 1) \notin older
          BY <1>2, <3>1, <4>1
        <4> QED
          BY <2>2, <4>1, <4>2 DEF inside
      <3>8. \A i \in inside : n - m + 1 <= i
        <4> SUFFICES ASSUME NEW i \in Remembered, i <= n - m PROVE i \in before
          BY <1>2, <1>3, <3>1 DEF inside
        <4>1. i \in 1 .. n /\ n - m \in 1 .. n
          BY <1>2, <1>3, <3>1
        <4>2. samples[i].stamp <= samples[n - m].stamp /\ samples[n - m].stamp < now - ms
          BY <1>2, <3>6, <4>1 DEF before, Before
        <4> QED
          BY <1>2, <4>1, <4>2 DEF before, Before
      <3>9. Min(inside) = n - m + 1
        <4>1. inside \subseteq Nat /\ inside # {}
          BY <1>2, <1>3, <3>7 DEF inside
        <4>2. Min(inside) \in inside /\ \A i \in inside : Min(inside) <= i
          BY <4>1, Least
        <4>3. /\ Min(inside) \in Nat /\ n - m + 1 \in Nat
              /\ Min(inside) <= n - m + 1 /\ n - m + 1 <= Min(inside)
          BY <3>7, <3>8, <4>1, <4>2
        <4> QED
          BY <4>3
      <3> QED
        BY <1>1, <3>5, <3>6, <3>7, <3>9
    <2> QED
      BY <1>2, <1>5, <2>3, <2>4, <2>5, <2>6
  <1> QED
    BY <1>2, <1>6, <1>7

\* Hashrate::hashrate, which searches the ring that addData writes backwards with unsigned
\* times, returns the rate over the samples inside the window for every window and at every
\* time, also when the window begins before the clock does and when the ring has wrapped.
THEOREM WindowsRight == RateSpec => []WindowRight
  <1>1. RateSpec => []RateInv
    BY RateInitially, RateStep, PTL DEF RateSpec
  <1> QED
    BY <1>1, RingRight, PTL

=============================================================================
