----------------------------- MODULE MemoryPool -----------------------------
(***************************************************************************)
(* The scratchpads of workers come from a pool of huge pages, one for each *)
(* NUMA node, which is a bump allocator: memory goes back when the last    *)
(* user has released it.  MemoryPool, NUMAMemoryPool and VirtualMemory.    *)
(* Sizes are in huge pages; get and release run under the mutex of         *)
(* VirtualMemory, so that each is one step.                                *)
(***************************************************************************)
EXTENDS Integers, FiniteSets

CONSTANTS
    Users,        \* instances of VirtualMemory that use the pool
    Nodes,        \* NUMA nodes
    PoolSize,     \* pages of the pool of a node, m_nodeSize
    Alignment,    \* 1 << 24
    Sizes,        \* of scratchpads
    HugePages     \* whether huge pages are asked for

PoolAssumption ==
    /\ PoolSize \in Nat \ {0}
    /\ Alignment \in Nat \ {0}
    /\ Sizes \subseteq Nat \ {0}
    /\ HugePages \in BOOLEAN
    /\ IsFiniteSet(Users)

ASSUME PoolAssumption

NoPool == [offset |-> 0, align |-> 0, refs |-> 0, huge |-> FALSE, exists |-> FALSE]

None == [kind |-> "none", node |-> CHOOSE n \in Nodes : TRUE, from |-> 0, size |-> 0]

VARIABLES
    pool,   \* of each node; those of NUMAMemoryPool are made when needed
    mem     \* of each user: nothing, a part of a pool, or memory of its own

poolVars == <<pool, mem>>

PoolInit == pool = [n \in Nodes |-> NoPool] /\ mem = [u \in Users |-> None]

\* Where the memory begins, and whether huge pages were available, is up
\* to the system.
GetOrCreate(n) ==
    IF pool[n].exists THEN {pool[n]}
    ELSE {[offset |-> 0, align |-> a, refs |-> 0, huge |-> h, exists |-> TRUE] :
            a \in 0 .. Alignment - 1, h \in {HugePages, FALSE}}

\* MemoryPool::get returns nullptr when too little is left.
Fits(p, size) == PoolSize + Alignment - p.offset - p.align >= size

\* VirtualMemory with usePool: memory of its own if it asks for huge pages and the pool
\* has none, or if the pool is used up.
AllocateMemory(u, n, size) ==
    /\ mem[u] = None
    /\ \E p \in GetOrCreate(n) :
        \/ /\ HugePages /\ ~p.huge
           /\ mem' = [mem EXCEPT ![u] =
                [kind |-> "own", node |-> n, from |-> 0, size |-> size]]
           /\ pool' = [pool EXCEPT ![n] = p]
        \/ /\ Fits(p, size)
           /\ mem' = [mem EXCEPT ![u] =
                [kind |-> "pool", node |-> n, from |-> p.align + p.offset, size |-> size]]
           /\ pool' = [pool EXCEPT ![n] =
                [p EXCEPT !.offset = @ + size, !.refs = @ + 1]]
        \/ /\ ~Fits(p, size)
           /\ mem' = [mem EXCEPT ![u] =
                [kind |-> "own", node |-> n, from |-> 0, size |-> size]]
           /\ pool' = [pool EXCEPT ![n] = p]

\* Mutation of Released: the offset is reset by any user who leaves.
ReleasedAtOnce(p) == [p EXCEPT !.refs = IF @ > 0 THEN @ - 1 ELSE 0, !.offset = 0]

\* MemoryPool::release.
Released(p) ==
    LET refs == IF p.refs > 0 THEN p.refs - 1 ELSE 0
    IN  [p EXCEPT !.refs = refs, !.offset = IF refs = 0 THEN 0 ELSE @]

\* ~VirtualMemory.
FreeMemory(u) ==
    /\ mem[u] # None
    /\ mem' = [mem EXCEPT ![u] = None]
    /\ pool' = IF mem[u].kind = "pool"
                 THEN [pool EXCEPT ![mem[u].node] = Released(@)] ELSE pool

PoolNext ==
    \E u \in Users :
        \/ \E n \in Nodes, size \in Sizes : AllocateMemory(u, n, size)
        \/ FreeMemory(u)

PoolSpec == PoolInit /\ [][PoolNext]_poolVars

-----------------------------------------------------------------------------
PoolUsers(n) == {u \in Users : mem[u].kind = "pool" /\ mem[u].node = n}

\* The scratchpads that come from one pool are apart and inside its memory, in whatever
\* order workers come and go (MemoryPool::get and release).
ScratchpadsApart ==
    \A n \in Nodes : \A u \in PoolUsers(n) :
        /\ mem[u].from + mem[u].size <= PoolSize + Alignment
        /\ \A v \in PoolUsers(n) \ {u} :
            \/ mem[u].from + mem[u].size <= mem[v].from
            \/ mem[v].from + mem[v].size <= mem[u].from

\* The pool counts its users, and its offset is behind all of them.
PoolCounts ==
    \A n \in Nodes :
        /\ pool[n].refs = Cardinality(PoolUsers(n))
        /\ pool[n].align \in 0 .. Alignment - 1
        /\ pool[n].offset + pool[n].align <= PoolSize + Alignment
        /\ \A u \in PoolUsers(n) :
            /\ pool[n].align <= mem[u].from
            /\ mem[u].from + mem[u].size <= pool[n].offset + pool[n].align

=============================================================================
