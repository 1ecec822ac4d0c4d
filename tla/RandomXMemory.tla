--------------------------- MODULE RandomXMemory ---------------------------
(***************************************************************************)
(* The memory RandomX computes in.  Several threads fill the dataset; with *)
(* AVX2 they write five items at a time.  Then the virtual machine reads   *)
(* dataset items and scratchpad words at addresses made from random data   *)
(* by masks, and nothing else checks an address.  On 1 GB pages the cache  *)
(* and scratchpads lie in the same allocation, behind the dataset.         *)
(*                                                                         *)
(* The dataset is measured in items (of 64 bytes), the scratchpad in words *)
(* (of 8 bytes), the allocation in hugepages.  A mask keeps the bits of an *)
(* address between its alignment and a power of two, see Masked; a sum     *)
(* with an arbitrary number stands for the exclusive or with one.          *)
(***************************************************************************)
EXTENDS Integers, Sequences, FiniteSets

CONSTANTS
    BaseItems,    \* DatasetBaseSize / 64, a power of two
    ExtraItems,   \* DatasetExtraItems
    Threads,      \* numThreads, they are 0 .. Threads - 1
    Batch,        \* 5 if the compiled loop uses AVX2, else 1
    L1, L2, L3,   \* words of the levels of the scratchpad, powers of two
    LineWords,    \* 8: a line is as large as an item
    Addresses,    \* values of the registers addresses are made from
    DatasetPages, CachePages, Capacity  \* of the allocation, on 1 GB pages

Count == BaseItems + ExtraItems        \* DatasetItemCount

MemoryAssumption ==
    /\ BaseItems \in Nat \ {0} /\ ExtraItems \in Nat
    /\ Threads \in Nat \ {0} /\ Batch \in {1, 5}
    /\ Count \div Threads >= 5
    /\ LineWords \in Nat \ {0}
    /\ {L1, L2, L3} \subseteq Nat \ {0} /\ L1 <= L3 /\ L2 <= L3
    /\ L3 % LineWords = 0
    /\ Addresses \subseteq Nat
    /\ {DatasetPages, CachePages, Capacity} \subseteq Nat

ASSUME MemoryAssumption

VARIABLES
    todo,     \* per thread: the ranges [from, to) it has still to initialise
    written,  \* the items that were
    stage,    \* "init", "run": the threads have been joined
    ma, mx,   \* mem.ma and mem.mx, as items
    offset,   \* datasetOffset, as items
    item,     \* the dataset item read last, -1: none
    sp0, sp1, \* spAddr0 and spAddr1
    touched,  \* the words of the scratchpad accessed last
    next,     \* m_scratchpadOffset
    scratchpads  \* those handed out by tryAllocateScrathpad

memoryVars == <<todo, written, stage, ma, mx, offset, item, sp0, sp1, touched,
                next, scratchpads>>

\* address & mask, for a mask of size - align
Masked(address, size, align) == ((address % size) \div align) * align

-----------------------------------------------------------------------------
\* Mutation of Ranges: the items that fill no batch are not split off.
RangesWhole(from, count) == << <<from, from + count>> >>

\* init_dataset_wrapper: the loop writes whole batches, so that a number of items
\* that is no multiple of five is split, and the last five are written apart.
Ranges(from, count) ==
    IF Batch = 5 /\ count % 5 # 0
      THEN << <<from, from + count - (count % 5)>>, <<from + count - 5, from + count>> >>
      ELSE << <<from, from + count>> >>

\* RxDataset::init: the share of thread t.
Share(t) ==
    LET a == (Count * t) \div Threads
        b == (Count * (t + 1)) \div Threads
    IN  Ranges(a, b - a)

MemoryInit ==
    /\ todo = [t \in 0 .. Threads - 1 |-> Share(t)]
    /\ written = {} /\ stage = "init"
    /\ ma = 0 /\ mx = 0 /\ offset = 0 /\ item = -1
    /\ sp0 = 0 /\ sp1 = 0 /\ touched = {}
    /\ next = DatasetPages + CachePages /\ scratchpads = {}

\* One turn of the compiled loop, which compares only afterwards.
WriteItems(t) ==
    /\ stage = "init" /\ todo[t] # <<>>
    /\ LET from == todo[t][1][1] + Batch
           to   == todo[t][1][2]
       IN  /\ written' = written \cup todo[t][1][1] .. from - 1
           /\ todo' = [todo EXCEPT ![t] =
                         IF from < to THEN <<<<from, to>>>> \o Tail(@) ELSE Tail(@)]
    /\ UNCHANGED <<stage, ma, mx, offset, item, sp0, sp1, touched, next, scratchpads>>

Join ==
    /\ stage = "init" /\ \A t \in 0 .. Threads - 1 : todo[t] = <<>>
    /\ stage' = "run"
    /\ UNCHANGED <<todo, written, ma, mx, offset, item, sp0, sp1, touched, next, scratchpads>>

\* tryAllocateScrathpad, called by workers that may run at once: the counter grows
\* even when nothing is left.
AllocateScratchpad ==
    /\ next <= Capacity   \* bound
    /\ next' = next + 1
    /\ scratchpads' = IF next + 1 > Capacity THEN scratchpads ELSE scratchpads \cup {next}
    /\ UNCHANGED <<todo, written, stage, ma, mx, offset, item, sp0, sp1, touched>>

\* randomx_vm::initialize masks ma but not mx, and execute starts from both.
Begin ==
    /\ stage = "run"
    /\ \E a \in Addresses, x \in Addresses, e \in Addresses :
         /\ ma' = Masked(a, BaseItems, 1) /\ mx' = x
         /\ offset' = e % (ExtraItems + 1)
    /\ sp0' = mx' * LineWords /\ sp1' = ma' * LineWords
    /\ stage' = "loop"
    /\ UNCHANGED <<todo, written, item, touched, next, scratchpads>>

WordsAt(address, n) == address .. address + n - 1

\* The head of the loop: the two lines of the scratchpad that are mixed in.
LoadLines ==
    /\ stage = "loop"
    /\ \E a \in Addresses, b \in Addresses :
         /\ sp0' = Masked(sp0 + a, L3, LineWords)
         /\ sp1' = Masked(sp1 + b, L3, LineWords)
    /\ touched' = WordsAt(sp0', LineWords) \cup WordsAt(sp1', LineWords)
    /\ stage' = "code"
    /\ UNCHANGED <<todo, written, ma, mx, offset, item, next, scratchpads>>

\* An instruction with a memory operand: memMask is that of one of the levels.
MemoryOperand ==
    /\ stage = "code"
    /\ \E a \in Addresses, size \in {L1, L2, L3} :
         touched' = WordsAt(Masked(a, size, 1), 1)
    /\ UNCHANGED <<todo, written, stage, ma, mx, offset, item, sp0, sp1, next, scratchpads>>

\* The tail of the loop: dataset item ma is mixed in, mx is prepared for the next
\* turn, and the lines are stored.
ReadDataset ==
    /\ stage = "code"
    /\ \E x \in Addresses : ma' = Masked(mx + x, BaseItems, 1)
    /\ mx' = ma
    /\ item' = offset + ma
    /\ touched' = WordsAt(sp1, LineWords) \cup WordsAt(sp0, LineWords)
    /\ sp0' = 0 /\ sp1' = 0
    /\ stage' \in {"loop", "run"}
    /\ UNCHANGED <<todo, written, offset, next, scratchpads>>

MemoryNext ==
    \/ \E t \in 0 .. Threads - 1 : WriteItems(t)
    \/ Join \/ AllocateScratchpad
    \/ Begin \/ LoadLines \/ MemoryOperand \/ ReadDataset

MemorySpec == MemoryInit /\ [][MemoryNext]_memoryVars

-----------------------------------------------------------------------------
\* The threads write inside the dataset, and leave no item out; every item and every
\* word the machine accesses exists; and what is handed out as scratchpads lies
\* behind the cache and inside the allocation.
AccessesInside ==
    /\ written \subseteq 0 .. Count - 1
    /\ stage # "init" => written = 0 .. Count - 1
    /\ item \in written \cup {-1}
    /\ touched \subseteq 0 .. L3 - 1
    /\ scratchpads \subseteq DatasetPages + CachePages .. Capacity - 1

=============================================================================
