----------------------------- MODULE LineReader -----------------------------
(***************************************************************************)
(* LineReader cuts what arrives on a connection into lines, and MemPool    *)
(* lends the buffers: one to libuv for the duration of a read, one to each *)
(* reader that holds the beginning of a line.  A byte is its place in the  *)
(* line it was sent in, a line feed is 0.                                  *)
(***************************************************************************)
EXTENDS Integers, Sequences, FiniteSets, FiniteSetsExt

CONSTANTS
    Readers,     \* one for each connection
    ChunkSize,   \* XMRIG_NET_BUFFER_CHUNK_SIZE
    InitChunks,  \* XMRIG_NET_BUFFER_INIT_CHUNKS
    MaxLine,     \* bound: reads go on up to this length of a line
    Reads        \* what a read can bring: sequences of {"byte", "feed"}

\* A connection is not the mark for none, and a read brings something.
ASSUME LineAssumption ==
    /\ IsFiniteSet(Readers) /\ "none" \notin Readers
    /\ ChunkSize \in Nat /\ InitChunks \in Nat \ {0} /\ MaxLine \in Nat
    /\ \A read \in Reads : read \in Seq({"byte", "feed"}) /\ read # <<>>

NoChunk == -1

VARIABLES
    line,        \* of each reader, the first m_pos bytes of m_buf
    chunk,       \* and the buffer it holds, m_buf
    input,       \* what getline has not looked at
    reading,     \* the reader that parses, and the buffer of the read
    freeChunks, usedChunks, blocks,  \* m_free, the values of m_used, m_data.size()
    sent,        \* length of the line the other side is sending (history)
    whole,       \* length of the line completed last (history)
    heard        \* what onLine was given for it (history)

lineVars == <<line, chunk, input, reading, freeChunks, usedChunks, blocks,
              sent, whole, heard>>

Idle == [reader |-> "none", chunk |-> NoChunk]

LineInit ==
    /\ line = [r \in Readers |-> <<>>] /\ chunk = [r \in Readers |-> NoChunk]
    /\ input = <<>> /\ reading = Idle
    /\ freeChunks = {} /\ usedChunks = {} /\ blocks = 0
    /\ sent = [r \in Readers |-> 0]
    /\ whole = 0 /\ heard = <<>>

-----------------------------------------------------------------------------
\* MemPool::allocate, with resize: a block more if nothing is free.
Available ==
    IF freeChunks # {} THEN freeChunks
    ELSE {blocks * InitChunks + i : i \in 0 .. InitChunks - 1}

Allocate(c) ==
    /\ c = Min(Available)
    /\ freeChunks' = Available \ {c}
    /\ usedChunks' = usedChunks \cup {c}
    /\ blocks' = IF freeChunks = {} THEN blocks + 1 ELSE blocks

\* MemPool::deallocate of several buffers, which asserts that they are in use.
Deallocate(chunks) ==
    /\ freeChunks' = freeChunks \cup chunks
    /\ usedChunks' = usedChunks \ chunks
    /\ UNCHANGED blocks

Held(r) == IF chunk[r] = NoChunk THEN {} ELSE {chunk[r]}

\* The bytes of a read: each knows its place in its line.
Placed(read, before) ==
    [i \in 1 .. Len(read) |->
        LET feeds == {j \in 1 .. i - 1 : read[j] = "feed"}
        IN  IF read[i] = "feed" THEN 0
            ELSE IF feeds = {} THEN before + i ELSE i - Max(feeds)]

\* NetBuffer::onAlloc and the beginning of the callback.
Receive(r, read) ==
    /\ reading = Idle /\ sent[r] <= MaxLine
    /\ \E c \in Available :
        /\ Allocate(c)
        /\ reading' = [reader |-> r, chunk |-> c]
    /\ input' = Placed(read, sent[r])
    /\ UNCHANGED <<line, chunk, sent, whole, heard>>

\* What add leaves in the buffer: too much is dropped, silently.
Added(old, bytes) ==
    IF Len(bytes) + Len(old) > ChunkSize THEN old ELSE old \o bytes

Feed == IF \E i \in DOMAIN input : input[i] = 0
        THEN Min({i \in DOMAIN input : input[i] = 0}) ELSE 0

FirstBytes(s, n) == SubSeq(s, 1, n)

\* One line of getline; the byte of the line feed is replaced and copied with it.
Given(r) ==
    LET piece == FirstBytes(input, Feed)
        kept  == Added(line[r], piece)
    IN  IF line[r] # <<>> THEN FirstBytes(kept, Len(kept) - 1)
        ELSE FirstBytes(piece, Feed - 1)

\* Of lines that are too long the history says nothing.
Line(r) ==
    /\ reading.reader = r /\ Feed # 0
    /\ LET length == IF Feed = 1 THEN sent[r] ELSE input[Feed - 1] IN
        IF length < ChunkSize
          THEN whole' = length /\ heard' = Given(r)
          ELSE whole' = 0 /\ heard' = <<>>
    /\ line' = [line EXCEPT ![r] = <<>>]
    /\ input' = SubSeq(input, Feed + 1, Len(input))
    /\ sent' = [sent EXCEPT ![r] = 0]
    /\ UNCHANGED <<chunk, reading, freeChunks, usedChunks, blocks>>

\* All has been read: reset, then the read buffer goes back.
Complete(r) ==
    /\ reading.reader = r /\ input = <<>>
    /\ Deallocate({reading.chunk} \cup Held(r))
    /\ chunk' = [chunk EXCEPT ![r] = NoChunk]
    /\ line' = [line EXCEPT ![r] = IF chunk[r] = NoChunk THEN @ ELSE <<>>]
    /\ reading' = Idle
    /\ UNCHANGED <<input, sent, whole, heard>>

\* The rest is kept in a buffer of the reader, if it fits.
Remainder(r) ==
    /\ reading.reader = r /\ input # <<>> /\ Feed = 0
    /\ line' = [line EXCEPT ![r] = Added(@, input)]
    /\ IF Len(input) + Len(line[r]) > ChunkSize \/ chunk[r] # NoChunk
         THEN Deallocate({reading.chunk}) /\ UNCHANGED chunk
         ELSE \E c \in Available :
                /\ c = Min(Available)
                /\ chunk' = [chunk EXCEPT ![r] = c]
                /\ freeChunks' = (Available \ {c}) \cup {reading.chunk}
                /\ usedChunks' = (usedChunks \cup {c}) \ {reading.chunk}
                /\ blocks' = IF freeChunks = {} THEN blocks + 1 ELSE blocks
    /\ sent' = [sent EXCEPT ![r] = input[Len(input)]]
    /\ input' = <<>> /\ reading' = Idle
    /\ UNCHANGED <<whole, heard>>

\* Mutation of Reset: the position in the buffer is kept.
ResetKeepsLine(r) ==
    /\ reading = Idle
    /\ Deallocate(Held(r))
    /\ chunk' = [chunk EXCEPT ![r] = NoChunk]
    /\ sent' = [sent EXCEPT ![r] = 0]
    /\ UNCHANGED <<line, input, reading, whole, heard>>

\* reset, when a client connects again: what was read is of no use.
Reset(r) ==
    /\ reading = Idle
    /\ Deallocate(Held(r))
    /\ chunk' = [chunk EXCEPT ![r] = NoChunk]
    /\ line' = [line EXCEPT ![r] = IF chunk[r] = NoChunk THEN @ ELSE <<>>]
    /\ sent' = [sent EXCEPT ![r] = 0]
    /\ UNCHANGED <<input, reading, whole, heard>>

LineNext ==
    \E r \in Readers :
        \/ \E read \in Reads : Receive(r, read)
        \/ Line(r) \/ Complete(r) \/ Remainder(r) \/ Reset(r)

LineSpec == LineInit /\ [][LineNext]_lineVars

-----------------------------------------------------------------------------
\* A line that fits into the buffer with its line feed is handed to onLine byte by
\* byte, whatever the reads it arrived in, the longer lines around it and the
\* connections before it (LineReader::getline, add and reset).
LinesWhole == heard = [i \in 1 .. whole |-> i]

\* Every buffer lent has one owner, and what nobody owns can be lent again, which is
\* what the assertions in MemPool::deallocate and NetBuffer::destroy rely on.
BuffersAccounted ==
    LET holders == {r \in Readers : chunk[r] # NoChunk}
        lent    == {chunk[r] : r \in holders} \cup ({reading.chunk} \ {NoChunk})
    IN  /\ usedChunks = lent
        /\ Cardinality(lent) =
             Cardinality(holders) + IF reading = Idle THEN 0 ELSE 1
        /\ freeChunks = (0 .. blocks * InitChunks - 1) \ usedChunks

\* Every line arrives whole and every buffer has one owner, for connections that share
\* the pool of buffers.
ConnectionsApart == LinesWhole /\ BuffersAccounted

=============================================================================
