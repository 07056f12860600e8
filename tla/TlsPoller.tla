------------------------------ MODULE TlsPoller ------------------------------
(***************************************************************************)
(* The TLS poller's chunk loop (src/tap/tlstapper/tls_poller.go).          *)
(*                                                                         *)
(* Goroutines:                                                             *)
(*   - pollChunksPerfBuffer reads decrypted chunks from the kernel perf    *)
(*     buffer and hands each one over the unbuffered chunks channel;       *)
(*   - pollSsllib, the poll loop, selects between that channel and         *)
(*     closedReaders.  For a chunk it resolves the address pair            *)
(*     (getSockfdAddressPair: a live pid/fd lookup, else the fd cache,     *)
(*     else the chunk's own address), finds or creates the tlsReader of    *)
(*     that key and sends the chunk into the reader's channel (capacity 1).*)
(*     For a key from closedReaders it deletes the reader from the map;    *)
(*   - one dissector goroutine per tlsReader.  It consumes the reader's    *)
(*     chunks and, when no chunk has come for a while, calls doneHandler,  *)
(*     i.e. closeReader: close(r.chunks), then closedReaders <- key.       *)
(*                                                                         *)
(* An address pair is abstracted to a socket and an orientation: the live *)
(* lookup of a socket gives its local->remote pair "fwd"; the code swaps   *)
(* it to "rev" for response chunks.  Chunk bytes are abstracted to an id.  *)
(***************************************************************************)
EXTENDS Naturals, Sequences, SequencesExt, FiniteSets

CONSTANTS
    Fds,            \* traced sockets, each one pid:fd (model values)
    MaxChunks,      \* bound: chunks the traced processes produce
    PerfCapacity,   \* records the perf buffer holds
    ChunkCapacity,  \* capacity of a tlsReader's chunks channel (1)
    ClosedCapacity, \* capacity of closedReaders (100)
    CacheSize       \* fdCacheMaxItems

ASSUME
    /\ Fds # {}
    /\ MaxChunks \in Nat \ {0}
    /\ PerfCapacity \in Nat \ {0}
    /\ ChunkCapacity \in Nat \ {0}
    /\ ClosedCapacity \in Nat \ {0}
    /\ CacheSize \in Nat \ {0}

Dirs == {"request", "response"}
ChunkIds == 1 .. MaxChunks
Chunk == [id: ChunkIds, fd: Fds, dir: Dirs]

\* addressPair, and the key buildTlsKey makes of it.
Keys == Fds \X {"fwd", "rev"}

\* Every chunk is routed to at most one new reader.
MaxReaders == MaxChunks
ReaderIds == 1 .. MaxReaders
NoReader == 0

Reader == [key: Keys, isClient: BOOLEAN, chunks: Seq(Chunk), closed: BOOLEAN,
           pc: {"read", "closing", "done"}]

VARIABLES
    perf,           \* records in the kernel perf buffer, oldest first
    written,        \* chunks the traced processes have produced
    open,           \* per socket: still open, so the live lookup succeeds
    perfClosed,     \* the perf reader failed and closed the chunks channel
    poll,           \* the poll loop: selecting, or sending a chunk to a reader
    readers,        \* p.readers: key -> reader (NoReader when absent)
    rdr,            \* the tlsReaders created so far, by creation order
    closedReaders,  \* p.closedReaders: keys of closed readers, oldest first
    fdCache,        \* p.fdCache: <<fd, address>> entries, most recent first
    evictedCounter, \* p.evictedCounter
    delivered,      \* per chunk id: the reader that consumed it, or NoReader
    handed,         \* ids of the chunks the poll loop routed to a reader
    panicked        \* a goroutine panicked: the tapper process is gone

vars == <<perf, written, open, perfClosed, poll, readers, rdr, closedReaders,
          fdCache, evictedCounter, delivered, handed, panicked>>

\* chunk is <<c>> while the loop holds chunk c, else <<>>.
Poll == [pc: {"select", "send", "exited"}, rid: ReaderIds \cup {NoReader},
         chunk: Seq(Chunk)]

TypeOK ==
    /\ perf \in Seq(Chunk) /\ Len(perf) <= PerfCapacity
    /\ written \in 0 .. MaxChunks
    /\ open \in [Fds -> BOOLEAN]
    /\ perfClosed \in BOOLEAN
    /\ poll \in Poll
    /\ readers \in [Keys -> ReaderIds \cup {NoReader}]
    /\ rdr \in Seq(Reader) /\ Len(rdr) <= MaxReaders
    /\ \A r \in DOMAIN rdr : Len(rdr[r].chunks) <= ChunkCapacity
    /\ closedReaders \in Seq(Keys) /\ Len(closedReaders) <= ClosedCapacity
    /\ fdCache \in Seq(Fds \X Keys) /\ Len(fdCache) <= CacheSize
    /\ evictedCounter \in Nat
    /\ delivered \in [ChunkIds -> ReaderIds \cup {NoReader}]
    /\ handed \subseteq ChunkIds
    /\ panicked \in BOOLEAN

\* newTlsPoller: empty readers map, closedReaders, fd cache; init: the
\* perf reader.
Init ==
    /\ perf = <<>>
    /\ written = 0
    /\ open = [f \in Fds |-> TRUE]
    /\ perfClosed = FALSE
    /\ poll = [pc |-> "select", rid |-> NoReader, chunk |-> <<>>]
    /\ readers = [k \in Keys |-> NoReader]
    /\ rdr = <<>>
    /\ closedReaders = <<>>
    /\ fdCache = <<>>
    /\ evictedCounter = 0
    /\ delivered = [c \in ChunkIds |-> NoReader]
    /\ handed = {}
    /\ panicked = FALSE

---------------------------------------------------------------------------
(* The fd cache, a simplelru.LRU: Add puts a key first and, when that adds *)
(* a key beyond the capacity, evicts the last one and calls                *)
(* fdCacheEvictCallback; Get moves a key it finds to the front.            *)

CachedFds(c) == {c[i][1] : i \in DOMAIN c}
CachedAddress(c, f) == c[CHOOSE i \in DOMAIN c : c[i][1] = f][2]
WithoutFd(c, f) == SelectSeq(c, LAMBDA e : e[1] # f)

LruAdd(c, f, a) ==
    LET fresh == <<<<f, a>>>> \o WithoutFd(c, f)
    IN  IF Len(fresh) > CacheSize THEN SubSeq(fresh, 1, CacheSize) ELSE fresh

LruEvicts(c, f) == f \notin CachedFds(c) /\ Len(c) = CacheSize

LruGet(c, f) == <<<<f, CachedAddress(c, f)>>>> \o WithoutFd(c, f)

---------------------------------------------------------------------------
(* Addresses.                                                              *)

\* getAddressBySockfd: the socket's local -> remote pair.
LiveAddress(f) == <<f, "fwd">>

\* switchedAddress: src and dst exchanged.
Switched(a) == <<a[1], IF a[2] = "fwd" THEN "rev" ELSE "fwd">>

\* The address a chunk is keyed by when it resolves live: a response's is
\* switched, a request's is not.
DirectedAddress(f, dir) ==
    IF dir = "request" THEN LiveAddress(f) ELSE Switched(LiveAddress(f))

DirOf(isClient) == IF isClient THEN "request" ELSE "response"

---------------------------------------------------------------------------
(* The traced processes and the kernel.                                    *)

\* An SSL_read or SSL_write on an open socket: the probe records a chunk.
ProcessChunk(f, dir) ==
    /\ ~panicked
    /\ open[f]
    /\ written < MaxChunks
    /\ Len(perf) < PerfCapacity
    /\ perf' = Append(perf, [id |-> written + 1, fd |-> f, dir |-> dir])
    /\ written' = written + 1
    /\ UNCHANGED <<open, perfClosed, poll, readers, rdr, closedReaders, fdCache,
                   evictedCounter, delivered, handed, panicked>>

\* The process closes the socket: its pid/fd no longer resolves.
SocketCloses(f) ==
    /\ ~panicked
    /\ open[f]
    /\ open' = [open EXCEPT ![f] = FALSE]
    /\ UNCHANGED <<perf, written, perfClosed, poll, readers, rdr, closedReaders,
                   fdCache, evictedCounter, delivered, handed, panicked>>

\* chunksReader.Read fails: close(chunks) and the perf goroutine returns.
PerfReadError ==
    /\ ~panicked
    /\ ~perfClosed
    /\ perfClosed' = TRUE
    /\ UNCHANGED <<perf, written, open, poll, readers, rdr, closedReaders,
                   fdCache, evictedCounter, delivered, handed, panicked>>

---------------------------------------------------------------------------
(* The poll loop.                                                          *)

NewReader(ch, k) ==
    [key |-> k, isClient |-> ch.dir = "request", chunks |-> <<>>,
     closed |-> FALSE, pc |-> "read"]

\* Mutant of RouteTo: the new reader is not stored in p.readers.
RouteToUnstored(ch, k) ==
    LET isNew == readers[k] = NoReader
        rid == IF isNew THEN Len(rdr) + 1 ELSE readers[k]
    IN  /\ rdr' = IF isNew THEN Append(rdr, NewReader(ch, k)) ELSE rdr
        /\ UNCHANGED readers
        /\ poll' = [pc |-> "send", rid |-> rid, chunk |-> <<ch>>]
        /\ handed' = handed \cup {ch.id}

\* handleTlsChunk after the address is resolved: look the key up in
\* p.readers and, when absent, startNewTlsReader (which starts the
\* dissector goroutine) and store it; then reader.newChunk(chunk).
RouteTo(ch, k) ==
    LET isNew == readers[k] = NoReader
        rid == IF isNew THEN Len(rdr) + 1 ELSE readers[k]
    IN  /\ rdr' = IF isNew THEN Append(rdr, NewReader(ch, k)) ELSE rdr
        /\ readers' = [readers EXCEPT ![k] = rid]
        /\ poll' = [pc |-> "send", rid |-> rid, chunk |-> <<ch>>]
        /\ handed' = handed \cup {ch.id}

\* The poll loop receives a chunk from the perf goroutine.
TakeChunk ==
    /\ ~panicked
    /\ poll.pc = "select"
    /\ ~perfClosed
    /\ perf # <<>>
    /\ perf' = Tail(perf)

\* getSockfdAddressPair: the live lookup succeeds; the (switched for a
\* response) address is added to the fd cache and used.
HandleLive ==
    LET ch == Head(perf)
        a == DirectedAddress(ch.fd, ch.dir)
    IN  /\ TakeChunk
        /\ open[ch.fd]
        /\ fdCache' = LruAdd(fdCache, ch.fd, a)
        /\ evictedCounter' = IF LruEvicts(fdCache, ch.fd) THEN evictedCounter + 1
                                                          ELSE evictedCounter
        /\ RouteTo(ch, a)
        /\ UNCHANGED <<written, open, perfClosed, closedReaders, delivered, panicked>>

\* The live lookup fails and the fd cache has the pid:fd: the cached
\* address is returned as it is.
HandleCached ==
    LET ch == Head(perf)
    IN  /\ TakeChunk
        /\ ~open[ch.fd]
        /\ ch.fd \in CachedFds(fdCache)
        /\ fdCache' = LruGet(fdCache, ch.fd)
        /\ RouteTo(ch, CachedAddress(fdCache, ch.fd))
        /\ UNCHANGED <<written, open, perfClosed, closedReaders, evictedCounter,
                       delivered, panicked>>

\* Neither resolves: handleTlsChunk falls back to chunk.getAddressPair(),
\* the address the probe recorded with the chunk, in the chunk's direction.
HandleChunkAddress ==
    LET ch == Head(perf)
    IN  /\ TakeChunk
        /\ ~open[ch.fd]
        /\ ch.fd \notin CachedFds(fdCache)
        /\ RouteTo(ch, DirectedAddress(ch.fd, ch.dir))
        /\ UNCHANGED <<written, open, perfClosed, closedReaders, fdCache,
                       evictedCounter, delivered, panicked>>

\* The chunk's own address does not parse either: the error is returned,
\* logged, and the chunk dropped.
HandleUnresolved ==
    LET ch == Head(perf)
    IN  /\ TakeChunk
        /\ ~open[ch.fd]
        /\ ch.fd \notin CachedFds(fdCache)
        /\ UNCHANGED <<written, open, perfClosed, poll, readers, rdr,
                       closedReaders, fdCache, evictedCounter,
                       delivered, handed, panicked>>

\* Mutant of NewChunk: the send does not wait for room in the channel.
NewChunkUnbounded ==
    /\ ~panicked
    /\ poll.pc = "send"
    /\ ~rdr[poll.rid].closed
    /\ rdr' = [rdr EXCEPT ![poll.rid].chunks = Append(@, Head(poll.chunk))]
    /\ poll' = [pc |-> "select", rid |-> NoReader, chunk |-> <<>>]
    /\ UNCHANGED <<perf, written, open, perfClosed, readers, closedReaders,
                   fdCache, evictedCounter, delivered, handed, panicked>>

\* reader.newChunk(chunk): the send into the reader's channel, blocking
\* while the channel is full.
NewChunk ==
    /\ ~panicked
    /\ poll.pc = "send"
    /\ ~rdr[poll.rid].closed
    /\ Len(rdr[poll.rid].chunks) < ChunkCapacity
    /\ rdr' = [rdr EXCEPT ![poll.rid].chunks = Append(@, Head(poll.chunk))]
    /\ poll' = [pc |-> "select", rid |-> NoReader, chunk |-> <<>>]
    /\ UNCHANGED <<perf, written, open, perfClosed, readers, closedReaders,
                   fdCache, evictedCounter, delivered, handed, panicked>>

\* The reader's channel has been closed: a send on a closed channel panics.
NewChunkOnClosed ==
    /\ ~panicked
    /\ poll.pc = "send"
    /\ rdr[poll.rid].closed
    /\ panicked' = TRUE
    /\ UNCHANGED <<perf, written, open, perfClosed, poll, readers, rdr,
                   closedReaders, fdCache, evictedCounter, delivered,
                   handed>>

\* The select takes a key from closedReaders: delete(p.readers, key).
ForgetClosedReader ==
    /\ ~panicked
    /\ poll.pc = "select"
    /\ closedReaders # <<>>
    /\ readers' = [readers EXCEPT ![Head(closedReaders)] = NoReader]
    /\ closedReaders' = Tail(closedReaders)
    /\ UNCHANGED <<perf, written, open, perfClosed, poll, rdr, fdCache,
                   evictedCounter, delivered, handed, panicked>>

\* The select finds the chunks channel closed: pollSsllib returns.
PollExits ==
    /\ ~panicked
    /\ poll.pc = "select"
    /\ perfClosed
    /\ poll' = [poll EXCEPT !.pc = "exited"]
    /\ UNCHANGED <<perf, written, open, perfClosed, readers, rdr, closedReaders,
                   fdCache, evictedCounter, delivered, handed, panicked>>

---------------------------------------------------------------------------
(* The dissector goroutine of each tlsReader.                              *)

\* tlsReader.Read receives the next chunk from r.chunks.
ReaderConsumes(r) ==
    /\ ~panicked
    /\ rdr[r].pc = "read"
    /\ rdr[r].chunks # <<>>
    /\ delivered' = [delivered EXCEPT ![Head(rdr[r].chunks).id] = r]
    /\ rdr' = [rdr EXCEPT ![r].chunks = Tail(@)]
    /\ UNCHANGED <<perf, written, open, perfClosed, poll, readers, closedReaders,
                   fdCache, evictedCounter, handed, panicked>>

ReaderTimesOut(r) ==
    /\ ~panicked
    /\ rdr[r].pc = "read"
    /\ rdr[r].chunks = <<>>
    /\ rdr' = [rdr EXCEPT ![r].closed = TRUE, ![r].pc = "closing"]
    /\ UNCHANGED <<perf, written, open, perfClosed, poll, readers, closedReaders,
                   fdCache, evictedCounter, delivered, handed, panicked>>

\* closeReader's second statement: p.closedReaders <- key, blocking while
\* the channel is full; then the dissector returns.
ReaderPostsKey(r) ==
    /\ ~panicked
    /\ rdr[r].pc = "closing"
    /\ Len(closedReaders) < ClosedCapacity
    /\ closedReaders' = Append(closedReaders, rdr[r].key)
    /\ rdr' = [rdr EXCEPT ![r].pc = "done"]
    /\ UNCHANGED <<perf, written, open, perfClosed, poll, readers, fdCache,
                   evictedCounter, delivered, handed, panicked>>

ReaderStep(r) == ReaderConsumes(r) \/ ReaderTimesOut(r) \/ ReaderPostsKey(r)

PollStep ==
    \/ HandleLive
    \/ HandleCached
    \/ HandleChunkAddress
    \/ HandleUnresolved
    \/ NewChunk
    \/ NewChunkOnClosed
    \/ ForgetClosedReader
    \/ PollExits

Next ==
    \/ \E f \in Fds, dir \in Dirs : ProcessChunk(f, dir)
    \/ \E f \in Fds : SocketCloses(f)
    \/ PerfReadError
    \/ PollStep
    \/ \E r \in DOMAIN rdr : ReaderConsumes(r) \/ ReaderTimesOut(r) \/ ReaderPostsKey(r)

\* The poll loop and every dissector goroutine run whenever they can (the
\* Go scheduler), and a reader's timeout fires once time passes.  Nothing
\* is assumed of the traced processes or of the kernel.
Spec == Init /\ [][Next]_vars
        /\ WF_vars(PollStep)
        /\ \A r \in ReaderIds : WF_vars(r \in DOMAIN rdr /\ ReaderStep(r))

---------------------------------------------------------------------------
(* Properties.                                                             *)

\* While a reader is open, it is the only open reader of its address pair:
\* lookup-or-create in handleTlsChunk makes one reader per pair for the
\* pair's lifetime, and a replacement is made only after the old one closed
\* (spec 8).  (p.readers, startNewTlsReader, closeReader, the delete.)
OneOpenReaderPerKey ==
    \A r1, r2 \in DOMAIN rdr :
        r1 # r2 /\ rdr[r1].key = rdr[r2].key => rdr[r1].closed \/ rdr[r2].closed

\* No goroutine panics: the poll loop never sends a chunk into a reader
\* whose channel closeReader has closed.  (newChunk against closeReader.)
NoPanic == ~panicked

=============================================================================
