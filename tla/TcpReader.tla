------------------------------ MODULE TcpReader ------------------------------
(***************************************************************************)
(* One directional tcpReader (src/tap/tcp_reader.go) between the capture   *)
(* side that writes reassembled payload chunks into its msgQueue channel   *)
(* and the dissector goroutine that reads it through bufio, calling Read   *)
(* again and again until io.EOF.                                           *)
(*                                                                         *)
(* A byte is abstracted to its position in the stream: the k-th byte       *)
(* written is k, so loss, duplication and reordering all show.  A chunk    *)
(* also says whether it parses as a TLS ClientHello; only chunks of the    *)
(* longest length stand for those over 5 bytes, which Read tries to parse. *)
(***************************************************************************)
EXTENDS Naturals, Sequences, SequencesExt

CONSTANTS
    MaxBytes,        \* bound: bytes the capture side writes on the stream
    MaxChunks,       \* bound: chunks the capture side writes (empty ones too)
    MaxChunkLen,     \* longest chunk; chunks this long stand for > 5 bytes
    MaxRead,         \* largest len(p) the bufio reader passes to Read
    QueueCapacity,   \* capacity of the msgQueue channel
    TlsCheckAmount   \* checkTLSPacketAmount

ASSUME
    /\ MaxBytes \in Nat \ {0}
    /\ MaxChunks \in Nat \ {0}
    /\ MaxChunkLen \in Nat \ {0}
    /\ MaxRead \in Nat \ {0}
    /\ QueueCapacity \in Nat \ {0}
    /\ TlsCheckAmount \in Nat \ {0}

Chunk == [bytes: Seq(Nat), hello: BOOLEAN]

VARIABLES
    msgQueue,       \* the channel's buffered chunks
    closed,         \* the channel has been closed by the stream
    written,        \* bytes written into the channel so far
    chunks,         \* chunks written into the channel so far
    data,           \* h.data: the residual bytes of the last chunk
    consumed,       \* bytes Read has returned to the dissector, in order
    eof,            \* Read has returned io.EOF; the dissector has stopped
    packetsSeen,    \* h.packetsSeen
    outboundLinks   \* WriteOutboundLink calls made for detected ClientHellos

vars == <<msgQueue, closed, written, chunks, data, consumed, eof,
          packetsSeen, outboundLinks>>

TypeOK ==
    /\ msgQueue \in Seq(Chunk)
    /\ Len(msgQueue) <= QueueCapacity
    /\ closed \in BOOLEAN
    /\ written \in 0 .. MaxBytes
    /\ chunks \in 0 .. MaxChunks
    /\ data \in Seq(Nat)
    /\ consumed \in Seq(Nat)
    /\ eof \in BOOLEAN
    /\ packetsSeen \in 0 .. chunks
    /\ outboundLinks \in 0 .. TlsCheckAmount - 1

Init ==
    /\ msgQueue = <<>>
    /\ closed = FALSE
    /\ written = 0
    /\ chunks = 0
    /\ data = <<>>
    /\ consumed = <<>>
    /\ eof = FALSE
    /\ packetsSeen = 0
    /\ outboundLinks = 0

---------------------------------------------------------------------------
(* The capture side: the stream sends reassembled payload and, when the   *)
(* connection ends, closes the channel.  A send blocks on a full channel. *)

StreamWrites ==
    /\ ~closed
    /\ chunks < MaxChunks
    /\ Len(msgQueue) < QueueCapacity
    /\ \E len \in 0 .. MaxChunkLen, hello \in BOOLEAN :
          /\ written + len <= MaxBytes
          /\ hello => len = MaxChunkLen
          /\ msgQueue' = Append(msgQueue,
                [bytes |-> [i \in 1 .. len |-> written + i], hello |-> hello])
          /\ written' = written + len
    /\ chunks' = chunks + 1
    /\ UNCHANGED <<closed, data, consumed, eof, packetsSeen, outboundLinks>>

StreamCloses ==
    /\ ~closed
    /\ closed' = TRUE
    /\ UNCHANGED <<msgQueue, written, chunks, data, consumed, eof,
                   packetsSeen, outboundLinks>>

---------------------------------------------------------------------------
(* Read.  Each receive from the channel is one step; the copy into p that *)
(* follows a non-empty receive involves no shared state and is part of   *)
(* the same step.                                                          *)

\* l := copy(p, h.data); h.data = h.data[l:], for some len(p) = n.
CopyOut(from) ==
    \E n \in 1 .. MaxRead :
        LET l == IF n < Len(from) THEN n ELSE Len(from)
        IN  /\ consumed' = consumed \o SubSeq(from, 1, l)
            /\ data' = SubSeq(from, l + 1, Len(from))

\* Mutant of TlsCheck: the ClientHello check also runs on the packet that
\* brings packetsSeen up to checkTLSPacketAmount (<= for <).
TlsCheckInclusive(msg) ==
    LET seen == IF msg.bytes # <<>> THEN packetsSeen + 1 ELSE packetsSeen
    IN  /\ packetsSeen' = seen
        /\ outboundLinks' =
              IF seen <= TlsCheckAmount /\ Len(msg.bytes) = MaxChunkLen /\ msg.hello
                 THEN outboundLinks + 1
                 ELSE outboundLinks

\* The bookkeeping after a receive: count non-empty packets, and while
\* packetsSeen < checkTLSPacketAmount try to parse chunks over 5 bytes as
\* a ClientHello, reporting an outbound link on success.
TlsCheck(msg) ==
    LET seen == IF msg.bytes # <<>> THEN packetsSeen + 1 ELSE packetsSeen
    IN  /\ packetsSeen' = seen
        /\ outboundLinks' =
              IF seen < TlsCheckAmount /\ Len(msg.bytes) = MaxChunkLen /\ msg.hello
                 THEN outboundLinks + 1
                 ELSE outboundLinks

\* Read with residual bytes: the receive loop is skipped.
ReadBuffered ==
    /\ ~eof
    /\ data # <<>>
    /\ CopyOut(data)
    /\ UNCHANGED <<msgQueue, closed, written, chunks, eof, packetsSeen,
                   outboundLinks>>

\* The loop receives a non-empty chunk, leaves the loop and copies out.
ReceiveChunk ==
    /\ ~eof
    /\ data = <<>>
    /\ msgQueue # <<>>
    /\ Head(msgQueue).bytes # <<>>
    /\ msgQueue' = Tail(msgQueue)
    /\ TlsCheck(Head(msgQueue))
    /\ CopyOut(Head(msgQueue).bytes)
    /\ UNCHANGED <<closed, written, chunks, eof>>

\* The loop receives an empty chunk and goes round again.
ReceiveEmptyChunk ==
    /\ ~eof
    /\ data = <<>>
    /\ msgQueue # <<>>
    /\ Head(msgQueue).bytes = <<>>
    /\ msgQueue' = Tail(msgQueue)
    /\ TlsCheck(Head(msgQueue))
    /\ UNCHANGED <<closed, written, chunks, data, consumed, eof>>

\* Mutant of ReceiveClosed: io.EOF as soon as the channel is closed, with
\* chunks still buffered in it or residual bytes in h.data.
ReceiveClosedEarly ==
    /\ ~eof
    /\ closed
    /\ eof' = TRUE
    /\ UNCHANGED <<msgQueue, closed, written, chunks, data, consumed,
                   packetsSeen, outboundLinks>>

\* The receive finds the channel closed and drained: ok is false, io.EOF.
ReceiveClosed ==
    /\ ~eof
    /\ data = <<>>
    /\ msgQueue = <<>>
    /\ closed
    /\ eof' = TRUE
    /\ UNCHANGED <<msgQueue, closed, written, chunks, data, consumed,
                   packetsSeen, outboundLinks>>

ReaderStep == ReadBuffered \/ ReceiveChunk \/ ReceiveEmptyChunk \/ ReceiveClosed

Next ==
    \/ StreamWrites
    \/ StreamCloses
    \/ ReadBuffered
    \/ ReceiveChunk
    \/ ReceiveEmptyChunk
    \/ ReceiveClosed

\* The dissector goroutine loops on Read until io.EOF, and the Go scheduler
\* runs every runnable goroutine: the reader is weakly fair.
Spec == Init /\ [][Next]_vars /\ WF_vars(ReaderStep)

---------------------------------------------------------------------------
(* Refinement: the reader is a ByteStream whose pending bytes are the     *)
(* residual buffer followed by the chunks still queued in the channel.    *)

Queued == FlattenSeq([i \in DOMAIN msgQueue |-> msgQueue[i].bytes])

Stream == INSTANCE ByteStream
            WITH pending <- data \o Queued,
                 delivered <- consumed,
                 closed <- closed,
                 eof <- eof

\* Read returns the written bytes in order, however the chunks were cut and
\* whatever len(p) was, never loses, repeats or reorders one, reports EOF
\* only after the last byte, and (the reader being fair) eventually does so.
ByteStreamSpec == Stream!Spec
=============================================================================
