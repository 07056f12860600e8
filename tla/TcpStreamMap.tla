---------------------------- MODULE TcpStreamMap ----------------------------
(***************************************************************************)
(* The stream registry (src/tap/tcp_streams_map.go) and the goroutines     *)
(* that use it:                                                            *)
(*   - registering goroutines: each one builds a stream and calls          *)
(*     Store(NextId(), stream).  The assembler registers TCP streams      *)
(*     (spec 4.5; the TCP stream factory under src/ does not call Store,   *)
(*     so this caller is modelled from the spec).  The                     *)
(*     TLS poller's chunk loop (startNewTlsReader) and its Go-runtime loop *)
(*     (pollGolangReadWrite) register TLS streams;                         *)
(*   - the dissectors, which call SetProtocol on a stream they recognise;  *)
(*   - reassembly, which tears a TCP stream down when its connection ends; *)
(*   - the CloseTimedoutTcpStreamChannels sweep, which on every tick       *)
(*     Ranges over the map and closes each stream that is unidentified,    *)
(*     still open and older than the timeout.                              *)
(*                                                                         *)
(* NextId is an unsynchronised streamId++: a load and a store that other   *)
(* goroutines' steps can come between.  The sweep's check and its close    *)
(* are separate steps too, with no lock held across them.  The passage of  *)
(* time is abstracted to one flag per stream: its age exceeds the timeout. *)
(***************************************************************************)
EXTENDS Naturals, FiniteSets, TLC

CONSTANTS
    Streams,        \* stream objects that may be created (model values)
    TcpCallers,     \* goroutines registering TCP streams (the assembler)
    TlsCallers,     \* goroutines registering TLS streams (the two poll loops)
    NoStream        \* model value: no stream

ASSUME
    /\ TcpCallers \cap TlsCallers = {}
    /\ NoStream \notin Streams

Callers == TcpCallers \cup TlsCallers

\* Every registration takes one id, so ids never exceed the streams created.
MaxId == Cardinality(Streams)
Ids == 1 .. MaxId

Kinds == {"none", "tcp", "tls"}

VARIABLES
    streams,    \* the sync.Map: a function from the ids stored to streams
    streamId,   \* tcpStreamMap.streamId
    caller,     \* per registering goroutine, where it is in Store(NextId(), s)
    kind,       \* per stream: not created yet, a *tcpStream or a *tlsStream
    protocol,   \* per stream: protoIdentifier.Protocol != nil
    isClosed,   \* per stream: isClosed
    old,        \* per stream: time.Now() is after createdAt + the timeout
    sweep,      \* the sweep goroutine
    dropped,    \* per stream: IncDroppedTcpStreams calls made for it
    panicked    \* a goroutine panicked: the tapper process is gone

vars == <<streams, streamId, caller, kind, protocol, isClosed, old, sweep,
          dropped, panicked>>

Caller == [pc: {"idle", "loaded", "stored"}, tmp: 0 .. MaxId, stream: Streams \cup {NoStream}]
Sweep == [pc: {"wait", "visit", "close"}, toVisit: SUBSET Ids,
          cur: Streams \cup {NoStream}]

TypeOK ==
    /\ DOMAIN streams \subseteq Ids
    /\ \A i \in DOMAIN streams : streams[i] \in Streams
    /\ streamId \in 0 .. MaxId
    /\ caller \in [Callers -> Caller]
    /\ kind \in [Streams -> Kinds]
    /\ protocol \in [Streams -> BOOLEAN]
    /\ isClosed \in [Streams -> BOOLEAN]
    /\ old \in [Streams -> BOOLEAN]
    /\ sweep \in Sweep
    /\ dropped \in [Streams -> Nat]
    /\ panicked \in BOOLEAN

\* NewTcpStreamMap: an empty sync.Map and streamId 0.
Init ==
    /\ streams = [i \in {} |-> NoStream]
    /\ streamId = 0
    /\ caller = [g \in Callers |-> [pc |-> "idle", tmp |-> 0, stream |-> NoStream]]
    /\ kind = [s \in Streams |-> "none"]
    /\ protocol = [s \in Streams |-> FALSE]
    /\ isClosed = [s \in Streams |-> FALSE]
    /\ old = [s \in Streams |-> FALSE]
    /\ sweep = [pc |-> "wait", toVisit |-> {}, cur |-> NoStream]
    /\ dropped = [s \in Streams |-> 0]
    /\ panicked = FALSE

Created(s) == kind[s] # "none"
Held(s) == \E g \in Callers : caller[g].stream = s
Stored(s) == \E i \in DOMAIN streams : streams[i] = s

---------------------------------------------------------------------------
(* Registration: streamsMap.Store(streamsMap.NextId(), stream).            *)

\* The goroutine has built a new stream and NextId loads streamId.
NextIdLoad(g) ==
    /\ ~panicked
    /\ caller[g].pc = "idle"
    /\ \E s \in Streams :
          /\ ~Created(s)
          /\ kind' = [kind EXCEPT ![s] = IF g \in TcpCallers THEN "tcp" ELSE "tls"]
          /\ caller' = [caller EXCEPT ![g] = [pc |-> "loaded", tmp |-> streamId, stream |-> s]]
    /\ UNCHANGED <<streams, streamId, protocol, isClosed, old, sweep, dropped,
                   panicked>>

\* NextId: streamId++ stores the incremented value it loaded.
NextIdStore(g) ==
    /\ ~panicked
    /\ caller[g].pc = "loaded"
    /\ streamId' = caller[g].tmp + 1
    /\ caller' = [caller EXCEPT ![g].pc = "stored"]
    /\ UNCHANGED <<streams, kind, protocol, isClosed, old, sweep, dropped,
                   panicked>>

\* Mutant of NextIdReturn: NextId hands out the value streamId had before
\* the increment (return streamId++ instead of ++streamId).
NextIdReturnPostIncrement(g) ==
    /\ ~panicked
    /\ caller[g].pc = "stored"
    /\ streams' = (streamId - 1 :> caller[g].stream) @@ streams
    /\ caller' = [caller EXCEPT ![g] = [pc |-> "idle", tmp |-> 0, stream |-> NoStream]]
    /\ UNCHANGED <<streamId, kind, protocol, isClosed, old, sweep, dropped,
                   panicked>>

\* return streamMap.streamId reads the field again, whatever other callers
\* stored since; the caller then Stores its stream under that id,
\* replacing whatever was there.
NextIdReturn(g) ==
    /\ ~panicked
    /\ caller[g].pc = "stored"
    /\ streams' = (streamId :> caller[g].stream) @@ streams
    /\ caller' = [caller EXCEPT ![g] = [pc |-> "idle", tmp |-> 0, stream |-> NoStream]]
    /\ UNCHANGED <<streamId, kind, protocol, isClosed, old, sweep, dropped,
                   panicked>>

---------------------------------------------------------------------------
(* The streams' own life: time passing, dissectors, reassembly.            *)

\* The stream's age passes tcpStreamChannelTimeoutMs.
Age(s) ==
    /\ ~panicked
    /\ Created(s)
    /\ ~old[s]
    /\ old' = [old EXCEPT ![s] = TRUE]
    /\ UNCHANGED <<streams, streamId, caller, kind, protocol, isClosed, sweep,
                   dropped, panicked>>

\* A dissector recognises a frame of its protocol and calls
\* reader.GetParent().SetProtocol; it may still be draining bytes buffered
\* before the stream was closed.
SetProtocol(s) ==
    /\ ~panicked
    /\ Created(s)
    /\ ~protocol[s]
    /\ protocol' = [protocol EXCEPT ![s] = TRUE]
    /\ UNCHANGED <<streams, streamId, caller, kind, isClosed, old, sweep,
                   dropped, panicked>>

\* Reassembly reports the end of a TCP connection: the stream is closed and
\* deleted from the map.
Teardown(s) ==
    /\ ~panicked
    /\ kind[s] = "tcp"
    /\ Stored(s)
    /\ ~isClosed[s]
    /\ isClosed' = [isClosed EXCEPT ![s] = TRUE]
    /\ streams' = [i \in {j \in DOMAIN streams : streams[j] # s} |-> streams[i]]
    /\ UNCHANGED <<streamId, caller, kind, protocol, old, sweep, dropped,
                   panicked>>

---------------------------------------------------------------------------
(* CloseTimedoutTcpStreamChannels.                                         *)

\* The condition the Range callback tests before closing a stream.
Expired(s) == ~protocol[s] /\ ~isClosed[s] /\ old[s]

\* <-ticker.C, then streams.Range: the entries the Range visits.  Entries
\* stored after the Range starts are left to the next tick.
SweepTick ==
    /\ ~panicked
    /\ sweep.pc = "wait"
    /\ sweep' = [sweep EXCEPT !.pc = "visit", !.toVisit = DOMAIN streams]
    /\ UNCHANGED <<streams, streamId, caller, kind, protocol, isClosed, old,
                   dropped, panicked>>

\* The callback asserts value.(*tcpStream): a *tlsStream makes the
\* single-value type assertion panic.
SweepVisitForeign(i) ==
    /\ ~panicked
    /\ sweep.pc = "visit"
    /\ i \in sweep.toVisit
    /\ i \in DOMAIN streams
    /\ kind[streams[i]] = "tls"
    /\ panicked' = TRUE
    /\ UNCHANGED <<streams, streamId, caller, kind, protocol, isClosed, old,
                   sweep, dropped>>

\* The callback finds an unidentified, open stream past the timeout.
SweepVisitExpired(i) ==
    /\ ~panicked
    /\ sweep.pc = "visit"
    /\ i \in sweep.toVisit
    /\ i \in DOMAIN streams
    /\ kind[streams[i]] = "tcp"
    /\ Expired(streams[i])
    /\ sweep' = [pc |-> "close", toVisit |-> sweep.toVisit \ {i}, cur |-> streams[i]]
    /\ UNCHANGED <<streams, streamId, caller, kind, protocol, isClosed, old,
                   dropped, panicked>>

\* Mutant of SweepVisitSkip: the callback returns false, which stops the
\* Range, for a stream it leaves alone.
SweepVisitSkipStops(i) ==
    /\ ~panicked
    /\ sweep.pc = "visit"
    /\ i \in sweep.toVisit
    /\ \/ i \notin DOMAIN streams
       \/ i \in DOMAIN streams /\ kind[streams[i]] = "tcp" /\ ~Expired(streams[i])
    /\ sweep' = [sweep EXCEPT !.toVisit = {}]
    /\ UNCHANGED <<streams, streamId, caller, kind, protocol, isClosed, old,
                   dropped, panicked>>

\* The callback leaves the stream alone and returns true; an entry deleted
\* since the Range started is not visited.
SweepVisitSkip(i) ==
    /\ ~panicked
    /\ sweep.pc = "visit"
    /\ i \in sweep.toVisit
    /\ \/ i \notin DOMAIN streams
       \/ i \in DOMAIN streams /\ kind[streams[i]] = "tcp" /\ ~Expired(streams[i])
    /\ sweep' = [sweep EXCEPT !.toVisit = @ \ {i}]
    /\ UNCHANGED <<streams, streamId, caller, kind, protocol, isClosed, old,
                   dropped, panicked>>

\* stream.close() and IncDroppedTcpStreams(), then on to the next entry.
SweepClose ==
    /\ ~panicked
    /\ sweep.pc = "close"
    /\ isClosed' = [isClosed EXCEPT ![sweep.cur] = TRUE]
    /\ dropped' = [dropped EXCEPT ![sweep.cur] = @ + 1]
    /\ sweep' = [sweep EXCEPT !.pc = "visit", !.cur = NoStream]
    /\ UNCHANGED <<streams, streamId, caller, kind, protocol, old, panicked>>

\* The Range has visited every entry; wait for the next tick.
SweepDone ==
    /\ ~panicked
    /\ sweep.pc = "visit"
    /\ sweep.toVisit = {}
    /\ sweep' = [sweep EXCEPT !.pc = "wait"]
    /\ UNCHANGED <<streams, streamId, caller, kind, protocol, isClosed, old,
                   dropped, panicked>>

SweepStep ==
    \/ SweepTick
    \/ \E i \in Ids : SweepVisitForeign(i) \/ SweepVisitExpired(i) \/ SweepVisitSkip(i)
    \/ SweepClose
    \/ SweepDone

Next ==
    \/ \E g \in Callers : NextIdLoad(g) \/ NextIdStore(g) \/ NextIdReturn(g)
    \/ \E s \in Streams : Age(s) \/ SetProtocol(s) \/ Teardown(s)
    \/ SweepTick
    \/ \E i \in Ids : SweepVisitForeign(i) \/ SweepVisitExpired(i) \/ SweepVisitSkip(i)
    \/ SweepClose
    \/ SweepDone

\* The sweep goroutine loops on its ticker for the life of the process, and
\* the Go scheduler runs it: its steps are weakly fair.  Nothing else is
\* assumed to happen.
Spec == Init /\ [][Next]_vars /\ WF_vars(SweepStep)

---------------------------------------------------------------------------
(* Properties.                                                             *)

\* Every stream whose Store(NextId(), s) has completed stays in the map
\* until reassembly tears it down: NextId hands out each id once, so no
\* Store overwrites another goroutine's stream (spec 4.5: concurrent-safe,
\* monotonically increasing ids).  (NextId's streamId++.)
StoredStreamsRetained ==
    \A s \in Streams :
        Created(s) /\ ~Held(s) => Stored(s) \/ isClosed[s]

\* A stored TCP stream that is unidentified, open and past the timeout is
\* eventually closed by the sweep, unless a dissector identifies it first,
\* another Store under a colliding id takes its entry (the collision of
\* StoredStreamsRetained, which then leaves it open for good) or the
\* process has died.  (The ticker loop and its Range over every entry,
\* against Stores that replace entries.)
UnidentifiedEventuallyClosed ==
    \A s \in Streams :
        (Stored(s) /\ kind[s] = "tcp" /\ Expired(s))
            ~> (isClosed[s] \/ protocol[s] \/ ~Stored(s) \/ panicked)
=============================================================================
