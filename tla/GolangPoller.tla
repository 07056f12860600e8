---------------------------- MODULE GolangPoller ----------------------------
(***************************************************************************)
(* The Go-runtime TLS loop of the TLS poller: pollGolangReadWrite          *)
(* (src/tap/tlstapper/tls_poller.go).  One goroutine reads read/write      *)
(* events from a kernel ring buffer and keeps an insertion-ordered map     *)
(* from (pid, connection address) to a golangConnection with a client and  *)
(* a server reader.  A new connection's stream is stored in the stream     *)
(* map.  A request event resolves the socket address from the fd, sets     *)
(* both readers' tcpID, starts two dissect goroutines and sends the bytes  *)
(* to the client reader; a response event sends them to the server       *)
(* reader.  When the map is full the oldest connection is dropped first.   *)
(*                                                                         *)
(* The ring buffer holds at most MaxEvents records whose content is chosen *)
(* when they are read.  golangConnection and its readers are not under     *)
(* src/: a reader is reduced to the number of chunks sent to it and the    *)
(* number of dissect goroutines started on it (spec 3).                    *)
(***************************************************************************)
EXTENDS Naturals, Sequences, FiniteSets

CONSTANTS
    Ids,            \* identifiers pid<<32 + ConnAddr of traced connections
    GolangMapLimit, \* golangMapLimit
    MaxConns,       \* connections the loop may create in one behaviour
    MaxEvents       \* records the ring buffer delivers in one behaviour

ASSUME GolangMapLimit \in Nat \ {0} /\ MaxConns \in Nat /\ MaxEvents \in Nat

Conns == 1 .. MaxConns

VARIABLES
    gmap,        \* golangReadWriteMap: <<[key, conn], ...>>, oldest first
    conns,       \* golangConnections created so far (and streams stored)
    dissectors,  \* dissectors[c]: dissect goroutines started on each reader of c
    clientSent,  \* clientSent[c]: chunks sent to c.ClientReader
    serverSent,  \* serverSent[c]: chunks sent to c.ServerReader
    tcpIdSet,    \* tcpIdSet[c]: the readers of c have their tcpID
    gzipped,     \* gzipped[c]: connection.Gzipped
    pending      \* records still to come from the ring buffer

vars == <<gmap, conns, dissectors, clientSent, serverSent, tcpIdSet,
          gzipped, pending>>

Keys(m) == {m[i].key : i \in DOMAIN m}

TypeOK ==
    /\ gmap \in Seq([key: Ids, conn: Conns])
    /\ conns \in 0 .. MaxConns
    /\ dissectors \in [Conns -> 0 .. MaxEvents]
    /\ clientSent \in [Conns -> 0 .. MaxEvents]
    /\ serverSent \in [Conns -> 0 .. MaxEvents]
    /\ tcpIdSet \in [Conns -> BOOLEAN]
    /\ gzipped \in [Conns -> BOOLEAN]
    /\ pending \in 0 .. MaxEvents

\* p.golangReadWriteMap = orderedmap.New(), before the loop starts.
Init ==
    /\ gmap = <<>>
    /\ conns = 0
    /\ dissectors = [c \in Conns |-> 0]
    /\ clientSent = [c \in Conns |-> 0]
    /\ serverSent = [c \in Conns |-> 0]
    /\ tcpIdSet = [c \in Conns |-> FALSE]
    /\ gzipped = [c \in Conns |-> FALSE]
    /\ pending = MaxEvents

----------------------------------------------------------------------------
(* One iteration of the loop.                                             *)

\* rd.Read fails with an error other than ErrClosed, or binary.Read cannot
\* parse the sample: the record is logged and skipped.  (Nothing under src/
\* closes golangReader, so the ErrClosed return is never taken.)
BadRecord ==
    /\ pending > 0
    /\ pending' = pending - 1
    /\ UNCHANGED <<gmap, conns, dissectors, clientSent, serverSent,
                   tcpIdSet, gzipped>>

\* Mutant of EvictOldest: the limit test without the +1.
EvictOldestOffByOne(m) == IF Len(m) > GolangMapLimit THEN Tail(m) ELSE m

\* if Len()+1 > golangMapLimit: delete the Oldest() pair, whatever the key
\* of the event being handled.
EvictOldest(m) == IF Len(m) + 1 > GolangMapLimit THEN Tail(m) ELSE m

\* Get(identifier), or NewGolangConnection, Set and streamsMap.Store.  The
\* map after the eviction and the lookup, and the event's connection.
Admit(id) ==
    LET m == EvictOldest(gmap) IN
    IF id \in Keys(m)
    THEN [map |-> m, conn |-> (CHOOSE i \in DOMAIN m : m[i].key = id),
          new |-> FALSE]
    ELSE [map |-> Append(m, [key |-> id, conn |-> conns + 1]),
          conn |-> Len(m) + 1, new |-> TRUE]

\* Mutant of Received: a stream stored for every event, found or created.
ReceivedStoresAlways(id, gz, c) ==
    LET a == Admit(id) IN
    /\ pending > 0
    /\ a.new => conns < MaxConns
    /\ c = a.map[a.conn].conn
    /\ pending' = pending - 1
    /\ gmap' = a.map
    /\ conns' = conns + 1
    /\ gzipped' = IF gz THEN [gzipped EXCEPT ![c] = TRUE] ELSE gzipped

\* The common prefix of an event: eviction, lookup or creation, and
\* `if b.IsGzipChunk { connection.Gzipped = true }`.  c is the connection.
Received(id, gz, c) ==
    LET a == Admit(id) IN
    /\ pending > 0
    /\ a.new => conns < MaxConns
    /\ c = a.map[a.conn].conn
    /\ pending' = pending - 1
    /\ gmap' = a.map
    /\ conns' = IF a.new THEN conns + 1 ELSE conns
    /\ gzipped' = IF gz THEN [gzipped EXCEPT ![c] = TRUE] ELSE gzipped

\* A request event whose fd resolves: both tcpIDs set, two dissect
\* goroutines started, the request bytes sent to the client reader.
HandleRequest(id, gz) ==
    \E c \in Conns :
        /\ Received(id, gz, c)
        /\ tcpIdSet' = [tcpIdSet EXCEPT ![c] = TRUE]
        /\ dissectors' = [dissectors EXCEPT ![c] = @ + 1]
        /\ clientSent' = [clientSent EXCEPT ![c] = @ + 1]
        /\ UNCHANGED serverSent

\* A request event whose fd does not resolve (setAddressBySockfd fails):
\* logged and skipped, after the connection was created and stored.
HandleUnresolved(id, gz) ==
    \E c \in Conns :
        /\ Received(id, gz, c)
        /\ UNCHANGED <<tcpIdSet, dissectors, clientSent, serverSent>>

\* A response event: the bytes are sent to the server reader.
HandleResponse(id, gz) ==
    \E c \in Conns :
        /\ Received(id, gz, c)
        /\ serverSent' = [serverSent EXCEPT ![c] = @ + 1]
        /\ UNCHANGED <<tcpIdSet, dissectors, clientSent>>

Next ==
    \/ BadRecord
    \/ \E id \in Ids, gz \in BOOLEAN :
          \/ HandleRequest(id, gz)
          \/ HandleUnresolved(id, gz)
          \/ HandleResponse(id, gz)

\* A single goroutine that Go schedules: it takes every record the ring
\* buffer delivers.
Spec == Init /\ [][Next]_vars /\ WF_vars(Next)

----------------------------------------------------------------------------
(* Properties.                                                            *)

\* The ordered map never holds more than golangMapLimit connections,
\* however events of new and known identifiers interleave (the eviction
\* test `Len()+1 > golangMapLimit` before Get and Set).
MapWithinLimit == Len(gmap) <= GolangMapLimit

\* Each reader of a connection is consumed by exactly one dissector
\* goroutine (spec 3, Directional Reader).  Every request event that
\* resolves runs `go dissect(...)` on both readers again, also for a
\* connection whose dissectors already run.
OneDissectorPerReader == \A c \in Conns : dissectors[c] <= 1
=============================================================================
