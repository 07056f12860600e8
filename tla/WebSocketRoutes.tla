--------------------------- MODULE WebSocketRoutes ---------------------------
(***************************************************************************)
(* The agent's websocket routes (src/agent/pkg/api/socket_routes.go).      *)
(* Each upgraded connection runs websocketHandler in its own goroutine: it *)
(* takes the next socket id under websocketIdsLock, stores the connection  *)
(* in connectedWebsockets, and reads messages until the read fails; a UI   *)
(* socket's first message is a query whose results a data goroutine       *)
(* writes to the socket.  On the way out the deferred function hands       *)
(* basenine.CloseChannel to the data goroutine, closes the data channel    *)
(* and the basenine connection and calls socketCleanup.  Other goroutines  *)
(* call SendToSocket(id, msg), which writes under the socket's lock and    *)
(* arms a 5 s timer that calls socketCleanup itself if the write has not   *)
(* finished.                                                               *)
(***************************************************************************)
EXTENDS Naturals, FiniteSets

CONSTANTS
    Handlers,    \* incoming /ws and /wsTapper requests
    Senders,     \* goroutines calling SendToSocket
    MaxSends,    \* bound: SendToSocket calls in all
    MaxEntries,  \* bound: query results basenine streams on data channels
    NoSender     \* the socket lock is free

Ids == 1 .. Cardinality(Handlers)
NoId == 0

VARIABLES
    counter,     \* connectedWebsocketIdCounter
    entry,       \* connectedWebsockets[id]: "absent", "live" or "nil"
    wsOpen,      \* the server side has not closed the connection
    clientGone,  \* the peer has closed the connection
    hid,         \* the socketId of each handler, NoId before it has one
    hd,          \* each handler: pc, isTapper, isQuerySet
    dg,          \* the data goroutine of each id
    streamed,    \* query results basenine has put on data channels
    connected,   \* ids WebSocketConnect was called for
    disconnects, \* WebSocketDisconnect calls per id
    snd,         \* each SendToSocket call in progress
    sends,       \* SendToSocket calls made
    lockHolder   \* the goroutine holding a socket's lock

vars == <<counter, entry, wsOpen, clientGone, hid, hd, dg, streamed,
          connected, disconnects, snd, sends, lockHolder>>

Init ==
    /\ counter = 0
    /\ entry = [i \in Ids |-> "absent"]
    /\ wsOpen = [i \in Ids |-> FALSE]
    /\ clientGone = [i \in Ids |-> FALSE]
    /\ hid = [h \in Handlers |-> NoId]
    /\ hd \in [Handlers -> [pc: {"new"}, isTapper: BOOLEAN,
                            isQuerySet: {FALSE}]]
    /\ dg = [i \in Ids |-> "none"]
    /\ streamed = 0
    /\ connected = {}
    /\ disconnects = [i \in Ids |-> 0]
    /\ snd = [g \in Senders |-> [pc |-> "idle", id |-> NoId, sent |-> FALSE,
                                 timer |-> FALSE]]
    /\ sends = 0
    /\ lockHolder = [i \in Ids |-> NoSender]

----------------------------------------------------------------------------
(* socketCleanup(id, obj): close the connection, set the entry to nil     *)
(* under websocketIdsLock and call WebSocketDisconnect.                    *)
SocketCleanup(i) ==
    /\ wsOpen' = [wsOpen EXCEPT ![i] = FALSE]
    /\ entry' = [entry EXCEPT ![i] = "nil"]
    /\ disconnects' = [disconnects EXCEPT ![i] = @ + 1]
    /\ UNCHANGED <<counter, clientGone, hid, dg, streamed, connected>>

HandlerOf(h) == hid[h]

----------------------------------------------------------------------------
(* websocketHandler, one action per step of the handler goroutine h.      *)

\* Under websocketIdsLock: counter++, socketId := counter,
\* connectedWebsockets[socketId] = &SocketConnection{...}.
TakeId(h) ==
    /\ counter' = counter + 1
    /\ hid' = [hid EXCEPT ![h] = counter']
    /\ entry' = [entry EXCEPT ![counter + 1] = "live"]
    /\ wsOpen' = [wsOpen EXCEPT ![counter + 1] = TRUE]

\* The upgraded socket is registered; a UI socket then opens its basenine
\* connection.
Register(h) ==
    /\ hd[h].pc = "new"
    /\ TakeId(h)
    /\ hd' = [hd EXCEPT ![h].pc = "connect"]
    /\ UNCHANGED <<clientGone, dg, streamed, connected, disconnects, snd,
                   sends, lockHolder>>

\* basenine.NewConnection fails for a UI socket: panic(err) before the
\* deferred cleanup is registered; net/http recovers the handler.
RegisterBasenineFails(h) ==
    /\ hd[h].pc = "new"
    /\ ~hd[h].isTapper
    /\ TakeId(h)
    /\ hd' = [hd EXCEPT ![h].pc = "done"]
    /\ UNCHANGED <<clientGone, dg, streamed, connected, disconnects, snd,
                   sends, lockHolder>>

\* eventHandlers.WebSocketConnect(socketId, isTapper).
Connect(h) ==
    /\ hd[h].pc = "connect"
    /\ connected' = connected \cup {HandlerOf(h)}
    /\ hd' = [hd EXCEPT ![h].pc = "loop"]
    /\ UNCHANGED <<counter, entry, wsOpen, clientGone, hid, dg, streamed,
                   disconnects, snd, sends, lockHolder>>

\* ws.ReadMessage fails (the peer or socketCleanup closed it): break.
ReadFails(h) ==
    /\ hd[h].pc = "loop"
    /\ clientGone[HandlerOf(h)] \/ ~wsOpen[HandlerOf(h)]
    /\ hd' = [hd EXCEPT ![h].pc = "deferSend"]
    /\ UNCHANGED <<counter, entry, wsOpen, clientGone, hid, dg, streamed,
                   connected, disconnects, snd, sends, lockHolder>>

\* A UI socket's first message validates as a query: isQuerySet, the data
\* goroutine starts and c.Query streams results on the data channel.  (A
\* message on a tapper socket, or a later one, goes to WebSocketMessage and
\* changes nothing kept here.)
ReadQuery(h) ==
    /\ hd[h].pc = "loop"
    /\ ~clientGone[HandlerOf(h)] /\ wsOpen[HandlerOf(h)]
    /\ ~hd[h].isTapper /\ ~hd[h].isQuerySet
    /\ hd' = [hd EXCEPT ![h].isQuerySet = TRUE]
    /\ dg' = [dg EXCEPT ![HandlerOf(h)] = "idle"]
    /\ UNCHANGED <<counter, entry, wsOpen, clientGone, hid, streamed,
                   connected, disconnects, snd, sends, lockHolder>>

\* The query fails basenine.Validate: a toast is written, then break.
ReadBadQuery(h) ==
    /\ hd[h].pc = "loop"
    /\ ~clientGone[HandlerOf(h)] /\ wsOpen[HandlerOf(h)]
    /\ ~hd[h].isTapper /\ ~hd[h].isQuerySet
    /\ hd' = [hd EXCEPT ![h].pc = "toast"]
    /\ UNCHANGED <<counter, entry, wsOpen, clientGone, hid, dg, streamed,
                   connected, disconnects, snd, sends, lockHolder>>

Toast(h) ==
    /\ hd[h].pc = "toast"
    /\ hd' = [hd EXCEPT ![h].pc = "deferSend"]
    /\ UNCHANGED <<counter, entry, wsOpen, clientGone, hid, dg, streamed,
                   connected, disconnects, snd, sends, lockHolder>>

\* The deferred data <- CloseChannel on the unbuffered channel: it
\* completes only when the data goroutine is there to receive it.
DeferSend(h) ==
    /\ hd[h].pc = "deferSend"
    /\ dg[HandlerOf(h)] = "idle"
    /\ dg' = [dg EXCEPT ![HandlerOf(h)] = "done"]
    /\ hd' = [hd EXCEPT ![h].pc = "deferClose"]
    /\ UNCHANGED <<counter, entry, wsOpen, clientGone, hid, streamed,
                   connected, disconnects, snd, sends, lockHolder>>

\* close(data); c.Close(); socketCleanup(socketId, connectedWebsockets[
\* socketId]).  (Only a socket with a data goroutine gets here, so c is
\* never nil.)
DeferClose(h) ==
    /\ hd[h].pc = "deferClose"
    /\ entry[HandlerOf(h)] = "live"
    /\ SocketCleanup(HandlerOf(h))
    /\ hd' = [hd EXCEPT ![h].pc = "done"]
    /\ UNCHANGED <<snd, sends, lockHolder>>

\* A timer's socketCleanup already set the entry to nil: socketCleanup
\* dereferences the nil *SocketConnection and the handler panics.
DeferCloseNil(h) ==
    /\ hd[h].pc = "deferClose"
    /\ entry[HandlerOf(h)] = "nil"
    /\ hd' = [hd EXCEPT ![h].pc = "done"]
    /\ UNCHANGED <<counter, entry, wsOpen, clientGone, hid, dg, streamed,
                   connected, disconnects, snd, sends, lockHolder>>

----------------------------------------------------------------------------
(* The peer, and the data goroutine handleDataChannel.                    *)

ClientCloses(i) ==
    /\ entry[i] # "absent"
    /\ ~clientGone[i]
    /\ clientGone' = [clientGone EXCEPT ![i] = TRUE]
    /\ UNCHANGED <<counter, entry, wsOpen, hid, hd, dg, streamed, connected,
                   disconnects, snd, sends, lockHolder>>

\* The data goroutine receives a query result and writes it to the socket.
DataReceived(i) ==
    /\ dg[i] = "idle"
    /\ streamed < MaxEntries
    /\ dg' = [dg EXCEPT ![i] = "writing"]
    /\ streamed' = streamed + 1
    /\ UNCHANGED <<counter, entry, wsOpen, clientGone, hid, hd, connected,
                   disconnects, snd, sends, lockHolder>>

DataWritten(i) ==
    /\ dg[i] = "writing"
    /\ dg' = [dg EXCEPT ![i] = "idle"]
    /\ UNCHANGED <<counter, entry, wsOpen, clientGone, hid, hd, streamed,
                   connected, disconnects, snd, sends, lockHolder>>

----------------------------------------------------------------------------
(* SendToSocket(socketId, message), called by goroutine g.  The caller    *)
(* knows socketId from WebSocketConnect.                                   *)

\* connectedWebsockets[socketId] is nil: "Socket is disconnected".
SendDisconnected(g, i) ==
    /\ snd[g].pc = "idle"
    /\ sends < MaxSends
    /\ i \in connected
    /\ entry[i] # "live"
    /\ sends' = sends + 1
    /\ UNCHANGED <<counter, entry, wsOpen, clientGone, hid, hd, dg, streamed,
                   connected, disconnects, snd, lockHolder>>

\* The entry is loaded and time.AfterFunc arms the 5 s timer.
SendStart(g, i) ==
    /\ snd[g].pc = "idle"
    /\ sends < MaxSends
    /\ i \in connected
    /\ entry[i] = "live"
    /\ sends' = sends + 1
    /\ snd' = [snd EXCEPT ![g] = [pc |-> "lock", id |-> i, sent |-> FALSE,
                                  timer |-> TRUE]]
    /\ UNCHANGED <<counter, entry, wsOpen, clientGone, hid, hd, dg, streamed,
                   connected, disconnects, lockHolder>>

\* socketObj.lock.Lock().
SendLock(g) ==
    /\ snd[g].pc = "lock"
    /\ lockHolder[snd[g].id] = NoSender
    /\ lockHolder' = [lockHolder EXCEPT ![snd[g].id] = g]
    /\ snd' = [snd EXCEPT ![g].pc = "write"]
    /\ UNCHANGED <<counter, entry, wsOpen, clientGone, hid, hd, dg, streamed,
                   connected, disconnects, sends>>

\* WriteMessage returns (with an error if the socket was closed meanwhile),
\* then socketObj.lock.Unlock().
SendWritten(g) ==
    /\ snd[g].pc = "write"
    /\ lockHolder' = [lockHolder EXCEPT ![snd[g].id] = NoSender]
    /\ snd' = [snd EXCEPT ![g].pc = "unlocked"]
    /\ UNCHANGED <<counter, entry, wsOpen, clientGone, hid, hd, dg, streamed,
                   connected, disconnects, sends>>

\* sent = true and SendToSocket returns; the timer, when it fires, then
\* does nothing.  (Until this step the timer may still clean the socket up.)
SendReturns(g) ==
    /\ snd[g].pc = "unlocked"
    /\ snd' = [snd EXCEPT ![g] = [@ EXCEPT !.pc = "idle", !.sent = TRUE,
                                            !.timer = FALSE]]
    /\ UNCHANGED <<counter, entry, wsOpen, clientGone, hid, hd, dg, streamed,
                   connected, disconnects, sends, lockHolder>>

\* The timer fires while the call has not set sent: socketCleanup on the
\* socket object loaded at the start, from the timer's own goroutine.
TimerFires(g) ==
    /\ snd[g].timer
    /\ ~snd[g].sent
    /\ SocketCleanup(snd[g].id)
    /\ snd' = [snd EXCEPT ![g].timer = FALSE]
    /\ UNCHANGED <<hd, sends, lockHolder>>

----------------------------------------------------------------------------
HandlerStep(h) ==
    \/ Register(h) \/ Connect(h) \/ ReadFails(h) \/ ReadQuery(h)
    \/ ReadBadQuery(h) \/ Toast(h) \/ DeferSend(h) \/ DeferClose(h)
    \/ DeferCloseNil(h)

Next ==
    \/ \E h \in Handlers :
          \/ Register(h) \/ RegisterBasenineFails(h) \/ Connect(h)
          \/ ReadFails(h) \/ ReadQuery(h) \/ ReadBadQuery(h) \/ Toast(h)
          \/ DeferSend(h) \/ DeferClose(h) \/ DeferCloseNil(h)
    \/ \E i \in Ids : ClientCloses(i) \/ DataReceived(i) \/ DataWritten(i)
    \/ \E g \in Senders, i \in Ids : SendDisconnected(g, i) \/ SendStart(g, i)
    \/ \E g \in Senders :
          SendLock(g) \/ SendWritten(g) \/ SendReturns(g) \/ TimerFires(g)

\* Every handler, data goroutine and sender is a goroutine the Go scheduler
\* runs: weak fairness on their steps.  A waiter for the socket mutex is
\* served eventually once it keeps coming free (sync.Mutex hands the lock
\* to a waiter starved for more than 1 ms): strong fairness on SendLock.
\* The peer, basenine and the timer need no fairness.
Spec ==
    /\ Init /\ [][Next]_vars
    /\ \A h \in Handlers : WF_vars(HandlerStep(h))
    /\ \A i \in Ids : WF_vars(DataWritten(i))
    /\ \A g \in Senders : SF_vars(SendLock(g)) /\ WF_vars(SendWritten(g))
                        /\ WF_vars(SendReturns(g))

----------------------------------------------------------------------------
(* Properties.                                                            *)

\* Once the peer has closed a socket, its connectedWebsockets entry is
\* eventually released (set to nil by socketCleanup).  (The deferred
\* cleanup of websocketHandler.)
SocketEventuallyReleased ==
    \A i \in Ids : (entry[i] = "live" /\ clientGone[i]) ~> entry[i] # "live"
=============================================================================
