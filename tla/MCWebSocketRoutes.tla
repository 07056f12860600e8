-------------------------- MODULE MCWebSocketRoutes --------------------------
(* Model values for the websocket routes: handlers and SendToSocket       *)
(* callers.                                                               *)
EXTENDS WebSocketRoutes

CONSTANTS h1, h2, g1, g2

\* Two connections, so two handlers race for ids and one may be a tapper
\* while the other is a UI socket.
MCHandlers == {h1, h2}
\* Two callers of SendToSocket, so two writes meet at one socket's lock.
MCSenders == {g1, g2}
=============================================================================
