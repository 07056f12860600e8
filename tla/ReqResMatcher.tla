--------------------------- MODULE ReqResMatcher ---------------------------
(***************************************************************************)
(* The Kafka request/response matcher (src/tap/extensions/kafka/matcher.go) *)
(* driven by the two dissector goroutines of every captured connection.    *)
(*                                                                         *)
(* The matcher is one global sync.Map (openMessagesMap) shared by all      *)
(* connections.  The client-side dissector calls registerRequest for every *)
(* request it parses; the server-side dissector calls registerResponse,    *)
(* which polls the map up to maxTry times, sleeping 1ms between polls, and *)
(* silently discards the response when the budget runs out.  The two      *)
(* goroutines of one connection read two independent captured byte         *)
(* streams, so either may run ahead of the other.                          *)
(*                                                                         *)
(* Data is abstracted to what the properties tell apart: a message is its  *)
(* connection, its correlation id and the position (seq) of the exchange   *)
(* it belongs to on that connection.                                       *)
(***************************************************************************)
EXTENDS Naturals, Sequences, FiniteSets

CONSTANTS
    Conns,          \* captured Kafka connections (model values)
    IdWidth,        \* bits of the correlation id (int32 in the protocol)
    MaxTry,         \* maxTry: polls registerResponse makes before giving up
    MaxRequests,    \* bound: requests a client writes on one connection
    MaxInFlight,    \* requests a client has outstanding without a response
    WireCapacity,   \* captured messages buffered ahead of a dissector
    NoMsg           \* model value: no entry under a key

ASSUME
    /\ Conns # {}
    /\ IdWidth \in Nat \ {0}
    /\ MaxTry \in Nat \ {0}
    /\ MaxRequests \in Nat \ {0}
    /\ MaxInFlight \in Nat \ {0}
    /\ WireCapacity \in Nat \ {0}
    \* Two exchanges that are both live (neither dissector has finished
    \* with them) never share a correlation id: at the protocol's 32-bit
    \* width the live window is far smaller than the id space, and the
    \* model keeps it so.  Only a stale entry can collide with a new one.
    /\ MaxInFlight + WireCapacity + 1 < 2^IdWidth

Ids == 0 .. (2^IdWidth - 1)
Seqs == 0 .. (MaxRequests - 1)

\* The correlation id a client puts on its n-th request: an int32 counter
\* that wraps around, here at IdWidth bits.
CorrelationId(n) == n % 2^IdWidth

Message == [kind: {"request", "response"}, conn: Conns, id: Ids, seq: Seqs]
Pair == [request: Message, response: Message]

Key(c, id) == <<c, id>>
Keys == Conns \X Ids

VARIABLES
    sent,           \* [Conns -> Nat]: requests the client has written
    replied,        \* [Conns -> Nat]: responses the server has written
    reqWire,        \* captured requests the client-side dissector has not read
    respWire,       \* captured responses the server-side dissector has not read
    openMessages,   \* openMessagesMap: [Keys -> Message \cup {NoMsg}]
    responder,      \* per connection, the server-side registerResponse loop
    emitted,        \* the sequence of pairs returned to the dissectors
    dropped,        \* responses registerResponse gave up on
    panicked        \* a goroutine panicked: the tapper process is gone

vars == <<sent, replied, reqWire, respWire, openMessages, responder,
          emitted, dropped, panicked>>

Responder == [pc: {"idle", "poll"}, msg: Message \cup {NoMsg}, try: 0 .. MaxTry]

TypeOK ==
    /\ sent \in [Conns -> 0 .. MaxRequests]
    /\ replied \in [Conns -> 0 .. MaxRequests]
    /\ reqWire \in [Conns -> Seq(Message)]
    /\ respWire \in [Conns -> Seq(Message)]
    /\ openMessages \in [Keys -> Message \cup {NoMsg}]
    /\ responder \in [Conns -> Responder]
    /\ emitted \in Seq(Pair)
    /\ dropped \subseteq Message
    /\ panicked \in BOOLEAN

Init ==
    /\ sent = [c \in Conns |-> 0]
    /\ replied = [c \in Conns |-> 0]
    /\ reqWire = [c \in Conns |-> <<>>]
    /\ respWire = [c \in Conns |-> <<>>]
    /\ openMessages = [k \in Keys |-> NoMsg]
    /\ responder = [c \in Conns |-> [pc |-> "idle", msg |-> NoMsg, try |-> 0]]
    /\ emitted = <<>>
    /\ dropped = {}
    /\ panicked = FALSE

---------------------------------------------------------------------------
(* The traffic: a Kafka client and broker on each connection.  The broker  *)
(* answers requests in order; the capture delivers each direction to its   *)
(* dissector through a bounded buffer.                                     *)

ClientWrites(c) ==
    /\ ~panicked
    /\ sent[c] < MaxRequests
    /\ sent[c] - replied[c] < MaxInFlight
    /\ Len(reqWire[c]) < WireCapacity
    /\ reqWire' = [reqWire EXCEPT ![c] = Append(@,
          [kind |-> "request", conn |-> c, id |-> CorrelationId(sent[c]),
           seq |-> sent[c]])]
    /\ sent' = [sent EXCEPT ![c] = @ + 1]
    /\ UNCHANGED <<replied, respWire, openMessages, responder, emitted,
                   dropped, panicked>>

ServerWrites(c) ==
    /\ ~panicked
    /\ replied[c] < sent[c]
    /\ Len(respWire[c]) < WireCapacity
    /\ respWire' = [respWire EXCEPT ![c] = Append(@,
          [kind |-> "response", conn |-> c, id |-> CorrelationId(replied[c]),
           seq |-> replied[c]])]
    /\ replied' = [replied EXCEPT ![c] = @ + 1]
    /\ UNCHANGED <<sent, reqWire, openMessages, responder, emitted,
                   dropped, panicked>>

---------------------------------------------------------------------------
(* The matcher.                                                            *)

PreparePair(request, response) == [request |-> request, response |-> response]

\* registerRequest: LoadAndDelete the key; a value found there is asserted
\* to be a *Response (response.(*Response)), and the single-value type
\* assertion panics when it is not; otherwise Store the request.
RegisterRequest(c) ==
    /\ ~panicked
    /\ reqWire[c] # <<>>
    /\ reqWire' = [reqWire EXCEPT ![c] = Tail(@)]
    /\ LET request == Head(reqWire[c])
           k == Key(c, request.id)
           found == openMessages[k]
       IN  \/ /\ found = NoMsg
              /\ openMessages' = [openMessages EXCEPT ![k] = request]
              /\ UNCHANGED <<emitted, panicked>>
           \/ /\ found # NoMsg
              /\ openMessages' = [openMessages EXCEPT ![k] = NoMsg]
              /\ IF found.kind = "response"
                    THEN /\ emitted' = Append(emitted, PreparePair(request, found))
                         /\ UNCHANGED panicked
                    ELSE /\ panicked' = TRUE
                         /\ UNCHANGED emitted
    /\ UNCHANGED <<sent, replied, respWire, responder, dropped>>

\* The server-side dissector parses a response and enters registerResponse.
ReadResponse(c) ==
    /\ ~panicked
    /\ responder[c].pc = "idle"
    /\ respWire[c] # <<>>
    /\ responder' = [responder EXCEPT ![c] =
                        [pc |-> "poll", msg |-> Head(respWire[c]), try |-> 0]]
    /\ respWire' = [respWire EXCEPT ![c] = Tail(@)]
    /\ UNCHANGED <<sent, replied, reqWire, openMessages, emitted, dropped,
                   panicked>>

\* One turn of the registerResponse loop: try++, then give up past maxTry,
\* else LoadAndDelete the key and pair on a hit, else sleep and retry.
ResponseGiveUp(c) ==
    /\ ~panicked
    /\ responder[c].pc = "poll"
    /\ responder[c].try + 1 > MaxTry
    /\ dropped' = dropped \cup {responder[c].msg}
    /\ responder' = [responder EXCEPT ![c] = [pc |-> "idle", msg |-> NoMsg, try |-> 0]]
    /\ UNCHANGED <<sent, replied, reqWire, respWire, openMessages, emitted,
                   panicked>>

\* Mutant of ResponseMatched: Load instead of LoadAndDelete.
ResponseMatchedLoadOnly(c) ==
    LET response == responder[c].msg
        k == Key(c, response.id)
    IN  /\ ~panicked
        /\ responder[c].pc = "poll"
        /\ responder[c].try + 1 <= MaxTry
        /\ openMessages[k] # NoMsg
        /\ emitted' = Append(emitted, PreparePair(openMessages[k], response))
        /\ responder' = [responder EXCEPT ![c] = [pc |-> "idle", msg |-> NoMsg, try |-> 0]]
        /\ UNCHANGED <<sent, replied, reqWire, respWire, openMessages, dropped, panicked>>

ResponseMatched(c) ==
    LET response == responder[c].msg
        k == Key(c, response.id)
    IN  /\ ~panicked
        /\ responder[c].pc = "poll"
        /\ responder[c].try + 1 <= MaxTry
        /\ openMessages[k] # NoMsg
        /\ openMessages' = [openMessages EXCEPT ![k] = NoMsg]
        /\ emitted' = Append(emitted, PreparePair(openMessages[k], response))
        /\ responder' = [responder EXCEPT ![c] = [pc |-> "idle", msg |-> NoMsg, try |-> 0]]
        /\ UNCHANGED <<sent, replied, reqWire, respWire, dropped, panicked>>

\* Mutant of ResponseSleeps: the loop keeps polling while try <= maxTry
\* rather than giving up once try++ passes it.
ResponseSleepsOffByOne(c) ==
    /\ ~panicked
    /\ responder[c].pc = "poll"
    /\ responder[c].try <= MaxTry
    /\ openMessages[Key(c, responder[c].msg.id)] = NoMsg
    /\ responder' = [responder EXCEPT ![c].try = @ + 1]
    /\ UNCHANGED <<sent, replied, reqWire, respWire, openMessages, emitted,
                   dropped, panicked>>

ResponseSleeps(c) ==
    /\ ~panicked
    /\ responder[c].pc = "poll"
    /\ responder[c].try + 1 <= MaxTry
    /\ openMessages[Key(c, responder[c].msg.id)] = NoMsg
    /\ responder' = [responder EXCEPT ![c].try = @ + 1]
    /\ UNCHANGED <<sent, replied, reqWire, respWire, openMessages, emitted,
                   dropped, panicked>>

---------------------------------------------------------------------------

\* A panic in any goroutine ends the tapper process: nothing runs after it.
Next ==
    \E c \in Conns :
        \/ ClientWrites(c)
        \/ ServerWrites(c)
        \/ RegisterRequest(c)
        \/ ReadResponse(c)
        \/ ResponseGiveUp(c)
        \/ ResponseMatched(c)
        \/ ResponseSleeps(c)

Spec == Init /\ [][Next]_vars

---------------------------------------------------------------------------
(* Properties.                                                             *)

\* Requests the client-side dissector has already handed to registerRequest.
Registered(c) == {s \in Seqs : s < sent[c] - Len(reqWire[c])}

EmittedWith(c, s) ==
    {i \in DOMAIN emitted : emitted[i].request.conn = c /\ emitted[i].request.seq = s}

Pending(c, s) == \E k \in Keys : openMessages[k] # NoMsg
                                 /\ openMessages[k].conn = c
                                 /\ openMessages[k].seq = s

\* Every request registerRequest has taken is accounted for exactly once:
\* either still waiting in openMessagesMap, or in exactly one emitted pair,
\* never both and never lost.  (registerRequest and registerResponse.)
RequestAccountedOnce ==
    \A c \in Conns, s \in Seqs :
        s \in Registered(c) =>
            \/ Pending(c, s) /\ EmittedWith(c, s) = {}
            \/ ~Pending(c, s) /\ Cardinality(EmittedWith(c, s)) = 1

\* The response of exchange s on connection c, as the broker writes it.
ResponseOf(c, s) ==
    [kind |-> "response", conn |-> c, id |-> CorrelationId(s), seq |-> s]

\* Responses the server-side dissector has read and registerResponse has
\* returned from (paired or given up); the one still polling is excluded.
ResponseHandled(c, s) ==
    /\ s < replied[c] - Len(respWire[c])
    /\ ~(responder[c].pc = "poll" /\ responder[c].msg.seq = s)

=============================================================================
