---------------------------- MODULE AmqpDissector ----------------------------
(***************************************************************************)
(* The frame loop of the AMQP dissector (src/tap/extensions/amqp/main.go,  *)
(* Dissect) on one direction of one connection.  The peer writes AMQP      *)
(* 0-9-1 frames: on each channel a content message is a method frame       *)
(* (Basic.Publish from a client, Basic.Deliver from a broker), a header    *)
(* frame and zero or more body frames; other methods carry no content;     *)
(* frames of different channels may interleave, and heartbeats come any   *)
(* time.  Each step is one readFrame followed by the whole switch on the   *)
(* frame type; the byte stream itself is the TcpReader's concern.          *)
(*                                                                         *)
(* A message is named by its number; the method, header and body frames    *)
(* of message n carry n, so an emitted event shows which message each of   *)
(* its fields came from.                                                   *)
(***************************************************************************)
EXTENDS Integers, Sequences

CONSTANTS
    Channels,        \* AMQP channel numbers used on the connection
    MaxMessages,     \* bound: content messages the peer sends
    MaxOther,        \* bound: content-less method frames the peer sends
    MaxBodyFrames    \* bound: body frames of one message

ASSUME MaxMessages \in Nat /\ MaxOther \in Nat /\ MaxBodyFrames \in Nat

Msgs == 1 .. MaxMessages
NoMsg == 0

\* eventBasicPublish / eventBasicDeliver: which message set the method
\* fields, the Properties, and the Body (<<message, frame>>).
Event == [method: Msgs \cup {NoMsg}, props: Msgs \cup {NoMsg},
          body: Seq(Nat)]

\* What the dissector hands to the matcher through emitEvent.
Emitted == [isRequest: BOOLEAN, ident: Channels,
            kind: {"publish", "deliver", "method", "empty"},
            fields: Event]

\* The generator's state of a channel: idle between messages, or inside
\* message msg waiting for its header or for `left` more body frames.
ChannelState == [st: {"idle", "header", "body"}, msg: Msgs \cup {NoMsg},
                 left: 0 .. MaxBodyFrames]

VARIABLES
    \* the peer
    isClient,        \* reader.GetIsClient(): the direction dissected
    chan,            \* per-channel generator state
    sent,            \* sent[n]: the channel message n was sent on
    others,          \* content-less method frames sent so far
    eof,             \* the stream has ended: readFrame returned io.EOF
    \* Dissect's locals
    lastMethod,      \* the type of lastMethodFrameMessage
    ident,           \* ident: from the last method frame
    publish,         \* eventBasicPublish
    deliver,         \* eventBasicDeliver
    remaining,       \* remaining: header.Size minus body bytes seen
    identified,      \* reader.GetParent().SetProtocol(&protocol) was called
    events           \* emitEvent calls, in order

vars == <<isClient, chan, sent, others, eof, lastMethod, ident, publish,
          deliver, remaining, identified, events>>

NoEvent == [method |-> NoMsg, props |-> NoMsg, body |-> <<>>]

\* The content method of this direction: a client publishes, a broker
\* delivers.
ContentKind == IF isClient THEN "publish" ELSE "deliver"

TypeOK ==
    /\ isClient \in BOOLEAN
    /\ chan \in [Channels -> ChannelState]
    /\ sent \in Seq(Channels) /\ Len(sent) <= MaxMessages
    /\ others \in 0 .. MaxOther
    /\ eof \in BOOLEAN
    /\ lastMethod \in {"none", "publish", "deliver", "other"}
    /\ ident \in Channels \cup {NoMsg}
    /\ publish \in Event
    /\ deliver \in Event
    /\ remaining \in -(MaxBodyFrames * MaxMessages) .. MaxBodyFrames
    /\ identified \in BOOLEAN
    /\ events \in Seq(Emitted)

Init ==
    /\ isClient \in BOOLEAN
    /\ chan = [c \in Channels |-> [st |-> "idle", msg |-> NoMsg, left |-> 0]]
    /\ sent = <<>>
    /\ others = 0
    /\ eof = FALSE
    /\ lastMethod = "none"
    /\ ident = NoMsg
    /\ publish = NoEvent
    /\ deliver = NoEvent
    /\ remaining = 0
    /\ identified = FALSE
    /\ events = <<>>

----------------------------------------------------------------------------
(* One action per frame type: the peer's frame and the dissector's case.  *)
(* A heartbeat frame (case *HeartbeatFrame: drop) and a frame readFrame   *)
(* fails to parse (the default case) change nothing Dissect keeps: they   *)
(* are stuttering steps.                                                   *)

\* case *MethodFrame with a Basic.Publish or Basic.Deliver: the method
\* fields are copied into the event under construction.
ContentMethod(c) ==
    /\ ~eof
    /\ chan[c].st = "idle"
    /\ Len(sent) < MaxMessages
    /\ LET n == Len(sent) + 1 IN
       /\ chan' = [chan EXCEPT ![c] = [st |-> "header", msg |-> n, left |-> 0]]
       /\ sent' = Append(sent, c)
       /\ identified' = TRUE
       /\ lastMethod' = ContentKind
       /\ ident' = c
       /\ IF isClient
             THEN /\ publish' = [publish EXCEPT !.method = n]
                  /\ UNCHANGED deliver
             ELSE /\ deliver' = [deliver EXCEPT !.method = n]
                  /\ UNCHANGED publish
    /\ UNCHANGED <<isClient, others, eof, remaining, events>>

\* case *MethodFrame with any other method: the methods of the switch
\* (Queue.Bind, Basic.Consume, Queue.Declare, Exchange.Declare,
\* Connection.Start, Connection.Close and their -Ok replies) emit one event
\* with isRequest = isClient; the others (Basic.Ack, Channel.Open...) none.
OtherMethod(c) ==
    /\ ~eof
    /\ chan[c].st = "idle"
    /\ others < MaxOther
    /\ others' = others + 1
    /\ identified' = TRUE
    /\ lastMethod' = "other"
    /\ ident' = c
    /\ \/ events' = Append(events, [isRequest |-> isClient, ident |-> c,
                                    kind |-> "method", fields |-> NoEvent])
       \/ UNCHANGED events
    /\ UNCHANGED <<isClient, chan, sent, eof, publish, deliver, remaining>>

\* case *HeaderFrame: the content state starts; the Properties go to the
\* event of the last method frame's type, whichever channel that was on.
Header(c) ==
    /\ ~eof
    /\ chan[c].st = "header"
    /\ \E k \in 0 .. MaxBodyFrames :
          /\ chan' = [chan EXCEPT ![c].st = IF k = 0 THEN "idle" ELSE "body",
                                   ![c].left = k]
          /\ remaining' = k
    /\ identified' = TRUE
    /\ publish' = IF lastMethod = "publish"
                     THEN [publish EXCEPT !.props = chan[c].msg] ELSE publish
    /\ deliver' = IF lastMethod = "deliver"
                     THEN [deliver EXCEPT !.props = chan[c].msg] ELSE deliver
    /\ UNCHANGED <<isClient, sent, others, eof, lastMethod, ident, events>>

\* case *BodyFrame: remaining -= len(f.Body), and if the last method frame
\* was a Publish (Deliver) the body is put in its event, which is emitted
\* as a request (response) together with a synthesised empty counterpart.
Body(c) ==
    /\ ~eof
    /\ chan[c].st = "body"
    /\ chan' = [chan EXCEPT ![c].st = IF chan[c].left = 1 THEN "idle"
                                                          ELSE "body",
                             ![c].left = chan[c].left - 1]
    /\ remaining' = remaining - 1
    /\ identified' = TRUE
    /\ LET body == <<chan[c].msg, chan[c].left>>
           pub  == [publish EXCEPT !.body = body]
           del  == [deliver EXCEPT !.body = body]
       IN  CASE lastMethod = "publish" ->
                  /\ publish' = pub
                  /\ events' = events \o
                        << [isRequest |-> isClient, ident |-> ident,
                            kind |-> "publish", fields |-> pub],
                           [isRequest |-> ~isClient, ident |-> ident,
                            kind |-> "empty", fields |-> NoEvent] >>
                  /\ UNCHANGED deliver
             [] lastMethod = "deliver" ->
                  /\ deliver' = del
                  /\ events' = events \o
                        << [isRequest |-> ~isClient, ident |-> ident,
                            kind |-> "deliver", fields |-> del],
                           [isRequest |-> isClient, ident |-> ident,
                            kind |-> "empty", fields |-> NoEvent] >>
                  /\ UNCHANGED publish
             [] OTHER -> UNCHANGED <<publish, deliver, events>>
    /\ UNCHANGED <<isClient, sent, others, eof, lastMethod, ident>>

\* readFrame returns io.EOF: Dissect returns and the loop ends.
EndOfStream ==
    /\ ~eof
    /\ eof' = TRUE
    /\ UNCHANGED <<isClient, chan, sent, others, lastMethod, ident, publish,
                   deliver, remaining, identified, events>>

Next ==
    \/ EndOfStream
    \/ \E c \in Channels :
          ContentMethod(c) \/ OtherMethod(c) \/ Header(c) \/ Body(c)

\* Dissect reads frames for as long as the stream delivers them.
Spec == Init /\ [][Next]_vars

----------------------------------------------------------------------------
(* Properties.                                                            *)

\* Every publish or deliver event Dissect emits describes one message: its
\* method fields (exchange, routing key...), its Properties, its Body and
\* its ident all come from the same message.  (The body case of Dissect
\* pairs the body with whatever the last method and header frames were.)
EventFieldsFromOwnMessage ==
    \A i \in DOMAIN events :
        events[i].kind \in {"publish", "deliver"} =>
            LET f == events[i].fields IN
            /\ f.method = f.body[1]
            /\ f.props = f.body[1]
            /\ sent[f.body[1]] = events[i].ident
=============================================================================
