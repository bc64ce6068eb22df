------------------------- MODULE WebsocketTransport -------------------------
(***************************************************************************)
(* The websocket transport (transport_websocket.go): a goroutine of its own*)
(* reads frames, decodes the replies in each and hands them one by one to  *)
(* the client's reader (Client.readOnce), while other goroutines write     *)
(* commands and close the transport under t.mu.                            *)
(*                                                                         *)
(* Frames of the peer arrive in order.  A reply is a number, Bad is what   *)
(* cannot be decoded.  t.replyCh is closed in the reader states "closing"  *)
(* and "done", t.closeCh when closed is set.                               *)
(***************************************************************************)
EXTENDS Integers, Sequences

CONSTANTS
  Codes,       \* close codes of the peer
  TextCodes,   \* codes that the JSON text of a close frame names
  Writers,     \* goroutines that write
  Nobody,      \* holds no lock
  MaxFrames,   \* bound: frames of the peer, of one or two replies
  MaxWrites    \* bound: writes

ASSUME TransportBounds == MaxFrames \in Nat /\ MaxWrites \in Nat
ASSUME TransportCodes == Codes \subseteq Nat /\ TextCodes \subseteq Nat
ASSUME TransportWriters == Nobody \notin Writers

VARIABLES
  wire,          \* frames sent and not read
  frames, sent,  \* history: number of frames, what they held
  cause,         \* why the peer's side ended, if it did: Broken or a close frame
  stalled,       \* the peer does not read
  conn,          \* the connection is open on this side
  closed,        \* t.closed and t.closeCh
  holder,        \* of t.mu
  reader,        \* the transport's goroutine
  frame,         \* what it has not decoded of its frame
  disconnect,    \* t.disconnect
  client,        \* the client's reader
  got, reported, \* history: what it got, and with what it ended
  writes

peer == <<wire, frames, sent, cause, stalled>>
vars == <<peer, conn, closed, holder, reader, frame, disconnect, client, got, reported, writes>>

Bad == 0
None == -1

Open == [kind |-> "open"]
Broken == [kind |-> "broken"]

\* A close frame has a code, and a text: JSON that names a code of its own and whether
\* to reconnect (the empty object and "null" name 0 and no), or any other.
CloseFrames == [kind : {"plain"}, code : Codes]
               \cup [kind : {"json"}, says : [code : TextCodes, reconnect : BOOLEAN]]

NoDisconnect == [code |-> None, reconnect |-> TRUE]
BadProtocol == [code |-> 2, reconnect |-> FALSE]             \* disconnectBadProtocol
MessageTooBig == 1009
MessageSizeLimit == [code |-> 3, reconnect |-> FALSE]        \* disconnectMessageSizeLimit
TransportClosed == 1                                         \* connectingTransportClosed
HiddenCode == [code |-> TransportClosed, reconnect |-> TRUE]

Init ==
  /\ wire = <<>> /\ frames = 0 /\ sent = <<>> /\ cause = Open /\ stalled = FALSE
  /\ conn = TRUE /\ closed = FALSE /\ holder = Nobody
  /\ reader = "read" /\ frame = <<>> /\ disconnect = NoDisconnect
  /\ client = "read" /\ got = <<>> /\ reported = NoDisconnect
  /\ writes = 0

------------------------------------------------------------------------------
(* Variants of the definitions below with a bug planted; used to check that *)
(* the properties notice it.                                                *)

FaultyGiveUp == FALSE
FaultyEndRead == reader = "read" /\ cause # Open

------------------------------------------------------------------------------
(* Parts of several actions                                                 *)

Reconnects(code) == code < 3500 \/ code >= 5000 \/ (code >= 4000 /\ code < 4500)

\* extractDisconnectWebsocket: JSON overrides the code of its frame and the rule.
Extracted(c) ==
  CASE c.kind = "broken" -> NoDisconnect
    [] c.kind = "json"   -> c.says
    [] c.kind = "plain"  ->
         IF c.code = MessageTooBig THEN MessageSizeLimit
         ELSE [code |-> IF c.code < 3000 THEN TransportClosed ELSE c.code,
               reconnect |-> Reconnects(c.code)]

ReplyChClosed == reader \in {"closing", "done"}
Rest(f) == Tail(f)

\* Client.Config.WriteTimeout is never 0.
HasDeadline == TRUE

\* The peer's end is read after its frames; a connection that breaks may lose some.
EndRead == reader = "read" /\ cause # Open /\ (wire = <<>> \/ cause = Broken)

------------------------------------------------------------------------------
(* The peer and the network                                                 *)

\* One or two replies in a frame, or a reply and what cannot be decoded.
PeerSends ==
  /\ cause = Open /\ conn /\ frames < MaxFrames /\ frames' = frames + 1
  /\ \E second \in {"none", "reply", "bad"} :
       LET n == 2 * frames + 1
           f == IF second = "none" THEN <<n>>
                ELSE IF second = "reply" THEN <<n, n + 1>> ELSE <<n, Bad>>
       IN  /\ wire' = Append(wire, f)
           /\ sent' = sent \o f
  /\ UNCHANGED <<cause, stalled, conn, closed, holder, reader, frame, disconnect, client, got,
                 reported, writes>>

\* The peer closes, or the connection breaks.
PeerEnds ==
  /\ cause = Open /\ cause' \in CloseFrames \cup {Broken}
  /\ UNCHANGED <<wire, frames, sent, stalled, conn, closed, holder, reader, frame, disconnect,
                 client, got, reported, writes>>

PeerStalls ==
  /\ ~stalled /\ stalled' = TRUE
  /\ UNCHANGED <<wire, frames, sent, cause, conn, closed, holder, reader, frame, disconnect,
                 client, got, reported, writes>>

------------------------------------------------------------------------------
(* Close and Write                                                          *)

CloseLocked == closed' = TRUE /\ conn' = FALSE

\* The client ends the connection: a teardown, a failed write, no ping.
Close ==
  /\ holder = Nobody /\ ~closed
  /\ CloseLocked
  /\ UNCHANGED <<peer, holder, reader, frame, disconnect, client, got, reported, writes>>

StartWrite(w) ==
  /\ writes < MaxWrites /\ writes' = writes + 1
  /\ holder = Nobody /\ holder' = w
  /\ UNCHANGED <<peer, conn, closed, reader, frame, disconnect, client, got, reported>>

\* The write ends when the peer reads, or with an error: the deadline, the connection.
EndWrite(w) ==
  /\ holder = w
  /\ ~stalled \/ HasDeadline
  /\ holder' = Nobody
  /\ UNCHANGED <<peer, conn, closed, reader, frame, disconnect, client, got, reported, writes>>

------------------------------------------------------------------------------
(* The transport's goroutine                                                *)

ReadFrame ==
  /\ reader = "read" /\ wire # <<>>
  /\ frame' = Head(wire) /\ wire' = Tail(wire)
  /\ reader' = "decode"
  /\ UNCHANGED <<frames, sent, cause, stalled, conn, closed, holder, disconnect, client, got,
                 reported, writes>>

\* An error of the connection closed on this side has no cause.
ReadError ==
  /\ \/ EndRead /\ disconnect' = Extracted(cause)
     \/ reader = "read" /\ ~conn /\ disconnect' = NoDisconnect
  /\ reader' = "closing"
  /\ UNCHANGED <<peer, conn, closed, holder, frame, client, got, reported, writes>>

Decode ==
  /\ reader = "decode"
  /\ IF frame = <<>> THEN reader' = "read" /\ UNCHANGED disconnect
     ELSE IF Head(frame) = Bad THEN reader' = "closing" /\ disconnect' = BadProtocol
     ELSE reader' = "hand" /\ UNCHANGED disconnect
  /\ UNCHANGED <<peer, conn, closed, holder, frame, client, got, reported, writes>>

\* The reply goes to the client's reader, in Read ...
HandOver ==
  /\ reader = "hand" /\ client = "read"
  /\ got' = Append(got, Head(frame)) /\ client' = "handle"
  /\ frame' = Rest(frame) /\ reader' = "decode"
  /\ UNCHANGED <<peer, conn, closed, holder, disconnect, reported, writes>>

\* ... or nowhere, when the transport is closed.
GiveUp == closed
DropReply ==
  /\ reader = "hand" /\ GiveUp
  /\ reader' = "closing"
  /\ UNCHANGED <<peer, conn, closed, holder, frame, disconnect, client, got, reported, writes>>

\* The deferred Close
ReaderCloses ==
  /\ reader = "closing" /\ holder = Nobody
  /\ reader' = "done"
  /\ CloseLocked
  /\ UNCHANGED <<peer, holder, frame, disconnect, client, got, reported, writes>>

Reader == ReadFrame \/ ReadError \/ Decode \/ HandOver \/ DropReply \/ ReaderCloses

------------------------------------------------------------------------------
(* The client's reader                                                      *)

\* A reply is handled, which may wait for the application's handlers.
Handled ==
  /\ client = "handle" /\ client' = "read"
  /\ UNCHANGED <<peer, conn, closed, holder, reader, frame, disconnect, got, reported, writes>>

\* Read fails, and the client's reader reports the disconnect and ends.
ReadEnds ==
  /\ client = "read" /\ ReplyChClosed
  /\ client' = "ended" /\ reported' = disconnect
  /\ UNCHANGED <<peer, conn, closed, holder, reader, frame, disconnect, got, writes>>

------------------------------------------------------------------------------
Next ==
  \/ PeerSends \/ PeerEnds \/ PeerStalls
  \/ Close \/ \E w \in Writers : StartWrite(w) \/ EndWrite(w)
  \/ Reader \/ Handled \/ ReadEnds

Spec == Init /\ [][Next]_vars

\* Goroutines run, writes have a deadline and a lock that is released is granted.
GoroutinesRun ==
  /\ WF_vars(ReadFrame) /\ WF_vars(ReadError) /\ WF_vars(Decode) /\ WF_vars(HandOver)
  /\ WF_vars(DropReply) /\ SF_vars(ReaderCloses)
  /\ WF_vars(\E w \in Writers : EndWrite(w))
  /\ WF_vars(ReadEnds)

\* A client whose reader has ended closes the transport.  Handlers of the application
\* may never return.
LiveSpec == Spec /\ GoroutinesRun /\ SF_vars(client = "ended" /\ Close)

------------------------------------------------------------------------------
(* Properties *)

\* Codes of the websocket protocol are hidden, unless a JSON text names them.
Disconnects ==
  [code : {c \in Codes : c >= 3000} \cup TextCodes \cup {None, 1, 2, 3}, reconnect : BOOLEAN]

TypeOK ==
  /\ frames \in 0..MaxFrames /\ cause \in CloseFrames \cup {Open, Broken}
  /\ \A i \in 1..Len(wire) : Len(wire[i]) \in 1..2
  /\ stalled \in BOOLEAN /\ conn \in BOOLEAN /\ closed \in BOOLEAN
  /\ holder \in Writers \cup {Nobody}
  /\ reader \in {"read", "decode", "hand", "closing", "done"}
  /\ client \in {"read", "handle", "ended"}
  /\ disconnect \in Disconnects /\ reported \in Disconnects /\ writes \in 0..MaxWrites

\* Codes after which the client stays disconnected.
Permanent == 3500..3999 \cup 4500..4999

\* The replies reach the client in the order of the wire and without a gap.  An end that
\* is not the client's own comes after everything the peer sent before it, and with the
\* peer's reason: a reply is not lost because the close frame follows it.  A close frame
\* whose text is not JSON reconnects if and only if its code is not a permanent one; what
\* a JSON text says goes before that rule.
EndIsInOrder ==
  /\ got = SubSeq(sent, 1, Len(got))
  /\ (client = "ended" /\ ~closed) =>
       \/ /\ cause.kind = "plain" /\ got = sent
          /\ IF cause.code < 3000 THEN reported \in {HiddenCode, MessageSizeLimit}
             ELSE reported = [code |-> cause.code, reconnect |-> cause.code \notin Permanent]
       \/ cause.kind = "json" /\ got = sent /\ reported = cause.says
       \/ cause = Broken /\ reported = NoDisconnect
       \/ Len(got) < Len(sent) /\ sent[Len(got) + 1] = Bad /\ reported = BadProtocol

\* However the peer and the application behave, both ends come: "slow client will be
\* disconnected eventually ... so we will exit from this goroutine" (reader): once the
\* transport is closed its goroutine ends, though the client's reader may wait for a
\* handler forever and the peer may not read; and an end of either side is reported to
\* the client's reader, which Client.Close waits for, unless a handler does not return.
EndsAreNoticed ==
  /\ closed ~> reader = "done"
  /\ (closed \/ cause # Open) ~>
       \/ client = "ended" /\ reader = "done" /\ ~conn
       \/ [](client = "handle")
==============================================================================
