-------------------------- MODULE TransportProofs --------------------------
(***************************************************************************)
(* Proofs about the websocket transport (WebsocketTransport), the          *)
(* supervision of a connection by pings (Ping) and the callback queue      *)
(* (CbQueue), for any close codes, writers and bounds, any interval,       *)
(* delay, capacity of the ping channel and number of sessions, and any     *)
(* callers: replies reach the client in order and without a gap, the end   *)
(* after them and with its reason; a session that is ended for a missing   *)
(* ping had none in time, or another one took it; callbacks run one at a   *)
(* time in the order of the pushes, none twice and none skipped.           *)
(*                                                                         *)
(* Why in order: what the client got, the rest of the frame that is being  *)
(* decoded and the frames on the wire, each at its place, are what the     *)
(* peer sent (StreamInv).  Why the reason: the goroutine that stops at an  *)
(* end of the peer's has decoded its last frame and, unless the connection *)
(* broke, has read every frame (EndInv).  Why no false alarm: the timer of *)
(* the current waiter and the time since the last ping add up to no less   *)
(* than what is allowed (PatienceInv).                                     *)
(*                                                                         *)
(* Why callbacks are in order: how many entries were taken determines      *)
(* head, the untaken ones are linked in a row up to tail, and the stop     *)
(* entry, if there is one, is the last (QueueInv).                         *)
(*                                                                         *)
(* The three modules share no state, so MCTransport runs any of them and   *)
(* its specification implies theirs (PartsAreTransports).                  *)
(***************************************************************************)
EXTENDS MCTransport, SequenceTheorems, TLAPS

------------------------------------------------------------------------------
(* The transport                                                            *)

\* Replies are numbered; Bad is what cannot be decoded.
Replies == Nat

\* Types of the streams.
StreamTypes ==
  /\ wire \in Seq(Seq(Replies)) /\ \A i \in 1..Len(wire) : Len(wire[i]) \in 1..2
  /\ sent \in Seq(Replies) /\ got \in Seq(Replies) /\ frame \in Seq(Replies)
  /\ frames \in 0..MaxFrames

\* Types of the states of both ends.
StateTypes ==
  /\ cause \in CloseFrames \cup {Open, Broken}
  /\ reader \in {"read", "decode", "hand", "closing", "done"}
  /\ client \in {"read", "handle", "ended"}
  /\ holder \in Writers \cup {Nobody} /\ writes \in 0..MaxWrites

\* Types of the flags.
FlagTypes == stalled \in BOOLEAN /\ conn \in BOOLEAN /\ closed \in BOOLEAN

\* Both are closed together.
ConnInv == conn = ~closed

\* at[i] is the place among the replies s of the i-th frame on the wire w, which go on from
\* the place start to the end.
Places(at, start, w, s) ==
  /\ at \in [1..Len(w) + 1 -> 1..Len(s) + 1]
  /\ at[1] = start /\ at[Len(w) + 1] = Len(s) + 1
  /\ \A i \in 1..Len(w) : at[i + 1] = at[i] + Len(w[i])
  /\ \A i \in 1..Len(w) : \A j \in 1..Len(w[i]) : s[at[i] + j - 1] = w[i][j]

\* The frames on the wire w go on from the place start to the end of the replies s.
Follow(start, w, s) == \E at : Places(at, start, w, s)

\* The replies f are among s, after the first k.
Within(f, k, s) == k + Len(f) <= Len(s) /\ \A j \in 1..Len(f) : f[j] = s[k + j]

\* What the client got, the rest of the frame and the frames on the wire are what was sent.
StreamInv ==
  /\ Within(got, 0, sent) /\ Within(frame, Len(got), sent)
  /\ Follow(Len(got) + Len(frame) + 1, wire, sent)

\* The goroutine has decoded its frame when it reads the next one.
FrameInv ==
  /\ reader = "read" => frame = <<>>
  /\ reader = "hand" => frame # <<>> /\ Head(frame) # Bad

\* Why the goroutine stopped, and what it left for the client's reader, unless the
\* transport was closed on this side.
EndInv ==
  ReplyChClosed /\ ~closed =>
    \/ cause \in CloseFrames /\ wire = <<>> /\ frame = <<>> /\ disconnect = Extracted(cause)
    \/ cause = Broken /\ disconnect = NoDisconnect
    \/ frame # <<>> /\ Head(frame) = Bad /\ disconnect = BadProtocol

\* Where its reason comes from.
ReasonInv ==
  disconnect \in {NoDisconnect, BadProtocol}
                   \cup {Extracted(c) : c \in CloseFrames \cup {Broken}}

\* The client's reader ended with what it left.
ReportedInv ==
  IF client = "ended" THEN ReplyChClosed /\ reported = disconnect ELSE reported = NoDisconnect

\* The inductive invariant of the transport.
TransportInv ==
  /\ StreamTypes /\ StateTypes /\ FlagTypes /\ ConnInv /\ StreamInv /\ FrameInv /\ EndInv
  /\ ReasonInv /\ ReportedInv

------------------------------------------------------------------------------
(* The pings                                                                *)

\* Types of the session, its waiters, its pings and its readers.
PingTypes ==
  /\ session \in 0..MaxSessions /\ delayPing \in 0..Capacity
  /\ sinceRead \in 0..Supervision!Allowed
  /\ readers \in [Supervision!Sessions -> {"off", "reading", "handling", "ended"}]
  /\ timeLeft \in [Supervision!Sessions -> Supervision!Off..Supervision!Allowed]
  /\ early \subseteq {"stolen", "alone"}

\* Types of the flags.
PingFlagTypes == up \in BOOLEAN /\ silent \in BOOLEAN /\ pinged \in BOOLEAN
    /\ stolen \in BOOLEAN

\* The current session has a reader, and its waiter.
WatchedInv ==
  up => session # 0 /\ readers[session] \in {"reading", "handling"}
          /\ Supervision!Waits(session)

\* It waits as long as the application was told, from the last ping on: while no other
\* waiter took a ping, one that was read is in the channel or was taken by this waiter.
PatienceInv ==
  up /\ ~stolen =>
    /\ timeLeft[session] + sinceRead >= Supervision!Allowed
    /\ pinged => delayPing > 0 \/ timeLeft[session] = Supervision!Allowed

\* The inductive invariant of the pings.
SupervisionInv ==
  PingTypes /\ PingFlagTypes /\ WatchedInv /\ PatienceInv /\ EndedForSilence
------------------------------------------------------------------------------

\* A step of the supervision keeps its types.
LEMMA PingTypesStep ==
  ASSUME PingTypes, PingFlagTypes, [Supervision!Next]_(Supervision!vars)
  PROVE  PingTypes'
<1> USE PingBounds
    DEF PingTypes, Supervision!Sessions, Supervision!Allowed, Supervision!Off
<1>1. ASSUME Supervision!Connect PROVE PingTypes'
  BY <1>1 DEF Supervision!Connect, Supervision!WaiterOf, Supervision!Timeout
<1>2. ASSUME NEW s \in Supervision!Sessions, Supervision!ReadPing(s) PROVE PingTypes'
  BY <1>2 DEF Supervision!ReadPing, Supervision!Put, Supervision!Current
<1>3. ASSUME NEW s \in Supervision!Sessions, Supervision!HandlerStarts(s) PROVE PingTypes'
  BY <1>3 DEF Supervision!HandlerStarts, Supervision!Current
<1>4. ASSUME NEW s \in Supervision!Sessions, Supervision!HandlerReturns(s)
      PROVE  PingTypes'
  BY <1>4 DEF Supervision!HandlerReturns, Supervision!Current
<1>5. ASSUME NEW s \in Supervision!Sessions, Supervision!ReaderEnds(s) PROVE PingTypes'
  BY <1>5 DEF Supervision!ReaderEnds, Supervision!Put, Supervision!Current
<1>6. ASSUME NEW s \in Supervision!Sessions, Supervision!Take(s) PROVE PingTypes'
  BY <1>6 DEF Supervision!Take, Supervision!Waits, Supervision!Timeout
<1>7. ASSUME NEW s \in Supervision!Sessions, Supervision!Report(s) PROVE PingTypes'
  <2>1. /\ timeLeft[s] = 0 /\ timeLeft' = [timeLeft EXCEPT ![s] = Supervision!Allowed]
        /\ UNCHANGED <<session, readers, delayPing, sinceRead, stolen, pinged>>
    BY <1>7 DEF Supervision!Report, Supervision!Timeout
  <2>2. early' \subseteq early \cup {"stolen", "alone"}
    BY <1>7 DEF Supervision!Report
  <2>3. QED
    BY <2>1, <2>2
<1>8. ASSUME NEW s \in Supervision!Sessions, Supervision!Stop(s) PROVE PingTypes'
  BY <1>8 DEF Supervision!Stop, Supervision!Waits
<1>9. ASSUME Supervision!Tick PROVE PingTypes'
  BY <1>9
     DEF Supervision!Tick, Supervision!Waits, Supervision!Busy, Supervision!Off,
         Supervision!Current
<1>10. CASE UNCHANGED <<session, delayPing, sinceRead, readers, timeLeft, early>>
  BY <1>10
<1>11. QED
  BY <1>1, <1>2, <1>3, <1>4, <1>5, <1>6, <1>7, <1>8, <1>9, <1>10
     DEF Supervision!Next, Supervision!vars, Supervision!FallSilent, Supervision!Teardown

\* A step of the supervision keeps the types of its flags.
LEMMA PingFlagTypesStep ==
  ASSUME PingFlagTypes, [Supervision!Next]_(Supervision!vars)
  PROVE  PingFlagTypes'
<1> USE DEF PingFlagTypes
<1>1. ASSUME Supervision!Connect PROVE PingFlagTypes'
  BY <1>1 DEF Supervision!Connect, Supervision!WaiterOf, Supervision!Timeout
<1>2. ASSUME NEW s \in Supervision!Sessions, Supervision!ReadPing(s) PROVE PingFlagTypes'
  BY <1>2 DEF Supervision!ReadPing, Supervision!Put, Supervision!Current
<1>3. ASSUME Supervision!FallSilent PROVE PingFlagTypes'
  BY <1>3 DEF Supervision!FallSilent
<1>4. ASSUME Supervision!Teardown PROVE PingFlagTypes'
  BY <1>4 DEF Supervision!Teardown
<1>5. ASSUME NEW s \in Supervision!Sessions, Supervision!Take(s) PROVE PingFlagTypes'
  BY <1>5 DEF Supervision!Take, Supervision!Waits, Supervision!Timeout
<1>6. ASSUME NEW s \in Supervision!Sessions, Supervision!Report(s) PROVE PingFlagTypes'
  BY <1>6 DEF Supervision!Report, Supervision!Timeout, Supervision!Current
<1>7. ASSUME Supervision!Tick PROVE PingFlagTypes'
  BY <1>7
     DEF Supervision!Tick, Supervision!Waits, Supervision!Busy, Supervision!Off,
         Supervision!Current
<1>8. CASE UNCHANGED <<up, silent, pinged, stolen>>
  BY <1>8
<1>9. QED
  BY <1>1, <1>2, <1>3, <1>4, <1>5, <1>6, <1>7, <1>8
     DEF Supervision!Next, Supervision!vars, Supervision!HandlerStarts,
         Supervision!HandlerReturns, Supervision!ReaderEnds, Supervision!Stop

\* A step keeps a reader and a waiter for the current session (waitServerPing, readOnce).
LEMMA WatchedStep ==
  ASSUME PingTypes, WatchedInv, [Supervision!Next]_(Supervision!vars)
  PROVE  WatchedInv'
<1> USE PingBounds
    DEF PingTypes, WatchedInv, Supervision!Waits, Supervision!Sessions,
    Supervision!Allowed, Supervision!Off
<1>1. ASSUME Supervision!Connect PROVE WatchedInv'
  BY <1>1 DEF Supervision!Connect, Supervision!WaiterOf, Supervision!Timeout
<1>2. ASSUME NEW s \in Supervision!Sessions, Supervision!HandlerStarts(s)
      PROVE  WatchedInv'
  BY <1>2 DEF Supervision!HandlerStarts, Supervision!Current
<1>3. ASSUME NEW s \in Supervision!Sessions, Supervision!HandlerReturns(s)
      PROVE  WatchedInv'
  BY <1>3 DEF Supervision!HandlerReturns, Supervision!Current
<1>4. ASSUME NEW s \in Supervision!Sessions, Supervision!ReaderEnds(s) PROVE WatchedInv'
  BY <1>4 DEF Supervision!ReaderEnds, Supervision!Put, Supervision!Current
<1>5. ASSUME Supervision!Teardown PROVE WatchedInv'
  BY <1>5 DEF Supervision!Teardown
<1>6. ASSUME NEW s \in Supervision!Sessions, Supervision!Take(s) PROVE WatchedInv'
  BY <1>6 DEF Supervision!Take, Supervision!Waits, Supervision!Timeout
<1>7. ASSUME NEW s \in Supervision!Sessions, Supervision!Report(s) PROVE WatchedInv'
  <2>1. /\ timeLeft[s] = 0 /\ timeLeft' = [timeLeft EXCEPT ![s] = Supervision!Allowed]
        /\ UNCHANGED <<session, readers, delayPing, sinceRead, stolen, pinged>>
    BY <1>7 DEF Supervision!Report, Supervision!Timeout
  <2>2. up' => up
    BY <1>7 DEF Supervision!Report
  <2>3. Supervision!Allowed # -1
    BY PingBounds
  <2>4. QED
    BY <2>1, <2>2, <2>3
<1>8. ASSUME NEW s \in Supervision!Sessions, Supervision!Stop(s) PROVE WatchedInv'
  BY <1>8 DEF Supervision!Stop, Supervision!Waits
<1>9. ASSUME Supervision!Tick PROVE WatchedInv'
  BY <1>9
     DEF Supervision!Tick, Supervision!Waits, Supervision!Busy, Supervision!Off,
         Supervision!Current
<1>10. CASE UNCHANGED <<session, up, readers, timeLeft>>
  BY <1>10
<1>11. QED
  BY <1>1, <1>2, <1>3, <1>4, <1>5, <1>6, <1>7, <1>8, <1>9, <1>10
     DEF Supervision!Next, Supervision!vars, Supervision!ReadPing, Supervision!FallSilent

\* A step keeps the patience of the waiter: a ping that was read is put into delayPing, whose
\* taking starts the timeout anew (handlePing, waitServerPing).
LEMMA PatienceStep ==
  ASSUME PingTypes, PingFlagTypes, WatchedInv, PatienceInv,
         [Supervision!Next]_(Supervision!vars)
  PROVE  PatienceInv'
<1> USE PingBounds
    DEF PingTypes, WatchedInv, PatienceInv, Supervision!Waits,
    Supervision!Sessions, Supervision!Allowed, Supervision!Off
<1>1. ASSUME Supervision!Connect PROVE PatienceInv'
  BY <1>1 DEF Supervision!Connect, Supervision!WaiterOf, Supervision!Timeout
<1>2. ASSUME NEW s \in Supervision!Sessions, Supervision!ReadPing(s) PROVE PatienceInv'
  BY <1>2 DEF Supervision!ReadPing, Supervision!Put, Supervision!Current
<1>3. ASSUME NEW s \in Supervision!Sessions, Supervision!ReaderEnds(s) PROVE PatienceInv'
  BY <1>3 DEF Supervision!ReaderEnds, Supervision!Put, Supervision!Current
<1>4. ASSUME Supervision!Teardown PROVE PatienceInv'
  BY <1>4 DEF Supervision!Teardown
<1>5. ASSUME NEW s \in Supervision!Sessions, Supervision!Take(s) PROVE PatienceInv'
  <2>1. /\ delayPing > 0 /\ delayPing' = delayPing - 1
        /\ timeLeft' = [timeLeft EXCEPT ![s] = Supervision!Allowed]
        /\ UNCHANGED <<session, up, sinceRead, pinged>>
    BY <1>5 DEF Supervision!Take, Supervision!Timeout
  <2>2. up' /\ ~stolen' => ~stolen /\ s = session
    BY <1>5 DEF Supervision!Take
  <2>3. QED
    BY <2>1, <2>2
<1>6. ASSUME NEW s \in Supervision!Sessions, Supervision!Report(s) PROVE PatienceInv'
  <2>1. /\ timeLeft[s] = 0 /\ timeLeft' = [timeLeft EXCEPT ![s] = Supervision!Allowed]
        /\ UNCHANGED <<session, readers, delayPing, sinceRead, stolen, pinged>>
    BY <1>6 DEF Supervision!Report, Supervision!Timeout
  <2>2. up' => up /\ s # session
    BY <1>6 DEF Supervision!Report, Supervision!Current
  <2>3. QED
    BY <2>1, <2>2
<1>7. ASSUME NEW s \in Supervision!Sessions, Supervision!Stop(s) PROVE PatienceInv'
  BY <1>7 DEF Supervision!Stop, Supervision!Waits
<1>8. ASSUME Supervision!Tick PROVE PatienceInv'
  <2>1. /\ timeLeft' = [s \in Supervision!Sessions |->
                         IF Supervision!Waits(s) THEN timeLeft[s] - 1 ELSE Supervision!Off]
        /\ sinceRead' = IF pinged THEN 1
                        ELSE IF sinceRead < Supervision!Allowed THEN sinceRead + 1
                            ELSE sinceRead
        /\ ~pinged' /\ UNCHANGED <<session, up, delayPing, stolen>>
    BY <1>8 DEF Supervision!Tick
  <2>2. SUFFICES ASSUME up, ~stolen
                 PROVE  timeLeft'[session] + sinceRead' >= Supervision!Allowed
    BY <2>1
  <2>3. session \in Supervision!Sessions /\ Supervision!Waits(session)
    BY <2>2
  <2>4. ~(delayPing > 0) /\ timeLeft[session] # 0
    BY <1>8, <2>3 DEF Supervision!Tick, Supervision!Busy
  <2>5. timeLeft'[session] = timeLeft[session] - 1
    BY <2>1, <2>3
  <2>6. QED
    BY <2>1, <2>2, <2>4, <2>5
<1>9. CASE UNCHANGED <<session, up, stolen, timeLeft, sinceRead, pinged, delayPing>>
  BY <1>9
<1>10. QED
  BY <1>1, <1>2, <1>3, <1>4, <1>5, <1>6, <1>7, <1>8, <1>9
     DEF Supervision!Next, Supervision!vars, Supervision!HandlerStarts,
         Supervision!HandlerReturns, Supervision!FallSilent

\* A waiter that reports a missing ping was told of none in time (waitServerPing).
LEMMA SilenceStep ==
  ASSUME PingTypes, WatchedInv, PatienceInv, EndedForSilence,
         [Supervision!Next]_(Supervision!vars)
  PROVE  EndedForSilence'
<1> USE DEF PingTypes, WatchedInv, PatienceInv, EndedForSilence,
    Supervision!EndedForSilence, Supervision!Waits, Supervision!Sessions,
    Supervision!Allowed, Supervision!Off
<1>1. ASSUME NEW s \in Supervision!Sessions, Supervision!Report(s) PROVE EndedForSilence'
  <2>1. CASE Supervision!Current(s) /\ sinceRead < Supervision!Allowed
    <3>1. timeLeft[session] = 0 /\ up
      BY <1>1, <2>1 DEF Supervision!Report, Supervision!Current
    <3>2. stolen
      BY <2>1, <3>1, PingBounds
    <3>3. early' = early \cup {"stolen"}
      BY <1>1, <2>1, <3>2 DEF Supervision!Report
    <3>4. QED
      BY <3>3
  <2>2. CASE UNCHANGED early
    BY <2>2
  <2>3. QED
    BY <1>1, <2>1, <2>2 DEF Supervision!Report
<1>2. CASE UNCHANGED <<early>>
  BY <1>2
<1>3. QED
  BY <1>1, <1>2
     DEF Supervision!Next, Supervision!vars, Supervision!Connect, Supervision!ReadPing,
         Supervision!HandlerStarts, Supervision!HandlerReturns, Supervision!ReaderEnds,
         Supervision!FallSilent, Supervision!Teardown, Supervision!Take, Supervision!Stop,
         Supervision!Tick

------------------------------------------------------------------------------
(* Lemmas about the transport                                               *)

\* What the peer sends: a frame of one or two replies, at the end of the wire.
LEMMA Frames ==
  ASSUME StreamTypes, PeerSends
  PROVE  \E f \in Seq(Replies) :
           /\ Len(f) \in 1..2 /\ wire' = Append(wire, f) /\ sent' = sent \o f
           /\ UNCHANGED <<got, frame>> /\ frames' \in 0..MaxFrames
<1> USE DEF StreamTypes, Replies
<1>1. PICK second \in {"none", "reply", "bad"} :
        LET n == 2 * frames + 1
            f == IF second = "none" THEN <<n>>
                 ELSE IF second = "reply" THEN <<n, n + 1>> ELSE <<n, Bad>>
        IN  wire' = Append(wire, f) /\ sent' = sent \o f
  BY DEF PeerSends
<1> DEFINE n == 2 * frames + 1
<1> DEFINE f == IF second = "none" THEN <<n>>
                ELSE IF second = "reply" THEN <<n, n + 1>> ELSE <<n, Bad>>
<1>2. n \in Nat /\ n + 1 \in Nat /\ Bad \in Nat
  BY DEF Bad
<1>3. f \in Seq(Nat) /\ Len(f) \in 1..2
  BY <1>2
<1>4. UNCHANGED <<got, frame>> /\ frames' \in 0..MaxFrames
  BY TransportBounds DEF PeerSends
<1>5. QED
  BY <1>1, <1>3, <1>4

\* A step keeps the types of the streams.
LEMMA StreamTypesStep ==
  ASSUME StreamTypes, FrameInv, [Next]_vars
  PROVE  StreamTypes'
<1> USE DEF StreamTypes, Replies
<1>1. ASSUME PeerSends PROVE StreamTypes'
  <2>1. PICK f \in Seq(Replies) :
          /\ Len(f) \in 1..2 /\ wire' = Append(wire, f) /\ sent' = sent \o f
          /\ UNCHANGED <<got, frame>> /\ frames' \in 0..MaxFrames
    BY <1>1, Frames
  <2>2. wire' \in Seq(Seq(Replies)) /\ sent' \in Seq(Replies)
    BY <2>1
  <2>3. \A i \in 1..Len(wire') : Len(wire'[i]) \in 1..2
    BY <2>1
  <2>4. QED
    BY <2>1, <2>2, <2>3
<1>2. ASSUME ReadFrame PROVE StreamTypes'
  <2>1. wire # <<>> /\ wire' = Tail(wire) /\ frame' = Head(wire)
            /\ UNCHANGED <<frames, sent, got>>
    BY <1>2 DEF ReadFrame
  <2>2. wire' \in Seq(Seq(Replies)) /\ frame' \in Seq(Replies)
    BY <2>1
  <2>3. \A i \in 1..Len(wire') : wire'[i] = wire[i + 1] /\ i + 1 \in 1..Len(wire)
    BY <2>1
  <2>4. QED
    BY <2>1, <2>2, <2>3
<1>3. ASSUME HandOver PROVE StreamTypes'
  <2>1. frame # <<>> /\ frame' = Tail(frame) /\ got' = Append(got, Head(frame))
        /\ UNCHANGED <<wire, sent, frames>>
    BY <1>3 DEF HandOver, FrameInv, Rest, peer
  <2>2. QED
    BY <2>1
<1>4. CASE UNCHANGED <<wire, sent, got, frame, frames>>
  BY <1>4
<1>5. QED
  BY <1>1, <1>2, <1>3, <1>4
     DEF Next, Reader, vars, peer, PeerEnds, PeerStalls, Close, StartWrite, EndWrite,
         ReadError, Decode, DropReply, ReaderCloses, Handled, ReadEnds

\* A step keeps the types of both ends.
LEMMA StateTypesStep ==
  ASSUME StateTypes, [Next]_vars
  PROVE  StateTypes'
<1> USE TransportBounds DEF StateTypes
<1>1. CASE PeerSends \/ PeerEnds \/ PeerStalls \/ Close
  BY <1>1 DEF PeerSends, PeerEnds, PeerStalls, Close, peer
<1>2. ASSUME NEW w \in Writers, StartWrite(w) \/ EndWrite(w) PROVE StateTypes'
  BY <1>2 DEF StartWrite, EndWrite, peer
<1>3. CASE ReadFrame \/ ReadError \/ Decode
  BY <1>3 DEF ReadFrame, ReadError, Decode, peer
<1>4. CASE HandOver \/ DropReply \/ ReaderCloses
  BY <1>4 DEF HandOver, DropReply, ReaderCloses, peer
<1>5. CASE Handled \/ ReadEnds
  BY <1>5 DEF Handled, ReadEnds, peer
<1>6. CASE UNCHANGED vars
  BY <1>6 DEF vars, peer
<1>7. QED
  BY <1>1, <1>2, <1>3, <1>4, <1>5, <1>6 DEF Next, Reader

\* A step keeps the types of the flags; Close closes the channel and the connection.
LEMMA FlagTypesStep ==
  ASSUME FlagTypes, ConnInv, [Next]_vars
  PROVE  FlagTypes' /\ ConnInv'
<1> USE DEF FlagTypes, ConnInv
<1>1. ASSUME Close \/ ReaderCloses PROVE FlagTypes' /\ ConnInv'
  BY <1>1 DEF Close, ReaderCloses, CloseLocked, peer
<1>2. ASSUME PeerStalls PROVE FlagTypes' /\ ConnInv'
  BY <1>2 DEF PeerStalls
<1>3. CASE UNCHANGED <<stalled, conn, closed>>
  BY <1>3
<1>4. QED
  BY <1>1, <1>2, <1>3
     DEF Next, Reader, vars, peer, PeerSends, PeerEnds, StartWrite, EndWrite, ReadFrame,
         ReadError, Decode, HandOver, DropReply, Handled, ReadEnds

\* A frame is decoded before the next one is read (reader).
LEMMA FrameStep ==
  ASSUME StreamTypes, StateTypes, FrameInv, [Next]_vars
  PROVE  FrameInv'
<1> USE DEF StreamTypes, StateTypes, FrameInv
<1>1. ASSUME ReadFrame \/ ReadError \/ DropReply PROVE FrameInv'
  BY <1>1 DEF ReadFrame, ReadError, DropReply
<1>2. ASSUME Decode PROVE FrameInv'
  BY <1>2 DEF Decode
<1>3. ASSUME HandOver \/ ReaderCloses PROVE FrameInv'
  BY <1>3 DEF HandOver, ReaderCloses
<1>4. CASE UNCHANGED <<reader, frame>>
  BY <1>4
<1>5. QED
  BY <1>1, <1>2, <1>3, <1>4
     DEF Next, Reader, vars, peer, PeerSends, PeerEnds, PeerStalls, Close, StartWrite,
         EndWrite, Handled, ReadEnds

\* What close frames are.
LEMMA FrameKinds ==
  \A c \in CloseFrames :
    \/ c.kind = "plain" /\ c.code \in Codes
    \/ c.kind = "json" /\ c.says \in [code : TextCodes, reconnect : BOOLEAN]
BY DEF CloseFrames

\* What extractDisconnectWebsocket makes of an end: the codes from 3000 on that are not permanent
\* reconnect, smaller ones are hidden, and JSON is taken at its word.
LEMMA ExtractedFrames ==
  /\ Extracted(Broken) = NoDisconnect
  /\ \A c \in CloseFrames :
       /\ c.kind = "plain" =>
            IF c.code < 3000 THEN Extracted(c) \in {HiddenCode, MessageSizeLimit}
            ELSE Extracted(c) = [code |-> c.code, reconnect |-> c.code \notin Permanent]
       /\ c.kind = "json" => Extracted(c) = c.says
<1>1. Extracted(Broken) = NoDisconnect
  BY DEF Extracted, Broken
<1>2. ASSUME NEW c \in CloseFrames, c.kind = "json" PROVE Extracted(c) = c.says
  BY <1>2 DEF Extracted
<1>3. ASSUME NEW c \in CloseFrames, c.kind = "plain"
      PROVE  IF c.code < 3000 THEN Extracted(c) \in {HiddenCode, MessageSizeLimit}
             ELSE Extracted(c) = [code |-> c.code, reconnect |-> c.code \notin Permanent]
  <2>1. c.code \in Nat
    BY <1>3, FrameKinds, TransportCodes
  <2>2. Extracted(c) = IF c.code = 1009 THEN MessageSizeLimit
                       ELSE [code |-> IF c.code < 3000 THEN 1 ELSE c.code,
                             reconnect |-> Reconnects(c.code)]
    BY <1>3 DEF Extracted, MessageTooBig, TransportClosed
  <2>3. CASE c.code < 3000
    <3>1. Reconnects(c.code)
      BY <2>1, <2>3 DEF Reconnects
    <3>2. Reconnects(c.code) \in BOOLEAN
      BY DEF Reconnects
    <3>3. Reconnects(c.code) = TRUE
      BY <3>1, <3>2, Zenon
    <3>4. CASE c.code = 1009
      BY <2>2, <2>3, <3>4
    <3>5. CASE c.code # 1009
      <4>1. Extracted(c) = [code |-> 1, reconnect |-> Reconnects(c.code)]
        BY <2>2, <2>3, <3>5
      <4>2. Extracted(c) = [code |-> 1, reconnect |-> TRUE]
        BY <3>3, <4>1
      <4>3. QED
        BY <2>3, <4>2 DEF HiddenCode, TransportClosed
    <3>6. QED
      BY <3>4, <3>5
  <2>4. CASE ~(c.code < 3000)
    <3>1. c.code # 1009
      BY <2>1, <2>4
    <3>2. Reconnects(c.code) <=> c.code \notin Permanent
      <4>1. c.code \in 3500..3999 <=> 3500 <= c.code /\ c.code <= 3999
        BY <2>1
      <4>2. c.code \in 4500..4999 <=> 4500 <= c.code /\ c.code <= 4999
        BY <2>1
      <4>3. c.code \in Permanent <=> c.code \in 3500..3999 \/ c.code \in 4500..4999
        BY DEF Permanent
      <4>4. Reconnects(c.code) <=>
              c.code < 3500 \/ c.code >= 5000 \/ (c.code >= 4000 /\ c.code < 4500)
        BY DEF Reconnects
      <4>5. QED
        BY <2>1, <4>1, <4>2, <4>3, <4>4
    <3>3. Reconnects(c.code) \in BOOLEAN
      BY DEF Reconnects
    <3>4. Reconnects(c.code) = (c.code \notin Permanent)
      BY <3>2, <3>3
    <3>5. QED
      BY <2>2, <2>4, <3>1, <3>4
  <2>5. QED
    BY <2>3, <2>4
<1>4. QED
  BY <1>1, <1>2, <1>3

\* The reason is one of the two fixed ones or is extracted from a close frame.
LEMMA ReasonStep ==
  ASSUME StateTypes, ReasonInv, [Next]_vars
  PROVE  ReasonInv'
<1> USE DEF ReasonInv
<1>1. ASSUME ReadError PROVE ReasonInv'
  BY <1>1 DEF StateTypes, ReadError, EndRead
<1>2. ASSUME Decode PROVE ReasonInv'
  BY <1>2 DEF Decode
<1>3. CASE UNCHANGED disconnect
  BY <1>3
<1>4. QED
  BY <1>1, <1>2, <1>3
     DEF Next, Reader, vars, PeerSends, PeerEnds, PeerStalls, Close, StartWrite, EndWrite,
         ReadFrame, HandOver, DropReply, ReaderCloses, Handled, ReadEnds

\* The reason does not change once the client's reader was told of it.
LEMMA ReportedStep ==
  ASSUME StateTypes, ReportedInv, [Next]_vars
  PROVE  ReportedInv'
<1> USE DEF StateTypes, ReportedInv, ReplyChClosed
<1>1. ASSUME ReadEnds PROVE ReportedInv'
  BY <1>1 DEF ReadEnds
<1>2. ASSUME ReadFrame \/ ReadError \/ Decode PROVE ReportedInv'
  BY <1>2 DEF ReadFrame, ReadError, EndRead, Decode
<1>3. ASSUME HandOver \/ DropReply \/ ReaderCloses PROVE ReportedInv'
  BY <1>3 DEF HandOver, DropReply, ReaderCloses
<1>4. ASSUME Handled PROVE ReportedInv'
  BY <1>4 DEF Handled
<1>5. CASE UNCHANGED <<client, reader, disconnect, reported>>
  BY <1>5
<1>6. QED
  BY <1>1, <1>2, <1>3, <1>4, <1>5
     DEF Next, Reader, vars, PeerSends, PeerEnds, PeerStalls, Close, StartWrite, EndWrite

\* A step keeps what an end leaves: the frames before it were read and decoded, and what the
\* peer sends or does later changes nothing (reader).
LEMMA EndStep ==
  ASSUME StreamTypes, StateTypes, ConnInv, FlagTypes, FrameInv, EndInv, [Next]_vars
  PROVE  EndInv'
<1> USE DEF EndInv, ReplyChClosed
<1>1. Open \notin CloseFrames /\ Broken \notin CloseFrames /\ Open # Broken
  <2>1. Open.kind = "open" /\ Broken.kind = "broken"
    BY DEF Open, Broken
  <2>2. QED
    BY <2>1, FrameKinds
<1>2. ASSUME PeerSends PROVE EndInv'
  <2>1. cause = Open /\ UNCHANGED <<cause, reader, closed, frame, disconnect>>
    BY <1>2 DEF PeerSends
  <2>2. QED
    BY <1>1, <2>1
<1>3. ASSUME PeerEnds PROVE EndInv'
  <2>1. cause = Open /\ UNCHANGED <<reader, closed, frame, disconnect>>
    BY <1>3 DEF PeerEnds
  <2>2. QED
    BY <1>1, <2>1
<1>4. ASSUME ReadError PROVE EndInv'
  <2>1. /\ reader = "read" /\ UNCHANGED <<cause, wire, conn, closed, frame>>
        /\ \/ EndRead /\ disconnect' = Extracted(cause)
           \/ ~conn /\ disconnect' = NoDisconnect
    BY <1>4 DEF ReadError, EndRead, peer
  <2>2. frame = <<>>
    BY <2>1 DEF FrameInv
  <2>3. CASE ~conn
    BY <2>1, <2>3 DEF ConnInv
  <2>4. CASE EndRead /\ disconnect' = Extracted(cause)
    <3>1. cause \in CloseFrames \/ cause = Broken
      BY <2>4 DEF EndRead, StateTypes
    <3>2. CASE cause = Broken
      BY <2>1, <2>4, <3>2, ExtractedFrames
    <3>3. CASE cause \in CloseFrames
      <4>1. wire = <<>>
        BY <1>1, <2>4, <3>3 DEF EndRead
      <4>2. QED
        BY <2>1, <2>2, <2>4, <3>3, <4>1
    <3>4. QED
      BY <3>1, <3>2, <3>3
  <2>5. QED
    BY <2>1, <2>3, <2>4
<1>5. ASSUME Decode PROVE EndInv'
  BY <1>5 DEF Decode, peer
<1>6. ASSUME ReadFrame \/ HandOver PROVE EndInv'
  BY <1>6 DEF ReadFrame, HandOver
<1>7. ASSUME DropReply \/ ReaderCloses \/ Close PROVE EndInv'
  BY <1>7 DEF DropReply, GiveUp, ReaderCloses, Close, CloseLocked
<1>8. CASE UNCHANGED <<cause, wire, frame, disconnect, reader, closed>>
  BY <1>8
<1>9. QED
  BY <1>2, <1>3, <1>4, <1>5, <1>6, <1>7, <1>8
     DEF Next, Reader, vars, peer, PeerStalls, StartWrite, EndWrite, Handled, ReadEnds

\* A frame that is sent takes its place after the last one.
LEMMA PlacesAppend ==
  ASSUME NEW w \in Seq(Seq(Replies)), NEW s \in Seq(Replies), NEW f \in Seq(Replies),
         NEW start,
         Follow(start, w, s)
  PROVE  Follow(start, Append(w, f), s \o f)
<1> DEFINE m == Len(w)
<1> DEFINE n == Len(s)
<1> DEFINE l == Len(f)
<1> DEFINE v == Append(w, f)
<1> DEFINE t == s \o f
<1>1. m \in Nat /\ n \in Nat /\ l \in Nat
  OBVIOUS
<1>2. Len(v) = m + 1 /\ v[m + 1] = f /\ \A i \in 1..m : v[i] = w[i]
  OBVIOUS
<1>3. /\ Len(t) = n + l
      /\ \A k \in 1..n : t[k] = s[k]
      /\ \A k \in 1..l : t[n + k] = f[k]
  OBVIOUS
<1>4. PICK at : Places(at, start, w, s)
  BY DEF Follow
<1>5. /\ at \in [1..m + 1 -> 1..n + 1] /\ at[1] = start /\ at[m + 1] = n + 1
      /\ \A i \in 1..m : at[i + 1] = at[i] + Len(w[i])
      /\ \A i \in 1..m : \A j \in 1..Len(w[i]) : s[at[i] + j - 1] = w[i][j]
  BY <1>4 DEF Places
<1>6. \A i \in 1..m : w[i] \in Seq(Replies) /\ Len(w[i]) \in Nat
  OBVIOUS
<1> DEFINE next == [i \in 1..m + 2 |-> IF i = m + 2 THEN n + l + 1 ELSE at[i]]
<1> HIDE DEF m, n, l, v, t
<1>7. next[m + 2] = n + l + 1 /\ \A i \in 1..m + 1 : next[i] = at[i]
  BY <1>1
<1>8. next \in [1..m + 2 -> 1..n + l + 1]
  <2>1. ASSUME NEW i \in 1..m + 2
        PROVE  (IF i = m + 2 THEN n + l + 1 ELSE at[i]) \in 1..n + l + 1
    BY <1>1, <1>5
  <2>2. QED
    BY <2>1
<1> HIDE DEF next
<1>9. next[1] = start /\ next[m + 2] = n + l + 1
  BY <1>1, <1>5, <1>7
<1>10. ASSUME NEW i \in 1..m + 1
       PROVE  /\ next[i + 1] = next[i] + Len(v[i])
              /\ \A j \in 1..Len(v[i]) : t[next[i] + j - 1] = v[i][j]
  <2>1. CASE i = m + 1
    <3>1. next[i] = n + 1 /\ next[i + 1] = n + l + 1 /\ v[i] = f
      <4>1. i + 1 = m + 2 /\ m + 1 \in 1..m + 1
        BY <1>1, <2>1
      <4>2. QED
        BY <1>2, <1>5, <1>7, <2>1, <4>1
    <3>2. ASSUME NEW j \in 1..l PROVE t[next[i] + j - 1] = f[j]
      <4>1. next[i] + j - 1 = n + j
        BY <1>1, <3>1
      <4>2. QED
        BY <1>3, <4>1
    <3>3. n + l + 1 = n + 1 + l /\ Len(f) = l
      BY <1>1 DEF l
    <3>4. QED
      BY <3>1, <3>2, <3>3
  <2>2. CASE i # m + 1
    <3>1. i \in 1..m /\ i \in 1..m + 1 /\ i + 1 \in 1..m + 1
      BY <1>1, <2>2
    <3>2. next[i] = at[i] /\ next[i + 1] = at[i + 1] /\ v[i] = w[i]
      BY <1>2, <1>7, <3>1
    <3>3. at[i + 1] = at[i] + Len(w[i]) /\ at[i + 1] \in 1..n + 1 /\ at[i] \in 1..n + 1
          /\ Len(w[i]) \in Nat
      BY <1>5, <1>6, <3>1
    <3>4. ASSUME NEW j \in 1..Len(w[i]) PROVE t[at[i] + j - 1] = w[i][j]
      <4>1. \A a \in Nat \ {0}, b \in Nat :
              a + b <= n + 1 => \A k \in 1..b : a + k - 1 \in 1..n
        BY <1>1
      <4>2. at[i] \in Nat \ {0} /\ at[i] + Len(w[i]) <= n + 1
        BY <3>3
      <4>3. at[i] + j - 1 \in 1..n
        BY <3>3, <4>1, <4>2
      <4>4. t[at[i] + j - 1] = s[at[i] + j - 1]
        BY <1>3, <4>3
      <4>5. QED
        BY <1>5, <3>1, <4>4
    <3>5. QED
      BY <3>2, <3>3, <3>4
  <2>3. QED
    BY <2>1, <2>2
<1>11. Len(v) + 1 = m + 2 /\ Len(t) + 1 = n + l + 1
  BY <1>1, <1>2, <1>3
<1>12. Places(next, start, v, t)
  <2>1. Len(v) = m + 1
    BY <1>2
  <2>2. QED
    BY <1>8, <1>9, <1>10, <1>11, <2>1 DEF Places
<1>13. QED
  BY <1>12 DEF Follow, v, t

\* The first frame on the wire holds the replies from its place on, and the others follow.
LEMMA PlacesTail ==
  ASSUME NEW w \in Seq(Seq(Replies)), NEW s \in Seq(Replies), NEW start \in Nat \ {0},
         w # <<>>,
         Follow(start, w, s)
  PROVE  /\ Follow(start + Len(Head(w)), Tail(w), s)
         /\ Within(Head(w), start - 1, s)
<1> DEFINE m == Len(w)
<1> DEFINE n == Len(s)
<1> DEFINE v == Tail(w)
<1>1. m \in Nat /\ m # 0 /\ n \in Nat
  OBVIOUS
<1>2. Len(v) = m - 1 /\ Head(w) = w[1] /\ \A i \in 1..m - 1 : v[i] = w[i + 1]
  OBVIOUS
<1>3. PICK at : Places(at, start, w, s)
  BY DEF Follow
<1>4. /\ at \in [1..m + 1 -> 1..n + 1] /\ at[1] = start /\ at[m + 1] = n + 1
      /\ \A i \in 1..m : at[i + 1] = at[i] + Len(w[i])
      /\ \A i \in 1..m : \A j \in 1..Len(w[i]) : s[at[i] + j - 1] = w[i][j]
  BY <1>3 DEF Places
<1>5. \A i \in 1..m : w[i] \in Seq(Replies) /\ Len(w[i]) \in Nat
  OBVIOUS
<1> DEFINE next == [i \in 1..m |-> at[i + 1]]
<1> HIDE DEF m, n, v
<1>6. 1 \in 1..m /\ 1 + 1 \in 1..m + 1 /\ 1 + 1 = 2
  BY <1>1
<1>7. at[2] = start + Len(w[1]) /\ at[2] \in 1..n + 1 /\ Len(w[1]) \in Nat
  BY <1>4, <1>5, <1>6
<1>8. Within(w[1], start - 1, s)
  <2>1. ASSUME NEW j \in 1..Len(w[1]) PROVE w[1][j] = s[(start - 1) + j]
    <3>1. (start - 1) + j = start + j - 1
      BY <1>7
    <3>2. s[start + j - 1] = w[1][j]
      BY <1>4, <1>6
    <3>3. QED
      BY <3>1, <3>2
  <2>2. (start - 1) + Len(w[1]) <= n
    BY <1>1, <1>7
  <2>3. QED
    BY <2>1, <2>2 DEF Within, n
<1>9. next \in [1..m -> 1..n + 1]
  <2>1. \A i \in 1..m : i + 1 \in 1..m + 1
    BY <1>1
  <2>2. QED
    BY <1>4, <2>1
<1>10. \A i \in 1..m : next[i] = at[i + 1]
  OBVIOUS
<1> HIDE DEF next
<1>11. next[1] = start + Len(w[1]) /\ next[m] = n + 1
  <2>1. m \in 1..m
    BY <1>1
  <2>2. QED
    BY <1>4, <1>6, <1>7, <1>10, <2>1
<1>12. ASSUME NEW i \in 1..m - 1
       PROVE  /\ next[i + 1] = next[i] + Len(v[i])
              /\ \A j \in 1..Len(v[i]) : s[next[i] + j - 1] = v[i][j]
  <2>1. i \in 1..m /\ i + 1 \in 1..m
    BY <1>1
  <2>2. next[i] = at[i + 1] /\ next[i + 1] = at[(i + 1) + 1] /\ v[i] = w[i + 1]
    BY <1>2, <1>10, <2>1
  <2>3. at[(i + 1) + 1] = at[i + 1] + Len(w[i + 1])
        /\ \A j \in 1..Len(w[i + 1]) : s[at[i + 1] + j - 1] = w[i + 1][j]
    BY <1>4, <2>1
  <2>4. QED
    BY <2>2, <2>3
<1>13. Len(v) + 1 = m
  BY <1>1, <1>2
<1>14. Places(next, start + Len(w[1]), v, s)
  <2>1. Len(v) = m - 1 /\ n = Len(s)
    BY <1>2 DEF n
  <2>2. QED
    BY <1>9, <1>11, <1>12, <1>13, <2>1 DEF Places
<1>15. QED
  BY <1>2, <1>8, <1>14 DEF Follow, v

\* With nothing on the wire, its place is the end.
LEMMA NothingFollows ==
  ASSUME NEW s \in Seq(Replies), NEW start, Follow(start, <<>>, s)
  PROVE  start = Len(s) + 1
<1>1. PICK at : Places(at, start, <<>>, s)
  BY DEF Follow
<1>2. Len(<<>>) + 1 = 1
  OBVIOUS
<1>3. QED
  BY <1>1, <1>2 DEF Places

\* Replies that were sent stay where they are when the peer sends more.
LEMMA WithinAppend ==
  ASSUME NEW g \in Seq(Replies), NEW k \in Nat, NEW s \in Seq(Replies), NEW f \in Seq(Replies),
         Within(g, k, s)
  PROVE  Within(g, k, s \o f)
<1>1. Len(s \o f) = Len(s) + Len(f) /\ \A i \in 1..Len(s) : (s \o f)[i] = s[i]
  OBVIOUS
<1>2. Len(s) \in Nat /\ Len(f) \in Nat /\ Len(g) \in Nat
  OBVIOUS
<1>3. ASSUME NEW j \in 1..Len(g) PROVE g[j] = (s \o f)[k + j]
  <2>1. k + j \in 1..Len(s)
    BY <1>2 DEF Within
  <2>2. QED
    BY <1>1, <2>1 DEF Within
<1>4. QED
  BY <1>1, <1>2, <1>3 DEF Within

\* The first reply of a frame is the one after those the client got.
LEMMA WithinHand ==
  ASSUME NEW g \in Seq(Replies), NEW f \in Seq(Replies), NEW s \in Seq(Replies), f # <<>>,
         Within(g, 0, s), Within(f, Len(g), s)
  PROVE  /\ Within(Append(g, Head(f)), 0, s)
         /\ Within(Tail(f), Len(Append(g, Head(f))), s)
<1>1. Len(g) \in Nat /\ Len(f) \in Nat /\ Len(f) # 0 /\ Len(s) \in Nat
  OBVIOUS
<1>2. /\ Len(Append(g, Head(f))) = Len(g) + 1 /\ Append(g, Head(f))[Len(g) + 1] = f[1]
      /\ \A i \in 1..Len(g) : Append(g, Head(f))[i] = g[i]
  OBVIOUS
<1>3. Len(Tail(f)) = Len(f) - 1 /\ \A i \in 1..Len(f) - 1 : Tail(f)[i] = f[i + 1]
  OBVIOUS
<1>4. /\ Len(g) + Len(f) <= Len(s) /\ \A j \in 1..Len(f) : f[j] = s[Len(g) + j]
      /\ \A j \in 1..Len(g) : g[j] = s[0 + j]
  BY DEF Within
<1>5. ASSUME NEW j \in 1..Len(g) + 1 PROVE Append(g, Head(f))[j] = s[0 + j]
  <2>1. CASE j = Len(g) + 1
    <3>1. 1 \in 1..Len(f) /\ 0 + j = Len(g) + 1
      BY <1>1, <2>1
    <3>2. QED
      BY <1>2, <1>4, <2>1, <3>1
  <2>2. CASE j \in 1..Len(g)
    BY <1>2, <1>4, <2>2
  <2>3. QED
    BY <1>1, <2>1, <2>2
<1>6. ASSUME NEW j \in 1..Len(f) - 1 PROVE Tail(f)[j] = s[(Len(g) + 1) + j]
  <2>1. j + 1 \in 1..Len(f) /\ Len(g) + (j + 1) = (Len(g) + 1) + j
    BY <1>1
  <2>2. QED
    BY <1>3, <1>4, <2>1
<1>7. 0 + (Len(g) + 1) <= Len(s) /\ (Len(g) + 1) + (Len(f) - 1) <= Len(s)
  BY <1>1, <1>4
<1>8. QED
  BY <1>2, <1>3, <1>5, <1>6, <1>7 DEF Within

\* Replies that are a prefix of what was sent, as a sequence.
LEMMA WithinAll ==
  ASSUME NEW g \in Seq(Replies), NEW s \in Seq(Replies), Within(g, 0, s)
  PROVE  g = SubSeq(s, 1, Len(g)) /\ (Len(g) = Len(s) => g = s)
<1>1. Len(g) \in Nat /\ Len(s) \in Nat /\ Len(g) <= Len(s)
  BY DEF Within
<1>2. \A j \in 1..Len(g) : g[j] = s[j]
  BY DEF Within
<1>3. g = SubSeq(s, 1, Len(g))
  <2>1. SubSeq(s, 1, Len(g)) \in Seq(Replies) /\ Len(SubSeq(s, 1, Len(g))) = Len(g)
        /\ \A j \in 1..Len(g) : SubSeq(s, 1, Len(g))[j] = s[j]
    BY <1>1
  <2>2. QED
    BY <1>2, <2>1, SeqEqual
<1>4. ASSUME Len(g) = Len(s) PROVE g = s
  BY <1>2, <1>4, SeqEqual
<1>5. QED
  BY <1>3, <1>4

\* StreamInv after the peer sends a frame.
LEMMA SendPlaces ==
  ASSUME StreamTypes, StreamInv, PeerSends
  PROVE  StreamInv'
<1>1. PICK f \in Seq(Replies) :
        /\ Len(f) \in 1..2 /\ wire' = Append(wire, f) /\ sent' = sent \o f
        /\ UNCHANGED <<got, frame>>
  BY Frames
<1>2. /\ wire \in Seq(Seq(Replies)) /\ sent \in Seq(Replies) /\ got \in Seq(Replies)
      /\ frame \in Seq(Replies) /\ Len(got) \in Nat
  BY DEF StreamTypes
<1>3. Within(got, 0, sent \o f) /\ Within(frame, Len(got), sent \o f)
  BY <1>2, WithinAppend DEF StreamInv
<1>4. Follow(Len(got) + Len(frame) + 1, Append(wire, f), sent \o f)
  BY <1>2, PlacesAppend DEF StreamInv
<1>5. QED
  BY <1>1, <1>3, <1>4 DEF StreamInv

\* StreamInv after the goroutine reads a frame (ReadMessage).
LEMMA ReadPlaces ==
  ASSUME StreamTypes, StreamInv, FrameInv, ReadFrame
  PROVE  StreamInv'
<1>1. /\ frame = <<>> /\ wire # <<>> /\ wire' = Tail(wire) /\ frame' = Head(wire)
      /\ UNCHANGED <<sent, got>>
  BY DEF ReadFrame, FrameInv
<1>2. wire \in Seq(Seq(Replies)) /\ sent \in Seq(Replies) /\ Len(got) \in Nat
  BY DEF StreamTypes
<1>3. Len(frame) = 0
  BY <1>1
<1>4. Follow(Len(got) + 1, wire, sent)
  <2>1. Len(got) + Len(frame) + 1 = Len(got) + 1
    BY <1>2, <1>3
  <2>2. QED
    BY <2>1 DEF StreamInv
<1>5. /\ Follow((Len(got) + 1) + Len(Head(wire)), Tail(wire), sent)
      /\ Within(Head(wire), (Len(got) + 1) - 1, sent)
  <2>1. Len(got) + 1 \in Nat \ {0}
    BY <1>2
  <2>2. QED
    BY <1>1, <1>2, <1>4, <2>1, PlacesTail
<1>6. Len(Head(wire)) \in Nat
  BY <1>1, <1>2 DEF Replies
<1>7. (Len(got) + 1) + Len(Head(wire)) = Len(got) + Len(Head(wire)) + 1
      /\ (Len(got) + 1) - 1 = Len(got)
  <2>1. \A a, b \in Nat : (a + 1) + b = a + b + 1 /\ (a + 1) - 1 = a
    OBVIOUS
  <2>2. QED
    BY <1>2, <1>6, <2>1
<1>8. QED
  BY <1>1, <1>5, <1>7 DEF StreamInv

\* StreamInv after a reply is handed to the client's reader (replyCh).
LEMMA HandPlaces ==
  ASSUME StreamTypes, StreamInv, FrameInv, HandOver
  PROVE  StreamInv'
<1>1. /\ frame # <<>> /\ frame' = Tail(frame) /\ got' = Append(got, Head(frame))
      /\ UNCHANGED <<sent, wire>>
  BY DEF HandOver, FrameInv, Rest, peer
<1>2. sent \in Seq(Replies) /\ got \in Seq(Replies) /\ frame \in Seq(Replies)
  BY DEF StreamTypes
<1>3. /\ Within(Append(got, Head(frame)), 0, sent)
      /\ Within(Tail(frame), Len(Append(got, Head(frame))), sent)
  BY <1>1, <1>2, WithinHand DEF StreamInv
<1>4. Len(Append(got, Head(frame))) + Len(Tail(frame)) + 1 = Len(got) + Len(frame) + 1
  <2>1. /\ Len(Append(got, Head(frame))) = Len(got) + 1 /\ Len(Tail(frame)) = Len(frame) - 1
        /\ Len(got) \in Nat /\ Len(frame) \in Nat
    BY <1>1, <1>2
  <2>2. \A a, b \in Nat : (a + 1) + (b - 1) + 1 = a + b + 1
    OBVIOUS
  <2>3. QED
    BY <2>1, <2>2
<1>5. QED
  BY <1>1, <1>3, <1>4 DEF StreamInv

\* A step keeps the streams together: no reply is lost, repeated or out of order.
LEMMA StreamStep ==
  ASSUME StreamTypes, StreamInv, FrameInv, [Next]_vars
  PROVE  StreamInv'
<1>1. CASE UNCHANGED <<wire, sent, got, frame>>
  BY <1>1 DEF StreamInv
<1>2. QED
  BY <1>1, SendPlaces, ReadPlaces, HandPlaces
     DEF Next, Reader, vars, peer, PeerEnds, PeerStalls, Close, StartWrite, EndWrite,
         ReadError, Decode, DropReply, ReaderCloses, Handled, ReadEnds

\* The invariant says that the end is in order.
LEMMA InOrder ==
  ASSUME TransportInv
  PROVE  EndIsInOrder
<1> USE DEF TransportInv, StreamTypes, Replies
<1>1. got = SubSeq(sent, 1, Len(got))
  BY WithinAll DEF StreamInv
<1>2. ASSUME client = "ended", ~closed
      PROVE  \/ /\ cause.kind = "plain" /\ got = sent
                /\ IF cause.code < 3000 THEN reported \in {HiddenCode, MessageSizeLimit}
                   ELSE reported = [code |-> cause.code,
                                    reconnect |-> cause.code \notin Permanent]
             \/ cause.kind = "json" /\ got = sent /\ reported = cause.says
             \/ cause = Broken /\ reported = NoDisconnect
             \/ Len(got) < Len(sent) /\ sent[Len(got) + 1] = Bad /\ reported = BadProtocol
  <2>1. ReplyChClosed /\ reported = disconnect
    BY <1>2 DEF ReportedInv
  <2>2. CASE cause \in CloseFrames /\ wire = <<>> /\ frame = <<>>
            /\ disconnect = Extracted(cause)
    <3>1. Len(got) \in Nat /\ Len(sent) \in Nat /\ Len(frame) = 0
      BY <2>2
    <3>2. Len(got) + Len(frame) + 1 = Len(sent) + 1
      BY <2>2, NothingFollows DEF StreamInv
    <3>3. Len(got) = Len(sent)
      BY <3>1, <3>2
    <3>4. got = sent
      BY <3>3, WithinAll DEF StreamInv
    <3>5. cause.kind \in {"plain", "json"}
      BY <2>2, FrameKinds
    <3>6. QED
      BY <2>1, <2>2, <3>4, <3>5, ExtractedFrames
  <2>3. CASE cause = Broken /\ disconnect = NoDisconnect
    BY <2>1, <2>3
  <2>4. CASE frame # <<>> /\ Head(frame) = Bad /\ disconnect = BadProtocol
    <3>1. Len(frame) \in Nat \ {0} /\ Len(got) \in Nat /\ Len(sent) \in Nat /\ frame[1] = Bad
      BY <2>4
    <3>2. 1 \in 1..Len(frame)
      BY <3>1
    <3>3. /\ \A j \in 1..Len(frame) : frame[j] = sent[Len(got) + j]
          /\ Len(got) + Len(frame) <= Len(sent)
      BY DEF StreamInv, Within
    <3>4. frame[1] = sent[Len(got) + 1]
      BY <3>2, <3>3
    <3>5. Len(got) < Len(sent)
      <4>1. \A a, c \in Nat, b \in Nat \ {0} : a + b <= c => a < c
        OBVIOUS
      <4>2. QED
        BY <3>1, <3>3, <4>1
    <3>6. QED
      BY <2>1, <2>4, <3>1, <3>4, <3>5
  <2>5. QED
    BY <1>2, <2>1, <2>2, <2>3, <2>4 DEF EndInv
<1>3. QED
  BY <1>1, <1>2 DEF EndIsInOrder

------------------------------------------------------------------------------
(* Theorems                                                                 *)

\* Every reachable state of the transport has TransportInv: its streams fit together and a
\* goroutine that stopped left a reason and no reply behind (reader, Read, Close).
THEOREM TransportInvariant == Spec => []TransportInv
<1>1. Init => TransportInv
  <2> SUFFICES ASSUME Init PROVE TransportInv
    OBVIOUS
  <2>1. StreamTypes /\ StateTypes
    BY TransportBounds DEF Init, StreamTypes, StateTypes, Replies
  <2>2. FlagTypes /\ ConnInv
    BY DEF Init, FlagTypes, ConnInv
  <2>3. StreamInv
    <3>1. /\ wire = <<>> /\ sent = <<>> /\ got = <<>> /\ frame = <<>> /\ Len(<<>>) = 0
      BY DEF Init
    <3>2. Within(<<>>, 0, <<>>)
      BY DEF Within
    <3>3. Places([i \in 1..1 |-> 1], 1, <<>>, <<>>)
      BY DEF Places
    <3>4. QED
      BY <3>1, <3>2, <3>3 DEF StreamInv, Follow
  <2>4. FrameInv /\ EndInv /\ ReasonInv /\ ReportedInv
    BY DEF Init, FrameInv, EndInv, ReasonInv, ReportedInv, ReplyChClosed
  <2>5. QED
    BY <2>1, <2>2, <2>3, <2>4 DEF TransportInv
<1>2. TransportInv /\ [Next]_vars => TransportInv'
  BY StreamTypesStep, StateTypesStep, FlagTypesStep, StreamStep, FrameStep, EndStep,
     ReasonStep, ReportedStep
     DEF TransportInv
<1>3. QED
  BY <1>1, <1>2, PTL DEF Spec

\* Replies reach the client's reader in the order of the wire and without a gap, and an end of
\* the peer comes after all of them and with its reason: that of its JSON text, or else its code,
\* which reconnects unless it is permanent (reader, Read, extractDisconnectWebsocket).
THEOREM EndsInOrder == Spec => []EndIsInOrder
<1>1. TransportInv => EndIsInOrder
  BY InOrder
<1>2. QED
  BY <1>1, TransportInvariant, PTL

\* The invariant implies the type invariant of WebsocketTransport.
LEMMA TypesCorrect == TransportInv => TypeOK
<1> SUFFICES ASSUME TransportInv PROVE TypeOK
  OBVIOUS
<1>1. ASSUME NEW c \in CloseFrames \cup {Broken} PROVE Extracted(c) \in Disconnects
  <2>1. CASE c = Broken
    BY <2>1, ExtractedFrames DEF Disconnects, NoDisconnect, None
  <2>2. CASE c \in CloseFrames /\ c.kind = "json"
    <3>1. Extracted(c) \in [code : TextCodes, reconnect : BOOLEAN]
      BY <2>2, FrameKinds, ExtractedFrames
    <3>2. QED
      BY <3>1 DEF Disconnects
  <2>3. CASE c \in CloseFrames /\ c.kind = "plain" /\ c.code < 3000
    <3>1. Extracted(c) \in {HiddenCode, MessageSizeLimit}
      BY <2>3, ExtractedFrames
    <3>2. QED
      <4>1. TRUE \in BOOLEAN /\ FALSE \in BOOLEAN
        OBVIOUS
      <4>2. HiddenCode \in Disconnects
        BY <4>1 DEF HiddenCode, TransportClosed, Disconnects
      <4>3. MessageSizeLimit \in Disconnects
        BY <4>1 DEF MessageSizeLimit, Disconnects
      <4>4. QED
        BY <3>1, <4>2, <4>3
  <2>4. CASE c \in CloseFrames /\ c.kind = "plain" /\ ~(c.code < 3000)
    <3>1. Extracted(c) = [code |-> c.code, reconnect |-> c.code \notin Permanent]
      BY <2>4, ExtractedFrames
    <3>2. c.code \in Codes /\ c.code \in Nat
      <4>1. c.code \in Codes
        BY <2>4, FrameKinds
      <4>2. QED
        BY <4>1, TransportCodes
    <3>3. c.code >= 3000
      BY <2>4, <3>2
    <3>4. (c.code \notin Permanent) \in BOOLEAN
      OBVIOUS
    <3>5. QED
      BY <3>1, <3>2, <3>3, <3>4 DEF Disconnects
  <2>5. QED
    BY <2>1, <2>2, <2>3, <2>4, FrameKinds
<1>2. NoDisconnect \in Disconnects /\ BadProtocol \in Disconnects
  BY DEF Disconnects, NoDisconnect, BadProtocol, None
<1>3. disconnect \in Disconnects
  BY <1>1, <1>2 DEF TransportInv, ReasonInv
<1>4. reported \in Disconnects
  BY <1>2, <1>3 DEF TransportInv, ReportedInv
<1>5. stalled \in BOOLEAN /\ conn \in BOOLEAN /\ closed \in BOOLEAN
  BY DEF TransportInv, FlagTypes
<1>6. /\ frames \in 0..MaxFrames /\ cause \in CloseFrames \cup {Open, Broken}
      /\ \A i \in 1..Len(wire) : Len(wire[i]) \in 1..2
      /\ holder \in Writers \cup {Nobody}
      /\ reader \in {"read", "decode", "hand", "closing", "done"}
      /\ client \in {"read", "handle", "ended"} /\ writes \in 0..MaxWrites
  BY DEF TransportInv, StreamTypes, StateTypes
<1>7. QED
  BY <1>3, <1>4, <1>5, <1>6 DEF TypeOK

\* Type correctness; the codes of the websocket protocol itself reach no client, unless the JSON
\* text of a close frame names them (extractDisconnectWebsocket).
THEOREM TransportTypesCorrect == Spec => []TypeOK
<1>1. QED
  BY TypesCorrect, TransportInvariant, PTL

\* Every reachable state of the supervision has SupervisionInv: the current session has its
\* reader and its waiter, which waits as long as it should (handlePing, waitServerPing).
THEOREM PingInvariant == Supervision!Spec => []SupervisionInv
<1>1. Supervision!Init => SupervisionInv
  <2> SUFFICES ASSUME Supervision!Init PROVE SupervisionInv
    OBVIOUS
  <2>1. PingTypes
    BY PingBounds
       DEF Supervision!Init, PingTypes, Supervision!Sessions, Supervision!Allowed,
           Supervision!Off
  <2>2. PingFlagTypes
    BY DEF Supervision!Init, PingFlagTypes
  <2>3. WatchedInv /\ PatienceInv /\ EndedForSilence
    BY DEF Supervision!Init, WatchedInv, PatienceInv, EndedForSilence,
           Supervision!EndedForSilence
  <2>4. QED
    BY <2>1, <2>2, <2>3 DEF SupervisionInv
<1>2. SupervisionInv /\ [Supervision!Next]_(Supervision!vars) => SupervisionInv'
  BY PingTypesStep, PingFlagTypesStep, WatchedStep, PatienceStep, SilenceStep
     DEF SupervisionInv
<1>3. QED
  BY <1>1, <1>2, PTL DEF Supervision!Spec

\* A session is ended for a missing ping only when none was read in time, or the waiter of a
\* former session took one from the channel both use (waitServerPing, delayPing).
THEOREM NoFalseAlarmAlone == Supervision!Spec => []EndedForSilence
<1>1. SupervisionInv => EndedForSilence
  BY DEF SupervisionInv
<1>2. QED
  BY <1>1, PingInvariant, PTL

\* Type correctness; the channel of pings holds no more than its capacity (delayPing).
THEOREM PingTypesCorrect == Supervision!Spec => []Supervision!TypeOK
<1>1. SupervisionInv => Supervision!TypeOK
  BY DEF SupervisionInv, PingTypes, PingFlagTypes, Supervision!TypeOK
<1>2. QED
  BY <1>1, PingInvariant, PTL

------------------------------------------------------------------------------
(* The callback queue                                                       *)

\* Number of entries the dispatcher has taken from the list.
TakenCallbacks == Len(ran) + (IF dpc \in {"stop", "done"} THEN 1 ELSE 0)

\* The list is linked in push order from the first entry not taken.
ListInv ==
  /\ head = IF TakenCallbacks = Len(cbs) THEN Queue!Nil ELSE TakenCallbacks + 1
  /\ tail = IF TakenCallbacks = Len(cbs) THEN Queue!Nil ELSE Len(cbs)
  /\ TakenCallbacks <= Len(cbs)
  /\ \A n \in 1..Len(cbs) :
       n > TakenCallbacks => cbs[n].next = IF n = Len(cbs) THEN Queue!Nil ELSE n + 1

\* The stop entry is the last one, and what it does to the dispatcher.
StopInv ==
  /\ queueClosed => Len(cbs) > 0
  /\ \A n \in 1..Len(cbs) : cbs[n].fn = "stop" <=> (queueClosed /\ n = Len(cbs))
  /\ dpc \in {"stop", "done"} => queueClosed /\ TakenCallbacks = Len(cbs)
  /\ dpc \notin {"stop", "done"} /\ queueClosed => TakenCallbacks < Len(cbs)
  /\ queueCloseCh <=> dpc = "done"

\* What was called so far is exactly what was taken.
RunInv ==
  /\ Queue!RunInPushOrder
  /\ dpc = "run" => Len(ran) > 0 /\ curr = Len(ran)

\* The inductive invariant.
QueueInv == Queue!TypeOK /\ ListInv /\ StopInv /\ RunInv /\ NoLostSignal

\* newClient starts with an empty queue.
LEMMA InitQueueInv == Queue!Init => QueueInv
<1> SUFFICES ASSUME Queue!Init PROVE QueueInv
  OBVIOUS
<1>1. cbs = <<>> /\ ran = <<>> /\ Len(cbs) = 0 /\ Len(ran) = 0 /\ TakenCallbacks = 0
  BY DEF Queue!Init, TakenCallbacks
<1>2. Queue!TypeOK
  <2>1. cbs \in Seq(Queue!AsyncCB) /\ ran \in Seq(Nat)
    BY <1>1, EmptySeq
  <2>2. head \in 0..Len(cbs) /\ tail \in 0..Len(cbs) /\ curr \in 0..Len(cbs)
    BY <1>1 DEF Queue!Init, Queue!Nil
  <2>3. notify \in BOOLEAN /\ queueClosed \in BOOLEAN /\ queueCloseCh \in BOOLEAN
    BY DEF Queue!Init
  <2>4. /\ cpc \in [Queue!Goroutines -> {"idle", "waitDone", "waitClose"}]
        /\ wait \in [Queue!Goroutines -> 0..Len(cbs)]
        /\ dpc \in {"take", "sleep", "run", "stop", "done"}
    BY <1>1 DEF Queue!Init, Queue!Nil
  <2>5. QED
    BY <2>1, <2>2, <2>3, <2>4 DEF Queue!TypeOK
<1>3. ListInv /\ StopInv
  BY <1>1 DEF Queue!Init, ListInv, StopInv, TakenCallbacks, Queue!Nil
<1>4. RunInv /\ NoLostSignal
  BY <1>1 DEF Queue!Init, RunInv, Queue!RunInPushOrder, NoLostSignal,
              Queue!NoLostSignal
<1>5. QED
  BY <1>2, <1>3, <1>4 DEF QueueInv

\* A push, whatever else its action does, keeps every part of the invariant
\* that speaks of the list.
LEMMA PushKeepsInv ==
  ASSUME QueueInv, NEW fn \in {"callback", "stop"}, Queue!PushOrClose(fn),
         UNCHANGED <<queueCloseCh, dpc, curr, ran>>,
         cpc' \in [Queue!Goroutines -> {"idle", "waitDone", "waitClose"}],
         wait' \in [Queue!Goroutines ->
             0..(Len(cbs) + (IF queueClosed THEN 0 ELSE 1))],
         dpc \notin {"stop", "done"} \/ queueClosed
  PROVE  QueueInv'
<1> DEFINE n == Len(cbs) + 1
           linked == IF tail # Queue!Nil
                     THEN [cbs EXCEPT ![tail] = [fn |-> @.fn, next |-> n]]
                     ELSE cbs
           new == [fn |-> fn, next |-> Queue!Nil]
<1>1. CASE queueClosed
  <2>1. wait' \in [Queue!Goroutines -> 0..Len(cbs)]
    BY <1>1 DEF QueueInv, Queue!TypeOK
  <2>2. QED
    BY <1>1, <2>1 DEF QueueInv, Queue!TypeOK, ListInv, StopInv, RunInv,
                      Queue!RunInPushOrder, NoLostSignal, Queue!NoLostSignal,
                          TakenCallbacks, Queue!PushOrClose, Queue!listVars
<1>2. CASE ~queueClosed
  <2>1. /\ cbs' = Append(linked, new)
        /\ head' = IF tail # Queue!Nil THEN head ELSE n
        /\ tail' = n
        /\ queueClosed' = (fn = "stop")
        /\ notify' = TRUE
    BY <1>2 DEF Queue!PushOrClose, Queue!HeadAfterPush, Queue!ClosedAfterPush,
                Queue!Signal
  <2>2. /\ cbs \in Seq(Queue!AsyncCB) /\ Len(cbs) \in Nat /\ Len(ran) \in Nat
        /\ tail \in 0..Len(cbs)
        /\ dpc \notin {"stop", "done"}
        /\ TakenCallbacks = Len(ran) /\ TakenCallbacks' = Len(ran)
    BY <1>2 DEF QueueInv, Queue!TypeOK, TakenCallbacks
  <2>3. /\ linked \in Seq(Queue!AsyncCB) /\ Len(linked) = Len(cbs)
        /\ new \in Queue!AsyncCB
        /\ \A i \in 1..Len(cbs) :
             linked[i] = IF tail # Queue!Nil /\ i = tail
                         THEN [fn |-> cbs[i].fn, next |-> n] ELSE cbs[i]
    <3>1. new \in Queue!AsyncCB
      BY DEF Queue!AsyncCB, Queue!Nil
    <3>2. CASE tail = Queue!Nil
      BY <2>2, <3>1, <3>2
    <3>3. CASE tail # Queue!Nil
      <4> DEFINE e == [fn |-> cbs[tail].fn, next |-> n]
      <4>1. tail \in 1..Len(cbs)
        BY <2>2, <3>3 DEF Queue!Nil
      <4>2. cbs[tail] \in Queue!AsyncCB
        BY <2>2, <4>1, ElementOfSeq
      <4>3. e \in Queue!AsyncCB
        BY <2>2, <4>2 DEF Queue!AsyncCB
      <4>4. linked = [cbs EXCEPT ![tail] = e]
        BY <3>3
      <4>5. \A i \in 1..Len(cbs) :
              i = tail => e = [fn |-> cbs[i].fn, next |-> n]
        OBVIOUS
      <4> HIDE DEF e, linked, n, new
      <4>6. /\ linked \in Seq(Queue!AsyncCB) /\ Len(linked) = Len(cbs)
            /\ \A i \in 1..Len(cbs) : linked[i] = IF i = tail THEN e ELSE cbs[i]
        BY <2>2, <4>1, <4>3, <4>4, ExceptSeq
      <4>7. QED
        BY <3>1, <3>3, <4>5, <4>6
    <3>4. QED
      BY <3>2, <3>3
  <2>4. /\ cbs' \in Seq(Queue!AsyncCB) /\ Len(cbs') = n
        /\ cbs'[n] = new
        /\ \A i \in 1..Len(cbs) : cbs'[i] = linked[i]
    <3>1. /\ Append(linked, new) \in Seq(Queue!AsyncCB)
          /\ Len(Append(linked, new)) = Len(linked) + 1
          /\ \A i \in 1..Len(linked) : Append(linked, new)[i] = linked[i]
          /\ Append(linked, new)[Len(linked) + 1] = new
      <4> HIDE DEF linked, new
      <4>1. QED
        BY <2>3, AppendProperties
    <3> HIDE DEF linked, new
    <3>2. QED
      BY <2>1, <2>3, <3>1
  <2>5. \A i \in 1..Len(cbs) :
          /\ cbs'[i].fn = cbs[i].fn
          /\ cbs'[i].next = IF tail # Queue!Nil /\ i = tail THEN n ELSE cbs[i].next
    BY <2>2, <2>3, <2>4 DEF Queue!AsyncCB
  <2> HIDE DEF linked
  <2>6. Queue!TypeOK'
    <3>1. wait' \in [Queue!Goroutines -> 0..Len(cbs')]
      BY <1>2, <2>2, <2>4
    <3>2. QED
      BY <2>1, <2>2, <2>4, <3>1 DEF QueueInv, Queue!TypeOK
  <2>7. ListInv'
    <3>1. \A i \in 1..Len(cbs') :
            i > TakenCallbacks'
                => cbs'[i].next = IF i = Len(cbs') THEN Queue!Nil ELSE i + 1
      <4> SUFFICES ASSUME NEW i \in 1..n, i > Len(ran)
                   PROVE  cbs'[i].next = IF i = n THEN Queue!Nil ELSE i + 1
        BY <2>2, <2>4
      <4>1. CASE i = n
        BY <2>4, <4>1
      <4>2. CASE i # n
        <5>1. i \in 1..Len(cbs) /\ tail = Len(cbs) /\ tail # Queue!Nil
          BY <2>2, <4>2 DEF QueueInv, ListInv, Queue!Nil
        <5>2. i # Len(cbs) => cbs[i].next = i + 1
          BY <2>2, <5>1 DEF QueueInv, ListInv
        <5>3. QED
          BY <2>2, <2>5, <4>2, <5>1, <5>2
      <4>3. QED
        BY <4>1, <4>2
    <3>2. /\ head' = (IF TakenCallbacks' = Len(cbs') THEN Queue!Nil ELSE TakenCallbacks' + 1)
          /\ tail' = (IF TakenCallbacks' = Len(cbs') THEN Queue!Nil ELSE Len(cbs'))
          /\ TakenCallbacks' <= Len(cbs')
      BY <2>1, <2>2, <2>4 DEF QueueInv, ListInv, Queue!Nil
    <3>3. QED
      BY <3>1, <3>2 DEF ListInv
  <2>8. StopInv'
    <3>1. \A i \in 1..Len(cbs') :
            (cbs'[i].fn = "stop") <=> (fn = "stop" /\ i = Len(cbs'))
      <4>1. \A i \in 1..Len(cbs) : cbs[i].fn # "stop"
        BY <1>2 DEF QueueInv, StopInv
      <4>2. \A i \in 1..Len(cbs) : cbs'[i].fn # "stop"
        BY <2>5, <4>1
      <4>3. cbs'[n].fn = fn
        BY <2>4
      <4>4. QED
        BY <2>2, <2>4, <4>2, <4>3
    <3>2. \A i \in 1..Len(cbs') :
            (cbs'[i].fn = "stop") <=> (queueClosed' /\ i = Len(cbs'))
      BY <2>1, <3>1
    <3>3. Len(cbs') > 0 /\ TakenCallbacks' < Len(cbs')
      BY <2>2, <2>4 DEF QueueInv, ListInv
    <3>4. QED
      BY <2>2, <3>2, <3>3 DEF QueueInv, StopInv
  <2>9. RunInv' /\ NoLostSignal'
    BY <2>1 DEF QueueInv, RunInv, Queue!RunInPushOrder, NoLostSignal,
                Queue!NoLostSignal
  <2>10. QED
    BY <2>6, <2>7, <2>8, <2>9 DEF QueueInv
<1>3. QED
  BY <1>1, <1>2

\* The locked section of dispatch keeps the invariant.
LEMMA TakeKeepsInv == ASSUME QueueInv, Queue!Take PROVE QueueInv'
<1>1. /\ dpc = "take" /\ TakenCallbacks = Len(ran)
      /\ Len(cbs) \in Nat /\ Len(ran) \in Nat /\ ran \in Seq(Nat)
      /\ UNCHANGED <<cbs, notify, queueClosed, queueCloseCh, cpc, wait>>
  BY DEF Queue!Take, QueueInv, Queue!TypeOK, TakenCallbacks
<1>2. CASE head = Queue!Nil
  <2>1. /\ dpc' = "sleep" /\ UNCHANGED <<head, tail, curr, ran>>
        /\ TakenCallbacks' = TakenCallbacks
    BY <1>1, <1>2 DEF Queue!Take, TakenCallbacks
  <2>2. Queue!TypeOK' /\ ListInv'
    BY <1>1, <2>1 DEF QueueInv, Queue!TypeOK, ListInv
  <2>3. StopInv' /\ RunInv' /\ NoLostSignal'
    BY <1>1, <1>2, <2>1 DEF QueueInv, StopInv, RunInv, Queue!RunInPushOrder,
                            NoLostSignal, Queue!NoLostSignal
  <2>4. QED
    BY <2>2, <2>3 DEF QueueInv
<1>3. CASE head # Queue!Nil
  <2>1. /\ curr' = head /\ head' = cbs[head].next
        /\ tail' = (IF head = tail THEN Queue!Nil ELSE tail)
        /\ dpc' = (IF cbs[head].fn = "stop" THEN "stop" ELSE "run")
        /\ ran' = IF cbs[head].fn = "stop" THEN ran ELSE Append(ran, head)
    BY <1>3 DEF Queue!Take, Queue!TailAfterTake, Queue!AfterTake
  <2>2. /\ head = Len(ran) + 1 /\ tail = Len(cbs) /\ head <= Len(cbs)
        /\ head' = IF head = Len(cbs) THEN Queue!Nil ELSE head + 1
    BY <1>1, <1>3, <2>1 DEF QueueInv, ListInv, Queue!Nil
  <2>3. /\ ran' \in Seq(Nat)
        /\ TakenCallbacks' = head
        /\ Len(ran') = IF cbs[head].fn = "stop" THEN Len(ran) ELSE head
        /\ \A i \in 1..Len(ran') : ran'[i] = i
    <3>1. /\ Append(ran, head) \in Seq(Nat)
          /\ Len(Append(ran, head)) = Len(ran) + 1
          /\ \A i \in 1..Len(ran) : Append(ran, head)[i] = ran[i]
          /\ Append(ran, head)[Len(ran) + 1] = head
      BY <1>1, <2>2, AppendProperties
    <3>2. \A i \in 1..Len(ran) : ran[i] = i
      BY DEF QueueInv, RunInv, Queue!RunInPushOrder
    <3>3. CASE cbs[head].fn = "stop"
      BY <1>1, <2>1, <2>2, <3>2, <3>3 DEF TakenCallbacks
    <3>4. CASE cbs[head].fn # "stop"
      BY <1>1, <2>1, <2>2, <3>1, <3>2, <3>4 DEF TakenCallbacks
    <3>5. QED
      BY <3>3, <3>4
  <2>4. Queue!TypeOK'
    BY <1>1, <2>1, <2>2, <2>3 DEF QueueInv, Queue!TypeOK, Queue!Nil
  <2>5. ListInv'
    BY <1>1, <2>1, <2>2, <2>3 DEF QueueInv, ListInv, Queue!Nil
  <2>6. StopInv'
    BY <1>1, <2>1, <2>2, <2>3 DEF QueueInv, StopInv
  <2>7. RunInv' /\ NoLostSignal'
    BY <1>1, <2>1, <2>2, <2>3 DEF RunInv, Queue!RunInPushOrder, NoLostSignal,
                                  Queue!NoLostSignal
  <2>8. QED
    BY <2>4, <2>5, <2>6, <2>7 DEF QueueInv
<1>4. QED
  BY <1>2, <1>3

\* Every step keeps the invariant.
LEMMA QueueStepKeepsInv == QueueInv /\ [Queue!Next]_(Queue!vars) => QueueInv'
<1> SUFFICES ASSUME QueueInv, [Queue!Next]_(Queue!vars) PROVE QueueInv'
  OBVIOUS
<1>1. CASE Queue!Take
  BY <1>1, TakeKeepsInv
<1>2. CASE Queue!Wake
  BY <1>2 DEF Queue!Wake, QueueInv, Queue!TypeOK, ListInv, StopInv, RunInv,
              Queue!RunInPushOrder,
              NoLostSignal, Queue!NoLostSignal, TakenCallbacks
<1>3. CASE Queue!Return
  BY <1>3 DEF Queue!Return, Queue!listVars, QueueInv, Queue!TypeOK, ListInv,
              StopInv, RunInv,
              Queue!RunInPushOrder, NoLostSignal, Queue!NoLostSignal, TakenCallbacks
<1>4. CASE Queue!Stop
  BY <1>4 DEF Queue!Stop, Queue!listVars, QueueInv, Queue!TypeOK, ListInv, StopInv,
              RunInv,
              Queue!RunInPushOrder, NoLostSignal, Queue!NoLostSignal, TakenCallbacks
<1>5. ASSUME NEW g \in Queue!Goroutines, Queue!Call(g) PROVE QueueInv'
  <2>1. dpc \notin {"stop", "done"} \/ queueClosed
    BY DEF QueueInv, StopInv
  <2>2. CASE Queue!RunAsync(g)
    <3>1. /\ cpc' \in [Queue!Goroutines -> {"idle", "waitDone", "waitClose"}]
          /\ wait' \in [Queue!Goroutines ->
              0..(Len(cbs) + (IF queueClosed THEN 0 ELSE 1))]
      BY <2>2 DEF Queue!RunAsync, QueueInv, Queue!TypeOK
    <3>2. QED
      BY <2>1, <2>2, <3>1, PushKeepsInv DEF Queue!RunAsync
  <2>3. CASE Queue!RunWait(g)
    <3>1. /\ cpc' \in [Queue!Goroutines -> {"idle", "waitDone", "waitClose"}]
          /\ wait' \in [Queue!Goroutines ->
              0..(Len(cbs) + (IF queueClosed THEN 0 ELSE 1))]
      <4>1. Len(cbs) \in Nat
        BY DEF QueueInv, Queue!TypeOK
      <4>2. CASE Queue!NoWait(g)
        BY <2>3, <4>1, <4>2 DEF Queue!RunWait, QueueInv, Queue!TypeOK
      <4>3. CASE ~Queue!NoWait(g)
        BY <2>3, <4>1, <4>3 DEF Queue!RunWait, Queue!NoWait, QueueInv, Queue!TypeOK
      <4>4. QED
        BY <4>2, <4>3
    <3>2. QED
      BY <2>1, <2>3, <3>1, PushKeepsInv DEF Queue!RunWait
  <2>4. CASE Queue!Close(g)
    <3>1. /\ cpc' \in [Queue!Goroutines -> {"idle", "waitDone", "waitClose"}]
          /\ wait' \in [Queue!Goroutines ->
              0..(Len(cbs) + (IF queueClosed THEN 0 ELSE 1))]
      BY <2>4 DEF Queue!Close, QueueInv, Queue!TypeOK
    <3>2. QED
      BY <2>1, <2>4, <3>1, PushKeepsInv DEF Queue!Close
  <2>5. QED
    BY <1>5, <2>2, <2>3, <2>4 DEF Queue!Call
<1>6. ASSUME NEW g \in Queue!Goroutines, Queue!Resume(g) PROVE QueueInv'
  <2>1. /\ UNCHANGED <<Queue!listVars, queueCloseCh, dpc, curr, ran>>
        /\ cpc' \in [Queue!Goroutines -> {"idle", "waitDone", "waitClose"}]
        /\ wait' \in [Queue!Goroutines -> 0..Len(cbs)]
    <3>1. Len(cbs) \in Nat
      BY DEF QueueInv, Queue!TypeOK
    <3>2. CASE Queue!WaitReturns(g)
      BY <3>1, <3>2 DEF Queue!WaitReturns, QueueInv, Queue!TypeOK, Queue!Nil
    <3>3. CASE Queue!CloseReturns(g)
      BY <3>3 DEF Queue!CloseReturns, QueueInv, Queue!TypeOK
    <3>4. QED
      BY <1>6, <3>2, <3>3 DEF Queue!Resume
  <2>2. QED
    BY <2>1 DEF Queue!listVars, QueueInv, Queue!TypeOK, ListInv, StopInv, RunInv,
                Queue!RunInPushOrder, NoLostSignal, Queue!NoLostSignal,
                    TakenCallbacks
<1>7. CASE UNCHANGED Queue!vars
  BY <1>7 DEF Queue!vars, QueueInv, Queue!TypeOK, ListInv, StopInv, RunInv,
              Queue!RunInPushOrder,
              NoLostSignal, Queue!NoLostSignal, TakenCallbacks
<1>8. QED
  BY <1>1, <1>2, <1>3, <1>4, <1>5, <1>6, <1>7 DEF Queue!Next, Queue!Dispatch

\* QueueInv holds in every reachable state of the queue.
THEOREM QueueInvariant == Queue!Spec => []QueueInv
  BY InitQueueInv, QueueStepKeepsInv, PTL DEF Queue!Spec

------------------------------------------------------------------------------

\* The variables of the queue stay in their types (cbQueue, asyncCB).
THEOREM QueueTypeCorrect == Queue!Spec => []Queue!TypeOK
<1>1. QueueInv => Queue!TypeOK
  BY DEF QueueInv
<1>2. QED
  BY <1>1, QueueInvariant, PTL

\* dispatch calls the callbacks in the order of the pushes, none twice and
\* none skipped, for any number of callers and callbacks.
THEOREM QueueRunsInOrder == Queue!Spec => []Queue!RunInPushOrder
<1>1. QueueInv => Queue!RunInPushOrder
  BY DEF QueueInv, RunInv
<1>2. QED
  BY <1>1, QueueInvariant, PTL

\* dispatch never sleeps over a pushed callback.
THEOREM QueueKeepsSignal == Queue!Spec => []NoLostSignal
<1>1. QueueInv => NoLostSignal
  BY DEF QueueInv
<1>2. QED
  BY <1>1, QueueInvariant, PTL

\* close() returns only after all callbacks pushed before it have returned.
THEOREM QueueCloseDrains == Queue!Spec => []Queue!CloseDrains
<1>1. QueueInv => Queue!CloseDrains
  <2> SUFFICES ASSUME QueueInv, queueCloseCh,
                      NEW n \in 1..Len(cbs), cbs[n].fn = "callback"
               PROVE  Queue!Finished(n)
    BY DEF Queue!CloseDrains
  <2>1. dpc = "done" /\ queueClosed /\ Len(ran) + 1 = Len(cbs)
    BY DEF QueueInv, StopInv, TakenCallbacks
  <2>2. n # Len(cbs)
    BY <2>1 DEF QueueInv, StopInv
  <2>3. QED
    BY <2>1, <2>2 DEF Queue!Finished, QueueInv, Queue!TypeOK
<1>2. QED
  BY <1>1, QueueInvariant, PTL

------------------------------------------------------------------------------
(* The queue implements EventFifo.                                          *)

\* An empty queue is an initial state of EventFifo.
LEMMA InitFifo == Queue!Init => Queue!Fifo!FifoInit
  BY DEF Queue!Init, Queue!Fifo!FifoInit

\* Every step of the queue is a step of EventFifo or a stutter.
LEMMA StepFifo ==
  ASSUME QueueInv, QueueInv', [Queue!Next]_(Queue!vars)
      PROVE [Queue!Fifo!FifoNext]_(Queue!Fifo!fifoVars)
<1> USE DEF Queue!Fifo!FifoNext, Queue!Fifo!fifoVars, Queue!Fifo!Accept,
            Queue!Fifo!Start,
            Queue!Fifo!Finish, Queue!Fifo!Shut, Queue!Fifo!Drain
<1>1. Len(cbs) \in Nat /\ Len(ran) \in Nat
  BY DEF QueueInv, Queue!TypeOK
<1>2. CASE Queue!Take
  <2>1. CASE head = Queue!Nil
    BY <1>2, <2>1 DEF Queue!Take
  <2>2. CASE head # Queue!Nil /\ cbs[head].fn = "stop"
    BY <1>2, <2>2 DEF Queue!Take, Queue!AfterTake
  <2>3. CASE head # Queue!Nil /\ cbs[head].fn # "stop"
    <3>1. /\ dpc = "take" /\ dpc' = "run" /\ ran' = Append(ran, head)
          /\ UNCHANGED <<cbs, queueClosed, queueCloseCh>>
      BY <1>2, <2>3 DEF Queue!Take, Queue!AfterTake
    <3>2. Len(ran') = Len(ran) + 1
      BY <3>1, <1>1 DEF QueueInv, Queue!TypeOK
    <3>3. /\ Len(ran) < Len(cbs)
          /\ head = Len(ran) + 1
          /\ queueClosed => Len(ran) + 1 < Len(cbs)
      BY <1>1, <2>3, <3>1 DEF QueueInv, ListInv, StopInv, TakenCallbacks, Queue!Nil
    <3>4. Queue!Fifo!Start
      BY <1>1, <3>1, <3>2, <3>3
    <3>5. QED
      BY <3>4
  <2>4. QED
    BY <2>1, <2>2, <2>3
<1>3. CASE Queue!Wake
  BY <1>3 DEF Queue!Wake
<1>4. CASE Queue!Return
  <2>1. Queue!Fifo!Finish
    BY <1>1, <1>4 DEF Queue!Return, Queue!listVars, QueueInv, RunInv
  <2>2. QED
    BY <2>1
<1>5. CASE Queue!Stop
  <2>1. Queue!Fifo!Drain
    BY <1>1, <1>5 DEF Queue!Stop, Queue!listVars, QueueInv, StopInv, TakenCallbacks
  <2>2. QED
    BY <2>1
<1>6. ASSUME NEW fn \in {"callback", "stop"}, Queue!PushOrClose(fn),
             UNCHANGED <<queueCloseCh, dpc, curr, ran>>
      PROVE  [Queue!Fifo!FifoNext]_(Queue!Fifo!fifoVars)
  <2>1. CASE queueClosed
    BY <1>6, <2>1 DEF Queue!PushOrClose, Queue!listVars
  <2>2. CASE ~queueClosed
    <3>1. Len(cbs') = Len(cbs) + 1
      BY <1>6, <2>2 DEF Queue!PushOrClose, QueueInv, Queue!TypeOK
    <3>2. queueClosed' = (fn = "stop")
      BY <1>6, <2>2 DEF Queue!PushOrClose, Queue!ClosedAfterPush
    <3>3. CASE fn = "callback"
      <4>1. queueClosed = FALSE /\ queueClosed' = FALSE
        <5>1. (fn = "stop") = FALSE
          BY <3>3
        <5>2. queueClosed' = FALSE
          BY ONLY <5>1, <3>2
        <5>3. queueClosed = FALSE
          BY <2>2 DEF QueueInv, Queue!TypeOK
        <5>4. QED
          BY ONLY <5>2, <5>3
      <4>2. Queue!Fifo!Accept
        <5>1. (Len(cbs) - (IF queueClosed THEN 1 ELSE 0))'
                = Len(cbs) - (IF queueClosed THEN 1 ELSE 0) + 1
          BY <1>1, <3>1, <4>1
        <5>2. UNCHANGED <<Len(ran) - (IF dpc = "run" THEN 1 ELSE 0),
                          dpc = "run", queueClosed, queueCloseCh>>
          BY <1>6, <4>1, Zenon
        <5>3. QED
          BY <2>2, <5>1, <5>2
      <4>3. QED
        BY <4>2
    <3>4. CASE fn = "stop"
      <4>1. queueClosed = FALSE /\ queueClosed' = TRUE
        BY <2>2, <3>2, <3>4 DEF QueueInv, Queue!TypeOK
      <4>2. Queue!Fifo!Shut
        BY <1>1, <1>6, <3>1, <4>1
      <4>3. QED
        BY <4>2
    <3>5. QED
      BY <3>3, <3>4
  <2>3. QED
    BY <2>1, <2>2
<1>7. ASSUME NEW g \in Queue!Goroutines, Queue!Call(g)
      PROVE  [Queue!Fifo!FifoNext]_(Queue!Fifo!fifoVars)
  BY <1>6, <1>7 DEF Queue!Call, Queue!RunAsync, Queue!RunWait, Queue!Close
<1>8. ASSUME NEW g \in Queue!Goroutines, Queue!Resume(g)
      PROVE  [Queue!Fifo!FifoNext]_(Queue!Fifo!fifoVars)
  BY <1>8 DEF Queue!Resume, Queue!WaitReturns, Queue!CloseReturns, Queue!listVars
<1>9. CASE UNCHANGED Queue!vars
  BY <1>9 DEF Queue!vars
<1>10. QED
  BY <1>2, <1>3, <1>4, <1>5, <1>7, <1>8, <1>9 DEF Queue!Next, Queue!Dispatch

\* The queue refines EventFifo: handlers run one at a time, in order, exactly
\* once, and the shutdown completes only when the queue is drained.
THEOREM QueueImplementsFifo == Queue!Spec => ImplementsFifo
<1>1. QueueInv /\ QueueInv' /\ [Queue!Next]_(Queue!vars)
    => [Queue!Fifo!FifoNext]_(Queue!Fifo!fifoVars)
  BY StepFifo
<1>2. QED
  BY <1>1, InitFifo, QueueInvariant, PTL DEF Queue!Spec, ImplementsFifo,
      Queue!ImplementsFifo, Queue!Fifo!FifoSpec

------------------------------------------------------------------------------
(* The three together                                                       *)

\* What MCTransport runs is the transport, the supervision or the queue, so the theorems above
\* hold of its specification.
THEOREM PartsAreTransports == MCSpec => Spec /\ Supervision!Spec /\ Queue!Spec
<1>1. MCInit => Init /\ Supervision!Init /\ Queue!Init
  BY DEF MCInit
<1>2. [MCNext]_<<part, vars, pingVars, queueVars>>
      => /\ [Next]_vars
         /\ [Supervision!Next]_(Supervision!vars)
         /\ [Queue!Next]_(Queue!vars)
  <2>1. UNCHANGED pingVars => UNCHANGED Supervision!vars
    BY DEF pingVars, Supervision!vars
  <2>2. UNCHANGED queueVars => UNCHANGED Queue!vars
    BY DEF queueVars, Queue!vars
  <2>3. QED
    BY <2>1, <2>2 DEF MCNext
<1>3. QED
  BY <1>1, <1>2, PTL DEF MCSpec, Spec, Supervision!Spec, Queue!Spec
==============================================================================
