-------------------------- MODULE ConnectionProofs --------------------------
(***************************************************************************)
(* Proofs about Connection, for any set of tokens and any bounds.  The     *)
(* inductive invariant ConnInv has four parts, each kept by every step:    *)
(* TypeOK; Shape, which ties the transport and the open connections to the *)
(* latest attempt; ConnectingHasWork itself; and TokenInv, which follows a *)
(* rejected token until it is replaced.  The two action properties follow  *)
(* from ConnInv and a case split on the step.                              *)
(***************************************************************************)
EXTENDS Connection, TLAPS

\* What EndConnection (moveToDisconnectedIf, moveToClosed) assigns has its type.
EndTypes ==
  /\ connectAttempt' \in 0..MaxAttempts /\ transport' \in 0..MaxAttempts
  /\ state' \in {"disconnected", "connecting", "connected", "closed"}
  /\ conn' \in [Attempts -> Conns]
  /\ pc' \in [Attempts -> PCs] /\ res' \in [Attempts -> Results]
  /\ reports' \subseteq Report
  /\ timer' \in BOOLEAN /\ unsub' \in 0..MaxAttempts

\* moveToDisconnectedIf and moveToClosed keep the types of what they assign.
LEMMA EndConnectionTypes ==
  ASSUME TypeOK, NEW to \in {"disconnected", "closed"},
         NEW pcs \in [Attempts -> PCs], NEW kept \in SUBSET Report,
         EndConnection(to, pcs, kept)
  PROVE  EndTypes
<1>1. /\ connectAttempt' \in 0..MaxAttempts /\ transport' \in 0..MaxAttempts
      /\ state' \in {"disconnected", "connecting", "connected", "closed"}
      /\ unsub' \in 0..MaxAttempts
  BY BoundsAssumption DEF EndConnection, ClearConnectedState, TypeOK, None
<1>2. conn' \in [Attempts -> Conns]
  BY DEF EndConnection, ClosedConn, TypeOK, Conns
<1>3. pc' \in [Attempts -> PCs] /\ res' \in [Attempts -> Results]
  BY DEF EndConnection, ClearConnectedState, FailedResults, TypeOK, PCs, Busy,
         Results
<1>4. reports' \subseteq Report
  BY BoundsAssumption DEF EndConnection, FailedUnsub, NewReport, TypeOK, Report,
                          Stages, Kinds, None
<1>5. timer' \in BOOLEAN
  BY DEF EndConnection, ClearConnectedState, TimerAfterClear
<1>6. QED
  BY <1>1, <1>2, <1>3, <1>4, <1>5 DEF EndTypes

\* Every step keeps the types.
LEMMA TypeStep == ASSUME TypeOK, [Next]_vars PROVE TypeOK'
<1> USE BoundsAssumption, TokensAssumption
<1>1. CASE Connect
  BY <1>1 DEF Connect, ApplicationCalls, TypeOK, Report, Stages, Attempts, PCs,
              Busy, Results, Errors, Conns, Kinds, None, NoToken, tokenVars,
              readerVars
<1>2. CASE Disconnect
  <2>1. EndConnection("disconnected", pc, reports)
    BY <1>2 DEF Disconnect
  <2>2. EndTypes
    BY <2>1, EndConnectionTypes DEF TypeOK, PCs, Busy
  <2>3. QED
    BY <1>2, <2>2 DEF Disconnect, ApplicationCalls, EndTypes, TypeOK, tokenVars,
                    readerVars
<1>3. CASE Close
  <2>1. EndConnection("closed", pc, reports)
    BY <1>3 DEF Close
  <2>2. EndTypes
    BY <2>1, EndConnectionTypes DEF TypeOK, PCs, Busy
  <2>3. QED
    BY <1>3, <2>2 DEF Close, ApplicationCalls, EndTypes, TypeOK, tokenVars,
                    readerVars
<1>4. CASE SendUnsubscribe
  BY <1>4 DEF SendUnsubscribe, ApplicationCalls, TypeOK, Report, Stages,
              Attempts, PCs, Busy, Results, Errors, Conns, Kinds, None,
              NoToken, tokenVars, readerVars
<1>5. CASE WriteError
  BY <1>5 DEF WriteError, Reported, NewReport, Fault, TypeOK, Report, Stages,
              Attempts, PCs, Busy, Results, Errors, Conns, Kinds, None,
              NoToken, tokenVars, readerVars
<1>6. CASE UnsubscribeFails
  BY <1>6 DEF UnsubscribeFails, Reported, NewReport, Fault, TypeOK, Report,
              Stages, Attempts, PCs, Busy, Results, Errors, Conns, Kinds, None,
              NoToken, tokenVars, readerVars
<1>7. CASE SubscribeTimeout
  BY <1>7 DEF SubscribeTimeout, Reported, NewReport, Fault, TypeOK, Report,
              Stages, Attempts, PCs, Busy, Results, Errors, Conns, Kinds, None,
              NoToken, tokenVars, readerVars
<1>8. CASE CloseReturns
  BY <1>8 DEF CloseReturns, NoFault, TypeOK, Report, Stages, Attempts, PCs,
              Busy, Results, Errors, Conns, Kinds, None, NoToken, tokenVars,
              readerVars
<1>9. CASE TimerFires
  <2>1. timer' \in BOOLEAN
    BY <1>9 DEF TimerFires, TypeOK
  <2>2. QED
    BY <1>9, <2>1 DEF TimerFires, NoFault, TypeOK, Report, Stages, Attempts, PCs,
                    Busy, Results, Errors, Conns, Kinds, None, NoToken,
                    tokenVars, readerVars
<1>10. CASE TimerStarts
  BY <1>10 DEF TimerStarts, NoFault, StartAttempt, ClosedConn, TypeOK, Report,
               Stages, Attempts, PCs, Busy, Results, Errors, Conns, Kinds,
               None, NoToken, tokenVars, readerVars
<1>11. CASE UnsubscribeReplied
  BY <1>11 DEF UnsubscribeReplied, NoFault, TypeOK, Report, Stages, Attempts,
               PCs, Busy, Results, Errors, Conns, Kinds, None, NoToken,
               tokenVars, readerVars
<1>12. ASSUME NEW k \in Tokens, SetToken(k) PROVE TypeOK'
  BY <1>12 DEF SetToken, ApplicationCalls, TypeOK, Report, Stages, Attempts,
               PCs, Busy, Results, Errors, Conns, Kinds, None, NoToken,
               tokenVars, readerVars
<1>13. ASSUME NEW a \in starting, ConnectContinues(a) PROVE TypeOK'
  BY <1>13 DEF ConnectContinues, NoFault, StartAttempt, ClosedConn,
               IsCurrentAttempt, TypeOK, Report, Stages, Attempts, PCs, Busy,
               Results, Errors, Conns, Kinds, None, NoToken, tokenVars,
               readerVars
<1>14. ASSUME NEW n \in Attempts, ReadToken(n) PROVE TypeOK'
  BY <1>14 DEF ReadToken, NoFault, TypeOK, Report, Stages, Attempts, PCs, Busy,
               Results, Errors, Conns, Kinds, None, NoToken, tokenVars,
               readerVars
<1>15. ASSUME NEW n \in Attempts, GetTokenFails(n) PROVE TypeOK'
  <2>1. timer' \in BOOLEAN
    BY <1>15 DEF GetTokenFails, RetryIfCurrent, ScheduleReconnect, TypeOK
  <2>2. QED
    BY <1>15, <2>1 DEF GetTokenFails, Fault, RetryIfCurrent, ScheduleReconnect,
                    IsCurrentAttempt, TypeOK, Report, Stages, Attempts, PCs,
                    Busy, Results, Errors, Conns, Kinds, None, NoToken,
                    tokenVars, readerVars
<1>16. ASSUME NEW n \in Attempts, GetTokenUnauthorized(n) PROVE TypeOK'
  <2>1. CASE IsCurrentAttempt(n) /\ (HasGetToken \/ refreshRequired)
    <3>1. EndConnection("disconnected", [pc EXCEPT ![n] = "done"], reports)
      BY <1>16, <2>1 DEF GetTokenUnauthorized
    <3>2. EndTypes
      BY <3>1, EndConnectionTypes DEF TypeOK, PCs, Busy
    <3>3. QED
      BY <1>16, <3>2 DEF GetTokenUnauthorized, Fault, NoFault, IsCurrentAttempt,
                      EndTypes, TypeOK, tokenVars, readerVars
  <2>2. CASE ~(IsCurrentAttempt(n) /\ (HasGetToken \/ refreshRequired))
    BY <1>16, <2>2 DEF GetTokenUnauthorized, Fault, NoFault, IsCurrentAttempt,
                    TypeOK, PCs, Busy, tokenVars, readerVars
  <2>3. QED
    BY <2>1, <2>2
<1>17. ASSUME NEW n \in Attempts, DialFails(n) PROVE TypeOK'
  <2>1. timer' \in BOOLEAN
    BY <1>17 DEF DialFails, RetryIfCurrent, ScheduleReconnect, TypeOK
  <2>2. QED
    BY <1>17, <2>1 DEF DialFails, Fault, RetryIfCurrent, ScheduleReconnect,
                    IsCurrentAttempt, TypeOK, Report, Stages, Attempts, PCs,
                    Busy, Results, Errors, Conns, Kinds, None, NoToken,
                    tokenVars, readerVars
<1>18. ASSUME NEW n \in Attempts, DialedTooLate(n) PROVE TypeOK'
  BY <1>18 DEF DialedTooLate, NoFault, IsCurrentAttempt, TypeOK, Report,
               Stages, Attempts, PCs, Busy, Results, Errors, Conns, Kinds,
               None, NoToken, tokenVars, readerVars
<1>19. ASSUME NEW n \in Attempts, ConnectSent(n) PROVE TypeOK'
  BY <1>19 DEF ConnectSent, NoFault, StartReader, IsCurrentAttempt, TypeOK,
               Report, Stages, Attempts, PCs, Busy, Results, Errors, Conns,
               Kinds, None, NoToken, tokenVars, readerVars
<1>20. ASSUME NEW n \in Attempts, ConnectNotSent(n) PROVE TypeOK'
  <2>1. timer' \in BOOLEAN
    BY <1>20 DEF ConnectNotSent, ScheduleReconnect
  <2>2. refreshRequired' \in BOOLEAN
    BY <1>20 DEF ConnectNotSent, StartReader
  <2>3. reports' \subseteq Report
    BY <1>20 DEF ConnectNotSent, NewReport, TypeOK, Report, Stages, Kinds, None,
              Attempts
  <2>4. /\ sentToken' \in [Attempts -> Tokens \cup {NoToken}]
        /\ reader' \in [Attempts -> {"none", "reading", "ended"}]
        /\ conn' \in [Attempts -> Conns] /\ pc' \in [Attempts -> PCs]
    BY <1>20 DEF ConnectNotSent, StartReader, TypeOK, Conns, PCs
  <2>5. QED
    BY <1>20, <2>1, <2>2, <2>3, <2>4
    DEF ConnectNotSent, StartReader, Fault, TypeOK, Attempts
<1>21. ASSUME NEW n \in Attempts, MalformedReply(n) PROVE TypeOK'
  <2>1. CASE transport = n /\ state \in {"connecting", "connected"}
    <3>1. EndConnection("disconnected", [pc EXCEPT ![n] = "cb"], reports)
      BY <1>21, <2>1 DEF MalformedReply
    <3>2. EndTypes
      BY <3>1, EndConnectionTypes DEF TypeOK, PCs, Busy
    <3>3. QED
      BY <1>21, <3>2 DEF MalformedReply, NoFault, EndTypes, TypeOK, tokenVars,
                      readerVars
  <2>2. CASE ~(transport = n /\ state \in {"connecting", "connected"})
    BY <1>21, <2>2 DEF MalformedReply, NoFault, TypeOK, PCs, Busy, tokenVars,
                    readerVars
  <2>3. QED
    BY <2>1, <2>2
<1>22. ASSUME NEW n \in Attempts, RequestTimeout(n) PROVE TypeOK'
  BY <1>22 DEF RequestTimeout, Fault, NoFault, TypeOK, Report, Stages,
               Attempts, PCs, Busy, Results, Errors, Conns, Kinds, None,
               NoToken, tokenVars, readerVars
<1>23. ASSUME NEW n \in Attempts, CallbackTooLate(n) PROVE TypeOK'
  BY <1>23 DEF CallbackTooLate, NoFault, ClosedConn, IsCurrentAttempt, TypeOK,
               Report, Stages, Attempts, PCs, Busy, Results, Errors, Conns,
               Kinds, None, NoToken, tokenVars, readerVars
<1>24. ASSUME NEW n \in Attempts, CallbackOK(n) PROVE TypeOK'
  BY <1>24 DEF CallbackOK, NoFault, IsCurrentAttempt, TypeOK, Report, Stages,
               Attempts, PCs, Busy, Results, Errors, Conns, Kinds, None,
               NoToken, tokenVars, readerVars
<1>25. ASSUME NEW n \in Attempts, ConnectedDone(n) PROVE TypeOK'
  BY <1>25 DEF ConnectedDone, NoFault, IsConnectedAttempt, TypeOK, Report,
               Stages, Attempts, PCs, Busy, Results, Errors, Conns, Kinds,
               None, NoToken, tokenVars, readerVars
<1>26. ASSUME NEW n \in Attempts, CallbackError(n) PROVE TypeOK'
  BY <1>26 DEF CallbackError, NoFault, IsCurrentAttempt, TypeOK, Report,
               Stages, Attempts, PCs, Busy, Results, Errors, Conns, Kinds,
               None, NoToken, tokenVars, readerVars
<1>27. ASSUME NEW n \in Attempts, CallbackCloses(n) PROVE TypeOK'
  BY <1>27 DEF CallbackCloses, NoFault, ClosedConn, TypeOK, Report, Stages,
               Attempts, PCs, Busy, Results, Errors, Conns, Kinds, None,
               NoToken, tokenVars, readerVars
<1>28. ASSUME NEW n \in Attempts, CallbackFatal(n) PROVE TypeOK'
  <2>1. EndConnection("disconnected", [pc EXCEPT ![n] = "done"], reports)
    BY <1>28 DEF CallbackFatal
  <2>2. EndTypes
    BY <2>1, EndConnectionTypes DEF TypeOK, PCs, Busy
  <2>3. QED
    BY <1>28, <2>2 DEF CallbackFatal, NoFault, IsCurrentAttempt, EndTypes, TypeOK,
                    tokenVars, readerVars
<1>29. ASSUME NEW n \in Attempts, CallbackRetries(n) PROVE TypeOK'
  BY <1>29 DEF CallbackRetries, NoFault, RetryIfCurrent, ScheduleReconnect,
               IsCurrentAttempt, RefreshAfterExpired, TypeOK, Report, Stages,
               Attempts, PCs, Busy, Results, Errors, Conns, Kinds, None,
               NoToken, tokenVars, readerVars
<1>30. ASSUME NEW n \in Attempts, ReaderEnds(n) PROVE TypeOK'
  BY <1>30 DEF ReaderEnds, NoFault, NewReport, DisconnectKind, TypeOK, Report,
               Stages, Attempts, PCs, Busy, Results, Errors, Conns, Kinds,
               None, NoToken, tokenVars, readerVars
<1>31. ASSUME NEW n \in Attempts, PingTimeout(n) PROVE TypeOK'
  BY <1>31 DEF PingTimeout, Reported, NewReport, Fault, TypeOK, Report, Stages,
               Attempts, PCs, Busy, Results, Errors, Conns, Kinds, None,
               NoToken, tokenVars, readerVars
<1>32. ASSUME NEW n \in Attempts, NEW k \in Tokens, GotToken(n, k) PROVE TypeOK'
  BY <1>32 DEF GotToken, NoFault, IsCurrentAttempt, TypeOK, Report, Stages,
               Attempts, PCs, Busy, Results, Errors, Conns, Kinds, None,
               NoToken, tokenVars, readerVars
<1>33. ASSUME NEW n \in Attempts, NEW q \in {"ok", "malformed"} \cup Errors,
             Replied(n, q)
      PROVE  TypeOK'
  BY <1>33 DEF Replied, Fault, NoFault, TypeOK, Report, Stages, Attempts, PCs,
               Busy, Results, Errors, Conns, Kinds, None, NoToken, tokenVars,
               readerVars
<1>34. ASSUME NEW n \in Attempts, NEW kind \in Kinds, ServerCloses(n, kind)
      PROVE  TypeOK'
  BY <1>34 DEF ServerCloses, Fault, TypeOK, Report, Stages, Attempts, PCs,
               Busy, Results, Errors, Conns, Kinds, None, NoToken, tokenVars,
               readerVars
<1>35. ASSUME NEW n \in Attempts, NEW kind \in Kinds, DisconnectPush(n, kind)
      PROVE  TypeOK'
  BY <1>35 DEF DisconnectPush, Reported, NewReport, Fault, TypeOK, Report,
               Stages, Attempts, PCs, Busy, Results, Errors, Conns, Kinds,
               None, NoToken, tokenVars, readerVars
<1>36. ASSUME NEW r \in reports, ReportCheck(r) PROVE TypeOK'
  BY <1>36 DEF ReportCheck, NoFault, Advance, AtStage, TypeOK, Report, Stages,
               Attempts, PCs, Busy, Results, Errors, Conns, Kinds, None,
               NoToken, tokenVars, readerVars
<1>37. ASSUME NEW r \in reports, Invalidate(r) PROVE TypeOK'
  BY <1>37 DEF Invalidate, NoFault, Advance, AtStage, TypeOK, Report, Stages,
               Attempts, PCs, Busy, Results, Errors, Conns, Kinds, None,
               NoToken, tokenVars, readerVars
<1>38. ASSUME NEW r \in reports, ReportIgnored(r) PROVE TypeOK'
  BY <1>38 DEF ReportIgnored, NoFault, TypeOK, Report, Stages, Attempts, PCs,
               Busy, Results, Errors, Conns, Kinds, None, NoToken, tokenVars,
               readerVars
<1>39. ASSUME NEW r \in reports, ReportDisconnects(r) PROVE TypeOK'
  <2>1. EndConnection("disconnected", pc, reports \ {r})
    BY <1>39 DEF ReportDisconnects
  <2>2. EndTypes
    BY <2>1, EndConnectionTypes DEF TypeOK, PCs, Busy
  <2>3. QED
    BY <1>39, <2>2 DEF ReportDisconnects, NoFault, MayAct, EndTypes, TypeOK,
                    tokenVars, readerVars
<1>40. ASSUME NEW r \in reports, ReportRetries(r) PROVE TypeOK'
  BY <1>40 DEF ReportRetries, NoFault, MayAct, FailedRequests, FailedResults,
               FailedUnsub, NewReport, ClosedConn, ScheduleReconnect, TypeOK,
               Report, Stages, Attempts, PCs, Busy, Results, Errors, Conns,
               Kinds, None, NoToken, tokenVars, readerVars
<1>41. ASSUME NEW r \in reports, ReportTearsDown(r) PROVE TypeOK'
  <2>1. timer' \in BOOLEAN
    BY <1>41 DEF ReportTearsDown, ClearConnectedState, TimerAfterClear
  <2>2. conn' \in [Attempts -> Conns]
    BY <1>41 DEF ReportTearsDown, ClosedConn, TypeOK, Conns
  <2>3. reports' \subseteq Report
    BY <1>41 DEF ReportTearsDown, FailedUnsub, NewReport, AtStage, TypeOK, Report,
              Stages, Kinds, None
  <2>4. pc' \in [Attempts -> PCs] /\ res' \in [Attempts -> Results]
    BY <1>41 DEF ReportTearsDown, FailedRequests, ClearConnectedState, FailedResults,
              TypeOK, PCs, Busy, Results
  <2>5. QED
    BY <1>41, <2>1, <2>2, <2>3, <2>4
    DEF ReportTearsDown, ClearConnectedState, NoFault, TypeOK, None, tokenVars,
        readerVars
<1>42. ASSUME NEW r \in reports, TeardownDone(r) PROVE TypeOK'
  BY <1>42 DEF TeardownDone, NoFault, ReconnectAfterWait, ScheduleReconnect,
               IsCurrentAttempt, TypeOK, Report, Stages, Attempts, PCs, Busy,
               Results, Errors, Conns, Kinds, None, NoToken, tokenVars,
               readerVars
<1>43. CASE UNCHANGED vars
  BY <1>43 DEF vars, TypeOK, Report, Stages, Attempts, PCs, Busy, Results,
               Errors, Conns, Kinds, None, NoToken, tokenVars, readerVars
<1>44. QED
  BY <1>1, <1>2, <1>3, <1>4, <1>5, <1>6, <1>7, <1>8, <1>9, <1>10, <1>11, <1>12,
     <1>13, <1>14, <1>15, <1>16, <1>17, <1>18, <1>19, <1>20, <1>21, <1>22,
     <1>23, <1>24, <1>25, <1>26, <1>27, <1>28, <1>29, <1>30, <1>31, <1>32,
     <1>33, <1>34, <1>35, <1>36, <1>37, <1>38, <1>39, <1>40, <1>41, <1>42,
     <1>43
  DEF Next, Application, Failure, Progress, HandleReport

------------------------------------------------------------------------------
(* The transport.                                                           *)

\* Attempts that were not started yet.
Fresh == \A n \in Attempts : n > connectAttempt => pc[n] = "idle"

\* No transport before the dial.
NotDialed ==
  \A n \in Attempts : pc[n] \in {"idle", "token", "getting", "dial"} => conn[n] = "none"

\* The current attempt's transport is the client's while its connect command
\* is pending.
Awaiting ==
  \A n \in Attempts :
    IsCurrentAttempt(n) /\ pc[n] \in {"await", "malformed", "cb"} => transport = n

\* The move to disconnected leaves no attempt current.
DownIdle ==
  state = "disconnected" /\ connectAttempt \in Attempts => pc[connectAttempt] = "idle"

Shape ==
  /\ TransportIsLatest /\ OpenIsOwned /\ DownIsQuiet
  /\ Fresh /\ NotDialed /\ Awaiting /\ DownIdle

\* moveToDisconnectedIf and moveToClosed keep Shape: they close the transport they
\* give up and supersede the attempt that opened it.
LEMMA EndConnectionShape ==
  ASSUME TypeOK, Shape, NEW to \in {"disconnected", "closed"},
         NEW pcs \in [Attempts -> PCs], NEW kept,
         EndConnection(to, pcs, kept),
         \A n \in Attempts : pcs[n] # pc[n] =>
           pc[n] \in {"getting", "malformed", "closed"} /\ pcs[n] \in {"cb", "done"}
  PROVE  Shape'
<1>1. /\ connectAttempt' = connectAttempt + 1 /\ transport' = None /\ state' = to
      /\ ~timer' /\ conn' = ClosedConn(transport)
      /\ connectAttempt \in Nat
      /\ \A n \in Attempts : pc'[n] = IF pc[n] = "await" THEN "cb" ELSE pcs[n]
  BY BoundsAssumption DEF EndConnection, ClearConnectedState, TimerAfterClear, TypeOK
<1>2. TransportIsLatest' /\ DownIsQuiet'
  BY <1>1 DEF TransportIsLatest, DownIsQuiet
<1>3. OpenIsOwned'
  BY <1>1 DEF OpenIsOwned, Shape, ClosedConn, TypeOK
<1>4. Fresh' /\ DownIdle'
  BY <1>1 DEF Fresh, DownIdle, Shape, Attempts
<1>5. NotDialed'
  BY <1>1 DEF NotDialed, Shape, ClosedConn, TypeOK
<1>6. Awaiting'
  BY <1>1 DEF Awaiting, IsCurrentAttempt
<1>7. QED
  BY <1>2, <1>3, <1>4, <1>5, <1>6 DEF Shape

\* A new attempt keeps Shape: it closes the transport of the one it supersedes.
LEMMA StartAttemptShape ==
  ASSUME TypeOK, Shape, StartAttempt, state = "connecting",
         state' = state, timer' = timer
  PROVE  Shape'
<1>1. /\ connectAttempt' = connectAttempt + 1 /\ transport' = None
      /\ conn' = ClosedConn(transport)
      /\ connectAttempt \in Nat /\ connectAttempt + 1 \in Attempts
      /\ pc'[connectAttempt + 1] = "token"
      /\ \A n \in Attempts : n # connectAttempt + 1 => pc'[n] = pc[n]
  BY BoundsAssumption DEF StartAttempt, TypeOK, Attempts
<1>2. TransportIsLatest' /\ DownIsQuiet' /\ DownIdle'
  BY <1>1 DEF TransportIsLatest, DownIsQuiet, DownIdle
<1>3. pc[connectAttempt + 1] = "idle" /\ conn[connectAttempt + 1] = "none"
  BY <1>1 DEF Shape, Fresh, NotDialed
<1>4. OpenIsOwned'
  BY <1>1, <1>3 DEF OpenIsOwned, Shape, ClosedConn, TypeOK
<1>5. Fresh'
  BY <1>1 DEF Fresh, Shape, Attempts
<1>6. NotDialed'
  BY <1>1, <1>3 DEF NotDialed, Shape, ClosedConn, TypeOK
<1>7. Awaiting'
  BY <1>1 DEF Awaiting, IsCurrentAttempt
<1>8. QED
  BY <1>2, <1>4, <1>5, <1>6, <1>7 DEF Shape

\* Shape is about these variables only.
LEMMA UnchangedShape ==
  ASSUME Shape, UNCHANGED <<state, connectAttempt, transport, timer, pc, conn>>
  PROVE  Shape'
BY DEF Shape, TransportIsLatest, OpenIsOwned, DownIsQuiet, Fresh, NotDialed,
       Awaiting, DownIdle, IsCurrentAttempt

\* Every step keeps Shape.
LEMMA ShapeStep == ASSUME TypeOK, Shape, [Next]_vars PROVE Shape'
<1> USE BoundsAssumption
<1>1. CASE Connect
  BY <1>1 DEF Connect, ApplicationCalls, TypeOK, Shape, TransportIsLatest,
              OpenIsOwned, DownIsQuiet, Fresh, NotDialed, Awaiting, DownIdle,
              IsCurrentAttempt, Attempts, None
<1>2. CASE Disconnect
  <2>1. EndConnection("disconnected", pc, reports)
    BY <1>2 DEF Disconnect
  <2>2. QED
    BY <2>1, EndConnectionShape DEF TypeOK, PCs
<1>3. CASE Close
  <2>1. EndConnection("closed", pc, reports)
    BY <1>3 DEF Close
  <2>2. QED
    BY <2>1, EndConnectionShape DEF TypeOK, PCs
<1>4. CASE SendUnsubscribe
  BY <1>4, UnchangedShape DEF SendUnsubscribe
<1>5. CASE WriteError
  BY <1>5, UnchangedShape DEF WriteError, Reported
<1>6. CASE UnsubscribeFails
  BY <1>6, UnchangedShape DEF UnsubscribeFails, Reported
<1>7. CASE SubscribeTimeout
  BY <1>7, UnchangedShape DEF SubscribeTimeout, Reported
<1>8. CASE CloseReturns
  BY <1>8, UnchangedShape DEF CloseReturns
<1>9. CASE TimerFires
  BY <1>9 DEF TimerFires, NoFault, TypeOK, Shape, TransportIsLatest,
              OpenIsOwned, DownIsQuiet, Fresh, NotDialed, Awaiting, DownIdle,
              IsCurrentAttempt, Attempts, None
<1>10. CASE TimerStarts
  BY <1>10, StartAttemptShape, UnchangedShape DEF TimerStarts
<1>11. CASE UnsubscribeReplied
  BY <1>11, UnchangedShape DEF UnsubscribeReplied
<1>12. ASSUME NEW k \in Tokens, SetToken(k) PROVE Shape'
  BY <1>12, UnchangedShape DEF SetToken
<1>13. ASSUME NEW a \in starting, ConnectContinues(a) PROVE Shape'
  BY <1>13, StartAttemptShape, UnchangedShape DEF ConnectContinues, IsCurrentAttempt
<1>14. ASSUME NEW n \in Attempts, ReadToken(n) PROVE Shape'
  BY <1>14 DEF ReadToken, NoFault, TypeOK, Shape, TransportIsLatest,
               OpenIsOwned, DownIsQuiet, Fresh, NotDialed, Awaiting, DownIdle,
               IsCurrentAttempt, Attempts, None
<1>15. ASSUME NEW n \in Attempts, GetTokenFails(n) PROVE Shape'
  BY <1>15 DEF GetTokenFails, Fault, RetryIfCurrent, ScheduleReconnect,
               IsCurrentAttempt, TypeOK, Shape, TransportIsLatest, OpenIsOwned,
               DownIsQuiet, Fresh, NotDialed, Awaiting, DownIdle,
               IsCurrentAttempt, Attempts, None
<1>16. ASSUME NEW n \in Attempts, GetTokenUnauthorized(n) PROVE Shape'
  <2>1. CASE IsCurrentAttempt(n) /\ (HasGetToken \/ refreshRequired)
    <3>1. /\ EndConnection("disconnected", [pc EXCEPT ![n] = "done"], reports)
          /\ pc[n] = "getting"
      BY <1>16, <2>1 DEF GetTokenUnauthorized
    <3> DEFINE pcs == [pc EXCEPT ![n] = "done"]
    <3>2. /\ pcs \in [Attempts -> PCs]
          /\ \A m \in Attempts : pcs[m] # pc[m] =>
               pc[m] \in {"getting", "malformed", "closed"} /\ pcs[m] \in {"cb", "done"}
      BY <3>1 DEF TypeOK, PCs, Busy
    <3>3. EndConnection("disconnected", pcs, reports)
      BY <3>1
    <3> HIDE DEF pcs
    <3>4. QED
      BY <3>2, <3>3, EndConnectionShape
  <2>2. CASE ~(IsCurrentAttempt(n) /\ (HasGetToken \/ refreshRequired))
    BY <1>16, <2>2 DEF GetTokenUnauthorized, Fault, NoFault, TypeOK, Shape,
                    TransportIsLatest, OpenIsOwned, DownIsQuiet, Fresh,
                    NotDialed, Awaiting, DownIdle, IsCurrentAttempt, Attempts,
                    None
  <2>3. QED
    BY <2>1, <2>2
<1>17. ASSUME NEW n \in Attempts, DialFails(n) PROVE Shape'
  BY <1>17 DEF DialFails, Fault, RetryIfCurrent, ScheduleReconnect,
               IsCurrentAttempt, TypeOK, Shape, TransportIsLatest, OpenIsOwned,
               DownIsQuiet, Fresh, NotDialed, Awaiting, DownIdle,
               IsCurrentAttempt, Attempts, None
<1>18. ASSUME NEW n \in Attempts, DialedTooLate(n) PROVE Shape'
  BY <1>18 DEF DialedTooLate, NoFault, IsCurrentAttempt, TypeOK, Shape,
               TransportIsLatest, OpenIsOwned, DownIsQuiet, Fresh, NotDialed,
               Awaiting, DownIdle, IsCurrentAttempt, Attempts, None
<1>19. ASSUME NEW n \in Attempts, ConnectSent(n) PROVE Shape'
  BY <1>19 DEF ConnectSent, NoFault, StartReader, IsCurrentAttempt, TypeOK,
               Shape, TransportIsLatest, OpenIsOwned, DownIsQuiet, Fresh,
               NotDialed, Awaiting, DownIdle, IsCurrentAttempt, Attempts, None
<1>20. ASSUME NEW n \in Attempts, ConnectNotSent(n) PROVE Shape'
  BY <1>20 DEF ConnectNotSent, Fault, StartReader, ScheduleReconnect,
               NewReport, IsCurrentAttempt, TypeOK, Shape, TransportIsLatest,
               OpenIsOwned, DownIsQuiet, Fresh, NotDialed, Awaiting, DownIdle,
               IsCurrentAttempt, Attempts, None
<1>21. ASSUME NEW n \in Attempts, MalformedReply(n) PROVE Shape'
  <2>1. CASE transport = n /\ state \in {"connecting", "connected"}
    <3>1. /\ EndConnection("disconnected", [pc EXCEPT ![n] = "cb"], reports)
          /\ pc[n] = "malformed"
      BY <1>21, <2>1 DEF MalformedReply
    <3> DEFINE pcs == [pc EXCEPT ![n] = "cb"]
    <3>2. /\ pcs \in [Attempts -> PCs]
          /\ \A m \in Attempts : pcs[m] # pc[m] =>
               pc[m] \in {"getting", "malformed", "closed"} /\ pcs[m] \in {"cb", "done"}
      BY <3>1 DEF TypeOK, PCs, Busy
    <3>3. EndConnection("disconnected", pcs, reports)
      BY <3>1
    <3> HIDE DEF pcs
    <3>4. QED
      BY <3>2, <3>3, EndConnectionShape
  <2>2. CASE ~(transport = n /\ state \in {"connecting", "connected"})
    BY <1>21, <2>2 DEF MalformedReply, NoFault, TypeOK, Shape, TransportIsLatest,
                    OpenIsOwned, DownIsQuiet, Fresh, NotDialed, Awaiting,
                    DownIdle, IsCurrentAttempt, Attempts, None
  <2>3. QED
    BY <2>1, <2>2
<1>22. ASSUME NEW n \in Attempts, RequestTimeout(n) PROVE Shape'
  BY <1>22 DEF RequestTimeout, Fault, NoFault, TypeOK, Shape,
               TransportIsLatest, OpenIsOwned, DownIsQuiet, Fresh, NotDialed,
               Awaiting, DownIdle, IsCurrentAttempt, Attempts, None
<1>23. ASSUME NEW n \in Attempts, CallbackTooLate(n) PROVE Shape'
  BY <1>23 DEF CallbackTooLate, NoFault, ClosedConn, IsCurrentAttempt, TypeOK,
               Shape, TransportIsLatest, OpenIsOwned, DownIsQuiet, Fresh,
               NotDialed, Awaiting, DownIdle, IsCurrentAttempt, Attempts, None
<1>24. ASSUME NEW n \in Attempts, CallbackOK(n) PROVE Shape'
  BY <1>24 DEF CallbackOK, NoFault, IsCurrentAttempt, TypeOK, Shape,
               TransportIsLatest, OpenIsOwned, DownIsQuiet, Fresh, NotDialed,
               Awaiting, DownIdle, IsCurrentAttempt, Attempts, None
<1>25. ASSUME NEW n \in Attempts, ConnectedDone(n) PROVE Shape'
  BY <1>25 DEF ConnectedDone, NoFault, IsConnectedAttempt, TypeOK, Shape,
               TransportIsLatest, OpenIsOwned, DownIsQuiet, Fresh, NotDialed,
               Awaiting, DownIdle, IsCurrentAttempt, Attempts, None
<1>26. ASSUME NEW n \in Attempts, CallbackError(n) PROVE Shape'
  BY <1>26 DEF CallbackError, NoFault, IsCurrentAttempt, TypeOK, Shape,
               TransportIsLatest, OpenIsOwned, DownIsQuiet, Fresh, NotDialed,
               Awaiting, DownIdle, IsCurrentAttempt, Attempts, None
<1>27. ASSUME NEW n \in Attempts, CallbackCloses(n) PROVE Shape'
  BY <1>27 DEF CallbackCloses, NoFault, ClosedConn, TypeOK, Shape,
               TransportIsLatest, OpenIsOwned, DownIsQuiet, Fresh, NotDialed,
               Awaiting, DownIdle, IsCurrentAttempt, Attempts, None
<1>28. ASSUME NEW n \in Attempts, CallbackFatal(n) PROVE Shape'
  <2>1. /\ EndConnection("disconnected", [pc EXCEPT ![n] = "done"], reports)
        /\ pc[n] = "closed"
    BY <1>28 DEF CallbackFatal
  <2> DEFINE pcs == [pc EXCEPT ![n] = "done"]
  <2>2. /\ pcs \in [Attempts -> PCs]
        /\ \A m \in Attempts : pcs[m] # pc[m] =>
             pc[m] \in {"getting", "malformed", "closed"} /\ pcs[m] \in {"cb", "done"}
    BY <2>1 DEF TypeOK, PCs, Busy
  <2>3. EndConnection("disconnected", pcs, reports)
    BY <2>1
  <2> HIDE DEF pcs
  <2>4. QED
    BY <2>2, <2>3, EndConnectionShape
<1>29. ASSUME NEW n \in Attempts, CallbackRetries(n) PROVE Shape'
  BY <1>29 DEF CallbackRetries, NoFault, RetryIfCurrent, ScheduleReconnect,
               IsCurrentAttempt, RefreshAfterExpired, TypeOK, Shape,
               TransportIsLatest, OpenIsOwned, DownIsQuiet, Fresh, NotDialed,
               Awaiting, DownIdle, IsCurrentAttempt, Attempts, None
<1>30. ASSUME NEW n \in Attempts, ReaderEnds(n) PROVE Shape'
  BY <1>30, UnchangedShape DEF ReaderEnds
<1>31. ASSUME NEW n \in Attempts, PingTimeout(n) PROVE Shape'
  BY <1>31, UnchangedShape DEF PingTimeout, Reported
<1>32. ASSUME NEW n \in Attempts, NEW k \in Tokens, GotToken(n, k) PROVE Shape'
  BY <1>32 DEF GotToken, NoFault, IsCurrentAttempt, TypeOK, Shape,
               TransportIsLatest, OpenIsOwned, DownIsQuiet, Fresh, NotDialed,
               Awaiting, DownIdle, IsCurrentAttempt, Attempts, None
<1>33. ASSUME NEW n \in Attempts, NEW q \in {"ok", "malformed"} \cup Errors,
             Replied(n, q)
      PROVE  Shape'
  BY <1>33 DEF Replied, Fault, NoFault, TypeOK, Shape, TransportIsLatest,
               OpenIsOwned, DownIsQuiet, Fresh, NotDialed, Awaiting, DownIdle,
               IsCurrentAttempt, Attempts, None
<1>34. ASSUME NEW n \in Attempts, NEW kind \in Kinds, ServerCloses(n, kind)
      PROVE  Shape'
  BY <1>34 DEF ServerCloses, Fault, Kinds, TypeOK, Shape, TransportIsLatest,
            OpenIsOwned, DownIsQuiet, Fresh, NotDialed, Awaiting, DownIdle,
            IsCurrentAttempt, Attempts, None
<1>35. ASSUME NEW n \in Attempts, NEW kind \in Kinds, DisconnectPush(n, kind)
      PROVE  Shape'
  BY <1>35, UnchangedShape DEF DisconnectPush, Reported
<1>36. ASSUME NEW r \in reports, ReportCheck(r) PROVE Shape'
  BY <1>36, UnchangedShape DEF ReportCheck
<1>37. ASSUME NEW r \in reports, Invalidate(r) PROVE Shape'
  BY <1>37, UnchangedShape DEF Invalidate
<1>38. ASSUME NEW r \in reports, ReportIgnored(r) PROVE Shape'
  BY <1>38, UnchangedShape DEF ReportIgnored
<1>39. ASSUME NEW r \in reports, ReportDisconnects(r) PROVE Shape'
  <2>1. EndConnection("disconnected", pc, reports \ {r})
    BY <1>39 DEF ReportDisconnects
  <2>2. QED
    BY <2>1, EndConnectionShape DEF TypeOK, PCs
<1>40. ASSUME NEW r \in reports, ReportRetries(r) PROVE Shape'
  BY <1>40 DEF ReportRetries, NoFault, MayAct, FailedRequests, FailedResults,
               FailedUnsub, NewReport, ClosedConn, ScheduleReconnect, TypeOK,
               Shape, TransportIsLatest, OpenIsOwned, DownIsQuiet, Fresh,
               NotDialed, Awaiting, DownIdle, IsCurrentAttempt, Attempts, None
<1>41. ASSUME NEW r \in reports, ReportTearsDown(r) PROVE Shape'
  BY <1>41 DEF ReportTearsDown, NoFault, MayAct, CanTearDown, FailedRequests,
               ClearConnectedState, FailedResults, FailedUnsub, NewReport,
               AtStage, ClosedConn, TimerAfterClear, TypeOK, Shape,
               TransportIsLatest, OpenIsOwned, DownIsQuiet, Fresh, NotDialed,
               Awaiting, DownIdle, IsCurrentAttempt, Attempts, None
<1>42. ASSUME NEW r \in reports, TeardownDone(r) PROVE Shape'
  BY <1>42 DEF TeardownDone, NoFault, ReconnectAfterWait, ScheduleReconnect,
               IsCurrentAttempt, TypeOK, Shape, TransportIsLatest, OpenIsOwned,
               DownIsQuiet, Fresh, NotDialed, Awaiting, DownIdle,
               IsCurrentAttempt, Attempts, None
<1>43. CASE UNCHANGED vars
  BY <1>43 DEF vars, TypeOK, Shape, TransportIsLatest, OpenIsOwned,
               DownIsQuiet, Fresh, NotDialed, Awaiting, DownIdle,
               IsCurrentAttempt, Attempts, None
<1>44. QED
  BY <1>1, <1>2, <1>3, <1>4, <1>5, <1>6, <1>7, <1>8, <1>9, <1>10, <1>11, <1>12,
     <1>13, <1>14, <1>15, <1>16, <1>17, <1>18, <1>19, <1>20, <1>21, <1>22,
     <1>23, <1>24, <1>25, <1>26, <1>27, <1>28, <1>29, <1>30, <1>31, <1>32,
     <1>33, <1>34, <1>35, <1>36, <1>37, <1>38, <1>39, <1>40, <1>41, <1>42,
     <1>43
  DEF Next, Application, Failure, Progress, HandleReport

------------------------------------------------------------------------------
(* A connecting client is never stranded.                                   *)

\* Every step that ends an attempt, a timer or a wait leaves somebody to go on.
LEMMA WorkStep ==
  ASSUME TypeOK, Shape, ConnectingHasWork, [Next]_vars PROVE ConnectingHasWork'
<1> USE BoundsAssumption
<1>1. CASE Connect
  BY <1>1 DEF Connect, ApplicationCalls, TypeOK, ConnectingHasWork,
              IsCurrentAttempt, Attempts, Busy, None
<1>2. CASE Disconnect
  BY <1>2 DEF Disconnect, EndConnection, ConnectingHasWork
<1>3. CASE Close
  BY <1>3 DEF Close, EndConnection, ConnectingHasWork
<1>4. CASE SendUnsubscribe
  BY <1>4 DEF SendUnsubscribe, ApplicationCalls, TypeOK, ConnectingHasWork,
              IsCurrentAttempt, Attempts, Busy, None
<1>5. CASE WriteError
  BY <1>5 DEF WriteError, Reported, NewReport, Fault, TypeOK,
              ConnectingHasWork, IsCurrentAttempt, Attempts, Busy, None
<1>6. CASE UnsubscribeFails
  BY <1>6 DEF UnsubscribeFails, Reported, NewReport, Fault, TypeOK,
              ConnectingHasWork, IsCurrentAttempt, Attempts, Busy, None
<1>7. CASE SubscribeTimeout
  BY <1>7 DEF SubscribeTimeout, Reported, NewReport, Fault, TypeOK,
              ConnectingHasWork, IsCurrentAttempt, Attempts, Busy, None
<1>8. CASE CloseReturns
  BY <1>8 DEF CloseReturns, NoFault, TypeOK, ConnectingHasWork,
              IsCurrentAttempt, Attempts, Busy, None
<1>9. CASE TimerFires
  BY <1>9 DEF TimerFires, NoFault, TypeOK, ConnectingHasWork, IsCurrentAttempt,
              Attempts, Busy, None
<1>10. CASE TimerStarts
  BY <1>10 DEF TimerStarts, NoFault, StartAttempt, ClosedConn, TypeOK,
               ConnectingHasWork, IsCurrentAttempt, Attempts, Busy, None
<1>11. CASE UnsubscribeReplied
  BY <1>11 DEF UnsubscribeReplied, NoFault, TypeOK, ConnectingHasWork,
               IsCurrentAttempt, Attempts, Busy, None
<1>12. ASSUME NEW k \in Tokens, SetToken(k) PROVE ConnectingHasWork'
  BY <1>12 DEF SetToken, ApplicationCalls, TypeOK, ConnectingHasWork,
               IsCurrentAttempt, Attempts, Busy, None
<1>13. ASSUME NEW a \in starting, ConnectContinues(a) PROVE ConnectingHasWork'
  BY <1>13 DEF ConnectContinues, NoFault, StartAttempt, ClosedConn,
               IsCurrentAttempt, TypeOK, ConnectingHasWork, IsCurrentAttempt,
               Attempts, Busy, None
<1>14. ASSUME NEW n \in Attempts, ReadToken(n) PROVE ConnectingHasWork'
  BY <1>14 DEF ReadToken, NoFault, TypeOK, ConnectingHasWork, IsCurrentAttempt,
               Attempts, Busy, None
<1>15. ASSUME NEW n \in Attempts, GetTokenFails(n) PROVE ConnectingHasWork'
  BY <1>15 DEF GetTokenFails, Fault, RetryIfCurrent, ScheduleReconnect,
               IsCurrentAttempt, TypeOK, ConnectingHasWork, IsCurrentAttempt,
               Attempts, Busy, None
<1>16. ASSUME NEW n \in Attempts, GetTokenUnauthorized(n) PROVE ConnectingHasWork'
  <2>1. CASE IsCurrentAttempt(n) /\ (HasGetToken \/ refreshRequired)
    BY <1>16, <2>1 DEF GetTokenUnauthorized, EndConnection, ConnectingHasWork
  <2>2. CASE ~(IsCurrentAttempt(n) /\ (HasGetToken \/ refreshRequired))
    BY <1>16, <2>2 DEF GetTokenUnauthorized, Fault, NoFault, TypeOK,
                    ConnectingHasWork, IsCurrentAttempt, Attempts, Busy, None
  <2>3. QED
    BY <2>1, <2>2
<1>17. ASSUME NEW n \in Attempts, DialFails(n) PROVE ConnectingHasWork'
  BY <1>17 DEF DialFails, Fault, RetryIfCurrent, ScheduleReconnect,
               IsCurrentAttempt, TypeOK, ConnectingHasWork, IsCurrentAttempt,
               Attempts, Busy, None
<1>18. ASSUME NEW n \in Attempts, DialedTooLate(n) PROVE ConnectingHasWork'
  BY <1>18 DEF DialedTooLate, NoFault, IsCurrentAttempt, TypeOK,
               ConnectingHasWork, IsCurrentAttempt, Attempts, Busy, None
<1>19. ASSUME NEW n \in Attempts, ConnectSent(n) PROVE ConnectingHasWork'
  BY <1>19 DEF ConnectSent, NoFault, StartReader, IsCurrentAttempt, TypeOK,
               ConnectingHasWork, IsCurrentAttempt, Attempts, Busy, None
<1>20. ASSUME NEW n \in Attempts, ConnectNotSent(n) PROVE ConnectingHasWork'
  BY <1>20 DEF ConnectNotSent, Fault, StartReader, ScheduleReconnect,
               NewReport, IsCurrentAttempt, TypeOK, ConnectingHasWork,
               IsCurrentAttempt, Attempts, Busy, None
<1>21. ASSUME NEW n \in Attempts, MalformedReply(n) PROVE ConnectingHasWork'
  <2>1. CASE transport = n /\ state \in {"connecting", "connected"}
    BY <1>21, <2>1 DEF MalformedReply, EndConnection, ConnectingHasWork
  <2>2. CASE ~(transport = n /\ state \in {"connecting", "connected"})
    BY <1>21, <2>2 DEF MalformedReply, NoFault, TypeOK, ConnectingHasWork,
                    IsCurrentAttempt, Attempts, Busy, None
  <2>3. QED
    BY <2>1, <2>2
<1>22. ASSUME NEW n \in Attempts, RequestTimeout(n) PROVE ConnectingHasWork'
  BY <1>22 DEF RequestTimeout, Fault, NoFault, TypeOK, ConnectingHasWork,
               IsCurrentAttempt, Attempts, Busy, None
<1>23. ASSUME NEW n \in Attempts, CallbackTooLate(n) PROVE ConnectingHasWork'
  BY <1>23 DEF CallbackTooLate, NoFault, ClosedConn, IsCurrentAttempt, TypeOK,
               ConnectingHasWork, IsCurrentAttempt, Attempts, Busy, None
<1>24. ASSUME NEW n \in Attempts, CallbackOK(n) PROVE ConnectingHasWork'
  BY <1>24 DEF CallbackOK, NoFault, IsCurrentAttempt, TypeOK,
               ConnectingHasWork, IsCurrentAttempt, Attempts, Busy, None
<1>25. ASSUME NEW n \in Attempts, ConnectedDone(n) PROVE ConnectingHasWork'
  BY <1>25 DEF ConnectedDone, NoFault, IsConnectedAttempt, TypeOK,
               ConnectingHasWork, IsCurrentAttempt, Attempts, Busy, None
<1>26. ASSUME NEW n \in Attempts, CallbackError(n) PROVE ConnectingHasWork'
  BY <1>26 DEF CallbackError, NoFault, IsCurrentAttempt, TypeOK,
               ConnectingHasWork, IsCurrentAttempt, Attempts, Busy, None
<1>27. ASSUME NEW n \in Attempts, CallbackCloses(n) PROVE ConnectingHasWork'
  BY <1>27 DEF CallbackCloses, NoFault, ClosedConn, TypeOK, ConnectingHasWork,
               IsCurrentAttempt, Attempts, Busy, None
<1>28. ASSUME NEW n \in Attempts, CallbackFatal(n) PROVE ConnectingHasWork'
  BY <1>28 DEF CallbackFatal, EndConnection, ConnectingHasWork
<1>29. ASSUME NEW n \in Attempts, CallbackRetries(n) PROVE ConnectingHasWork'
  BY <1>29 DEF CallbackRetries, NoFault, RetryIfCurrent, ScheduleReconnect,
               IsCurrentAttempt, RefreshAfterExpired, TypeOK,
               ConnectingHasWork, IsCurrentAttempt, Attempts, Busy, None
<1>30. ASSUME NEW n \in Attempts, ReaderEnds(n) PROVE ConnectingHasWork'
  BY <1>30 DEF ReaderEnds, NoFault, NewReport, DisconnectKind, TypeOK,
               ConnectingHasWork, IsCurrentAttempt, Attempts, Busy, None
<1>31. ASSUME NEW n \in Attempts, PingTimeout(n) PROVE ConnectingHasWork'
  BY <1>31 DEF PingTimeout, Reported, NewReport, Fault, TypeOK,
               ConnectingHasWork, IsCurrentAttempt, Attempts, Busy, None
<1>32. ASSUME NEW n \in Attempts, NEW k \in Tokens, GotToken(n, k) PROVE ConnectingHasWork'
  BY <1>32 DEF GotToken, NoFault, IsCurrentAttempt, TypeOK, ConnectingHasWork,
               IsCurrentAttempt, Attempts, Busy, None
<1>33. ASSUME NEW n \in Attempts, NEW q \in {"ok", "malformed"} \cup Errors,
             Replied(n, q)
      PROVE  ConnectingHasWork'
  BY <1>33 DEF Replied, Fault, NoFault, TypeOK, ConnectingHasWork,
               IsCurrentAttempt, Attempts, Busy, None
<1>34. ASSUME NEW n \in Attempts, NEW kind \in Kinds, ServerCloses(n, kind)
      PROVE  ConnectingHasWork'
  BY <1>34 DEF ServerCloses, Fault, TypeOK, ConnectingHasWork,
               IsCurrentAttempt, Attempts, Busy, None
<1>35. ASSUME NEW n \in Attempts, NEW kind \in Kinds, DisconnectPush(n, kind)
      PROVE  ConnectingHasWork'
  BY <1>35 DEF DisconnectPush, Reported, NewReport, Fault, TypeOK,
               ConnectingHasWork, IsCurrentAttempt, Attempts, Busy, None
<1>36. ASSUME NEW r \in reports, ReportCheck(r) PROVE ConnectingHasWork'
  BY <1>36 DEF ReportCheck, NoFault, Advance, AtStage, TypeOK,
               ConnectingHasWork, IsCurrentAttempt, Attempts, Busy, None
<1>37. ASSUME NEW r \in reports, Invalidate(r) PROVE ConnectingHasWork'
  BY <1>37 DEF Invalidate, NoFault, Advance, AtStage, TypeOK,
               ConnectingHasWork, IsCurrentAttempt, Attempts, Busy, None
<1>38. ASSUME NEW r \in reports, ReportIgnored(r) PROVE ConnectingHasWork'
  BY <1>38 DEF ReportIgnored, NoFault, TypeOK, ConnectingHasWork,
               IsCurrentAttempt, Attempts, Busy, None
<1>39. ASSUME NEW r \in reports, ReportDisconnects(r) PROVE ConnectingHasWork'
  BY <1>39 DEF ReportDisconnects, EndConnection, ConnectingHasWork
<1>40. ASSUME NEW r \in reports, ReportRetries(r) PROVE ConnectingHasWork'
  BY <1>40 DEF ReportRetries, NoFault, MayAct, FailedRequests, FailedResults,
               FailedUnsub, NewReport, ClosedConn, ScheduleReconnect, TypeOK,
               ConnectingHasWork, IsCurrentAttempt, Attempts, Busy, None
<1>41. ASSUME NEW r \in reports, ReportTearsDown(r) PROVE ConnectingHasWork'
  <2> DEFINE w == AtStage(r, "wait", connectAttempt)
  <2>1. w \in reports' /\ connectAttempt' = connectAttempt
    BY <1>41 DEF ReportTearsDown
  <2>2. w.stage = "wait" /\ w.attempt = connectAttempt
    BY DEF AtStage
  <2> HIDE DEF w
  <2>3. QED
    BY <2>1, <2>2 DEF ConnectingHasWork
<1>42. ASSUME NEW r \in reports, TeardownDone(r) PROVE ConnectingHasWork'
  BY <1>42 DEF TeardownDone, NoFault, ReconnectAfterWait, ScheduleReconnect,
               IsCurrentAttempt, TypeOK, ConnectingHasWork, IsCurrentAttempt,
               Attempts, Busy, None
<1>43. CASE UNCHANGED vars
  BY <1>43 DEF vars, TypeOK, ConnectingHasWork, IsCurrentAttempt, Attempts,
               Busy, None
<1>44. QED
  BY <1>1, <1>2, <1>3, <1>4, <1>5, <1>6, <1>7, <1>8, <1>9, <1>10, <1>11, <1>12,
     <1>13, <1>14, <1>15, <1>16, <1>17, <1>18, <1>19, <1>20, <1>21, <1>22,
     <1>23, <1>24, <1>25, <1>26, <1>27, <1>28, <1>29, <1>30, <1>31, <1>32,
     <1>33, <1>34, <1>35, <1>36, <1>37, <1>38, <1>39, <1>40, <1>41, <1>42,
     <1>43
  DEF Next, Application, Failure, Progress, HandleReport

------------------------------------------------------------------------------
(* A rejected token is never sent again.                                    *)

ResultLater ==
  \A n \in Attempts :
    pc[n] \in {"idle", "token", "getting", "dial", "await"} => res[n] = "none"

ExpiredHasToken ==
  /\ NoToken \notin rejected
  /\ \A n \in Attempts : res[n] = "expired" => sentToken[n] # NoToken

\* Only refreshRequired keeps a rejected token from being used.
RejectedIsReplaced == token \in rejected => refreshRequired

DialWithGood ==
  \A n \in Attempts :
    IsCurrentAttempt(n) /\ pc[n] = "dial" => token \notin rejected

SentGood ==
  \A n \in Attempts :
    IsCurrentAttempt(n) /\ pc[n] \in {"await", "malformed", "cb", "closing", "closed"}
      => sentToken[n] \notin rejected

TokenInv ==
  ResultLater /\ ExpiredHasToken /\ RejectedIsReplaced /\ DialWithGood /\ SentGood

\* Ending the connection does not touch the tokens.
LEMMA EndConnectionTokens ==
  ASSUME TypeOK, TokenInv, NEW to \in {"disconnected", "closed"}, NEW pcs, NEW kept,
         EndConnection(to, pcs, kept), UNCHANGED tokenVars,
         \A n \in Attempts : pcs[n] # pc[n] =>
           pc[n] \in {"getting", "malformed", "closed"} /\ pcs[n] \in {"cb", "done"}
  PROVE  TokenInv'
  BY DEF EndConnection, ClearConnectedState, FailedResults, TypeOK, TokenInv,
         ResultLater, ExpiredHasToken, RejectedIsReplaced, DialWithGood,
         SentGood, IsCurrentAttempt, Attempts, NoToken, tokenVars

\* Every step keeps TokenInv.
LEMMA TokenStep == ASSUME TypeOK, Shape, TokenInv, [Next]_vars PROVE TokenInv'
<1> USE TokensAssumption, BoundsAssumption
<1>1. CASE Connect
  BY <1>1 DEF Connect, TypeOK, TokenInv, ResultLater, ExpiredHasToken,
            RejectedIsReplaced, DialWithGood, SentGood, IsCurrentAttempt,
            Attempts, NoToken, tokenVars, Shape, TransportIsLatest, DownIdle
<1>2. CASE Disconnect
  <2>1. EndConnection("disconnected", pc, reports) /\ UNCHANGED tokenVars
    BY <1>2 DEF Disconnect
  <2>2. QED
    BY <2>1, EndConnectionTokens
<1>3. CASE Close
  <2>1. EndConnection("closed", pc, reports) /\ UNCHANGED tokenVars
    BY <1>3 DEF Close
  <2>2. QED
    BY <2>1, EndConnectionTokens
<1>4. CASE SendUnsubscribe
  BY <1>4 DEF SendUnsubscribe, ApplicationCalls, TypeOK, TokenInv, ResultLater,
              ExpiredHasToken, RejectedIsReplaced, DialWithGood, SentGood,
              IsCurrentAttempt, Attempts, NoToken, tokenVars
<1>5. CASE WriteError
  BY <1>5 DEF WriteError, Reported, NewReport, Fault, TypeOK, TokenInv,
              ResultLater, ExpiredHasToken, RejectedIsReplaced, DialWithGood,
              SentGood, IsCurrentAttempt, Attempts, NoToken, tokenVars
<1>6. CASE UnsubscribeFails
  BY <1>6 DEF UnsubscribeFails, Reported, NewReport, Fault, TypeOK, TokenInv,
              ResultLater, ExpiredHasToken, RejectedIsReplaced, DialWithGood,
              SentGood, IsCurrentAttempt, Attempts, NoToken, tokenVars
<1>7. CASE SubscribeTimeout
  BY <1>7 DEF SubscribeTimeout, Reported, NewReport, Fault, TypeOK, TokenInv,
              ResultLater, ExpiredHasToken, RejectedIsReplaced, DialWithGood,
              SentGood, IsCurrentAttempt, Attempts, NoToken, tokenVars
<1>8. CASE CloseReturns
  BY <1>8 DEF CloseReturns, NoFault, TypeOK, TokenInv, ResultLater,
              ExpiredHasToken, RejectedIsReplaced, DialWithGood, SentGood,
              IsCurrentAttempt, Attempts, NoToken, tokenVars
<1>9. CASE TimerFires
  BY <1>9 DEF TimerFires, NoFault, TypeOK, TokenInv, ResultLater,
              ExpiredHasToken, RejectedIsReplaced, DialWithGood, SentGood,
              IsCurrentAttempt, Attempts, NoToken, tokenVars
<1>10. CASE TimerStarts
  BY <1>10 DEF TimerStarts, NoFault, StartAttempt, ClosedConn, TypeOK, TokenInv,
            ResultLater, ExpiredHasToken, RejectedIsReplaced, DialWithGood,
            SentGood, IsCurrentAttempt, Attempts, NoToken, tokenVars, Shape,
            Fresh
<1>11. CASE UnsubscribeReplied
  BY <1>11 DEF UnsubscribeReplied, NoFault, TypeOK, TokenInv, ResultLater,
               ExpiredHasToken, RejectedIsReplaced, DialWithGood, SentGood,
               IsCurrentAttempt, Attempts, NoToken, tokenVars
<1>12. ASSUME NEW k \in Tokens, SetToken(k) PROVE TokenInv'
  BY <1>12 DEF SetToken, ApplicationCalls, TypeOK, TokenInv, ResultLater,
               ExpiredHasToken, RejectedIsReplaced, DialWithGood, SentGood,
               IsCurrentAttempt, Attempts, NoToken, tokenVars
<1>13. ASSUME NEW a \in starting, ConnectContinues(a) PROVE TokenInv'
  BY <1>13 DEF ConnectContinues, NoFault, StartAttempt, ClosedConn,
            IsCurrentAttempt, TypeOK, TokenInv, ResultLater, ExpiredHasToken,
            RejectedIsReplaced, DialWithGood, SentGood, IsCurrentAttempt,
            Attempts, NoToken, tokenVars, Shape, Fresh
<1>14. ASSUME NEW n \in Attempts, ReadToken(n) PROVE TokenInv'
  BY <1>14 DEF ReadToken, NoFault, TypeOK, TokenInv, ResultLater,
               ExpiredHasToken, RejectedIsReplaced, DialWithGood, SentGood,
               IsCurrentAttempt, Attempts, NoToken, tokenVars
<1>15. ASSUME NEW n \in Attempts, GetTokenFails(n) PROVE TokenInv'
  BY <1>15 DEF GetTokenFails, Fault, RetryIfCurrent, ScheduleReconnect,
               IsCurrentAttempt, TypeOK, TokenInv, ResultLater,
               ExpiredHasToken, RejectedIsReplaced, DialWithGood, SentGood,
               IsCurrentAttempt, Attempts, NoToken, tokenVars
<1>16. ASSUME NEW n \in Attempts, GetTokenUnauthorized(n) PROVE TokenInv'
  <2>1. CASE IsCurrentAttempt(n) /\ (HasGetToken \/ refreshRequired)
    <3>1. /\ EndConnection("disconnected", [pc EXCEPT ![n] = "done"], reports)
          /\ pc[n] = "getting" /\ UNCHANGED tokenVars
      BY <1>16, <2>1 DEF GetTokenUnauthorized
    <3> DEFINE pcs == [pc EXCEPT ![n] = "done"]
    <3>2. \A m \in Attempts : pcs[m] # pc[m] =>
           pc[m] \in {"getting", "malformed", "closed"} /\ pcs[m] \in {"cb", "done"}
      BY <3>1 DEF TypeOK
    <3>3. EndConnection("disconnected", pcs, reports) /\ UNCHANGED tokenVars
      BY <3>1
    <3> HIDE DEF pcs
    <3>4. QED
      BY <3>2, <3>3, EndConnectionTokens
  <2>2. CASE ~(IsCurrentAttempt(n) /\ (HasGetToken \/ refreshRequired))
    BY <1>16, <2>2 DEF GetTokenUnauthorized, Fault, NoFault, TypeOK, TokenInv,
                    ResultLater, ExpiredHasToken, RejectedIsReplaced,
                    DialWithGood, SentGood, IsCurrentAttempt, Attempts,
                    NoToken, tokenVars
  <2>3. QED
    BY <2>1, <2>2
<1>17. ASSUME NEW n \in Attempts, DialFails(n) PROVE TokenInv'
  BY <1>17 DEF DialFails, Fault, RetryIfCurrent, ScheduleReconnect,
               IsCurrentAttempt, TypeOK, TokenInv, ResultLater,
               ExpiredHasToken, RejectedIsReplaced, DialWithGood, SentGood,
               IsCurrentAttempt, Attempts, NoToken, tokenVars
<1>18. ASSUME NEW n \in Attempts, DialedTooLate(n) PROVE TokenInv'
  BY <1>18 DEF DialedTooLate, NoFault, IsCurrentAttempt, TypeOK, TokenInv,
               ResultLater, ExpiredHasToken, RejectedIsReplaced, DialWithGood,
               SentGood, IsCurrentAttempt, Attempts, NoToken, tokenVars
<1>19. ASSUME NEW n \in Attempts, ConnectSent(n) PROVE TokenInv'
  BY <1>19 DEF ConnectSent, NoFault, StartReader, IsCurrentAttempt, TypeOK,
               TokenInv, ResultLater, ExpiredHasToken, RejectedIsReplaced,
               DialWithGood, SentGood, IsCurrentAttempt, Attempts, NoToken,
               tokenVars
<1>20. ASSUME NEW n \in Attempts, ConnectNotSent(n) PROVE TokenInv'
  BY <1>20 DEF ConnectNotSent, Fault, StartReader, ScheduleReconnect,
               NewReport, IsCurrentAttempt, TypeOK, TokenInv, ResultLater,
               ExpiredHasToken, RejectedIsReplaced, DialWithGood, SentGood,
               IsCurrentAttempt, Attempts, NoToken, tokenVars
<1>21. ASSUME NEW n \in Attempts, MalformedReply(n) PROVE TokenInv'
  <2>1. CASE transport = n /\ state \in {"connecting", "connected"}
    <3>1. /\ EndConnection("disconnected", [pc EXCEPT ![n] = "cb"], reports)
          /\ pc[n] = "malformed" /\ UNCHANGED tokenVars
      BY <1>21, <2>1 DEF MalformedReply
    <3> DEFINE pcs == [pc EXCEPT ![n] = "cb"]
    <3>2. \A m \in Attempts : pcs[m] # pc[m] =>
           pc[m] \in {"getting", "malformed", "closed"} /\ pcs[m] \in {"cb", "done"}
      BY <3>1 DEF TypeOK
    <3>3. EndConnection("disconnected", pcs, reports) /\ UNCHANGED tokenVars
      BY <3>1
    <3> HIDE DEF pcs
    <3>4. QED
      BY <3>2, <3>3, EndConnectionTokens
  <2>2. CASE ~(transport = n /\ state \in {"connecting", "connected"})
    BY <1>21, <2>2 DEF MalformedReply, NoFault, TypeOK, TokenInv, ResultLater,
                    ExpiredHasToken, RejectedIsReplaced, DialWithGood,
                    SentGood, IsCurrentAttempt, Attempts, NoToken, tokenVars
  <2>3. QED
    BY <2>1, <2>2
<1>22. ASSUME NEW n \in Attempts, RequestTimeout(n) PROVE TokenInv'
  BY <1>22 DEF RequestTimeout, Fault, NoFault, TypeOK, TokenInv, ResultLater,
               ExpiredHasToken, RejectedIsReplaced, DialWithGood, SentGood,
               IsCurrentAttempt, Attempts, NoToken, tokenVars
<1>23. ASSUME NEW n \in Attempts, CallbackTooLate(n) PROVE TokenInv'
  BY <1>23 DEF CallbackTooLate, NoFault, ClosedConn, IsCurrentAttempt, TypeOK,
               TokenInv, ResultLater, ExpiredHasToken, RejectedIsReplaced,
               DialWithGood, SentGood, IsCurrentAttempt, Attempts, NoToken,
               tokenVars
<1>24. ASSUME NEW n \in Attempts, CallbackOK(n) PROVE TokenInv'
  BY <1>24 DEF CallbackOK, NoFault, IsCurrentAttempt, TypeOK, TokenInv,
               ResultLater, ExpiredHasToken, RejectedIsReplaced, DialWithGood,
               SentGood, IsCurrentAttempt, Attempts, NoToken, tokenVars
<1>25. ASSUME NEW n \in Attempts, ConnectedDone(n) PROVE TokenInv'
  BY <1>25 DEF ConnectedDone, NoFault, IsConnectedAttempt, TypeOK, TokenInv,
               ResultLater, ExpiredHasToken, RejectedIsReplaced, DialWithGood,
               SentGood, IsCurrentAttempt, Attempts, NoToken, tokenVars
<1>26. ASSUME NEW n \in Attempts, CallbackError(n) PROVE TokenInv'
  BY <1>26 DEF CallbackError, NoFault, IsCurrentAttempt, TypeOK, TokenInv,
               ResultLater, ExpiredHasToken, RejectedIsReplaced, DialWithGood,
               SentGood, IsCurrentAttempt, Attempts, NoToken, tokenVars
<1>27. ASSUME NEW n \in Attempts, CallbackCloses(n) PROVE TokenInv'
  BY <1>27 DEF CallbackCloses, NoFault, ClosedConn, TypeOK, TokenInv,
               ResultLater, ExpiredHasToken, RejectedIsReplaced, DialWithGood,
               SentGood, IsCurrentAttempt, Attempts, NoToken, tokenVars
<1>28. ASSUME NEW n \in Attempts, CallbackFatal(n) PROVE TokenInv'
  <2>1. /\ EndConnection("disconnected", [pc EXCEPT ![n] = "done"], reports)
        /\ pc[n] = "closed" /\ UNCHANGED tokenVars
    BY <1>28 DEF CallbackFatal
  <2> DEFINE pcs == [pc EXCEPT ![n] = "done"]
  <2>2. \A m \in Attempts : pcs[m] # pc[m] =>
         pc[m] \in {"getting", "malformed", "closed"} /\ pcs[m] \in {"cb", "done"}
    BY <2>1 DEF TypeOK
  <2>3. EndConnection("disconnected", pcs, reports) /\ UNCHANGED tokenVars
    BY <2>1
  <2> HIDE DEF pcs
  <2>4. QED
    BY <2>2, <2>3, EndConnectionTokens
<1>29. ASSUME NEW n \in Attempts, CallbackRetries(n) PROVE TokenInv'
  <2>0. /\ pc[n] = "closed" /\ pc' = [pc EXCEPT ![n] = "done"]
        /\ UNCHANGED <<state, connectAttempt, res, token, sentToken>>
    BY <1>29 DEF CallbackRetries, RetryIfCurrent
  <2>1. CASE IsCurrentAttempt(n) /\ res[n] = "expired"
    <3>1. /\ refreshRequired' = RefreshAfterExpired(n)
          /\ rejected' = rejected \cup {sentToken[n]}
      BY <1>29, <2>1 DEF CallbackRetries
    <3>2. token \in rejected' => refreshRequired'
      <4>1. CASE token = sentToken[n]
        BY <3>1, <4>1 DEF RefreshAfterExpired
      <4>2. CASE token # sentToken[n]
        BY <3>1, <4>2 DEF RefreshAfterExpired, TokenInv, RejectedIsReplaced
      <4>3. QED
        BY <4>1, <4>2
    <3>3. QED
      BY <2>0, <2>1, <3>1, <3>2
      DEF TypeOK, TokenInv, ResultLater, ExpiredHasToken, RejectedIsReplaced,
          DialWithGood, SentGood, IsCurrentAttempt
  <2>2. CASE ~(IsCurrentAttempt(n) /\ res[n] = "expired")
    <3>1. UNCHANGED <<refreshRequired, rejected>>
      BY <1>29, <2>2 DEF CallbackRetries
    <3>2. QED
      BY <2>0, <3>1
      DEF TypeOK, TokenInv, ResultLater, ExpiredHasToken, RejectedIsReplaced,
          DialWithGood, SentGood, IsCurrentAttempt
  <2>3. QED
    BY <2>1, <2>2
<1>30. ASSUME NEW n \in Attempts, ReaderEnds(n) PROVE TokenInv'
  BY <1>30 DEF ReaderEnds, NoFault, NewReport, DisconnectKind, TypeOK,
               TokenInv, ResultLater, ExpiredHasToken, RejectedIsReplaced,
               DialWithGood, SentGood, IsCurrentAttempt, Attempts, NoToken,
               tokenVars
<1>31. ASSUME NEW n \in Attempts, PingTimeout(n) PROVE TokenInv'
  BY <1>31 DEF PingTimeout, Reported, NewReport, Fault, TypeOK, TokenInv,
               ResultLater, ExpiredHasToken, RejectedIsReplaced, DialWithGood,
               SentGood, IsCurrentAttempt, Attempts, NoToken, tokenVars
<1>32. ASSUME NEW n \in Attempts, NEW k \in Tokens, GotToken(n, k) PROVE TokenInv'
  BY <1>32 DEF GotToken, NoFault, IsCurrentAttempt, TypeOK, TokenInv,
               ResultLater, ExpiredHasToken, RejectedIsReplaced, DialWithGood,
               SentGood, IsCurrentAttempt, Attempts, NoToken, tokenVars
<1>33. ASSUME NEW n \in Attempts, NEW q \in {"ok", "malformed"} \cup Errors,
             Replied(n, q)
      PROVE  TokenInv'
  BY <1>33 DEF Replied, Fault, NoFault, TypeOK, TokenInv, ResultLater,
               ExpiredHasToken, RejectedIsReplaced, DialWithGood, SentGood,
               IsCurrentAttempt, Attempts, NoToken, tokenVars
<1>34. ASSUME NEW n \in Attempts, NEW kind \in Kinds, ServerCloses(n, kind)
      PROVE  TokenInv'
  BY <1>34 DEF ServerCloses, Fault, TypeOK, TokenInv, ResultLater,
               ExpiredHasToken, RejectedIsReplaced, DialWithGood, SentGood,
               IsCurrentAttempt, Attempts, NoToken, tokenVars
<1>35. ASSUME NEW n \in Attempts, NEW kind \in Kinds, DisconnectPush(n, kind)
      PROVE  TokenInv'
  BY <1>35 DEF DisconnectPush, Reported, NewReport, Fault, TypeOK, TokenInv,
               ResultLater, ExpiredHasToken, RejectedIsReplaced, DialWithGood,
               SentGood, IsCurrentAttempt, Attempts, NoToken, tokenVars
<1>36. ASSUME NEW r \in reports, ReportCheck(r) PROVE TokenInv'
  BY <1>36 DEF ReportCheck, NoFault, Advance, AtStage, TypeOK, TokenInv,
               ResultLater, ExpiredHasToken, RejectedIsReplaced, DialWithGood,
               SentGood, IsCurrentAttempt, Attempts, NoToken, tokenVars
<1>37. ASSUME NEW r \in reports, Invalidate(r) PROVE TokenInv'
  BY <1>37 DEF Invalidate, NoFault, Advance, AtStage, TypeOK, TokenInv,
               ResultLater, ExpiredHasToken, RejectedIsReplaced, DialWithGood,
               SentGood, IsCurrentAttempt, Attempts, NoToken, tokenVars
<1>38. ASSUME NEW r \in reports, ReportIgnored(r) PROVE TokenInv'
  BY <1>38 DEF ReportIgnored, NoFault, TypeOK, TokenInv, ResultLater,
               ExpiredHasToken, RejectedIsReplaced, DialWithGood, SentGood,
               IsCurrentAttempt, Attempts, NoToken, tokenVars
<1>39. ASSUME NEW r \in reports, ReportDisconnects(r) PROVE TokenInv'
  <2>1. EndConnection("disconnected", pc, reports \ {r}) /\ UNCHANGED tokenVars
    BY <1>39 DEF ReportDisconnects
  <2>2. QED
    BY <2>1, EndConnectionTokens
<1>40. ASSUME NEW r \in reports, ReportRetries(r) PROVE TokenInv'
  BY <1>40 DEF ReportRetries, NoFault, MayAct, FailedRequests, FailedResults,
            FailedUnsub, NewReport, ClosedConn, ScheduleReconnect, TypeOK,
            TokenInv, ResultLater, ExpiredHasToken, RejectedIsReplaced,
            DialWithGood, SentGood, IsCurrentAttempt, Attempts, NoToken,
            tokenVars, Shape, Fresh
<1>41. ASSUME NEW r \in reports, ReportTearsDown(r) PROVE TokenInv'
  BY <1>41 DEF ReportTearsDown, NoFault, MayAct, CanTearDown, FailedRequests,
            ClearConnectedState, FailedResults, FailedUnsub, NewReport,
            AtStage, ClosedConn, TimerAfterClear, TypeOK, TokenInv,
            ResultLater, ExpiredHasToken, RejectedIsReplaced, DialWithGood,
            SentGood, IsCurrentAttempt, Attempts, NoToken, tokenVars, Shape,
            TransportIsLatest, DownIdle
<1>42. ASSUME NEW r \in reports, TeardownDone(r) PROVE TokenInv'
  BY <1>42 DEF TeardownDone, NoFault, ReconnectAfterWait, ScheduleReconnect,
               IsCurrentAttempt, TypeOK, TokenInv, ResultLater,
               ExpiredHasToken, RejectedIsReplaced, DialWithGood, SentGood,
               IsCurrentAttempt, Attempts, NoToken, tokenVars
<1>43. CASE UNCHANGED vars
  BY <1>43 DEF vars, TypeOK, TokenInv, ResultLater, ExpiredHasToken,
               RejectedIsReplaced, DialWithGood, SentGood, IsCurrentAttempt,
               Attempts, NoToken, tokenVars
<1>44. QED
  BY <1>1, <1>2, <1>3, <1>4, <1>5, <1>6, <1>7, <1>8, <1>9, <1>10, <1>11, <1>12,
     <1>13, <1>14, <1>15, <1>16, <1>17, <1>18, <1>19, <1>20, <1>21, <1>22,
     <1>23, <1>24, <1>25, <1>26, <1>27, <1>28, <1>29, <1>30, <1>31, <1>32,
     <1>33, <1>34, <1>35, <1>36, <1>37, <1>38, <1>39, <1>40, <1>41, <1>42,
     <1>43
  DEF Next, Application, Failure, Progress, HandleReport

------------------------------------------------------------------------------
(* The theorems.                                                            *)

\* The inductive invariant.
ConnInv == TypeOK /\ Shape /\ ConnectingHasWork /\ TokenInv

\* newClient establishes the invariant.
LEMMA InitConnInv == Init => ConnInv
<1> SUFFICES ASSUME Init PROVE ConnInv
  OBVIOUS
<1>1. timer \in BOOLEAN /\ refreshRequired \in BOOLEAN
  BY DEF Init
<1>2. TypeOK
  BY <1>1, BoundsAssumption
  DEF Init, TypeOK, PCs, Busy, Results, Conns, None, Attempts
<1>3. Shape
  BY DEF Init, Shape, TransportIsLatest, OpenIsOwned, DownIsQuiet, Fresh, NotDialed,
         Awaiting, DownIdle, None
<1>4. ConnectingHasWork /\ TokenInv
  BY DEF Init, ConnectingHasWork, TokenInv, ResultLater, ExpiredHasToken,
         RejectedIsReplaced, DialWithGood, SentGood
<1>5. QED
  BY <1>2, <1>3, <1>4 DEF ConnInv

\* ConnInv holds in every reachable state of the connection.
THEOREM ConnectionInvariant == Spec => []ConnInv
<1>1. ConnInv /\ [Next]_vars => ConnInv'
  BY TypeStep, ShapeStep, WorkStep, TokenStep DEF ConnInv
<1>2. QED
  BY <1>1, InitConnInv, PTL DEF Spec

\* The variables of the connection stay in their types.
THEOREM ConnectionTypeCorrect == Spec => []TypeOK
<1>1. ConnInv => TypeOK
  BY DEF ConnInv
<1>2. QED
  BY <1>1, ConnectionInvariant, PTL

\* However many attempts, calls and failures: a connecting client always has an
\* attempt, a timer, a Connect() or a teardown that will go on.
THEOREM NeverStranded == Spec => []ConnectingHasWork
<1>1. ConnInv => ConnectingHasWork
  BY DEF ConnInv
<1>2. QED
  BY <1>1, ConnectionInvariant, PTL

\* c.transport is always that of the latest attempt, and set when connected.
THEOREM TransportOfLatestAttempt == Spec => []TransportIsLatest
<1>1. ConnInv => TransportIsLatest
  BY DEF ConnInv, Shape
<1>2. QED
  BY <1>1, ConnectionInvariant, PTL

\* Every open connection is the client's or is being closed by its attempt.
THEOREM NoConnectionLeaks == Spec => []OpenIsOwned
<1>1. ConnInv => OpenIsOwned
  BY DEF ConnInv, Shape
<1>2. QED
  BY <1>1, ConnectionInvariant, PTL

\* No reconnect timer and no transport when disconnected or closed.
THEOREM DownStaysDown == Spec => []DownIsQuiet
<1>1. ConnInv => DownIsQuiet
  BY DEF ConnInv, Shape
<1>2. QED
  BY <1>1, ConnectionInvariant, PTL

\* No connect command carries a token the client was told is expired.
THEOREM RejectedTokenNotResent == Spec => []NeverResendRejected
<1>1. ConnInv => NeverResendRejected
  BY DEF ConnInv, TokenInv, SentGood, NeverResendRejected
<1>2. QED
  BY <1>1, ConnectionInvariant, PTL

------------------------------------------------------------------------------
(* What a step may not do.                                                  *)

\* The step condition of NoSpuriousTeardown.
TeardownAllowed ==
  state = "connected" /\ state' # "connected" /\ calls' = calls =>
    \E r \in reports : r.stage = "act" /\ (r.t = None \/ r.t = transport)

\* Only a report that passed its check ends a connection in use.
LEMMA TeardownStep == ASSUME ConnInv, [Next]_vars PROVE TeardownAllowed
<1>1. CASE Connect
  BY <1>1 DEF Connect, TeardownAllowed
<1>2. CASE Disconnect
  BY <1>2 DEF Disconnect, ApplicationCalls, TeardownAllowed, ConnInv, TypeOK
<1>3. CASE Close
  BY <1>3 DEF Close, ApplicationCalls, TeardownAllowed, ConnInv, TypeOK
<1>4. CASE SendUnsubscribe
  BY <1>4 DEF SendUnsubscribe, TeardownAllowed
<1>5. CASE WriteError
  BY <1>5 DEF WriteError, Reported, TeardownAllowed
<1>6. CASE UnsubscribeFails
  BY <1>6 DEF UnsubscribeFails, Reported, TeardownAllowed
<1>7. CASE SubscribeTimeout
  BY <1>7 DEF SubscribeTimeout, Reported, TeardownAllowed
<1>8. CASE CloseReturns
  BY <1>8 DEF CloseReturns, TeardownAllowed
<1>9. CASE TimerFires
  BY <1>9 DEF TimerFires, TeardownAllowed
<1>10. CASE TimerStarts
  BY <1>10 DEF TimerStarts, TeardownAllowed
<1>11. CASE UnsubscribeReplied
  BY <1>11 DEF UnsubscribeReplied, TeardownAllowed
<1>12. ASSUME NEW k \in Tokens, SetToken(k) PROVE TeardownAllowed
  BY <1>12 DEF SetToken, TeardownAllowed
<1>13. ASSUME NEW a \in starting, ConnectContinues(a) PROVE TeardownAllowed
  BY <1>13 DEF ConnectContinues, TeardownAllowed
<1>14. ASSUME NEW n \in Attempts, ReadToken(n) PROVE TeardownAllowed
  BY <1>14 DEF ReadToken, TeardownAllowed
<1>15. ASSUME NEW n \in Attempts, GetTokenFails(n) PROVE TeardownAllowed
  BY <1>15 DEF GetTokenFails, TeardownAllowed
<1>16. ASSUME NEW n \in Attempts, GetTokenUnauthorized(n) PROVE TeardownAllowed
  BY <1>16 DEF GetTokenUnauthorized, IsCurrentAttempt, TeardownAllowed
<1>17. ASSUME NEW n \in Attempts, DialFails(n) PROVE TeardownAllowed
  BY <1>17 DEF DialFails, TeardownAllowed
<1>18. ASSUME NEW n \in Attempts, DialedTooLate(n) PROVE TeardownAllowed
  BY <1>18 DEF DialedTooLate, TeardownAllowed
<1>19. ASSUME NEW n \in Attempts, ConnectSent(n) PROVE TeardownAllowed
  BY <1>19 DEF ConnectSent, TeardownAllowed
<1>20. ASSUME NEW n \in Attempts, ConnectNotSent(n) PROVE TeardownAllowed
  BY <1>20 DEF ConnectNotSent, TeardownAllowed
<1>21. ASSUME NEW n \in Attempts, MalformedReply(n) PROVE TeardownAllowed
  BY <1>21 DEF MalformedReply, TeardownAllowed, ConnInv, Shape, TransportIsLatest
<1>22. ASSUME NEW n \in Attempts, RequestTimeout(n) PROVE TeardownAllowed
  BY <1>22 DEF RequestTimeout, TeardownAllowed
<1>23. ASSUME NEW n \in Attempts, CallbackTooLate(n) PROVE TeardownAllowed
  BY <1>23 DEF CallbackTooLate, TeardownAllowed
<1>24. ASSUME NEW n \in Attempts, CallbackOK(n) PROVE TeardownAllowed
  BY <1>24 DEF CallbackOK, IsCurrentAttempt, TeardownAllowed
<1>25. ASSUME NEW n \in Attempts, ConnectedDone(n) PROVE TeardownAllowed
  BY <1>25 DEF ConnectedDone, TeardownAllowed
<1>26. ASSUME NEW n \in Attempts, CallbackError(n) PROVE TeardownAllowed
  BY <1>26 DEF CallbackError, TeardownAllowed
<1>27. ASSUME NEW n \in Attempts, CallbackCloses(n) PROVE TeardownAllowed
  BY <1>27 DEF CallbackCloses, TeardownAllowed
<1>28. ASSUME NEW n \in Attempts, CallbackFatal(n) PROVE TeardownAllowed
  BY <1>28 DEF CallbackFatal, IsCurrentAttempt, TeardownAllowed
<1>29. ASSUME NEW n \in Attempts, CallbackRetries(n) PROVE TeardownAllowed
  BY <1>29 DEF CallbackRetries, TeardownAllowed
<1>30. ASSUME NEW n \in Attempts, ReaderEnds(n) PROVE TeardownAllowed
  BY <1>30 DEF ReaderEnds, TeardownAllowed
<1>31. ASSUME NEW n \in Attempts, PingTimeout(n) PROVE TeardownAllowed
  BY <1>31 DEF PingTimeout, Reported, TeardownAllowed
<1>32. ASSUME NEW n \in Attempts, NEW k \in Tokens, GotToken(n, k) PROVE TeardownAllowed
  BY <1>32 DEF GotToken, TeardownAllowed
<1>33. ASSUME NEW n \in Attempts, NEW q \in {"ok", "malformed"} \cup Errors,
             Replied(n, q)
      PROVE  TeardownAllowed
  BY <1>33 DEF Replied, TeardownAllowed
<1>34. ASSUME NEW n \in Attempts, NEW kind \in Kinds, ServerCloses(n, kind)
      PROVE  TeardownAllowed
  BY <1>34 DEF ServerCloses, TeardownAllowed
<1>35. ASSUME NEW n \in Attempts, NEW kind \in Kinds, DisconnectPush(n, kind)
      PROVE  TeardownAllowed
  BY <1>35 DEF DisconnectPush, Reported, TeardownAllowed
<1>36. ASSUME NEW r \in reports, ReportCheck(r) PROVE TeardownAllowed
  BY <1>36 DEF ReportCheck, TeardownAllowed
<1>37. ASSUME NEW r \in reports, Invalidate(r) PROVE TeardownAllowed
  BY <1>37 DEF Invalidate, TeardownAllowed
<1>38. ASSUME NEW r \in reports, ReportIgnored(r) PROVE TeardownAllowed
  BY <1>38 DEF ReportIgnored, TeardownAllowed
<1>39. ASSUME NEW r \in reports, ReportDisconnects(r) PROVE TeardownAllowed
  BY <1>39 DEF ReportDisconnects, MayAct, TeardownAllowed
<1>40. ASSUME NEW r \in reports, ReportRetries(r) PROVE TeardownAllowed
  BY <1>40 DEF ReportRetries, TeardownAllowed
<1>41. ASSUME NEW r \in reports, ReportTearsDown(r) PROVE TeardownAllowed
  BY <1>41 DEF ReportTearsDown, MayAct, TeardownAllowed
<1>42. ASSUME NEW r \in reports, TeardownDone(r) PROVE TeardownAllowed
  BY <1>42 DEF TeardownDone, TeardownAllowed
<1>43. CASE UNCHANGED vars
  BY <1>43 DEF vars, TeardownAllowed
<1>44. QED
  BY <1>1, <1>2, <1>3, <1>4, <1>5, <1>6, <1>7, <1>8, <1>9, <1>10, <1>11, <1>12,
     <1>13, <1>14, <1>15, <1>16, <1>17, <1>18, <1>19, <1>20, <1>21, <1>22,
     <1>23, <1>24, <1>25, <1>26, <1>27, <1>28, <1>29, <1>30, <1>31, <1>32,
     <1>33, <1>34, <1>35, <1>36, <1>37, <1>38, <1>39, <1>40, <1>41, <1>42,
     <1>43
  DEF Next, Application, Failure, Progress, HandleReport

\* Nothing that an earlier attempt, transport, timer or callback still does ends
\* a connection that is in use.
THEOREM OnlyOwnReportsTearDown == Spec => NoSpuriousTeardown
<1>1. ConnInv /\ [Next]_vars => [TeardownAllowed]_vars
  BY TeardownStep
<1>2. QED
  BY <1>1, ConnectionInvariant, PTL DEF Spec, NoSpuriousTeardown, TeardownAllowed

\* The step condition of ClosedIsFinal.
ClosedKept ==
  state = "closed" =>
    /\ state' = "closed" /\ transport' = None
    /\ \A n \in Attempts : conn'[n] = "open" => conn[n] = "open"

\* No step leaves the closed state.
LEMMA ClosedStep == ASSUME ConnInv, [Next]_vars PROVE ClosedKept
<1>1. CASE Connect
  BY <1>1 DEF Connect, ClosedKept, ConnInv, Shape, DownIsQuiet
<1>2. CASE Disconnect
  BY <1>2 DEF Disconnect, ClosedKept, ConnInv, Shape, DownIsQuiet
<1>3. CASE Close
  BY <1>3 DEF Close, ClosedKept, ConnInv, Shape, DownIsQuiet
<1>4. CASE SendUnsubscribe
  BY <1>4 DEF SendUnsubscribe, ClosedKept, ConnInv, Shape, DownIsQuiet
<1>5. CASE WriteError
  BY <1>5 DEF WriteError, Reported, ClosedKept, ConnInv, Shape, DownIsQuiet
<1>6. CASE UnsubscribeFails
  BY <1>6 DEF UnsubscribeFails, Reported, ClosedKept, ConnInv, Shape, DownIsQuiet
<1>7. CASE SubscribeTimeout
  BY <1>7 DEF SubscribeTimeout, Reported, ClosedKept, ConnInv, Shape, DownIsQuiet
<1>8. CASE CloseReturns
  BY <1>8 DEF CloseReturns, ClosedKept, ConnInv, Shape, DownIsQuiet
<1>9. CASE TimerFires
  BY <1>9 DEF TimerFires, ClosedKept, ConnInv, Shape, DownIsQuiet
<1>10. CASE TimerStarts
  BY <1>10 DEF TimerStarts, IsCurrentAttempt, StartAttempt, ClosedKept, ConnInv,
            Shape, DownIsQuiet
<1>11. CASE UnsubscribeReplied
  BY <1>11 DEF UnsubscribeReplied, ClosedKept, ConnInv, Shape, DownIsQuiet
<1>12. ASSUME NEW k \in Tokens, SetToken(k) PROVE ClosedKept
  BY <1>12 DEF SetToken, ClosedKept, ConnInv, Shape, DownIsQuiet
<1>13. ASSUME NEW a \in starting, ConnectContinues(a) PROVE ClosedKept
  BY <1>13 DEF ConnectContinues, IsCurrentAttempt, StartAttempt, ClosedKept,
            ConnInv, Shape, DownIsQuiet
<1>14. ASSUME NEW n \in Attempts, ReadToken(n) PROVE ClosedKept
  BY <1>14 DEF ReadToken, ClosedKept, ConnInv, Shape, DownIsQuiet
<1>15. ASSUME NEW n \in Attempts, GetTokenFails(n) PROVE ClosedKept
  BY <1>15 DEF GetTokenFails, ClosedKept, ConnInv, Shape, DownIsQuiet
<1>16. ASSUME NEW n \in Attempts, GetTokenUnauthorized(n) PROVE ClosedKept
  BY <1>16 DEF GetTokenUnauthorized, IsCurrentAttempt, ClosedKept, ConnInv, Shape,
            DownIsQuiet
<1>17. ASSUME NEW n \in Attempts, DialFails(n) PROVE ClosedKept
  BY <1>17 DEF DialFails, ClosedKept, ConnInv, Shape, DownIsQuiet
<1>18. ASSUME NEW n \in Attempts, DialedTooLate(n) PROVE ClosedKept
  BY <1>18 DEF DialedTooLate, TypeOK, ClosedKept, ConnInv, Shape, DownIsQuiet
<1>19. ASSUME NEW n \in Attempts, ConnectSent(n) PROVE ClosedKept
  BY <1>19 DEF ConnectSent, IsCurrentAttempt, StartReader, ClosedKept, ConnInv,
            Shape, DownIsQuiet
<1>20. ASSUME NEW n \in Attempts, ConnectNotSent(n) PROVE ClosedKept
  BY <1>20 DEF ConnectNotSent, IsCurrentAttempt, StartReader, ClosedKept, ConnInv,
            Shape, DownIsQuiet
<1>21. ASSUME NEW n \in Attempts, MalformedReply(n) PROVE ClosedKept
  BY <1>21 DEF MalformedReply, ClosedKept, ConnInv, Shape, DownIsQuiet
<1>22. ASSUME NEW n \in Attempts, RequestTimeout(n) PROVE ClosedKept
  BY <1>22 DEF RequestTimeout, ClosedKept, ConnInv, Shape, DownIsQuiet
<1>23. ASSUME NEW n \in Attempts, CallbackTooLate(n) PROVE ClosedKept
  BY <1>23 DEF CallbackTooLate, ClosedConn, TypeOK, ClosedKept, ConnInv, Shape,
            DownIsQuiet
<1>24. ASSUME NEW n \in Attempts, CallbackOK(n) PROVE ClosedKept
  BY <1>24 DEF CallbackOK, IsCurrentAttempt, ClosedKept, ConnInv, Shape,
            DownIsQuiet
<1>25. ASSUME NEW n \in Attempts, ConnectedDone(n) PROVE ClosedKept
  BY <1>25 DEF ConnectedDone, ClosedKept, ConnInv, Shape, DownIsQuiet
<1>26. ASSUME NEW n \in Attempts, CallbackError(n) PROVE ClosedKept
  BY <1>26 DEF CallbackError, IsCurrentAttempt, ClosedKept, ConnInv, Shape,
            DownIsQuiet
<1>27. ASSUME NEW n \in Attempts, CallbackCloses(n) PROVE ClosedKept
  BY <1>27 DEF CallbackCloses, ClosedConn, TypeOK, ClosedKept, ConnInv, Shape,
            DownIsQuiet
<1>28. ASSUME NEW n \in Attempts, CallbackFatal(n) PROVE ClosedKept
  BY <1>28 DEF CallbackFatal, IsCurrentAttempt, ClosedKept, ConnInv, Shape,
            DownIsQuiet
<1>29. ASSUME NEW n \in Attempts, CallbackRetries(n) PROVE ClosedKept
  BY <1>29 DEF CallbackRetries, ClosedKept, ConnInv, Shape, DownIsQuiet
<1>30. ASSUME NEW n \in Attempts, ReaderEnds(n) PROVE ClosedKept
  BY <1>30 DEF ReaderEnds, ClosedKept, ConnInv, Shape, DownIsQuiet
<1>31. ASSUME NEW n \in Attempts, PingTimeout(n) PROVE ClosedKept
  BY <1>31 DEF PingTimeout, Reported, ClosedKept, ConnInv, Shape, DownIsQuiet
<1>32. ASSUME NEW n \in Attempts, NEW k \in Tokens, GotToken(n, k) PROVE ClosedKept
  BY <1>32 DEF GotToken, ClosedKept, ConnInv, Shape, DownIsQuiet
<1>33. ASSUME NEW n \in Attempts, NEW q \in {"ok", "malformed"} \cup Errors,
             Replied(n, q)
      PROVE  ClosedKept
  BY <1>33 DEF Replied, ClosedKept, ConnInv, Shape, DownIsQuiet
<1>34. ASSUME NEW n \in Attempts, NEW kind \in Kinds, ServerCloses(n, kind)
      PROVE  ClosedKept
  BY <1>34 DEF ServerCloses, Kinds, TypeOK, ClosedKept, ConnInv, Shape,
            DownIsQuiet
<1>35. ASSUME NEW n \in Attempts, NEW kind \in Kinds, DisconnectPush(n, kind)
      PROVE  ClosedKept
  BY <1>35 DEF DisconnectPush, Reported, ClosedKept, ConnInv, Shape, DownIsQuiet
<1>36. ASSUME NEW r \in reports, ReportCheck(r) PROVE ClosedKept
  BY <1>36 DEF ReportCheck, ClosedKept, ConnInv, Shape, DownIsQuiet
<1>37. ASSUME NEW r \in reports, Invalidate(r) PROVE ClosedKept
  BY <1>37 DEF Invalidate, ClosedKept, ConnInv, Shape, DownIsQuiet
<1>38. ASSUME NEW r \in reports, ReportIgnored(r) PROVE ClosedKept
  BY <1>38 DEF ReportIgnored, ClosedKept, ConnInv, Shape, DownIsQuiet
<1>39. ASSUME NEW r \in reports, ReportDisconnects(r) PROVE ClosedKept
  BY <1>39 DEF ReportDisconnects, ClosedKept, ConnInv, Shape, DownIsQuiet
<1>40. ASSUME NEW r \in reports, ReportRetries(r) PROVE ClosedKept
  BY <1>40 DEF ReportRetries, ClosedKept, ConnInv, Shape, DownIsQuiet
<1>41. ASSUME NEW r \in reports, ReportTearsDown(r) PROVE ClosedKept
  BY <1>41 DEF ReportTearsDown, CanTearDown, ClosedKept, ConnInv, Shape,
            DownIsQuiet
<1>42. ASSUME NEW r \in reports, TeardownDone(r) PROVE ClosedKept
  BY <1>42 DEF TeardownDone, ClosedKept, ConnInv, Shape, DownIsQuiet
<1>43. CASE UNCHANGED vars
  BY <1>43 DEF vars, ClosedKept, ConnInv, Shape, DownIsQuiet
<1>44. QED
  BY <1>1, <1>2, <1>3, <1>4, <1>5, <1>6, <1>7, <1>8, <1>9, <1>10, <1>11, <1>12,
     <1>13, <1>14, <1>15, <1>16, <1>17, <1>18, <1>19, <1>20, <1>21, <1>22,
     <1>23, <1>24, <1>25, <1>26, <1>27, <1>28, <1>29, <1>30, <1>31, <1>32,
     <1>33, <1>34, <1>35, <1>36, <1>37, <1>38, <1>39, <1>40, <1>41, <1>42,
     <1>43
  DEF Next, Application, Failure, Progress, HandleReport

\* Close() is final: no later step leaves the closed state or opens a transport.
THEOREM CloseIsFinal == Spec => ClosedIsFinal
<1>1. ConnInv /\ [Next]_vars => [ClosedKept]_vars
  BY ClosedStep
<1>2. QED
  BY <1>1, ConnectionInvariant, PTL DEF Spec, ClosedIsFinal, ClosedKept

==============================================================================
