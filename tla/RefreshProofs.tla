--------------------------- MODULE RefreshProofs ---------------------------
(***************************************************************************)
(* Proofs about the token refreshes of the connection (ConnRefresh) and of *)
(* a subscription (SubRefresh), for any number of goroutines and any       *)
(* bounds: a session has one refresh at most and, while its token expires, *)
(* at least one, a refresh that outlived its session changes nothing, and  *)
(* no token from before an invalidation is used.                           *)
(*                                                                         *)
(* Why one refresh: the timer and the goroutines carry the number of their *)
(* session, and every number is at most the current one, so a new session  *)
(* starts with no refresh; from then on each step hands the one refresh on *)
(* (timer to goroutine, goroutine to timer) or ends it.  Why fresh: a      *)
(* token that is fetched is as recent as the invalidations when it was     *)
(* asked for.  The connection marks an older one with refreshRequired,     *)
(* which storing a refreshed one leaves alone, and a connect attempt that  *)
(* finds the mark fetches another; only an invalidation that hits the      *)
(* attempt after it looked (strayed) escapes both.  A subscription refuses *)
(* to store an older token.                                                *)
(*                                                                         *)
(* The two modules share no state, so MCRefresh runs either and its        *)
(* specification implies both of theirs (PartsAreRefreshes).               *)
(***************************************************************************)
EXTENDS MCRefresh, FiniteSetTheorems, TLAPS

------------------------------------------------------------------------------
(* The connection token                                                     *)

\* Types of the session and its timer.
SessionTypes ==
  /\ state \in {"disconnected", "connecting", "connected"}
  /\ generation \in Nat \ {0} /\ refreshTimer \in Nat /\ refreshTimer <= generation

\* Types of the flags.
FlagTypes == expires \in BOOLEAN /\ refreshRequired \in BOOLEAN /\ strayed \in BOOLEAN

\* Tokens of the connection.
ConnTokens == [from : {"none", "app", "GetToken"}, at : Nat]

\* Types of the token and of the number of invalidations.
TokenTypes ==
  /\ invalidations \in Nat
  /\ token \in ConnTokens /\ token.at <= invalidations

\* Types of the goroutines.
FlowTypes ==
  /\ flow \in [Flows -> [phase : Phases, generation : Nat, token : ConnTokens]]
  /\ \A f \in Flows : flow[f].generation <= generation /\ flow[f].token.at <= invalidations

\* Types of the attempt and the transport.
AttemptTypes ==
  /\ attempt \in [phase : AttemptPhases, token : ConnTokens]
  /\ attempt.token.at <= invalidations
  /\ transports \in Nat /\ transport \in Nat /\ transport <= transports

\* Types of the disconnects on their way.
ReportTypes ==
  /\ reports \subseteq [transport : Nat, kind : {"lost", "invalidated", "checked"}]
  /\ \A r \in reports : r.transport \in 1..transports

\* Types of the counters.
BudgetTypes == calls \in Nat /\ faults \in Nat

\* A goroutine runs the refresh of the current session.
Runs(f) == flow[f].phase # "idle" /\ flow[f].generation = generation

\* The session of a refresh is the connected one, the timer waits for nobody, and no
\* two goroutines refresh it.
RefreshInv ==
  /\ refreshTimer # Off =>
       /\ state = "connected" /\ refreshTimer = generation
       /\ \A f \in Flows : ~Runs(f)
  /\ \A f \in Flows : Runs(f) => state = "connected"
  /\ \A f, g \in Flows : Runs(f) /\ Runs(g) => f = g

\* Attempts are made while connecting, and who is connected, or waits for the connect
\* reply, has a transport.
AttemptInv ==
  /\ attempt.phase # "idle" => state = "connecting"
  /\ state = "connected" \/ attempt.phase = "await" => transport # None

\* A token from before an invalidation is marked, so is one that is on its way to be
\* stored in this session, and an attempt past its reading of the mark has none; unless
\* an invalidation strayed.
FreshInv ==
  /\ strayed \/ refreshRequired \/ token = NoToken \/ Fresh(token)
  /\ attempt.phase = "asking" => strayed \/ Fresh(attempt.token)
  /\ attempt.phase = "dial" => strayed \/ Fresh(token)
  /\ \A f \in Flows :
       flow[f].phase \in {"asking", "storing"} /\ flow[f].generation = generation =>
         refreshRequired \/ Fresh(flow[f].token)

\* All types of the connection.
ConnTypes ==
  /\ SessionTypes /\ FlagTypes /\ TokenTypes /\ FlowTypes /\ AttemptTypes /\ ReportTypes
  /\ BudgetTypes

\* The inductive invariant of the connection token.
ConnInv == ConnTypes /\ AttemptInv /\ RefreshInv /\ FreshInv /\ RefreshHasWork
------------------------------------------------------------------------------
(* The subscription token                                                   *)

\* Types of the session of the subscription and its timer.
SubSessionTypes ==
  /\ subState \in {"unsubscribed", "subscribing", "subscribed"}
  /\ subscribedSession \in Nat /\ subTimer \in Nat /\ subTimer <= subscribedSession
  /\ subStrayed \in Nat /\ subStrayed <= subscribedSession

\* Types of the flags.
SubFlagTypes == connected \in BOOLEAN /\ subExpires \in BOOLEAN

\* Tokens of the subscription.
SubTokens == [known : BOOLEAN, at : Nat]

\* Types of its token and of its number of invalidations.
SubTokenTypes ==
  /\ subInvalidations \in Nat
  /\ subToken \in SubTokens /\ subToken.at <= subInvalidations

\* Types of the goroutines that refresh it.
SubFlowTypes ==
  /\ subFlow \in [Flows -> [phase : Sub!Phases, session : Nat, invalidations : Nat]]
  /\ \A f \in Flows :
       subFlow[f].session <= subscribedSession /\ subFlow[f].invalidations <= subInvalidations

\* Types of what may end its session; pushes are of no connection.
EndTypes ==
  /\ connection \in Nat \ {0}
  /\ ends \subseteq [kind : {"push", "pushInvalidated", "lost", "invalidated", "checked"},
                     connection : Nat]
  /\ \A e \in ends :
       /\ e.connection <= connection
       /\ e.kind \in {"push", "pushInvalidated"} <=> e.connection = 0

\* Types of the counters.
SubBudgetTypes == subCalls \in Nat /\ subFaults \in Nat

\* A goroutine runs the refresh of the current session.
SubRuns(f) == subFlow[f].phase # "idle" /\ subFlow[f].session = subscribedSession

\* The timer is that of the subscribed session and waits for no goroutine, and no two
\* goroutines refresh one session.  One may still run when the session has just ended.
SubRefreshInv ==
  /\ subTimer # Sub!Off =>
       /\ subState = "subscribed" /\ subTimer = subscribedSession
       /\ \A f \in Flows : ~SubRuns(f)
  /\ \A f, g \in Flows : SubRuns(f) /\ SubRuns(g) => f = g

\* Only a connected client has subscribed subscriptions.
SubscribedOnline == subState = "subscribed" => connected

\* All types of the subscription.
SubTypes ==
  /\ SubSessionTypes /\ SubFlagTypes /\ SubTokenTypes /\ SubFlowTypes /\ EndTypes
  /\ SubBudgetTypes

\* The inductive invariant of the subscription token.
SubscriptionInv ==
  SubTypes /\ SubRefreshInv /\ SubscribedOnline /\ Sub!TokenIsFresh /\ Sub!RefreshHasWork
------------------------------------------------------------------------------
(* Lemmas                                                                   *)

\* The tokens of the subscription are tokens.
LEMMA SubTokenRecords ==
  /\ Sub!NoToken \in SubTokens /\ Sub!NoToken.at = 0
  /\ \A n \in Nat : Sub!Token(n) \in SubTokens /\ Sub!Token(n).at = n
<1>1. \A n \in Nat, b \in BOOLEAN : [known |-> b, at |-> n] \in SubTokens
  BY Zenon DEF SubTokens
<1>2. FALSE \in BOOLEAN /\ TRUE \in BOOLEAN /\ 0 \in Nat
  OBVIOUS
<1>3. Sub!NoToken \in SubTokens
  BY <1>1, <1>2, Zenon DEF Sub!NoToken
<1>4. \A n \in Nat : Sub!Token(n) \in SubTokens
  BY <1>1, <1>2, Zenon DEF Sub!Token
<1>5. Sub!NoToken.at = 0 /\ \A n \in Nat : Sub!Token(n).at = n
  BY DEF Sub!NoToken, Sub!Token
<1>6. QED
  BY <1>3, <1>4, <1>5

\* The tokens of the connection are tokens.
LEMMA TokenRecords ==
  /\ NoToken \in ConnTokens /\ NoToken.at = 0
  /\ \A n \in Nat, x \in {"app", "GetToken"} :
       Token(x, n) \in ConnTokens /\ Token(x, n).at = n /\ Token(x, n).from = x
  /\ NoAttempt.token = NoToken /\ NoAttempt.phase = "idle"
BY DEF ConnTokens, NoToken, Token, NoAttempt

\* Every step of the connection keeps SessionTypes.
LEMMA SessionTypesStep ==
  ASSUME SessionTypes, FlowTypes, [Next]_vars
  PROVE  SessionTypes'
<1> USE DEF SessionTypes, FlowTypes, Off
<1>1. ASSUME Connect PROVE SessionTypes'
  BY <1>1 DEF Connect, session
<1>2. ASSUME NEW target \in {"connecting", "disconnected"}, Teardown(target)
      PROVE  SessionTypes'
  BY <1>2 DEF Teardown, TimerAfterTeardown, Off, None
<1>3. ASSUME Connected PROVE SessionTypes'
  BY <1>3 DEF Connected, ScheduleRefresh, session
<1>4. ASSUME NEW f \in Flows, TimerFires(f) PROVE SessionTypes'
  BY <1>4 DEF TimerFires, session
<1>5. ASSUME NEW f \in Flows, RefreshAnswered(f) PROVE SessionTypes'
  BY <1>5 DEF RefreshAnswered, IsRefreshCurrentLocked, ScheduleRefresh, session
<1>6. ASSUME NEW f \in Flows, HandleRefreshError(f) PROVE SessionTypes'
  BY <1>6 DEF HandleRefreshError, IsRefreshCurrentLocked, ScheduleRefresh, session
<1>7. CASE UNCHANGED <<state, generation, refreshTimer>>
  BY <1>7
<1>8. QED
  BY <1>1, <1>2, <1>3, <1>4, <1>5, <1>6, <1>7
     DEF Next, Run, Report, Attempt, vars, Disconnect, SetToken, StartAttempt, ReadToken,
         StoreFirstToken, AttemptFails, SendConnect, ConnectRefused, HandleConnectError,
         TransportFails, CheckReport, InvalidateConnectionState, MoveFrom, AskToken,
         GetTokenReturns, StoreToken, SendRefresh, MayNotStay, NoTeardown, session

\* Every step of the connection keeps FlagTypes.
LEMMA FlagTypesStep ==
  ASSUME FlagTypes, [Next]_vars
  PROVE  FlagTypes'
<1> USE DEF FlagTypes
<1>1. expires' \in BOOLEAN
  BY DEF Next, Run, Report, Attempt, vars, Connect, Disconnect, SetToken, StartAttempt,
         ReadToken, StoreFirstToken, AttemptFails, SendConnect, Connected,
         ConnectRefused, HandleConnectError, TransportFails, CheckReport,
         InvalidateConnectionState, MoveFrom, TimerFires, AskToken, GetTokenReturns,
         StoreToken, SendRefresh, RefreshAnswered, HandleRefreshError, MayNotStay,
         NoTeardown, Teardown, session
<1>2. refreshRequired' \in BOOLEAN
  BY DEF Next, Run, Report, Attempt, vars, Connect, Disconnect, SetToken, StartAttempt,
         ReadToken, StoreFirstToken, AttemptFails, SendConnect, Connected,
         ConnectRefused, HandleConnectError, TransportFails, CheckReport,
         InvalidateConnectionState, MoveFrom, TimerFires, AskToken, GetTokenReturns,
         StoreToken, RefreshRequiredAfterStore, SendRefresh, RefreshAnswered,
         HandleRefreshError, MayNotStay, tokenVars
<1>3. strayed' \in BOOLEAN
  BY DEF Next, Run, Report, Attempt, vars, Connect, Disconnect, SetToken, StartAttempt,
         ReadToken, StoreFirstToken, AttemptFails, SendConnect, Connected,
         ConnectRefused, HandleConnectError, TransportFails, CheckReport,
         InvalidateConnectionState, MoveFrom, TimerFires, AskToken, GetTokenReturns,
         StoreToken, SendRefresh, RefreshAnswered, HandleRefreshError, MayNotStay,
         history
<1>4. QED
  BY <1>1, <1>2, <1>3

\* Every step of the connection keeps TokenTypes.
LEMMA TokenTypesStep ==
  ASSUME TokenTypes, FlowTypes, AttemptTypes, [Next]_vars
  PROVE  TokenTypes'
<1> USE DEF TokenTypes
<1>1. ASSUME SetToken PROVE TokenTypes'
  BY <1>1, TokenRecords DEF SetToken, history
<1>2. ASSUME StoreFirstToken PROVE TokenTypes'
  BY <1>2 DEF StoreFirstToken, AttemptTypes, history
<1>3. ASSUME NEW r \in reports, InvalidateConnectionState(r) PROVE TokenTypes'
  BY <1>3, TokenRecords DEF InvalidateConnectionState
<1>4. ASSUME NEW f \in Flows, StoreToken(f) PROVE TokenTypes'
  BY <1>4 DEF StoreToken, FlowTypes, tokenVars, history
<1>5. CASE UNCHANGED <<token, invalidations>>
  BY <1>5
<1>6. QED
  BY <1>1, <1>2, <1>3, <1>4, <1>5
     DEF Next, Run, Report, Attempt, vars, Connect, Disconnect, StartAttempt, ReadToken,
         AttemptFails, SendConnect, Connected, ConnectRefused, HandleConnectError,
         TransportFails, CheckReport, MoveFrom, TimerFires, AskToken, GetTokenReturns,
         SendRefresh, RefreshAnswered, HandleRefreshError, MayNotStay, tokenVars, history

\* A step of the attempt keeps AttemptTypes.
LEMMA AttemptTypesOwnStep ==
  ASSUME AttemptTypes, TokenTypes, Attempt
  PROVE  AttemptTypes'
<1> USE DEF AttemptTypes
<1>1. UNCHANGED invalidations
  BY DEF Attempt, StartAttempt, ReadToken, StoreFirstToken, AttemptFails, SendConnect,
         Connected, ConnectRefused, HandleConnectError, history
<1>2. NoAttempt \in [phase : AttemptPhases, token : ConnTokens] /\ NoAttempt.token.at = 0
  BY TokenRecords DEF NoAttempt, AttemptPhases
<1>3. ASSUME NEW phase \in AttemptPhases, NEW x \in {attempt, NoAttempt}
      PROVE  /\ [x EXCEPT !.phase = phase] \in [phase : AttemptPhases, token : ConnTokens]
             /\ [x EXCEPT !.phase = phase].token = x.token
  BY <1>2
<1>4. \A phase \in {"reading", "dial", "await", "idle", "expired", "leaving"} :
        phase \in AttemptPhases
  BY DEF AttemptPhases
<1>5. ASSUME StartAttempt PROVE AttemptTypes'
  BY <1>1, <1>5, <1>2, <1>3, <1>4 DEF StartAttempt, TokenTypes, None
<1>6. ASSUME ReadToken PROVE AttemptTypes'
  <2>1. /\ [phase |-> "asking", token |-> Token("GetToken", invalidations)]
             \in [phase : AttemptPhases, token : ConnTokens]
        /\ [phase |-> "asking", token |-> Token("GetToken", invalidations)].token.at
             = invalidations
    BY TokenRecords DEF TokenTypes, AttemptPhases
  <2>2. QED
    BY <1>1, <1>6, <1>3, <1>4, <2>1 DEF ReadToken, TokenTypes
<1>7. ASSUME StoreFirstToken PROVE AttemptTypes'
  BY <1>1, <1>7, <1>2, <1>3, <1>4 DEF StoreFirstToken, TokenTypes
<1>8. ASSUME AttemptFails PROVE AttemptTypes'
  BY <1>1, <1>8, <1>2
     DEF Teardown, TimerAfterTeardown, Off, None, AttemptFails, TokenTypes
<1>9. ASSUME SendConnect PROVE AttemptTypes'
  BY <1>1, <1>9, <1>2, <1>3, <1>4 DEF SendConnect, TokenTypes
<1>10. ASSUME Connected PROVE AttemptTypes'
  BY <1>1, <1>10, <1>2 DEF Connected, TokenTypes
<1>11. ASSUME ConnectRefused PROVE AttemptTypes'
  BY <1>1, <1>11, <1>3, <1>4 DEF ConnectRefused, TokenTypes, None
<1>12. ASSUME HandleConnectError PROVE AttemptTypes'
  BY <1>1, <1>12, <1>2
     DEF Teardown, TimerAfterTeardown, Off, None, HandleConnectError, TokenTypes
<1>13. QED
  BY <1>5, <1>6, <1>7, <1>8, <1>9, <1>10, <1>11, <1>12 DEF Attempt

\* Every step of the connection keeps AttemptTypes.
LEMMA AttemptTypesStep ==
  ASSUME AttemptTypes, TokenTypes, [Next]_vars
  PROVE  AttemptTypes'
<1>1. ASSUME Attempt PROVE AttemptTypes'
  BY <1>1, AttemptTypesOwnStep
<1>2. ASSUME NEW target, Teardown(target), UNCHANGED invalidations PROVE AttemptTypes'
  BY <1>2, TokenRecords
     DEF Teardown, TimerAfterTeardown, Off, None, AttemptTypes, TokenTypes, NoAttempt,
         AttemptPhases
<1>3. ASSUME UNCHANGED <<attempt, transport, transports>>,
             UNCHANGED invalidations \/ invalidations' = invalidations + 1
      PROVE  AttemptTypes'
  BY <1>3 DEF AttemptTypes, TokenTypes, ConnTokens
<1>4. QED
  BY <1>1, <1>2, <1>3
     DEF Next, Run, Report, vars, Connect, Disconnect, SetToken, TransportFails,
         CheckReport, InvalidateConnectionState, MoveFrom, TimerFires, AskToken,
         GetTokenReturns, StoreToken, SendRefresh, RefreshAnswered, HandleRefreshError,
         MayNotStay, NoTeardown, attemptVars, history

\* Every step of the connection keeps FlowTypes.
LEMMA FlowTypesStep ==
  ASSUME SessionTypes, TokenTypes, FlowTypes, [Next]_vars
  PROVE  FlowTypes'
<1> USE DEF SessionTypes, TokenTypes, ConnTokens, FlowTypes, Phases, NoToken, Idle, Off
<1>1. ASSUME NEW target, Teardown(target), UNCHANGED <<flow, invalidations>>
      PROVE  FlowTypes'
  BY <1>1 DEF Teardown, TimerAfterTeardown, Off, None
<1>2. ASSUME NEW r \in reports, InvalidateConnectionState(r) PROVE FlowTypes'
  BY <1>2 DEF InvalidateConnectionState, session, history
<1>3. CASE UNCHANGED <<flow, generation, invalidations>>
  BY <1>3
<1>4. ASSUME NEW f \in Flows, TimerFires(f) PROVE FlowTypes'
  BY <1>4 DEF TimerFires, Idle, session, history
<1>5. ASSUME NEW f \in Flows, AskToken(f) PROVE FlowTypes'
  <2>1. CASE IsRefreshCurrentLocked(flow[f].generation)
    <3>1. /\ flow' = [flow EXCEPT ![f].phase = "asking",
                                  ![f].token = Token("GetToken", invalidations)]
          /\ UNCHANGED <<generation, invalidations>>
      BY <1>5, <2>1 DEF AskToken, session, history
    <3>2. /\ Token("GetToken", invalidations)
               \in ConnTokens
          /\ Token("GetToken", invalidations).at = invalidations
      BY DEF Token
    <3>3. /\ \A g \in Flows : g # f => flow'[g] = flow[g]
          /\ flow'[f].phase = "asking" /\ flow'[f].generation = flow[f].generation
          /\ flow'[f].token = Token("GetToken", invalidations)
      BY <3>1
    <3>4. flow'[f] \in [phase : Phases, generation : Nat, token : ConnTokens]
      <4> HIDE DEF ConnTokens, Phases
      <4>1. flow'[f] = [phase |-> flow'[f].phase, generation |-> flow'[f].generation,
                        token |-> flow'[f].token]
        BY <3>1
      <4>2. "asking" \in Phases
        BY DEF Phases
      <4>3. QED
        BY <3>2, <3>3, <4>1, <4>2
    <3>5. flow' \in [Flows -> [phase : Phases, generation : Nat, token : ConnTokens]]
      BY <3>1, <3>3, <3>4
    <3>6. QED
      BY <3>1, <3>2, <3>3, <3>5
  <2>2. CASE ~IsRefreshCurrentLocked(flow[f].generation)
    BY <1>5, <2>2 DEF AskToken, Idle, session, history
  <2>3. QED
    BY <2>1, <2>2
<1>6. ASSUME NEW f \in Flows, GetTokenReturns(f) PROVE FlowTypes'
  <2>1. /\ UNCHANGED <<generation, invalidations>>
        /\ flow' = [flow EXCEPT ![f] = Idle]
             \/ \E p \in {"storing", "failed", "leaving"} : flow' = [flow EXCEPT ![f].phase = p]
    BY <1>6 DEF GetTokenReturns, Enter, Ends, AfterTemporaryError, session, history
  <2>2. QED
    BY <2>1
<1>7. ASSUME NEW f \in Flows, StoreToken(f) PROVE FlowTypes'
  <2>1. /\ UNCHANGED <<generation, invalidations>>
        /\ flow' = [flow EXCEPT ![f] = Idle]
             \/ \E p \in {"sending"} : flow' = [flow EXCEPT ![f].phase = p]
    BY <1>7 DEF StoreToken, Enter, Ends, session, history
  <2>2. QED
    BY <2>1
<1>8. ASSUME NEW f \in Flows, SendRefresh(f) PROVE FlowTypes'
  <2>1. /\ UNCHANGED <<generation, invalidations>>
        /\ flow' = [flow EXCEPT ![f] = Idle]
             \/ \E p \in {"sent"} : flow' = [flow EXCEPT ![f].phase = p]
    BY <1>8 DEF SendRefresh, Enter, Ends, session, history
  <2>2. QED
    BY <2>1
<1>9. ASSUME NEW f \in Flows, RefreshAnswered(f) PROVE FlowTypes'
  <2>1. /\ UNCHANGED <<generation, invalidations>>
        /\ flow' = [flow EXCEPT ![f] = Idle]
             \/ \E p \in {"failed", "leaving"} : flow' = [flow EXCEPT ![f].phase = p]
    BY <1>9 DEF RefreshAnswered, Enter, Ends, AfterTemporaryError, history
  <2>2. QED
    BY <2>1
<1>10. ASSUME NEW f \in Flows, HandleRefreshError(f) PROVE FlowTypes'
  BY <1>10 DEF HandleRefreshError, IsRefreshCurrentLocked, Ends, Idle, session, history
<1>11. ASSUME NEW f \in Flows, MayNotStay(f) PROVE FlowTypes'
  <2>1. /\ flow' = [flow EXCEPT ![f] = Idle] /\ UNCHANGED invalidations
        /\ generation' \in {generation, generation + 1}
    BY <1>11
       DEF Teardown, TimerAfterTeardown, Off, None, MayNotStay, Ends, NoTeardown, session,
           history
  <2>2. QED
    BY <2>1
<1>12. QED
  BY <1>1, <1>2, <1>3, <1>4, <1>5, <1>6, <1>7, <1>8, <1>9, <1>10, <1>11
     DEF Next, Run, Report, Attempt, StartAttempt, ReadToken, StoreFirstToken,
         AttemptFails, SendConnect, Connected, ConnectRefused, HandleConnectError, vars,
         Connect, Disconnect, SetToken, TransportFails, CheckReport, MoveFrom, NoTeardown,
         session, history

\* Every step of the connection keeps ReportTypes.
LEMMA ReportTypesStep ==
  ASSUME AttemptTypes, ReportTypes, [Next]_vars
  PROVE  ReportTypes'
<1> USE DEF AttemptTypes, ReportTypes, None
<1>1. ASSUME NEW kind \in {"lost", "invalidated"}, Reported(kind), transport # None,
             UNCHANGED transports
      PROVE  ReportTypes'
  BY <1>1 DEF Reported
<1>2. ASSUME NEW r \in reports, NEW kind \in {"lost", "checked"}, UNCHANGED transports,
             Becomes(r, kind) \/ Drop(r)
      PROVE  ReportTypes'
  BY <1>2 DEF Becomes, Drop
<1>3. CASE UNCHANGED reports /\ transports' \in {transports, transports + 1}
  BY <1>3
<1>4. ASSUME Attempt PROVE ReportTypes'
  BY <1>3, <1>4
     DEF Teardown, TimerAfterTeardown, Off, None, Attempt, StartAttempt, ReadToken,
         StoreFirstToken, AttemptFails, SendConnect, Connected, ConnectRefused,
         HandleConnectError
<1>5. ASSUME NEW r \in reports, Report(r) PROVE ReportTypes'
  BY <1>2, <1>5
     DEF Teardown, TimerAfterTeardown, Off, None, Report, CheckReport,
         InvalidateConnectionState, MoveFrom, NoTeardown, attemptVars
<1>6. ASSUME NEW f \in Flows, SendRefresh(f) PROVE ReportTypes'
  BY <1>1, <1>3, <1>6 DEF SendRefresh, attemptVars
<1>7. ASSUME NEW f \in Flows, MayNotStay(f) PROVE ReportTypes'
  BY <1>3, <1>7
     DEF Teardown, TimerAfterTeardown, Off, None, MayNotStay, NoTeardown, attemptVars
<1>8. QED
  BY <1>1, <1>3, <1>4, <1>5, <1>6, <1>7
     DEF Teardown, TimerAfterTeardown, Off, None, Next, Run, vars, Connect, Disconnect,
         SetToken, TransportFails, TimerFires, AskToken, GetTokenReturns, StoreToken,
         RefreshAnswered, HandleRefreshError, attemptVars

\* Every step of the connection keeps BudgetTypes.
LEMMA BudgetTypesStep ==
  ASSUME BudgetTypes, [Next]_vars
  PROVE  BudgetTypes'
<1> USE DEF BudgetTypes
<1>1. CASE ApplicationCalls
  BY <1>1 DEF ApplicationCalls
<1>2. CASE Fault
  BY <1>2 DEF Fault
<1>3. CASE UNCHANGED <<calls, faults>>
  BY <1>3
<1>4. QED
  BY <1>1, <1>2, <1>3
     DEF Next, Run, Report, Attempt, StartAttempt, ReadToken, StoreFirstToken,
         AttemptFails, SendConnect, Connected, ConnectRefused, HandleConnectError, vars,
         Connect, Disconnect, SetToken, TransportFails, CheckReport,
         InvalidateConnectionState, MoveFrom, TimerFires, AskToken, GetTokenReturns,
         StoreToken, SendRefresh, RefreshAnswered, HandleRefreshError, MayNotStay,
         NoFault, budget

\* Every step keeps AttemptInv: a session begins with the transport of its attempt, and
\* only a teardown takes it.
LEMMA AttemptStep ==
  ASSUME AttemptTypes, AttemptInv, [Next]_vars
  PROVE  AttemptInv'
<1> USE DEF AttemptInv, None
<1>1. ASSUME NEW target \in {"connecting", "disconnected"}, Teardown(target)
      PROVE  AttemptInv'
  BY <1>1, TokenRecords DEF Teardown, TimerAfterTeardown, Off, None
<1>2. CASE UNCHANGED <<state, attempt, transport>>
  BY <1>2
<1>3. ASSUME Connect PROVE AttemptInv'
  BY <1>3 DEF Connect, attemptVars
<1>4. ASSUME Attempt PROVE AttemptInv'
  <2>1. attempt.phase # "idle" => state = "connecting"
    OBVIOUS
  <2>2. \A phase \in {"reading", "dial", "await", "idle", "expired", "leaving"} :
           /\ [attempt EXCEPT !.phase = phase].phase = phase
           /\ [NoAttempt EXCEPT !.phase = phase].phase = phase
    BY DEF AttemptTypes, NoAttempt
  <2>3. ASSUME StartAttempt \/ ReadToken \/ StoreFirstToken PROVE AttemptInv'
    <3>1. state' = "connecting"
      BY <2>1, <2>3 DEF StartAttempt, ReadToken, StoreFirstToken, session
    <3>2. attempt'.phase \in {"reading", "asking", "dial"}
      <4>1. CASE StartAttempt \/ StoreFirstToken
        BY <2>2, <4>1 DEF StartAttempt, StoreFirstToken
      <4>2. CASE attempt' = [attempt EXCEPT !.phase = "dial"]
        BY <2>2, <4>2
      <4>3. CASE attempt' = [phase |-> "asking", token |-> Token("GetToken", invalidations)]
        BY <4>3
      <4>4. QED
        BY <2>3, <4>1, <4>2, <4>3 DEF ReadToken
    <3>3. QED
      BY <3>1, <3>2
  <2>4. ASSUME AttemptFails \/ HandleConnectError PROVE AttemptInv'
    BY <1>1, <2>1, <2>4, TokenRecords DEF AttemptFails, HandleConnectError, session
  <2>5. ASSUME SendConnect PROVE AttemptInv'
    BY <2>1, <2>2, <2>5, TokenRecords DEF SendConnect, session, AttemptTypes
  <2>6. ASSUME Connected PROVE AttemptInv'
    BY <2>1, <2>6, TokenRecords DEF Connected
  <2>7. ASSUME ConnectRefused PROVE AttemptInv'
    BY <2>1, <2>2, <2>7 DEF ConnectRefused, session
  <2>8. QED
    BY <1>4, <2>3, <2>4, <2>5, <2>6, <2>7 DEF Attempt
<1>5. QED
  BY <1>1, <1>2, <1>3, <1>4
     DEF Next, Run, Report, vars, Disconnect, SetToken, TransportFails, CheckReport,
         InvalidateConnectionState, MoveFrom, TimerFires, AskToken, GetTokenReturns,
         StoreToken, SendRefresh, RefreshAnswered, HandleRefreshError, MayNotStay,
         NoTeardown, session, attemptVars

\* Every step of the connection hands its refresh on or ends it: it keeps RefreshInv.
LEMMA RefreshStep ==
  ASSUME SessionTypes, FlowTypes, AttemptInv, RefreshInv, [Next]_vars
  PROVE  RefreshInv'
<1> USE DEF SessionTypes, FlowTypes, RefreshInv, Runs, Off, Idle
<1>1. ASSUME Connect PROVE RefreshInv'
  BY <1>1 DEF Connect
<1>2. ASSUME NEW target, Teardown(target), UNCHANGED flow PROVE RefreshInv'
  BY <1>2 DEF Teardown, TimerAfterTeardown, Off, None
<1>3. ASSUME Connected PROVE RefreshInv'
  BY <1>3 DEF Connected, ScheduleRefresh, AttemptInv
<1>4. CASE UNCHANGED <<state, generation, refreshTimer, flow>>
  BY <1>4
<1>5. ASSUME NEW f \in Flows, TimerFires(f) PROVE RefreshInv'
  BY <1>5 DEF TimerFires, Idle, session
<1>6. ASSUME NEW f \in Flows, AskToken(f) PROVE RefreshInv'
  BY <1>6 DEF AskToken, IsRefreshCurrentLocked, Token, Idle, session
<1>7. ASSUME NEW f \in Flows, GetTokenReturns(f) PROVE RefreshInv'
  BY <1>7
     DEF GetTokenReturns, IsRefreshCurrentLocked, Enter, Ends, AfterTemporaryError, Idle,
         session
<1>8. ASSUME NEW f \in Flows, StoreToken(f) PROVE RefreshInv'
  BY <1>8 DEF StoreToken, IsRefreshCurrentLocked, Enter, Ends, Idle, session
<1>9. ASSUME NEW f \in Flows, SendRefresh(f) PROVE RefreshInv'
  BY <1>9 DEF SendRefresh, Enter, Ends, Idle, session
<1>10. ASSUME NEW f \in Flows, RefreshAnswered(f) PROVE RefreshInv'
  BY <1>10
     DEF RefreshAnswered, IsRefreshCurrentLocked, Enter, Ends, Idle, AfterTemporaryError,
         ScheduleRefresh, session
<1>11. ASSUME NEW f \in Flows, HandleRefreshError(f) PROVE RefreshInv'
  BY <1>11
     DEF HandleRefreshError, IsRefreshCurrentLocked, Ends, Idle, ScheduleRefresh, session
<1>12. ASSUME NEW f \in Flows, MayNotStay(f) PROVE RefreshInv'
  BY <1>12
     DEF Teardown, TimerAfterTeardown, Off, None, MayNotStay, IsRefreshCurrentLocked,
         Ends, Idle, NoTeardown, session
<1>13. QED
  BY <1>1, <1>2, <1>3, <1>4, <1>5, <1>6, <1>7, <1>8, <1>9, <1>10, <1>11, <1>12
     DEF Next, Run, Report, Attempt, vars, Disconnect, SetToken, StartAttempt, ReadToken,
         StoreFirstToken, AttemptFails, SendConnect, ConnectRefused, HandleConnectError,
         TransportFails, CheckReport, InvalidateConnectionState, MoveFrom, NoTeardown,
         session

\* A step of the attempt keeps FreshInv.
LEMMA FreshOwnStep ==
  ASSUME SessionTypes, TokenTypes, FlowTypes, AttemptTypes, AttemptInv, RefreshInv, FreshInv,
         Attempt
  PROVE  FreshInv'
<1> DEFINE FlowsFresh ==
             \A f \in Flows :
               flow[f].phase \in {"asking", "storing"} /\ flow[f].generation = generation =>
                 refreshRequired \/ Fresh(flow[f].token)
<1>1. UNCHANGED <<flow, invalidations>>
  BY DEF Attempt, StartAttempt, ReadToken, StoreFirstToken, AttemptFails, SendConnect,
         Connected, ConnectRefused, HandleConnectError, history
<1>2. \A f \in Flows : flow[f].generation \in Nat /\ flow[f].generation <= generation
  BY DEF FlowTypes
<1>3. \A t : Fresh(t)' <=> t.from = "app" \/ (t.from = "GetToken" /\ t.at = invalidations)
  BY <1>1 DEF Fresh
<1>4. generation' \in {generation, generation + 1}
  BY DEF Teardown, TimerAfterTeardown, Off, None, Attempt, StartAttempt, ReadToken,
         StoreFirstToken, AttemptFails, SendConnect, Connected, ConnectRefused,
         HandleConnectError, session
<1>5. FlowsFresh
  BY DEF FreshInv
<1>6. (state # "connected" => \A f \in Flows : ~Runs(f)) /\ state = "connecting"
  BY DEF Attempt, StartAttempt, ReadToken, StoreFirstToken, AttemptFails, SendConnect,
         Connected, ConnectRefused, HandleConnectError, RefreshInv, AttemptInv
<1>7. FlowsFresh'
  BY <1>1, <1>2, <1>4, <1>6 DEF Runs, SessionTypes
<1>8. \A phase \in {"reading", "dial", "await", "idle", "expired", "leaving"} :
         /\ [attempt EXCEPT !.phase = phase].phase = phase
         /\ [NoAttempt EXCEPT !.phase = phase].phase = phase
  BY DEF AttemptTypes, NoAttempt
<1> DEFINE Marked == strayed \/ refreshRequired \/ token = NoToken \/ Fresh(token)
           Asked == attempt.phase = "asking" => strayed \/ Fresh(attempt.token)
           Dialed == attempt.phase = "dial" => strayed \/ Fresh(token)
<1>9. Marked /\ Asked /\ Dialed
  BY DEF FreshInv
<1>10. ASSUME Teardown("disconnected"), UNCHANGED <<tokenVars, history>>
       PROVE  Marked' /\ Asked' /\ Dialed'
  BY <1>1, <1>9, <1>10, TokenRecords
     DEF Teardown, TimerAfterTeardown, Off, None, tokenVars, history, Fresh
<1>11. Marked' /\ Asked' /\ Dialed'
  <2>1. ASSUME StartAttempt PROVE Marked' /\ Asked' /\ Dialed'
    BY <1>8, <1>9, <2>1 DEF StartAttempt, tokenVars, history, Fresh
  <2>2. ASSUME ReadToken PROVE Marked' /\ Asked' /\ Dialed'
    <3>1. CASE refreshRequired \/ token = NoToken
      <4>1. attempt' = [phase |-> "asking", token |-> Token("GetToken", invalidations)]
        BY <2>2, <3>1 DEF ReadToken
      <4>2. attempt'.phase = "asking" /\ attempt'.token = Token("GetToken", invalidations)
        BY <4>1
      <4>3. Fresh(attempt'.token) /\ (Fresh(attempt.token))' = Fresh(attempt'.token)
        BY <1>1, <4>2, TokenRecords DEF Fresh, TokenTypes
      <4>4. UNCHANGED <<token, refreshRequired>>
        BY <2>2 DEF ReadToken, tokenVars
      <4>5. Marked' /\ Dialed'
        BY <3>1, <4>2, <4>4
      <4>6. Asked'
        BY <4>3
      <4>7. QED
        BY <4>5, <4>6
    <3>2. CASE ~(refreshRequired \/ token = NoToken)
      BY <1>1, <1>8, <1>9, <2>2, <3>2 DEF ReadToken, tokenVars, Fresh
    <3>3. QED
      BY <3>1, <3>2
  <2>3. ASSUME StoreFirstToken PROVE Marked' /\ Asked' /\ Dialed'
    BY <1>1, <1>8, <1>9, <2>3 DEF StoreFirstToken, history, Fresh
  <2>4. ASSUME AttemptFails PROVE Marked' /\ Asked' /\ Dialed'
    BY <1>1, <1>9, <1>10, <2>4, TokenRecords DEF AttemptFails, tokenVars, history, Fresh
  <2>5. ASSUME SendConnect PROVE Marked' /\ Asked' /\ Dialed'
    BY <1>1, <1>8, <1>9, <2>5, TokenRecords DEF SendConnect, history, Fresh
  <2>6. ASSUME Connected PROVE Marked' /\ Asked' /\ Dialed'
    BY <1>1, <1>9, <2>6, TokenRecords DEF Connected, tokenVars, history, Fresh
  <2>7. ASSUME ConnectRefused PROVE Marked' /\ Asked' /\ Dialed'
    BY <1>1, <1>8, <1>9, <2>7 DEF ConnectRefused, tokenVars, history, Fresh
  <2>8. ASSUME HandleConnectError PROVE Marked' /\ Asked' /\ Dialed'
    BY <1>1, <1>9, <2>8, TokenRecords
       DEF Teardown, TimerAfterTeardown, Off, None, HandleConnectError, tokenVars,
           history, Fresh
  <2>9. QED
    BY <2>1, <2>2, <2>3, <2>4, <2>5, <2>6, <2>7, <2>8 DEF Attempt
<1>12. QED
  BY <1>7, <1>11 DEF FreshInv

\* Every step of the connection keeps FreshInv: an invalidation marks what comes from
\* before it, or strays.
LEMMA FreshStep ==
  ASSUME SessionTypes, TokenTypes, FlowTypes, AttemptTypes, AttemptInv, RefreshInv, FreshInv,
         [Next]_vars
  PROVE  FreshInv'
<1> USE DEF SessionTypes, FlowTypes, FreshInv, Fresh, Idle
<1>1. ASSUME Attempt PROVE FreshInv'
  BY <1>1, FreshOwnStep
<1>2. ASSUME NEW target, Teardown(target), UNCHANGED <<flow, tokenVars, history>>
      PROVE  FreshInv'
  BY <1>2, TokenRecords DEF Teardown, TimerAfterTeardown, Off, None, tokenVars, history
<1>3. ASSUME SetToken PROVE FreshInv'
  BY <1>3, TokenRecords DEF SetToken, TokenTypes, session, attemptVars, history
<1>4. ASSUME NEW r \in reports, InvalidateConnectionState(r) PROVE FreshInv'
  BY <1>4 DEF InvalidateConnectionState, session, attemptVars
<1>5. CASE UNCHANGED <<session, attemptVars, flow, tokenVars, history>>
  BY <1>5 DEF session, attemptVars, tokenVars, history
<1>6. ASSUME NEW f \in Flows, UNCHANGED <<generation, attemptVars, tokenVars, history>>,
             flow' = [flow EXCEPT ![f] = Idle] \/
               \E phase \in {"sending", "sent", "failed", "leaving"} :
                 flow' = [flow EXCEPT ![f].phase = phase]
      PROVE  FreshInv'
  BY <1>6 DEF attemptVars, tokenVars, history
<1>7. ASSUME NEW f \in Flows, TimerFires(f) PROVE FreshInv'
  BY <1>7 DEF TimerFires, session, attemptVars, tokenVars, history
<1>8. ASSUME NEW f \in Flows, AskToken(f) PROVE FreshInv'
  <2>1. /\ \A g \in Flows : g # f => flow'[g] = flow[g]
        /\ flow'[f].phase = "asking" => flow'[f].token = Token("GetToken", invalidations)
        /\ flow'[f].phase \in {"idle", "asking"}
    BY <1>8 DEF AskToken, Token
  <2>2. Fresh(Token("GetToken", invalidations))
    BY TokenRecords DEF TokenTypes
  <2>3. UNCHANGED <<generation, attempt, token, refreshRequired, invalidations, strayed>>
    BY <1>8 DEF AskToken, session, attemptVars, tokenVars, history
  <2>4. QED
    BY <2>1, <2>2, <2>3
<1>9. ASSUME NEW f \in Flows, GetTokenReturns(f) PROVE FreshInv'
  <2>1. UNCHANGED <<generation, attempt, token, refreshRequired, invalidations, strayed>>
    BY <1>9 DEF GetTokenReturns, session, attemptVars, tokenVars, history
  <2>2. /\ flow[f].phase = "asking"
        /\ flow' = [flow EXCEPT ![f] = Idle] \/ \E p \in {"storing", "failed", "leaving"} :
             flow' = [flow EXCEPT ![f].phase = p]
    BY <1>9 DEF GetTokenReturns, Enter, Ends, AfterTemporaryError
  <2>3. /\ \A g \in Flows : g # f => flow'[g] = flow[g]
        /\ flow'[f].phase = "storing" =>
             flow'[f].token = flow[f].token /\ flow'[f].generation = flow[f].generation
        /\ flow'[f].phase # "asking"
    BY <2>2
  <2>4. QED
    BY <2>1, <2>2, <2>3
<1>10. ASSUME NEW f \in Flows, StoreToken(f) PROVE FreshInv'
  <2>1. /\ UNCHANGED <<generation, attempt, refreshRequired, invalidations, strayed>>
        /\ flow' = [flow EXCEPT ![f] = Idle] \/ flow' = [flow EXCEPT ![f].phase = "sending"]
    BY <1>10
       DEF StoreToken, Enter, Ends, RefreshRequiredAfterStore, session, attemptVars,
           tokenVars, history
  <2>2. /\ \A g \in Flows : g # f => flow'[g] = flow[g]
        /\ flow'[f].phase \in {"idle", "sending"}
    BY <2>1
  <2>3. \/ UNCHANGED token
        \/ /\ token' = flow[f].token /\ (refreshRequired \/ Fresh(flow[f].token))
           /\ attempt.phase = "idle"
    BY <1>10
       DEF StoreToken, IsRefreshCurrentLocked, AttemptInv, tokenVars
  <2>4. QED
    BY <2>1, <2>2, <2>3
<1>11. ASSUME NEW f \in Flows, SendRefresh(f) \/ RefreshAnswered(f) \/ HandleRefreshError(f)
       PROVE  FreshInv'
  BY <1>6, <1>11
     DEF SendRefresh, RefreshAnswered, HandleRefreshError, AfterTemporaryError, Enter,
         Ends, session
<1>12. ASSUME NEW f \in Flows, MayNotStay(f) PROVE FreshInv'
  <2>1. /\ flow' = [flow EXCEPT ![f] = Idle] /\ UNCHANGED <<tokenVars, history>>
        /\ \/ Teardown("disconnected")
           \/ UNCHANGED <<generation, attemptVars>>
    BY <1>12 DEF MayNotStay, Ends, NoTeardown, session
  <2>2. \/ generation' = generation + 1 /\ attempt' = NoAttempt
        \/ UNCHANGED <<generation, attempt>>
    BY <2>1 DEF Teardown, TimerAfterTeardown, Off, None, attemptVars
  <2>3. QED
    BY <2>1, <2>2, TokenRecords DEF tokenVars, history
<1>13. QED
  BY <1>1, <1>2, <1>3, <1>4, <1>5, <1>7, <1>8, <1>9, <1>10, <1>11, <1>12
     DEF Next, Run, Report, vars, Connect, Disconnect, TransportFails, CheckReport,
         MoveFrom, NoTeardown, session, attemptVars, tokenVars, history

\* A report that only changes its kind still ends the session it was of.
LEMMA StillEnding ==
  ASSUME NEW r \in reports, NEW kind, Becomes(r, kind) \/ (Drop(r) /\ r.transport # transport),
         UNCHANGED transport, SessionEnding, ReportTypes
  PROVE  SessionEnding'
<1>1. PICK x \in reports : x.transport = transport
  BY DEF SessionEnding
<1>2. CASE x # r
  BY <1>1, <1>2 DEF Becomes, Drop, SessionEnding
<1>3. CASE x = r
  <2>1. [r EXCEPT !.kind = kind] \in reports'
    BY <1>1, <1>3 DEF Becomes
  <2>2. [r EXCEPT !.kind = kind].transport = r.transport
    BY DEF ReportTypes
  <2>3. QED
    BY <1>1, <1>3, <2>1, <2>2 DEF SessionEnding
<1>4. QED
  BY <1>2, <1>3

\* No step of the connection leaves an expiring token to nobody.
LEMMA WorkStep ==
  ASSUME SessionTypes, FlowTypes, ReportTypes, AttemptInv, RefreshInv, RefreshHasWork,
         [Next]_vars
  PROVE  RefreshHasWork'
<1> USE DEF RefreshHasWork
<1>1. CASE state' # "connected"
  BY <1>1
<1>2. ASSUME NEW target \in {"connecting", "disconnected"}, Teardown(target)
      PROVE  RefreshHasWork'
  BY <1>2 DEF Teardown, TimerAfterTeardown, Off, None
<1>3. ASSUME Connected PROVE RefreshHasWork'
  BY <1>3 DEF Connected, ScheduleRefresh
<1>4. ASSUME UNCHANGED <<state, expires, generation, refreshTimer, flow>>,
             SessionEnding => SessionEnding'
      PROVE  RefreshHasWork'
  BY <1>4 DEF Refreshing
<1>5. ASSUME Attempt PROVE RefreshHasWork'
  <2>1. state = "connecting"
    BY <1>5
       DEF Attempt, StartAttempt, ReadToken, StoreFirstToken, AttemptFails, SendConnect,
           Connected, ConnectRefused, HandleConnectError, AttemptInv
  <2>2. Connected \/ state' # "connected"
    BY <1>5, <2>1
       DEF Teardown, TimerAfterTeardown, Off, None, Attempt, StartAttempt, ReadToken,
           StoreFirstToken, AttemptFails, SendConnect, ConnectRefused, HandleConnectError,
           session
  <2>3. QED
    BY <1>1, <1>3, <2>2
<1>6. ASSUME NEW r \in reports, Report(r) PROVE RefreshHasWork'
  <2>1. ASSUME CheckReport(r) \/ InvalidateConnectionState(r) PROVE RefreshHasWork'
    <3>1. UNCHANGED <<state, expires, generation, refreshTimer, flow, transport>>
      BY <2>1 DEF CheckReport, InvalidateConnectionState, session, attemptVars
    <3>2. Becomes(r, "checked") \/ Becomes(r, "lost") \/ (Drop(r) /\ r.transport # transport)
      BY <2>1 DEF CheckReport, InvalidateConnectionState
    <3>3. QED
      BY <1>4, <3>1, <3>2, StillEnding
  <2>2. CASE MoveFrom(r) /\ r.transport = transport
    BY <1>2, <2>2 DEF MoveFrom
  <2>3. CASE MoveFrom(r) /\ r.transport # transport
    <3>1. /\ UNCHANGED <<state, expires, generation, refreshTimer, flow, transport>>
          /\ Drop(r)
      BY <2>3 DEF MoveFrom, NoTeardown, session, attemptVars
    <3>2. QED
      BY <1>4, <2>3, <3>1, StillEnding
  <2>4. QED
    BY <1>6, <2>1, <2>2, <2>3 DEF Report
<1>7. ASSUME NEW kind, TransportFails(kind) PROVE RefreshHasWork'
  BY <1>4, <1>7 DEF TransportFails, Reported, SessionEnding, session, attemptVars
<1>8. ASSUME NEW f \in Flows, TimerFires(f) PROVE RefreshHasWork'
  <2>1. flow'[f].phase = "started" /\ flow'[f].generation = refreshTimer
    BY <1>8 DEF TimerFires, Idle, FlowTypes
  <2>2. refreshTimer = generation /\ UNCHANGED generation
    BY <1>8 DEF TimerFires, RefreshInv, session
  <2>3. QED
    BY <2>1, <2>2 DEF Refreshing
<1>9. ASSUME NEW f \in Flows, NEW phase \in Phases \ {"idle"}, Enter(f, phase),
             UNCHANGED <<state, expires, generation, refreshTimer, transport, reports>>
      PROVE  RefreshHasWork'
  <2>1. /\ \A g \in Flows : g # f => flow'[g] = flow[g]
        /\ flow'[f].phase = phase /\ flow'[f].generation = flow[f].generation
    BY <1>9 DEF Enter, FlowTypes
  <2>2. Refreshing # {} => Refreshing' # {}
    BY <1>9, <2>1 DEF Refreshing
  <2>3. SessionEnding => SessionEnding'
    BY <1>9 DEF SessionEnding
  <2>4. QED
    BY <1>9, <2>2, <2>3
<1>10. ASSUME NEW f \in Flows, Ends(f), ~IsRefreshCurrentLocked(flow[f].generation),
             UNCHANGED <<state, expires, generation, refreshTimer, transport, reports>>
       PROVE  RefreshHasWork'
  <2>1. \A g \in Flows : g # f => flow'[g] = flow[g]
    BY <1>10 DEF Ends
  <2>2. state = "connected" /\ Refreshing # {} => Refreshing' # {}
    BY <1>10, <2>1 DEF Refreshing, IsRefreshCurrentLocked
  <2>3. SessionEnding => SessionEnding'
    BY <1>10 DEF SessionEnding
  <2>4. QED
    BY <1>10, <2>2, <2>3
<1>11. ASSUME NEW f \in Flows, AskToken(f) PROVE RefreshHasWork'
  <2>1. UNCHANGED <<state, expires, generation, refreshTimer, transport, reports>>
    BY <1>11 DEF AskToken, session, attemptVars
  <2>2. CASE IsRefreshCurrentLocked(flow[f].generation)
    <3>1. flow'[f].phase = "asking" /\ flow'[f].generation = flow[f].generation
      BY <1>11, <2>2 DEF AskToken, FlowTypes
    <3>2. QED
      BY <2>1, <2>2, <3>1 DEF Refreshing, IsRefreshCurrentLocked
  <2>3. CASE ~IsRefreshCurrentLocked(flow[f].generation)
    BY <1>10, <1>11, <2>1, <2>3 DEF AskToken, Ends
  <2>4. QED
    BY <2>2, <2>3
<1>12. ASSUME NEW f \in Flows, GetTokenReturns(f) \/ StoreToken(f) PROVE RefreshHasWork'
  BY <1>9, <1>10, <1>12
     DEF GetTokenReturns, StoreToken, AfterTemporaryError, Phases, session, attemptVars
<1>13. ASSUME NEW f \in Flows, SendRefresh(f) PROVE RefreshHasWork'
  <2>1. UNCHANGED <<state, expires, generation, refreshTimer, transport>>
    BY <1>13 DEF SendRefresh, session, attemptVars
  <2>2. CASE Enter(f, "sent") /\ UNCHANGED reports
    BY <1>9, <2>1, <2>2 DEF Phases
  <2>3. CASE Reported("lost")
    <3>1. [transport |-> transport, kind |-> "lost"] \in reports'
      BY <2>3 DEF Reported
    <3>2. [transport |-> transport, kind |-> "lost"].transport = transport'
      BY <2>1
    <3>3. QED
      BY <3>1, <3>2 DEF SessionEnding
  <2>4. CASE transport = None
    BY <1>1, <2>1, <2>4 DEF AttemptInv
  <2>5. QED
    BY <1>13, <2>2, <2>3, <2>4 DEF SendRefresh
<1>14. ASSUME NEW f \in Flows, RefreshAnswered(f) PROVE RefreshHasWork'
  <2>1. UNCHANGED <<state, generation, transport, reports>>
    BY <1>14 DEF RefreshAnswered, attemptVars
  <2>2. CASE UNCHANGED <<refreshTimer, expires>> /\ \E p \in {"failed", "leaving"} : Enter(f, p)
    BY <1>9, <2>1, <2>2 DEF Phases
  <2>3. CASE ~expires' \/ refreshTimer' = generation
    BY <2>1, <2>3
  <2>4. CASE /\ UNCHANGED <<refreshTimer, expires>> /\ Ends(f)
             /\ ~IsRefreshCurrentLocked(flow[f].generation)
    BY <1>10, <2>1, <2>4
  <2>5. QED
    BY <1>14, <2>2, <2>3, <2>4 DEF RefreshAnswered, AfterTemporaryError, ScheduleRefresh
<1>15. ASSUME NEW f \in Flows, HandleRefreshError(f) PROVE RefreshHasWork'
  <2>1. UNCHANGED <<state, expires, generation, transport, reports>> /\ Ends(f)
    BY <1>15 DEF HandleRefreshError, session, attemptVars
  <2>2. CASE IsRefreshCurrentLocked(flow[f].generation)
    BY <1>15, <2>1, <2>2 DEF HandleRefreshError, ScheduleRefresh
  <2>3. CASE ~IsRefreshCurrentLocked(flow[f].generation)
    BY <1>10, <1>15, <2>1, <2>3 DEF HandleRefreshError
  <2>4. QED
    BY <2>2, <2>3
<1>16. ASSUME NEW f \in Flows, MayNotStay(f) PROVE RefreshHasWork'
  <2>1. CASE IsRefreshCurrentLocked(flow[f].generation)
    BY <1>2, <1>16, <2>1 DEF MayNotStay
  <2>2. CASE ~IsRefreshCurrentLocked(flow[f].generation)
    BY <1>10, <1>16, <2>2 DEF MayNotStay, NoTeardown, session, attemptVars
  <2>3. QED
    BY <2>1, <2>2
<1>17. CASE UNCHANGED <<state, expires, generation, refreshTimer, flow, transport, reports>>
  BY <1>4, <1>17 DEF SessionEnding
<1>18. QED
  BY <1>1, <1>2, <1>5, <1>6, <1>7, <1>8, <1>11, <1>12, <1>13, <1>14, <1>15, <1>16, <1>17
     DEF Next, Run, vars, Connect, Disconnect, SetToken, session, attemptVars

\* Every step of the subscription keeps SubSessionTypes.
LEMMA SubSessionTypesStep ==
  ASSUME SubSessionTypes, [Sub!Next]_(Sub!vars)
  PROVE  SubSessionTypes'
<1> USE DEF SubSessionTypes, Sub!Off
<1>1. ASSUME Sub!Subscribe PROVE SubSessionTypes'
  BY <1>1 DEF Sub!Subscribe, Sub!session
<1>2. ASSUME Sub!Unsubscribe PROVE SubSessionTypes'
  BY <1>2 DEF Sub!Unsubscribe, Sub!MoveTo, Sub!TimerWhenSessionEnds, Sub!session
<1>3. ASSUME Sub!MoveToSubscribed PROVE SubSessionTypes'
  BY <1>3 DEF Sub!MoveToSubscribed, Sub!ScheduleSubRefresh, Sub!Token, Sub!session
<1>4. ASSUME NEW e \in ends, Sub!HandleUnsubscribe(e) PROVE SubSessionTypes'
  BY <1>4
     DEF Sub!HandleUnsubscribe, Sub!MoveToSubscribing, Sub!MoveTo,
         Sub!TimerWhenSessionEnds, Sub!session
<1>5. ASSUME NEW e \in ends, Sub!HandleDisconnect(e) PROVE SubSessionTypes'
  BY <1>5
     DEF Sub!HandleDisconnect, Sub!Current, Sub!MoveToSubscribing, Sub!MoveTo,
         Sub!TimerWhenSessionEnds, Sub!session
<1>6. ASSUME NEW f \in Flows, Sub!TimerFires(f) PROVE SubSessionTypes'
  BY <1>6 DEF Sub!TimerFires, Sub!UnchangedByRefresh, Sub!session
<1>7. ASSUME NEW f \in Flows, Sub!Rearm(f) PROVE SubSessionTypes'
  BY <1>7
     DEF Sub!Rearm, Sub!MayRearm, Sub!ScheduleSubRefresh, Sub!UnchangedByRefresh,
         Sub!session
<1>8. ASSUME NEW f \in Flows, Sub!UnsubscribeIfRefreshCurrent(f) PROVE SubSessionTypes'
  BY <1>8
     DEF Sub!UnsubscribeIfRefreshCurrent, Sub!IsRefreshCurrentLocked, Sub!MoveTo,
         Sub!TimerWhenSessionEnds, Sub!UnchangedByRefresh, Sub!session
<1>9. CASE UNCHANGED <<subState, subscribedSession, subTimer, subStrayed>>
  BY <1>9
<1>10. QED
  BY <1>1, <1>2, <1>3, <1>4, <1>5, <1>6, <1>7, <1>8, <1>9
     DEF Sub!Next, Sub!Run, Sub!Handle, Sub!vars, Sub!Reconnects, Sub!UnsubscribePushed,
         Sub!ConnectionFails, Sub!AskToken, Sub!GetTokenReturns, Sub!StoreToken,
         Sub!SendSubRefresh, Sub!RefreshAnswered, Sub!UnchangedByRefresh, Sub!session

\* Every step of the subscription keeps SubFlagTypes.
LEMMA SubFlagTypesStep ==
  ASSUME SubFlagTypes, [Sub!Next]_(Sub!vars)
  PROVE  SubFlagTypes'
<1> USE DEF SubFlagTypes
<1>1. ASSUME Sub!Unsubscribe PROVE SubFlagTypes'
  BY <1>1 DEF Sub!Unsubscribe, Sub!MoveTo, Sub!client, Sub!session
<1>2. ASSUME Sub!MoveToSubscribed PROVE SubFlagTypes'
  BY <1>2 DEF Sub!MoveToSubscribed, Sub!Token, Sub!client, Sub!session
<1>3. ASSUME Sub!Reconnects PROVE SubFlagTypes'
  BY <1>3 DEF Sub!Reconnects, Sub!client, Sub!session
<1>4. ASSUME NEW e \in ends, Sub!HandleUnsubscribe(e) PROVE SubFlagTypes'
  BY <1>4
     DEF Sub!HandleUnsubscribe, Sub!MoveToSubscribing, Sub!MoveTo, Sub!client, Sub!session
<1>5. ASSUME NEW e \in ends, Sub!HandleDisconnect(e) PROVE SubFlagTypes'
  BY <1>5
     DEF Sub!HandleDisconnect, Sub!Current, Sub!MoveToSubscribing, Sub!MoveTo, Sub!client,
         Sub!session
<1>6. ASSUME NEW f \in Flows, Sub!RefreshAnswered(f) PROVE SubFlagTypes'
  BY <1>6
     DEF Sub!RefreshAnswered, Sub!IsRefreshCurrentLocked, Sub!UnchangedByRefresh,
         Sub!client, Sub!session
<1>7. ASSUME NEW f \in Flows, Sub!UnsubscribeIfRefreshCurrent(f) PROVE SubFlagTypes'
  BY <1>7
     DEF Sub!UnsubscribeIfRefreshCurrent, Sub!IsRefreshCurrentLocked, Sub!MoveTo,
         Sub!UnchangedByRefresh, Sub!client, Sub!session
<1>8. CASE UNCHANGED <<connected, subExpires>>
  BY <1>8
<1>9. QED
  BY <1>1, <1>2, <1>3, <1>4, <1>5, <1>6, <1>7, <1>8
     DEF Sub!Next, Sub!Run, Sub!Handle, Sub!vars, Sub!Subscribe, Sub!UnsubscribePushed,
         Sub!ConnectionFails, Sub!TimerFires, Sub!AskToken, Sub!GetTokenReturns,
         Sub!StoreToken, Sub!SendSubRefresh, Sub!Rearm, Sub!UnchangedByRefresh,
         Sub!session, Sub!client

\* Every step of the subscription keeps SubTokenTypes.
LEMMA SubTokenTypesStep ==
  ASSUME SubTokenTypes, SubFlowTypes, [Sub!Next]_(Sub!vars)
  PROVE  SubTokenTypes'
<1> USE SubTokenRecords DEF SubTokenTypes, SubFlowTypes
<1>1. ASSUME Sub!MoveToSubscribed PROVE SubTokenTypes'
  BY <1>1 DEF Sub!MoveToSubscribed, Sub!tokenVars
<1>2. ASSUME NEW e \in ends, Sub!HandleUnsubscribe(e) PROVE SubTokenTypes'
  <2>1. \/ subToken' = Sub!NoToken /\ subInvalidations' = subInvalidations + 1
        \/ UNCHANGED <<subToken, subInvalidations>>
    BY <1>2 DEF Sub!HandleUnsubscribe, Sub!InvalidateState, Sub!tokenVars
  <2>2. QED
    BY <2>1
<1>3. ASSUME NEW e \in ends, Sub!HandleDisconnect(e) PROVE SubTokenTypes'
  <2>1. \/ subToken' = Sub!NoToken /\ subInvalidations' = subInvalidations + 1
        \/ UNCHANGED <<subToken, subInvalidations>>
    BY <1>3 DEF Sub!HandleDisconnect, Sub!InvalidateState, Sub!tokenVars
  <2>2. QED
    BY <2>1
<1>4. ASSUME NEW f \in Flows, Sub!StoreToken(f) PROVE SubTokenTypes'
  <2>1. \/ subToken' = Sub!Token(subFlow[f].invalidations)
        \/ UNCHANGED subToken
    BY <1>4 DEF Sub!StoreToken
  <2>2. UNCHANGED subInvalidations
    BY <1>4 DEF Sub!StoreToken, Sub!UnchangedByRefresh
  <2>3. QED
    BY <2>1, <2>2
<1>5. CASE UNCHANGED <<subToken, subInvalidations>>
  BY <1>5
<1>6. QED
  BY <1>1, <1>2, <1>3, <1>4, <1>5
     DEF Sub!Next, Sub!Run, Sub!Handle, Sub!vars, Sub!Subscribe, Sub!Unsubscribe,
         Sub!Reconnects, Sub!UnsubscribePushed, Sub!ConnectionFails, Sub!TimerFires,
         Sub!AskToken, Sub!GetTokenReturns, Sub!SendSubRefresh, Sub!RefreshAnswered,
         Sub!Rearm, Sub!UnsubscribeIfRefreshCurrent, Sub!UnchangedByRefresh, Sub!tokenVars

\* Every step of the subscription keeps SubFlowTypes.
LEMMA SubFlowTypesStep ==
  ASSUME SubSessionTypes, SubTokenTypes, SubFlowTypes, [Sub!Next]_(Sub!vars)
  PROVE  SubFlowTypes'
<1> USE SubTokenRecords DEF SubSessionTypes, SubTokenTypes, SubFlowTypes, Sub!Phases,
    Sub!Idle, Sub!Off
<1>1. ASSUME Sub!MoveToSubscribed PROVE SubFlowTypes'
  BY <1>1 DEF Sub!MoveToSubscribed, Sub!Token, Sub!session, Sub!tokenVars
<1>2. ASSUME NEW e \in ends, Sub!HandleUnsubscribe(e) PROVE SubFlowTypes'
  BY <1>2
     DEF Sub!HandleUnsubscribe, Sub!InvalidateState, Sub!MoveToSubscribing, Sub!MoveTo,
         Sub!session, Sub!tokenVars
<1>3. ASSUME NEW e \in ends, Sub!HandleDisconnect(e) PROVE SubFlowTypes'
  BY <1>3
     DEF Sub!HandleDisconnect, Sub!Current, Sub!InvalidateState, Sub!MoveToSubscribing,
         Sub!MoveTo, Sub!session, Sub!tokenVars
<1>4. ASSUME NEW f \in Flows, Sub!TimerFires(f) PROVE SubFlowTypes'
  BY <1>4 DEF Sub!TimerFires, Sub!Idle, Sub!UnchangedByRefresh, Sub!session, Sub!tokenVars
<1>5. ASSUME NEW f \in Flows, Sub!AskToken(f) PROVE SubFlowTypes'
  BY <1>5
     DEF Sub!AskToken, Sub!Idle, Sub!Ends, Sub!UnchangedByRefresh, Sub!session,
         Sub!tokenVars
<1>6. ASSUME NEW f \in Flows, Sub!GetTokenReturns(f) PROVE SubFlowTypes'
  BY <1>6
     DEF Sub!GetTokenReturns, Sub!IsRefreshCurrentLocked, Sub!Enter, Sub!Ends,
         Sub!AfterTemporaryError, Sub!Idle, Sub!UnchangedByRefresh, Sub!session,
         Sub!tokenVars
<1>7. ASSUME NEW f \in Flows, Sub!StoreToken(f) PROVE SubFlowTypes'
  BY <1>7
     DEF Sub!StoreToken, Sub!IsRefreshCurrentLocked, Sub!Enter, Sub!Ends, Sub!Idle,
         Sub!Token, Sub!UnchangedByRefresh, Sub!session, Sub!tokenVars
<1>8. ASSUME NEW f \in Flows, Sub!SendSubRefresh(f) PROVE SubFlowTypes'
  BY <1>8
     DEF Sub!SendSubRefresh, Sub!IsRefreshCurrentLocked, Sub!Enter,
         Sub!Ends, Sub!Idle, Sub!UnchangedByRefresh, Sub!session, Sub!tokenVars
<1>9. ASSUME NEW f \in Flows, Sub!RefreshAnswered(f) PROVE SubFlowTypes'
  BY <1>9
     DEF Sub!RefreshAnswered, Sub!IsRefreshCurrentLocked, Sub!Enter, Sub!Ends, Sub!Idle,
         Sub!AfterTemporaryError, Sub!UnchangedByRefresh, Sub!session, Sub!tokenVars
<1>10. ASSUME NEW f \in Flows, Sub!Rearm(f) PROVE SubFlowTypes'
  BY <1>10
     DEF Sub!Rearm, Sub!MayRearm, Sub!Ends, Sub!Idle, Sub!UnchangedByRefresh, Sub!session,
         Sub!tokenVars
<1>11. ASSUME NEW f \in Flows, Sub!UnsubscribeIfRefreshCurrent(f) PROVE SubFlowTypes'
  BY <1>11
     DEF Sub!UnsubscribeIfRefreshCurrent, Sub!IsRefreshCurrentLocked, Sub!Ends, Sub!Idle,
         Sub!MoveTo, Sub!UnchangedByRefresh, Sub!session, Sub!tokenVars
<1>12. CASE UNCHANGED <<subFlow, subscribedSession, subInvalidations>>
  BY <1>12
<1>13. QED
  BY <1>1, <1>2, <1>3, <1>4, <1>5, <1>6, <1>7, <1>8, <1>9, <1>10, <1>11, <1>12
     DEF Sub!Next, Sub!Run, Sub!Handle, Sub!vars, Sub!Subscribe, Sub!Unsubscribe,
         Sub!Reconnects, Sub!UnsubscribePushed, Sub!ConnectionFails, Sub!MoveTo,
         Sub!session, Sub!tokenVars

\* Every step of the subscription keeps EndTypes.
LEMMA EndTypesStep ==
  ASSUME EndTypes, [Sub!Next]_(Sub!vars)
  PROVE  EndTypes'
<1> USE DEF EndTypes
<1>1. ASSUME NEW kind \in {"push", "pushInvalidated"}, Sub!UnsubscribePushed(kind)
      PROVE  EndTypes'
  BY <1>1 DEF Sub!UnsubscribePushed, Sub!client
<1>2. ASSUME NEW kind \in {"lost", "invalidated"}, Sub!ConnectionFails(kind)
      PROVE  EndTypes'
  BY <1>2 DEF Sub!ConnectionFails, Sub!client
<1>3. ASSUME NEW e \in ends, Sub!HandleUnsubscribe(e) PROVE EndTypes'
  BY <1>3 DEF Sub!HandleUnsubscribe, Sub!client
<1>4. ASSUME NEW e \in ends, Sub!HandleDisconnect(e) PROVE EndTypes'
  BY <1>4 DEF Sub!HandleDisconnect, Sub!Current, Sub!client
<1>5. ASSUME NEW f \in Flows, Sub!SendSubRefresh(f) PROVE EndTypes'
  BY <1>5
     DEF Sub!SendSubRefresh, Sub!IsRefreshCurrentLocked, Sub!UnchangedByRefresh,
         Sub!client
<1>6. CASE UNCHANGED <<connection, ends>>
  BY <1>6
<1>7. QED
  BY <1>1, <1>2, <1>3, <1>4, <1>5, <1>6
     DEF Sub!Next, Sub!Run, Sub!Handle, Sub!vars, Sub!Subscribe, Sub!Unsubscribe,
         Sub!MoveToSubscribed, Sub!Reconnects, Sub!TimerFires, Sub!AskToken,
         Sub!GetTokenReturns, Sub!StoreToken, Sub!RefreshAnswered, Sub!Rearm,
         Sub!UnsubscribeIfRefreshCurrent, Sub!UnchangedByRefresh, Sub!client

\* Every step of the subscription keeps SubBudgetTypes.
LEMMA SubBudgetTypesStep ==
  ASSUME SubBudgetTypes, [Sub!Next]_(Sub!vars)
  PROVE  SubBudgetTypes'
<1> USE DEF SubBudgetTypes
<1>1. CASE Sub!ApplicationCalls
  BY <1>1 DEF Sub!ApplicationCalls
<1>2. CASE Sub!Fault
  BY <1>2 DEF Sub!Fault
<1>3. CASE UNCHANGED <<subCalls, subFaults>>
  BY <1>3
<1>4. QED
  BY <1>1, <1>2, <1>3
     DEF Sub!Next, Sub!Run, Sub!Handle, Sub!vars, Sub!Subscribe, Sub!Unsubscribe,
         Sub!MoveToSubscribed, Sub!Reconnects, Sub!UnsubscribePushed, Sub!ConnectionFails,
         Sub!HandleUnsubscribe, Sub!HandleDisconnect, Sub!TimerFires, Sub!AskToken,
         Sub!GetTokenReturns, Sub!StoreToken, Sub!SendSubRefresh, Sub!RefreshAnswered,
         Sub!Rearm, Sub!UnsubscribeIfRefreshCurrent, Sub!NoFault, Sub!budget

\* Every step of the subscription hands its refresh on or ends it: it keeps SubRefreshInv.
LEMMA SubRefreshStep ==
  ASSUME SubSessionTypes, SubFlowTypes, SubRefreshInv, [Sub!Next]_(Sub!vars)
  PROVE  SubRefreshInv'
<1> USE DEF SubSessionTypes, SubFlowTypes, SubRefreshInv, SubRuns, Sub!Off, Sub!Idle
<1>1. ASSUME Sub!Subscribe PROVE SubRefreshInv'
  BY <1>1 DEF Sub!Subscribe, Sub!session
<1>2. ASSUME Sub!Unsubscribe PROVE SubRefreshInv'
  BY <1>2 DEF Sub!Unsubscribe, Sub!MoveTo, Sub!TimerWhenSessionEnds, Sub!session
<1>3. ASSUME Sub!MoveToSubscribed PROVE SubRefreshInv'
  BY <1>3 DEF Sub!MoveToSubscribed, Sub!ScheduleSubRefresh, Sub!Token, Sub!session
<1>4. ASSUME NEW e \in ends, Sub!HandleUnsubscribe(e) PROVE SubRefreshInv'
  BY <1>4
     DEF Sub!HandleUnsubscribe, Sub!MoveToSubscribing, Sub!MoveTo,
         Sub!TimerWhenSessionEnds, Sub!session
<1>5. ASSUME NEW e \in ends, Sub!HandleDisconnect(e) PROVE SubRefreshInv'
  BY <1>5
     DEF Sub!HandleDisconnect, Sub!Current, Sub!MoveToSubscribing, Sub!MoveTo,
         Sub!TimerWhenSessionEnds, Sub!session
<1>6. ASSUME NEW f \in Flows, Sub!TimerFires(f) PROVE SubRefreshInv'
  BY <1>6 DEF Sub!TimerFires, Sub!Idle, Sub!session
<1>7. ASSUME NEW f \in Flows, Sub!AskToken(f) PROVE SubRefreshInv'
  BY <1>7 DEF Sub!AskToken, Sub!Idle, Sub!Ends, Sub!session
<1>8. ASSUME NEW f \in Flows, Sub!GetTokenReturns(f) PROVE SubRefreshInv'
  BY <1>8
     DEF Sub!GetTokenReturns, Sub!IsRefreshCurrentLocked, Sub!Enter, Sub!Ends,
         Sub!AfterTemporaryError, Sub!Idle, Sub!session
<1>9. ASSUME NEW f \in Flows, Sub!StoreToken(f) PROVE SubRefreshInv'
  BY <1>9
     DEF Sub!StoreToken, Sub!IsRefreshCurrentLocked, Sub!Enter, Sub!Ends, Sub!Idle,
         Sub!Token, Sub!session
<1>10. ASSUME NEW f \in Flows, Sub!SendSubRefresh(f) PROVE SubRefreshInv'
  BY <1>10
     DEF Sub!SendSubRefresh, Sub!IsRefreshCurrentLocked, Sub!Enter,
         Sub!Ends, Sub!Idle, Sub!session
<1>11. ASSUME NEW f \in Flows, Sub!RefreshAnswered(f) PROVE SubRefreshInv'
  BY <1>11
     DEF Sub!RefreshAnswered, Sub!IsRefreshCurrentLocked, Sub!Enter, Sub!Ends, Sub!Idle,
         Sub!AfterTemporaryError, Sub!session
<1>12. ASSUME NEW f \in Flows, Sub!Rearm(f) PROVE SubRefreshInv'
  BY <1>12
     DEF Sub!Rearm, Sub!MayRearm, Sub!ScheduleSubRefresh, Sub!Ends, Sub!Idle, Sub!session
<1>13. ASSUME NEW f \in Flows, Sub!UnsubscribeIfRefreshCurrent(f) PROVE SubRefreshInv'
  BY <1>13
     DEF Sub!UnsubscribeIfRefreshCurrent, Sub!IsRefreshCurrentLocked, Sub!Ends, Sub!Idle,
         Sub!MoveTo, Sub!TimerWhenSessionEnds, Sub!session
<1>14. CASE UNCHANGED <<subState, subscribedSession, subTimer, subFlow>>
  BY <1>14
<1>15. QED
  BY <1>1, <1>2, <1>3, <1>4, <1>5, <1>6, <1>7, <1>8, <1>9, <1>10, <1>11, <1>12, <1>13,
     <1>14
     DEF Sub!Next, Sub!Run, Sub!Handle, Sub!vars, Sub!Reconnects, Sub!UnsubscribePushed,
         Sub!ConnectionFails, Sub!session

\* Every step keeps SubscribedOnline: the client goes offline together with its subscriptions.
LEMMA OnlineStep ==
  ASSUME SubscribedOnline, [Sub!Next]_(Sub!vars)
  PROVE  SubscribedOnline'
<1> USE DEF SubscribedOnline
<1>1. ASSUME Sub!Subscribe PROVE SubscribedOnline'
  BY <1>1 DEF Sub!Subscribe, Sub!client, Sub!session
<1>2. ASSUME Sub!Unsubscribe PROVE SubscribedOnline'
  BY <1>2 DEF Sub!Unsubscribe, Sub!MoveTo, Sub!client, Sub!session
<1>3. ASSUME Sub!MoveToSubscribed PROVE SubscribedOnline'
  BY <1>3 DEF Sub!MoveToSubscribed, Sub!Token, Sub!client, Sub!session
<1>4. ASSUME Sub!Reconnects PROVE SubscribedOnline'
  BY <1>4 DEF Sub!Reconnects, Sub!client, Sub!session
<1>5. ASSUME NEW e \in ends, Sub!HandleUnsubscribe(e) PROVE SubscribedOnline'
  BY <1>5
     DEF Sub!HandleUnsubscribe, Sub!MoveToSubscribing, Sub!MoveTo, Sub!client, Sub!session
<1>6. ASSUME NEW e \in ends, Sub!HandleDisconnect(e) PROVE SubscribedOnline'
  BY <1>6
     DEF Sub!HandleDisconnect, Sub!Current, Sub!MoveToSubscribing, Sub!MoveTo, Sub!client,
         Sub!session
<1>7. ASSUME NEW f \in Flows, Sub!UnsubscribeIfRefreshCurrent(f) PROVE SubscribedOnline'
  BY <1>7
     DEF Sub!UnsubscribeIfRefreshCurrent, Sub!IsRefreshCurrentLocked, Sub!MoveTo,
         Sub!UnchangedByRefresh, Sub!client, Sub!session
<1>8. CASE UNCHANGED <<subState, connected>>
  BY <1>8
<1>9. QED
  BY <1>1, <1>2, <1>3, <1>4, <1>5, <1>6, <1>7, <1>8
     DEF Sub!Next, Sub!Run, Sub!Handle, Sub!vars, Sub!UnsubscribePushed,
         Sub!ConnectionFails, Sub!TimerFires, Sub!AskToken, Sub!GetTokenReturns,
         Sub!StoreToken, Sub!SendSubRefresh, Sub!RefreshAnswered, Sub!Rearm,
         Sub!UnchangedByRefresh, Sub!session, Sub!client

\* Every step keeps Sub!TokenIsFresh: an older token is never stored.
LEMMA SubFreshStep ==
  ASSUME SubTokenTypes, SubFlowTypes, Sub!TokenIsFresh, [Sub!Next]_(Sub!vars)
  PROVE  Sub!TokenIsFresh'
<1> USE SubTokenRecords DEF SubTokenTypes, SubFlowTypes, Sub!TokenIsFresh, Sub!Token,
    Sub!NoToken
<1>1. ASSUME Sub!MoveToSubscribed PROVE Sub!TokenIsFresh'
  BY <1>1 DEF Sub!MoveToSubscribed, Sub!Token, Sub!NoToken, Sub!tokenVars
<1>2. ASSUME NEW e \in ends, Sub!HandleUnsubscribe(e) PROVE Sub!TokenIsFresh'
  BY <1>2 DEF Sub!HandleUnsubscribe, Sub!InvalidateState, Sub!NoToken, Sub!tokenVars
<1>3. ASSUME NEW e \in ends, Sub!HandleDisconnect(e) PROVE Sub!TokenIsFresh'
  BY <1>3
     DEF Sub!HandleDisconnect, Sub!Current, Sub!InvalidateState, Sub!NoToken,
         Sub!tokenVars
<1>4. ASSUME NEW f \in Flows, Sub!StoreToken(f) PROVE Sub!TokenIsFresh'
  BY <1>4
     DEF Sub!StoreToken, Sub!IsRefreshCurrentLocked, Sub!Token, Sub!UnchangedByRefresh,
         Sub!tokenVars
<1>5. CASE UNCHANGED <<subToken, subInvalidations>>
  BY <1>5
<1>6. QED
  BY <1>1, <1>2, <1>3, <1>4, <1>5
     DEF Sub!Next, Sub!Run, Sub!Handle, Sub!vars, Sub!Subscribe, Sub!Unsubscribe,
         Sub!Reconnects, Sub!UnsubscribePushed, Sub!ConnectionFails, Sub!TimerFires,
         Sub!AskToken, Sub!GetTokenReturns, Sub!SendSubRefresh, Sub!RefreshAnswered,
         Sub!Rearm, Sub!UnsubscribeIfRefreshCurrent, Sub!UnchangedByRefresh, Sub!tokenVars

\* No step of the subscription leaves an expiring token to nobody.
LEMMA SubWorkStep ==
  ASSUME SubSessionTypes, SubFlowTypes, EndTypes, SubRefreshInv, SubscribedOnline,
         Sub!RefreshHasWork, [Sub!Next]_(Sub!vars)
  PROVE  Sub!RefreshHasWork'
<1> USE DEF SubSessionTypes, SubFlowTypes, EndTypes, SubRefreshInv, SubscribedOnline,
    Sub!RefreshHasWork, Sub!Refreshing, Sub!SessionEnding, SubRuns, Sub!Off, Sub!Idle
<1>1. ASSUME Sub!Subscribe PROVE Sub!RefreshHasWork'
  BY <1>1 DEF Sub!Subscribe, Sub!client, Sub!session, Sub!tokenVars
<1>2. ASSUME Sub!Unsubscribe PROVE Sub!RefreshHasWork'
  BY <1>2
     DEF Sub!Unsubscribe, Sub!MoveTo, Sub!TimerWhenSessionEnds, Sub!client, Sub!session,
         Sub!tokenVars
<1>3. ASSUME Sub!MoveToSubscribed PROVE Sub!RefreshHasWork'
  BY <1>3
     DEF Sub!MoveToSubscribed, Sub!ScheduleSubRefresh, Sub!Token, Sub!client, Sub!session,
         Sub!tokenVars
<1>4. ASSUME NEW kind \in {"push", "pushInvalidated"}, Sub!UnsubscribePushed(kind)
      PROVE  Sub!RefreshHasWork'
  BY <1>4 DEF Sub!UnsubscribePushed, Sub!client, Sub!session, Sub!tokenVars
<1>5. ASSUME NEW kind \in {"lost", "invalidated"}, Sub!ConnectionFails(kind)
      PROVE  Sub!RefreshHasWork'
  BY <1>5 DEF Sub!ConnectionFails, Sub!client, Sub!session, Sub!tokenVars
<1>6. ASSUME NEW e \in ends, Sub!HandleUnsubscribe(e) PROVE Sub!RefreshHasWork'
  <2>1. UNCHANGED <<connection, subFlow, subStrayed>>
    BY <1>6 DEF Sub!HandleUnsubscribe, Sub!client
  <2>2. CASE e.kind = "pushInvalidated"
            /\ ends' = (ends \ {e}) \cup {[e EXCEPT !.kind = "push"]}
    <3>1. [e EXCEPT !.kind = "push"].connection = 0
      BY <2>2
    <3>2. QED
      BY <2>2, <3>1
  <2>3. CASE e.kind = "push" /\ Sub!MoveToSubscribing
    BY <2>3 DEF Sub!MoveToSubscribing, Sub!MoveTo, Sub!session
  <2>4. QED
    BY <1>6, <2>2, <2>3 DEF Sub!HandleUnsubscribe
<1>7. ASSUME NEW e \in ends, Sub!HandleDisconnect(e) PROVE Sub!RefreshHasWork'
  <2>1. e.connection # 0 /\ UNCHANGED subFlow /\ \A x \in ends : x # e => x \in ends'
    BY <1>7 DEF Sub!HandleDisconnect
  <2>2. ASSUME UNCHANGED <<subState, connected, connection>>, Sub!SessionEnding,
               subState = "subscribed",
               Sub!Current(e) => \E x \in ends' : x.connection = e.connection
        PROVE  Sub!SessionEnding'
    <3>1. PICK x \in ends : x.connection \in {0, connection}
      BY <2>2
    <3>2. CASE x # e
      BY <2>1, <2>2, <3>1, <3>2
    <3>3. CASE x = e
      BY <2>1, <2>2, <3>1, <3>3 DEF Sub!Current
    <3>4. QED
      BY <3>2, <3>3
  <2>3. CASE e.kind = "invalidated"
    <3>1. UNCHANGED <<subState, subscribedSession, subExpires, connected, connection, subTimer,
                      subInvalidations, subStrayed>>
      BY <1>7, <2>3 DEF Sub!HandleDisconnect, Sub!client, Sub!session, Sub!tokenVars
    <3>2. Sub!Current(e) => [e EXCEPT !.kind = "checked"] \in ends'
      BY <1>7, <2>3 DEF Sub!HandleDisconnect
    <3>3. [e EXCEPT !.kind = "checked"].connection = e.connection
      OBVIOUS
    <3>4. subState = "subscribed" /\ Sub!SessionEnding => Sub!SessionEnding'
      BY <2>2, <3>1, <3>2, <3>3
    <3>5. QED
      BY <2>1, <3>1, <3>4
  <2>4. CASE e.kind = "checked"
    <3>1. /\ UNCHANGED <<subState, subscribedSession, subExpires, connected, connection,
             subTimer>>
          /\ subStrayed' = IF Sub!Current(e) THEN subStrayed ELSE subscribedSession
      BY <1>7, <2>4 DEF Sub!HandleDisconnect, Sub!client, Sub!session
    <3>2. [e EXCEPT !.kind = "lost"] \in ends'
      BY <1>7, <2>4 DEF Sub!HandleDisconnect
    <3>3. [e EXCEPT !.kind = "lost"].connection = e.connection
      OBVIOUS
    <3>4. CASE Sub!Current(e)
      BY <3>1, <3>2, <3>3, <3>4 DEF Sub!Current
    <3>5. CASE ~Sub!Current(e)
      BY <3>1, <3>5
    <3>6. QED
      BY <3>4, <3>5
  <2>5. CASE e.kind = "lost" /\ Sub!Current(e)
    BY <1>7, <2>5 DEF Sub!HandleDisconnect, Sub!MoveToSubscribing, Sub!MoveTo, Sub!session
  <2>6. CASE e.kind = "lost" /\ ~Sub!Current(e)
    <3>1. UNCHANGED <<subState, subscribedSession, subExpires, connected, connection, subTimer,
                      subInvalidations, subStrayed>>
      BY <1>7, <2>6 DEF Sub!HandleDisconnect, Sub!client, Sub!session, Sub!tokenVars
    <3>2. subState = "subscribed" /\ Sub!SessionEnding => Sub!SessionEnding'
      BY <2>2, <2>6, <3>1
    <3>3. QED
      BY <2>1, <3>1, <3>2
  <2>7. QED
    BY <1>7, <2>3, <2>4, <2>5, <2>6 DEF Sub!HandleDisconnect
<1>8. ASSUME NEW f \in Flows, Sub!TimerFires(f) PROVE Sub!RefreshHasWork'
  BY <1>8
     DEF Sub!TimerFires, Sub!Idle, Sub!UnchangedByRefresh, Sub!client, Sub!session,
         Sub!tokenVars
<1>9. ASSUME NEW f \in Flows, Sub!AskToken(f) PROVE Sub!RefreshHasWork'
  BY <1>9
     DEF Sub!AskToken, Sub!Idle, Sub!Ends, Sub!UnchangedByRefresh, Sub!client,
         Sub!session, Sub!tokenVars
<1>10. ASSUME NEW f \in Flows, Sub!GetTokenReturns(f) PROVE Sub!RefreshHasWork'
  BY <1>10
     DEF Sub!GetTokenReturns, Sub!IsRefreshCurrentLocked, Sub!Enter, Sub!Ends,
         Sub!AfterTemporaryError, Sub!Idle, Sub!UnchangedByRefresh, Sub!client,
         Sub!session, Sub!tokenVars
<1>11. ASSUME NEW f \in Flows, Sub!StoreToken(f) PROVE Sub!RefreshHasWork'
  BY <1>11
     DEF Sub!StoreToken, Sub!IsRefreshCurrentLocked, Sub!Enter, Sub!Ends, Sub!Idle,
         Sub!Token, Sub!UnchangedByRefresh, Sub!client, Sub!session, Sub!tokenVars
<1>12. ASSUME NEW f \in Flows, Sub!SendSubRefresh(f) PROVE Sub!RefreshHasWork'
  <2>1. UNCHANGED <<connected, connection, subState, subExpires, subscribedSession, subTimer,
                    subStrayed, subInvalidations>>
    BY <1>12 DEF Sub!SendSubRefresh, Sub!UnchangedByRefresh, Sub!client, Sub!session
  <2>2. CASE Sub!Enter(f, "sent") /\ UNCHANGED ends
    <3>1. /\ \A g \in Flows : g # f => subFlow'[g] = subFlow[g]
          /\ subFlow'[f].phase = "sent" /\ subFlow'[f].session = subFlow[f].session
          /\ subFlow'[f].invalidations = subFlow[f].invalidations
          /\ subFlow[f].phase = "sending"
      BY <1>12, <2>2 DEF Sub!SendSubRefresh, Sub!Enter
    <3>2. QED
      BY <2>1, <2>2, <3>1
  <2>3. CASE ~connected
    BY <2>1, <2>3
  <2>4. CASE ends' = ends \cup {[kind |-> "lost", connection |-> connection]}
    <3>1. [kind |-> "lost", connection |-> connection] \in ends'
      BY <2>4
    <3>2. [kind |-> "lost", connection |-> connection].connection = connection'
      BY <2>1
    <3>3. Sub!SessionEnding'
      BY <3>1, <3>2
    <3>4. QED
      BY <3>3
  <2>5. QED
    BY <1>12, <2>2, <2>3, <2>4 DEF Sub!SendSubRefresh
<1>13. ASSUME NEW f \in Flows, Sub!RefreshAnswered(f) PROVE Sub!RefreshHasWork'
  <2>1. UNCHANGED <<connection, ends, subState, subscribedSession, subTimer, subStrayed,
                    subInvalidations>>
    BY <1>13 DEF Sub!RefreshAnswered, Sub!UnchangedByRefresh, Sub!client
  <2>2. \A g \in Flows : g # f => subFlow'[g] = subFlow[g]
    BY <1>13 DEF Sub!RefreshAnswered, Sub!Enter, Sub!Ends
  <2>3. CASE /\ Sub!IsRefreshCurrentLocked(f) /\ UNCHANGED subExpires
             /\ \E p \in {"failed", "leaving", "rearming"} : Sub!Enter(f, p)
    <3>1. PICK p \in {"failed", "leaving",
          "rearming"} : subFlow' = [subFlow EXCEPT ![f].phase = p]
      BY <2>3 DEF Sub!Enter
    <3>2. /\ subFlow'[f].phase # "idle" /\ subFlow'[f].session = subFlow[f].session
          /\ subFlow'[f].invalidations = subFlow[f].invalidations
      BY <3>1
    <3>3. QED
      BY <2>1, <2>2, <2>3, <3>2 DEF Sub!IsRefreshCurrentLocked
  <2>4. CASE ~subExpires'
    BY <2>4
  <2>5. CASE ~Sub!IsRefreshCurrentLocked(f) /\ UNCHANGED subExpires
    BY <1>13, <2>1, <2>2, <2>5 DEF Sub!IsRefreshCurrentLocked, Sub!RefreshAnswered
  <2>6. QED
    BY <1>13, <2>3, <2>4, <2>5 DEF Sub!RefreshAnswered, Sub!AfterTemporaryError
<1>14. ASSUME NEW f \in Flows, Sub!Rearm(f) PROVE Sub!RefreshHasWork'
  BY <1>14
     DEF Sub!Rearm, Sub!MayRearm, Sub!ScheduleSubRefresh, Sub!Ends, Sub!Idle,
         Sub!UnchangedByRefresh, Sub!client, Sub!session, Sub!tokenVars
<1>15. ASSUME NEW f \in Flows, Sub!UnsubscribeIfRefreshCurrent(f)
       PROVE  Sub!RefreshHasWork'
  BY <1>15
     DEF Sub!UnsubscribeIfRefreshCurrent, Sub!IsRefreshCurrentLocked, Sub!Ends, Sub!Idle,
         Sub!MoveTo, Sub!TimerWhenSessionEnds, Sub!UnchangedByRefresh, Sub!client,
         Sub!session, Sub!tokenVars
<1>16. CASE UNCHANGED <<subState, subExpires, subscribedSession, subTimer, subFlow,
       subInvalidations, subStrayed, connection, ends>>
  BY <1>16
<1>17. QED
  BY <1>1, <1>2, <1>3, <1>4, <1>5, <1>6, <1>7, <1>8, <1>9, <1>10, <1>11, <1>12, <1>13,
     <1>14, <1>15, <1>16
     DEF Sub!Next, Sub!Run, Sub!Handle, Sub!vars, Sub!Reconnects, Sub!session,
         Sub!tokenVars, Sub!client

------------------------------------------------------------------------------
(* Theorems                                                                 *)

\* Every reachable state of the connection's refresh has ConnInv: its session has at most one
\* refresh and, while its token expires, at least one (scheduleRefreshLocked, sendRefresh,
\* handleRefreshError); a token from before an invalidation is marked with refreshRequired, and
\* an attempt that has read the mark (startReconnectingIf) connects with one from after it,
\* unless the invalidation strayed.
THEOREM ConnInvariant == Spec => []ConnInv
<1>1. Init => ConnInv
  <2> SUFFICES ASSUME Init PROVE ConnInv
    OBVIOUS
  <2>1. SessionTypes /\ FlagTypes /\ ReportTypes /\ BudgetTypes
    <3>1. SessionTypes /\ ReportTypes /\ BudgetTypes
      BY DEF Init, SessionTypes, ReportTypes, BudgetTypes, Off
    <3>2. FlagTypes
      BY DEF Init, FlagTypes
    <3>3. QED
      BY <3>1, <3>2
  <2>2. TokenTypes
    BY DEF Init, TokenTypes, ConnTokens, NoToken, Token
  <2>3. FlowTypes
    BY DEF Init, FlowTypes, ConnTokens, Phases, Idle, NoToken
  <2>4. AttemptTypes /\ AttemptInv
    BY <2>2, TokenRecords
       DEF Init, AttemptTypes, AttemptInv, TokenTypes, NoAttempt, AttemptPhases, None
  <2>5. RefreshInv /\ RefreshHasWork
    BY DEF Init, RefreshInv, RefreshHasWork, Runs, Idle
  <2>6. FreshInv
    BY TokenRecords DEF Init, FreshInv, Fresh, Idle
  <2>7. QED
    BY <2>1, <2>2, <2>3, <2>4, <2>5, <2>6 DEF ConnInv, ConnTypes
<1>2. ConnInv /\ [Next]_vars => ConnInv'
  BY SessionTypesStep, FlagTypesStep, TokenTypesStep, FlowTypesStep, ReportTypesStep,
     BudgetTypesStep, AttemptTypesStep, AttemptStep, RefreshStep, FreshStep, WorkStep
     DEF ConnInv, ConnTypes
<1>3. QED
  BY <1>1, <1>2, PTL DEF Spec

\* Every reachable state of the subscription's refresh has SubscriptionInv (refresh,
\* isRefreshCurrentLocked, unsubscribeIfRefreshCurrent).
THEOREM SubInvariant == Sub!Spec => []SubscriptionInv
<1>1. Sub!Init => SubscriptionInv
  <2> SUFFICES ASSUME Sub!Init PROVE SubscriptionInv
    OBVIOUS
  <2>1. SubSessionTypes /\ SubFlagTypes /\ EndTypes /\ SubBudgetTypes
    <3>1. SubSessionTypes /\ EndTypes /\ SubBudgetTypes
      BY DEF Sub!Init, SubSessionTypes, EndTypes, SubBudgetTypes, Sub!Off
    <3>2. SubFlagTypes
      BY DEF Sub!Init, SubFlagTypes
    <3>3. QED
      BY <3>1, <3>2
  <2>2. SubTokenTypes /\ Sub!TokenIsFresh
    BY SubTokenRecords DEF Sub!Init, SubTokenTypes, Sub!TokenIsFresh
  <2>3. SubFlowTypes
    BY DEF Sub!Init, SubFlowTypes, Sub!Phases, Sub!Idle
  <2>4. SubRefreshInv /\ SubscribedOnline /\ Sub!RefreshHasWork
    BY DEF Sub!Init, SubRefreshInv, SubscribedOnline, Sub!RefreshHasWork, SubRuns,
           Sub!Idle, Sub!Off
  <2>5. QED
    BY <2>1, <2>2, <2>3, <2>4 DEF SubscriptionInv, SubTypes
<1>2. SubscriptionInv /\ [Sub!Next]_(Sub!vars) => SubscriptionInv'
  BY SubSessionTypesStep, SubFlagTypesStep, SubTokenTypesStep, SubFlowTypesStep,
     EndTypesStep, SubBudgetTypesStep, SubRefreshStep, OnlineStep, SubFreshStep,
     SubWorkStep
     DEF SubscriptionInv, SubTypes
<1>3. QED
  BY <1>1, <1>2, PTL DEF Sub!Spec

\* A set whose elements are all equal has at most one.
LEMMA AtMostOne ==
  ASSUME NEW S, IsFiniteSet(S), \A x, y \in S : x = y
  PROVE  Cardinality(S) <= 1
<1>1. CASE S = {}
  BY <1>1, FS_EmptySet
<1>2. ASSUME NEW x \in S PROVE Cardinality(S) <= 1
  <2>1. S = {x}
    OBVIOUS
  <2>2. QED
    BY <2>1, FS_Singleton
<1>3. QED
  BY <1>1, <1>2

\* The invariant of the connection says that it has one refresh at most.
LEMMA ConnOneRefresh == ConnInv => OneRefresh
<1> SUFFICES ASSUME ConnInv PROVE OneRefresh
  OBVIOUS
<1>1. IsFiniteSet(Refreshing)
  BY ConnRefreshFlows, FS_Subset DEF Refreshing
<1>2. \A f, g \in Refreshing : f = g
  BY DEF ConnInv, RefreshInv, Runs, Refreshing
<1>3. refreshTimer # Off => state = "connected" /\ refreshTimer = generation /\ Refreshing = {}
  BY DEF ConnInv, RefreshInv, Runs, Refreshing
<1>4. QED
  BY <1>1, <1>2, <1>3, AtMostOne DEF OneRefresh

\* The invariant of the subscription says that it has one refresh at most.
LEMMA SubOneRefresh == SubscriptionInv => Sub!OneRefresh
<1> SUFFICES ASSUME SubscriptionInv PROVE Sub!OneRefresh
  OBVIOUS
<1>1. IsFiniteSet(Sub!Refreshing)
  BY ConnRefreshFlows, FS_Subset DEF Sub!Refreshing
<1>2. \A f, g \in Sub!Refreshing : f = g
  BY DEF SubscriptionInv, SubRefreshInv, SubRuns, Sub!Refreshing
<1>3. subTimer # Sub!Off =>
        subState = "subscribed" /\ subTimer = subscribedSession /\ Sub!Refreshing = {}
  BY DEF SubscriptionInv, SubRefreshInv, SubRuns, Sub!Refreshing
<1>4. Sub!Cardinality(Sub!Refreshing) = Cardinality(Sub!Refreshing)
  BY DEF Cardinality, Sub!Cardinality
<1>5. QED
  BY <1>1, <1>2, <1>3, <1>4, AtMostOne DEF Sub!OneRefresh

\* A session has at most one refresh, armed or running, and one that ended leaves no timer
\* behind: "continued on a newer connection it would run next to that connection's own refresh"
\* (sendRefresh), "after the resubscribe it would run next to the new session's own refresh"
\* (refresh).
THEOREM EachHasOneRefresh == Spec /\ Sub!Spec => []BothHaveOneRefresh
<1>1. ConnInv /\ SubscriptionInv => BothHaveOneRefresh
  BY ConnOneRefresh, SubOneRefresh DEF BothHaveOneRefresh
<1>2. QED
  BY <1>1, ConnInvariant, SubInvariant, PTL

\* While the server says that the token of a session expires, its timer runs, a goroutine is at
\* it, or the session is about to end; for a subscription unless its state was invalidated for
\* a former connection (handleRefreshError, scheduleRefreshLocked, scheduleSubRefresh).
THEOREM NoTokenExpires == Spec /\ Sub!Spec => []BothHaveWork
<1>1. ConnInv /\ SubscriptionInv => BothHaveWork
  BY DEF BothHaveWork, ConnInv, SubscriptionInv
<1>2. QED
  BY <1>1, ConnInvariant, SubInvariant, PTL

\* ConnInv implies the type invariant of ConnRefresh.
LEMMA ConnTypesCorrect == ConnInv => TypeOK
BY DEF ConnInv, ConnTypes, TypeOK, SessionTypes, FlagTypes, TokenTypes, FlowTypes,
       AttemptTypes, ReportTypes, BudgetTypes, ConnTokens, Tokens

\* SubscriptionInv implies the type invariant of SubRefresh.
LEMMA SubTypesCorrect == SubscriptionInv => Sub!TypeOK
BY DEF SubscriptionInv, SubTypes, Sub!TypeOK, SubSessionTypes, SubFlagTypes,
       SubTokenTypes, SubFlowTypes, EndTypes, SubBudgetTypes, SubTokens, Sub!Tokens

\* A step of a goroutine whose session ended changes no session, timer or token.
LEMMA ConnEnded ==
  ASSUME [Next]_vars, NEW h \in Flows, flow'[h] # flow[h], flow[h] # Idle, FlowTypes,
         state # "connected" \/ flow[h].generation # generation
  PROVE  UNCHANGED <<session, refreshTimer, tokenVars>>
<1>1. \E f \in Flows : TimerFires(f) \/ Run(f)
  BY DEF Next, vars, Connect, Disconnect, SetToken, Attempt, StartAttempt, ReadToken,
         StoreFirstToken, AttemptFails, SendConnect, Connected, ConnectRefused,
         HandleConnectError, TransportFails, Report, CheckReport,
         InvalidateConnectionState, MoveFrom
<1>2. PICK f \in Flows : TimerFires(f) \/ Run(f)
  BY <1>1
<1>3. \A g \in Flows : g # f => flow'[g] = flow[g]
  BY <1>2
     DEF FlowTypes, TimerFires, Run, AskToken, GetTokenReturns, StoreToken, SendRefresh,
         RefreshAnswered, HandleRefreshError, MayNotStay, Enter, Ends
<1>4. f = h
  BY <1>3
<1>5. CASE TimerFires(f)
  BY <1>4, <1>5 DEF TimerFires
<1>6. CASE Run(f)
  BY <1>4, <1>6
     DEF Run, AskToken, GetTokenReturns, StoreToken, SendRefresh, RefreshAnswered,
         HandleRefreshError, MayNotStay, IsRefreshCurrentLocked, NoTeardown, session,
         tokenVars
<1>7. QED
  BY <1>2, <1>5, <1>6

\* The same for a subscription.
LEMMA SubEnded ==
  ASSUME [Sub!Next]_(Sub!vars),
         NEW h \in Flows, subFlow'[h] # subFlow[h], subFlow[h] # Sub!Idle,
         SubFlowTypes, subState # "subscribed" \/ subFlow[h].session # subscribedSession
  PROVE  UNCHANGED <<Sub!session, subTimer, subToken>>
<1>1. \E f \in Flows : Sub!TimerFires(f) \/ Sub!Run(f)
  BY DEF Sub!Next, Sub!vars, Sub!Subscribe, Sub!Unsubscribe, Sub!MoveToSubscribed,
         Sub!Reconnects, Sub!UnsubscribePushed, Sub!ConnectionFails, Sub!Handle,
         Sub!HandleUnsubscribe, Sub!HandleDisconnect
<1>2. PICK f \in Flows : Sub!TimerFires(f) \/ Sub!Run(f)
  BY <1>1
<1>3. \A g \in Flows : g # f => subFlow'[g] = subFlow[g]
  BY <1>2 DEF SubFlowTypes, Sub!TimerFires, Sub!Run, Sub!AskToken, Sub!GetTokenReturns,
         Sub!StoreToken, Sub!SendSubRefresh, Sub!RefreshAnswered, Sub!Rearm,
         Sub!UnsubscribeIfRefreshCurrent, Sub!Enter, Sub!Ends
<1>4. f = h
  BY <1>3
<1>5. CASE Sub!TimerFires(f)
  BY <1>4, <1>5 DEF Sub!TimerFires
<1>6. CASE Sub!Run(f)
  BY <1>4, <1>6
     DEF Sub!Run, Sub!AskToken, Sub!GetTokenReturns, Sub!StoreToken, Sub!SendSubRefresh,
         Sub!RefreshAnswered, Sub!Rearm, Sub!UnsubscribeIfRefreshCurrent,
         Sub!IsRefreshCurrentLocked, Sub!MayRearm, Sub!session
<1>7. QED
  BY <1>2, <1>5, <1>6

\* Type correctness: timers and goroutines name sessions that began and tokens that were asked
\* for, reports name transports that were published.
THEOREM RefreshTypesCorrect == Spec /\ Sub!Spec => [](TypeOK /\ Sub!TypeOK)
<1>1. ConnInv /\ SubscriptionInv => TypeOK /\ Sub!TypeOK
  BY ConnTypesCorrect, SubTypesCorrect
<1>2. QED
  BY <1>1, ConnInvariant, SubInvariant, PTL

\* "It stops as soon as that session has ended" (sendRefresh), "a failure of the ended session
\* must not unsubscribe the new one" (unsubscribeIfRefreshCurrent): a goroutine whose session
\* ended changes neither state nor timer nor token.
THEOREM EndedRefreshesChangeNothing == Spec /\ Sub!Spec => BothEndedChangeNothing
<1>1. FlowTypes /\ [Next]_vars =>
        [\A f \in Flows :
           flow'[f] # flow[f] /\ flow[f] # Idle
             /\ (state # "connected" \/ flow[f].generation # generation)
             => UNCHANGED <<session, refreshTimer, tokenVars>>]_vars
  BY ConnEnded
<1>2. SubFlowTypes /\ [Sub!Next]_(Sub!vars) =>
        [\A f \in Flows :
           subFlow'[f] # subFlow[f] /\ subFlow[f] # Sub!Idle
             /\ (subState # "subscribed" \/ subFlow[f].session # subscribedSession)
             => UNCHANGED <<Sub!session, subTimer, subToken>>]_(Sub!vars)
  BY SubEnded
<1>3. ConnInv => FlowTypes
  BY DEF ConnInv, ConnTypes
<1>4. SubscriptionInv => SubFlowTypes
  BY DEF SubscriptionInv, SubTypes
<1>5. Spec => EndedRefreshChangesNothing
  BY <1>1, <1>3, ConnInvariant, PTL DEF Spec, EndedRefreshChangesNothing
<1>6. Sub!Spec => Sub!EndedRefreshChangesNothing
  BY <1>2, <1>4, SubInvariant, PTL DEF Sub!Spec, Sub!EndedRefreshChangesNothing
<1>7. QED
  BY <1>5, <1>6 DEF BothEndedChangeNothing

\* No connect command carries a token obtained before a state invalidation, or none (the
\* connection's refreshRequired), unless the invalidation of an earlier connection came when the
\* attempt had read the token (strayed); and a subscription keeps no such token ("its token was
\* obtained before it", isRefreshCurrentLocked).
THEOREM FreshTokensUsed == Spec /\ Sub!Spec => BothUseFreshTokens
<1>1. FreshInv => [SendsConnect => Fresh(token) \/ strayed]_vars
  BY DEF FreshInv, SendsConnect
<1>2. ConnInv => FreshInv
  BY DEF ConnInv
<1>3. Spec => ConnectsWithFreshToken
  BY <1>1, <1>2, ConnInvariant, PTL DEF ConnectsWithFreshToken
<1>4. SubscriptionInv => Sub!TokenIsFresh
  BY DEF SubscriptionInv
<1>5. Sub!Spec => [][Sub!TokenIsFresh']_subVars
  BY <1>4, SubInvariant, PTL
<1>6. QED
  BY <1>3, <1>5 DEF BothUseFreshTokens

\* What TLC checks (MCRefresh) are behaviours of both refreshes.
THEOREM PartsAreRefreshes == MCSpec => Spec /\ Sub!Spec
<1>1. MCInit => Init /\ Sub!Init
  BY DEF MCInit
<1>2. [MCNext]_<<part, vars, subVars>> => [Next]_vars /\ [Sub!Next]_(Sub!vars)
  <2>1. UNCHANGED subVars => UNCHANGED Sub!vars
    BY DEF subVars, Sub!vars, Sub!client, Sub!session, Sub!tokenVars, Sub!budget
  <2>2. QED
    BY <2>1 DEF MCNext
<1>3. QED
  BY <1>1, <1>2, PTL DEF MCSpec, Spec, Sub!Spec
=============================================================================
