----------------------------- MODULE SubRefresh -----------------------------
(***************************************************************************)
(* Refresh of a subscription token (subscription.go): the timer armed for  *)
(* a subscribed session, the goroutines that call GetToken, store the      *)
(* token and send it, and what may end the session or invalidate its state *)
(* meanwhile.                                                              *)
(*                                                                         *)
(* A step is one hold of s.mu, one return of GetToken or of a handler, or  *)
(* one send.  How the subscription subscribes (module Subscription) is one *)
(* step here, and so is the end of a connection together with the move of  *)
(* the subscription to subscribing.  GetToken is configured.  A token is   *)
(* named by the number of invalidations before it was asked for.           *)
(***************************************************************************)
EXTENDS Naturals, FiniteSets

CONSTANTS
  Flows,        \* slots for goroutines that run refresh
  MaxCalls,     \* bound: Subscribe and Unsubscribe
  MaxFaults     \* bound: failures of the connection, unsubscribe pushes

VARIABLES
  connected, connection,  \* of the client; connections are numbered
  state,
  subscribedSession,
  refreshTimer,           \* session it was armed for, Off when it is not running
  flow,                   \* the goroutines
  token, invalidations,
  ends,                   \* disconnects and unsubscribe pushes being handled
  expires,                \* history: the server said the session's token expires
  strayed,                \* history: session invalidated for a former connection
  calls, faults

client == <<connected, connection>>
session == <<state, subscribedSession, expires>>
tokenVars == <<token, invalidations>>
budget == <<calls, faults>>
vars == <<client, session, refreshTimer, flow, tokenVars, ends, strayed, budget>>

Off == 0
NoToken == [known |-> FALSE, at |-> 0]
Token(at) == [known |-> TRUE, at |-> at]
Idle == [phase |-> "idle", session |-> 0, invalidations |-> 0]
Phases == {"idle", "started", "asking", "storing", "sending", "sent", "failed", "rearming",
           "leaving"}

Init ==
  /\ connected = TRUE /\ connection = 1
  /\ state = "unsubscribed" /\ subscribedSession = 0 /\ expires = FALSE
  /\ refreshTimer = Off /\ flow = [f \in Flows |-> Idle]
  /\ token \in {NoToken, Token(0)} /\ invalidations = 0
  /\ ends = {} /\ strayed = 0
  /\ calls = 0 /\ faults = 0

ApplicationCalls == calls < MaxCalls /\ calls' = calls + 1 /\ UNCHANGED faults
Fault == faults < MaxFaults /\ faults' = faults + 1 /\ UNCHANGED calls
NoFault == UNCHANGED budget

------------------------------------------------------------------------------
(* Variants of the definitions below with a bug planted; used to check that *)
(* the properties notice it.                                                *)

FaultyIsRefreshCurrentLocked(f) ==
  state = "subscribed" /\ flow[f].session = subscribedSession
FaultyMayRearm(f) == state = "subscribed"
FaultyAfterTemporaryError == "idle"

------------------------------------------------------------------------------
(* Parts of several actions                                                 *)

IsRefreshCurrentLocked(f) ==
  /\ state = "subscribed" /\ flow[f].session = subscribedSession
  /\ flow[f].invalidations = invalidations

\* The timer is armed again in the session it was armed for, even when its state
\* was invalidated.
MayRearm(f) == state = "subscribed" /\ flow[f].session = subscribedSession

\* moveToSubscribing and moveToUnsubscribed stop the timer.
TimerWhenSessionEnds == Off

AfterTemporaryError == "failed"

Enter(f, phase) == flow' = [flow EXCEPT ![f].phase = phase]
Ends(f) == flow' = [flow EXCEPT ![f] = Idle]
ScheduleSubRefresh(n) == refreshTimer' = n

MoveTo(target) ==
  /\ state' = target
  /\ refreshTimer' = TimerWhenSessionEnds
  /\ expires' = FALSE
  /\ UNCHANGED subscribedSession

MoveToSubscribing ==
  IF state = "unsubscribed" THEN UNCHANGED <<session, refreshTimer>> ELSE MoveTo("subscribing")

------------------------------------------------------------------------------
(* The subscription                                                         *)

Subscribe ==
  /\ ApplicationCalls
  /\ state = "unsubscribed"
  /\ state' = "subscribing"
  /\ UNCHANGED <<client, subscribedSession, expires, refreshTimer, flow, tokenVars, ends, strayed>>

Unsubscribe ==
  /\ ApplicationCalls
  /\ state # "unsubscribed"
  /\ MoveTo("unsubscribed")
  /\ UNCHANGED <<client, flow, tokenVars, ends, strayed>>

\* The subscription subscribes, with a token from GetToken when it has none.
MoveToSubscribed ==
  /\ connected /\ state = "subscribing"
  /\ state' = "subscribed" /\ subscribedSession' = subscribedSession + 1
  /\ token' = IF token = NoToken THEN Token(invalidations) ELSE token
  /\ expires' \in BOOLEAN
  /\ IF expires' THEN ScheduleSubRefresh(subscribedSession') ELSE UNCHANGED refreshTimer
  /\ NoFault
  /\ UNCHANGED <<client, flow, invalidations, ends, strayed>>

InvalidateState ==
  /\ token' = NoToken
  /\ invalidations' = invalidations + 1

\* An unsubscribe push asks to resubscribe, maybe with the state invalidated first.
UnsubscribePushed(kind) ==
  /\ Fault
  /\ connected /\ state = "subscribed"
  /\ ends' = ends \cup {[kind |-> kind, connection |-> 0]}
  /\ UNCHANGED <<client, session, refreshTimer, flow, tokenVars, strayed>>

HandleUnsubscribe(e) ==
  /\ \/ /\ e.kind = "pushInvalidated"
        /\ InvalidateState
        /\ ends' = (ends \ {e}) \cup {[e EXCEPT !.kind = "push"]}
        /\ UNCHANGED <<session, refreshTimer>>
     \/ /\ e.kind = "push"
        /\ MoveToSubscribing
        /\ ends' = ends \ {e}
        /\ UNCHANGED tokenVars
  /\ NoFault
  /\ UNCHANGED <<client, flow, strayed>>

------------------------------------------------------------------------------
(* The connection                                                           *)

ConnectionFails(kind) ==
  /\ Fault
  /\ connected
  /\ ends' = ends \cup {[kind |-> kind, connection |-> connection]}
  /\ UNCHANGED <<client, session, refreshTimer, flow, tokenVars, strayed>>

Current(e) == connected /\ e.connection = connection

\* handleTransportDisconnect: the check of the transport, the invalidation and the
\* reconnect are separate lock holds.
HandleDisconnect(e) ==
  /\ \/ /\ e.kind = "invalidated"
        /\ ends' = (ends \ {e}) \cup
             (IF Current(e) THEN {[e EXCEPT !.kind = "checked"]} ELSE {})
        /\ UNCHANGED <<client, session, refreshTimer, tokenVars, strayed>>
     \/ /\ e.kind = "checked"
        /\ InvalidateState
        /\ strayed' = IF Current(e) THEN strayed ELSE subscribedSession
        /\ ends' = (ends \ {e}) \cup {[e EXCEPT !.kind = "lost"]}
        /\ UNCHANGED <<client, session, refreshTimer>>
     \/ /\ e.kind = "lost"
        /\ IF Current(e)
           THEN /\ connected' = FALSE /\ connection' = connection + 1
                /\ MoveToSubscribing
           ELSE UNCHANGED <<client, session, refreshTimer>>
        /\ ends' = ends \ {e}
        /\ UNCHANGED <<tokenVars, strayed>>
  /\ NoFault
  /\ UNCHANGED flow

Reconnects ==
  /\ ~connected /\ connected' = TRUE
  /\ NoFault
  /\ UNCHANGED <<connection, session, refreshTimer, flow, tokenVars, ends, strayed>>

------------------------------------------------------------------------------
(* Refresh                                                                  *)

UnchangedByRefresh == UNCHANGED <<client, invalidations, strayed>>

TimerFires(f) ==
  /\ refreshTimer # Off /\ flow[f] = Idle
  /\ refreshTimer' = Off
  /\ flow' = [flow EXCEPT ![f] = [Idle EXCEPT !.phase = "started", !.session = refreshTimer]]
  /\ NoFault
  /\ UnchangedByRefresh /\ UNCHANGED <<session, token, ends>>

\* refresh remembers the number of invalidations, then calls GetToken.
AskToken(f) ==
  /\ flow[f].phase = "started"
  /\ IF state = "subscribed" /\ flow[f].session = subscribedSession
     THEN flow' = [flow EXCEPT ![f].phase = "asking", ![f].invalidations = invalidations]
     ELSE Ends(f)
  /\ NoFault
  /\ UnchangedByRefresh /\ UNCHANGED <<session, refreshTimer, token, ends>>

\* It returns a token, an error, or that the subscription may not stay (no token,
\* or ErrUnauthorized).
GetTokenReturns(f) ==
  /\ flow[f].phase = "asking"
  /\ IF IsRefreshCurrentLocked(f)
     THEN \E phase \in {"storing", AfterTemporaryError, "leaving"} : Enter(f, phase)
     ELSE Ends(f)
  /\ NoFault
  /\ UnchangedByRefresh /\ UNCHANGED <<session, refreshTimer, token, ends>>

StoreToken(f) ==
  /\ flow[f].phase = "storing"
  /\ IF IsRefreshCurrentLocked(f)
     THEN token' = Token(flow[f].invalidations) /\ Enter(f, "sending")
     ELSE Ends(f) /\ UNCHANGED token
  /\ NoFault
  /\ UnchangedByRefresh /\ UNCHANGED <<session, refreshTimer, ends>>

\* sendSubRefresh: nobody looks at a send that fails (sendAsyncOn takes its callback
\* back), so the refresh ends there; a write that failed reports a disconnect.
SendSubRefresh(f) ==
  /\ flow[f].phase = "sending"
  /\ \/ connected /\ Enter(f, "sent") /\ NoFault /\ UNCHANGED ends
     \/ ~connected /\ Ends(f) /\ NoFault /\ UNCHANGED ends
     \/ /\ connected /\ Ends(f) /\ Fault
        /\ ends' = ends \cup {[kind |-> "lost", connection |-> connection]}
  /\ UnchangedByRefresh /\ UNCHANGED <<session, refreshTimer, token>>

\* The callback: a reply, an error, a timeout, or the end of the connection.
RefreshAnswered(f) ==
  /\ flow[f].phase = "sent"
  /\ IF IsRefreshCurrentLocked(f)
     THEN \/ \E phase \in {AfterTemporaryError, "leaving", "rearming"} :
               Enter(f, phase) /\ UNCHANGED expires
          \/ Ends(f) /\ expires' = FALSE
     ELSE Ends(f) /\ UNCHANGED expires
  /\ NoFault
  /\ UnchangedByRefresh
  /\ UNCHANGED <<state, subscribedSession, refreshTimer, token, ends>>

\* After an error (its OnError handler returned), or when the token expires again.
Rearm(f) ==
  /\ flow[f].phase \in {"failed", "rearming"}
  /\ IF MayRearm(f) THEN ScheduleSubRefresh(subscribedSession) ELSE UNCHANGED refreshTimer
  /\ Ends(f)
  /\ NoFault
  /\ UnchangedByRefresh /\ UNCHANGED <<session, token, ends>>

\* unsubscribeIfRefreshCurrent; the unsubscribe is sent, and an unsent one ends
\* the connection (module Subscription).
UnsubscribeIfRefreshCurrent(f) ==
  /\ flow[f].phase = "leaving"
  /\ IF IsRefreshCurrentLocked(f)
     THEN MoveTo("unsubscribed")
     ELSE UNCHANGED <<session, refreshTimer>>
  /\ Ends(f)
  /\ NoFault
  /\ UnchangedByRefresh /\ UNCHANGED <<token, ends>>

------------------------------------------------------------------------------
Run(f) ==
  \/ AskToken(f) \/ GetTokenReturns(f) \/ StoreToken(f) \/ SendSubRefresh(f)
  \/ RefreshAnswered(f) \/ Rearm(f) \/ UnsubscribeIfRefreshCurrent(f)

Handle(e) == HandleUnsubscribe(e) \/ HandleDisconnect(e)

Next ==
  \/ Subscribe \/ Unsubscribe \/ MoveToSubscribed \/ Reconnects
  \/ \E kind \in {"push", "pushInvalidated"} : UnsubscribePushed(kind)
  \/ \E kind \in {"lost", "invalidated"} : ConnectionFails(kind)
  \/ \E e \in ends : Handle(e)
  \/ \E f \in Flows : TimerFires(f) \/ Run(f)

Spec == Init /\ [][Next]_vars

\* Timers fire, goroutines run, GetToken and handlers return, requests are
\* answered or time out, and what ends the session is handled.
Fairness ==
  /\ WF_vars(\E f \in Flows : TimerFires(f))
  /\ WF_vars(\E e \in ends : Handle(e))
  /\ \A f \in Flows : WF_vars(Run(f))

LiveSpec == Spec /\ Fairness

------------------------------------------------------------------------------
(* Properties *)

Tokens == [known : BOOLEAN, at : 0..invalidations]

TypeOK ==
  /\ connected \in BOOLEAN /\ connection \in Nat \ {0}
  /\ state \in {"unsubscribed", "subscribing", "subscribed"}
  /\ subscribedSession \in Nat /\ expires \in BOOLEAN
  /\ refreshTimer \in 0..subscribedSession /\ strayed \in 0..subscribedSession
  /\ flow \in [Flows -> [phase : Phases, session : 0..subscribedSession,
                         invalidations : 0..invalidations]]
  /\ invalidations \in Nat /\ token \in Tokens
  /\ ends \subseteq [kind : {"push", "pushInvalidated", "lost", "invalidated", "checked"},
                     connection : 0..connection]
  /\ calls \in Nat /\ faults \in Nat

Refreshing == {f \in Flows : flow[f].phase # "idle" /\ flow[f].session = subscribedSession}
SessionEnding == \E e \in ends : e.connection \in {0, connection}

\* A subscribed session whose token expires is always going to be refreshed: the
\* timer runs, or a goroutine is at it, or the session is about to end; unless its
\* state was invalidated for a connection that had ended already (strayed), when a
\* refresh under way gives up.
RefreshHasWork ==
  state = "subscribed" /\ expires /\ strayed # subscribedSession =>
    \/ refreshTimer = subscribedSession
    \/ \E f \in Refreshing :
         flow[f].invalidations = invalidations
           \/ flow[f].phase \in {"started", "failed", "rearming"}
    \/ SessionEnding

\* A session has at most one refresh, armed or running ("after the resubscribe it
\* would run next to the new session's own refresh", refresh), and one that ended
\* leaves no timer behind.
OneRefresh ==
  /\ refreshTimer # Off =>
       state = "subscribed" /\ refreshTimer = subscribedSession /\ Refreshing = {}
  /\ state = "subscribed" => Cardinality(Refreshing) <= 1

\* "A failure of the ended session must not unsubscribe the new one"
\* (unsubscribeIfRefreshCurrent), nor may anything else of it change the new one.
EndedRefreshChangesNothing ==
  [][\A f \in Flows :
       flow'[f] # flow[f] /\ flow[f] # Idle
         /\ (state # "subscribed" \/ flow[f].session # subscribedSession)
         => UNCHANGED <<session, refreshTimer, token>>]_vars

\* No token from before an invalidation is kept: "its token was obtained before it"
\* (isRefreshCurrentLocked), and the resubscribe would be sent with it.
TokenIsFresh == token # NoToken => token.at = invalidations

\* GetToken is asked again and again while the session lasts and the server keeps
\* saying that the token expires.
RefreshGoesOn ==
  state = "subscribed" /\ expires ~>
    \/ ~(state = "subscribed" /\ expires) \/ strayed = subscribedSession
    \/ \E f \in Refreshing : flow[f].phase = "asking"
==============================================================================
