----------------------------- MODULE MCRefresh -----------------------------
(* Small instances of both token refreshes for TLC.  The connection's and a   *)
(* subscription's refresh share no state, so a behaviour is one of either, and*)
(* the other one rests.                                                       *)
EXTENDS ConnRefresh
CONSTANTS f1, f2, MaxEvents   \* calls and failures together

VARIABLES
  part,   \* the refresh that runs
  connected, connection, subState, subscribedSession, subTimer, subFlow, subToken,
  subInvalidations, ends, subExpires, subStrayed, subCalls, subFaults

Sub == INSTANCE SubRefresh WITH
  state <- subState, refreshTimer <- subTimer, flow <- subFlow, token <- subToken,
  invalidations <- subInvalidations, expires <- subExpires, strayed <- subStrayed,
  calls <- subCalls, faults <- subFaults

subVars == <<connected, connection, subState, subscribedSession, subTimer, subFlow, subToken,
             subInvalidations, ends, subExpires, subStrayed, subCalls, subFaults>>

MCInit ==
  /\ Init /\ Sub!Init
  /\ \/ part = "connection" /\ subToken = Sub!NoToken
     \/ part = "subscription" /\ token = NoToken

MCNext ==
  /\ \/ part = "connection" /\ Next /\ UNCHANGED subVars
     \/ part = "subscription" /\ Sub!Next /\ UNCHANGED vars
  /\ calls' + faults' <= MaxEvents /\ subCalls' + subFaults' <= MaxEvents
  /\ UNCHANGED part

\* Nothing a fairness condition is about can happen in the part that rests.
MCSpec == MCInit /\ [][MCNext]_<<part, vars, subVars>> /\ Fairness /\ Sub!Fairness

\* What ConnRefresh and SubRefresh promise alike, and what each does about a token
\* that an invalidation made worthless.
BothHaveOneRefresh == OneRefresh /\ Sub!OneRefresh
BothHaveWork == RefreshHasWork /\ Sub!RefreshHasWork
BothEndedChangeNothing == EndedRefreshChangesNothing /\ Sub!EndedRefreshChangesNothing
BothUseFreshTokens == ConnectsWithFreshToken /\ [][Sub!TokenIsFresh']_subVars
BothGoOn == RefreshGoesOn /\ Sub!RefreshGoesOn
=============================================================================
