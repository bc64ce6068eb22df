----------------------------- MODULE MCDelivery -----------------------------
(* Small instances for TLC of what delivers publications: a subscription with *)
(* and one without GetState (Recovery), and the server-side subscriptions     *)
(* (ServerSubs).  They share no state that matters here, so a behaviour is one*)
(* of the three, and the others rest.                                         *)
EXTENDS Recovery
CONSTANTS
  MCChannels, MCRecoverable, MaxServerPublished, MaxServerCalls, MaxServerChanges,
  MaxServerFaults,
  MaxServerEvents   \* bound: changes and faults of the server together

ASSUME ServerSubsChannels == MCRecoverable \subseteq MCChannels
ASSUME ServerSubsBounds ==
  /\ MaxServerPublished \in Nat /\ MaxServerCalls \in Nat /\ MaxServerChanges \in Nat
  /\ MaxServerFaults \in Nat /\ MaxServerEvents \in Nat

VARIABLES
  part,   \* what runs
  serverTops, serverFloor, serverSide, serverUp, clientState, connectAttempt, serverWire,
  serverHeld, closes, serverSubs, leaving, serverQueue, told, serverSeen, serverReloads,
  strayed, late, serverCalls, changes, serverFaults

serverVars ==
  <<serverTops, serverFloor, serverSide, serverUp, clientState, connectAttempt, serverWire,
    serverHeld, closes, serverSubs, leaving, serverQueue, told, serverSeen, serverReloads,
    strayed, late, serverCalls, changes, serverFaults>>

Plain == INSTANCE Recovery WITH HasGetState <- FALSE

Pushed == INSTANCE ServerSubs WITH
  Channels <- MCChannels, Recoverable <- MCRecoverable,
  MaxPublished <- MaxServerPublished, MaxCalls <- MaxServerCalls,
  MaxChanges <- MaxServerChanges, MaxFaults <- MaxServerFaults,
  tops <- serverTops, floor <- serverFloor, state <- clientState, wire <- serverWire,
  held <- serverHeld, queue <- serverQueue, seen <- serverSeen, reloads <- serverReloads,
  calls <- serverCalls, faults <- serverFaults

MCInit == Init /\ Pushed!Init /\ part \in {"getState", "plain", "server"}

MCNext ==
  /\ \/ part = "getState" /\ Next /\ UNCHANGED serverVars
     \/ part = "plain" /\ Plain!Next /\ UNCHANGED serverVars
     \/ /\ part = "server" /\ Pushed!Next /\ UNCHANGED vars
        /\ changes' + serverFaults' <= MaxServerEvents
  /\ UNCHANGED part

MCSpec == MCInit /\ [][MCNext]_<<part, vars, serverVars>>

\* The fairness of Recovery, with or without GetState.
Runs(withGetState, without) ==
  /\ \/ part = "getState" /\ withGetState
     \/ part = "plain" /\ without
  /\ UNCHANGED <<part, serverVars>>

MCFairness ==
  /\ WF_vars(Runs(GetState, Plain!GetState))
  /\ WF_vars(Runs(SendSubscribe, Plain!SendSubscribe))
  /\ WF_vars(Runs(Take, Plain!Take))
  /\ WF_vars(Runs(\E h \in held : Handle(h), \E h \in held : Plain!Handle(h)))
  /\ WF_vars(Runs(Dispatcher, Plain!Dispatcher))
  /\ WF_vars(Runs(Answers, Plain!Answers))
  /\ WF_vars(Runs(Reconnect, Plain!Reconnect))

MCLiveSpec == MCSpec /\ MCFairness

\* What Recovery and ServerSubs promise alike.
BothFollowStream == StreamSpec /\ Pushed!StreamSpec
BothRecoverFromWhatWasSeen == RecoversFromWhatWasSeen /\ Pushed!RecoversFromWhatWasSeen
ServerSubsAgree == Pushed!AgreesWithServer /\ Pushed!ToldWhatIs
=============================================================================
