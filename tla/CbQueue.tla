------------------------------- MODULE CbQueue -------------------------------
(***************************************************************************)
(* The callback queue of the client (queue.go) with the ways the client    *)
(* uses it (runHandlerSync, runHandlerAsync, queueEvent and waitEvent in   *)
(* client.go).                                                             *)
(*                                                                         *)
(* Any goroutine pushes callbacks to the tail of a linked list; one        *)
(* dispatcher goroutine takes them from the head and runs them.  The       *)
(* dispatcher sleeps on a channel of capacity one, which every push fills  *)
(* without blocking.  A callback may itself push to the queue or close it. *)
(* A step is one hold of the queue's lock, or one channel operation.       *)
(***************************************************************************)
EXTENDS Naturals, Sequences

CONSTANTS
  Callers,     \* goroutines that use the queue, the dispatcher excluded
  Dispatcher,  \* the goroutine that runs dispatch
  MaxPush      \* bound: number of callbacks pushed in a behaviour

VARIABLES
  head, tail,  \* first and last asyncCB of the list, Nil when it is empty
  cbs,         \* every asyncCB pushed so far, in the order of the pushes
  notify,      \* TRUE when the notify channel holds its one signal
  closed,      \* the queue accepts nothing any more
  closeCh,     \* TRUE once closeCh was closed
  dpc, curr,   \* where the dispatcher is, and the asyncCB it works on
  cpc, wait,   \* where each goroutine is, and the asyncCB it waits for
  ran          \* history: callbacks in the order in which they were called

vars == <<head, tail, cbs, notify, closed, closeCh, dpc, curr, cpc, wait, ran>>
listVars == <<head, tail, cbs, notify, closed>>

Nil == 0
Goroutines == Callers \cup {Dispatcher}

\* fn is "stop" for the nil function that close() pushes.
AsyncCB == [fn : {"callback", "stop"}, next : Nat]

Init ==
  /\ head = Nil /\ tail = Nil /\ cbs = <<>>
  /\ notify = FALSE /\ closed = FALSE /\ closeCh = FALSE
  /\ dpc = "take" /\ curr = Nil
  /\ cpc = [g \in Goroutines |-> "idle"]
  /\ wait = [g \in Goroutines |-> Nil]
  /\ ran = <<>>

------------------------------------------------------------------------------
(* Variants of the definitions below with a bug planted; used to check that *)
(* the properties notice it.                                                *)

FaultyTailAfterTake == tail
FaultySignal == notify \/ tail # Nil
FaultyInDispatch(g) == FALSE
FaultyClosedAfterPush(fn) == FALSE

------------------------------------------------------------------------------
(* pushOrClose: append to the list and signal the dispatcher; refused once  *)
(* the queue is closed.                                                     *)

HeadAfterPush(n) == IF tail # Nil THEN head ELSE n

\* The send to notify never blocks: with a signal already there it is dropped.
Signal == TRUE

ClosedAfterPush(fn) == fn = "stop"

PushOrClose(fn) ==
  IF closed
  THEN UNCHANGED listVars
  ELSE LET n      == Len(cbs) + 1
           linked == IF tail # Nil
                     THEN [cbs EXCEPT ![tail] = [fn |-> @.fn, next |-> n]]
                     ELSE cbs
       IN /\ cbs' = Append(linked, [fn |-> fn, next |-> Nil])
          /\ head' = HeadAfterPush(n)
          /\ tail' = n
          /\ closed' = ClosedAfterPush(fn)
          /\ notify' = Signal

\* The caller runs on the dispatcher goroutine, i.e. inside a callback.
InDispatch(g) == g = Dispatcher

\* A goroutine can use the queue when it is not blocked; the dispatcher only
\* from inside a callback.
CanCall(g) == cpc[g] = "idle" /\ (g = Dispatcher => dpc = "run")

\* runHandlerAsync, and queueEvent without waitEvent.
RunAsync(g) ==
  /\ CanCall(g)
  /\ Len(cbs) < MaxPush
  /\ PushOrClose("callback")
  /\ UNCHANGED <<closeCh, dpc, curr, cpc, wait, ran>>

NoWait(g) == closed \/ InDispatch(g)

\* runHandlerSync, runHandlerSyncReentrant, and queueEvent followed by waitEvent:
\* wait for the callback unless it was refused or the caller runs on the
\* dispatcher (from where runHandlerSync itself is never called).
RunWait(g) ==
  /\ CanCall(g)
  /\ Len(cbs) < MaxPush
  /\ PushOrClose("callback")
  /\ IF NoWait(g)
     THEN UNCHANGED <<cpc, wait>>
     ELSE /\ cpc' = [cpc EXCEPT ![g] = "waitDone"]
          /\ wait' = [wait EXCEPT ![g] = Len(cbs) + 1]
  /\ UNCHANGED <<closeCh, dpc, curr, ran>>

\* close: push the stop entry, then wait for closeCh unless in a callback.
Close(g) ==
  /\ CanCall(g)
  /\ PushOrClose("stop")
  /\ cpc' = IF InDispatch(g) THEN cpc ELSE [cpc EXCEPT ![g] = "waitClose"]
  /\ UNCHANGED <<closeCh, dpc, curr, wait, ran>>

\* The callback of asyncCB n has returned: its done channel is closed.
Finished(n) == n \in 1..Len(ran) /\ ~(dpc = "run" /\ curr = n)

WaitReturns(g) ==
  /\ cpc[g] = "waitDone"
  /\ Finished(wait[g])
  /\ cpc' = [cpc EXCEPT ![g] = "idle"]
  /\ wait' = [wait EXCEPT ![g] = Nil]
  /\ UNCHANGED <<listVars, closeCh, dpc, curr, ran>>

CloseReturns(g) ==
  /\ cpc[g] = "waitClose"
  /\ closeCh
  /\ cpc' = [cpc EXCEPT ![g] = "idle"]
  /\ UNCHANGED <<listVars, closeCh, dpc, curr, wait, ran>>

------------------------------------------------------------------------------
(* dispatch, one step per lock hold, channel operation and callback.        *)

TailAfterTake == IF head = tail THEN Nil ELSE tail
AfterTake == IF cbs[head].fn = "stop" THEN "stop" ELSE "run"

\* The locked section: take the head of the list, or find it empty.
Take ==
  /\ dpc = "take"
  /\ IF head = Nil
     THEN /\ dpc' = "sleep"
          /\ UNCHANGED <<head, tail, curr, ran>>
     ELSE /\ curr' = head
          /\ head' = cbs[head].next
          /\ tail' = TailAfterTake
          /\ dpc' = AfterTake
          /\ ran' = IF AfterTake = "run" THEN Append(ran, head) ELSE ran
  /\ UNCHANGED <<cbs, notify, closed, closeCh, cpc, wait>>

Wake ==
  /\ dpc = "sleep"
  /\ notify
  /\ notify' = FALSE
  /\ dpc' = "take"
  /\ UNCHANGED <<head, tail, cbs, closed, closeCh, curr, cpc, wait, ran>>

\* The callback returns (not while it waits in a call of its own).
Return ==
  /\ dpc = "run"
  /\ cpc[Dispatcher] = "idle"
  /\ dpc' = "take"
  /\ UNCHANGED <<listVars, closeCh, curr, cpc, wait, ran>>

Stop ==
  /\ dpc = "stop"
  /\ closeCh' = TRUE
  /\ dpc' = "done"
  /\ UNCHANGED <<listVars, curr, cpc, wait, ran>>

Dispatch == Take \/ Wake \/ Return \/ Stop

Call(g) == RunAsync(g) \/ RunWait(g) \/ Close(g)

Resume(g) == WaitReturns(g) \/ CloseReturns(g)

Next == Dispatch \/ \E g \in Goroutines : Call(g) \/ Resume(g)

\* The Go scheduler runs every goroutine that can run; a callback returns
\* (the README asks the application not to block in handlers).  Nothing makes
\* the application call.
Fairness == WF_vars(Dispatch) /\ \A g \in Goroutines : WF_vars(Resume(g))

Spec == Init /\ [][Next]_vars
LiveSpec == Spec /\ Fairness

------------------------------------------------------------------------------
(* Properties *)

TypeOK ==
  /\ cbs \in Seq(AsyncCB)
  /\ head \in 0..Len(cbs) /\ tail \in 0..Len(cbs) /\ curr \in 0..Len(cbs)
  /\ notify \in BOOLEAN /\ closed \in BOOLEAN /\ closeCh \in BOOLEAN
  /\ dpc \in {"take", "sleep", "run", "stop", "done"}
  /\ cpc \in [Goroutines -> {"idle", "waitDone", "waitClose"}]
  /\ wait \in [Goroutines -> 0..Len(cbs)]
  /\ ran \in Seq(Nat)

\* Callbacks are called in the order in which they were pushed, each at most
\* once and none skipped (dispatch and the list surgery of pushOrClose).
RunInPushOrder == \A i \in 1..Len(ran) : ran[i] = i

\* dispatch never goes to sleep over a callback: with the list not empty, the
\* signal that wakes it is in the channel, whatever came between the unlock
\* and the receive.
NoLostSignal == dpc = "sleep" /\ head # Nil => notify

\* closeCh is closed only after every callback accepted before close() has
\* returned, so Close() of the client returns after its last event.
CloseDrains ==
  closeCh => \A n \in 1..Len(cbs) : cbs[n].fn = "callback" => Finished(n)

\* Every accepted callback is called eventually, the queue being closed
\* meanwhile or not.
EveryPushRuns == \A n \in 1..MaxPush :
  (n <= Len(cbs) /\ cbs[n].fn = "callback") ~> (n <= Len(ran))

\* No goroutine stays blocked on the queue: waiting for a callback and
\* waiting in close() both end, also when callbacks push and close themselves.
CallsReturn == \A g \in Goroutines : (cpc[g] # "idle") ~> (cpc[g] = "idle")

\* The queue keeps what EventFifo promises to the application.
Fifo == INSTANCE EventFifo WITH
  accepted <- Len(cbs) - (IF closed THEN 1 ELSE 0),
  finished <- Len(ran) - (IF dpc = "run" THEN 1 ELSE 0),
  running  <- dpc = "run",
  shut     <- closed,
  drained  <- closeCh

ImplementsFifo == Fifo!FifoSpec
==============================================================================
