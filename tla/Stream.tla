------------------------------- MODULE Stream -------------------------------
(***************************************************************************)
(* What a recoverable subscription promises the application: it gets the   *)
(* publications of the channel one after the other, none twice and none    *)
(* left out, unless it was told that its state has to be loaded again.     *)
(***************************************************************************)
EXTENDS Naturals

VARIABLES
  published,  \* publications, named by epoch and offset
  seen,       \* the application has everything up to here; Unknown if it cannot tell
  reloads     \* how often it was told to load its state

vars == <<published, seen, reloads>>

Unknown == <<0, 0>>
Following(p) == <<p[1], p[2] + 1>>

Init == published = {} /\ seen = Unknown /\ reloads = 0

Publish ==
  /\ \E p \in published' \ published : published' = published \cup {p}
  /\ UNCHANGED <<seen, reloads>>

Deliver(p) ==
  /\ seen = Unknown \/ p = Following(seen)
  /\ seen' = p
  /\ UNCHANGED <<published, reloads>>

Reload ==
  /\ reloads' = reloads + 1
  /\ seen' \in Nat \X Nat
  /\ UNCHANGED published

Next == Publish \/ Reload \/ \E p \in published : Deliver(p)

Spec == Init /\ [][Next]_vars
==============================================================================
