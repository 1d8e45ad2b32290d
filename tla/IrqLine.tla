------------------------------ MODULE IrqLine ------------------------------
(***************************************************************************)
(* What the interrupt dispatcher promises one event line.                  *)
(*                                                                         *)
(* An event raised while the previous one is still pending is merged with  *)
(* it.  A pending event is taken once, and a taken event runs the line's   *)
(* handler once if the line is attached.  Only a lossy line may have a     *)
(* pending event dropped, and the handler never runs without an event.     *)
(***************************************************************************)
EXTENDS Naturals

CONSTANT Lossy      \* whether another line may wipe this one's events

VARIABLES
  pending,    \* an event is waiting for the dispatcher
  taken,      \* the dispatcher has accepted an event and not yet acted on it
  attached,   \* a handler is registered
  raised,     \* events so far
  merged,     \* ... that found one pending
  served,     \* ... that ran the handler
  lost        \* ... that were dropped

vars == <<pending, taken, attached, raised, merged, served, lost>>

Init ==
  /\ pending = FALSE
  /\ taken = FALSE
  /\ attached = FALSE
  /\ raised = 0
  /\ merged = 0
  /\ served = 0
  /\ lost = 0

Raise ==
  /\ raised' = raised + 1
  /\ pending' = TRUE
  /\ merged' = IF pending THEN merged + 1 ELSE merged
  /\ UNCHANGED <<taken, attached, served, lost>>

Take ==
  /\ pending /\ ~taken
  /\ pending' = FALSE
  /\ taken' = TRUE
  /\ UNCHANGED <<attached, raised, merged, served, lost>>

Serve ==
  /\ taken
  /\ taken' = FALSE
  /\ served' = served + 1
  /\ UNCHANGED <<pending, attached, raised, merged, lost>>

Ignore ==
  /\ taken /\ ~attached
  /\ taken' = FALSE
  /\ lost' = lost + 1
  /\ UNCHANGED <<pending, attached, raised, merged, served>>

Wipe ==
  /\ Lossy
  /\ pending
  /\ pending' = FALSE
  /\ lost' = lost + 1
  /\ UNCHANGED <<taken, attached, raised, merged, served>>

Attach ==
  /\ attached' = ~attached
  /\ UNCHANGED <<pending, taken, raised, merged, served, lost>>

Next == Raise \/ Take \/ Serve \/ Ignore \/ Wipe \/ Attach

Spec == Init /\ [][Next]_vars
=============================================================================
