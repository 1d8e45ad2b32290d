----------------------------- MODULE TsDelivery -----------------------------
(***************************************************************************)
(* What one capture stream promises its demultiplexer.                     *)
(*                                                                         *)
(* The hardware fills transport-stream buffers, numbered 1, 2, 3, ... in   *)
(* the order they are filled.  In a settled session every buffer reaches   *)
(* the demultiplexer exactly once and in that order.  A restart gives up   *)
(* whatever had not been delivered and may unsettle the stream, and so may *)
(* a missed interrupt: until the stream settles again nothing is promised  *)
(* of what is delivered.                                                   *)
(***************************************************************************)
EXTENDS Naturals

VARIABLES
  filled,    \* number of buffers the hardware has filled
  seen,      \* the latest buffer delivered since the restart (or filled before it)
  taken,     \* deliveries of buffers filled since the restart
  settled    \* whether the promise holds in the present session

vars == <<filled, seen, taken, settled>>

Init ==
  /\ filled = 0
  /\ seen = 0
  /\ taken = 0
  /\ settled \in BOOLEAN

Fill ==
  /\ filled' = filled + 1
  /\ settled' \in {settled, FALSE}
  /\ UNCHANGED <<seen, taken>>

Miss ==
  /\ settled' = FALSE
  /\ UNCHANGED <<filled, seen, taken>>

Deliver ==
  /\ settled
  /\ seen < filled
  /\ seen' = seen + 1
  /\ taken' = taken + 1
  /\ UNCHANGED <<filled, settled>>

DeliverUnsettled ==
  /\ ~settled
  /\ seen' \in 0 .. filled
  /\ taken' \in {taken, taken + 1}
  /\ settled' \in BOOLEAN
  /\ UNCHANGED filled

Restart ==
  /\ seen' = filled
  /\ taken' = 0
  /\ settled' \in BOOLEAN
  /\ UNCHANGED filled

Next == Fill \/ Miss \/ Deliver \/ DeliverUnsettled \/ Restart

Spec == Init /\ [][Next]_vars
=============================================================================
