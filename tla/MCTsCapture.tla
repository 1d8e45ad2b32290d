---------------------------- MODULE MCTsCapture ----------------------------
(***************************************************************************)
(* Model-checking instances of TsCapture: the constants are in the .cfg    *)
(* files.                                                                  *)
(***************************************************************************)
EXTENDS TsCapture

\* Restarts that do not overlap an interrupt: at the real sizes the sessions
\* started on top of one, of which only the unconditional invariants say
\* anything, are too many to enumerate.  The small instances have them all.
CleanSpec == Init /\ [][Next /\ session'.clean]_vars
=============================================================================
