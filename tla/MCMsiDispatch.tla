--------------------------- MODULE MCMsiDispatch ---------------------------
(***************************************************************************)
(* Model-checking instance of MsiDispatch: the constants are in the .cfg   *)
(* files.  Two lines share a bank with the access violation above them, as *)
(* 47, 48 and 52 do in the chip's bank 1.  The watched line is the higher  *)
(* one; the promise is checked of the lower one too.                       *)
(***************************************************************************)
EXTENDS MsiDispatch

CONSTANT LowLine

ASSUME LowLineAssumption == LowLine \in Lines /\ MayLose(LowLine) /\ ~MayLose(Watched)

Low == INSTANCE MsiDispatch WITH Watched <- LowLine

\* The lower line, whose events the repeated clear of saa7231_irq_handler may wipe
\* after its handler has run, loses them in that way and in no other.
LowLineKept == Low!LineKept
=============================================================================
