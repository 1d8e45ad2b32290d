---------------------------- MODULE MsiDispatch ----------------------------
(***************************************************************************)
(* Interrupt dispatch: saa7231_irq_handler of saa7231_drv.c, and the       *)
(* registration of event handlers, saa7231_add_irqevent and                *)
(* saa7231_remove_irqevent of saa7231_msi.c, as saa7231_dvb_init and       *)
(* saa7231_dvb_exit call them.                                             *)
(*                                                                         *)
(* The MSI block of the chip has a status and an enable bit per vector, in *)
(* banks of one register each.  Every enabled status bit asserts the one   *)
(* INT-A line, which other devices share.  The handler reads a snapshot of *)
(* all the status registers and then walks it; for every bit found set it  *)
(* clears the WHOLE snapshot of that bank again.  The hardware raises bits *)
(* meanwhile, and the registering thread takes no lock.                    *)
(*                                                                         *)
(* The event handlers are modelled in TsCapture; here a call is one step.  *)
(***************************************************************************)
EXTENDS Integers, FiniteSets

CONSTANTS
  Width,       \* bits of a status register (32 in saa7231_msi.h)
  Banks,       \* status registers (SAA7231_MSI_LOOPS = 4)
  Lines,       \* vectors saa7231_dvb_init registers (47, 48)
  Noise,       \* vectors raised by other units of the chip
  Dcsn,        \* the access-violation vector (bit 20 of bank 1)
  Watched,     \* the line the properties are stated of, any one of Lines
  MaxRaised    \* bound: events per line

ASSUME SizeAssumption == Width \in Nat \ {0} /\ Banks \in Nat \ {0}

Vectors == 0 .. Width * Banks - 1

\* Vector 0 is excluded: its event entry is NULL and matches from the start.
ASSUME VectorsAssumption ==
  /\ Lines \subseteq Vectors \ {0}
  /\ Noise \subseteq Vectors \ {0}
  /\ Dcsn \in Vectors \ {0}
  /\ Lines \cap (Noise \cup {Dcsn}) = {}
  /\ Dcsn \notin Noise
ASSUME WatchedAssumption == Watched \in Lines
ASSUME RaisedAssumption == MaxRaised \in Nat

VARIABLES
  status,     \* MSI_INT_STATUS: the set of raised vectors
  ena,        \* MSI_INT_ENA: the set of enabled vectors
  violation,  \* DCSN_INT_STATUS is non-zero
  vector,     \* event_handler[v].vector, 0 when unused
  handler,    \* event_handler[v].handler is not NULL
  isr,        \* where saa7231_irq_handler is
  bank,       \* its loop counter while it reads the status registers
  snap,       \* its local array status[]
  pos,        \* the vector its loops have reached
  admin,      \* where the thread in dvb_init or dvb_exit is
  who,        \* the line it is registering or removing
  raised,     \* history, per line: events raised,
  merged,     \*   of which merged with a pending one,
  served,     \*   handler calls,
  lost        \*   events cleared without a call

chip    == <<status, ena, violation>>
event   == <<vector, handler>>
walker  == <<isr, bank, snap, pos>>
thread  == <<admin, who>>
history == <<raised, merged, served, lost>>
vars    == <<chip, event, walker, thread, history>>

IsrSteps   == {"idle", "read", "scan", "ack", "test", "call", "oops"}
AdminSteps == {"start", "publish", "second", "next", "probed", "first", "clear", "disable", "gone"}

BankOf(v) == v \div Width
InBank(i) == {v \in Vectors : BankOf(v) = i}

\* All loops of this code go through vectors in ascending order.
First(S) == {v \in S : \A u \in S : v <= u}

Init ==
  /\ status = {}
  /\ ena = {}
  /\ violation = FALSE
  /\ vector = [v \in Vectors |-> 0]
  /\ handler = [v \in Vectors |-> FALSE]
  /\ isr = "idle"
  /\ bank = 0
  /\ snap = {}
  /\ pos = 0
  /\ admin = "start"
  /\ who \in First(Lines)
  /\ raised = [v \in Lines |-> 0]
  /\ merged = [v \in Lines |-> 0]
  /\ served = [v \in Lines |-> 0]
  /\ lost = [v \in Lines |-> 0]

\* The part of the snapshot the walk has still to reach.
Left ==
  CASE isr = "read" -> snap
    [] isr = "scan" -> {u \in snap : u >= pos}
    [] isr \in {"ack", "test", "call", "oops"} -> {u \in snap : u > pos}
    [] OTHER -> {}

Pending(v) == v \in status \/ v \in Left
Taken(v) == isr \in {"ack", "test", "call", "oops"} /\ pos = v
Attached(v) == vector[v] = v

-----------------------------------------------------------------------------
(* The chip (external).                                                    *)

RaiseLine(v) ==
  /\ raised[v] < MaxRaised
  /\ status' = status \cup {v}
  /\ raised' = [raised EXCEPT ![v] = @ + 1]
  /\ merged' = IF Pending(v) THEN [merged EXCEPT ![v] = @ + 1] ELSE merged
  /\ UNCHANGED <<ena, violation, event, walker, thread, served, lost>>

RaiseNoise(v) ==
  /\ status' = status \cup {v}
  /\ UNCHANGED <<ena, violation, event, walker, thread, history>>

\* An access violation on the chip's internal bus.
RaiseViolation ==
  /\ violation' = TRUE
  /\ status' = status \cup {Dcsn}
  /\ UNCHANGED <<ena, event, walker, thread, history>>

Chip ==
  \/ \E v \in Lines : RaiseLine(v)
  \/ \E v \in Noise : RaiseNoise(v)
  \/ RaiseViolation

-----------------------------------------------------------------------------
(* saa7231_irq_handler                                                     *)

Asserted == status \cap ena # {}

\* The kernel calls the handler for this device or for another on the line.
Invoke ==
  /\ isr = "idle"
  /\ isr' = "read"
  /\ bank' = 0
  /\ snap' = {}
  /\ UNCHANGED <<pos, chip, event, thread, history>>

\* Faulty variant:  i <= SAA7231_MSI_LOOPS.
OneRegisterMore == Banks

\* for (i = 0; i < SAA7231_MSI_LOOPS; i++)
LastRegister == Banks - 1

\* One status register is read; after the last, nothing set is not ours
\* (SAA7231_IRQNONE) and all ones is a card pulled out (SAA7231_UNPLUGD).
ReadStatus ==
  /\ isr = "read"
  /\ LET all == snap \cup (status \cap InBank(bank)) IN
     IF bank < LastRegister
     THEN bank' = bank + 1 /\ snap' = all /\ UNCHANGED <<isr, pos>>
     ELSE IF all \in {{}, Vectors}
          THEN isr' = "idle" /\ snap' = {} /\ UNCHANGED <<bank, pos>>
          ELSE isr' = "scan" /\ snap' = all /\ pos' = 0 /\ UNCHANGED bank
  /\ UNCHANGED <<chip, event, thread, history>>

\* Faulty variants: acknowledging the whole register, or one bit of it.
ClearRegister(v) == InBank(BankOf(v))
ClearNothing(v) == {}

\* SAA7231_WR(status[i], .., MSI_INT_STATUS_CLR(i))
Cleared(v) == snap \cap InBank(BankOf(v))

\* The walk finds its next bit set and writes the bank's snapshot to STATUS_CLR,
\* which also drops what lines it already served have raised since.
Scan ==
  /\ isr = "scan"
  /\ Left # {}
  /\ \E v \in First(Left) :
       /\ pos' = v
       /\ status' = status \ Cleared(v)
       /\ lost' = [u \in Lines |->
            IF u \in status \cap Cleared(v) /\ u < v THEN lost[u] + 1 ELSE lost[u]]
  /\ isr' = IF Dcsn \in snap THEN "ack" ELSE "test"
  /\ UNCHANGED <<ena, violation, event, bank, snap, thread, raised, merged, served>>

\* Faulty variant: the violation stays in the snapshot.
KeepViolation(s) == s

\* status[1] &= ~0x100000
DropViolation(s) == s \ {Dcsn}

\* The access violation is acknowledged at the source and leaves the snapshot.
Acknowledge ==
  /\ isr = "ack"
  /\ isr' = "test"
  /\ violation' = FALSE
  /\ snap' = DropViolation(snap)
  /\ UNCHANGED <<status, ena, event, bank, pos, thread, history>>

\* if (event->vector == vector)
TestVector ==
  /\ isr = "test"
  /\ IF Attached(pos)
     THEN isr' = "call" /\ UNCHANGED <<pos, lost>>
     ELSE /\ isr' = "scan"
          /\ pos' = pos + 1
          /\ lost' = [u \in Lines |-> IF u = pos THEN lost[u] + 1 ELSE lost[u]]
  /\ UNCHANGED <<chip, event, bank, snap, thread, raised, merged, served>>

\* event->handler(saa7231, vector): a NULL handler is the end of the machine.
CallHandler ==
  /\ isr = "call"
  /\ IF handler[pos]
     THEN /\ isr' = "scan"
          /\ pos' = pos + 1
          /\ served' = [u \in Lines |-> IF u = pos THEN served[u] + 1 ELSE served[u]]
     ELSE isr' = "oops" /\ UNCHANGED <<pos, served>>
  /\ UNCHANGED <<chip, event, bank, snap, thread, raised, merged, lost>>

Return ==
  /\ isr = "scan"
  /\ Left = {}
  /\ isr' = "idle"
  /\ snap' = {}
  /\ UNCHANGED <<bank, pos, chip, event, thread, history>>

Isr == ReadStatus \/ Scan \/ Acknowledge \/ TestVector \/ CallHandler \/ Return

-----------------------------------------------------------------------------
(* saa7231_add_irqevent, for each line in turn, and remove_irqevent.       *)

AdminStep(from, to) ==
  /\ admin = from
  /\ admin' = to
  /\ UNCHANGED <<status, violation, walker, history>>

\* Faulty variant: the bit is written to ENA_CLR.
EnableCleared(v) == ena \ {v}

\* saa7231_vector_ctl(.., 1): ENA_SET(ENA | bit)
Enabled(v) == ena \cup {v}

\* setup_vector enables the vector before its event entry is filled in.
EnableVector ==
  /\ AdminStep("start", "publish")
  /\ ena' = Enabled(who)
  /\ UNCHANGED <<event, who>>

\* event->handler = handler; event->vector = vector;  plain stores, which the
\* compiler may exchange.
Publish ==
  /\ AdminStep("publish", "second")
  /\ \/ handler' = [handler EXCEPT ![who] = TRUE] /\ UNCHANGED vector
     \/ vector' = [vector EXCEPT ![who] = who] /\ UNCHANGED handler
  /\ UNCHANGED <<ena, who>>

PublishRest ==
  /\ AdminStep("second", "next")
  /\ handler' = [handler EXCEPT ![who] = TRUE]
  /\ vector' = [vector EXCEPT ![who] = who]
  /\ UNCHANGED <<ena, who>>

After(v) == {u \in Lines : u > v}

NextLine ==
  /\ \/ /\ After(who) # {}
        /\ AdminStep("next", "start")
        /\ who' \in First(After(who))
     \/ /\ After(who) = {}
        /\ AdminStep("next", "probed")
        /\ who' = who
  /\ UNCHANGED <<ena, event>>

\* The module is unloaded: saa7231_dvb_exit goes through the lines again.
Unload ==
  /\ AdminStep("probed", "first")
  /\ who' \in First(Lines)
  /\ UNCHANGED <<ena, event>>

\* event->vector = 0; event->handler = NULL;  again plain stores.
Unpublish ==
  /\ AdminStep("first", "clear")
  /\ \/ handler' = [handler EXCEPT ![who] = FALSE] /\ UNCHANGED vector
     \/ vector' = [vector EXCEPT ![who] = 0] /\ UNCHANGED handler
  /\ UNCHANGED <<ena, who>>

UnpublishRest ==
  /\ AdminStep("clear", "disable")
  /\ handler' = [handler EXCEPT ![who] = FALSE]
  /\ vector' = [vector EXCEPT ![who] = 0]
  /\ UNCHANGED <<ena, who>>

\* Faulty variant: the disabling write goes to ENA_SET.
DisableSets(v) == ena \cup {v}

\* saa7231_vector_ctl(.., 0): ENA_CLR(ENA | bit) disables the bank's every vector.
Disabled(v) == ena \ InBank(BankOf(v))

DisableVector ==
  /\ \/ /\ After(who) # {}
        /\ AdminStep("disable", "first")
        /\ who' \in First(After(who))
     \/ /\ After(who) = {}
        /\ AdminStep("disable", "gone")
        /\ who' = who
  /\ ena' = Disabled(who)
  /\ UNCHANGED event

Register == EnableVector \/ Publish \/ PublishRest \/ NextLine
Remove   == Unload \/ Unpublish \/ UnpublishRest \/ DisableVector

-----------------------------------------------------------------------------
Next == Chip \/ Invoke \/ Isr \/ Register \/ Remove

Spec == Init /\ [][Next]_vars

\* The kernel runs the handler while the line is asserted and lets it finish;
\* the probing thread finishes.  Nothing makes the chip raise an event.
FairSpec ==
  /\ Spec
  /\ WF_vars(Asserted /\ Invoke)
  /\ WF_vars(Isr)
  /\ WF_vars(Register)

-----------------------------------------------------------------------------
(* Properties.                                                             *)

\* Types of the variables; in particular the walk stays inside event_handler[].
TypeOK ==
  /\ status \subseteq Vectors
  /\ ena \subseteq Vectors
  /\ violation \in BOOLEAN
  /\ vector \in [Vectors -> Vectors]
  /\ handler \in [Vectors -> BOOLEAN]
  /\ isr \in IsrSteps
  /\ bank \in 0 .. Banks - 1
  /\ snap \subseteq Vectors
  /\ pos \in Nat
  /\ isr \in {"ack", "test", "call", "oops"} => pos \in Vectors
  /\ admin \in AdminSteps
  /\ who \in Lines
  /\ raised \in [Lines -> Nat]
  /\ merged \in [Lines -> Nat]
  /\ served \in [Lines -> Nat]
  /\ lost \in [Lines -> Nat]

\* A line whose repeated events the walk may clear after having served it: a
\* higher vector of the same register makes it write the snapshot again.  The
\* access violation does not, for it has left the snapshot by then.
MayLose(v) == \E u \in (Lines \cup Noise) \ {v} : u > v /\ BankOf(u) = BankOf(v)

\* The watched line keeps the promise of an event line.
Line == INSTANCE IrqLine WITH
  Lossy    <- MayLose(Watched),
  pending  <- Pending(Watched),
  taken    <- Taken(Watched),
  attached <- Attached(Watched),
  raised   <- raised[Watched],
  merged   <- merged[Watched],
  served   <- served[Watched],
  lost     <- lost[Watched]

LineKept == Line!Spec

\* A latched access violation always has its MSI bit, so the next interrupt sees
\* it: the clears made for other vectors never wipe a new one.
ViolationSeen == violation => Dcsn \in status \/ Dcsn \in Left \/ isr = "ack"

\* Once all lines are removed the card no longer asserts the shared line, however
\* many events its engines, which nothing stopped, still raise.
QuietWhenGone == admin = "gone" => ~Asserted

\* An event of the watched line, if registered and not lossy, runs its handler,
\* unless the driver is being unloaded or the machine is gone.
Unloading == admin \in {"first", "clear", "disable", "gone"}

EventuallyServed ==
  \A n \in 0 .. MaxRaised :
    served[Watched] = n /\ Pending(Watched) /\ Attached(Watched) /\ ~MayLose(Watched)
      ~> served[Watched] > n \/ isr = "oops" \/ Unloading
=============================================================================
