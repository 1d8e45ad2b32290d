------------------------------ MODULE Lgs8g75 ------------------------------
(***************************************************************************)
(* The LGS8G75 demodulator of the A328 card: lgs8gxx.c with                *)
(* prod = LGS8GXX_PROD_LGS8G75, and the wrapper a328_set_frontend of       *)
(* saa7231_drv.c that opens the chip's clocks.                             *)
(*                                                                         *)
(* The kernel's frontend code calls init on every open, set_frontend on    *)
(* every tune and read_status at any time, one call at a time.  Every      *)
(* register access goes through I2C and may fail; most callers ignore it,  *)
(* and a failed read leaves an uninitialised byte in its place.            *)
(*                                                                         *)
(* Of the chip (external) the model has the registers the search works on, *)
(* whether its 8051 runs the downloaded firmware, and its lock on the      *)
(* channel.  Without a clock it ignores writes and reads as all ones.      *)
(***************************************************************************)
EXTENDS Naturals, Sequences

CONSTANTS
  Params,       \* transmission parameters a channel may have
  NoParam,      \* the value 0 of the parameter register
  BusFaults     \* whether I2C accesses may fail

ASSUME ParamAssumption == NoParam \notin Params
ASSUME FaultAssumption == BusFaults \in BOOLEAN

GuardIntervals == {420, 595, 945}
NoInterval == 0  \* the fourth value of the two bits

\* The combinations lgs8gxx_auto_detect tries, in order, and does so twice.
Tries ==
  <<[gi |-> 945, cpn |-> 0], [gi |-> 945, cpn |-> 1],
    [gi |-> 420, cpn |-> 0], [gi |-> 420, cpn |-> 1], [gi |-> 595, cpn |-> 1]>>
Rounds == 2

\* A channel the search can find: it has the setting of one of its tries.
NoChannel == [gi |-> NoInterval, cpn |-> 0, param |-> NoParam]
Channels ==
  {[gi |-> Tries[i].gi, cpn |-> Tries[i].cpn, param |-> p] : i \in DOMAIN Tries, p \in Params}

VARIABLES
  pc,        \* what the frontend thread is doing
  k,         \* number of the try
  gi,        \* lgs8gxx_auto_lock's gi
  detected,  \*   and detected_param
  curr_gi,   \* priv->curr_gi
  status,    \* the lock last reported to the user
  clk,       \* the MSCD/TS clock outputs are on
  cpu,       \* what the 8051 runs: "boot" loader, "firmware", "damaged" image
  reg,       \* registers 0x0C (guard interval, auto bit), 0x18 and 0x19
  chan,      \* the channel on air
  faulted    \* history: an access failed since the tune began

chip == <<clk, cpu, reg>>
vars == <<pc, k, gi, detected, curr_gi, status, chip, chan, faulted>>

Registers == [gi : GuardIntervals \cup {NoInterval}, auto : BOOLEAN, cpn : {0, 1},
              param : Params \cup {NoParam}]

Steps == {"detached", "absent", "idle", "init", "load", "setup", "open",
          "auto", "try", "lock", "finish", "apply", "manual"}

Init ==
  /\ pc = "detached"
  /\ k = 1
  /\ gi = 945
  /\ detected = NoParam
  /\ curr_gi = 0
  /\ status = FALSE
  /\ clk = FALSE
  /\ cpu = "boot"
  /\ reg \in Registers
  /\ chan = NoChannel
  /\ faulted = FALSE

\* How an access may end.
Access == IF BusFaults THEN BOOLEAN ELSE {TRUE}

\* What a field reads as: itself, its ones, or whatever the byte held before.
Reads(ok, field, ones, all) ==
  IF ~ok THEN all ELSE IF clk THEN {field} ELSE {ones}

\* A write reaches the chip.
Written(ok, new) == reg' = IF ok /\ clk THEN new ELSE reg

\* lgs8gxx_soft_reset resets the 8051 into its boot loader.
SoftReset(ok) == cpu' = IF ok /\ clk THEN "boot" ELSE cpu

\* The chip locks when it is set up for the channel.
HwLock == clk /\ chan # NoChannel /\ reg.gi = chan.gi /\ reg.cpn = chan.cpn

Goto(from, to) == pc = from /\ pc' = to
Fault(ok) == faulted' = (faulted \/ ~ok)

-----------------------------------------------------------------------------
(* lgs8gxx_attach, lgs8gxx_init                                            *)

Attach ==
  /\ \E ok \in Access : Goto("detached", IF ok THEN "idle" ELSE "absent")
  /\ UNCHANGED <<k, gi, detected, curr_gi, status, chip, chan, faulted>>

Open ==
  /\ Goto("idle", "init")
  /\ UNCHANGED <<k, gi, detected, curr_gi, status, chip, chan, faulted>>

Close ==
  /\ Goto("open", "idle")
  /\ UNCHANGED <<k, gi, detected, curr_gi, status, chip, chan, faulted>>

\* lgs8g75_init_data without a firmware file: no download, and lgs8gxx_init
\* ignores that.
NoFirmware ==
  /\ Goto("init", "setup")
  /\ UNCHANGED <<k, gi, detected, curr_gi, status, chip, chan, faulted>>

\* lgs8g75_init_data up to the first byte: a soft reset, and register 0x18 is
\* written back as read, or as 0xFF where the read failed.
EnterDownload ==
  /\ Goto("init", "load")
  /\ \E s, r, w \in Access :
       /\ SoftReset(s)
       /\ Written(w, [reg EXCEPT !.cpn = IF r THEN @ ELSE 1])
       /\ Fault(s /\ r /\ w)
  /\ UNCHANGED <<k, gi, detected, curr_gi, status, clk, chan>>

\* The image goes in byte by byte; no write is checked.
Download ==
  /\ Goto("load", "setup")
  /\ cpu' \in IF ~clk THEN {cpu}
              ELSE IF BusFaults THEN {cpu, "firmware", "damaged"} ELSE {"firmware"}
  /\ UNCHANGED <<k, gi, detected, curr_gi, status, clk, reg, chan, faulted>>

\* MPEG mode, IF frequency and ADC mode.  A failure of the first is returned,
\* and the frontend is open all the same.  No soft reset follows.
Setup ==
  /\ Goto("setup", "open")
  /\ UNCHANGED <<k, gi, detected, curr_gi, status, chip, chan, faulted>>

-----------------------------------------------------------------------------
(* a328_set_frontend, lgs8gxx_set_fe, lgs8gxx_auto_lock                    *)

\* a328_mscd_clk_on, then the tuner goes to the channel.
SetFrontend ==
  /\ Goto("open", "auto")
  /\ clk' = TRUE
  /\ chan' \in Channels \cup {NoChannel}
  /\ gi' = 945
  /\ detected' = NoParam
  /\ k' = 1
  /\ faulted' = FALSE
  /\ UNCHANGED <<curr_gi, status, cpu, reg>>

\* lgs8gxx_set_mode_auto
SetModeAuto ==
  /\ Goto("auto", "try")
  /\ \E r, w \in Access :
       /\ \E g \in Reads(r, reg.gi, NoInterval, GuardIntervals \cup {NoInterval}) :
            Written(w, [reg EXCEPT !.gi = g, !.auto = TRUE])
       /\ Fault(r /\ w)
  /\ UNCHANGED <<k, gi, detected, curr_gi, status, clk, cpu, chan>>

NowTrying == Tries[((k - 1) % Len(Tries)) + 1]

\* lgs8gxx_autolock_gi, up to its soft reset.
TryGi ==
  /\ Goto("try", "lock")
  /\ \E r, w1, w2, s \in Access :
       /\ \E a \in Reads(r, reg.auto, TRUE, BOOLEAN) :
            reg' = [reg EXCEPT
                     !.gi   = IF w1 /\ clk THEN NowTrying.gi ELSE @,
                     !.auto = IF w1 /\ clk THEN a ELSE @,
                     !.cpn  = IF w2 /\ clk THEN NowTrying.cpn ELSE @]
       /\ SoftReset(s)
       /\ Fault(r /\ w1 /\ w2 /\ s)
  /\ UNCHANGED <<k, gi, detected, curr_gi, status, clk, chan>>

\* Faulty variants: the search ends at its first failure; one try too many.
GiveUp == pc' = "apply" /\ k' = k
OneTryMore ==
  IF k <= Rounds * Len(Tries)
  THEN pc' = "try" /\ k' = k + 1
  ELSE pc' = "apply" /\ k' = k

\* The next try, or the end of the search.
NextTry ==
  IF k < Rounds * Len(Tries)
  THEN pc' = "try" /\ k' = k + 1
  ELSE pc' = "apply" /\ k' = k

\* wait_reg_mask: the value waited for shows up, or a failed read leaves some
\* byte that has it, or lacks it.
Waits(holds) == {[ok |-> TRUE, seen |-> holds]}
                  \cup IF BusFaults THEN {[ok |-> FALSE, seen |-> s] : s \in BOOLEAN} ELSE {}

\* lgs8gxx_wait_ca_lock
WaitCaLock ==
  /\ pc = "lock"
  /\ \E w \in Waits(HwLock) :
       /\ IF w.seen THEN pc' = "finish" /\ k' = k ELSE NextTry
       /\ Fault(w.ok)
  /\ UNCHANGED <<gi, detected, curr_gi, status, chip, chan>>

\* lgs8gxx_is_autodetect_finished, and lgs8gxx_auto_detect's reading of the result.
WaitFinished ==
  /\ pc = "finish"
  /\ \E w \in Waits(HwLock /\ reg.auto), r \in Access :
       /\ IF w.seen
          THEN /\ pc' = "apply" /\ k' = k
               /\ gi' = NowTrying.gi
               /\ detected' \in Reads(r, chan.param, NoParam, Params \cup {NoParam})
          ELSE NextTry /\ UNCHANGED <<gi, detected>>
       /\ Fault(w.ok /\ r)
  /\ UNCHANGED <<curr_gi, status, chip, chan>>

\* The detected parameters are written back, found or not, and reset the chip.
Apply ==
  /\ Goto("apply", "manual")
  /\ \E r, w, s \in Access :
       /\ Written(w, [reg EXCEPT !.param = detected])
       /\ SoftReset(s)
       /\ Fault(r /\ w /\ s)
  /\ UNCHANGED <<k, gi, detected, curr_gi, status, clk, chan>>

\* lgs8gxx_set_mode_manual and the bookkeeping of lgs8gxx_auto_lock.
SetModeManual ==
  /\ Goto("manual", "open")
  /\ \E r, w, s \in Access :
       /\ \E g \in Reads(r, reg.gi, NoInterval, GuardIntervals \cup {NoInterval}) :
            Written(w, [reg EXCEPT !.gi = g, !.auto = FALSE])
       /\ SoftReset(s)
       /\ Fault(r /\ w /\ s)
  /\ curr_gi' = gi
  /\ UNCHANGED <<k, gi, detected, status, clk, chan>>

\* Faulty variant: the byte of a failed read is looked at.
ReportsAnyway(ok) == TRUE

\* lgs8gxx_is_locked returns before it looks at the byte of a failed read.
ReportsLock(ok) == ok

\* lgs8gxx_read_status
ReadStatus ==
  /\ pc = "open"
  /\ \E ok \in Access :
       \E lock \in Reads(ok, HwLock, TRUE, BOOLEAN) :
          status' = (ReportsLock(ok) /\ lock)
  /\ UNCHANGED <<pc, k, gi, detected, curr_gi, chip, chan, faulted>>

-----------------------------------------------------------------------------
Search == SetModeAuto \/ TryGi \/ WaitCaLock \/ WaitFinished \/ Apply \/ SetModeManual

Next ==
  \/ Attach \/ Open \/ NoFirmware \/ EnterDownload \/ Download \/ Setup
  \/ SetFrontend \/ Search \/ ReadStatus \/ Close

Spec == Init /\ [][Next]_vars

-----------------------------------------------------------------------------
(* Properties.                                                             *)

TypeOK ==
  /\ pc \in Steps
  /\ k \in 1 .. Rounds * Len(Tries)
  /\ gi \in GuardIntervals
  /\ detected \in Params \cup {NoParam}
  /\ curr_gi \in GuardIntervals \cup {0}
  /\ status \in BOOLEAN
  /\ clk \in BOOLEAN
  /\ cpu \in {"boot", "firmware", "damaged"}
  /\ reg \in Registers
  /\ chan \in Channels \cup {NoChannel}
  /\ faulted \in BOOLEAN

\* The chip is set up for channel c, and the driver knows it.
TunedTo(c) == HwLock /\ reg.param = c.param /\ curr_gi = c.gi /\ ~reg.auto

\* A tune in which no access failed ends in manual mode with the channel's own
\* guard interval, PN phase and parameters set and recorded, whichever of the
\* tries is the channel's and whatever an earlier tune left in the registers.
TunedRight == pc = "open" /\ chan # NoChannel /\ ~faulted => TunedTo(chan)

\* When no access failed in the tune, a lock reported to the user means that
\* there is a channel and the chip is set up for it completely, even if the
\* accesses of the status itself fail.
NoFakeLock == [][ReadStatus /\ clk /\ ~faulted => (status' => TunedTo(chan))]_vars

\* lgs8gxx.c:678-683: a soft reset would discard the firmware, so none follows
\* the download.
FirmwareKept == [][cpu = "firmware" /\ pc # "init" => cpu' = "firmware"]_vars

\* saa7231_drv.c:1839-1841: the clocks go on before the demodulator is touched,
\* at the attachment excepted.
ClockBeforeDemod == pc \in {"init", "load", "setup"} => clk
=============================================================================
