----------------------------- MODULE A328Board -----------------------------
(***************************************************************************)
(* Several A328 cards in one machine: the probe and remove of each as far  *)
(* as its clocks, its GPIO pins and its frontend are concerned, and the    *)
(* tunes and feeds of their users, which begin as soon as the frontend is  *)
(* registered, in the middle of the probe.                                 *)
(*                                                                         *)
(* saa7231_drv.c (frontend_enable, frontend_attach and the wrappers),      *)
(* saa7231_gpio.c, saa7231_cgu.c, saa7231_dvb.c (init).                    *)
(***************************************************************************)
EXTENDS CguClocks

CONSTANTS
  Cards,
  ResetPin,   \* a328_gpio_reset: a pin in 0 .. 7, or another value to skip the pulse
  NoCard

ASSUME CardsAssumption == Cards # {} /\ NoCard \notin Cards

Pins == 0 .. 7

VARIABLES
  pc,         \* of every card: the step of its driver's thread to come
  clocks,     \* its clocks
  low,        \* its GPIO pins that are not high
  fe,         \* dvb->fe: "none", "bare", with the "tuner", or "wrapped" as well
  registered, \* the frontend is registered
  clock_run,  \* dtl->clock_run of its stream
  latest,     \* the card whose attach last wrote a328_set_frontend_orig and its like
  tuned,      \* history: "no", or whether the clocks were open at the last tune
  reached     \* history: <<c, d>> where a tune of card c has used card d

vars == <<pc, clocks, low, fe, registered, clock_run, latest, tuned, reached>>

Unset ==
  [out |-> [d \in Domains |-> Setting(0, 0, 0)], setup |-> [d \in Domains |-> Noted(0, 0, 0)],
   active |-> FALSE, adc |-> 0, wrote |-> {}]

Init ==
  /\ pc = [c \in Cards |-> "off"]
  /\ clocks = [c \in Cards |-> Unset]
  /\ low = [c \in Cards |-> Pins]
  /\ fe = [c \in Cards |-> "none"]
  /\ registered = {}
  /\ clock_run = {}
  /\ latest = NoCard
  /\ tuned = [c \in Cards |-> "no"]
  /\ reached = {}

At(c, here, next) == pc[c] = here /\ pc' = [pc EXCEPT ![c] = next]

-----------------------------------------------------------------------------
(* Probe.                                                                  *)

InitClocks(c) ==
  /\ At(c, "off", "enable")
  /\ clocks' = [clocks EXCEPT ![c] = cgu_init(@)]
  /\ tuned' = [tuned EXCEPT ![c] = "no"]
  /\ UNCHANGED <<low, fe, registered, clock_run, latest, reached>>

\* saa7231_frontend_enable: all pins are outputs, and high.
FrontendEnable(c) ==
  /\ At(c, "enable", IF ResetPin \in Pins THEN "pulse" ELSE "demod")
  /\ low' = [low EXCEPT ![c] = {}]
  /\ UNCHANGED <<clocks, fe, registered, clock_run, latest, tuned, reached>>

\* saa7231_frontend_attach: the demodulator's reset.
PullLow(c) ==
  /\ At(c, "pulse", "release")
  /\ low' = [low EXCEPT ![c] = @ \cup {ResetPin}]
  /\ UNCHANGED <<clocks, fe, registered, clock_run, latest, tuned, reached>>

Release(c) ==
  /\ At(c, "release", "demod")
  /\ low' = [low EXCEPT ![c] = @ \ {ResetPin}]
  /\ UNCHANGED <<clocks, fe, registered, clock_run, latest, tuned, reached>>

\* lgs8gxx_attach: without a demodulator there is nothing to register.
AttachDemod(c) ==
  /\ \/ At(c, "demod", "stream") /\ UNCHANGED fe
     \/ At(c, "demod", "tuner") /\ fe' = [fe EXCEPT ![c] = "bare"]
  /\ UNCHANGED <<clocks, low, registered, clock_run, latest, tuned, reached>>

\* tda18271_attach. If it fails dvb->fe stays, and dvb_init registers it as it is.
AttachTuner(c) ==
  /\ \/ At(c, "tuner", "register") /\ UNCHANGED fe
     \/ At(c, "tuner", "mount") /\ fe' = [fe EXCEPT ![c] = "tuner"]
  /\ UNCHANGED <<clocks, low, registered, clock_run, latest, tuned, reached>>

\* Faulty variant: the wrappers are mounted once, as their originals are static.
MountedOnce(c) == IF latest = NoCard THEN "wrapped" ELSE fe[c]

\* The wrappers are mounted on the card's own frontend.
Mounted(c) == "wrapped"

Mount(c) ==
  /\ At(c, "mount", "register")
  /\ fe' = [fe EXCEPT ![c] = Mounted(c)]
  /\ latest' = c
  /\ UNCHANGED <<clocks, low, registered, clock_run, tuned, reached>>

Register(c) ==
  /\ At(c, "register", "stream")
  /\ registered' = registered \cup {c}
  /\ UNCHANGED <<clocks, low, fe, clock_run, latest, tuned, reached>>

\* saa7231_ts2dtl_acquire.
Acquired(c) ==
  /\ clocks' = IF c \in clock_run THEN clocks ELSE [clocks EXCEPT ![c] = activate_clocks(@)]
  /\ clock_run' = clock_run \cup {c}

InitStream(c) ==
  /\ At(c, "stream", "bound")
  /\ Acquired(c)
  /\ UNCHANGED <<low, fe, registered, latest, tuned, reached>>

\* saa7231_dvb_exit, then saa7231_cgu_exit: the registers and the pins stay as they are.
Remove(c) ==
  /\ At(c, "bound", "off")
  /\ fe' = [fe EXCEPT ![c] = "none"]
  /\ registered' = registered \ {c}
  /\ clock_run' = clock_run \ {c}
  /\ UNCHANGED <<clocks, low, latest, tuned, reached>>

-----------------------------------------------------------------------------
(* The users.                                                              *)

\* Faulty variant: a static pointer, written by every attach.
LatestDev(c) == latest

\* a328_fe_to_dev.
a328_fe_to_dev(c) == c

\* a328_set_frontend opens the clocks, the demodulator's own set_frontend follows, and in it
\* a328_tuner_set_params reaches for the tuner; a bare frontend has only the second.
Tune(c) ==
  LET dev == a328_fe_to_dev(c) IN
  /\ c \in registered
  /\ IF fe[c] = "wrapped"
     THEN /\ clocks' = [clocks EXCEPT ![dev] = a328_mscd_clk_on(@)]
          /\ reached' = reached \cup {<<c, dev>>}
     ELSE UNCHANGED <<clocks, reached>>
  /\ tuned' = [tuned EXCEPT ![c] = IF MscdOpen(clocks'[c]) THEN "clocked" ELSE "unclocked"]
  /\ UNCHANGED <<pc, low, fe, registered, clock_run, latest>>

\* The first feed and the last one, with or without a frontend. Before the stream is there
\* a feed does not come this far.
StartFeed(c) ==
  /\ pc[c] = "bound"
  /\ Acquired(c)
  /\ UNCHANGED <<pc, low, fe, registered, latest, tuned, reached>>

StopFeed(c) ==
  /\ pc[c] = "bound"
  /\ clock_run' = clock_run \ {c}
  /\ UNCHANGED <<pc, clocks, low, fe, registered, latest, tuned, reached>>

Probe(c) ==
  \/ InitClocks(c) \/ FrontendEnable(c) \/ PullLow(c) \/ Release(c)
  \/ AttachDemod(c) \/ AttachTuner(c) \/ Mount(c) \/ Register(c) \/ InitStream(c)
User(c) == Tune(c) \/ StartFeed(c) \/ StopFeed(c)

Next == \E c \in Cards : Probe(c) \/ Remove(c) \/ User(c)

Spec == Init /\ [][Next]_vars

-----------------------------------------------------------------------------
(* Properties.                                                             *)

Clocks == [out : [Domains -> Output], setup : [Domains -> [clk_in : Nat, div : Nat, preset : Nat]],
           active : BOOLEAN, adc : Nat, wrote : SUBSET Domains]

TypeOK ==
  /\ pc \in [Cards -> {"off", "enable", "pulse", "release", "demod", "tuner", "mount", "register",
                       "stream", "bound"}]
  /\ clocks \in [Cards -> Clocks]
  /\ low \in [Cards -> SUBSET Pins]
  /\ fe \in [Cards -> {"none", "bare", "tuner", "wrapped"}]
  /\ registered \subseteq Cards
  /\ clock_run \subseteq Cards
  /\ latest \in Cards \cup {NoCard}
  /\ tuned \in [Cards -> {"no", "clocked", "unclocked"}]
  /\ reached \subseteq Cards \X Cards

\* After cgu_init no clock output of 0x80 .. 0x90 is ever written: not by a tune, and not by
\* an activation, although its use case asks for STREAM_PCC.
LandminesUntouched ==
  \A c \in Cards : clocks[c].wrote \cap Landmines # {} => clocks[c].wrote = Domains

\* From a tune of the card to its next probe the demodulator's clocks stay open, whatever is
\* activated in between: the bookkeeping, which knows nothing of the tune, agrees with the
\* use case.
TunedClocksStay == \A c \in Cards : tuned[c] = "clocked" => MscdOpen(clocks[c])

\* A tune uses no card but its own.
TunesOwnCard == \A c, d \in Cards : <<c, d>> \in reached => c = d

\* A tune finds all of the frontend's pins high; and it finds the clocks shut only where the
\* tuner could not be attached.
FrontendReady ==
  \A c \in registered : tuned[c] # "no" =>
    /\ low[c] = {}
    /\ tuned[c] = "unclocked" => fe[c] = "bare"
=============================================================================
