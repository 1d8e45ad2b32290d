--------------------------- MODULE Lgs8g75Proofs ---------------------------
(***************************************************************************)
(* What Lgs8g75 guarantees for any set of transmission parameters, with or *)
(* without failing accesses: types, and that a tune without a failure      *)
(* finds the channel and sets the chip up for it.                          *)
(***************************************************************************)
EXTENDS Lgs8g75, TLAPS

Found(c) == \E i \in k .. Len(Tries) : Tries[i].gi = c.gi /\ Tries[i].cpn = c.cpn

\* What holds of the search while no access has failed.
SearchInv ==
  /\ pc = "auto" => k = 1
  /\ pc \in {"try", "lock", "finish"} => reg.auto /\ Found(chan)
  /\ pc \in {"lock", "finish"} => reg.gi = NowTrying.gi /\ reg.cpn = NowTrying.cpn
  /\ pc = "finish" => HwLock
  /\ pc \in {"apply", "manual"} => HwLock /\ gi = chan.gi /\ detected = chan.param
  /\ pc = "manual" => reg.param = chan.param
  /\ pc \notin {"auto", "try", "lock", "finish", "apply", "manual"} => TunedTo(chan)

\* From the first tune on the clocks are on.
ClockInv ==
  pc \in {"auto", "try", "lock", "finish", "apply", "manual"} \/ chan # NoChannel => clk

IInv ==
  /\ TypeOK
  /\ ClockInv
  /\ chan # NoChannel /\ ~faulted => SearchInv

-----------------------------------------------------------------------------
(* The tries.                                                              *)

LEMMA TriesFacts ==
  /\ Len(Tries) = 5
  /\ DOMAIN Tries = 1 .. 5
  /\ \A i \in 1 .. 5 : Tries[i].gi \in GuardIntervals /\ Tries[i].cpn \in {0, 1}
BY DEF Tries, GuardIntervals

\* The first round tries the tries in order.
LEMMA FirstRound ==
  ASSUME k \in 1 .. 5
  PROVE  NowTrying = Tries[k]
<1>1. ((k - 1) % 5) + 1 = k
  OBVIOUS
<1> QED
  BY <1>1, TriesFacts DEF NowTrying

LEMMA NowTryingType ==
  ASSUME k \in Nat \ {0}
  PROVE  NowTrying.gi \in GuardIntervals /\ NowTrying.cpn \in {0, 1}
<1>1. ((k - 1) % 5) + 1 \in 1 .. 5
  OBVIOUS
<1> QED
  BY <1>1, TriesFacts DEF NowTrying

\* Every channel is found by some try.
LEMMA ChannelTry ==
  ASSUME NEW c \in Channels
  PROVE  /\ \E i \in 1 .. 5 : Tries[i].gi = c.gi /\ Tries[i].cpn = c.cpn
         /\ c.param \in Params
<1>1. PICK i \in DOMAIN Tries, p \in Params :
        c = [gi |-> Tries[i].gi, cpn |-> Tries[i].cpn, param |-> p]
  BY DEF Channels
<1>2. c.gi = Tries[i].gi /\ c.cpn = Tries[i].cpn /\ c.param = p
  BY <1>1
<1> QED
  BY <1>2, TriesFacts

-----------------------------------------------------------------------------
(* Type correctness.                                                       *)

LEMMA InitType == Init => TypeOK
<1> SUFFICES ASSUME Init PROVE TypeOK
  OBVIOUS
<1>1. k \in 1 .. Rounds * Len(Tries)
  BY TriesFacts DEF Init, Rounds
<1> QED
  BY <1>1 DEF Init, TypeOK, Steps, GuardIntervals

LEMMA AccessType == Access \subseteq BOOLEAN
BY DEF Access

LEMMA NextTryType ==
  ASSUME TypeOK, NextTry
  PROVE  pc' \in Steps /\ k' \in 1 .. Rounds * Len(Tries)
BY TriesFacts DEF TypeOK, NextTry, Rounds, Steps

LEMMA SoftResetType ==
  ASSUME TypeOK, NEW ok \in BOOLEAN, SoftReset(ok)
  PROVE  cpu' \in {"boot", "firmware", "damaged"}
BY DEF TypeOK, SoftReset

LEMMA ReadInterval ==
  ASSUME TypeOK, NEW ok,
         NEW g \in Reads(ok, reg.gi, NoInterval, GuardIntervals \cup {NoInterval})
  PROVE  g \in GuardIntervals \cup {NoInterval}
BY DEF TypeOK, Registers, Reads

\* Each write leaves the registers well typed.
LEMMA RegistersType ==
  ASSUME TypeOK,
         NEW g \in GuardIntervals \cup {NoInterval}, NEW a \in BOOLEAN, NEW c \in {0, 1},
         NEW p \in Params \cup {NoParam}
  PROVE  /\ [reg EXCEPT !.gi = g, !.auto = a] \in Registers
         /\ [reg EXCEPT !.gi = g, !.auto = a, !.cpn = c] \in Registers
         /\ [reg EXCEPT !.cpn = c] \in Registers
         /\ [reg EXCEPT !.param = p] \in Registers
BY DEF TypeOK, Registers

LEMMA NextType ==
  ASSUME TypeOK, [Next]_vars
  PROVE  TypeOK'
<1> USE AccessType
<1>1. CASE UNCHANGED vars
  BY <1>1 DEF vars, chip, TypeOK
<1>2. CASE Attach
  BY <1>2 DEF Attach, TypeOK, Goto, Steps, chip
<1>3. CASE Open
  BY <1>3 DEF Open, TypeOK, Goto, Steps, chip
<1>4. CASE NoFirmware
  BY <1>4 DEF NoFirmware, TypeOK, Goto, Steps, chip
<1>5. CASE EnterDownload
  <2>1. PICK s \in Access, r \in Access, w \in Access :
          /\ SoftReset(s)
          /\ Written(w, [reg EXCEPT !.cpn = IF r THEN @ ELSE 1])
          /\ Fault(s /\ r /\ w)
    BY <1>5 DEF EnterDownload
  <2>2. reg' \in Registers
    <3>1. (IF r THEN reg.cpn ELSE 1) \in {0, 1}
      BY DEF TypeOK, Registers
    <3> QED
      BY <2>1, <3>1 DEF Written, TypeOK, Registers
  <2>3. cpu' \in {"boot", "firmware", "damaged"}
    BY <2>1, SoftResetType
  <2>4. faulted' \in BOOLEAN
    BY <2>1 DEF Fault, TypeOK
  <2> QED
    BY <1>5, <2>2, <2>3, <2>4 DEF EnterDownload, TypeOK, Goto, Steps
<1>6. CASE Download
  BY <1>6 DEF Download, TypeOK, Goto, Steps
<1>7. CASE Setup
  BY <1>7 DEF Setup, TypeOK, Goto, Steps, chip
<1>8. CASE SetFrontend
  <2>1. 1 \in 1 .. Rounds * Len(Tries)
    BY TriesFacts DEF Rounds
  <2>2. k' \in 1 .. Rounds * Len(Tries)
    BY <1>8, <2>1 DEF SetFrontend
  <2>3. gi' \in GuardIntervals
    BY <1>8 DEF SetFrontend, GuardIntervals
  <2>4. reg' \in Registers
    BY <1>8 DEF SetFrontend, TypeOK
  <2> HIDE DEF Registers, Channels
  <2> QED
    BY <1>8, <2>2, <2>3, <2>4 DEF SetFrontend, TypeOK, Goto, Steps
<1>9. CASE SetModeAuto
  <2>1. PICK r \in Access, w \in Access :
          /\ \E g \in Reads(r, reg.gi, NoInterval, GuardIntervals \cup {NoInterval}) :
               Written(w, [reg EXCEPT !.gi = g, !.auto = TRUE])
          /\ Fault(r /\ w)
    BY <1>9 DEF SetModeAuto
  <2>2. reg' \in Registers
    BY <2>1, ReadInterval, RegistersType DEF Written, TypeOK
  <2>3. faulted' \in BOOLEAN
    BY <2>1 DEF Fault, TypeOK
  <2> QED
    BY <1>9, <2>2, <2>3 DEF SetModeAuto, TypeOK, Goto, Steps
<1>10. CASE TryGi
  <2>1. PICK r \in Access, w1 \in Access, w2 \in Access, s \in Access :
          /\ \E a \in Reads(r, reg.auto, TRUE, BOOLEAN) :
               reg' = [reg EXCEPT
                        !.gi   = IF w1 /\ clk THEN NowTrying.gi ELSE @,
                        !.auto = IF w1 /\ clk THEN a ELSE @,
                        !.cpn  = IF w2 /\ clk THEN NowTrying.cpn ELSE @]
          /\ SoftReset(s)
          /\ Fault(r /\ w1 /\ w2 /\ s)
    BY <1>10 DEF TryGi
  <2>2. PICK a \in Reads(r, reg.auto, TRUE, BOOLEAN) :
          reg' = [reg EXCEPT
                   !.gi   = IF w1 /\ clk THEN NowTrying.gi ELSE @,
                   !.auto = IF w1 /\ clk THEN a ELSE @,
                   !.cpn  = IF w2 /\ clk THEN NowTrying.cpn ELSE @]
    BY <2>1
  <2>3. a \in BOOLEAN
    BY DEF Reads, TypeOK, Registers
  <2>4. NowTrying.gi \in GuardIntervals /\ NowTrying.cpn \in {0, 1}
    BY NowTryingType DEF TypeOK
  <2>5. reg' \in Registers
    BY <2>2, <2>3, <2>4 DEF TypeOK, Registers
  <2>6. cpu' \in {"boot", "firmware", "damaged"}
    BY <2>1, SoftResetType
  <2>7. faulted' \in BOOLEAN
    BY <2>1 DEF Fault, TypeOK
  <2> QED
    BY <1>10, <2>5, <2>6, <2>7 DEF TryGi, TypeOK, Goto, Steps
<1>11. CASE WaitCaLock
  <2>1. faulted' \in BOOLEAN
    BY <1>11 DEF WaitCaLock, Fault, TypeOK
  <2>2. pc' \in Steps /\ k' \in 1 .. Rounds * Len(Tries)
    BY <1>11, NextTryType DEF WaitCaLock, TypeOK, Steps
  <2> QED
    BY <1>11, <2>1, <2>2 DEF WaitCaLock, TypeOK, chip
<1>12. CASE WaitFinished
  <2>1. faulted' \in BOOLEAN
    BY <1>12 DEF WaitFinished, Fault, TypeOK
  <2>2. pc' \in Steps /\ k' \in 1 .. Rounds * Len(Tries)
    BY <1>12, NextTryType DEF WaitFinished, TypeOK, Steps
  <2>3. gi' \in GuardIntervals
    BY <1>12, NowTryingType DEF WaitFinished, TypeOK
  <2>4. detected' \in Params \cup {NoParam}
    <3>1. chan.param \in Params \cup {NoParam}
      BY ChannelTry DEF TypeOK, NoChannel
    <3>2. ASSUME NEW r PROVE Reads(r, chan.param, NoParam, Params \cup {NoParam})
                               \subseteq Params \cup {NoParam}
      BY <3>1 DEF Reads
    <3> QED
      BY <1>12, <3>2 DEF WaitFinished, TypeOK
  <2> QED
    BY <1>12, <2>1, <2>2, <2>3, <2>4 DEF WaitFinished, TypeOK, chip
<1>13. CASE Apply
  <2>1. PICK r \in Access, w \in Access, s \in Access :
          /\ Written(w, [reg EXCEPT !.param = detected])
          /\ SoftReset(s)
          /\ Fault(r /\ w /\ s)
    BY <1>13 DEF Apply
  <2>2. reg' \in Registers
    BY <2>1 DEF Written, TypeOK, Registers
  <2>3. cpu' \in {"boot", "firmware", "damaged"}
    BY <2>1, SoftResetType
  <2>4. faulted' \in BOOLEAN
    BY <2>1 DEF Fault, TypeOK
  <2> QED
    BY <1>13, <2>2, <2>3, <2>4 DEF Apply, TypeOK, Goto, Steps
<1>14. CASE SetModeManual
  <2>1. PICK r \in Access, w \in Access, s \in Access :
          /\ \E g \in Reads(r, reg.gi, NoInterval, GuardIntervals \cup {NoInterval}) :
               Written(w, [reg EXCEPT !.gi = g, !.auto = FALSE])
          /\ SoftReset(s)
          /\ Fault(r /\ w /\ s)
    BY <1>14 DEF SetModeManual
  <2>2. reg' \in Registers
    BY <2>1, ReadInterval, RegistersType DEF Written, TypeOK
  <2>3. cpu' \in {"boot", "firmware", "damaged"}
    BY <2>1, SoftResetType
  <2>4. faulted' \in BOOLEAN
    BY <2>1 DEF Fault, TypeOK
  <2> QED
    BY <1>14, <2>2, <2>3, <2>4 DEF SetModeManual, TypeOK, Goto, Steps
<1>15. CASE ReadStatus
  <2>1. status' \in BOOLEAN
    BY <1>15 DEF ReadStatus
  <2> QED
    BY <1>15, <2>1 DEF ReadStatus, TypeOK, chip
<1>16. CASE Close
  BY <1>16 DEF Close, TypeOK, Goto, Steps, chip
<1> QED
  BY <1>1, <1>2, <1>3, <1>4, <1>5, <1>6, <1>7, <1>8, <1>9, <1>10, <1>11, <1>12, <1>13,
     <1>14, <1>15, <1>16 DEF Next, Search

\* The registers of the chip and the driver's bookkeeping keep their types,
\* whatever accesses fail and whatever a failed read leaves behind.
THEOREM TypeCorrect == Spec => []TypeOK
<1>1. Init => TypeOK
  BY InitType
<1>2. TypeOK /\ [Next]_vars => TypeOK'
  BY NextType
<1> QED
  BY <1>1, <1>2, PTL DEF Spec

-----------------------------------------------------------------------------
(* A tune without a failed access.                                         *)

LEMMA InitIInv == Init => IInv
<1> SUFFICES ASSUME Init PROVE IInv
  OBVIOUS
<1>1. TypeOK
  BY InitType
<1>2. ClockInv
  BY DEF Init, ClockInv
<1>3. chan = NoChannel
  BY DEF Init
<1> QED
  BY <1>1, <1>2, <1>3 DEF IInv

LEMMA NextClock ==
  ASSUME TypeOK, ClockInv, [Next]_vars
  PROVE  ClockInv'
<1>1. CASE UNCHANGED vars
  BY <1>1 DEF vars, chip, ClockInv
<1>2. CASE SetFrontend
  BY <1>2 DEF SetFrontend, ClockInv
<1>3. CASE SetModeAuto \/ TryGi \/ Apply \/ SetModeManual
  BY <1>3 DEF SetModeAuto, TryGi, Apply, SetModeManual, Goto, ClockInv
<1>4. CASE WaitCaLock \/ WaitFinished
  BY <1>4 DEF WaitCaLock, WaitFinished, NextTry, chip, ClockInv
<1>5. CASE Attach \/ Open \/ NoFirmware \/ Setup \/ Close
  BY <1>5 DEF Attach, Open, NoFirmware, Setup, Close, Goto, chip, ClockInv
<1>6. CASE EnterDownload \/ Download
  BY <1>6 DEF EnterDownload, Download, Goto, ClockInv
<1>7. CASE ReadStatus
  BY <1>7 DEF ReadStatus, chip, ClockInv
<1> QED
  BY <1>1, <1>2, <1>3, <1>4, <1>5, <1>6, <1>7 DEF Next, Search

\* The search has not yet passed a try of the channel, and the present try is
\* not it: the next one exists and the try is still to come.
LEMMA StillToCome ==
  ASSUME TypeOK, chan # NoChannel, clk, Found(chan), NextTry, UNCHANGED chan,
         reg.gi = NowTrying.gi, reg.cpn = NowTrying.cpn, ~HwLock
  PROVE  pc' = "try" /\ Found(chan)'
<1>1. PICK i \in k .. 5 : Tries[i].gi = chan.gi /\ Tries[i].cpn = chan.cpn
  BY TriesFacts DEF Found
<1>2. k \in 1 .. 10
  BY TriesFacts DEF TypeOK, Rounds
<1>3. k \in 1 .. 5
  BY <1>1, <1>2
<1>4. i # k
  BY <1>1, <1>3, FirstRound DEF HwLock
<1>5. k < 10 /\ i \in k + 1 .. 5
  BY <1>1, <1>3, <1>4
<1>6. pc' = "try" /\ k' = k + 1
  BY <1>5, TriesFacts DEF NextTry, Rounds
<1>7. Found(chan)'
  BY <1>1, <1>5, <1>6, TriesFacts DEF Found
<1> QED
  BY <1>6, <1>7

Unfaulted == chan # NoChannel /\ ~faulted

LEMMA NextSearch ==
  ASSUME IInv, [Next]_vars, TypeOK', ClockInv', Unfaulted'
  PROVE  SearchInv'
<1> USE DEF IInv
<1>a. Access \subseteq BOOLEAN
  BY AccessType
<1>1. CASE UNCHANGED vars
  BY <1>1 DEF vars, chip, Unfaulted, SearchInv, Found, NowTrying, HwLock, TunedTo
<1>2. CASE SetFrontend
  BY <1>2 DEF SetFrontend, Goto, SearchInv
<1>3. CASE Attach \/ Open \/ NoFirmware \/ Setup \/ Close \/ Download \/ ReadStatus
  <2>1. /\ UNCHANGED <<k, gi, detected, curr_gi, clk, reg, chan, faulted>>
        /\ pc  \notin {"auto", "try", "lock", "finish", "apply", "manual"}
        /\ pc' \notin {"auto", "try", "lock", "finish", "apply", "manual"}
    BY <1>3 DEF Attach, Open, NoFirmware, Setup, Close, Download, ReadStatus, Goto, chip
  <2> QED
    BY <2>1 DEF Unfaulted, SearchInv, TunedTo, HwLock
<1>4. CASE EnterDownload
  <2>1. PICK s \in Access, r \in Access, w \in Access :
          /\ Written(w, [reg EXCEPT !.cpn = IF r THEN @ ELSE 1])
          /\ Fault(s /\ r /\ w)
    BY <1>4 DEF EnterDownload
  <2>2. ~faulted /\ r /\ w /\ chan # NoChannel
    BY <2>1, <1>4, <1>a DEF Fault, Unfaulted, TypeOK, EnterDownload
  <2>3. reg' = reg
    BY <2>1, <2>2 DEF Written, TypeOK, Registers
  <2> QED
    BY <1>4, <2>2, <2>3 DEF EnterDownload, Goto, SearchInv, TunedTo, HwLock
<1>5. CASE SetModeAuto
  <2>1. PICK r \in Access, w \in Access :
          /\ \E g \in Reads(r, reg.gi, NoInterval, GuardIntervals \cup {NoInterval}) :
               Written(w, [reg EXCEPT !.gi = g, !.auto = TRUE])
          /\ Fault(r /\ w)
    BY <1>5 DEF SetModeAuto
  <2>2. r /\ w /\ chan # NoChannel /\ chan' = chan
    BY <2>1, <1>5, <1>a DEF Fault, Unfaulted, SetModeAuto
  <2>3. clk
    BY <1>5 DEF ClockInv, SetModeAuto, Goto
  <2>4. reg'.auto
    BY <2>1, <2>2, <2>3 DEF Written, TypeOK, Registers
  <2>5. Found(chan)'
    <3>1. k' = 1 /\ ~faulted
      BY <1>5, <2>1, <2>2 DEF SetModeAuto, Goto, SearchInv, Fault, Unfaulted
    <3>2. PICK i \in 1 .. 5 : Tries[i].gi = chan.gi /\ Tries[i].cpn = chan.cpn
      BY <2>2, ChannelTry DEF TypeOK
    <3> QED
      BY <2>2, <3>1, <3>2, TriesFacts DEF Found
  <2> QED
    BY <1>5, <2>4, <2>5 DEF SetModeAuto, Goto, SearchInv
<1>6. CASE TryGi
  <2>1. PICK r \in Access, w1 \in Access, w2 \in Access, s \in Access :
          /\ \E a \in Reads(r, reg.auto, TRUE, BOOLEAN) :
               reg' = [reg EXCEPT
                        !.gi   = IF w1 /\ clk THEN NowTrying.gi ELSE @,
                        !.auto = IF w1 /\ clk THEN a ELSE @,
                        !.cpn  = IF w2 /\ clk THEN NowTrying.cpn ELSE @]
          /\ SoftReset(s)
          /\ Fault(r /\ w1 /\ w2 /\ s)
    BY <1>6 DEF TryGi
  <2>2. ~faulted /\ r /\ w1 /\ w2 /\ chan # NoChannel /\ chan' = chan
    BY <2>1, <1>6, <1>a DEF Fault, Unfaulted, TryGi
  <2>3. clk
    BY <1>6 DEF ClockInv, TryGi, Goto
  <2>4. reg' = [reg EXCEPT !.gi = NowTrying.gi, !.auto = reg.auto, !.cpn = NowTrying.cpn]
    BY <2>1, <2>2, <2>3 DEF Reads
  <2>5. reg.auto /\ Found(chan)
    BY <1>6, <2>2 DEF SearchInv, TryGi, Goto
  <2>6. reg'.auto /\ reg'.gi = NowTrying.gi /\ reg'.cpn = NowTrying.cpn
    BY <2>4, <2>5 DEF TypeOK, Registers
  <2>7. k' = k
    BY <1>6 DEF TryGi
  <2>8. Found(chan)' /\ NowTrying' = NowTrying
    BY <2>2, <2>5, <2>7 DEF Found, NowTrying
  <2> QED
    BY <1>6, <2>6, <2>8 DEF TryGi, Goto, SearchInv
<1>7. CASE WaitCaLock
  <2>1. PICK w \in Waits(HwLock) :
          /\ IF w.seen THEN pc' = "finish" /\ k' = k ELSE NextTry
          /\ Fault(w.ok)
    BY <1>7 DEF WaitCaLock
  <2>2. ~faulted /\ w.ok /\ chan # NoChannel /\ chan' = chan
    BY <2>1, <1>7 DEF Fault, Unfaulted, WaitCaLock
  <2>3. w.seen = HwLock
    BY <2>2 DEF Waits
  <2>4. clk /\ UNCHANGED <<reg, clk, gi, detected, curr_gi>>
    BY <1>7 DEF ClockInv, WaitCaLock, chip
  <2>5. /\ reg.auto /\ Found(chan)
        /\ reg.gi = NowTrying.gi /\ reg.cpn = NowTrying.cpn
    BY <1>7, <2>2 DEF SearchInv, WaitCaLock
  <2>6. CASE HwLock
    <3>1. pc' = "finish" /\ k' = k
      BY <2>1, <2>3, <2>6
    <3>2. Found(chan)' /\ NowTrying' = NowTrying /\ HwLock'
      BY <2>2, <2>4, <2>5, <2>6, <3>1 DEF Found, NowTrying, HwLock
    <3> QED
      BY <2>4, <2>5, <3>1, <3>2 DEF SearchInv
  <2>7. CASE ~HwLock
    <3>1. NextTry
      BY <2>1, <2>3, <2>7
    <3>2. pc' = "try" /\ Found(chan)'
      BY <2>2, <2>4, <2>5, <2>7, <3>1, StillToCome
    <3> QED
      BY <2>4, <2>5, <3>2 DEF SearchInv
  <2> QED
    BY <2>6, <2>7
<1>8. CASE WaitFinished
  <2>1. PICK w \in Waits(HwLock /\ reg.auto), r \in Access :
          /\ IF w.seen
             THEN /\ pc' = "apply" /\ k' = k
                  /\ gi' = NowTrying.gi
                  /\ detected' \in Reads(r, chan.param, NoParam, Params \cup {NoParam})
             ELSE NextTry /\ UNCHANGED <<gi, detected>>
          /\ Fault(w.ok /\ r)
    BY <1>8 DEF WaitFinished
  <2>2. ~faulted /\ w.ok /\ r /\ chan # NoChannel /\ chan' = chan
    BY <2>1, <1>8, <1>a DEF Fault, Unfaulted, WaitFinished
  <2>3. /\ HwLock /\ reg.auto
        /\ reg.gi = NowTrying.gi
    BY <1>8, <2>2 DEF SearchInv, WaitFinished
  <2>4. w.seen
    <3>1. w.seen = (HwLock /\ reg.auto)
      BY <2>2 DEF Waits
    <3> QED
      BY <2>3, <3>1
  <2>5. clk /\ UNCHANGED <<reg, clk>>
    BY <1>8 DEF ClockInv, WaitFinished, chip
  <2>6. pc' = "apply" /\ gi' = NowTrying.gi /\ detected' = chan.param
    BY <2>1, <2>2, <2>4, <2>5 DEF Reads
  <2>7. HwLock' /\ gi' = chan'.gi
    BY <2>2, <2>3, <2>5, <2>6 DEF HwLock
  <2> QED
    BY <2>2, <2>6, <2>7 DEF SearchInv
<1>9. CASE Apply
  <2>1. PICK r \in Access, w \in Access, s \in Access :
          /\ Written(w, [reg EXCEPT !.param = detected])
          /\ Fault(r /\ w /\ s)
    BY <1>9 DEF Apply
  <2>2. ~faulted /\ w /\ chan # NoChannel /\ chan' = chan
    BY <2>1, <1>9, <1>a DEF Fault, Unfaulted, Apply
  <2>3. clk /\ UNCHANGED <<clk, gi, detected>>
    BY <1>9 DEF ClockInv, Apply, Goto
  <2>4. HwLock /\ gi = chan.gi /\ detected = chan.param
    BY <1>9, <2>2 DEF SearchInv, Apply, Goto
  <2>5. reg'.gi = reg.gi /\ reg'.cpn = reg.cpn /\ reg'.param = detected
    BY <2>1, <2>2, <2>3 DEF Written, TypeOK, Registers
  <2>6. HwLock'
    BY <2>2, <2>3, <2>4, <2>5 DEF HwLock
  <2> QED
    BY <1>9, <2>2, <2>3, <2>4, <2>5, <2>6 DEF Apply, Goto, SearchInv
<1>10. CASE SetModeManual
  <2>1. PICK r \in Access, w \in Access, s \in Access :
          /\ \E g \in Reads(r, reg.gi, NoInterval, GuardIntervals \cup {NoInterval}) :
               Written(w, [reg EXCEPT !.gi = g, !.auto = FALSE])
          /\ Fault(r /\ w /\ s)
    BY <1>10 DEF SetModeManual
  <2>2. ~faulted /\ r /\ w /\ chan # NoChannel /\ chan' = chan
    BY <2>1, <1>10, <1>a DEF Fault, Unfaulted, SetModeManual
  <2>3. clk /\ clk' = clk /\ curr_gi' = gi
    BY <1>10 DEF ClockInv, SetModeManual, Goto
  <2>4. HwLock /\ gi = chan.gi /\ detected = chan.param /\ reg.param = chan.param
    BY <1>10, <2>2 DEF SearchInv, SetModeManual, Goto
  <2>5. reg' = [reg EXCEPT !.gi = reg.gi, !.auto = FALSE]
    BY <2>1, <2>2, <2>3 DEF Reads, Written
  <2>6. /\ reg'.gi = reg.gi /\ reg'.cpn = reg.cpn /\ reg'.param = reg.param
        /\ ~reg'.auto
    BY <2>5 DEF TypeOK, Registers
  <2>7. HwLock'
    BY <2>2, <2>3, <2>4, <2>6 DEF HwLock
  <2> QED
    BY <1>10, <2>2, <2>3, <2>4, <2>6, <2>7 DEF SetModeManual, Goto, SearchInv, TunedTo
<1> QED
  BY <1>1, <1>2, <1>3, <1>4, <1>5, <1>6, <1>7, <1>8, <1>9, <1>10 DEF Next, Search

LEMMA SpecIInv == Spec => []IInv
<1>1. Init => IInv
  BY InitIInv
<1>2. IInv /\ [Next]_vars => IInv'
  BY NextType, NextClock, NextSearch DEF IInv, Unfaulted
<1> QED
  BY <1>1, <1>2, PTL DEF Spec

\* A tune in which no access failed finds every channel and leaves the chip set
\* up for it, for any set of parameters.
THEOREM TunesRight == Spec => []TunedRight
<1>1. IInv => TunedRight
  BY DEF IInv, SearchInv, TunedRight
<1> QED
  BY <1>1, SpecIInv, PTL

\* After such a tune, a lock reported is a real one.
THEOREM LockIsReal == Spec => NoFakeLock
<1>1. IInv /\ [Next]_vars => [ReadStatus /\ clk /\ ~faulted => (status' => TunedTo(chan))]_vars
  <2> SUFFICES ASSUME IInv, ReadStatus, clk, ~faulted, status'
               PROVE  TunedTo(chan)
    OBVIOUS
  <2>1. PICK ok \in Access : \E lock \in Reads(ok, HwLock, TRUE, BOOLEAN) :
          status' = (ReportsLock(ok) /\ lock)
    BY DEF ReadStatus
  <2>2. HwLock
    <3>1. PICK lock \in Reads(ok, HwLock, TRUE, BOOLEAN) : status' = (ok /\ lock)
      BY <2>1 DEF ReportsLock
    <3>2. ok /\ lock
      BY <3>1
    <3>3. lock = HwLock
      BY <3>2 DEF Reads
    <3> QED
      BY <3>2, <3>3
  <2>3. pc = "open" /\ chan # NoChannel
    BY <2>2 DEF ReadStatus, HwLock
  <2> QED
    BY <2>3 DEF IInv, SearchInv
<1> QED
  BY <1>1, SpecIInv, PTL DEF Spec, NoFakeLock
=============================================================================
