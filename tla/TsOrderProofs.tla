---------------------------- MODULE TsOrderProofs ----------------------------
(***************************************************************************)
(* Proofs about TsCapture: which filling of a buffer each run of the       *)
(* interrupt handler delivers, for every ring size, slot count and bound,  *)
(* and whatever the ring's tail was when the session began.                *)
(*                                                                         *)
(* Number the fillings of a session 0, 1, 2, ... and its handler runs      *)
(* likewise.  Run n gives the buffer n places after the first tail to slot *)
(* n modulo TS2D_BUFFERS, and delivers it at once: what it delivers was    *)
(* put there when the buffer was last under DMA, and what it gives to the  *)
(* slot is filled TS2D_BUFFERS fillings later.  The invariant says so      *)
(* without a modulus, relative to the slot being filled and the buffer due.*)
(***************************************************************************)
EXTENDS TsCaptureProofs

\* The buffer of the present handler run, or of the next one between two runs.
Due == IF h \in {"set", "load", "store", "read", "deliver"} THEN hbuf ELSE ring.tail

\* Fillings completed in the session, and those whose handler run has not ended.
Done == filled - session.base

Unserved == Owed + (IF h \in {"read", "deliver"} THEN 1 ELSE 0)

\* Runs that have given their buffer to a slot.
Remapped == session.runs + (IF h \in {"load", "store", "read", "deliver"} THEN 1 ELSE 0)

\* Cursors of the ring: the next one, the k-th before b, the way from a to b;
\* and the way from slot i to slot j.
Following(b) == IF b + 1 = RINGSIZ THEN 0 ELSE b + 1

Back(b, k) == IF k <= b THEN b - k ELSE b - k + RINGSIZ

Steps(a, b) == IF a <= b THEN b - a ELSE b - a + RINGSIZ

SlotSteps(i, j) == IF i <= j THEN j - i ELSE j - i + TS2D_BUFFERS

(***************************************************************************)
(* In the first round of the ring the buffer due is runs places after the  *)
(* first tail.                                                             *)
(***************************************************************************)
DueFollows(due, runs, tail0) ==
  runs < RINGSIZ =>
    due = IF tail0 + runs < RINGSIZ THEN tail0 + runs ELSE tail0 + runs - RINGSIZ

(***************************************************************************)
(* Slot s takes filling x next.  In the first round it maps buffer s, later*)
(* the one that run x - TS2D_BUFFERS gave it, once that run has done so.   *)
(***************************************************************************)
SlotsFollow(map, next, done, runs, due, remapped) ==
  \A s \in Slots :
    LET x == done + SlotSteps(next, s) IN
    /\ x < TS2D_BUFFERS => map[s] = s
    /\ TS2D_BUFFERS <= x /\ x < TS2D_BUFFERS + remapped
         => map[s] = Back(due, runs + TS2D_BUFFERS - x)

(***************************************************************************)
(* Buffer b is delivered next by run j.  After the first round of the ring *)
(* it then holds the filling of TS2D_BUFFERS fillings before, as soon as   *)
(* that one is completed; in the first round, what the first round of the  *)
(* slots put there, or something from before the session.                  *)
(***************************************************************************)
DataFollows(contents, base, done, runs, due) ==
  \A b \in Buffers :
    LET j == runs + Steps(due, b) IN
    /\ RINGSIZ <= j /\ j < done + TS2D_BUFFERS
         => contents[b] = base + j + 1 - TS2D_BUFFERS
    /\ j < RINGSIZ =>
         IF b < TS2D_BUFFERS /\ b < done
         THEN contents[b] = base + b + 1
         ELSE contents[b] <= base

(***************************************************************************)
(* The latest filling delivered.  From the second round of the ring it is  *)
(* TS2D_BUFFERS behind the run.  In the first round of a session whose     *)
(* first tail is 0 or in the upper half of the ring the runs before Lead   *)
(* deliver nothing new, the next TS2D_BUFFERS one filling each, the others *)
(* nothing new.                                                            *)
(***************************************************************************)
Lead(tail0) == IF tail0 = 0 THEN 0 ELSE RINGSIZ - tail0

LastFollows(last, base, runs, tail0) ==
  /\ runs > RINGSIZ => last = base + runs - TS2D_BUFFERS
  /\ (tail0 = 0 \/ tail0 >= TS2D_BUFFERS) /\ runs <= RINGSIZ =>
       last = base + (IF runs <= Lead(tail0) THEN 0
                      ELSE IF runs <= Lead(tail0) + TS2D_BUFFERS THEN runs - Lead(tail0)
                      ELSE TS2D_BUFFERS)

(***************************************************************************)
(* The invariants: nothing delivered or stored is from the future; a clean *)
(* session whose engine does not run yet has no history; and in a clean    *)
(* session that runs, the four relations above hold.                       *)
(***************************************************************************)
PastInv ==
  /\ session.base <= filled
  /\ session.last <= filled
  /\ \A b \in Buffers : data[b] <= filled
  /\ h = "deliver" => ring.tail = (hbuf + 1) % RINGSIZ

QuietInv ==
  session.clean /\ ~dma.run =>
    /\ h = "idle" /\ ~irq /\ ring.tail = session.tail0 /\ session.lost = 0
    /\ filled = session.base /\ session.runs = 0 /\ session.last = session.base
    /\ starter \in {"load", "store", "prepare", "run"} => \A i \in Slots : slot[i] = i

Running == InStep /\ dma.run

CountInv ==
  Running =>
    /\ Done = session.runs + Unserved
    /\ Done < TS2D_BUFFERS => dma.next = Done
    /\ dma.cur = slot[dma.next]

FollowInv ==
  Running =>
    /\ DueFollows(Due, session.runs, session.tail0)
    /\ SlotsFollow(slot, dma.next, Done, session.runs, Due, Remapped)
    /\ DataFollows(data, session.base, Done, session.runs, Due)
    /\ LastFollows(session.last, session.base, session.runs, session.tail0)

OrderInv == IInv /\ PastInv /\ QuietInv /\ CountInv /\ FollowInv

-----------------------------------------------------------------------------
(* The slots, as the engine and the handler move.                          *)

LEMMA SlotsBegin ==
  ASSUME NEW map, NEW due, \A i \in Slots : map[i] = i
  PROVE  SlotsFollow(map, 0, 0, 0, due, 0)
BY ConstantFacts DEF SlotsFollow, SlotSteps, Slots

\* Filling a buffer moves the engine to the next slot: the slot it leaves has
\* not been given its next buffer yet.
LEMMA SlotsFill ==
  ASSUME NEW map, NEW next \in Slots, NEW done \in Nat, NEW runs \in Nat, NEW due \in Buffers,
         NEW remapped \in Nat, remapped <= done,
         SlotsFollow(map, next, done, runs, due, remapped)
  PROVE  SlotsFollow(map, NextSlot(next), done + 1, runs, due, remapped)
<1> SUFFICES ASSUME NEW s \in Slots
             PROVE  LET x == done + 1 + SlotSteps(NextSlot(next), s) IN
                    /\ x < TS2D_BUFFERS => map[s] = s
                    /\ TS2D_BUFFERS <= x /\ x < TS2D_BUFFERS + remapped
                         => map[s] = Back(due, runs + TS2D_BUFFERS - x)
  BY DEF SlotsFollow
<1> DEFINE x == done + SlotSteps(next, s)
<1>1. CASE s = next
  <2>1. done + 1 + SlotSteps(NextSlot(next), s) = done + TS2D_BUFFERS
    BY <1>1, ConstantFacts DEF NextSlot, SlotSteps, Slots
  <2> QED
    BY <2>1, ConstantFacts
<1>2. CASE s # next
  <2>1. done + 1 + SlotSteps(NextSlot(next), s) = x
    BY <1>2, ConstantFacts DEF NextSlot, SlotSteps, Slots
  <2>2. /\ x < TS2D_BUFFERS => map[s] = s
        /\ TS2D_BUFFERS <= x /\ x < TS2D_BUFFERS + remapped
             => map[s] = Back(due, runs + TS2D_BUFFERS - x)
    BY DEF SlotsFollow
  <2> QED
    BY <2>1, <2>2
<1> QED
  BY <1>1, <1>2

\* A handler run gives its buffer to the slot that is the owed fillings behind
\* the engine.
LEMMA SlotsSet ==
  ASSUME NEW map \in [Slots -> Buffers], NEW i \in Slots, NEW runs \in Nat, NEW due \in Buffers,
         NEW owed \in Nat, 0 < owed, owed < TS2D_BUFFERS,
         SlotsFollow(map, Ahead(i, owed), runs + owed, runs, due, runs)
  PROVE  /\ SlotsFollow([map EXCEPT ![i] = due], Ahead(i, owed), runs + owed, runs, due, runs + 1)
         /\ i # Ahead(i, owed)
<1> DEFINE next == Ahead(i, owed)
           done == runs + owed
           after == [map EXCEPT ![i] = due]
<1>0. next \in Slots /\ i # next /\ done \in Nat
  BY ConstantFacts DEF Ahead, Slots
<1> SUFFICES ASSUME NEW s \in Slots
             PROVE  LET x == done + SlotSteps(next, s) IN
                    /\ x < TS2D_BUFFERS => after[s] = s
                    /\ TS2D_BUFFERS <= x /\ x < TS2D_BUFFERS + (runs + 1)
                         => after[s] = Back(due, runs + TS2D_BUFFERS - x)
  BY <1>0 DEF SlotsFollow
<1> DEFINE x == done + SlotSteps(next, s)
<1>1. CASE s = i
  <2>1. x = runs + TS2D_BUFFERS
    BY <1>1, ConstantFacts DEF Ahead, SlotSteps, Slots
  <2>2. after[s] = due /\ Back(due, 0) = due
    BY <1>1, ConstantFacts DEF Back, Buffers
  <2> HIDE DEF x
  <2> QED
    BY <2>1, <2>2, ConstantFacts DEF x
<1>2. CASE s # i
  <2>1. x # runs + TS2D_BUFFERS /\ x \in Nat
    BY <1>2, ConstantFacts DEF Ahead, SlotSteps, Slots
  <2>2. /\ x < TS2D_BUFFERS => map[s] = s
        /\ TS2D_BUFFERS <= x /\ x < TS2D_BUFFERS + runs
             => map[s] = Back(due, runs + TS2D_BUFFERS - x)
    BY DEF SlotsFollow
  <2>3. after[s] = map[s]
    BY <1>2
  <2> HIDE DEF x, next, done, after
  <2> QED
    BY <2>1, <2>2, <2>3, ConstantFacts DEF x
<1> QED
  BY <1>1, <1>2

\* The end of a run makes the following buffer due.
LEMMA SlotsDeliver ==
  ASSUME NEW map, NEW next \in Slots, NEW done \in Nat, NEW runs \in Nat, NEW due \in Buffers,
         runs < done,
         SlotsFollow(map, next, done, runs, due, runs + 1)
  PROVE  SlotsFollow(map, next, done, runs + 1, Following(due), runs + 1)
<1> SUFFICES ASSUME NEW s \in Slots
             PROVE  LET x == done + SlotSteps(next, s) IN
                    /\ x < TS2D_BUFFERS => map[s] = s
                    /\ TS2D_BUFFERS <= x /\ x < TS2D_BUFFERS + (runs + 1)
                         => map[s] = Back(Following(due), runs + 1 + TS2D_BUFFERS - x)
  BY DEF SlotsFollow
<1> DEFINE x == done + SlotSteps(next, s)
<1>1. x \in Nat /\ x >= done
  BY ConstantFacts DEF SlotSteps, Slots
<1>2. /\ x < TS2D_BUFFERS => map[s] = s
      /\ TS2D_BUFFERS <= x /\ x < TS2D_BUFFERS + (runs + 1)
           => map[s] = Back(due, runs + TS2D_BUFFERS - x)
  BY DEF SlotsFollow
<1> HIDE DEF x
<1>3. TS2D_BUFFERS <= x /\ x < TS2D_BUFFERS + (runs + 1)
        => Back(due, runs + TS2D_BUFFERS - x) = Back(Following(due), runs + 1 + TS2D_BUFFERS - x)
  BY <1>1, ConstantFacts DEF Back, Following, Buffers
<1> QED
  BY <1>2, <1>3 DEF x

\* Where the engine puts the filling it is busy with: in the first round into
\* the buffer of the slot, then into the one that is to be delivered
\* TS2D_BUFFERS fillings later; never into the buffer due.
Target(b, done, runs, due) ==
  IF done < TS2D_BUFFERS THEN b = done
  ELSE Steps(due, b) = done + TS2D_BUFFERS - runs /\ b # due

LEMMA SlotsTarget ==
  ASSUME NEW map \in [Slots -> Buffers], NEW next \in Slots, NEW done \in Nat, NEW runs \in Nat,
         NEW due \in Buffers, NEW remapped \in Nat, runs <= remapped,
         runs <= done, done < runs + TS2D_BUFFERS,
         done < TS2D_BUFFERS => next = done,
         SlotsFollow(map, next, done, runs, due, remapped)
  PROVE  Target(map[next], done, runs, due)
<1>1. SlotSteps(next, next) = 0
  BY ConstantFacts DEF SlotSteps, Slots
<1>2. done + SlotSteps(next, next) = done
  BY <1>1
<1>3. /\ done < TS2D_BUFFERS => map[next] = next
      /\ TS2D_BUFFERS <= done /\ done < TS2D_BUFFERS + remapped
           => map[next] = Back(due, runs + TS2D_BUFFERS - done)
  BY <1>2 DEF SlotsFollow
<1>4. CASE done < TS2D_BUFFERS
  BY <1>3, <1>4 DEF Target
<1>5. CASE done >= TS2D_BUFFERS
  <2>1. map[next] = Back(due, runs + TS2D_BUFFERS - done)
    BY <1>3, <1>5, ConstantFacts
  <2>2. /\ Steps(due, Back(due, runs + TS2D_BUFFERS - done)) = done + TS2D_BUFFERS - runs
        /\ Back(due, runs + TS2D_BUFFERS - done) # due
    BY <1>5, ConstantFacts DEF Back, Steps, Buffers
  <2> QED
    BY <1>5, <2>1, <2>2, ConstantFacts DEF Target
<1> QED
  BY <1>4, <1>5, ConstantFacts

-----------------------------------------------------------------------------
(* The contents of the buffers.                                            *)

LEMMA DataBegin ==
  ASSUME NEW contents, NEW base \in Nat, NEW due \in Buffers,
         \A b \in Buffers : contents[b] <= base
  PROVE  DataFollows(contents, base, 0, 0, due)
<1> SUFFICES ASSUME NEW b \in Buffers PROVE Steps(due, b) < RINGSIZ /\ Steps(due, b) \in Nat /\ b \in Nat
  BY ConstantFacts DEF DataFollows
<1> QED
  BY ConstantFacts DEF Steps, Buffers

LEMMA DataFill ==
  ASSUME NEW contents \in [Buffers -> Nat], NEW base \in Nat, NEW done \in Nat, NEW runs \in Nat,
         NEW due \in Buffers, NEW t \in Buffers, done < runs + TS2D_BUFFERS,
         Target(t, done, runs, due),
         DataFollows(contents, base, done, runs, due)
  PROVE  DataFollows([contents EXCEPT ![t] = base + done + 1], base, done + 1, runs, due)
<1> DEFINE after == [contents EXCEPT ![t] = base + done + 1]
<1> SUFFICES ASSUME NEW b \in Buffers
             PROVE  LET j == runs + Steps(due, b) IN
                    /\ RINGSIZ <= j /\ j < done + 1 + TS2D_BUFFERS
                         => after[b] = base + j + 1 - TS2D_BUFFERS
                    /\ j < RINGSIZ =>
                         IF b < TS2D_BUFFERS /\ b < done + 1
                         THEN after[b] = base + b + 1
                         ELSE after[b] <= base
  BY DEF DataFollows
<1> DEFINE j == runs + Steps(due, b)
<1>1. j \in Nat /\ b \in Nat /\ t \in Nat /\ b < RINGSIZ
  BY ConstantFacts DEF Steps, Buffers
<1>2. /\ RINGSIZ <= j /\ j < done + TS2D_BUFFERS
           => contents[b] = base + j + 1 - TS2D_BUFFERS
      /\ j < RINGSIZ =>
           IF b < TS2D_BUFFERS /\ b < done
           THEN contents[b] = base + b + 1
           ELSE contents[b] <= base
  BY DEF DataFollows
<1>3. after[b] = IF b = t THEN base + done + 1 ELSE contents[b]
  OBVIOUS
<1>4. contents[b] \in Nat
  OBVIOUS
<1>5. done >= TS2D_BUFFERS => (b = t <=> j = done + TS2D_BUFFERS)
  BY ConstantFacts DEF Target, Steps, Buffers
<1>6. done < TS2D_BUFFERS => t = done
  BY DEF Target
<1> HIDE DEF j, after
<1> QED
  BY <1>1, <1>2, <1>3, <1>4, <1>5, <1>6, ConstantFacts DEF j

LEMMA DataDeliver ==
  ASSUME NEW contents, NEW base \in Nat, NEW done \in Nat, NEW runs \in Nat,
         NEW due \in Buffers, done < runs + TS2D_BUFFERS,
         DataFollows(contents, base, done, runs, due)
  PROVE  DataFollows(contents, base, done, runs + 1, Following(due))
<1> SUFFICES ASSUME NEW b \in Buffers
             PROVE  LET j == runs + 1 + Steps(Following(due), b) IN
                    /\ RINGSIZ <= j /\ j < done + TS2D_BUFFERS
                         => contents[b] = base + j + 1 - TS2D_BUFFERS
                    /\ j < RINGSIZ =>
                         IF b < TS2D_BUFFERS /\ b < done
                         THEN contents[b] = base + b + 1
                         ELSE contents[b] <= base
  BY DEF DataFollows
<1> DEFINE j == runs + Steps(due, b)
<1>1. CASE b = due
  <2>1. runs + 1 + Steps(Following(due), b) = runs + RINGSIZ
    BY <1>1, ConstantFacts DEF Following, Steps, Buffers
  <2> QED
    BY <2>1, ConstantFacts
<1>2. CASE b # due
  <2>1. runs + 1 + Steps(Following(due), b) = j
    BY <1>2, ConstantFacts DEF Following, Steps, Buffers
  <2>2. /\ RINGSIZ <= j /\ j < done + TS2D_BUFFERS
             => contents[b] = base + j + 1 - TS2D_BUFFERS
        /\ j < RINGSIZ =>
             IF b < TS2D_BUFFERS /\ b < done
             THEN contents[b] = base + b + 1
             ELSE contents[b] <= base
    BY DEF DataFollows
  <2> QED
    BY <2>1, <2>2
<1> QED
  BY <1>1, <1>2

-----------------------------------------------------------------------------
(* What a run delivers.                                                    *)

LEMMA DueDeliver ==
  ASSUME NEW due \in Buffers, NEW runs \in Nat, NEW tail0 \in Buffers,
         DueFollows(due, runs, tail0)
  PROVE  DueFollows(Following(due), runs + 1, tail0)
BY ConstantFacts DEF DueFollows, Following, Buffers

\* The contents c of the buffer due.
Holds(c, base, done, runs, due) ==
  /\ runs >= RINGSIZ => c = base + runs + 1 - TS2D_BUFFERS
  /\ runs < RINGSIZ => IF due < TS2D_BUFFERS /\ due < done
                       THEN c = base + due + 1 ELSE c <= base

LEMMA Delivered ==
  ASSUME NEW contents \in [Buffers -> Nat], NEW base \in Nat, NEW done \in Nat, NEW runs \in Nat,
         NEW due \in Buffers, runs < done,
         DataFollows(contents, base, done, runs, due)
  PROVE  Holds(contents[due], base, done, runs, due)
<1>1. Steps(due, due) = 0
  BY ConstantFacts DEF Steps, Buffers
<1>2. runs + Steps(due, due) = runs
  BY <1>1
<1>3. /\ RINGSIZ <= runs /\ runs < done + TS2D_BUFFERS
           => contents[due] = base + runs + 1 - TS2D_BUFFERS
      /\ runs < RINGSIZ =>
           IF due < TS2D_BUFFERS /\ due < done
           THEN contents[due] = base + due + 1
           ELSE contents[due] <= base
  BY <1>2 DEF DataFollows
<1> QED
  BY <1>3, ConstantFacts DEF Holds

SettledAt(runs, tail0) == tail0 = 0 \/ tail0 >= TS2D_BUFFERS \/ runs > RINGSIZ

IsNext(last, c) == c = last + 1

\* In a session that has settled a filling delivered is the one after the latest.
LEMMA LastDeliver ==
  ASSUME NEW c \in Nat, NEW base \in Nat, NEW done \in Nat, NEW runs \in Nat,
         NEW due \in Buffers, NEW tail0 \in Buffers, NEW last \in Nat,
         runs < done,
         Holds(c, base, done, runs, due),
         DueFollows(due, runs, tail0),
         LastFollows(last, base, runs, tail0)
  PROVE  /\ c > base => LastFollows(c, base, runs + 1, tail0)
         /\ ~(c > base) => LastFollows(last, base, runs + 1, tail0)
         /\ SettledAt(runs, tail0) /\ c > base => IsNext(last, c)
<1> USE DEF Holds, SettledAt, IsNext
<1>1. due \in Nat /\ tail0 \in Nat /\ due < RINGSIZ /\ tail0 < RINGSIZ
  BY ConstantFacts DEF Buffers
<1>2. CASE runs >= RINGSIZ
  BY <1>1, <1>2, ConstantFacts DEF LastFollows, Lead
<1>3. CASE runs < RINGSIZ
  <2>1. due = IF tail0 + runs < RINGSIZ THEN tail0 + runs ELSE tail0 + runs - RINGSIZ
    BY <1>3 DEF DueFollows
  <2>2. CASE tail0 = 0
    BY <1>1, <1>3, <2>1, <2>2, ConstantFacts DEF LastFollows, Lead
  <2>3. CASE tail0 >= TS2D_BUFFERS
    BY <1>1, <1>3, <2>1, <2>3, ConstantFacts DEF LastFollows, Lead
  <2>4. CASE tail0 # 0 /\ tail0 < TS2D_BUFFERS
    BY <1>1, <1>3, <2>1, <2>4, ConstantFacts DEF LastFollows, Lead
  <2> QED
    BY <1>1, <2>2, <2>3, <2>4, ConstantFacts
<1> QED
  BY <1>2, <1>3, ConstantFacts

-----------------------------------------------------------------------------
(* The invariants hold initially, and the first two are preserved.         *)

LEMMA InitOrder == Init => OrderInv
<1> SUFFICES ASSUME Init PROVE OrderInv
  OBVIOUS
<1>1. ~dma.run /\ starter = "idle" /\ h = "idle" /\ ~irq
  BY DEF Init
<1>2. PastInv
  <2>1. \A b \in Buffers : data[b] = 0
    BY DEF Init
  <2> QED
    BY <1>1, <2>1 DEF Init, PastInv
<1>3. QuietInv
  BY <1>1 DEF Init, QuietInv, EmptyRing
<1> QED
  BY <1>1, <1>2, <1>3, InitIInv DEF OrderInv, CountInv, FollowInv, Running

LEMMA NextPast ==
  ASSUME TypeOK, RingBalanced, PastInv, [Next]_vars
  PROVE  PastInv'
<1> USE ConstantFacts
<1>1. ASSUME UNCHANGED <<session, filled, data, h, hbuf, ring>>
      PROVE  PastInv'
  BY <1>1 DEF PastInv
<1>2. CASE Feed \/ InitPtables \/ LoadIndex \/ StoreIndex \/ Prepare \/ Run
  BY <1>1, <1>2
  DEF Feed, StartFeed, StopFeed, InitPtables, LoadIndex, StoreIndex, Prepare, Run, Thread,
      engine, handler
<1>3. CASE Reset
  <2>1. session'.base = filled /\ session'.last = filled
    BY <1>3 DEF Reset, NewSession
  <2>2. UNCHANGED <<filled, data, h, hbuf, ring>>
    BY <1>3 DEF Reset, Thread, handler
  <2> QED
    BY <2>1, <2>2 DEF PastInv, TypeOK
<1>4. CASE Complete
  <2>1. filled' = filled + 1 /\ UNCHANGED <<h, hbuf, ring>>
    BY <1>4 DEF Complete, handler
  <2>2. session'.base = session.base /\ session'.last = session.last
    BY <1>4 DEF Complete, TypeOK, Sessions
  <2>3. PICK t \in {dma.cur, slot[dma.next]} : data' = [data EXCEPT ![t] = filled + 1]
    BY <1>4 DEF Complete
  <2>4. \A b \in Buffers : data'[b] <= filled + 1
    <3>1. \A b \in Buffers : data[b] \in Nat /\ data[b] <= filled
      BY DEF PastInv, TypeOK
    <3>2. \A b \in Buffers : data'[b] = data[b] \/ data'[b] = filled + 1
      BY <2>3 DEF TypeOK
    <3> QED
      BY <3>1, <3>2 DEF TypeOK
  <2> QED
    BY <2>1, <2>2, <2>4 DEF PastInv, TypeOK, Sessions
<1>5. CASE Enter \/ GetBuffer \/ WriteRing \/ SetBuffer \/ LoadForIncrement \/ StoreIncrement
  <2>1. UNCHANGED <<session, filled, data>> /\ h' # "deliver"
    BY <1>5
    DEF Enter, GetBuffer, WriteRing, SetBuffer, LoadForIncrement, StoreIncrement, HandlerStep,
        engine
  <2> QED
    BY <2>1 DEF PastInv
<1>6. CASE ReadRing
  <2>1. h = "read" /\ UNCHANGED <<session, filled, data>>
    BY <1>6 DEF ReadRing, HandlerStep, engine
  <2>2. ring \in Rings /\ ring.count = 1 /\ ring.tail = (ring.head + 1) % RINGSIZ
    BY <2>1 DEF RingBalanced, TypeOK
  <2>3. ring' = ring_read(ring) /\ hbuf' = ring.head
    BY <1>6, <2>2 DEF ReadRing, HandlerStep, ring_empty
  <2>4. ring'.tail = ring.tail
    BY <2>2, <2>3, RingReadType DEF ring_empty
  <2> QED
    BY <2>1, <2>2, <2>3, <2>4 DEF PastInv
<1>7. CASE Deliver
  <2>1. h' = "idle" /\ UNCHANGED <<filled, data>>
    BY <1>7 DEF Deliver, HandlerStep, engine
  <2>2. session'.base = session.base
    BY <1>7 DEF Deliver, TypeOK, Sessions
  <2>3. session'.last = session.last \/ session'.last = data[hbuf]
    BY <1>7 DEF Deliver, TypeOK, Sessions
  <2>4. data[hbuf] <= filled
    BY DEF PastInv, TypeOK
  <2> QED
    BY <2>1, <2>2, <2>3, <2>4 DEF PastInv
<1>8. CASE ClearedAgain
  <2>1. session'.base = session.base /\ session'.last = session.last
    BY <1>8 DEF ClearedAgain, TypeOK, Sessions
  <2> QED
    BY <1>8, <2>1 DEF ClearedAgain, PastInv, engine, handler
<1>9. CASE UNCHANGED vars
  BY <1>1, <1>9 DEF vars, engine, handler
<1> QED
  BY <1>2, <1>3, <1>4, <1>5, <1>6, <1>7, <1>8, <1>9 DEF Next, Starter, Handler

LEMMA NextQuiet ==
  ASSUME TypeOK, RingBalanced, QuietInv, [Next]_vars
  PROVE  QuietInv'
<1> USE ConstantFacts DEF QuietInv
<1>1. CASE Feed
  BY <1>1 DEF Feed, StartFeed, StopFeed, engine, handler
<1>2. CASE Reset
  BY <1>2 DEF Reset, NewSession, Thread, TypeOK, handler
<1>3. CASE InitPtables
  BY <1>3 DEF InitPtables, Ptables, Thread, handler
<1>4. CASE LoadIndex \/ StoreIndex
  BY <1>4 DEF LoadIndex, StoreIndex, Thread, handler
<1>5. CASE Prepare
  BY <1>5 DEF Prepare, Thread, TypeOK, handler
<1>6. CASE Run
  BY <1>6 DEF Run, Thread, TypeOK
<1>7. CASE Complete
  BY <1>7 DEF Complete, TypeOK
<1>8. CASE Enter \/ ClearedAgain
  BY <1>8 DEF Enter, ClearedAgain, HandlerStep, TypeOK, Sessions, thread, engine, handler
<1>9. CASE GetBuffer \/ WriteRing \/ SetBuffer \/ LoadForIncrement \/ StoreIncrement \/ ReadRing
  BY <1>9
  DEF GetBuffer, WriteRing, SetBuffer, LoadForIncrement, StoreIncrement, ReadRing,
      HandlerStep, engine
<1>10. CASE Deliver
  BY <1>10 DEF Deliver, HandlerStep, TypeOK, Sessions, engine
<1>11. CASE UNCHANGED vars
  BY <1>11 DEF vars, thread, engine, handler
<1> QED
  BY <1>1, <1>2, <1>3, <1>4, <1>5, <1>6, <1>7, <1>8, <1>9, <1>10, <1>11
  DEF Next, Starter, Handler

-----------------------------------------------------------------------------
(* The four relations, one lemma for each kind of step.                    *)

\* With few interrupts lost the engine is less than a round of the slots ahead.
LEMMA UnservedFew ==
  ASSUME TypeOK, FewLost
  PROVE  Unserved \in Nat /\ Unserved < TS2D_BUFFERS
BY ConstantFacts DEF TypeOK, Sessions, FewLost, Owed, Unserved

LEMMA CountTypes ==
  ASSUME TypeOK, PastInv
  PROVE  /\ Due \in Buffers /\ Done \in Nat
         /\ Remapped \in Nat /\ session.runs <= Remapped
         /\ session.runs \in Nat /\ session.base \in Nat /\ session.last \in Nat
         /\ session.tail0 \in Buffers /\ session.base + Done = filled
         /\ dma.next \in Slots /\ data \in [Buffers -> Nat]
<1>1. Due \in Buffers
  BY DEF TypeOK, Due, Rings
<1>2. /\ session.runs \in Nat /\ session.base \in Nat /\ session.last \in Nat
      /\ session.tail0 \in Buffers /\ filled \in Nat
  BY ConstantFacts DEF TypeOK, Sessions
<1>3. Done \in Nat /\ session.base + Done = filled
  BY <1>2 DEF PastInv, Done
<1>4. Remapped \in Nat /\ session.runs <= Remapped
  BY <1>2 DEF Remapped
<1>5. data \in [Buffers -> Nat]
  <2>1. \A n \in 0 .. MaxFilled : n \in Nat
    OBVIOUS
  <2> QED
    BY <2>1 DEF TypeOK
<1> QED
  BY <1>1, <1>2, <1>3, <1>4, <1>5 DEF TypeOK

LEMMA RemappedDone ==
  ASSUME TypeOK, PastInv, CountInv, Running
  PROVE  Remapped <= Done
<1>1. Done = session.runs + Unserved
  BY DEF CountInv
<1> QED
  BY <1>1, ConstantFacts DEF TypeOK, Sessions, Unserved, Owed, Remapped

\* The steps that move none of it.
LEMMA Keeps ==
  ASSUME CountInv, FollowInv, UNCHANGED <<slot, dma, data, filled>>,
         InStep, session'.base = session.base,
         session'.runs = session.runs, session'.tail0 = session.tail0,
         session'.last = session.last,
         Running => /\ Due' = Due
                    /\ Unserved' = Unserved
                    /\ Remapped' = Remapped
  PROVE  CountInv' /\ FollowInv'
<1> SUFFICES ASSUME Running' PROVE CountInv' /\ FollowInv'
  BY DEF CountInv, FollowInv
<1>1. Running
  BY DEF Running
<1>2. Done' = Done
  BY DEF Done
<1>3. CountInv'
  BY <1>1, <1>2 DEF CountInv
<1>4. FollowInv'
  BY <1>1, <1>2 DEF FollowInv
<1> QED
  BY <1>3, <1>4

LEMMA RunFollows ==
  ASSUME InStep, TypeOK, StartingInv, QuietInv, PastInv, Run
  PROVE  CountInv' /\ FollowInv'
<1> SUFFICES ASSUME Running' PROVE CountInv' /\ FollowInv'
  BY DEF CountInv, FollowInv
<1>1. /\ starter = "run" /\ UNCHANGED <<slot, session, ring, h, hbuf, irq, data, filled>>
      /\ dma'.next = dma.next /\ dma'.cur = slot[dma.next]
  BY DEF Run, Thread, TypeOK, handler
<1>2. session.clean /\ ~dma.run /\ dma.next = 0
  BY <1>1 DEF InStep, StartingInv, Starting
<1>3. /\ h = "idle" /\ ~irq /\ ring.tail = session.tail0 /\ session.lost = 0
      /\ filled = session.base /\ session.runs = 0 /\ session.last = session.base
      /\ \A i \in Slots : slot[i] = i
  BY <1>1, <1>2 DEF QuietInv
<1>4. Done' = 0 /\ Unserved' = 0 /\ Remapped' = 0 /\ Due' = session.tail0
  BY <1>1, <1>3 DEF Done, Unserved, Owed, Remapped, Due, TypeOK, Sessions
<1>5. session.tail0 \in Buffers /\ session.base \in Nat
  BY DEF TypeOK, Sessions
<1>6. CountInv'
  <2>1. session'.runs = 0
    BY <1>1, <1>3
  <2> QED
    BY <1>1, <1>2, <1>4, <2>1 DEF CountInv
<1>7. DueFollows(session.tail0, 0, session.tail0)
  BY <1>5, ConstantFacts DEF DueFollows, Buffers
<1>8. SlotsFollow(slot, 0, 0, 0, session.tail0, 0)
  BY <1>3, SlotsBegin
<1>9. DataFollows(data, session.base, 0, 0, session.tail0)
  <2>1. \A b \in Buffers : data[b] <= session.base
    BY <1>3 DEF PastInv
  <2> QED
    BY <1>5, <2>1, DataBegin
<1>10. LastFollows(session.base, session.base, 0, session.tail0)
  BY <1>5, ConstantFacts DEF LastFollows, Lead, Buffers
<1> QED
  BY <1>1, <1>2, <1>3, <1>4, <1>6, <1>7, <1>8, <1>9, <1>10 DEF FollowInv

LEMMA CompleteFollows ==
  ASSUME InStep, TypeOK, PastInv, CountInv, FollowInv, Complete
  PROVE  CountInv' /\ FollowInv'
<1> SUFFICES ASSUME Running' PROVE CountInv' /\ FollowInv'
  BY DEF CountInv, FollowInv
<1>1. /\ filled' = filled + 1 /\ UNCHANGED <<slot, ring, h, hbuf>>
      /\ dma'.run = dma.run /\ dma'.next = NextSlot(dma.next) /\ dma'.cur = slot[NextSlot(dma.next)]
  BY DEF Complete, TypeOK, handler
<1>2. /\ session'.clean = session.clean /\ session'.base = session.base
      /\ session'.runs = session.runs /\ session'.tail0 = session.tail0
      /\ session'.last = session.last
  BY DEF Complete, TypeOK, Sessions
<1>3. Running
  BY <1>1, <1>2 DEF Running
<1>4. /\ Done = session.runs + Unserved /\ dma.cur = slot[dma.next]
      /\ Done < TS2D_BUFFERS => dma.next = Done
  BY <1>3 DEF CountInv
<1>5. /\ DueFollows(Due, session.runs, session.tail0)
      /\ SlotsFollow(slot, dma.next, Done, session.runs, Due, Remapped)
      /\ DataFollows(data, session.base, Done, session.runs, Due)
      /\ LastFollows(session.last, session.base, session.runs, session.tail0)
  BY <1>3 DEF FollowInv
<1>6. Done' = Done + 1 /\ Due' = Due /\ Remapped' = Remapped
  <2>1. Done' = Done + 1
    BY <1>1, <1>2 DEF Done, TypeOK, Sessions
  <2> QED
    BY <1>1, <1>2, <2>1 DEF Due, Remapped
<1>7. Unserved' = Unserved + 1
  BY DEF Complete, Unserved, Owed, TypeOK, Sessions, handler
<1>8. Unserved \in Nat /\ Unserved < TS2D_BUFFERS
  BY UnservedFew DEF InStep
<1>9. Remapped <= Done /\ session.runs <= Done /\ Done < session.runs + TS2D_BUFFERS
  <2>1. Remapped <= Done
    BY <1>3, RemappedDone
  <2>2. session.runs \in Nat /\ Done = session.runs + Unserved
    BY <1>4, CountTypes
  <2> QED
    BY <1>8, <2>1, <2>2, ConstantFacts
<1>10. Target(slot[dma.next], Done, session.runs, Due)
  BY <1>4, <1>5, <1>9, CountTypes, SlotsTarget DEF TypeOK
<1>11. data' = [data EXCEPT ![slot[dma.next]] = session.base + Done + 1]
  BY <1>4, CountTypes DEF Complete
<1>12. SlotsFollow(slot, NextSlot(dma.next), Done + 1, session.runs, Due, Remapped)
  BY <1>5, <1>9, CountTypes, SlotsFill
<1>13. DataFollows(data', session.base, Done + 1, session.runs, Due)
  <2>1. slot[dma.next] \in Buffers
    BY CountTypes DEF TypeOK
  <2> QED
    BY <1>5, <1>9, <1>10, <1>11, <2>1, CountTypes, DataFill
<1>14. CountInv'
  <2>1. Done + 1 = session.runs + (Unserved + 1)
    BY <1>4, <1>8, CountTypes
  <2>2. Done + 1 < TS2D_BUFFERS => NextSlot(dma.next) = Done + 1
    BY <1>4, CountTypes, ConstantFacts DEF NextSlot
  <2>3. dma'.cur = slot'[dma'.next]
    BY <1>1
  <2> QED
    BY <1>1, <1>2, <1>6, <1>7, <2>1, <2>2, <2>3 DEF CountInv
<1> QED
  BY <1>1, <1>2, <1>5, <1>6, <1>12, <1>13, <1>14 DEF FollowInv

LEMMA SetFollows ==
  ASSUME InStep, TypeOK, PhaseInv, PastInv, CountInv, FollowInv, SetBuffer
  PROVE  CountInv' /\ FollowInv'
<1> SUFFICES ASSUME Running' PROVE CountInv' /\ FollowInv'
  BY DEF CountInv, FollowInv
<1>1. h = "set" /\ h' = "load" /\ UNCHANGED <<ring, index_w, dma, data, filled, irq, hbuf, session>>
  BY DEF SetBuffer, HandlerStep, engine
<1>2. Running
  BY <1>1 DEF Running
<1>3. /\ Done = session.runs + Unserved /\ dma.cur = slot[dma.next]
      /\ Done < TS2D_BUFFERS => dma.next = Done
  BY <1>2 DEF CountInv
<1>4. /\ DueFollows(Due, session.runs, session.tail0)
      /\ SlotsFollow(slot, dma.next, Done, session.runs, Due, Remapped)
      /\ DataFollows(data, session.base, Done, session.runs, Due)
      /\ LastFollows(session.last, session.base, session.runs, session.tail0)
  BY <1>2 DEF FollowInv
<1>5. index_w \in Slots /\ hidx = index_w /\ dma.next = Ahead(index_w, Owed)
  <2>1. index_w \in Slots /\ hidx = index_w /\ dma.next = Ahead(WrapIndex(index_w), Owed)
    BY <1>1, <1>2 DEF PhaseInv, Running
  <2> QED
    BY <2>1, WrapOfSlot
<1>6. slot' = [slot EXCEPT ![index_w] = hbuf]
  BY <1>5 DEF SetBuffer, Remap
<1>7. Owed \in Nat /\ 0 < Owed /\ Owed < TS2D_BUFFERS
  BY <1>1, OwedFew DEF InStep, Owed, TypeOK, Sessions
<1>8. Unserved = Owed /\ Unserved' = Unserved /\ Due = hbuf /\ Due' = Due /\ Done' = Done
  BY <1>1, <1>7 DEF Unserved, Owed, Due, Done
<1>9. session.runs \in Nat /\ Remapped = session.runs /\ Remapped' = session.runs + 1
  BY <1>1, CountTypes DEF Remapped
<1>10. /\ SlotsFollow(slot', dma.next, Done, session.runs, Due, session.runs + 1)
       /\ index_w # dma.next
  <2>1. SlotsFollow(slot, Ahead(index_w, Owed), session.runs + Owed, session.runs, hbuf, session.runs)
    BY <1>3, <1>4, <1>5, <1>8, <1>9
  <2>2. /\ SlotsFollow([slot EXCEPT ![index_w] = hbuf], Ahead(index_w, Owed),
                       session.runs + Owed, session.runs, hbuf, session.runs + 1)
        /\ index_w # Ahead(index_w, Owed)
    BY <1>5, <1>7, <1>9, <2>1, SlotsSet DEF TypeOK
  <2> QED
    BY <1>3, <1>5, <1>6, <1>8, <2>2
<1>11. CountInv'
  <2>1. dma'.cur = slot'[dma'.next]
    BY <1>1, <1>3, <1>6, <1>10 DEF TypeOK
  <2> QED
    BY <1>1, <1>3, <1>8, <2>1 DEF CountInv
<1> QED
  BY <1>1, <1>4, <1>8, <1>9, <1>10, <1>11 DEF FollowInv

\* What a run delivers, in the words of the promise.
InOrder == Settled /\ data[hbuf] > session.base => data[hbuf] = session.last + 1

LEMMA DeliverFollows ==
  ASSUME TypeOK, RingBalanced, PastInv, CountInv, FollowInv, Deliver
  PROVE  CountInv' /\ FollowInv' /\ (Running => InOrder)
<1>1. h = "deliver" /\ h' = "idle" /\ UNCHANGED <<ring, slot, dma, data, filled, irq, hbuf>>
  BY DEF Deliver, HandlerStep, engine
<1> DEFINE last == IF data[hbuf] > session.base THEN data[hbuf] ELSE session.last
<1>2. /\ session'.clean = session.clean /\ session'.base = session.base
      /\ session'.runs = session.runs + 1 /\ session'.tail0 = session.tail0
      /\ session'.last = last /\ session'.lost = session.lost
  BY DEF Deliver, TypeOK, Sessions
<1> HIDE DEF last
<1> SUFFICES ASSUME Running PROVE CountInv' /\ FollowInv' /\ InOrder
  BY <1>1, <1>2 DEF CountInv, FollowInv, Running, InStep, FewLost
<1>3. /\ Done = session.runs + Unserved /\ dma.cur = slot[dma.next]
      /\ Done < TS2D_BUFFERS => dma.next = Done
  BY DEF CountInv
<1>4. /\ DueFollows(hbuf, session.runs, session.tail0)
      /\ SlotsFollow(slot, dma.next, Done, session.runs, hbuf, Remapped)
      /\ DataFollows(data, session.base, Done, session.runs, hbuf)
      /\ LastFollows(session.last, session.base, session.runs, session.tail0)
  BY <1>1 DEF FollowInv, Due
<1>5. Unserved \in Nat /\ Unserved > 0 /\ Unserved < TS2D_BUFFERS /\ Unserved = Unserved' + 1
  BY <1>1, <1>2, UnservedFew DEF Running, InStep, Unserved, Owed, TypeOK, Sessions
<1>6. session.runs < Done /\ Done < session.runs + TS2D_BUFFERS
  BY <1>3, <1>5, CountTypes, ConstantFacts
<1>7. Due' = Following(hbuf)
  <2>1. ring.tail = (hbuf + 1) % RINGSIZ
    BY <1>1 DEF PastInv
  <2>2. ring.tail = Following(hbuf)
    BY <2>1, NextCursor DEF Following, TypeOK
  <2> QED
    BY <1>1, <2>2 DEF Due
<1>8. Done' = Done /\ Remapped = session.runs + 1 /\ Remapped' = session.runs + 1
  BY <1>1, <1>2, CountTypes DEF Done, Remapped
<1>9. hbuf \in Buffers
  BY DEF TypeOK
<1>10. DueFollows(Following(hbuf), session.runs + 1, session.tail0)
  BY <1>4, <1>9, CountTypes, DueDeliver
<1>11. SlotsFollow(slot, dma.next, Done, session.runs + 1, Following(hbuf), session.runs + 1)
  BY <1>4, <1>6, <1>8, <1>9, CountTypes, SlotsDeliver
<1>12. DataFollows(data, session.base, Done, session.runs + 1, Following(hbuf))
  BY <1>4, <1>6, <1>9, CountTypes, DataDeliver
<1>13. /\ LastFollows(last, session.base, session.runs + 1, session.tail0)
       /\ InOrder
  <2>1. data[hbuf] \in Nat /\ Holds(data[hbuf], session.base, Done, session.runs, hbuf)
    BY <1>4, <1>6, <1>9, CountTypes, Delivered
  <2>2. ASSUME data[hbuf] > session.base
        PROVE  LastFollows(data[hbuf], session.base, session.runs + 1, session.tail0)
    BY <1>4, <1>6, <1>9, <2>1, <2>2, CountTypes, LastDeliver
  <2>3. ASSUME ~(data[hbuf] > session.base)
        PROVE  LastFollows(session.last, session.base, session.runs + 1, session.tail0)
    BY <1>4, <1>6, <1>9, <2>1, <2>3, CountTypes, LastDeliver
  <2>4. ASSUME SettledAt(session.runs, session.tail0), data[hbuf] > session.base
        PROVE  IsNext(session.last, data[hbuf])
    BY <1>4, <1>6, <1>9, <2>1, <2>4, CountTypes, LastDeliver
  <2> QED
    BY <2>2, <2>3, <2>4 DEF last, InOrder, Settled, SettledAt, IsNext
<1>14. CountInv'
  <2> DEFINE u == Unserved'
  <2>1. Unserved = u + 1 /\ u \in Nat
    <3>1. u \in Nat
      BY <1>1, <1>2 DEF Unserved, Owed, TypeOK, Sessions
    <3> QED
      BY <1>5, <3>1
  <2>2. Done = session.runs + 1 + u
    <3> HIDE DEF u
    <3> QED
      BY <1>3, <2>1, CountTypes
  <2>3. Done' = session'.runs + Unserved'
    BY <1>2, <1>8, <2>2
  <2> QED
    BY <1>1, <1>3, <1>8, <2>3 DEF CountInv
<1> QED
  BY <1>1, <1>2, <1>7, <1>8, <1>10, <1>11, <1>12, <1>13, <1>14 DEF FollowInv

LEMMA NextFollows ==
  ASSUME IInv, PastInv, QuietInv, CountInv, FollowInv, [Next]_vars
  PROVE  CountInv' /\ FollowInv'
<1> USE DEF IInv
<1> SUFFICES ASSUME Running' PROVE CountInv' /\ FollowInv'
  BY DEF CountInv, FollowInv
<1>0. InStep
  <2>1. ~Reset
    BY DEF Running, Reset, TypeOK
  <2> QED
    BY <2>1, InStepBefore DEF Running
<1> USE <1>0
<1>1. ASSUME UNCHANGED <<ring, slot, dma, data, filled, irq, h, hbuf, session>>
      PROVE  CountInv' /\ FollowInv'
  BY <1>1, Keeps DEF Due, Unserved, Owed, Remapped
<1>2. CASE Feed \/ LoadIndex \/ StoreIndex
  BY <1>1, <1>2
  DEF Feed, StartFeed, StopFeed, LoadIndex, StoreIndex, Thread, engine, handler
<1>3. CASE Reset \/ InitPtables \/ Prepare
  BY <1>3
  DEF Reset, InitPtables, Prepare, Thread, StartingInv, Starting, TypeOK, CountInv, FollowInv, Running
<1>4. CASE Run
  BY <1>4, RunFollows
<1>5. CASE Complete
  BY <1>5, CompleteFollows
<1>6. CASE Enter \/ ClearedAgain
  <2>1. UNCHANGED <<ring, slot, dma, data, filled, hbuf>>
    BY <1>6 DEF Enter, ClearedAgain, engine, handler
  <2>2. /\ session'.clean = session.clean /\ session'.base = session.base
        /\ session'.runs = session.runs /\ session'.tail0 = session.tail0
        /\ session'.last = session.last
    BY <1>6 DEF Enter, ClearedAgain, TypeOK, Sessions
  <2>3. Due' = Due /\ Remapped' = Remapped
    BY <1>6, <2>1, <2>2 DEF Enter, ClearedAgain, HandlerStep, Due, Remapped, handler
  <2>4. Unserved' = Unserved
    BY <1>6 DEF Enter, ClearedAgain, HandlerStep, Unserved, Owed, TypeOK, Sessions, handler
  <2> QED
    BY <2>1, <2>2, <2>3, <2>4, Keeps
<1>7. CASE GetBuffer \/ LoadForIncrement \/ StoreIncrement
  <2>1. UNCHANGED <<ring, slot, dma, data, filled, irq, hbuf, session>>
    BY <1>7 DEF GetBuffer, LoadForIncrement, StoreIncrement, HandlerStep, engine
  <2>2. Due' = Due /\ Remapped' = Remapped
    BY <1>7, <2>1
    DEF GetBuffer, LoadForIncrement, StoreIncrement, HandlerStep, Due, Remapped
  <2>3. Unserved' = Unserved
    BY <1>7, <2>1
    DEF GetBuffer, LoadForIncrement, StoreIncrement, HandlerStep, Unserved, Owed, TypeOK, Sessions
  <2> QED
    BY <2>1, <2>2, <2>3, Keeps
<1>8. CASE WriteRing
  <2>1. h = "write" /\ ~ring_full(ring)
    BY <1>8, ConstantFacts DEF WriteRing, HandlerStep, RingBalanced, ring_full
  <2>2. h' = "set" /\ hbuf' = ring.tail /\ UNCHANGED <<slot, dma, data, filled, irq, session>>
    BY <1>8, <2>1 DEF WriteRing, HandlerStep, engine
  <2>3. Due' = Due /\ Remapped' = Remapped /\ Unserved' = Unserved
    BY <2>1, <2>2 DEF Due, Remapped, Unserved, Owed
  <2> QED
    BY <2>2, <2>3, Keeps
<1>9. CASE SetBuffer
  BY <1>9, SetFollows
<1>10. CASE ReadRing
  <2>1. h = "read" /\ ~ring_empty(ring) /\ hbuf = ring.head
    BY <1>10 DEF ReadRing, HandlerStep, RingBalanced, ring_empty
  <2>2. h' = "deliver" /\ hbuf' = hbuf /\ UNCHANGED <<slot, dma, data, filled, irq, session>>
    BY <1>10, <2>1 DEF ReadRing, HandlerStep, engine
  <2>3. Due' = Due /\ Remapped' = Remapped /\ Unserved' = Unserved
    BY <2>1, <2>2 DEF Due, Remapped, Unserved, Owed
  <2> QED
    BY <2>2, <2>3, Keeps
<1>11. CASE Deliver
  BY <1>11, DeliverFollows
<1>12. CASE UNCHANGED vars
  BY <1>1, <1>12 DEF vars, engine, handler
<1> QED
  BY <1>2, <1>3, <1>4, <1>5, <1>6, <1>7, <1>8, <1>9, <1>10, <1>11, <1>12
  DEF Next, Starter, Handler

-----------------------------------------------------------------------------
(* The theorems.                                                           *)

LEMMA NextOrder == OrderInv /\ [Next]_vars => OrderInv'
<1> SUFFICES ASSUME OrderInv, [Next]_vars PROVE OrderInv'
  OBVIOUS
<1>1. IInv'
  BY NextIInv DEF OrderInv
<1>2. PastInv'
  BY NextPast DEF OrderInv, IInv
<1>3. QuietInv'
  BY NextQuiet DEF OrderInv, IInv
<1>4. CountInv' /\ FollowInv'
  BY NextFollows DEF OrderInv
<1> QED
  BY <1>1, <1>2, <1>3, <1>4 DEF OrderInv

LEMMA OrderHolds == Spec => []OrderInv
<1>1. Init => OrderInv
  BY InitOrder
<1>2. OrderInv /\ [Next]_vars => OrderInv'
  BY NextOrder
<1> QED
  BY <1>1, <1>2, PTL DEF Spec

\* From the second round of the ring the latest filling delivered is exactly
\* TS2D_BUFFERS behind the handler runs, whatever the ring's tail and the
\* contents of its buffers were when the session began.
THEOREM SteadyLagKept == Spec => []SteadyLag
<1>1. OrderInv => SteadyLag
  <2> SUFFICES ASSUME OrderInv, InStep, session.runs > RINGSIZ
               PROVE  session.last = session.base + session.runs - TS2D_BUFFERS
    BY DEF SteadyLag
  <2>1. dma.run
    BY ConstantFacts DEF InStep, OrderInv, QuietInv
  <2> QED
    BY <2>1 DEF OrderInv, FollowInv, Running, LastFollows
<1> QED
  BY <1>1, OrderHolds, PTL

\* From then on each interrupt merged or lost costs one buffer of delay for the
\* rest of the session: the handler moves one buffer a run and ignores the
\* engine's own index (saa7231_ts2dtl_get_buffer), so nothing catches up.
THEOREM LossesAddLagKept == Spec => []LossesAddLag
<1>1. OrderInv => LossesAddLag
  <2> SUFFICES ASSUME OrderInv, InStep, session.runs > RINGSIZ
               PROVE  filled = session.last + TS2D_BUFFERS + Owed
                                 + (IF h \in {"read", "deliver"} THEN 1 ELSE 0)
    BY DEF LossesAddLag
  <2> DEFINE reading == IF h \in {"read", "deliver"} THEN 1 ELSE 0
  <2>1. dma.run
    BY ConstantFacts DEF InStep, OrderInv, QuietInv
  <2>2. session.last = session.base + session.runs - TS2D_BUFFERS
    BY <2>1 DEF OrderInv, FollowInv, Running, LastFollows
  <2>3. Done = session.runs + (Owed + reading)
    BY <2>1 DEF OrderInv, CountInv, Running, Unserved
  <2>4. /\ session.base + Done = filled
        /\ session.base \in Nat /\ session.runs \in Nat /\ TS2D_BUFFERS \in Nat
    BY CountTypes, ConstantFacts DEF OrderInv, IInv
  <2>5. Owed \in Nat /\ reading \in Nat
    BY OwedFew DEF OrderInv, IInv, InStep
  <2> HIDE DEF reading
  <2>6. filled = session.last + TS2D_BUFFERS + Owed + reading
    BY <2>2, <2>3, <2>4, <2>5
  <2> QED
    BY <2>6 DEF reading
<1> QED
  BY <1>1, OrderHolds, PTL

LEMMA WarmApart == OrderInv => NoTornDeliveryOnceWarm
<1> SUFFICES ASSUME OrderInv, InStep, session.runs >= TS2D_BUFFERS,
                    h = "deliver", dma.run
             PROVE  hbuf # dma.cur /\ hbuf # slot[dma.next]
  BY DEF NoTornDeliveryOnceWarm, UnderDma
<1> USE DEF OrderInv, IInv
<1>1. /\ Done = session.runs + Unserved /\ dma.cur = slot[dma.next]
      /\ Done < TS2D_BUFFERS => dma.next = Done
      /\ SlotsFollow(slot, dma.next, Done, session.runs, Due, Remapped)
  BY DEF CountInv, FollowInv, Running
<1>2. Unserved \in Nat /\ Unserved < TS2D_BUFFERS
  BY UnservedFew DEF InStep
<1>3. session.runs <= Done /\ Done < session.runs + TS2D_BUFFERS /\ TS2D_BUFFERS <= Done
  BY <1>1, <1>2, CountTypes, ConstantFacts
<1>4. Target(slot[dma.next], Done, session.runs, Due)
  BY <1>1, <1>3, CountTypes, SlotsTarget DEF TypeOK
<1>5. slot[dma.next] # Due
  BY <1>3, <1>4, CountTypes, ConstantFacts DEF Target
<1> QED
  BY <1>1, <1>5 DEF Due

\* Once each slot has been remapped, a buffer handed to the demultiplexer in a
\* session in step is never one the engine is writing, whatever the alignment of
\* slots and ring.
THEOREM NeverTornOnceWarm == Spec => []NoTornDeliveryOnceWarm
<1>1. OrderInv => NoTornDeliveryOnceWarm
  BY WarmApart
<1> QED
  BY <1>1, OrderHolds, PTL

LEMMA DeliveryInit == Init => Delivery!Init
BY ConstantFacts DEF Init, Settled, Delivery!Init

\* A step that only misses an interrupt settles nothing.
LEMMA LessSettled ==
  ASSUME TypeOK,
         session'.clean = session.clean, session'.tail0 = session.tail0,
         session'.runs = session.runs,
         session'.lost \in Nat, session'.lost >= session.lost
  PROVE  Settled' \in {Settled, FALSE}
<1>1. Settled' => Settled
  BY ConstantFacts DEF Settled, InStep, FewLost, TypeOK, Sessions
<1>2. Settled \in BOOLEAN /\ Settled' \in BOOLEAN
  BY DEF Settled
<1> QED
  BY <1>1, <1>2

LEMMA DeliveryStep ==
  ASSUME OrderInv, [Next]_vars
  PROVE  [Delivery!Next]_(Delivery!vars)
<1> USE DEF OrderInv, IInv
<1>1. ASSUME filled' = filled, session'.last = session.last, session'.fresh = session.fresh,
             session'.clean = session.clean, session'.tail0 = session.tail0,
             session'.runs = session.runs, session'.lost = session.lost
      PROVE  UNCHANGED Delivery!vars
  BY <1>1 DEF Delivery!vars, Settled, InStep, FewLost
<1>2. CASE Feed \/ InitPtables \/ LoadIndex \/ StoreIndex \/ Prepare \/ Run
  BY <1>1, <1>2
  DEF Feed, StartFeed, StopFeed, InitPtables, LoadIndex, StoreIndex, Prepare, Run, Thread,
      engine
<1>3. CASE Reset
  <2>1. /\ filled' = filled /\ session'.last = filled /\ session'.fresh = 0
        /\ Settled' \in BOOLEAN
    BY <1>3 DEF Reset, NewSession, Thread, Settled
  <2> QED
    BY <2>1 DEF Delivery!Restart, Delivery!Next
<1>4. CASE Complete
  <2>1. /\ filled' = filled + 1
        /\ session'.last = session.last /\ session'.fresh = session.fresh
        /\ session'.clean = session.clean /\ session'.tail0 = session.tail0
        /\ session'.runs = session.runs
        /\ session'.lost \in Nat /\ session'.lost >= session.lost
    BY <1>4 DEF Complete, TypeOK, Sessions
  <2>2. Settled' \in {Settled, FALSE}
    BY <2>1, LessSettled
  <2> QED
    BY <2>1, <2>2 DEF Delivery!Fill, Delivery!Next
<1>5. CASE Enter \/ GetBuffer \/ WriteRing \/ SetBuffer \/ LoadForIncrement
             \/ StoreIncrement \/ ReadRing
  BY <1>1, <1>5
  DEF Enter, GetBuffer, WriteRing, SetBuffer, LoadForIncrement, StoreIncrement, ReadRing,
      HandlerStep, engine
<1>6. CASE Deliver
  <2> DEFINE new == data[hbuf] > session.base
  <2>1. /\ filled' = filled
        /\ session'.clean = session.clean /\ session'.tail0 = session.tail0
        /\ session'.runs = session.runs + 1 /\ session'.lost = session.lost
        /\ session'.last = (IF new THEN data[hbuf] ELSE session.last)
        /\ session'.fresh = (IF new THEN session.fresh + 1 ELSE session.fresh)
    BY <1>6 DEF Deliver, TypeOK, Sessions, engine
  <2>2. data[hbuf] \in 0 .. filled /\ session.last \in 0 .. filled
    BY DEF PastInv, TypeOK, Sessions
  <2>3. CASE ~Settled
    <3>1. session'.last \in 0 .. filled
      BY <2>1, <2>2
    <3>2. session'.fresh \in {session.fresh, session.fresh + 1}
      BY <2>1
    <3>3. Settled' \in BOOLEAN
      BY DEF Settled
    <3> QED
      BY <2>1, <2>3, <3>1, <3>2, <3>3 DEF Delivery!DeliverUnsettled, Delivery!Next
  <2>4. CASE Settled
    <3>1. Settled'
      BY <2>1, <2>4, ConstantFacts DEF Settled, InStep, FewLost, TypeOK, Sessions
    <3>2. Running
      BY <1>6, <2>4 DEF Deliver, HandlerStep, Settled, InStep, Running, QuietInv
    <3>3. InOrder
      BY <1>6, <3>2, DeliverFollows
    <3>4. CASE new
      <4>1. session'.last = session.last + 1 /\ session'.fresh = session.fresh + 1
        BY <2>1, <2>4, <3>3, <3>4 DEF InOrder
      <4>2. session.last < filled
        BY <2>1, <2>2, <3>4, <4>1 DEF TypeOK, Sessions
      <4>3. Settled' = Settled
        BY <2>4, <3>1
      <4> QED
        BY <2>1, <2>4, <4>1, <4>2, <4>3 DEF Delivery!Deliver, Delivery!Next
    <3>5. CASE ~new
      <4>1. Settled' = Settled
        BY <2>4, <3>1
      <4> QED
        BY <2>1, <3>5, <4>1 DEF Delivery!vars
    <3> QED
      BY <3>4, <3>5
  <2> QED
    BY <2>3, <2>4
<1>7. CASE ClearedAgain
  <2>1. /\ filled' = filled
        /\ session'.last = session.last /\ session'.fresh = session.fresh
        /\ session'.clean = session.clean /\ session'.tail0 = session.tail0
        /\ session'.runs = session.runs
        /\ session'.lost \in Nat /\ session'.lost >= session.lost
    BY <1>7 DEF ClearedAgain, TypeOK, Sessions, engine
  <2>2. Settled' \in {Settled, FALSE}
    BY <2>1, LessSettled
  <2>3. CASE Settled' = Settled
    BY <2>1, <2>3 DEF Delivery!vars
  <2>4. CASE Settled' = FALSE
    BY <2>1, <2>4 DEF Delivery!Miss, Delivery!Next
  <2> QED
    BY <2>2, <2>3, <2>4
<1>8. CASE UNCHANGED vars
  BY <1>1, <1>8 DEF vars, engine
<1> QED
  BY <1>2, <1>3, <1>4, <1>5, <1>6, <1>7, <1>8 DEF Next, Starter, Handler

\* The capture path keeps the delivery promise: in a settled session every
\* buffer filled is delivered exactly once and in order, through any
\* interleaving of engine, interrupt handler and feed thread.
THEOREM ImplementsDelivery == Spec => DeliversInOrder
<1>1. Init => Delivery!Init
  BY DeliveryInit
<1>2. OrderInv /\ [Next]_vars => [Delivery!Next]_(Delivery!vars)
  BY DeliveryStep
<1> QED
  BY <1>1, <1>2, OrderHolds, PTL DEF Spec, DeliversInOrder, Delivery!Spec

\* What the promise adds up to over a whole session that begins settled: as many
\* deliveries as the number of the latest one, so none was skipped or repeated.
EachOnce ==
  InStep /\ (session.tail0 = 0 \/ session.tail0 >= TS2D_BUFFERS)
    => session.last = session.base + session.fresh

LEMMA NextEachOnce ==
  ASSUME OrderInv, EachOnce, [Next]_vars
  PROVE  EachOnce'
<1> USE DEF OrderInv, IInv
<1>1. CASE Reset
  BY <1>1 DEF Reset, NewSession, Thread, EachOnce, TypeOK
<1>2. CASE Deliver
  <2> SUFFICES ASSUME InStep', session'.tail0 = 0 \/ session'.tail0 >= TS2D_BUFFERS
               PROVE  session'.last = session'.base + session'.fresh
    BY DEF EachOnce
  <2> DEFINE new == data[hbuf] > session.base
  <2>1. /\ session'.clean = session.clean /\ session'.tail0 = session.tail0
        /\ session'.base = session.base /\ session'.lost = session.lost
        /\ session'.last = (IF new THEN data[hbuf] ELSE session.last)
        /\ session'.fresh = (IF new THEN session.fresh + 1 ELSE session.fresh)
    BY <1>2 DEF Deliver, TypeOK, Sessions
  <2>2. Settled /\ session.last = session.base + session.fresh
    BY <2>1 DEF Settled, EachOnce, InStep, FewLost
  <2>3. Running
    BY <1>2, <2>2 DEF Deliver, HandlerStep, Settled, InStep, Running, QuietInv
  <2>4. new => data[hbuf] = session.last + 1
    BY <1>2, <2>2, <2>3, DeliverFollows DEF InOrder
  <2>5. session.last \in Nat /\ session.base \in Nat /\ session.fresh \in Nat
    BY DEF TypeOK, Sessions
  <2> QED
    BY <2>1, <2>2, <2>4, <2>5
<1>3. ASSUME session'.clean = session.clean,
             session'.lost \in {session.lost, session.lost + 1},
             session'.tail0 = session.tail0, session'.base = session.base,
             session'.last = session.last, session'.fresh = session.fresh
      PROVE  EachOnce'
  <2>1. InStep' => InStep
    BY <1>3, ConstantFacts DEF InStep, FewLost, TypeOK, Sessions
  <2> QED
    BY <1>3, <2>1 DEF EachOnce
<1>4. CASE Feed \/ InitPtables \/ LoadIndex \/ StoreIndex \/ Prepare \/ Run
  BY <1>3, <1>4
  DEF Feed, StartFeed, StopFeed, InitPtables, LoadIndex, StoreIndex, Prepare, Run, Thread
<1>5. CASE Complete \/ ClearedAgain
  BY <1>3, <1>5 DEF Complete, ClearedAgain, TypeOK, Sessions
<1>6. CASE Enter \/ GetBuffer \/ WriteRing \/ SetBuffer \/ LoadForIncrement
             \/ StoreIncrement \/ ReadRing
  BY <1>3, <1>6
  DEF Enter, GetBuffer, WriteRing, SetBuffer, LoadForIncrement, StoreIncrement, ReadRing,
      HandlerStep
<1>7. CASE UNCHANGED vars
  BY <1>3, <1>7 DEF vars
<1> QED
  BY <1>1, <1>2, <1>4, <1>5, <1>6, <1>7 DEF Next, Starter, Handler

\* A session that starts with the ring's tail at 0 or in its upper half hands each
\* filling to the demultiplexer once, up to the latest handed over.
THEOREM EachFillingOnce == Spec => []EachOnce
<1>1. Init => EachOnce
  BY DEF Init, EachOnce
<1>2. OrderInv /\ EachOnce /\ [Next]_vars => EachOnce'
  BY NextEachOnce
<1> QED
  BY <1>1, <1>2, OrderHolds, PTL DEF Spec
=============================================================================
