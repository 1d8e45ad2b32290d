--------------------------- MODULE TsCaptureProofs ---------------------------
(***************************************************************************)
(* Proofs about TsCapture, for every ring size, slot count and bound:      *)
(* its type invariant, the balance of the ring, the phase between index_w  *)
(* and the engine, and the absence of torn deliveries.                     *)
(***************************************************************************)
EXTENDS TsCapture, TLAPS

Starting == starter \in {"ptables", "load", "store", "prepare", "run"}

(***************************************************************************)
(* The last two invariants are not inductive.  Phase adds what holds while *)
(* a clean session is being started, when no handler can run, and what the *)
(* handler's copy of index_w is; the interrupts owed stay below one round  *)
(* of the slots because the session is in step.                            *)
(***************************************************************************)
StartingInv ==
  Starting =>
    /\ ~dma.run
    /\ dma.next = 0
    /\ session.clean =>
         /\ h = "idle"
         /\ ~irq
         /\ session.lost = 0
         /\ ring.tail = session.tail0
         /\ starter = "store" => sreg = index_w
         /\ starter \in {"prepare", "run"} => index_w >= TS2D_BUFFERS

PhaseInv ==
  InStep /\ dma.run =>
    /\ dma.next = Ahead(WrapIndex(index_w), Owed)
    /\ h \in {"set", "load", "store"} => index_w \in Slots
    /\ h \in {"set", "store"} => hidx = index_w

(***************************************************************************)
(* In an aligned session slot i only ever maps buffers i and               *)
(* i + TS2D_BUFFERS, so that different slots map different buffers, and    *)
(* the ring's tail and index_w name the same slot.                         *)
(***************************************************************************)
SlotsAligned == \A i \in Slots : SlotOf(slot[i]) = i

AlignedInv ==
  Aligned =>
    /\ Starting /\ starter # "ptables" => SlotsAligned
    /\ dma.run =>
         /\ SlotsAligned
         /\ SlotOf(dma.cur) = dma.next
         /\ h \in {"set", "load", "store"} => SlotOf(hbuf) = index_w
         /\ h \in {"idle", "get", "write", "read", "deliver"}
              => SlotOf(ring.tail) = WrapIndex(index_w)
         /\ h = "deliver" => NextSlot(SlotOf(hbuf)) = SlotOf(ring.tail)

IInv == TypeOK /\ RingBalanced /\ StartingInv /\ PhaseInv /\ AlignedInv

-----------------------------------------------------------------------------
(* Arithmetic of the cursors.                                              *)

LEMMA ConstantFacts ==
  /\ TS2D_BUFFERS \in Nat \ {0}
  /\ RINGSIZ \in Nat \ {0}
  /\ RINGSIZ = 2 * TS2D_BUFFERS
  /\ MaxLost \in Nat /\ MaxFeeds \in Nat /\ MaxStarts \in Nat /\ MaxFilled \in Nat
BY SlotsAssumption, TwoRounds, RingsizAssumption, BoundsAssumption

\* A ring cursor moves to the next buffer, or from the last one to the first.
LEMMA NextCursor ==
  ASSUME NEW b \in Buffers
  PROVE  (b + 1) % RINGSIZ = IF b + 1 = RINGSIZ THEN 0 ELSE b + 1
<1>1. CASE b + 1 = RINGSIZ
  BY <1>1, ConstantFacts DEF Buffers
<1>2. CASE b + 1 # RINGSIZ
  BY <1>2, ConstantFacts DEF Buffers
<1> QED BY <1>1, <1>2

LEMMA CursorType ==
  ASSUME NEW b \in Buffers
  PROVE  (b + 1) % RINGSIZ \in Buffers
BY NextCursor, ConstantFacts DEF Buffers

\* What writing an entry does to an empty ring, and reading it back to the result.
LEMMA RingWriteType ==
  ASSUME NEW r \in Rings
  PROVE  /\ ring_write(r) \in Rings
         /\ ring_write(r).head = r.head
         /\ ring_write(r).tail = (r.tail + 1) % RINGSIZ
         /\ ~ring_full(r) => ring_write(r).count = r.count + 1
<1> DEFINE t == (r.tail + 1) % RINGSIZ
           c == IF r.count < RINGSIZ THEN r.count + 1 ELSE r.count
<1>1. r.head \in Buffers /\ t \in Buffers
  BY CursorType DEF Rings
<1>2. ring_write(r) = [r EXCEPT !.tail = t, !.count = c]
  BY DEF ring_write
<1>3. c \in 0 .. RINGSIZ /\ (~ring_full(r) => c = r.count + 1)
  BY ConstantFacts DEF Rings, ring_full
<1>4. t = (r.tail + 1) % RINGSIZ
  OBVIOUS
<1> HIDE DEF t, c
<1> QED
  BY <1>1, <1>2, <1>3, <1>4 DEF Rings

LEMMA RingReadType ==
  ASSUME NEW r \in Rings, ~ring_empty(r)
  PROVE  /\ ring_read(r) \in Rings
         /\ ring_read(r).head = (r.head + 1) % RINGSIZ
         /\ ring_read(r).tail = r.tail
         /\ ring_read(r).count = r.count - 1
<1> DEFINE t == (r.head + 1) % RINGSIZ
           c == r.count - 1
<1>1. t \in Buffers
  BY CursorType DEF Rings
<1>2. ring_read(r) = [r EXCEPT !.head = t, !.count = c]
  BY DEF ring_read
<1>3. c \in 0 .. RINGSIZ /\ c = r.count - 1
  BY ConstantFacts DEF Rings, ring_empty
<1>4. t = (r.head + 1) % RINGSIZ
  OBVIOUS
<1> HIDE DEF t, c
<1> QED
  BY <1>1, <1>2, <1>3, <1>4 DEF Rings

-----------------------------------------------------------------------------
(* Type correctness.                                                       *)

LEMMA InitType == Init => TypeOK
<1> SUFFICES ASSUME Init PROVE TypeOK
  OBVIOUS
<1>1. ring \in Rings
  BY ConstantFacts DEF Init, EmptyRing, Rings, Buffers
<1>2. slot \in [Slots -> Buffers]
  BY ConstantFacts DEF Init, Slots, Buffers
<1>3. data \in [Buffers -> 0 .. MaxFilled]
  BY ConstantFacts DEF Init, Buffers
<1>4. dma \in [run : BOOLEAN, ready : BOOLEAN, next : Slots, cur : Buffers]
  <2>1. 0 \in Slots /\ 0 \in Buffers
    BY ConstantFacts DEF Slots, Buffers
  <2>2. PICK r \in BOOLEAN : dma = [run |-> FALSE, ready |-> r, next |-> 0, cur |-> 0]
    BY DEF Init
  <2> QED
    BY <2>1, <2>2
<1>5. session \in Sessions
  BY ConstantFacts DEF Init, Sessions, Buffers
<1>6. /\ feeds \in 0 .. MaxFeeds /\ starts \in 0 .. MaxStarts /\ filled \in 0 .. MaxFilled
      /\ sreg \in Nat /\ index_w \in Nat /\ hidx \in Nat /\ hbuf \in Buffers
  BY ConstantFacts DEF Init, Buffers
<1>7. /\ clock_run \in BOOLEAN /\ irq \in BOOLEAN /\ s2d \in BOOLEAN
      /\ starter \in StarterSteps /\ h \in HandlerSteps
  BY DEF Init, StarterSteps, HandlerSteps
<1> QED
  BY <1>1, <1>2, <1>3, <1>4, <1>5, <1>6, <1>7 DEF TypeOK

LEMMA NextType == TypeOK /\ [Next]_vars => TypeOK'
<1> SUFFICES ASSUME TypeOK, [Next]_vars PROVE TypeOK'
  OBVIOUS
<1> USE ConstantFacts
<1>1. CASE StartFeed
  BY <1>1 DEF StartFeed, TypeOK, StarterSteps, engine, handler
<1>2. CASE StopFeed
  BY <1>2 DEF StopFeed, TypeOK, engine, handler
<1>3. CASE Reset
  <2>1. session' \in Sessions
    BY <1>3 DEF Reset, NewSession, TypeOK, Sessions, Rings
  <2>2. dma' \in [run : BOOLEAN, ready : BOOLEAN, next : Slots, cur : Buffers]
    <3>1. 0 \in Slots
      BY DEF Slots
    <3> QED
      BY <1>3, <3>1 DEF Reset, TypeOK
  <2> QED
    BY <1>3, <2>1, <2>2 DEF Reset, Thread, TypeOK, StarterSteps, handler
<1>4. CASE InitPtables
  BY <1>4 DEF InitPtables, Thread, Ptables, TypeOK, StarterSteps, Slots, Buffers, handler
<1>5. CASE LoadIndex
  BY <1>5 DEF LoadIndex, Thread, TypeOK, StarterSteps, handler
<1>6. CASE StoreIndex
  BY <1>6 DEF StoreIndex, Thread, TypeOK, StarterSteps, handler
<1>7. CASE Prepare
  BY <1>7 DEF Prepare, Thread, TypeOK, StarterSteps, handler
<1>8. CASE Run
  BY <1>8 DEF Run, Thread, TypeOK, StarterSteps, handler
<1>9. CASE Complete
  <2>1. NextSlot(dma.next) \in Slots
    BY DEF NextSlot, TypeOK, Slots
  <2>2. dma' \in [run : BOOLEAN, ready : BOOLEAN, next : Slots, cur : Buffers]
    BY <1>9, <2>1 DEF Complete, TypeOK
  <2>3. session' \in Sessions
    BY <1>9 DEF Complete, TypeOK, Sessions
  <2>4. data' \in [Buffers -> 0 .. MaxFilled] /\ filled' \in 0 .. MaxFilled
    BY <1>9 DEF Complete, TypeOK
  <2> QED
    BY <1>9, <2>2, <2>3, <2>4 DEF Complete, TypeOK, thread, handler
<1>10. CASE Enter
  BY <1>10 DEF Enter, HandlerStep, TypeOK, HandlerSteps, thread, engine
<1>11. CASE GetBuffer
  BY <1>11 DEF GetBuffer, HandlerStep, TypeOK, HandlerSteps, thread
<1>12. CASE WriteRing
  BY <1>12, RingWriteType
  DEF WriteRing, HandlerStep, WrapIndex, TypeOK, HandlerSteps, Rings, thread, engine
<1>13. CASE SetBuffer
  BY <1>13 DEF SetBuffer, HandlerStep, Remap, TypeOK, HandlerSteps, thread, engine
<1>14. CASE LoadForIncrement
  BY <1>14 DEF LoadForIncrement, HandlerStep, TypeOK, HandlerSteps, thread, engine
<1>15. CASE StoreIncrement
  BY <1>15 DEF StoreIncrement, HandlerStep, TypeOK, HandlerSteps, thread, engine
<1>16. CASE ReadRing
  BY <1>16, RingReadType
  DEF ReadRing, HandlerStep, TypeOK, HandlerSteps, Rings, thread, engine
<1>17. CASE Deliver
  <2>1. session' \in Sessions
    <3> DEFINE fresh == data[hbuf] > session.base
               last  == IF fresh THEN data[hbuf] ELSE session.last
               count == IF fresh THEN session.fresh + 1 ELSE session.fresh
    <3>1. session' = [session EXCEPT !.runs = @ + 1, !.last = last, !.fresh = count]
      BY <1>17 DEF Deliver
    <3>2. last \in Nat /\ count \in Nat /\ session.runs + 1 \in Nat
      BY DEF TypeOK, Sessions
    <3>3. session \in Sessions
      BY DEF TypeOK
    <3> HIDE DEF last, count
    <3> QED
      BY <3>1, <3>2, <3>3 DEF Sessions
  <2> QED
    BY <1>17, <2>1 DEF Deliver, HandlerStep, TypeOK, HandlerSteps, thread, engine
<1>18. CASE ClearedAgain
  <2>1. session' \in Sessions
    BY <1>18 DEF ClearedAgain, TypeOK, Sessions
  <2> QED
    BY <1>18, <2>1 DEF ClearedAgain, TypeOK, thread, engine, handler
<1>19. CASE UNCHANGED vars
  BY <1>19 DEF vars, TypeOK, thread, engine, handler
<1> QED
  BY <1>1, <1>2, <1>3, <1>4, <1>5, <1>6, <1>7, <1>8, <1>9, <1>10, <1>11, <1>12,
     <1>13, <1>14, <1>15, <1>16, <1>17, <1>18, <1>19
  DEF Next, Feed, Starter, Handler

\* Every reachable state is well typed; in particular the ring's count never
\* wraps below zero and both cursors stay within the dmabuf array.
THEOREM TypeCorrect == Spec => []TypeOK
<1>1. Init => TypeOK
  BY InitType
<1>2. TypeOK /\ [Next]_vars => TypeOK'
  BY NextType
<1> QED
  BY <1>1, <1>2, PTL DEF Spec
-----------------------------------------------------------------------------
(* The balance of the ring.                                                *)

LEMMA InitBalanced == Init => RingBalanced
BY DEF Init, EmptyRing, RingBalanced

LEMMA NextBalanced == TypeOK /\ RingBalanced /\ [Next]_vars => RingBalanced'
<1> SUFFICES ASSUME TypeOK, RingBalanced, [Next]_vars PROVE RingBalanced'
  OBVIOUS
<1>1. ASSUME UNCHANGED <<ring, hbuf, h>> PROVE RingBalanced'
  BY <1>1 DEF RingBalanced
<1>2. CASE Feed \/ Starter \/ Complete \/ ClearedAgain
  BY <1>1, <1>2
  DEF Feed, StartFeed, StopFeed, Starter, Thread, Reset, InitPtables, LoadIndex,
      StoreIndex, Prepare, Run, Complete, ClearedAgain, handler
<1>3. CASE Enter
  BY <1>3 DEF Enter, HandlerStep, RingBalanced
<1>4. CASE GetBuffer
  BY <1>4 DEF GetBuffer, HandlerStep, RingBalanced
<1>5. CASE WriteRing
  <2>1. h = "write" /\ ring.count = 0 /\ ring.head = ring.tail
    BY <1>5 DEF WriteRing, HandlerStep, RingBalanced
  <2>2. ring \in Rings /\ ~ring_full(ring)
    BY <2>1, ConstantFacts DEF TypeOK, ring_full
  <2>3. h' = "set" /\ ring' = ring_write(ring) /\ hbuf' = ring.tail
    BY <1>5, <2>2 DEF WriteRing, HandlerStep
  <2> QED
    BY <2>1, <2>2, <2>3, RingWriteType DEF RingBalanced
<1>6. CASE SetBuffer
  BY <1>6 DEF SetBuffer, HandlerStep, RingBalanced
<1>7. CASE LoadForIncrement
  BY <1>7 DEF LoadForIncrement, HandlerStep, RingBalanced
<1>8. CASE StoreIncrement
  BY <1>8 DEF StoreIncrement, HandlerStep, RingBalanced
<1>9. CASE ReadRing
  <2>1. h = "read" /\ ring.count = 1 /\ ring.tail = (ring.head + 1) % RINGSIZ
    BY <1>9 DEF ReadRing, HandlerStep, RingBalanced
  <2>2. ring \in Rings /\ ~ring_empty(ring)
    BY <2>1 DEF TypeOK, ring_empty
  <2>3. h' = "deliver" /\ ring' = ring_read(ring)
    BY <1>9, <2>2 DEF ReadRing, HandlerStep
  <2> QED
    BY <2>1, <2>2, <2>3, RingReadType DEF RingBalanced
<1>10. CASE Deliver
  BY <1>10 DEF Deliver, HandlerStep, RingBalanced
<1>11. CASE UNCHANGED vars
  BY <1>1, <1>11 DEF vars, handler
<1> QED
  BY <1>2, <1>3, <1>4, <1>5, <1>6, <1>7, <1>8, <1>9, <1>10, <1>11 DEF Next, Handler

\* Between handler runs the ring is empty and within one it holds the buffer just
\* given to the engine, whatever restarts the feed thread interleaves: neither
\* "FIFO overflow" nor the empty-ring message of the handler can appear.
THEOREM RingAlwaysBalanced == Spec => []RingBalanced
<1>1. Init => TypeOK /\ RingBalanced
  BY InitType, InitBalanced
<1>2. TypeOK /\ RingBalanced /\ [Next]_vars => (TypeOK /\ RingBalanced)'
  BY NextType, NextBalanced
<1> QED
  BY <1>1, <1>2, PTL DEF Spec
-----------------------------------------------------------------------------
(* Slots: the modular arithmetic of the phase.                             *)

LEMMA WrapInSlots == ASSUME NEW i \in Nat PROVE WrapIndex(i) \in Slots
BY ConstantFacts DEF WrapIndex, Slots

LEMMA WrapOfSlot == ASSUME NEW i \in Slots PROVE WrapIndex(i) = i
BY ConstantFacts DEF WrapIndex, Slots

LEMMA WrapOfNext == ASSUME NEW i \in Slots PROVE WrapIndex(i + 1) = NextSlot(i)
BY ConstantFacts DEF WrapIndex, NextSlot, Slots

LEMMA NextInSlots == ASSUME NEW i \in Slots PROVE NextSlot(i) \in Slots
BY ConstantFacts DEF NextSlot, Slots

LEMMA AheadZero == ASSUME NEW i \in Slots PROVE Ahead(i, 0) = i
BY ConstantFacts DEF Ahead, Slots

\* One more interrupt owed is one more slot ahead.
LEMMA AheadNext ==
  ASSUME NEW i \in Slots, NEW k \in Nat, k < TS2D_BUFFERS
  PROVE  Ahead(i, k + 1) = NextSlot(Ahead(i, k))
BY ConstantFacts DEF Ahead, NextSlot, Slots

\* Serving an interrupt moves the index and shortens the debt.
LEMMA AheadServed ==
  ASSUME NEW i \in Slots, NEW k \in Nat, k < TS2D_BUFFERS
  PROVE  Ahead(NextSlot(i), k) = Ahead(i, k + 1)
BY ConstantFacts DEF Ahead, NextSlot, Slots

\* With less than a round owed, the slot before i is never the one being filled.
LEMMA AheadApart ==
  ASSUME NEW i \in Slots, NEW k \in Nat, k + 1 < TS2D_BUFFERS
  PROVE  Ahead(NextSlot(i), k) # i
BY ConstantFacts DEF Ahead, NextSlot, Slots

LEMMA SlotOfBuffer == ASSUME NEW b \in Buffers PROVE SlotOf(b) \in Slots
BY ConstantFacts DEF SlotOf, Buffers, Slots

LEMMA SlotOfSlot == ASSUME NEW i \in Slots PROVE SlotOf(i) = i
BY ConstantFacts DEF SlotOf, Slots

\* The ring's cursors run through the slots twice a round.
LEMMA SlotOfNext ==
  ASSUME NEW b \in Buffers
  PROVE  SlotOf((b + 1) % RINGSIZ) = NextSlot(SlotOf(b))
<1>1. (b + 1) % RINGSIZ = IF b + 1 = RINGSIZ THEN 0 ELSE b + 1
  BY NextCursor
<1> DEFINE m == (b + 1) % RINGSIZ
<1> HIDE DEF m
<1>2. m = IF b + 1 = RINGSIZ THEN 0 ELSE b + 1
  BY <1>1 DEF m
<1>3. SlotOf(m) = NextSlot(SlotOf(b))
  BY <1>2, ConstantFacts DEF SlotOf, NextSlot, Buffers
<1> QED
  BY <1>3 DEF m

-----------------------------------------------------------------------------
(* While a clean session is being started no handler runs.                 *)

LEMMA NextStarting ==
  ASSUME TypeOK, StartingInv, [Next]_vars
  PROVE  StartingInv'
<1> USE ConstantFacts DEF StartingInv, Starting
<1>1. CASE Feed
  BY <1>1 DEF Feed, StartFeed, StopFeed, engine, handler
<1>2. CASE Reset
  BY <1>2 DEF Reset, Thread, NewSession, TypeOK, handler
<1>3. CASE InitPtables
  BY <1>3 DEF InitPtables, Thread, handler
<1>4. CASE LoadIndex
  BY <1>4 DEF LoadIndex, Thread, handler
<1>5. CASE StoreIndex
  BY <1>5 DEF StoreIndex, Thread, TypeOK, handler
<1>6. CASE Prepare
  BY <1>6 DEF Prepare, Thread, TypeOK, handler
<1>7. CASE Run
  BY <1>7 DEF Run, Thread
<1>8. CASE Complete
  BY <1>8 DEF Complete, thread
<1>9. CASE Enter
  BY <1>9 DEF Enter, HandlerStep, thread, engine
<1>10. CASE GetBuffer \/ WriteRing \/ SetBuffer \/ LoadForIncrement \/ StoreIncrement \/ ReadRing
  BY <1>10
  DEF GetBuffer, WriteRing, SetBuffer, LoadForIncrement, StoreIncrement, ReadRing,
      HandlerStep, thread, engine
<1>11. CASE Deliver
  BY <1>11 DEF Deliver, HandlerStep, TypeOK, Sessions, thread, engine
<1>12. CASE ClearedAgain
  BY <1>12 DEF ClearedAgain, TypeOK, Sessions, thread, engine, handler
<1>13. CASE UNCHANGED vars
  BY <1>13 DEF vars, thread, engine, handler
<1> QED
  BY <1>1, <1>2, <1>3, <1>4, <1>5, <1>6, <1>7, <1>8, <1>9, <1>10, <1>11, <1>12, <1>13
  DEF Next, Starter, Handler

LEMMA OwedFew ==
  ASSUME TypeOK, FewLost
  PROVE  Owed \in Nat /\ Owed < TS2D_BUFFERS
BY ConstantFacts DEF TypeOK, Sessions, FewLost, Owed

\* Between two resets a session keeps what it began with, and interrupts are only missed.
LEMMA SessionStays ==
  ASSUME TypeOK, [Next]_vars, ~Reset
  PROVE  /\ session'.clean = session.clean
         /\ session'.tail0 = session.tail0
         /\ session'.base = session.base
         /\ session'.lost \in {session.lost, session.lost + 1}
<1>1. CASE Feed \/ InitPtables \/ LoadIndex \/ StoreIndex \/ Prepare \/ Run
  BY <1>1 DEF Feed, StartFeed, StopFeed, InitPtables, LoadIndex, StoreIndex, Prepare, Run
<1>2. CASE Complete \/ ClearedAgain
  BY <1>2 DEF Complete, ClearedAgain, TypeOK, Sessions
<1>3. CASE Enter \/ GetBuffer \/ WriteRing \/ SetBuffer \/ LoadForIncrement
             \/ StoreIncrement \/ ReadRing
  BY <1>3 DEF Enter, GetBuffer, WriteRing, SetBuffer, LoadForIncrement, StoreIncrement, ReadRing
<1>4. CASE Deliver
  BY <1>4 DEF Deliver, TypeOK, Sessions
<1>5. CASE UNCHANGED vars
  BY <1>5 DEF vars
<1> QED
  BY <1>1, <1>2, <1>3, <1>4, <1>5 DEF Next, Starter, Handler

LEMMA InStepBefore ==
  ASSUME TypeOK, [Next]_vars, ~Reset, InStep'
  PROVE  InStep
<1>1. /\ session'.clean = session.clean
      /\ session'.lost \in {session.lost, session.lost + 1}
  BY SessionStays
<1> QED
  BY <1>1, ConstantFacts DEF InStep, FewLost, TypeOK, Sessions

LEMMA NextPhase ==
  ASSUME TypeOK, RingBalanced, StartingInv, PhaseInv, [Next]_vars
  PROVE  PhaseInv'
<1> USE ConstantFacts
<1> SUFFICES ASSUME InStep', dma'.run
             PROVE  /\ dma.next' = Ahead(WrapIndex(index_w'), Owed')
                    /\ h' \in {"set", "load", "store"} => index_w' \in Slots
                    /\ h' \in {"set", "store"} => hidx' = index_w'
  BY DEF PhaseInv
<1>0. InStep /\ FewLost
  <2>1. ~Reset
    BY DEF Reset, TypeOK
  <2> QED
    BY <2>1, InStepBefore DEF InStep
<1> USE <1>0
<1>1. ASSUME UNCHANGED <<dma, index_w, irq, h, hidx, session>>
      PROVE  PhaseInv'
  BY <1>1 DEF PhaseInv, Owed, InStep, FewLost
<1>2. CASE Feed
  BY <1>1, <1>2 DEF PhaseInv, Feed, StartFeed, StopFeed, engine, handler
<1>3. CASE Reset \/ InitPtables \/ LoadIndex \/ StoreIndex \/ Prepare
  BY <1>3
  DEF StartingInv, Starting, TypeOK, Thread, Reset, InitPtables, LoadIndex, StoreIndex, Prepare
<1>4. CASE Run
  <2>1. /\ session.clean /\ h = "idle" /\ ~irq /\ session.lost = 0
        /\ index_w >= TS2D_BUFFERS /\ dma.next = 0
    BY <1>4 DEF Run, Thread, StartingInv, Starting, InStep
  <2>2. Owed = 0
    BY <2>1 DEF Owed
  <2>3. WrapIndex(index_w) = 0 /\ 0 \in Slots
    BY <2>1 DEF TypeOK, WrapIndex, Slots
  <2>4. UNCHANGED <<index_w, irq, handler, session>> /\ dma'.next = dma.next
    BY <1>4 DEF Run, Thread, TypeOK
  <2> QED
    BY <2>1, <2>2, <2>3, <2>4, AheadZero DEF Owed, handler
<1>5. CASE Complete
  <2>1. dma.run /\ dma'.next = NextSlot(dma.next)
    BY <1>5 DEF Complete, TypeOK, Sessions
  <2>2. Owed' = Owed + 1
    BY <1>5 DEF Complete, Owed, TypeOK, Sessions, handler
  <2>3. dma'.next = Ahead(WrapIndex(index_w), Owed + 1)
    BY <2>1, AheadNext, WrapInSlots, OwedFew DEF PhaseInv, TypeOK
  <2> QED
    BY <1>5, <2>1, <2>2, <2>3 DEF Complete, PhaseInv, handler
<1>6. CASE Enter
  <2>1. Owed' = Owed
    BY <1>6 DEF Enter, HandlerStep, Owed, TypeOK, Sessions
  <2> QED
    BY <1>6, <2>1 DEF Enter, HandlerStep, PhaseInv, engine
<1>7. CASE GetBuffer
  BY <1>7 DEF GetBuffer, HandlerStep, PhaseInv, Owed
<1>8. CASE WriteRing
  <2>1. h = "write" /\ ~ring_full(ring)
    BY <1>8 DEF WriteRing, HandlerStep, RingBalanced, ring_full
  <2>2. /\ h' = "set" /\ index_w' = WrapIndex(index_w) /\ hidx' = index_w'
        /\ UNCHANGED <<dma, irq, session>>
    BY <1>8, <2>1 DEF WriteRing, HandlerStep, engine
  <2>3. index_w' \in Slots /\ WrapIndex(index_w') = index_w'
    BY <2>2, WrapInSlots, WrapOfSlot DEF TypeOK
  <2>4. Owed' = Owed
    BY <2>1, <2>2 DEF Owed
  <2> QED
    BY <2>2, <2>3, <2>4 DEF PhaseInv
<1>9. CASE SetBuffer
  BY <1>9 DEF SetBuffer, HandlerStep, PhaseInv, Owed, engine
<1>10. CASE LoadForIncrement
  BY <1>10 DEF LoadForIncrement, HandlerStep, PhaseInv, Owed, engine
<1>11. CASE StoreIncrement
  <2>1. /\ h = "store" /\ h' = "read" /\ index_w' = hidx + 1
        /\ UNCHANGED <<dma, irq, session>>
    BY <1>11 DEF StoreIncrement, HandlerStep, engine
  <2>2. index_w \in Slots /\ hidx = index_w
    BY <2>1 DEF PhaseInv
  <2>3. Owed' \in Nat /\ Owed = Owed' + 1
    BY <2>1 DEF Owed, TypeOK, Sessions
  <2>4. WrapIndex(index_w') = NextSlot(index_w) /\ WrapIndex(index_w) = index_w
    BY <2>1, <2>2, WrapOfNext, WrapOfSlot
  <2>5. Ahead(NextSlot(index_w), Owed') = Ahead(index_w, Owed)
    <3> DEFINE k == Owed'
    <3>1. k \in Nat /\ Owed = k + 1 /\ Owed \in Nat /\ Owed < TS2D_BUFFERS
      BY <2>3, OwedFew
    <3> HIDE DEF k
    <3>2. Ahead(NextSlot(index_w), k) = Ahead(index_w, k + 1)
      BY <2>2, <3>1, AheadServed
    <3> QED
      BY <3>1, <3>2 DEF k
  <2> QED
    BY <2>1, <2>4, <2>5 DEF PhaseInv
<1>12. CASE ReadRing
  BY <1>12 DEF ReadRing, HandlerStep, PhaseInv, Owed, engine
<1>13. CASE Deliver
  BY <1>13 DEF Deliver, HandlerStep, PhaseInv, Owed, TypeOK, Sessions, engine
<1>14. CASE ClearedAgain
  <2>1. Owed' = Owed
    BY <1>14 DEF ClearedAgain, Owed, TypeOK, Sessions, handler
  <2> QED
    BY <1>14, <2>1 DEF ClearedAgain, PhaseInv, TypeOK, Sessions, engine, handler
<1>15. CASE UNCHANGED vars
  BY <1>1, <1>15 DEF PhaseInv, vars, engine, handler
<1> QED
  BY <1>2, <1>3, <1>4, <1>5, <1>6, <1>7, <1>8, <1>9, <1>10, <1>11, <1>12, <1>13, <1>14, <1>15
  DEF Next, Starter, Handler
-----------------------------------------------------------------------------
(* In an aligned session slots and ring cursors agree.                     *)

LEMMA StepAligned ==
  ASSUME TypeOK, RingBalanced, StartingInv, PhaseInv, AlignedInv, [Next]_vars, ~Reset, Aligned
  PROVE  AlignedInv'
<1> USE ConstantFacts
<1>1. ASSUME UNCHANGED <<session, starter, slot, dma, h, hbuf, ring, index_w>>
      PROVE  AlignedInv'
  BY <1>1 DEF AlignedInv, Starting, SlotsAligned
<1>2. CASE Feed
  BY <1>2
  DEF AlignedInv, Starting, SlotsAligned, Feed, StartFeed, StopFeed, engine, handler
<1>3. CASE InitPtables
  <2>1. SlotsAligned'
    BY <1>3, SlotOfSlot DEF InitPtables, Ptables, SlotsAligned
  <2> QED
    BY <1>3, <2>1 DEF InitPtables, Thread, StartingInv, Starting, AlignedInv
<1>4. CASE LoadIndex \/ StoreIndex
  BY <1>4 DEF LoadIndex, StoreIndex, Thread, StartingInv, Starting, AlignedInv, SlotsAligned
<1>5. CASE Prepare
  BY <1>5 DEF Prepare, Thread, TypeOK, StartingInv, Starting, AlignedInv, SlotsAligned
<1>6. CASE Run
  <2>1. /\ h = "idle" /\ dma.next = 0 /\ ring.tail = session.tail0
        /\ index_w >= TS2D_BUFFERS /\ SlotsAligned
    BY <1>6 DEF Run, Thread, StartingInv, Starting, Aligned, InStep, AlignedInv
  <2>2. 0 \in Slots /\ WrapIndex(index_w) = 0 /\ SlotOf(ring.tail) = 0
    BY <2>1 DEF Slots, WrapIndex, Aligned, TypeOK
  <2>3. /\ starter' = "idle" /\ dma'.next = 0 /\ dma'.cur = slot[0]
        /\ UNCHANGED <<slot, h, hbuf, ring, index_w, session>>
    BY <1>6, <2>1 DEF Run, Thread, TypeOK, handler
  <2>4. SlotOf(dma'.cur) = dma'.next
    BY <2>1, <2>2, <2>3 DEF SlotsAligned
  <2> QED
    BY <2>1, <2>2, <2>3, <2>4 DEF AlignedInv, Starting, SlotsAligned
<1>7. CASE Complete
  <2>1. dma.run /\ SlotsAligned
    BY <1>7 DEF Complete, AlignedInv
  <2>2. dma'.run = dma.run /\ dma'.next \in Slots /\ dma'.cur = slot[dma'.next]
    BY <1>7, NextInSlots DEF Complete, TypeOK
  <2>3. SlotOf(dma'.cur) = dma'.next
    BY <2>1, <2>2 DEF SlotsAligned
  <2>4. UNCHANGED <<starter, slot, ring, index_w, h, hbuf>>
    BY <1>7 DEF Complete, thread, handler
  <2> QED
    BY <2>1, <2>2, <2>3, <2>4 DEF AlignedInv, Starting, SlotsAligned
<1>8. CASE Enter \/ GetBuffer
  BY <1>8
  DEF Enter, GetBuffer, HandlerStep, AlignedInv, Starting, SlotsAligned, thread, engine
<1>9. CASE WriteRing
  <2>1. h = "write" /\ ~ring_full(ring)
    BY <1>9 DEF WriteRing, HandlerStep, RingBalanced, ring_full
  <2>2. /\ h' = "set" /\ index_w' = WrapIndex(index_w) /\ hbuf' = ring.tail
        /\ UNCHANGED <<starter, slot, dma, session>>
    BY <1>9, <2>1 DEF WriteRing, HandlerStep, thread, engine
  <2> QED
    BY <2>1, <2>2 DEF AlignedInv, Starting, SlotsAligned
<1>10. CASE SetBuffer
  <2>1. h = "set" /\ h' = "load" /\ UNCHANGED <<starter, dma, session, ring, index_w, hbuf>>
    BY <1>10 DEF SetBuffer, HandlerStep, thread, engine
  <2>2. ~Starting
    BY <2>1 DEF Aligned, InStep, StartingInv
  <2>3. ASSUME dma.run PROVE SlotsAligned'
    <3>1. SlotsAligned /\ SlotOf(hbuf) = index_w /\ index_w \in Slots /\ hidx = index_w
      BY <2>1, <2>3 DEF AlignedInv, PhaseInv, Aligned
    <3>2. slot' = [slot EXCEPT ![index_w] = hbuf]
      BY <1>10, <3>1 DEF SetBuffer, Remap
    <3> QED
      BY <3>1, <3>2 DEF SlotsAligned, TypeOK
  <2> QED
    BY <2>1, <2>2, <2>3 DEF AlignedInv, Starting
<1>11. CASE LoadForIncrement
  BY <1>11
  DEF LoadForIncrement, HandlerStep, AlignedInv, Starting, SlotsAligned, thread, engine
<1>12. CASE StoreIncrement
  <2>1. /\ h = "store" /\ h' = "read" /\ index_w' = hidx + 1
        /\ UNCHANGED <<starter, slot, dma, session, ring, hbuf>>
    BY <1>12 DEF StoreIncrement, HandlerStep, thread, engine
  <2>2. ASSUME dma.run PROVE SlotOf(ring.tail) = WrapIndex(index_w')
    <3>1. SlotOf(hbuf) = index_w /\ index_w \in Slots /\ hidx = index_w
      BY <2>1, <2>2 DEF AlignedInv, PhaseInv, Aligned
    <3>2. ring.tail = (hbuf + 1) % RINGSIZ /\ hbuf \in Buffers
      BY <2>1 DEF RingBalanced, TypeOK
    <3> QED
      BY <2>1, <3>1, <3>2, SlotOfNext, WrapOfNext
  <2> QED
    BY <2>1, <2>2 DEF AlignedInv, Starting, SlotsAligned
<1>13. CASE ReadRing
  <2>1. /\ h = "read" /\ ~ring_empty(ring) /\ ring.tail = (ring.head + 1) % RINGSIZ
        /\ ring \in Rings /\ ring.head \in Buffers
    BY <1>13 DEF ReadRing, HandlerStep, RingBalanced, ring_empty, TypeOK, Rings
  <2>2. /\ h' = "deliver" /\ hbuf' = ring.head /\ ring'.tail = ring.tail
        /\ UNCHANGED <<starter, slot, dma, session, index_w>>
    BY <1>13, <2>1, RingReadType DEF ReadRing, HandlerStep, thread, engine
  <2>3. NextSlot(SlotOf(hbuf')) = SlotOf(ring'.tail)
    BY <2>1, <2>2, SlotOfNext
  <2> QED
    BY <2>1, <2>2, <2>3 DEF AlignedInv, Starting, SlotsAligned
<1>14. CASE Deliver
  BY <1>14
  DEF Deliver, HandlerStep, AlignedInv, Starting, SlotsAligned, thread, engine
<1>15. CASE ClearedAgain
  BY <1>15
  DEF ClearedAgain, AlignedInv, Starting, SlotsAligned, thread, engine, handler
<1>16. CASE UNCHANGED vars
  BY <1>1, <1>16 DEF vars, thread, engine, handler
<1> QED
  BY <1>2, <1>3, <1>4, <1>5, <1>6, <1>7, <1>8, <1>9, <1>10, <1>11, <1>12,
     <1>13, <1>14, <1>15, <1>16
  DEF Next, Starter, Handler

LEMMA NextAligned ==
  ASSUME TypeOK, RingBalanced, StartingInv, PhaseInv, AlignedInv, [Next]_vars
  PROVE  AlignedInv'
<1>1. CASE Reset
  BY <1>1 DEF Reset, Thread, AlignedInv, Starting, TypeOK
<1>2. CASE ~Reset
  <2>1. Aligned' => Aligned
    BY <1>2, InStepBefore, SessionStays DEF Aligned
  <2>2. Aligned => AlignedInv'
    BY <1>2, StepAligned
  <2> QED
    BY <2>1, <2>2 DEF AlignedInv
<1> QED
  BY <1>1, <1>2

-----------------------------------------------------------------------------
(* The theorems that need the whole invariant.                             *)

LEMMA InitIInv == Init => IInv
<1> SUFFICES ASSUME Init PROVE IInv
  OBVIOUS
<1>1. ~dma.run /\ starter = "idle"
  BY DEF Init
<1> QED
  BY <1>1, InitType, InitBalanced
  DEF IInv, StartingInv, PhaseInv, AlignedInv, Starting

LEMMA NextIInv == IInv /\ [Next]_vars => IInv'
BY NextType, NextBalanced, NextStarting, NextPhase, NextAligned DEF IInv

LEMMA InvariantHolds == Spec => []IInv
<1>1. Init => IInv
  BY InitIInv
<1>2. IInv /\ [Next]_vars => IInv'
  BY NextIInv
<1> QED
  BY <1>1, <1>2, PTL DEF Spec

\* As long as fewer than TS2D_BUFFERS - 2 interrupts of the session have been merged or lost,
\* and it was not started on top of an interrupt, index_w is behind the slot
\* the engine fills by exactly the interrupts not yet served, although the
\* handler never looks at the engine's own index.
THEOREM PhaseKept == Spec => []PhaseTracksEngine
<1>1. IInv => PhaseTracksEngine
  BY DEF IInv, PhaseInv, PhaseTracksEngine
<1> QED
  BY <1>1, InvariantHolds, PTL

LEMMA ApartAtDelivery == IInv => NoTornDelivery
<1> SUFFICES ASSUME IInv, Aligned, h = "deliver", dma.run
             PROVE  hbuf # dma.cur /\ hbuf # slot[dma.next]
  BY DEF NoTornDelivery, UnderDma
<1>1. dma.next \in Slots /\ SlotOf(hbuf) \in Slots
  BY SlotOfBuffer DEF IInv, TypeOK
<1>2. SlotOf(dma.cur) = dma.next /\ SlotOf(slot[dma.next]) = dma.next
  BY <1>1 DEF IInv, AlignedInv, SlotsAligned
<1>3. dma.next = Ahead(NextSlot(SlotOf(hbuf)), Owed)
  BY DEF IInv, PhaseInv, AlignedInv, Aligned
<1>4. Owed \in Nat /\ Owed + 1 < TS2D_BUFFERS
  BY ConstantFacts DEF IInv, TypeOK, Sessions, Aligned, InStep, FewLost, Owed
<1>5. SlotOf(hbuf) # dma.next
  BY <1>1, <1>3, <1>4, AheadApart
<1> QED
  BY <1>2, <1>5

\* As long as it is in step, a buffer handed to the demultiplexer in an aligned
\* session is never one the engine is writing.
THEOREM NeverTorn == Spec => []NoTornDelivery
<1>1. IInv => NoTornDelivery
  BY ApartAtDelivery
<1> QED
  BY <1>1, InvariantHolds, PTL
=============================================================================
