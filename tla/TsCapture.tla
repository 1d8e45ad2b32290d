------------------------------ MODULE TsCapture ------------------------------
(***************************************************************************)
(* The capture path of one DVB adapter: saa7231_dvb.c (start_feed,         *)
(* stop_feed, dma_start, dma_stop and the TS2D interrupt handler),         *)
(* saa7231_ts2dtl.c (acquire, setparams, run_prepare, run, stop,           *)
(* set_buffer, get_buffer) and the ring of saa7231_ring.c.                 *)
(*                                                                         *)
(* Three actors run concurrently:                                          *)
(*   - the S2D engine, which fills the buffers mapped by its TS2D_BUFFERS  *)
(*     page-table slots one after the other and raises an interrupt event; *)
(*   - the interrupt handler, which runs under ring->lock;                 *)
(*   - the thread that starts or stops a feed, under dvb->feedlock (and,   *)
(*     in acquire, dev_lock), but never under ring->lock.                  *)
(* stream->index_w is written by the last two without a common lock, so    *)
(* every access to it is a step of its own.                                *)
(*                                                                         *)
(* The engine itself is known only by the registers the driver writes;     *)
(* its actions are marked external.                                        *)
(***************************************************************************)
EXTENDS Integers, Saa7231Ring

CONSTANTS
  TS2D_BUFFERS,   \* page-table slots of the engine (8 in saa7231_ts2dtl.h)
  MaxLost,        \* bound: interrupts merged into an earlier one or lost, per session
  MaxFeeds,       \* bound: concurrently active feeds
  MaxStarts,      \* bound: DMA starts
  MaxFilled       \* bound: buffers the engine fills

ASSUME SlotsAssumption == TS2D_BUFFERS \in Nat \ {0}
ASSUME TwoRounds == RINGSIZ = 2 * TS2D_BUFFERS
ASSUME BoundsAssumption ==
  /\ MaxLost \in Nat
  /\ MaxFeeds \in Nat
  /\ MaxStarts \in Nat
  /\ MaxFilled \in Nat

Slots == 0 .. TS2D_BUFFERS - 1

VARIABLES
  feeds,      \* dvb->feeds
  clock_run,  \* stream->dtl.clock_run
  starter,    \* where the thread in dma_start is
  sreg,       \* its copy of index_w in  index_w += 8
  starts,     \* history: number of DMA starts
  ring,       \* stream->ring
  index_w,    \* stream->index_w
  slot,       \* MMU page tables: slot -> buffer
  dma,        \* the engine: S2D_CTRL run bit, page tables preloaded,
              \* slot being filled, buffer its filling began in
  irq,        \* the MSI status bit of this stream's vector
  s2d,        \* S2D_INT_STATUS is non-zero
  h,          \* where the interrupt handler is
  hbuf,       \* its dmabuf
  hidx,       \* its copy of index_w
  data,       \* buffer -> number of the filling it holds, 0 when none
  filled,     \* number of buffers filled so far
  session     \* history since the last SW_RST of the engine

thread  == <<feeds, clock_run, starter, sreg, starts>>
engine  == <<dma, s2d, data, filled>>
handler == <<h, hbuf, hidx>>
vars    == <<thread, ring, index_w, slot, engine, irq, handler, session>>

StarterSteps == {"idle", "reset", "ptables", "load", "store", "prepare", "run"}
HandlerSteps == {"idle", "get", "write", "set", "load", "store", "read", "deliver"}

(***************************************************************************)
(* The session begins at SW_RST.  clean: no interrupt was pending or being *)
(* served then; tail0: the ring's tail, which a start does not reset;      *)
(* base: fillings before it; runs: handler runs completed since; lost:     *)
(* interrupts merged or lost since; last: the latest filling of the        *)
(* session that was delivered, base when none; fresh: number of such       *)
(* deliveries.                                                             *)
(***************************************************************************)
NewSession(clean) ==
  [clean |-> clean, tail0 |-> ring.tail, base |-> filled,
   runs |-> 0, lost |-> 0, last |-> filled, fresh |-> 0]

\* After stream_init: ts2dtl_init mapped the first buffers and the acquire in
\* stream_init mapped them again, each adding TS2D_BUFFERS to index_w.  The
\* engine has never run.
Init ==
  /\ feeds = 0
  /\ clock_run = TRUE
  /\ starter = "idle"
  /\ sreg = 0
  /\ starts = 0
  /\ ring = EmptyRing
  /\ index_w = 2 * TS2D_BUFFERS
  /\ slot = [i \in Slots |-> i]
  /\ dma \in [run : {FALSE}, ready : BOOLEAN, next : {0}, cur : {0}]
  /\ irq = FALSE
  /\ s2d = FALSE
  /\ h = "idle"
  /\ hbuf = 0
  /\ hidx = 0
  /\ data = [b \in Buffers |-> 0]
  /\ filled = 0
  /\ session = [clean |-> TRUE, tail0 |-> 0, base |-> 0,
                runs |-> 0, lost |-> 0, last |-> 0, fresh |-> 0]

-----------------------------------------------------------------------------
(* The feed thread.  feedlock is held exactly while starter # "idle".      *)

\* saa7231_dvb_start_feed: only the first feed starts the DMA.
StartFeed ==
  /\ starter = "idle"
  /\ feeds < MaxFeeds
  /\ feeds' = feeds + 1
  /\ \/ /\ feeds = 0
        /\ starts < MaxStarts
        /\ starts' = starts + 1
        /\ starter' = "reset"
     \/ /\ feeds > 0
        /\ UNCHANGED <<starts, starter>>
  /\ UNCHANGED <<clock_run, sreg, ring, index_w, slot, engine, irq, handler, session>>

\* saa7231_dvb_stop_feed: the last feed "stops" the DMA, which is
\* ts2dtl_stop: only the clock_run flag changes, the engine keeps running.
StopFeed ==
  /\ starter = "idle"
  /\ feeds > 0
  /\ feeds' = feeds - 1
  /\ clock_run' = (clock_run /\ feeds' > 0)
  /\ UNCHANGED <<starter, sreg, starts, ring, index_w, slot, engine, irq, handler, session>>

Thread(from, to) ==
  /\ starter = from
  /\ starter' = to
  /\ UNCHANGED <<feeds, starts, ring, irq, handler, data, filled>>

\* acquire: clocks, then SW_RST in setparams.
Reset ==
  /\ Thread("reset", "ptables")
  /\ clock_run' = TRUE
  /\ dma' = [dma EXCEPT !.run = FALSE, !.next = 0]
  /\ session' = NewSession(h = "idle" /\ ~irq)
  /\ UNCHANGED <<sreg, index_w, slot, s2d>>

\* init_ptables that forgets slot 0 keeps the mapping of the last session.
PtablesBut0 == [i \in Slots |-> IF i = 0 THEN slot[0] ELSE i]

\* saa7231_init_ptables, the page tables.
Ptables == [i \in Slots |-> i]

InitPtables ==
  /\ Thread("ptables", "load")
  /\ slot' = Ptables
  /\ UNCHANGED <<clock_run, sreg, index_w, dma, s2d, session>>

\* saa7231_init_ptables,  stream->index_w += 8.
LoadIndex ==
  /\ Thread("load", "store")
  /\ sreg' = index_w
  /\ UNCHANGED <<clock_run, index_w, slot, dma, s2d, session>>

StoreIndex ==
  /\ Thread("store", "prepare")
  /\ index_w' = sreg + TS2D_BUFFERS
  /\ UNCHANGED <<clock_run, sreg, slot, dma, s2d, session>>

\* The rest of setparams and run_prepare: the preload of the page tables may
\* time out, and acquire reports success all the same.
Prepare ==
  /\ Thread("prepare", "run")
  /\ \E ok \in BOOLEAN : dma' = [dma EXCEPT !.ready = ok]
  /\ UNCHANGED <<clock_run, sreg, index_w, slot, s2d, session>>

\* saa7231_ts2dtl_run
Run ==
  /\ Thread("run", "idle")
  /\ dma' = [dma EXCEPT !.run = TRUE, !.cur = slot[dma.next]]
  /\ s2d' = FALSE
  /\ UNCHANGED <<clock_run, sreg, index_w, slot, session>>

-----------------------------------------------------------------------------
(* The engine (external).                                                  *)

NextSlot(i) == IF i = TS2D_BUFFERS - 1 THEN 0 ELSE i + 1

\* A buffer is full.  A slot remapped while it is being filled leaves the data
\* in the old buffer or in the new one.  The event raises the MSI status bit;
\* it is merged with an earlier one when that bit is still set, and may be when
\* the engine's own interrupt status is.
Complete ==
  /\ dma.run /\ dma.ready
  /\ filled < MaxFilled
  /\ filled' = filled + 1
  /\ \E b \in {dma.cur, slot[dma.next]} : data' = [data EXCEPT ![b] = filled + 1]
  /\ dma' = [dma EXCEPT !.next = NextSlot(@), !.cur = slot[NextSlot(dma.next)]]
  /\ s2d' = TRUE
  /\ \/ /\ ~irq
        /\ irq' = TRUE
        /\ UNCHANGED session
     \/ /\ irq \/ s2d
        /\ session.lost < MaxLost
        /\ session' = [session EXCEPT !.lost = @ + 1]
        /\ UNCHANGED irq
  /\ UNCHANGED <<thread, ring, index_w, slot, handler>>

\* saa7231_irq_handler, walking on after this stream's handler has returned,
\* clears the status bit again for another vector of the same register: the
\* event raised since is lost.
ClearedAgain ==
  /\ irq /\ h = "idle"
  /\ session.lost < MaxLost
  /\ irq' = FALSE
  /\ session' = [session EXCEPT !.lost = @ + 1]
  /\ UNCHANGED <<thread, ring, index_w, slot, engine, handler>>

-----------------------------------------------------------------------------
(* The interrupt handler, saa7231_dvbts2d0_evhandler (and ts2d1).          *)

HandlerStep(from, to) ==
  /\ h = from
  /\ h' = to
  /\ UNCHANGED thread

\* saa7231_irq_handler clears the status bit and calls the event handler.
Enter ==
  /\ irq
  /\ HandlerStep("idle", "get")
  /\ irq' = FALSE
  /\ UNCHANGED <<ring, index_w, slot, engine, hbuf, hidx, session>>

\* saa7231_ts2dtl_get_buffer acknowledges the engine; the index it reports is
\* not used.  (Its early return needs stream_run = 0, which no interrupt sees:
\* nothing clears stream_run once ts2dtl_run has set it.)
GetBuffer ==
  /\ HandlerStep("get", "write")
  /\ s2d' = FALSE
  /\ UNCHANGED <<ring, index_w, slot, dma, data, filled, irq, hbuf, hidx, session>>

\* Faulty variants: a wrap one too late, and none.
WrapLate(i) == IF i > TS2D_BUFFERS THEN 0 ELSE i
NoWrap(i) == i

\* if (stream->index_w > TS2D_BUFFERS-1) stream->index_w = 0;
WrapIndex(i) == IF i > TS2D_BUFFERS - 1 THEN 0 ELSE i

WriteRing ==
  /\ \/ /\ ring_full(ring)
        /\ HandlerStep("write", "read")
        /\ UNCHANGED <<ring, index_w, hbuf, hidx>>
     \/ /\ ~ring_full(ring)
        /\ HandlerStep("write", "set")
        /\ ring' = ring_write(ring)
        /\ hbuf' = ring.tail
        /\ index_w' = WrapIndex(index_w)
        /\ hidx' = index_w'
  /\ UNCHANGED <<slot, engine, irq, session>>

\* Faulty variant: remaps the slot after the one asked for.
RemapNext(i, b) == IF i + 1 \in Slots THEN [slot EXCEPT ![i + 1] = b] ELSE slot

\* set_buffer: an index beyond the last slot is refused.
Remap(i, b) == IF i \in Slots THEN [slot EXCEPT ![i] = b] ELSE slot

\* The index passed is the value just tested or a fresh load of index_w: the
\* compiler may do either.
SetBuffer ==
  /\ HandlerStep("set", "load")
  /\ \E i \in {hidx, index_w} : slot' = Remap(i, hbuf)
  /\ UNCHANGED <<ring, index_w, engine, irq, hbuf, hidx, session>>

\* stream->index_w++
LoadForIncrement ==
  /\ HandlerStep("load", "store")
  /\ hidx' = index_w
  /\ UNCHANGED <<ring, index_w, slot, engine, irq, hbuf, session>>

StoreIncrement ==
  /\ HandlerStep("store", "read")
  /\ index_w' = hidx + 1
  /\ UNCHANGED <<ring, slot, engine, irq, hbuf, hidx, session>>

ReadRing ==
  /\ \/ /\ ring_empty(ring)
        /\ HandlerStep("read", "idle")
        /\ UNCHANGED <<ring, hbuf>>
     \/ /\ ~ring_empty(ring)
        /\ HandlerStep("read", "deliver")
        /\ ring' = ring_read(ring)
        /\ hbuf' = ring.head
  /\ UNCHANGED <<index_w, slot, engine, irq, hidx, session>>

\* dvb_dmx_swfilter_packets reads the buffer; the handler ends.
Deliver ==
  /\ HandlerStep("deliver", "idle")
  /\ LET fresh == data[hbuf] > session.base IN
     session' = [session EXCEPT
       !.runs  = @ + 1,
       !.last  = IF fresh THEN data[hbuf] ELSE @,
       !.fresh = IF fresh THEN @ + 1 ELSE @]
  /\ UNCHANGED <<ring, index_w, slot, engine, irq, hbuf, hidx>>

-----------------------------------------------------------------------------
Feed    == StartFeed \/ StopFeed
Starter == Reset \/ InitPtables \/ LoadIndex \/ StoreIndex \/ Prepare \/ Run
Handler == \/ Enter \/ GetBuffer \/ WriteRing \/ SetBuffer
           \/ LoadForIncrement \/ StoreIncrement \/ ReadRing \/ Deliver

Next == Feed \/ Starter \/ Complete \/ ClearedAgain \/ Handler

Spec == Init /\ [][Next]_vars

\* The kernel runs a pending interrupt and lets its handler finish, and the
\* thread inside dma_start, which never waits for the handler, finishes too.
\* Nothing makes a user start a feed or the engine receive data.
FairSpec == Spec /\ WF_vars(Handler) /\ WF_vars(Starter)

-----------------------------------------------------------------------------
(* Properties.                                                             *)

Sessions ==
  [clean : BOOLEAN, tail0 : Buffers, base : Nat,
   runs : Nat, lost : 0 .. MaxLost, last : Nat, fresh : Nat]

\* Types of the variables (saa7231_stream.h, saa7231_ring.h, saa7231_dtl.h); in
\* particular count never wraps below zero and both cursors stay in the array.
TypeOK ==
  /\ feeds \in 0 .. MaxFeeds
  /\ clock_run \in BOOLEAN
  /\ starter \in StarterSteps
  /\ sreg \in Nat
  /\ starts \in 0 .. MaxStarts
  /\ ring \in Rings
  /\ index_w \in Nat
  /\ slot \in [Slots -> Buffers]
  /\ dma \in [run : BOOLEAN, ready : BOOLEAN, next : Slots, cur : Buffers]
  /\ irq \in BOOLEAN
  /\ s2d \in BOOLEAN
  /\ h \in HandlerSteps
  /\ hbuf \in Buffers
  /\ hidx \in Nat
  /\ data \in [Buffers -> 0 .. MaxFilled]
  /\ filled \in 0 .. MaxFilled
  /\ session \in Sessions

\* The ring holds the one buffer an interrupt run writes and reads back, and
\* nothing between runs: "FIFO overflow" and the empty ring are unreachable, and
\* the buffer delivered is the one just given to the engine.  This survives any
\* interleaving with a restart, which does not reset the ring.
RingBalanced ==
  IF h \in {"set", "load", "store", "read"}
  THEN ring.count = 1 /\ ring.tail = (ring.head + 1) % RINGSIZ /\ hbuf = ring.head
  ELSE ring.count = 0 /\ ring.head = ring.tail

\* Completed fillings whose handler run has not yet advanced index_w.
Owed ==
  session.lost + (IF irq THEN 1 ELSE 0)
    + (IF h \in {"get", "write", "set", "load", "store"} THEN 1 ELSE 0)

Ahead(i, k) == IF i + k < TS2D_BUFFERS THEN i + k ELSE i + k - TS2D_BUFFERS

\* A session is in step if it was started cleanly and has missed so few interrupts that
\* the engine is still less than a round of the slots ahead.
FewLost == session.lost + 3 <= TS2D_BUFFERS
InStep == session.clean /\ FewLost

\* get_buffer's hardware index is ignored: index_w follows the engine only by
\* counting interrupts.  In a session in step it is behind the slot the engine
\* fills by exactly the interrupts not yet served, merged or lost.
PhaseTracksEngine ==
  InStep /\ dma.run => dma.next = Ahead(WrapIndex(index_w), Owed)

SlotOf(b) == IF b < TS2D_BUFFERS THEN b ELSE b - TS2D_BUFFERS

Aligned == InStep /\ SlotOf(session.tail0) = 0

\* While a buffer is handed to the demultiplexer the engine is not writing it,
\* neither through the slot it fills nor in the buffer it began with: in an
\* aligned session always ...
UnderDma(b) == dma.run /\ b \in {dma.cur, slot[dma.next]}

NoTornDelivery == Aligned /\ h = "deliver" => ~UnderDma(hbuf)

\* ... and in every session in step, whatever the ring's tail was at its start,
\* once each slot has been remapped.
NoTornDeliveryOnceWarm ==
  InStep /\ session.runs >= TS2D_BUFFERS /\ h = "deliver" => ~UnderDma(hbuf)

\* A session in step stabilises: after RINGSIZ + 1 handler runs the latest buffer
\* delivered is the one filled TS2D_BUFFERS runs ago, whatever the alignment,
\* stale contents and merged interrupts it began with.
SteadyLag ==
  InStep /\ session.runs > RINGSIZ
    => session.last = session.base + session.runs - TS2D_BUFFERS

\* No lag is made up for: from then on the demultiplexer is behind the engine by the slots,
\* by the interrupt pending or being served, and by one buffer for every interrupt the
\* session has merged or lost.
LossesAddLag ==
  InStep /\ session.runs > RINGSIZ
    => filled = session.last + TS2D_BUFFERS + Owed + (IF h \in {"read", "deliver"} THEN 1 ELSE 0)

\* The session delivers exactly once and in order: it began with a ring tail
\* that makes it so, or it has stabilised, and it is in step.
Settled ==
  InStep /\ \/ session.tail0 = 0
            \/ session.tail0 >= TS2D_BUFFERS
            \/ session.runs > RINGSIZ

\* The capture path implements the delivery promise.
Delivery == INSTANCE TsDelivery WITH
  seen <- session.last, taken <- session.fresh, settled <- Settled

DeliversInOrder == Delivery!Spec

\* Every buffer filled is delivered once TS2D_BUFFERS + MaxLost more have been
\* filled, when no restart intervenes: nothing stays behind in the ring.
EventuallyDelivered ==
  \A k \in 1 .. MaxFilled - TS2D_BUFFERS - MaxLost :
    filled >= k + TS2D_BUFFERS + MaxLost ~> session.last >= k \/ starts > 1
=============================================================================
