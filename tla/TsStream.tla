------------------------------ MODULE TsStream ------------------------------
(***************************************************************************)
(* The stream of one DVB adapter: dvb_init's thread allocates it, buffer   *)
(* by buffer and with every step failing, and dvb_exit frees it, while     *)
(* users of the demultiplexer, which is registered before and unregistered *)
(* after it, start and stop feeds.                                         *)
(*                                                                         *)
(* saa7231_dvb.c (init, exit, feeds), saa7231_stream.c, saa7231_ts2dtl.c   *)
(* (init, exit, acquire, run, stop), saa7231_dmabuf.c.                     *)
(*                                                                         *)
(* pc is the step to come: what it allocates or frees. The demultiplexer   *)
(* core calls start_feed and stop_feed one at a time; a call is one step,  *)
(* for the one thing it reads that is not its own, dvb->stream, is set     *)
(* once and freed in a window where any call is a fault.                   *)
(***************************************************************************)
EXTENDS DmaBuf, FiniteSets

CONSTANTS
  RINGSIZ,     \* buffers of the ring
  TsPages,     \* TS_PAGES_188: pages of a buffer
  Entries,     \* entries of a page table (512)
  CountWrap,   \* values of dvb->feeds, a u8 (256)
  feednum      \* feeds the demultiplexer allows (256)

ASSUME SizesAssumption ==
  RINGSIZ \in Nat \ {0} /\ TsPages \in Nat \ {0} /\ Entries \in Nat \ {0}
ASSUME CountAssumption == CountWrap \in Nat \ {0, 1} /\ feednum \in Nat
ASSUME FeedsAssumption == feednum <= CountWrap

Buffers == 0 .. RINGSIZ - 1

\* What one buffer takes: the page of its table and its mapping, the scatter list, the
\* memory and its mapping.
Kinds == {"pt_virt", "pt_phys", "sg_list", "vmalloc", "mapped"}
Parts(x) == Kinds \X {x}
Stream == <<"stream", 0>>
Array == <<"dmabuf", 0>>
Ring == <<"ring", 0>>
Resources == {Stream, Array, Ring} \cup (Kinds \X Buffers)

VARIABLES
  pc,         \* the driver's thread
  i,          \* its loop counter, over the buffers
  held,       \* what is allocated
  segments,   \* of every buffer, as dma_map_sg has joined its pages
  table,      \* of every buffer, its page table
  stream,     \* dvb->stream: "null", "set", and "freed" once it dangles
  feeds,      \* dvb->feeds
  open,       \* feeds the users have open
  clock_run,  \* dtl->clock_run
  enabled,    \* the engine: S2D_S2D_CTRL
  resets,     \* history: parity of the engine's resets
  early,      \* history: the first of the open feeds found no stream
  fault,      \* a call used the freed stream
  bug         \* something not held was released

memory == <<held, segments, table>>
engine == <<clock_run, enabled, resets>>
users == <<feeds, open, early, fault>>
vars == <<pc, i, memory, stream, engine, users, bug>>

Init ==
  /\ pc = "stream"
  /\ i = 0
  /\ held = {}
  /\ segments = [x \in Buffers |-> <<>>]
  /\ table = [x \in Buffers |-> <<>>]
  /\ stream = "null"
  /\ feeds = 0 /\ open = 0
  /\ clock_run = FALSE /\ enabled = FALSE /\ resets = 0
  /\ early = FALSE
  /\ fault = FALSE
  /\ bug = FALSE

-----------------------------------------------------------------------------
(* Initialisation.                                                         *)

\* saa7231_stream_init returns NULL and dvb_init -ENOMEM: nothing is freed.
Failed == pc' = "failed"

\* The structures allocated by a kzalloc each, and the step after it.
Structures ==
  [stream |-> [is |-> Stream, next |-> "dmabuf"], dmabuf |-> [is |-> Array, next |-> "buffer"],
   ring |-> [is |-> Ring, next |-> "acquire"]]

Allocate ==
  /\ pc \in DOMAIN Structures
  /\ \/ Failed /\ UNCHANGED held
     \/ held' = held \cup {Structures[pc].is} /\ pc' = Structures[pc].next
  /\ UNCHANGED <<i, segments, table, stream, engine, users, bug>>

\* saa7231_allocate_ptable: no page, or one that could not be mapped and is lost.
TableFails == Failed /\ held' \in {held, held \cup {<<"pt_virt", i>>}}

\* saa7231_dmabuf_sgalloc: no list, or no memory and the list is lost. The table is freed.
ListFails == Failed /\ held' \in {held, held \cup {<<"sg_list", i>>}}

\* A BUG_ON, with dev_lock held: dma_map_single has returned its error value,
\* which is not 0, or dma_map_sg 0, which is not negative.
MappingFails ==
  /\ pc' = "bug"
  /\ held' \in {held \cup {<<"pt_virt", i>>}, held \cup {<<"pt_virt", i>>, <<"pt_phys", i>>,
                                                         <<"sg_list", i>>, <<"vmalloc", i>>}}

\* Faulty variant: one buffer too many.
OneMoreBuffer(x) == x < RINGSIZ
MoreBuffers(x) == x + 1 < RINGSIZ

BufferAllocated ==
  /\ held' = held \cup Parts(i)
  /\ \E s \in Mergings(TsPages) :
       /\ segments' = [segments EXCEPT ![i] = s]
       /\ table' = [table EXCEPT ![i] = sgpagefill(s, Entries)]
  /\ IF MoreBuffers(i) THEN i' = i + 1 /\ pc' = pc ELSE i' = 0 /\ pc' = "ring"

\* saa7231_dmabuf_alloc for buffer i.
AllocateBuffer ==
  /\ pc = "buffer"
  /\ \/ (TableFails \/ ListFails \/ MappingFails) /\ UNCHANGED <<i, segments, table>>
     \/ BufferAllocated
  /\ UNCHANGED <<stream, engine, users, bug>>

\* S2D_SW_RST and the page tables anew.
Reset == resets' = 1 - resets /\ clock_run' = TRUE

\* The first acquire, by stream_init.
Acquire ==
  /\ pc = "acquire" /\ pc' = "publish"
  /\ Reset
  /\ UNCHANGED <<i, memory, stream, enabled, users, bug>>

\* dvb->stream is set; feedlock and the interrupt's event come after it.
Publish ==
  /\ pc = "publish" /\ pc' = "bound"
  /\ stream' = "set"
  /\ UNCHANGED <<i, memory, engine, users, bug>>

-----------------------------------------------------------------------------
(* saa7231_dvb_exit.                                                       *)

Give(r) == held' = held \ r /\ bug' = (bug \/ ~(r \subseteq held))

\* Users or not, and the engine as it is.
Exit ==
  /\ pc = "bound" /\ pc' = "free_buffer"
  /\ UNCHANGED <<i, memory, stream, engine, users, bug>>

\* Faulty variant: saa7231_dmabuf_sgfree leaves the memory.
PartsButMemory(x) == Parts(x) \ {<<"vmalloc", x>>}

\* What saa7231_dmabuf_free releases.
FreedParts(x) == Parts(x)

FreeBuffer ==
  /\ pc = "free_buffer"
  /\ Give(FreedParts(i))
  /\ IF MoreBuffers(i) THEN i' = i + 1 /\ pc' = pc ELSE i' = 0 /\ pc' = "free_ring"
  /\ UNCHANGED <<segments, table, stream, engine, users>>

\* The array, the ring and the stream: dvb->stream still points there.
FreeStream ==
  /\ pc = "free_ring" /\ pc' = "unregister"
  /\ Give({Array, Ring, Stream})
  /\ stream' = "freed"
  /\ UNCHANGED <<i, segments, table, engine, users>>

\* dvb_dmxdev_release waits for the users of the demultiplexer.
Unregister ==
  /\ pc = "unregister" /\ open = 0 /\ pc' = "gone"
  /\ UNCHANGED <<i, memory, stream, engine, users, bug>>

-----------------------------------------------------------------------------
(* The users. After a failed initialisation the probe frees the device     *)
(* below them, which is the business of DriverLifecycle.                   *)

Registered == pc \notin {"failed", "gone"}

\* saa7231_dma_start and saa7231_dma_stop go wrong only without a stream.
DmaStart ==
  \/ stream = "null" /\ early' = TRUE /\ UNCHANGED <<engine, fault>>
  \/ stream = "set" /\ Reset /\ enabled' = TRUE /\ UNCHANGED <<early, fault>>
  \/ stream = "freed" /\ fault' = TRUE /\ UNCHANGED <<engine, early>>

DmaStop ==
  /\ clock_run' = IF stream = "set" THEN FALSE ELSE clock_run
  /\ fault' = (fault \/ stream = "freed")
  /\ UNCHANGED <<enabled, resets>>

\* Faulty variants: a counter that sticks at its last value; a start by every feed.
StuckCount(f) == IF f = CountWrap - 1 THEN f ELSE f + 1
AnyFeed(f) == f # 0

Counted(f) == (f + 1) % CountWrap
FirstFeed(f) == f = 1

\* A start that fails keeps its count, and is reported as a success.
StartFeed ==
  /\ Registered /\ open < feednum
  /\ open' = open + 1
  /\ feeds' = Counted(feeds)
  /\ IF FirstFeed(feeds') THEN DmaStart ELSE UNCHANGED <<engine, early, fault>>
  /\ UNCHANGED <<pc, i, memory, stream, bug>>

StopFeed ==
  /\ Registered /\ open > 0
  /\ open' = open - 1
  /\ feeds' = (feeds + (CountWrap - 1)) % CountWrap
  /\ IF feeds' = 0 THEN DmaStop ELSE UNCHANGED <<engine, fault>>
  /\ early' = (early /\ open > 1)
  /\ UNCHANGED <<pc, i, memory, stream, bug>>

Driver ==
  \/ Allocate \/ AllocateBuffer \/ Acquire \/ Publish
  \/ Exit \/ FreeBuffer \/ FreeStream \/ Unregister
Users == StartFeed \/ StopFeed

\* The machine stops at the first fault.
Next == ~fault /\ (Driver \/ Users)

Spec == Init /\ [][Next]_vars

-----------------------------------------------------------------------------
(* Properties.                                                             *)

Steps ==
  {"stream", "dmabuf", "buffer", "ring", "acquire", "publish", "bound", "free_buffer", "free_ring",
   "unregister", "gone", "failed", "bug"}

TypeOK ==
  /\ pc \in Steps
  /\ i \in Buffers
  /\ held \subseteq Resources
  /\ DOMAIN segments = Buffers /\ DOMAIN table = Buffers
  /\ stream \in {"null", "set", "freed"}
  /\ feeds \in 0 .. CountWrap - 1
  /\ open \in 0 .. feednum
  /\ clock_run \in BOOLEAN /\ enabled \in BOOLEAN
  /\ early \in BOOLEAN /\ fault \in BOOLEAN /\ bug \in BOOLEAN
  /\ resets \in {0, 1}

\* However the pages are joined on the bus, entry k of a buffer's table is its k-th page,
\* and every entry after them its last page: the engine never leaves the buffer.
TablesRight ==
  \A x \in Buffers : table[x] # <<>> =>
    \A k \in 1 .. Entries : PageAt(segments[x], table[x][k]) = Min({k, TsPages})

\* An exit releases all that the stream has taken, each thing once, whatever the users do.
ExitBalanced ==
  /\ ~bug
  /\ pc \in {"unregister", "gone"} => held = {}

\* As long as a feed is open the engine runs with its clock, unless the first of the open feeds
\* came before the stream or the stream is gone. The count wraps at the feednum-th feed.
FeedsServed == open > 0 /\ ~early /\ stream = "set" => enabled /\ clock_run

\* A running engine is reset only when no feed is open.
NeverResetUnderFeed == [][resets' # resets /\ enabled => open = 0]_vars
=============================================================================
