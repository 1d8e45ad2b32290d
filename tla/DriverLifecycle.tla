-------------------------- MODULE DriverLifecycle --------------------------
(***************************************************************************)
(* Probe and remove of one card: what the driver's thread acquires and     *)
(* releases, step by step and with every step failing, while the shared    *)
(* interrupt may come and users may start and stop feeds at any time.      *)
(*                                                                         *)
(* saa7231_drv.c (probe, remove), saa7231_pci.c, saa7231_msi.c,            *)
(* saa7231_i2c.c (init, exit), saa7231_dvb.c (init, exit).                 *)
(*                                                                         *)
(* pc is the step to come: the resource it is about, or the label or exit  *)
(* function it has reached.                                                *)
(***************************************************************************)
EXTENDS Naturals, FiniteSets

CONSTANTS
  Internal,    \* DVB adapters inside the chip (caps.dvbs + caps.dvbt)
  External,    \* and outside it (config->ext_dvb_adapters)
  Buses,       \* I2C controllers (SAA7231_I2C_ADAPTERS)
  RemapFails   \* whether the mapping of BAR 2 may fail

ASSUME CountsAssumption == Internal \in Nat /\ External \in Nat /\ Internal + External > 0
ASSUME BusesAssumption == Buses \in Nat \ {0}
ASSUME RemapAssumption == RemapFails \in BOOLEAN

Adapters == 0 .. (Internal + External) - 1
MaxStreams == 2   \* digital streams saa7231_stream_init accepts
NoAdapter == Internal + External

PciResources == {"device", "bar0", "map0", "bar2", "map2", "entries", "irq"}
Tables == {"msix_table", "event_table"}
Resources == {"dev", "cgu", "i2c_mem", "dvb_mem", "files"} \cup PciResources \cup Tables
Parts == {"adapter", "dmx", "dmxdev", "connected", "net", "fe", "stream"}

VARIABLES
  pc,      \* the driver thread
  n,       \* its loop counter, over the I2C buses or the adapters
  held,    \* resources of the card
  buses,   \* I2C buses registered
  parts,   \* of every adapter, what is registered or allocated
  events,  \* adapters that have an entry in event_handler[]
  isr,     \* the adapter whose stream the handler moves, or NoAdapter
  feeds,   \* adapters a user has a feed on
  bound,   \* history: the probe succeeded
  bug,     \* a BUG_ON fired, or something not held was released
  fault    \* memory that was missing or freed when it was used

vars == <<pc, n, held, buses, parts, events, isr, feeds, bound, bug, fault>>

Init ==
  /\ pc = "dev"
  /\ n = 0
  /\ held = {}
  /\ buses = {}
  /\ parts = [x \in Adapters |-> {}]
  /\ events = {}
  /\ isr = NoAdapter
  /\ feeds = {}
  /\ bound = FALSE
  /\ bug = FALSE
  /\ fault = "none"

-----------------------------------------------------------------------------
(* The order of the steps, and where each failure goes.                    *)

\* The steps that acquire one resource of the card, and the step after each.
After ==
  [dev |-> "device", device |-> "setup", setup |-> "bar0", bar0 |-> "map0",
   map0 |-> "bar2", bar2 |-> "map2", entries |-> "irq", irq |-> "cgu",
   cgu |-> "msix_table", msix_table |-> "event_table", event_table |-> "msi_reset",
   msi_reset |-> "i2c_mem", i2c_mem |-> "i2c_add", dvb_mem |-> "adapter"]

\* The same for the parts of one adapter in saa7231_dvb_init.
AfterPart ==
  [adapter |-> "dmx", dmx |-> "dmxdev", dmxdev |-> "connected", connected |-> "net",
   register |-> "stream", stream |-> "event"]

\* Where a failure goes: the labels of saa7231_pci_init and saa7231_dvb_init,
\* and for those of saa7231_pci_probe the exit function they begin with.
Labels ==
  [dev |-> "failed",
   device |-> "pci_fail0", setup |-> "pci_fail1", bar0 |-> "pci_fail1",
   map0 |-> "pci_fail2", bar2 |-> "pci_fail3", entries |-> "pci_fail5",
   irq |-> "pci_fail5",
   cgu |-> "free_irq",
   msix_table |-> "cgu_exit", event_table |-> "cgu_exit", msi_reset |-> "cgu_exit",
   i2c_mem |-> "msi_exit", i2c_add |-> "msi_exit",
   dvb_mem |-> "i2c_exit",
   adapter |-> "i2c_exit", dmx |-> "err0", dmxdev |-> "err1", connected |-> "err2",
   register |-> "err2", stream |-> "i2c_exit"]

\* Faulty variants: a failed msi_init unwound by msi_exit, the regions kept
\* when the interrupt is refused, and an adapter without a stream kept.
MsiExitToo == [Labels EXCEPT !.event_table = "msi_exit"]
RegionsKept == [Labels EXCEPT !.irq = "pci_fail1"]
StreamOptional == [Labels EXCEPT !.stream = "event"]

OnFailure == Labels

\* The labels of the two functions: what each gives back, and the next.
Undo ==
  [pci_fail5 |-> "map2", pci_fail4 |-> "bar2", pci_fail3 |-> "map0",
   pci_fail2 |-> "bar0", pci_fail1 |-> "device"]
Below ==
  [pci_fail5 |-> "pci_fail4", pci_fail4 |-> "pci_fail3", pci_fail3 |-> "pci_fail2",
   pci_fail2 |-> "pci_fail1", pci_fail1 |-> "pci_fail0"]
UndoPart == [err2 |-> "dmxdev", err1 |-> "dmx", err0 |-> "adapter"]
BelowPart == [err2 |-> "err1", err1 |-> "err0", err0 |-> "i2c_exit"]

Give(r) == held' = held \ r /\ bug' = (bug \/ ~(r \subseteq held))

-----------------------------------------------------------------------------
(* Probe.                                                                  *)

Fail == pc' = OnFailure[pc] /\ UNCHANGED <<held, buses, parts>>

\* A step of pci_init, cgu_init, msi_init, i2c_init or dvb_init.
Acquire ==
  /\ pc \in DOMAIN After
  /\ \/ Fail
     \/ /\ held' = held \cup ({pc} \cap Resources)
        /\ pc' = After[pc]
        /\ UNCHANGED <<buses, parts>>
  /\ n' = 0
  /\ UNCHANGED <<events, isr, feeds, bound, bug, fault>>

\* The mapping of BAR 2; the test that follows is of BAR 0's.
MapBar2 ==
  /\ pc = "map2"
  /\ held' \in {held \cup {"map2"}} \cup (IF RemapFails THEN {held} ELSE {})
  /\ pc' = IF "map0" \in held THEN "entries" ELSE "pci_fail4"
  /\ UNCHANGED <<n, buses, parts, events, isr, feeds, bound, bug, fault>>

\* The loop of saa7231_i2c_init; then the BSL image and the DMA channels, which
\* cannot fail.
AddBus ==
  /\ pc = "i2c_add"
  /\ \/ Fail /\ n' = n
     \/ /\ buses' = buses \cup {n}
        /\ IF n + 1 < Buses THEN pc' = pc /\ n' = n + 1 ELSE pc' = "dvb_mem" /\ n' = 0
        /\ UNCHANGED <<held, parts>>
  /\ UNCHANGED <<events, isr, feeds, bound, bug, fault>>

\* saa7231_stream_init refuses the third stream.
Accepted == pc = "stream" => n < MaxStreams

AcquirePart ==
  /\ pc \in DOMAIN AfterPart
  /\ \/ Fail
     \/ /\ Accepted
        /\ parts' = [parts EXCEPT ![n] = @ \cup ({pc} \cap Parts)]
        /\ pc' = AfterPart[pc]
        /\ UNCHANGED <<held, buses>>
  /\ UNCHANGED <<n, events, isr, feeds, bound, bug, fault>>

\* dvb_net_init and frontend_attach may fail; without a frontend the adapter is
\* registered all the same.
OptionalParts ==
  /\ \/ pc = "net" /\ pc' = "fe" /\ parts' \in {parts, [parts EXCEPT ![n] = @ \cup {"net"}]}
     \/ pc = "fe" /\ pc' = "stream" /\ UNCHANGED parts
     \/ pc = "fe" /\ pc' = "register" /\ parts' = [parts EXCEPT ![n] = @ \cup {"fe"}]
  /\ UNCHANGED <<n, held, buses, events, isr, feeds, bound, bug, fault>>

\* Faulty variant: one adapter too many.
OneMore(x) == x < Internal + External
MoreAdapters(x) == x + 1 < Internal + External

\* saa7231_add_irqevent, and after the last adapter the files of sysfs, whose
\* failure is only logged.
AddEvent ==
  /\ pc = "event"
  /\ events' = events \cup {n}
  /\ IF MoreAdapters(n)
     THEN pc' = "adapter" /\ n' = n + 1 /\ UNCHANGED <<held, bound>>
     ELSE /\ pc' = "bound" /\ n' = 0 /\ bound' = TRUE
          /\ held' \in {held, held \cup {"files"}}
  /\ UNCHANGED <<buses, parts, isr, feeds, bug, fault>>

-----------------------------------------------------------------------------
(* Unwinding and remove.                                                   *)

\* BAR 2 is unmapped only if it was mapped.
UndoPci ==
  /\ pc \in DOMAIN Undo
  /\ Give({Undo[pc]} \ ({"map2"} \ held))
  /\ pc' = Below[pc]
  /\ UNCHANGED <<n, buses, parts, events, isr, feeds, bound, fault>>

\* dvb_dmxdev_release waits for the users of the demux.
UndoDvb ==
  /\ pc \in DOMAIN UndoPart
  /\ pc = "err2" => n \notin feeds
  /\ parts' = [parts EXCEPT ![n] = @ \ ({UndoPart[pc]} \cup {"connected"})]
  /\ bug' = (bug \/ UndoPart[pc] \notin parts[n])
  /\ pc' = BelowPart[pc]
  /\ UNCHANGED <<n, held, buses, events, isr, feeds, bound, fault>>

\* saa7231_pci_remove begins, users or not.
Remove ==
  /\ pc = "bound" /\ pc' = "remove_event"
  /\ UNCHANGED <<n, held, buses, parts, events, isr, feeds, bound, bug, fault>>

\* The handler of an internal adapter is NULL, and its entry stays.
RemoveEvent ==
  /\ pc = "remove_event" /\ pc' = "stream_exit"
  /\ bug' = (bug \/ "stream" \notin parts[n])
  /\ events' = IF n < Internal THEN events ELSE events \ {n}
  /\ UNCHANGED <<n, held, buses, parts, isr, feeds, bound, fault>>

StreamExit ==
  /\ pc = "stream_exit" /\ pc' = "unregister"
  /\ parts' = [parts EXCEPT ![n] = @ \ {"stream"}]
  /\ UNCHANGED <<n, held, buses, events, isr, feeds, bound, bug, fault>>

\* Faulty variant: the network interface stays.
AllButNet == Parts \ {"net"}

\* What dvb_exit releases of an adapter after its stream.
Released == Parts

\* The frontend, the network interface, the demux and the adapter.
Unregister ==
  /\ pc = "unregister"
  /\ n \notin feeds
  /\ parts' = [parts EXCEPT ![n] = @ \ Released]
  /\ IF MoreAdapters(n) THEN pc' = "remove_event" /\ n' = n + 1 ELSE pc' = "dvb_exit" /\ n' = 0
  /\ UNCHANGED <<held, buses, events, isr, feeds, bound, bug, fault>>

DvbExit ==
  /\ pc = "dvb_exit" /\ pc' = "i2c_exit"
  /\ Give({"dvb_mem"})
  /\ UNCHANGED <<n, buses, parts, events, isr, feeds, bound, fault>>

I2cExit ==
  /\ pc = "i2c_exit" /\ pc' = "msi_exit"
  /\ buses' = {}
  /\ held' = held \ {"i2c_mem"}
  /\ bug' = (bug \/ "i2c_mem" \notin held \/ buses # 0 .. Buses - 1)
  /\ UNCHANGED <<n, parts, events, isr, feeds, bound, fault>>

MsiExit ==
  /\ pc = "msi_exit" /\ pc' = "cgu_exit"
  /\ Give(Tables)
  /\ UNCHANGED <<n, buses, parts, events, isr, feeds, bound, fault>>

\* saa7231_cgu_exit, and in remove the files of sysfs, created or not.
CguExit ==
  /\ pc = "cgu_exit" /\ pc' = "free_irq"
  /\ Give({"cgu"} \cup (held \cap {"files"}))
  /\ UNCHANGED <<n, buses, parts, events, isr, feeds, bound, fault>>

\* free_irq waits for a handler that is running.
FreeIrq ==
  /\ pc = "free_irq" /\ pc' = "pci_exit"
  /\ isr = NoAdapter
  /\ Give({"irq"})
  /\ UNCHANGED <<n, buses, parts, events, isr, feeds, bound, fault>>

PciExit ==
  /\ pc = "pci_exit" /\ pc' = "pci_fail0"
  /\ Give({"device"} \cup (IF "map2" \in held THEN {"map2", "bar2"} ELSE {})
                     \cup (IF "map0" \in held THEN {"map0", "bar0"} ELSE {}))
  /\ UNCHANGED <<n, buses, parts, events, isr, feeds, bound, fault>>

\* pci_set_drvdata(NULL) and kfree(saa7231), on each of the three ways here.
FreeDev ==
  /\ pc = "pci_fail0" /\ pc' = IF bound THEN "removed" ELSE "failed"
  /\ Give({"dev"})
  /\ UNCHANGED <<n, buses, parts, events, isr, feeds, bound, fault>>

-----------------------------------------------------------------------------
(* The interrupt and the users.                                            *)

\* Some status bit is set, the card's own or left over: saa7231_irq_handler
\* looks its vector up. The two handlers of dvbstr_tbl are those of the external
\* vectors, 47 and 48, and serve dvb[0] and dvb[1]: the external adapter's own
\* entry only if the chip has no internal ones before it.
Interrupt ==
  /\ "irq" \in held /\ isr = NoAdapter
  /\ \/ /\ "event_table" \notin held
        /\ fault' = "table" /\ UNCHANGED isr
     \/ /\ "event_table" \in held
        /\ \E x \in events :
             IF x < Internal THEN fault' = "handler" /\ UNCHANGED isr
                             ELSE isr' = x - Internal /\ UNCHANGED fault
  /\ UNCHANGED <<pc, n, held, buses, parts, events, feeds, bound, bug>>

\* The handler has moved the ring of dvb[isr].stream.
HandlerReturns ==
  /\ isr # NoAdapter
  /\ isr' = NoAdapter
  /\ fault' = IF "stream" \in parts[isr] THEN fault ELSE "stream"
  /\ UNCHANGED <<pc, n, held, buses, parts, events, feeds, bound, bug>>

\* start_feed and stop_feed use dvb->saa7231, which is set after the network interface, the
\* device, its registers and the stream. A stream that does not exist yet is refused,
\* and the feed counted; one freed by stream_exit is not noticed.
UsedByFeed(x) ==
  fault' = IF pc = "net" /\ x = n THEN "unset"
           ELSE IF ~({"dev", "map0"} \subseteq held) THEN "device"
           ELSE IF bound /\ "stream" \notin parts[x] THEN "stream" ELSE fault

StartFeed(x) ==
  /\ x \notin feeds /\ {"dmxdev", "connected"} \subseteq parts[x]
  /\ feeds' = feeds \cup {x}
  /\ UsedByFeed(x)
  /\ UNCHANGED <<pc, n, held, buses, parts, events, isr, bound, bug>>

StopFeed(x) ==
  /\ x \in feeds
  /\ feeds' = feeds \ {x}
  /\ UsedByFeed(x)
  /\ UNCHANGED <<pc, n, held, buses, parts, events, isr, bound, bug>>

Probe == Acquire \/ MapBar2 \/ AddBus \/ AcquirePart \/ OptionalParts \/ AddEvent
Unwind == UndoPci \/ UndoDvb \/ I2cExit \/ MsiExit \/ CguExit \/ FreeIrq \/ PciExit \/ FreeDev
DvbRemove == Remove \/ RemoveEvent \/ StreamExit \/ Unregister \/ DvbExit
Users == \E x \in Adapters : StartFeed(x) \/ StopFeed(x)

\* The machine stops at the first fault or BUG.
Next ==
  /\ fault = "none" /\ ~bug
  /\ Probe \/ Unwind \/ DvbRemove \/ Interrupt \/ HandlerReturns \/ Users

Spec == Init /\ [][Next]_vars

-----------------------------------------------------------------------------
(* Properties.                                                             *)

Locations ==
  DOMAIN Labels \cup DOMAIN Undo \cup DOMAIN UndoPart
    \cup {"map2", "net", "fe", "event", "bound", "remove_event", "stream_exit", "unregister",
          "dvb_exit", "i2c_exit", "msi_exit", "cgu_exit", "free_irq", "pci_exit",
          "pci_fail0", "failed", "removed"}

TypeOK ==
  /\ pc \in Locations
  /\ n \in 0 .. Buses - 1 \/ n \in Adapters
  /\ held \subseteq Resources
  /\ buses \subseteq 0 .. Buses - 1
  /\ parts \in [Adapters -> SUBSET Parts]
  /\ events \subseteq Adapters
  /\ isr \in Adapters \cup {NoAdapter}
  /\ feeds \subseteq Adapters
  /\ bound \in BOOLEAN
  /\ bug \in BOOLEAN
  /\ fault \in {"none", "table", "handler", "stream", "device", "unset"}

\* On no path of failures, and in no remove, does a BUG_ON of the exit functions
\* fire or is anything released that is not held.
NoBug == ~bug

\* The interrupt line, the regions, the mappings and the device itself are given
\* back whichever step fails, and by remove.
PciGivenBack ==
  pc \in {"failed", "removed"} =>
    held \cap {"dev", "device", "bar0", "map0", "bar2", "map2", "irq"} = {}

\* Remove gives back all that the probe and the users took, but for
\* msix_entries, which nothing frees.
RemovedClean ==
  pc = "removed" =>
    /\ held \subseteq {"entries"}
    /\ buses = {}
    /\ \A x \in Adapters : parts[x] = {}
    /\ feeds = {}
    /\ isr = NoAdapter

\* Missing or freed memory is used only in these windows: the event table before
\* msi_init has allocated it and after msi_exit has freed it, the stream while remove runs,
\* the device after a failed probe has left adapters behind, dvb->saa7231 between the
\* demultiplexer's registration and its assignment, and a handler only where an
\* internal adapter has none. In particular not in service.
FaultWindows ==
  /\ fault = "table" => pc \in {"cgu", "msix_table", "event_table", "cgu_exit", "free_irq"}
  /\ fault = "handler" => \E x \in events : x < Internal
  /\ fault = "stream" => bound /\ pc # "bound"
  /\ fault = "device" => pc \in {"pci_fail0", "failed"}
  /\ fault = "unset" => pc = "net"

\* saa7231_pci.c:322-325, "Mem 2 remap failed": a card whose BAR 2 could not be
\* mapped is not brought into service.
Bar2Checked == pc = "bound" => "map2" \in held
=============================================================================
