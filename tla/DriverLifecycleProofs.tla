------------------------ MODULE DriverLifecycleProofs ------------------------
(***************************************************************************)
(* Proofs about DriverLifecycle, for any number of adapters and buses.     *)
(*                                                                         *)
(* The invariant says, for each step the thread may have reached, what it  *)
(* holds: of the card (HeldInv, ServedInv), of the buses (BusInv) and of   *)
(* every adapter (PartsInv); and what the interrupt and the users can      *)
(* still reach (ReachInv).                                                 *)
(***************************************************************************)
EXTENDS DriverLifecycle, TLAPS

-----------------------------------------------------------------------------
(* The steps at which a resource is held.                                  *)

Undoing == {"err0", "err1", "err2"}
InDvb == {"adapter", "dmx", "dmxdev", "connected", "net", "fe", "register", "stream", "event"} \cup Undoing
InLoop == {"remove_event", "stream_exit", "unregister"}
InService == {"bound", "dvb_exit"} \cup InLoop

WithDvbMem == InDvb \cup InService
WithI2cMem == WithDvbMem \cup {"i2c_add", "dvb_mem", "i2c_exit"}
WithEventTable == WithI2cMem \cup {"msi_reset", "i2c_mem", "msi_exit"}
WithMsixTable == WithEventTable \cup {"event_table"}
WithCgu == WithMsixTable \cup {"msix_table", "cgu_exit"}
WithIrq == WithCgu \cup {"cgu", "free_irq"}
WithMap2 == WithIrq \cup {"entries", "irq", "pci_exit", "pci_fail5"}
WithBar2 == WithMap2 \cup {"map2", "pci_fail4"}
WithMap0 == WithBar2 \cup {"bar2", "pci_fail3"}
WithBar0 == WithMap0 \cup {"map0", "pci_fail2"}
WithDevice == WithBar0 \cup {"setup", "bar0", "pci_fail1"}
WithDev == WithDevice \cup {"device", "pci_fail0"}

HeldInv ==
  /\ pc \in WithDvbMem => "dvb_mem" \in held
  /\ pc \in WithI2cMem => "i2c_mem" \in held
  /\ pc \in WithEventTable => "event_table" \in held
  /\ pc \in WithMsixTable => "msix_table" \in held
  /\ pc \in WithCgu => "cgu" \in held
  /\ pc \in WithIrq <=> "irq" \in held
  /\ pc \in WithBar2 => "bar2" \in held
  /\ pc \in WithMap0 <=> "map0" \in held
  /\ pc \in WithBar0 <=> "bar0" \in held
  /\ pc \in WithDevice <=> "device" \in held
  /\ pc \in WithDev <=> "dev" \in held

\* The second window, when its mapping does not fail.
Bar2Inv ==
  ~RemapFails =>
    /\ pc \in WithMap2 <=> "map2" \in held
    /\ pc \in WithBar2 <=> "bar2" \in held

\* After a successful probe: what remove has already given back.
ServedInv ==
  /\ "files" \in held => bound
  /\ ~bound => pc \notin InService \cup {"removed"}
  /\ bound => pc \in InService \cup {"i2c_exit", "msi_exit", "cgu_exit", "free_irq", "pci_exit",
                                     "pci_fail0", "removed"}
  /\ bound /\ pc \notin InService => "dvb_mem" \notin held
  /\ bound /\ pc \notin InService \cup {"i2c_exit"} => "i2c_mem" \notin held /\ buses = {}
  /\ bound /\ pc \in {"cgu_exit", "free_irq", "pci_exit", "pci_fail0", "removed"} =>
       held \cap Tables = {}
  /\ bound /\ pc \in {"free_irq", "pci_exit", "pci_fail0", "removed"} =>
       held \cap {"cgu", "files"} = {}

BeforeBuses ==
  {"dev", "device", "setup", "bar0", "map0", "bar2", "map2", "entries", "irq", "cgu",
   "msix_table", "event_table", "msi_reset", "i2c_mem"}

BusInv ==
  /\ pc \in BeforeBuses => buses = {}
  /\ pc = "i2c_add" => n \in 0 .. Buses - 1 /\ buses = 0 .. n - 1
  /\ pc \in WithDvbMem \cup {"dvb_mem", "i2c_exit"} => buses = 0 .. Buses - 1

BeforeDvb ==
  BeforeBuses \cup {"i2c_add", "dvb_mem", "pci_fail5", "pci_fail4", "pci_fail3", "pci_fail2", "pci_fail1"}

\* What saa7231_dvb_init and saa7231_dvb_exit have done of each adapter.
PartsInv ==
  /\ pc \in InDvb \cup InLoop => n \in Adapters
  /\ pc \in BeforeDvb => \A x \in Adapters : parts[x] = {}
  /\ pc \in InDvb => \A x \in Adapters : (x > n => parts[x] = {}) /\ (x < n => "stream" \in parts[x])
  /\ pc = "adapter" => parts[n] = {}
  /\ pc \in InDvb \ {"adapter"} => "adapter" \in parts[n]
  /\ pc \in InDvb \ {"adapter", "dmx", "err0"} => "dmx" \in parts[n]
  /\ pc \in InDvb \ {"adapter", "dmx", "err0", "dmxdev", "err1"} => "dmxdev" \in parts[n]
  /\ pc \in {"dmx", "dmxdev", "connected", "err0", "err1"} => "connected" \notin parts[n]
  /\ pc = "event" => "stream" \in parts[n]
  /\ pc = "bound" => n = 0 /\ \A x \in Adapters : "stream" \in parts[x]
  /\ pc \in InLoop => \A x \in Adapters : x < n => parts[x] = {}
  /\ pc = "remove_event" => \A x \in Adapters : x >= n => "stream" \in parts[x]
  /\ pc \in {"stream_exit", "unregister"} => \A x \in Adapters : x > n => "stream" \in parts[x]
  /\ pc = "dvb_exit" => \A x \in Adapters : parts[x] = {}
  /\ bound /\ pc \notin InService => \A x \in Adapters : parts[x] = {}

\* Until remove begins, the interrupt only reaches streams that exist.
ReachInv ==
  /\ \A x \in feeds : "connected" \in parts[x]
  /\ pc \in InDvb => \A x \in events : x < n
  /\ pc \in BeforeDvb => events = {} /\ isr = NoAdapter
  /\ ~bound => /\ \A x \in events : \A y \in Adapters : y <= x => "stream" \in parts[y]
               /\ isr # NoAdapter => "stream" \in parts[isr]
  /\ isr # NoAdapter => "irq" \in held

IInv ==
  /\ TypeOK /\ NoBug /\ HeldInv /\ Bar2Inv /\ ServedInv /\ BusInv /\ PartsInv /\ ReachInv
  /\ FaultWindows

-----------------------------------------------------------------------------
(* The steps.                                                              *)

AfterSteps ==
  \/ pc = "dev" /\ pc' = "device"
  \/ pc = "device" /\ pc' = "setup"
  \/ pc = "setup" /\ pc' = "bar0"
  \/ pc = "bar0" /\ pc' = "map0"
  \/ pc = "map0" /\ pc' = "bar2"
  \/ pc = "bar2" /\ pc' = "map2"
  \/ pc = "entries" /\ pc' = "irq"
  \/ pc = "irq" /\ pc' = "cgu"
  \/ pc = "cgu" /\ pc' = "msix_table"
  \/ pc = "msix_table" /\ pc' = "event_table"
  \/ pc = "event_table" /\ pc' = "msi_reset"
  \/ pc = "msi_reset" /\ pc' = "i2c_mem"
  \/ pc = "i2c_mem" /\ pc' = "i2c_add"
  \/ pc = "dvb_mem" /\ pc' = "adapter"

PartSteps ==
  \/ pc = "adapter" /\ pc' = "dmx"
  \/ pc = "dmx" /\ pc' = "dmxdev"
  \/ pc = "dmxdev" /\ pc' = "connected"
  \/ pc = "connected" /\ pc' = "net"
  \/ pc = "register" /\ pc' = "stream"
  \/ pc = "stream" /\ pc' = "event"

FailSteps ==
  \/ pc = "dev" /\ pc' = "failed"
  \/ pc = "device" /\ pc' = "pci_fail0"
  \/ pc \in {"setup", "bar0"} /\ pc' = "pci_fail1"
  \/ pc = "map0" /\ pc' = "pci_fail2"
  \/ pc = "bar2" /\ pc' = "pci_fail3"
  \/ pc \in {"entries", "irq"} /\ pc' = "pci_fail5"
  \/ pc = "cgu" /\ pc' = "free_irq"
  \/ pc \in {"msix_table", "event_table", "msi_reset"} /\ pc' = "cgu_exit"
  \/ pc \in {"i2c_mem", "i2c_add"} /\ pc' = "msi_exit"
  \/ pc \in {"dvb_mem", "adapter", "stream"} /\ pc' = "i2c_exit"
  \/ pc = "dmx" /\ pc' = "err0"
  \/ pc = "dmxdev" /\ pc' = "err1"
  \/ pc \in {"connected", "register"} /\ pc' = "err2"

LEMMA AcquireCases ==
  ASSUME Acquire
  PROVE  /\ n' = 0 /\ UNCHANGED <<buses, parts, events, isr, feeds, bound, bug, fault>>
         /\ \/ FailSteps /\ UNCHANGED held
            \/ AfterSteps /\ held' = held \cup ({pc} \cap Resources)
<1>1. CASE Fail
  <2>1. FailSteps
    BY <1>1 DEF Acquire, Fail, OnFailure, Labels, After, FailSteps
  <2> QED BY <1>1, <2>1 DEF Acquire, Fail
<1>2. CASE ~Fail
  BY <1>2 DEF Acquire, After, AfterSteps
<1> QED BY <1>1, <1>2

LEMMA AcquirePartCases ==
  ASSUME AcquirePart
  PROVE  /\ UNCHANGED <<n, held, buses, events, isr, feeds, bound, bug, fault>>
         /\ \/ FailSteps /\ UNCHANGED parts /\ pc \in InDvb
            \/ PartSteps /\ parts' = [parts EXCEPT ![n] = @ \cup ({pc} \cap Parts)]
<1>1. CASE Fail
  <2>1. FailSteps /\ pc \in InDvb
    BY <1>1 DEF AcquirePart, Fail, OnFailure, Labels, AfterPart, FailSteps, InDvb
  <2> QED BY <1>1, <2>1 DEF AcquirePart, Fail
<1>2. CASE ~Fail
  BY <1>2 DEF AcquirePart, AfterPart, PartSteps
<1> QED BY <1>1, <1>2

LEMMA AddBusCases ==
  ASSUME AddBus
  PROVE  /\ pc = "i2c_add" /\ UNCHANGED <<held, parts, events, isr, feeds, bound, bug, fault>>
         /\ \/ pc' = "msi_exit" /\ UNCHANGED <<n, buses>>
            \/ /\ buses' = buses \cup {n}
               /\ \/ n + 1 < Buses /\ pc' = "i2c_add" /\ n' = n + 1
                  \/ ~(n + 1 < Buses) /\ pc' = "dvb_mem" /\ n' = 0
BY DEF AddBus, Fail, OnFailure, Labels

UndoSteps ==
  \/ pc = "pci_fail5" /\ pc' = "pci_fail4"
  \/ pc = "pci_fail4" /\ pc' = "pci_fail3"
  \/ pc = "pci_fail3" /\ pc' = "pci_fail2"
  \/ pc = "pci_fail2" /\ pc' = "pci_fail1"
  \/ pc = "pci_fail1" /\ pc' = "pci_fail0"

LEMMA UndoPciCases ==
  ASSUME UndoPci
  PROVE  /\ UndoSteps
         /\ held' = held \ {Undo[pc]}
         /\ ~bug /\ (pc = "pci_fail5" \/ Undo[pc] \in held) => ~bug'
         /\ UNCHANGED <<n, buses, parts, events, isr, feeds, bound, fault>>
<1>1. pc \in {"pci_fail5", "pci_fail4", "pci_fail3", "pci_fail2", "pci_fail1"}
  BY DEF UndoPci, Undo
<1>2. UndoSteps
  BY <1>1 DEF UndoPci, Below, UndoSteps
<1>3. held' = held \ {Undo[pc]}
  BY DEF UndoPci, Give
<1>4. ASSUME ~bug, pc = "pci_fail5" \/ Undo[pc] \in held PROVE ~bug'
  <2>1. pc = "pci_fail5" => Undo[pc] = "map2"
    BY DEF Undo
  <2>2. {Undo[pc]} \ ({"map2"} \ held) \subseteq held
    BY <1>4, <2>1
  <2> QED BY <1>4, <2>2 DEF UndoPci, Give
<1> QED BY <1>2, <1>3, <1>4 DEF UndoPci

\* The steps of the thread leave the rest alone.
Thread == Probe \/ Unwind \/ DvbRemove
Around == Interrupt \/ HandlerReturns \/ Users

LEMMA ThreadOnly == Thread => UNCHANGED <<isr, feeds, fault>>
BY AcquireCases, AcquirePartCases
   DEF Thread, Probe, Unwind, DvbRemove, Acquire, MapBar2, AddBus, AcquirePart, OptionalParts, AddEvent,
       UndoPci, UndoDvb, I2cExit, MsiExit, CguExit, FreeIrq, PciExit, FreeDev,
       Remove, RemoveEvent, StreamExit, Unregister, DvbExit

LEMMA AroundOnly == Around => UNCHANGED <<pc, n, held, buses, parts, events, bound, bug>>
BY DEF Around, Interrupt, HandlerReturns, Users, StartFeed, StopFeed

-----------------------------------------------------------------------------
(* What the card holds.                                                    *)

LEMMA HeldInductive ==
  ASSUME HeldInv, Thread PROVE HeldInv'
<1> USE DEF HeldInv, Undoing, InDvb, InLoop, InService, WithDvbMem, WithI2cMem, WithEventTable,
            WithMsixTable, WithCgu, WithIrq, WithMap2, WithBar2, WithMap0, WithBar0, WithDevice, WithDev
<1>1. CASE Acquire
  <2>1. CASE FailSteps /\ UNCHANGED held
    BY <2>1 DEF FailSteps
  <2>2. CASE AfterSteps /\ held' = held \cup ({pc} \cap Resources)
    <3>1. CASE pc \in {"setup", "msi_reset"}
      <4>1. held' = held
        BY <2>2, <3>1 DEF Resources, PciResources, Tables
      <4> QED BY <2>2, <3>1, <4>1 DEF AfterSteps
    <3>2. CASE pc \notin {"setup", "msi_reset"}
      <4>1. held' = held \cup {pc}
        BY <2>2, <3>2 DEF AfterSteps, Resources, PciResources, Tables
      <4>2. pc \in {"dev", "device", "bar0", "map0"} => HeldInv'
        BY <2>2, <4>1 DEF AfterSteps
      <4>3. pc \in {"bar2", "entries", "irq", "cgu"} => HeldInv'
        BY <2>2, <4>1 DEF AfterSteps
      <4>4. pc \in {"msix_table", "event_table", "i2c_mem", "dvb_mem"} => HeldInv'
        BY <2>2, <4>1 DEF AfterSteps
      <4> QED BY <2>2, <3>2, <4>2, <4>3, <4>4 DEF AfterSteps
    <3> QED BY <3>1, <3>2
  <2> QED BY <1>1, <2>1, <2>2, AcquireCases
<1>2. CASE MapBar2
  BY <1>2 DEF MapBar2
<1>3. CASE AddBus
  BY <1>3, AddBusCases
<1>4. CASE AcquirePart
  <2>1. CASE FailSteps /\ pc \in InDvb
    BY <1>4, <2>1, AcquirePartCases DEF FailSteps
  <2>2. CASE PartSteps
    BY <1>4, <2>2, AcquirePartCases DEF PartSteps
  <2> QED BY <1>4, <2>1, <2>2, AcquirePartCases
<1>5. CASE OptionalParts
  BY <1>5 DEF OptionalParts
<1>6. CASE AddEvent
  BY <1>6 DEF AddEvent
<1>7. CASE UndoPci
  BY <1>7, UndoPciCases DEF UndoSteps, Undo
<1>8. CASE UndoDvb
  BY <1>8 DEF UndoDvb, UndoPart, BelowPart
<1>9. CASE I2cExit \/ MsiExit \/ CguExit \/ FreeIrq \/ DvbExit \/ FreeDev
  BY <1>9 DEF I2cExit, MsiExit, CguExit, FreeIrq, DvbExit, FreeDev, Give, Tables
<1>10. CASE PciExit
  BY <1>10 DEF PciExit, Give
<1>11. CASE Remove \/ RemoveEvent \/ StreamExit \/ Unregister
  BY <1>11 DEF Remove, RemoveEvent, StreamExit, Unregister
<1> QED BY <1>1, <1>2, <1>3, <1>4, <1>5, <1>6, <1>7, <1>8, <1>9, <1>10, <1>11
        DEF Thread, Probe, Unwind, DvbRemove

LEMMA Bar2Inductive ==
  ASSUME HeldInv, Bar2Inv, Thread PROVE Bar2Inv'
<1> SUFFICES ASSUME ~RemapFails
             PROVE  /\ pc' \in WithMap2 <=> "map2" \in held'
                    /\ pc' \in WithBar2 <=> "bar2" \in held'
  BY DEF Bar2Inv
<1>0. /\ pc \in WithMap2 <=> "map2" \in held
      /\ pc \in WithBar2 <=> "bar2" \in held
  BY DEF Bar2Inv
<1> USE DEF Undoing, InDvb, InLoop, InService, WithDvbMem, WithI2cMem, WithEventTable,
            WithMsixTable, WithCgu, WithIrq, WithMap2, WithBar2
<1>1. CASE Acquire
  <2>1. CASE FailSteps /\ UNCHANGED held
    BY <1>0, <2>1 DEF FailSteps
  <2>2. CASE AfterSteps /\ held' = held \cup ({pc} \cap Resources)
    BY <1>0, <2>2 DEF AfterSteps, Resources, PciResources, Tables
  <2> QED BY <1>1, <2>1, <2>2, AcquireCases
<1>2. CASE MapBar2
  <2>1. "map0" \in held
    BY <1>2 DEF MapBar2, HeldInv, WithMap0
  <2> QED BY <1>0, <1>2, <2>1 DEF MapBar2
<1>3. CASE AddBus
  BY <1>0, <1>3, AddBusCases
<1>4. CASE AcquirePart
  <2>1. CASE FailSteps /\ pc \in InDvb
    BY <1>0, <1>4, <2>1, AcquirePartCases DEF FailSteps
  <2>2. CASE PartSteps
    BY <1>0, <1>4, <2>2, AcquirePartCases DEF PartSteps
  <2> QED BY <1>4, <2>1, <2>2, AcquirePartCases
<1>5. CASE OptionalParts
  BY <1>0, <1>5 DEF OptionalParts
<1>6. CASE AddEvent
  BY <1>0, <1>6 DEF AddEvent
<1>7. CASE UndoPci
  BY <1>0, <1>7, UndoPciCases DEF UndoSteps, Undo
<1>8. CASE UndoDvb
  BY <1>0, <1>8 DEF UndoDvb, UndoPart, BelowPart
<1>9. CASE I2cExit \/ MsiExit \/ CguExit \/ FreeIrq \/ DvbExit \/ FreeDev
  BY <1>0, <1>9 DEF I2cExit, MsiExit, CguExit, FreeIrq, DvbExit, FreeDev, Give, Tables
<1>10. CASE PciExit
  BY <1>0, <1>10 DEF PciExit, Give
<1>11. CASE Remove \/ RemoveEvent \/ StreamExit \/ Unregister
  BY <1>0, <1>11 DEF Remove, RemoveEvent, StreamExit, Unregister
<1> QED BY <1>1, <1>2, <1>3, <1>4, <1>5, <1>6, <1>7, <1>8, <1>9, <1>10, <1>11
        DEF Thread, Probe, Unwind, DvbRemove

LEMMA ServedInductive ==
  ASSUME ServedInv, Thread PROVE ServedInv'
<1> USE DEF ServedInv, Undoing, InDvb, InLoop, InService, Tables
<1>1. CASE Acquire
  <2>1. pc \notin InService \cup {"i2c_exit", "msi_exit", "cgu_exit", "free_irq", "pci_exit", "pci_fail0", "removed"}
        /\ pc' \notin InService \cup {"removed"}
    BY <1>1, AcquireCases DEF FailSteps, AfterSteps
  <2>2. ~bound /\ ~bound'
    BY <1>1, <2>1, AcquireCases
  <2>3. "files" \notin held'
    BY <1>1, <2>2, AcquireCases DEF AfterSteps
  <2> QED BY <2>1, <2>2, <2>3
<1>2. CASE MapBar2
  BY <1>2 DEF MapBar2
<1>3. CASE AddBus
  BY <1>3, AddBusCases
<1>4. CASE AcquirePart
  <2>1. CASE FailSteps /\ pc \in InDvb
    BY <1>4, <2>1, AcquirePartCases DEF FailSteps
  <2>2. CASE PartSteps
    BY <1>4, <2>2, AcquirePartCases DEF PartSteps
  <2> QED BY <1>4, <2>1, <2>2, AcquirePartCases
<1>5. CASE OptionalParts
  BY <1>5 DEF OptionalParts
<1>6. CASE AddEvent
  BY <1>6 DEF AddEvent
<1>7. CASE UndoPci
  BY <1>7, UndoPciCases DEF UndoSteps
<1>8. CASE UndoDvb
  BY <1>8 DEF UndoDvb, UndoPart, BelowPart
<1>9. CASE I2cExit \/ MsiExit \/ DvbExit
  BY <1>9 DEF I2cExit, MsiExit, DvbExit, Give
<1>10. CASE CguExit
  BY <1>10 DEF CguExit, Give
<1>11. CASE FreeIrq \/ PciExit
  BY <1>11 DEF FreeIrq, PciExit, Give
<1>12. CASE FreeDev
  BY <1>12 DEF FreeDev, Give
<1>13. CASE Remove \/ RemoveEvent \/ StreamExit \/ Unregister
  BY <1>13 DEF Remove, RemoveEvent, StreamExit, Unregister
<1> QED BY <1>1, <1>2, <1>3, <1>4, <1>5, <1>6, <1>7, <1>8, <1>9, <1>10, <1>11, <1>12, <1>13
        DEF Thread, Probe, Unwind, DvbRemove

LEMMA BusInductive ==
  ASSUME BusInv, Thread PROVE BusInv'
<1> USE BusesAssumption DEF BusInv, Undoing, InDvb, InLoop, InService, WithDvbMem, BeforeBuses
<1>1. CASE Acquire
  <2>1. UNCHANGED buses /\ n' = 0
    BY <1>1, AcquireCases
  <2>2. CASE FailSteps
    BY <1>1, <2>1, <2>2 DEF FailSteps
  <2>3. CASE AfterSteps /\ pc = "i2c_mem"
    BY <2>1, <2>3 DEF AfterSteps
  <2>4. CASE AfterSteps /\ pc # "i2c_mem"
    BY <2>1, <2>4 DEF AfterSteps
  <2> QED BY <1>1, <2>2, <2>3, <2>4, AcquireCases
<1>2. CASE AddBus
  <2>1. pc = "i2c_add" /\ n \in 0 .. Buses - 1 /\ buses = 0 .. n - 1
    BY <1>2, AddBusCases
  <2>2. buses \cup {n} = 0 .. n
    BY <2>1
  <2>3. CASE n + 1 < Buses /\ pc' = "i2c_add" /\ n' = n + 1 /\ buses' = 0 .. n
    <3>1. n' \in 0 .. Buses - 1 /\ n' - 1 = n
      BY <2>1, <2>3
    <3> QED BY <2>3, <3>1
  <2>4. CASE ~(n + 1 < Buses) /\ pc' = "dvb_mem" /\ n' = 0 /\ buses' = 0 .. n
    <3>1. n = Buses - 1
      BY <2>1, <2>4
    <3> QED BY <2>4, <3>1
  <2> QED BY <1>2, <2>1, <2>2, <2>3, <2>4, AddBusCases
<1>3. CASE AcquirePart
  BY <1>3, AcquirePartCases DEF FailSteps, PartSteps
<1>4. CASE MapBar2 \/ OptionalParts \/ AddEvent
  BY <1>4 DEF MapBar2, OptionalParts, AddEvent
<1>5. CASE UndoPci
  BY <1>5, UndoPciCases DEF UndoSteps
<1>6. CASE UndoDvb
  BY <1>6 DEF UndoDvb, UndoPart, BelowPart
<1>7. CASE I2cExit \/ MsiExit \/ CguExit \/ FreeIrq \/ PciExit \/ FreeDev
  BY <1>7 DEF I2cExit, MsiExit, CguExit, FreeIrq, PciExit, FreeDev
<1>8. CASE Remove \/ RemoveEvent \/ StreamExit \/ Unregister \/ DvbExit
  BY <1>8 DEF Remove, RemoveEvent, StreamExit, Unregister, DvbExit
<1> QED BY <1>1, <1>2, <1>3, <1>4, <1>5, <1>6, <1>7, <1>8 DEF Thread, Probe, Unwind, DvbRemove

-----------------------------------------------------------------------------
(* What is registered of the adapters.                                     *)

LEMMA AdapterFacts ==
  /\ \A x \in Adapters : x \in Nat
  /\ 0 \in Adapters /\ NoAdapter \notin Adapters
  /\ \A x \in Adapters : MoreAdapters(x) => x + 1 \in Adapters
  /\ \A x \in Adapters : ~MoreAdapters(x) => \A y \in Adapters : y <= x
BY CountsAssumption DEF Adapters, NoAdapter, MoreAdapters

\* One adapter's part changes, and none of the others'.
LEMMA OtherParts ==
  ASSUME TypeOK, n \in Adapters, NEW S, parts' = [parts EXCEPT ![n] = S]
  PROVE  parts'[n] = S /\ \A x \in Adapters : x # n => parts'[x] = parts[x]
BY DEF TypeOK

LEMMA PartsInductive ==
  ASSUME TypeOK, ServedInv, PartsInv, Thread PROVE PartsInv'
<1> USE AdapterFacts DEF PartsInv, Undoing, InDvb, InLoop, InService, BeforeBuses, BeforeDvb
<1>1. CASE Acquire
  <2>1. parts' = parts /\ n' = 0 /\ ~bound' /\ pc' \notin InLoop \cup {"bound", "dvb_exit"}
    BY <1>1, AcquireCases DEF FailSteps, AfterSteps, ServedInv
  <2>2. CASE FailSteps
    BY <1>1, <2>1, <2>2 DEF FailSteps, Acquire, After
  <2>3. CASE AfterSteps /\ pc = "dvb_mem"
    <3>1. pc' = "adapter" /\ \A x \in Adapters : parts'[x] = {} /\ ~(x < n')
      BY <2>1, <2>3 DEF AfterSteps
    <3> QED BY <2>1, <3>1
  <2>4. CASE AfterSteps /\ pc # "dvb_mem"
    <3>1. pc' \in BeforeDvb /\ \A x \in Adapters : parts'[x] = {}
      BY <2>1, <2>4 DEF AfterSteps
    <3> QED BY <2>1, <3>1
  <2> QED BY <1>1, <2>2, <2>3, <2>4, AcquireCases
<1>2. CASE MapBar2
  BY <1>2 DEF MapBar2, ServedInv
<1>3. CASE AddBus
  BY <1>3, AddBusCases DEF ServedInv
<1>4. CASE AcquirePart
  <2>1. CASE FailSteps /\ UNCHANGED <<parts, n, bound>> /\ pc \in InDvb
    BY <2>1 DEF FailSteps, ServedInv
  <2>2. CASE PartSteps
    <3>1. n \in Adapters /\ ~bound' /\ n' = n /\ parts' = [parts EXCEPT ![n] = @ \cup ({pc} \cap Parts)]
      BY <1>4, <2>2, AcquirePartCases DEF PartSteps, ServedInv, FailSteps
    <3>2. /\ parts'[n] = parts[n] \cup ({pc} \cap Parts)
          /\ \A x \in Adapters : x # n => parts'[x] = parts[x]
      BY <3>1, OtherParts
    <3>3. parts'[n] = parts[n] \cup (IF pc = "register" THEN {} ELSE {pc})
      BY <2>2, <3>2 DEF PartSteps, Parts
    <3>4. pc \in {"adapter", "dmx"} => PartsInv'
      BY <2>2, <3>1, <3>2, <3>3 DEF PartSteps
    <3>5. pc \in {"dmxdev", "connected"} => PartsInv'
      BY <2>2, <3>1, <3>2, <3>3 DEF PartSteps
    <3>6. pc \in {"register", "stream"} => PartsInv'
      BY <2>2, <3>1, <3>2, <3>3 DEF PartSteps
    <3> QED BY <2>2, <3>4, <3>5, <3>6 DEF PartSteps
  <2> QED BY <1>4, <2>1, <2>2, AcquirePartCases
<1>5. CASE OptionalParts
  <2>1. n \in Adapters /\ ~bound' /\ n' = n /\ pc \in {"net", "fe"} /\ pc' \in {"fe", "stream", "register"}
    BY <1>5 DEF OptionalParts, ServedInv
  <2>2. PICK S \in {{}, {"net"}, {"fe"}} : parts' = [parts EXCEPT ![n] = @ \cup S]
    BY <1>5, <2>1 DEF OptionalParts, TypeOK
  <2>3. parts'[n] = parts[n] \cup S /\ \A x \in Adapters : x # n => parts'[x] = parts[x]
    BY <2>1, <2>2, OtherParts
  <2> QED BY <2>1, <2>3
<1>6. CASE AddEvent
  <2>0. pc = "event" /\ parts' = parts
    BY <1>6 DEF AddEvent
  <2>1. n \in Adapters /\ \A x \in Adapters : x <= n => "stream" \in parts[x]
    <3>1. n \in Adapters /\ \A x \in Adapters : x <= n => x < n \/ x = n
      BY <2>0
    <3> QED BY <2>0, <3>1
  <2>2. CASE MoreAdapters(n) /\ pc' = "adapter" /\ n' = n + 1 /\ UNCHANGED bound
    <3>1. n' \in Adapters /\ \A x \in Adapters : (x >= n' => parts'[x] = {}) /\ (x < n' => x <= n)
      BY <2>0, <2>1, <2>2
    <3> QED BY <2>0, <2>1, <2>2, <3>1 DEF ServedInv
  <2>3. CASE ~MoreAdapters(n) /\ pc' = "bound" /\ n' = 0
    <3>1. \A x \in Adapters : x <= n
      BY <2>1, <2>3
    <3> QED BY <2>0, <2>1, <2>3, <3>1
  <2> QED BY <1>6, <2>2, <2>3 DEF AddEvent
<1>7. CASE UndoPci
  BY <1>7, UndoPciCases DEF UndoSteps, ServedInv
<1>8. CASE UndoDvb
  <2>1. /\ n \in Adapters /\ ~bound' /\ n' = n
        /\ \/ pc = "err2" /\ pc' = "err1" /\ UndoPart[pc] = "dmxdev"
           \/ pc = "err1" /\ pc' = "err0" /\ UndoPart[pc] = "dmx"
           \/ pc = "err0" /\ pc' = "i2c_exit"
    BY <1>8 DEF UndoDvb, UndoPart, BelowPart, ServedInv
  <2>2. /\ parts'[n] = parts[n] \ ({UndoPart[pc]} \cup {"connected"})
        /\ \A x \in Adapters : x # n => parts'[x] = parts[x]
    BY <1>8, <2>1, OtherParts DEF UndoDvb
  <2> QED BY <2>1, <2>2
<1>9. CASE I2cExit \/ MsiExit \/ CguExit \/ FreeIrq \/ PciExit \/ FreeDev \/ DvbExit
  BY <1>9 DEF I2cExit, MsiExit, CguExit, FreeIrq, PciExit, FreeDev, DvbExit, ServedInv
<1>10. CASE Remove
  <2>1. n' = 0 /\ pc = "bound" /\ pc' = "remove_event" /\ UNCHANGED <<parts, bound>>
    BY <1>10 DEF Remove
  <2> QED BY <2>1
<1>11. CASE RemoveEvent
  BY <1>11 DEF RemoveEvent
<1>12. CASE StreamExit
  <2>1. n \in Adapters /\ \A x \in Adapters : x # n => parts'[x] = parts[x]
    BY <1>12, OtherParts DEF StreamExit
  <2> QED BY <1>12, <2>1 DEF StreamExit
<1>13. CASE Unregister
  <2>1. n \in Adapters /\ parts'[n] = parts[n] \ Parts /\ \A x \in Adapters : x # n => parts'[x] = parts[x]
    BY <1>13, OtherParts DEF Unregister, Released
  <2>2. \A x \in Adapters : x <= n => parts'[x] = {}
    BY <1>13, <2>1 DEF Unregister, TypeOK
  <2> QED BY <1>13, <2>1, <2>2 DEF Unregister
<1> QED BY <1>1, <1>2, <1>3, <1>4, <1>5, <1>6, <1>7, <1>8, <1>9, <1>10, <1>11, <1>12, <1>13
        DEF Thread, Probe, Unwind, DvbRemove

-----------------------------------------------------------------------------
(* Types.                                                                  *)

LEMMA LocationFacts ==
  /\ {"dev", "device", "setup", "bar0", "map0", "bar2", "map2", "entries", "irq", "cgu", "msix_table",
      "event_table", "msi_reset", "i2c_mem", "i2c_add", "dvb_mem"} \subseteq Locations
  /\ {"adapter", "dmx", "dmxdev", "connected", "net", "fe", "register", "stream", "event",
      "err0", "err1", "err2"} \subseteq Locations
  /\ {"bound", "remove_event", "stream_exit", "unregister", "dvb_exit", "i2c_exit", "msi_exit",
      "cgu_exit", "free_irq", "pci_exit"} \subseteq Locations
  /\ {"pci_fail5", "pci_fail4", "pci_fail3", "pci_fail2", "pci_fail1", "pci_fail0", "failed",
      "removed"} \subseteq Locations
BY DEF Locations, Labels, Undo, UndoPart

LEMMA ThreadType ==
  ASSUME TypeOK, BusInv, PartsInv, Thread PROVE TypeOK'
<1>1. pc' \in Locations
  <2>1. CASE Acquire
    BY <2>1, AcquireCases, LocationFacts DEF FailSteps, AfterSteps
  <2>2. CASE AcquirePart
    BY <2>2, AcquirePartCases, LocationFacts DEF FailSteps, PartSteps
  <2>3. CASE AddBus
    BY <2>3, AddBusCases, LocationFacts
  <2>4. CASE UndoPci
    BY <2>4, UndoPciCases, LocationFacts DEF UndoSteps
  <2>5. CASE UndoDvb
    BY <2>5, LocationFacts DEF UndoDvb, UndoPart, BelowPart
  <2>6. CASE MapBar2 \/ OptionalParts \/ AddEvent
    BY <2>6, LocationFacts DEF MapBar2, OptionalParts, AddEvent
  <2>7. CASE Remove \/ RemoveEvent \/ StreamExit \/ Unregister \/ DvbExit
    BY <2>7, LocationFacts DEF Remove, RemoveEvent, StreamExit, Unregister, DvbExit
  <2>8. CASE I2cExit \/ MsiExit \/ CguExit \/ FreeIrq \/ PciExit \/ FreeDev
    BY <2>8, LocationFacts DEF I2cExit, MsiExit, CguExit, FreeIrq, PciExit, FreeDev
  <2> QED BY <2>1, <2>2, <2>3, <2>4, <2>5, <2>6, <2>7, <2>8 DEF Thread, Probe, Unwind, DvbRemove
<1>2. n' \in 0 .. Buses - 1 \/ n' \in Adapters
  <2>1. 0 \in 0 .. Buses - 1
    BY BusesAssumption
  <2>2. CASE UNCHANGED n \/ n' = 0
    BY <2>1, <2>2 DEF TypeOK
  <2>3. CASE ~(UNCHANGED n \/ n' = 0)
    <3>1. AddBus \/ AddEvent \/ Unregister
      BY <2>3, AcquireCases, AcquirePartCases, UndoPciCases
         DEF Thread, Probe, Unwind, DvbRemove, MapBar2, OptionalParts, UndoDvb, I2cExit, MsiExit,
             CguExit, FreeIrq, PciExit, FreeDev, Remove, RemoveEvent, StreamExit, DvbExit
    <3>2. CASE AddBus
      <4>1. n \in 0 .. Buses - 1 /\ n + 1 < Buses /\ n' = n + 1
        BY <2>3, <3>2, AddBusCases DEF BusInv
      <4> QED BY <4>1, BusesAssumption
    <3>3. CASE AddEvent \/ Unregister
      <4>1. n \in Adapters /\ MoreAdapters(n) /\ n' = n + 1
        BY <2>3, <3>3 DEF AddEvent, Unregister, PartsInv, InDvb, InLoop
      <4> QED BY <4>1, AdapterFacts
    <3> QED BY <3>1, <3>2, <3>3
  <2> QED BY <2>2, <2>3
<1>3. held' \subseteq Resources
  <2>1. CASE UNCHANGED held \/ held' \subseteq held
    BY <2>1 DEF TypeOK
  <2>2. CASE Acquire
    BY <2>2, AcquireCases DEF TypeOK
  <2>3. CASE MapBar2 \/ AddEvent
    BY <2>3 DEF MapBar2, AddEvent, TypeOK, Resources, PciResources
  <2>4. Acquire \/ MapBar2 \/ AddEvent \/ UNCHANGED held \/ held' \subseteq held
    BY AddBusCases, AcquirePartCases, UndoPciCases
       DEF Thread, Probe, Unwind, DvbRemove, OptionalParts, UndoDvb, I2cExit, MsiExit, CguExit, FreeIrq,
           PciExit, FreeDev, Remove, RemoveEvent, StreamExit, Unregister, DvbExit, Give
  <2> QED BY <2>1, <2>2, <2>3, <2>4
<1>4. buses' \subseteq 0 .. Buses - 1
  <2>1. CASE AddBus
    BY <2>1, AddBusCases DEF TypeOK, BusInv
  <2>2. ~AddBus => UNCHANGED buses \/ buses' = {}
    BY AcquireCases, AcquirePartCases, UndoPciCases
       DEF Thread, Probe, Unwind, DvbRemove, MapBar2, OptionalParts, AddEvent, UndoDvb, I2cExit, MsiExit,
           CguExit, FreeIrq, PciExit, FreeDev, Remove, RemoveEvent, StreamExit, Unregister, DvbExit
  <2> QED BY <2>1, <2>2 DEF TypeOK
<1>5. parts' \in [Adapters -> SUBSET Parts]
  <2>1. CASE UNCHANGED parts
    BY <2>1 DEF TypeOK
  <2>2. CASE AcquirePart
    BY <2>2, AcquirePartCases DEF TypeOK
  <2>3. CASE OptionalParts
    <3>1. {"net"} \subseteq Parts /\ {"fe"} \subseteq Parts
      BY DEF Parts
    <3> QED BY <2>3, <3>1 DEF OptionalParts, TypeOK
  <2>4. CASE UndoDvb \/ StreamExit \/ Unregister
    BY <2>4 DEF UndoDvb, StreamExit, Unregister, TypeOK
  <2>5. UNCHANGED parts \/ AcquirePart \/ OptionalParts \/ UndoDvb \/ StreamExit \/ Unregister
    BY AcquireCases, AddBusCases, UndoPciCases
       DEF Thread, Probe, Unwind, DvbRemove, MapBar2, AddEvent, I2cExit, MsiExit,
           CguExit, FreeIrq, PciExit, FreeDev, Remove, RemoveEvent, DvbExit
  <2> QED BY <2>1, <2>2, <2>3, <2>4, <2>5
<1>6. events' \subseteq Adapters
  <2>1. CASE AddEvent
    BY <2>1 DEF AddEvent, PartsInv, InDvb, TypeOK
  <2>2. ~AddEvent => events' \subseteq events
    BY AcquireCases, AddBusCases, AcquirePartCases, UndoPciCases
       DEF Thread, Probe, Unwind, DvbRemove, MapBar2, OptionalParts, UndoDvb, I2cExit, MsiExit,
           CguExit, FreeIrq, PciExit, FreeDev, Remove, RemoveEvent, StreamExit, Unregister, DvbExit
  <2> QED BY <2>1, <2>2 DEF TypeOK
<1>7. bound' \in BOOLEAN
  <2>1. AddEvent \/ UNCHANGED bound
    BY AcquireCases, AddBusCases, AcquirePartCases, UndoPciCases
       DEF Thread, Probe, Unwind, DvbRemove, MapBar2, OptionalParts, UndoDvb, I2cExit, MsiExit,
           CguExit, FreeIrq, PciExit, FreeDev, Remove, RemoveEvent, StreamExit, Unregister, DvbExit
  <2> QED BY <2>1 DEF AddEvent, TypeOK
<1>8. bug' \in BOOLEAN
  <2>1. CASE UNCHANGED bug
    BY <2>1 DEF TypeOK
  <2>2. CASE UndoPci \/ DvbExit \/ MsiExit \/ CguExit \/ FreeIrq \/ PciExit \/ FreeDev
    BY <2>2 DEF UndoPci, DvbExit, MsiExit, CguExit, FreeIrq, PciExit, FreeDev, Give
  <2>3. CASE UndoDvb \/ RemoveEvent \/ I2cExit
    BY <2>3 DEF UndoDvb, RemoveEvent, I2cExit
  <2>4. \/ UNCHANGED bug \/ UndoPci \/ DvbExit \/ MsiExit \/ CguExit \/ FreeIrq \/ PciExit \/ FreeDev
        \/ UndoDvb \/ RemoveEvent \/ I2cExit
    BY AcquireCases, AddBusCases, AcquirePartCases
       DEF Thread, Probe, Unwind, DvbRemove, MapBar2, OptionalParts, AddEvent, Remove, StreamExit,
           Unregister
  <2> QED BY <2>1, <2>2, <2>3, <2>4
<1> QED BY <1>1, <1>2, <1>3, <1>4, <1>5, <1>6, <1>7, <1>8, ThreadOnly DEF TypeOK

LEMMA AroundType ==
  ASSUME TypeOK, Around PROVE TypeOK'
<1>1. UNCHANGED <<pc, n, held, buses, parts, events, bound, bug>>
  BY AroundOnly
<1>2. CASE Interrupt
  <2>1. isr' \in Adapters \cup {NoAdapter}
    <3>1. ASSUME NEW x \in events, x >= Internal PROVE x - Internal \in Adapters
      BY <3>1, CountsAssumption DEF TypeOK, Adapters
    <3>2. \A x \in events : x \in Nat /\ (~(x < Internal) => x >= Internal)
      BY CountsAssumption, AdapterFacts DEF TypeOK
    <3> QED BY <1>2, <3>1, <3>2 DEF Interrupt, TypeOK
  <2>2. feeds' = feeds /\ fault' \in {"none", "table", "handler", "stream", "device", "unset"}
    BY <1>2 DEF Interrupt, TypeOK
  <2> QED BY <1>1, <2>1, <2>2 DEF TypeOK
<1>3. CASE HandlerReturns
  <2>1. feeds' = feeds /\ isr' = NoAdapter /\ fault' \in {"none", "table", "handler", "stream", "device", "unset"}
    BY <1>3 DEF HandlerReturns, TypeOK
  <2> QED BY <1>1, <2>1 DEF TypeOK
<1>4. ASSUME NEW x \in Adapters, StartFeed(x) \/ StopFeed(x) PROVE TypeOK'
  <2>1. feeds' \subseteq Adapters /\ isr' = isr
    BY <1>4 DEF StartFeed, StopFeed, TypeOK
  <2>2. fault' \in {"none", "table", "handler", "stream", "device", "unset"}
    BY <1>4 DEF StartFeed, StopFeed, UsedByFeed, TypeOK
  <2> QED BY <1>1, <2>1, <2>2 DEF TypeOK
<1> QED BY <1>2, <1>3, <1>4 DEF Around, Users

-----------------------------------------------------------------------------
(* Nothing is released that is not held.                                   *)

LEMMA NoBugInductive ==
  ASSUME NoBug, HeldInv, BusInv, PartsInv, Thread PROVE NoBug'
<1> USE DEF NoBug
<1>1. CASE UNCHANGED bug
  BY <1>1
<1>2. CASE UndoPci
  <2>1. pc = "pci_fail5" \/ Undo[pc] \in held
    BY <1>2, UndoPciCases
       DEF UndoSteps, Undo, HeldInv, WithBar2, WithMap0, WithBar0, WithDevice
  <2> QED BY <1>2, <2>1, UndoPciCases
<1>3. CASE UndoDvb
  <2>1. UndoPart[pc] \in parts[n]
    BY <1>3 DEF UndoDvb, UndoPart, PartsInv, InDvb, Undoing
  <2> QED BY <1>3, <2>1 DEF UndoDvb
<1>4. CASE RemoveEvent
  <2>1. "stream" \in parts[n]
    BY <1>4, AdapterFacts DEF RemoveEvent, PartsInv, InLoop
  <2> QED BY <1>4, <2>1 DEF RemoveEvent
<1>5. CASE I2cExit
  <2>1. "i2c_mem" \in held /\ buses = 0 .. Buses - 1
    BY <1>5 DEF I2cExit, HeldInv, WithI2cMem, BusInv
  <2> QED BY <1>5, <2>1 DEF I2cExit
<1>6. CASE DvbExit
  <2>1. {"dvb_mem"} \subseteq held
    BY <1>6 DEF DvbExit, HeldInv, WithDvbMem, InService
  <2> QED BY <1>6, <2>1 DEF DvbExit, Give
<1>7. CASE MsiExit
  <2>1. Tables \subseteq held
    BY <1>7 DEF MsiExit, HeldInv, WithMsixTable, WithEventTable, Tables
  <2> QED BY <1>7, <2>1 DEF MsiExit, Give
<1>8. CASE CguExit
  <2>1. {"cgu"} \cup (held \cap {"files"}) \subseteq held
    BY <1>8 DEF CguExit, HeldInv, WithCgu
  <2> QED BY <1>8, <2>1 DEF CguExit, Give
<1>9. CASE FreeIrq
  <2>1. {"irq"} \subseteq held
    BY <1>9 DEF FreeIrq, HeldInv, WithIrq
  <2> QED BY <1>9, <2>1 DEF FreeIrq, Give
<1>10. CASE PciExit
  <2>1. {"device", "map0", "bar0", "bar2"} \subseteq held
    BY <1>10 DEF PciExit, HeldInv, WithMap2, WithBar2, WithMap0, WithBar0, WithDevice
  <2>2. {"device"} \cup (IF "map2" \in held THEN {"map2", "bar2"} ELSE {})
                   \cup (IF "map0" \in held THEN {"map0", "bar0"} ELSE {}) \subseteq held
    BY <2>1
  <2> QED BY <1>10, <2>2 DEF PciExit, Give
<1>11. CASE FreeDev
  <2>1. {"dev"} \subseteq held
    BY <1>11 DEF FreeDev, HeldInv, WithDev
  <2> QED BY <1>11, <2>1 DEF FreeDev, Give
<1>12. \/ UNCHANGED bug \/ UndoPci \/ UndoDvb \/ RemoveEvent \/ I2cExit \/ DvbExit \/ MsiExit \/ CguExit
       \/ FreeIrq \/ PciExit \/ FreeDev
  BY AcquireCases, AddBusCases, AcquirePartCases
     DEF Thread, Probe, Unwind, DvbRemove, MapBar2, OptionalParts, AddEvent, Remove, StreamExit, Unregister
<1> QED BY <1>1, <1>2, <1>3, <1>4, <1>5, <1>6, <1>7, <1>8, <1>9, <1>10, <1>11, <1>12

-----------------------------------------------------------------------------
(* What the interrupt and the users reach.                                 *)

\* What a step of the thread may take from an adapter that users or the interrupt reach.
LEMMA PartsKept ==
  ASSUME TypeOK, ServedInv, PartsInv, Thread
  PROVE  /\ \A x \in Adapters : x \notin feeds \/ "connected" \notin parts[x] \/ "connected" \in parts'[x]
         /\ ~bound => \A x \in Adapters : "stream" \in parts[x] => "stream" \in parts'[x]
<1>1. CASE UNCHANGED parts
  BY <1>1
<1>2. CASE AcquirePart
  <2>1. CASE UNCHANGED parts
    BY <2>1
  <2>2. CASE parts' = [parts EXCEPT ![n] = @ \cup ({pc} \cap Parts)]
    BY <2>2 DEF TypeOK
  <2> QED BY <1>2, <2>1, <2>2, AcquirePartCases
<1>3. CASE OptionalParts
  BY <1>3 DEF OptionalParts, TypeOK
<1>4. CASE UndoDvb
  <2>1. pc \in {"err0", "err1", "err2"}
    BY <1>4 DEF UndoDvb, UndoPart
  <2>2. parts' = [parts EXCEPT ![n] = @ \ ({UndoPart[pc]} \cup {"connected"})]
    BY <1>4 DEF UndoDvb
  <2>3. n \notin feeds \/ "connected" \notin parts[n]
    BY <1>4, <2>1 DEF UndoDvb, PartsInv
  <2>4. UndoPart[pc] \in {"dmxdev", "dmx", "adapter"}
    BY <2>1 DEF UndoPart
  <2>5. \A x \in Adapters : parts'[x] = IF x = n THEN parts[x] \ ({UndoPart[pc]} \cup {"connected"})
                                               ELSE parts[x]
    BY <2>2 DEF TypeOK
  <2> QED BY <2>3, <2>4, <2>5
<1>5. CASE StreamExit
  <2>1. bound
    BY <1>5 DEF StreamExit, ServedInv, InService, InLoop
  <2> QED BY <1>5, <2>1 DEF StreamExit, TypeOK
<1>6. CASE Unregister
  <2>1. bound
    BY <1>6 DEF Unregister, ServedInv, InService, InLoop
  <2> QED BY <1>6, <2>1 DEF Unregister, TypeOK
<1>7. UNCHANGED parts \/ AcquirePart \/ OptionalParts \/ UndoDvb \/ StreamExit \/ Unregister
  BY AcquireCases, AddBusCases, UndoPciCases
     DEF Thread, Probe, Unwind, DvbRemove, MapBar2, AddEvent, I2cExit, MsiExit,
         CguExit, FreeIrq, PciExit, FreeDev, Remove, RemoveEvent, DvbExit
<1> QED BY <1>1, <1>2, <1>3, <1>4, <1>5, <1>6, <1>7

LEMMA ReachThread ==
  ASSUME TypeOK, ServedInv, PartsInv, ReachInv, Thread PROVE ReachInv'
<1>1. UNCHANGED <<isr, feeds>> /\ feeds \subseteq Adapters /\ events \subseteq Adapters
  BY ThreadOnly DEF TypeOK
<1>2. \A x \in feeds : "connected" \in parts'[x]
  BY <1>1, PartsKept DEF ReachInv
<1>3. CASE AddEvent
  <2>1. /\ pc = "event" /\ n \in Adapters /\ events' = events \cup {n} /\ parts' = parts /\ held \subseteq held'
        /\ \/ pc' = "adapter" /\ n' = n + 1 /\ UNCHANGED bound
           \/ pc' = "bound" /\ bound'
    BY <1>3 DEF AddEvent, PartsInv, InDvb
  <2>2. \A x \in events' : \A y \in Adapters : y <= x => "stream" \in parts[y]
    <3>1. \A x \in events' : x \in Nat /\ x <= n
      BY <1>1, <2>1, AdapterFacts DEF ReachInv, InDvb
    <3>2. \A y \in Adapters : y <= n => y < n \/ y = n
      BY <2>1, AdapterFacts
    <3>3. \A y \in Adapters : y <= n => "stream" \in parts[y]
      BY <2>1, <3>2 DEF PartsInv, InDvb
    <3>4. \A x \in events' : \A y \in Adapters : y <= x => y <= n
      BY <2>1, <3>1, AdapterFacts
    <3> QED BY <3>3, <3>4
  <2>3. pc' = "adapter" => \A x \in events' : x < n'
    BY <1>1, <2>1, AdapterFacts DEF ReachInv, InDvb
  <2>4. ~bound
    <3>1. pc = "event"
      BY <2>1
    <3> QED BY <3>1 DEF ServedInv, InService, InLoop
  <2>5. pc' \notin BeforeDvb /\ pc' \notin InDvb \ {"adapter"}
    <3>1. pc' \in {"adapter", "bound"}
      BY <2>1
    <3> QED BY <3>1 DEF BeforeDvb, BeforeBuses, InDvb, Undoing
  <2> QED BY <1>1, <1>2, <2>1, <2>2, <2>3, <2>4, <2>5 DEF ReachInv
<1>4. CASE ~AddEvent
  <2>1. events' \subseteq events /\ bound' = bound
    BY <1>4, AcquireCases, AddBusCases, AcquirePartCases, UndoPciCases
       DEF Thread, Probe, Unwind, DvbRemove, MapBar2, OptionalParts, UndoDvb, I2cExit, MsiExit,
           CguExit, FreeIrq, PciExit, FreeDev, Remove, RemoveEvent, StreamExit, Unregister, DvbExit
  <2>2. pc' \in BeforeDvb => pc \in BeforeDvb
    <3> USE DEF BeforeDvb, BeforeBuses
    <3>1. CASE Acquire
      BY <3>1, AcquireCases DEF FailSteps, AfterSteps
    <3>2. CASE AcquirePart
      BY <3>2, AcquirePartCases DEF FailSteps, PartSteps, InDvb, Undoing
    <3>3. CASE UndoPci
      BY <3>3, UndoPciCases DEF UndoSteps
    <3>4. CASE AddBus \/ MapBar2 \/ OptionalParts
      BY <3>4, AddBusCases DEF MapBar2, OptionalParts
    <3>5. CASE UndoDvb \/ I2cExit \/ MsiExit \/ CguExit \/ FreeIrq \/ PciExit \/ FreeDev \/ DvbRemove
      BY <3>5 DEF UndoDvb, UndoPart, BelowPart, I2cExit, MsiExit, CguExit, FreeIrq, PciExit, FreeDev,
                  DvbRemove, Remove, RemoveEvent, StreamExit, Unregister, DvbExit
    <3> QED BY <1>4, <3>1, <3>2, <3>3, <3>4, <3>5 DEF Thread, Probe, Unwind
  <2>3. pc' \in InDvb => (pc \in InDvb /\ n' = n) \/ pc = "dvb_mem"
    <3> USE DEF InDvb, Undoing
    <3>1. CASE Acquire
      BY <3>1, AcquireCases DEF FailSteps, AfterSteps, Acquire, After
    <3>2. CASE AcquirePart
      BY <3>2, AcquirePartCases DEF FailSteps, PartSteps
    <3>3. CASE UndoPci
      BY <3>3, UndoPciCases DEF UndoSteps
    <3>4. CASE AddBus \/ MapBar2 \/ OptionalParts
      BY <3>4, AddBusCases DEF MapBar2, OptionalParts
    <3>5. CASE UndoDvb \/ I2cExit \/ MsiExit \/ CguExit \/ FreeIrq \/ PciExit \/ FreeDev \/ DvbRemove
      BY <3>5 DEF UndoDvb, UndoPart, BelowPart, I2cExit, MsiExit, CguExit, FreeIrq, PciExit, FreeDev,
                  DvbRemove, Remove, RemoveEvent, StreamExit, Unregister, DvbExit
    <3> QED BY <1>4, <3>1, <3>2, <3>3, <3>4, <3>5 DEF Thread, Probe, Unwind
  <2>4. isr # NoAdapter /\ "irq" \in held => "irq" \in held'
    BY AcquireCases, AddBusCases, AcquirePartCases, UndoPciCases
       DEF Thread, Probe, Unwind, DvbRemove, MapBar2, OptionalParts, AddEvent, UndoDvb, I2cExit, MsiExit,
           CguExit, FreeIrq, PciExit, FreeDev, Remove, RemoveEvent, StreamExit, Unregister, DvbExit,
           Give, Tables, UndoSteps, Undo
  <2>5. pc' \in InDvb => \A x \in events' : x < n'
    BY <2>1, <2>3 DEF ReachInv, BeforeDvb
  <2>6. isr # NoAdapter => isr \in Adapters
    BY DEF TypeOK
  <2>7. ~bound' => /\ \A x \in events' : \A y \in Adapters : y <= x => "stream" \in parts'[y]
                   /\ isr' # NoAdapter => "stream" \in parts'[isr']
    BY <1>1, <2>1, <2>6, PartsKept DEF ReachInv
  <2> QED BY <1>1, <1>2, <2>1, <2>2, <2>4, <2>5, <2>7 DEF ReachInv
<1> QED BY <1>3, <1>4

LEMMA ReachAround ==
  ASSUME TypeOK, ReachInv, Around PROVE ReachInv'
<1>1. UNCHANGED <<pc, n, held, buses, parts, events, bound, bug>>
  BY AroundOnly
<1>2. CASE Interrupt
  <2>1. feeds' = feeds /\ "irq" \in held
    BY <1>2 DEF Interrupt
  <2>2. isr' = isr \/ \E x \in events : x >= Internal /\ isr' = x - Internal
    BY <1>2, AdapterFacts, CountsAssumption DEF Interrupt, TypeOK
  <2>3. CASE isr' = isr
    BY <1>1, <2>1, <2>3 DEF ReachInv
  <2>4. ASSUME NEW x \in events, x >= Internal, isr' = x - Internal PROVE ReachInv'
    <3>1. x \in Adapters /\ isr' \in Adapters /\ isr' <= x
      BY <2>4, CountsAssumption DEF TypeOK, Adapters
    <3>2. ~bound => "stream" \in parts[isr']
      BY <3>1 DEF ReachInv
    <3>3. pc \notin BeforeDvb
      BY DEF ReachInv
    <3> QED BY <1>1, <2>1, <3>2, <3>3 DEF ReachInv
  <2> QED BY <2>2, <2>3, <2>4
<1>3. CASE HandlerReturns
  BY <1>1, <1>3 DEF HandlerReturns, ReachInv
<1>4. ASSUME NEW x \in Adapters, StartFeed(x) \/ StopFeed(x) PROVE ReachInv'
  <2>1. isr' = isr /\ \A y \in feeds' : "connected" \in parts[y]
    BY <1>4 DEF StartFeed, StopFeed, ReachInv
  <2> QED BY <1>1, <2>1 DEF ReachInv
<1> QED BY <1>2, <1>3, <1>4 DEF Around, Users

-----------------------------------------------------------------------------
(* The windows.                                                            *)

LEMMA FaultStep ==
  ASSUME TypeOK, HeldInv, ServedInv, PartsInv, ReachInv, fault = "none", Thread \/ Around
  PROVE  FaultWindows'
<1>1. CASE Thread
  BY <1>1, ThreadOnly DEF FaultWindows
<1>2. CASE Around
  <2>1. UNCHANGED <<pc, n, held, buses, parts, events, bound, bug>>
    BY <1>2, AroundOnly
  <2>2. CASE Interrupt
    <3>1. CASE "event_table" \notin held /\ fault' = "table"
      <4>1. pc \in WithIrq /\ pc \notin WithEventTable
        BY <2>2, <3>1 DEF Interrupt, HeldInv
      <4>2. pc \in {"cgu", "msix_table", "event_table", "cgu_exit", "free_irq"}
        BY <4>1 DEF WithIrq, WithCgu, WithMsixTable
      <4> QED BY <2>1, <3>1, <4>2 DEF FaultWindows
    <3>2. CASE "event_table" \in held
      <4>1. fault' = "none" \/ (fault' = "handler" /\ \E x \in events : x < Internal)
        BY <2>2, <3>2 DEF Interrupt
      <4> QED BY <2>1, <4>1 DEF FaultWindows
    <3> QED BY <2>2, <3>1, <3>2 DEF Interrupt
  <2>3. CASE HandlerReturns
    <3>1. isr \in Adapters /\ (fault' = "none" \/ (fault' = "stream" /\ "stream" \notin parts[isr]))
      BY <2>3 DEF HandlerReturns, TypeOK
    <3>2. "stream" \notin parts[isr] => bound /\ pc # "bound"
      BY <2>3, <3>1 DEF HandlerReturns, ReachInv, PartsInv
    <3> QED BY <2>1, <3>1, <3>2 DEF FaultWindows
  <2>4. ASSUME NEW x \in Adapters, StartFeed(x) \/ StopFeed(x) PROVE FaultWindows'
    <3>1. "connected" \in parts[x] /\ UsedByFeed(x)
      BY <2>4 DEF StartFeed, StopFeed, ReachInv
    <3>2. \/ fault' = "none"
          \/ fault' = "unset" /\ pc = "net"
          \/ fault' = "device" /\ ~({"dev", "map0"} \subseteq held)
          \/ fault' = "stream" /\ bound /\ "stream" \notin parts[x]
      BY <3>1 DEF UsedByFeed
    <3>3. ~({"dev", "map0"} \subseteq held) => pc \in {"pci_fail0", "failed"}
      <4>1. pc \notin BeforeDvb /\ ~(pc = "removed")
        BY <3>1 DEF PartsInv, ServedInv, InService, InLoop
      <4>2. pc \in WithMap0 \/ pc \in {"pci_fail0", "failed"}
        BY <4>1 DEF TypeOK, Locations, Labels, Undo, UndoPart, BeforeDvb, BeforeBuses, WithMap0, WithBar2,
                    WithMap2, WithIrq, WithCgu, WithMsixTable, WithEventTable, WithI2cMem, WithDvbMem,
                    InDvb, Undoing, InService, InLoop
      <4>3. pc \in WithMap0 => {"dev", "map0"} \subseteq held
        BY DEF HeldInv, WithDev, WithDevice, WithBar0
      <4> QED BY <4>2, <4>3
    <3>4. "stream" \notin parts[x] => pc # "bound"
      BY DEF PartsInv
    <3> QED BY <2>1, <3>2, <3>3, <3>4 DEF FaultWindows
  <2> QED BY <1>2, <2>2, <2>3, <2>4 DEF Around, Users
<1> QED BY <1>1, <1>2

-----------------------------------------------------------------------------
(* The invariant.                                                          *)

LEMMA InitInv == Init => IInv
<1> SUFFICES ASSUME Init PROVE IInv
  OBVIOUS
<1> USE DEF Init
<1>1. TypeOK
  <2>1. pc \in Locations
    BY LocationFacts
  <2>2. n \in 0 .. Buses - 1
    BY BusesAssumption
  <2> QED BY <2>1, <2>2 DEF TypeOK
<1>2. /\ pc \in WithDev <=> FALSE
      /\ pc \notin InDvb \cup InService
  BY DEF WithDev, WithDevice, WithBar0, WithMap0, WithBar2, WithMap2, WithIrq, WithCgu, WithMsixTable,
         WithEventTable, WithI2cMem, WithDvbMem, InDvb, Undoing, InService, InLoop
<1>3. HeldInv /\ Bar2Inv
  BY DEF HeldInv, Bar2Inv, WithDev, WithDevice, WithBar0, WithMap0, WithBar2, WithMap2, WithIrq, WithCgu,
         WithMsixTable, WithEventTable, WithI2cMem, WithDvbMem, InDvb, Undoing, InService, InLoop
<1>4. ServedInv
  BY <1>2 DEF ServedInv
<1>5. BusInv
  BY DEF BusInv, WithDvbMem, InDvb, Undoing, InService, InLoop
<1>6. PartsInv
  BY <1>2 DEF PartsInv, InDvb, Undoing, InService, InLoop
<1>7. ReachInv
  BY <1>2 DEF ReachInv
<1> QED BY <1>1, <1>3, <1>4, <1>5, <1>6, <1>7 DEF IInv, NoBug, FaultWindows

LEMMA ThreadInv ==
  ASSUME IInv, fault = "none", Thread PROVE IInv'
<1>1. TypeOK'
  BY ThreadType DEF IInv
<1>2. NoBug'
  BY NoBugInductive DEF IInv
<1>3. HeldInv' /\ Bar2Inv' /\ ServedInv' /\ BusInv'
  BY HeldInductive, Bar2Inductive, ServedInductive, BusInductive DEF IInv
<1>4. PartsInv'
  BY PartsInductive DEF IInv
<1>5. ReachInv'
  BY ReachThread DEF IInv
<1>6. FaultWindows'
  BY FaultStep DEF IInv
<1> QED BY <1>1, <1>2, <1>3, <1>4, <1>5, <1>6 DEF IInv

LEMMA AroundInv ==
  ASSUME IInv, fault = "none", Around PROVE IInv'
<1>1. UNCHANGED <<pc, n, held, buses, parts, events, bound, bug>>
  BY AroundOnly
<1>2. TypeOK'
  BY AroundType DEF IInv
<1>3. NoBug' /\ HeldInv' /\ Bar2Inv' /\ ServedInv' /\ BusInv' /\ PartsInv'
  BY <1>1 DEF IInv, NoBug, HeldInv, Bar2Inv, ServedInv, BusInv, PartsInv
<1>4. ReachInv'
  BY ReachAround DEF IInv
<1>5. FaultWindows'
  BY FaultStep DEF IInv
<1> QED BY <1>2, <1>3, <1>4, <1>5 DEF IInv

LEMMA Invariance == Spec => []IInv
<1>1. IInv /\ [Next]_vars => IInv'
  <2> SUFFICES ASSUME IInv, [Next]_vars PROVE IInv'
    OBVIOUS
  <2>1. CASE Next
    <3>1. fault = "none" /\ (Thread \/ Around)
      BY <2>1 DEF Next, Thread, Around
    <3> QED BY <3>1, ThreadInv, AroundInv
  <2>2. CASE UNCHANGED vars
    BY <2>2 DEF vars, IInv, TypeOK, NoBug, HeldInv, Bar2Inv, ServedInv, BusInv, PartsInv, ReachInv,
                FaultWindows
  <2> QED BY <2>1, <2>2
<1> QED BY InitInv, <1>1, PTL DEF Spec

\* What is left after a failed probe or a remove.
LEMMA GivenBack == ASSUME ~RemapFails, IInv, pc \in {"failed", "removed"}
  PROVE  held \cap {"dev", "device", "bar0", "map0", "bar2", "map2", "irq"} = {}
<1>1. pc \notin WithDev
  BY DEF WithDev, WithDevice, WithBar0, WithMap0, WithBar2, WithMap2, WithIrq, WithCgu, WithMsixTable,
         WithEventTable, WithI2cMem, WithDvbMem, InDvb, Undoing, InService, InLoop
<1>2. /\ pc \notin WithDevice /\ pc \notin WithBar0 /\ pc \notin WithMap0 /\ pc \notin WithBar2
      /\ pc \notin WithMap2 /\ pc \notin WithIrq
  BY <1>1 DEF WithDev, WithDevice, WithBar0, WithMap0, WithBar2, WithMap2
<1> QED BY <1>1, <1>2 DEF IInv, HeldInv, Bar2Inv

-----------------------------------------------------------------------------
(* The theorems.                                                           *)

\* The thread, its counter and what is held stay in their types: among others, the
\* loops of saa7231_i2c_init and saa7231_dvb_init index no bus and no adapter that
\* the card does not have, and the interrupt no stream past the last adapter.
THEOREM LifecycleTypes == Spec => []TypeOK
BY Invariance, PTL DEF IInv

\* With any number of adapters and buses, whichever step of the probe fails and
\* whenever remove runs, no BUG_ON of the exit functions fires and nothing is
\* released that is not held.
THEOREM LifecycleNoBug == Spec => []NoBug
BY Invariance, PTL DEF IInv

\* Memory that is missing or freed is used in the listed windows of probe, unwinding
\* and remove and in no other, however many adapters there are.
THEOREM LifecycleFaultWindows == Spec => []FaultWindows
BY Invariance, PTL DEF IInv

\* If the mapping of BAR 2 does not fail, the device, its regions, mappings and
\* interrupt line are given back by every failed probe and by remove.
THEOREM LifecyclePciGivenBack == ~RemapFails => (Spec => []PciGivenBack)
<1> SUFFICES ASSUME ~RemapFails PROVE Spec => []PciGivenBack
  OBVIOUS
<1>1. IInv => PciGivenBack
  BY GivenBack DEF PciGivenBack
<1> QED BY Invariance, <1>1, PTL

\* And remove then leaves nothing but msix_entries: no bus, no part of an adapter, no
\* user's feed and no handler running.
THEOREM LifecycleRemovedClean == ~RemapFails => (Spec => []RemovedClean)
<1> SUFFICES ASSUME ~RemapFails PROVE Spec => []RemovedClean
  OBVIOUS
<1>1. IInv => RemovedClean
  <2> SUFFICES ASSUME IInv, pc = "removed" PROVE RemovedClean
    BY DEF RemovedClean
  <2>1. bound /\ pc \notin InService
    BY DEF IInv, ServedInv, InService, InLoop
  <2>2. held \subseteq {"entries"}
    <3>1. /\ held \cap Tables = {} /\ held \cap {"cgu", "files"} = {}
          /\ "dvb_mem" \notin held /\ "i2c_mem" \notin held
      BY <2>1 DEF IInv, ServedInv
    <3>2. held \cap {"dev", "device", "bar0", "map0", "bar2", "map2", "irq"} = {}
      BY GivenBack
    <3> QED BY <3>1, <3>2 DEF IInv, TypeOK, Resources, PciResources, Tables
  <2>3. buses = {}
    BY <2>1 DEF IInv, ServedInv
  <2>4. \A x \in Adapters : parts[x] = {}
    BY <2>1 DEF IInv, PartsInv
  <2>5. feeds = {}
    BY <2>4 DEF IInv, TypeOK, ReachInv
  <2>6. isr = NoAdapter
    BY <2>2 DEF IInv, ReachInv
  <2> QED BY <2>2, <2>3, <2>4, <2>5, <2>6 DEF RemovedClean
<1> QED BY Invariance, <1>1, PTL
==============================================================================
