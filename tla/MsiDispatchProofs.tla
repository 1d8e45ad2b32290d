------------------------- MODULE MsiDispatchProofs -------------------------
(***************************************************************************)
(* Proofs about MsiDispatch, for any number of vectors, banks and lines:   *)
(* its types, that no access violation is overlooked, and that every line  *)
(* keeps the promise of IrqLine.                                           *)
(***************************************************************************)
EXTENDS MsiDispatch, TLAPS

(***************************************************************************)
(* What the walk may rely on.  While the registers are read, the snapshot  *)
(* is of bits still set; a vector in it is one that something raises; and  *)
(* the access violation is in it only until the first vector found, so     *)
(* that a clear made for the access violation drops no served line.        *)
(***************************************************************************)
SnapshotInv ==
  /\ status \subseteq Lines \cup Noise \cup {Dcsn}
  /\ snap \subseteq Lines \cup Noise \cup {Dcsn}
  /\ isr = "read" => snap \subseteq status
  /\ isr = "scan" /\ Dcsn \in snap => pos = 0
  /\ isr \in {"test", "call", "oops"} => Dcsn \notin snap

DInv == TypeOK /\ SnapshotInv

LEMMA ConstantFacts ==
  /\ Width \in Nat \ {0} /\ Banks \in Nat \ {0}
  /\ Vectors \subseteq Nat
  /\ Lines \subseteq Vectors /\ Noise \subseteq Vectors /\ Dcsn \in Vectors
  /\ Dcsn \notin Lines /\ Dcsn \notin Noise
  /\ 0 \in Vectors
  /\ Watched \in Lines
BY SizeAssumption, VectorsAssumption, WatchedAssumption DEF Vectors

-----------------------------------------------------------------------------
(* Type correctness.                                                       *)

LEMMA InitType == Init => TypeOK
<1> SUFFICES ASSUME Init PROVE TypeOK
  OBVIOUS
<1>1. vector \in [Vectors -> Vectors] /\ handler \in [Vectors -> BOOLEAN]
  BY ConstantFacts DEF Init
<1>2. /\ raised \in [Lines -> Nat] /\ merged \in [Lines -> Nat]
      /\ served \in [Lines -> Nat] /\ lost \in [Lines -> Nat]
  BY DEF Init
<1>3. bank \in 0 .. Banks - 1 /\ pos \in Nat /\ who \in Lines
  BY ConstantFacts DEF Init, First
<1> QED
  BY <1>1, <1>2, <1>3 DEF Init, TypeOK, IsrSteps, AdminSteps

LEMMA ChipType == TypeOK /\ Chip => TypeOK'
<1> SUFFICES ASSUME TypeOK, Chip PROVE TypeOK'
  OBVIOUS
<1> USE ConstantFacts
<1>1. ASSUME NEW v \in Lines, RaiseLine(v) PROVE TypeOK'
  BY <1>1 DEF RaiseLine, TypeOK, event, walker, thread
<1>2. ASSUME NEW v \in Noise, RaiseNoise(v) PROVE TypeOK'
  BY <1>2 DEF RaiseNoise, TypeOK, event, walker, thread, history
<1>3. CASE RaiseViolation
  BY <1>3 DEF RaiseViolation, TypeOK, event, walker, thread, history
<1> QED
  BY <1>1, <1>2, <1>3 DEF Chip

LEMMA IsrType == TypeOK /\ (Invoke \/ Isr) => TypeOK'
<1> SUFFICES ASSUME TypeOK, Invoke \/ Isr PROVE TypeOK'
  OBVIOUS
<1> USE ConstantFacts
<1>1. CASE Invoke
  BY <1>1 DEF Invoke, TypeOK, IsrSteps, chip, event, thread, history
<1>2. CASE ReadStatus
  <2> DEFINE all == snap \cup (status \cap InBank(bank))
  <2>1. all \subseteq Vectors
    BY DEF TypeOK
  <2>2. /\ isr' \in IsrSteps /\ bank' \in 0 .. Banks - 1 /\ snap' \subseteq Vectors
        /\ pos' \in Nat /\ isr' \notin {"ack", "test", "call", "oops"}
    <3> HIDE DEF all
    <3> QED
      BY <1>2, <2>1 DEF ReadStatus, LastRegister, TypeOK, IsrSteps, all
  <2> QED
    BY <1>2, <2>2 DEF ReadStatus, TypeOK, chip, event, thread, history
<1>3. CASE Scan
  <2>1. PICK v \in First(Left) :
          /\ pos' = v
          /\ status' = status \ Cleared(v)
          /\ lost' = [u \in Lines |->
               IF u \in status \cap Cleared(v) /\ u < v THEN lost[u] + 1 ELSE lost[u]]
    BY <1>3 DEF Scan
  <2>2. v \in Vectors /\ v \in Nat
    BY <1>3, <2>1 DEF First, Left, TypeOK, Scan
  <2>3. lost' \in [Lines -> Nat]
    BY <2>1 DEF TypeOK
  <2> QED
    BY <1>3, <2>1, <2>2, <2>3 DEF Scan, TypeOK, IsrSteps, event, thread
<1>4. CASE Acknowledge
  BY <1>4 DEF Acknowledge, DropViolation, TypeOK, IsrSteps, event, thread, history
<1>5. CASE TestVector
  BY <1>5 DEF TestVector, TypeOK, IsrSteps, chip, event, thread
<1>6. CASE CallHandler
  BY <1>6 DEF CallHandler, TypeOK, IsrSteps, chip, event, thread
<1>7. CASE Return
  BY <1>7 DEF Return, TypeOK, IsrSteps, chip, event, thread, history
<1> QED
  BY <1>1, <1>2, <1>3, <1>4, <1>5, <1>6, <1>7 DEF Isr

LEMMA AdminType == TypeOK /\ (Register \/ Remove) => TypeOK'
<1> SUFFICES ASSUME TypeOK, Register \/ Remove PROVE TypeOK'
  OBVIOUS
<1> USE ConstantFacts DEF AdminStep
<1>1. who \in Vectors
  BY DEF TypeOK
<1>2. CASE EnableVector
  BY <1>1, <1>2 DEF EnableVector, Enabled, TypeOK, AdminSteps, event, walker, history
<1>3. CASE Publish \/ PublishRest \/ Unpublish \/ UnpublishRest
  <2>1. vector' \in [Vectors -> Vectors] /\ handler' \in [Vectors -> BOOLEAN]
    <3>1. vector \in [Vectors -> Vectors] /\ handler \in [Vectors -> BOOLEAN]
      BY DEF TypeOK
    <3>2. vector' \in {vector, [vector EXCEPT ![who] = who], [vector EXCEPT ![who] = 0]}
      BY <1>3 DEF Publish, PublishRest, Unpublish, UnpublishRest
    <3>3. handler' \in {handler, [handler EXCEPT ![who] = TRUE], [handler EXCEPT ![who] = FALSE]}
      BY <1>3 DEF Publish, PublishRest, Unpublish, UnpublishRest
    <3>4. vector' \in [Vectors -> Vectors]
      BY <1>1, <3>1, <3>2
    <3>5. handler' \in [Vectors -> BOOLEAN]
      BY <3>1, <3>3
    <3> QED
      BY <3>4, <3>5
  <2>2. /\ admin' \in AdminSteps
        /\ UNCHANGED <<status, ena, violation, walker, who, history>>
    BY <1>3 DEF Publish, PublishRest, Unpublish, UnpublishRest, AdminSteps
  <2> QED
    BY <2>1, <2>2 DEF TypeOK, walker, history
<1>4. CASE NextLine \/ Unload
  BY <1>4 DEF NextLine, Unload, After, First, TypeOK, AdminSteps, event, walker, history
<1>5. CASE DisableVector
  BY <1>5 DEF DisableVector, Disabled, After, First, TypeOK, AdminSteps, event, walker, history
<1> QED
  BY <1>2, <1>3, <1>4, <1>5 DEF Register, Remove

LEMMA NextType == TypeOK /\ [Next]_vars => TypeOK'
<1>1. TypeOK /\ UNCHANGED vars => TypeOK'
  BY DEF TypeOK, vars, chip, event, walker, thread, history
<1> QED
  BY <1>1, ChipType, IsrType, AdminType DEF Next

\* Every reachable state is well typed; in particular the walk indexes
\* event_handler[] only with vectors.
THEOREM TypeCorrect == Spec => []TypeOK
<1> QED
  BY InitType, NextType, PTL DEF Spec
-----------------------------------------------------------------------------
(* The snapshot.                                                           *)

LEMMA InitSnapshot == Init => SnapshotInv
BY ConstantFacts DEF Init, SnapshotInv

LEMMA NextSnapshot == TypeOK /\ SnapshotInv /\ [Next]_vars => SnapshotInv'
<1> SUFFICES ASSUME TypeOK, SnapshotInv, [Next]_vars PROVE SnapshotInv'
  OBVIOUS
<1> USE ConstantFacts DEF SnapshotInv
<1>1. CASE Chip
  BY <1>1 DEF Chip, RaiseLine, RaiseNoise, RaiseViolation, walker
<1>2. CASE Invoke
  BY <1>2 DEF Invoke, chip, event
<1>3. CASE ReadStatus
  BY <1>3 DEF ReadStatus, chip, event
<1>4. CASE Scan
  BY <1>4 DEF Scan
<1>5. CASE Acknowledge
  BY <1>5 DEF Acknowledge, DropViolation
<1>6. CASE TestVector
  BY <1>6 DEF TestVector, chip, event
<1>7. CASE CallHandler
  BY <1>7 DEF CallHandler, chip, event
<1>8. CASE Return
  BY <1>8 DEF Return, chip, event
<1>9. CASE Register \/ Remove
  BY <1>9
  DEF Register, EnableVector, Publish, PublishRest, NextLine, AdminStep,
      Remove, Unload, Unpublish, UnpublishRest, DisableVector, walker
<1>10. CASE UNCHANGED vars
  BY <1>10 DEF vars, chip, event, walker
<1> QED
  BY <1>1, <1>2, <1>3, <1>4, <1>5, <1>6, <1>7, <1>8, <1>9, <1>10 DEF Next, Isr

LEMMA InitSeen == Init => ViolationSeen
BY DEF Init, ViolationSeen

LEMMA NextSeen ==
  TypeOK /\ SnapshotInv /\ ViolationSeen /\ [Next]_vars => ViolationSeen'
<1> SUFFICES ASSUME TypeOK, SnapshotInv, ViolationSeen, [Next]_vars PROVE ViolationSeen'
  OBVIOUS
<1> USE ConstantFacts DEF ViolationSeen, Left
<1>1. CASE Chip
  BY <1>1 DEF Chip, RaiseLine, RaiseNoise, RaiseViolation, walker
<1>2. CASE Invoke
  BY <1>2 DEF Invoke, chip, event
<1>3. CASE ReadStatus
  BY <1>3 DEF ReadStatus, SnapshotInv, TypeOK, chip, event
<1>4. CASE Scan
  BY <1>4 DEF Scan, Cleared
<1>5. CASE Acknowledge
  BY <1>5 DEF Acknowledge
<1>6. CASE TestVector
  BY <1>6 DEF TestVector, SnapshotInv, chip, event
<1>7. CASE CallHandler
  BY <1>7 DEF CallHandler, SnapshotInv, chip, event
<1>8. CASE Return
  BY <1>8 DEF Return, chip, event
<1>9. CASE Register \/ Remove
  BY <1>9
  DEF Register, EnableVector, Publish, PublishRest, NextLine, AdminStep,
      Remove, Unload, Unpublish, UnpublishRest, DisableVector, walker
<1>10. CASE UNCHANGED vars
  BY <1>10 DEF vars, chip, event, walker
<1> QED
  BY <1>1, <1>2, <1>3, <1>4, <1>5, <1>6, <1>7, <1>8, <1>9, <1>10 DEF Next, Isr

\* A latched access violation always has its MSI bit set or is about to be
\* acknowledged: no clear made for another vector hides it.
THEOREM ViolationNeverHidden == Spec => []ViolationSeen
<1>1. Init => TypeOK /\ SnapshotInv /\ ViolationSeen
  BY InitType, InitSnapshot, InitSeen
<1>2. TypeOK /\ SnapshotInv /\ ViolationSeen /\ [Next]_vars
        => (TypeOK /\ SnapshotInv /\ ViolationSeen)'
  BY NextType, NextSnapshot, NextSeen
<1> QED
  BY <1>1, <1>2, PTL DEF Spec
-----------------------------------------------------------------------------
(* The watched line keeps the promise of an event line.                    *)

LEMMA InitLine == Init => Line!Init
<1> SUFFICES ASSUME Init PROVE Line!Init
  OBVIOUS
<1> USE ConstantFacts
<1>1. Pending(Watched) = FALSE
  BY DEF Init, Pending, Left
<1>2. Taken(Watched) = FALSE
  BY DEF Init, Taken
<1>3. vector[Watched] = 0 /\ Watched # 0
  BY VectorsAssumption DEF Init
<1>4. Attached(Watched) = FALSE
  BY <1>3 DEF Attached
<1>5. raised[Watched] = 0 /\ merged[Watched] = 0 /\ served[Watched] = 0 /\ lost[Watched] = 0
  BY DEF Init
<1> QED
  BY <1>1, <1>2, <1>4, <1>5 DEF Line!Init

\* A step that leaves the line's bits, the walk and its counts alone stutters.
LEMMA LineStutter ==
  ASSUME UNCHANGED <<Pending(Watched), Taken(Watched), Attached(Watched),
                     raised[Watched], merged[Watched], served[Watched], lost[Watched]>>
  PROVE  UNCHANGED Line!vars
BY DEF Line!vars

LEMMA ChipLine == DInv /\ Chip => [Line!Next]_(Line!vars)
<1> SUFFICES ASSUME DInv, Chip PROVE [Line!Next]_(Line!vars)
  OBVIOUS
<1> USE ConstantFacts DEF DInv, TypeOK
<1>1. UNCHANGED <<Left, Taken(Watched), Attached(Watched), served, lost>>
  <2>1. UNCHANGED <<isr, snap, pos, vector, served, lost>>
    BY DEF Chip, RaiseLine, RaiseNoise, RaiseViolation, walker, event, history
  <2>2. Left' = Left
    BY <2>1 DEF Left
  <2>3. Taken(Watched)' = Taken(Watched)
    BY <2>1 DEF Taken
  <2>4. Attached(Watched)' = Attached(Watched)
    BY <2>1 DEF Attached
  <2> QED
    BY <2>1, <2>2, <2>3, <2>4
<1>2. CASE RaiseLine(Watched)
  <2>1. raised'[Watched] = raised[Watched] + 1
    BY <1>2 DEF RaiseLine
  <2>2. Pending(Watched)' = TRUE
    BY <1>2 DEF RaiseLine, Pending
  <2>3. merged'[Watched] = IF Pending(Watched) THEN merged[Watched] + 1 ELSE merged[Watched]
    BY <1>2 DEF RaiseLine
  <2> QED
    BY <1>1, <2>1, <2>2, <2>3 DEF Line!Next, Line!Raise
<1>3. ASSUME NEW v \in Lines, v # Watched, RaiseLine(v) PROVE UNCHANGED Line!vars
  <2>1. raised'[Watched] = raised[Watched] /\ merged'[Watched] = merged[Watched]
    BY <1>3 DEF RaiseLine
  <2>2. Pending(Watched)' = Pending(Watched)
    BY <1>1, <1>3 DEF RaiseLine, Pending
  <2> QED
    BY <1>1, <2>1, <2>2, LineStutter
<1>4. ASSUME NEW v \in Noise \cup {Dcsn}, status' = status \cup {v}, UNCHANGED history
      PROVE  UNCHANGED Line!vars
  <2>1. v # Watched
    BY VectorsAssumption
  <2>2. Pending(Watched)' = Pending(Watched)
    BY <1>1, <1>4, <2>1 DEF Pending
  <2> QED
    BY <1>1, <1>4, <2>2, LineStutter DEF history
<1> QED
  BY <1>2, <1>3, <1>4 DEF Chip, RaiseNoise, RaiseViolation

\* The one step where the dispatcher's repeated clear can drop an event.
LEMMA ScanLine == DInv /\ Scan => [Line!Next]_(Line!vars)
<1> SUFFICES ASSUME DInv, Scan PROVE [Line!Next]_(Line!vars)
  OBVIOUS
<1> USE ConstantFacts DEF DInv, TypeOK
<1>1. PICK v \in First(Left) :
        /\ pos' = v
        /\ status' = status \ Cleared(v)
        /\ lost' = [u \in Lines |->
             IF u \in status \cap Cleared(v) /\ u < v THEN lost[u] + 1 ELSE lost[u]]
  BY DEF Scan
<1>2. /\ isr = "scan" /\ isr' \in {"ack", "test"} /\ snap' = snap
      /\ UNCHANGED <<Attached(Watched), raised, merged, served>>
  BY DEF Scan, Attached, event
<1>3. /\ v \in snap /\ v >= pos /\ v \in Nat /\ pos \in Nat /\ Watched \in Nat
      /\ \A u \in snap : u >= pos => v <= u
  BY <1>1, <1>2 DEF First, Left
<1>4. /\ Pending(Watched) <=> Watched \in status \/ (Watched \in snap /\ Watched >= pos)
      /\ Pending(Watched)' <=>
           (Watched \in status /\ Watched \notin Cleared(v)) \/ (Watched \in snap /\ Watched > v)
      /\ Taken(Watched) = FALSE
      /\ Taken(Watched)' <=> v = Watched
  BY <1>1, <1>2 DEF Pending, Left, Taken
<1>5. Cleared(v) \subseteq snap
  BY DEF Cleared
<1>6. lost'[Watched] = IF Watched \in status \cap Cleared(v) /\ Watched < v
                       THEN lost[Watched] + 1 ELSE lost[Watched]
  BY <1>1
<1>7. CASE v = Watched
  <2>1. v \in Cleared(v)
    BY <1>3 DEF Cleared, InBank
  <2>2. Pending(Watched) /\ ~Pending(Watched)' /\ Taken(Watched)' /\ lost'[Watched] = lost[Watched]
    BY <1>3, <1>4, <1>6, <1>7, <2>1
  <2>3. Pending(Watched)' = FALSE /\ Taken(Watched)' = TRUE
    BY <2>2 DEF Pending, Taken
  <2> QED
    BY <1>2, <1>4, <2>2, <2>3 DEF Line!Next, Line!Take
<1>8. CASE v # Watched /\ Watched \in status \cap Cleared(v) /\ Watched < v
  <2>1. Watched \in snap /\ ~(Watched >= pos)
    BY <1>3, <1>5, <1>8
  <2>2. v # Dcsn
    BY <1>2, <1>3, <2>1 DEF SnapshotInv
  <2>3. MayLose(Watched)
    <3>1. v \in (Lines \cup Noise) \ {Watched} /\ v > Watched
      BY <1>3, <1>8, <2>2 DEF SnapshotInv
    <3>2. BankOf(v) = BankOf(Watched)
      BY <1>8 DEF Cleared, InBank
    <3> QED
      BY <3>1, <3>2 DEF MayLose
  <2>4. Pending(Watched) /\ ~Pending(Watched)' /\ lost'[Watched] = lost[Watched] + 1
    BY <1>3, <1>4, <1>6, <1>8
  <2>5. Taken(Watched)' = Taken(Watched) /\ Pending(Watched)' = FALSE
    BY <1>4, <1>8, <2>4 DEF Taken, Pending
  <2> QED
    BY <1>2, <2>3, <2>4, <2>5 DEF Line!Next, Line!Wipe
<1>9. CASE v # Watched /\ ~(Watched \in status \cap Cleared(v) /\ Watched < v)
  <2>1. lost'[Watched] = lost[Watched]
    BY <1>6, <1>9
  <2>2. Pending(Watched)' <=> Pending(Watched)
    BY <1>3, <1>4, <1>5, <1>9
  <2>3. Pending(Watched)' = Pending(Watched) /\ Taken(Watched)' = Taken(Watched)
    BY <1>4, <1>9, <2>2 DEF Pending, Taken
  <2> QED
    BY <1>2, <2>1, <2>3, LineStutter
<1> QED
  BY <1>7, <1>8, <1>9

LEMMA WalkLine ==
  DInv /\ (Invoke \/ ReadStatus \/ Acknowledge \/ Return) => UNCHANGED Line!vars
<1> SUFFICES ASSUME DInv, Invoke \/ ReadStatus \/ Acknowledge \/ Return PROVE UNCHANGED Line!vars
  OBVIOUS
<1> USE ConstantFacts DEF DInv, TypeOK, SnapshotInv
<1>1. UNCHANGED <<status, Attached(Watched), raised, merged, served, lost>>
  BY DEF Invoke, ReadStatus, Acknowledge, Return, chip, event, history, Attached
<1>2. CASE Invoke
  <2>1. Pending(Watched)' = Pending(Watched) /\ Taken(Watched)' = Taken(Watched)
    BY <1>1, <1>2 DEF Invoke, Pending, Taken, Left
  <2> QED
    BY <1>1, <2>1, LineStutter
<1>3. CASE ReadStatus
  <2>1. snap \subseteq status /\ isr = "read"
    BY <1>3 DEF ReadStatus
  <2>2. /\ isr' \in {"read", "scan", "idle"} /\ snap' \subseteq status
        /\ Taken(Watched)' = Taken(Watched)
    BY <1>3, <2>1 DEF ReadStatus, Taken
  <2>3. Left \subseteq status /\ Left' \subseteq status
    BY <2>1, <2>2 DEF Left
  <2>4. Pending(Watched)' = Pending(Watched)
    BY <1>1, <2>3 DEF Pending
  <2> QED
    BY <1>1, <2>2, <2>4, LineStutter
<1>4. CASE Acknowledge
  <2>1. Watched \in Left' <=> Watched \in Left
    BY <1>4 DEF Acknowledge, DropViolation, Left
  <2>2. Pending(Watched)' = Pending(Watched) /\ Taken(Watched)' = Taken(Watched)
    BY <1>1, <1>4, <2>1 DEF Acknowledge, Pending, Taken
  <2> QED
    BY <1>1, <2>2, LineStutter
<1>5. CASE Return
  <2>1. Pending(Watched)' = Pending(Watched) /\ Taken(Watched)' = Taken(Watched)
    BY <1>1, <1>5 DEF Return, Pending, Taken, Left
  <2> QED
    BY <1>1, <2>1, LineStutter
<1> QED
  BY <1>2, <1>3, <1>4, <1>5

LEMMA CallLine == DInv /\ (TestVector \/ CallHandler) => [Line!Next]_(Line!vars)
<1> SUFFICES ASSUME DInv, TestVector \/ CallHandler PROVE [Line!Next]_(Line!vars)
  OBVIOUS
<1> USE ConstantFacts DEF DInv, TypeOK
<1>1. UNCHANGED <<status, Attached(Watched), raised, merged>>
  BY DEF TestVector, CallHandler, chip, event, Attached
<1>2. Watched \in Left' <=> Watched \in Left
  BY DEF TestVector, CallHandler, Left
<1>3. Pending(Watched)' = Pending(Watched)
  BY <1>1, <1>2 DEF Pending
<1>4. CASE TestVector /\ pos = Watched /\ ~Attached(Watched)
  <2>1. lost'[Watched] = lost[Watched] + 1 /\ served' = served /\ isr' = "scan" /\ isr = "test"
    BY <1>4 DEF TestVector
  <2>2. Taken(Watched) = TRUE /\ Taken(Watched)' = FALSE
    BY <1>4, <2>1 DEF Taken
  <2>3. Attached(Watched) = FALSE
    BY <1>4 DEF Attached
  <2> QED
    BY <1>1, <1>3, <2>1, <2>2, <2>3 DEF Line!Next, Line!Ignore
<1>5. CASE TestVector /\ ~(pos = Watched /\ ~Attached(Watched))
  <2>1. lost'[Watched] = lost[Watched] /\ served' = served
    BY <1>5 DEF TestVector
  <2>2. Taken(Watched)' = Taken(Watched)
    BY <1>5 DEF TestVector, Taken
  <2> QED
    BY <1>1, <1>3, <2>1, <2>2, LineStutter
<1>6. CASE CallHandler /\ pos = Watched /\ handler[pos]
  <2>1. served'[Watched] = served[Watched] + 1 /\ lost' = lost /\ isr' = "scan" /\ isr = "call"
    BY <1>6 DEF CallHandler
  <2>2. Taken(Watched) = TRUE /\ Taken(Watched)' = FALSE
    BY <1>6, <2>1 DEF Taken
  <2> QED
    BY <1>1, <1>3, <2>1, <2>2 DEF Line!Next, Line!Serve
<1>7. CASE CallHandler /\ ~(pos = Watched /\ handler[pos])
  <2>1. lost' = lost /\ served'[Watched] = served[Watched]
    BY <1>7 DEF CallHandler
  <2>2. Taken(Watched)' = Taken(Watched)
    BY <1>7 DEF CallHandler, Taken
  <2> QED
    BY <1>1, <1>3, <2>1, <2>2, LineStutter
<1> QED
  BY <1>4, <1>5, <1>6, <1>7

LEMMA AdminLine == DInv /\ (Register \/ Remove) => [Line!Next]_(Line!vars)
<1> SUFFICES ASSUME DInv, Register \/ Remove PROVE [Line!Next]_(Line!vars)
  OBVIOUS
<1>1. UNCHANGED <<status, walker, history>>
  BY DEF Register, EnableVector, Publish, PublishRest, NextLine, AdminStep,
         Remove, Unload, Unpublish, UnpublishRest, DisableVector
<1>2. UNCHANGED <<Pending(Watched), Taken(Watched), raised, merged, served, lost>>
  BY <1>1 DEF walker, history, Pending, Taken, Left
<1>3. CASE Attached(Watched)' = Attached(Watched)
  BY <1>2, <1>3, LineStutter
<1>4. CASE Attached(Watched)' # Attached(Watched)
  <2>1. Attached(Watched)' = ~Attached(Watched)
    BY <1>4 DEF Attached
  <2> QED
    BY <1>2, <2>1 DEF Line!Next, Line!Attach
<1> QED
  BY <1>3, <1>4

LEMMA StepLine == DInv /\ [Next]_vars => [Line!Next]_(Line!vars)
<1>1. UNCHANGED vars => UNCHANGED Line!vars
  <2> SUFFICES ASSUME UNCHANGED vars PROVE UNCHANGED Line!vars
    OBVIOUS
  <2>1. UNCHANGED <<Pending(Watched), Taken(Watched), Attached(Watched), history>>
    BY DEF vars, chip, event, walker, Pending, Taken, Attached, Left
  <2> QED
    BY <2>1, LineStutter DEF history
<1> QED
  BY <1>1, ChipLine, ScanLine, WalkLine, CallLine, AdminLine DEF Next, Isr

\* The dispatcher keeps the promise of an event line for every line: an event is
\* served at most once and only if raised, and is dropped without a call only
\* when it finds no handler or when a higher vector of its register is set.
THEOREM EveryLineKept == Spec => LineKept
<1>1. Init => DInv /\ Line!Init
  BY InitType, InitSnapshot, InitLine DEF DInv
<1>2. DInv /\ [Next]_vars => DInv'
  BY NextType, NextSnapshot DEF DInv
<1>3. DInv /\ [Next]_vars => [Line!Next]_(Line!vars)
  BY StepLine
<1> QED
  BY <1>1, <1>2, <1>3, PTL DEF Spec, LineKept, Line!Spec

\* Every event is accounted for: it was merged with one still waiting, ran the handler,
\* was dropped, waits for the walk, or is the one the walk has just found.
EventsAccounted ==
  raised[Watched] = merged[Watched] + served[Watched] + lost[Watched]
                      + (IF Pending(Watched) THEN 1 ELSE 0) + (IF Taken(Watched) THEN 1 ELSE 0)

LEMMA LineAccounted ==
  ASSUME DInv, DInv', EventsAccounted, [Line!Next]_(Line!vars)
  PROVE  EventsAccounted'
<1> DEFINE r == raised[Watched]
           m == merged[Watched]
           s == served[Watched]
           x == lost[Watched]
           p == IF Pending(Watched) THEN 1 ELSE 0
           t == IF Taken(Watched) THEN 1 ELSE 0
<1>1. /\ r \in Nat /\ m \in Nat /\ s \in Nat /\ x \in Nat
      /\ p \in Nat /\ t \in Nat
  BY ConstantFacts DEF DInv, TypeOK
<1>2. r = m + s + x + p + t
  BY DEF EventsAccounted
<1>3. Pending(Watched) \in BOOLEAN /\ Taken(Watched) \in BOOLEAN
  BY DEF Pending, Taken
<1>4. \/ r' = r + 1 /\ p' = 1 /\ m' = m + p /\ t' = t /\ s' = s /\ x' = x
      \/ p = 1 /\ p' = 0 /\ t = 0 /\ t' = 1 /\ r' = r /\ m' = m /\ s' = s /\ x' = x
      \/ t = 1 /\ t' = 0 /\ s' = s + 1 /\ p' = p /\ r' = r /\ m' = m /\ x' = x
      \/ t = 1 /\ t' = 0 /\ x' = x + 1 /\ p' = p /\ r' = r /\ m' = m /\ s' = s
      \/ p = 1 /\ p' = 0 /\ x' = x + 1 /\ t' = t /\ r' = r /\ m' = m /\ s' = s
      \/ p' = p /\ t' = t /\ r' = r /\ m' = m /\ s' = s /\ x' = x
  <2>1. CASE Line!Raise
    BY <1>1, <1>3, <2>1 DEF Line!Raise
  <2>2. CASE Line!Take
    BY <1>1, <1>3, <2>2 DEF Line!Take
  <2>3. CASE Line!Serve
    BY <1>1, <1>3, <2>3 DEF Line!Serve
  <2>4. CASE Line!Ignore
    BY <1>1, <1>3, <2>4 DEF Line!Ignore
  <2>5. CASE Line!Wipe
    BY <1>1, <1>3, <2>5 DEF Line!Wipe
  <2>6. CASE Line!Attach \/ UNCHANGED Line!vars
    BY <1>1, <1>3, <2>6 DEF Line!Attach, Line!vars
  <2> QED
    BY <2>1, <2>2, <2>3, <2>4, <2>5, <2>6 DEF Line!Next
<1> HIDE DEF r, m, s, x, p, t
<1>5. r' = m' + s' + x' + p' + t'
  BY <1>1, <1>2, <1>4
<1> QED
  BY <1>5 DEF EventsAccounted, r, m, s, x, p, t

\* No event of a line is forgotten or counted twice, however the walk, the repeated
\* clears and the registration interleave (saa7231_irq_handler).
THEOREM EveryEventAccounted == Spec => []EventsAccounted
<1>1. Init => DInv /\ EventsAccounted
  <2> SUFFICES ASSUME Init PROVE EventsAccounted
    BY InitType, InitSnapshot DEF DInv
  <2>1. /\ ~Pending(Watched) /\ ~Taken(Watched)
        /\ raised[Watched] = 0 /\ merged[Watched] = 0 /\ served[Watched] = 0 /\ lost[Watched] = 0
    BY InitLine DEF Line!Init
  <2> QED
    BY <2>1 DEF EventsAccounted
<1>2. DInv /\ [Next]_vars => DInv'
  BY NextType, NextSnapshot DEF DInv
<1>3. DInv /\ EventsAccounted /\ [Next]_vars => EventsAccounted'
  BY <1>2, StepLine, LineAccounted
<1> QED
  BY <1>1, <1>2, <1>3, PTL DEF Spec
-----------------------------------------------------------------------------
(* Once the lines are removed.                                             *)

\* Only lines are enabled, and while they are removed in turn, none below the
\* one in hand is still enabled; a disabling write takes the rest of its bank along.
EnabledInv ==
  /\ ena \subseteq Lines
  /\ admin \in {"first", "clear", "disable"} => \A u \in ena : who <= u
  /\ admin = "gone" => ena = {}

LEMMA NextEnabled == TypeOK /\ EnabledInv /\ [Next]_vars => EnabledInv'
<1> SUFFICES ASSUME TypeOK, EnabledInv, [Next]_vars PROVE EnabledInv'
  OBVIOUS
<1> USE ConstantFacts DEF EnabledInv, AdminStep
<1>1. who \in Lines /\ \A u \in Lines : u \in Nat
  BY DEF TypeOK
<1>2. CASE UNCHANGED <<ena, thread>>
  BY <1>2 DEF thread
<1>3. CASE Register
  BY <1>1, <1>3 DEF Register, EnableVector, Enabled, Publish, PublishRest, NextLine
<1>4. CASE Unload
  <2>1. who' \in First(Lines) /\ ena' = ena /\ admin' = "first"
    BY <1>4 DEF Unload
  <2>2. \A u \in Lines : who' <= u
    BY <2>1 DEF First
  <2> QED BY <2>1, <2>2
<1>5. CASE Unpublish \/ UnpublishRest
  BY <1>5 DEF Unpublish, UnpublishRest
<1>6. CASE DisableVector
  <2>1. \A u \in ena' : u \in Lines /\ u \in After(who)
    <3>1. who \in InBank(BankOf(who))
      BY <1>1 DEF InBank
    <3>2. \A u \in ena' : u \in ena /\ u # who
      BY <1>6, <3>1 DEF DisableVector, Disabled
    <3>3. \A u \in ena : who <= u
      BY <1>6 DEF DisableVector
    <3>4. ASSUME NEW u \in ena' PROVE u \in Lines /\ u > who
      <4>1. u \in Lines /\ u # who /\ who <= u
        BY <3>2, <3>3
      <4>2. u \in Nat /\ who \in Nat
        BY <1>1, <4>1
      <4> QED BY <4>1, <4>2
    <3> QED BY <3>4 DEF After
  <2>2. CASE admin' = "first" /\ who' \in First(After(who))
    BY <2>1, <2>2 DEF First
  <2>3. CASE admin' = "gone" /\ After(who) = {}
    BY <2>1, <2>3
  <2> QED BY <1>6, <2>2, <2>3 DEF DisableVector
<1>7. \/ UNCHANGED <<ena, thread>> \/ Register \/ Unload \/ Unpublish \/ UnpublishRest \/ DisableVector
  BY DEF Next, Chip, RaiseLine, RaiseNoise, RaiseViolation, Invoke, Isr, ReadStatus, Scan, Acknowledge,
         TestVector, CallHandler, Return, Remove, chip, vars
<1> QED
  BY <1>2, <1>3, <1>4, <1>5, <1>6, <1>7

\* Once dvb_exit has removed every line, however the lines share the banks and
\* whatever else shares them, the card does not assert the interrupt line again.
THEOREM QuietAfterUnload == Spec => []QuietWhenGone
<1>1. Init => TypeOK /\ EnabledInv
  BY InitType DEF Init, EnabledInv
<1>2. TypeOK /\ EnabledInv /\ [Next]_vars => (TypeOK /\ EnabledInv)'
  BY NextType, NextEnabled
<1>3. EnabledInv => QuietWhenGone
  BY DEF EnabledInv, QuietWhenGone, Asserted
<1> QED
  BY <1>1, <1>2, <1>3, PTL DEF Spec
=============================================================================
