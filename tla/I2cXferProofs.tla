--------------------------- MODULE I2cXferProofs ---------------------------
(***************************************************************************)
(* Proofs about I2cXfer, for any number of threads, any transfers, any     *)
(* depth of the FIFO and any number of refused bytes.                      *)
(*                                                                         *)
(* The invariant has four parts: who holds i2c_lock; how full the FIFO may *)
(* be at a push; what the FIFOs hold when no failed transfer has left      *)
(* anything in them; and how far the transfer has come when nothing at all *)
(* has marred it.                                                          *)
(***************************************************************************)
EXTENDS I2cXfer, TLAPS

Active == {"send", "busy", "push", "empty", "recv", "unlock"}

LockInv ==
  /\ \A c \in Clients : pc[c] \in Active \cup {"oops"} <=> owner = c
  /\ \A c \in Clients : owner = c => num[c] = current
  /\ \A c \in Clients : pc[c] # "idle" => bytes[c] \in Transfers
  /\ \A c \in Clients : pc[c] \in Active => k[c] \in 1 .. Len(bytes[c])
  /\ \A c \in Clients : err[c] = "error" => pc[c] = "unlock" /\ "leftover" \in marred

FillInv ==
  \A c \in Clients :
    /\ pc[c] = "push" => Len(tx) < TxDepth
    /\ pc[c] = "busy" /\ polls[c] > 0 => tx = <<>>

ShiftPlain == shift # <<>> => ~shift[1].read
Quiet == tx = <<>> /\ rx = <<>> /\ ShiftPlain

\* Only the byte in hand is on its way.
Pending(c) ==
  /\ tx # <<>> => pc[c] = "empty" /\ tx = <<Token(c)>> /\ rx = <<>> /\ ShiftPlain
  /\ rx # <<>> => rx = <<Token(c)>> /\ Token(c).read /\ ShiftPlain
  /\ ShiftPlain \/ shift = <<Token(c)>>

WireInv ==
  /\ blocked => shift = <<>>
  /\ "leftover" \notin marred =>
       /\ (\A c \in Clients : pc[c] \notin {"empty", "recv"}) => Quiet
       /\ \A c \in Clients : pc[c] \in {"empty", "recv"} => Pending(c)
  /\ \A c \in Clients : pc[c] = "recv" => Token(c).read

OnBus == IF shift # <<>> /\ shift[1].num = current THEN 1 ELSE 0
Lost == IF blocked THEN 1 ELSE 0

\* The bytes of c's transfer that must have left TX_FIFO.
Gone(c) ==
  IF pc[c] \in {"send", "busy", "push"} \/ (pc[c] = "empty" /\ tx # <<>>) THEN k[c] - 1 ELSE k[c]

ReadBefore(c) ==
  IF pc[c] = "unlock" THEN Reads(c) ELSE {j \in Reads(c) : j < k[c]}

ExactInv ==
  marred = {} => \A c \in Clients : pc[c] \in Active =>
    /\ own
    /\ left = Gone(c)
    /\ acked + OnBus + Lost >= left
    /\ got = ReadBefore(c)
    /\ pc[c] = "unlock" => k[c] = Len(bytes[c])

IInv == TypeOK /\ LockInv /\ FillInv /\ WireInv /\ ExactInv

-----------------------------------------------------------------------------
(* Facts used throughout.                                                  *)

LEMMA InitInv == Init => IInv
<1> SUFFICES ASSUME Init PROVE IInv
  OBVIOUS
<1> USE DEF Init
<1>1. TypeOK
  <2>1. /\ tx \in Seq(Wire) /\ Len(tx) <= TxDepth
        /\ rx \in Seq(Wire)
        /\ shift \in Seq(Wire) /\ Len(shift) <= 1
    BY BoundsAssumption
  <2>2. /\ pc \in [Clients -> Labels] /\ bytes \in [Clients -> Transfers \cup {<<>>}]
        /\ num \in [Clients -> Nat] /\ device \in [Clients -> BOOLEAN]
        /\ k \in [Clients -> Nat \ {0}] /\ polls \in [Clients -> 0 .. BusyPolls]
        /\ err \in [Clients -> {"ok", "error"}]
    BY BoundsAssumption DEF Labels
  <2> QED BY <2>1, <2>2 DEF TypeOK
<1>2. LockInv
  BY ClientsAssumption DEF LockInv, Active
<1>3. FillInv /\ WireInv
  BY DEF FillInv, WireInv, Quiet, ShiftPlain
<1>4. ExactInv
  BY DEF ExactInv, Active
<1> QED BY <1>1, <1>2, <1>3, <1>4 DEF IInv

\* One thread at a time is inside a transfer.
LEMMA Alone ==
  ASSUME LockInv, NEW c \in Clients, pc[c] \in Active
  PROVE  /\ owner = c /\ num[c] = current
         /\ \A d \in Clients \ {c} : pc[d] \notin Active /\ pc[d] # "oops" /\ err[d] # "error"
BY DEF LockInv, Active

LEMMA TokenFacts ==
  ASSUME TypeOK, LockInv, NEW c \in Clients, pc[c] \in Active
  PROVE  /\ Token(c) \in Wire
         /\ Token(c).num = current /\ Token(c).k = k[c]
         /\ Token(c).read = bytes[c][k[c]].read
         /\ bytes[c] \in Seq(Byte) /\ Len(bytes[c]) \in Nat
         /\ k[c] \in Nat /\ k[c] > 0 /\ k[c] <= Len(bytes[c])
<1>1. bytes[c] \in Seq(Byte) /\ k[c] \in 1 .. Len(bytes[c])
  BY TransfersAssumption DEF LockInv, Active
<1>2. bytes[c][k[c]] \in Byte
  BY <1>1
<1>3. num[c] \in Nat /\ num[c] = current
  BY Alone DEF TypeOK
<1> QED BY <1>1, <1>2, <1>3 DEF Token, Wire, Byte

-----------------------------------------------------------------------------
(* Types.                                                                  *)

WireType ==
  /\ tx \in Seq(Wire) /\ Len(tx) <= TxDepth
  /\ rx \in Seq(Wire)
  /\ shift \in Seq(Wire) /\ Len(shift) <= 1
  /\ blocked \in BOOLEAN

MovedType == left \in Nat /\ acked \in Nat /\ got \subseteq Nat /\ own \in BOOLEAN /\ open \in BOOLEAN

LEMMA ControllerType ==
  ASSUME TypeOK, Controller PROVE TypeOK'
<1>1. CASE Shift
  <2>1. tx \in Seq(Wire) /\ tx # <<>> /\ shift' = <<Head(tx)>> /\ tx' = Tail(tx)
    BY <1>1 DEF Shift, TypeOK
  <2>2. Head(tx) \in Wire /\ Tail(tx) \in Seq(Wire) /\ Len(Tail(tx)) <= TxDepth
    BY <2>1, BoundsAssumption DEF TypeOK
  <2>3. left' \in Nat /\ own' \in BOOLEAN
    <3>1. CASE left' = left + 1 /\ UNCHANGED own
      BY <3>1 DEF TypeOK
    <3>2. CASE own' = FALSE /\ UNCHANGED left
      BY <3>2 DEF TypeOK
    <3> QED BY <1>1, <3>1, <3>2 DEF Shift
  <2> QED BY <1>1, <2>1, <2>2, <2>3 DEF Shift, TypeOK, thread, call
<1>2. CASE Complete
  <2>1. shift[1] \in Wire
    BY <1>2 DEF Complete, TypeOK
  <2>2. rx' \in Seq(Wire) /\ acked' \in Nat /\ open' \in BOOLEAN
    BY <1>2, <2>1 DEF Complete, TypeOK, Wire
  <2>3. shift' \in Seq(Wire) /\ Len(shift') <= 1
    BY <1>2 DEF Complete
  <2> QED BY <1>2, <2>2, <2>3 DEF Complete, TypeOK, thread, call
<1>3. CASE Refuse
  <2>1. shift' \in Seq(Wire) /\ Len(shift') <= 1
    BY <1>3 DEF Refuse
  <2> QED BY <1>3, <2>1 DEF Refuse, TypeOK, thread, call, moved
<1> QED BY <1>1, <1>2, <1>3 DEF Controller

LEMMA InitControllerType ==
  ASSUME TypeOK, Reinitialised \/ NotReinitialised \/ (NothingMoved /\ UNCHANGED <<hardware, open>>)
  PROVE  WireType' /\ MovedType'
<1>1. CASE Flushed
  <2>1. blocked' \in BOOLEAN
    BY DEF Reinitialised, NotReinitialised, hardware, TypeOK
  <2>2. tx' \in Seq(Wire) /\ rx' \in Seq(Wire) /\ shift' \in Seq(Wire)
        /\ Len(tx') <= TxDepth /\ Len(shift') <= 1
    BY <1>1, BoundsAssumption DEF Flushed
  <2>3. MovedType'
    <3>1. left' = 0 /\ acked' = 0 /\ got' = {} /\ own' = TRUE /\ open' = FALSE
      BY <1>1 DEF Flushed, NothingMoved
    <3> QED BY <3>1 DEF MovedType
  <2> QED BY <2>1, <2>2, <2>3 DEF WireType
<1>2. CASE UNCHANGED <<hardware, moved, open>>
  BY <1>2 DEF hardware, moved, TypeOK, WireType, MovedType
<1>3. CASE NothingMoved /\ UNCHANGED <<hardware, open>>
  BY <1>3 DEF hardware, NothingMoved, TypeOK, WireType, MovedType
<1> QED BY <1>1, <1>2, <1>3 DEF Reinitialised, NotReinitialised

LEMMA AdapterType ==
  ASSUME TypeOK, Adapter PROVE TypeOK'
<1>1. CASE AddAdapter \/ SetDevice
  BY <1>1 DEF AddAdapter, SetDevice, TypeOK, thread, call, hardware, history, moved
<1>2. CASE InitController
  <2>1. WireType' /\ MovedType'
    BY <1>2, InitControllerType DEF InitController
  <2>2. marred' \subseteq {"leftover", "reinit"} /\ adapter' = "ready"
    BY <1>2 DEF InitController, TypeOK
  <2> QED BY <1>2, <2>1, <2>2 DEF InitController, WireType, MovedType, TypeOK, thread, call
<1> QED BY <1>1, <1>2 DEF Adapter

LEMMA CallType ==
  ASSUME TypeOK, NEW c \in Clients, Call(c) PROVE TypeOK'
<1>1. calls' \in Nat /\ num' \in [Clients -> Nat]
  BY DEF Call, TypeOK
<1>2. bytes' \in [Clients -> Transfers \cup {<<>>}]
  BY DEF Call, TypeOK
<1>3. device' \in [Clients -> BOOLEAN]
  <2>1. (adapter # "added") \in BOOLEAN
    OBVIOUS
  <2> QED BY <2>1 DEF Call, TypeOK
<1>4. pc' \in [Clients -> Labels]
  BY DEF Call, TypeOK, Labels
<1> QED BY <1>1, <1>2, <1>3, <1>4 DEF Call, TypeOK, hardware, moved

LEMMA LockType ==
  ASSUME TypeOK, NEW c \in Clients, Lock(c) PROVE TypeOK'
<1>1. WireType' /\ MovedType'
  BY InitControllerType DEF Lock
<1>2. pc' \in [Clients -> Labels] /\ k' \in [Clients -> Nat \ {0}]
      /\ err' \in [Clients -> {"ok", "error"}]
  BY DEF Lock, TypeOK, Labels
<1>3. marred' \subseteq {"leftover", "reinit"} /\ current' \in Nat /\ owner' \in Clients
  BY DEF Lock, TypeOK
<1> QED BY <1>1, <1>2, <1>3 DEF Lock, WireType, MovedType, TypeOK, call

LEMMA SendType ==
  ASSUME TypeOK, NEW c \in Clients, Send(c) \/ GiveUp(c) PROVE TypeOK'
<1>1. pc' \in [Clients -> Labels]
  BY DEF Send, GiveUp, Goto, TypeOK, Labels
<1>2. polls' \in [Clients -> 0 .. BusyPolls]
  <2>1. 0 \in 0 .. BusyPolls
    BY BoundsAssumption
  <2>2. CASE Send(c)
    BY <2>1, <2>2 DEF Send, TypeOK
  <2>3. CASE GiveUp(c)
    BY <2>3 DEF GiveUp, TypeOK
  <2> QED BY <2>2, <2>3
<1> QED BY <1>1, <1>2 DEF Send, GiveUp, TypeOK, call, hardware, history, moved

LEMMA FailType ==
  ASSUME TypeOK, NEW c \in Clients, Fail(c)
  PROVE  /\ pc' \in [Clients -> Labels] /\ err' \in [Clients -> {"ok", "error"}]
         /\ marred' \subseteq {"leftover", "reinit"}
BY DEF Fail, Goto, TypeOK, Labels

LEMMA BusyPollType ==
  ASSUME TypeOK, NEW c \in Clients, BusyPoll(c) PROVE TypeOK'
<1>1. /\ pc' \in [Clients -> Labels] /\ err' \in [Clients -> {"ok", "error"}]
      /\ marred' \subseteq {"leftover", "reinit"}
      /\ polls' \in [Clients -> 0 .. BusyPolls]
      /\ WireType' /\ MovedType'
  <2>1. CASE Goto(c, "push") /\ UNCHANGED <<polls, err, hardware, moved, marred, open>>
    BY <2>1 DEF Goto, TypeOK, Labels, hardware, moved, WireType, MovedType
  <2>2. CASE /\ Reinitialised
             /\ polls' = [polls EXCEPT ![c] = @ + 1]
             /\ marred' = (marred \ {"leftover"}) \cup (IF k[c] > 1 THEN {"reinit"} ELSE {})
             /\ UNCHANGED <<pc, err>>
    <3>1. polls[c] + 1 \in 0 .. BusyPolls
      BY BoundsAssumption DEF BusyPoll, GivesUp, TypeOK
    <3> QED BY <2>2, <3>1, InitControllerType DEF TypeOK
  <2>3. CASE NotReinitialised /\ Fail(c) /\ UNCHANGED polls
    BY <2>3, InitControllerType, FailType DEF TypeOK
  <2> QED BY <2>1, <2>2, <2>3 DEF BusyPoll
<1> QED BY <1>1 DEF BusyPoll, TypeOK, WireType, MovedType, call

LEMMA PushType ==
  ASSUME TypeOK, LockInv, FillInv, NEW c \in Clients, Push(c) PROVE TypeOK'
<1>1. pc[c] \in Active /\ Len(tx) < TxDepth
  BY DEF Push, FillInv, Active
<1>2. tx' \in Seq(Wire) /\ Len(tx') <= TxDepth
  BY <1>1, TokenFacts, BoundsAssumption DEF Push, TypeOK
<1>3. pc' \in [Clients -> Labels]
  BY DEF Push, Goto, TypeOK, Labels
<1> QED BY <1>2, <1>3 DEF Push, TypeOK, call, history, moved

LEMMA AdvanceType ==
  ASSUME TypeOK, NEW c \in Clients, Advance(c)
  PROVE  pc' \in [Clients -> Labels] /\ k' \in [Clients -> Nat \ {0}]
<1>1. CASE k' = [k EXCEPT ![c] = @ + 1] /\ Goto(c, "send")
  <2>1. k[c] + 1 \in Nat \ {0}
    BY DEF TypeOK
  <2> QED BY <1>1, <2>1 DEF Goto, TypeOK, Labels
<1>2. CASE Goto(c, "unlock") /\ UNCHANGED k
  BY <1>2 DEF Goto, TypeOK, Labels
<1> QED BY <1>1, <1>2 DEF Advance

LEMMA PollEmptyType ==
  ASSUME TypeOK, NEW c \in Clients, PollEmpty(c) PROVE TypeOK'
<1>1. /\ pc' \in [Clients -> Labels] /\ k' \in [Clients -> Nat \ {0}]
      /\ err' \in [Clients -> {"ok", "error"}]
      /\ marred' \subseteq {"leftover", "reinit"}
  <2>1. CASE tx = <<>>
    <3>1. UNCHANGED <<err, marred>>
      BY <2>1 DEF PollEmpty
    <3>2. CASE Goto(c, "recv") /\ UNCHANGED k
      BY <3>1, <3>2 DEF Goto, TypeOK, Labels
    <3>3. CASE Advance(c)
      BY <3>1, <3>3, AdvanceType DEF TypeOK
    <3> QED BY <2>1, <3>2, <3>3 DEF PollEmpty
  <2>2. CASE tx # <<>>
    BY <2>2, FailType DEF PollEmpty, TypeOK
  <2> QED BY <2>1, <2>2
<1> QED BY <1>1 DEF PollEmpty, TypeOK, call, hardware, moved

LEMMA RecvType ==
  ASSUME TypeOK, LockInv, NEW c \in Clients, Recv(c) PROVE TypeOK'
<1>1. CASE ~RxBusy
  <2>1. rx # <<>> /\ rx' = Tail(rx) /\ Advance(c) /\ UNCHANGED <<err, marred>>
    BY <1>1 DEF Recv, RxBusy
  <2>2. rx' \in Seq(Wire)
    BY <2>1 DEF TypeOK
  <2>3. got' \subseteq Nat /\ own' \in BOOLEAN
    <3>1. CASE got' = got \cup {k[c]} /\ UNCHANGED own
      BY <3>1 DEF TypeOK
    <3>2. CASE own' = FALSE /\ UNCHANGED got
      BY <3>2 DEF TypeOK
    <3> QED BY <1>1, <3>1, <3>2 DEF Recv
  <2> QED BY <2>1, <2>2, <2>3, AdvanceType DEF Recv, TypeOK, call
<1>2. CASE RxBusy
  <2>1. Fail(c) /\ UNCHANGED <<k, rx, got, own>>
    BY <1>2 DEF Recv
  <2> QED BY <2>1, FailType DEF Recv, TypeOK, call
<1> QED BY <1>1, <1>2

LEMMA UnlockType ==
  ASSUME TypeOK, NEW c \in Clients, Unlock(c) PROVE TypeOK'
<1>1. pc' \in [Clients -> Labels] /\ k' \in [Clients -> Nat \ {0}]
      /\ polls' \in [Clients -> 0 .. BusyPolls] /\ err' \in [Clients -> {"ok", "error"}]
  BY BoundsAssumption DEF Unlock, Goto, TypeOK, Labels
<1> QED BY <1>1 DEF Unlock, Released, TypeOK, call, hardware, history, moved

LEMMA TypeInductive ==
  ASSUME TypeOK, LockInv, FillInv, [Next]_vars PROVE TypeOK'
<1>1. ASSUME NEW c \in Clients, Call(c) \/ Run(c) PROVE TypeOK'
  BY <1>1, CallType, LockType, SendType, BusyPollType, PushType, PollEmptyType, RecvType, UnlockType
     DEF Run
<1>2. CASE UNCHANGED vars
  BY <1>2 DEF vars, TypeOK, thread, call, hardware, history, moved
<1> QED BY <1>1, <1>2, ControllerType, AdapterType DEF Next

-----------------------------------------------------------------------------
(* The lock.                                                               *)

\* A step of the thread that holds the lock, to another step inside the transfer.
Inside(c, label) ==
  /\ pc' = [pc EXCEPT ![c] = label]
  /\ UNCHANGED <<owner, call, current>>
  /\ \A d \in Clients \ {c} : k'[d] = k[d] /\ err'[d] = err[d]

LEMMA LockStep ==
  ASSUME TypeOK, LockInv, NEW c \in Clients, pc[c] \in Active,
         NEW label \in Active, Inside(c, label),
         k'[c] \in 1 .. Len(bytes[c]),
         err'[c] = "error" => label = "unlock" /\ "leftover" \in marred'
  PROVE  LockInv'
<1>1. pc' \in [Clients -> Labels] /\ pc'[c] = label /\ \A d \in Clients \ {c} : pc'[d] = pc[d]
  BY DEF Inside, TypeOK, Labels, Active
<1>2. owner = c /\ \A d \in Clients \ {c} : pc[d] \notin Active /\ pc[d] # "oops" /\ err[d] # "error"
  BY Alone
<1> SUFFICES ASSUME NEW d \in Clients
             PROVE  /\ pc'[d] \in Active \cup {"oops"} <=> owner' = d
                    /\ owner' = d => num'[d] = current'
                    /\ pc'[d] # "idle" => bytes'[d] \in Transfers
                    /\ pc'[d] \in Active => k'[d] \in 1 .. Len(bytes'[d])
                    /\ err'[d] = "error" => pc'[d] = "unlock" /\ "leftover" \in marred'
  BY DEF LockInv
<1>3. UNCHANGED <<owner, current, bytes, num>>
  BY DEF Inside, call
<1>4. CASE d = c
  BY <1>1, <1>2, <1>3, <1>4 DEF LockInv, Active
<1>5. CASE d # c
  BY <1>1, <1>2, <1>3, <1>5 DEF LockInv, Inside, Active
<1> QED BY <1>4, <1>5

LEMMA AdvanceStep ==
  ASSUME TypeOK, LockInv, NEW c \in Clients, pc[c] \in Active, Advance(c)
  PROVE  \E label \in {"send", "unlock"} :
           /\ pc' = [pc EXCEPT ![c] = label]
           /\ k'[c] \in 1 .. Len(bytes[c])
           /\ \A d \in Clients \ {c} : k'[d] = k[d]
           /\ label = "send" => k'[c] = k[c] + 1
           /\ label = "unlock" => k'[c] = k[c] /\ k[c] = Len(bytes[c])
<1>1. k \in [Clients -> Nat \ {0}] /\ Len(bytes[c]) \in Nat /\ k[c] <= Len(bytes[c])
  BY TokenFacts DEF TypeOK
<1>2. CASE More(c)
  BY <1>1, <1>2 DEF Advance, More, Goto
<1>3. CASE ~More(c)
  BY <1>1, <1>3 DEF Advance, More, Goto
<1> QED BY <1>2, <1>3

LEMMA FailStep ==
  ASSUME TypeOK, LockInv, NEW c \in Clients, pc[c] \in Active, Fail(c),
         UNCHANGED <<k, owner, call, current>>
  PROVE  Inside(c, "unlock") /\ LockInv'
<1>1. Inside(c, "unlock")
  BY DEF Inside, Fail, Goto, TypeOK
<1>2. k'[c] \in 1 .. Len(bytes[c])
  BY TokenFacts
<1> QED BY <1>1, <1>2, LockStep DEF Fail, Active

LEMMA LockInductive ==
  ASSUME TypeOK, LockInv, [Next]_vars PROVE LockInv'
<1> USE DEF Active
<1>1. CASE Controller \/ Adapter \/ UNCHANGED vars
  <2>1. UNCHANGED <<owner, pc, bytes, num, k, err, current>> /\ marred \subseteq marred'
    BY <1>1 DEF Controller, Shift, Complete, Refuse, Adapter, AddAdapter, SetDevice, InitController,
                vars, thread, call, history, moved
  <2> QED BY <2>1 DEF LockInv
<1>2. ASSUME NEW c \in Clients, Call(c) PROVE LockInv'
  <2>1. /\ pc[c] = "idle" /\ pc' = [pc EXCEPT ![c] = "lock"]
        /\ UNCHANGED <<owner, k, err, current, marred>>
        /\ bytes'[c] \in Transfers
        /\ \A d \in Clients \ {c} : bytes'[d] = bytes[d] /\ num'[d] = num[d]
    BY <1>2 DEF Call, TypeOK
  <2> QED BY <2>1 DEF LockInv, TypeOK
<1>3. ASSUME NEW c \in Clients, Lock(c) PROVE LockInv'
  <2>1. /\ pc[c] = "lock" /\ owner = Nobody /\ owner' = c
        /\ pc'[c] \in {"send", "oops"} /\ k'[c] = 1 /\ err'[c] = "ok" /\ current' = num[c]
        /\ \A d \in Clients \ {c} : pc'[d] = pc[d] /\ k'[d] = k[d] /\ err'[d] = err[d]
        /\ UNCHANGED <<bytes, num>>
    BY <1>3 DEF Lock, LockFree, TypeOK, call
  <2>2. \A d \in Clients : pc[d] \notin Active \cup {"oops"} /\ err[d] # "error"
    BY <2>1, ClientsAssumption DEF LockInv
  <2>3. 1 \in 1 .. Len(bytes[c])
    <3>1. bytes[c] \in Seq(Byte) /\ bytes[c] # <<>>
      BY <2>1, TransfersAssumption DEF LockInv
    <3> QED BY <3>1
  <2> QED BY <2>1, <2>2, <2>3 DEF LockInv
<1>4. ASSUME NEW c \in Clients, Send(c) \/ GiveUp(c) \/ Push(c) PROVE LockInv'
  <2>1. PICK label \in {"busy", "push", "empty"} : Inside(c, label)
    BY <1>4 DEF Send, GiveUp, Push, Goto, Inside, history
  <2>2. pc[c] \in {"send", "busy", "push"} /\ UNCHANGED <<k, err, marred>>
    BY <1>4 DEF Send, GiveUp, Push, history
  <2> QED BY <2>1, <2>2, LockStep, TokenFacts DEF LockInv
<1>5. ASSUME NEW c \in Clients, BusyPoll(c) PROVE LockInv'
  <2>1. pc[c] = "busy" /\ UNCHANGED <<owner, call, k, current>> /\ k[c] \in 1 .. Len(bytes[c])
    BY <1>5, TokenFacts DEF BusyPoll
  <2>2. CASE Goto(c, "push") /\ UNCHANGED err
    <3>1. Inside(c, "push")
      BY <2>1, <2>2 DEF Goto, Inside
    <3> QED BY <2>1, <2>2, <3>1, LockStep DEF LockInv
  <2>3. CASE UNCHANGED <<pc, err>>
    <3>1. \A d \in Clients : err[d] # "error"
      BY <2>1, Alone DEF LockInv
    <3> QED BY <2>1, <2>3, <3>1 DEF LockInv, call
  <2>4. CASE Fail(c)
    BY <2>1, <2>4, FailStep
  <2> QED BY <1>5, <2>2, <2>3, <2>4 DEF BusyPoll
<1>6. ASSUME NEW c \in Clients, PollEmpty(c) \/ Recv(c) PROVE LockInv'
  <2>1. pc[c] \in {"empty", "recv"} /\ UNCHANGED <<owner, call, current>>
    BY <1>6 DEF PollEmpty, Recv
  <2>2. CASE Goto(c, "recv") /\ UNCHANGED <<k, err, marred>>
    <3>1. Inside(c, "recv")
      BY <2>1, <2>2 DEF Goto, Inside
    <3> QED BY <2>1, <2>2, <3>1, LockStep, TokenFacts DEF LockInv
  <2>3. CASE Advance(c) /\ UNCHANGED <<err, marred>>
    <3>1. PICK label \in {"send", "unlock"} :
            /\ pc' = [pc EXCEPT ![c] = label]
            /\ k'[c] \in 1 .. Len(bytes[c])
            /\ \A d \in Clients \ {c} : k'[d] = k[d]
      BY <2>1, <2>3, AdvanceStep
    <3>2. Inside(c, label)
      BY <2>1, <2>3, <3>1 DEF Inside
    <3> QED BY <2>1, <2>3, <3>1, <3>2, LockStep DEF LockInv
  <2>4. CASE Fail(c) /\ UNCHANGED k
    BY <2>1, <2>4, FailStep
  <2> QED BY <1>6, <2>2, <2>3, <2>4 DEF PollEmpty, Recv
<1>7. ASSUME NEW c \in Clients, Unlock(c) PROVE LockInv'
  <2>1. /\ pc[c] = "unlock" /\ pc'[c] = "idle" /\ owner' = Nobody /\ err'[c] = "ok"
        /\ \A d \in Clients \ {c} : pc'[d] = pc[d] /\ k'[d] = k[d] /\ err'[d] = err[d]
        /\ UNCHANGED <<bytes, num, current>>
    BY <1>7 DEF Unlock, Released, Goto, TypeOK, call, history
  <2>2. \A d \in Clients \ {c} : pc[d] \notin Active /\ pc[d] # "oops" /\ err[d] # "error"
    BY <2>1, Alone
  <2> QED BY <2>1, <2>2, ClientsAssumption DEF LockInv
<1> QED BY <1>1, <1>2, <1>3, <1>4, <1>5, <1>6, <1>7 DEF Next, Run

-----------------------------------------------------------------------------
(* The FIFO has room at a push.                                            *)

LEMMA InitControllerFifo ==
  ASSUME TypeOK, Reinitialised \/ NotReinitialised \/ (NothingMoved /\ UNCHANGED <<hardware, open>>)
  PROVE  tx' = tx \/ tx' = <<>>
BY DEF Reinitialised, NotReinitialised, Flushed, hardware

LEMMA FillInductive ==
  ASSUME TypeOK, LockInv, FillInv, [Next]_vars PROVE FillInv'
<1>1. CASE Controller \/ Adapter \/ UNCHANGED vars
  <2>1. UNCHANGED <<pc, polls>>
    BY <1>1 DEF Controller, Shift, Complete, Refuse, Adapter, AddAdapter, SetDevice, InitController,
                vars, thread
  <2>2. tx' = tx \/ tx' = <<>> \/ (tx # <<>> /\ tx' = Tail(tx))
    BY <1>1, InitControllerFifo
       DEF Controller, Shift, Complete, Refuse, Adapter, AddAdapter, SetDevice, InitController,
           vars, hardware
  <2>3. Len(tx') <= Len(tx) /\ (tx = <<>> => tx' = <<>>) /\ Len(tx) \in Nat /\ Len(tx') \in Nat
    BY <2>2 DEF TypeOK
  <2> QED BY <2>1, <2>3, BoundsAssumption DEF FillInv
<1>2. ASSUME NEW c \in Clients, Call(c) PROVE FillInv'
  BY <1>2 DEF Call, FillInv, TypeOK, hardware
<1>3. ASSUME NEW c \in Clients, Lock(c) PROVE FillInv'
  <2>1. /\ pc[c] = "lock" /\ owner = Nobody /\ pc'[c] \in {"send", "oops"}
        /\ \A d \in Clients \ {c} : pc'[d] = pc[d]
    BY <1>3 DEF Lock, LockFree, TypeOK
  <2>2. \A d \in Clients : pc[d] \notin Active
    BY <2>1, ClientsAssumption DEF LockInv
  <2> QED BY <2>1, <2>2 DEF FillInv, Active
<1>4. ASSUME NEW c \in Clients, Run(c), pc[c] \in Active PROVE FillInv'
  <2>1. \A d \in Clients \ {c} : pc[d] \notin Active
    BY <1>4, Alone
  <2> SUFFICES ASSUME \A d \in Clients \ {c} : pc'[d] = pc[d]
               PROVE  /\ pc'[c] = "push" => Len(tx') < TxDepth
                      /\ pc'[c] = "busy" /\ polls'[c] > 0 => tx' = <<>>
    <3>1. \A d \in Clients \ {c} : pc'[d] = pc[d]
      BY <1>4 DEF Run, Lock, Send, BusyPoll, GiveUp, Push, PollEmpty, Recv, Unlock, Fail, Advance,
                  Goto, TypeOK, Active
    <3> QED BY <2>1, <3>1 DEF FillInv, Active
  <2>2. CASE Send(c)
    BY <2>2, BoundsAssumption DEF Send, Goto, TxBusy, TypeOK, hardware
  <2>3. CASE BusyPoll(c)
    <3>1. CASE ~TxBusy
      BY <2>3, <3>1, BoundsAssumption DEF BusyPoll, Goto, TxBusy, TypeOK, hardware
    <3>2. CASE Reinitialised
      BY <3>2, BoundsAssumption DEF Reinitialised, Flushed
    <3>3. CASE Fail(c)
      BY <3>3 DEF Fail, Goto, TypeOK
    <3> QED BY <2>3, <3>1, <3>2, <3>3 DEF BusyPoll
  <2>4. CASE GiveUp(c)
    <3>1. tx = <<>> /\ tx' = tx
      BY <2>4, BoundsAssumption DEF GiveUp, GivesUp, FillInv, hardware
    <3> QED BY <3>1, BoundsAssumption
  <2>5. CASE Lock(c) \/ Push(c) \/ PollEmpty(c) \/ Recv(c) \/ Unlock(c)
    BY <1>4, <2>5 DEF Lock, Push, PollEmpty, Recv, Unlock, Fail, Advance, Goto, TypeOK, Active
  <2> QED BY <1>4, <2>2, <2>3, <2>4, <2>5 DEF Run
<1>5. ASSUME NEW c \in Clients, Run(c) PROVE Lock(c) \/ pc[c] \in Active
  BY <1>5 DEF Run, Send, BusyPoll, GiveUp, Push, PollEmpty, Recv, Unlock, Active
<1> QED BY <1>1, <1>2, <1>3, <1>4, <1>5 DEF Next

-----------------------------------------------------------------------------
(* What is on its way.                                                     *)

\* Where a thread waits for its byte to leave TX_FIFO, or for the answer.
Waiting == {"empty", "recv"}

\* Without leftovers a byte in TX_FIFO is the one its thread waits for.
LEMMA FifoHasWaiter ==
  ASSUME WireInv, "leftover" \notin marred, tx # <<>>
  PROVE  \E c \in Clients : pc[c] = "empty" /\ tx = <<Token(c)>> /\ rx = <<>> /\ Pending(c)
BY DEF WireInv, Quiet, Pending

\* WireInv of the next state, when c is the thread inside the transfer.
LEMMA WireStep ==
  ASSUME LockInv, NEW c \in Clients, pc[c] \in Active,
         \A d \in Clients \ {c} : pc'[d] = pc[d],
         blocked' => shift' = <<>>,
         "leftover" \notin marred' => IF pc'[c] \in Waiting THEN Pending(c)' ELSE Quiet',
         pc'[c] = "recv" => Token(c)'.read
  PROVE  WireInv'
<1>1. \A d \in Clients \ {c} : pc'[d] \notin Waiting
  BY Alone DEF Active, Waiting
<1> QED BY <1>1 DEF WireInv, Waiting

LEMMA EmptyIsQuiet ==
  ASSUME tx = <<>>, rx = <<>>, shift = <<>>
  PROVE  Quiet /\ \A c \in Clients : Pending(c)
BY DEF Quiet, Pending, ShiftPlain

\* The engine's steps, given that nothing is left over.
LEMMA WireController ==
  ASSUME TypeOK, WireInv, Controller PROVE WireInv'
<1>1. UNCHANGED <<pc, bytes, num, k, marred>>
  BY DEF Controller, Shift, Complete, Refuse, thread, call
<1>2. \A c \in Clients : Token(c)' = Token(c)
  BY <1>1 DEF Token
<1>3. blocked' => shift' = <<>>
  BY DEF Controller, Shift, Complete, Refuse, WireInv
<1>4. ASSUME "leftover" \notin marred, \A c \in Clients : pc[c] \notin Waiting PROVE Quiet'
  <2>1. Quiet
    BY <1>4 DEF WireInv, Waiting
  <2>2. CASE Complete
    <3>1. rx' = rx /\ tx' = tx /\ shift' = <<>>
      BY <2>1, <2>2 DEF Complete, Quiet, ShiftPlain
    <3> QED BY <2>1, <3>1 DEF Quiet, ShiftPlain
  <2>3. CASE Refuse
    BY <2>1, <2>3 DEF Refuse, Quiet, ShiftPlain
  <2>4. CASE Shift
    BY <2>1, <2>4 DEF Shift, Quiet
  <2> QED BY <2>2, <2>3, <2>4 DEF Controller
<1>5. ASSUME "leftover" \notin marred, NEW c \in Clients, pc[c] \in Waiting PROVE Pending(c)'
  <2>1. Pending(c)
    BY <1>5 DEF WireInv, Waiting
  <2>2. CASE Shift
    <3>1. tx = <<Token(c)>> /\ rx = <<>> /\ rx' = rx
      BY <2>1, <2>2 DEF Shift, Pending
    <3>2. tx' = <<>> /\ shift' = <<Token(c)>>
      BY <2>2, <3>1 DEF Shift
    <3> QED BY <1>2, <3>1, <3>2 DEF Pending
  <2>3. CASE Complete
    <3>1. tx' = tx /\ shift' = <<>>
      BY <2>3 DEF Complete
    <3>2. CASE ShiftPlain
      <4>1. rx' = rx
        BY <2>3, <3>2 DEF Complete, ShiftPlain
      <4> QED BY <1>1, <1>2, <2>1, <3>1, <4>1 DEF Pending, ShiftPlain
    <3>3. CASE ~ShiftPlain
      <4>1. shift = <<Token(c)>> /\ tx = <<>> /\ rx = <<>> /\ shift[1].read
        BY <2>1, <3>3 DEF Pending, ShiftPlain
      <4>2. Token(c).read /\ rx' = <<Token(c)>>
        BY <2>3, <4>1 DEF Complete
      <4> QED BY <1>2, <3>1, <4>1, <4>2 DEF Pending, ShiftPlain
    <3> QED BY <3>2, <3>3
  <2>4. CASE Refuse
    <3>1. tx' = tx /\ rx' = rx /\ shift' = <<>>
      BY <2>4 DEF Refuse
    <3> QED BY <1>1, <1>2, <2>1, <3>1 DEF Pending, ShiftPlain
  <2> QED BY <2>2, <2>3, <2>4 DEF Controller
<1>6. \A c \in Clients : pc'[c] = "recv" => Token(c)'.read
  BY <1>1, <1>2 DEF WireInv
<1> QED BY <1>1, <1>3, <1>4, <1>5, <1>6 DEF WireInv, Waiting

\* A re-initialisation leaves nothing on its way.
LEMMA FlushedIsQuiet ==
  ASSUME Flushed PROVE Quiet' /\ shift' = <<>> /\ \A c \in Clients : Pending(c)'
BY DEF Flushed, Quiet, Pending, ShiftPlain

LEMMA WireAdapter ==
  ASSUME TypeOK, WireInv, Adapter PROVE WireInv'
<1>1. UNCHANGED <<pc, bytes, num, k>> /\ marred \subseteq marred'
      /\ ("leftover" \in marred' => "leftover" \in marred)
  BY DEF Adapter, AddAdapter, SetDevice, InitController, thread, call, history
<1>2. CASE Flushed
  BY <1>1, <1>2, FlushedIsQuiet DEF WireInv, Token
<1>3. CASE UNCHANGED hardware
  <2>1. \A c \in Clients : Token(c)' = Token(c)
    BY <1>1 DEF Token
  <2>2. UNCHANGED <<tx, rx, shift, blocked>>
    BY <1>3 DEF hardware
  <2>3. \A c \in Clients : Pending(c)' <=> Pending(c)
    BY <1>1, <2>1, <2>2 DEF Pending, ShiftPlain
  <2>4. Quiet' <=> Quiet
    BY <2>2 DEF Quiet, ShiftPlain
  <2> QED BY <1>1, <2>1, <2>2, <2>3, <2>4 DEF WireInv
<1> QED BY <1>2, <1>3
        DEF Adapter, AddAdapter, SetDevice, InitController, Reinitialised, NotReinitialised, hardware

LEMMA WireRun ==
  ASSUME TypeOK, LockInv, WireInv, NEW c \in Clients, Run(c), pc[c] \in Active
  PROVE  WireInv'
<1>1. \A d \in Clients \ {c} : pc'[d] = pc[d] /\ pc[d] \notin Waiting
  <2>1. \A d \in Clients \ {c} : pc'[d] = pc[d]
    BY DEF Run, Lock, Send, BusyPoll, GiveUp, Push, PollEmpty, Recv, Unlock, Fail, Advance,
           Goto, TypeOK, Active
  <2> QED BY <2>1, Alone DEF Waiting, Active
<1>2. "leftover" \notin marred => IF pc[c] \in Waiting THEN Pending(c) ELSE Quiet
  BY <1>1 DEF WireInv, Waiting
<1>3. UNCHANGED <<bytes, num>>
  BY DEF Run, Lock, Send, BusyPoll, GiveUp, Push, PollEmpty, Recv, Unlock, call, Active
<1>4. blocked => shift = <<>>
  BY DEF WireInv
<1>5. CASE Fail(c)
  <2>1. pc'[c] = "unlock" /\ "leftover" \in marred'
    BY <1>5 DEF Fail, Goto, TypeOK
  <2>2. blocked' => shift' = <<>>
    BY <1>4, <1>5 DEF Run, Lock, Send, BusyPoll, GiveUp, Push, PollEmpty, Recv, Unlock,
                Reinitialised, NotReinitialised, Flushed, hardware, Active
  <2> QED BY <1>1, <2>1, <2>2, WireStep
<1>6. CASE Send(c) \/ GiveUp(c) \/ Unlock(c) \/ (BusyPoll(c) /\ ~TxBusy)
  <2>1. pc[c] \notin Waiting /\ pc'[c] \notin Waiting /\ UNCHANGED <<tx, rx, shift, blocked, marred>>
    BY <1>6 DEF Send, GiveUp, Unlock, BusyPoll, Goto, TypeOK, Waiting, hardware, history
  <2>2. Quiet' <=> Quiet
    BY <2>1 DEF Quiet, ShiftPlain
  <2> QED BY <1>1, <1>2, <1>4, <2>1, <2>2, WireStep DEF Waiting
<1>7. CASE BusyPoll(c) /\ TxBusy /\ ~Fail(c)
  <2>1. Flushed /\ UNCHANGED pc /\ pc[c] = "busy"
    BY <1>7 DEF BusyPoll, Reinitialised
  <2> QED BY <1>1, <2>1, FlushedIsQuiet, WireStep DEF Waiting
<1>8. CASE Push(c)
  <2>1. pc[c] = "push" /\ pc'[c] = "empty" /\ UNCHANGED <<k, rx, shift, blocked, marred>>
        /\ tx' = Append(tx, Token(c))
    BY <1>8 DEF Push, Goto, TypeOK, history
  <2>2. Token(c)' = Token(c)
    BY <1>3, <2>1 DEF Token
  <2>3. ASSUME "leftover" \notin marred' PROVE Pending(c)'
    <3>1. tx = <<>> /\ rx = <<>> /\ ShiftPlain
      BY <1>2, <2>1, <2>3 DEF Quiet, Waiting
    <3>2. tx' = <<Token(c)>>
      BY <2>1, <3>1
    <3> QED BY <2>1, <2>2, <3>1, <3>2 DEF Pending, ShiftPlain
  <2> QED BY <1>1, <1>4, <2>1, <2>3, WireStep DEF Waiting
<1>9. CASE PollEmpty(c) /\ ~Fail(c)
  <2>1. tx = <<>> /\ pc[c] = "empty" /\ UNCHANGED <<tx, rx, shift, blocked, marred>>
    BY <1>9 DEF PollEmpty, hardware
  <2>2. CASE bytes[c][k[c]].read
    <3>1. pc'[c] = "recv" /\ UNCHANGED k
      BY <1>9, <2>1, <2>2 DEF PollEmpty, Goto, TypeOK
    <3>2. Token(c)' = Token(c) /\ Token(c).read
      BY <1>3, <2>2, <3>1, TokenFacts DEF Token
    <3>3. "leftover" \notin marred' => Pending(c)'
      BY <1>2, <2>1, <3>1, <3>2 DEF Pending, ShiftPlain, Waiting
    <3> QED BY <1>1, <1>4, <2>1, <3>1, <3>2, <3>3, WireStep DEF Waiting
  <2>3. CASE ~bytes[c][k[c]].read
    <3>1. Advance(c)
      BY <1>9, <2>1, <2>3 DEF PollEmpty
    <3>2. pc'[c] \in {"send", "unlock"}
      BY <3>1 DEF Advance, Goto, TypeOK
    <3>3. ~Token(c).read
      BY <2>3, TokenFacts
    <3>4. "leftover" \notin marred' => Quiet'
      <4>1. ASSUME "leftover" \notin marred' PROVE rx = <<>> /\ ShiftPlain
        <5>1. Pending(c)
          BY <1>2, <2>1, <4>1 DEF Waiting
        <5> QED BY <3>3, <5>1 DEF Pending, ShiftPlain
      <4> QED BY <2>1, <4>1 DEF Quiet, ShiftPlain
    <3> QED BY <1>1, <1>4, <2>1, <3>2, <3>4, WireStep DEF Waiting
  <2> QED BY <2>2, <2>3
<1>10. CASE Recv(c) /\ ~Fail(c)
  <2>1. rx # <<>> /\ rx' = Tail(rx) /\ pc[c] = "recv" /\ Advance(c)
        /\ UNCHANGED <<tx, shift, blocked, marred>>
    BY <1>10 DEF Recv, RxBusy
  <2>2. pc'[c] \in {"send", "unlock"}
    BY <2>1 DEF Advance, Goto, TypeOK
  <2>3. ASSUME "leftover" \notin marred' PROVE Quiet'
    <3>1. Pending(c)
      BY <1>2, <2>1, <2>3 DEF Waiting
    <3>2. rx = <<Token(c)>> /\ ShiftPlain /\ tx = <<>>
      BY <2>1, <3>1 DEF Pending
    <3> QED BY <2>1, <3>2 DEF Quiet, ShiftPlain
  <2> QED BY <1>1, <1>4, <2>1, <2>2, <2>3, WireStep DEF Waiting
<1> QED BY <1>5, <1>6, <1>7, <1>8, <1>9, <1>10 DEF Run, Lock, Active

LEMMA WireInductive ==
  ASSUME TypeOK, LockInv, WireInv, [Next]_vars PROVE WireInv'
<1>1. CASE UNCHANGED vars
  <2>1. UNCHANGED <<pc, bytes, num, k, tx, rx, shift, blocked, marred>>
    BY <1>1 DEF vars, thread, call, hardware, history
  <2> QED BY <2>1 DEF WireInv, Quiet, Pending, ShiftPlain, Token
<1>2. ASSUME NEW c \in Clients, Call(c) PROVE WireInv'
  <2>1. /\ UNCHANGED <<k, tx, rx, shift, blocked, marred>> /\ pc[c] = "idle" /\ pc'[c] = "lock"
        /\ \A d \in Clients \ {c} : pc'[d] = pc[d] /\ num'[d] = num[d] /\ bytes'[d] = bytes[d]
    BY <1>2 DEF Call, TypeOK, hardware
  <2>2. \A d \in Clients \ {c} : Token(d)' = Token(d)
    BY <2>1 DEF Token
  <2>3. \A d \in Clients \ {c} : Pending(d)' <=> Pending(d)
    BY <2>1, <2>2 DEF Pending, ShiftPlain
  <2>4. Quiet' <=> Quiet
    BY <2>1 DEF Quiet, ShiftPlain
  <2> QED BY <2>1, <2>2, <2>3, <2>4 DEF WireInv
<1>3. ASSUME NEW c \in Clients, Lock(c) PROVE WireInv'
  <2>1. /\ pc[c] = "lock" /\ owner = Nobody /\ pc'[c] \in {"send", "oops"}
        /\ \A d \in Clients \ {c} : pc'[d] = pc[d]
    BY <1>3 DEF Lock, LockFree, TypeOK
  <2>2. \A d \in Clients : pc[d] \notin Waiting /\ pc'[d] \notin Waiting
    BY <2>1, ClientsAssumption DEF LockInv, Active, Waiting
  <2>3. CASE Reinitialised
    BY <2>2, <2>3, FlushedIsQuiet DEF WireInv, Waiting, Reinitialised
  <2>4. CASE UNCHANGED <<hardware, open>> /\ marred' = marred \ {"reinit"}
    <3>1. Quiet' <=> Quiet
      BY <2>4 DEF Quiet, ShiftPlain, hardware
    <3>2. ("leftover" \in marred' <=> "leftover" \in marred) /\ UNCHANGED <<shift, blocked>>
      BY <2>4 DEF hardware
    <3> QED BY <2>2, <3>1, <3>2 DEF WireInv, Waiting
  <2> QED BY <1>3, <2>3, <2>4 DEF Lock
<1>4. ASSUME NEW c \in Clients, Run(c) PROVE Lock(c) \/ pc[c] \in Active
  BY <1>4 DEF Run, Send, BusyPoll, GiveUp, Push, PollEmpty, Recv, Unlock, Active
<1> QED BY <1>1, <1>2, <1>3, <1>4, WireController, WireAdapter, WireRun DEF Next

-----------------------------------------------------------------------------
(* How far an unmarred transfer has come.                                  *)

\* What ExactInv says of the thread inside the transfer.
Exact(c) ==
  /\ own
  /\ left = Gone(c)
  /\ acked + OnBus + Lost >= left
  /\ got = ReadBefore(c)
  /\ pc[c] = "unlock" => k[c] = Len(bytes[c])

LEMMA OnBusLost ==
  /\ OnBus \in Nat /\ OnBus <= 1 /\ (shift = <<>> => OnBus = 0)
  /\ Lost \in Nat /\ Lost <= 1 /\ (blocked => Lost = 1)
BY DEF OnBus, Lost

LEMMA NoneReadBefore ==
  ASSUME TypeOK, LockInv, NEW c \in Clients, pc[c] \in Active
  PROVE  Reads(c) \subseteq 1 .. Len(bytes[c]) /\ {j \in Reads(c) : j < 1} = {}
<1>1. DOMAIN bytes[c] = 1 .. Len(bytes[c])
  BY TokenFacts
<1> QED BY <1>1 DEF Reads

\* ExactInv of the next state, when c is the thread inside the transfer.
LEMMA ExactStep ==
  ASSUME LockInv, NEW c \in Clients, pc[c] \in Active,
         \A d \in Clients \ {c} : pc'[d] = pc[d],
         marred' = {} /\ pc'[c] \in Active => Exact(c)'
  PROVE  ExactInv'
<1>1. \A d \in Clients \ {c} : pc'[d] \notin Active
  BY Alone
<1> QED BY <1>1 DEF ExactInv, Exact

LEMMA ExactController ==
  ASSUME TypeOK, LockInv, WireInv, ExactInv, Controller PROVE ExactInv'
<1>1. UNCHANGED <<pc, bytes, num, k, marred, current, got>>
  BY DEF Controller, Shift, Complete, Refuse, thread, call, moved
<1> SUFFICES ASSUME marred = {}, NEW c \in Clients, pc[c] \in Active PROVE Exact(c)'
  BY <1>1 DEF ExactInv, Exact
<1>2. Exact(c)
  BY DEF ExactInv, Exact
<1>3. \A d \in Clients \ {c} : pc[d] \notin Waiting
  BY Alone DEF Active, Waiting
<1>4. ReadBefore(c)' = ReadBefore(c)
  BY <1>1 DEF ReadBefore, Reads
<1>5. left \in Nat /\ acked \in Nat /\ k[c] \in Nat
  BY DEF TypeOK
<1>6. CASE Shift
  <2>1. PICK d \in Clients : pc[d] = "empty" /\ tx = <<Token(d)>>
    BY <1>6, FifoHasWaiter DEF Shift
  <2>2. d = c /\ pc[c] = "empty" /\ tx = <<Token(c)>>
    BY <1>3, <2>1 DEF Waiting
  <2>3. Head(tx).num = current /\ Head(tx).k = k[c]
    BY <2>2, TokenFacts
  <2>4. left = k[c] - 1
    BY <1>2, <2>2 DEF Exact, Gone
  <2>5. left' = left + 1 /\ own' = own
    BY <1>5, <1>6, <2>3, <2>4 DEF Shift
  <2>6. shift' = <<Head(tx)>> /\ tx' = <<>> /\ shift = <<>> /\ UNCHANGED <<acked, blocked>>
    BY <1>6, <2>2 DEF Shift
  <2>7. OnBus' = 1 /\ OnBus = 0 /\ Lost' = Lost
    BY <1>1, <2>3, <2>6 DEF OnBus, Lost
  <2>8. left' = Gone(c)'
    BY <1>1, <1>5, <2>2, <2>4, <2>5, <2>6 DEF Gone
  <2>9. acked' + OnBus' + Lost' >= left'
    BY <1>2, <1>5, <2>5, <2>6, <2>7, OnBusLost DEF Exact
  <2> QED BY <1>1, <1>2, <1>4, <2>2, <2>5, <2>8, <2>9 DEF Exact
<1>7. CASE Complete \/ Refuse
  <2>1. shift # <<>> /\ shift' = <<>> /\ UNCHANGED <<tx, left, own>>
    BY <1>7 DEF Complete, Refuse, moved
  <2>2. Gone(c)' = Gone(c)
    BY <1>1, <2>1 DEF Gone
  <2>3. ~blocked /\ Lost = 0 /\ OnBus' = 0
    BY <2>1 DEF WireInv, Lost, OnBus
  <2>4. acked + OnBus >= left /\ left' = left
    BY <1>2, <1>5, <2>1, <2>3, OnBusLost DEF Exact
  <2>5. acked' + OnBus' + Lost' >= left'
    <3>1. CASE Complete
      BY <1>1, <1>5, <2>1, <2>4, <3>1 DEF Complete, OnBus, Lost
    <3>2. CASE Refuse
      BY <1>1, <1>5, <2>1, <2>4, <3>2 DEF Refuse, moved, OnBus, Lost
    <3> QED BY <1>7, <3>1, <3>2
  <2> QED BY <1>1, <1>2, <1>4, <2>1, <2>2, <2>5 DEF Exact
<1> QED BY <1>6, <1>7 DEF Controller

\* A poll, a push and the like: the history of the transfer does not move.
LEMMA ExactSame ==
  ASSUME TypeOK, LockInv, ExactInv, NEW c \in Clients, pc[c] \in Active,
         \A d \in Clients \ {c} : pc'[d] = pc[d],
         UNCHANGED <<moved, current, bytes, k, shift, blocked, marred>>,
         marred = {} => Gone(c)' = Gone(c),
         pc[c] # "unlock", pc'[c] # "unlock"
  PROVE  ExactInv'
<1>1. OnBus' = OnBus /\ Lost' = Lost
  BY DEF OnBus, Lost
<1>2. ReadBefore(c)' = ReadBefore(c)
  BY DEF ReadBefore, Reads
<1>3. marred = {} => Exact(c)
  BY DEF ExactInv, Exact
<1> QED BY <1>1, <1>2, <1>3, ExactStep DEF Exact, moved

\* The byte in hand is done, and what it had to read has been handed over.
LEMMA ExactAdvance ==
  ASSUME TypeOK, LockInv, NEW c \in Clients, pc[c] \in Active, Advance(c),
         UNCHANGED <<left, acked, current, bytes, shift, blocked, marred>>,
         marred = {} => /\ own' /\ left = k[c] /\ acked + OnBus + Lost >= left
                        /\ got' = {j \in Reads(c) : j <= k[c]}
  PROVE  ExactInv'
<1>1. PICK label \in {"send", "unlock"} :
        /\ pc' = [pc EXCEPT ![c] = label]
        /\ label = "send" => k'[c] = k[c] + 1
        /\ label = "unlock" => k'[c] = k[c] /\ k[c] = Len(bytes[c])
  BY AdvanceStep
<1>2. pc'[c] = label /\ \A d \in Clients \ {c} : pc'[d] = pc[d]
  BY <1>1 DEF TypeOK
<1>3. k[c] \in Nat /\ Reads(c) \subseteq 1 .. Len(bytes[c]) /\ Reads(c)' = Reads(c)
      /\ Len(bytes[c]) \in Nat
  BY TokenFacts, NoneReadBefore DEF Reads
<1>4. ASSUME marred = {} PROVE Exact(c)'
  <2>1. left' = Gone(c)'
    BY <1>1, <1>2, <1>3, <1>4 DEF Gone
  <2>2. OnBus' = OnBus /\ Lost' = Lost
    BY DEF OnBus, Lost
  <2>3. ReadBefore(c)' = {j \in Reads(c) : j <= k[c]}
    <3>1. CASE label = "send"
      <4>1. \A j \in Reads(c) : j < k[c] + 1 <=> j <= k[c]
        BY <1>3
      <4> QED BY <1>1, <1>2, <1>3, <3>1, <4>1 DEF ReadBefore
    <3>2. CASE label = "unlock"
      <4>1. \A j \in Reads(c) : j <= k[c]
        BY <1>1, <1>3, <3>2
      <4> QED BY <1>2, <1>3, <3>2, <4>1 DEF ReadBefore
    <3> QED BY <3>1, <3>2
  <2> QED BY <1>1, <1>2, <1>4, <2>1, <2>2, <2>3 DEF Exact
<1> QED BY <1>2, <1>4, ExactStep

LEMMA ExactRun ==
  ASSUME TypeOK, LockInv, WireInv, ExactInv, NEW c \in Clients, Run(c), pc[c] \in Active
  PROVE  ExactInv'
<1>1. \A d \in Clients \ {c} : pc'[d] = pc[d]
  BY DEF Run, Lock, Send, BusyPoll, GiveUp, Push, PollEmpty, Recv, Unlock, Fail, Advance,
         Goto, TypeOK, Active
<1>2. UNCHANGED <<bytes, num, current>> /\ k[c] \in Nat \ {0}
  BY DEF Run, Lock, Send, BusyPoll, GiveUp, Push, PollEmpty, Recv, Unlock, call, history, Active, TypeOK
<1>3. marred = {} => Exact(c)
  BY DEF ExactInv, Exact
<1>4. CASE Fail(c)
  <2>1. marred' # {}
    BY <1>4 DEF Fail
  <2> QED BY <1>1, <2>1, ExactStep
<1>5. CASE Send(c) \/ GiveUp(c) \/ (BusyPoll(c) /\ ~TxBusy) \/ Push(c)
  <2>1. /\ pc[c] \in {"send", "busy", "push"} /\ pc'[c] \in {"busy", "push", "empty"}
        /\ UNCHANGED <<moved, k, shift, blocked, marred>>
        /\ pc'[c] = "empty" => tx' = Append(tx, Token(c))
    BY <1>5 DEF Send, GiveUp, BusyPoll, Push, Goto, TypeOK, hardware, history
  <2>2. pc'[c] = "empty" => tx' # <<>>
    BY <2>1, TokenFacts DEF TypeOK
  <2>3. Gone(c)' = Gone(c)
    BY <2>1, <2>2 DEF Gone
  <2> QED BY <1>1, <1>2, <2>1, <2>3, ExactSame
<1>6. CASE BusyPoll(c) /\ TxBusy /\ ~Fail(c)
  <2>1. /\ left' = 0 /\ acked' = 0 /\ got' = {} /\ own' /\ UNCHANGED <<pc, k>> /\ pc[c] = "busy"
        /\ k[c] > 1 => marred' # {}
    BY <1>6 DEF BusyPoll, Reinitialised, Flushed, NothingMoved
  <2>2. ASSUME marred' = {} PROVE Exact(c)'
    <3>1. k[c] = 1
      BY <1>2, <2>1, <2>2
    <3>2. Gone(c)' = 0
      BY <2>1, <3>1 DEF Gone
    <3>3. ReadBefore(c)' = {}
      BY <1>2, <2>1, <3>1, NoneReadBefore DEF ReadBefore, Reads
    <3> QED BY <2>1, <3>2, <3>3 DEF Exact, OnBus, Lost
  <2> QED BY <1>1, <2>2, ExactStep
<1>7. CASE PollEmpty(c) /\ ~Fail(c)
  <2>1. tx = <<>> /\ pc[c] = "empty" /\ UNCHANGED <<tx, shift, blocked, marred, moved>>
    BY <1>7 DEF PollEmpty, hardware
  <2>2. Gone(c) = k[c]
    BY <2>1 DEF Gone
  <2>3. CASE bytes[c][k[c]].read
    <3>1. pc'[c] = "recv" /\ UNCHANGED k
      BY <1>7, <2>1, <2>3 DEF PollEmpty, Goto, TypeOK
    <3>2. Gone(c)' = k[c]
      BY <3>1 DEF Gone
    <3> QED BY <1>1, <1>2, <2>1, <2>2, <3>1, <3>2, ExactSame
  <2>4. CASE ~bytes[c][k[c]].read
    <3>1. Advance(c)
      BY <1>7, <2>1, <2>4 DEF PollEmpty
    <3>2. {j \in Reads(c) : j < k[c]} = {j \in Reads(c) : j <= k[c]}
      <4>1. k[c] \notin Reads(c) /\ Reads(c) \subseteq Nat
        BY <2>1, <2>4, NoneReadBefore, TokenFacts DEF Reads, Active
      <4>2. \A j \in Reads(c) : j < k[c] <=> j <= k[c]
        BY <1>2, <4>1
      <4> QED BY <4>2
    <3>3. ASSUME marred = {}
          PROVE  /\ own' /\ left = k[c] /\ acked + OnBus + Lost >= left
                 /\ got' = {j \in Reads(c) : j <= k[c]}
      BY <1>3, <2>1, <2>2, <3>2, <3>3 DEF Exact, ReadBefore, moved
    <3> QED BY <1>2, <2>1, <3>1, <3>3, ExactAdvance DEF moved
  <2> QED BY <2>3, <2>4
<1>8. CASE Recv(c) /\ ~Fail(c)
  <2>1. rx # <<>> /\ pc[c] = "recv" /\ Advance(c)
        /\ UNCHANGED <<left, acked, shift, blocked, marred>>
    BY <1>8 DEF Recv, RxBusy
  <2>2. ASSUME marred = {}
        PROVE  /\ own' /\ left = k[c] /\ acked + OnBus + Lost >= left
               /\ got' = {j \in Reads(c) : j <= k[c]}
    <3>1. Pending(c) /\ Token(c).read
      BY <2>1, <2>2 DEF WireInv
    <3>2. rx = <<Token(c)>>
      BY <2>1, <3>1 DEF Pending
    <3>3. Head(rx).num = current /\ Head(rx).k = k[c]
      BY <3>2, TokenFacts
    <3>4. got' = got \cup {k[c]} /\ UNCHANGED own
      BY <1>8, <2>1, <3>3 DEF Recv, RxBusy, Fail
    <3>5. k[c] \in Reads(c) /\ Reads(c) \subseteq Nat
      BY <3>1, NoneReadBefore, TokenFacts DEF Reads
    <3>6. {j \in Reads(c) : j < k[c]} \cup {k[c]} = {j \in Reads(c) : j <= k[c]}
      <4>1. \A j \in Reads(c) : j <= k[c] <=> j < k[c] \/ j = k[c]
        BY <1>2, <3>5
      <4> QED BY <3>5, <4>1
    <3>7. got = {j \in Reads(c) : j < k[c]} /\ left = k[c] /\ own /\ acked + OnBus + Lost >= left
      BY <1>3, <2>1, <2>2 DEF Exact, ReadBefore, Gone
    <3> QED BY <3>4, <3>6, <3>7
  <2> QED BY <1>2, <2>1, <2>2, ExactAdvance
<1>9. CASE Unlock(c)
  <2>1. pc'[c] \notin Active
    BY <1>9 DEF Unlock, Goto, TypeOK, Active
  <2> QED BY <1>1, <2>1, ExactStep
<1> QED BY <1>4, <1>5, <1>6, <1>7, <1>8, <1>9 DEF Run, Lock, Active

LEMMA ExactInductive ==
  ASSUME TypeOK, LockInv, WireInv, ExactInv, [Next]_vars PROVE ExactInv'
<1>1. CASE UNCHANGED vars
  <2>1. UNCHANGED <<pc, bytes, k, tx, shift, blocked, current, marred, left, acked, got, own>>
    BY <1>1 DEF vars, thread, call, hardware, history, moved
  <2> QED BY <2>1 DEF ExactInv, Gone, OnBus, Lost, ReadBefore, Reads
<1>2. CASE Adapter
  <2>1. UNCHANGED <<pc, bytes, k, current>>
    BY <1>2 DEF Adapter, AddAdapter, SetDevice, InitController, thread, call, history
  <2>2. CASE UNCHANGED <<tx, shift, blocked, marred, left, acked, got, own>>
    BY <2>1, <2>2 DEF ExactInv, Gone, OnBus, Lost, ReadBefore, Reads
  <2>3. CASE InitController
    <3>1. CASE owner = Nobody
      <4>1. \A c \in Clients : pc[c] \notin Active
        BY <3>1, ClientsAssumption DEF LockInv
      <4> QED BY <2>1, <4>1 DEF ExactInv
    <3>2. CASE owner # Nobody
      BY <2>3, <3>2 DEF InitController, ExactInv
    <3> QED BY <3>1, <3>2
  <2> QED BY <1>2, <2>2, <2>3 DEF Adapter, AddAdapter, SetDevice, hardware, history, moved
<1>3. ASSUME NEW c \in Clients, Call(c) PROVE ExactInv'
  <2>1. /\ UNCHANGED <<k, tx, shift, blocked, marred, current, left, acked, got, own>>
        /\ pc'[c] = "lock"
        /\ \A d \in Clients \ {c} : pc'[d] = pc[d] /\ bytes'[d] = bytes[d]
    BY <1>3 DEF Call, TypeOK, hardware, moved
  <2>2. \A d \in Clients \ {c} : Gone(d)' = Gone(d) /\ ReadBefore(d)' = ReadBefore(d)
    BY <2>1 DEF Gone, ReadBefore, Reads
  <2>3. OnBus' = OnBus /\ Lost' = Lost
    BY <2>1 DEF OnBus, Lost
  <2> QED BY <2>1, <2>2, <2>3 DEF ExactInv, Active
<1>4. ASSUME NEW c \in Clients, Lock(c) PROVE ExactInv'
  <2>1. /\ pc[c] = "lock" /\ owner = Nobody /\ pc'[c] \in {"send", "oops"} /\ k'[c] = 1
        /\ \A d \in Clients \ {c} : pc'[d] = pc[d]
        /\ left' = 0 /\ acked' = 0 /\ got' = {} /\ own' /\ UNCHANGED bytes
    BY <1>4 DEF Lock, LockFree, TypeOK, Reinitialised, Flushed, NothingMoved, call
  <2>2. \A d \in Clients : pc[d] \notin Active
    BY <2>1, ClientsAssumption DEF LockInv
  <2>3. Gone(c)' = 0 \/ pc'[c] \notin Active
    BY <2>1 DEF Gone, Active
  <2>4. pc'[c] \in Active => ReadBefore(c)' = {}
    <3>1. bytes[c] \in Seq(Byte)
      BY <2>1, TransfersAssumption DEF LockInv
    <3>2. Reads(c)' \subseteq Nat \ {0}
      BY <2>1, <3>1 DEF Reads
    <3>3. {j \in Reads(c)' : j < 1} = {}
      BY <3>2
    <3> QED BY <2>1, <3>3 DEF ReadBefore, Active
  <2>5. acked' + OnBus' + Lost' >= left'
    BY <2>1 DEF OnBus, Lost
  <2> QED BY <2>1, <2>2, <2>3, <2>4, <2>5 DEF ExactInv, Active
<1>5. ASSUME NEW c \in Clients, Run(c) PROVE Lock(c) \/ pc[c] \in Active
  BY <1>5 DEF Run, Send, BusyPoll, GiveUp, Push, PollEmpty, Recv, Unlock, Active
<1> QED BY <1>1, <1>2, <1>3, <1>4, <1>5, ExactController, ExactRun DEF Next

-----------------------------------------------------------------------------
(* The theorems.                                                           *)

LEMMA Invariance == Spec => []IInv
<1>1. IInv /\ [Next]_vars => IInv'
  BY TypeInductive, LockInductive, FillInductive, WireInductive, ExactInductive DEF IInv
<1> QED BY <1>1, InitInv, PTL DEF Spec

\* The types; in particular, whatever the devices refuse and however often the
\* controller is reset, saa7231_i2c_send never writes a byte to a full TX_FIFO.
THEOREM XferTypes == Spec => []TypeOK
BY Invariance, PTL DEF IInv

\* One transfer at a time is between mutex_lock and mutex_unlock of i2c_lock,
\* and a thread that dies there keeps the lock.
THEOREM XferExclusive == Spec => []LockInv
BY Invariance, PTL DEF IInv

LEMMA ExactAtEnd == IInv => SuccessIsExact
<1> SUFFICES ASSUME IInv, NEW c \in Clients, pc[c] = "unlock", marred = {}
             PROVE  /\ own /\ left = Len(bytes[c]) /\ acked >= Len(bytes[c]) - 1 /\ got = Reads(c)
  BY DEF SuccessIsExact
<1>1. own /\ left = k[c] /\ k[c] = Len(bytes[c]) /\ got = Reads(c) /\ acked + OnBus + Lost >= left
  BY DEF IInv, ExactInv, Active, Gone, ReadBefore
<1>2. left \in Nat /\ acked \in Nat
  BY DEF IInv, TypeOK
<1>3. OnBus + Lost <= 1
  BY OnBusLost DEF IInv, WireInv, Lost
<1> QED BY <1>1, <1>2, <1>3, OnBusLost

\* saa7231_i2c_xfer: a transfer that returns its number of messages has put
\* exactly its bytes on the bus, in order, and handed over exactly the bytes
\* read for them, unless a re-initialisation came inside it or an earlier
\* transfer failed and none came since.
THEOREM XferSuccessIsExact == Spec => []SuccessIsExact
BY Invariance, ExactAtEnd, PTL

-----------------------------------------------------------------------------
(* The STOP of the last transfer.                                          *)

\* The numbers of the transfers: two threads never have the same one, and a thread
\* that waits for the lock has one that had not the lock yet.
NumInv ==
  /\ current <= calls
  /\ \A c \in Clients : num[c] <= calls
  /\ \A c, d \in Clients : c # d /\ num[c] = num[d] => num[c] = 0
  /\ \A c \in Clients : pc[c] # "idle" \/ bytes[c] # <<>> => num[c] > 0
  /\ \A c \in Clients : pc[c] = "lock" => num[c] # current

\* The byte in hand has left TX_FIFO, or the transfer's last one has.
Sent(c) == pc[c] \in {"recv", "unlock", "idle"} \/ (pc[c] = "empty" /\ tx = <<>>)
LastStops(c) ==
  IF pc[c] \in {"empty", "recv"} THEN bytes[c][k[c]].stop ELSE EndsWithStop(c)

\* A byte with STOP that was the last to leave TX_FIFO is in the shift register,
\* or has closed the bus.
Closed(c) ==
  num[c] = current /\ Sent(c) /\ LastStops(c)
    => tx = <<>> /\ IF shift = <<>> THEN ~open ELSE shift[1].stop

CloseInv == marred = {} /\ ~blocked => \A c \in Clients : Closed(c)

LEMMA InitClose == Init => NumInv /\ CloseInv
BY DEF Init, NumInv, CloseInv, Closed, LastStops, EndsWithStop

LEMMA NumInductive ==
  ASSUME TypeOK, NumInv, [Next]_vars PROVE NumInv'
<1>1. CASE Controller \/ Adapter \/ UNCHANGED vars
  <2>1. UNCHANGED <<pc, bytes, num, calls, current>>
    BY <1>1 DEF Controller, Shift, Complete, Refuse, Adapter, AddAdapter, SetDevice, InitController,
                vars, thread, call, history
  <2> QED BY <2>1 DEF NumInv
<1>2. ASSUME NEW c \in Clients, Call(c) PROVE NumInv'
  <2>1. /\ calls' = calls + 1 /\ num'[c] = calls + 1 /\ current' = current
        /\ \A d \in Clients \ {c} : pc'[d] = pc[d] /\ num'[d] = num[d] /\ bytes'[d] = bytes[d]
    BY <1>2 DEF Call, TypeOK
  <2>2. calls \in Nat /\ current \in Nat /\ \A d \in Clients : num[d] \in Nat
    BY DEF TypeOK
  <2>3. current' <= calls' /\ \A d \in Clients : num'[d] <= calls'
    BY <2>1, <2>2 DEF NumInv
  <2>4. num'[c] # current /\ \A d \in Clients \ {c} : num'[d] # num'[c]
    BY <2>1, <2>2 DEF NumInv
  <2>5. num'[c] > 0
    BY <2>1, <2>2
  <2> QED BY <2>1, <2>3, <2>4, <2>5 DEF NumInv
<1>3. ASSUME NEW c \in Clients, Lock(c) PROVE NumInv'
  <2>1. /\ pc[c] = "lock" /\ pc'[c] # "lock" /\ current' = num[c]
        /\ \A d \in Clients \ {c} : pc'[d] = pc[d]
        /\ UNCHANGED <<bytes, num, calls>>
    BY <1>3 DEF Lock, TypeOK, call
  <2>2. num[c] > 0 /\ \A d \in Clients : num[d] \in Nat
    BY <2>1 DEF NumInv, TypeOK
  <2>3. \A d \in Clients : pc'[d] = "lock" => num[d] # num[c]
    BY <2>1, <2>2 DEF NumInv
  <2> QED BY <2>1, <2>2, <2>3 DEF NumInv
<1>4. ASSUME NEW c \in Clients, Run(c), ~Lock(c) PROVE NumInv'
  <2>1. UNCHANGED <<bytes, num, calls, current>>
    BY <1>4 DEF Run, Send, BusyPoll, GiveUp, Push, PollEmpty, Recv, Unlock, call, history
  <2>2. pc[c] \in Active /\ pc'[c] # "lock" /\ \A d \in Clients \ {c} : pc'[d] = pc[d]
    BY <1>4 DEF Run, Send, BusyPoll, GiveUp, Push, PollEmpty, Recv, Unlock, Fail, Advance, Goto,
                TypeOK, Active
  <2>3. \A d \in Clients : (pc'[d] # "idle" => pc[d] # "idle") /\ (pc'[d] = "lock" => pc[d] = "lock")
    BY <2>2 DEF Active
  <2> QED BY <2>1, <2>3 DEF NumInv
<1> QED BY <1>1, <1>2, <1>3, <1>4 DEF Next

\* A step of the transfer's thread leaves the others' old transfers out of it.
LEMMA CloseStep ==
  ASSUME LockInv, NumInv, NEW c \in Clients, pc[c] \in Active, UNCHANGED <<num, current>>,
         marred' = {} /\ ~blocked' => Closed(c)'
  PROVE  CloseInv'
<1>1. num[c] = current /\ num[c] > 0
  BY Alone DEF NumInv, Active
<1>2. \A d \in Clients \ {c} : num[d] # current
  BY <1>1 DEF NumInv
<1>3. \A d \in Clients \ {c} : Closed(d)'
  BY <1>2 DEF Closed
<1> QED BY <1>3 DEF CloseInv

LEMMA CloseController ==
  ASSUME TypeOK, LockInv, WireInv, CloseInv, Controller PROVE CloseInv'
<1>1. UNCHANGED <<pc, bytes, num, k, current, marred>>
  BY DEF Controller, Shift, Complete, Refuse, thread, call
<1>2. \A c \in Clients : LastStops(c)' = LastStops(c)
  BY <1>1 DEF LastStops, EndsWithStop
<1> SUFFICES ASSUME marred = {}, ~blocked', NEW c \in Clients, num[c] = current, Sent(c)', LastStops(c)
             PROVE  tx' = <<>> /\ IF shift' = <<>> THEN ~open' ELSE shift'[1].stop
  BY <1>1, <1>2 DEF CloseInv, Closed
<1>3. CASE Shift
  <2>1. ~blocked /\ tx # <<>>
    BY <1>3 DEF Shift
  <2>2. ~Sent(c)
    BY <2>1 DEF CloseInv, Closed
  <2>3. pc[c] = "empty" /\ tx' = <<>>
    BY <1>1, <2>2 DEF Sent
  <2>4. tx = <<Token(c)>>
    BY <2>1, <2>3 DEF WireInv, Pending
  <2>5. shift' = <<Token(c)>>
    BY <1>3, <2>4 DEF Shift
  <2>6. Token(c).stop
    BY <2>3 DEF LastStops, Token
  <2> QED BY <2>3, <2>5, <2>6
<1>4. CASE Complete
  <2>1. /\ blocked = blocked' /\ tx' = tx /\ shift # <<>> /\ shift' = <<>>
        /\ open' = ~shift[1].stop
    BY <1>4 DEF Complete
  <2>2. Sent(c)
    BY <1>1, <2>1 DEF Sent
  <2>3. tx = <<>> /\ shift[1].stop
    BY <2>1, <2>2 DEF CloseInv, Closed
  <2> QED BY <2>1, <2>3
<1>5. CASE Refuse
  BY <1>5 DEF Refuse
<1> QED BY <1>3, <1>4, <1>5 DEF Controller

LEMMA CloseAdapter ==
  ASSUME CloseInv, Adapter PROVE CloseInv'
<1>1. UNCHANGED <<pc, bytes, num, k, current>> /\ marred \subseteq marred'
  BY DEF Adapter, AddAdapter, SetDevice, InitController, thread, call, history
<1>2. CASE Flushed
  <2>1. tx' = <<>> /\ shift' = <<>> /\ ~open'
    BY <1>2 DEF Flushed
  <2> QED BY <2>1 DEF CloseInv, Closed
<1>3. CASE UNCHANGED <<hardware, open>>
  <2>1. UNCHANGED <<tx, shift, blocked, open>>
    BY <1>3 DEF hardware
  <2> QED BY <1>1, <2>1 DEF CloseInv, Closed, Sent, LastStops, EndsWithStop
<1> QED BY <1>2, <1>3
        DEF Adapter, AddAdapter, SetDevice, InitController, Reinitialised, NotReinitialised,
            hardware, history

LEMMA CloseRun ==
  ASSUME TypeOK, LockInv, NumInv, CloseInv, NEW c \in Clients, Run(c), pc[c] \in Active
  PROVE  CloseInv'
<1>1. UNCHANGED <<bytes, num, current>>
  BY DEF Run, Lock, Send, BusyPoll, GiveUp, Push, PollEmpty, Recv, Unlock, call, history, Active
<1>2. CASE Fail(c)
  BY <1>2 DEF Fail, CloseInv
<1>3. CASE (Send(c) \/ GiveUp(c) \/ BusyPoll(c) \/ Push(c)) /\ ~Fail(c)
  <2>1. pc'[c] \in {"busy", "push"} \/ (pc'[c] = "empty" /\ tx' # <<>>)
    <3>1. CASE Push(c)
      <4>1. pc'[c] = "empty" /\ tx' = Append(tx, Token(c))
        BY <3>1 DEF Push, Goto, TypeOK
      <4>2. tx \in Seq(Wire) /\ Token(c) \in Wire
        BY TokenFacts DEF TypeOK
      <4>3. tx' # <<>>
        BY <4>1, <4>2
      <4> QED BY <4>1, <4>3
    <3>2. CASE ~Push(c)
      BY <1>3, <3>2 DEF Send, GiveUp, BusyPoll, Goto, TypeOK
    <3> QED BY <3>1, <3>2
  <2>2. ~Sent(c)'
    BY <2>1 DEF Sent
  <2> QED BY <1>1, <2>2, CloseStep DEF Closed
<1>4. CASE (PollEmpty(c) \/ Recv(c)) /\ ~Fail(c)
  <2>1. /\ pc[c] \in {"empty", "recv"} /\ Sent(c)
        /\ UNCHANGED <<tx, shift, blocked, marred, open>>
    BY <1>4 DEF PollEmpty, Recv, Sent, hardware
  <2>2. \/ pc'[c] = "recv" /\ k'[c] = k[c]
        \/ pc'[c] = "send"
        \/ pc'[c] = "unlock" /\ k[c] = Len(bytes[c])
    <3>1. CASE Advance(c)
      <4>1. PICK label \in {"send", "unlock"} :
              pc' = [pc EXCEPT ![c] = label] /\ (label = "unlock" => k[c] = Len(bytes[c]))
        BY <3>1, AdvanceStep
      <4> QED BY <4>1 DEF TypeOK
    <3>2. CASE ~Advance(c)
      BY <1>4, <3>2 DEF PollEmpty, Recv, Goto, TypeOK
    <3> QED BY <3>1, <3>2
  <2>3. num[c] = current
    BY Alone
  <2>4. Sent(c)' /\ LastStops(c)' => LastStops(c)
    BY <1>1, <2>1, <2>2 DEF Sent, LastStops, EndsWithStop
  <2>5. marred' = {} /\ ~blocked' => Closed(c)'
    BY <2>1, <2>3, <2>4 DEF CloseInv, Closed
  <2> QED BY <1>1, <2>5, CloseStep
<1>5. CASE Unlock(c)
  <2>1. /\ pc[c] = "unlock" /\ pc'[c] = "idle"
        /\ UNCHANGED <<tx, shift, blocked, marred, open>>
    BY <1>5 DEF Unlock, Goto, TypeOK, hardware, history
  <2>2. Sent(c) /\ LastStops(c)' = LastStops(c)
    BY <1>1, <2>1 DEF Sent, LastStops, EndsWithStop
  <2>3. marred' = {} /\ ~blocked' => Closed(c)'
    BY <1>1, <2>1, <2>2 DEF CloseInv, Closed
  <2> QED BY <1>1, <2>3, CloseStep
<1> QED BY <1>2, <1>3, <1>4, <1>5 DEF Run, Lock, Active

LEMMA CloseInductive ==
  ASSUME TypeOK, LockInv, WireInv, NumInv, CloseInv, [Next]_vars PROVE CloseInv'
<1>1. CASE UNCHANGED vars
  <2>1. UNCHANGED <<pc, bytes, num, k, current, tx, shift, blocked, marred, open>>
    BY <1>1 DEF vars, thread, call, hardware, history
  <2> QED BY <2>1 DEF CloseInv, Closed, Sent, LastStops, EndsWithStop
<1>2. ASSUME NEW c \in Clients, Call(c) PROVE CloseInv'
  <2>1. /\ UNCHANGED <<k, tx, shift, blocked, marred, open, current>> /\ num'[c] = calls + 1
        /\ \A d \in Clients \ {c} : pc'[d] = pc[d] /\ num'[d] = num[d] /\ bytes'[d] = bytes[d]
    BY <1>2 DEF Call, TypeOK, hardware
  <2>2. num'[c] # current
    BY <2>1 DEF NumInv, TypeOK
  <2> QED BY <2>1, <2>2 DEF CloseInv, Closed, Sent, LastStops, EndsWithStop
<1>3. ASSUME NEW c \in Clients, Lock(c) PROVE CloseInv'
  <2>1. pc[c] = "lock" /\ pc'[c] \in {"send", "oops"} /\ current' = num[c] /\ num' = num
    BY <1>3 DEF Lock, TypeOK, call
  <2>2. \A d \in Clients \ {c} : num[d] # num[c]
    BY <2>1 DEF NumInv
  <2>3. ~Sent(c)'
    BY <2>1 DEF Sent
  <2> QED BY <2>1, <2>2, <2>3 DEF CloseInv, Closed
<1>4. ASSUME NEW c \in Clients, Run(c) PROVE Lock(c) \/ pc[c] \in Active
  BY <1>4 DEF Run, Send, BusyPoll, GiveUp, Push, PollEmpty, Recv, Unlock, Active
<1> QED BY <1>1, <1>2, <1>3, <1>4, CloseController, CloseAdapter, CloseRun DEF Next

LEMMA ClosedAtEnd == IInv /\ NumInv /\ CloseInv => ClosedBetween
<1> SUFFICES ASSUME IInv, NumInv, CloseInv, owner = Nobody, shift = <<>>, marred = {}, ~blocked,
                    NEW c \in Clients, num[c] = current, EndsWithStop(c)
             PROVE  ~open
  BY DEF ClosedBetween
<1>1. pc[c] \notin Active \cup {"oops"}
  BY ClientsAssumption DEF IInv, LockInv
<1>2. pc[c] = "idle"
  BY <1>1 DEF IInv, TypeOK, Labels, Active, NumInv
<1>3. Sent(c) /\ LastStops(c)
  BY <1>2 DEF Sent, LastStops
<1> QED BY <1>3 DEF CloseInv, Closed

\* Once the last transfer has let go of the lock and its bytes are gone, its STOP has
\* closed the bus, unless it failed, its last byte was refused, a re-initialisation
\* cut it, or its last message was empty and had no byte to carry a STOP.
THEOREM XferClosedBetween == Spec => []ClosedBetween
<1>1. IInv /\ NumInv /\ CloseInv /\ [Next]_vars => NumInv' /\ CloseInv'
  BY NumInductive, CloseInductive DEF IInv
<1> QED BY <1>1, Invariance, InitClose, ClosedAtEnd, PTL DEF Spec
=============================================================================
