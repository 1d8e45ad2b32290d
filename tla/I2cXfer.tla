------------------------------ MODULE I2cXfer ------------------------------
(***************************************************************************)
(* One I2C controller of the bridge (saa7231_i2c.c): the transfers of      *)
(* several threads, byte by byte through the controller's FIFOs, and the   *)
(* registration of the adapter they use.                                   *)
(*                                                                         *)
(* A transfer is the sequence of the bytes its messages put on the bus; a  *)
(* byte is told by its transfer and its place in it.  The polling loops of *)
(* send and recv end when their condition holds or, at any time before     *)
(* that, by their bound.                                                   *)
(***************************************************************************)
EXTENDS Naturals, Sequences

CONSTANTS
  Clients,     \* threads that use the adapter
  Transfers,   \* the transfers they ask for
  BusyPolls,   \* looks of saa7231_i2c_send at a busy FIFO (5)
  TxDepth,     \* bytes in TX_FIFO when TX_FIFO_FULL is raised
  MaxXfers,    \* bound: transfers begun
  MaxRefused,  \* bound: bytes the devices refuse
  Nobody

Byte == [read : BOOLEAN, stop : BOOLEAN]

ASSUME TransfersAssumption == Transfers \subseteq Seq(Byte) \ {<<>>}
ASSUME BoundsAssumption ==
  /\ BusyPolls \in Nat \ {0} /\ TxDepth \in Nat \ {0}
  /\ MaxXfers \in Nat /\ MaxRefused \in Nat
ASSUME ClientsAssumption == Nobody \notin Clients

VARIABLES
  adapter,  \* saa7231_i2c_init: "absent", "added", "set", "ready"
  owner,    \* of i2c_lock
  pc,       \* of every client: the step to come
  bytes,    \* of every client: its transfer
  num,      \* and the transfer's number
  device,   \* and whether i2c->saa7231 was set when it was read
  k,        \* and the byte in hand
  polls,    \* and the counter of send's loop over a busy FIFO
  err,      \* and what xfer is about to return
  tx, rx,   \* the FIFOs
  shift,    \* the engine's shift register, a sequence of at most one byte
  blocked,  \* TX_FIFO_BLOCK and RX_FIFO_BLOCK
  calls,    \* history: transfers begun
  refused,  \* history: bytes refused
  current,  \* history: number of the last transfer that got the lock
  left,     \* history: its bytes that left TX_FIFO in order
  acked,    \* history: and those the device took
  got,      \* history: the places of its bytes read and handed over
  own,      \* history: no other byte left TX_FIFO or was handed over
  marred,   \* history: "leftover", a transfer failed since the last reset of
            \* the FIFOs; "reinit", a reset came inside the current transfer
  open      \* history: bytes on the bus since the last STOP or reset

hardware == <<tx, rx, shift, blocked>>
moved == <<left, acked, got, own>>
history == <<calls, refused, current, moved, marred, open>>
call == <<bytes, num, device>>
thread == <<pc, call, k, polls, err>>
vars == <<adapter, owner, thread, hardware, history>>

Init ==
  /\ adapter = "absent"
  /\ owner = Nobody
  /\ pc = [c \in Clients |-> "idle"]
  /\ bytes = [c \in Clients |-> <<>>]
  /\ num = [c \in Clients |-> 0]
  /\ device = [c \in Clients |-> FALSE]
  /\ k = [c \in Clients |-> 1]
  /\ polls = [c \in Clients |-> 0]
  /\ err = [c \in Clients |-> "ok"]
  /\ tx = <<>> /\ rx = <<>> /\ shift = <<>>
  /\ blocked = FALSE
  /\ calls = 0 /\ refused = 0 /\ current = 0
  /\ left = 0 /\ acked = 0 /\ got = {}
  /\ own = TRUE
  /\ marred = {}
  /\ open = FALSE

-----------------------------------------------------------------------------
(* The controller and the devices on the bus (external).                   *)

Token(c) == [num |-> num[c], k |-> k[c], read |-> bytes[c][k[c]].read, stop |-> bytes[c][k[c]].stop]

\* The engine takes the next byte; TX_FIFO_EMPTY may now be set.
Shift ==
  /\ tx # <<>> /\ shift = <<>> /\ ~blocked
  /\ shift' = <<Head(tx)>>
  /\ tx' = Tail(tx)
  /\ IF Head(tx).num = current /\ Head(tx).k = left + 1
     THEN left' = left + 1 /\ UNCHANGED own
     ELSE own' = FALSE /\ UNCHANGED left
  /\ UNCHANGED <<adapter, owner, thread, rx, blocked>>
  /\ UNCHANGED <<calls, refused, current, acked, got, marred, open>>

\* The byte is on the bus, and its answer in RX_FIFO.
Complete ==
  /\ shift # <<>>
  /\ shift' = <<>>
  /\ rx' = IF shift[1].read THEN Append(rx, shift[1]) ELSE rx
  /\ acked' = IF shift[1].num = current THEN acked + 1 ELSE acked
  /\ open' = ~shift[1].stop
  /\ UNCHANGED <<adapter, owner, thread, tx, blocked>>
  /\ UNCHANGED <<calls, refused, current, left, got, own, marred>>

\* No device takes the byte: the FIFOs block.
Refuse ==
  /\ shift # <<>> /\ refused < MaxRefused
  /\ shift' = <<>>
  /\ blocked' = TRUE
  /\ refused' = refused + 1
  /\ open' = TRUE
  /\ UNCHANGED <<adapter, owner, thread, tx, rx, calls, current, moved, marred>>

Controller == Shift \/ Complete \/ Refuse

\* SAA7231_I2C_TXBUSY and SAA7231_I2C_RXBUSY.
TxBusy == blocked \/ Len(tx) >= TxDepth
RxBusy == blocked \/ rx = <<>>

-----------------------------------------------------------------------------
(* saa7231_i2c_hwinit.                                                     *)

NothingMoved == left' = 0 /\ acked' = 0 /\ got' = {} /\ own' = TRUE

Flushed ==
  /\ tx' = <<>> /\ rx' = <<>> /\ shift' = <<>>
  /\ NothingMoved
  /\ open' = FALSE

\* The reset went through, and the FIFOs are blocked again or not.
Reinitialised == Flushed /\ blocked' \in {FALSE, blocked}

\* One of its checks failed, before the reset or after it.
NotReinitialised ==
  \/ UNCHANGED <<hardware, moved, open>>
  \/ Flushed /\ UNCHANGED blocked

-----------------------------------------------------------------------------
(* saa7231_i2c_xfer, send and recv.                                        *)

\* The adapter is found and i2c->saa7231 read, before the lock is taken.
Call(c) ==
  /\ pc[c] = "idle" /\ adapter # "absent" /\ calls < MaxXfers
  /\ pc' = [pc EXCEPT ![c] = "lock"]
  /\ calls' = calls + 1
  /\ num' = [num EXCEPT ![c] = calls + 1]
  /\ \E t \in Transfers : bytes' = [bytes EXCEPT ![c] = t]
  /\ device' = [device EXCEPT ![c] = adapter # "added"]
  /\ UNCHANGED <<adapter, owner, k, polls, err, hardware, refused, current, moved, marred, open>>

\* Faulty variant: the lock is not taken.
NoLock(c) == TRUE

\* mutex_lock(&i2c->i2c_lock).
LockFree(c) == owner = Nobody

\* The first register access is through i2c->saa7231; a thread that oopses keeps the lock.
\* It sets I2C_CONTROL's reset bit, as hwinit does, but neither waits for it nor looks at
\* the outcome: the controller has reset its FIFOs before the first byte, or not at all.
Lock(c) ==
  /\ pc[c] = "lock" /\ LockFree(c)
  /\ owner' = c
  /\ pc' = [pc EXCEPT ![c] = IF device[c] THEN "send" ELSE "oops"]
  /\ k' = [k EXCEPT ![c] = 1]
  /\ err' = [err EXCEPT ![c] = "ok"]
  /\ current' = num[c]
  /\ \/ device[c] /\ Reinitialised /\ marred' = {}
     \/ NothingMoved /\ UNCHANGED <<hardware, open>> /\ marred' = marred \ {"reinit"}
  /\ UNCHANGED <<adapter, call, polls, calls, refused>>

Goto(c, label) == pc' = [pc EXCEPT ![c] = label]

\* Bailing out leaves the FIFOs as they are, and sends no STOP.
Fail(c) ==
  /\ Goto(c, "unlock")
  /\ err' = [err EXCEPT ![c] = "error"]
  /\ marred' = marred \cup {"leftover"}

\* send: a first look at the FIFO.
Send(c) ==
  /\ pc[c] = "send"
  /\ Goto(c, IF TxBusy THEN "busy" ELSE "push")
  /\ polls' = [polls EXCEPT ![c] = 0]
  /\ UNCHANGED <<adapter, owner, call, k, err, hardware, history>>

\* Faulty variant: one look too many.
GivesUpLate(c) == polls[c] = BusyPolls + 1
GivesUp(c) == polls[c] = BusyPolls

\* Every look that finds the FIFO busy re-initialises the controller. After the last
\* one the byte is sent all the same.
BusyPoll(c) ==
  /\ pc[c] = "busy" /\ ~GivesUp(c)
  /\ IF ~TxBusy
     THEN Goto(c, "push") /\ UNCHANGED <<polls, err, hardware, moved, marred, open>>
     ELSE \/ /\ Reinitialised
             /\ polls' = [polls EXCEPT ![c] = @ + 1]
             /\ marred' = (marred \ {"leftover"}) \cup (IF k[c] > 1 THEN {"reinit"} ELSE {})
             /\ UNCHANGED <<pc, err>>
          \/ NotReinitialised /\ Fail(c) /\ UNCHANGED polls
  /\ UNCHANGED <<adapter, owner, call, k, calls, refused, current>>

GiveUp(c) ==
  /\ pc[c] = "busy" /\ GivesUp(c)
  /\ Goto(c, "push")
  /\ UNCHANGED <<adapter, owner, call, k, polls, err, hardware, history>>

Push(c) ==
  /\ pc[c] = "push"
  /\ tx' = Append(tx, Token(c))
  /\ Goto(c, "empty")
  /\ UNCHANGED <<adapter, owner, call, k, polls, err, rx, shift, blocked, history>>

\* Faulty variant: the last byte is left out.
MoreButOne(c) == k[c] + 1 < Len(bytes[c])
More(c) == k[c] < Len(bytes[c])

\* The byte is done: the next one, or the end of the transfer.
Advance(c) ==
  IF More(c)
  THEN k' = [k EXCEPT ![c] = @ + 1] /\ Goto(c, "send")
  ELSE Goto(c, "unlock") /\ UNCHANGED k

\* The poll of TX_FIFO_EMPTY ends.
PollEmpty(c) ==
  /\ pc[c] = "empty"
  /\ \/ /\ tx = <<>>
        /\ IF bytes[c][k[c]].read THEN Goto(c, "recv") /\ UNCHANGED k ELSE Advance(c)
        /\ UNCHANGED <<err, marred>>
     \/ tx # <<>> /\ Fail(c) /\ UNCHANGED k
  /\ UNCHANGED <<adapter, owner, call, polls, hardware, calls, refused, current, moved, open>>

\* recv: the poll of RX_FIFO_EMPTY ends.
Recv(c) ==
  /\ pc[c] = "recv"
  /\ \/ /\ ~RxBusy
        /\ rx' = Tail(rx)
        /\ IF Head(rx).num = current /\ Head(rx).k = k[c]
           THEN got' = got \cup {k[c]} /\ UNCHANGED own
           ELSE own' = FALSE /\ UNCHANGED got
        /\ Advance(c)
        /\ UNCHANGED <<err, marred>>
     \/ RxBusy /\ Fail(c) /\ UNCHANGED <<k, rx, got, own>>
  /\ UNCHANGED <<adapter, owner, call, polls, tx, shift, blocked>>
  /\ UNCHANGED <<calls, refused, current, left, acked, open>>

\* Faulty variant: the error path returns with the lock held.
KeptOnError(c) == IF err[c] = "error" THEN c ELSE Nobody
Released(c) == Nobody

Unlock(c) ==
  /\ pc[c] = "unlock"
  /\ Goto(c, "idle")
  /\ owner' = Released(c)
  /\ k' = [k EXCEPT ![c] = 1]
  /\ polls' = [polls EXCEPT ![c] = 0]
  /\ err' = [err EXCEPT ![c] = "ok"]
  /\ UNCHANGED <<adapter, call, hardware, history>>

Run(c) ==
  \/ Lock(c) \/ Send(c) \/ BusyPoll(c) \/ GiveUp(c) \/ Push(c)
  \/ PollEmpty(c) \/ Recv(c) \/ Unlock(c)

-----------------------------------------------------------------------------
(* saa7231_i2c_init, for this bus.                                         *)

AddAdapter ==
  /\ adapter = "absent" /\ adapter' = "added"
  /\ UNCHANGED <<owner, thread, hardware, history>>

SetDevice ==
  /\ adapter = "added" /\ adapter' = "set"
  /\ UNCHANGED <<owner, thread, hardware, history>>

\* The first hwinit, without the lock and with its result ignored.
InitController ==
  /\ adapter = "set" /\ adapter' = "ready"
  /\ Reinitialised \/ NotReinitialised
  /\ marred' = IF owner = Nobody THEN marred ELSE marred \cup {"reinit"}
  /\ UNCHANGED <<owner, thread, calls, refused, current>>

Adapter == AddAdapter \/ SetDevice \/ InitController

-----------------------------------------------------------------------------
Next == Controller \/ Adapter \/ \E c \in Clients : Call(c) \/ Run(c)

Spec == Init /\ [][Next]_vars

\* The loops are bounded, and i2c_lock is granted: the calls are finitely many.
FairSpec == Spec /\ \A c \in Clients : WF_vars(Run(c))

-----------------------------------------------------------------------------
(* Properties.                                                             *)

Labels == {"idle", "lock", "send", "busy", "push", "empty", "recv", "unlock", "oops"}
Wire == [num : Nat, k : Nat, read : BOOLEAN, stop : BOOLEAN]

\* Types; in particular the driver never writes to a full FIFO.
TypeOK ==
  /\ adapter \in {"absent", "added", "set", "ready"}
  /\ owner \in Clients \cup {Nobody}
  /\ pc \in [Clients -> Labels]
  /\ bytes \in [Clients -> Transfers \cup {<<>>}]
  /\ num \in [Clients -> Nat]
  /\ device \in [Clients -> BOOLEAN]
  /\ k \in [Clients -> Nat \ {0}]
  /\ polls \in [Clients -> 0 .. BusyPolls]
  /\ err \in [Clients -> {"ok", "error"}]
  /\ tx \in Seq(Wire) /\ Len(tx) <= TxDepth
  /\ rx \in Seq(Wire)
  /\ shift \in Seq(Wire) /\ Len(shift) <= 1
  /\ blocked \in BOOLEAN
  /\ calls \in Nat /\ refused \in Nat /\ current \in Nat
  /\ left \in Nat /\ acked \in Nat
  /\ got \subseteq Nat
  /\ own \in BOOLEAN
  /\ marred \subseteq {"leftover", "reinit"}
  /\ open \in BOOLEAN

Reads(c) == {i \in DOMAIN bytes[c] : bytes[c][i].read}

\* A transfer that returns its number of messages has put exactly its bytes on the bus, in
\* order, none but the last of them refused, and has handed over exactly what was
\* read for them: unless the controller was re-initialised inside it, or an
\* earlier transfer failed and no re-initialisation came since.
SuccessIsExact ==
  \A c \in Clients :
    pc[c] = "unlock" /\ err[c] = "ok" /\ marred = {} =>
      /\ own
      /\ left = Len(bytes[c])
      /\ acked >= Len(bytes[c]) - 1
      /\ got = Reads(c)

EndsWithStop(c) == bytes[c] # <<>> /\ bytes[c][Len(bytes[c])].stop

\* After a transfer whose last message is not empty the bus is closed by a STOP,
\* unless it failed, its last byte was refused or a re-initialisation cut it.
ClosedBetween ==
  /\ owner = Nobody /\ tx = <<>> /\ shift = <<>>
  /\ marred = {} /\ ~blocked
  /\ \E c \in Clients : num[c] = current /\ EndsWithStop(c)
  => ~open

\* Every transfer returns, whatever the devices do, unless a thread has died with the lock.
Returns ==
  \A c \in Clients : pc[c] # "idle" ~> pc[c] = "idle" \/ \E d \in Clients : pc[d] = "oops"
=============================================================================
