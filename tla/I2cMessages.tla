---------------------------- MODULE I2cMessages ----------------------------
(***************************************************************************)
(* What the two loops of saa7231_i2c_xfer put on the bus for a sequence of *)
(* messages: the address with START, then a byte for each of the message,  *)
(* zero for a read.                                                        *)
(***************************************************************************)
EXTENDS Naturals, SequencesExt

Message == [read : BOOLEAN, len : Nat]

\* The address is sent, never received. STOP goes with the last byte of the last message, if it has one.
MessageBytes(msgs, i) ==
  <<[read |-> FALSE, stop |-> FALSE]>> \o
  [j \in 1 .. msgs[i].len |->
     [read |-> msgs[i].read, stop |-> i = Len(msgs) /\ j = msgs[i].len]]

BusBytes(msgs) == FlattenSeq([i \in 1 .. Len(msgs) |-> MessageBytes(msgs, i)])
=============================================================================
