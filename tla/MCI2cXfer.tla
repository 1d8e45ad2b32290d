----------------------------- MODULE MCI2cXfer -----------------------------
(***************************************************************************)
(* Model-checking instance of I2cXfer. The transfers are the tuner's, as   *)
(* a328_tuner_set_params makes them (register 0x01 is read and written     *)
(* back), and the probe of a device by an empty message.                   *)
(***************************************************************************)
EXTENDS I2cXfer

M == INSTANCE I2cMessages

Write(n) == [read |-> FALSE, len |-> n]
Read(n) == [read |-> TRUE, len |-> n]

TunerTransfers == {M!BusBytes(t) : t \in {<<Write(1), Read(1)>>, <<Write(2)>>, <<Write(0)>>}}
=============================================================================
