----------------------------- MODULE MCFieldBus -----------------------------
(* Two output values, a reading of the meter at every second tick.         *)
EXTENDS FieldBus
=============================================================================
