----------------------------- MODULE MCCfgStore -----------------------------
(* Instances of CfgStore: save times with and without a zero part. *)
EXTENDS CfgStore

Afternoon == <<20, 8, 3, 14, 20, 5>>
FullHour  == <<20, 8, 3, 14, 0, 5>>

OneBody == {"sent"}
BothTimes == {Afternoon, FullHour}
=============================================================================
