--------------------------- MODULE MCAlarmDetect ----------------------------
(* Small instances of AlarmDetect for TLC.                                 *)
EXTENDS AlarmDetect

(* With targets of 30.0 and 31.0 degrees: low at 31.0 only; recovered from *)
(* low at 30.0 only; between the limits of the high alarm; high at 30.0    *)
(* only.                                                                   *)
Temps == {2250, 3050, 3350, 3550}
TwoTargets == {300, 310}
=============================================================================
