---------------------------- MODULE MCCurveWalk -----------------------------
(* Small instances of CurveWalk: all falling curves over a few days and    *)
(* temperatures; batches that meet a leap day, the end of a year and the   *)
(* wrap of the day number.                                                 *)
EXTENDS CurveWalk

Rows(days, temps) == [Row -> [dayNum: days, targetTemp: temps]]
FallingCurves == {c \in Rows({1, 2, 9, 200}, {0, 240, 655}) : FallingCurve(c)}

Morning(y, m, d) == [year |-> y, month |-> m, day |-> d, hour |-> 8, min |-> 0]
StartDates == {Morning(20, 2, 25), Morning(20, 4, 2), Morning(21, 12, 21)}
Minutes == {0, 449, 450, 451, 480}
=============================================================================
