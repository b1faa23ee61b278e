----------------------------- MODULE CurveWalk ------------------------------
(***************************************************************************)
(* The target temperature over a batch.  The clock moves on, every pass    *)
(* computes the age of the herd from it (Ctroler_Get_CurDayNum) and reads  *)
(* the curve (Controler_Get_TargetTemper).                                 *)
(***************************************************************************)
EXTENDS TempCurve, RunDays

CONSTANTS
  Curves,      \* curves that the cloud can send
  Starts,      \* save times of the room configuration
  TimesOfDay,  \* minutes of the day at which a pass is looked at
  LAST         \* bound: minutes looked at after the start

Time == [year: Nat, month: 1 .. 12, day: Nat, hour: 0 .. 23, min: 0 .. 59]

ASSUME CurveWalkAssumption ==
  /\ Curves \subseteq [Row -> [dayNum: 0 .. U8 - 1, targetTemp: 0 .. U16 - 1]]
  /\ Starts \subseteq Time
  /\ TimesOfDay \subseteq 0 .. 1439
  /\ LAST \in Nat

VARIABLES
  row,            \* targetTempArry
  start,          \* m_Room_Cfg_t.saveTime
  now,            \* ds1302Data
  dayNum,         \* curDayNum
  curTargetTemp,
  elapsed         \* history: minutes from start to now
vars == <<row, start, now, dayNum, curTargetTemp, elapsed>>

(* The start of a pass (envir.c 1009-1012) at the time t.                  *)
DayAndTarget(t) ==
  /\ dayNum' = Ctroler_Get_CurDayNum(start, t)
  /\ curTargetTemp' \in TargetTempers(row, dayNum')

Init ==
  /\ row \in Curves
  /\ start \in Starts
  /\ now = start
  /\ dayNum = Ctroler_Get_CurDayNum(start, start)
  /\ curTargetTemp \in TargetTempers(row, dayNum)
  /\ elapsed = 0

(* The clock chip moves on within the day or to the next date.             *)
MonthLength(t) ==
  IF t.month = 12 THEN 31
  ELSE DaysOfMonths(2000 + t.year, t.month + 1) - DaysOfMonths(2000 + t.year, t.month)
OnDate(t, y, m, d) == [year |-> y, month |-> m, day |-> d, hour |-> t.hour, min |-> t.min]
NextDate(t) ==
  IF t.day < MonthLength(t) THEN OnDate(t, t.year, t.month, t.day + 1)
  ELSE IF t.month < 12      THEN OnDate(t, t.year, t.month + 1, 1)
  ELSE OnDate(t, t.year + 1, 1, 1)
At(t, m) == [t EXCEPT !.hour = m \div 60, !.min = m % 60]
MinuteOfDay(t) == t.hour * 60 + t.min

PassToday(m) ==
  /\ elapsed < LAST
  /\ m > MinuteOfDay(now)
  /\ now' = At(now, m)
  /\ elapsed' = elapsed + m - MinuteOfDay(now)
  /\ DayAndTarget(now')
  /\ UNCHANGED <<row, start>>

PassOnNextDate(m) ==
  /\ elapsed < LAST
  /\ now' = At(NextDate(now), m)
  /\ elapsed' = elapsed + m - MinuteOfDay(now) + 1440
  /\ DayAndTarget(now')
  /\ UNCHANGED <<row, start>>

Next == \E m \in TimesOfDay : PassToday(m) \/ PassOnNextDate(m)

Spec == Init /\ [][Next]_vars

-----------------------------------------------------------------------------
(* Every pass computes values of the widths of curDayNum and curTargetTemp.*)
TypeOK ==
  /\ row \in Curves
  /\ start \in Time
  /\ now \in Time
  /\ dayNum \in 0 .. U8 - 1
  /\ curTargetTemp \in 0 .. U16 - 1

(* Controler_Get_TargetTemper interpolates: from the first day of a        *)
(* falling curve on, the target lies between the temperatures of the two   *)
(* rows around the day, in spite of the unsigned differences, the          *)
(* truncating division and the casts.                                      *)
TargetWithinCurve ==
  (FallingCurve(row) /\ row[0].dayNum <= dayNum) =>
    LET i == DayNumLevel(row, dayNum) IN
    IF i = TARGET_TEMP_NUM - 1
    THEN curTargetTemp = row[i].targetTemp
    ELSE row[i + 1].targetTemp <= curTargetTemp /\ curTargetTemp <= row[i].targetTemp

(* A higher day number never raises the target of a falling curve, within  *)
(* a segment and across its rows.                                          *)
TargetNeverRises ==
  [][(FallingCurve(row) /\ row[0].dayNum <= dayNum /\ dayNum <= dayNum')
       => curTargetTemp' <= curTargetTemp]_vars

(* Within the year of the start Ctroler_Get_CurDayNum counts every day    *)
(* once: from a pass to one at the same minute of a later day the number   *)
(* rises by the days that passed, through the lengths of the months, the   *)
(* 29th of February and the wrap at 256.  Which number the first day has   *)
(* and at which minute the number changes is left open.                    *)
DayNumAdvances ==
  [][(now'.year = start.year /\ MinuteOfDay(now') = MinuteOfDay(now))
       => dayNum' = (dayNum + (elapsed' - elapsed) \div 1440) % U8]_vars
=============================================================================
