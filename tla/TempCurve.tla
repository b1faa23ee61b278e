----------------------------- MODULE TempCurve -----------------------------
(***************************************************************************)
(* The pure lookups of envir.c that turn the age of the herd and the       *)
(* measured temperature into a target temperature, a ventilation level and *)
(* a DAC value.  Temperatures are in 0.1 degree; the sensor average is in  *)
(* 0.01 degree.  C integer widths are kept: uint8_t for days, uint16_t for *)
(* temperatures.                                                           *)
(***************************************************************************)
EXTENDS Integers, FiniteSetsExt

CONSTANTS
  TARGET_TEMP_NUM,    \* rows of the target temperature curve (7 in the code)
  CONTROL_LEVEL_MAX   \* ventilation levels (7 in the code)

ASSUME CurveAssumption ==
  /\ TARGET_TEMP_NUM \in Nat /\ TARGET_TEMP_NUM >= 2
  /\ CONTROL_LEVEL_MAX \in Nat /\ CONTROL_LEVEL_MAX >= 1

U8 == 256
U16 == 65536

Row == 0 .. TARGET_TEMP_NUM - 1
Level == 0 .. CONTROL_LEVEL_MAX - 1

(* The level that Ctroler_Get_AirCtrlLevel returns for "minimum            *)
(* ventilation".                                                           *)
MinVent == 255

-----------------------------------------------------------------------------
(* The rows above row 0 whose day has been reached; rows with day 0 are    *)
(* unset and skipped.                                                      *)
RowsReached(row, dayNum) ==
  {i \in Row \ {0} : row[i].dayNum # 0 /\ dayNum >= row[i].dayNum}

(* Ctroler_Get_DayNumLevel: the highest row reached, row 0 by default.     *)
DayNumLevel(row, dayNum) ==
  IF RowsReached(row, dayNum) = {} THEN 0 ELSE Max(RowsReached(row, dayNum))

(* Cortex-M3 integer division: a zero divisor yields zero.                 *)
Quot(a, b) == IF b = 0 THEN 0 ELSE a \div b

(* (uint16_t)date for a float: a negative value is undefined behaviour,    *)
(* and the build either saturates it at zero or keeps its low 16 bits.     *)
FloatToU16(x) == IF x < 0 THEN {0, x % U16} ELSE {x % U16}

(* Faulty: the days of a segment are counted from its first row.           *)
TargetTempersBackwards(row, dayNum) ==
  LET i == DayNumLevel(row, dayNum) IN
  IF i = TARGET_TEMP_NUM - 1
  THEN {row[i].targetTemp}
  ELSE LET temp1 == row[i].targetTemp
           temp2 == row[i + 1].targetTemp
           deltDay == (row[i + 1].dayNum - row[i].dayNum) % U8
       IN {temp2 + Quot(temp1 - temp2, deltDay) * (dayNum - row[i].dayNum)}

(* Faulty: the end of the segment is not scaled like the slope.            *)
InterpolatedUnscaled(temp1, temp2, day1, day2, dayNum) ==
  LET deltTemp == (temp1 - temp2) % U16
      deltDay == (day2 - day1) % U8
      date == Quot(deltTemp * 100, deltDay) * (day2 - dayNum) + temp2
  IN {d \div 100 : d \in FloatToU16(date)}

(* The interpolation between two rows: unsigned differences, a truncating  *)
(* division and a cast.  The set holds the values that can be returned.    *)
Interpolated(temp1, temp2, day1, day2, dayNum) ==
  LET deltTemp == (temp1 - temp2) % U16
      deltDay == (day2 - day1) % U8
      date == Quot(deltTemp * 100, deltDay) * (day2 - dayNum) + temp2 * 100
  IN {d \div 100 : d \in FloatToU16(date)}

(* Controler_Get_TargetTemper: the values that can be returned for dayNum. *)
TargetTempers(row, dayNum) ==
  LET i == DayNumLevel(row, dayNum) IN
  CASE i = TARGET_TEMP_NUM - 1 \/ dayNum = row[i].dayNum -> {row[i].targetTemp}
    [] i # TARGET_TEMP_NUM - 1 /\ dayNum # row[i].dayNum
         /\ dayNum = row[i + 1].dayNum -> {row[i + 1].targetTemp}
    [] OTHER -> Interpolated(row[i].targetTemp, row[i + 1].targetTemp,
                             row[i].dayNum, row[i + 1].dayNum, dayNum)

(* The highest temperature whose hundredfold fits in uint16_t.             *)
TempLimit == 655

(* A curve as the operator means it: every row set, days rising, target    *)
(* temperatures falling, none above 65.5 degrees.                          *)
FallingCurve(row) ==
  /\ \A i \in Row : row[i].dayNum # 0 /\ row[i].targetTemp <= TempLimit
  /\ \A i, j \in Row : i < j => /\ row[i].dayNum < row[j].dayNum
                                /\ row[i].targetTemp >= row[j].targetTemp

-----------------------------------------------------------------------------
(* Ctroler_Get_AirCtrlLevel.  shift[i] is the temperShift of level i; a    *)
(* zero shift marks an unset level.                                        *)
LevelsReached(shift, target, curTemper) ==
  {i \in Level \ {0} : shift[i] # 0 /\ curTemper >= (target + shift[i]) % U16}

AirCtrlLevel(shift, target, avgTemp) ==
  LET curTemper == avgTemp \div 10
      reached == LevelsReached(shift, target, curTemper)
  IN CASE curTemper <= target -> MinVent
       [] curTemper > target /\ reached = {} -> 0
       [] OTHER -> Max(reached)

(* The values the analogue output can take: off, or 320 to 2100 mV.        *)
DacRange == {0} \union 320 .. 2100

(* Faulty: no limit.                                                       *)
FrefanDacOutUnlimited(speed) == IF speed = 0 THEN 0 ELSE 300 + (speed * 200) \div 10

(* Ctroler_Get_FrefanDacOut: speed in percent to DAC millivolts.           *)
FrefanDacOut(speed) ==
  IF speed = 0 THEN 0
  ELSE IF 300 + (speed * 200) \div 10 > 2100 THEN 2100
       ELSE 300 + (speed * 200) \div 10

(* The comparison of the clock with a configured time window, made by      *)
(* Ctroler_Get_ColdPad_Sta and Ctroler_Get_Light_Sta on (hour << 8) + min. *)
InWindow(clock, enTime, disenTime) ==
  LET curTime == clock.hour * 256 + clock.min
  IN curTime >= enTime /\ curTime <= disenTime
=============================================================================
