--------------------------- MODULE TempCurveProofs ---------------------------
(***************************************************************************)
(* Facts about the lookups of TempCurve, for every curve and every number  *)
(* of rows and levels.                                                     *)
(***************************************************************************)
EXTENDS TempCurve, WellFoundedInduction, TLAPS

(* A non-empty set of naturals below n has a maximum, and Max is it.       *)
LEMMA MaxOfBounded ==
  ASSUME NEW n \in Nat, NEW S \in SUBSET (0 .. n), S # {}
  PROVE  /\ Max(S) \in S
         /\ \A y \in S : Max(S) >= y
<1> DEFINE T == {n - x : x \in S}
<1>1. T \subseteq Nat /\ T # {}
  <2>1. \A x \in S : n - x \in Nat
    OBVIOUS
  <2>2. PICK s \in S : TRUE
    OBVIOUS
  <2>3. n - s \in T
    OBVIOUS
  <2>4. T \subseteq Nat
    BY <2>1
  <2> QED BY <2>3, <2>4
<1> DEFINE R == OpToRel(<, Nat)
<1>2. \E t \in T : \A u \in T : ~(<<u, t>> \in R)
  <2> HIDE DEF T
  <2> QED BY <1>1, NatLessThanWellFounded, WFMin
<1>3. PICK t \in T : \A u \in T : ~(<<u, t>> \in R)
  BY <1>2
<1>4. PICK x \in S : t = n - x
  BY <1>3
<1>5. \A y \in S : x >= y
  <2>1. SUFFICES ASSUME NEW y \in S, y > x PROVE FALSE
    OBVIOUS
  <2>2. n - y \in T /\ n - y \in Nat /\ t \in Nat /\ n - y < t
    BY <2>1, <1>4
  <2>3. <<n - y, t>> \in R
    BY <2>2 DEF OpToRel
  <2> QED BY <2>2, <2>3, <1>3
<1> QED BY <1>5 DEF Max

-----------------------------------------------------------------------------
(* Ctroler_Get_DayNumLevel never leaves the table, and it finds the last   *)
(* row that has been reached: no later set row is due.                     *)
THEOREM DayNumLevelIsLastReached ==
  ASSUME NEW row, NEW dayNum
  PROVE  /\ DayNumLevel(row, dayNum) \in Row
         /\ \A i \in RowsReached(row, dayNum) : i <= DayNumLevel(row, dayNum)
         /\ DayNumLevel(row, dayNum) # 0
              => DayNumLevel(row, dayNum) \in RowsReached(row, dayNum)
<1> DEFINE S == RowsReached(row, dayNum)
<1>1. CASE S = {}
  BY <1>1, CurveAssumption DEF DayNumLevel, Row
<1>2. CASE S # {}
  <2>1. S \in SUBSET (0 .. TARGET_TEMP_NUM - 1) /\ TARGET_TEMP_NUM - 1 \in Nat
    BY CurveAssumption DEF RowsReached, Row
  <2>2. Max(S) \in S /\ \A y \in S : Max(S) >= y
    <3> HIDE DEF S
    <3> QED BY <1>2, <2>1, MaxOfBounded
  <2>3. DayNumLevel(row, dayNum) = Max(S)
    BY <1>2 DEF DayNumLevel
  <2>4. Max(S) \in Row /\ \A y \in S : y <= Max(S)
    BY <2>1, <2>2 DEF Row
  <2> QED BY <2>2, <2>3, <2>4
<1> QED BY <1>1, <1>2

(* Ctroler_Get_AirCtrlLevel returns 0xff exactly when the target is not    *)
(* exceeded, and otherwise an index of airCtrllevel that no level reached  *)
(* by the temperature is above.                                            *)
THEOREM AirCtrlLevelIsHighestReached ==
  ASSUME NEW shift, NEW target \in Nat, NEW avgTemp \in Nat
  PROVE  LET lev == AirCtrlLevel(shift, target, avgTemp) IN
         /\ lev \in Level \union {MinVent}
         /\ avgTemp \div 10 <= target => lev = MinVent
         /\ avgTemp \div 10 > target =>
              /\ lev \in Level
              /\ \A i \in LevelsReached(shift, target, avgTemp \div 10) : i <= lev
<1> DEFINE c == avgTemp \div 10
           S == LevelsReached(shift, target, c)
           lev == AirCtrlLevel(shift, target, avgTemp)
<1>0. c \in Int
  OBVIOUS
<1>1. CASE c <= target
  <2>1. lev = MinVent
    BY <1>1 DEF AirCtrlLevel
  <2> QED BY <2>1, <1>0, <1>1
<1>2. CASE c > target /\ S = {}
  <2>1. lev = 0
    BY <1>0, <1>2 DEF AirCtrlLevel
  <2> QED BY <2>1, <1>0, <1>2, CurveAssumption DEF Level
<1>3. CASE c > target /\ S # {}
  <2>1. S \in SUBSET (0 .. CONTROL_LEVEL_MAX - 1) /\ CONTROL_LEVEL_MAX - 1 \in Nat
    BY CurveAssumption DEF LevelsReached, Level
  <2>2. Max(S) \in S /\ \A y \in S : Max(S) >= y
    <3> HIDE DEF S
    <3> QED BY <1>3, <2>1, MaxOfBounded
  <2>3. lev = Max(S)
    BY <1>0, <1>3 DEF AirCtrlLevel
  <2>4. \A y \in S : y <= Max(S)
    BY <2>1, <2>2
  <2> QED BY <1>0, <1>3, <2>1, <2>2, <2>3, <2>4 DEF Level
<1> QED BY <1>0, <1>1, <1>2, <1>3

(* Ctroler_Get_FrefanDacOut stays within the range of the DAC.             *)
THEOREM FrefanDacOutType ==
  ASSUME NEW speed \in Nat
  PROVE  FrefanDacOut(speed) \in DacRange
<1>1. speed # 0 => (speed * 200) \div 10 >= 20
  OBVIOUS
<1> QED BY <1>1 DEF FrefanDacOut, DacRange

-----------------------------------------------------------------------------
LEMMA Widths == U8 \in Nat /\ U16 \in Nat /\ U8 > 0 /\ U16 > 0
BY DEF U8, U16

LEMMA ModRange ==
  ASSUME NEW x \in Int, NEW n \in Nat, n > 0
  PROVE  x % n \in 0 .. n - 1
OBVIOUS

(* The cast of the interpolated value yields a uint16_t.                   *)
LEMMA CastRange ==
  ASSUME NEW x \in Int
  PROVE  \A d \in FloatToU16(x) : d \div 100 \in 0 .. U16 - 1
<1>1. x % U16 \in 0 .. U16 - 1 /\ 0 \in 0 .. U16 - 1
  BY ModRange, SMTT(30) DEF U16
<1>2. \A d \in FloatToU16(x) : d \in 0 .. U16 - 1
  BY <1>1, Zenon DEF FloatToU16
<1> SUFFICES ASSUME NEW d \in FloatToU16(x)
             PROVE  d \div 100 \in 0 .. U16 - 1
  OBVIOUS
<1>3. d \in Nat /\ d <= 65535
  <2>1. d \in 0 .. U16 - 1
    BY <1>2, Zenon
  <2> QED BY ONLY <2>1 DEF U16
<1>4. d \div 100 \in Nat /\ d \div 100 <= d
  BY ONLY <1>3, SMTT(30)
<1> QED BY <1>3, <1>4, SMTT(30) DEF U16

LEMMA DateInt ==
  ASSUME NEW a \in Int, NEW b \in Nat, NEW c \in Int, NEW d \in Int
  PROVE  Quot(a, b) * c + d \in Int
<1>1. Quot(a, b) \in Int
  BY DEF Quot
<1>2. \A q \in Int : q * c + d \in Int
  OBVIOUS
<1> QED BY <1>1, <1>2

LEMMA InterpolatedType ==
  ASSUME NEW temp1 \in 0 .. U16 - 1, NEW temp2 \in 0 .. U16 - 1,
         NEW day1 \in 0 .. U8 - 1, NEW day2 \in 0 .. U8 - 1, NEW dayNum \in 0 .. U8 - 1
  PROVE  Interpolated(temp1, temp2, day1, day2, dayNum) \subseteq 0 .. U16 - 1
<1> DEFINE date == Quot(((temp1 - temp2) % U16) * 100, (day2 - day1) % U8)
                     * (day2 - dayNum) + temp2 * 100
<1>1. /\ temp1 - temp2 \in Int /\ day2 - day1 \in Int
      /\ day2 - dayNum \in Int /\ temp2 * 100 \in Int
  BY Widths
<1>2. ((temp1 - temp2) % U16) * 100 \in Int /\ (day2 - day1) % U8 \in Nat
  BY <1>1, Widths, ModRange
<1>3. date \in Int
  BY <1>1, <1>2, DateInt
<1>4. \A d \in FloatToU16(date) : d \div 100 \in 0 .. U16 - 1
  <2> HIDE DEF date
  <2> QED BY <1>3, CastRange
<1>5. Interpolated(temp1, temp2, day1, day2, dayNum)
        = {d \div 100 : d \in FloatToU16(date)}
  BY DEF Interpolated
<1> HIDE DEF date
<1> QED BY <1>4, <1>5

(* Whatever the curve holds, the target fits in uint16_t.                  *)
CurveTyped(row) ==
  \A i \in Row : /\ row[i].dayNum \in 0 .. U8 - 1
                 /\ row[i].targetTemp \in 0 .. U16 - 1

LEMMA TargetTempersType ==
  ASSUME NEW row, NEW dayNum \in 0 .. U8 - 1, CurveTyped(row)
  PROVE  TargetTempers(row, dayNum) \subseteq 0 .. U16 - 1
<1> DEFINE i == DayNumLevel(row, dayNum)
<1>1. i \in Row
  BY DayNumLevelIsLastReached
<1>2. row[i].targetTemp \in 0 .. U16 - 1 /\ row[i].dayNum \in 0 .. U8 - 1
  BY <1>1, Zenon DEF CurveTyped
<1>3. CASE i = TARGET_TEMP_NUM - 1
  BY <1>2, <1>3, Zenon DEF TargetTempers
<1>4. CASE i # TARGET_TEMP_NUM - 1
  <2>1. i + 1 \in Row
    <3> HIDE DEF i
    <3> QED BY <1>1, <1>4, CurveAssumption DEF Row
  <2>2. row[i + 1].targetTemp \in 0 .. U16 - 1 /\ row[i + 1].dayNum \in 0 .. U8 - 1
    BY <2>1, Zenon DEF CurveTyped
  <2>3. Interpolated(row[i].targetTemp, row[i + 1].targetTemp,
                     row[i].dayNum, row[i + 1].dayNum, dayNum) \subseteq 0 .. U16 - 1
    <3> HIDE DEF i
    <3> QED BY <1>2, <2>2, InterpolatedType
  <2> QED BY <1>2, <1>4, <2>2, <2>3, Zenon DEF TargetTempers
<1> QED BY <1>3, <1>4

(* The arithmetic of one segment: the interpolated value does not exceed   *)
(* the drop of the segment and falls as the days left get fewer.           *)
LEMMA SegmentArith ==
  ASSUME NEW drop \in Nat, NEW days \in Nat \ {0},
         NEW k \in Nat, NEW l \in Nat, k <= days, l <= k
  PROVE  /\ Quot(drop, days) * k \in Nat
         /\ Quot(drop, days) * k <= drop
         /\ Quot(drop, days) * l <= Quot(drop, days) * k
<1> DEFINE q == drop \div days
<1>1. q \in Nat /\ q * days <= drop
  OBVIOUS
<1>2. \A p \in Nat : p * l <= p * k /\ p * k <= p * days /\ p * k \in Nat /\ p * days \in Nat
    /\ p * l \in Nat
  OBVIOUS
<1>3. Quot(drop, days) = q
  BY DEF Quot
<1> HIDE DEF q
<1>4. q * l <= q * k /\ q * k <= q * days /\ q * k \in Nat /\ q * days \in Nat
  BY <1>1, <1>2
<1> QED BY <1>1, <1>3, <1>4

(* The value the curve of a segment has k days before its end.             *)
SegmentValue(temp1, temp2, days, k) ==
  (Quot((temp1 - temp2) * 100, days) * k + temp2 * 100) \div 100

LEMMA SegmentBetween ==
  ASSUME NEW temp1 \in Nat, NEW temp2 \in Nat, temp2 <= temp1,
         NEW days \in Nat \ {0}, NEW k \in Nat, NEW l \in Nat, k <= days, l <= k
  PROVE  /\ SegmentValue(temp1, temp2, days, k) \in temp2 .. temp1
         /\ SegmentValue(temp1, temp2, days, l) <= SegmentValue(temp1, temp2, days, k)
<1> DEFINE q == Quot((temp1 - temp2) * 100, days)
<1>1. (temp1 - temp2) * 100 \in Nat /\ l <= days
  OBVIOUS
<1>2. q * k \in Nat /\ q * k <= (temp1 - temp2) * 100 /\ q * l <= q * k
  BY <1>1, SegmentArith
<1>3. q * l \in Nat
  BY <1>1, SegmentArith
<1>4. \A x, y \in Nat : x <= (temp1 - temp2) * 100 /\ y <= x =>
        /\ (x + temp2 * 100) \div 100 \in temp2 .. temp1
        /\ (y + temp2 * 100) \div 100 <= (x + temp2 * 100) \div 100
  OBVIOUS
<1> HIDE DEF q
<1>5. /\ (q * k + temp2 * 100) \div 100 \in temp2 .. temp1
      /\ (q * l + temp2 * 100) \div 100 <= (q * k + temp2 * 100) \div 100
  BY <1>2, <1>3, <1>4
<1> QED BY <1>5 DEF SegmentValue, q

LEMMA ModSmall ==
  ASSUME NEW x \in Nat, NEW n \in Nat, x < n
  PROVE  x % n = x
OBVIOUS

(* Within a falling segment no unsigned difference wraps and the cast is   *)
(* exact.                                                                  *)
LEMMA SegmentCast ==
  ASSUME NEW temp1 \in Nat, NEW temp2 \in Nat, temp1 <= TempLimit, temp2 <= temp1,
         NEW day1 \in 0 .. U8 - 1, NEW day2 \in 0 .. U8 - 1, NEW dayNum \in 0 .. U8 - 1,
         day1 <= dayNum, dayNum < day2
  PROVE  Interpolated(temp1, temp2, day1, day2, dayNum)
         = {SegmentValue(temp1, temp2, day2 - day1, day2 - dayNum)}
<1>1. (temp1 - temp2) % U16 = temp1 - temp2
  BY ModSmall DEF U16, TempLimit
<1>2. (day2 - day1) % U8 = day2 - day1
  BY ModSmall DEF U8
<1> DEFINE drop == (temp1 - temp2) * 100
           date == Quot(drop, day2 - day1) * (day2 - dayNum) + temp2 * 100
<1>3. /\ drop \in Nat /\ day2 - day1 \in Nat \ {0} /\ day2 - dayNum \in Nat
      /\ day2 - dayNum <= day2 - day1
  BY DEF U8
<1>4. Quot(drop, day2 - day1) * (day2 - dayNum) \in 0 .. drop
  <2> HIDE DEF drop
  <2> QED BY <1>3, SegmentArith
<1>6. date \in 0 .. U16 - 1
  <2>1. PICK x \in 0 .. drop : x = Quot(drop, day2 - day1) * (day2 - dayNum)
    BY <1>4, Zenon
  <2>2. date = x + temp2 * 100
    BY <2>1, Zenon
  <2>3. x + temp2 * 100 \in 0 .. U16 - 1
    BY SMTT(30) DEF U16, TempLimit
  <2> QED BY <2>2, <2>3, Zenon
<1>7. FloatToU16(date) = {date}
  <2> HIDE DEF date
  <2>0. date \in Nat /\ U16 \in Nat /\ date < U16 /\ ~(date < 0)
    BY <1>6 DEF U16
  <2>1. date % U16 = date /\ ~(date < 0)
    BY <2>0, ModSmall
  <2> QED BY <2>1, Zenon DEF FloatToU16
<1>8. SegmentValue(temp1, temp2, day2 - day1, day2 - dayNum) = date \div 100
  BY DEF SegmentValue
<1>9. {d \div 100 : d \in FloatToU16(date)} = {date \div 100}
  BY <1>7, Zenon
<1>10. Interpolated(temp1, temp2, day1, day2, dayNum)
         = {d \div 100 : d \in FloatToU16(date)}
  BY <1>1, <1>2, Zenon DEF Interpolated
<1> QED BY <1>8, <1>9, <1>10, Zenon

LEMMA SegmentTyped ==
  ASSUME NEW row, CurveTyped(row), FallingCurve(row), NEW i \in Row, i + 1 \in Row
  PROVE  /\ row[i].targetTemp \in Nat /\ row[i + 1].targetTemp \in Nat
         /\ row[i].targetTemp <= TempLimit /\ row[i + 1].targetTemp <= row[i].targetTemp
         /\ row[i].dayNum \in 0 .. U8 - 1 /\ row[i + 1].dayNum \in 0 .. U8 - 1
         /\ row[i].dayNum < row[i + 1].dayNum /\ row[i + 1].dayNum # 0
<1> DEFINE temp1 == row[i].targetTemp
           temp2 == row[i + 1].targetTemp
           day1 == row[i].dayNum
           day2 == row[i + 1].dayNum
<1>1. i < i + 1
  BY DEF Row
<1>2. /\ temp1 \in 0 .. U16 - 1 /\ temp2 \in 0 .. U16 - 1
      /\ day1 \in 0 .. U8 - 1 /\ day2 \in 0 .. U8 - 1
  BY Zenon DEF CurveTyped
<1>3. temp1 <= TempLimit /\ day2 # 0 /\ day1 < day2 /\ temp1 >= temp2
  BY <1>1, Zenon DEF FallingCurve
<1> HIDE DEF temp1, temp2, day1, day2
<1>4. /\ temp1 \in Nat /\ temp2 \in Nat /\ temp1 <= TempLimit /\ temp2 <= temp1
      /\ day1 \in 0 .. U8 - 1 /\ day2 \in 0 .. U8 - 1 /\ day1 < day2 /\ day2 # 0
  BY <1>2, <1>3, Widths
<1> QED BY <1>4, Zenon DEF temp1, temp2, day1, day2

(* On a falling curve the widths do not matter: a day lies in a segment,   *)
(* and the target is its first temperature on its first day and the        *)
(* interpolated value afterwards.                                          *)
LEMMA FallingTarget ==
  ASSUME NEW row, CurveTyped(row), FallingCurve(row),
         NEW dayNum \in 0 .. U8 - 1, row[0].dayNum <= dayNum,
         NEW i, i = DayNumLevel(row, dayNum), i # TARGET_TEMP_NUM - 1
  PROVE  /\ i \in Row /\ i + 1 \in Row
         /\ row[i].dayNum <= dayNum /\ dayNum < row[i + 1].dayNum
         /\ dayNum = row[i].dayNum =>
              TargetTempers(row, dayNum) = {row[i].targetTemp}
         /\ dayNum # row[i].dayNum =>
              TargetTempers(row, dayNum) =
                {SegmentValue(row[i].targetTemp, row[i + 1].targetTemp,
                              row[i + 1].dayNum - row[i].dayNum,
                              row[i + 1].dayNum - dayNum)}
<1>1. /\ i \in Row /\ \A j \in RowsReached(row, dayNum) : j <= i
      /\ i # 0 => i \in RowsReached(row, dayNum)
  BY DayNumLevelIsLastReached
<1>2. i \in Nat /\ i + 1 \in Row \ {0} /\ ~(i + 1 <= i)
  BY <1>1, CurveAssumption DEF Row
<1>3. i + 1 \notin RowsReached(row, dayNum)
  BY <1>1, <1>2, Zenon
<1> DEFINE temp1 == row[i].targetTemp
           temp2 == row[i + 1].targetTemp
           day1 == row[i].dayNum
           day2 == row[i + 1].dayNum
<1>4. /\ temp1 \in Nat /\ temp2 \in Nat /\ temp1 <= TempLimit /\ temp2 <= temp1
      /\ day1 \in 0 .. U8 - 1 /\ day2 \in 0 .. U8 - 1 /\ day1 < day2 /\ day2 # 0
  <2>1. i + 1 \in Row
    BY <1>2
  <2> QED BY <1>1, <2>1, SegmentTyped
<1>5. day1 <= dayNum
  <2>1. i # 0 => dayNum >= day1
    BY <1>1, Zenon DEF RowsReached
  <2>2. i = 0 => day1 <= dayNum
    BY Zenon
  <2> HIDE DEF day1, day2
  <2> QED BY <2>1, <2>2, <1>4, Widths
<1>6. dayNum < day2
  <2>1. ~(dayNum >= day2)
    BY <1>2, <1>3, <1>4, Zenon DEF RowsReached
  <2> HIDE DEF day1, day2
  <2> QED BY <2>1, <1>4, Widths
<1>7. Interpolated(temp1, temp2, day1, day2, dayNum) =
        {SegmentValue(temp1, temp2, day2 - day1, day2 - dayNum)}
  <2>1. ASSUME NEW a \in Nat, NEW b \in Nat, a <= TempLimit, b <= a,
               NEW c \in 0 .. U8 - 1, NEW e \in 0 .. U8 - 1, c <= dayNum, dayNum < e
        PROVE  Interpolated(a, b, c, e, dayNum) = {SegmentValue(a, b, e - c, e - dayNum)}
    BY <2>1, SegmentCast, SMT
  <2> HIDE DEF temp1, temp2, day1, day2
  <2> QED BY <2>1, <1>4, <1>5, <1>6
<1>8. dayNum # day2
  <2> HIDE DEF day2
  <2> QED BY <1>4, <1>6, Widths
<1>9. dayNum # day1 =>
        TargetTempers(row, dayNum) = Interpolated(temp1, temp2, day1, day2, dayNum)
  BY <1>8, Zenon DEF TargetTempers
<1>10. dayNum = day1 => TargetTempers(row, dayNum) = {temp1}
  BY Zenon DEF TargetTempers
<1> QED BY <1>1, <1>2, <1>5, <1>6, <1>7, <1>9, <1>10, Zenon

LEMMA LastRowTarget ==
  ASSUME NEW row, NEW dayNum, DayNumLevel(row, dayNum) = TARGET_TEMP_NUM - 1
  PROVE  TargetTempers(row, dayNum) = {row[TARGET_TEMP_NUM - 1].targetTemp}
BY Zenon DEF TargetTempers

(* The interpolated target lies between the rows around the day.           *)
LEMMA TargetBetween ==
  ASSUME NEW row, CurveTyped(row), FallingCurve(row),
         NEW dayNum \in 0 .. U8 - 1, row[0].dayNum <= dayNum,
         NEW i, i = DayNumLevel(row, dayNum), i # TARGET_TEMP_NUM - 1,
         NEW t \in TargetTempers(row, dayNum)
  PROVE  t \in row[i + 1].targetTemp .. row[i].targetTemp
<1> DEFINE temp1 == row[i].targetTemp
           temp2 == row[i + 1].targetTemp
           day1 == row[i].dayNum
           day2 == row[i + 1].dayNum
<1>1. /\ i \in Row /\ i + 1 \in Row /\ day1 <= dayNum /\ dayNum < day2
      /\ dayNum = day1 => TargetTempers(row, dayNum) = {temp1}
      /\ dayNum # day1 => TargetTempers(row, dayNum) =
           {SegmentValue(temp1, temp2, day2 - day1, day2 - dayNum)}
  BY FallingTarget
<1>2. /\ temp1 \in Nat /\ temp2 \in Nat /\ temp1 <= TempLimit /\ temp2 <= temp1
      /\ day1 \in 0 .. U8 - 1 /\ day2 \in 0 .. U8 - 1 /\ day1 < day2
  BY <1>1, SegmentTyped
<1> HIDE DEF temp1, temp2, day1, day2
<1>3. /\ day2 - day1 \in Nat \ {0} /\ day2 - dayNum \in Nat
      /\ day2 - dayNum <= day2 - day1
  BY <1>1, <1>2, Widths
<1>4. SegmentValue(temp1, temp2, day2 - day1, day2 - dayNum) \in temp2 .. temp1
  BY <1>2, <1>3, SegmentBetween
<1>5. temp1 \in temp2 .. temp1
  BY <1>2
<1>6. t \in temp2 .. temp1
  BY <1>1, <1>4, <1>5, Zenon
<1> QED BY <1>6 DEF temp1, temp2

(* On a later day the target is not higher.                                *)
LEMMA TargetFalls ==
  ASSUME NEW row, CurveTyped(row), FallingCurve(row),
         NEW dayNum \in 0 .. U8 - 1, NEW later \in 0 .. U8 - 1, dayNum <= later,
         row[0].dayNum <= dayNum,
         NEW t \in TargetTempers(row, dayNum),
         NEW u \in TargetTempers(row, later)
  PROVE  u <= t
<1> DEFINE last == TARGET_TEMP_NUM - 1
<1>1. PICK i : i = DayNumLevel(row, dayNum)
  OBVIOUS
<1>2. PICK j : j = DayNumLevel(row, later)
  OBVIOUS
<1>3. /\ i \in Row /\ (i # 0 => i \in RowsReached(row, dayNum))
      /\ j \in Row /\ (j # 0 => j \in RowsReached(row, later))
      /\ \A k \in RowsReached(row, later) : k <= j
  BY <1>1, <1>2, DayNumLevelIsLastReached
<1>4. row[0].dayNum \in 0 .. U8 - 1 /\ 0 \in Row /\ last \in Row
  BY CurveAssumption DEF CurveTyped, Row
<1>5. row[0].dayNum <= later
  BY <1>4, Widths
<1>6. i <= j
  <2>1. CASE i = 0
    BY <1>3, <2>1 DEF Row
  <2>2. CASE i # 0
    <3>1. row[i].dayNum \in 0 .. U8 - 1
      BY <1>3, Zenon DEF CurveTyped
    <3>2. i \in Row \ {0} /\ row[i].dayNum # 0 /\ dayNum >= row[i].dayNum
      BY <1>3, <2>2, Zenon DEF RowsReached
    <3>3. later >= row[i].dayNum
      BY <3>1, <3>2, Widths
    <3>4. i \in RowsReached(row, later)
      BY <3>2, <3>3, Zenon DEF RowsReached
    <3> QED BY <1>3, <3>4, Zenon
  <2> QED BY <2>1, <2>2
<1>7. CASE i = last
  <2>1. j = last
    BY <1>3, <1>6, <1>7 DEF Row
  <2>2. t = row[last].targetTemp /\ u = row[last].targetTemp
    BY <1>1, <1>2, <1>7, <2>1, LastRowTarget
  <2>3. row[last].targetTemp \in 0 .. U16 - 1
    BY <1>4, Zenon DEF CurveTyped
  <2> QED BY <2>2, <2>3, Widths
<1>8. CASE i # last
  <2> DEFINE k == i + 1
             temp1 == row[i].targetTemp
             temp2 == row[k].targetTemp
             day1 == row[i].dayNum
             day2 == row[k].dayNum
  <2>1. /\ k \in Row /\ day1 <= dayNum /\ dayNum < day2
        /\ dayNum = day1 => TargetTempers(row, dayNum) = {temp1}
        /\ dayNum # day1 => TargetTempers(row, dayNum) =
             {SegmentValue(temp1, temp2, day2 - day1, day2 - dayNum)}
    BY <1>1, <1>8, FallingTarget
  <2>2. /\ temp1 \in Nat /\ temp2 \in Nat /\ temp2 <= temp1
        /\ day1 \in 0 .. U8 - 1 /\ day2 \in 0 .. U8 - 1 /\ day1 < day2
    BY <1>3, <2>1, SegmentTyped
  <2>3. t \in temp2 .. temp1
    BY <1>1, <1>8, TargetBetween
  <2>4. CASE j = i
    <3>1. /\ later < day2
          /\ later = day1 => TargetTempers(row, later) = {temp1}
          /\ later # day1 => TargetTempers(row, later) =
               {SegmentValue(temp1, temp2, day2 - day1, day2 - later)}
      <4>1. i = DayNumLevel(row, later) /\ i # TARGET_TEMP_NUM - 1
        BY <1>2, <1>8, <2>4
      <4> QED BY <1>5, <4>1, FallingTarget
    <3> HIDE DEF temp1, temp2, day1, day2, k
    <3>2. later = day1 => dayNum = day1
      BY <2>1, <2>2, Widths
    <3>3. /\ day2 - day1 \in Nat \ {0} /\ day2 - dayNum \in Nat
          /\ day2 - later \in Nat /\ day2 - later <= day2 - dayNum
          /\ day2 - dayNum <= day2 - day1
      BY <2>1, <2>2, <3>1, Widths
    <3> DEFINE v == SegmentValue(temp1, temp2, day2 - day1, day2 - dayNum)
               w == SegmentValue(temp1, temp2, day2 - day1, day2 - later)
    <3>4. w <= v /\ v \in temp2 .. temp1
      BY <2>2, <3>3, SegmentBetween
    <3>5. w \in temp2 .. temp1
      <4>1. /\ day2 - later <= day2 - later
            /\ day2 - later <= day2 - day1
        BY <3>3
      <4> QED BY <2>2, <3>3, <4>1, SegmentBetween
    <3>6. \/ u = temp1 /\ t = temp1
          \/ u = w /\ (t = temp1 \/ t = v)
      BY <2>1, <3>1, <3>2
    <3> HIDE DEF v, w
    <3> QED BY <2>2, <3>4, <3>5, <3>6
  <2>5. CASE j # i
    <3>1. j # 0 /\ j >= k
      BY <1>3, <1>6, <2>5 DEF Row
    <3>2. temp2 >= row[j].targetTemp /\ row[j].targetTemp \in Nat
      <4>1. row[j].targetTemp \in 0 .. U16 - 1
        BY <1>3, Zenon DEF CurveTyped
      <4>2. row[j].targetTemp \in Nat
        BY <4>1, Widths
      <4>3. CASE j = k
        BY <2>2, <4>2, <4>3
      <4>4. CASE j # k
        <5>1. k < j
          BY <1>3, <2>1, <3>1, <4>4 DEF Row
        <5> QED BY <1>3, <2>1, <4>2, <5>1, Zenon DEF FallingCurve
      <4> QED BY <4>3, <4>4
    <3>3. u <= row[j].targetTemp /\ u \in Nat
      <4>1. CASE j = last
        <5>1. u = row[j].targetTemp
          BY <1>2, <4>1, LastRowTarget, Zenon
        <5> QED BY <3>2, <5>1
      <4>2. CASE j # last
        <5>1. u \in row[j + 1].targetTemp .. row[j].targetTemp
          BY <1>2, <1>5, <4>2, TargetBetween
        <5>2. j + 1 \in Row
          BY <1>3, <4>2, CurveAssumption DEF Row
        <5>3. row[j + 1].targetTemp \in 0 .. U16 - 1
          BY <5>2, Zenon DEF CurveTyped
        <5> QED BY <3>2, <5>1, <5>3, Widths
      <4> QED BY <4>1, <4>2
    <3> HIDE DEF temp1, temp2
    <3> QED BY <2>2, <2>3, <3>2, <3>3
  <2> QED BY <2>4, <2>5
<1> QED BY <1>7, <1>8
=============================================================================
