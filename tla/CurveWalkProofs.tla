-------------------------- MODULE CurveWalkProofs ---------------------------
(***************************************************************************)
(* The target temperature over a batch, for every curve, every number of   *)
(* rows and every date.                                                    *)
(***************************************************************************)
EXTENDS CurveWalk, TempCurveProofs

(* The target in use is one the curve gives for the day in use.            *)
IInv ==
  /\ TypeOK
  /\ curTargetTemp \in TargetTempers(row, dayNum)

LEMMA CurveIsTyped ==
  ASSUME NEW c \in Curves
  PROVE  CurveTyped(c)
<1>1. c \in [Row -> [dayNum: 0 .. U8 - 1, targetTemp: 0 .. U16 - 1]]
  BY CurveWalkAssumption
<1> QED BY <1>1 DEF CurveTyped

LEMMA DaysOfMonthsType ==
  ASSUME NEW year, NEW m \in 1 .. 12
  PROVE  DaysOfMonths(year, m) \in Int
<1>1. MonthOffset[m] \in Int
  BY DEF MonthOffset
<1> QED BY <1>1 DEF DaysOfMonths

LEMMA SecondType ==
  ASSUME NEW x \in Time
  PROVE  RTC_Get_Second(x) \in Int
<1>1. /\ x.year \in Int /\ x.month \in 1 .. 12 /\ x.day \in Int
      /\ x.hour \in Int /\ x.min \in Int
  BY DEF Time
<1>2. DaysOfMonths(2000 + x.year, x.month) \in Int
  BY <1>1, DaysOfMonthsType
<1> QED BY <1>1, <1>2 DEF RTC_Get_Second, DAY_SECONDE_NUM

(* The day number fits its byte, on every date the clock can show.         *)
LEMMA CurDayNumType ==
  ASSUME NEW s \in Time, NEW t \in Time
  PROVE  Ctroler_Get_CurDayNum(s, t) \in 0 .. U8 - 1
<1>1. RTC_Get_Second(s) \in Int /\ RTC_Get_Second(t) \in Int
  BY SecondType
<1>2. DaysBetween(s, t) \in Int
  BY <1>1 DEF DaysBetween, DAY_SECONDE_NUM
<1> QED BY <1>2 DEF Ctroler_Get_CurDayNum, U8

LEMMA NextDateType ==
  ASSUME NEW t \in Time
  PROVE  NextDate(t) \in Time
<1>1. OnDate(t, t.year, t.month, t.day + 1) \in Time
  BY DEF OnDate, Time
<1>2. t.month < 12 => OnDate(t, t.year, t.month + 1, 1) \in Time
  BY DEF OnDate, Time
<1>3. OnDate(t, t.year + 1, 1, 1) \in Time
  BY DEF OnDate, Time
<1> QED BY <1>1, <1>2, <1>3, Zenon DEF NextDate

LEMMA AtType ==
  ASSUME NEW t \in Time, NEW m \in TimesOfDay
  PROVE  At(t, m) \in Time
<1>1. m \in 0 .. 1439
  BY CurveWalkAssumption
<1>2. m \div 60 \in 0 .. 23 /\ m % 60 \in 0 .. 59
  BY <1>1
<1> QED BY <1>2 DEF At, Time

LEMMA PassKeepsInv ==
  ASSUME IInv, now' \in Time, DayAndTarget(now'), UNCHANGED <<row, start>>
  PROVE  IInv'
<1>1. row \in Curves /\ start \in Time
  BY DEF IInv, TypeOK
<1>2. dayNum' \in 0 .. U8 - 1
  BY <1>1, CurDayNumType DEF DayAndTarget
<1>3. curTargetTemp' \in TargetTempers(row, dayNum')
  BY DEF DayAndTarget
<1>4. curTargetTemp' \in 0 .. U16 - 1
  BY <1>1, <1>2, <1>3, CurveIsTyped, TargetTempersType
<1> QED BY <1>1, <1>2, <1>3, <1>4 DEF IInv, TypeOK

LEMMA NextIsPass ==
  ASSUME IInv, Next
  PROVE  now' \in Time /\ DayAndTarget(now') /\ UNCHANGED <<row, start>>
<1>1. PICK m \in TimesOfDay : PassToday(m) \/ PassOnNextDate(m)
  BY DEF Next
<1>2. now \in Time
  BY DEF IInv, TypeOK
<1>3. CASE PassToday(m)
  <2>1. now' = At(now, m) /\ DayAndTarget(now') /\ UNCHANGED <<row, start>>
    BY <1>3 DEF PassToday
  <2> QED BY <1>2, <2>1, AtType
<1>4. CASE PassOnNextDate(m)
  <2>1. now' = At(NextDate(now), m) /\ DayAndTarget(now') /\ UNCHANGED <<row, start>>
    BY <1>4 DEF PassOnNextDate
  <2>2. NextDate(now) \in Time
    BY <1>2, NextDateType
  <2> QED BY <2>1, <2>2, AtType
<1> QED BY <1>1, <1>3, <1>4

LEMMA WalkInductive == Spec => []IInv
<1>1. Init => IInv
  <2> SUFFICES ASSUME Init PROVE IInv
    OBVIOUS
  <2>1. row \in Curves /\ start \in Time /\ now \in Time
    BY CurveWalkAssumption DEF Init
  <2>2. dayNum \in 0 .. U8 - 1
    BY <2>1, CurDayNumType DEF Init
  <2>3. curTargetTemp \in TargetTempers(row, dayNum)
    BY DEF Init
  <2>4. curTargetTemp \in 0 .. U16 - 1
    BY <2>1, <2>2, <2>3, CurveIsTyped, TargetTempersType
  <2> QED BY <2>1, <2>2, <2>3, <2>4 DEF IInv, TypeOK
<1>2. IInv /\ [Next]_vars => IInv'
  <2>1. ASSUME IInv, Next PROVE IInv'
    BY <2>1, NextIsPass, PassKeepsInv
  <2>2. ASSUME IInv, UNCHANGED vars PROVE IInv'
    BY <2>2 DEF IInv, TypeOK, vars
  <2> QED BY <2>1, <2>2
<1> QED BY <1>1, <1>2, PTL DEF Spec

(* From its first day on, the target of every falling curve lies between   *)
(* the rows around the day.                                                *)
THEOREM TargetWithinCurveHolds == Spec => []TargetWithinCurve
<1>1. IInv => TargetWithinCurve
  <2> SUFFICES ASSUME IInv, FallingCurve(row), row[0].dayNum <= dayNum
               PROVE  LET i == DayNumLevel(row, dayNum) IN
                      IF i = TARGET_TEMP_NUM - 1
                      THEN curTargetTemp = row[i].targetTemp
                      ELSE /\ row[i + 1].targetTemp <= curTargetTemp
                           /\ curTargetTemp <= row[i].targetTemp
    BY DEF TargetWithinCurve
  <2>1. CurveTyped(row) /\ dayNum \in 0 .. U8 - 1
        /\ curTargetTemp \in TargetTempers(row, dayNum)
    BY CurveIsTyped DEF IInv, TypeOK
  <2>2. PICK i : i = DayNumLevel(row, dayNum)
    OBVIOUS
  <2>3. CASE i = TARGET_TEMP_NUM - 1
    <3>1. TargetTempers(row, dayNum) = {row[i].targetTemp}
      BY <2>2, <2>3, LastRowTarget
    <3> QED BY <2>1, <2>2, <2>3, <3>1
  <2>4. CASE i # TARGET_TEMP_NUM - 1
    <3>1. curTargetTemp \in row[i + 1].targetTemp .. row[i].targetTemp
      BY <2>1, <2>2, <2>4, TargetBetween
    <3> QED BY <2>2, <2>4, <3>1
  <2> QED BY <2>3, <2>4
<1> QED BY <1>1, WalkInductive, PTL

(* A higher day number never raises the target of a falling curve.         *)
THEOREM TargetNeverRisesHolds == Spec => TargetNeverRises
<1>1. IInv /\ [Next]_vars =>
        [(FallingCurve(row) /\ row[0].dayNum <= dayNum /\ dayNum <= dayNum')
           => curTargetTemp' <= curTargetTemp]_vars
  <2> SUFFICES ASSUME IInv, Next, FallingCurve(row), row[0].dayNum <= dayNum,
                      dayNum <= dayNum'
               PROVE  curTargetTemp' <= curTargetTemp
    OBVIOUS
  <2>1. CurveTyped(row) /\ dayNum \in 0 .. U8 - 1
        /\ curTargetTemp \in TargetTempers(row, dayNum)
    BY CurveIsTyped DEF IInv, TypeOK
  <2>2. now' \in Time /\ DayAndTarget(now') /\ UNCHANGED <<row, start>>
    BY NextIsPass
  <2>3. dayNum' \in 0 .. U8 - 1
    BY <2>2, CurDayNumType DEF DayAndTarget, IInv, TypeOK
  <2>4. curTargetTemp' \in TargetTempers(row, dayNum')
    BY <2>2 DEF DayAndTarget
  <2> QED BY <2>1, <2>3, <2>4, TargetFalls
<1> QED BY <1>1, WalkInductive, PTL DEF Spec, TargetNeverRises

-----------------------------------------------------------------------------
(* The day number.  Verify_RtcTime lets the 30th of February pass, so that *)
(* the start is a date of the calendar is a hypothesis.                    *)
StartsInCalendar == \A s \in Starts : s.day <= MonthLength(s)

(* The seconds RTC_Get_Second counts from the start are the ones that      *)
(* passed, as long as the clock has not left the year of the start.        *)
DayInv ==
  /\ now.day <= MonthLength(now)
  /\ elapsed \in Nat
  /\ start.year <= now.year
  /\ now.year = start.year =>
       RTC_Get_Second(now) = RTC_Get_Second(start) + elapsed * 60
  /\ dayNum = Ctroler_Get_CurDayNum(start, now)

(* Every month has a first day.                                            *)
LEMMA MonthLengths ==
  ASSUME NEW t \in Time
  PROVE  MonthLength(t) \in Int /\ MonthLength(t) >= 1
<1>1. t.month \in 1 .. 12
  BY DEF Time
<1>2. CASE t.month = 12
  BY <1>2 DEF MonthLength
<1>3. CASE t.month # 12
  <2>1. MonthOffset[t.month] \in Int /\ MonthOffset[t.month + 1] \in Int
        /\ MonthOffset[t.month + 1] - MonthOffset[t.month] >= 28
    BY <1>1, <1>3 DEF MonthOffset
  <2> QED BY <1>1, <1>3, <2>1 DEF MonthLength, DaysOfMonths
<1> QED BY <1>2, <1>3

(* What RTC_Get_Second adds for the year, for the date and for the time.   *)
YearSeconds(y) ==
  (2000 + y - 1970) * (IF Is_Leap_Year(2000 + y) THEN 31622400 ELSE 31536000)
LEMMA SecondParts ==
  ASSUME NEW t \in Time
  PROVE  /\ YearSeconds(t.year) \in Int
         /\ RTC_Get_Second(t) =
              YearSeconds(t.year)
                + (DaysOfMonths(2000 + t.year, t.month) + t.day - 1) * DAY_SECONDE_NUM
                + MinuteOfDay(t) * 60
<1>1. t.year \in Int /\ t.month \in 1 .. 12 /\ t.day \in Int /\ t.hour \in Int /\ t.min \in Int
  BY DEF Time
<1>2. DaysOfMonths(2000 + t.year, t.month) \in Int
  BY <1>1, DaysOfMonthsType
<1>3. YearSeconds(t.year) \in Int
  BY <1>1 DEF YearSeconds
<1>4. t.hour * 3600 + t.min * 60 = MinuteOfDay(t) * 60
  BY <1>1 DEF MinuteOfDay
<1>5. RTC_Get_Second(t) = YearSeconds(t.year)
        + (DaysOfMonths(2000 + t.year, t.month) + t.day - 1) * DAY_SECONDE_NUM
        + t.hour * 3600 + t.min * 60
  BY <1>1, <1>2, SMT DEF RTC_Get_Second, YearSeconds, DAY_SECONDE_NUM
<1>6. (DaysOfMonths(2000 + t.year, t.month) + t.day - 1) * DAY_SECONDE_NUM \in Int
  BY <1>1, <1>2 DEF DAY_SECONDE_NUM
<1>7. t.hour * 3600 \in Int /\ t.min * 60 \in Int
  BY <1>1
<1> HIDE DEF MinuteOfDay, YearSeconds, DAY_SECONDE_NUM
<1> QED BY <1>3, <1>4, <1>5, <1>6, <1>7

(* Another time of the same date.                                          *)
LEMMA SecondsAt ==
  ASSUME NEW t \in Time, NEW m \in TimesOfDay
  PROVE  /\ At(t, m).year = t.year /\ At(t, m).day = t.day
         /\ MonthLength(At(t, m)) = MonthLength(t)
         /\ MinuteOfDay(t) \in 0 .. 1439 /\ m \in 0 .. 1439
         /\ RTC_Get_Second(At(t, m)) = RTC_Get_Second(t) + (m - MinuteOfDay(t)) * 60
<1>1. m \in 0 .. 1439
  BY CurveWalkAssumption
<1>2. /\ At(t, m).year = t.year /\ At(t, m).day = t.day /\ At(t, m).month = t.month
      /\ At(t, m).hour = m \div 60 /\ At(t, m).min = m % 60
  BY DEF At, Time
<1>3. At(t, m) \in Time
  BY AtType
<1>4. MinuteOfDay(At(t, m)) = m
  BY <1>1, <1>2 DEF MinuteOfDay
<1>5. MinuteOfDay(t) \in 0 .. 1439
  BY DEF MinuteOfDay, Time
<1>6. MonthLength(At(t, m)) = MonthLength(t)
  BY <1>2 DEF MonthLength
<1> DEFINE Y == YearSeconds(t.year)
           D == (DaysOfMonths(2000 + t.year, t.month) + t.day - 1) * DAY_SECONDE_NUM
<1>7. Y \in Int /\ D \in Int
  BY SecondParts, DaysOfMonthsType DEF Time, DAY_SECONDE_NUM
<1>8. RTC_Get_Second(t) = Y + D + MinuteOfDay(t) * 60
  BY SecondParts
<1>9. RTC_Get_Second(At(t, m)) = Y + D + m * 60
  BY <1>2, <1>3, <1>4, SecondParts
<1> HIDE DEF Y, D
<1>10. RTC_Get_Second(At(t, m)) = RTC_Get_Second(t) + (m - MinuteOfDay(t)) * 60
  BY <1>1, <1>5, <1>7, <1>8, <1>9
<1> QED BY <1>1, <1>2, <1>5, <1>6, <1>10

(* The same time of the next date is a day later, unless the year ends.    *)
LEMMA SecondsOfNextDate ==
  ASSUME NEW t \in Time, t.day <= MonthLength(t)
  PROVE  /\ NextDate(t).day <= MonthLength(NextDate(t))
         /\ MinuteOfDay(NextDate(t)) = MinuteOfDay(t)
         /\ NextDate(t).year \in {t.year, t.year + 1}
         /\ NextDate(t).year = t.year =>
              RTC_Get_Second(NextDate(t)) = RTC_Get_Second(t) + DAY_SECONDE_NUM
<1> DEFINE n == NextDate(t)
           Days(x) == DaysOfMonths(2000 + x.year, x.month) + x.day - 1
<1>1. n \in Time
  BY NextDateType
<1>2. t.year \in Nat /\ t.month \in 1 .. 12 /\ t.day \in Nat /\ MonthLength(t) \in Int
  BY MonthLengths DEF Time
<1>3. DaysOfMonths(2000 + t.year, t.month) \in Int
  BY <1>2, DaysOfMonthsType
<1>4. n.hour = t.hour /\ n.min = t.min
  BY DEF NextDate, OnDate
<1>5. ASSUME t.day < MonthLength(t)
      PROVE  n.day <= MonthLength(n) /\ n.year = t.year /\ Days(n) = Days(t) + 1
  <2>1. n.year = t.year /\ n.month = t.month /\ n.day = t.day + 1
    BY <1>5 DEF NextDate, OnDate
  <2>2. MonthLength(n) = MonthLength(t)
    BY <2>1 DEF MonthLength
  <2> QED BY <1>2, <1>3, <1>5, <2>1, <2>2
<1>6. ASSUME t.day = MonthLength(t), t.month # 12
      PROVE  n.day <= MonthLength(n) /\ n.year = t.year /\ Days(n) = Days(t) + 1
  <2>1. ~(t.day < MonthLength(t)) /\ t.month < 12
    BY <1>2, <1>6
  <2>2. n.year = t.year /\ n.month = t.month + 1 /\ n.day = 1
    BY <2>1 DEF NextDate, OnDate
  <2>3. DaysOfMonths(2000 + t.year, t.month + 1) \in Int
    BY <1>2, <1>6, DaysOfMonthsType
  <2>4. t.day = DaysOfMonths(2000 + t.year, t.month + 1)
                  - DaysOfMonths(2000 + t.year, t.month)
    BY <1>6 DEF MonthLength
  <2>5. Days(n) = Days(t) + 1
    BY <1>2, <1>3, <2>2, <2>3, <2>4
  <2>6. MonthLength(n) >= 1 /\ MonthLength(n) \in Int
    BY <1>1, MonthLengths
  <2> QED BY <2>2, <2>5, <2>6
<1>7. ASSUME t.day = MonthLength(t), t.month = 12
      PROVE  n.day <= MonthLength(n) /\ n.year = t.year + 1
  <2>1. ~(t.day < MonthLength(t)) /\ ~(t.month < 12)
    BY <1>2, <1>7
  <2>2. n.year = t.year + 1 /\ n.day = 1
    BY <2>1 DEF NextDate, OnDate
  <2>3. MonthLength(n) >= 1 /\ MonthLength(n) \in Int
    BY <1>1, MonthLengths
  <2> QED BY <2>2, <2>3
<1>8. \/ t.day < MonthLength(t)
      \/ t.day = MonthLength(t) /\ t.month # 12
      \/ t.day = MonthLength(t) /\ t.month = 12
  BY <1>2
<1>9. MinuteOfDay(n) = MinuteOfDay(t) /\ MinuteOfDay(t) \in Int
  BY <1>4 DEF MinuteOfDay, Time
<1>10. ASSUME n.year = t.year PROVE RTC_Get_Second(n) = RTC_Get_Second(t) + DAY_SECONDE_NUM
  <2>1. Days(n) = Days(t) + 1 /\ Days(t) \in Int
    BY <1>2, <1>3, <1>5, <1>6, <1>7, <1>8, <1>10
  <2>2. /\ YearSeconds(t.year) \in Int
        /\ RTC_Get_Second(t) =
             YearSeconds(t.year) + Days(t) * DAY_SECONDE_NUM + MinuteOfDay(t) * 60
        /\ RTC_Get_Second(n) =
             YearSeconds(t.year) + Days(n) * DAY_SECONDE_NUM + MinuteOfDay(t) * 60
    BY <1>1, <1>9, <1>10, SecondParts
  <2> HIDE DEF n, Days
  <2> QED BY <1>9, <2>1, <2>2 DEF DAY_SECONDE_NUM
<1> QED BY <1>2, <1>5, <1>6, <1>7, <1>8, <1>9, <1>10

-----------------------------------------------------------------------------
(* A pass on the same or on the next date.                                 *)
LEMMA DayInvStep ==
  ASSUME IInv, DayInv, Next
  PROVE  DayInv'
<1>1. PICK m \in TimesOfDay : PassToday(m) \/ PassOnNextDate(m)
  BY DEF Next
<1>2. now \in Time /\ start \in Time /\ UNCHANGED start
  BY NextIsPass DEF IInv, TypeOK
<1>3. now.year \in Nat /\ start.year \in Nat
  BY <1>2 DEF Time
<1>4. MinuteOfDay(now) \in 0 .. 1439 /\ m \in 0 .. 1439
  BY <1>2, SecondsAt
<1>5. RTC_Get_Second(now) \in Int /\ RTC_Get_Second(start) \in Int
  BY <1>2, SecondType
<1>6. dayNum' = Ctroler_Get_CurDayNum(start', now')
  BY <1>2, NextIsPass DEF DayAndTarget
<1>7. elapsed \in Nat
  BY DEF DayInv
<1> DEFINE q == MinuteOfDay(now)
<1>8. /\ elapsed + m - q + 1440 \in Nat
      /\ m > q => elapsed + m - q \in Nat
  <2> HIDE DEF q
  <2>1. q \in 0 .. 1439
    BY <1>4 DEF q
  <2> QED BY <1>4, <1>7, <2>1
<1>9. CASE PassToday(m)
  <2>1. now' = At(now, m) /\ elapsed' = elapsed + m - MinuteOfDay(now) /\ m > MinuteOfDay(now)
    BY <1>9 DEF PassToday
  <2>2. /\ now'.year = now.year /\ now'.day <= MonthLength(now')
        /\ RTC_Get_Second(now') = RTC_Get_Second(now) + (m - MinuteOfDay(now)) * 60
    BY <1>2, <2>1, SecondsAt DEF DayInv
  <2>3. elapsed' \in Nat
    BY <1>8, <2>1
  <2>4. now'.year = start.year => RTC_Get_Second(now') = RTC_Get_Second(start) + elapsed' * 60
    BY <1>4, <1>5, <2>1, <2>2 DEF DayInv
  <2> QED BY <1>2, <1>6, <2>2, <2>3, <2>4 DEF DayInv
<1>10. CASE PassOnNextDate(m)
  <2> DEFINE n == NextDate(now)
  <2>1. now' = At(n, m) /\ elapsed' = elapsed + m - MinuteOfDay(now) + 1440
    BY <1>10 DEF PassOnNextDate
  <2>2. n \in Time
    BY <1>2, NextDateType
  <2>3. /\ n.day <= MonthLength(n) /\ MinuteOfDay(n) = MinuteOfDay(now)
        /\ n.year \in {now.year, now.year + 1}
        /\ n.year = now.year => RTC_Get_Second(n) = RTC_Get_Second(now) + DAY_SECONDE_NUM
    BY <1>2, SecondsOfNextDate DEF DayInv
  <2>4. /\ now'.year = n.year /\ now'.day <= MonthLength(now')
        /\ RTC_Get_Second(now') = RTC_Get_Second(n) + (m - MinuteOfDay(now)) * 60
    BY <2>1, <2>2, <2>3, SecondsAt
  <2> HIDE DEF n
  <2>5. elapsed' \in Nat
    BY <1>8, <2>1
  <2>6. start.year <= now'.year
    BY <1>3, <2>3, <2>4 DEF DayInv
  <2>7. ASSUME now'.year = start.year
        PROVE  RTC_Get_Second(now') = RTC_Get_Second(start) + elapsed' * 60
    <3>1. n.year = now.year /\ now.year = start.year
      BY <1>3, <2>3, <2>4, <2>7 DEF DayInv
    <3>2. RTC_Get_Second(now') = RTC_Get_Second(start) + elapsed * 60 + DAY_SECONDE_NUM
                                   + (m - MinuteOfDay(now)) * 60
      BY <2>3, <2>4, <3>1 DEF DayInv
    <3> DEFINE s == RTC_Get_Second(start)
    <3>3. s + elapsed * 60 + 86400 + (m - q) * 60 = s + (elapsed + m - q + 1440) * 60
      <4> HIDE DEF q, s
      <4>1. q \in Int /\ s \in Int /\ m \in Int /\ elapsed \in Int
        BY <1>4, <1>5, <1>7 DEF q, s
      <4> QED BY <4>1
    <3>4. elapsed' = elapsed + m - q + 1440
      BY <2>1
    <3> QED BY <3>2, <3>3, <3>4 DEF DAY_SECONDE_NUM
  <2> QED BY <1>2, <1>6, <2>4, <2>5, <2>6, <2>7 DEF DayInv
<1> QED BY <1>1, <1>9, <1>10

(* Whole days in minutes and in seconds, and the byte of the day number.   *)
LEMMA DaysOfMinutes ==
  ASSUME NEW e \in Nat
  PROVE  (e * 60) \div 86400 = e \div 1440
OBVIOUS

LEMMA NextDayByte ==
  ASSUME NEW x \in Nat
  PROVE  ((x % 256) + 1) % 256 = (x + 1) % 256 /\ ((x % 256) + 0) % 256 = x % 256
OBVIOUS

(* The day number as a function of the minutes that passed.                *)
DayFormula(e, t) == (e \div 1440 + (IF MinuteOfDay(t) = REFRESH THEN 0 ELSE 1)) % U8

LEMMA DayInvFormula ==
  ASSUME IInv, DayInv, now.year = start.year
  PROVE  dayNum = DayFormula(elapsed, now)
<1>1. RTC_Get_Second(now) = RTC_Get_Second(start) + elapsed * 60 /\ elapsed \in Nat
  BY DEF DayInv
<1>2. RTC_Get_Second(start) \in Int
  BY SecondType DEF IInv, TypeOK
<1>3. DaysBetween(start, now) = (elapsed * 60) \div 86400
  BY <1>1, <1>2 DEF DaysBetween, DAY_SECONDE_NUM
<1>4. DaysBetween(start, now) = elapsed \div 1440 /\ elapsed \div 1440 \in Nat
  BY <1>1, <1>3, DaysOfMinutes
<1>5. dayNum = (((elapsed \div 1440) % 256)
                   + (IF MinuteOfDay(now) = REFRESH THEN 0 ELSE 1)) % 256
  BY <1>4 DEF DayInv, Ctroler_Get_CurDayNum, MinuteOfDay
<1> DEFINE d == elapsed \div 1440
<1>6. ((d % 256) + 1) % 256 = (d + 1) % 256 /\ ((d % 256) + 0) % 256 = (d + 0) % 256
  BY <1>4, NextDayByte
<1> HIDE DEF d
<1>7. CASE MinuteOfDay(now) = REFRESH
  BY <1>5, <1>6, <1>7 DEF U8, d, DayFormula
<1>8. CASE MinuteOfDay(now) # REFRESH
  BY <1>5, <1>6, <1>8 DEF U8, d, DayFormula
<1> QED BY <1>7, <1>8

(* From a pass to one at the same minute of the day whole days go by.      *)
LEMMA WholeDays ==
  ASSUME IInv, DayInv, Next, MinuteOfDay(now') = MinuteOfDay(now)
  PROVE  elapsed' = elapsed + 1440 /\ now.year <= now'.year
<1>1. PICK m \in TimesOfDay : PassToday(m) \/ PassOnNextDate(m)
  BY DEF Next
<1>2. now \in Time /\ NextDate(now) \in Time
  BY NextDateType DEF IInv, TypeOK
<1>3. MinuteOfDay(now) \in 0 .. 1439 /\ m \in 0 .. 1439 /\ elapsed \in Nat /\ now.year \in Nat
  BY <1>2, SecondsAt DEF DayInv, Time
<1>4. MinuteOfDay(At(now, m)) = m /\ MinuteOfDay(At(NextDate(now), m)) = m
  BY <1>2, <1>3 DEF MinuteOfDay, At, Time
<1>5. ~PassToday(m)
  BY <1>3, <1>4 DEF PassToday
<1>6. now' = At(NextDate(now), m) /\ elapsed' = elapsed + m - MinuteOfDay(now) + 1440
  BY <1>1, <1>5 DEF PassOnNextDate
<1>7. elapsed' = elapsed + 1440
  BY <1>3, <1>4, <1>6
<1>8. now'.year = NextDate(now).year /\ NextDate(now).year \in {now.year, now.year + 1}
  BY <1>2, <1>6, SecondsAt, SecondsOfNextDate DEF DayInv
<1> QED BY <1>3, <1>7, <1>8

(* Within the year of the start the number is the one of the formula.      *)
NumberInv == now.year = start.year => dayNum = DayFormula(elapsed, now)
LEMMA NumberHolds == IInv /\ DayInv => NumberInv
BY DayInvFormula DEF NumberInv

LEMMA DayStep ==
  ASSUME IInv, IInv', DayInv, DayInv', Next, now'.year = start.year,
         MinuteOfDay(now') = MinuteOfDay(now)
  PROVE  dayNum' = (dayNum + (elapsed' - elapsed) \div 1440) % U8
<1>1. elapsed' = elapsed + 1440 /\ now.year <= now'.year /\ elapsed \in Nat
  BY WholeDays DEF DayInv
<1>2. start' = start /\ start.year \in Nat /\ now.year \in Nat
  BY NextIsPass DEF IInv, TypeOK, Time
<1>3. now.year = start.year /\ now'.year = start'.year
  BY <1>1, <1>2 DEF DayInv
<1>4. dayNum = DayFormula(elapsed, now)
  BY <1>3, DayInvFormula
<1>5. NumberInv'
  BY NumberHolds, PTL
<1>6. dayNum' = DayFormula(elapsed', now')
  BY <1>3, <1>5 DEF NumberInv
<1> DEFINE d == elapsed \div 1440
           k == IF MinuteOfDay(now) = REFRESH THEN 0 ELSE 1
<1>7. d \in Nat /\ elapsed' \div 1440 = d + 1 /\ (elapsed' - elapsed) \div 1440 = 1
  BY <1>1
<1>8. dayNum = (d + k) % 256 /\ dayNum' = (d + 1 + k) % 256 /\ k \in Nat
  BY <1>4, <1>6, <1>7 DEF DayFormula, U8
<1> HIDE DEF d, k
<1>9. (((d + k) % 256) + 1) % 256 = ((d + k) + 1) % 256
  BY <1>7, <1>8, NextDayByte
<1> QED BY <1>7, <1>8, <1>9 DEF U8

(* From every start that is a date, through every later date of its year,  *)
(* Ctroler_Get_CurDayNum counts every day once.                            *)
THEOREM DayNumAdvancesHolds ==
  ASSUME StartsInCalendar
  PROVE  Spec => DayNumAdvances
<1>1. Init => DayInv
  <2> SUFFICES ASSUME Init PROVE DayInv
    OBVIOUS
  <2>1. start \in Starts /\ now = start /\ elapsed = 0
        /\ dayNum = Ctroler_Get_CurDayNum(start, now)
    BY DEF Init
  <2>2. start \in Time
    BY <2>1, CurveWalkAssumption
  <2>3. now.day <= MonthLength(now) /\ start.year <= now.year
    BY <2>1, <2>2 DEF StartsInCalendar, Time
  <2>4. RTC_Get_Second(start) \in Int
    BY <2>2, SecondType
  <2> QED BY <2>1, <2>3, <2>4 DEF DayInv
<1>2. IInv /\ DayInv /\ [Next]_vars => DayInv'
  <2>1. ASSUME IInv, DayInv, Next PROVE DayInv'
    BY <2>1, DayInvStep
  <2>2. ASSUME DayInv, UNCHANGED vars PROVE DayInv'
    BY <2>2 DEF DayInv, vars
  <2> QED BY <2>1, <2>2
<1>3. IInv /\ IInv' /\ DayInv /\ DayInv' /\ [Next]_vars =>
        [(now'.year = start.year /\ MinuteOfDay(now') = MinuteOfDay(now))
           => dayNum' = (dayNum + (elapsed' - elapsed) \div 1440) % U8]_vars
  BY DayStep
<1> QED BY <1>1, <1>2, <1>3, WalkInductive, PTL DEF Spec, DayNumAdvances
=============================================================================
