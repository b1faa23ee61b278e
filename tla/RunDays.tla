------------------------------- MODULE RunDays -------------------------------
(***************************************************************************)
(* The age of the herd in days: RTC_Get_Second and Ctroler_Get_CurDayNum.  *)
(* A time is a record as the clock chip delivers it, the year counted from *)
(* 2000.                                                                   *)
(***************************************************************************)
EXTENDS Integers

DAY_SECONDE_NUM == 86400

\* What the loop over mon_table adds up before month m of a common year.
MonthOffset == <<0, 31, 59, 90, 120, 151, 181, 212, 243, 273, 304, 334>>

Is_Leap_Year(year) == year % 4 = 0 /\ (year % 100 = 0 => year % 400 = 0)

\* The days of the months before month m.
DaysOfMonths(year, m) == MonthOffset[m] + (IF Is_Leap_Year(year) /\ m > 2 THEN 1 ELSE 0)

\* Mutant: the 29th of February is forgotten.
RTC_Get_SecondNoLeapDay(t) ==
  (2000 + t.year - 1970) * 31536000
    + (DaysOfMonths(2001, t.month) + t.day - 1) * DAY_SECONDE_NUM
    + t.hour * 3600 + t.min * 60

\* Every year since 1970 is given the length of the current one.
RTC_Get_Second(t) ==
  LET year == 2000 + t.year IN
  (year - 1970) * (IF Is_Leap_Year(year) THEN 31622400 ELSE 31536000)
    + (DaysOfMonths(year, t.month) + t.day - 1) * DAY_SECONDE_NUM
    + t.hour * 3600 + t.min * 60

\* The difference is taken modulo 2^32 = 49710 * 86400 + 23296.
DaysBetween(start, now) ==
  LET d == RTC_Get_Second(now) - RTC_Get_Second(start) IN
  IF d >= 0 THEN d \div DAY_SECONDE_NUM ELSE 49710 + (23296 + d) \div DAY_SECONDE_NUM

\* runDaysRefreshTime, as minutes of the day: 0x071E is 07:30.
REFRESH == 7 * 60 + 30

\* The day number is one higher at every time of day but the refresh minute.
Ctroler_Get_CurDayNum(start, now) ==
  ((DaysBetween(start, now) % 256)
     + (IF now.hour * 60 + now.min = REFRESH THEN 0 ELSE 1)) % 256
=============================================================================
