------------------------- MODULE AlarmDetectProofs --------------------------
(* Proofs about AlarmDetect: its type invariant and the confirmation of    *)
(* every alarm, for every configuration, counter width and tick rate.      *)
EXTENDS AlarmDetect, TLAPS

(* The counter never runs ahead of the time its condition has been seen.   *)
CountBacked ==
  \A t \in Confirmed : cnt[t] <= held[t] \/ held[t] = CONFIRM_TIME

IInv == TypeOK /\ CountBacked

(* The initial state has the types.                                        *)
LEMMA InitInv == Init => IInv
<1> SUFFICES ASSUME Init PROVE IInv
  OBVIOUS
<1>1. TypeOK
  <2>1. cnt \in [Type -> Count] /\ held \in [Confirmed -> 0 .. CONFIRM_TIME]
        /\ lag \in 0 .. MAX_LAG /\ gap \in 0 .. 2
    BY AlarmAssumption DEF Init, Count
  <2>2. alarm \in [Type -> AlarmSta] /\ time \in [Type -> Stamp]
    BY DEF Init, AlarmSta, Stamp
  <2>3. powerOff \in BOOLEAN /\ fanFault \in BOOLEAN
    BY Zenon DEF Init
  <2> QED
    BY <2>1, <2>2, <2>3 DEF Init, TypeOK
<1>2. CountBacked
  BY AlarmAssumption DEF Init, CountBacked, Confirmed
<1> QED
  BY <1>1, <1>2 DEF IInv

(* A test that saw the condition keeps the alarm variables typed and the   *)
(* count backed (Seen).                                                    *)
LEMMA SeenInv ==
  ASSUME IInv, NEW t \in Confirmed, NEW stamp \in Stamp, Seen(t, stamp)
  PROVE  /\ cnt' \in [Type -> Count] /\ alarm' \in [Type -> AlarmSta]
         /\ time' \in [Type -> Stamp] /\ held' \in [Confirmed -> 0 .. CONFIRM_TIME]
         /\ CountBacked'
<1>1. held' = held /\ t \in Type
  BY DEF Seen, Confirmed
<1>2. CASE cnt[t] >= CONFIRM_TIME
  BY <1>1, <1>2, AlarmAssumption
     DEF Seen, IInv, TypeOK, CountBacked, Confirmed, Count, AlarmSta
<1>3. CASE ~(cnt[t] >= CONFIRM_TIME)
  BY <1>1, <1>3 DEF Seen, IInv, TypeOK, CountBacked
<1> QED
  BY <1>2, <1>3

(* So does a test that did not see it (NotSeen).                           *)
LEMMA NotSeenInv ==
  ASSUME IInv, NEW t \in Confirmed, NotSeen(t)
  PROVE  /\ cnt' \in [Type -> Count] /\ held' \in [Confirmed -> 0 .. CONFIRM_TIME]
         /\ CountBacked'
  BY AlarmAssumption DEF NotSeen, IInv, TypeOK, CountBacked, Confirmed, Count

(* What a temperature test can do (TestTemper), whatever its conditions.   *)
TemperOutcome(t) ==
  \/ UNCHANGED alarmVars
  \/ Seen(t, "onset")
  \/ NotSeen(t) /\ UNCHANGED <<alarm, time>>
  \/ NotSeen(t) /\ alarm' = [alarm EXCEPT ![t] = "NO"] /\ UNCHANGED time

(* Each of these outcomes keeps them too.                                  *)
LEMMA TestTemperInv ==
  ASSUME IInv, NEW t \in Confirmed, TemperOutcome(t)
  PROVE  /\ cnt' \in [Type -> Count] /\ alarm' \in [Type -> AlarmSta]
         /\ time' \in [Type -> Stamp] /\ held' \in [Confirmed -> 0 .. CONFIRM_TIME]
         /\ CountBacked'
<1>1. CASE UNCHANGED alarmVars
  BY <1>1 DEF alarmVars, IInv, TypeOK, CountBacked
<1>2. CASE Seen(t, "onset")
  BY <1>2, SeenInv DEF Stamp
<1>3. CASE NotSeen(t) /\ UNCHANGED <<alarm, time>>
  BY <1>3, NotSeenInv DEF IInv, TypeOK
<1>4. CASE NotSeen(t) /\ alarm' = [alarm EXCEPT ![t] = "NO"] /\ UNCHANGED time
  BY <1>4, NotSeenInv DEF IInv, TypeOK, AlarmSta, Confirmed
<1> QED
  BY <1>1, <1>2, <1>3, <1>4 DEF TemperOutcome

(* Every step keeps the types and the backing of the counts.               *)
LEMMA NextInv == IInv /\ [Next]_vars => IInv'
<1> SUFFICES ASSUME IInv, [Next]_vars PROVE IInv'
  OBVIOUS
<1>1. CASE TestPower
  <2>1. /\ cnt' \in [Type -> Count] /\ alarm' \in [Type -> AlarmSta]
        /\ time' \in [Type -> Stamp] /\ held' \in [Confirmed -> 0 .. CONFIRM_TIME]
        /\ CountBacked'
    <3>1. "POWER_OFF" \in Confirmed /\ "POWER_OFF" \in Type
      BY DEF Confirmed, Type
    <3>2. CASE powerOff
      BY <1>1, <3>1, <3>2, SeenInv DEF TestPower, Stamp
    <3>3. CASE ~powerOff
      BY <1>1, <3>1, <3>3, NotSeenInv DEF TestPower, IInv, TypeOK, Stamp, AlarmSta
    <3> QED BY <3>2, <3>3
  <2>2. UNCHANGED <<inputVars, timing>> /\ pc' = "high"
    BY <1>1 DEF TestPower
  <2> QED BY <2>1, <2>2 DEF IInv, TypeOK, inputVars, timing
<1>2. CASE TestHigh
  <2>1. TemperOutcome("HIGH_TEMPER")
    BY <1>2 DEF TestHigh, TestTemper, TemperOutcome
  <2>2. "HIGH_TEMPER" \in Confirmed
    BY DEF Confirmed, Type
  <2>3. /\ cnt' \in [Type -> Count] /\ alarm' \in [Type -> AlarmSta]
        /\ time' \in [Type -> Stamp] /\ held' \in [Confirmed -> 0 .. CONFIRM_TIME]
        /\ CountBacked'
    BY <2>1, <2>2, TestTemperInv
  <2>4. UNCHANGED <<inputVars, timing>> /\ pc' = "low"
    BY <1>2 DEF TestHigh
  <2> QED BY <2>3, <2>4 DEF IInv, TypeOK, inputVars, timing
<1>3. CASE TestLow
  <2>1. TemperOutcome("LOW_TEMPER")
    BY <1>3 DEF TestLow, TestTemper, TemperOutcome
  <2>2. "LOW_TEMPER" \in Confirmed
    BY DEF Confirmed, Type
  <2>3. /\ cnt' \in [Type -> Count] /\ alarm' \in [Type -> AlarmSta]
        /\ time' \in [Type -> Stamp] /\ held' \in [Confirmed -> 0 .. CONFIRM_TIME]
        /\ CountBacked'
    BY <2>1, <2>2, TestTemperInv
  <2>4. UNCHANGED <<inputVars, timing>> /\ pc' = "dev"
    BY <1>3 DEF TestLow
  <2> QED BY <2>3, <2>4 DEF IInv, TypeOK, inputVars, timing
<1>4. CASE TestDev
  BY <1>4, AlarmAssumption DEF TestDev, IInv, TypeOK, CountBacked, Confirmed, Type, Count,
     AlarmSta, inputVars, timing
<1>5. CASE TestDevEnd
  BY <1>5, AlarmAssumption DEF TestDevEnd, IInv, TypeOK, CountBacked, Confirmed, Type, Count,
     AlarmSta, inputVars, timing
<1>6. CASE PassRest
  BY <1>6, AlarmAssumption DEF PassRest, IInv, TypeOK, CountBacked, alarmVars
<1>7. CASE Timer1S
  <2>1. cnt' \in [Type -> Count] /\ held' \in [Confirmed -> 0 .. CONFIRM_TIME]
    BY <1>7, AlarmAssumption DEF Timer1S, IInv, TypeOK, Count, Confirmed
  <2>2. ASSUME NEW t \in Confirmed
        PROVE  cnt'[t] <= held'[t] \/ held'[t] = CONFIRM_TIME
    <3>1. t \in Type /\ cnt[t] \in Count /\ held[t] \in 0 .. CONFIRM_TIME
      BY DEF Confirmed, IInv, TypeOK
    <3>2. cnt'[t] = (cnt[t] + 1) % CNT_MOD
      BY <1>7, <3>1 DEF Timer1S
    <3>3. held'[t] = IF held[t] < CONFIRM_TIME THEN held[t] + 1 ELSE held[t]
      BY <1>7 DEF Timer1S
    <3>4. (cnt[t] + 1) % CNT_MOD <= cnt[t] + 1
      BY <3>1, AlarmAssumption DEF Count
    <3>5. (cnt[t] + 1) % CNT_MOD \in Nat
      BY <3>1, AlarmAssumption DEF Count
    <3>6. cnt[t] <= held[t] \/ held[t] = CONFIRM_TIME
      BY DEF IInv, CountBacked
    <3> QED BY <3>1, <3>2, <3>3, <3>4, <3>5, <3>6, AlarmAssumption DEF Count
  <2>3. /\ UNCHANGED <<inputVars, pc, alarm, time, gap>>
        /\ lag' \in 0 .. MAX_LAG
    BY <1>7, AlarmAssumption DEF Timer1S, IInv, TypeOK
  <2> QED BY <2>1, <2>2, <2>3 DEF IInv, TypeOK, CountBacked, inputVars
<1>8. CASE SensorUpdate
  BY <1>8 DEF SensorUpdate, IInv, TypeOK, CountBacked, alarmVars
<1>9. CASE PowerChange
  BY <1>9 DEF PowerChange, IInv, TypeOK, CountBacked, alarmVars, timing
<1>10. CASE UNCHANGED vars
  BY <1>10 DEF vars, IInv, TypeOK, CountBacked, inputVars, alarmVars, timing
<1> QED
  BY <1>1, <1>2, <1>3, <1>4, <1>5, <1>6, <1>7, <1>8, <1>9, <1>10 DEF Next, Pass

(* The widths and values of Controler_Alarm_Proc's variables are kept.     *)
THEOREM TypeCorrect == Spec => []TypeOK
<1>1. IInv => TypeOK
  BY DEF IInv
<1> QED
  BY InitInv, NextInv, <1>1, PTL DEF Spec

(* Controler_Alarm_Proc raises an alarm only after every test of the last  *)
(* CONFIRM_TIME seconds saw its condition.                                 *)
THEOREM AlarmConfirmedHolds == Spec => AlarmConfirmed
<1> DEFINE Raise == \A t \in Confirmed : alarm[t] = "NO" /\ alarm'[t] = "OCCUR"
                                           => held[t] >= CONFIRM_TIME
<1>1. IInv /\ [Next]_vars => [Raise]_vars
  <2> SUFFICES ASSUME IInv, Next, NEW t \in Confirmed,
                      alarm[t] = "NO", alarm'[t] = "OCCUR"
               PROVE  held[t] >= CONFIRM_TIME
    OBVIOUS
  <2>1. t \in Type /\ alarm \in [Type -> AlarmSta]
    BY DEF IInv, TypeOK, Confirmed
  <2>2. alarm' # alarm
    OBVIOUS
  <2>3. CASE TestPower \/ TestHigh \/ TestLow
    <3>1. PICK u \in Confirmed, stamp \in Stamp :
            Seen(u, stamp) \/ alarm' = [alarm EXCEPT ![u] = "NO"]
      BY <2>2, <2>3 DEF TestPower, TestHigh, TestLow, TestTemper, alarmVars,
         Confirmed, Type, Stamp
    <3>2. CASE alarm' = [alarm EXCEPT ![u] = "NO"]
      BY <3>2, <2>1
    <3>3. CASE Seen(u, stamp)
      <4>1. cnt[u] >= CONFIRM_TIME /\ alarm' = [alarm EXCEPT ![u] = "OCCUR"]
        BY <2>2, <3>3 DEF Seen
      <4>2. u = t
        BY <4>1, <2>1
      <4> QED
        BY <4>1, <4>2, AlarmAssumption DEF IInv, TypeOK, CountBacked, Count, Confirmed
    <3> QED BY <3>1, <3>2, <3>3
  <2>4. CASE TestDev \/ TestDevEnd
    BY <2>1, <2>4 DEF TestDev, TestDevEnd, Confirmed
  <2>5. CASE PassRest \/ Timer1S \/ SensorUpdate \/ PowerChange
    BY <2>2, <2>5 DEF PassRest, Timer1S, SensorUpdate, PowerChange, alarmVars
  <2> QED BY <2>3, <2>4, <2>5 DEF Next, Pass
<1> QED
  BY InitInv, NextInv, <1>1, PTL DEF Spec, AlarmConfirmed

-----------------------------------------------------------------------------
(* The high and the low temperature alarm exclude each other.  Two facts   *)
(* about the installation are needed: a confirmation takes longer than     *)
(* three passes, and no average can be low for one target and high for     *)
(* another (the very first average may arrive between the two tests, when  *)
(* both counters have run since power-up).                                 *)
PassesAreShort == 3 * MAX_LAG < CONFIRM_TIME
TargetsAreClose == \A a, b \in Targets : a - b <= HighOccur + LowOccur

HighCnt == cnt["HIGH_TEMPER"]
LowCnt == cnt["LOW_TEMPER"]
HighOn == alarm["HIGH_TEMPER"] = "OCCUR"
LowOn == alarm["LOW_TEMPER"] = "OCCUR"

(* The low alarm recovers; no target makes the average a high one.         *)
Warm == avgTemp >= (target - LowRecover) * 10
NeverHigh == \A t \in Targets : avgTemp < (t + HighOccur) * 10

Before == pc \in {"power", "high"}
Between == pc = "low"
After == pc \in {"dev", "devEnd", "rest"}

(* The target is computed at the end of the first pass.                    *)
TargetComputed == gap = 1 => target \in Targets

(* Without a reading there is no alarm.                                    *)
NoReadingNoAlarm == avgTemp = 0 => ~HighOn /\ ~LowOn

(* Both tests of a pass with an average that is one pass old: either the   *)
(* low test starts its count again or the high test has.                   *)
OneRestarted ==
  avgTemp # 0 =>
    /\ Between /\ gap <= 1 => Warm \/ (~HighOn /\ HighCnt <= lag)
    /\ After /\ gap <= 1 => LowCnt <= lag \/ (~HighOn /\ HighCnt <= lag)
    /\ Before /\ gap = 0 => LowCnt <= MAX_LAG + lag \/ (~HighOn /\ HighCnt <= MAX_LAG + lag)

(* With the high alarm raised the low test finds nothing or has only just  *)
(* begun to count, also if the average changes before it.                  *)
HighHoldsLow ==
  Between /\ HighOn =>
    /\ Warm \/ LowCnt <= MAX_LAG + lag
    /\ gap = 0 => LowCnt <= MAX_LAG + lag

(* With the low alarm raised the high test has counted three passes at     *)
(* most, or the average is high for no target.                             *)
LowHoldsHigh ==
  LowOn =>
    /\ After /\ gap <= 1 => HighCnt <= lag
    /\ After /\ gap = 2 => HighCnt <= MAX_LAG + lag \/ NeverHigh
    /\ Before /\ gap # 1 => HighCnt <= MAX_LAG + lag
    /\ Before /\ gap = 1 => HighCnt <= 2 * MAX_LAG + lag \/ NeverHigh
    /\ Between /\ gap # 1 => HighCnt <= MAX_LAG + lag

ExclInv == /\ IInv /\ TargetComputed /\ NoReadingNoAlarm /\ OneRestarted
           /\ HighHoldsLow /\ LowHoldsHigh /\ HighLowExclusive

(* What the proofs below need of the types.                                *)
LEMMA Numbers ==
  ASSUME IInv
  PROVE  /\ HighCnt \in Nat /\ LowCnt \in Nat /\ lag \in Nat /\ lag <= MAX_LAG
         /\ gap \in 0 .. 2 /\ avgTemp \in Nat /\ target \in Nat /\ MAX_LAG \in Nat
         /\ alarm["HIGH_TEMPER"] \in AlarmSta /\ alarm["LOW_TEMPER"] \in AlarmSta
         /\ HighOn \in BOOLEAN /\ LowOn \in BOOLEAN /\ CONFIRM_TIME \in Nat
BY AlarmAssumption DEF IInv, TypeOK, HighCnt, LowCnt, HighOn, LowOn, Type, Count

(* The limits: what is high is not low.                                    *)
LEMMA Limits ==
  ASSUME IInv
  PROVE  /\ avgTemp >= (target + HighOccur) * 10 => Warm
         /\ ~(avgTemp < (target + HighRecover) * 10) => Warm
         /\ avgTemp < (target - LowOccur) * 10 => ~Warm
<1>1. avgTemp \in Nat /\ target \in Nat
  BY Numbers
<1> QED BY <1>1, AlarmAssumption DEF Warm

(* An average that is low for a target is high for none.                   *)
LEMMA LowIsNeverHigh ==
  ASSUME IInv, TargetsAreClose, avgTemp < (target - LowOccur) * 10
  PROVE  NeverHigh
<1>1. avgTemp \in Nat /\ target \in Nat
  BY Numbers
<1>2. target \in Targets
  BY <1>1, AlarmAssumption DEF IInv, TypeOK
<1> SUFFICES ASSUME NEW t \in Targets PROVE avgTemp < (t + HighOccur) * 10
  BY DEF NeverHigh
<1>3. target - t <= HighOccur + LowOccur
  BY <1>2 DEF TargetsAreClose
<1>4. t \in Nat
  BY AlarmAssumption
<1> QED BY <1>1, <1>3, <1>4, AlarmAssumption

(* The outcomes of the two tests.                                          *)
LEMMA HighOutcome ==
  ASSUME IInv, TestHigh
  PROVE  /\ LowCnt' = LowCnt /\ (LowOn' <=> LowOn) /\ (Warm' <=> Warm) /\ (NeverHigh' <=> NeverHigh)
         /\ UNCHANGED <<avgTemp, target, lag, gap>>
         /\ pc = "high" /\ pc' = "low"
         /\ \/ avgTemp = 0 /\ HighCnt' = HighCnt /\ (HighOn' <=> HighOn)
            \/ ~HighOn /\ avgTemp # 0 /\ (~NeverHigh \/ target \notin Targets) /\ Warm
               /\ HighCnt >= CONFIRM_TIME /\ HighOn' /\ HighCnt' = 0
            \/ ~HighOn /\ Warm /\ HighCnt < CONFIRM_TIME /\ ~HighOn' /\ HighCnt' = HighCnt
            \/ ~HighOn' /\ HighCnt' = 0
            \/ HighOn /\ Warm /\ HighOn' /\ HighCnt' = HighCnt
<1> DEFINE occurs == avgTemp >= (target + HighOccur) * 10
           recovers == avgTemp < (target + HighRecover) * 10
<1>1. UNCHANGED <<avgTemp, target, lag, gap>> /\ pc = "high" /\ pc' = "low"
  BY DEF TestHigh, inputVars, timing
<1>2. (Warm' <=> Warm) /\ (NeverHigh' <=> NeverHigh)
  BY <1>1 DEF Warm, NeverHigh
<1>3. cnt \in [Type -> Count] /\ alarm \in [Type -> AlarmSta]
      /\ "HIGH_TEMPER" \in Type /\ "LOW_TEMPER" \in Type
  BY DEF IInv, TypeOK, Type
<1>4. (occurs => Warm) /\ (~recovers => Warm)
  BY Limits
<1>5. occurs /\ target \in Targets => ~NeverHigh
  <2>1. (target \in Targets => target \in Nat) /\ avgTemp \in Nat
    BY Numbers
  <2> QED BY <2>1, AlarmAssumption DEF NeverHigh
<1> HIDE DEF occurs, recovers
<1>6. TestTemper("HIGH_TEMPER", occurs, recovers)
  BY DEF TestHigh, occurs, recovers
<1>7. CASE avgTemp = 0 /\ UNCHANGED alarmVars
  BY <1>1, <1>2, <1>7 DEF alarmVars, HighCnt, HighOn, LowCnt, LowOn
<1>8. CASE avgTemp > 0 /\ alarm["HIGH_TEMPER"] = "NO" /\ occurs
           /\ Seen("HIGH_TEMPER", "onset")
  <2>1. ~HighOn /\ avgTemp # 0 /\ Warm /\ HighCnt \in Nat /\ CONFIRM_TIME \in Nat
    BY <1>4, <1>8, Numbers DEF HighOn
  <2>2. CASE HighCnt >= CONFIRM_TIME
    BY <1>1, <1>2, <1>3, <1>5, <1>8, <2>1, <2>2 DEF Seen, HighCnt, HighOn, LowCnt, LowOn
  <2>3. CASE ~(HighCnt >= CONFIRM_TIME)
    <3>1. HighCnt < CONFIRM_TIME
      BY <2>1, <2>3
    <3> QED BY <1>1, <1>2, <1>8, <2>1, <2>3, <3>1 DEF Seen, HighCnt, HighOn, LowCnt, LowOn
  <2> QED BY <2>2, <2>3
<1>9. CASE alarm["HIGH_TEMPER"] = "NO" /\ NotSeen("HIGH_TEMPER") /\ UNCHANGED <<alarm, time>>
  BY <1>1, <1>2, <1>3, <1>9 DEF NotSeen, HighCnt, HighOn, LowCnt, LowOn
<1>10. CASE NotSeen("HIGH_TEMPER") /\ alarm' = [alarm EXCEPT !["HIGH_TEMPER"] = "NO"]
  BY <1>1, <1>2, <1>3, <1>10 DEF NotSeen, HighCnt, HighOn, LowCnt, LowOn
<1>11. CASE alarm["HIGH_TEMPER"] = "OCCUR" /\ ~recovers /\ UNCHANGED alarmVars
  BY <1>1, <1>2, <1>4, <1>11 DEF alarmVars, HighCnt, HighOn, LowCnt, LowOn
<1> QED BY <1>6, <1>7, <1>8, <1>9, <1>10, <1>11 DEF TestTemper

LEMMA LowOutcome ==
  ASSUME IInv, TargetsAreClose, TestLow
  PROVE  /\ HighCnt' = HighCnt /\ (HighOn' <=> HighOn) /\ (Warm' <=> Warm) /\ (NeverHigh' <=> NeverHigh)
         /\ UNCHANGED <<avgTemp, target, lag, gap>>
         /\ pc = "low" /\ pc' = "dev"
         /\ \/ avgTemp = 0 /\ LowCnt' = LowCnt /\ (LowOn' <=> LowOn)
            \/ ~LowOn /\ avgTemp # 0 /\ ~Warm /\ NeverHigh
               /\ LowCnt >= CONFIRM_TIME /\ LowOn' /\ LowCnt' = 0
            \/ ~LowOn /\ ~Warm /\ ~LowOn' /\ LowCnt' = LowCnt
            \/ ~LowOn' /\ LowCnt' = 0
            \/ LowOn /\ ~Warm /\ LowOn' /\ LowCnt' = LowCnt
<1> DEFINE occurs == avgTemp < (target - LowOccur) * 10
           recovers == avgTemp >= (target - LowRecover) * 10
<1>1. UNCHANGED <<avgTemp, target, lag, gap>> /\ pc = "low" /\ pc' = "dev"
  BY DEF TestLow, inputVars, timing
<1>2. (Warm' <=> Warm) /\ (NeverHigh' <=> NeverHigh)
  BY <1>1 DEF Warm, NeverHigh
<1>3. cnt \in [Type -> Count] /\ alarm \in [Type -> AlarmSta]
      /\ "HIGH_TEMPER" \in Type /\ "LOW_TEMPER" \in Type
  BY DEF IInv, TypeOK, Type
<1>4. (occurs => ~Warm /\ NeverHigh) /\ (recovers <=> Warm)
  BY Limits, LowIsNeverHigh DEF Warm
<1> HIDE DEF occurs, recovers
<1>5. TestTemper("LOW_TEMPER", occurs, recovers)
  BY DEF TestLow, occurs, recovers
<1>6. CASE avgTemp = 0 /\ UNCHANGED alarmVars
  BY <1>1, <1>2, <1>6 DEF alarmVars, HighCnt, HighOn, LowCnt, LowOn
<1>7. CASE avgTemp > 0 /\ alarm["LOW_TEMPER"] = "NO" /\ occurs
           /\ Seen("LOW_TEMPER", "onset")
  <2>1. ~LowOn /\ avgTemp # 0 /\ ~Warm /\ NeverHigh
    BY <1>4, <1>7 DEF LowOn
  <2>2. CASE LowCnt >= CONFIRM_TIME
    BY <1>1, <1>2, <1>3, <1>7, <2>1, <2>2 DEF Seen, HighCnt, HighOn, LowCnt, LowOn
  <2>3. CASE ~(LowCnt >= CONFIRM_TIME)
    BY <1>1, <1>2, <1>7, <2>1, <2>3 DEF Seen, HighCnt, HighOn, LowCnt, LowOn
  <2> QED BY <2>2, <2>3
<1>8. CASE alarm["LOW_TEMPER"] = "NO" /\ NotSeen("LOW_TEMPER") /\ UNCHANGED <<alarm, time>>
  BY <1>1, <1>2, <1>3, <1>8 DEF NotSeen, HighCnt, HighOn, LowCnt, LowOn
<1>9. CASE NotSeen("LOW_TEMPER") /\ alarm' = [alarm EXCEPT !["LOW_TEMPER"] = "NO"]
  BY <1>1, <1>2, <1>3, <1>9 DEF NotSeen, HighCnt, HighOn, LowCnt, LowOn
<1>10. CASE alarm["LOW_TEMPER"] = "OCCUR" /\ ~recovers /\ UNCHANGED alarmVars
  BY <1>1, <1>2, <1>4, <1>10 DEF alarmVars, HighCnt, HighOn, LowCnt, LowOn
<1> QED BY <1>5, <1>6, <1>7, <1>8, <1>9, <1>10 DEF TestTemper

LEMMA ExclInit == Init => ExclInv
<1> SUFFICES ASSUME Init PROVE ExclInv
  OBVIOUS
<1>1. ~HighOn /\ ~LowOn /\ avgTemp = 0 /\ gap = 0
  BY DEF Init, HighOn, LowOn, Type
<1>2. HighLowExclusive
  BY DEF Init, HighLowExclusive, Type
<1> QED
  BY <1>1, <1>2, InitInv DEF ExclInv, TargetComputed, NoReadingNoAlarm, OneRestarted,
     HighHoldsLow, LowHoldsHigh

(* The two alarms as named above.                                          *)
LEMMA NotBoth == ASSUME IInv PROVE HighLowExclusive <=> ~(HighOn /\ LowOn)
  BY Numbers DEF HighLowExclusive, HighOn, LowOn, AlarmSta

LEMMA TestHighExcl ==
  ASSUME ExclInv, IInv', PassesAreShort, TestHigh
  PROVE  ExclInv'
<1>1. IInv /\ ~(HighOn /\ LowOn)
  BY NotBoth DEF ExclInv
<1>2. /\ HighCnt \in Nat /\ LowCnt \in Nat /\ lag \in Nat /\ lag <= MAX_LAG
      /\ gap \in 0 .. 2 /\ MAX_LAG \in Nat /\ CONFIRM_TIME \in Nat
      /\ HighOn \in BOOLEAN /\ LowOn \in BOOLEAN
  BY <1>1, Numbers
<1>3. /\ LowCnt' = LowCnt /\ (LowOn' <=> LowOn) /\ (Warm' <=> Warm)
      /\ UNCHANGED <<avgTemp, target, lag, gap>> /\ pc = "high" /\ pc' = "low"
  BY <1>1, HighOutcome
<1>4. \/ avgTemp = 0 /\ HighCnt' = HighCnt /\ (HighOn' <=> HighOn)
      \/ ~HighOn /\ avgTemp # 0 /\ (~NeverHigh \/ target \notin Targets) /\ Warm
         /\ HighCnt >= CONFIRM_TIME /\ HighOn' /\ HighCnt' = 0
      \/ ~HighOn /\ Warm /\ HighCnt < CONFIRM_TIME /\ ~HighOn' /\ HighCnt' = HighCnt
      \/ ~HighOn' /\ HighCnt' = 0
      \/ HighOn /\ Warm /\ HighOn' /\ HighCnt' = HighCnt
  BY <1>1, HighOutcome
<1>5. LowOn => avgTemp # 0 /\ (HighCnt < CONFIRM_TIME \/ (NeverHigh /\ target \in Targets))
  BY <1>2, <1>3 DEF ExclInv, NoReadingNoAlarm, TargetComputed, LowHoldsHigh, Before, PassesAreShort
<1>6. ~(HighOn' /\ LowOn')
  BY <1>1, <1>2, <1>3, <1>4, <1>5
<1>7. HighOn' => avgTemp # 0 /\ Warm
  BY <1>4 DEF ExclInv, NoReadingNoAlarm
<1>8. HighOn' /\ gap = 0 => LowCnt <= MAX_LAG + lag
  BY <1>2, <1>3, <1>4, <1>7 DEF ExclInv, OneRestarted, Before, PassesAreShort
<1>9. HighHoldsLow'
  BY <1>3, <1>7, <1>8 DEF HighHoldsLow
<1>10. LowHoldsHigh'
  BY <1>2, <1>3, <1>4 DEF ExclInv, LowHoldsHigh, Before, Between, After, NoReadingNoAlarm
<1>11. OneRestarted'
  BY <1>2, <1>3, <1>4 DEF OneRestarted, Before, Between, After
<1>12. TargetComputed' /\ NoReadingNoAlarm' /\ HighLowExclusive'
  BY <1>3, <1>6, <1>7, NotBoth DEF ExclInv, TargetComputed, NoReadingNoAlarm, HighLowExclusive,
     HighOn, LowOn, IInv, TypeOK, AlarmSta, Type
<1> QED BY <1>9, <1>10, <1>11, <1>12 DEF ExclInv

LEMMA TestLowExcl ==
  ASSUME ExclInv, IInv', PassesAreShort, TargetsAreClose, TestLow
  PROVE  ExclInv'
<1>1. IInv /\ ~(HighOn /\ LowOn)
  BY NotBoth DEF ExclInv
<1>2. /\ HighCnt \in Nat /\ LowCnt \in Nat /\ lag \in Nat /\ lag <= MAX_LAG
      /\ gap \in 0 .. 2 /\ MAX_LAG \in Nat /\ CONFIRM_TIME \in Nat
      /\ HighOn \in BOOLEAN /\ LowOn \in BOOLEAN
  BY <1>1, Numbers
<1>3. /\ HighCnt' = HighCnt /\ (HighOn' <=> HighOn) /\ (NeverHigh' <=> NeverHigh)
      /\ UNCHANGED <<avgTemp, target, lag, gap>> /\ pc = "low" /\ pc' = "dev"
  BY <1>1, LowOutcome
<1>4. \/ avgTemp = 0 /\ LowCnt' = LowCnt /\ (LowOn' <=> LowOn)
      \/ ~LowOn /\ avgTemp # 0 /\ ~Warm /\ NeverHigh
         /\ LowCnt >= CONFIRM_TIME /\ LowOn' /\ LowCnt' = 0
      \/ ~LowOn /\ ~Warm /\ ~LowOn' /\ LowCnt' = LowCnt
      \/ ~LowOn' /\ LowCnt' = 0
      \/ LowOn /\ ~Warm /\ LowOn' /\ LowCnt' = LowCnt
  BY <1>1, LowOutcome
<1>5. HighOn => Warm \/ LowCnt < CONFIRM_TIME
  BY <1>2, <1>3 DEF ExclInv, HighHoldsLow, Between, PassesAreShort
<1>6. ~(HighOn' /\ LowOn')
  BY <1>1, <1>2, <1>3, <1>4, <1>5
<1>7. LowOn' => avgTemp # 0 /\ ~Warm
  BY <1>4 DEF ExclInv, NoReadingNoAlarm
<1>8. avgTemp # 0 /\ gap <= 1 => Warm \/ (~HighOn /\ HighCnt <= lag)
  BY <1>3 DEF ExclInv, OneRestarted, Between
<1>9. LowHoldsHigh'
  <2>1. LowOn' /\ gap <= 1 => HighCnt <= lag
    BY <1>7, <1>8
  <2>2. LowOn' /\ gap = 2 => HighCnt <= MAX_LAG + lag \/ NeverHigh
    BY <1>2, <1>3, <1>4 DEF ExclInv, LowHoldsHigh, Between, NoReadingNoAlarm
  <2> QED BY <1>3, <2>1, <2>2 DEF LowHoldsHigh, Before, Between, After
<1>10. OneRestarted'
  BY <1>2, <1>3, <1>4, <1>8 DEF OneRestarted, Before, Between, After
<1>11. HighHoldsLow'
  BY <1>3 DEF HighHoldsLow, Between
<1>12. TargetComputed' /\ NoReadingNoAlarm' /\ HighLowExclusive'
  BY <1>3, <1>6, <1>7 DEF ExclInv, TargetComputed, NoReadingNoAlarm, HighLowExclusive,
     HighOn, LowOn, IInv, TypeOK, AlarmSta, Type
<1> QED BY <1>9, <1>10, <1>11, <1>12 DEF ExclInv

(* The other tests touch neither temperature alarm.                        *)
LEMMA OtherTestExcl ==
  ASSUME ExclInv, IInv', UNCHANGED <<avgTemp, target, lag, gap>>,
         \A t \in {"HIGH_TEMPER", "LOW_TEMPER"} : cnt'[t] = cnt[t] /\ alarm'[t] = alarm[t],
         (Before /\ Before') \/ (After /\ After')
  PROVE  ExclInv'
<1>0. /\ HighCnt' = HighCnt /\ LowCnt' = LowCnt
      /\ (HighOn' <=> HighOn) /\ (LowOn' <=> LowOn)
  BY DEF HighCnt, LowCnt, HighOn, LowOn
<1>1. (Warm' <=> Warm) /\ (NeverHigh' <=> NeverHigh)
  BY DEF Warm, NeverHigh
<1>2. ~Between' /\ (Before' <=> Before) /\ (After' <=> After)
  BY DEF Before, Between, After
<1>3. TargetComputed' /\ NoReadingNoAlarm' /\ OneRestarted' /\ HighHoldsLow' /\ LowHoldsHigh'
  BY <1>0, <1>1, <1>2 DEF ExclInv, TargetComputed, NoReadingNoAlarm, OneRestarted,
     HighHoldsLow, LowHoldsHigh
<1>4. HighLowExclusive'
  BY DEF ExclInv, HighLowExclusive
<1> QED BY <1>3, <1>4 DEF ExclInv

LEMMA PassRestExcl ==
  ASSUME ExclInv, IInv', PassRest
  PROVE  ExclInv'
<1>1. IInv /\ lag \in Nat /\ lag <= MAX_LAG /\ MAX_LAG \in Nat /\ gap \in 0 .. 2
      /\ HighCnt \in Nat /\ LowCnt \in Nat
  BY Numbers DEF ExclInv
<1>2. /\ After /\ Before' /\ ~Between' /\ ~After' /\ lag' = 0
      /\ gap' = IF gap > 0 THEN gap - 1 ELSE 0
      /\ target' \in Targets /\ avgTemp' = avgTemp /\ alarm' = alarm /\ cnt' = cnt
  BY DEF PassRest, Before, Between, After, alarmVars
<1>3. /\ HighCnt' = HighCnt /\ LowCnt' = LowCnt
      /\ (HighOn' <=> HighOn) /\ (LowOn' <=> LowOn) /\ (NeverHigh' <=> NeverHigh)
  BY <1>2 DEF HighCnt, LowCnt, HighOn, LowOn, NeverHigh
<1>4. (gap' = 0 => gap <= 1) /\ (gap' = 1 => gap = 2) /\ gap' \in {0, 1}
  BY <1>1, <1>2
<1>5. OneRestarted'
  BY <1>1, <1>2, <1>3, <1>4 DEF ExclInv, OneRestarted
<1>6. LowHoldsHigh'
  BY <1>1, <1>2, <1>3, <1>4 DEF ExclInv, LowHoldsHigh
<1>7. TargetComputed' /\ NoReadingNoAlarm' /\ HighHoldsLow' /\ HighLowExclusive'
  BY <1>2, <1>3 DEF ExclInv, TargetComputed, NoReadingNoAlarm, HighHoldsLow, HighLowExclusive
<1> QED BY <1>5, <1>6, <1>7 DEF ExclInv

(* A tick moves every count by at most one, as it moves lag.               *)
LEMMA TimerExcl ==
  ASSUME ExclInv, IInv', Timer1S
  PROVE  ExclInv'
<1>1. IInv /\ lag \in Nat /\ MAX_LAG \in Nat /\ HighCnt \in Nat /\ LowCnt \in Nat
  BY Numbers DEF ExclInv
<1>2. /\ lag' = lag + 1 /\ UNCHANGED <<avgTemp, target, pc, alarm, gap>>
      /\ HighCnt' = (HighCnt + 1) % CNT_MOD /\ LowCnt' = (LowCnt + 1) % CNT_MOD
  BY DEF Timer1S, inputVars, HighCnt, LowCnt, Type
<1>3. HighCnt' <= HighCnt + 1 /\ LowCnt' <= LowCnt + 1 /\ HighCnt' \in Nat /\ LowCnt' \in Nat
  BY <1>1, <1>2, AlarmAssumption
<1>4. /\ (HighOn' <=> HighOn) /\ (LowOn' <=> LowOn)
      /\ (NeverHigh' <=> NeverHigh) /\ (Warm' <=> Warm)
      /\ (Before' <=> Before) /\ (Between' <=> Between) /\ (After' <=> After)
  BY <1>2 DEF HighOn, LowOn, NeverHigh, Warm, Before, Between, After
<1>5. OneRestarted'
  BY <1>1, <1>2, <1>3, <1>4 DEF ExclInv, OneRestarted
<1>6. HighHoldsLow'
  BY <1>1, <1>2, <1>3, <1>4 DEF ExclInv, HighHoldsLow
<1>7. LowHoldsHigh'
  BY <1>1, <1>2, <1>3, <1>4 DEF ExclInv, LowHoldsHigh
<1>8. TargetComputed' /\ NoReadingNoAlarm' /\ HighLowExclusive'
  BY <1>2, <1>4 DEF ExclInv, TargetComputed, NoReadingNoAlarm, HighLowExclusive
<1> QED BY <1>5, <1>6, <1>7, <1>8 DEF ExclInv

(* A new average can fall between the two tests.                           *)
LEMMA SensorExcl ==
  ASSUME ExclInv, IInv', SensorUpdate
  PROVE  ExclInv'
<1>1. IInv /\ lag \in Nat /\ MAX_LAG \in Nat /\ HighCnt \in Nat
  BY Numbers DEF ExclInv
<1>2. /\ gap = 0 /\ gap' = 2 /\ avgTemp' # 0
      /\ UNCHANGED <<target, pc, alarm, cnt, lag>>
  BY AlarmAssumption DEF SensorUpdate, alarmVars
<1>3. /\ HighCnt' = HighCnt /\ LowCnt' = LowCnt
      /\ (HighOn' <=> HighOn) /\ (LowOn' <=> LowOn)
      /\ (Before' <=> Before) /\ (Between' <=> Between) /\ (After' <=> After)
  BY <1>2 DEF HighCnt, LowCnt, HighOn, LowOn, Before, Between, After
<1>4. HighHoldsLow'
  BY <1>2, <1>3 DEF ExclInv, HighHoldsLow
<1>5. LowHoldsHigh'
  BY <1>1, <1>2, <1>3 DEF ExclInv, LowHoldsHigh
<1>6. TargetComputed' /\ NoReadingNoAlarm' /\ OneRestarted' /\ HighLowExclusive'
  BY <1>2 DEF ExclInv, TargetComputed, NoReadingNoAlarm, OneRestarted, HighLowExclusive
<1> QED BY <1>4, <1>5, <1>6 DEF ExclInv

LEMMA ExclNext ==
  ASSUME PassesAreShort, TargetsAreClose
  PROVE  ExclInv /\ [Next]_vars => ExclInv'
<1> SUFFICES ASSUME ExclInv, [Next]_vars PROVE ExclInv'
  OBVIOUS
<1>a. IInv /\ IInv'
  BY NextInv DEF ExclInv
<1>b. cnt \in [Type -> Count] /\ alarm \in [Type -> AlarmSta]
  BY <1>a DEF IInv, TypeOK
<1>1. CASE TestPower
  <2>1. \A t \in Type : t # "POWER_OFF" => cnt'[t] = cnt[t] /\ alarm'[t] = alarm[t]
    BY <1>1, <1>b DEF TestPower, Seen, NotSeen
  <2>2. \A t \in {"HIGH_TEMPER", "LOW_TEMPER"} : cnt'[t] = cnt[t] /\ alarm'[t] = alarm[t]
    BY <2>1 DEF Type
  <2>3. UNCHANGED <<avgTemp, target, lag, gap>> /\ Before /\ Before'
    BY <1>1 DEF TestPower, inputVars, timing, Before
  <2> QED BY <1>a, <2>2, <2>3, OtherTestExcl
<1>2. CASE TestHigh
  BY <1>2, <1>a, TestHighExcl
<1>3. CASE TestLow
  BY <1>3, <1>a, TestLowExcl
<1>4. CASE TestDev \/ TestDevEnd
  <2>1. \A t \in Type : t # "DEV_ERR" => cnt'[t] = cnt[t] /\ alarm'[t] = alarm[t]
    BY <1>4, <1>b DEF TestDev, TestDevEnd
  <2>2. \A t \in {"HIGH_TEMPER", "LOW_TEMPER"} : cnt'[t] = cnt[t] /\ alarm'[t] = alarm[t]
    BY <2>1 DEF Type
  <2>3. UNCHANGED <<avgTemp, target, lag, gap>> /\ After /\ After'
    BY <1>4 DEF TestDev, TestDevEnd, inputVars, timing, After
  <2> QED BY <1>a, <2>2, <2>3, OtherTestExcl
<1>5. CASE PassRest
  BY <1>5, <1>a, PassRestExcl
<1>6. CASE Timer1S
  BY <1>6, <1>a, TimerExcl
<1>7. CASE SensorUpdate
  BY <1>7, <1>a, SensorExcl
<1>8. CASE PowerChange \/ UNCHANGED vars
  <2>1. UNCHANGED <<avgTemp, target, pc, cnt, alarm, lag, gap>>
    BY <1>8 DEF PowerChange, vars, inputVars, alarmVars, timing
  <2> QED BY <1>a, <2>1 DEF ExclInv, TargetComputed, NoReadingNoAlarm, OneRestarted,
          HighHoldsLow, LowHoldsHigh, HighLowExclusive, HighCnt, LowCnt, HighOn, LowOn,
          Warm, NeverHigh, Before, Between, After
<1> QED BY <1>1, <1>2, <1>3, <1>4, <1>5, <1>6, <1>7, <1>8 DEF Next, Pass

(* HighLowExclusive: the high and the low temperature alarm are never      *)
(* raised together, although SysMonitor may publish a new average between  *)
(* the two tests of a pass and the target may change after every pass.     *)
THEOREM HighLowExclusiveHolds ==
  ASSUME PassesAreShort, TargetsAreClose
  PROVE  Spec => []HighLowExclusive
<1>1. ExclInv /\ [Next]_vars => ExclInv'
  BY ExclNext
<1>2. ExclInv => HighLowExclusive
  BY DEF ExclInv
<1> QED BY ExclInit, <1>1, <1>2, PTL DEF Spec
=============================================================================
