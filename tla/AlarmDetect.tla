---------------------------- MODULE AlarmDetect -----------------------------
(***************************************************************************)
(* Controler_Alarm_Proc, the first call of every control pass: it compares *)
(* the mains input, the average temperature and the fan feedback with the  *)
(* alarm configuration and raises or clears an alarm per type.  An alarm   *)
(* is raised when its condition has been seen for confirmTime seconds;     *)
(* the seconds are counted by the one-second interrupt, which increments   *)
(* the counter of every type, and every test that fails resets its own.    *)
(*                                                                         *)
(* The four tests are separate steps because SysMonitor and the interrupt  *)
(* preempt the pass.  The sensor alarm (envir.c 984-987) is empty.  The    *)
(* alarm configuration is only written at boot, and m_Alarm_Sta_t.sta is   *)
(* written but never read.                                                 *)
(***************************************************************************)
EXTENDS Integers

CONSTANTS
  CONFIRM_TIME,  \* confirmTime of every type (10 in the defaults)
  CNT_MOD,       \* range of confirmCnt (2^8: uint8_t)
  HighOccur, HighRecover, LowOccur, LowRecover,
                 \* alarmOccurShit and alarmRecoverShit, 0.1 degree
  AvgTemps,      \* averages SysMonitor can publish, 0.01 degree
  Targets,       \* target temperatures, 0.1 degree
  MAX_LAG        \* timer ticks that can fall into one pass and its sleep

Type == {"POWER_OFF", "HIGH_TEMPER", "LOW_TEMPER", "DEV_ERR"}
Confirmed == Type \ {"DEV_ERR"}
Count == 0 .. CNT_MOD - 1
AlarmSta == {"NO", "OCCUR"}

(* What wrote the time of an alarm: its onset, a repetition of the onset   *)
(* or its recovery.                                                        *)
Stamp == {"none", "onset", "repeat", "recover"}

ASSUME AlarmAssumption ==
  /\ CONFIRM_TIME \in Nat /\ CNT_MOD \in Nat /\ CONFIRM_TIME < CNT_MOD
  /\ HighOccur \in Nat /\ HighRecover \in Nat /\ HighRecover <= HighOccur
  /\ LowOccur \in Nat /\ LowRecover \in Nat /\ LowRecover <= LowOccur
  /\ AvgTemps \subseteq Nat \ {0} /\ Targets \subseteq Nat
  /\ MAX_LAG \in Nat

VARIABLES
  avgTemp,    \* curAvgTemp; 0 until a sensor has answered
  target,     \* curTargetTemp; 0 until the first pass has computed it
  powerOff,   \* IS_POWER_OFF
  fanFault,   \* a variable-frequency fan is driven and its Hall sensor is silent
  pc,         \* the next test of the pass; "rest": what follows in the pass
  cnt,        \* m_Alarm_Sta_t: confirmCnt of every type
  alarm, time,
              \* m_Alarm_Proc_t: alarmSta and time of every type
  lag,        \* ticks since the last pass ended (timing, not code state)
  gap,        \* ends of a pass until SysMonitor may publish again (timing)
  held        \* history: ticks since a test last did not see the condition

inputVars == <<avgTemp, target, powerOff, fanFault>>
alarmVars == <<cnt, alarm, time, held>>
timing == <<lag, gap>>
vars == <<inputVars, pc, alarmVars, timing>>

Init ==
  /\ avgTemp = 0
  /\ target = 0
  /\ powerOff \in BOOLEAN /\ fanFault = FALSE
  /\ pc = "power"
  /\ cnt = [t \in Type |-> 0]
  /\ alarm = [t \in Type |-> "NO"] /\ time = [t \in Type |-> "none"]
  /\ lag = 0 /\ gap = 0
  /\ held = [t \in Confirmed |-> 0]

-----------------------------------------------------------------------------
(* The tests.                                                              *)

(* Faulty: the count is restarted in every pass, as in TestDev.            *)
SeenRestarts(t, stamp) ==
  /\ cnt' = [cnt EXCEPT ![t] = 0]
  /\ IF cnt[t] >= CONFIRM_TIME
     THEN /\ alarm' = [alarm EXCEPT ![t] = "OCCUR"]
          /\ time' = [time EXCEPT ![t] = stamp]
     ELSE UNCHANGED <<alarm, time>>
  /\ UNCHANGED held

(* The condition of type t is seen: the alarm is raised once confirmed.    *)
Seen(t, stamp) ==
  /\ IF cnt[t] >= CONFIRM_TIME
     THEN /\ alarm' = [alarm EXCEPT ![t] = "OCCUR"]
          /\ time' = [time EXCEPT ![t] = stamp]
          /\ cnt' = [cnt EXCEPT ![t] = 0]
     ELSE UNCHANGED <<alarm, time, cnt>>
  /\ UNCHANGED held

(* Faulty: the count goes on.                                              *)
NotSeenKeepsCount(t) ==
  /\ held' = [held EXCEPT ![t] = 0]
  /\ UNCHANGED cnt

(* The condition is not seen: counting starts again.                       *)
NotSeen(t) ==
  /\ cnt' = [cnt EXCEPT ![t] = 0]
  /\ held' = [held EXCEPT ![t] = 0]

(* The mains.  While the outage lasts the onset is repeated every          *)
(* CONFIRM_TIME seconds, with a new time.                                  *)
TestPower ==
  /\ pc = "power" /\ pc' = "high"
  /\ \/ /\ powerOff
        /\ Seen("POWER_OFF", IF alarm["POWER_OFF"] = "NO" THEN "onset" ELSE "repeat")
     \/ /\ ~powerOff
        /\ NotSeen("POWER_OFF")
        /\ time' = IF alarm["POWER_OFF"] = "OCCUR"
                   THEN [time EXCEPT !["POWER_OFF"] = "recover"] ELSE time
        /\ alarm' = [alarm EXCEPT !["POWER_OFF"] = "NO"]
  /\ UNCHANGED <<inputVars, timing>>

(* A temperature alarm of type t: it is raised on the condition occurs,    *)
(* cleared on the condition recovers, and not tested without a reading.    *)
TestTemper(t, occurs, recovers) ==
  \/ avgTemp = 0 /\ UNCHANGED alarmVars
  \/ /\ avgTemp > 0 /\ alarm[t] = "NO"
     /\ \/ occurs /\ Seen(t, "onset")
        \/ ~occurs /\ NotSeen(t) /\ UNCHANGED <<alarm, time>>
  \/ /\ avgTemp > 0 /\ alarm[t] = "OCCUR"
     /\ \/ recovers /\ NotSeen(t) /\ alarm' = [alarm EXCEPT ![t] = "NO"] /\ UNCHANGED time
        \/ ~recovers /\ UNCHANGED alarmVars

TestHigh ==
  /\ pc = "high" /\ pc' = "low"
  /\ TestTemper("HIGH_TEMPER", avgTemp >= (target + HighOccur) * 10,
                avgTemp < (target + HighRecover) * 10)
  /\ UNCHANGED <<inputVars, timing>>

(* Faulty: the shift is added to the target instead of subtracted.         *)
TestLowAdded ==
  /\ pc = "low" /\ pc' = "dev"
  /\ TestTemper("LOW_TEMPER", avgTemp < (target + LowOccur) * 10,
                avgTemp >= (target + LowRecover) * 10)
  /\ UNCHANGED <<inputVars, timing>>

TestLow ==
  /\ pc = "low" /\ pc' = "dev"
  /\ TestTemper("LOW_TEMPER", avgTemp < (target - LowOccur) * 10,
                avgTemp >= (target - LowRecover) * 10)
  /\ UNCHANGED <<inputVars, timing>>

(* The devices.  Of the twenty inputs only the two variable-frequency fans *)
(* can be found faulty: the test of the others (line 967) is 0 for every   *)
(* input, because != binds tighter than &.  The alarm is never raised when *)
(* the test begins (the run would find the deadlock).                      *)
TestDev ==
  /\ pc = "dev" /\ pc' = "devEnd"
  /\ alarm["DEV_ERR"] = "NO"
  /\ IF fanFault /\ cnt["DEV_ERR"] >= CONFIRM_TIME
     THEN /\ alarm' = [alarm EXCEPT !["DEV_ERR"] = "OCCUR"]
          /\ cnt' = [cnt EXCEPT !["DEV_ERR"] = 0]
     ELSE UNCHANGED <<cnt, alarm>>
  /\ UNCHANGED <<inputVars, time, held, timing>>

(* Lines 978 and 979: whatever the loop found, the alarm is cleared and    *)
(* the count restarted.                                                    *)
TestDevEnd ==
  /\ pc = "devEnd" /\ pc' = "rest"
  /\ alarm' = [alarm EXCEPT !["DEV_ERR"] = "NO"]
  /\ cnt' = [cnt EXCEPT !["DEV_ERR"] = 0]
  /\ UNCHANGED <<inputVars, time, held, timing>>

(* The rest of the pass, after a sleep of 50 ms, computes the target       *)
(* temperature and drives the fans; the next pass begins 200 ms later.     *)
PassRest ==
  /\ pc = "rest" /\ pc' = "power"
  /\ target' \in Targets /\ fanFault' \in BOOLEAN
  /\ lag' = 0 /\ gap' = IF gap > 0 THEN gap - 1 ELSE 0
  /\ UNCHANGED <<avgTemp, powerOff, alarmVars>>

Pass == TestPower \/ TestHigh \/ TestLow \/ TestDev \/ TestDevEnd \/ PassRest

-----------------------------------------------------------------------------
(* What happens between the tests.                                         *)

(* Faulty: the counters never wrap.                                        *)
Timer1SNoWrap ==
  /\ lag < MAX_LAG /\ lag' = lag + 1
  /\ cnt' = [t \in Type |-> cnt[t] + 1]
  /\ held' = [t \in Confirmed |-> IF held[t] < CONFIRM_TIME THEN held[t] + 1 ELSE held[t]]
  /\ UNCHANGED <<inputVars, pc, alarm, time, gap>>

(* Timer1S_OUT: confirmCnt++ for every type.                               *)
Timer1S ==
  /\ lag < MAX_LAG /\ lag' = lag + 1
  /\ cnt' = [t \in Type |-> (cnt[t] + 1) % CNT_MOD]
  /\ held' = [t \in Confirmed |-> IF held[t] < CONFIRM_TIME THEN held[t] + 1 ELSE held[t]]
  /\ UNCHANGED <<inputVars, pc, alarm, time, gap>>

(* SysMonitor publishes an average.  It changes once per poll of all       *)
(* devices, which takes 50 ms per device, and a pass is repeated every     *)
(* 250 ms, so the tests of a whole pass lie between two averages.          *)
SensorUpdate ==
  /\ gap = 0 /\ gap' = 2
  /\ avgTemp' \in AvgTemps
  /\ UNCHANGED <<target, powerOff, fanFault, pc, alarmVars, lag>>

PowerChange ==
  /\ powerOff' = ~powerOff
  /\ UNCHANGED <<avgTemp, target, fanFault, pc, alarmVars, timing>>

Next == Pass \/ Timer1S \/ SensorUpdate \/ PowerChange

Spec == Init /\ [][Next]_vars

(* The thread is scheduled after its sleep and the timer keeps running.    *)
FairSpec == Spec /\ WF_vars(Pass) /\ WF_vars(Timer1S)

-----------------------------------------------------------------------------
(* The widths and values of the C types.                                   *)
TypeOK ==
  /\ avgTemp \in AvgTemps \union {0} /\ target \in Targets \union {0}
  /\ powerOff \in BOOLEAN /\ fanFault \in BOOLEAN
  /\ pc \in {"power", "high", "low", "dev", "devEnd", "rest"}
  /\ cnt \in [Type -> Count]
  /\ alarm \in [Type -> AlarmSta] /\ time \in [Type -> Stamp]
  /\ lag \in 0 .. MAX_LAG /\ gap \in 0 .. 2
  /\ held \in [Confirmed -> 0 .. CONFIRM_TIME]

(* An alarm is raised only when every test made in the last CONFIRM_TIME   *)
(* seconds saw its condition, although the interrupt also counts while the *)
(* condition is absent or the alarm is raised, and the counter wraps.      *)
AlarmConfirmed ==
  [][\A t \in Confirmed : alarm[t] = "NO" /\ alarm'[t] = "OCCUR"
       => held[t] >= CONFIRM_TIME]_vars

(* The high and the low temperature alarm are never raised together, also  *)
(* when a new average arrives between the two tests.                       *)
HighLowExclusive == alarm["HIGH_TEMPER"] = "NO" \/ alarm["LOW_TEMPER"] = "NO"

(* A high temperature that lasts raises the alarm.                         *)
HighAlarmRaised ==
  avgTemp >= (target + HighOccur) * 10
    ~> \/ alarm["HIGH_TEMPER"] = "OCCUR"
       \/ avgTemp < (target + HighOccur) * 10
=============================================================================
