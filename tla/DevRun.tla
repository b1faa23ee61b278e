------------------------------- MODULE DevRun -------------------------------
(***************************************************************************)
(* The control thread of the environment controller: thread_entry_DevRun   *)
(* calls Ctroler_Get_DevRunCfg forever.  One pass computes the target      *)
(* temperature and the ventilation level, drives the duty cycles of the    *)
(* fans, the hysteresis of the heater and of the cold pad and the light    *)
(* schedule, and writes the output image that the drive board is sent.     *)
(*                                                                         *)
(* A pass is a sequence of steps (pc), because threads of higher priority  *)
(* preempt it: eSim installs a configuration section received from the     *)
(* cloud, SysMonitor publishes new sensor averages, and the one-second     *)
(* timer interrupt advances the counters and rereads the clock.  The LCD   *)
(* thread has a lower priority, so it only runs while DevRun sleeps, but   *)
(* DevRun may run a whole pass in the middle of an LCD command.            *)
(***************************************************************************)
EXTENDS TempCurve

CONSTANTS
  FRE_FAN_NUM_MAX,   \* variable-frequency fans (2 in the code)
  FAN_NUM_MAX,       \* on/off fans (5 in the code)
  CNT_MOD,           \* range of a run counter (2^16: uint16_t)
  SEC_PER_MIN,       \* seconds per configured minute (60)
  MAX_LAG,           \* timer ticks that can fall between two ends of a pass
  LcdInUse,          \* whether somebody presses the light key
  AvgTemps,          \* values of curAvgTemp, 0.01 degree
  AvgHumis,          \* values of curAvgHumi, 0.01 percent
  Clocks,            \* readings of the DS1302, [hour, min]
  DayNums,           \* results of Ctroler_Get_CurDayNum
  TargetCfgs, AirCfgs, HumiCfgs, HeaterCfgs, LightCfgs
                     \* the configuration sections the cloud can send

FreFan == 0 .. FRE_FAN_NUM_MAX - 1
Fan == 0 .. FAN_NUM_MAX - 1
Sta == {"DEV_STOP", "DEV_RUN"}
Count == 0 .. CNT_MOD - 1

(* Bits of outBits: the fans, then heater, cold pad and light.             *)
HeaterBit == FAN_NUM_MAX
ColdPadBit == FAN_NUM_MAX + 1
LightBit == FAN_NUM_MAX + 2
OutBit == 0 .. LightBit

TargetRow == [dayNum: 0 .. U8 - 1, targetTemp: 0 .. U16 - 1,
              minAirSpeed: 0 .. U8 - 1, minAirRuntime: 0 .. U16 - 1]
FreFanCfg == [en: BOOLEAN, speed: 0 .. U8 - 1, runTime: 0 .. U16 - 1]
FanCfg == [en: BOOLEAN, runTime: 0 .. U16 - 1]
AirLevelCfg == [temperShift: 0 .. U8 - 1, freFan: [FreFan -> FreFanCfg],
                fan: [Fan -> FanCfg]]

TargetCfg == [row: [Row -> TargetRow], cycleTime: 0 .. U16 - 1]
AirCfg == [level: [Level -> AirLevelCfg], freFanCycleTime: 0 .. U16 - 1,
           fanCycleTim: 0 .. U16 - 1]
HumiCfg == [en: BOOLEAN, enTime: 0 .. U16 - 1, disenTime: 0 .. U16 - 1,
            runTempShift: 0 .. U8 - 1, stopTempShift: 0 .. U8 - 1,
            runTime: 0 .. U8 - 1, stopTime: 0 .. U8 - 1, compValue: 0 .. U8 - 1]
HeaterCfg == [en: BOOLEAN, runTempShift: 0 .. U8 - 1, stopTempShift: 0 .. U8 - 1]
LightCfg == [en: BOOLEAN, enTime: 0 .. U16 - 1, disenTime: 0 .. U16 - 1]

ASSUME DevRunAssumption ==
  /\ FRE_FAN_NUM_MAX \in Nat \ {0}
  /\ FAN_NUM_MAX \in Nat
  /\ CNT_MOD \in Nat \ {0}
  /\ SEC_PER_MIN \in Nat
  /\ MAX_LAG \in Nat
  /\ LcdInUse \in BOOLEAN
  /\ AvgTemps \subseteq 0 .. U16 - 1 /\ 0 \in AvgTemps
  /\ AvgHumis \subseteq 0 .. U16 - 1 /\ 0 \in AvgHumis
  /\ Clocks \subseteq [hour: 0 .. 23, min: 0 .. 59]
  /\ DayNums \subseteq 0 .. U8 - 1
  /\ TargetCfgs \subseteq TargetCfg
  /\ AirCfgs \subseteq AirCfg
  /\ HumiCfgs \subseteq HumiCfg
  /\ HeaterCfgs \subseteq HeaterCfg
  /\ LightCfgs \subseteq LightCfg

VARIABLES
  target, air, humi, heaterCfg, lightCfg,
                \* m_Controler_Ctrl_Cfg_t, section by section
  avgTemp, avgHumi, clock, rtcDay,
                \* curAvgTemp, curAvgHumi, ds1302Data
  pc,           \* next step of the pass; "idle" while the thread sleeps
  curDayNum, curDayLevel, curTargetTemp, curAirLevel,
  isInit, lastDayNum, lastAirLevel,
  freFan, fan, heater, coldPad, coldPadRunFlag, light,
                \* m_Equipment_RunInfo_t
  lightCtrlEn,  \* m_LightCtrl_En: the light is under manual control
  dacOut, outBits,
                \* m_DriveBoard_Data_t.sendData
  lcd,          \* the LCD thread: "idle" or inside a light command
  lcdCopy,      \* its register copy of outBits
  lag,          \* ticks since the last pass ended (timing, not code state)
  stable,       \* history: no input changed since the current pass began
  coldPadCause, \* history: why the cold pad was last started
  heaterFlips   \* history: heater switches since its inputs last changed

cfgVars == <<target, air, humi, heaterCfg, lightCfg>>
inputVars == <<avgTemp, avgHumi, clock, rtcDay>>
levelVars == <<curDayNum, curDayLevel, curTargetTemp, curAirLevel>>
initVars == <<isInit, lastDayNum, lastAirLevel>>
fanVars == <<freFan, fan>>
padVars == <<coldPad, coldPadRunFlag, coldPadCause>>
heaterVars == <<heater, heaterFlips>>
lightVars == <<light, lightCtrlEn>>
outVars == <<dacOut, outBits>>
lcdVars == <<lcd, lcdCopy>>
vars == <<cfgVars, inputVars, pc, levelVars, initVars, fanVars, padVars,
          heaterVars, lightVars, outVars, lcdVars, lag, stable>>

-----------------------------------------------------------------------------
FreFanRunInfo == [sta: Sta, speed: 0 .. U8 - 1, runCount: Count, stopCount: Count]
FanRunInfo == [sta: Sta, runCount: Count, stopCount: Count]

FreFanOn(speed) ==
  [sta |-> "DEV_RUN", speed |-> speed, runCount |-> 0, stopCount |-> 0]
FreFanOff == [sta |-> "DEV_STOP", speed |-> 0, runCount |-> 0, stopCount |-> 0]
DevOn == [sta |-> "DEV_RUN", runCount |-> 0, stopCount |-> 0]
DevOff == [sta |-> "DEV_STOP", runCount |-> 0, stopCount |-> 0]

Init ==
  /\ target \in TargetCfgs /\ air \in AirCfgs /\ humi \in HumiCfgs
  /\ heaterCfg \in HeaterCfgs /\ lightCfg \in LightCfgs
  /\ avgTemp = 0 /\ avgHumi = 0
  /\ clock \in Clocks /\ rtcDay \in DayNums
  /\ pc = "idle"
  /\ curDayNum = 0 /\ curDayLevel = 0 /\ curTargetTemp = 0 /\ curAirLevel = 0
  /\ isInit = TRUE /\ lastDayNum = 0 /\ lastAirLevel = 0
  /\ freFan = [i \in FreFan |-> FreFanOff]
  /\ fan = [i \in Fan |-> DevOff]
  /\ heater = "DEV_STOP"
  /\ coldPad = DevOff /\ coldPadRunFlag = FALSE
  /\ light = "DEV_STOP" /\ lightCtrlEn = FALSE
  /\ dacOut = [i \in FreFan |-> 0] /\ outBits = {}
  /\ lcd = "idle" /\ lcdCopy = {}
  /\ lag = 0
  /\ stable = FALSE /\ coldPadCause = "none" /\ heaterFlips = 0

-----------------------------------------------------------------------------
(* Steps of a pass.                                                        *)

(* envir.c 1009-1012: the day of the herd and the target temperature.      *)
PassTarget ==
  /\ pc = "idle"
  /\ curDayNum' = rtcDay
  /\ curDayLevel' = DayNumLevel(target.row, rtcDay)
  /\ curTargetTemp' \in TargetTempers(target.row, rtcDay)
  /\ stable' = TRUE
  /\ heaterFlips' = IF curTargetTemp' = curTargetTemp THEN heaterFlips ELSE 0
  /\ pc' = "level"
  /\ UNCHANGED <<cfgVars, inputVars, curAirLevel, initVars, fanVars, padVars,
                 heater, lightVars, outVars, lcdVars, lag>>

(* The ventilation level; a change of day or level restarts the cycles.    *)
PassLevel ==
  /\ pc = "level"
  /\ curAirLevel' = AirCtrlLevel([i \in Level |-> air.level[i].temperShift],
                                 curTargetTemp, avgTemp)
  /\ isInit' = (isInit \/ lastDayNum # curDayNum \/ lastAirLevel # curAirLevel')
  /\ lastDayNum' = curDayNum
  /\ lastAirLevel' = curAirLevel'
  /\ pc' = "freFan"
  /\ UNCHANGED <<cfgVars, inputVars, curDayNum, curDayLevel, curTargetTemp,
                 fanVars, padVars, heaterVars, lightVars, outVars, lcdVars, lag,
                 stable>>

(* dayNumLevel, the row used for minimum ventilation: a global that only   *)
(* the commented-out LCD code assigns.                                     *)
dayNumLevel == 0

(* Faulty: the stop phase is timed against the run time plus the cycle.    *)
MinVentFanLate(f) ==
  LET speed == target.row[dayNumLevel].minAirSpeed
      runSec == target.row[dayNumLevel].minAirRuntime
  IN CASE isInit /\ speed > 0 /\ runSec > 0 -> FreFanOn(speed)
       [] ~isInit /\ f.sta = "DEV_RUN" /\ f.runCount >= runSec -> FreFanOff
       [] ~isInit /\ f.sta = "DEV_STOP" /\ f.stopCount >= target.cycleTime + runSec
            -> FreFanOn(speed)
       [] OTHER -> f

(* Minimum ventilation drives fan 0 only: minAirRuntime seconds on, the    *)
(* rest of the cycle off.  When it begins with nothing configured the fan  *)
(* is left as it is.                                                       *)
MinVentFan(f) ==
  LET speed == target.row[dayNumLevel].minAirSpeed
      runSec == target.row[dayNumLevel].minAirRuntime
  IN CASE isInit /\ speed > 0 /\ runSec > 0 -> FreFanOn(speed)
       [] ~isInit /\ f.sta = "DEV_RUN" /\ f.runCount >= runSec -> FreFanOff
       [] ~isInit /\ f.sta = "DEV_STOP" /\ f.stopCount >= target.cycleTime - runSec
            -> FreFanOn(speed)
       [] OTHER -> f

(* A variable-frequency fan at a ventilation level.  The code reads        *)
(* freFanCycleTime but compares runCount with runTime in both phases.      *)
LevelFreFan(f, c) ==
  CASE ~c.en -> [f EXCEPT !.sta = "DEV_STOP", !.speed = 0]
    [] c.en /\ isInit -> IF c.runTime > 0 /\ c.speed > 0
                         THEN FreFanOn(c.speed) ELSE FreFanOff
    [] c.en /\ ~isInit /\ f.runCount >= c.runTime ->
         IF f.sta = "DEV_RUN" THEN FreFanOff ELSE FreFanOn(c.speed)
    [] OTHER -> f

(* Faulty: a fan that the new level disables is forgotten.                 *)
LevelFanForgotten(f, c) ==
  CASE c.en /\ isInit -> IF c.runTime > 0 THEN DevOn ELSE DevOff
    [] c.en /\ ~isInit /\ f.sta = "DEV_RUN" /\ f.runCount >= c.runTime -> DevOff
    [] OTHER -> f

(* An on/off fan at a ventilation level.                                   *)
LevelFan(f, c) ==
  CASE ~c.en -> [f EXCEPT !.sta = "DEV_STOP"]
    [] c.en /\ isInit -> IF c.runTime > 0 THEN DevOn ELSE DevOff
    [] c.en /\ ~isInit /\ f.sta = "DEV_RUN" /\ f.runCount >= c.runTime -> DevOff
    [] c.en /\ ~isInit /\ f.sta = "DEV_STOP"
         /\ f.runCount >= air.fanCycleTim - c.runTime -> DevOn
    [] OTHER -> f

(* The variable-frequency fans; minimum ventilation ends here.             *)
PassFreFan ==
  /\ pc = "freFan"
  /\ \/ /\ curAirLevel = MinVent
        /\ freFan' = [freFan EXCEPT ![0] = MinVentFan(@)]
        /\ isInit' = FALSE
        /\ pc' = "heater"
     \/ /\ curAirLevel # MinVent
        /\ freFan' = [i \in FreFan |->
                        LevelFreFan(freFan[i], air.level[curAirLevel].freFan[i])]
        /\ isInit' = isInit
        /\ pc' = "fan"
  /\ UNCHANGED <<cfgVars, inputVars, levelVars, lastDayNum, lastAirLevel, fan,
                 padVars, heaterVars, lightVars, outVars, lcdVars, lag, stable>>

PassFan ==
  /\ pc = "fan"
  /\ fan' = [i \in Fan |-> LevelFan(fan[i], air.level[curAirLevel].fan[i])]
  /\ isInit' = FALSE
  /\ pc' = "heater"
  /\ UNCHANGED <<cfgVars, inputVars, levelVars, lastDayNum, lastAirLevel, freFan,
                 padVars, heaterVars, lightVars, outVars, lcdVars, lag, stable>>

curTemp == avgTemp \div 10

(* Faulty: the heater stops at the temperature at which it starts.         *)
HeaterOffEarly == curTemp >= curTargetTemp - heaterCfg.stopTempShift

(* Ctroler_Get_Heater_Sta.                                                 *)
HeaterOff == curTemp > curTargetTemp - heaterCfg.stopTempShift
HeaterOn == curTemp <= curTargetTemp - heaterCfg.runTempShift

HeaterSta ==
  CASE ~heaterCfg.en \/ heaterCfg.runTempShift = 0 -> heater
    [] heaterCfg.en /\ heaterCfg.runTempShift > 0 /\ heater = "DEV_RUN" ->
         IF HeaterOff THEN "DEV_STOP" ELSE "DEV_RUN"
    [] OTHER -> IF HeaterOn THEN "DEV_RUN" ELSE "DEV_STOP"

PassHeater ==
  /\ pc = "heater"
  /\ heater' = HeaterSta
  /\ heaterFlips' = IF heater' = heater \/ heaterFlips = 2
                    THEN heaterFlips ELSE heaterFlips + 1
  /\ pc' = "coldPad"
  /\ UNCHANGED <<cfgVars, inputVars, levelVars, initVars, fanVars, padVars,
                 lightVars, outVars, lcdVars, lag, stable>>

(* Ctroler_Get_ColdPad_Sta.                                                *)
ColdPadHumid == humi.compValue # 0 /\ avgHumi \div 10 >= humi.compValue
ColdPadActive ==
  /\ InWindow(clock, humi.enTime, humi.disenTime)
  /\ humi.runTempShift > 0 /\ humi.runTime > 0
ColdPadStop(flag) ==
  coldPad' = DevOff /\ coldPadRunFlag' = flag /\ UNCHANGED coldPadCause
ColdPadStart(flag, cause) ==
  coldPad' = DevOn /\ coldPadRunFlag' = flag /\ coldPadCause' = cause

(* Faulty: the temperature is not looked at while the pad runs.            *)
ColdPadRunningBlind ==
  IF coldPad.runCount >= humi.runTime * SEC_PER_MIN
  THEN ColdPadStop(coldPadRunFlag) ELSE UNCHANGED padVars

ColdPadRunning ==
  \/ /\ curTemp < curTargetTemp + humi.stopTempShift
     /\ ColdPadStop(FALSE)
  \/ /\ curTemp >= curTargetTemp + humi.stopTempShift
     /\ coldPad.runCount >= humi.runTime * SEC_PER_MIN
     /\ ColdPadStop(coldPadRunFlag)
  \/ /\ curTemp >= curTargetTemp + humi.stopTempShift
     /\ coldPad.runCount < humi.runTime * SEC_PER_MIN
     /\ UNCHANGED padVars

ColdPadStopped ==
  \/ /\ curTemp >= curTargetTemp + humi.runTempShift
     /\ ColdPadStart(TRUE, "hot")
  \/ /\ curTemp < curTargetTemp + humi.runTempShift
     /\ coldPadRunFlag /\ coldPad.stopCount >= humi.stopTime * SEC_PER_MIN
     /\ ColdPadStart(coldPadRunFlag, "rested")
  \/ /\ curTemp < curTargetTemp + humi.runTempShift
     /\ ~(coldPadRunFlag /\ coldPad.stopCount >= humi.stopTime * SEC_PER_MIN)
     /\ UNCHANGED padVars

PassColdPad ==
  /\ pc = "coldPad"
  /\ \/ ~humi.en /\ UNCHANGED padVars
     \/ humi.en /\ ColdPadHumid /\ ColdPadStop(coldPadRunFlag)
     \/ /\ humi.en /\ ~ColdPadHumid /\ ~ColdPadActive
        /\ coldPad' = [coldPad EXCEPT !.sta = "DEV_STOP"]
        /\ UNCHANGED <<coldPadRunFlag, coldPadCause>>
     \/ /\ humi.en /\ ~ColdPadHumid /\ ColdPadActive
        /\ \/ coldPad.sta = "DEV_RUN" /\ ColdPadRunning
           \/ coldPad.sta = "DEV_STOP" /\ ColdPadStopped
  /\ pc' = "lightEn"
  /\ UNCHANGED <<cfgVars, inputVars, levelVars, initVars, fanVars, heaterVars,
                 lightVars, outVars, lcdVars, lag, stable>>

(* The light schedule is skipped once the light is controlled by hand.     *)
PassLightEn ==
  /\ pc = "lightEn"
  /\ pc' = IF lightCtrlEn THEN "out" ELSE "light"
  /\ UNCHANGED <<cfgVars, inputVars, levelVars, initVars, fanVars, padVars,
                 heaterVars, lightVars, outVars, lcdVars, lag, stable>>

(* Ctroler_Get_Light_Sta.                                                  *)
PassLight ==
  /\ pc = "light"
  /\ light' = IF ~lightCfg.en THEN light
              ELSE IF InWindow(clock, lightCfg.enTime, lightCfg.disenTime)
                   THEN "DEV_RUN" ELSE "DEV_STOP"
  /\ pc' = "out"
  /\ UNCHANGED <<cfgVars, inputVars, levelVars, initVars, fanVars, padVars,
                 heaterVars, lightCtrlEn, outVars, lcdVars, lag, stable>>

(* Faulty: the light bit is never set.                                     *)
OutImageNoLight ==
  {i \in Fan : fan[i].sta = "DEV_RUN"}
    \union (IF heater = "DEV_RUN" THEN {HeaterBit} ELSE {})
    \union (IF coldPad.sta = "DEV_RUN" THEN {ColdPadBit} ELSE {})

(* The output image of the run states.                                     *)
OutImage ==
  {i \in Fan : fan[i].sta = "DEV_RUN"}
    \union (IF heater = "DEV_RUN" THEN {HeaterBit} ELSE {})
    \union (IF coldPad.sta = "DEV_RUN" THEN {ColdPadBit} ELSE {})
    \union (IF light = "DEV_RUN" THEN {LightBit} ELSE {})

PassOut ==
  /\ pc = "out"
  /\ dacOut' = [i \in FreFan |->
                  IF freFan[i].sta = "DEV_RUN" /\ freFan[i].speed > 0
                  THEN FrefanDacOut(freFan[i].speed) ELSE 0]
  /\ outBits' = OutImage
  /\ lag' = 0
  /\ pc' = "idle"
  /\ UNCHANGED <<cfgVars, inputVars, levelVars, initVars, fanVars, padVars,
                 heaterVars, lightVars, lcdVars, stable>>

Pass == PassTarget \/ PassLevel \/ PassFreFan \/ PassFan \/ PassHeater
        \/ PassColdPad \/ PassLightEn \/ PassLight \/ PassOut

-----------------------------------------------------------------------------
(* Timer1S_OUT: the counters of every device advance whatever its state,   *)
(* and the clock is reread.                                                *)
Ticked(d) == [d EXCEPT !.runCount = (@ + 1) % CNT_MOD,
                       !.stopCount = (@ + 1) % CNT_MOD]

Timer1S ==
  /\ lag < MAX_LAG
  /\ lag' = lag + 1
  /\ freFan' = [i \in FreFan |-> Ticked(freFan[i])]
  /\ fan' = [i \in Fan |-> Ticked(fan[i])]
  /\ coldPad' = Ticked(coldPad)
  /\ clock' \in Clocks
  /\ rtcDay' \in DayNums
  /\ UNCHANGED <<cfgVars, avgTemp, avgHumi, pc, levelVars, initVars,
                 coldPadRunFlag, coldPadCause, heaterVars, lightVars, outVars,
                 lcdVars, stable>>

(* SysMonitor publishes new averages.                                      *)
SensorUpdate ==
  /\ avgTemp' \in AvgTemps
  /\ avgHumi' \in AvgHumis
  /\ <<avgTemp, avgHumi>>' # <<avgTemp, avgHumi>>
  /\ stable' = FALSE
  /\ heaterFlips' = IF avgTemp' = avgTemp THEN heaterFlips ELSE 0
  /\ UNCHANGED <<cfgVars, clock, rtcDay, pc, levelVars, initVars, fanVars,
                 padVars, heater, lightVars, outVars, lcdVars, lag>>

(* Commu_Recv_Proc in eSim installs one section received from the cloud.   *)
InstallCfg ==
  /\ \/ target' \in TargetCfgs \ {target} /\ UNCHANGED <<air, humi, heaterCfg, lightCfg>>
     \/ air' \in AirCfgs \ {air} /\ UNCHANGED <<target, humi, heaterCfg, lightCfg>>
     \/ humi' \in HumiCfgs \ {humi} /\ UNCHANGED <<target, air, heaterCfg, lightCfg>>
     \/ heaterCfg' \in HeaterCfgs \ {heaterCfg} /\ UNCHANGED <<target, air, humi, lightCfg>>
     \/ lightCfg' \in LightCfgs \ {lightCfg} /\ UNCHANGED <<target, air, humi, heaterCfg>>
  /\ stable' = FALSE
  /\ heaterFlips' = 0
  /\ UNCHANGED <<inputVars, pc, levelVars, initVars, fanVars, padVars, heater,
                 lightVars, outVars, lcdVars, lag>>

-----------------------------------------------------------------------------
(* Faulty: the LCD thread above DevRun.                                    *)
LcdMayPreempt == TRUE

(* The LCD thread, priority 11: it runs only while DevRun (7) sleeps.      *)
LcdMayRun == pc = "idle"

(* The light key: manual control from now on; the state is read, and       *)
(* outBits is loaded for its read-modify-write.                            *)
LcdLightKey ==
  /\ LcdInUse /\ LcdMayRun /\ lcd = "idle"
  /\ lightCtrlEn' = TRUE
  /\ lcd' = IF light = "DEV_RUN" THEN "switchOff" ELSE "switchOn"
  /\ lcdCopy' = outBits
  /\ UNCHANGED <<cfgVars, inputVars, pc, levelVars, initVars, fanVars, padVars,
                 heaterVars, light, outVars, lag, stable>>

LcdWriteBits ==
  /\ LcdMayRun /\ lcd \in {"switchOff", "switchOn"}
  /\ outBits' = IF lcd = "switchOff" THEN lcdCopy \ {LightBit}
                                     ELSE lcdCopy \union {LightBit}
  /\ lcd' = IF lcd = "switchOff" THEN "setOff" ELSE "setOn"
  /\ UNCHANGED <<cfgVars, inputVars, pc, levelVars, initVars, fanVars, padVars,
                 heaterVars, lightVars, dacOut, lcdCopy, lag, stable>>

LcdWriteSta ==
  /\ LcdMayRun /\ lcd \in {"setOff", "setOn"}
  /\ light' = IF lcd = "setOff" THEN "DEV_STOP" ELSE "DEV_RUN"
  /\ lcd' = "idle"
  /\ lcdCopy' = {}
  /\ UNCHANGED <<cfgVars, inputVars, pc, levelVars, initVars, fanVars, padVars,
                 heaterVars, lightCtrlEn, outVars, lag, stable>>

Lcd == LcdLightKey \/ LcdWriteBits \/ LcdWriteSta

Next == Pass \/ Timer1S \/ SensorUpdate \/ InstallCfg \/ Lcd

Spec == Init /\ [][Next]_vars

(* The scheduler runs DevRun again after its delay, the hardware timer     *)
(* keeps firing, and a started LCD command finishes because the LCD thread *)
(* runs whenever the threads above it sleep.  Sensor values, configuration *)
(* messages and key presses are never promised.                            *)
Fairness ==
  /\ WF_vars(Pass)
  /\ WF_vars(Timer1S)
  /\ SF_vars(LcdWriteBits) /\ SF_vars(LcdWriteSta)

FairSpec == Spec /\ Fairness

-----------------------------------------------------------------------------
(* Every variable keeps the width and the range the code gives it.         *)
TypeOK ==
  /\ target \in TargetCfgs /\ air \in AirCfgs /\ humi \in HumiCfgs
  /\ heaterCfg \in HeaterCfgs /\ lightCfg \in LightCfgs
  /\ avgTemp \in AvgTemps /\ avgHumi \in AvgHumis
  /\ clock \in Clocks /\ rtcDay \in DayNums
  /\ pc \in {"idle", "level", "freFan", "fan", "heater", "coldPad",
            "lightEn", "light", "out"}
  /\ curDayNum \in 0 .. U8 - 1 /\ lastDayNum \in 0 .. U8 - 1
  /\ curDayLevel \in Row
  /\ curTargetTemp \in 0 .. U16 - 1
  /\ curAirLevel \in Level \union {MinVent}
  /\ lastAirLevel \in Level \union {MinVent}
  /\ isInit \in BOOLEAN
  /\ freFan \in [FreFan -> FreFanRunInfo]
  /\ fan \in [Fan -> FanRunInfo]
  /\ heater \in Sta /\ light \in Sta
  /\ coldPad \in FanRunInfo
  /\ coldPadRunFlag \in BOOLEAN /\ lightCtrlEn \in BOOLEAN
  /\ dacOut \in [FreFan -> DacRange]
  /\ outBits \subseteq OutBit /\ lcdCopy \subseteq OutBit
  /\ lcd \in {"idle", "switchOff", "switchOn", "setOff", "setOn"}
  /\ lag \in 0 .. MAX_LAG
  /\ stable \in BOOLEAN
  /\ coldPadCause \in {"none", "hot", "rested"}
  /\ heaterFlips \in 0 .. 2

(* A pass that saw one consistent set of inputs never leaves the heater    *)
(* and the cold pad both running (Ctroler_Get_Heater_Sta and               *)
(* Ctroler_Get_ColdPad_Sta), provided both are enabled, their stop offsets *)
(* are not both zero, and the pad was not started by the end of its rest.  *)
HeatCoolExclusive ==
  /\ pc = "idle" /\ stable
  /\ heaterCfg.en /\ heaterCfg.runTempShift > 0
  /\ humi.en /\ heaterCfg.stopTempShift + humi.stopTempShift > 0
  /\ coldPadCause # "rested"
  => ~(heater = "DEV_RUN" /\ coldPad.sta = "DEV_RUN")

(* The hysteresis of the heater works: while temperature, target and       *)
(* configuration stay as they are the heater switches at most once, even   *)
(* when both offsets are equal.                                            *)
HeaterNoChatter ==
  heaterCfg.stopTempShift <= heaterCfg.runTempShift => heaterFlips <= 1

(* At a ventilation level, a pass on one consistent configuration leaves   *)
(* running only fans that the level enables, whatever ran before the level *)
(* was entered.                                                            *)
LevelGovernsFans ==
  pc = "idle" /\ stable /\ curAirLevel # MinVent =>
    /\ \A i \in FreFan :
         freFan[i].sta = "DEV_RUN" => air.level[curAirLevel].freFan[i].en
    /\ \A i \in Fan : fan[i].sta = "DEV_RUN" => air.level[curAirLevel].fan[i].en

(* Once the light key was pressed only the LCD thread switches the light.  *)
(* A pass tests m_LightCtrl_En once and writes the scheduled state later;  *)
(* that this stale test never overrides the key rests on the priorities.   *)
ManualLightHeld == [][lightCtrlEn /\ lcd' = lcd => light' = light]_vars

(* A light switched on by hand reaches the output image, although a pass   *)
(* may rewrite the image in the middle of the LCD command.                 *)
LightKeyTakesEffect ==
  lcd = "idle" /\ lightCtrlEn /\ light = "DEV_RUN"
    ~> LightBit \in outBits \/ lcd # "idle"

(* Minimum ventilation never starves: with a speed and a run time          *)
(* configured, fan 0 keeps being started as long as the level lasts.       *)
MinVentSet == target.row[dayNumLevel].minAirSpeed > 0
              /\ target.row[dayNumLevel].minAirRuntime > 0
MinVentRuns ==
  curAirLevel = MinVent /\ MinVentSet
    ~> freFan[0].sta = "DEV_RUN" \/ curAirLevel # MinVent \/ ~MinVentSet
=============================================================================
