---------------------------- MODULE DevRunProofs ----------------------------
(***************************************************************************)
(* Theorems about the control pass, for every number of rows, levels and   *)
(* fans, every set of configurations and every sensor value.               *)
(***************************************************************************)
EXTENDS DevRun, TempCurveProofs

(* The types of what the configuration sections hold.                      *)
LEMMA SectionTypes ==
  ASSUME TypeOK
  PROVE  /\ target \in TargetCfg /\ air \in AirCfg /\ humi \in HumiCfg
         /\ heaterCfg \in HeaterCfg /\ lightCfg \in LightCfg
         /\ avgTemp \in 0 .. U16 - 1 /\ avgHumi \in 0 .. U16 - 1
         /\ rtcDay \in 0 .. U8 - 1
BY DevRunAssumption DEF TypeOK

LEMMA TargetTyped ==
  ASSUME TypeOK
  PROVE  CurveTyped(target.row)
<1>1. target.row \in [Row -> TargetRow]
  BY SectionTypes DEF TargetCfg
<1>2. ASSUME NEW i \in Row
      PROVE  /\ target.row[i].dayNum \in 0 .. U8 - 1
             /\ target.row[i].targetTemp \in 0 .. U16 - 1
  BY <1>1 DEF TargetRow
<1> QED BY <1>2 DEF CurveTyped

(* The counters and states a device can be given.                          *)
LEMMA DeviceTypes ==
  /\ 0 \in Count
  /\ DevOn \in FanRunInfo /\ DevOff \in FanRunInfo /\ FreFanOff \in FreFanRunInfo
  /\ \A s \in 0 .. U8 - 1 : FreFanOn(s) \in FreFanRunInfo
<1>1. 0 \in Count
  BY DevRunAssumption DEF Count
<1>2. 0 \in 0 .. U8 - 1
  BY Widths
<1> QED BY <1>1, <1>2 DEF DevOn, DevOff, FreFanOff, FreFanOn, FanRunInfo, FreFanRunInfo, Sta

LEMMA TickedTypes ==
  /\ \A d \in FanRunInfo : Ticked(d) \in FanRunInfo
  /\ \A d \in FreFanRunInfo : Ticked(d) \in FreFanRunInfo
<1>1. \A c \in Count : (c + 1) % CNT_MOD \in Count
  BY DevRunAssumption, ModRange DEF Count
<1> QED BY <1>1 DEF Ticked, FanRunInfo, FreFanRunInfo

-----------------------------------------------------------------------------
(* Type correctness.  The groups are expanded by every step.               *)

LEMMA TypeInit == Init => TypeOK
<1> SUFFICES ASSUME Init PROVE TypeOK
  OBVIOUS
<1>1. 0 \in Row /\ 0 \in Level /\ 0 \in 0 .. U8 - 1 /\ 0 \in 0 .. U16 - 1
      /\ 0 \in 0 .. MAX_LAG
  BY CurveAssumption, DevRunAssumption, Widths DEF Row, Level
<1>2. "DEV_STOP" \in Sta
  BY DEF Sta
<1>3. avgTemp \in AvgTemps /\ avgHumi \in AvgHumis
  BY DevRunAssumption DEF Init
<1>4. freFan \in [FreFan -> FreFanRunInfo] /\ fan \in [Fan -> FanRunInfo]
      /\ coldPad \in FanRunInfo
  BY DeviceTypes DEF Init
<1>5. dacOut \in [FreFan -> DacRange]
  BY DEF Init, DacRange
<1>6. {} \subseteq OutBit /\ 0 \in 0 .. 2
  OBVIOUS
<1> QED BY <1>1, <1>2, <1>3, <1>4, <1>5, <1>6, Zenon DEF Init, TypeOK

LEMMA TypePassTarget == TypeOK /\ PassTarget => TypeOK'
<1> SUFFICES ASSUME TypeOK, PassTarget PROVE TypeOK'
  OBVIOUS
<1> USE DEF PassTarget
<1>1. rtcDay \in 0 .. U8 - 1 /\ CurveTyped(target.row)
  BY SectionTypes, TargetTyped
<1>2. curDayLevel' \in Row
  BY DayNumLevelIsLastReached
<1>3. curTargetTemp' \in 0 .. U16 - 1
  BY <1>1, TargetTempersType
<1>4. heaterFlips' \in 0 .. 2
  BY DEF TypeOK
<1> QED BY <1>1, <1>2, <1>3, <1>4 DEF TypeOK, cfgVars, inputVars, initVars, fanVars,
           padVars, lightVars, outVars, lcdVars

LEMMA TypePassLevel == TypeOK /\ PassLevel => TypeOK'
<1> SUFFICES ASSUME TypeOK, PassLevel PROVE TypeOK'
  OBVIOUS
<1> USE DEF PassLevel
<1>1. curTargetTemp \in Nat /\ avgTemp \in Nat
  BY SectionTypes, Widths DEF TypeOK
<1>2. curAirLevel' \in Level \union {MinVent}
  BY <1>1, AirCtrlLevelIsHighestReached
<1>3. isInit' \in BOOLEAN
  BY DEF TypeOK
<1> QED BY <1>2, <1>3 DEF TypeOK, cfgVars, inputVars, fanVars, padVars, heaterVars,
           lightVars, outVars, lcdVars

(* What a ventilation level holds for a fan.                               *)
LEMMA LevelTypes ==
  ASSUME TypeOK, NEW l \in Level
  PROVE  /\ \A i \in FreFan : air.level[l].freFan[i] \in FreFanCfg
         /\ \A i \in Fan : air.level[l].fan[i] \in FanCfg
<1>1. air.level[l] \in AirLevelCfg
  BY SectionTypes DEF AirCfg
<1> QED BY <1>1 DEF AirLevelCfg

LEMMA MinVentFanType ==
  ASSUME TypeOK, NEW f \in FreFanRunInfo
  PROVE  MinVentFan(f) \in FreFanRunInfo
<1>1. 0 \in Row
  BY CurveAssumption DEF Row
<1>2. target.row[0] \in TargetRow
  BY <1>1, SectionTypes DEF TargetCfg
<1>3. target.row[dayNumLevel].minAirSpeed \in 0 .. U8 - 1
  BY <1>2 DEF TargetRow, dayNumLevel
<1> QED BY <1>3, DeviceTypes, Zenon DEF MinVentFan

LEMMA LevelFreFanType ==
  ASSUME NEW f \in FreFanRunInfo, NEW c \in FreFanCfg
  PROVE  LevelFreFan(f, c) \in FreFanRunInfo
<1>1. c.speed \in 0 .. U8 - 1 /\ c.en \in BOOLEAN
  BY DEF FreFanCfg
<1>2. \A z \in 0 .. U8 - 1 : [f EXCEPT !.sta = "DEV_STOP", !.speed = z] \in FreFanRunInfo
  BY DEF FreFanRunInfo, Sta
<1>3. 0 \in 0 .. U8 - 1
  BY Widths
<1> QED BY <1>1, <1>2, <1>3, DeviceTypes, Zenon DEF LevelFreFan

LEMMA LevelFanType ==
  ASSUME NEW f \in FanRunInfo, NEW c
  PROVE  LevelFan(f, c) \in FanRunInfo
<1>1. [f EXCEPT !.sta = "DEV_STOP"] \in FanRunInfo
  BY DEF FanRunInfo, Sta
<1> QED BY <1>1, DeviceTypes, Zenon DEF LevelFan

LEMMA TypePassFreFan == TypeOK /\ PassFreFan => TypeOK'
<1> SUFFICES ASSUME TypeOK, PassFreFan PROVE TypeOK'
  OBVIOUS
<1>1. 0 \in FreFan
  BY DevRunAssumption DEF FreFan
<1>2. freFan' \in [FreFan -> FreFanRunInfo]
  <2>1. CASE curAirLevel = MinVent
    <3>1. MinVentFan(freFan[0]) \in FreFanRunInfo
      BY <1>1, MinVentFanType DEF TypeOK
    <3> QED BY <1>1, <2>1, <3>1 DEF PassFreFan, TypeOK
  <2>2. CASE curAirLevel # MinVent
    <3>1. curAirLevel \in Level
      BY <2>2 DEF TypeOK
    <3>2. \A i \in FreFan : LevelFreFan(freFan[i], air.level[curAirLevel].freFan[i])
                             \in FreFanRunInfo
      BY <3>1, LevelTypes, LevelFreFanType DEF TypeOK
    <3> QED BY <2>2, <3>2 DEF PassFreFan
  <2> QED BY <2>1, <2>2
<1>3. isInit' \in BOOLEAN
  <2>1. isInit \in BOOLEAN
    BY DEF TypeOK
  <2>2. isInit' = FALSE \/ isInit' = isInit
    BY Zenon DEF PassFreFan
  <2> QED BY <2>1, <2>2
<1>4. pc' \in {"heater", "fan"}
  BY Zenon DEF PassFreFan
<1> QED BY <1>2, <1>3, <1>4 DEF PassFreFan, TypeOK, cfgVars, inputVars, levelVars, padVars,
           heaterVars, lightVars, outVars, lcdVars

LEMMA TypePassFan == TypeOK /\ PassFan => TypeOK'
<1> SUFFICES ASSUME TypeOK, PassFan PROVE TypeOK'
  OBVIOUS
<1>1. \A i \in Fan : LevelFan(fan[i], air.level[curAirLevel].fan[i]) \in FanRunInfo
  BY LevelFanType DEF TypeOK
<1>2. fan' \in [Fan -> FanRunInfo]
  BY <1>1 DEF PassFan
<1>3. /\ isInit' \in BOOLEAN /\ pc' = "heater"
      /\ UNCHANGED <<cfgVars, inputVars, levelVars, lastDayNum, lastAirLevel, freFan,
                     padVars, heaterVars, lightVars, outVars, lcdVars, lag, stable>>
  BY DEF PassFan
<1> QED BY <1>2, <1>3 DEF TypeOK, cfgVars, inputVars, levelVars, padVars,
           heaterVars, lightVars, outVars, lcdVars

LEMMA TypePassHeater == TypeOK /\ PassHeater => TypeOK'
<1> SUFFICES ASSUME TypeOK, PassHeater PROVE TypeOK'
  OBVIOUS
<1>1. heater' \in Sta
  <2>1. heater' \in {heater, "DEV_RUN", "DEV_STOP"}
    BY Zenon DEF PassHeater, HeaterSta
  <2> QED BY <2>1 DEF TypeOK, Sta
<1>2. heaterFlips' \in 0 .. 2
  <2>1. heaterFlips \in 0 .. 2
    BY DEF TypeOK
  <2>2. heaterFlips' = heaterFlips \/ (heaterFlips # 2 /\ heaterFlips' = heaterFlips + 1)
    BY Zenon DEF PassHeater
  <2> QED BY <2>1, <2>2
<1> QED BY <1>1, <1>2 DEF PassHeater, TypeOK, cfgVars, inputVars, levelVars, initVars,
           fanVars, padVars, lightVars, outVars, lcdVars

(* The four ways in which a pass leaves the cold pad.                      *)
LEMMA ColdPadOutcomes ==
  PassColdPad =>
    \/ UNCHANGED padVars
    \/ coldPad' = DevOff /\ coldPadRunFlag' \in {FALSE, coldPadRunFlag}
         /\ coldPadCause' = coldPadCause
    \/ coldPad' = DevOn /\ coldPadRunFlag' \in {TRUE, coldPadRunFlag}
         /\ coldPadCause' \in {"hot", "rested"}
    \/ coldPad' = [coldPad EXCEPT !.sta = "DEV_STOP"] /\ coldPadRunFlag' = coldPadRunFlag
         /\ coldPadCause' = coldPadCause
BY Zenon DEF PassColdPad, ColdPadStop, ColdPadStart, ColdPadRunning, ColdPadStopped

LEMMA TypePassColdPad == TypeOK /\ PassColdPad => TypeOK'
<1> SUFFICES ASSUME TypeOK, PassColdPad PROVE TypeOK'
  OBVIOUS
<1>1. coldPad \in FanRunInfo /\ coldPadRunFlag \in BOOLEAN
      /\ coldPadCause \in {"none", "hot", "rested"}
  BY DEF TypeOK
<1>2. [coldPad EXCEPT !.sta = "DEV_STOP"] \in FanRunInfo
  BY <1>1 DEF FanRunInfo, Sta
<1>3. coldPad' \in FanRunInfo
  BY <1>1, <1>2, ColdPadOutcomes, DeviceTypes DEF padVars
<1>4. coldPadRunFlag' \in BOOLEAN
  BY <1>1, ColdPadOutcomes, Zenon DEF padVars
<1>5. coldPadCause' \in {"none", "hot", "rested"}
  BY <1>1, ColdPadOutcomes, Zenon DEF padVars
<1> QED BY <1>3, <1>4, <1>5 DEF PassColdPad, TypeOK, cfgVars, inputVars, levelVars,
           initVars, fanVars, heaterVars, lightVars, outVars, lcdVars

LEMMA TypePassLightEn == TypeOK /\ PassLightEn => TypeOK'
BY DEF PassLightEn, TypeOK, cfgVars, inputVars, levelVars, initVars, fanVars, padVars,
       heaterVars, lightVars, outVars, lcdVars

LEMMA TypePassLight == TypeOK /\ PassLight => TypeOK'
<1> SUFFICES ASSUME TypeOK, PassLight PROVE TypeOK'
  OBVIOUS
<1>1. light' \in Sta
  <2>1. light' \in {light, "DEV_RUN", "DEV_STOP"}
    BY Zenon DEF PassLight
  <2> QED BY <2>1 DEF TypeOK, Sta
<1> QED BY <1>1 DEF PassLight, TypeOK, cfgVars, inputVars, levelVars, initVars, fanVars,
           padVars, heaterVars, outVars, lcdVars

LEMMA TypePassOut == TypeOK /\ PassOut => TypeOK'
<1> SUFFICES ASSUME TypeOK, PassOut PROVE TypeOK'
  OBVIOUS
<1>1. \A i \in FreFan : freFan[i].speed \in Nat
  BY Widths DEF TypeOK, FreFanRunInfo
<1>2. \A i \in FreFan : FrefanDacOut(freFan[i].speed) \in DacRange
  BY <1>1, FrefanDacOutType, Zenon
<1>3. dacOut' \in [FreFan -> DacRange]
  <2>1. 0 \in DacRange
    BY DEF DacRange
  <2> QED BY <1>2, <2>1 DEF PassOut
<1>4. outBits' \subseteq OutBit
  <2>1. Fan \subseteq OutBit /\ {HeaterBit, ColdPadBit, LightBit} \subseteq OutBit
    BY DevRunAssumption DEF Fan, OutBit, HeaterBit, ColdPadBit, LightBit
  <2> QED BY <2>1, Zenon DEF PassOut, OutImage
<1>5. lag' \in 0 .. MAX_LAG
  BY DevRunAssumption DEF PassOut
<1>6. /\ pc' = "idle"
      /\ UNCHANGED <<cfgVars, inputVars, levelVars, initVars, fanVars, padVars,
                     heaterVars, lightVars, lcdVars, stable>>
  BY DEF PassOut
<1> QED BY <1>3, <1>4, <1>5, <1>6 DEF TypeOK, cfgVars, inputVars, levelVars, initVars,
           fanVars, padVars, heaterVars, lightVars, lcdVars

LEMMA TypeTimer1S == TypeOK /\ Timer1S => TypeOK'
<1> SUFFICES ASSUME TypeOK, Timer1S PROVE TypeOK'
  OBVIOUS
<1>1. freFan' \in [FreFan -> FreFanRunInfo] /\ fan' \in [Fan -> FanRunInfo]
      /\ coldPad' \in FanRunInfo
  BY TickedTypes DEF Timer1S, TypeOK
<1>2. lag' \in 0 .. MAX_LAG
  BY DevRunAssumption DEF Timer1S, TypeOK
<1>3. /\ clock' \in Clocks /\ rtcDay' \in DayNums
      /\ UNCHANGED <<cfgVars, avgTemp, avgHumi, pc, levelVars, initVars,
                     coldPadRunFlag, coldPadCause, heaterVars, lightVars, outVars,
                     lcdVars, stable>>
  BY DEF Timer1S
<1> QED BY <1>1, <1>2, <1>3 DEF TypeOK, cfgVars, levelVars, initVars, heaterVars,
           lightVars, outVars, lcdVars

LEMMA TypeSensorUpdate == TypeOK /\ SensorUpdate => TypeOK'
<1> SUFFICES ASSUME TypeOK, SensorUpdate PROVE TypeOK'
  OBVIOUS
<1>1. heaterFlips' \in 0 .. 2
  BY DEF SensorUpdate, TypeOK
<1>2. /\ avgTemp' \in AvgTemps /\ avgHumi' \in AvgHumis /\ stable' \in BOOLEAN
      /\ UNCHANGED <<cfgVars, clock, rtcDay, pc, levelVars, initVars, fanVars,
                     padVars, heater, lightVars, outVars, lcdVars, lag>>
  BY DEF SensorUpdate
<1> QED BY <1>1, <1>2 DEF TypeOK, cfgVars, levelVars, initVars, fanVars, padVars,
           lightVars, outVars, lcdVars

LEMMA TypeInstallCfg == TypeOK /\ InstallCfg => TypeOK'
<1> SUFFICES ASSUME TypeOK, InstallCfg PROVE TypeOK'
  OBVIOUS
<1>1. target' \in TargetCfgs /\ air' \in AirCfgs /\ humi' \in HumiCfgs
      /\ heaterCfg' \in HeaterCfgs /\ lightCfg' \in LightCfgs
  BY DEF InstallCfg, TypeOK
<1>2. /\ stable' = FALSE /\ heaterFlips' = 0
      /\ UNCHANGED <<inputVars, pc, levelVars, initVars, fanVars, padVars, heater,
                     lightVars, outVars, lcdVars, lag>>
  BY Zenon DEF InstallCfg
<1>3. stable' \in BOOLEAN
  BY <1>2, Zenon
<1>4. heaterFlips' \in 0 .. 2
  BY <1>2
<1> QED BY <1>1, <1>2, <1>3, <1>4 DEF TypeOK, inputVars, levelVars, initVars, fanVars, padVars,
           lightVars, outVars, lcdVars

LEMMA TypeLcd == TypeOK /\ Lcd => TypeOK'
<1>1. LightBit \in OutBit
  BY DevRunAssumption DEF OutBit, LightBit
<1>2. TypeOK /\ LcdLightKey => TypeOK'
  BY DEF LcdLightKey, TypeOK, cfgVars, inputVars, levelVars, initVars, fanVars, padVars,
         heaterVars, outVars
<1>3. TypeOK /\ LcdWriteBits => TypeOK'
  BY <1>1 DEF LcdWriteBits, TypeOK, cfgVars, inputVars, levelVars, initVars, fanVars,
         padVars, heaterVars, lightVars
<1>4. TypeOK /\ LcdWriteSta => TypeOK'
  BY DEF LcdWriteSta, TypeOK, Sta, cfgVars, inputVars, levelVars, initVars, fanVars,
         padVars, heaterVars, outVars
<1> QED BY <1>2, <1>3, <1>4 DEF Lcd

(* Every variable of the control pass keeps its width: counters wrap, the  *)
(* target stays a uint16_t, and the analogue outputs never leave 0 or the  *)
(* range 320 .. 2100, whatever the configurations and the sensor values.   *)
THEOREM TypeCorrect == Spec => []TypeOK
<1>1. Init => TypeOK
  BY TypeInit
<1>2. TypeOK /\ [Next]_vars => TypeOK'
  <2>1. TypeOK /\ UNCHANGED vars => TypeOK'
    BY DEF TypeOK, vars, cfgVars, inputVars, levelVars, initVars, fanVars, padVars,
           heaterVars, lightVars, outVars, lcdVars
  <2> QED BY <2>1, TypePassTarget, TypePassLevel, TypePassFreFan, TypePassFan,
             TypePassHeater, TypePassColdPad, TypePassLightEn, TypePassLight,
             TypePassOut, TypeTimer1S, TypeSensorUpdate, TypeInstallCfg, TypeLcd
             DEF Next, Pass
<1> QED BY <1>1, <1>2, PTL DEF Spec

-----------------------------------------------------------------------------
(* Manual control of the light.  A pass that has found the schedule in     *)
(* charge cannot be overtaken by the key, because LcdMayRun fails until    *)
(* the pass has written the state.                                         *)
ScheduleInCharge == pc = "light" => ~lightCtrlEn

LEMMA ScheduleStep == ScheduleInCharge /\ [Next]_vars => ScheduleInCharge'
<1> SUFFICES ASSUME ScheduleInCharge, [Next]_vars PROVE ScheduleInCharge'
  OBVIOUS
<1> USE DEF ScheduleInCharge
<1>1. CASE PassLightEn
  BY <1>1, Zenon DEF PassLightEn, lightVars
<1>2. CASE LcdLightKey
  BY <1>2, Zenon DEF LcdLightKey, LcdMayRun
<1>3. CASE UNCHANGED vars \/ Timer1S \/ SensorUpdate \/ InstallCfg \/ LcdWriteBits
           \/ LcdWriteSta
  <2>1. UNCHANGED <<pc, lightCtrlEn>>
    BY <1>3, Zenon DEF vars, Timer1S, SensorUpdate, InstallCfg, LcdWriteBits,
           LcdWriteSta, lightVars
  <2> QED BY <2>1
<1>4. CASE PassTarget \/ PassLevel \/ PassFreFan \/ PassFan \/ PassHeater \/ PassColdPad
           \/ PassLight \/ PassOut
  <2>1. pc' # "light"
    BY <1>4, Zenon DEF PassTarget, PassLevel, PassFreFan, PassFan, PassHeater,
           PassColdPad, PassLight, PassOut
  <2> QED BY <2>1
<1> QED BY <1>1, <1>2, <1>3, <1>4 DEF Next, Pass, Lcd

(* Once the light key was pressed, no pass and no timer switches the       *)
(* light: ManualLightHeld, for every configuration.                        *)
THEOREM ManualLightHeldHolds == Spec => ManualLightHeld
<1>1. Init => ScheduleInCharge
  BY DEF Init, ScheduleInCharge
<1>2. ScheduleInCharge /\ [Next]_vars
        => [lightCtrlEn /\ lcd' = lcd => light' = light]_vars
  <2> SUFFICES ASSUME ScheduleInCharge, [Next]_vars, lightCtrlEn, lcd' = lcd
               PROVE  light' = light \/ UNCHANGED vars
    OBVIOUS
  <2>1. CASE PassLight
    BY <2>1 DEF PassLight, ScheduleInCharge
  <2>2. CASE LcdWriteSta
    BY <2>2 DEF LcdWriteSta
  <2>3. CASE LcdLightKey \/ LcdWriteBits
    BY <2>3, Zenon DEF LcdLightKey, LcdWriteBits, lightVars
  <2>4. CASE PassTarget \/ PassLevel \/ PassFreFan \/ PassFan \/ PassHeater
             \/ PassColdPad \/ PassLightEn \/ PassOut
    BY <2>4, Zenon DEF PassTarget, PassLevel, PassFreFan, PassFan, PassHeater,
           PassColdPad, PassLightEn, PassOut, lightVars
  <2>5. CASE Timer1S \/ SensorUpdate \/ InstallCfg
    BY <2>5, Zenon DEF Timer1S, SensorUpdate, InstallCfg, lightVars
  <2> QED BY <2>1, <2>2, <2>3, <2>4, <2>5 DEF Next, Pass, Lcd
<1> QED BY <1>1, <1>2, ScheduleStep, PTL DEF Spec, ManualLightHeld

-----------------------------------------------------------------------------
(* The hysteresis of the heater.  After a switch the heater is where its   *)
(* inputs want it: below the start threshold when running, above the stop  *)
(* threshold when stopped.                                                 *)
HeaterSettled ==
  heaterFlips >= 1 => /\ heater = "DEV_RUN" => HeaterOn
                      /\ heater = "DEV_STOP" => HeaterOff
HeaterInv == HeaterSettled /\ HeaterNoChatter

LEMMA HeaterInvFrame ==
  ASSUME TypeOK, HeaterInv,
         UNCHANGED <<heaterCfg, avgTemp, curTargetTemp, heater>>,
         heaterFlips' = heaterFlips
  PROVE  HeaterInv'
BY Zenon DEF HeaterInv, HeaterSettled, HeaterNoChatter, HeaterOn, HeaterOff, curTemp

LEMMA HeaterInvReset ==
  ASSUME heaterFlips' = 0
  PROVE  HeaterInv'
BY DEF HeaterInv, HeaterSettled, HeaterNoChatter

LEMMA HeaterInvPassHeater ==
  ASSUME TypeOK, HeaterInv, PassHeater
  PROVE  HeaterInv'
<1> DEFINE run == heaterCfg.runTempShift
           stop == heaterCfg.stopTempShift
<1>1. run \in Int /\ stop \in Int /\ curTemp \in Int /\ curTargetTemp \in Int
      /\ heaterFlips \in 0 .. 2 /\ heater \in {"DEV_RUN", "DEV_STOP"}
  <2>1. heaterCfg \in HeaterCfg /\ avgTemp \in 0 .. U16 - 1
    BY SectionTypes
  <2> QED BY <2>1, Widths DEF HeaterCfg, TypeOK, Sta, curTemp
<1>2. UNCHANGED <<heaterCfg, avgTemp, curTargetTemp>>
  BY Zenon DEF PassHeater, cfgVars, inputVars, levelVars
<1>3. CASE heater' = heater
  <2>1. heaterFlips' = heaterFlips
    BY <1>3, Zenon DEF PassHeater
  <2> QED BY <1>2, <1>3, <2>1, HeaterInvFrame, Zenon
<1>4. CASE heater' # heater
  <2>1. HeaterSta = heater'
    BY Zenon DEF PassHeater
  <2>2. \/ heater = "DEV_RUN" /\ heater' = "DEV_STOP" /\ HeaterOff
        \/ heater = "DEV_STOP" /\ heater' = "DEV_RUN" /\ HeaterOn
    <3>1. heaterCfg.runTempShift = 0 <=> ~(heaterCfg.runTempShift > 0)
      BY SectionTypes, Widths DEF HeaterCfg
    <3>2. CASE heater = "DEV_RUN"
      <4>1. heaterCfg.en /\ heaterCfg.runTempShift # 0
        BY <1>4, <2>1, <3>1, Zenon DEF HeaterSta
      <4>2. heaterCfg.runTempShift > 0
        BY <3>1, <4>1
      <4>3. HeaterSta = IF HeaterOff THEN "DEV_STOP" ELSE "DEV_RUN"
        BY <3>2, <4>1, <4>2, Zenon DEF HeaterSta
      <4> QED BY <1>4, <2>1, <3>2, <4>3, Zenon
    <3>3. CASE heater = "DEV_STOP"
      <4>1. heater # "DEV_RUN"
        BY <3>3
      <4>2. heater' = IF HeaterOn THEN "DEV_RUN" ELSE "DEV_STOP"
        BY <1>4, <2>1, <4>1, Zenon DEF HeaterSta
      <4> QED BY <1>4, <3>3, <4>2, Zenon
    <3> QED BY <1>1, <3>2, <3>3
  <2>3. HeaterOn' = HeaterOn /\ HeaterOff' = HeaterOff
    BY <1>2, Zenon DEF HeaterOn, HeaterOff, curTemp
  <2>4. HeaterSettled'
    BY <2>2, <2>3, Zenon DEF HeaterSettled
  <2>5. stop <= run => heaterFlips = 0
    <3> SUFFICES ASSUME stop <= run, heaterFlips # 0 PROVE FALSE
      OBVIOUS
    <3>1. heater = "DEV_RUN" => curTemp <= curTargetTemp - run
      BY <1>1 DEF HeaterInv, HeaterSettled, HeaterOn
    <3>2. heater = "DEV_STOP" => curTemp > curTargetTemp - stop
      BY <1>1 DEF HeaterInv, HeaterSettled, HeaterOff
    <3>3. \/ heater = "DEV_RUN" /\ curTemp > curTargetTemp - stop
          \/ heater = "DEV_STOP" /\ curTemp <= curTargetTemp - run
      BY <2>2, Zenon DEF HeaterOn, HeaterOff
    <3> HIDE DEF run, stop
    <3> QED BY <1>1, <3>1, <3>2, <3>3
  <2>6. heaterFlips' = IF heaterFlips = 2 THEN heaterFlips ELSE heaterFlips + 1
    BY <1>4, Zenon DEF PassHeater
  <2>7. HeaterNoChatter'
    <3> SUFFICES ASSUME stop' <= run' PROVE heaterFlips' <= 1
      BY DEF HeaterNoChatter
    <3>1. stop <= run
      BY <1>2, Zenon
    <3> QED BY <2>5, <2>6, <3>1
  <2> QED BY <2>4, <2>7 DEF HeaterInv
<1> QED BY <1>3, <1>4

(* The heater switches at most once while its inputs stay as they are,     *)
(* whatever the thresholds, temperatures and passes: HeaterNoChatter.      *)
THEOREM HeaterNoChatterHolds == Spec => []HeaterNoChatter
<1>1. Init => HeaterInv
  BY DEF Init, HeaterInv, HeaterSettled, HeaterNoChatter
<1>2. TypeOK /\ HeaterInv /\ [Next]_vars => HeaterInv'
  <2> SUFFICES ASSUME TypeOK, HeaterInv, [Next]_vars PROVE HeaterInv'
    OBVIOUS
  <2>1. CASE PassHeater
    BY <2>1, HeaterInvPassHeater
  <2>2. CASE InstallCfg
    <3>1. heaterFlips' = 0
      BY <2>2, Zenon DEF InstallCfg
    <3> QED BY <3>1, HeaterInvReset
  <2>3. CASE PassTarget \/ SensorUpdate
    <3>1. \/ heaterFlips' = 0
          \/ UNCHANGED <<heaterCfg, avgTemp, curTargetTemp, heater>> /\ heaterFlips' = heaterFlips
      BY <2>3, Zenon DEF PassTarget, SensorUpdate, cfgVars, inputVars, levelVars
    <3> QED BY <3>1, HeaterInvReset, HeaterInvFrame
  <2>4. CASE PassLevel \/ PassFreFan \/ PassFan \/ PassColdPad \/ PassLightEn \/ PassLight
             \/ PassOut
    <3>1. UNCHANGED <<heaterCfg, avgTemp, curTargetTemp, heater>> /\ heaterFlips' = heaterFlips
      BY <2>4, Zenon DEF PassLevel, PassFreFan, PassFan, PassColdPad, PassLightEn,
             PassLight, PassOut, cfgVars, inputVars, levelVars, heaterVars
    <3> QED BY <3>1, HeaterInvFrame
  <2>5. CASE UNCHANGED vars \/ Timer1S \/ LcdLightKey \/ LcdWriteBits \/ LcdWriteSta
    <3>1. UNCHANGED <<heaterCfg, avgTemp, curTargetTemp, heater>> /\ heaterFlips' = heaterFlips
      BY <2>5, Zenon DEF vars, Timer1S, LcdLightKey, LcdWriteBits, LcdWriteSta, cfgVars,
             inputVars, levelVars, heaterVars
    <3> QED BY <3>1, HeaterInvFrame
  <2> QED BY <2>1, <2>2, <2>3, <2>4, <2>5 DEF Next, Pass, Lcd
<1>3. HeaterInv => HeaterNoChatter
  BY DEF HeaterInv
<1> QED BY <1>1, <1>2, <1>3, TypeCorrect, PTL DEF Spec

-----------------------------------------------------------------------------
(* Heating and cooling.  From the step that decided the heater to the end  *)
(* of a pass on one set of inputs, a running heater means a temperature    *)
(* below one of its thresholds; from the step that decided the pad, a      *)
(* running pad means one above one of its own.                             *)
AfterHeater == {"coldPad", "lightEn", "light", "out", "idle"}
AfterPad == {"lightEn", "light", "out", "idle"}

HeaterAgrees ==
  /\ pc \in AfterHeater /\ stable /\ heater = "DEV_RUN"
  /\ heaterCfg.en /\ heaterCfg.runTempShift > 0
  => ~HeaterOff \/ HeaterOn

PadHot == \/ curTemp >= curTargetTemp + humi.stopTempShift
          \/ humi.runTempShift > 0 /\ curTemp >= curTargetTemp + humi.runTempShift
PadAgrees ==
  /\ pc \in AfterPad /\ stable /\ coldPad.sta = "DEV_RUN"
  /\ humi.en /\ coldPadCause # "rested"
  => PadHot

ClimateInv == HeaterAgrees /\ PadAgrees

(* No temperature is both below a heater and above a pad threshold.        *)
LEMMA ThresholdsApart ==
  ASSUME NEW t \in Int, NEW c \in Int, NEW hRun \in Int, NEW hStop \in Nat,
         NEW pRun \in Int, NEW pStop \in Nat, hRun > 0, hStop + pStop > 0
  PROVE  ~ /\ ~(c > t - hStop) \/ c <= t - hRun
           /\ c >= t + pStop \/ (pRun > 0 /\ c >= t + pRun)
OBVIOUS

LEMMA ClimateImpliesExclusive ==
  ASSUME TypeOK, ClimateInv
  PROVE  HeatCoolExclusive
<1> SUFFICES ASSUME pc = "idle", stable, heaterCfg.en, heaterCfg.runTempShift > 0,
                    humi.en, heaterCfg.stopTempShift + humi.stopTempShift > 0,
                    coldPadCause # "rested",
                    heater = "DEV_RUN", coldPad.sta = "DEV_RUN"
             PROVE  FALSE
  BY Zenon DEF HeatCoolExclusive
<1>1. ~HeaterOff \/ HeaterOn
  BY Zenon DEF ClimateInv, HeaterAgrees, AfterHeater
<1>2. PadHot
  BY Zenon DEF ClimateInv, PadAgrees, AfterPad
<1>3. /\ heaterCfg.runTempShift \in Int /\ heaterCfg.stopTempShift \in Nat
      /\ humi.runTempShift \in Int /\ humi.stopTempShift \in Nat
      /\ curTargetTemp \in Int /\ curTemp \in Int
  BY SectionTypes, Widths DEF HeaterCfg, HumiCfg, curTemp, TypeOK
<1> QED BY <1>1, <1>2, <1>3, ThresholdsApart, Zenon DEF PadHot, HeaterOff, HeaterOn

(* A step that keeps what the thresholds are compared with, and neither    *)
(* starts a device nor turns an unstable pass into a stable one.           *)
LEMMA ClimateFrame ==
  ASSUME ClimateInv,
         UNCHANGED <<heaterCfg, humi, avgTemp, curTargetTemp, heater, coldPadCause>>,
         coldPad'.sta = coldPad.sta, stable' => stable,
         pc' \in AfterHeater => pc \in AfterHeater,
         pc' \in AfterPad => pc \in AfterPad
  PROVE  ClimateInv'
<1>1. HeaterOn' = HeaterOn /\ HeaterOff' = HeaterOff /\ PadHot' = PadHot
  BY Zenon DEF HeaterOn, HeaterOff, PadHot, curTemp
<1>2. HeaterAgrees'
  BY <1>1, Zenon DEF ClimateInv, HeaterAgrees
<1>3. PadAgrees'
  BY <1>1, Zenon DEF ClimateInv, PadAgrees
<1> QED BY <1>2, <1>3 DEF ClimateInv

LEMMA ClimateUnstable ==
  ASSUME stable' = FALSE \/ pc' \notin AfterHeater
  PROVE  ClimateInv'
BY Zenon DEF ClimateInv, HeaterAgrees, PadAgrees, AfterHeater, AfterPad

LEMMA ClimatePassHeater ==
  ASSUME TypeOK, PassHeater
  PROVE  ClimateInv'
<1>1. UNCHANGED <<heaterCfg, avgTemp, curTargetTemp>> /\ pc' = "coldPad" /\ heater' = HeaterSta
  BY Zenon DEF PassHeater, cfgVars, inputVars, levelVars
<1>2. HeaterOn' = HeaterOn /\ HeaterOff' = HeaterOff
  BY <1>1, Zenon DEF HeaterOn, HeaterOff, curTemp
<1>3. HeaterAgrees'
  <2> SUFFICES ASSUME HeaterSta = "DEV_RUN", heaterCfg.en, heaterCfg.runTempShift > 0
               PROVE  ~HeaterOff \/ HeaterOn
    BY <1>1, <1>2, Zenon DEF HeaterAgrees
  <2>1. heaterCfg.runTempShift # 0
    BY SectionTypes, Widths DEF HeaterCfg
  <2>2. CASE heater = "DEV_RUN"
    BY <2>1, <2>2, Zenon DEF HeaterSta
  <2>3. CASE heater # "DEV_RUN"
    BY <2>1, <2>3, Zenon DEF HeaterSta
  <2> QED BY <2>2, <2>3
<1>4. PadAgrees'
  BY <1>1, Zenon DEF PadAgrees, AfterPad
<1> QED BY <1>3, <1>4 DEF ClimateInv

LEMMA ClimatePassColdPad ==
  ASSUME TypeOK, ClimateInv, PassColdPad
  PROVE  ClimateInv'
<1>1. /\ UNCHANGED <<heaterCfg, humi, avgTemp, curTargetTemp, heater, stable>>
      /\ pc = "coldPad" /\ pc' = "lightEn"
  BY Zenon DEF PassColdPad, cfgVars, inputVars, levelVars, heaterVars
<1>2. HeaterOn' = HeaterOn /\ HeaterOff' = HeaterOff /\ PadHot' = PadHot
  BY <1>1, Zenon DEF HeaterOn, HeaterOff, PadHot, curTemp
<1>3. HeaterAgrees'
  BY <1>1, <1>2, Zenon DEF ClimateInv, HeaterAgrees, AfterHeater
<1>4. PadAgrees'
  <2> SUFFICES ASSUME coldPad'.sta = "DEV_RUN", humi.en, coldPadCause' # "rested"
               PROVE  PadHot
    BY <1>1, <1>2, Zenon DEF PadAgrees
  <2>1. DevOff.sta # "DEV_RUN" /\ [coldPad EXCEPT !.sta = "DEV_STOP"].sta # "DEV_RUN"
    BY DEF DevOff, TypeOK, FanRunInfo
  <2>2. ColdPadActive /\ (ColdPadRunning \/ ColdPadStopped)
    BY <2>1, Zenon DEF PassColdPad, ColdPadStop
  <2>3. CASE ColdPadRunning
    BY <2>1, <2>3, Zenon DEF ColdPadRunning, ColdPadStop, PadHot
  <2>4. CASE ColdPadStopped
    <3>1. CASE coldPad.sta = "DEV_STOP"
      <4>1. coldPad' # coldPad
        BY <3>1
      <4> QED BY <2>2, <2>4, <4>1, Zenon DEF ColdPadStopped, ColdPadStart, ColdPadActive,
                 PadHot, padVars
    <3>2. CASE coldPad.sta # "DEV_STOP"
      <4>1. ColdPadRunning
        BY <2>1, <3>2, Zenon DEF PassColdPad, ColdPadStop
      <4> QED BY <2>3, <4>1
    <3> QED BY <3>1, <3>2
  <2> QED BY <2>2, <2>3, <2>4
<1> QED BY <1>3, <1>4 DEF ClimateInv

LEMMA TickedSta ==
  ASSUME NEW d \in FanRunInfo
  PROVE  Ticked(d).sta = d.sta
BY DEF Ticked, FanRunInfo

(* A pass on consistent inputs never leaves heater and cold pad both       *)
(* running: HeatCoolExclusive, for every configuration and temperature.    *)
THEOREM HeatCoolExclusiveHolds == Spec => []HeatCoolExclusive
<1>1. Init => ClimateInv
  BY Zenon DEF Init, ClimateInv, HeaterAgrees, PadAgrees
<1>2. TypeOK /\ ClimateInv /\ [Next]_vars => ClimateInv'
  <2> SUFFICES ASSUME TypeOK, ClimateInv, [Next]_vars PROVE ClimateInv'
    OBVIOUS
  <2>1. CASE PassHeater
    BY <2>1, ClimatePassHeater
  <2>2. CASE PassColdPad
    BY <2>2, ClimatePassColdPad
  <2>3. CASE SensorUpdate \/ InstallCfg \/ PassTarget \/ PassLevel \/ PassFreFan \/ PassFan
    <3>1. stable' = FALSE \/ pc' \in {"level", "freFan", "fan", "heater"}
      BY <2>3, Zenon DEF SensorUpdate, InstallCfg, PassTarget, PassLevel, PassFreFan,
             PassFan
    <3>2. {"level", "freFan", "fan", "heater"} \cap AfterHeater = {}
      BY DEF AfterHeater
    <3> QED BY <3>1, <3>2, ClimateUnstable
  <2>4. CASE Timer1S
    <3>1. /\ UNCHANGED <<heaterCfg, humi, avgTemp, curTargetTemp, heater, coldPadCause>>
          /\ UNCHANGED <<stable, pc>> /\ coldPad' = Ticked(coldPad)
      BY <2>4, Zenon DEF Timer1S, cfgVars, levelVars, heaterVars
    <3>2. coldPad'.sta = coldPad.sta
      BY <3>1, TickedSta DEF TypeOK
    <3> QED BY <3>1, <3>2, ClimateFrame, Zenon
  <2>5. CASE PassLightEn \/ PassLight \/ PassOut
    <3>1. /\ UNCHANGED <<heaterCfg, humi, avgTemp, curTargetTemp, heater, coldPadCause>>
          /\ UNCHANGED <<stable, coldPad>> /\ pc \in AfterPad /\ pc \in AfterHeater
      BY <2>5, Zenon DEF PassLightEn, PassLight, PassOut, cfgVars, inputVars, levelVars,
             heaterVars, padVars, AfterPad, AfterHeater
    <3> QED BY <3>1, ClimateFrame, Zenon
  <2>6. CASE UNCHANGED vars \/ LcdLightKey \/ LcdWriteBits \/ LcdWriteSta
    <3>1. /\ UNCHANGED <<heaterCfg, humi, avgTemp, curTargetTemp, heater, coldPadCause>>
          /\ UNCHANGED <<stable, coldPad, pc>>
      BY <2>6, Zenon DEF vars, LcdLightKey, LcdWriteBits, LcdWriteSta, cfgVars,
             inputVars, levelVars, heaterVars, padVars
    <3> QED BY <3>1, ClimateFrame, Zenon
  <2> QED BY <2>1, <2>2, <2>3, <2>4, <2>5, <2>6 DEF Next, Pass, Lcd
<1>3. TypeOK /\ ClimateInv => HeatCoolExclusive
  BY ClimateImpliesExclusive
<1> QED BY <1>1, <1>2, <1>3, TypeCorrect, PTL DEF Spec

-----------------------------------------------------------------------------
(* Ventilation.  From the step that decided a group of fans to the end of  *)
(* a pass on one configuration, the level enables every fan that runs.     *)
AfterFan == {"heater", "coldPad", "lightEn", "light", "out", "idle"}
AfterFreFan == AfterFan \union {"fan"}

FreFansGoverned ==
  pc \in AfterFreFan /\ stable /\ curAirLevel # MinVent =>
    \A i \in FreFan : freFan[i].sta = "DEV_RUN" => air.level[curAirLevel].freFan[i].en
FansGoverned ==
  pc \in AfterFan /\ stable /\ curAirLevel # MinVent =>
    \A i \in Fan : fan[i].sta = "DEV_RUN" => air.level[curAirLevel].fan[i].en

FansInv == FreFansGoverned /\ FansGoverned

(* A level leaves no disabled fan running (the first test of both loops).  *)
LEMMA LevelStopsDisabled ==
  /\ \A c : \A f \in FreFanRunInfo : ~c.en => LevelFreFan(f, c).sta = "DEV_STOP"
  /\ \A c : \A f \in FanRunInfo : ~c.en => LevelFan(f, c).sta = "DEV_STOP"
<1>1. ASSUME NEW f \in FreFanRunInfo, NEW c, ~c.en
      PROVE  LevelFreFan(f, c).sta = "DEV_STOP"
  <2>1. LevelFreFan(f, c) = [f EXCEPT !.sta = "DEV_STOP", !.speed = 0]
    BY <1>1, Zenon DEF LevelFreFan
  <2> QED BY <2>1 DEF FreFanRunInfo
<1>2. ASSUME NEW f \in FanRunInfo, NEW c, ~c.en
      PROVE  LevelFan(f, c).sta = "DEV_STOP"
  <2>1. LevelFan(f, c) = [f EXCEPT !.sta = "DEV_STOP"]
    BY <1>2, Zenon DEF LevelFan
  <2> QED BY <2>1 DEF FanRunInfo
<1> QED BY <1>1, <1>2

LEMMA FansFrame ==
  ASSUME FansInv, UNCHANGED <<air, curAirLevel>>, stable' => stable,
         \A i \in FreFan : freFan'[i].sta = freFan[i].sta,
         \A i \in Fan : fan'[i].sta = fan[i].sta,
         pc' \in AfterFreFan => pc \in AfterFreFan,
         pc' \in AfterFan => pc \in AfterFan
  PROVE  FansInv'
<1>1. FreFansGoverned'
  BY Zenon DEF FansInv, FreFansGoverned
<1>2. FansGoverned'
  BY Zenon DEF FansInv, FansGoverned
<1> QED BY <1>1, <1>2 DEF FansInv

LEMMA FansPassFreFan ==
  ASSUME TypeOK, PassFreFan
  PROVE  FansInv'
<1>1. UNCHANGED <<air, curAirLevel>>
  BY Zenon DEF PassFreFan, cfgVars, levelVars
<1>2. CASE curAirLevel = MinVent
  BY <1>1, <1>2, Zenon DEF FansInv, FreFansGoverned, FansGoverned
<1>3. CASE curAirLevel # MinVent
  <2>1. /\ pc' = "fan"
        /\ \A i \in FreFan :
             freFan'[i] = LevelFreFan(freFan[i], air.level[curAirLevel].freFan[i])
    BY <1>3, Zenon DEF PassFreFan
  <2>2. \A i \in FreFan : freFan[i] \in FreFanRunInfo
    BY DEF TypeOK
  <2>3. ASSUME NEW i \in FreFan, ~air.level[curAirLevel].freFan[i].en
        PROVE  freFan'[i].sta = "DEV_STOP"
    <3>1. LevelFreFan(freFan[i], air.level[curAirLevel].freFan[i]).sta = "DEV_STOP"
      BY <2>2, <2>3, LevelStopsDisabled, Zenon
    <3> QED BY <2>1, <3>1, Zenon
  <2>4. \A i \in FreFan : freFan'[i].sta = "DEV_RUN" => air.level[curAirLevel].freFan[i].en
    BY <2>3
  <2>5. FreFansGoverned'
    BY <1>1, <2>4, Zenon DEF FreFansGoverned
  <2>6. FansGoverned'
    BY <2>1 DEF FansGoverned, AfterFan
  <2> QED BY <2>5, <2>6 DEF FansInv
<1> QED BY <1>2, <1>3

LEMMA FansPassFan ==
  ASSUME TypeOK, FansInv, PassFan
  PROVE  FansInv'
<1>1. UNCHANGED <<air, curAirLevel, freFan, stable>> /\ pc = "fan" /\ pc' = "heater"
  BY Zenon DEF PassFan, cfgVars, levelVars
<1>2. FreFansGoverned'
  BY <1>1, Zenon DEF FansInv, FreFansGoverned, AfterFreFan
<1>3. \A i \in Fan : fan'[i] = LevelFan(fan[i], air.level[curAirLevel].fan[i])
  BY Zenon DEF PassFan
<1>4. \A i \in Fan : fan[i] \in FanRunInfo
  BY DEF TypeOK
<1>5. ASSUME NEW i \in Fan, ~air.level[curAirLevel].fan[i].en
      PROVE  fan'[i].sta = "DEV_STOP"
  <2>1. LevelFan(fan[i], air.level[curAirLevel].fan[i]).sta = "DEV_STOP"
    BY <1>4, <1>5, LevelStopsDisabled, Zenon
  <2> QED BY <1>3, <2>1, Zenon
<1>6. \A i \in Fan : fan'[i].sta = "DEV_RUN" => air.level[curAirLevel].fan[i].en
  BY <1>5
<1>7. FansGoverned'
  BY <1>1, <1>6, Zenon DEF FansGoverned
<1> QED BY <1>2, <1>7 DEF FansInv

(* At a ventilation level a pass on one configuration leaves running only  *)
(* fans that the level enables, whatever ran before: LevelGovernsFans, for *)
(* every number of fans and levels.                                        *)
THEOREM LevelGovernsFansHolds == Spec => []LevelGovernsFans
<1>1. Init => FansInv
  BY Zenon DEF Init, FansInv, FreFansGoverned, FansGoverned
<1>2. TypeOK /\ FansInv /\ [Next]_vars => FansInv'
  <2> SUFFICES ASSUME TypeOK, FansInv, [Next]_vars PROVE FansInv'
    OBVIOUS
  <2>1. CASE PassFreFan
    BY <2>1, FansPassFreFan
  <2>2. CASE PassFan
    BY <2>2, FansPassFan
  <2>3. CASE SensorUpdate \/ InstallCfg \/ PassTarget \/ PassLevel
    <3>1. stable' = FALSE \/ pc' \in {"level", "freFan"}
      BY <2>3, Zenon DEF SensorUpdate, InstallCfg, PassTarget, PassLevel
    <3>2. "level" \notin AfterFreFan /\ "freFan" \notin AfterFreFan
      BY DEF AfterFreFan, AfterFan
    <3> QED BY <3>1, <3>2, Zenon DEF FansInv, FreFansGoverned, FansGoverned, AfterFreFan
  <2>4. CASE Timer1S
    <3>1. /\ UNCHANGED <<air, curAirLevel, stable, pc>>
          /\ \A i \in FreFan : freFan'[i] = Ticked(freFan[i])
          /\ \A i \in Fan : fan'[i] = Ticked(fan[i])
      BY <2>4, Zenon DEF Timer1S, cfgVars, levelVars
    <3>2. \A i \in FreFan : Ticked(freFan[i]).sta = freFan[i].sta
      BY DEF Ticked, FreFanRunInfo, TypeOK
    <3>3. \A i \in Fan : Ticked(fan[i]).sta = fan[i].sta
      BY TickedSta DEF TypeOK
    <3> QED BY <3>1, <3>2, <3>3, FansFrame, Zenon
  <2>5. CASE PassHeater \/ PassColdPad \/ PassLightEn \/ PassLight \/ PassOut
    <3>1. UNCHANGED <<air, curAirLevel, stable, freFan, fan>>
          /\ pc \in AfterFan /\ pc \in AfterFreFan
      BY <2>5, Zenon DEF PassHeater, PassColdPad, PassLightEn, PassLight, PassOut,
             cfgVars, levelVars, fanVars, AfterFan, AfterFreFan
    <3> QED BY <3>1, FansFrame, Zenon
  <2>6. CASE UNCHANGED vars \/ LcdLightKey \/ LcdWriteBits \/ LcdWriteSta
    <3>1. UNCHANGED <<air, curAirLevel, stable, freFan, fan, pc>>
      BY <2>6, Zenon DEF vars, LcdLightKey, LcdWriteBits, LcdWriteSta, cfgVars,
             levelVars, fanVars
    <3> QED BY <3>1, FansFrame, Zenon
  <2> QED BY <2>1, <2>2, <2>3, <2>4, <2>5, <2>6 DEF Next, Pass, Lcd
<1>3. FansInv => LevelGovernsFans
  BY Zenon DEF FansInv, FreFansGoverned, FansGoverned, LevelGovernsFans, AfterFreFan,
         AfterFan
<1> QED BY <1>1, <1>2, <1>3, TypeCorrect, PTL DEF Spec
=============================================================================
