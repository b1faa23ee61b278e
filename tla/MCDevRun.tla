------------------------------ MODULE MCDevRun ------------------------------
(***************************************************************************)
(* Small instances of DevRun for TLC: two curve rows, two levels, one      *)
(* variable-frequency fan and one on/off fan.                              *)
(***************************************************************************)
EXTENDS DevRun

Curve(speed0, speed1) ==
  [row |-> [i \in Row |->
              IF i = 0
              THEN [dayNum |-> 1, targetTemp |-> 280, minAirSpeed |-> speed0,
                    minAirRuntime |-> 1]
              ELSE [dayNum |-> 5, targetTemp |-> 260, minAirSpeed |-> speed1,
                    minAirRuntime |-> 2]],
   cycleTime |-> 3]
AirLevels(fre0, fan0, fre1, fan1) ==
  [level |-> [i \in Level |->
                [temperShift |-> 5 * (i + 1),
                 freFan |-> [f \in FreFan |-> IF i = 0 THEN fre0 ELSE fre1],
                 fan |-> [f \in Fan |-> IF i = 0 THEN fan0 ELSE fan1]]],
   freFanCycleTime |-> 3, fanCycleTim |-> 3]
FreCfg(speed, runTime) == [en |-> TRUE, speed |-> speed, runTime |-> runTime]
FreNone == [en |-> FALSE, speed |-> 80, runTime |-> 2]
OnCfg(runTime) == [en |-> TRUE, runTime |-> runTime]
OnNone == [en |-> FALSE, runTime |-> 2]
Pad(en, comp) ==
  [en |-> en, enTime |-> 9 * 256, disenTime |-> 17 * 256, runTempShift |-> 20,
   stopTempShift |-> 10, runTime |-> 2, stopTime |-> 1, compValue |-> comp]
Heat(en, run, stop) == [en |-> en, runTempShift |-> run, stopTempShift |-> stop]
Lamp(en) == [en |-> en, enTime |-> 9 * 256, disenTime |-> 21 * 256]

Noon == [hour |-> 12, min |-> 0]
Night == [hour |-> 22, min |-> 30]

\* Fans: every level and minimum ventilation, no heater, pad or light.
FansTemps == {0, 2850, 2900}
FansHumis == {0}
FansClocks == {Noon}
FansDays == {1, 5}
FansTargets == {Curve(50, 60)}
FansAirs == {AirLevels(FreCfg(80, 2), OnCfg(1), FreNone, OnCfg(2)),
             AirLevels(FreCfg(100, 1), OnNone, FreCfg(0, 0), OnCfg(0))}
NoPad == {Pad(FALSE, 0)}
NoHeat == {Heat(FALSE, 0, 0)}
NoLamp == {Lamp(FALSE)}

\* Climate: heater, cold pad and light, no fan enabled.
ClimateTemps == {0, 2700, 2900, 3000}
ClimateHumis == {0, 800}
ClimateClocks == {Noon, Night}
OneDay == {1}
ClimateAirs == {AirLevels(FreNone, OnNone, FreNone, OnNone)}
ClimatePads == {Pad(TRUE, 70)}
ClimateHeats == {Heat(TRUE, 10, 10), Heat(TRUE, 10, 0)}
TwoTargets == {Curve(50, 60), Curve(0, 60)}
TwoPads == {Pad(FALSE, 0), Pad(TRUE, 70)}
LampSets == {Lamp(TRUE), Lamp(FALSE)}
MinTemps == {0}
=============================================================================
