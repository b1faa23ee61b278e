----------------------------- MODULE SensorPoll -----------------------------
(***************************************************************************)
(* The sensor side of thread_entry_SysMonitor: the scan of the RS485       *)
(* devices, the status of every device, the average temperature and the    *)
(* extremes of the day, which the display thread resets.                   *)
(* SysMonitor has a higher priority than the display, so the display runs  *)
(* only while SysMonitor sleeps or waits for an answer.                    *)
(***************************************************************************)
EXTENDS Integers, FiniteSetsExt

CONSTANTS
  DEV_NUM,     \* entries of Dev_info (25 in the code)
  Enabled,     \* entries with Dev_EN set
  Temps,       \* entries of the temperature sensors
  Probed,      \* entries whose answer is tested for a missing probe:
               \* TEMP1 - 1 .. TEMP_OUTDOOR - 1 in the code
  EP_METER,    \* entry of the energy meter, which has a protocol of its own
  REP_COUNT,   \* requests per device and scan (2 in the code)
  ERR_LIMIT,   \* failures in a row that are tolerated (8 in the code)
  Readings     \* the values each device can deliver, in 0.01 degree for Temps

Dev == 0 .. DEV_NUM - 1
U16 == 65536
I16(x) == IF x < 32768 THEN x ELSE x - U16

\* 0x2710 is what a sensor delivers without its probe.
NO_PROBE == 10000

ASSUME SizeAssumption ==
  /\ DEV_NUM \in Nat \ {0}
  /\ Enabled \subseteq Dev /\ Temps \subseteq Probed /\ Probed \subseteq Dev
  /\ EP_METER \in 0 .. DEV_NUM - 2 /\ EP_METER \notin Temps
  /\ REP_COUNT \in Nat \ {0} /\ ERR_LIMIT \in Nat

ASSUME ReadingAssumption ==
  \A d \in Dev : \A r \in Readings[d] : r \in Int /\ -32768 <= r /\ r <= 32767

VARIABLES
  modbus1S,       \* FLAGS_MODBUS1S
  pc,             \* where SysMonitor is
  idx,            \* SEN_CurrentIdx
  rep,            \* j: requests made to the current device
  errCount,       \* Err_Count
  devSta,         \* Dev_info[].Dev_sta
  data1,          \* Dev_info[].Data1
  avg,            \* curAvgTemp
  dayMax, dayMin, \* curAvgTemp_DayMax, curAvgTemp_DayMin
  lcd,            \* where the display thread is
  lcdReg,         \* its copy of curAvgTemp, 0 when not in use
  fails,          \* history: failed requests since the last answer, capped,
                  \* over the limit before the first answer
  newDay          \* history: a day has begun with an average
scanVars == <<idx, rep, errCount, devSta, data1, fails>>
avgVars == <<avg, dayMax, dayMin>>
lcdVars == <<lcd, lcdReg, newDay>>
vars == <<modbus1S, pc, scanVars, avgVars, lcdVars>>

Init ==
  /\ modbus1S = FALSE /\ pc = "sleep" /\ idx = 0 /\ rep = 0
  /\ errCount = [d \in Dev |-> 0]
  /\ devSta = [d \in Dev |-> "TIMEDOUT"]
  /\ data1 = [d \in Dev |-> 0]
  /\ avg = 0 /\ dayMax = 0 /\ dayMin = 0
  /\ lcd = "idle" /\ lcdReg = 0
  /\ fails = [d \in Dev |-> ERR_LIMIT + 1]
  /\ newDay = FALSE

-----------------------------------------------------------------------------
(* Timer1S_OUT requests a scan.                                            *)
Timer1S ==
  /\ ~modbus1S
  /\ modbus1S' = TRUE
  /\ UNCHANGED <<pc, scanVars, avgVars, lcdVars>>

(* The loop of SysMonitor wakes up.                                        *)
Wake ==
  /\ pc = "sleep"
  /\ modbus1S' = FALSE
  /\ pc' = IF modbus1S THEN "scan" ELSE "average"
  /\ UNCHANGED <<scanVars, avgVars, lcdVars>>

(* Faulty: the end of the table is tested one entry too late.              *)
NextDeviceLate ==
  /\ idx' = IF idx + 1 > DEV_NUM THEN 0 ELSE idx + 1
  /\ pc' = IF idx + 1 > DEV_NUM THEN "average" ELSE "scan"
  /\ rep' = 0

(* The next device, and the way out of the scan after the last one.        *)
NextDevice ==
  /\ idx' = IF idx + 1 >= DEV_NUM THEN 0 ELSE idx + 1
  /\ pc' = IF idx + 1 >= DEV_NUM THEN "average" ELSE "scan"
  /\ rep' = 0

(* Faulty: a device is not asked again after a failure.                    *)
PolledUntilFailure(d) == d \in Enabled /\ d # EP_METER /\ errCount[d] = 0

(* The meter is not asked in the scan.                                     *)
Polled(d) == d \in Enabled /\ d # EP_METER

(* A disabled device or the meter is passed over.                          *)
SkipDevice ==
  /\ pc = "scan" /\ ~Polled(idx)
  /\ NextDevice
  /\ UNCHANGED <<modbus1S, errCount, devSta, data1, fails, avgVars, lcdVars>>

AfterRequest ==
  IF rep + 1 < REP_COUNT
  THEN rep' = rep + 1 /\ UNCHANGED <<idx, pc>>
  ELSE NextDevice

(* More than ERR_LIMIT failures in a row mark the device; the count starts *)
(* again.                                                                  *)
ErrCounted(d) ==
  IF errCount[d] + 1 > ERR_LIMIT
  THEN /\ devSta' = [devSta EXCEPT ![d] = "TIMEDOUT"]
       /\ errCount' = [errCount EXCEPT ![d] = 0]
  ELSE errCount' = [errCount EXCEPT ![d] = @ + 1] /\ UNCHANGED devSta

RequestFails ==
  /\ pc = "scan" /\ Polled(idx)
  /\ ErrCounted(idx)
  /\ fails' = [fails EXCEPT ![idx] = IF @ > ERR_LIMIT THEN @ ELSE @ + 1]
  /\ AfterRequest
  /\ UNCHANGED <<modbus1S, data1, avgVars, lcdVars>>

(* Of a probed device 0 and NO_PROBE are not readings; of any other one    *)
(* every value is.                                                         *)
IsReading(d, r) == d \in Probed => r \notin {NO_PROBE, 0}

(* Faulty: an answer does not clear the count of failures.                 *)
AnsweredKeepsCount(d, r) ==
  /\ devSta' = [devSta EXCEPT ![d] = IF IsReading(d, r) THEN "NO_ERR" ELSE "REV_DATA"]
  /\ UNCHANGED errCount

(* An answer clears the count and sets the status.                         *)
Answered(d, r) ==
  /\ devSta' = [devSta EXCEPT ![d] = IF IsReading(d, r) THEN "NO_ERR" ELSE "REV_DATA"]
  /\ errCount' = [errCount EXCEPT ![d] = 0]

RequestAnswered(r) ==
  /\ pc = "scan" /\ Polled(idx)
  /\ Answered(idx, r)
  /\ data1' = [data1 EXCEPT ![idx] = r]
  /\ fails' = [fails EXCEPT ![idx] = 0]
  /\ AfterRequest
  /\ UNCHANGED <<modbus1S, avgVars, lcdVars>>

-----------------------------------------------------------------------------
(* The sensors that are averaged.                                          *)
Live == {d \in Temps \cap Enabled : devSta[d] = "NO_ERR" /\ data1[d] # NO_PROBE}

(* Faulty: the sum is divided by the number of enabled sensors.            *)
AvgTempOfEnabled ==
  LET sum == MapThenSumSet(LAMBDA d : data1[d], Live) % U16
  IN IF Live = {} THEN avg ELSE I16(sum \div Cardinality(Temps \cap Enabled))

(* The signed readings are added up in a uint16_t and divided; without a   *)
(* live sensor the average stays.                                          *)
AvgTemp ==
  LET sum == MapThenSumSet(LAMBDA d : data1[d], Live) % U16
  IN IF Live = {} THEN avg ELSE I16(sum \div Cardinality(Live))

Average ==
  /\ pc = "average"
  /\ avg' = AvgTemp
  /\ dayMax' = IF avg' >= dayMax THEN avg' ELSE dayMax
  /\ dayMin' = IF avg' < dayMax /\ avg' <= dayMin THEN avg' ELSE dayMin
  /\ pc' = "sleep"
  /\ UNCHANGED <<modbus1S, scanVars, lcdVars>>

-----------------------------------------------------------------------------
(* The display thread, which SysMonitor preempts between any two steps.    *)
SysBlocked == pc # "average"

LcdLoad(from, to) ==
  /\ SysBlocked /\ lcd = from
  /\ lcd' = to /\ lcdReg' = avg
  /\ UNCHANGED <<modbus1S, pc, scanVars, avgVars, newDay>>

LcdPass(from, to) ==
  /\ SysBlocked /\ lcd = from
  /\ lcd' = to
  /\ UNCHANGED <<modbus1S, pc, scanVars, avgVars, lcdReg, newDay>>

LcdStoreMax(from, to, v) ==
  /\ SysBlocked /\ lcd = from
  /\ lcd' = to /\ dayMax' = v /\ lcdReg' = 0
  /\ newDay' = (newDay \/ (from = "max" /\ lcdReg # 0))
  /\ UNCHANGED <<modbus1S, pc, scanVars, avg, dayMin>>

LcdStoreMin(from, to, v) ==
  /\ SysBlocked /\ lcd = from
  /\ lcd' = to /\ dayMin' = v
  /\ lcdReg' = IF to = "idle" THEN 0 ELSE lcdReg
  /\ UNCHANGED <<modbus1S, pc, scanVars, avg, dayMax, newDay>>

(* Faulty: the minimum of the new day starts above every temperature.      *)
LcdMidnightFromTop ==
  \/ LcdLoad("idle", "min")
  \/ LcdStoreMin("min", "max", 32767)
  \/ LcdStoreMax("max", "idle", lcdReg)

(* In the first minute of the day both extremes become the average.        *)
LcdMidnight ==
  \/ LcdLoad("idle", "min")
  \/ LcdStoreMin("min", "max", lcdReg)
  \/ LcdStoreMax("max", "idle", lcdReg)

(* At other times an extreme that is still 0 becomes the average.          *)
LcdFill ==
  \/ dayMax = 0 /\ LcdLoad("idle", "fillMax")
  \/ dayMax # 0 /\ LcdPass("idle", "filled")
  \/ LcdStoreMax("fillMax", "filled", lcdReg)
  \/ dayMin = 0 /\ LcdLoad("filled", "fillMin")
  \/ dayMin # 0 /\ LcdPass("filled", "idle")
  \/ LcdStoreMin("fillMin", "idle", lcdReg)

SysMonitor ==
  \/ Wake
  \/ SkipDevice
  \/ RequestFails
  \/ \E r \in Readings[idx] : RequestAnswered(r)
  \/ Average

Next == Timer1S \/ SysMonitor \/ LcdMidnight \/ LcdFill

Spec == Init /\ [][Next]_vars

(* The timer runs, and no thread above SysMonitor runs for ever.           *)
FairSpec == Spec /\ WF_vars(Timer1S) /\ WF_vars(SysMonitor)

-----------------------------------------------------------------------------
(* Every index stays inside Dev_info and every count inside its limit.     *)
TypeOK ==
  /\ modbus1S \in BOOLEAN
  /\ pc \in {"sleep", "scan", "average"}
  /\ idx \in Dev /\ rep \in 0 .. REP_COUNT - 1
  /\ errCount \in [Dev -> 0 .. ERR_LIMIT]
  /\ devSta \in [Dev -> {"NO_ERR", "TIMEDOUT", "REV_DATA"}]
  /\ data1 \in [Dev -> Int] /\ \A d \in Dev : data1[d] \in Readings[d] \cup {0}
  /\ lcd \in {"idle", "min", "max", "fillMax", "filled", "fillMin"}
  /\ fails \in [Dev -> 0 .. ERR_LIMIT + 1]

(* Err_Count tolerates failures without losing count: a device that the    *)
(* scan asks is counted as working exactly as long as it has answered, its *)
(* last answer was a reading and at most ERR_LIMIT requests have failed    *)
(* since, although the counter starts again each time it fires and every   *)
(* scan asks twice.  A temperature sensor without its probe is not         *)
(* working; an ammonia or a pressure sensor that delivers 0 or 0x2710 is.  *)
(* (The status of the meter is set by EP_MODBUS.c.)                        *)
StatusTracksFailures ==
  \A d \in Enabled \ {EP_METER} :
    devSta[d] = "NO_ERR" <=> fails[d] <= ERR_LIMIT /\ IsReading(d, data1[d])

(* The average the controller uses lies between the readings of the        *)
(* sensors that answer, or is kept while none does.  (Two readings whose   *)
(* sum is negative are not averaged correctly: the sum is unsigned.  Six   *)
(* sensors pass its 16 bits above 109.2 degrees only.)                     *)
AverageWithinReadings ==
  (pc = "sleep" /\ Live # {} /\ \A d \in Live : data1[d] >= 0) =>
    \E d, e \in Live : data1[d] <= avg /\ avg <= data1[e]

(* From the first midnight on, the extremes of the day bracket the average *)
(* after every averaging step outside the display's reset of them,         *)
(* although the display stores stale averages and the minimum is looked at *)
(* only when the maximum is not raised.  (Before the first midnight a      *)
(* preempted LcdFill can leave a minimum above the maximum, and so can     *)
(* averages of zero and below later: an extreme of 0 counts as not set.)   *)
ExtremesBracket ==
  [][(Average /\ newDay /\ lcd # "max") => (dayMin' <= avg' /\ avg' <= dayMax')]_vars

(* A sensor that never answers again is eventually left out for good.      *)
DeadSensorDropped ==
  \A d \in Temps \cap Enabled : <>[](fails[d] > 0) => <>[](d \notin Live)
=============================================================================
