# Verification of the livestock-house environment controller

The firmware under `APP/` runs on an STM32F103 with RT-Thread. It reads
temperature and humidity sensors over Modbus, drives fans, a heater, a cold pad
and a light through a drive board, raises alarms, and keeps a TCP connection to a
cloud server through an LTE modem, which receives data and alarms and sends
configuration. This directory holds TLA+ models of its core logic, the TLC runs
that check them on small instances, and TLAPS proofs for every value of the
constants.

## 1. The system

Nine threads with fixed priorities (`app_task.c` 45-55; a lower number is more
urgent) and two timers share global variables without locks. A thread is
preempted only by a more urgent one or by an interrupt, and gives way only when it
sleeps or waits. Most properties below rest on that.

| Component | State | Operations | Hard parts |
|---|---|---|---|
| Control pass: `thread_entry_DevRun` (7), `Ctroler_Get_DevRunCfg` | run state and counters per device, level, target, `outBits`, DAC values | one pass every 250 ms | inputs and configuration change in the middle of a pass; the display writes `outBits` underneath |
| Target curve: `Controler_Get_TargetTemper` | none (configuration) | interpolation by day | unsigned differences, float division, casts |
| Day count: `Ctroler_Get_CurDayNum`, `RTC_Get_Second` | start time of the batch | day number | refresh minute, leap years, 8 and 32 bits |
| Alarm detection: `Controler_Alarm_Proc` | alarm state, confirmation counter, time per type | four tests per pass | counters advance in the interrupt; averages change between tests |
| Cloud link: `thread_entry_eSim` (3) | connection flag, failure count, due items, report state per alarm | connect, report, upload, synchronise | lost, late and stray replies; broken connections; alarms that change while they are reported |
| Configuration store: `Contrler_Cfg_Save`, `*_Init`, `Flash_Write` | the configuration in RAM and in four flash pages | save, boot | power loss between erase and program; validity test by date |
| Sensor scan: `thread_entry_SysMonitor` (5) | status, error count and reading per device; average, extremes of the day | scan, average | failing sensors, widths and signs, the display resetting the extremes underneath |
| Modbus master: `thread_entry_ModbusMasterPoll` (4), `FreeModbus/` | semaphore, events, receive and transmit state, address of the request | read registers of a slave | late answers, noise, combined events, a timer that resumes threads in their waits |
| Energy meter: `EP_MODBUS.c` | flags of a reading, tries | read the meter over the line of the sensors | a bit field shared by threads and interrupts |
| Drive board link: `thread_entry_UART4` (6) | frame, its check sum | exchange every second | check sum of the previous payload, lost frames |
| Display: `thread_entry_RS232COMM` (11) | page, keys | refresh, light key, extremes of the day | lowest priority, writes control state |
| Timers: `Timer1S_OUT`, `Timer50MS_OUT` | counters, flags | count, set flags, resume threads | interrupt every other step |
| ADC, DAC, CAN threads, board support | registers | input and output | not modelled |

How they interact: SysMonitor asks the sensors through the Modbus master and
publishes `curAvgTemp`, which the control pass and the alarm tests read; eSim
replaces whole sections of `m_Controler_Ctrl_Cfg_t` while a pass may be using them
and saves them to flash; the alarm tests write `alarmSta`, which eSim reads and
answers with `alarmActSta`; the pass writes `outBits` and the DAC values, which UART4
sends and the light key of the display also writes; the one-second interrupt advances
every counter and sets the flags that start scans, readings and frames.

What makes each correct: the pass decides on one consistent set of inputs and
never leaves a device on that nothing asks for; the target follows the curve; an
alarm is raised when, and only when, its condition was confirmed; the cloud knows
every alarm that lasts and the controller ends up with the cloud's configuration; a
restart finds whole sections; a sensor counts as working exactly while it answers; a
request on the line returns with its own result; the drive board gets the outputs.

## 2. Modules

| Module | Models | Proofs |
|---|---|---|
| `TempCurve` | the lookups and the interpolation as operators | `TempCurveProofs` |
| `RunDays` | the day number as operators | |
| `CurveWalk` (EXTENDS `TempCurve`, `RunDays`) | day number and target as the clock moves through a batch | `CurveWalkProofs` |
| `DevRun` (EXTENDS `TempCurve`) | the control pass, the light key, the interrupt, installs and averages around it | `DevRunProofs` |
| `AlarmDetect` | `Controler_Alarm_Proc` | `AlarmDetectProofs` |
| `CloudLink` | the eSim thread, modem, network and cloud | `CloudLinkProofs` |
| `ConfigMemory` | abstract specification: whole sections are remembered or forgotten | |
| `CfgStore` | boot, install, `Flash_Write`, power failures; refines `ConfigMemory` | `CfgStoreProofs` |
| `SensorPoll` | the scan, the averages, the extremes of the day | `SensorPollProofs` |
| `FieldBus` | the flag byte shared by scan, meter, drive board and timer | `SensorLineProofs` |
| `ModbusMaster` | one request through the Modbus stack | `SensorLineProofs` |
| `MC...` | the values of constants for TLC | |

Definitions named "faulty" or "mutant" in a comment (`...NoWrap`, `...Blind`, `AcceptsAny`, ...)
are plausible mistakes in the code. Each property is shown to fail when the
definition they stand beside is replaced by one of them.

### TempCurve, RunDays and CurveWalk
Temperatures are integers of 0.1 degree as in the code, with `U8` and `U16` widths.
`Interpolated` follows `Controler_Get_TargetTemper` (envir.c 605-619): an unsigned
difference, a truncating division by the days, and the cast of a float to
`uint16_t`, which is undefined outside the range; `TargetTempers` is therefore a
*set* of possible results. Floats are exact below 2^24, which the values of a valid
curve stay under. `RTC_Get_Second` gives every year since 1970 the length of the
current one, as the code does, and the difference wraps at 32 bits.
`CurveWalk` moves the clock of the chip through the real calendar; a step is a pass at
some later minute. `elapsed` is the reference the day number is compared with. What the
property claims is the advance of the number from day to day; the number the count begins
with and the minute at which it changes, where code and comments part, it leaves open
(see the deviations).

### DevRun
`pc` is the position in a pass: target, level, variable-frequency fans, on/off
fans, heater, cold pad, light test, light, output. Each step is one action with its
whole effect. Between the steps `SensorUpdate` (SysMonitor, line 302-354 of
app_task.c), `InstallCfg` (eSim, `Commu_Recv_Proc`) and `Timer1S` may happen. The
LCD thread has a lower priority, so its light command (`LcdLightKey`,
`LcdWriteBits`, `LcdWriteSta`) makes progress only while DevRun sleeps
(`LcdMayRun`), but a pass may fall between its read and its write of `outBits`.

The heater's and the light's run counters are never read and left out. Averages
start from 0 upwards (the sum of readings below zero is wrong in the code).
`lag` bounds the ticks in the time of one pass; `stable`, `coldPadCause` and
`heaterFlips` are history variables that only properties read.

### AlarmDetect
Power, high, low and device test are separate steps; `PassRest` is what the pass
does between two rounds of tests. `cnt` is `confirmCnt` (8 bits), advanced for all
types by the interrupt. `time` records which event wrote the time of the alarm.
`held` is history: ticks since a test last failed to see the condition. `gap` makes
the tests of a whole pass lie between two averages: an average changes only once
per poll of all 25 devices, which takes at least 50 ms each, and a pass is repeated
every 250 ms. The target is 0 until the first pass has computed it (Vars.c 50). The
sensor alarm is empty in the code, and
`m_Alarm_Sta_t.sta` is written and never read.

### CloudLink
`pc` follows the loop of `thread_entry_eSim`: connection status, initialisation,
failure check, alarms, packs, and inside `Commu_test` sending and waiting. The
thread has the highest priority, so what it does between two sleeps is one step.
Outside it: `Arrive` (a reply reaches the buffer at any time), `LinkDrop`,
`AlarmChanges`, the timers, and `CloudEdit`. The cloud, the modem and the network
are external and modelled from how the code uses them: TCP keeps replies in order,
and a broken connection loses what is on the way. `Prompt` distinguishes two
environments: with `FALSE` an acknowledgement can be missed and a reply can arrive
after its wait; with `TRUE` modem and cloud answer within the waits of the code as
long as the connection lasts.

Details of the loop that matter and are kept: `Commu_Alarm_Proc` with nothing to
report returns TRUE and resets `commuFailCnt`, so failing packs alone never reach
three; `LTE_Init` runs only until the first connection; the reboot after five
failures is unreachable. Left out: the RSSI poll, a connection whose `CONNECT OK`
is missed, and disabled alarm types, which are skipped. At least one sensor is
enabled (otherwise `Commu_test` returns without a value).

### ConfigMemory and CfgStore
`CfgStore` has the configuration in RAM (`ram`) and in flash (`flash`) by section,
where a section is a body and the save time at its end. `Ctroler_Init` is `PowerUp`
and one `LoadPage` per page: a section whose time `Verify_RtcTime` accepts is used,
another one is replaced by the factory setting, and the page is written back (the
control page always). `Install` is `Commu_Recv_Proc` with `Contrler_Cfg_Save`.
`Flash_Write` is a step for the erase and two per section, so that power can fail
between any two of them. Of the flash hardware is assumed that an erase
completes or leaves the page as it was, and that a half word is programmed whole.
Failing allocations, erases and programming are faults as well; the callers ignore
all results.

`ConfigMemory` is what the rest of the controller may rely on: a section is
remembered exactly as it was in use, or forgotten, and changes to what was sent for it
(`Offered`), to what is remembered or to its factory setting only. The mapping takes a stored section
for remembered when its time is accepted: a body that is half written is
forgotten, because the time is programmed last.

### SensorPoll
One step per request of the scan, whose outcome (`RequestFails`,
`RequestAnswered`) is the error code `eMBMasterReqReadHoldingRegister` returns and the
register that is read after it; then `Average` with the 16-bit sum of the code.
`errCount`, `devSta` and `data1` are the fields of `Dev_info`. `Probed` are the
entries whose answer is tested for a missing probe (app_task.c 182: the temperature
sensors inside and outside); any answer of another device, 0 and 0x2710 included, is a
reading. The meter is passed over, and its status is set by `EP_MODBUS.c`. The display runs
only while SysMonitor is blocked; its load of the average and its stores to the
extremes are steps, since a scan can fall between them. `fails` is history; it is over the limit before the
first answer, as the table begins with every status timed out (Vars.c 588).

### FieldBus
`flags` is the byte of `FLAGS0` that threads and interrupts share (vars.h 56-101). It is
`volatile`, but a bit-field assignment loads the byte, changes it and stores it, so
every assignment of a thread is a load step and a store step; the timer's
callback is one step, since what an interrupt could undo in it is a success flag, and
losing that is the same as a silent meter. SysMonitor goes through its scan
and its reading of the meter with up to `METER_TRIES` requests, UART4 through its frame.
`undone` is history: a store of UART4 has set `EP_CMD_SEND` again. A frame carries
`crc`, the outputs its check sum was computed over, and the drive board, which is
external, takes over a frame whose check sum matches. The specification is called
`BusSpec`, its parts `BusInit`, `BusNext` and so on, so that one module can extend it
together with `ModbusMaster`: both are about the sensor line.

### ModbusMaster
A request of SysMonitor: take the semaphore, fill the frame and the address, post the
event, wait for a result, return. The poll thread receives *all* pending events at once, and
every combination is an error (`HandleError`); it sleeps 100 ms after each.
`rcv` and `snd` are the state machines of `mbrtu_m.c`, `timer` their one timer,
`asked` the slaves that may still answer. `ResumeSysMonitor` and `ResumePoll` are the
one-second timer that suspends and resumes a thread which has not come round for ten
seconds (app_task.c 3341-3353). Suspending a thread that waits fails in
RT-Thread and resuming it ends its wait: `rt_sem_take` succeeds without the
semaphore and `rt_event_recv` returns every event asked for.
A scan of all sensors takes 11 to 16 seconds, because each request costs two or
three sleeps of the poll thread, so this happens in normal operation; in the model it
may happen in every wait. `disturbed` records it, and a frame that comes
while none is awaited: the properties that speak of a single request hold up to then,
and `RequestReturns` always.

The start-up phase is over before SysMonitor asks for the first time; error
kinds are not told apart, because SysMonitor does not. `SensorPoll` is the view of
the caller: whatever result comes, its own or the one of the request before, is its
`RequestFails` or `RequestAnswered`.

## 3. Runs

| Run | Question | Size |
|---|---|---|
| `devrun_fans` | Do the fans follow the level, and does minimum ventilation never starve? | one fan of each kind, two levels, two rows, three temperatures, counters modulo 4 |
| `devrun_climate` | Heater and cold pad never against each other; no chatter | four temperatures around the thresholds, two heater configurations, day and night |
| `devrun_light` | Does the light key win over the schedule, and does it take effect? | all interleavings of key, pass, clock and installs |
| `curve_falling` | Does the target stay between its rows and never rise, and does the day number advance by one a day? | every falling curve of three rows over chosen days and temperatures; three starts, 270 days each, around a leap day, a New Year and the wrap at 256 |
| `alarm_detect` | Are alarms confirmed, exclusive and raised? | four temperatures, two targets, confirmation time 3, counter modulo 5 |
| `cloud_late` | Can a late or stray reply damage the configuration? | two sections, one alarm type, two replies on the way, counter modulo 5 |
| `cloud_prompt` | Do alarms reach the cloud and does the configuration converge? | one section, one alarm type |
| `cfg_store` | Can a power failure or a flash error make the controller use a torn section or lose one; does the boot end; does the store implement `ConfigMemory`? | four pages, all sections, times with and without a zero part, two installs, two faults |
| `sensor_poll` | Is a sensor dropped exactly after too many failures, is the average one of the live sensors, do the extremes bracket it? | two temperature sensors, each with a reading and a missing probe, the meter between them, an ammonia sensor; two requests per scan, limit 1 |
| `field_bus` | Is the line given back after a reading, are the sensors heard, does the board follow? | two outputs, a reading every second tick, two tries |
| `modbus_master` | Does a request return, with its own result and its own registers? | two slaves, semaphore up to 2 |

Bounds: counters wrap at small moduli so that the wrap happens within a run, and
thresholds lie on both sides of every sampled value. `MAX_LAG` = 1: the pass is
repeated four times a second. Two replies on the way are enough for a stray reply
to precede the awaited one. In `cfg_store` two faults let a boot fail after a save
that failed; a third only repeats one of the states. In `sensor_poll` a limit of 1
with two requests per scan lets the failures that pass it fall into one scan or into two,
and the two readings, one per sensor, give four averages.
In `field_bus` the period of two ticks and two tries let a reading overlap with the next
tick. In `modbus_master` two slaves are the one that is asked and one that answers late;
`SEM_MAX` = 2 shows the extra releases, which do not matter for the properties
once there is one. Where a theorem exists (section 4) the bounds do not matter.

`curve_falling` ends with its last day, and in `cfg_store` the installs and faults are
used up at some time, so deadlock is not checked there; every other run checks it.

One run is expected to fail and shows where the code does not do what a line of the
repository says:

| Run | What it shows |
|---|---|
| `v_link_dead` | After a broken connection nothing sets it up again: three failures close the connection and start over, `m_Is_LTE_Connect` stays set, and the branch that reboots the modem is never reached. |

### Other deviations met while modelling
They follow from the modelled code and have no run of their own.

Control and alarms:
- minimum ventilation uses row 0 of the curve on every day, because `dayNumLevel` is
  never assigned (envir.c 1028), while the display shows the row of the day
  (app_task.c 1303);
- the light key can restore stale bits of other devices until the next pass
  (app_task.c 1072);
- a variable-frequency fan restarts right after its run time; `freFanCycleTime` is
  not used (envir.c 1112, envir.h 221);
- an enabled fan with run time 0 is switched on once per cycle (envir.c 1166);
- on/off fans that ran at a level keep running in minimum ventilation (envir.c 1025);
- the stop time of the cold pad is ignored while it is hot, and a rested pad starts
  below its stop temperature (envir.c 741, 752);
- past the last set row the interpolation leaves its span (envir.c 606), and on a curve that
  rises or passes 65.5 degrees the unsigned differences or the cast wrap (envir.c 607, 619);
- a heater whose start limit lies above its stop limit switches in every pass between the
  two (envir.c 786, 795);
- a pass reads the shared inputs where it needs them, so one during which they change can
  mix two configurations or run heater and pad together until the next pass;
- a heater, pad or light that is disabled while it runs keeps running (envir.c 780,
  700, 814);
- the device alarm is never raised: after the loop that looks for a faulty device
  lines 978 and 979 clear it and restart its count in every pass, though envir.c 951 says
  of a driven fan with a silent Hall sensor that it is taken for a fault;
- before the first reading the confirmation counter runs without tests, so the
  first reading can raise a temperature alarm at once (envir.c 865, 904); if it arrives
  between the two tests and the target then moves by more than the two thresholds
  together (13 degrees in the factory setting), high and low alarm are raised at once;
- during an outage the time of the power alarm is overwritten every confirmation
  time (envir.c 849), and the recovery time of temperature alarms is never recorded,
  because the state is cleared before it is tested (envir.c 890-894);
- a missed acknowledgement of a recovery report hides the next occurrence of the alarm
  for as long as it lasts (app_task.c 2662).

Day number and configuration:
- around a leap year the day number jumps by about 50 days at New Year, because every
  year since 1970 is given the length of the current one (envir.c 494);
- the start of a batch is a constant, 2020-07-20, whatever the cloud sends, and
  the count starts again every 256 days (envir.c 549);
- the day number counts from 1, though the comment of the function says from 0 (envir.c
  525); and it changes at the time of day at which the batch was started, not at the
  refresh time, which by the comments decides the last day (envir.c 551, envir.h 443): the
  test there is for inequality (557), so the refresh time only makes the number lag by
  a day for one minute; on the first morning it is 0 there and the target is
  extrapolated above row 0;
- `Verify_RtcTime` rejects hours, minutes and seconds of 0 though its comment allows
  them (envir.c 31, 43), so a section saved at a full hour is replaced at the next boot;
- the control page is erased and written at every boot, so a power failure in any
  boot can lose it (envir.c 231);
- `Flash_Write` returns the full count after a programming error (dataflash.c 18, 26).

Sensors, meter and drive board:
- the sum of readings below zero is unsigned, so its average is far too high
  (app_task.c 320); the minimum of the humidity is compared with the temperature (361);
- when all sensors fail the last average is kept for good (318);
- before the first midnight a preempted display can leave a minimum above the maximum
  (1143-1146); and an extreme of 0 counts as not set (1141), so with averages of zero or
  below the minimum can end above the maximum at any time;
- a failed reading never marks the meter (366-387), and a success flag that a preempted
  store of UART4 restores counts as a reading;
- a preempted store of UART4 can leave `EP_CMD_SEND` set until the next reading, about
  eleven seconds in which no sensor is heard (vars.h 101);
- the check sum of a frame is computed before its payload is filled in (3023), though
  the comment (2952) says that it covers the data before it, so the board takes a
  change one frame later at the earliest; 20 bytes of a buffer of 19 are sent (3055), and
  two of the four DAC values are copied (3028);
- `UART4_Recv_Proc` compares the check sum at bytes 16 and 17, where the protocol
  comment (2955) has bytes 17 and 18, so proper answers are rejected.

Modbus master:
- after the timer resumed SysMonitor in its wait, the result of the open
  request stays pending and the next request takes it at once, so results are shifted by
  one request, although the comment on `eMBMasterWaitRequestFinish` (portevent_m.c 199)
  says that it waits for the request to finish: a dead sensor scanned after a live one
  is then never marked;
- a late or unasked frame ends in an additional result and an additional release of the
  semaphore, with the same effect;
- after that, or after a resume, a frame that arrives while a received one waits to be
  stored overwrites it in the buffer, and the address of the request is read again at
  storing, so the registers of one slave can be stored for another (user_mb_app_m.c 110);
- the poll thread, resumed when nothing happened for ten seconds, takes this for
  an error and releases the semaphore once more;
- the independent watchdog that would end a blocked state is commented out (app.c 378).

### Fairness
Fairness is assumed of what the hardware and the scheduler guarantee, and of nothing else:
sensors, keys, configuration messages, faults and noise are never fair.
- `DevRun`, `AlarmDetect`: the thread is scheduled after its sleep (`WF(Pass)`) and
  the hardware timer keeps firing (`WF(Timer1S)`). The LCD command that has begun is
  finished although passes interrupt it (`SF`): the CPU is idle most of the time.
- `CloudLink`: the thread and the timer as above; a reply on the way arrives or is lost
  with its connection; and, because a network that never works satisfies nothing, a
  connection attempt, a send and a reply that are tried again and again succeed at some
  time (`SF`). `AlarmReported` and `CfgConverges` are claimed while the connection lasts
  and with prompt answers only: with late ones the first is false (see the deviations).
- `CfgStore`: the boot goes on (`WF(LoadPage)`, `WF(WriteStep)`); nothing makes power return.
- `SensorPoll`: `WF(Timer1S)`, `WF(SysMonitor)`. `DeadSensorDropped` has as hypothesis
  that the sensor no longer answers.
- `FieldBus`: `WF(Timer1S)`; the threads are ready again and again between interrupts
  and more urgent threads (`SF(SysMonitor)`, `SF(Uart4)`); the tick that asks for a
  reading does not fall into a half-done change of the byte every time (`SF`): a change
  takes two instructions in a second; and some frames to the board arrive (`SF`).
- `ModbusMaster`: the two timers (`WF(ResumeSysMonitor)`, `WF(TimerExpired)`), the poll
  thread (`WF(Poll)`), and the less urgent request of SysMonitor
  (`SF(ReadHoldingRegister)`) and transmitting thread (`SF`).
- `CurveWalk` claims no liveness.

## 4. Proofs

All theorems are for every value of the constants under the named assumptions of the
modules (`DevRunAssumption`, `CurveWalkAssumption`, `AlarmAssumption`, `CloudAssumption`,
`CfgAssumption`, `SizeAssumption` and `ReadingAssumption`, `FieldBusAssumption`,
`ModbusAssumption`, `CurveAssumption`). A few theorems need a fact about the
installation in addition; it is then a named hypothesis of the theorem and listed here.

- `TempCurveProofs`: the row lookup, the level lookup and the DAC conversion stay
  in their ranges and return the highest entry reached. The maximum of a bounded
  set of naturals comes from the well-foundedness of `<`.
- `CurveWalkProofs`: `TargetWithinCurve` and `TargetNeverRises`. The inductive
  invariant says that types hold, on every date of the calendar, and that the target
  is one of the results of the function for the current day number.
  `DayNumAdvances` needs `DayInv`: within the year of the start the seconds
  `RTC_Get_Second` counts are 60 times the minutes that passed, through all months and leap
  years. Hypothesis `StartsInCalendar`: the start is a date that exists, which
  `Verify_RtcTime` does not ensure (it lets 30 February pass).
- `DevRunProofs`: `TypeOK`; `ManualLightHeld`, which needs that a pass past its test
  of `m_LightCtrl_En` cannot meet a key press, from the priorities;
  `HeaterNoChatter`, with the invariant that after a switch the heater agrees with
  its thresholds (`HeaterSettled`); `HeatCoolExclusive`, with invariants that carry
  what the heater step and the pad step of a stable pass established to its end
  (`HeaterAgrees`, `PadAgrees`) and the arithmetic fact that no temperature is both
  below the one and above the other threshold; `LevelGovernsFans`, with what each
  fan step established.
- `AlarmDetectProofs`: `TypeOK` and `AlarmConfirmed`. The invariant `CountBacked`
  says that the counter never exceeds the time its condition has been seen, as long
  as that is below the confirmation time; it survives the wrap of the counter.
  `HighLowExclusive` rests on `ExclInv`: at every position of a pass, and by how many passes
  ago the average changed, it bounds the counter of the one alarm while the other is
  raised by the ticks of at most three passes, or the average is on the wrong side.
  Hypotheses: `PassesAreShort`, three passes take less than the confirmation time (10
  seconds against a pass every 250 ms), and `TargetsAreClose`, no two targets differ by
  more than the two thresholds together. The second cannot be dropped: TLC shows the
  violation described in section 3 with targets 14 degrees apart. The run keeps the
  confirmation time at the limit of the first, where the property still holds.
- `CloudLinkProofs`: `TypeOK`, and `SectionMatches`, which is inductive only together with
  what is on the way: every reply in the network and in the buffer carries the section its
  command names, and both ends keep every section in its place. `ActStaIsReported` has the
  invariant `ReportInv`: before the first connection nothing was reported (`Fresh`); with
  prompt answers the only reply around is the one to the command that is open
  (`OneReply`), and the alarm state at the cloud differs from `alarmActSta` only during
  its upload (`InStep`).
- `CfgStoreProofs`: `TypeOK`; `NoTornSection`. `WriteInv` says that what a write has still to program is
  erased; because the time of a section is programmed after its body, a section in flash
  with an accepted time is whole (`FlashWhole`), and so is every section in use (`RamWhole`).
  `InstalledSurvives` has `SurviveInv`: what a write has left behind it is what is
  in use (`DoneWritten`), and the section sent last is in flash unless its page is being
  written, and in use once its page is loaded (`CtrlKept`). And the refinement of
  `ConfigMemory`: an erase maps to forgetting, programming the time of a section to
  remembering it, a `LoadPage` to recalling, an install to a change, a power failure to
  one, and every other step, the half-written body included, to a stutter.
- `SensorPollProofs`: `TypeOK` and `StatusTracksFailures`. The counter starts again each
  time it fires, so the status alone is not inductive: `CountIsFails` adds that as long
  as the sensor is not given up the counter equals the failures since the last answer.
  `StatusInv` extends the property to the entries the scan passes over.
  `AverageWithinReadings` is about a sum over a set, a recursive function; what
  is needed of it (adding a sensor adds its reading) is shown by a smallest
  counterexample instead of an induction. Hypothesis `SumsFit`: the readings of all
  temperature sensors fit 16 bits together, for six sensors up to 109.2 degrees each.
  `ExtremesBracket` has in addition `AboveZero`, because an extreme of 0 counts as not
  set, and the invariant that a midnight once seen leaves both extremes set and a
  minimum that waits for its maximum below what the maximum becomes (`ExtremesInv`).
- `SensorLineProofs`, Modbus master: `TypeOK`, `RegistersOwn`, `ResultIsOwn`,
  `ResourceConserved`. `MasterInv` says that, up to the first disturbance, a request is in
  exactly one of six phases (idle, sending, out, waiting, incoming, answered), each of
  which fixes the pending events, the state machines and the timer;
  `OneRequest` adds what the request itself knows: the semaphore, the address, the result.
- `SensorLineProofs`, flag byte: `BusTypeOK` and `LineSwitchedByReading`. The latter needs to
  know what the threads hold in their copies: `LoadedByteClean` says that a byte SysMonitor
  has loaded outside a reading contains `EP_CMD_SEND` only after a store of UART4 put it there.

Only model-checked: the liveness properties (`MinVentRuns`, `LightKeyTakesEffect`,
`HighAlarmRaised`, `AlarmReported`, `CfgConverges`, `BootCompletes`, `DeadSensorDropped`,
`LineGivenBack`, `SensorsHeard`, `BoardFollows`, `RequestReturns`), because the proof system
has no support for fairness. Every safety property and action property of the runs is
stated by a theorem.

## 5. Not modelled, and the plan

Not modelled:
- byte layouts, formatting and the pages of the display, which change no state that
  another part reads except the light key and the extremes of the day;
- the average humidity, which the same code computes as the temperature;
- the answer of the drive board (`UART4_Recv_Proc`), which is rejected;
- register access (ADC, DAC, CAN, GPIO, I2C), the drivers and vendored libraries, except
  the Modbus master and the kernel calls it waits in;
- code that nothing calls: `Module.c`, `RS232.c`, `TFTLED_Ref.c`, the second copy of
  `envir.c`, and in `app_task.c` the earlier control of cold devices, configuration check
  and alarm handling, whose calls are commented out.
  `Is_Leap_Year` and `mon_table` of `rtc.c` are used and modelled in `RunDays`.

Next, in this order:
1. The safety half of the liveness results, as theorems: that a boot, a request and a
   reading of the meter have a measure no step of another actor raises.
2. The relation between `ModbusMaster` and the outcomes `SensorPoll` assumes of a request,
   as a refinement.
