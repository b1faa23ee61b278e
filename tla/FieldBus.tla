------------------------------ MODULE FieldBus ------------------------------
(***************************************************************************)
(* The threads that share the first byte of FLAGS0 and the two RS485 lines:*)
(* SysMonitor polls the sensors and reads the energy meter, UART4 sends    *)
(* the outputs to the drive board, the timer raises their flags and the    *)
(* receive interrupt of the sensor line routes every answer by a flag.     *)
(* A flag is a bit field: setting or clearing it loads the whole byte and  *)
(* stores it back.  The threads preempt each other by priority: UART4 runs *)
(* only while SysMonitor is blocked, interrupts run between any two        *)
(* instructions.  DevRun and the display have a lower priority than both.  *)
(***************************************************************************)
EXTENDS Integers

CONSTANTS
  Outputs,        \* values of outBits and of the two DAC outputs sent
  NoOutput,       \* the value of a zeroed frame
  METER_PERIOD,   \* ticks between two readings of the meter (11 in the code)
  METER_TRIES     \* requests per reading (5 in the code)

ASSUME FieldBusAssumption ==
  /\ NoOutput \in Outputs
  /\ METER_PERIOD \in Nat \ {0} /\ METER_TRIES \in Nat \ {0}

Bit == {"MODBUS1S", "DRIVE_1S", "EP_RD_EN_10S", "EP_RD_GET_SUC", "EP_CMD_SEND"}

VARIABLES
  flags,      \* the bits of FLAGS0 that are set
  tick,       \* cnt_EP_Rd_10S
  sys, sysReg,    \* SysMonitor and the byte it has loaded
  try,        \* i: requests made to the meter in this reading
  meter,      \* an answer of the meter is on its way
  heard,      \* the last sensor polled was heard
  uart, uartReg,  \* UART4 and the byte it has loaded
  sendBuf,    \* the outputs in the frame buffer
  crc,        \* its check sum: the outputs it covers; NoOutput when not in use
  out,        \* m_DriveBoard_Data_t.sendData
  board,      \* the outputs the drive board has taken over
  undone      \* history: a store of UART4 has set EP_CMD_SEND again
sysVars == <<sys, sysReg, try>>
uartVars == <<uart, uartReg, sendBuf, crc>>
busVars == <<flags, tick, sysVars, meter, heard, uartVars, out, board, undone>>

BusInit ==
  /\ flags = {} /\ tick = 0
  /\ sys = "sleep" /\ sysReg = {} /\ try = 0
  /\ meter = FALSE /\ heard = FALSE
  /\ uart = "sleep" /\ uartReg = {} /\ sendBuf = NoOutput /\ crc = NoOutput
  /\ out = NoOutput /\ board = NoOutput
  /\ undone = FALSE

-----------------------------------------------------------------------------
(* Faulty: a scan is asked for only when no reading is.                    *)
Timer1SEither ==
  /\ tick' = (tick + 1) % METER_PERIOD
  /\ flags' = (flags \ {"MODBUS1S"}) \cup
                (IF tick = METER_PERIOD - 1 THEN {"EP_RD_EN_10S"} ELSE {"MODBUS1S", "DRIVE_1S"})
  /\ UNCHANGED <<sysVars, meter, heard, uartVars, out, board, undone>>

(* Timer1S_OUT, in the tick interrupt.                                     *)
Timer1S ==
  /\ tick' = (tick + 1) % METER_PERIOD
  /\ flags' = flags \cup {"MODBUS1S", "DRIVE_1S"}
                    \cup (IF tick = METER_PERIOD - 1 THEN {"EP_RD_EN_10S"} ELSE {})
  /\ UNCHANGED <<sysVars, meter, heard, uartVars, out, board, undone>>

(* USART2_IRQHandler for an answer of the meter: it counts only while      *)
(* EP_CMD_SEND routes the line to RS485_EP_RecvProc.                       *)
MeterAnswer ==
  /\ meter
  /\ meter' = FALSE
  /\ flags' = IF "EP_CMD_SEND" \in flags THEN flags \cup {"EP_RD_GET_SUC"} ELSE flags
  /\ UNCHANGED <<tick, sysVars, heard, uartVars, out, board, undone>>

(* The answer is lost or never comes, or the success flag is lost again    *)
(* because the interrupt came in the middle of the timer's change.         *)
MeterSilent ==
  /\ meter
  /\ meter' = FALSE
  /\ UNCHANGED <<flags, tick, sysVars, heard, uartVars, out, board, undone>>

-----------------------------------------------------------------------------
(* thread_entry_SysMonitor.                                                *)
(* SysMonitor loads the byte at from, to change it at to.                  *)
SysLoad(from, to) ==
  /\ sys = from
  /\ sys' = to /\ sysReg' = flags
  /\ UNCHANGED <<flags, tick, try, heard, uartVars, out, board>>

(* SysMonitor stores the changed byte.                                     *)
SysStore(from, to, byte) ==
  /\ sys = from
  /\ sys' = to /\ flags' = byte /\ sysReg' = {}
  /\ UNCHANGED <<tick, meter, heard, uartVars, out, board>>

SysGoes(from, to) ==
  /\ sys = from
  /\ sys' = to
  /\ UNCHANGED <<flags, tick, sysReg, try, meter, uartVars, out, board, undone>>

(* The loop wakes up and scans the sensors if the timer asked for it.      *)
WakeToScan ==
  /\ "MODBUS1S" \in flags
  /\ SysLoad("sleep", "clrModbus")
  /\ UNCHANGED <<meter, undone>>

WakeNoScan ==
  /\ "MODBUS1S" \notin flags
  /\ SysGoes("sleep", "meter?")
  /\ UNCHANGED heard

ClearModbus ==
  /\ SysStore("clrModbus", "poll", sysReg \ {"MODBUS1S"})
  /\ UNCHANGED <<try, undone>>

(* A sensor that answers is heard unless its answer is routed to the       *)
(* receiver of the meter.                                                  *)
PollSensor ==
  /\ SysGoes("poll", "meter?")
  /\ heard' = ("EP_CMD_SEND" \notin flags)

(* The reading of the meter: SysMonitor clears the request and the success *)
(* flag, then asks up to METER_TRIES times with the line switched over.    *)
MeterNotDue ==
  /\ "EP_RD_EN_10S" \notin flags
  /\ SysGoes("meter?", "sleep")
  /\ UNCHANGED heard

MeterDue ==
  \/ /\ "EP_RD_EN_10S" \in flags
     /\ SysLoad("meter?", "clrEn") /\ UNCHANGED <<meter, undone>>
  \/ /\ SysStore("clrEn", "ldSuc", sysReg \ {"EP_RD_EN_10S"})
     /\ UNCHANGED <<try, undone>>
  \/ SysLoad("ldSuc", "clrSuc") /\ UNCHANGED <<meter, undone>>
  \/ /\ SysStore("clrSuc", "send", sysReg \ {"EP_RD_GET_SUC"})
     /\ UNCHANGED <<try, undone>>

AskMeter ==
  \/ SysLoad("send", "setCmd") /\ meter' = TRUE /\ UNCHANGED undone
  \/ /\ SysStore("setCmd", "wait", sysReg \cup {"EP_CMD_SEND"})
     /\ UNCHANGED <<try, undone>>

(* Faulty: one request too many.                                           *)
AskAgainOnceMore ==
  /\ sys = "wait"
  /\ "EP_RD_GET_SUC" \notin flags /\ try < METER_TRIES
  /\ sys' = "send" /\ try' = try + 1
  /\ UNCHANGED <<flags, tick, sysReg, meter, heard, uartVars, out, board, undone>>

(* Faulty: the requests are not counted.                                   *)
AskAgainForEver ==
  /\ sys = "wait"
  /\ "EP_RD_GET_SUC" \notin flags /\ try < METER_TRIES - 1
  /\ sys' = "send"
  /\ UNCHANGED <<flags, tick, sysReg, try, meter, heard, uartVars, out, board, undone>>

AskAgain ==
  /\ sys = "wait"
  /\ "EP_RD_GET_SUC" \notin flags /\ try < METER_TRIES - 1
  /\ sys' = "send" /\ try' = try + 1
  /\ UNCHANGED <<flags, tick, sysReg, meter, heard, uartVars, out, board, undone>>

ReadingEnds ==
  /\ "EP_RD_GET_SUC" \in flags \/ try = METER_TRIES - 1
  /\ SysLoad("wait", "clrCmd")
  /\ UNCHANGED <<meter, undone>>

(* Faulty: the line is given back after a successful reading only.         *)
GiveLineBackOnSuccess ==
  /\ SysStore("clrCmd", "sleep",
              IF "EP_RD_GET_SUC" \in sysReg THEN sysReg \ {"EP_CMD_SEND"} ELSE sysReg)
  /\ try' = 0 /\ undone' = FALSE

GiveLineBack ==
  /\ SysStore("clrCmd", "sleep", sysReg \ {"EP_CMD_SEND"})
  /\ try' = 0 /\ undone' = FALSE

SysMonitor ==
  \/ WakeToScan \/ WakeNoScan \/ ClearModbus \/ PollSensor
  \/ MeterNotDue \/ MeterDue \/ AskMeter \/ AskAgain \/ ReadingEnds \/ GiveLineBack

SysBlocked == sys \in {"sleep", "poll", "wait"}

-----------------------------------------------------------------------------
(* thread_entry_UART4.                                                     *)
UartLoad ==
  /\ SysBlocked /\ uart = "sleep"
  /\ "DRIVE_1S" \in flags
  /\ uart' = "store" /\ uartReg' = flags
  /\ UNCHANGED <<flags, tick, sysVars, meter, heard, sendBuf, crc, out, board, undone>>

(* The check sum is computed before the new outputs are filled in.         *)
UartStore ==
  /\ SysBlocked /\ uart = "store"
  /\ uart' = "fill" /\ uartReg' = {}
  /\ flags' = uartReg \ {"DRIVE_1S"}
  /\ undone' = (undone \/ ("EP_CMD_SEND" \in uartReg /\ "EP_CMD_SEND" \notin flags))
  /\ crc' = sendBuf
  /\ UNCHANGED <<tick, sysVars, meter, heard, sendBuf, out, board>>

(* Faulty: the buffer does not keep the outputs for the next check sum.    *)
UartSendForgets(arrives) ==
  /\ SysBlocked /\ uart = "fill"
  /\ uart' = "sleep"
  /\ sendBuf' = NoOutput
  /\ board' = IF arrives /\ out = crc THEN out ELSE board
  /\ crc' = NoOutput
  /\ UNCHANGED <<flags, tick, sysVars, meter, heard, uartReg, out, undone>>

(* The outputs are filled in and the frame is sent; the board takes over   *)
(* a frame that arrives with a matching check sum.                         *)
UartSend(arrives) ==
  /\ SysBlocked /\ uart = "fill"
  /\ uart' = "sleep"
  /\ sendBuf' = out
  /\ board' = IF arrives /\ out = crc THEN out ELSE board
  /\ crc' = NoOutput
  /\ UNCHANGED <<flags, tick, sysVars, meter, heard, uartReg, out, undone>>

Uart4 == UartLoad \/ UartStore \/ UartSend(TRUE) \/ UartSend(FALSE)

(* DevRun or the display changes the outputs.                              *)
DevRun ==
  /\ SysBlocked /\ uart = "sleep"
  /\ \E o \in Outputs \ {out} : out' = o
  /\ UNCHANGED <<flags, tick, sysVars, meter, heard, uartVars, board, undone>>

BusNext ==
  \/ Timer1S \/ MeterAnswer \/ MeterSilent
  \/ SysMonitor \/ Uart4 \/ DevRun

BusSpec == BusInit /\ [][BusNext]_busVars

(* No thread is in the middle of changing a flag.                          *)
NoChangeUnderWay == uart # "store" /\ SysBlocked

(* The timer runs, and a thread that is ready again and again, between the *)
(* interrupts and the threads above it, runs.  The tick that asks for a   *)
(* reading does not hit a change of the byte every time, and some frames   *)
(* arrive.                                                                 *)
BusFairSpec ==
  /\ BusSpec
  /\ WF_busVars(Timer1S)
  /\ SF_busVars(SysMonitor) /\ SF_busVars(Uart4)
  /\ SF_busVars(NoChangeUnderWay /\ tick = METER_PERIOD - 1 /\ Timer1S)
  /\ SF_busVars(UartSend(TRUE))

-----------------------------------------------------------------------------
(* Every variable keeps its type.                                          *)
BusTypeOK ==
  /\ flags \subseteq Bit /\ sysReg \subseteq Bit /\ uartReg \subseteq Bit
  /\ tick \in 0 .. METER_PERIOD - 1 /\ try \in 0 .. METER_TRIES - 1
  /\ sys \in {"sleep", "clrModbus", "poll", "meter?", "clrEn", "ldSuc", "clrSuc",
              "send", "setCmd", "wait", "clrCmd"}
  /\ uart \in {"sleep", "store", "fill"}
  /\ {sendBuf, crc, out, board} \subseteq Outputs

Reading == {"wait", "send", "setCmd", "clrCmd"}

(* EP_CMD_SEND switches the line to the meter during a reading only, but   *)
(* for one cause: UART4 was preempted in the middle of clearing its own    *)
(* flag and its store has undone the clearing of EP_CMD_SEND.              *)
LineSwitchedByReading ==
  ("EP_CMD_SEND" \in flags /\ sys \notin Reading) => undone

(* A line left switched to the meter is given back to the sensors: the     *)
(* next reading clears the flag again.                                     *)
LineGivenBack == []<>("EP_CMD_SEND" \notin flags)

(* Unless that preemption keeps recurring, sensors that answer are heard   *)
(* again and again: a reading of the meter, also one that fails, takes     *)
(* the line for a time only.                                               *)
SensorsHeard == <>[]~undone => []<>heard

(* Outputs that stay as they are reach the drive board and stay there,     *)
(* although the frame that carries a change has the check sum of the one   *)
(* before, frames are lost and the flag that triggers them can be undone.  *)
BoardFollows ==
  \A o \in Outputs : <>[](out = o) => <>[](board = o)
=============================================================================
