-------------------------- MODULE SensorLineProofs --------------------------
(***************************************************************************)
(* The sensor line: the Modbus master on it, for any number of devices,    *)
(* and the flags that switch the line to the meter, for every period and   *)
(* every number of requests of a reading.                                  *)
(***************************************************************************)
EXTENDS FieldBus, ModbusMaster, TLAPS

(* Every request is made to a device, and a frame is sent to one.          *)
Addressed ==
  /\ req # "between" => dev \in Dev
  /\ req = "post" \/ "FRAME_SENT" \in pend \/ got = {"FRAME_SENT"} => dest \in Dev
  /\ snd = "XMIT" => sndTo \in Dev

(* The poll thread has nothing to do, or one event to handle.              *)
Quiet == poll # "run" /\ pend = {} /\ got = {}
Event(e) == \/ poll = "run" /\ got = {e} /\ pend = {}
            \/ poll = "delay" /\ got = {} /\ pend = {e}
LineFree == snd = "IDLE" /\ rcv = "IDLE" /\ ~timer

(* As long as nothing has disturbed it, a request goes through these       *)
(* phases, and exactly one thing is under way in each of them.             *)
Idle     == req \in {"between", "fill", "post", "back"} /\ Quiet /\ LineFree
Sending  == req \in {"recv", "wait"} /\ Event("FRAME_SENT") /\ LineFree
Out      == req \in {"recv", "wait"} /\ Quiet /\ snd = "XMIT" /\ rcv = "IDLE" /\ ~timer
Waiting  == req = "wait" /\ Quiet /\ snd = "XFWR" /\ rcv = "IDLE" /\ timer
Incoming == req = "wait" /\ Quiet /\ snd = "IDLE" /\ rcv \in {"RCV", "ERROR"} /\ timer
Answered ==
  /\ req = "wait" /\ LineFree
  /\ \/ Event("FRAME_RECEIVED") \/ Event("ERROR_PROCESS")
     \/ Event("EXECUTE") /\ rcvBuf # Noise /\ rcvBuf.from = dest
Phase == Idle \/ Sending \/ Out \/ Waiting \/ Incoming \/ Answered

(* What a request knows in them.                                           *)
OneRequest ==
  /\ done = {}
  /\ sem = IF req \in {"between", "back"} THEN 1 ELSE 0
  /\ req \in {"post", "recv", "wait", "back"} => dest = dev
  /\ req = "back" => (reqGot = {"SUCESS"} <=> fresh)
  /\ req # "back" => ~fresh

MasterInv ==
  /\ TypeOK /\ Addressed /\ RegistersOwn
  /\ ~disturbed => Phase /\ OneRequest

-----------------------------------------------------------------------------
(* The steps of a request of SysMonitor.                                   *)
LEMMA RequestStep ==
  ASSUME MasterInv, NEW d \in Dev, Request(d)
  PROVE  MasterInv'
<1> USE DEF MasterInv, reqVars, pollVars, lineVars, SysRuns
<1>1. TypeOK'
  BY ModbusAssumption DEF Request, TypeOK, PollEvent, Result, Frame, Noise,
                          Addressed
<1>2. Addressed' /\ RegistersOwn'
  BY DEF Request, TypeOK, Addressed, RegistersOwn
<1>3. ~disturbed' => Phase' /\ OneRequest'
  BY ModbusAssumption DEF Request, TypeOK, OneRequest, Phase, Idle, Sending, Out,
                          Waiting, Incoming, Answered, Quiet, Event, LineFree
<1> QED BY <1>1, <1>2, <1>3

LEMMA FillRequestStep ==
  ASSUME MasterInv, FillRequest
  PROVE  MasterInv'
<1> USE DEF MasterInv, reqVars, pollVars, lineVars, SysRuns
<1>1. TypeOK'
  BY ModbusAssumption DEF FillRequest, TypeOK, PollEvent, Result, Frame, Noise,
                          Addressed
<1>2. Addressed' /\ RegistersOwn'
  BY DEF FillRequest, TypeOK, Addressed, RegistersOwn
<1>3. ~disturbed' => Phase' /\ OneRequest'
  BY ModbusAssumption DEF FillRequest, TypeOK, OneRequest, Phase, Idle, Sending,
                          Out, Waiting, Incoming, Answered, Quiet, Event, LineFree
<1> QED BY <1>1, <1>2, <1>3

LEMMA PostRequestStep ==
  ASSUME MasterInv, PostRequest
  PROVE  MasterInv'
<1> USE DEF MasterInv, reqVars, pollVars, lineVars, SysRuns
<1>1. TypeOK'
  BY ModbusAssumption DEF PostRequest, Post, TypeOK, PollEvent, Result, Frame,
                          Noise, Addressed
<1>2. Addressed' /\ RegistersOwn'
  BY DEF PostRequest, Post, TypeOK, Addressed, RegistersOwn
<1>3. ~disturbed' => Phase' /\ OneRequest'
  BY ModbusAssumption DEF PostRequest, Post, TypeOK, OneRequest, Phase, Idle,
                          Sending, Out, Waiting, Incoming, Answered, Quiet, Event,
                          LineFree
<1> QED BY <1>1, <1>2, <1>3

LEMMA WaitRequestFinishStep ==
  ASSUME MasterInv, WaitRequestFinish
  PROVE  MasterInv'
<1> USE DEF MasterInv, reqVars, pollVars, lineVars, SysRuns
<1>1. TypeOK'
  BY ModbusAssumption DEF WaitRequestFinish, TypeOK, PollEvent, Result, Frame,
                          Noise, Addressed
<1>2. Addressed' /\ RegistersOwn'
  BY DEF WaitRequestFinish, TypeOK, Addressed, RegistersOwn
<1>3. ~disturbed' => Phase' /\ OneRequest'
  BY ModbusAssumption DEF WaitRequestFinish, TypeOK, OneRequest, Phase, Idle,
                          Sending, Out, Waiting, Incoming, Answered, Quiet, Event,
                          LineFree
<1> QED BY <1>1, <1>2, <1>3

LEMMA ReturnStep ==
  ASSUME MasterInv, Return
  PROVE  MasterInv'
<1> USE DEF MasterInv, reqVars, pollVars, lineVars, SysRuns
<1>1. TypeOK'
  BY ModbusAssumption DEF Return, TypeOK, PollEvent, Result, Frame, Noise,
                          Addressed
<1>2. Addressed' /\ RegistersOwn'
  BY DEF Return, TypeOK, Addressed, RegistersOwn
<1>3. ~disturbed' => Phase' /\ OneRequest'
  BY ModbusAssumption DEF Return, TypeOK, OneRequest, Phase, Idle, Sending, Out,
                          Waiting, Incoming, Answered, Quiet, Event, LineFree
<1> QED BY <1>1, <1>2, <1>3

-----------------------------------------------------------------------------
(* The steps of the poll thread.                                           *)
LEMMA PollWakesStep ==
  ASSUME MasterInv, PollWakes
  PROVE  MasterInv'
<1> USE DEF MasterInv, reqVars, pollVars, lineVars, SysRuns
<1>1. TypeOK'
  BY ModbusAssumption DEF PollWakes, TypeOK, PollEvent, Result, Frame, Noise,
                          Addressed
<1>2. Addressed' /\ RegistersOwn'
  BY DEF PollWakes, TypeOK, Addressed, RegistersOwn
<1>3. ~disturbed' => Phase' /\ OneRequest'
  BY ModbusAssumption DEF PollWakes, TypeOK, OneRequest, Phase, Idle, Sending, Out,
                          Waiting, Incoming, Answered, Quiet, Event, LineFree
<1> QED BY <1>1, <1>2, <1>3

LEMMA HandleFrameSentStep ==
  ASSUME MasterInv, HandleFrameSent
  PROVE  MasterInv'
<1> USE DEF MasterInv, reqVars, pollVars, lineVars, SysRuns
<1>1. TypeOK'
  BY ModbusAssumption DEF HandleFrameSent, PollHandles, TypeOK, PollEvent, Result,
                          Frame, Noise, Addressed
<1>2. Addressed' /\ RegistersOwn'
  BY DEF HandleFrameSent, PollHandles, TypeOK, Addressed, RegistersOwn
<1>3. ~disturbed' => Phase' /\ OneRequest'
  BY ModbusAssumption DEF HandleFrameSent, PollHandles, TypeOK, OneRequest, Phase,
                          Idle, Sending, Out, Waiting, Incoming, Answered, Quiet,
                          Event, LineFree
<1> QED BY <1>1, <1>2, <1>3

LEMMA HandleFrameReceivedStep ==
  ASSUME MasterInv, HandleFrameReceived
  PROVE  MasterInv'
<1> USE DEF MasterInv, reqVars, pollVars, lineVars, SysRuns
<1>1. TypeOK'
  BY ModbusAssumption DEF HandleFrameReceived, PollHandles, TypeOK, PollEvent,
                          Result, Frame, Noise, Addressed
<1>2. Addressed' /\ RegistersOwn'
  BY DEF HandleFrameReceived, PollHandles, TypeOK, Addressed, RegistersOwn
<1>3. ~disturbed' => Phase' /\ OneRequest'
  BY ModbusAssumption DEF HandleFrameReceived, PollHandles, TypeOK, OneRequest,
                          Phase, Idle, Sending, Out, Waiting, Incoming, Answered,
                          Quiet, Event, LineFree
<1> QED BY <1>1, <1>2, <1>3

(* What EXECUTE stores comes from the slave that was asked: the address    *)
(* cannot have changed since the frame was checked, for SysMonitor waits.  *)
LEMMA ExecuteStoresStep ==
  ASSUME MasterInv, ExecuteStores
  PROVE  MasterInv'
<1> USE DEF MasterInv, reqVars, pollVars, lineVars, PollHandles
<1>1. TypeOK'
  BY ModbusAssumption DEF ExecuteStores, Finish, TypeOK, PollEvent, Result, Addressed
<1>2. Addressed'
  BY DEF ExecuteStores, Finish, TypeOK, Addressed
<1>3. ~disturbed => /\ req = "wait" /\ LineFree /\ pend = {}
                    /\ rcvBuf.from = dest /\ dest = dev /\ sem = 0 /\ done = {}
  BY DEF ExecuteStores, OneRequest, Phase, Idle, Sending, Out, Waiting, Incoming, Answered,
         Quiet, Event, LineFree
<1>4. RegistersOwn'
  BY <1>3 DEF ExecuteStores, RegistersOwn, TypeOK
<1>5. ASSUME ~disturbed PROVE Idle' /\ OneRequest'
  <2>1. req' = "back" /\ reqGot' = {"SUCESS"} /\ done' = {}
    BY <1>3, <1>5 DEF ExecuteStores, Finish
  <2>2. sem' = 1
    BY <1>3, <1>5, ModbusAssumption DEF ExecuteStores, Finish
  <2>3. fresh'
    BY <1>3, <1>5 DEF ExecuteStores
  <2>4. dest' = dev' /\ Quiet' /\ LineFree'
    BY <1>3, <1>5 DEF ExecuteStores, Quiet, LineFree
  <2> QED BY <2>1, <2>2, <2>3, <2>4 DEF Idle, OneRequest
<1>6. disturbed' = disturbed
  BY DEF ExecuteStores
<1> QED BY <1>1, <1>2, <1>4, <1>5, <1>6 DEF Phase

LEMMA ExecuteRejectsStep ==
  ASSUME MasterInv, ExecuteRejects
  PROVE  MasterInv'
<1> USE DEF MasterInv, reqVars, pollVars, lineVars, SysRuns
<1>1. TypeOK'
  BY ModbusAssumption DEF ExecuteRejects, PollHandles, TypeOK, PollEvent, Result,
                          Frame, Noise, Addressed
<1>2. Addressed' /\ RegistersOwn'
  BY DEF ExecuteRejects, PollHandles, TypeOK, Addressed, RegistersOwn
<1>3. ~disturbed' => Phase' /\ OneRequest'
  BY ModbusAssumption DEF ExecuteRejects, PollHandles, TypeOK, OneRequest, Phase,
                          Idle, Sending, Out, Waiting, Incoming, Answered, Quiet,
                          Event, LineFree
<1> QED BY <1>1, <1>2, <1>3

LEMMA HandleErrorStep ==
  ASSUME MasterInv, HandleError
  PROVE  MasterInv'
<1> USE DEF MasterInv, reqVars, pollVars, lineVars, SysRuns
<1>1. TypeOK'
  BY ModbusAssumption DEF HandleError, PollHandles, Finish, TypeOK, PollEvent,
                          Result, Frame, Noise, Addressed
<1>2. Addressed' /\ RegistersOwn'
  BY DEF HandleError, PollHandles, Finish, TypeOK, Addressed, RegistersOwn
<1>3. ~disturbed' => Phase' /\ OneRequest'
  BY ModbusAssumption DEF HandleError, PollHandles, Finish, TypeOK, OneRequest,
                          Phase, Idle, Sending, Out, Waiting, Incoming, Answered,
                          Quiet, Event, LineFree
<1> QED BY <1>1, <1>2, <1>3

-----------------------------------------------------------------------------
(* The line and the timer of the stack.                                    *)
LEMMA TransmitDoneStep ==
  ASSUME MasterInv, TransmitDone
  PROVE  MasterInv'
<1> USE DEF MasterInv, reqVars, pollVars, lineVars, SysRuns
<1>1. TypeOK'
  BY ModbusAssumption DEF TransmitDone, TypeOK, PollEvent, Result, Frame, Noise,
                          Addressed
<1>2. Addressed' /\ RegistersOwn'
  BY DEF TransmitDone, TypeOK, Addressed, RegistersOwn
<1>3. ~disturbed' => Phase' /\ OneRequest'
  BY ModbusAssumption DEF TransmitDone, TypeOK, OneRequest, Phase, Idle, Sending,
                          Out, Waiting, Incoming, Answered, Quiet, Event, LineFree
<1> QED BY <1>1, <1>2, <1>3

LEMMA SlaveAnswersStep ==
  ASSUME MasterInv, NEW d \in Dev, NEW kind \in {"answer", "exception"},
         SlaveAnswers(d, kind)
  PROVE  MasterInv'
<1> USE DEF MasterInv, reqVars, pollVars, lineVars, SysRuns
<1>1. TypeOK'
  <2>1. [from |-> d, kind |-> kind] \in Frame
    BY DEF Frame
  <2>2. rcvBuf' \in Frame \cup {Noise}
    BY <2>1, Zenon DEF SlaveAnswers, Receive, TypeOK
  <2>3. /\ rcv' \in {"IDLE", "RCV", "ERROR"} /\ snd' \in {"IDLE", "XMIT", "XFWR"}
        /\ disturbed' \in BOOLEAN /\ timer' \in BOOLEAN /\ asked' \subseteq Dev
    BY DEF SlaveAnswers, Receive, TypeOK
  <2> QED BY <2>2, <2>3 DEF SlaveAnswers, TypeOK
<1>2. Addressed' /\ RegistersOwn'
  BY DEF SlaveAnswers, Receive, TypeOK, Addressed, RegistersOwn
<1>3. ~disturbed' => Phase' /\ OneRequest'
  BY ModbusAssumption DEF SlaveAnswers, Receive, TypeOK, OneRequest, Phase, Idle,
                          Sending, Out, Waiting, Incoming, Answered, Quiet, Event,
                          LineFree
<1> QED BY <1>1, <1>2, <1>3

LEMMA SlaveSilentStep ==
  ASSUME MasterInv, NEW d \in Dev, SlaveSilent(d)
  PROVE  MasterInv'
<1> USE DEF MasterInv, reqVars, pollVars, lineVars, SysRuns
<1>1. TypeOK'
  BY DEF SlaveSilent, TypeOK
<1>2. Addressed' /\ RegistersOwn'
  BY DEF SlaveSilent, TypeOK, Addressed, RegistersOwn
<1>3. ~disturbed' => Phase' /\ OneRequest'
  BY ModbusAssumption DEF SlaveSilent, TypeOK, OneRequest, Phase, Idle, Sending,
                          Out, Waiting, Incoming, Answered, Quiet, Event, LineFree
<1> QED BY <1>1, <1>2, <1>3

LEMMA LineNoiseStep ==
  ASSUME MasterInv, LineNoise
  PROVE  MasterInv'
<1> USE DEF MasterInv, reqVars, pollVars, lineVars, SysRuns
<1>1. TypeOK'
  <2>1. rcvBuf' \in Frame \cup {Noise} /\ rcv' \in {"IDLE", "RCV", "ERROR"}
    BY DEF LineNoise, Receive, TypeOK
  <2>2. snd' \in {"IDLE", "XMIT", "XFWR"} /\ timer' \in BOOLEAN /\ disturbed' \in BOOLEAN
    BY DEF LineNoise, Receive, TypeOK
  <2> QED BY <2>1, <2>2 DEF LineNoise, TypeOK
<1>2. Addressed' /\ RegistersOwn'
  BY DEF LineNoise, Receive, TypeOK, Addressed, RegistersOwn
<1>3. ~disturbed' => Phase' /\ OneRequest'
  BY ModbusAssumption DEF LineNoise, Receive, TypeOK, OneRequest, Phase, Idle,
                          Sending, Out, Waiting, Incoming, Answered, Quiet, Event,
                          LineFree
<1> QED BY <1>1, <1>2, <1>3

LEMMA OverrunStep ==
  ASSUME MasterInv, Overrun
  PROVE  MasterInv'
<1> USE DEF MasterInv, reqVars, pollVars, lineVars, SysRuns
<1>1. TypeOK'
  BY ModbusAssumption DEF Overrun, TypeOK, PollEvent, Result, Frame, Noise,
                          Addressed
<1>2. Addressed' /\ RegistersOwn'
  BY DEF Overrun, TypeOK, Addressed, RegistersOwn
<1>3. ~disturbed' => Phase' /\ OneRequest'
  BY ModbusAssumption DEF Overrun, TypeOK, OneRequest, Phase, Idle, Sending, Out,
                          Waiting, Incoming, Answered, Quiet, Event, LineFree
<1> QED BY <1>1, <1>2, <1>3

LEMMA TimerExpiredStep ==
  ASSUME MasterInv, TimerExpired
  PROVE  MasterInv'
<1> USE DEF MasterInv, reqVars, pollVars, lineVars, SysRuns
<1>1. TypeOK'
  BY ModbusAssumption DEF TimerExpired, TimerEvent, Post, TypeOK, PollEvent,
                          Result, Frame, Noise, Addressed
<1>2. Addressed' /\ RegistersOwn'
  BY DEF TimerExpired, TimerEvent, Post, TypeOK, Addressed, RegistersOwn
<1>3. ~disturbed' => Phase' /\ OneRequest'
  BY ModbusAssumption DEF TimerExpired, TimerEvent, Post, TypeOK, OneRequest,
                          Phase, Idle, Sending, Out, Waiting, Incoming, Answered,
                          Quiet, Event, LineFree
<1> QED BY <1>1, <1>2, <1>3

-----------------------------------------------------------------------------
(* A resume disturbs the request, so only the types and addresses are left.*)
LEMMA ResumeSysMonitorStep ==
  ASSUME MasterInv, ResumeSysMonitor
  PROVE  MasterInv'
<1> USE DEF MasterInv, reqVars, pollVars, lineVars, SysRuns
<1>1. TypeOK'
  BY ModbusAssumption DEF ResumeSysMonitor, TypeOK, PollEvent, Result, Frame,
                          Noise, Addressed
<1>2. Addressed' /\ RegistersOwn'
  BY DEF ResumeSysMonitor, TypeOK, Addressed, RegistersOwn
<1>3. ~disturbed' => Phase' /\ OneRequest'
  BY ModbusAssumption DEF ResumeSysMonitor, TypeOK, OneRequest, Phase, Idle,
                          Sending, Out, Waiting, Incoming, Answered, Quiet, Event,
                          LineFree
<1> QED BY <1>1, <1>2, <1>3

LEMMA ResumePollStep ==
  ASSUME MasterInv, ResumePoll
  PROVE  MasterInv'
<1> USE DEF MasterInv, reqVars, lineVars
<1>1. got' # {"FRAME_SENT"}
  BY DEF ResumePoll, PollEvent
<1> QED BY <1>1 DEF ResumePoll, TypeOK, Addressed, RegistersOwn

LEMMA MasterStep == MasterInv /\ [Next]_vars => MasterInv'
<1> SUFFICES ASSUME MasterInv, [Next]_vars PROVE MasterInv'
  OBVIOUS
<1>1. CASE ReadHoldingRegister
  BY <1>1, RequestStep, FillRequestStep, PostRequestStep, WaitRequestFinishStep, ReturnStep
     DEF ReadHoldingRegister
<1>2. CASE Poll
  BY <1>2, PollWakesStep, HandleFrameSentStep, HandleFrameReceivedStep, ExecuteStoresStep,
     ExecuteRejectsStep, HandleErrorStep DEF Poll
<1>3. CASE \E d \in Dev : \/ SlaveSilent(d)
                         \/ \E kind \in {"answer", "exception"} : SlaveAnswers(d, kind)
  BY <1>3, SlaveSilentStep, SlaveAnswersStep
<1>4. CASE TransmitDone \/ LineNoise \/ Overrun \/ TimerExpired
  BY <1>4, TransmitDoneStep, LineNoiseStep, OverrunStep, TimerExpiredStep
<1>5. CASE ResumeSysMonitor \/ ResumePoll
  BY <1>5, ResumeSysMonitorStep, ResumePollStep
<1>6. CASE UNCHANGED vars
  BY <1>6 DEF vars, reqVars, pollVars, lineVars, MasterInv, TypeOK, Addressed, RegistersOwn,
              Phase, OneRequest, Idle, Sending, Out, Waiting, Incoming, Answered, Quiet,
              Event, LineFree
<1> QED BY <1>1, <1>2, <1>3, <1>4, <1>5, <1>6 DEF Next

LEMMA MasterInductive == Spec => []MasterInv
<1>1. Init => MasterInv
  <2> SUFFICES ASSUME Init PROVE MasterInv
    OBVIOUS
  <2>1. sem \in 0 .. SEM_MAX /\ rcvBuf \in Frame \cup {Noise}
    BY ModbusAssumption DEF Init
  <2>2. TypeOK
    BY <2>1 DEF Init, TypeOK
  <2>3. Addressed /\ RegistersOwn
    BY DEF Init, Addressed, RegistersOwn
  <2>4. Phase /\ OneRequest
    BY DEF Init, Phase, Idle, Quiet, LineFree, OneRequest
  <2> QED BY <2>2, <2>3, <2>4 DEF MasterInv
<1> QED BY <1>1, MasterStep, PTL DEF Spec

-----------------------------------------------------------------------------
(* Every variable of the stack keeps its type, after every disturbance.    *)
THEOREM MasterTypeCorrect == Spec => []TypeOK
<1>1. MasterInv => TypeOK
  BY DEF MasterInv
<1> QED BY <1>1, MasterInductive, PTL

(* What is stored for a device comes from it, as long as no thread was     *)
(* resumed in a wait and no frame came unasked.                            *)
THEOREM RegistersOwnHolds == Spec => []RegistersOwn
<1>1. MasterInv => RegistersOwn
  BY DEF MasterInv
<1> QED BY <1>1, MasterInductive, PTL

(* Up to then a request succeeds exactly when registers of its device were *)
(* stored since it began.                                                  *)
THEOREM ResultIsOwnHolds == Spec => []ResultIsOwn
<1>1. MasterInv => ResultIsOwn
  BY DEF MasterInv, ResultIsOwn, OneRequest
<1> QED BY <1>1, MasterInductive, PTL

(* Up to then the semaphore is free exactly when no request is open.       *)
THEOREM ResourceConservedHolds == Spec => []ResourceConserved
<1>1. MasterInv => ResourceConserved
  BY DEF MasterInv, ResourceConserved, OneRequest
<1> QED BY <1>1, MasterInductive, PTL
-----------------------------------------------------------------------------
(* The flags that switch the line to the meter.                            *)

(* Where SysMonitor holds a byte that it will store outside a reading.     *)
Storing == {"clrModbus", "clrEn", "clrSuc"}

(* The byte SysMonitor is about to store can bring EP_CMD_SEND back only   *)
(* when UART4 had already done so: UART4 never runs between its load and   *)
(* its store.                                                              *)
LoadedByteClean ==
  (sys \in Storing /\ "EP_CMD_SEND" \in sysReg) => undone

LineInv == LineSwitchedByReading /\ LoadedByteClean

LEMMA Periods == /\ METER_PERIOD \in Nat /\ METER_PERIOD >= 1
                 /\ METER_TRIES \in Nat /\ METER_TRIES >= 1 /\ NoOutput \in Outputs
BY FieldBusAssumption

LEMMA BusTypeInit ==
  ASSUME BusInit
  PROVE  BusTypeOK
BY Periods DEF BusInit, BusTypeOK

-----------------------------------------------------------------------------
(* The types, one step per process.                                        *)
LEMMA BusTypeStep ==
  ASSUME BusTypeOK, [BusNext]_busVars
  PROVE  BusTypeOK'
<1> USE DEF sysVars, uartVars
<1>1. CASE Timer1S
  <2>1. tick' \in 0 .. METER_PERIOD - 1
    BY <1>1, Periods DEF Timer1S, BusTypeOK
  <2>2. flags' \subseteq Bit
    BY <1>1 DEF Timer1S, BusTypeOK, Bit
  <2> QED BY <1>1, <2>1, <2>2 DEF Timer1S, BusTypeOK
<1>2. CASE MeterAnswer
  BY <1>2 DEF MeterAnswer, BusTypeOK, Bit
<1>3. CASE MeterSilent
  BY <1>3 DEF MeterSilent, BusTypeOK
<1>4. CASE WakeToScan \/ WakeNoScan \/ ClearModbus \/ PollSensor \/ MeterNotDue
  BY <1>4 DEF WakeToScan, WakeNoScan, ClearModbus, PollSensor, MeterNotDue,
              SysLoad, SysStore, SysGoes, BusTypeOK
<1>5. CASE MeterDue
  BY <1>5 DEF MeterDue, SysLoad, SysStore, BusTypeOK
<1>6. CASE AskMeter
  BY <1>6 DEF AskMeter, SysLoad, SysStore, BusTypeOK, Bit
<1>7. CASE AskAgain
  BY <1>7, Periods DEF AskAgain, BusTypeOK
<1>8. CASE ReadingEnds
  BY <1>8 DEF ReadingEnds, SysLoad, BusTypeOK
<1>9. CASE GiveLineBack
  BY <1>9, Periods DEF GiveLineBack, SysStore, BusTypeOK
<1>10. CASE Uart4
  BY <1>10, Periods DEF Uart4, UartLoad, UartStore, UartSend, BusTypeOK
<1>11. CASE DevRun
  BY <1>11 DEF DevRun, BusTypeOK
<1>12. CASE UNCHANGED busVars
  BY <1>12 DEF busVars, BusTypeOK
<1> QED BY <1>1, <1>2, <1>3, <1>4, <1>5, <1>6, <1>7, <1>8, <1>9, <1>10, <1>11, <1>12
        DEF BusNext, SysMonitor

(* The ticks, the requests of a reading and the bits stay in their ranges. *)
THEOREM BusTypeCorrect == BusSpec => []BusTypeOK
<1>1. BusInit => BusTypeOK
  BY BusTypeInit
<1>2. BusTypeOK /\ [BusNext]_busVars => BusTypeOK'
  BY BusTypeStep
<1> QED BY <1>1, <1>2, PTL DEF BusSpec

-----------------------------------------------------------------------------
(* The line.                                                               *)
(* What SysMonitor stores outside a reading never holds EP_CMD_SEND unless *)
(* UART4 had brought it back before.                                       *)
LEMMA SysMonitorKeepsLine ==
  ASSUME LineInv, SysMonitor
  PROVE  LineInv'
<1> USE DEF sysVars, uartVars, LineInv, LineSwitchedByReading, LoadedByteClean,
            Storing, Reading
<1>1. CASE WakeToScan
  BY <1>1 DEF WakeToScan, SysLoad
<1>2. CASE WakeNoScan \/ PollSensor \/ MeterNotDue
  BY <1>2 DEF WakeNoScan, PollSensor, MeterNotDue, SysGoes
<1>3. CASE ClearModbus
  BY <1>3 DEF ClearModbus, SysStore
<1>4. CASE MeterDue
  BY <1>4 DEF MeterDue, SysLoad, SysStore
<1>5. CASE AskMeter
  BY <1>5 DEF AskMeter, SysLoad, SysStore
<1>6. CASE AskAgain
  BY <1>6 DEF AskAgain
<1>7. CASE ReadingEnds
  BY <1>7 DEF ReadingEnds, SysLoad
<1>8. CASE GiveLineBack
  BY <1>8 DEF GiveLineBack, SysStore
<1> QED BY <1>1, <1>2, <1>3, <1>4, <1>5, <1>6, <1>7, <1>8 DEF SysMonitor

(* A store of UART4 that sets EP_CMD_SEND is what undone records.          *)
LEMMA Uart4KeepsLine ==
  ASSUME LineInv, Uart4
  PROVE  LineInv'
<1>1. UNCHANGED <<sys, sysReg>>
  BY DEF Uart4, UartLoad, UartStore, UartSend, sysVars
<1>2. undone => undone'
  BY DEF Uart4, UartLoad, UartStore, UartSend
<1>3. ("EP_CMD_SEND" \in flags' /\ "EP_CMD_SEND" \notin flags) => undone'
  BY DEF Uart4, UartLoad, UartStore, UartSend
<1> QED BY <1>1, <1>2, <1>3
        DEF LineInv, LineSwitchedByReading, LoadedByteClean

LEMMA LineStep == LineInv /\ [BusNext]_busVars => LineInv'
<1> SUFFICES ASSUME LineInv, [BusNext]_busVars PROVE LineInv'
  OBVIOUS
<1>1. CASE Timer1S \/ MeterAnswer \/ MeterSilent \/ DevRun \/ UNCHANGED busVars
  <2>1. UNCHANGED <<sys, sysReg, undone>>
    BY <1>1 DEF Timer1S, MeterAnswer, MeterSilent, DevRun, busVars, sysVars
  <2>2. "EP_CMD_SEND" \in flags' => "EP_CMD_SEND" \in flags
    BY <1>1 DEF Timer1S, MeterAnswer, MeterSilent, DevRun, busVars
  <2> QED BY <2>1, <2>2 DEF LineInv, LineSwitchedByReading, LoadedByteClean
<1>2. CASE SysMonitor
  BY <1>2, SysMonitorKeepsLine
<1>3. CASE Uart4
  BY <1>3, Uart4KeepsLine
<1> QED BY <1>1, <1>2, <1>3 DEF BusNext

(* Outside a reading of the meter EP_CMD_SEND is set only after a store of *)
(* UART4 that was preempted between its load and its store.                *)
THEOREM LineSwitchedByReadingHolds == BusSpec => []LineSwitchedByReading
<1>1. BusInit => LineInv
  BY DEF BusInit, LineInv, LineSwitchedByReading, LoadedByteClean, Storing
<1>2. LineInv => LineSwitchedByReading
  BY DEF LineInv
<1> QED BY <1>1, <1>2, LineStep, PTL DEF BusSpec
=============================================================================
