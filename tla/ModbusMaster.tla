---------------------------- MODULE ModbusMaster ----------------------------
(***************************************************************************)
(* The Modbus master of the sensor line: a request of SysMonitor, the poll *)
(* thread, the receive and transmit state machines of the RTU layer, the   *)
(* slaves, and the one-second timer that resumes a thread it takes to be   *)
(* stuck.  Poll has a higher priority than SysMonitor and SysMonitor than  *)
(* the transmitting thread; interrupts come between any two steps.         *)
(* The kinds of errors are not told apart: SysMonitor only tests for one.  *)
(***************************************************************************)
EXTENDS Integers

CONSTANTS
  Dev,        \* slaves that SysMonitor asks
  None,       \* no slave
  SEM_MAX     \* bound: largest value of the semaphore, releases above are dropped

ASSUME ModbusAssumption ==
  /\ None \notin Dev
  /\ SEM_MAX \in Nat \ {0}

VARIABLES
  req, dev,   \* SysMonitor and the slave it asks, None between two requests
  reqGot,     \* the result events rt_event_recv has given it
  sem,        \* xMasterRunRes
  pend,       \* events of the poll thread pending in xMasterOsEvent
  done,       \* result events pending in xMasterOsEvent
  poll, got,  \* the poll thread and the events it has received
  dest,       \* ucMBMasterDestAddress
  rcv, rcvBuf,    \* eRcvState and what ucMasterRTURcvBuf holds
  snd, sndTo,     \* eSndState and the slave a frame is being sent to
  timer,      \* the one timer of the stack runs
  asked,      \* slaves that have got a request and may still answer
  fresh,      \* history: registers of dev were stored since this request began
  mixed,      \* history: registers of one device were stored for another
  disturbed   \* history: a thread was resumed in a wait, or a frame came unasked;
              \* fresh and mixed are kept up to then
reqVars == <<req, dev, reqGot>>
pollVars == <<poll, got>>
lineVars == <<rcv, rcvBuf, snd, sndTo, timer, asked>>
vars == <<reqVars, sem, pend, done, pollVars, dest, lineVars, fresh, mixed, disturbed>>

PollEvent == {"FRAME_RECEIVED", "EXECUTE", "FRAME_SENT", "ERROR_PROCESS"}
Result == {"SUCESS", "ERROR"}

(* What the receive buffer can hold: an answer or an exception of a slave, *)
(* or bytes that do not pass the check of eMBMasterRTUReceive.             *)
Frame == [from : Dev, kind : {"answer", "exception"}]
Noise == [from |-> None, kind |-> "noise"]

(* The startup delay of the stack is over long before SysMonitor has       *)
(* sounded the beeper and asks for the first time.                         *)
Init ==
  /\ req = "between" /\ dev = None /\ reqGot = {}
  /\ sem = 1 /\ pend = {} /\ done = {}
  /\ poll = "wait" /\ got = {}
  /\ dest = None
  /\ rcv = "IDLE" /\ rcvBuf = Noise /\ snd = "IDLE" /\ sndTo = None
  /\ timer = FALSE /\ asked = {}
  /\ fresh = FALSE /\ mixed = FALSE /\ disturbed = FALSE

(* rt_event_send of an event for the poll thread: a thread that waits gets *)
(* exactly this event, otherwise the event is added to the pending ones.   *)
Post(e) ==
  IF poll = "wait"
  THEN poll' = "run" /\ got' = {e} /\ UNCHANGED pend
  ELSE pend' = pend \cup {e} /\ UNCHANGED pollVars

-----------------------------------------------------------------------------
(* eMBMasterReqReadHoldingRegister, called by SysMonitor.                  *)
SysRuns == poll # "run"

(* Faulty: the semaphore is taken although it is 0.                        *)
RequestAnyway(d) ==
  /\ SysRuns /\ req = "between"
  /\ dev' = d /\ sem' = sem - 1 /\ req' = "fill"
  /\ UNCHANGED <<reqGot, pend, done, pollVars, dest, lineVars, fresh, mixed, disturbed>>

(* SysMonitor asks the next device: the semaphore is taken, or SysMonitor  *)
(* waits for it.                                                           *)
Request(d) ==
  /\ SysRuns /\ req = "between"
  /\ dev' = d
  /\ IF sem > 0 THEN sem' = sem - 1 /\ req' = "fill"
                ELSE req' = "take" /\ UNCHANGED sem
  /\ UNCHANGED <<reqGot, pend, done, pollVars, dest, lineVars, fresh, mixed, disturbed>>

FillRequest ==
  /\ SysRuns /\ req = "fill"
  /\ req' = "post" /\ dest' = dev
  /\ UNCHANGED <<dev, reqGot, sem, pend, done, pollVars, lineVars, fresh, mixed, disturbed>>

PostRequest ==
  /\ SysRuns /\ req = "post"
  /\ req' = "recv"
  /\ Post("FRAME_SENT")
  /\ UNCHANGED <<dev, reqGot, sem, done, dest, lineVars, fresh, mixed, disturbed>>

(* eMBMasterWaitRequestFinish: a pending result is taken at once.          *)
WaitRequestFinish ==
  /\ SysRuns /\ req = "recv"
  /\ req' = IF done = {} THEN "wait" ELSE "back"
  /\ reqGot' = done /\ done' = {}
  /\ UNCHANGED <<dev, sem, pend, pollVars, dest, lineVars, fresh, mixed, disturbed>>

(* SysMonitor evaluates the result; anything but the success event alone   *)
(* is an error.                                                            *)
Return ==
  /\ SysRuns /\ req = "back"
  /\ req' = "between" /\ dev' = None /\ reqGot' = {} /\ fresh' = FALSE
  /\ UNCHANGED <<sem, pend, done, pollVars, dest, lineVars, mixed, disturbed>>

ReadHoldingRegister ==
  \/ \E d \in Dev : Request(d)
  \/ FillRequest \/ PostRequest \/ WaitRequestFinish \/ Return

-----------------------------------------------------------------------------
(* thread_entry_ModbusMasterPoll and eMBMasterPoll.                        *)
(* The delay after an event is over: every pending event is received.      *)
PollWakes ==
  /\ poll = "delay"
  /\ poll' = IF pend = {} THEN "wait" ELSE "run"
  /\ got' = pend /\ pend' = {}
  /\ UNCHANGED <<reqVars, sem, done, dest, lineVars, fresh, mixed, disturbed>>

PollHandles == poll = "run" /\ poll' = "delay" /\ got' = {}

(* The frame is sent unless the receiver is busy.                          *)
HandleFrameSent ==
  /\ PollHandles /\ got = {"FRAME_SENT"}
  /\ IF rcv = "IDLE" THEN snd' = "XMIT" /\ sndTo' = dest ELSE UNCHANGED <<snd, sndTo>>
  /\ UNCHANGED <<reqVars, sem, pend, done, dest, rcv, rcvBuf, timer, asked, fresh,
                 mixed, disturbed>>

(* Faulty: the sender of the frame is not compared with the address.       *)
HandleFrameReceivedAny ==
  /\ PollHandles /\ got = {"FRAME_RECEIVED"}
  /\ pend' = pend \cup {IF rcv # "RCV" /\ rcvBuf # Noise THEN "EXECUTE" ELSE "ERROR_PROCESS"}
  /\ UNCHANGED <<reqVars, sem, done, dest, lineVars, fresh, mixed, disturbed>>

(* A whole frame of the slave that was asked is executed in the next turn. *)
HandleFrameReceived ==
  /\ PollHandles /\ got = {"FRAME_RECEIVED"}
  /\ pend' = pend \cup {IF rcv # "RCV" /\ rcvBuf # Noise /\ rcvBuf.from = dest
                        THEN "EXECUTE" ELSE "ERROR_PROCESS"}
  /\ UNCHANGED <<reqVars, sem, done, dest, lineVars, fresh, mixed, disturbed>>

(* Faulty: the resource is not released.                                   *)
FinishKeepsResource(r) ==
  /\ sem' = sem
  /\ IF req = "wait" THEN req' = "back" /\ reqGot' = {r} /\ UNCHANGED done
                     ELSE done' = done \cup {r} /\ UNCHANGED <<req, reqGot>>

(* The result is sent to SysMonitor, then the semaphore is released: to    *)
(* SysMonitor if it waits for it.                                          *)
Finish(r) ==
  /\ IF req = "wait" THEN reqGot' = {r} /\ UNCHANGED done
                     ELSE done' = done \cup {r} /\ UNCHANGED reqGot
  /\ req' = CASE req = "wait" -> "back" [] req = "take" -> "fill" [] OTHER -> req
  /\ sem' = IF req = "take" \/ sem = SEM_MAX THEN sem ELSE sem + 1

(* The registers are stored under the address of the request, which is     *)
(* read again.                                                             *)
ExecuteStores ==
  /\ PollHandles /\ got = {"EXECUTE"}
  /\ rcvBuf.kind # "exception"
  /\ mixed' = (mixed \/ (~disturbed /\ rcvBuf.from # dest))
  /\ fresh' = (fresh \/ (~disturbed /\ rcvBuf.from = dest /\ dest = dev))
  /\ Finish("SUCESS")
  /\ UNCHANGED <<dev, pend, dest, lineVars, disturbed>>

(* An exception, or a buffer that was overwritten in between.              *)
ExecuteRejects ==
  /\ PollHandles /\ got = {"EXECUTE"}
  /\ rcvBuf.kind # "answer" \/ rcv = "RCV"
  /\ pend' = pend \cup {"ERROR_PROCESS"}
  /\ UNCHANGED <<reqVars, sem, done, dest, lineVars, fresh, mixed, disturbed>>

(* Faulty: an error ends the request like a success.                       *)
HandleErrorAsSuccess ==
  /\ PollHandles
  /\ got \notin {{"FRAME_SENT"}, {"FRAME_RECEIVED"}, {"EXECUTE"}}
  /\ Finish("SUCESS")
  /\ UNCHANGED <<dev, pend, dest, lineVars, fresh, mixed, disturbed>>

(* An error event, and every combination of events, ends the request.      *)
HandleError ==
  /\ PollHandles
  /\ got \notin {{"FRAME_SENT"}, {"FRAME_RECEIVED"}, {"EXECUTE"}}
  /\ Finish("ERROR")
  /\ UNCHANGED <<dev, pend, dest, lineVars, fresh, mixed, disturbed>>

Poll ==
  \/ PollWakes \/ HandleFrameSent \/ HandleFrameReceived
  \/ ExecuteStores \/ ExecuteRejects \/ HandleError

-----------------------------------------------------------------------------
(* The line and the interrupts of the RTU layer.                           *)
(* xMBMasterRTUTransmitFSM: the frame is out, the answer is waited for.    *)
TransmitDone ==
  /\ SysRuns /\ req \in {"between", "take", "wait"}
  /\ snd = "XMIT"
  /\ snd' = "XFWR" /\ timer' = TRUE
  /\ asked' = asked \cup {sndTo} /\ sndTo' = None
  /\ UNCHANGED <<reqVars, sem, pend, done, pollVars, dest, rcv, rcvBuf, fresh, mixed,
                 disturbed>>

(* xMBMasterRTUReceiveFSM: a frame begins, or follows another so closely   *)
(* that both become one.  The receiver is off during a transmission.       *)
Receive(f) ==
  /\ snd # "XMIT"
  /\ IF rcv = "IDLE" THEN /\ rcv' = "RCV" /\ rcvBuf' = f /\ snd' = "IDLE"
                          /\ disturbed' = (disturbed \/ snd # "XFWR")
                     ELSE /\ rcvBuf' = IF rcv = "RCV" THEN Noise ELSE rcvBuf
                          /\ UNCHANGED <<rcv, snd, disturbed>>
  /\ timer' = TRUE

SlaveAnswers(d, kind) ==
  /\ d \in asked
  /\ asked' = asked \ {d}
  /\ Receive([from |-> d, kind |-> kind])
  /\ UNCHANGED <<reqVars, sem, pend, done, pollVars, dest, sndTo, fresh, mixed>>

SlaveSilent(d) ==
  /\ d \in asked
  /\ asked' = asked \ {d}
  /\ UNCHANGED <<reqVars, sem, pend, done, pollVars, dest, rcv, rcvBuf, snd, sndTo,
                 timer, fresh, mixed, disturbed>>

(* Disturbances, and late answers of the meter, which shares the line.     *)
LineNoise ==
  /\ Receive(Noise)
  /\ UNCHANGED <<reqVars, sem, pend, done, pollVars, dest, sndTo, asked, fresh, mixed>>

(* More bytes than a frame can have.                                       *)
Overrun ==
  /\ snd # "XMIT" /\ rcv = "RCV"
  /\ rcv' = "ERROR" /\ rcvBuf' = Noise
  /\ UNCHANGED <<reqVars, sem, pend, done, pollVars, dest, snd, sndTo, timer, asked,
                 fresh, mixed, disturbed>>

(* What the end of the frame or of the wait for an answer reports.         *)
TimerEvent ==
  CASE rcv = "RCV"  -> Post("FRAME_RECEIVED")
    [] rcv = "ERROR" \/ snd = "XFWR" -> Post("ERROR_PROCESS")
    [] OTHER -> UNCHANGED <<pend, pollVars>>

(* xMBMasterRTUTimerExpired.                                               *)
TimerExpired ==
  /\ timer
  /\ timer' = FALSE /\ rcv' = "IDLE" /\ snd' = "IDLE" /\ sndTo' = None
  /\ TimerEvent
  /\ UNCHANGED <<reqVars, sem, done, dest, rcvBuf, asked, fresh, mixed, disturbed>>

-----------------------------------------------------------------------------
(* Timer1S_OUT: a thread that has not come round for ten seconds is        *)
(* suspended and resumed.  Suspending a thread that waits fails; resuming  *)
(* it ends its wait without what it waits for: rt_sem_take succeeds and    *)
(* rt_event_recv returns all the events asked for.  A scan of many sensors *)
(* takes longer than that, so this can happen in every wait.               *)
(* Faulty: SysMonitor is resumed from the wait for a result only.          *)
ResumeSysMonitorInWait ==
  /\ req = "wait"
  /\ req' = "back" /\ reqGot' = Result /\ disturbed' = TRUE
  /\ UNCHANGED <<dev, sem, pend, done, pollVars, dest, lineVars, fresh, mixed>>

ResumeSysMonitor ==
  /\ req \in {"take", "wait"}
  /\ req' = IF req = "take" THEN "fill" ELSE "back"
  /\ reqGot' = IF req = "take" THEN {} ELSE Result
  /\ disturbed' = TRUE
  /\ UNCHANGED <<dev, sem, pend, done, pollVars, dest, lineVars, fresh, mixed>>

ResumePoll ==
  /\ poll = "wait"
  /\ poll' = "run" /\ got' = PollEvent
  /\ disturbed' = TRUE
  /\ UNCHANGED <<reqVars, sem, pend, done, dest, lineVars, fresh, mixed>>

Next ==
  \/ ReadHoldingRegister \/ Poll \/ TransmitDone
  \/ \E d \in Dev : \/ SlaveSilent(d)
                    \/ \E kind \in {"answer", "exception"} : SlaveAnswers(d, kind)
  \/ LineNoise \/ Overrun \/ TimerExpired
  \/ ResumeSysMonitor \/ ResumePoll

Spec == Init /\ [][Next]_vars

(* The timer runs, and a thread that is ready again and again runs.        *)
FairSpec ==
  /\ Spec
  /\ WF_vars(ResumeSysMonitor) /\ WF_vars(TimerExpired)
  /\ SF_vars(ReadHoldingRegister) /\ WF_vars(Poll) /\ SF_vars(TransmitDone)

-----------------------------------------------------------------------------
(* Every variable keeps its type.                                          *)
TypeOK ==
  /\ req \in {"between", "take", "fill", "post", "recv", "wait", "back"}
  /\ dev \in Dev \cup {None} /\ reqGot \subseteq Result /\ done \subseteq Result
  /\ sem \in 0 .. SEM_MAX
  /\ pend \subseteq PollEvent /\ got \subseteq PollEvent
  /\ poll \in {"wait", "run", "delay"}
  /\ dest \in Dev \cup {None} /\ sndTo \in Dev \cup {None}
  /\ rcv \in {"IDLE", "RCV", "ERROR"} /\ rcvBuf \in Frame \cup {Noise}
  /\ snd \in {"IDLE", "XMIT", "XFWR"} /\ timer \in BOOLEAN
  /\ asked \subseteq Dev
  /\ fresh \in BOOLEAN /\ mixed \in BOOLEAN /\ disturbed \in BOOLEAN

(* As long as no thread was resumed in a wait and no frame came unasked,   *)
(* eMBMasterReqReadHoldingRegister succeeds exactly when registers of the  *)
(* device it asks were stored since it began, although noise, exceptions,  *)
(* timeouts, late answers of other devices and combined events can end the *)
(* request.  (After a resume every result can be the one of the request    *)
(* before.)                                                                *)
ResultIsOwn ==
  (~disturbed /\ req = "back") => (reqGot = {"SUCESS"} <=> fresh)

(* Up to then what is stored for a device comes from this device, though   *)
(* the address is read again between the check of a frame and its storing. *)
RegistersOwn ==
  ~mixed

(* Up to then xMasterRunRes is free exactly when no request is open.       *)
ResourceConserved ==
  ~disturbed => (sem = IF req \in {"between", "back"} THEN 1 ELSE 0)

(* Every request returns, whatever happens on the line: the timer rescues  *)
(* SysMonitor from every wait whose event or release never comes.          *)
RequestReturns == (req # "between") ~> (req = "between")
=============================================================================
