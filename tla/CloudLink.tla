----------------------------- MODULE CloudLink ------------------------------
(***************************************************************************)
(* The eSim thread: thread_entry_eSim keeps the TCP connection of the LTE  *)
(* modem, reports alarms (Commu_Alarm_Proc), uploads sensor data and       *)
(* synchronises the configuration sections (CommuPack_Pack) with one       *)
(* request and one reply at a time (Commu_test, Commu_Recv_Proc).          *)
(*                                                                         *)
(* The thread has the highest priority: other threads run only while it    *)
(* sleeps in the wait of an AT command or of a reply, so a step here is    *)
(* what the thread does between two sleeps.  The cloud and the network are *)
(* modelled from how the code uses them: TCP keeps replies in order, and a *)
(* broken connection loses everything on the way.                          *)
(***************************************************************************)
EXTENDS Integers, Sequences, FiniteSetsExt

CONSTANTS
  ALARM_TYPE_MAX,  \* alarm types (5 in the code)
  EnabledTypes,    \* alarm types enabled in m_Controler_Alarm_Cfg_t
  Sections,        \* the configuration sections, in the order of CommuPack_Pack
  FAIL_MOD,        \* range of commuFailCnt (2^8: uint8_t)
  TRIES,           \* attempts of Commu_test (3)
  MAX_FAIL,        \* failures before LTE_Close_Net (3)
  MAX_VER,         \* bound: edits of a section in the cloud
  MAX_REPLIES,     \* bound: replies on the way
  Prompt           \* whether modem and cloud answer within the code's waits

AlarmType == 0 .. ALARM_TYPE_MAX - 1
Section == {Sections[k] : k \in 1 .. Len(Sections)}
Items == <<"SENSOR">> \o Sections
Cmd == {"ALARM", "SENSOR"} \union Section

ASSUME CloudAssumption ==
  /\ ALARM_TYPE_MAX \in Nat /\ EnabledTypes \subseteq AlarmType
  /\ Sections \in Seq(STRING) /\ {"ALARM", "SENSOR", "none"} \cap Section = {}
  /\ FAIL_MOD \in Nat /\ FAIL_MOD > MAX_FAIL
  /\ TRIES \in Nat \ {0} /\ MAX_FAIL \in Nat \ {0}
  /\ MAX_VER \in Nat /\ MAX_REPLIES \in Nat /\ Prompt \in BOOLEAN

AlarmSta == {"NO", "OCCUR"}
ActSta == {"PENDING", "DONE"}
Cfg == [section: Section, ver: 0 .. MAX_VER]
NoCfg == [section |-> "none", ver |-> 0]

(* A reply: the command it answers and, for a section that differs, the    *)
(* configuration of the cloud (recvBuf[12] = 1).                           *)
Reply == [cmd: Cmd, upd: BOOLEAN, cfg: Cfg \union {NoCfg}]
NoReply == [cmd |-> "none", upd |-> FALSE, cfg |-> NoCfg]

VARIABLES
  connect,   \* m_Is_LTE_Connect
  failCnt,   \* commuFailCnt
  conDue,    \* FLAGS_LTE_GET_CON_STA_10S
  due,       \* m_CommuEn_T: the items whose upload is due
  alarmSta, actSta,
             \* m_Alarm_Proc_t: alarmSta and alarmActSta of every type
  cfg,       \* m_Controler_Ctrl_Cfg_t, section by section
  pc, idx,   \* position in the loop and in the list being worked through
  job,       \* the request of Commu_test: command, alarm type and state
  tries,     \* attempts made
  buf,       \* LTE_RecvBuffer: the first reply in it
  link,      \* the TCP connection of the modem
  net,       \* replies on the way
  cloudSta, cloudCfg
             \* what the cloud believes and wants

esimVars == <<pc, idx, job, tries>>
linkVars == <<connect, failCnt, link>>
alarmVars == <<alarmSta, actSta, cloudSta>>
cfgVars == <<cfg, cloudCfg>>
vars == <<linkVars, conDue, due, alarmVars, cfgVars, esimVars, buf, net>>

NoJob == [cmd |-> "none", type |-> 0, sta |-> "NO"]

Init ==
  /\ connect = FALSE /\ failCnt = 0 /\ conDue = FALSE
  /\ due = {}
  /\ alarmSta = [i \in AlarmType |-> "NO"] /\ actSta = [i \in AlarmType |-> "PENDING"]
  /\ cfg = [s \in Section |-> [section |-> s, ver |-> 0]]
  /\ pc = "top" /\ idx = 0 /\ job = NoJob /\ tries = 0
  /\ buf = NoReply
  /\ link = "down" /\ net = <<>>
  /\ cloudSta = [i \in AlarmType |-> "NO"] /\ cloudCfg = cfg

(* commuFailCnt++ on a uint8_t.  (FailedNoWrap is faulty: it never wraps.) *)
FailedNoWrap == failCnt + 1
Failed == (failCnt + 1) % FAIL_MOD

-----------------------------------------------------------------------------
(* One round of the thread.                                                *)

(* AT+CIPSTATUS every eleven seconds.                                      *)
GetConnectSta ==
  /\ pc = "top"
  /\ conDue' = FALSE
  /\ \/ ~conDue /\ UNCHANGED failCnt
     \/ conDue /\ link = "up" /\ failCnt' = 0
     \/ conDue /\ (Prompt => link = "down") /\ failCnt' = Failed
  /\ pc' = "init"
  /\ UNCHANGED <<connect, link, due, alarmVars, cfgVars, idx, job, tries, buf, net>>

(* LTE_Init, the chain of AT commands that ends in CIPSTART, is run only   *)
(* until the first connection.                                             *)
LteInit ==
  /\ pc = "init"
  /\ \/ connect /\ UNCHANGED linkVars
     \/ ~connect /\ connect' = TRUE /\ failCnt' = 0 /\ link' = "up"
     \/ ~connect /\ failCnt' = Failed /\ UNCHANGED <<connect, link>>
  /\ pc' = "check"
  /\ UNCHANGED <<conDue, due, alarmVars, cfgVars, idx, job, tries, buf, net>>

(* Three failures close the connection (LTE_Close_Net) and start over.     *)
(* The test for five failures and its LTE_Reboot come after this one and   *)
(* are never reached.                                                      *)
CheckFailures ==
  /\ pc = "check"
  /\ \/ /\ failCnt >= MAX_FAIL
        /\ link' = "down" /\ net' = <<>>
        /\ pc' = "top"
     \/ /\ failCnt < MAX_FAIL
        /\ pc' = IF connect THEN "alarm" ELSE "top"
        /\ UNCHANGED <<link, net>>
  /\ idx' = 0
  /\ UNCHANGED <<connect, failCnt, conDue, due, alarmVars, cfgVars, job, tries, buf>>

(* Commu_Alarm_Proc: the next type with something to report.               *)
Unreported(i) ==
  \/ alarmSta[i] = "OCCUR" /\ actSta[i] = "PENDING"
  \/ alarmSta[i] = "NO" /\ actSta[i] = "DONE"
AlarmProc ==
  /\ pc = "alarm"
  /\ LET todo == {i \in EnabledTypes : i >= idx /\ Unreported(i)} IN
     \/ /\ todo = {}
        /\ failCnt' = 0 /\ pc' = "pack" /\ idx' = 1
        /\ UNCHANGED <<job, tries>>
     \/ /\ todo # {}
        /\ idx' = Min(todo)
        /\ job' = [cmd |-> "ALARM", type |-> Min(todo), sta |-> alarmSta[Min(todo)]]
        /\ tries' = 0 /\ pc' = "send"
        /\ UNCHANGED failCnt
  /\ UNCHANGED <<connect, link, conDue, due, alarmVars, cfgVars, buf, net>>

(* Faulty: every item starts the list again.                               *)
CommuPackRestart ==
  /\ pc = "pack"
  /\ LET todo == {k \in 1 .. Len(Items) : Items[k] \in due} IN
     \/ /\ todo = {}
        /\ failCnt' = 0 /\ pc' = "top" /\ idx' = 0
        /\ UNCHANGED <<job, tries>>
     \/ /\ todo # {}
        /\ idx' = Min(todo)
        /\ job' = [cmd |-> Items[Min(todo)], type |-> 0, sta |-> "NO"]
        /\ tries' = 0 /\ pc' = "send"
        /\ UNCHANGED failCnt
  /\ UNCHANGED <<connect, link, conDue, due, alarmVars, cfgVars, buf, net>>

(* CommuPack_Pack: the next item that is due, in the order of its tests.   *)
CommuPack ==
  /\ pc = "pack"
  /\ LET todo == {k \in 1 .. Len(Items) : k >= idx /\ Items[k] \in due} IN
     \/ /\ todo = {}
        /\ failCnt' = 0 /\ pc' = "top" /\ idx' = 0
        /\ UNCHANGED <<job, tries>>
     \/ /\ todo # {}
        /\ idx' = Min(todo)
        /\ job' = [cmd |-> Items[Min(todo)], type |-> 0, sta |-> "NO"]
        /\ tries' = 0 /\ pc' = "send"
        /\ UNCHANGED failCnt
  /\ UNCHANGED <<connect, link, conDue, due, alarmVars, cfgVars, buf, net>>

-----------------------------------------------------------------------------
(* Commu_test.                                                             *)

(* Faulty: the state at the end of the wait is taken for the reported one. *)
JobDoneReread ==
  /\ IF job.cmd = "ALARM"
     THEN /\ actSta' = [actSta EXCEPT ![job.type] =
                          IF alarmSta[job.type] = "OCCUR" THEN "DONE" ELSE "PENDING"]
          /\ pc' = "alarm" /\ UNCHANGED due
     ELSE due' = due \ {job.cmd} /\ pc' = "pack" /\ UNCHANGED actSta
  /\ idx' = idx + 1 /\ job' = NoJob /\ tries' = 0
  /\ UNCHANGED failCnt

(* The outcome of a request for Commu_Alarm_Proc or CommuPack_Pack.        *)
JobDone ==
  /\ IF job.cmd = "ALARM"
     THEN /\ actSta' = [actSta EXCEPT ![job.type] =
                          IF job.sta = "OCCUR" THEN "DONE" ELSE "PENDING"]
          /\ pc' = "alarm" /\ UNCHANGED due
     ELSE due' = due \ {job.cmd} /\ pc' = "pack" /\ UNCHANGED actSta
  /\ idx' = idx + 1 /\ job' = NoJob /\ tries' = 0
  /\ UNCHANGED failCnt

JobFailed ==
  /\ failCnt' = Failed /\ pc' = "top"
  /\ idx' = 0 /\ job' = NoJob /\ tries' = 0
  /\ UNCHANGED <<actSta, due>>

(* What the cloud does with a request: it notes the state of an alarm, and *)
(* answers a section with its own when the two differ.                     *)
CloudReceives ==
  /\ cloudSta' = IF job.cmd = "ALARM" THEN [cloudSta EXCEPT ![job.type] = job.sta]
                 ELSE cloudSta
  /\ net' = CASE job.cmd = "SENSOR" -> net
              [] job.cmd = "ALARM" ->
                   Append(net, [cmd |-> "ALARM", upd |-> FALSE, cfg |-> NoCfg])
              [] OTHER ->
                   Append(net, IF cfg[job.cmd] = cloudCfg[job.cmd]
                               THEN [cmd |-> job.cmd, upd |-> FALSE, cfg |-> NoCfg]
                               ELSE [cmd |-> job.cmd, upd |-> TRUE,
                                     cfg |-> cloudCfg[job.cmd]])

(* LTE_SendDataToWeb clears the receive buffer and waits for DATA ACCEPT;  *)
(* a sensor upload is not answered.                                        *)
SendAccepted ==
  /\ pc = "send" /\ link = "up" /\ Len(net) < MAX_REPLIES
  /\ buf' = NoReply
  /\ CloudReceives
  /\ IF job.cmd = "SENSOR" THEN JobDone
     ELSE pc' = "wait" /\ UNCHANGED <<idx, job, tries, failCnt, actSta, due>>
  /\ UNCHANGED <<connect, link, conDue, alarmSta, cfgVars>>

(* No prompt, or DATA ACCEPT was missed although the data went out.        *)
SendFailed ==
  /\ pc = "send"
  /\ buf' = NoReply
  /\ \/ UNCHANGED <<cloudSta, net>>
     \/ ~Prompt /\ link = "up" /\ Len(net) < MAX_REPLIES /\ CloudReceives
  /\ JobFailed
  /\ UNCHANGED <<connect, link, conDue, alarmSta, cfgVars>>

(* A reply reaches the receive buffer, whatever the thread is doing.       *)
Arrive ==
  /\ net # <<>>
  /\ net' = Tail(net)
  /\ buf' = IF buf = NoReply THEN Head(net) ELSE buf
  /\ UNCHANGED <<linkVars, conDue, due, alarmVars, cfgVars, esimVars>>

(* Faulty: Commu_Recv_Proc does not compare the command.                   *)
AcceptsAny(reply, cmd) == TRUE
(* Commu_Recv_Proc: only a reply to the same command is accepted.          *)
Accepts(reply, cmd) == reply.cmd = cmd

(* findByte found the start of a packet: it is installed, or the request   *)
(* is repeated when it answers another command or is still incomplete.     *)
RecvProc ==
  /\ pc = "wait" /\ buf # NoReply
  /\ \/ /\ Accepts(buf, job.cmd)
        /\ cfg' = IF buf.upd /\ job.cmd \in Section
                  THEN [cfg EXCEPT ![job.cmd] = buf.cfg] ELSE cfg
        /\ JobDone
     \/ /\ Prompt => ~Accepts(buf, job.cmd)
        /\ IF tries + 1 < TRIES
           THEN /\ tries' = tries + 1 /\ pc' = "send"
                /\ UNCHANGED <<idx, job, failCnt, actSta, due>>
           ELSE JobFailed
        /\ UNCHANGED cfg
  /\ UNCHANGED <<connect, link, conDue, alarmSta, cloudSta, cloudCfg, buf, net>>

(* findByte gives up after three seconds.                                  *)
RecvTimeout ==
  /\ pc = "wait" /\ buf = NoReply
  /\ Prompt => net = <<>>
  /\ JobFailed
  /\ UNCHANGED <<connect, link, conDue, alarmSta, cloudSta, cfgVars, buf, net>>

Esim == GetConnectSta \/ LteInit \/ CheckFailures \/ AlarmProc \/ CommuPack
        \/ SendAccepted \/ SendFailed \/ RecvProc \/ RecvTimeout

-----------------------------------------------------------------------------
(* The other threads, the interrupt, the network and the cloud.            *)

(* DevRun raises or clears an alarm while the thread sleeps.               *)
AlarmChanges(i) ==
  /\ pc \in {"top", "init", "send", "wait"}
  /\ alarmSta' = [alarmSta EXCEPT ![i] = IF @ = "NO" THEN "OCCUR" ELSE "NO"]
  /\ UNCHANGED <<linkVars, conDue, due, actSta, cloudSta, cfgVars, esimVars, buf, net>>

(* Timer1S_OUT sets the flags of the periodic work.                        *)
TimerUpload(items) ==
  /\ ~(items \subseteq due)
  /\ due' = due \union items
  /\ UNCHANGED <<linkVars, conDue, alarmVars, cfgVars, esimVars, buf, net>>
TimerConSta ==
  /\ ~conDue /\ conDue' = TRUE
  /\ UNCHANGED <<linkVars, due, alarmVars, cfgVars, esimVars, buf, net>>

LinkDrop ==
  /\ link = "up"
  /\ link' = "down" /\ net' = <<>>
  /\ UNCHANGED <<connect, failCnt, conDue, due, alarmVars, cfgVars, esimVars, buf>>

CloudEdit(s) ==
  /\ cloudCfg[s].ver < MAX_VER
  /\ cloudCfg' = [cloudCfg EXCEPT ![s].ver = @ + 1]
  /\ UNCHANGED <<linkVars, conDue, due, alarmVars, cfg, esimVars, buf, net>>

Next ==
  \/ Esim \/ Arrive \/ LinkDrop
  \/ TimerUpload({"SENSOR"}) \/ TimerUpload(Section) \/ TimerConSta
  \/ \E i \in EnabledTypes : AlarmChanges(i)
  \/ \E s \in Section : CloudEdit(s)

Spec == Init /\ [][Next]_vars

(* The thread runs whenever its wait is over and the timer keeps firing.   *)
(* The network is not hopeless: it connects, accepts and answers some of   *)
(* the requests that are tried again and again.                            *)
Accepted(c) == job.cmd = c /\ SendAccepted
ArriveInTime(c) == pc = "wait" /\ job.cmd = c /\ Arrive
LteInitOk == LteInit /\ ~connect /\ connect'
Fairness ==
  /\ WF_vars(Esim) /\ WF_vars(Arrive)
  /\ WF_vars(TimerUpload({"SENSOR"})) /\ WF_vars(TimerUpload(Section)) /\ WF_vars(TimerConSta)
  /\ SF_vars(LteInitOk)
  /\ \A c \in Cmd : SF_vars(Accepted(c)) /\ SF_vars(ArriveInTime(c))

FairSpec == Spec /\ Fairness

-----------------------------------------------------------------------------
(* The widths of the C types and the shape of a request.                   *)
TypeOK ==
  /\ connect \in BOOLEAN /\ conDue \in BOOLEAN
  /\ failCnt \in 0 .. FAIL_MOD - 1
  /\ due \subseteq Cmd \ {"ALARM"}
  /\ alarmSta \in [AlarmType -> AlarmSta] /\ actSta \in [AlarmType -> ActSta]
  /\ cfg \in [Section -> Cfg] /\ cloudCfg \in [Section -> Cfg]
  /\ pc \in {"top", "init", "check", "alarm", "pack", "send", "wait"}
  /\ idx \in Nat /\ tries \in 0 .. TRIES - 1
  /\ job \in [cmd: Cmd \union {"none"}, type: AlarmType \union {0}, sta: AlarmSta]
  /\ pc \in {"send", "wait"} => job.cmd # "none"
  /\ buf \in Reply \union {NoReply}
  /\ link \in {"up", "down"} /\ net \in Seq(Reply)
  /\ cloudSta \in [AlarmType -> AlarmSta]

(* A section is only ever replaced by a version of the same section, with  *)
(* late replies to other commands in the buffer (Commu_Recv_Proc).         *)
SectionMatches == \A s \in Section : cfg[s].section = s

(* alarmActSta says what the cloud knows: outside the upload of its type,  *)
(* DONE means the cloud shows the alarm and PENDING that it does not,      *)
(* although the alarm may change during the upload.  (When modem and cloud *)
(* answer within the waits, as long as the connection lasts.)              *)
ActStaIsReported ==
  Prompt /\ link = "up" =>
    \A i \in EnabledTypes :
      \/ job.cmd = "ALARM" /\ job.type = i
      \/ (actSta[i] = "DONE") = (cloudSta[i] = "OCCUR")

(* An alarm that lasts reaches the cloud, as long as the connection lasts. *)
AlarmReported ==
  \A i \in EnabledTypes :
    alarmSta[i] = "OCCUR" ~> cloudSta[i] = "OCCUR" \/ alarmSta[i] = "NO" \/ link = "down"

(* The controller takes over the configuration of the cloud, as long as    *)
(* the connection lasts: neither alarms, nor failed requests, nor the data *)
(* uploads that fall due meanwhile starve a section.                       *)
CfgConverges ==
  \A s \in Section : cfg[s] # cloudCfg[s] ~> cfg[s] = cloudCfg[s] \/ link = "down"

(* lte720.c:291 calls LTE_Close_Net "restart the TCP connection": a lost   *)
(* connection is set up again.                                             *)
LinkRecovers == link = "down" ~> link = "up"
=============================================================================
