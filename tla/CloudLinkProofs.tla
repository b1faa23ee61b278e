-------------------------- MODULE CloudLinkProofs ---------------------------
(* Proof that late replies never install a configuration section in the    *)
(* place of another, for every number of sections, alarm types and replies *)
(* on the way.                                                             *)
EXTENDS CloudLink, SequenceTheorems, WellFoundedInduction, TLAPS

(* A reply carries the section its command names.                          *)
Matching == {r \in Reply : r.upd => r.cfg.section = r.cmd}

(* The request being made.                                                 *)
JobOK == /\ job.cmd \in Cmd \union {"none"}
         /\ pc \in {"send", "wait"} => job.cmd \in Cmd

(* Both ends keep every section in its place.                              *)
CfgOK == /\ cfg \in [Section -> Cfg] /\ cloudCfg \in [Section -> Cfg]
         /\ \A s \in Section : cfg[s].section = s /\ cloudCfg[s].section = s

(* SectionMatches is inductive only with what is on the way: the replies   *)
(* in the network and in the receive buffer match their commands.          *)
SecInv ==
  /\ CfgOK /\ JobOK
  /\ net \in Seq(Matching) /\ buf \in Matching \union {NoReply}

(* A non-empty set of naturals has a minimum, and Min is it.               *)
LEMMA MinOfNaturals ==
  ASSUME NEW S \in SUBSET Nat, S # {}
  PROVE  Min(S) \in S
<1> DEFINE R == OpToRel(<, Nat)
<1>1. PICK x \in S : \A y \in S : ~(<<y, x>> \in R)
  BY NatLessThanWellFounded, WFMin
<1>2. \A y \in S : y < x => <<y, x>> \in R
  BY DEF OpToRel
<1>3. \A y \in S : x <= y
  <2> SUFFICES ASSUME NEW y \in S PROVE x <= y
    OBVIOUS
  <2>1. ~(y < x)
    BY <1>1, <1>2
  <2> QED BY <2>1
<1> QED
  BY <1>3 DEF Min

(* Every item of CommuPack_Pack is a command.                              *)
LEMMA ItemsAreCmds == \A k \in 1 .. Len(Items) : Items[k] \in Cmd
<1> SUFFICES ASSUME NEW k \in 1 .. Len(Items) PROVE Items[k] \in Cmd
  OBVIOUS
<1>1. Sections \in Seq(STRING)
  BY CloudAssumption
<1>2. /\ Len(Items) = 1 + Len(Sections) /\ Len(Sections) \in Nat
      /\ Items[k] = IF k = 1 THEN "SENSOR" ELSE Sections[k - 1]
  BY <1>1 DEF Items
<1>3. CASE k = 1
  BY <1>2, <1>3 DEF Cmd
<1>4. CASE k # 1
  <2>1. k - 1 \in 1 .. Len(Sections)
    BY <1>2, <1>4
  <2> QED BY <1>2, <1>4, <2>1 DEF Cmd, Section
<1> QED BY <1>3, <1>4

(* The controller starts with the sections in place and nothing on the way.*)
LEMMA SecInit == Init => SecInv
<1> SUFFICES ASSUME Init PROVE SecInv
  OBVIOUS
<1>1. cfg = [s \in Section |-> [section |-> s, ver |-> 0]] /\ cloudCfg = cfg
  BY DEF Init
<1>2. CfgOK
  BY <1>1, CloudAssumption DEF CfgOK, Cfg
<1>3. JobOK
  BY DEF Init, JobOK, NoJob
<1>4. net \in Seq(Matching) /\ buf \in Matching \union {NoReply}
  BY DEF Init
<1> QED
  BY <1>2, <1>3, <1>4 DEF SecInv

(* The cloud answers a request with a matching reply.                      *)
LEMMA CloudReceivesMatching ==
  ASSUME SecInv, job.cmd \in Cmd, CloudReceives
  PROVE  net' \in Seq(Matching)
<1>1. net \in Seq(Matching)
  BY DEF SecInv
<1>2. CASE job.cmd = "SENSOR"
  BY <1>1, <1>2 DEF CloudReceives
<1>3. CASE job.cmd = "ALARM"
  <2>1. [cmd |-> "ALARM", upd |-> FALSE, cfg |-> NoCfg] \in Matching
    BY DEF Matching, Reply, Cmd
  <2> QED BY <1>1, <1>3, <2>1 DEF CloudReceives
<1>4. CASE job.cmd \notin {"SENSOR", "ALARM"}
  <2>1. job.cmd \in Section
    BY <1>4 DEF Cmd
  <2>2. cloudCfg[job.cmd] \in Cfg /\ cloudCfg[job.cmd].section = job.cmd
    BY <2>1 DEF SecInv, CfgOK
  <2>3. [cmd |-> job.cmd, upd |-> TRUE, cfg |-> cloudCfg[job.cmd]] \in Matching
    BY <2>2 DEF Matching, Reply
  <2>4. [cmd |-> job.cmd, upd |-> FALSE, cfg |-> NoCfg] \in Matching
    BY DEF Matching, Reply
  <2> QED BY <1>1, <1>4, <2>3, <2>4 DEF CloudReceives
<1> QED BY <1>2, <1>3, <1>4

(* The end of a request leaves no request.                                 *)
LEMMA JobEnds == ASSUME JobDone \/ JobFailed PROVE JobOK'
  BY DEF JobDone, JobFailed, JobOK, NoJob

(* Every step of the thread, the network and the cloud keeps SecInv.       *)
LEMMA SecNext == SecInv /\ [Next]_vars => SecInv'
<1> SUFFICES ASSUME SecInv, [Next]_vars PROVE SecInv'
  OBVIOUS
<1>1. CASE GetConnectSta \/ LteInit
  BY <1>1 DEF GetConnectSta, LteInit, SecInv, CfgOK, JobOK, cfgVars
<1>2. CASE CheckFailures
  <2>1. net' \in Seq(Matching)
    <3>1. net' = <<>> \/ net' = net
      BY <1>2 DEF CheckFailures
    <3>2. <<>> \in Seq(Matching)
      OBVIOUS
    <3> QED BY <3>1, <3>2 DEF SecInv
  <2>2. JobOK'
    BY <1>2 DEF CheckFailures, SecInv, JobOK
  <2> QED BY <1>2, <2>1, <2>2 DEF CheckFailures, SecInv, CfgOK, cfgVars
<1>3. CASE AlarmProc
  BY <1>3 DEF AlarmProc, SecInv, CfgOK, JobOK, cfgVars, Cmd
<1>4. CASE CommuPack
  <2> DEFINE todo == {k \in 1 .. Len(Items) : k >= idx /\ Items[k] \in due}
  <2>1. CASE todo = {}
    BY <1>4, <2>1 DEF CommuPack, SecInv, CfgOK, JobOK, cfgVars
  <2>2. CASE todo # {}
    <3>1. Min(todo) \in todo
      <4>1. todo \in SUBSET Nat
        OBVIOUS
      <4> HIDE DEF todo
      <4> QED BY <4>1, <2>2, MinOfNaturals
    <3>2. Items[Min(todo)] \in Cmd
      BY <3>1, ItemsAreCmds
    <3>3. job'.cmd = Items[Min(todo)]
      BY <1>4, <2>2 DEF CommuPack
    <3>4. JobOK'
      BY <3>2, <3>3 DEF JobOK
    <3> QED BY <1>4, <3>4 DEF CommuPack, SecInv, CfgOK, cfgVars
  <2> QED BY <2>1, <2>2
<1>5. CASE SendAccepted
  <2>1. net' \in Seq(Matching)
    BY <1>5, CloudReceivesMatching DEF SendAccepted, SecInv, JobOK
  <2>2. JobOK'
    BY <1>5, JobEnds DEF SendAccepted, SecInv, JobOK
  <2> QED BY <1>5, <2>1, <2>2 DEF SendAccepted, SecInv, CfgOK, cfgVars
<1>6. CASE SendFailed
  <2>1. net' \in Seq(Matching)
    BY <1>6, CloudReceivesMatching DEF SendFailed, SecInv, JobOK
  <2>2. JobOK'
    BY <1>6, JobEnds DEF SendFailed
  <2> QED BY <1>6, <2>1, <2>2 DEF SendFailed, SecInv, CfgOK, cfgVars
<1>7. CASE RecvProc
  <2>1. JobOK'
    BY <1>7, JobEnds DEF RecvProc, SecInv, JobOK
  <2>2. CfgOK'
    <3>1. CASE cfg' = cfg
      BY <1>7, <3>1 DEF RecvProc, SecInv, CfgOK
    <3>2. CASE cfg' # cfg
      <4>1. /\ buf.upd /\ buf.cmd = job.cmd /\ job.cmd \in Section /\ buf # NoReply
            /\ cfg' = [cfg EXCEPT ![job.cmd] = buf.cfg]
        BY <1>7, <3>2 DEF RecvProc, Accepts
      <4>2. buf \in Matching
        BY <4>1 DEF SecInv
      <4>3. buf.cfg.section = job.cmd /\ buf.cfg \in Cfg \union {NoCfg}
        BY <4>1, <4>2 DEF Matching, Reply
      <4>4. job.cmd # "none"
        BY <4>1, CloudAssumption
      <4>5. buf.cfg \in Cfg
        BY <4>3, <4>4 DEF NoCfg
      <4> QED BY <1>7, <4>1, <4>3, <4>5 DEF RecvProc, SecInv, CfgOK
    <3> QED BY <3>1, <3>2
  <2> QED BY <1>7, <2>1, <2>2 DEF RecvProc, SecInv
<1>8. CASE RecvTimeout
  BY <1>8, JobEnds DEF RecvTimeout, SecInv, CfgOK, cfgVars
<1>9. CASE Arrive
  <2>1. net' \in Seq(Matching) /\ Head(net) \in Matching
    BY <1>9, HeadTailProperties DEF Arrive, SecInv
  <2> QED BY <1>9, <2>1 DEF Arrive, SecInv, CfgOK, JobOK, cfgVars, esimVars
<1>10. CASE LinkDrop
  BY <1>10 DEF LinkDrop, SecInv, CfgOK, JobOK, cfgVars, esimVars
<1>11. CASE TimerConSta \/ \E items : TimerUpload(items)
  BY <1>11 DEF TimerConSta, TimerUpload, SecInv, CfgOK, JobOK, cfgVars, esimVars
<1>12. CASE \E i \in EnabledTypes : AlarmChanges(i)
  BY <1>12 DEF AlarmChanges, SecInv, CfgOK, JobOK, cfgVars, esimVars
<1>13. ASSUME NEW s \in Section, CloudEdit(s) PROVE SecInv'
  <2>1. cloudCfg' = [cloudCfg EXCEPT ![s].ver = @ + 1] /\ cloudCfg[s].ver < MAX_VER
    BY <1>13 DEF CloudEdit
  <2>2. cloudCfg \in [Section -> Cfg] /\ cloudCfg[s] \in Cfg
    BY DEF SecInv, CfgOK
  <2>3. cloudCfg'[s] \in Cfg /\ cloudCfg'[s].section = s
    BY <2>1, <2>2, CloudAssumption DEF Cfg, SecInv, CfgOK
  <2>4. cloudCfg' \in [Section -> Cfg]
    BY <2>1, <2>2, <2>3
  <2>5. \A r \in Section : r # s => cloudCfg'[r] = cloudCfg[r]
    BY <2>1, <2>2
  <2>6. CfgOK'
    BY <1>13, <2>3, <2>4, <2>5 DEF CloudEdit, SecInv, CfgOK
  <2> QED BY <1>13, <2>6 DEF CloudEdit, SecInv, JobOK, esimVars
<1>14. CASE UNCHANGED vars
  BY <1>14 DEF vars, SecInv, CfgOK, JobOK, cfgVars, esimVars
<1> QED
  BY <1>1, <1>2, <1>3, <1>4, <1>5, <1>6, <1>7, <1>8, <1>9, <1>10, <1>11, <1>12, <1>13,
     <1>14 DEF Next, Esim

(* Commu_Recv_Proc never installs a section in the place of another,       *)
(* whatever late replies are in the buffer.                                *)
THEOREM SectionMatchesHolds == Spec => []SectionMatches
<1>1. SecInv => SectionMatches
  BY DEF SecInv, CfgOK, SectionMatches
<1> QED
  BY SecInit, SecNext, <1>1, PTL DEF Spec

-----------------------------------------------------------------------------
(* Types.  SecInv already says what is in the sections, the buffer and the *)
(* network; the rest is the state of the thread and of the alarms.         *)
ThreadOK ==
  /\ connect \in BOOLEAN /\ conDue \in BOOLEAN /\ link \in {"up", "down"}
  /\ failCnt \in 0 .. FAIL_MOD - 1
  /\ due \subseteq Cmd \ {"ALARM"}
  /\ pc \in {"top", "init", "check", "alarm", "pack", "send", "wait"}
  /\ idx \in Nat /\ tries \in 0 .. TRIES - 1
AlarmOK ==
  /\ alarmSta \in [AlarmType -> AlarmSta] /\ actSta \in [AlarmType -> ActSta]
  /\ cloudSta \in [AlarmType -> AlarmSta]
RequestOK ==
  /\ job \in [cmd: Cmd \union {"none"}, type: AlarmType \union {0}, sta: AlarmSta]
  /\ job.cmd = "ALARM" => job.type \in EnabledTypes

LinkInv == SecInv /\ ThreadOK /\ AlarmOK /\ RequestOK

(* Until the first connection nothing has been reported, and the first     *)
(* connection is the only one.                                             *)
Fresh ==
  ~connect =>
    /\ pc \in {"top", "init", "check"} /\ link = "down"
    /\ \A i \in AlarmType : actSta[i] = "PENDING" /\ cloudSta[i] = "NO"

Reported(i) == (actSta[i] = "DONE") = (cloudSta[i] = "OCCUR")

(* While modem and cloud answer in time, the only reply anywhere is the    *)
(* one to the request being made, so a request is never made twice, and    *)
(* the cloud differs from alarmActSta only in the alarm whose reply is     *)
(* being waited for.                                                       *)
OneReply ==
  IF pc = "wait"
  THEN \/ \E r \in Reply : net = <<r>> /\ r.cmd = job.cmd /\ buf = NoReply
       \/ net = <<>> /\ buf # NoReply /\ buf.cmd = job.cmd
  ELSE net = <<>>
InStep ==
  /\ \A i \in EnabledTypes :
       Reported(i) \/ (pc = "wait" /\ job.cmd = "ALARM" /\ job.type = i)
  /\ pc = "wait" /\ job.cmd = "ALARM" => cloudSta[job.type] = job.sta

ReportInv ==
  /\ LinkInv /\ Fresh
  /\ link = "down" => net = <<>>
  /\ Prompt /\ link = "up" => OneReply /\ InStep

LEMMA FailedTyped == ASSUME failCnt \in Nat PROVE Failed \in 0 .. FAIL_MOD - 1
<1>1. FAIL_MOD \in Nat /\ FAIL_MOD > 0
  BY CloudAssumption
<1> QED BY <1>1 DEF Failed

LEMMA FailLimits ==
  0 \in 0 .. FAIL_MOD - 1 /\ 0 \in 0 .. TRIES - 1 /\ EnabledTypes \subseteq Nat
  /\ EnabledTypes \subseteq AlarmType
BY CloudAssumption DEF AlarmType

LEMMA NoJobOK ==
  /\ NoJob \in [cmd: Cmd \union {"none"}, type: AlarmType \union {0}, sta: AlarmSta]
  /\ NoJob.cmd = "none"
BY DEF NoJob, AlarmSta

LEMMA LinkInit == Init => LinkInv
<1> SUFFICES ASSUME Init PROVE ThreadOK /\ AlarmOK /\ RequestOK
  BY SecInit DEF LinkInv
<1>1. ThreadOK
  BY FailLimits DEF Init, ThreadOK
<1>2. AlarmOK
  BY DEF Init, AlarmOK, AlarmSta, ActSta
<1>3. RequestOK
  BY NoJobOK DEF Init, RequestOK
<1> QED BY <1>1, <1>2, <1>3

(* The two outcomes of a request.                                          *)
LEMMA JobDoneTyped ==
  ASSUME LinkInv, JobDone
  PROVE  /\ failCnt' = failCnt /\ due' \subseteq due /\ idx' \in Nat /\ tries' = 0
         /\ pc' \in {"alarm", "pack"} /\ job' = NoJob
         /\ actSta' \in [AlarmType -> ActSta]
BY DEF JobDone, LinkInv, ThreadOK, AlarmOK, ActSta

LEMMA JobFailedTyped ==
  ASSUME LinkInv, JobFailed
  PROVE  /\ failCnt' \in 0 .. FAIL_MOD - 1 /\ due' = due /\ idx' = 0 /\ tries' = 0
         /\ pc' = "top" /\ job' = NoJob /\ actSta' = actSta
BY FailedTyped DEF JobFailed, LinkInv, ThreadOK

LEMMA CloudStaTyped ==
  ASSUME LinkInv, CloudReceives
  PROVE  cloudSta' \in [AlarmType -> AlarmSta]
BY DEF CloudReceives, LinkInv, AlarmOK, RequestOK

(* The next alarm and the next item are ones the list holds.               *)
LEMMA AlarmProcTyped ==
  ASSUME LinkInv, AlarmProc
  PROVE  \/ pc' = "pack" /\ idx' = 1 /\ failCnt' = 0 /\ UNCHANGED <<job, tries>>
         \/ \E i \in EnabledTypes :
              /\ idx' = i /\ job' = [cmd |-> "ALARM", type |-> i, sta |-> alarmSta[i]]
              /\ tries' = 0 /\ pc' = "send" /\ failCnt' = failCnt
<1> DEFINE todo == {i \in EnabledTypes : i >= idx /\ Unreported(i)}
<1>1. CASE todo = {}
  BY <1>1 DEF AlarmProc
<1>2. CASE todo # {}
  <2>1. Min(todo) \in EnabledTypes
    <3>1. todo \in SUBSET Nat /\ todo \subseteq EnabledTypes
      BY FailLimits
    <3> HIDE DEF todo
    <3> QED BY <1>2, <3>1, MinOfNaturals
  <2> QED BY <1>2, <2>1 DEF AlarmProc
<1> QED BY <1>1, <1>2

LEMMA CommuPackTyped ==
  ASSUME LinkInv, CommuPack
  PROVE  \/ pc' = "top" /\ idx' = 0 /\ failCnt' = 0 /\ UNCHANGED <<job, tries>>
         \/ \E k \in Nat, c \in Cmd \ {"ALARM"} :
              /\ idx' = k /\ job' = [cmd |-> c, type |-> 0, sta |-> "NO"]
              /\ tries' = 0 /\ pc' = "send" /\ failCnt' = failCnt
<1> DEFINE todo == {k \in 1 .. Len(Items) : k >= idx /\ Items[k] \in due}
<1>1. CASE todo = {}
  BY <1>1 DEF CommuPack
<1>2. CASE todo # {}
  <2>1. Min(todo) \in todo
    <3>1. todo \in SUBSET Nat
      OBVIOUS
    <3> HIDE DEF todo
    <3> QED BY <1>2, <3>1, MinOfNaturals
  <2>2. Min(todo) \in Nat /\ Items[Min(todo)] \in Cmd \ {"ALARM"}
    BY <2>1 DEF LinkInv, ThreadOK
  <2> QED BY <1>2, <2>2 DEF CommuPack
<1> QED BY <1>1, <1>2

LEMMA LinkNext == LinkInv /\ [Next]_vars => LinkInv'
<1> SUFFICES ASSUME LinkInv, [Next]_vars
             PROVE  ThreadOK' /\ AlarmOK' /\ RequestOK'
  BY SecNext DEF LinkInv
<1> USE DEF linkVars, alarmVars, cfgVars, esimVars
<1>0. Failed \in 0 .. FAIL_MOD - 1
  BY FailedTyped DEF LinkInv, ThreadOK
<1>1. CASE GetConnectSta
  BY <1>0, <1>1, FailLimits DEF GetConnectSta, LinkInv, ThreadOK, AlarmOK, RequestOK
<1>2. CASE LteInit
  BY <1>0, <1>2, FailLimits DEF LteInit, LinkInv, ThreadOK, AlarmOK, RequestOK
<1>3. CASE CheckFailures
  BY <1>3 DEF CheckFailures, LinkInv, ThreadOK, AlarmOK, RequestOK
<1>4. CASE AlarmProc
  <2>1. ThreadOK'
    BY <1>4, AlarmProcTyped, FailLimits DEF AlarmProc, LinkInv, ThreadOK
  <2>2. RequestOK'
    <3>1. \A i \in EnabledTypes : i \in AlarmType /\ alarmSta[i] \in AlarmSta
      BY FailLimits DEF LinkInv, AlarmOK
    <3> QED BY <1>4, <3>1, AlarmProcTyped DEF LinkInv, RequestOK, Cmd
  <2> QED BY <1>4, <2>1, <2>2 DEF AlarmProc, LinkInv, AlarmOK
<1>5. CASE CommuPack
  <2>1. ThreadOK'
    BY <1>5, CommuPackTyped, FailLimits DEF CommuPack, LinkInv, ThreadOK
  <2>2. RequestOK'
    BY <1>5, CommuPackTyped DEF LinkInv, RequestOK, AlarmSta
  <2> QED BY <1>5, <2>1, <2>2 DEF CommuPack, LinkInv, AlarmOK
<1>6. CASE SendAccepted
  <2>1. CASE job.cmd = "SENSOR"
    <3>1. JobDone /\ UNCHANGED <<connect, link, conDue, alarmSta>> /\ CloudReceives
      BY <1>6, <2>1 DEF SendAccepted
    <3>2. ThreadOK'
      BY <3>1, JobDoneTyped, FailLimits DEF LinkInv, ThreadOK
    <3> QED BY <3>1, <3>2, JobDoneTyped, CloudStaTyped, NoJobOK DEF LinkInv, AlarmOK, RequestOK
  <2>2. CASE job.cmd # "SENSOR"
    BY <1>6, <2>2, CloudStaTyped DEF SendAccepted, LinkInv, ThreadOK, AlarmOK, RequestOK
  <2> QED BY <2>1, <2>2
<1>7. CASE SendFailed
  <2>1. JobFailed /\ UNCHANGED <<connect, link, conDue, alarmSta>>
    BY <1>7 DEF SendFailed
  <2>2. cloudSta' \in [AlarmType -> AlarmSta]
    BY <1>7, CloudStaTyped DEF SendFailed, LinkInv, AlarmOK
  <2> QED BY <2>1, <2>2, JobFailedTyped, NoJobOK, FailLimits
          DEF LinkInv, ThreadOK, AlarmOK, RequestOK
<1>8. CASE RecvProc
  <2>1. UNCHANGED <<connect, link, conDue, alarmSta, cloudSta>>
    BY <1>8 DEF RecvProc
  <2>2. CASE JobDone
    BY <2>1, <2>2, JobDoneTyped, NoJobOK, FailLimits DEF LinkInv, ThreadOK, AlarmOK, RequestOK
  <2>3. CASE JobFailed
    BY <2>1, <2>3, JobFailedTyped, NoJobOK, FailLimits DEF LinkInv, ThreadOK, AlarmOK, RequestOK
  <2>4. CASE tries + 1 < TRIES /\ tries' = tries + 1 /\ pc' = "send"
             /\ UNCHANGED <<idx, job, failCnt, actSta, due>>
    BY <2>1, <2>4, CloudAssumption DEF LinkInv, ThreadOK, AlarmOK, RequestOK
  <2> QED BY <1>8, <2>2, <2>3, <2>4 DEF RecvProc
<1>9. CASE RecvTimeout
  <2>1. JobFailed /\ UNCHANGED <<connect, link, conDue, alarmSta, cloudSta>>
    BY <1>9 DEF RecvTimeout
  <2> QED BY <2>1, JobFailedTyped, NoJobOK, FailLimits DEF LinkInv, ThreadOK, AlarmOK, RequestOK
<1>10. CASE Arrive \/ LinkDrop \/ TimerConSta
  BY <1>10 DEF Arrive, LinkDrop, TimerConSta, LinkInv, ThreadOK, AlarmOK, RequestOK
<1>11. CASE TimerUpload({"SENSOR"}) \/ TimerUpload(Section)
  <2>1. "SENSOR" \in Cmd \ {"ALARM"} /\ Section \subseteq Cmd \ {"ALARM"}
    BY CloudAssumption DEF Cmd
  <2> QED BY <1>11, <2>1 DEF TimerUpload, LinkInv, ThreadOK, AlarmOK, RequestOK
<1>12. CASE \E i \in EnabledTypes : AlarmChanges(i)
  BY <1>12 DEF AlarmChanges, LinkInv, ThreadOK, AlarmOK, RequestOK, AlarmSta
<1>13. CASE \E s \in Section : CloudEdit(s)
  BY <1>13 DEF CloudEdit, LinkInv, ThreadOK, AlarmOK, RequestOK
<1>14. CASE UNCHANGED vars
  BY <1>14 DEF vars, LinkInv, ThreadOK, AlarmOK, RequestOK
<1> QED
  BY <1>1, <1>2, <1>3, <1>4, <1>5, <1>6, <1>7, <1>8, <1>9, <1>10, <1>11, <1>12, <1>13,
     <1>14 DEF Next, Esim

(* TypeOK, for any number of sections, alarm types, attempts and replies.  *)
THEOREM TypeCorrect == Spec => []TypeOK
<1>1. ASSUME LinkInv PROVE TypeOK
  <2>1. Matching \subseteq Reply
    BY DEF Matching
  <2>2. net \in Seq(Reply) /\ buf \in Reply \union {NoReply}
    BY <1>1, <2>1, SeqMonotonic DEF LinkInv, SecInv
  <2>3. pc \in {"send", "wait"} => job.cmd # "none"
    BY <1>1, CloudAssumption DEF LinkInv, SecInv, JobOK, Cmd
  <2> QED BY <1>1, <2>2, <2>3 DEF LinkInv, SecInv, CfgOK, ThreadOK, AlarmOK, RequestOK, TypeOK
<1> QED BY LinkInit, LinkNext, <1>1, PTL DEF Spec

-----------------------------------------------------------------------------
(* What the cloud shows.                                                   *)
LEMMA ReportInit == Init => ReportInv
<1> SUFFICES ASSUME Init PROVE Fresh /\ net = <<>> /\ link = "down"
  BY LinkInit DEF ReportInv
<1> QED BY DEF Init, Fresh

LEMMA NoReplyIsNone ==
  /\ NoReply.cmd = "none"
  /\ \A r \in Reply : r.cmd \in Cmd /\ r # NoReply
<1>1. "none" \notin Cmd
  BY CloudAssumption DEF Cmd
<1> QED BY <1>1 DEF NoReply, Reply

(* The answer to a request that was made with nothing on the way.          *)
LEMMA OneAnswer ==
  ASSUME LinkInv, job.cmd \in Cmd, job.cmd # "SENSOR", net = <<>>, CloudReceives
  PROVE  \E r \in Reply : net' = <<r>> /\ r.cmd = job.cmd
<1>1. CASE job.cmd = "ALARM"
  <2> DEFINE r == [cmd |-> "ALARM", upd |-> FALSE, cfg |-> NoCfg]
  <2>1. r \in Reply /\ r.cmd = job.cmd
    BY <1>1 DEF Reply, Cmd
  <2>2. net' = Append(net, r)
    BY <1>1 DEF CloudReceives
  <2> HIDE DEF r
  <2> QED BY <2>1, <2>2
<1>2. CASE job.cmd # "ALARM"
  <2>1. job.cmd \in Section /\ cloudCfg[job.cmd] \in Cfg
    BY <1>2 DEF Cmd, LinkInv, SecInv, CfgOK
  <2> DEFINE r == IF cfg[job.cmd] = cloudCfg[job.cmd]
                  THEN [cmd |-> job.cmd, upd |-> FALSE, cfg |-> NoCfg]
                  ELSE [cmd |-> job.cmd, upd |-> TRUE, cfg |-> cloudCfg[job.cmd]]
  <2>2. r \in Reply /\ r.cmd = job.cmd
    BY <2>1 DEF Reply
  <2>3. net' = Append(net, r)
    BY <1>2 DEF CloudReceives
  <2> HIDE DEF r
  <2> QED BY <2>2, <2>3
<1> QED BY <1>1, <1>2

(* An accepted request leaves one reply on the way and, for an alarm, the  *)
(* reported state in the cloud.                                            *)
LEMMA SendAcceptedInStep ==
  ASSUME ReportInv, LinkInv', SendAccepted
  PROVE  Fresh' /\ link' = "up" /\ (Prompt => OneReply' /\ InStep')
<1>1. /\ LinkInv /\ pc = "send" /\ link = "up" /\ link' = link /\ connect' = connect
      /\ connect = TRUE /\ job.cmd \in Cmd
  BY DEF SendAccepted, ReportInv, LinkInv, Fresh, SecInv, JobOK, ThreadOK
<1>2. Fresh'
  BY <1>1 DEF Fresh
<1> SUFFICES ASSUME Prompt PROVE OneReply' /\ InStep'
  BY <1>1, <1>2
<1>3. OneReply /\ InStep /\ net = <<>> /\ \A i \in EnabledTypes : Reported(i)
  BY <1>1 DEF ReportInv, OneReply, InStep
<1>4. CASE job.cmd = "SENSOR"
  <2>1. JobDone /\ net' = <<>> /\ cloudSta' = cloudSta /\ actSta' = actSta /\ pc' = "pack"
    BY <1>3, <1>4 DEF SendAccepted, CloudReceives, JobDone
  <2> QED BY <1>3, <2>1 DEF OneReply, InStep, Reported
<1>5. CASE job.cmd # "SENSOR"
  <2>1. /\ CloudReceives /\ pc' = "wait" /\ job' = job /\ actSta' = actSta
        /\ buf' = NoReply
    BY <1>5 DEF SendAccepted
  <2>2. OneReply'
    BY <1>1, <1>3, <1>5, <2>1, OneAnswer DEF OneReply
  <2>3. CASE job.cmd = "ALARM"
    <3>1. job.type \in EnabledTypes /\ EnabledTypes \subseteq AlarmType
      BY <1>1, <2>3, FailLimits DEF LinkInv, RequestOK
    <3>2. /\ cloudSta'[job.type] = job.sta
          /\ \A i \in EnabledTypes : i # job.type => cloudSta'[i] = cloudSta[i]
      BY <1>1, <2>1, <2>3, <3>1 DEF CloudReceives, LinkInv, AlarmOK
    <3> QED BY <1>3, <2>1, <2>2, <2>3, <3>2 DEF InStep, Reported
  <2>4. CASE job.cmd # "ALARM"
    <3>1. cloudSta' = cloudSta
      BY <2>1, <2>4 DEF CloudReceives
    <3> QED BY <1>3, <2>1, <2>2, <2>4, <3>1 DEF InStep, Reported
  <2> QED BY <2>3, <2>4
<1> QED BY <1>4, <1>5

(* The reply to an alarm makes alarmActSta what the request said, even if  *)
(* the alarm has changed since.                                            *)
LEMMA RecvProcInStep ==
  ASSUME ReportInv, RecvProc, Prompt, link = "up"
  PROVE  OneReply' /\ InStep'
<1>1. LinkInv /\ OneReply /\ InStep /\ pc = "wait" /\ buf # NoReply
  BY DEF ReportInv, RecvProc
<1>2. net = <<>> /\ Accepts(buf, job.cmd)
  BY <1>1 DEF OneReply, Accepts
<1>3. JobDone /\ net' = net /\ cloudSta' = cloudSta
  BY <1>2 DEF RecvProc
<1>4. pc' \in {"alarm", "pack"}
  BY <1>3 DEF JobDone
<1>5. OneReply'
  BY <1>2, <1>3, <1>4 DEF OneReply
<1>6. ASSUME NEW i \in EnabledTypes PROVE Reported(i)'
  <2>1. i \in AlarmType /\ actSta \in [AlarmType -> ActSta]
    BY <1>1, FailLimits DEF LinkInv, AlarmOK
  <2>2. CASE job.cmd = "ALARM" /\ job.type = i
    <3>1. cloudSta[i] = job.sta
      BY <1>1, <2>2 DEF InStep
    <3>2. actSta'[i] = IF job.sta = "OCCUR" THEN "DONE" ELSE "PENDING"
      BY <1>3, <2>1, <2>2 DEF JobDone
    <3> QED BY <1>3, <3>1, <3>2 DEF Reported
  <2>3. CASE ~(job.cmd = "ALARM" /\ job.type = i)
    <3>1. actSta'[i] = actSta[i]
      BY <1>3, <2>1, <2>3 DEF JobDone
    <3>2. Reported(i)
      BY <1>1, <2>3 DEF InStep
    <3> QED BY <1>3, <3>1, <3>2 DEF Reported
  <2> QED BY <2>2, <2>3
<1> QED BY <1>4, <1>5, <1>6 DEF InStep

(* Inside the round: the thread moves on and nothing is exchanged.         *)
LEMMA RoundInStep ==
  ASSUME ReportInv, pc # "wait", pc' # "wait", connect \/ pc' \in {"top", "init", "check"},
         UNCHANGED <<connect, link, net, buf, actSta, cloudSta>>
  PROVE  /\ Fresh' /\ (link' = "down" => net' = <<>>)
         /\ Prompt /\ link' = "up" => OneReply' /\ InStep'
BY DEF ReportInv, Fresh, OneReply, InStep, Reported

LEMMA QuietInStep ==
  ASSUME ReportInv, UNCHANGED <<connect, link, net, buf, pc, job, actSta, cloudSta>>
  PROVE  /\ Fresh' /\ (link' = "down" => net' = <<>>)
         /\ Prompt /\ link' = "up" => OneReply' /\ InStep'
BY DEF ReportInv, Fresh, OneReply, InStep, Reported

LEMMA ReportNext == ReportInv /\ [Next]_vars => ReportInv'
<1> SUFFICES ASSUME ReportInv, [Next]_vars
             PROVE  /\ Fresh' /\ (link' = "down" => net' = <<>>)
                    /\ Prompt /\ link' = "up" => OneReply' /\ InStep'
  BY LinkNext DEF ReportInv
<1>a. LinkInv /\ LinkInv' /\ connect \in BOOLEAN /\ link \in {"up", "down"} /\ net \in Seq(Matching)
  BY LinkNext DEF ReportInv, LinkInv, ThreadOK, SecInv
<1>b. pc \notin {"top", "init", "check"} => connect
  BY DEF ReportInv, Fresh
<1> USE DEF linkVars, alarmVars, cfgVars, esimVars
<1>1. CASE GetConnectSta
  BY <1>1, RoundInStep DEF GetConnectSta
<1>2. CASE LteInit
  <2>1. CASE link' = link /\ connect' = connect
    BY <1>2, <2>1, RoundInStep DEF LteInit
  <2>2. CASE ~connect /\ connect' = TRUE /\ link' = "up"
    <3>1. net = <<>> /\ \A i \in EnabledTypes : Reported(i)
      BY <2>2, FailLimits DEF ReportInv, Fresh, Reported
    <3>2. net' = net /\ pc' = "check" /\ UNCHANGED <<actSta, cloudSta>>
      BY <1>2 DEF LteInit
    <3> QED BY <2>2, <3>1, <3>2 DEF Fresh, OneReply, InStep, Reported
  <2> QED BY <1>2, <2>1, <2>2 DEF LteInit
<1>3. CASE CheckFailures
  <2>1. CASE link' = "down" /\ net' = <<>>
    BY <1>3, <2>1 DEF CheckFailures, ReportInv, Fresh
  <2>2. CASE UNCHANGED <<link, net>> /\ failCnt < MAX_FAIL
    <3>1. pc' = IF connect THEN "alarm" ELSE "top"
      BY <1>3, <2>2, CloudAssumption DEF CheckFailures, LinkInv, ThreadOK, ReportInv
    <3> QED BY <1>3, <2>2, <3>1, RoundInStep DEF CheckFailures
  <2> QED BY <1>3, <2>1, <2>2 DEF CheckFailures
<1>4. CASE AlarmProc
  <2>1. pc' # "wait"
    BY <1>4 DEF AlarmProc
  <2> QED BY <1>4, <1>b, <2>1, RoundInStep DEF AlarmProc
<1>5. CASE CommuPack
  <2>1. pc' # "wait"
    BY <1>5 DEF CommuPack
  <2> QED BY <1>5, <1>b, <2>1, RoundInStep DEF CommuPack
<1>6. CASE SendAccepted
  BY <1>6, <1>a, SendAcceptedInStep
<1>7. CASE SendFailed
  <2>1. /\ pc = "send" /\ pc' = "top" /\ connect /\ UNCHANGED <<connect, link, actSta>>
        /\ link = "up" \/ net' = net
    BY <1>7, <1>b DEF SendFailed, JobFailed
  <2>2. Fresh' /\ (link' = "down" => net' = <<>>)
    BY <2>1 DEF Fresh, ReportInv
  <2>3. CASE Prompt
    BY <1>7, <2>1, <2>2, <2>3 DEF SendFailed, ReportInv, OneReply, InStep, Reported
  <2> QED BY <2>2, <2>3
<1>8. CASE RecvProc
  <2>1. pc = "wait" /\ connect /\ UNCHANGED <<connect, link, net>>
    BY <1>8, <1>b DEF RecvProc
  <2>2. Fresh' /\ (link' = "down" => net' = <<>>)
    BY <2>1 DEF Fresh, ReportInv
  <2> QED BY <1>8, <2>1, <2>2, RecvProcInStep
<1>9. CASE RecvTimeout
  <2>1. /\ pc = "wait" /\ connect /\ UNCHANGED <<connect, link, net>>
        /\ buf = NoReply /\ (Prompt => net = <<>>)
    BY <1>9, <1>b DEF RecvTimeout
  <2>2. Fresh' /\ (link' = "down" => net' = <<>>)
    BY <2>1 DEF Fresh, ReportInv
  <2>3. ~(Prompt /\ link = "up")
    <3> SUFFICES ASSUME Prompt, link = "up" PROVE FALSE
      OBVIOUS
    <3>1. OneReply
      BY DEF ReportInv
    <3>2. PICK r \in Reply : net = <<r>>
      BY <2>1, <3>1 DEF OneReply
    <3> QED BY <2>1, <3>2
  <2> QED BY <2>1, <2>2, <2>3
<1>10. CASE Arrive
  <2>1. net # <<>> /\ net' = Tail(net) /\ UNCHANGED <<connect, link, pc, job, actSta, cloudSta>>
    BY <1>10 DEF Arrive
  <2>2. Fresh' /\ link' = "up"
    BY <1>a, <2>1 DEF Fresh, ReportInv
  <2>3. CASE Prompt
    <3>1. OneReply /\ InStep /\ pc = "wait"
      BY <2>1, <2>2, <2>3 DEF ReportInv, OneReply
    <3>2. PICK r \in Reply : net = <<r>> /\ r.cmd = job.cmd /\ buf = NoReply
      BY <2>1, <3>1 DEF OneReply
    <3>3. net' = <<>> /\ buf' = r /\ r # NoReply
      BY <1>10, <2>1, <3>2, NoReplyIsNone DEF Arrive
    <3> QED BY <2>1, <2>2, <3>1, <3>2, <3>3 DEF OneReply, InStep, Reported
  <2> QED BY <2>2, <2>3
<1>11. CASE LinkDrop
  BY <1>11, <1>a DEF LinkDrop, ReportInv, Fresh
<1>12. CASE TimerConSta \/ TimerUpload({"SENSOR"}) \/ TimerUpload(Section)
  BY <1>12, QuietInStep DEF TimerConSta, TimerUpload
<1>13. CASE \E i \in EnabledTypes : AlarmChanges(i)
  BY <1>13, QuietInStep DEF AlarmChanges
<1>14. CASE \E s \in Section : CloudEdit(s)
  BY <1>14, QuietInStep DEF CloudEdit
<1>15. CASE UNCHANGED vars
  BY <1>15, QuietInStep DEF vars
<1> QED
  BY <1>1, <1>2, <1>3, <1>4, <1>5, <1>6, <1>7, <1>8, <1>9, <1>10, <1>11, <1>12, <1>13,
     <1>14, <1>15 DEF Next, Esim

(* ActStaIsReported: while modem and cloud answer within the code's waits   *)
(* and the connection lasts, alarmActSta says what the cloud shows, for any *)
(* number of alarm types that change at any moment of the upload.           *)
THEOREM ActStaIsReportedHolds == Spec => []ActStaIsReported
<1>1. ReportInv => ActStaIsReported
  BY DEF ReportInv, InStep, Reported, ActStaIsReported
<1> QED BY ReportInit, ReportNext, <1>1, PTL DEF Spec
=============================================================================
