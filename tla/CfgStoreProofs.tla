--------------------------- MODULE CfgStoreProofs ---------------------------
(***************************************************************************)
(* The configuration store, for any contents, any save times and any       *)
(* number of installs and faults.                                          *)
(***************************************************************************)
EXTENDS CfgStore, TLAPS

BlankTime == [i \in 1..6 |-> 255]

(* A Flash_Write under way: the sections still to be programmed are        *)
(* sections of its page, each once, and their times are still erased.      *)
Programming == job.op = "program"
TodoOK ==
  Programming =>
    /\ Len(job.todo) >= 1
    /\ \A i \in 1 .. Len(job.todo) : job.todo[i] \in SectionsOf(job.page)
    /\ \A i, j \in 1 .. Len(job.todo) : i # j => job.todo[i] # job.todo[j]

TodoErased ==
  Programming =>
    /\ \A i \in 1 .. Len(job.todo) : flash[job.todo[i]].saveTime = BlankTime
    /\ job.half => flash[Head(job.todo)].body = ram[Head(job.todo)].body

(* The clock was read before anything is loaded.                           *)
ClockRead == bootAt # 0 => rtcTime \in RTC_TIMES

(* A write that has not erased its page yet has not programmed anything.   *)
EraseWhole == job.op # "program" => job.half = FALSE

WriteInv == TypeOK /\ TodoOK /\ TodoErased /\ ClockRead /\ EraseWhole

-----------------------------------------------------------------------------
(* Facts about pages, times and values.                                    *)
LEMMA PageSections ==
  /\ \A p \in Page : SectionsOf(p) \subseteq Section
  /\ SectionsOf("CTRL") = CtrlSection
  /\ \A p \in Page : p # "CTRL" => SectionsOf(p) \cap CtrlSection = {}
BY DEF Page, SectionsOf, Section, CtrlSection

LEMMA OrderOfPage ==
  ASSUME NEW p \in Page
  PROVE  /\ Order(p) \in Seq(Section)
         /\ Len(Order(p)) >= 1
         /\ \A i \in 1 .. Len(Order(p)) : Order(p)[i] \in SectionsOf(p)
         /\ \A i, j \in 1 .. Len(Order(p)) : i # j => Order(p)[i] # Order(p)[j]
         /\ \A s \in SectionsOf(p) : \E i \in 1 .. Len(Order(p)) : Order(p)[i] = s
<1>1. CASE p = "DEV"
  BY <1>1 DEF Order, SectionsOf, Section, CtrlSection
<1>2. CASE p = "CTRL"
  BY <1>2 DEF Order, CtrlOrder, SectionsOf, Section, CtrlSection
<1>3. CASE p = "ALARM"
  BY <1>3 DEF Order, SectionsOf, Section, CtrlSection
<1>4. CASE p = "ROOM"
  BY <1>4 DEF Order, SectionsOf, Section, CtrlSection
<1> QED BY <1>1, <1>2, <1>3, <1>4 DEF Page

LEMMA BlankRejected == ~Verify_RtcTime(BlankTime) /\ Blank.saveTime = BlankTime
BY DEF Verify_RtcTime, BlankTime, Blank

LEMMA TimesTyped == BlankTime \in Time /\ NoTime \in Time
BY DEF BlankTime, NoTime, Time

LEMMA DefaultTyped ==
  ASSUME NEW s, NEW rtc \in Time
  PROVE  Default(s, rtc) \in Value
<1>1. DefaultTime(s, rtc) \in Time
  BY DEF DefaultTime, Time
<1> QED BY <1>1 DEF Default, Value

LEMMA BlankTyped == Blank \in Value /\ Zero \in Value
BY TimesTyped DEF Blank, Zero, Value, BlankTime

-----------------------------------------------------------------------------
(* The write under way.                                                    *)
JobType == [op : {"none", "erase", "program"}, page : Page,
            todo : Seq(Section), half : BOOLEAN]

LEMMA JobsTyped ==
  /\ NoJob \in JobType /\ NoJob.op = "none" /\ NoJob.half = FALSE
  /\ \A p \in Page : /\ StartWrite(p) \in JobType
                     /\ StartWrite(p).op = "erase" /\ StartWrite(p).page = p
                     /\ StartWrite(p).half = FALSE
BY DEF NoJob, JobType, StartWrite, Page

LEMMA WriteInit == Init => WriteInv
<1> SUFFICES ASSUME Init PROVE WriteInv
  OBVIOUS
<1>1. TypeOK
  BY CfgAssumption, BlankTyped, JobsTyped DEF Init, TypeOK, JobType
<1>2. TodoOK /\ TodoErased /\ ClockRead /\ EraseWhole
  BY JobsTyped DEF Init, TodoOK, TodoErased, Programming, ClockRead, EraseWhole
<1> QED BY <1>1, <1>2 DEF WriteInv

(* A step that leaves no write programming keeps the facts about it.       *)
LEMMA NotProgramming ==
  ASSUME job'.op # "program"
  PROVE  TodoOK' /\ TodoErased'
BY DEF TodoOK, TodoErased, Programming

LEMMA LoadedTyped ==
  ASSUME WriteInv, bootAt # 0, NEW s \in Section
  PROVE  Loaded(s) \in Value
<1>1. flash[s] \in Value /\ rtcTime \in Time
  BY CfgAssumption DEF WriteInv, TypeOK, ClockRead
<1> QED BY <1>1, DefaultTyped DEF Loaded

LEMMA WriteDoneInv ==
  ASSUME WriteInv, WriteDone
  PROVE  /\ job' = NoJob /\ job' \in JobType /\ job'.op = "none" /\ job'.half = FALSE
         /\ bootAt' \in 0..5 /\ (bootAt' = 0 <=> bootAt = 0)
BY JobsTyped DEF WriteDone, WriteInv, TypeOK

(* The first section to be programmed and what is left after it.           *)
LEMMA TodoHead ==
  ASSUME WriteInv, Programming
  PROVE  /\ job.todo \in Seq(Section) /\ job.page \in Page
         /\ Head(job.todo) = job.todo[1] /\ Head(job.todo) \in Section
         /\ Head(job.todo) \in SectionsOf(job.page)
         /\ flash[Head(job.todo)].saveTime = BlankTime
         /\ Tail(job.todo) \in Seq(Section) /\ Len(Tail(job.todo)) = Len(job.todo) - 1
         /\ \A i \in 1 .. Len(Tail(job.todo)) :
              Tail(job.todo)[i] = job.todo[i + 1] /\ Tail(job.todo)[i] # Head(job.todo)
<1>1. job.todo \in Seq(Section) /\ job.page \in Page
  BY DEF WriteInv, TypeOK
<1>2. Len(job.todo) \in Nat /\ Len(job.todo) >= 1
  BY <1>1 DEF WriteInv, TodoOK
<1>3. Head(job.todo) = job.todo[1]
  BY <1>1, <1>2
<1>4. /\ Tail(job.todo) \in Seq(Section) /\ Len(Tail(job.todo)) = Len(job.todo) - 1
      /\ \A i \in 1 .. Len(Tail(job.todo)) : Tail(job.todo)[i] = job.todo[i + 1]
  BY <1>1, <1>2
<1>5. Head(job.todo) \in SectionsOf(job.page) /\ flash[Head(job.todo)].saveTime = BlankTime
  BY <1>2, <1>3 DEF WriteInv, TodoOK, TodoErased
<1>6. \A i \in 1 .. Len(Tail(job.todo)) : Tail(job.todo)[i] # Head(job.todo)
  BY <1>2, <1>3, <1>4 DEF WriteInv, TodoOK
<1> QED BY <1>1, <1>3, <1>4, <1>5, <1>6, PageSections

LEMMA EraseInv ==
  ASSUME WriteInv, ErasePage
  PROVE  WriteInv'
<1>1. job.page \in Page /\ job \in JobType
  BY DEF WriteInv, TypeOK, JobType
<1>2. /\ job'.op = "program" /\ job'.page = job.page /\ job'.todo = Order(job.page)
      /\ job'.half = job.half /\ job' \in JobType
  BY <1>1, OrderOfPage DEF ErasePage, JobType
<1>3. flash' \in [Section -> Value] /\ \A s \in SectionsOf(job.page) : flash'[s] = Blank
  BY <1>1, BlankTyped, PageSections DEF WriteInv, TypeOK, ErasePage
<1>4. TypeOK'
  BY <1>2, <1>3 DEF WriteInv, TypeOK, ErasePage, JobType, history
<1>5. TodoOK'
  BY <1>1, <1>2, OrderOfPage DEF TodoOK, Programming
<1>6. \A i \in 1 .. Len(job'.todo) : flash'[job'.todo[i]].saveTime = BlankTime
  BY <1>1, <1>2, <1>3, OrderOfPage, BlankRejected
<1>7. job.half = FALSE
  BY DEF WriteInv, EraseWhole, ErasePage
<1>8. TodoErased'
  BY <1>2, <1>6, <1>7 DEF TodoErased
<1>9. ClockRead' /\ EraseWhole'
  BY <1>2 DEF WriteInv, ErasePage, ClockRead, EraseWhole
<1> QED BY <1>4, <1>5, <1>8, <1>9 DEF WriteInv

LEMMA ProgramBodyInv ==
  ASSUME WriteInv, ProgramBody
  PROVE  WriteInv'
<1>1. Programming /\ job \in JobType
  BY DEF ProgramBody, Programming, WriteInv, TypeOK, JobType
<1> DEFINE h == Head(job.todo)
<1>2. h \in Section /\ h \in SectionsOf(job.page)
  BY <1>1, TodoHead
<1>3. /\ job'.op = "program" /\ job'.page = job.page /\ job'.todo = job.todo
      /\ job' \in JobType
  BY <1>1 DEF ProgramBody, JobType, Programming
<1>4. ram[h] \in Value /\ flash[h] \in Value
  BY <1>2 DEF WriteInv, TypeOK
<1>5. flash' = [flash EXCEPT ![h] = [flash[h] EXCEPT !.body = ram[h].body]]
  BY DEF ProgramBody
<1>6. [flash[h] EXCEPT !.body = ram[h].body] \in Value
  BY <1>4 DEF Value
<1>7. flash' \in [Section -> Value]
  BY <1>2, <1>5, <1>6 DEF WriteInv, TypeOK
<1>8. /\ flash'[h].body = ram[h].body
      /\ \A s \in Section : flash'[s].saveTime = flash[s].saveTime
  BY <1>2, <1>4, <1>5 DEF WriteInv, TypeOK, Value
<1>9. TypeOK'
  BY <1>3, <1>7 DEF WriteInv, TypeOK, ProgramBody, JobType, history
<1>10. TodoOK'
  BY <1>1, <1>3 DEF WriteInv, TodoOK, Programming
<1>11. \A i \in 1 .. Len(job.todo) : job.todo[i] \in Section
  BY <1>1, PageSections DEF WriteInv, TodoOK, TypeOK
<1>12. TodoErased'
  BY <1>1, <1>3, <1>8, <1>11 DEF WriteInv, TodoErased, ProgramBody
<1>13. ClockRead' /\ EraseWhole'
  BY <1>3 DEF WriteInv, ProgramBody, ClockRead, EraseWhole
<1> QED BY <1>9, <1>10, <1>12, <1>13 DEF WriteInv

(* The time completes the section: flash then holds what is in use.        *)
LEMMA ProgramTimeFlash ==
  ASSUME WriteInv, ProgramTime
  PROVE  /\ Programming
         /\ flash' = [flash EXCEPT ![Head(job.todo)] = ram[Head(job.todo)]]
<1>1. Programming
  BY DEF ProgramTime, Programming
<1> DEFINE h == Head(job.todo)
<1>2. h \in Section
  BY <1>1, TodoHead
<1>3. ram[h] \in Value /\ flash[h] \in Value /\ flash[h].body = ram[h].body
  BY <1>1, <1>2 DEF WriteInv, TypeOK, TodoErased, ProgramTime
<1>4. [flash[h] EXCEPT !.saveTime = ram[h].saveTime] = ram[h]
  BY <1>3 DEF Value
<1>5. flash' = [flash EXCEPT ![h] = [flash[h] EXCEPT !.saveTime = ram[h].saveTime]]
  BY DEF ProgramTime
<1> QED BY <1>1, <1>4, <1>5

LEMMA ProgramTimeInv ==
  ASSUME WriteInv, ProgramTime
  PROVE  WriteInv'
<1> DEFINE h == Head(job.todo)
<1>1. Programming /\ job \in JobType /\ flash' = [flash EXCEPT ![h] = ram[h]]
  BY ProgramTimeFlash DEF WriteInv, TypeOK, JobType
<1>2. h \in Section
  BY <1>1, TodoHead
<1>3. flash' \in [Section -> Value]
  BY <1>1, <1>2 DEF WriteInv, TypeOK
<1>4. CASE Len(job.todo) = 1
  <2>1. WriteDone
    BY <1>4 DEF ProgramTime
  <2>2. /\ job' \in JobType /\ job'.op = "none" /\ job'.half = FALSE
        /\ bootAt' \in 0..5 /\ (bootAt' = 0 <=> bootAt = 0)
    BY <2>1, WriteDoneInv
  <2>3. TypeOK'
    BY <1>3, <2>2 DEF WriteInv, TypeOK, ProgramTime, JobType, history
  <2>4. ClockRead' /\ EraseWhole'
    BY <2>2 DEF WriteInv, ProgramTime, ClockRead, EraseWhole
  <2> QED BY <2>2, <2>3, <2>4, NotProgramming DEF WriteInv
<1>5. CASE Len(job.todo) # 1
  <2>1. job' = [job EXCEPT !.half = FALSE, !.todo = Tail(job.todo)] /\ bootAt' = bootAt
    BY <1>5 DEF ProgramTime
  <2>2. Tail(job.todo) \in Seq(Section)
    BY <1>1, TodoHead
  <2>3. /\ job'.op = "program" /\ job'.page = job.page /\ job'.todo = Tail(job.todo)
        /\ job'.half = FALSE /\ job' \in JobType
    BY <1>1, <2>1, <2>2 DEF Programming, JobType
  <2>4. TypeOK'
    BY <1>3, <2>1, <2>3 DEF WriteInv, TypeOK, ProgramTime, JobType, history
  <2>5. /\ job.todo \in Seq(Section) /\ Len(job.todo) >= 1
        /\ Len(Tail(job.todo)) = Len(job.todo) - 1
        /\ \A i \in 1 .. Len(Tail(job.todo)) :
             Tail(job.todo)[i] = job.todo[i + 1] /\ Tail(job.todo)[i] # h
    BY <1>1, TodoHead DEF WriteInv, TodoOK
  <2>6. \A i \in 1 .. Len(Tail(job.todo)) : i + 1 \in 1 .. Len(job.todo)
    BY <2>5
  <2>7. Len(Tail(job.todo)) >= 1
    <3> DEFINE n == Len(job.todo)
               k == Len(Tail(job.todo))
    <3>1. n \in Nat /\ n >= 1 /\ k = n - 1 /\ n # 1
      BY <1>5, <2>5
    <3> HIDE DEF n, k
    <3>2. k >= 1
      BY <3>1
    <3> QED BY <3>2 DEF k
  <2>8. TodoOK'
    <3>1. \A i \in 1 .. Len(Tail(job.todo)) : Tail(job.todo)[i] \in SectionsOf(job.page)
      BY <1>1, <2>5, <2>6 DEF WriteInv, TodoOK
    <3>2. \A i, j \in 1 .. Len(Tail(job.todo)) : i # j => Tail(job.todo)[i] # Tail(job.todo)[j]
      BY <1>1, <2>5, <2>6 DEF WriteInv, TodoOK
    <3> QED BY <2>3, <2>7, <3>1, <3>2 DEF TodoOK
  <2>9. \A i \in 1 .. Len(Tail(job.todo)) : flash'[Tail(job.todo)[i]].saveTime = BlankTime
    <3> SUFFICES ASSUME NEW i \in 1 .. Len(Tail(job.todo))
                 PROVE  flash'[Tail(job.todo)[i]].saveTime = BlankTime
      OBVIOUS
    <3>1. Tail(job.todo)[i] \in Section
      BY <2>2
    <3>2. flash[Tail(job.todo)[i]].saveTime = BlankTime
      BY <1>1, <2>5, <2>6 DEF WriteInv, TodoErased
    <3> QED BY <1>1, <2>5, <3>1, <3>2 DEF WriteInv, TypeOK
  <2>10. TodoErased'
    BY <2>3, <2>9 DEF TodoErased
  <2>11. ClockRead' /\ EraseWhole'
    BY <2>1, <2>3 DEF WriteInv, ProgramTime, ClockRead, EraseWhole
  <2> QED BY <2>4, <2>8, <2>10, <2>11 DEF WriteInv
<1> QED BY <1>4, <1>5

LEMMA InstallValue ==
  ASSUME NEW b \in BODIES, NEW t \in INSTALL_TIMES
  PROVE  [body |-> b, saveTime |-> t] \in Value
BY CfgAssumption DEF Value

LEMMA LoadPageInv ==
  ASSUME WriteInv, LoadPage
  PROVE  WriteInv'
<1> DEFINE p == BootOrder[bootAt]
<1>1. bootAt \in 1..4 /\ p \in Page
  BY DEF LoadPage, BootOrder, Page
<1>2. ram' \in [Section -> Value]
  BY <1>1, LoadedTyped DEF LoadPage, WriteInv, TypeOK
<1>3. /\ job' \in JobType /\ job'.op # "program" /\ job'.half = FALSE
      /\ bootAt' \in 1..5
  BY <1>1, JobsTyped DEF LoadPage
<1>4. TypeOK'
  BY <1>2, <1>3 DEF LoadPage, WriteInv, TypeOK, JobType, history
<1>5. ClockRead' /\ EraseWhole'
  BY <1>1, <1>3 DEF LoadPage, WriteInv, ClockRead, EraseWhole
<1> QED BY <1>3, <1>4, <1>5, NotProgramming DEF WriteInv

LEMMA InstallInv ==
  ASSUME WriteInv, NEW s \in CtrlSection, NEW b \in BODIES, NEW t \in INSTALL_TIMES,
         Install(s, [body |-> b, saveTime |-> t])
  PROVE  WriteInv'
<1> DEFINE v == [body |-> b, saveTime |-> t]
<1>1. v \in Value /\ s \in Section
  BY InstallValue DEF Section
<1>2. "CTRL" \in Page
  BY DEF Page
<1>3. job' \in JobType /\ job'.op = "erase" /\ job'.half = FALSE
  BY <1>2, JobsTyped DEF Install
<1> HIDE DEF v
<1>4. Install(s, v)
  BY DEF v
<1>5. /\ ram' \in [Section -> Value] /\ last' \in [Section -> Value]
      /\ installed' \subseteq (Section \X Value) /\ installs' \in 0..MAX_INSTALL
  BY <1>1, <1>4, CfgAssumption DEF Install, WriteInv, TypeOK
<1>6. TypeOK'
  BY <1>3, <1>4, <1>5 DEF Install, WriteInv, TypeOK, JobType
<1>7. ClockRead' /\ EraseWhole'
  BY <1>3, <1>4 DEF Install, WriteInv, ClockRead, EraseWhole
<1> QED BY <1>3, <1>6, <1>7, NotProgramming DEF WriteInv

(* Failing writes end the write and leave the flash as it is.              *)
LEMMA WriteFailsInv ==
  ASSUME WriteInv, EraseFails \/ ProgramFails
  PROVE  WriteInv'
<1>1. WriteDone /\ faults < MAX_FAULT /\ faults' = faults + 1
      /\ hurt' = hurt \cup {job.page}
      /\ UNCHANGED <<ram, flash, rtcTime, installs, installed, last>>
  BY DEF EraseFails, ProgramFails
<1>2. /\ job' \in JobType /\ job'.op = "none" /\ job'.half = FALSE
      /\ bootAt' \in 0..5 /\ (bootAt' = 0 <=> bootAt = 0)
  BY <1>1, WriteDoneInv
<1>3. job.page \in Page
  BY DEF WriteInv, TypeOK
<1>4. TypeOK'
  BY <1>1, <1>2, <1>3, CfgAssumption DEF WriteInv, TypeOK, JobType
<1>5. ClockRead' /\ EraseWhole'
  BY <1>1, <1>2 DEF WriteInv, ClockRead, EraseWhole
<1> QED BY <1>2, <1>4, <1>5, NotProgramming DEF WriteInv

LEMMA WriteNext == WriteInv /\ [Next]_vars => WriteInv'
<1> SUFFICES ASSUME WriteInv, [Next]_vars
             PROVE  WriteInv'
  OBVIOUS
<1>1. CASE PowerUp
  <2>1. rtcTime' \in RTC_TIMES /\ bootAt' = 1
        /\ UNCHANGED <<ram, flash, job, installs, faults, history>>
    BY <1>1 DEF PowerUp
  <2>2. TypeOK'
    BY <2>1 DEF WriteInv, TypeOK, history
  <2>3. TodoOK' /\ TodoErased' /\ ClockRead' /\ EraseWhole'
    BY <2>1 DEF WriteInv, TodoOK, TodoErased, Programming, ClockRead, EraseWhole
  <2> QED BY <2>2, <2>3 DEF WriteInv
<1>2. CASE LoadPage
  BY <1>2, LoadPageInv
<1>3. CASE LoadNoMemory
  <2>1. BootOrder[bootAt] \in Page
    BY <1>3 DEF LoadNoMemory, BootOrder, Page
  <2>2. TypeOK'
    BY <1>3, <2>1, CfgAssumption DEF LoadNoMemory, WriteInv, TypeOK
  <2>3. job' = NoJob /\ job'.op # "program" /\ job'.half = FALSE
    BY <1>3, JobsTyped DEF LoadNoMemory
  <2>4. ClockRead' /\ EraseWhole'
    BY <1>3, <2>3 DEF LoadNoMemory, WriteInv, ClockRead, EraseWhole
  <2> QED BY <2>2, <2>3, <2>4, NotProgramming DEF WriteInv
<1>4. CASE ErasePage
  BY <1>4, EraseInv
<1>5. CASE ProgramBody
  BY <1>5, ProgramBodyInv
<1>6. CASE ProgramTime
  BY <1>6, ProgramTimeInv
<1>7. CASE EraseFails \/ ProgramFails
  BY <1>7, WriteFailsInv
<1>8. CASE PowerFail
  <2>1. job' = NoJob /\ job' \in JobType /\ job'.op # "program" /\ job'.half = FALSE
    BY <1>8, JobsTyped DEF PowerFail
  <2>2. TypeOK'
    BY <1>8, <2>1, BlankTyped, CfgAssumption DEF PowerFail, WriteInv, TypeOK, JobType
  <2>3. ClockRead' /\ EraseWhole'
    BY <1>8, <2>1 DEF PowerFail, ClockRead, EraseWhole
  <2> QED BY <2>1, <2>2, <2>3, NotProgramming DEF WriteInv
<1>9. CASE \E s \in CtrlSection, b \in BODIES, t \in INSTALL_TIMES :
             Install(s, [body |-> b, saveTime |-> t])
  BY <1>9, InstallInv
<1>10. CASE UNCHANGED vars
  <2>1. TypeOK' /\ TodoOK' /\ TodoErased' /\ ClockRead' /\ EraseWhole'
    BY <1>10 DEF vars, WriteInv, TypeOK, TodoOK, TodoErased, Programming, ClockRead, EraseWhole
  <2> QED BY <2>1 DEF WriteInv
<1> QED BY <1>1, <1>2, <1>3, <1>4, <1>5, <1>6, <1>7, <1>8, <1>9, <1>10
        DEF Next, WriteStep, Fault

(* A Flash_Write under way never loses its place: its queue holds sections  *)
(* of its page, whatever power and flash do.                                *)
THEOREM WriteInvariant == Spec => []WriteInv
BY WriteInit, WriteNext, PTL DEF Spec

(* TypeOK, for any contents, times and bounds.                             *)
THEOREM TypeCorrect == Spec => []TypeOK
<1>1. WriteInv => TypeOK
  BY DEF WriteInv
<1> QED BY WriteInvariant, <1>1, PTL

-----------------------------------------------------------------------------
(* No torn section.  Whole only depends on what has been sent, and what has *)
(* been sent only grows; the flash may hold a torn section, but none with a *)
(* time that boot accepts.                                                  *)
WholeIn(s, v, sent) ==
  \/ v = Zero
  \/ \E rtc \in RTC_TIMES : v = Default(s, rtc)
  \/ <<s, v>> \in sent

FlashWhole ==
  \A s \in Section : Verify_RtcTime(flash[s].saveTime) => WholeIn(s, flash[s], installed)

RamWhole == \A s \in Section : WholeIn(s, ram[s], installed)

WholeInv == WriteInv /\ FlashWhole /\ RamWhole

(* A Flash_Write belongs to the page boot is at, or to the control page     *)
(* once the threads run.                                                    *)
BootJob ==
  /\ job.op = "none" => job = NoJob
  /\ job.op # "none" =>
       /\ bootAt \in 1..5
       /\ job.page = IF bootAt = 5 THEN "CTRL" ELSE BootOrder[bootAt]

(* What a Flash_Write has left behind it is what is in use.                 *)
DoneWritten ==
  Programming =>
    \A s \in SectionsOf(job.page) :
      flash[s] = ram[s] \/ \E i \in 1 .. Len(job.todo) : job.todo[i] = s

(* The section sent last is in flash unless its page is being written, and  *)
(* in use once its page is loaded; while the page is written it is in use.  *)
CtrlJob == job.op # "none" /\ job.page = "CTRL"
CtrlKept ==
  "CTRL" \notin hurt =>
    \A s \in CtrlSection : Verify_RtcTime(last[s].saveTime) =>
      /\ bootAt >= 3 \/ CtrlJob => ram[s] = last[s]
      /\ ~CtrlJob => flash[s] = last[s]

SurviveInv == WriteInv /\ BootJob /\ DoneWritten /\ CtrlKept

LEMMA WholeGrows ==
  ASSUME NEW s, NEW v, NEW a, NEW b, a \subseteq b, WholeIn(s, v, a)
  PROVE  WholeIn(s, v, b)
BY DEF WholeIn

LEMMA DefaultWhole ==
  ASSUME NEW s, NEW rtc \in RTC_TIMES, NEW a
  PROVE  WholeIn(s, Default(s, rtc), a)
BY DEF WholeIn

LEMMA WholeInit == Init => WholeInv
<1> SUFFICES ASSUME Init PROVE FlashWhole /\ RamWhole
  BY WriteInit DEF WholeInv
<1>1. \A s \in Section : flash[s].saveTime = BlankTime
  BY BlankRejected DEF Init
<1>2. \A s \in Section : ram[s] = Zero
  BY DEF Init
<1> QED BY <1>1, <1>2, BlankRejected DEF FlashWhole, RamWhole, WholeIn

LEMMA LoadPageWhole ==
  ASSUME WholeInv, LoadPage
  PROVE  FlashWhole' /\ RamWhole'
<1>1. UNCHANGED <<flash, installed>> /\ rtcTime \in RTC_TIMES
  BY DEF LoadPage, history, WholeInv, WriteInv, ClockRead
<1>2. FlashWhole'
  BY <1>1 DEF FlashWhole, WholeInv
<1>3. ASSUME NEW s \in Section
      PROVE  WholeIn(s, ram'[s], installed)
  <2>1. ram'[s] = ram[s] \/ ram'[s] = Loaded(s)
    BY DEF LoadPage
  <2>2. WholeIn(s, ram[s], installed)
    BY DEF WholeInv, RamWhole
  <2>3. WholeIn(s, Loaded(s), installed)
    BY <1>1, DefaultWhole DEF Loaded, WholeInv, FlashWhole
  <2> QED BY <2>1, <2>2, <2>3
<1> QED BY <1>1, <1>2, <1>3 DEF RamWhole

LEMMA InstallWhole ==
  ASSUME WholeInv, NEW s \in CtrlSection, NEW v, Install(s, v)
  PROVE  FlashWhole' /\ RamWhole'
<1>1. /\ installed \subseteq installed' /\ <<s, v>> \in installed'
      /\ flash' = flash
  BY DEF Install
<1>2. FlashWhole'
  BY <1>1, WholeGrows DEF WholeInv, FlashWhole
<1>3. \A r \in Section : ram'[r] = ram[r] \/ (r = s /\ ram'[r] = v)
  BY DEF Install, WholeInv, WriteInv, TypeOK
<1>4. \A r \in Section : WholeIn(r, ram[r], installed')
  BY <1>1, WholeGrows DEF WholeInv, RamWhole
<1>5. WholeIn(s, v, installed')
  BY <1>1 DEF WholeIn
<1> QED BY <1>2, <1>3, <1>4, <1>5 DEF RamWhole

(* Erasing and programming change the flash only.  A section whose time is *)
(* accepted afterwards was there before or is the one in use.              *)
LEMMA WriteStepFlash ==
  ASSUME WriteInv, WriteStep, NEW s \in Section, Verify_RtcTime(flash'[s].saveTime)
  PROVE  flash'[s] = flash[s] \/ flash'[s] = ram[s]
<1>1. CASE ErasePage
  BY <1>1, BlankRejected DEF ErasePage
<1>2. CASE ProgramBody
  <2> DEFINE h == Head(job.todo)
  <2>1. h \in Section /\ flash[h].saveTime = BlankTime
    BY <1>2, TodoHead DEF ProgramBody, Programming
  <2>2. flash[h] \in Value
    BY <2>1 DEF WriteInv, TypeOK
  <2>3. flash' = [flash EXCEPT ![h] = [flash[h] EXCEPT !.body = ram[h].body]]
    BY <1>2 DEF ProgramBody
  <2>4. flash'[h].saveTime = flash[h].saveTime
    BY <2>1, <2>2, <2>3 DEF WriteInv, TypeOK, Value
  <2>5. s # h
    BY <2>1, <2>4, BlankRejected
  <2> QED BY <2>3, <2>5 DEF WriteInv, TypeOK
<1>3. CASE ProgramTime
  BY <1>3, ProgramTimeFlash, TodoHead DEF WriteInv, TypeOK
<1> QED BY <1>1, <1>2, <1>3 DEF WriteStep

LEMMA WriteStepWhole ==
  ASSUME WholeInv, WriteStep
  PROVE  FlashWhole' /\ RamWhole'
<1>1. UNCHANGED <<ram, installed>>
  BY DEF WriteStep, ErasePage, ProgramBody, ProgramTime, history
<1>2. RamWhole'
  BY <1>1 DEF RamWhole, WholeInv
<1>3. ASSUME NEW s \in Section, Verify_RtcTime(flash'[s].saveTime)
      PROVE  WholeIn(s, flash'[s], installed)
  <2>1. flash'[s] = flash[s] \/ flash'[s] = ram[s]
    BY <1>3, WriteStepFlash DEF WholeInv
  <2> QED BY <1>3, <2>1 DEF WholeInv, FlashWhole, RamWhole
<1> QED BY <1>1, <1>2, <1>3 DEF FlashWhole

LEMMA WholeNext == WholeInv /\ [Next]_vars => WholeInv'
<1> SUFFICES ASSUME WholeInv, [Next]_vars
             PROVE  FlashWhole' /\ RamWhole'
  BY WriteNext DEF WholeInv
<1>1. CASE PowerUp \/ LoadNoMemory \/ EraseFails \/ ProgramFails \/ UNCHANGED vars
  <2>1. UNCHANGED <<ram, flash, installed>>
    BY <1>1 DEF PowerUp, LoadNoMemory, EraseFails, ProgramFails, vars, history
  <2> QED BY <2>1 DEF WholeInv, FlashWhole, RamWhole
<1>2. CASE LoadPage
  BY <1>2, LoadPageWhole
<1>3. CASE WriteStep
  BY <1>3, WriteStepWhole
<1>4. CASE PowerFail
  <2>1. UNCHANGED <<flash, installed>> /\ \A s \in Section : ram'[s] = Zero
    BY <1>4 DEF PowerFail
  <2> QED BY <2>1 DEF WholeInv, FlashWhole, RamWhole, WholeIn
<1>5. CASE \E s \in CtrlSection, b \in BODIES, t \in INSTALL_TIMES :
             Install(s, [body |-> b, saveTime |-> t])
  BY <1>5, InstallWhole
<1> QED BY <1>1, <1>2, <1>3, <1>4, <1>5 DEF Next, Fault

(* NoTornSection: whatever power and flash do, and whatever save times the  *)
(* cloud and the clock deliver, the controller never works with a section   *)
(* put together from two others.                                            *)
THEOREM NoTornSectionHolds == Spec => []NoTornSection
<1>1. WholeInv => NoTornSection
  BY DEF WholeInv, RamWhole, NoTornSection, Whole, WholeIn
<1> QED BY WholeInit, WholeNext, <1>1, PTL DEF Spec

-----------------------------------------------------------------------------
(* A section that was sent survives restarts.                              *)
LEMMA SurviveInit == Init => SurviveInv
<1> SUFFICES ASSUME Init PROVE BootJob /\ DoneWritten /\ CtrlKept
  BY WriteInit DEF SurviveInv
<1>1. job = NoJob /\ job.op = "none"
  BY JobsTyped DEF Init
<1>2. \A s \in CtrlSection : ~Verify_RtcTime(last[s].saveTime)
  BY BlankRejected DEF Init, Section
<1> QED BY <1>1, <1>2 DEF BootJob, DoneWritten, CtrlKept, Programming

LEMMA BootPages ==
  /\ \A i \in 1..4 : BootOrder[i] \in Page
  /\ \A i \in 1..4 : BootOrder[i] = "CTRL" <=> i = 2
BY DEF BootOrder, Page

(* The end of a write, successful or not.                                  *)
LEMMA BootJobDone ==
  ASSUME job' = NoJob
  PROVE  BootJob' /\ DoneWritten' /\ ~CtrlJob' /\ job'.op = "none"
BY JobsTyped DEF BootJob, DoneWritten, CtrlJob, Programming

LEMMA BootJobSame ==
  ASSUME BootJob, job'.op # "none", job.op # "none", job'.page = job.page, bootAt' = bootAt
  PROVE  BootJob' /\ (CtrlJob' <=> CtrlJob)
BY DEF BootJob, CtrlJob

LEMMA LoadPageSurvives ==
  ASSUME SurviveInv, LoadPage
  PROVE  BootJob' /\ DoneWritten' /\ CtrlKept'
<1> DEFINE p == BootOrder[bootAt]
<1>1. bootAt \in 1..4 /\ p \in Page /\ job = NoJob /\ job.op = "none" /\ ~CtrlJob
  BY BootPages, JobsTyped DEF LoadPage, CtrlJob
<1>2. UNCHANGED <<flash, last, hurt>>
  BY DEF LoadPage, history
<1>3. CASE WritesBack(p)
  <2>1. job' = StartWrite(p) /\ bootAt' = bootAt
    BY <1>3 DEF LoadPage
  <2>2. job'.op = "erase" /\ job'.page = p
    BY <1>1, <2>1, JobsTyped
  <2>3. BootJob' /\ DoneWritten' /\ (CtrlJob' <=> p = "CTRL")
    BY <1>1, <2>1, <2>2 DEF BootJob, DoneWritten, CtrlJob, Programming
  <2>4. CASE p = "CTRL"
    <3>1. bootAt = 2 /\ \A s \in CtrlSection : ram'[s] = Loaded(s)
      BY <1>1, <2>4, BootPages, PageSections DEF LoadPage
    <3> QED BY <1>1, <1>2, <2>3, <2>4, <3>1 DEF SurviveInv, CtrlKept, Loaded
  <2>5. CASE p # "CTRL"
    <3>1. \A s \in CtrlSection : ram'[s] = ram[s]
      BY <1>1, <2>5, PageSections DEF LoadPage, Section
    <3> QED BY <1>1, <1>2, <2>1, <2>3, <2>5, <3>1 DEF SurviveInv, CtrlKept
  <2> QED BY <2>3, <2>4, <2>5
<1>4. CASE ~WritesBack(p)
  <2>1. job' = NoJob /\ bootAt' = bootAt + 1 /\ p # "CTRL" /\ bootAt # 2
    BY <1>1, <1>4, BootPages DEF LoadPage, WritesBack
  <2>2. \A s \in CtrlSection : ram'[s] = ram[s]
    BY <1>1, <2>1, PageSections DEF LoadPage, Section
  <2>3. bootAt' >= 3 => bootAt >= 3
    BY <1>1, <2>1
  <2> QED BY <1>1, <1>2, <2>1, <2>2, <2>3, BootJobDone DEF SurviveInv, CtrlKept
<1> QED BY <1>3, <1>4

LEMMA InstallSurvives ==
  ASSUME SurviveInv, NEW s \in CtrlSection, NEW v, Install(s, v)
  PROVE  BootJob' /\ DoneWritten' /\ CtrlKept'
<1>1. /\ bootAt = 5 /\ bootAt' = 5 /\ job = NoJob /\ job.op = "none"
      /\ job' = StartWrite("CTRL") /\ job'.op = "erase" /\ job'.page = "CTRL"
      /\ hurt' = hurt
  BY JobsTyped DEF Install, Page
<1>2. BootJob' /\ DoneWritten' /\ CtrlJob'
  BY <1>1 DEF BootJob, DoneWritten, Programming, CtrlJob
<1>3. ASSUME NEW r \in CtrlSection, "CTRL" \notin hurt, Verify_RtcTime(last'[r].saveTime)
      PROVE  ram'[r] = last'[r]
  <2>1. CASE r = s
    BY <2>1 DEF Install, SurviveInv, WriteInv, TypeOK, Section
  <2>2. CASE r # s
    <3>1. ram'[r] = ram[r] /\ last'[r] = last[r]
      BY <2>2 DEF Install, SurviveInv, WriteInv, TypeOK, Section
    <3> QED BY <1>1, <1>3, <3>1 DEF SurviveInv, CtrlKept
  <2> QED BY <2>1, <2>2
<1> QED BY <1>1, <1>2, <1>3 DEF CtrlKept

LEMMA EraseSurvives ==
  ASSUME SurviveInv, ErasePage
  PROVE  BootJob' /\ DoneWritten' /\ CtrlKept'
<1>1. job.op = "erase" /\ job.page \in Page
  BY DEF ErasePage, SurviveInv, WriteInv, TypeOK
<1>2. /\ job'.op = "program" /\ job'.page = job.page /\ job'.todo = Order(job.page)
      /\ UNCHANGED <<ram, bootAt, last, hurt>>
  BY DEF ErasePage, SurviveInv, WriteInv, TypeOK, history
<1>3. BootJob' /\ (CtrlJob' <=> CtrlJob)
  BY <1>1, <1>2, BootJobSame DEF SurviveInv
<1>4. DoneWritten'
  BY <1>1, <1>2, OrderOfPage DEF DoneWritten
<1>5. ASSUME ~CtrlJob, NEW s \in CtrlSection
      PROVE  flash'[s] = flash[s]
  <2>1. s \in Section /\ s \notin SectionsOf(job.page)
    BY <1>1, <1>5, PageSections DEF CtrlJob, Section
  <2> QED BY <2>1 DEF ErasePage
<1> QED BY <1>2, <1>3, <1>4, <1>5 DEF SurviveInv, CtrlKept

LEMMA ProgramBodySurvives ==
  ASSUME SurviveInv, ProgramBody
  PROVE  BootJob' /\ DoneWritten' /\ CtrlKept'
<1> DEFINE h == Head(job.todo)
<1>1. Programming /\ WriteInv
  BY DEF ProgramBody, Programming, SurviveInv
<1>2. /\ h \in Section /\ h \in SectionsOf(job.page) /\ job.page \in Page
      /\ h = job.todo[1] /\ 1 \in 1 .. Len(job.todo)
  BY <1>1, TodoHead DEF WriteInv, TodoOK
<1>3. /\ job'.op = "program" /\ job'.page = job.page /\ job'.todo = job.todo
      /\ UNCHANGED <<ram, bootAt, last, hurt>>
  BY <1>1 DEF ProgramBody, Programming, WriteInv, TypeOK, history
<1>4. \A s \in Section : s # h => flash'[s] = flash[s]
  BY <1>1, <1>2 DEF ProgramBody, WriteInv, TypeOK
<1>5. BootJob' /\ (CtrlJob' <=> CtrlJob)
  BY <1>1, <1>3, BootJobSame DEF SurviveInv, Programming
<1>6. DoneWritten'
  <2> SUFFICES ASSUME NEW s \in SectionsOf(job.page)
               PROVE  flash'[s] = ram[s] \/ \E i \in 1 .. Len(job.todo) : job.todo[i] = s
    BY <1>3 DEF DoneWritten
  <2>1. s \in Section
    BY <1>2, PageSections
  <2>2. flash[s] = ram[s] \/ \E i \in 1 .. Len(job.todo) : job.todo[i] = s
    BY <1>1 DEF SurviveInv, DoneWritten
  <2> QED BY <1>2, <1>4, <2>1, <2>2
<1>7. ASSUME ~CtrlJob, NEW s \in CtrlSection
      PROVE  flash'[s] = flash[s]
  <2>1. s \in Section /\ s # h
    BY <1>1, <1>2, <1>7, PageSections DEF CtrlJob, Section, Programming
  <2> QED BY <1>4, <2>1
<1> QED BY <1>3, <1>5, <1>6, <1>7 DEF SurviveInv, CtrlKept

LEMMA ProgramTimeSurvives ==
  ASSUME SurviveInv, ProgramTime
  PROVE  BootJob' /\ DoneWritten' /\ CtrlKept'
<1> DEFINE h == Head(job.todo)
<1>1. Programming /\ WriteInv /\ job.op # "none"
  BY DEF ProgramTime, Programming, SurviveInv
<1>2. /\ h \in Section /\ h \in SectionsOf(job.page) /\ job.page \in Page
      /\ h = job.todo[1] /\ job.todo \in Seq(Section)
  BY <1>1, TodoHead
<1>3. UNCHANGED <<ram, last, hurt>>
  BY DEF ProgramTime, history
<1>4. \A s \in Section : flash'[s] = IF s = h THEN ram[s] ELSE flash[s]
  BY <1>1, <1>2, ProgramTimeFlash DEF WriteInv, TypeOK
<1>5. ASSUME ~CtrlJob, NEW s \in CtrlSection
      PROVE  flash'[s] = flash[s]
  <2>1. s \in Section /\ s # h
    BY <1>1, <1>2, <1>5, PageSections DEF CtrlJob, Section
  <2> QED BY <1>4, <2>1
<1>6. CASE Len(job.todo) = 1
  <2>1. WriteDone
    BY <1>6 DEF ProgramTime
  <2>2. BootJob' /\ DoneWritten' /\ ~CtrlJob'
    BY <2>1, BootJobDone DEF WriteDone
  <2>3. ASSUME NEW s \in SectionsOf(job.page)
        PROVE  flash'[s] = ram[s]
    <3>1. s \in Section
      BY <1>2, PageSections
    <3>2. flash[s] = ram[s] \/ s = h
      BY <1>1, <1>2, <1>6 DEF SurviveInv, DoneWritten
    <3> QED BY <1>4, <3>1, <3>2
  <2>4. CASE CtrlJob
    <3>1. \A s \in CtrlSection : flash'[s] = ram[s]
      BY <2>3, <2>4, PageSections DEF CtrlJob
    <3> QED BY <1>3, <2>2, <2>4, <3>1 DEF SurviveInv, CtrlKept
  <2>5. CASE ~CtrlJob
    <3>1. bootAt' >= 3 => bootAt >= 3
      BY <1>1, <2>1, <2>5, BootPages DEF WriteDone, SurviveInv, BootJob, CtrlJob
    <3> QED BY <1>3, <1>5, <2>2, <2>5, <3>1 DEF SurviveInv, CtrlKept
  <2> QED BY <2>2, <2>4, <2>5
<1>7. CASE Len(job.todo) # 1
  <2>1. /\ job'.op = "program" /\ job'.page = job.page /\ job'.todo = Tail(job.todo)
        /\ bootAt' = bootAt
    BY <1>1, <1>7 DEF ProgramTime, Programming, WriteInv, TypeOK
  <2>2. BootJob' /\ (CtrlJob' <=> CtrlJob)
    BY <1>1, <2>1, BootJobSame DEF SurviveInv
  <2>3. DoneWritten'
    <3> SUFFICES ASSUME NEW s \in SectionsOf(job.page), s # h, flash[s] # ram[s]
                 PROVE  \E i \in 1 .. Len(Tail(job.todo)) : Tail(job.todo)[i] = s
      BY <1>2, <1>3, <1>4, <2>1, PageSections DEF DoneWritten
    <3>1. PICK i \in 1 .. Len(job.todo) : job.todo[i] = s
      BY <1>1 DEF SurviveInv, DoneWritten
    <3>2. i # 1
      BY <1>2, <3>1
    <3>3. i - 1 \in 1 .. Len(Tail(job.todo)) /\ Tail(job.todo)[i - 1] = job.todo[(i - 1) + 1]
      <4>1. /\ Len(Tail(job.todo)) = Len(job.todo) - 1
            /\ \A j \in 1 .. Len(Tail(job.todo)) : Tail(job.todo)[j] = job.todo[j + 1]
        BY <1>1, TodoHead
      <4>2. Len(job.todo) \in Nat
        BY <1>2
      <4>3. i - 1 \in 1 .. Len(job.todo) - 1
        BY <3>1, <3>2, <4>2
      <4> QED BY <4>1, <4>3
    <3> QED BY <3>1, <3>3
  <2> QED BY <1>3, <1>5, <2>1, <2>2, <2>3 DEF SurviveInv, CtrlKept
<1> QED BY <1>6, <1>7

LEMMA SurviveNext == SurviveInv /\ [Next]_vars => SurviveInv'
<1> SUFFICES ASSUME SurviveInv, [Next]_vars
             PROVE  BootJob' /\ DoneWritten' /\ CtrlKept'
  BY WriteNext DEF SurviveInv
<1>1. CASE PowerUp
  <2>1. /\ bootAt = 0 /\ bootAt' = 1
        /\ UNCHANGED <<ram, flash, job, last, hurt>>
    BY <1>1 DEF PowerUp, history
  <2>2. job = NoJob /\ job.op = "none"
    BY <2>1 DEF SurviveInv, BootJob
  <2>3. BootJob' /\ DoneWritten' /\ ~CtrlJob' /\ ~CtrlJob
    BY <2>1, <2>2, BootJobDone DEF CtrlJob
  <2> QED BY <2>1, <2>3 DEF SurviveInv, CtrlKept
<1>2. CASE LoadPage
  BY <1>2, LoadPageSurvives
<1>3. CASE LoadNoMemory
  <2>1. /\ bootAt \in 1..4 /\ bootAt' = bootAt + 1 /\ job = NoJob /\ job' = NoJob
        /\ hurt' = hurt \cup {BootOrder[bootAt]}
        /\ UNCHANGED <<ram, flash, last>>
    BY <1>3 DEF LoadNoMemory
  <2>2. BootJob' /\ DoneWritten' /\ ~CtrlJob' /\ ~CtrlJob
    BY <2>1, BootJobDone, JobsTyped DEF CtrlJob
  <2>3. "CTRL" \notin hurt' => "CTRL" \notin hurt /\ (bootAt' >= 3 => bootAt >= 3)
    BY <2>1, BootPages
  <2> QED BY <2>1, <2>2, <2>3 DEF SurviveInv, CtrlKept
<1>4. CASE ErasePage
  BY <1>4, EraseSurvives
<1>5. CASE ProgramBody
  BY <1>5, ProgramBodySurvives
<1>6. CASE ProgramTime
  BY <1>6, ProgramTimeSurvives
<1>7. CASE EraseFails \/ ProgramFails
  <2>1. /\ job.op # "none" /\ WriteDone /\ hurt' = hurt \cup {job.page}
        /\ UNCHANGED <<ram, flash, last>>
    BY <1>7 DEF EraseFails, ProgramFails
  <2>2. BootJob' /\ DoneWritten' /\ ~CtrlJob'
    BY <2>1, BootJobDone DEF WriteDone
  <2>3. "CTRL" \notin hurt' =>
          "CTRL" \notin hurt /\ ~CtrlJob /\ (bootAt' >= 3 => bootAt >= 3)
    BY <2>1, BootPages DEF WriteDone, SurviveInv, BootJob, CtrlJob
  <2> QED BY <2>1, <2>2, <2>3 DEF SurviveInv, CtrlKept
<1>8. CASE PowerFail
  <2>1. /\ bootAt' = 0 /\ job' = NoJob
        /\ hurt' = IF job = NoJob THEN hurt ELSE hurt \cup {job.page}
        /\ UNCHANGED <<flash, last>>
    BY <1>8 DEF PowerFail
  <2>2. BootJob' /\ DoneWritten' /\ ~CtrlJob'
    BY <2>1, BootJobDone
  <2>3. "CTRL" \notin hurt' => "CTRL" \notin hurt /\ ~CtrlJob
    BY <2>1, JobsTyped DEF CtrlJob
  <2> QED BY <2>1, <2>2, <2>3 DEF SurviveInv, CtrlKept
<1>9. CASE \E s \in CtrlSection, b \in BODIES, t \in INSTALL_TIMES :
             Install(s, [body |-> b, saveTime |-> t])
  BY <1>9, InstallSurvives
<1>10. CASE UNCHANGED vars
  BY <1>10 DEF vars, SurviveInv, BootJob, DoneWritten, CtrlKept, CtrlJob, Programming
<1> QED BY <1>1, <1>2, <1>3, <1>4, <1>5, <1>6, <1>7, <1>8, <1>9, <1>10
        DEF Next, WriteStep, Fault

(* InstalledSurvives: for any number of restarts, a section sent with an    *)
(* accepted time is in use until the next one is sent, as long as no step   *)
(* on its page failed or was cut off.                                       *)
THEOREM InstalledSurvivesHolds == Spec => []InstalledSurvives
<1>1. SurviveInv => InstalledSurvives
  BY DEF SurviveInv, CtrlKept, InstalledSurvives
<1> QED BY SurviveInit, SurviveNext, <1>1, PTL DEF Spec

-----------------------------------------------------------------------------
(* The store implements ConfigMemory.                                      *)
LEMMA KeptOf ==
  ASSUME NEW s \in Section
  PROVE  Kept[s] = IF Verify_RtcTime(flash[s].saveTime) THEN flash[s] ELSE Blank
BY DEF Kept

LEMMA KeptSame ==
  ASSUME flash' = flash
  PROVE  Kept' = Kept
BY DEF Kept

LEMMA MemoryInit == Init => Memory!Init
<1> SUFFICES ASSUME Init PROVE Memory!Init
  OBVIOUS
<1>1. \A s \in Section : flash[s] = Blank
  BY DEF Init
<1>2. Kept = [s \in Section |-> Blank]
  BY <1>1, BlankRejected DEF Kept
<1> QED BY <1>2 DEF Init, Memory!Init

LEMMA LoadPageRecalls ==
  ASSUME WriteInv, LoadPage
  PROVE  Memory!Recall(BootOrder[bootAt])
<1> DEFINE p == BootOrder[bootAt]
<1>1. bootAt \in 1..4 /\ p \in Page /\ rtcTime \in RTC_TIMES /\ Kept' = Kept
  BY BootPages, KeptSame DEF LoadPage, WriteInv, ClockRead
<1>2. ram' = [s \in Section |-> IF s \in SectionsOf(p) THEN Loaded(s) ELSE ram[s]]
  BY DEF LoadPage
<1>3. \A s \in SectionsOf(p) : s \in Section /\ ram'[s] = Loaded(s)
  BY <1>1, <1>2, PageSections
<1>4. ram' = [s \in Section |-> IF s \in SectionsOf(p) THEN ram'[s] ELSE ram[s]]
  BY <1>2, <1>3
<1>5. ASSUME NEW s \in SectionsOf(p)
      PROVE  IF Kept[s] # Blank THEN ram'[s] = Kept[s] ELSE ram'[s] \in Factory(s)
  <2>1. CASE Verify_RtcTime(flash[s].saveTime)
    <3>1. Kept[s] = flash[s] /\ ram'[s] = flash[s] /\ flash[s] # Blank
      BY <1>3, <1>5, <2>1, KeptOf, BlankRejected DEF Loaded
    <3> QED BY <3>1
  <2>2. CASE ~Verify_RtcTime(flash[s].saveTime)
    <3>1. Kept[s] = Blank /\ ram'[s] = Default(s, rtcTime)
      BY <1>3, <1>5, <2>2, KeptOf DEF Loaded
    <3> QED BY <1>1, <3>1 DEF Factory
  <2> QED BY <2>1, <2>2
<1> HIDE DEF p
<1>6. Memory!Recall(p)
  BY <1>1, <1>4, <1>5 DEF Memory!Recall
<1> QED BY <1>6 DEF p

LEMMA InstallChanges ==
  ASSUME WriteInv, NEW s \in CtrlSection, NEW v \in Offered(s), Install(s, v)
  PROVE  Memory!Change(s)
<1>1. s \in Section /\ ram \in [Section -> Value]
  BY DEF Section, WriteInv, TypeOK
<1>2. ram' = [ram EXCEPT ![s] = v] /\ Kept' = Kept
  BY KeptSame DEF Install
<1>3. ram'[s] = v
  BY <1>1, <1>2
<1> QED BY <1>2, <1>3 DEF Memory!Change

LEMMA EraseForgets ==
  ASSUME WriteInv, ErasePage
  PROVE  job.page \in Page /\ Memory!Forget(job.page)
<1>1. job.page \in Page /\ ram' = ram
  BY DEF ErasePage, WriteInv, TypeOK
<1>2. \A s \in Section : flash'[s] = IF s \in SectionsOf(job.page) THEN Blank ELSE flash[s]
  BY DEF ErasePage
<1>3. Kept' = [s \in Section |-> IF s \in SectionsOf(job.page) THEN Blank ELSE Kept[s]]
  BY <1>2, BlankRejected DEF Kept
<1> QED BY <1>1, <1>3 DEF Memory!Forget

(* Programming a body cannot be seen: the time of its section is erased.    *)
LEMMA ProgramBodyHidden ==
  ASSUME WriteInv, ProgramBody
  PROVE  ram' = ram /\ Kept' = Kept
<1> DEFINE h == Head(job.todo)
<1>1. h \in Section /\ flash[h].saveTime = BlankTime
  BY TodoHead DEF ProgramBody, Programming
<1>2. flash[h] \in Value
  BY <1>1 DEF WriteInv, TypeOK
<1>3. flash' = [flash EXCEPT ![h] = [flash[h] EXCEPT !.body = ram[h].body]]
  BY DEF ProgramBody
<1>4. flash'[h].saveTime = BlankTime
  BY <1>1, <1>2, <1>3 DEF WriteInv, TypeOK, Value
<1>5. \A s \in Section : s # h => flash'[s] = flash[s]
  BY <1>3 DEF WriteInv, TypeOK
<1>6. Kept' = Kept
  BY <1>1, <1>4, <1>5, BlankRejected DEF Kept
<1> QED BY <1>6 DEF ProgramBody

(* Programming the time makes the section seen, whole, if boot will accept  *)
(* the time; with any other time the section stays forgotten.               *)
LEMMA ProgramTimeKeeps ==
  ASSUME WriteInv, ProgramTime
  PROVE  \/ \E s \in Section : Memory!Keep(s)
         \/ ram' = ram /\ Kept' = Kept
<1> DEFINE h == Head(job.todo)
<1>1. Programming /\ flash' = [flash EXCEPT ![h] = ram[h]]
  BY ProgramTimeFlash
<1>2. h \in Section /\ flash[h].saveTime = BlankTime
  BY <1>1, TodoHead
<1>3. /\ ram' = ram /\ flash'[h] = ram[h]
      /\ \A s \in Section : s # h => flash'[s] = flash[s]
  BY <1>1, <1>2 DEF ProgramTime, WriteInv, TypeOK
<1> HIDE DEF h
<1>4. CASE Verify_RtcTime(ram[h].saveTime)
  <2>1. Kept' = [Kept EXCEPT ![h] = ram[h]]
    BY <1>2, <1>3, <1>4 DEF Kept
  <2> QED BY <1>2, <1>3, <2>1 DEF Memory!Keep
<1>5. CASE ~Verify_RtcTime(ram[h].saveTime)
  BY <1>2, <1>3, <1>5, BlankRejected DEF Kept
<1> QED BY <1>4, <1>5

LEMMA PowerFailLoses == PowerFail => Memory!PowerLoss
BY KeptSame DEF PowerFail, Memory!PowerLoss

LEMMA MemoryStep == WriteInv /\ [Next]_vars => [Memory!Next]_(Memory!vars)
<1> SUFFICES ASSUME WriteInv, [Next]_vars
             PROVE  Memory!Next \/ (ram' = ram /\ Kept' = Kept)
  BY DEF Memory!vars
<1>1. CASE PowerUp \/ LoadNoMemory \/ EraseFails \/ ProgramFails \/ UNCHANGED vars
  <2>1. ram' = ram /\ flash' = flash
    BY <1>1 DEF PowerUp, LoadNoMemory, EraseFails, ProgramFails, vars
  <2> QED BY <2>1, KeptSame
<1>2. CASE LoadPage
  <2>1. BootOrder[bootAt] \in Page
    BY <1>2, BootPages DEF LoadPage
  <2> QED BY <1>2, <2>1, LoadPageRecalls DEF Memory!Next
<1>3. CASE ErasePage
  BY <1>3, EraseForgets DEF Memory!Next
<1>4. CASE ProgramBody
  BY <1>4, ProgramBodyHidden
<1>5. CASE ProgramTime
  BY <1>5, ProgramTimeKeeps DEF Memory!Next
<1>6. CASE PowerFail
  BY <1>6, PowerFailLoses DEF Memory!Next
<1>7. CASE \E s \in CtrlSection, b \in BODIES, t \in INSTALL_TIMES :
             Install(s, [body |-> b, saveTime |-> t])
  <2>1. PICK s \in CtrlSection, b \in BODIES, t \in INSTALL_TIMES :
          Install(s, [body |-> b, saveTime |-> t])
    BY <1>7
  <2>2. s \in Section /\ Memory!Change(s)
    <3>1. [body |-> b, saveTime |-> t] \in Offered(s)
      BY DEF Offered
    <3> QED BY <2>1, <3>1, InstallChanges DEF Section
  <2> QED BY <2>2 DEF Memory!Next
<1> QED BY <1>1, <1>2, <1>3, <1>4, <1>5, <1>6, <1>7 DEF Next, WriteStep, Fault

(* ImplementsMemory: the store with its page erases and its half-written    *)
(* sections implements a memory that only remembers or forgets whole ones.  *)
THEOREM StoreImplementsMemory == Spec => ImplementsMemory
BY MemoryInit, MemoryStep, WriteInvariant, PTL DEF Spec, ImplementsMemory, Memory!Spec
=============================================================================
