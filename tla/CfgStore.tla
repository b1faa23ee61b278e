------------------------------ MODULE CfgStore ------------------------------
(***************************************************************************)
(* The configuration in RAM and in flash: the boot that reads the four     *)
(* pages (Ctroler_Init), the installation of a section sent by the cloud   *)
(* (Commu_Recv_Proc, Contrler_Cfg_Save) and Flash_Write, which erases a    *)
(* page and programs it from its first byte to its last.  Power may fail   *)
(* between any two of these steps.  A section ends with the time it was    *)
(* saved; boot takes a section whose time Verify_RtcTime accepts.          *)
(***************************************************************************)
EXTENDS Naturals, Sequences

CONSTANTS
  BODIES,         \* contents of a section the cloud may send
  INSTALL_TIMES,  \* save times the cloud may send with a section
  RTC_TIMES,      \* readings of the clock chip at boot
  MAX_INSTALL,    \* bound: sections installed
  MAX_FAULT       \* bound: power failures, flash errors, failed allocations

\* The save time: year, month, day, hour, minute, second, a byte each.
Time == [1..6 -> 0..255]

ASSUME CfgAssumption ==
  /\ INSTALL_TIMES \subseteq Time
  /\ RTC_TIMES \subseteq Time
  /\ MAX_INSTALL \in Nat
  /\ MAX_FAULT \in Nat

VARIABLES
  ram,        \* the configuration in use, by section
  flash,      \* the content of the flash, by section
  bootAt,     \* 0: no power; 1..4: the page boot is at; 5: the threads run
  rtcTime,    \* the clock as read at the start of the boot
  job,        \* the Flash_Write under way
  installs,   \* bounds
  faults,
  installed,  \* history: the sections the cloud has sent
  last,       \* history: the section sent last
  hurt        \* history: pages whose writing or reading was interrupted or failed

vars == <<ram, flash, bootAt, rtcTime, job, installs, faults, installed, last, hurt>>
history == <<installed, last, hurt>>

(***************************************************************************)
(* Pages and sections, in the order of the structures and of the boot.     *)
(***************************************************************************)
Page == {"DEV", "CTRL", "ALARM", "ROOM"}
BootOrder == <<"DEV", "CTRL", "ALARM", "ROOM">>
CtrlOrder == <<"targetTemper", "airCtrl", "humiCtrl", "heaterCtrl", "lightCtrl">>
Order(p) == CASE p = "DEV"   -> <<"dev">>
              [] p = "CTRL"  -> CtrlOrder
              [] p = "ALARM" -> <<"alarm">>
              [] p = "ROOM"  -> <<"room">>
CtrlSection == {"targetTemper", "airCtrl", "humiCtrl", "heaterCtrl", "lightCtrl"}
SectionsOf(p) == CASE p = "DEV"   -> {"dev"}
                   [] p = "CTRL"  -> CtrlSection
                   [] p = "ALARM" -> {"alarm"}
                   [] p = "ROOM"  -> {"room"}
Section == CtrlSection \cup {"dev", "alarm", "room"}

Value == [body : BODIES \cup {"zero", "blank", "default"}, saveTime : Time]
NoTime == [i \in 1..6 |-> 0]
Zero  == [body |-> "zero", saveTime |-> NoTime]
Blank == [body |-> "blank", saveTime |-> [i \in 1..6 |-> 255]]
NoJob == [op |-> "none", page |-> "CTRL", todo |-> << >>, half |-> FALSE]

\* Mutant: no upper limits, so erased bytes pass.
Verify_RtcTimeLowerOnly(t) == \A i \in 2..6 : t[i] >= 1

Verify_RtcTime(t) ==
  /\ t[2] \in 1..12
  /\ t[3] \in 1..30
  /\ \A i \in 4..6 : t[i] \in 1..59

\* The settings boot falls back to; "dev" and "alarm" get the time of the boot.
DefaultTime(s, rtc) ==
  CASE s = "targetTemper" -> <<20, 7, 13, 10, 30, 31>>
    [] s = "airCtrl"      -> <<20, 7, 13, 10, 30, 32>>
    [] s = "humiCtrl"     -> <<20, 7, 13, 10, 30, 33>>
    [] s = "heaterCtrl"   -> <<20, 7, 13, 10, 30, 34>>
    [] s = "lightCtrl"    -> <<20, 7, 13, 10, 30, 31>>
    [] s = "room"         -> <<20, 7, 20, 8, 0, 0>>
    [] OTHER              -> rtc
Default(s, rtc) == [body |-> "default", saveTime |-> DefaultTime(s, rtc)]

Init ==
  /\ ram = [s \in Section |-> Zero]
  /\ flash = [s \in Section |-> Blank]
  /\ bootAt = 0
  /\ rtcTime = NoTime
  /\ job = NoJob
  /\ installs = 0
  /\ faults = 0
  /\ installed = {}
  /\ last = [s \in Section |-> Blank]
  /\ hurt = {}

(***************************************************************************)
(* Boot: Ctroler_Init reads the clock and then one page after the other.   *)
(***************************************************************************)
PowerUp ==
  /\ bootAt = 0
  /\ bootAt' = 1
  /\ rtcTime' \in RTC_TIMES
  /\ UNCHANGED <<ram, flash, job, installs, faults, history>>

\* Mutant: one rejected section resets all of its page.
LoadedTogether(s) ==
  LET p == CHOOSE q \in Page : s \in SectionsOf(q) IN
  IF \A r \in SectionsOf(p) : Verify_RtcTime(flash[r].saveTime)
  THEN flash[s] ELSE Default(s, rtcTime)

\* Mutant: a rejected section keeps its content and only gets a new time.
LoadedRestamped(s) ==
  IF Verify_RtcTime(flash[s].saveTime) THEN flash[s]
  ELSE [flash[s] EXCEPT !.saveTime = DefaultTime(s, rtcTime)]

\* The section boot puts to use: the stored one if its time is accepted.
Loaded(s) == IF Verify_RtcTime(flash[s].saveTime) THEN flash[s] ELSE Default(s, rtcTime)

\* The control page is written back at every boot, the others only when their
\* time is rejected.
WritesBack(p) == p = "CTRL" \/ \E s \in SectionsOf(p) : ~Verify_RtcTime(flash[s].saveTime)

StartWrite(p) == [op |-> "erase", page |-> p, todo |-> << >>, half |-> FALSE]

LoadPage ==
  /\ bootAt \in 1..4
  /\ job = NoJob
  /\ LET p == BootOrder[bootAt] IN
       /\ ram' = [s \in Section |-> IF s \in SectionsOf(p) THEN Loaded(s) ELSE ram[s]]
       /\ IF WritesBack(p)
          THEN job' = StartWrite(p) /\ UNCHANGED bootAt
          ELSE bootAt' = bootAt + 1 /\ UNCHANGED job
  /\ UNCHANGED <<flash, rtcTime, installs, faults, history>>

\* No buffer for the page: the initialisation returns and the page keeps zeros.
LoadNoMemory ==
  /\ bootAt \in 1..4
  /\ job = NoJob
  /\ faults < MAX_FAULT
  /\ faults' = faults + 1
  /\ bootAt' = bootAt + 1
  /\ hurt' = hurt \cup {BootOrder[bootAt]}
  /\ UNCHANGED <<ram, flash, rtcTime, job, installs, installed, last>>

(***************************************************************************)
(* A section with a correct frame arrives in thread eSim, is put to use    *)
(* and the control page is saved.                                          *)
(***************************************************************************)
Install(s, v) ==
  /\ bootAt = 5
  /\ job = NoJob
  /\ installs < MAX_INSTALL
  /\ installs' = installs + 1
  /\ ram' = [ram EXCEPT ![s] = v]
  /\ job' = StartWrite("CTRL")
  /\ installed' = installed \cup {<<s, v>>}
  /\ last' = [last EXCEPT ![s] = v]
  /\ UNCHANGED <<flash, bootAt, rtcTime, faults, hurt>>

(***************************************************************************)
(* Flash_Write.  Its result is not looked at: boot and thread go on.       *)
(***************************************************************************)
\* Mutant: a finished write always advances the boot.
WriteDoneAlways == job' = NoJob /\ bootAt' = bootAt + 1

\* Mutant: after writing the page back boot starts over with it.
WriteDoneAgain == job' = NoJob /\ UNCHANGED bootAt

WriteDone ==
  /\ job' = NoJob
  /\ bootAt' = IF bootAt \in 1..4 THEN bootAt + 1 ELSE bootAt

ErasePage ==
  /\ job.op = "erase"
  /\ flash' = [s \in Section |-> IF s \in SectionsOf(job.page) THEN Blank ELSE flash[s]]
  /\ job' = [job EXCEPT !.op = "program", !.todo = Order(job.page)]
  /\ UNCHANGED <<ram, bootAt, rtcTime, installs, faults, history>>

EraseFails ==
  /\ job.op = "erase"
  /\ faults < MAX_FAULT
  /\ faults' = faults + 1
  /\ hurt' = hurt \cup {job.page}
  /\ WriteDone
  /\ UNCHANGED <<ram, flash, rtcTime, installs, installed, last>>

\* The half words of a section up to its time ...
ProgramBody ==
  /\ job.op = "program"
  /\ ~job.half
  /\ flash' = [flash EXCEPT ![Head(job.todo)].body = ram[Head(job.todo)].body]
  /\ job' = [job EXCEPT !.half = TRUE]
  /\ UNCHANGED <<ram, bootAt, rtcTime, installs, faults, history>>

\* ... and the time, its last bytes.
ProgramTime ==
  /\ job.op = "program"
  /\ job.half
  /\ flash' = [flash EXCEPT ![Head(job.todo)].saveTime = ram[Head(job.todo)].saveTime]
  /\ IF Len(job.todo) = 1
     THEN WriteDone
     ELSE job' = [job EXCEPT !.half = FALSE, !.todo = Tail(@)] /\ UNCHANGED bootAt
  /\ UNCHANGED <<ram, rtcTime, installs, faults, history>>

\* A half word cannot be programmed: the loop ends, the full count is returned.
ProgramFails ==
  /\ job.op = "program"
  /\ faults < MAX_FAULT
  /\ faults' = faults + 1
  /\ hurt' = hurt \cup {job.page}
  /\ WriteDone
  /\ UNCHANGED <<ram, flash, rtcTime, installs, installed, last>>

PowerFail ==
  /\ bootAt # 0
  /\ faults < MAX_FAULT
  /\ faults' = faults + 1
  /\ bootAt' = 0
  /\ ram' = [s \in Section |-> Zero]
  /\ rtcTime' = NoTime
  /\ job' = NoJob
  /\ hurt' = IF job = NoJob THEN hurt ELSE hurt \cup {job.page}
  /\ UNCHANGED <<flash, installs, installed, last>>

WriteStep == ErasePage \/ ProgramBody \/ ProgramTime
Fault == LoadNoMemory \/ EraseFails \/ ProgramFails \/ PowerFail

Next ==
  \/ PowerUp \/ LoadPage \/ WriteStep \/ Fault
  \/ \E s \in CtrlSection, b \in BODIES, t \in INSTALL_TIMES :
       Install(s, [body |-> b, saveTime |-> t])

Spec == Init /\ [][Next]_vars

\* The boot is one thread of control that nothing but a power failure stops.
FairSpec == Spec /\ WF_vars(LoadPage) /\ WF_vars(WriteStep)

(***************************************************************************)
(* Properties.                                                             *)
(***************************************************************************)
\* Every variable keeps its type; a Flash_Write under way knows what is left.
TypeOK ==
  /\ ram \in [Section -> Value]
  /\ flash \in [Section -> Value]
  /\ bootAt \in 0..5
  /\ rtcTime \in RTC_TIMES \cup {NoTime}
  /\ job \in [op : {"none", "erase", "program"}, page : Page,
              todo : Seq(Section), half : BOOLEAN]
  /\ installs \in 0..MAX_INSTALL
  /\ faults \in 0..MAX_FAULT
  /\ installed \subseteq (Section \X Value)
  /\ last \in [Section -> Value]
  /\ hurt \subseteq Page

\* Power failures and flash errors never make the controller work with a torn
\* section: what is in use is cleared memory, a factory setting or, whole, a
\* section the cloud has sent (Flash_Write programs the time last, envir.c 122-310
\* test it at boot).
Whole(s, v) ==
  \/ v = Zero
  \/ \E rtc \in RTC_TIMES : v = Default(s, rtc)
  \/ <<s, v>> \in installed
NoTornSection == \A s \in Section : Whole(s, ram[s])

\* A section that was sent with an accepted time is in use until the next one is
\* sent, across any number of restarts, unless the handling of its page was
\* interrupted or failed (Contrler_Cfg_Save and the boot agree on page and place).
InstalledSurvives ==
  \A s \in CtrlSection :
    (bootAt = 5 /\ "CTRL" \notin hurt /\ Verify_RtcTime(last[s].saveTime))
      => ram[s] = last[s]

\* A boot that is not cut off by another power failure reaches the start of the
\* threads, whatever the flash answers (the results of Ctroler_Init are ignored).
BootCompletes == (bootAt \in 1..4) ~> (bootAt \in {0, 5})

\* The store implements ConfigMemory: torn sections cannot be seen from outside.
Kept == [s \in Section |->
           IF Verify_RtcTime(flash[s].saveTime) THEN flash[s] ELSE Blank]
Factory(s) == {Default(s, rtc) : rtc \in RTC_TIMES}
Offered(s) ==
  IF s \in CtrlSection THEN [body : BODIES, saveTime : INSTALL_TIMES] ELSE {}
Memory == INSTANCE ConfigMemory WITH
            use <- ram, kept <- Kept, Forgotten <- Blank, Cleared <- Zero
ImplementsMemory == Memory!Spec
=============================================================================
