---------------------------- MODULE DeviceProofs ----------------------------
(***************************************************************************)
(* Theorems about the disk driver and about how the cores come up, for any *)
(* number of threads, sectors and cores and any length of a run.           *)
(***************************************************************************)
EXTENDS Timer, Ata, TLAPS

-----------------------------------------------------------------------------
(* The disk *)

Requested == [lba : Lbas, data : Datas \cup {None}]

Places == {"out", "lock", "command", "poll", "busy", "down", "data", "unlock"}

Statuses == {"ready", "reading", "read_data", "writing", "write_data", "error"}

Drives == [status : Statuses, lba : Lbas \cup {None}, data : Datas \cup {NoData}]

DriveOK ==
  /\ drive \in Drives
  /\ drive.status # "ready" => drive.lba \in Lbas

AtaTypeOK ==
  /\ at \in [Users -> Places]
  /\ request \in [Users -> Requested \cup {[lba |-> None, data |-> None]}]
  /\ buf \in [Users -> Datas \cup {NoData}]
  /\ disk_access_ \in Users \cup {None}
  /\ disk_command_ \in Nat
  /\ DriveOK
  /\ sectors \in [Lbas -> Datas]
  /\ irq \in BOOLEAN
  /\ failed \in BOOLEAN

\* A thread that is past the lock holds it, and what it works on is a request.
HolderOnly ==
  \A u \in Users : /\ at[u] \notin {"out", "lock"} <=> disk_access_ = u
                   /\ at[u] # "out" => request[u] \in Requested
                   /\ at[u] = "poll" => IsWrite(u)

\* There is no interrupt, handled or not, that nobody has waited for; or just one.
NoIrq == ~irq /\ disk_command_ = 0
OneIrq == \/ irq /\ disk_command_ = 0
          \/ ~irq /\ disk_command_ = 1

\* The drive does what the thread u waits for.
Works(u, status, data) == drive = [status |-> status, lba |-> request[u].lba, data |-> data]

\* What the drive and its interrupt have done for a thread at every place between
\* the lock and the unlock.
WriteInStep(u) ==
  /\ at[u] = "poll" => NoIrq /\ (Works(u, "writing", NoData) \/ Works(u, "write_data", NoData))
  /\ at[u] = "busy" => \/ NoIrq /\ Works(u, "writing", request[u].data)
                       \/ OneIrq /\ drive = Idle /\ Transferred(u)
  /\ at[u] = "down" => OneIrq /\ drive = Idle /\ Transferred(u)
  /\ at[u] # "data"

ReadInStep(u) ==
  /\ at[u] \notin {"poll", "busy"}
  /\ at[u] = "down" =>
       \/ NoIrq /\ Works(u, "reading", NoData)
       \/ OneIrq /\ Works(u, "read_data", sectors[request[u].lba])
  /\ at[u] = "data" => NoIrq /\ Works(u, "read_data", sectors[request[u].lba])

InStep(u) ==
  /\ at[u] = "command" => NoIrq /\ drive = Idle
  /\ at[u] = "unlock" => NoIrq /\ drive = Idle /\ Transferred(u)
  /\ IF IsWrite(u) THEN WriteInStep(u) ELSE ReadInStep(u)

\* The driver and the drive keep in step until the drive refuses a write.
AtaInStep ==
  ~failed => /\ disk_access_ = None => NoIrq /\ drive = Idle
             /\ \A u \in Users : disk_access_ = u => InStep(u)

AtaInv == AtaTypeOK /\ HolderOnly /\ AtaInStep

\* A drive of which parts are changed, part by part.
LEMMA DriveParts ==
  ASSUME NEW d \in Drives, NEW s, NEW x
  PROVE  /\ d = [status |-> d.status, lba |-> d.lba, data |-> d.data]
         /\ [d EXCEPT !.status = s] = [status |-> s, lba |-> d.lba, data |-> d.data]
         /\ [d EXCEPT !.status = s, !.data = x] = [status |-> s, lba |-> d.lba, data |-> x]
  <1>1. PICK a \in Statuses, b \in Lbas \cup {None}, c \in Datas \cup {NoData} :
          d = [status |-> a, lba |-> b, data |-> c]
    BY DEF Drives
  <1>2. d.status = a /\ d.lba = b /\ d.data = c
    BY <1>1
  <1>3. [d EXCEPT !.status = s] = [status |-> s, lba |-> b, data |-> c]
    BY <1>1
  <1>4. [d EXCEPT !.status = s, !.data = x] = [[d EXCEPT !.status = s] EXCEPT !.data = x]
    BY <1>1
  <1>5. [[status |-> s, lba |-> b, data |-> c] EXCEPT !.data = x]
          = [status |-> s, lba |-> b, data |-> x]
    OBVIOUS
  <1> QED
    BY <1>1, <1>2, <1>3, <1>4, <1>5

LEMMA AtaInitInv == AtaInit => AtaInv
  <1> SUFFICES ASSUME AtaInit PROVE AtaInv
    OBVIOUS
  <1>1. AtaTypeOK
    BY DEF AtaInit, AtaTypeOK, Places, Idle, DriveOK, Drives, Statuses
  <1>2. HolderOnly
    BY AtaAssumption DEF AtaInit, HolderOnly
  <1>3. AtaInStep
    BY AtaAssumption DEF AtaInit, AtaInStep, NoIrq
  <1> QED
    BY <1>1, <1>2, <1>3 DEF AtaInv

\* A new request does not disturb the thread that has the disk.
LEMMA RequestStep ==
  ASSUME AtaInv, NEW u \in Users, NEW lba \in Lbas, NEW data \in Datas \cup {None},
         Request(u, lba, data)
  PROVE  AtaInv'
  <1>1. AtaTypeOK' /\ HolderOnly'
    BY DEF AtaInv, AtaTypeOK, HolderOnly, Request, Go, Places, Requested, DriveOK, IsWrite
  <1>2. ASSUME NEW v \in Users, disk_access_' = v, InStep(v) PROVE InStep(v)'
    <2>1. v # u /\ at'[v] = at[v] /\ request'[v] = request[v]
      BY <1>2 DEF AtaInv, AtaTypeOK, HolderOnly, Request, Go
    <2> QED
      BY <1>2, <2>1 DEF Request, InStep, WriteInStep, ReadInStep, IsWrite, Works, NoIrq, OneIrq,
        Transferred
  <1> QED
    BY <1>1, <1>2 DEF AtaInv, AtaInStep, Request, NoIrq

\* The step of a thread that has the disk keeps every other thread out.
LEMMA HolderSteps ==
  ASSUME AtaInv, NEW u \in Users,
         Command(u) \/ Poll(u) \/ WaitBusy(u) \/ DiskCommandDown(u) \/ ReadData(u)
  PROVE  AtaInv'
  <1>1. disk_access_ = u /\ request[u] \in Requested /\ UNCHANGED <<disk_access_, request, failed>>
    BY DEF AtaInv, HolderOnly, AtaTypeOK, Command, Poll, WaitBusy, DiskCommandDown, ReadData
  <1>2. /\ at' \in [Users -> Places] /\ at'[u] \notin {"out", "lock"}
        /\ \A v \in Users : v # u => at'[v] = at[v]
    BY DEF AtaInv, HolderOnly, AtaTypeOK, Places, Go, Command, Poll, WaitBusy, DiskCommandDown,
      ReadData, AfterWriteCommand
  <1>3. AtaTypeOK'
    <2>1. DriveOK'
      <3>1. CASE Poll(u)
        <4>1. request[u].data \in Datas
          BY <1>1, <3>1 DEF Poll, IsWrite, Requested, AtaInv, HolderOnly
        <4>2. drive \in Drives /\ (drive.status # "ready" => drive.lba \in Lbas)
          BY DEF AtaInv, AtaTypeOK, DriveOK
        <4>3. \/ drive' = [status |-> "writing", lba |-> drive.lba, data |-> request[u].data]
                 /\ drive.status # "ready"
              \/ drive' = Idle
          BY <4>2, <3>1, DriveParts DEF Poll
        <4> QED
          BY <4>1, <4>2, <4>3 DEF DriveOK, Drives, Statuses, Idle
      <3>2. CASE Command(u)
        BY <3>2, <1>1 DEF AtaInv, AtaTypeOK, DriveOK, Drives, Statuses, Requested, Command
      <3> QED
        BY <3>1, <3>2 DEF AtaInv, AtaTypeOK, DriveOK, Drives, Statuses, Idle, WaitBusy,
          DiskCommandDown, ReadData
    <2>2. disk_command_' \in Nat /\ buf' \in [Users -> Datas \cup {NoData}]
      <3>1. disk_command_' \in Nat
        BY DEF AtaInv, AtaTypeOK, Command, Poll, WaitBusy, DiskCommandDown, ReadData
      <3>2. drive.data \in Datas \cup {NoData} /\ buf \in [Users -> Datas \cup {NoData}]
        BY DEF AtaInv, AtaTypeOK, DriveOK, Drives
      <3> QED
        BY <3>1, <3>2 DEF Command, Poll, WaitBusy, DiskCommandDown, ReadData
    <2>3. UNCHANGED <<sectors, irq>>
      BY DEF Command, Poll, WaitBusy, DiskCommandDown, ReadData
    <2> QED
      BY <1>1, <1>2, <2>1, <2>2, <2>3 DEF AtaInv, AtaTypeOK
  <1>4. HolderOnly'
    <2>1. at'[u] = "poll" => IsWrite(u)
      BY DEF AtaInv, HolderOnly, AtaTypeOK, Go, Command, Poll, WaitBusy, DiskCommandDown, ReadData
    <2> QED
      BY <1>1, <1>2, <2>1 DEF AtaInv, HolderOnly, IsWrite
  <1>5. ASSUME ~failed PROVE InStep(u)'
    <2>1. InStep(u)
      BY <1>1, <1>5 DEF AtaInv, AtaInStep
    <2> USE <1>1, <2>1 DEF AtaInv, AtaTypeOK, InStep, WriteInStep, ReadInStep, IsWrite, Works,
          NoIrq, OneIrq, Transferred, Go, Requested, Idle
    <2>2. CASE Command(u)
      BY <2>2 DEF Command, AfterWriteCommand
    <2>3. CASE Poll(u)
      <3>1. IsWrite(u) /\ NoIrq /\ drive.status # "error"
        BY <2>3 DEF Poll, HolderOnly
      <3>2. /\ at'[u] = "busy" /\ UNCHANGED <<irq, disk_command_>>
            /\ drive' = [drive EXCEPT !.status = "writing", !.data = request[u].data]
        BY <2>3, <3>1 DEF Poll
      <3>3. drive.lba = request[u].lba
        BY <2>3, <3>1 DEF Poll
      <3>4. Works(u, "writing", request[u].data)'
        <4>1. drive \in Drives
          BY DEF DriveOK
        <4>2. drive' = [status |-> "writing", lba |-> drive.lba, data |-> request[u].data]
          BY ONLY <4>1, <3>2, DriveParts
        <4> QED
          BY ONLY <4>2, <3>3, <1>1 DEF Works
      <3> QED
        BY <3>1, <3>2, <3>4
    <2>4. CASE WaitBusy(u)
      BY <2>4, AtaAssumption DEF WaitBusy
    <2>5. CASE DiskCommandDown(u)
      BY <2>5 DEF DiskCommandDown
    <2>6. CASE ReadData(u)
      BY <2>6 DEF ReadData
    <2> QED
      BY <2>2, <2>3, <2>4, <2>5, <2>6
  <1> QED
    BY <1>1, <1>3, <1>4, <1>5, AtaAssumption DEF AtaInv, AtaInStep

\* The disk is taken and given back as it was found.
LEMMA LockSteps ==
  ASSUME AtaInv, NEW u \in Users, DiskAccessDown(u) \/ DiskAccessUp(u)
  PROVE  AtaInv'
  <1>1. AtaTypeOK' /\ HolderOnly'
    BY AtaAssumption DEF AtaInv, AtaTypeOK, HolderOnly, DriveOK, IsWrite, DiskAccessDown,
      DiskAccessUp, DiskAccessIsFree, Go, Places
  <1>2. CASE DiskAccessDown(u)
    <2>1. at'[u] = "command" /\ disk_access_ = None /\ disk_access_' = u
          /\ UNCHANGED <<drive, irq, disk_command_, failed>>
      BY <1>2 DEF DiskAccessDown, DiskAccessIsFree, Go, AtaInv, AtaTypeOK
    <2> QED
      BY <1>1, <2>1, AtaAssumption
      DEF AtaInv, AtaInStep, InStep, WriteInStep, ReadInStep, NoIrq
  <1>3. CASE DiskAccessUp(u)
    <2>1. disk_access_ = u /\ at[u] = "unlock" /\ disk_access_' = None
          /\ UNCHANGED <<drive, irq, disk_command_, failed>>
      BY <1>3 DEF DiskAccessUp, AtaInv, HolderOnly
    <2> QED
      BY <1>1, <2>1, AtaAssumption DEF AtaInv, AtaInStep, InStep, NoIrq
  <1> QED
    BY <1>2, <1>3

\* The drive answers the one that has the disk, and its interrupt is counted.
LEMMA DriveSteps ==
  ASSUME AtaInv, DriveStep \/ ATAHandler
  PROVE  AtaInv'
  <1>1. UNCHANGED <<at, request, buf, disk_access_>>
    BY DEF DriveStep, DriveRead, DriveAccepts, DriveRefuses, DriveWrites, ATAHandler
  <1>2. HolderOnly'
    BY <1>1 DEF AtaInv, HolderOnly, IsWrite
  <1>3. AtaTypeOK'
    <2>1. /\ drive \in Drives /\ (drive.status # "ready" => drive.lba \in Lbas)
          /\ sectors \in [Lbas -> Datas] /\ irq \in BOOLEAN /\ failed \in BOOLEAN
          /\ disk_command_ \in Nat
      BY DEF AtaInv, AtaTypeOK, DriveOK
    <2>2. DriveOK' /\ sectors' \in [Lbas -> Datas]
      <3>1. CASE DriveRead
        <4>1. drive.lba \in Lbas /\ sectors[drive.lba] \in Datas
          BY <2>1, <3>1 DEF DriveRead
        <4> QED
          BY <2>1, <3>1, <4>1, DriveParts DEF DriveRead, DriveOK, Drives, Statuses
      <3>2. CASE DriveAccepts
        BY <2>1, <3>2, DriveParts DEF DriveAccepts, DriveOK, Drives, Statuses
      <3>3. CASE DriveRefuses
        BY <2>1, <3>3, DriveParts DEF DriveRefuses, DriveOK, Drives, Statuses
      <3>4. CASE DriveWrites
        BY <2>1, <3>4 DEF DriveWrites, DriveOK, Drives, Statuses, Idle
      <3>5. CASE ATAHandler
        BY <2>1, <3>5 DEF ATAHandler, DriveOK
      <3> QED
        BY <3>1, <3>2, <3>3, <3>4, <3>5 DEF DriveStep
    <2>3. irq' \in BOOLEAN /\ failed' \in BOOLEAN /\ disk_command_' \in Nat
      <3>1. CASE DriveStep
        BY <2>1, <3>1 DEF DriveStep, DriveRead, DriveAccepts, DriveRefuses, DriveWrites
      <3>2. CASE ATAHandler
        <4>1. irq' = FALSE /\ disk_command_' = disk_command_ + 1 /\ failed' = failed
          BY <3>2 DEF ATAHandler
        <4>2. disk_command_' \in Nat
          BY <2>1, <4>1
        <4>3. irq' \in BOOLEAN /\ failed' \in BOOLEAN
          BY <2>1, <4>1, Zenon
        <4> QED
          BY <4>2, <4>3
      <3> QED
        BY <3>1, <3>2
    <2> QED
      BY <1>1, <2>2, <2>3 DEF AtaInv, AtaTypeOK
  <1>4. ASSUME ~failed' PROVE disk_access_ = None => NoIrq' /\ drive' = Idle
    BY <1>4 DEF AtaInv, AtaInStep, DriveStep, DriveRead, DriveAccepts, DriveRefuses, DriveWrites,
      ATAHandler, Idle, NoIrq
  <1>5. ASSUME ~failed', NEW u \in Users, disk_access_ = u PROVE InStep(u)'
    <2>1. ~failed /\ InStep(u)
      BY <1>5 DEF AtaInv, AtaInStep, DriveStep, DriveRead, DriveAccepts, DriveRefuses,
        DriveWrites, ATAHandler
    <2> USE <1>1, <2>1 DEF InStep, WriteInStep, ReadInStep, IsWrite, Works, NoIrq, OneIrq,
          Transferred
    <2>0. /\ drive \in Drives /\ sectors \in [Lbas -> Datas] /\ disk_command_ \in Nat
          /\ at[u] \in {"command", "poll", "busy", "down", "data", "unlock"}
          /\ request[u] \in Requested
      BY <1>5 DEF AtaInv, AtaTypeOK, DriveOK, HolderOnly, Places
    <2>2. CASE DriveRead
      <3>1. /\ at[u] = "down" /\ ~IsWrite(u) /\ NoIrq /\ drive.lba = request[u].lba
            /\ irq' /\ UNCHANGED <<disk_command_, sectors>>
            /\ drive' = [drive EXCEPT !.status = "read_data", !.data = sectors[drive.lba]]
        BY <2>0, <2>2 DEF DriveRead, Idle
      <3> QED
        BY <2>0, <3>1, DriveParts
    <2>3. CASE DriveAccepts
      <3>1. /\ at[u] = "poll" /\ IsWrite(u) /\ NoIrq /\ Works(u, "writing", NoData)
            /\ UNCHANGED <<disk_command_, irq, sectors>>
            /\ drive' = [drive EXCEPT !.status = "write_data"]
        BY <2>0, <2>3, AtaAssumption DEF DriveAccepts, Idle, Requested
      <3> QED
        BY <2>0, <3>1, DriveParts
    <2>4. CASE DriveWrites
      <3>1. /\ at[u] = "busy" /\ IsWrite(u) /\ NoIrq /\ Works(u, "writing", request[u].data)
        BY <2>0, <2>4 DEF DriveWrites, Idle
      <3>2. /\ drive.lba = request[u].lba /\ drive.data = request[u].data
            /\ request[u].lba \in Lbas
        BY <2>0, <3>1 DEF Requested
      <3> QED
        BY <2>0, <3>1, <3>2, <2>4 DEF DriveWrites, Idle
    <2>5. CASE ATAHandler
      BY <2>0, <2>5 DEF ATAHandler, Idle
    <2> QED
      BY <1>5, <2>2, <2>3, <2>4, <2>5 DEF DriveStep, DriveRefuses
  <1> QED
    BY <1>1, <1>2, <1>3, <1>4, <1>5 DEF AtaInv, AtaInStep

LEMMA AtaStep == AtaInv /\ [AtaNext]_ata => AtaInv'
  <1> SUFFICES ASSUME AtaInv, [AtaNext]_ata PROVE AtaInv'
    OBVIOUS
  <1>1. CASE AtaNext
    BY <1>1, RequestStep, HolderSteps, LockSteps, DriveSteps DEF AtaNext, UserStep
  <1>2. CASE UNCHANGED ata
    BY <1>2 DEF ata, AtaInv, AtaTypeOK, DriveOK, HolderOnly, AtaInStep, InStep, WriteInStep,
      ReadInStep, IsWrite, Works, NoIrq, OneIrq, Transferred
  <1> QED
    BY <1>1, <1>2

\* Whatever threads read and write at the same time, and in whatever order the drive
\* and its interrupts come, a read returns its sector and a write is on the disk when
\* the disk is given back, until the drive has refused a write.
THEOREM SectorsTransferred == AtaInit /\ [][AtaNext]_ata => []SectorTransferred
  <1>1. AtaInv => SectorTransferred
    BY DEF AtaInv, HolderOnly, AtaInStep, InStep, SectorTransferred
  <1> QED
    BY <1>1, AtaInitInv, AtaStep, PTL

-----------------------------------------------------------------------------
(* The boot of the cores *)

BootTypeOK ==
  /\ boot \in [Cores -> {"off", "sipi", "wait", "enqueue", "count", "wake", "up"}]
  /\ waking \in Cores
  /\ context \in [Cores -> Cores \cup {NoCore}]
  /\ ap_boot_done \in [Cores -> BOOLEAN]

\* All APs find their context at one address, so that there must be one AP at a time
\* between its wake-up and ap_boot_done; and who sets ap_boot_done is the AP itself.
OneApAtATime ==
  /\ \A c \in Cores : c > waking => boot[c] = "off"
  /\ \A c \in Cores : boot[c] = "sipi" =>
       /\ c = waking
       /\ c # BSP
       /\ context_slot = c
       /\ ~ap_boot_done[c]

DoneByItself ==
  /\ \A c \in Cores : context[c] \in {NoCore, c}
  /\ \A c \in Cores : boot[c] = "wait" => context[c] = c
  /\ \A c \in Cores : ap_boot_done[c] => boot[c] \notin {"off", "sipi"}

BootInv == BootTypeOK /\ OneApAtATime /\ DoneByItself

LEMMA BootInitInv == TimerInit => BootInv
  BY TimerAssumption
  DEF TimerInit, BootInv, BootTypeOK, OneApAtATime, DoneByItself, Cores, BSP, NoCore

LEMMA BootStepInv == BootInv /\ [TimerNext]_timer => BootInv'
  <1> SUFFICES ASSUME BootInv, [TimerNext]_timer PROVE BootInv'
    OBVIOUS
  <1> USE TimerAssumption DEF BootInv, BootTypeOK, OneApAtATime, DoneByItself, Cores, BSP, NoCore
  <1>1. ASSUME UNCHANGED <<boot, waking, context_slot, context, ap_boot_done>> PROVE BootInv'
    BY <1>1
  <1>2. ASSUME NEW c \in Cores, RegisterAlarmClock(c) PROVE BootInv'
    BY <1>2 DEF RegisterAlarmClock
  <1>3. ASSUME NEW c \in Cores, CountCore(c) PROVE BootInv'
    BY <1>3 DEF CountCore
  <1>4. CASE WakeUpCore
    BY <1>4 DEF WakeUpCore, ApIsReady
  <1>5. CASE EnableMulticore
    BY <1>5 DEF EnableMulticore
  <1>6. ASSUME NEW c \in Cores, LoadContext(c) PROVE BootInv'
    BY <1>6 DEF LoadContext
  <1>7. ASSUME NEW c \in Cores, ApBootDone(c) PROVE BootInv'
    BY <1>7 DEF ApBootDone
  <1>8. ASSUME NEW c \in Cores, MulticoreIsEnabled(c) PROVE BootInv'
    BY <1>8 DEF MulticoreIsEnabled
  <1>9. ASSUME NEW c \in Cores, ClockStep(c) \/ TimerInterrupt(c) PROVE BootInv'
    BY <1>1, <1>9 DEF ClockStep, ClockDown, HandleWaitingThreads, TimerInterrupt, boots
  <1>10. ASSUME NEW t \in Sleepers, NEW n \in Ticks, Sleep(t, n) PROVE BootInv'
    BY <1>1, <1>10 DEF Sleep, boots
  <1>11. ASSUME NEW t \in Sleepers, SleepDown(t) PROVE BootInv'
    BY <1>1, <1>11 DEF SleepDown, boots
  <1> QED
    BY <1>1, <1>2, <1>3, <1>4, <1>5, <1>6, <1>7, <1>8, <1>9, <1>10, <1>11
    DEF TimerNext, BootStep, timer, boots

\* An AP comes up with the context that was made for it, however long the cores take
\* for each of their steps: the BSP puts the next context at 0x199B only when the AP
\* before has said through its own context that it has loaded it.
THEOREM ContextIsOwn == TimerInit /\ [][TimerNext]_timer => []OwnContext
  <1>1. BootInv => OwnContext
    BY DEF BootInv, DoneByItself, OwnContext
  <1> QED
    BY <1>1, BootInitInv, BootStepInv, PTL

=============================================================================
