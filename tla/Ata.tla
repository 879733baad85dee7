-------------------------------- MODULE Ata --------------------------------
(***************************************************************************)
(* The ATA disk driver (fs/ata.cc): one sector at a time, under a lock,    *)
(* with a semaphore that the disk's interrupt raises.  The disk is modelled*)
(* from how the driver uses it: a read is announced by an interrupt, a     *)
(* write is accepted by its status and its end announced by an interrupt.  *)
(***************************************************************************)
EXTENDS Integers

CONSTANTS
  Users,           \* the threads that use the disk
  Lbas,            \* the sectors
  Datas,           \* what may be in a sector
  NoData,          \* what is read from a disk that has nothing to read
  None,            \* no thread, no sector, and what a read writes
  MaxRequests

ASSUME AtaAssumption ==
  /\ {NoData, None} \cap Datas = {} /\ None \notin Users
  /\ MaxRequests \in Nat

VARIABLES
  at,              \* where a thread is in its request
  request,         \* of a thread: the sector, and what it writes there or None
  buf,             \* of a thread: what it has read
  disk_access_,    \* the lock: who holds it, or None
  disk_command_,   \* the count of the semaphore
  drive,           \* the disk: its status, sector and data register
  sectors,         \* what is on the disk
  irq,             \* an interrupt that is not handled yet
  requests,        \* how many requests there were
  failed           \* whether the disk has refused a write

ata == <<at, request, buf, disk_access_, disk_command_, drive, sectors, irq, requests, failed>>

Idle == [status |-> "ready", lba |-> None, data |-> NoData]

AtaInit ==
  /\ at = [u \in Users |-> "out"]
  /\ request = [u \in Users |-> [lba |-> None, data |-> None]]
  /\ buf = [u \in Users |-> NoData]
  /\ disk_access_ = None
  /\ disk_command_ = 0
  /\ drive = Idle
  /\ sectors \in [Lbas -> Datas]
  /\ irq = FALSE
  /\ requests = 0
  /\ failed = FALSE
-----------------------------------------------------------------------------
(* ReadOneSector and WriteOneSector *)

IsWrite(u) == request[u].data # None

Go(u, to) == at' = [at EXCEPT ![u] = to]

Request(u, lba, data) ==
  /\ at[u] = "out"
  /\ requests < MaxRequests
  /\ requests' = requests + 1
  /\ request' = [request EXCEPT ![u] = [lba |-> lba, data |-> data]]
  /\ Go(u, "lock")
  /\ UNCHANGED <<buf, disk_access_, disk_command_, drive, sectors, irq, failed>>

\* Fault: only writes are exclusive.
DiskAccessIsFreeOfWrites == disk_access_ # None => ~IsWrite(disk_access_)

DiskAccessIsFree == disk_access_ = None

\* From here on the interrupts of the disk go to this core.
DiskAccessDown(u) ==
  /\ at[u] = "lock"
  /\ DiskAccessIsFree
  /\ disk_access_' = u
  /\ Go(u, "command")
  /\ UNCHANGED <<request, buf, disk_command_, drive, sectors, irq, requests, failed>>

\* Fault: it waits for an interrupt, as a read does.
AfterWriteCommandDown == "down"

\* Where a write goes on from its command: it polls until the disk is ready for the
\* data.
AfterWriteCommand == "poll"

Command(u) ==
  /\ at[u] = "command"
  /\ drive' = [status |-> IF IsWrite(u) THEN "writing" ELSE "reading",
               lba |-> request[u].lba, data |-> NoData]
  /\ Go(u, IF IsWrite(u) THEN AfterWriteCommand ELSE "down")
  /\ UNCHANGED <<request, buf, disk_access_, disk_command_, sectors, irq, requests, failed>>

\* A write that fails does not wait for the interrupt.
Poll(u) ==
  /\ at[u] = "poll"
  /\ \/ /\ drive.status = "error"
        /\ Go(u, "unlock")
        /\ drive' = Idle
     \/ /\ drive.status = "write_data"
        /\ drive' = [drive EXCEPT !.status = "writing", !.data = request[u].data]
        /\ Go(u, "busy")
  /\ UNCHANGED <<request, buf, disk_access_, disk_command_, sectors, irq, requests, failed>>

\* Until BSY clears.
WaitBusy(u) ==
  /\ at[u] = "busy"
  /\ drive.status = "ready"
  /\ Go(u, "down")
  /\ UNCHANGED <<request, buf, disk_access_, disk_command_, drive, sectors, irq, requests, failed>>

DiskCommandDown(u) ==
  /\ at[u] = "down"
  /\ disk_command_ > 0
  /\ disk_command_' = disk_command_ - 1
  /\ Go(u, IF IsWrite(u) THEN "unlock" ELSE "data")
  /\ UNCHANGED <<request, buf, disk_access_, drive, sectors, irq, requests, failed>>

ReadData(u) ==
  /\ at[u] = "data"
  /\ buf' = [buf EXCEPT ![u] = drive.data]
  /\ drive' = IF drive.status = "read_data" THEN Idle ELSE drive
  /\ Go(u, "unlock")
  /\ UNCHANGED <<request, disk_access_, disk_command_, sectors, irq, requests, failed>>

DiskAccessUp(u) ==
  /\ at[u] = "unlock"
  /\ disk_access_' = None
  /\ Go(u, "out")
  /\ UNCHANGED <<request, buf, disk_command_, drive, sectors, irq, requests, failed>>
-----------------------------------------------------------------------------
(* The disk and its interrupt *)

DriveRead ==
  /\ drive.status = "reading"
  /\ drive' = [drive EXCEPT !.status = "read_data", !.data = sectors[drive.lba]]
  /\ irq' = TRUE
  /\ UNCHANGED <<at, request, buf, disk_access_, disk_command_, sectors, requests, failed>>

DriveAccepts ==
  /\ drive.status = "writing" /\ drive.data = NoData
  /\ drive' = [drive EXCEPT !.status = "write_data"]
  /\ UNCHANGED <<at, request, buf, disk_access_, disk_command_, sectors, irq, requests, failed>>

DriveRefuses ==
  /\ ~failed
  /\ drive.status = "writing" /\ drive.data = NoData
  /\ drive' = [drive EXCEPT !.status = "error"]
  /\ irq' = TRUE
  /\ failed' = TRUE
  /\ UNCHANGED <<at, request, buf, disk_access_, disk_command_, sectors, requests>>

DriveWrites ==
  /\ drive.status = "writing" /\ drive.data # NoData
  /\ sectors' = [sectors EXCEPT ![drive.lba] = drive.data]
  /\ drive' = Idle
  /\ irq' = TRUE
  /\ UNCHANGED <<at, request, buf, disk_access_, disk_command_, requests, failed>>

ATAHandler ==
  /\ irq
  /\ irq' = FALSE
  /\ disk_command_' = disk_command_ + 1
  /\ UNCHANGED <<at, request, buf, disk_access_, drive, sectors, requests, failed>>
-----------------------------------------------------------------------------
UserStep(u) == DiskAccessDown(u) \/ Command(u) \/ Poll(u) \/ WaitBusy(u) \/ DiskCommandDown(u)
               \/ ReadData(u) \/ DiskAccessUp(u)
DriveStep == DriveRead \/ DriveAccepts \/ DriveRefuses \/ DriveWrites

AtaNext ==
  \/ \E u \in Users, lba \in Lbas, data \in Datas \cup {None} : Request(u, lba, data)
  \/ \E u \in Users : UserStep(u)
  \/ DriveStep
  \/ ATAHandler
-----------------------------------------------------------------------------
(* Properties *)

\* When a thread is about to give the disk back, a read has what is in its sector and
\* a write is on the disk, whoever else is waiting and whatever came before: as long
\* as the disk refuses nothing.  After a refused write the semaphore's count stays one
\* too high, and the next read does not wait for its data.
Transferred(u) == IF IsWrite(u) THEN sectors[request[u].lba] = request[u].data
                  ELSE buf[u] = sectors[request[u].lba]
SectorTransferred == \A u \in Users : at[u] = "unlock" /\ ~failed => Transferred(u)

\* Every request comes to an end, also those after a refused write.
RequestsEnd == \A u \in Users : at[u] # "out" ~> at[u] = "out"
=============================================================================
