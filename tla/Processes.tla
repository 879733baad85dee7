----------------------------- MODULE Processes -----------------------------
(***************************************************************************)
(* Processes, their descriptor tables and their exit codes: process.cc,    *)
(* file_descriptor.h and the system calls of sys/ that change them, with   *)
(* the console thread that starts programs, the thread that waits for the  *)
(* foreground process, and ctrl-c.                                         *)
(*                                                                         *)
(* Only a process changes its own table, in its own system calls; what     *)
(* processes share are the descriptors the entries point to, the exit      *)
(* codes in the parent, and the console's foreground process.  The steps   *)
(* of a call are separate actions where another core can come in between   *)
(* and see the difference.                                                 *)
(***************************************************************************)
EXTENDS Integers, FiniteSets

CONSTANTS
  Pids,         \* thread ids of processes, in the order of their creation
  MaxPrograms,  \* how many programs the console starts at most, counted in ids
  MaxDescs,     \* how many descriptors are opened at most
  MaxCalls,     \* how many times open, pipe and dup2 are called at most
  MaxKills,     \* how many times ctrl-c is pressed at most
  ExitCode(_),  \* what a program passes to exit, 64 bits wide
  IntRange,     \* the codes int can hold: 2^32 on the machine
  DupTargets(_) \* the descriptor numbers dup2 is called with, given those in the table

ASSUME ProcessesAssumption ==
  /\ Pids \subseteq Nat \ {0}
  /\ MaxPrograms \in Nat
  /\ MaxDescs \in Nat
  /\ MaxCalls \in Nat
  /\ MaxKills \in Nat
  /\ \A p \in Pids : ExitCode(p) \in Nat
  /\ IntRange \in Nat \ {0}

KernelThread == 0     \* the parent of what the console starts
NoProcess == 0
nullptr == 0
console_pipe_read_end == 1
STDIN == 0
STDOUT == 1
STDERR == 2
Descs == 1 .. (MaxDescs + 1)

VARIABLES
  phase,      \* of a process: where it is between its creation and its deletion
  parent,     \* parent_
  fd_table,   \* fd_to_desc_: descriptor numbers to descriptors
  processes,  \* of a descriptor: processes_
  num_descs,  \* how many descriptors there are, the console's included
  calls,      \* how many times open, pipe and dup2 were called
  exit_codes, \* child_to_exit_code_
  code,       \* what a process passed to exit
  waits,      \* the child a process polls for in waitpid
  status,     \* what waitpid stored, per parent and child
  killed,     \* processes that are TERMINATE_READY
  kills,      \* how many times ctrl-c was pressed
  fg_process, \* fg_process_
  joined,     \* the process the waiting thread is about to delete
  keyboard    \* the keyboard interrupt of core 0

tables == <<fd_table, processes, num_descs, calls>>
console == <<fg_process, joined, keyboard, kills>>
exits == <<exit_codes, code, waits, status>>
vars == <<phase, parent, tables, exits, killed, console>>

TypeOK ==
  /\ phase \in [Pids -> {"none", "user", "waitpid", "release", "terminate", "ended", "deleted"}]
  /\ parent \in [Pids -> Pids \cup {KernelThread}]
  /\ \A p \in Pids : fd_table[p] \in [DOMAIN fd_table[p] -> Descs \cup {nullptr}]
  /\ processes \in [Descs -> SUBSET Pids]
  /\ num_descs \in Descs
  /\ calls \in 0 .. MaxCalls
  /\ \A p \in Pids : code[p] \in {-1, ExitCode(p)}
  /\ waits \in [Pids -> Pids \cup {NoProcess}]
  /\ killed \subseteq Pids
  /\ kills \in 0 .. MaxKills
  /\ fg_process \in Pids \cup {NoProcess}
  /\ joined \in Pids \cup {NoProcess}
  /\ keyboard \in {"idle", "ctrl_c", "fault"}

Put(f, k, v) == [x \in DOMAIN f \cup {k} |-> IF x = k THEN v ELSE f[x]]
-----------------------------------------------------------------------------
(* FileDescriptorTable and FileDescriptor *)

FileDescriptorTable == [fd \in {STDIN, STDOUT, STDERR} |-> nullptr]

GetDescriptor(table, fd) == IF fd \in DOMAIN table THEN table[fd] ELSE nullptr

\* AddDescriptor: the number of a new descriptor is the number of entries.
NewFd(table) == Cardinality(DOMAIN table)
\* Fault: off by one.
AddDescriptorLast(table, desc) == Put(table, NewFd(table) - 1, desc)
AddDescriptor(table, desc) == Put(table, NewFd(table), desc)

SetDescriptor(table, fd, desc) == Put(table, fd, desc)

DescsOf(table) == {table[fd] : fd \in DOMAIN table} \ {nullptr}

AddProcessIdToDescriptors(table, pid) ==
  [d \in Descs |-> IF d \in DescsOf(table) THEN processes[d] \cup {pid} ELSE processes[d]]

\* Fault: the loop ends early.
RemoveProcessIdFromFirst(table, pid) ==
  [d \in Descs |-> IF d \in DescsOf(table) /\ \A e \in DescsOf(table) : d <= e
                   THEN processes[d] \ {pid} ELSE processes[d]]

RemoveProcessIdToDescriptors(table, pid) ==
  [d \in Descs |-> IF d \in DescsOf(table) THEN processes[d] \ {pid} ELSE processes[d]]
-----------------------------------------------------------------------------
Init ==
  /\ phase = [p \in Pids |-> "none"]
  /\ parent = [p \in Pids |-> KernelThread]
  /\ fd_table = [p \in Pids |-> FileDescriptorTable]
  /\ processes = [d \in Descs |-> {}]
  /\ num_descs = console_pipe_read_end
  /\ calls = 0
  /\ exit_codes = [p \in Pids |-> <<>>]
  /\ code = [p \in Pids |-> -1]
  /\ waits = [p \in Pids |-> NoProcess]
  /\ status = [p \in Pids |-> <<>>]
  /\ killed = {}
  /\ kills = 0
  /\ fg_process = NoProcess
  /\ joined = NoProcess
  /\ keyboard = "idle"

\* The id of the next thread.
NewPid(p) == phase[p] = "none" /\ \A q \in Pids : q < p => phase[q] # "none"
-----------------------------------------------------------------------------
(* Creation *)

\* The constructor: a child of a process gets a copy of its parent's table, and
\* the descriptors in it learn the child's id.  The console then sets stdin.
Process(p, of, table, stdin) ==
  /\ NewPid(p)
  /\ phase' = [phase EXCEPT ![p] = "user"]
  /\ parent' = [parent EXCEPT ![p] = of]
  /\ fd_table' = [fd_table EXCEPT ![p] = SetDescriptor(table, STDIN, stdin)]
  /\ processes' = AddProcessIdToDescriptors(table, p)
  /\ UNCHANGED <<num_descs, calls, exits, killed>>

\* DoParse starts a program, in the foreground only while none is there.
DoParse(p, run_as_background) ==
  /\ keyboard # "fault" /\ fg_process = NoProcess
  /\ p <= MaxPrograms
  /\ Process(p, KernelThread, FileDescriptorTable, console_pipe_read_end)
  /\ fg_process' = IF run_as_background THEN fg_process ELSE p
  /\ UNCHANGED <<joined, keyboard, kills>>

\* A system call starts in user mode, and not in a process that is to terminate.
InUser(p) == phase[p] = "user" /\ p \notin killed

SysSpawn(p, child) ==
  /\ InUser(p)
  /\ Process(child, p, fd_table[p], fd_table[p][STDIN])
  /\ UNCHANGED console
-----------------------------------------------------------------------------
(* Descriptors *)

Called == calls < MaxCalls /\ calls' = calls + 1

\* Whoever opens a descriptor is not entered in it.
SysOpen(p) ==
  /\ InUser(p)
  /\ Called
  /\ num_descs + 1 \in Descs
  /\ num_descs' = num_descs + 1
  /\ fd_table' = [fd_table EXCEPT ![p] = AddDescriptor(@, num_descs + 1)]
  /\ UNCHANGED <<phase, parent, processes, exits, killed, console>>

SysPipe(p) ==
  /\ InUser(p)
  /\ Called
  /\ num_descs + 2 \in Descs
  /\ num_descs' = num_descs + 2
  /\ fd_table' = [fd_table EXCEPT ![p] = AddDescriptor(AddDescriptor(@, num_descs + 1), num_descs + 2)]
  /\ UNCHANGED <<phase, parent, processes, exits, killed, console>>

SysDup2(p, oldfd, newfd) ==
  LET desc == GetDescriptor(fd_table[p], oldfd)
      prev == GetDescriptor(fd_table[p], newfd)
  IN  /\ InUser(p)
      /\ Called
      /\ fd_table' = [fd_table EXCEPT ![p] = SetDescriptor(@, newfd, desc)]
      /\ processes' = [d \in Descs |-> IF d = prev THEN processes[d] \ {p} ELSE processes[d]]
      /\ UNCHANGED <<phase, parent, num_descs, exits, killed, console>>
-----------------------------------------------------------------------------
(* Exit codes *)

\* The map holds ints.
\* Fault: one code for all children.
SetExitCodeOfAll(map, pid, exit_code) ==
  [q \in DOMAIN map \cup {pid} |-> exit_code % IntRange]
SetExitCode(map, pid, exit_code) == Put(map, pid, exit_code % IntRange)

\* Fault: the code is kept only when the parent waits for it already.
SysExitToWaiter(p, exit_code) ==
  /\ InUser(p)
  /\ phase' = [phase EXCEPT ![p] = "release"]
  /\ code' = [code EXCEPT ![p] = exit_code]
  /\ exit_codes' = IF parent[p] = KernelThread \/ phase[parent[p]] # "waitpid" THEN exit_codes
                   ELSE [exit_codes EXCEPT ![parent[p]] = SetExitCode(@, p, exit_code)]
  /\ UNCHANGED <<parent, tables, waits, status, killed, console>>

\* The first half of SysExit.  What is written to a parent that has been deleted
\* is written to memory of something else.
SysExit(p, exit_code) ==
  /\ InUser(p)
  /\ phase' = [phase EXCEPT ![p] = "release"]
  /\ code' = [code EXCEPT ![p] = exit_code]
  /\ exit_codes' = IF parent[p] = KernelThread \/ phase[parent[p]] = "deleted" THEN exit_codes
                   ELSE [exit_codes EXCEPT ![parent[p]] = SetExitCode(@, p, exit_code)]
  /\ UNCHANGED <<parent, tables, waits, status, killed, console>>

SysExitRelease(p) ==
  /\ phase[p] = "release"
  /\ phase' = [phase EXCEPT ![p] = "terminate"]
  /\ processes' = RemoveProcessIdToDescriptors(fd_table[p], p)
  /\ UNCHANGED <<parent, fd_table, num_descs, calls, exits, killed, console>>

Terminate(p) ==
  /\ phase[p] = "terminate"
  /\ phase' = [phase EXCEPT ![p] = "ended"]
  /\ UNCHANGED <<parent, tables, exits, killed, console>>

\* Any id may be asked for; only that of a child that exits is ever answered.
SysWaitpid(p, pid) ==
  /\ InUser(p) /\ phase[pid] # "none"
  /\ phase' = [phase EXCEPT ![p] = "waitpid"]
  /\ waits' = [waits EXCEPT ![p] = pid]
  /\ UNCHANGED <<parent, tables, exit_codes, code, status, killed, console>>

\* The loop ends when the exit code is there, whether or not ctrl-c was pressed;
\* a process that is to terminate does so on the way out of the call.
ReadExitCode(p) ==
  LET pid == waits[p]
  IN  /\ phase[p] = "waitpid"
      /\ pid \in DOMAIN exit_codes[p]
      /\ status' = [status EXCEPT ![p] = Put(@, pid, exit_codes[p][pid])]
      /\ waits' = [waits EXCEPT ![p] = NoProcess]
      /\ phase' = [phase EXCEPT ![p] = IF p \in killed THEN "ended" ELSE "user"]
      /\ UNCHANGED <<parent, tables, exit_codes, code, killed, console>>

\* A killed process ends at its next time slice in user mode or system call.
MakeTerminate(p) ==
  /\ phase[p] = "user" /\ p \in killed
  /\ phase' = [phase EXCEPT ![p] = "ended"]
  /\ UNCHANGED <<parent, tables, exits, killed, console>>
-----------------------------------------------------------------------------
(* The foreground process *)

\* The keyboard interrupt reads fg_process_ to see whether there is one, and
\* again to mark it.  A thread that has ended stays ended.
AddKeyStrokeCtrlC ==
  /\ keyboard = "idle" /\ kills < MaxKills /\ fg_process # NoProcess
  /\ keyboard' = "ctrl_c"
  /\ kills' = kills + 1
  /\ UNCHANGED <<phase, parent, tables, exits, killed, fg_process, joined>>

MakeTerminateReady ==
  /\ keyboard = "ctrl_c"
  /\ keyboard' = IF fg_process = NoProcess THEN "fault" ELSE "idle"
  /\ killed' = killed \cup ({fg_process} \ {NoProcess})
  /\ UNCHANGED <<phase, parent, tables, exits, fg_process, joined, kills>>

\* The thread that waits for the foreground process.
JoinFgProcess ==
  /\ joined = NoProcess /\ fg_process # NoProcess /\ phase[fg_process] = "ended"
  /\ joined' = fg_process
  /\ fg_process' = NoProcess
  /\ UNCHANGED <<phase, parent, tables, exits, killed, keyboard, kills>>

DeleteFgProcess ==
  /\ joined # NoProcess
  /\ phase' = [phase EXCEPT ![joined] = "deleted"]
  /\ joined' = NoProcess
  /\ UNCHANGED <<parent, tables, exits, killed, fg_process, keyboard, kills>>
-----------------------------------------------------------------------------
\* What the kernel does of itself.
KernelStep(p) == SysExitRelease(p) \/ Terminate(p) \/ ReadExitCode(p) \/ MakeTerminate(p)

Next ==
  \/ \E p \in Pids, b \in BOOLEAN : DoParse(p, b)
  \/ \E p, child \in Pids : SysSpawn(p, child)
  \/ \E p \in Pids : SysOpen(p)
  \/ \E p \in Pids : SysPipe(p)
  \/ \E p \in Pids : \E old, new \in DupTargets(DOMAIN fd_table[p]) : SysDup2(p, old, new)
  \/ \E p \in Pids : SysExit(p, ExitCode(p))
  \/ \E p, pid \in Pids : SysWaitpid(p, pid)
  \/ \E p \in Pids : KernelStep(p)
  \/ AddKeyStrokeCtrlC
  \/ MakeTerminateReady
  \/ JoinFgProcess
  \/ DeleteFgProcess

\* A core that is in the kernel goes on; of programs nothing is assumed.
Fairness ==
  /\ \A p \in Pids : WF_vars(KernelStep(p))
  /\ WF_vars(JoinFgProcess)
  /\ WF_vars(DeleteFgProcess)

Spec == Init /\ [][Next]_vars /\ Fairness
-----------------------------------------------------------------------------
(* Properties *)

\* What an open descriptor of a process refers to is changed by dup2 onto it and
\* by nothing else: neither by a later open or pipe (AddDescriptor takes the
\* number of entries for a free number) nor by a child that shares it.
DescriptorKept ==
  [][\A p \in Pids :
       \A fd \in DOMAIN fd_table[p] :
         \/ phase[p] = "none"
         \/ fd \in DOMAIN fd_table'[p] /\ fd_table'[p][fd] = fd_table[p][fd]
         \/ \E old \in DOMAIN fd_table[p] : SysDup2(p, old, fd)]_vars

\* A descriptor lists a process only while an entry of that process refers to it,
\* and no process that has left by exit: otherwise it would never be out of use.
RegisteredRefers ==
  \A d \in Descs : \A p \in processes[d] :
    d \in DescsOf(fd_table[p]) /\ phase[p] # "terminate" /\ (phase[p] = "ended" => code[p] = -1)

\* waitpid returns only for a child that exited, with the code it exited with as
\* an int, whatever other children of this or other parents exited meanwhile.
WaitpidExact ==
  \A p \in Pids : \A pid \in DOMAIN status[p] :
    /\ parent[pid] = p
    /\ code[pid] # -1
    /\ status[p][pid] = code[pid] % IntRange

\* A process that waits for its child does return once the child has called
\* exit, however often it is killed or asks again.
WaitpidReturns ==
  \A p \in Pids :
    (\E pid \in Pids : waits[p] = pid /\ parent[pid] = p /\ code[pid] # -1)
    ~> waits[p] = NoProcess

\* ctrl-c finds a process to kill.
KillsCurrent == keyboard # "fault"
=============================================================================
