--------------------------- MODULE ProcessProofs ---------------------------
(***************************************************************************)
(* Theorems about exit codes and descriptor tables, for any number of      *)
(* processes, descriptors, calls and presses of ctrl-c and any exit codes. *)
(***************************************************************************)
EXTENDS Processes, FiniteSetTheorems, TLAPS

\* The descriptor tables that have no gap, so that the number of entries is free.
Tables == UNION {[0 .. n - 1 -> Descs \cup {nullptr}] : n \in Nat \ 0 .. 2}

Alive == {"user", "waitpid"}
Phases == Alive \cup {"none", "release", "terminate", "ended", "deleted"}

ProcTypeOK ==
  /\ phase \in [Pids -> Phases]
  /\ parent \in [Pids -> Pids \cup {KernelThread}]
  /\ code \in [Pids -> Int]
  /\ processes \in [Descs -> SUBSET Pids]
  /\ num_descs \in Descs
  /\ exit_codes = [p \in Pids |-> exit_codes[p]]
  /\ status = [p \in Pids |-> status[p]]
  /\ fg_process \in Pids \cup {NoProcess}
  /\ joined \in Pids \cup {NoProcess}

-----------------------------------------------------------------------------
(* Exit codes *)

\* A map of a parent holds codes of children of its own, which have exited with them
\* and so have the parent and the code that they will always have.
TrueCodes(p, map) ==
  \A pid \in DOMAIN map :
    /\ pid \in Pids
    /\ parent[pid] = p
    /\ code[pid] # -1
    /\ map[pid] = code[pid] % IntRange

CodesTrue ==
  /\ \A p \in Pids : code[p] # -1 => phase[p] \notin Alive \cup {"none"}
  /\ \A p \in Pids : TrueCodes(p, exit_codes[p]) /\ TrueCodes(p, status[p])

ExitInv == ProcTypeOK /\ CodesTrue

-----------------------------------------------------------------------------
(* Descriptors *)

\* A process that a descriptor lists is there, has the descriptor, and has not left by exit.
Registered ==
  \A d \in Descs : \A p \in processes[d] :
    /\ d \in DescsOf(fd_table[p])
    /\ phase[p] \notin {"none", "terminate"}
    /\ phase[p] = "ended" => code[p] = -1

DescInv == ExitInv /\ fd_table \in [Pids -> Tables] /\ Registered

LEMMA InitExits == Init => ExitInv
  <1> SUFFICES ASSUME Init PROVE ExitInv
    OBVIOUS
  <1>1. ProcTypeOK
    BY ProcessesAssumption
    DEF Init, ProcTypeOK, Phases, Alive, Descs, console_pipe_read_end, NoProcess, KernelThread
  <1>2. DOMAIN <<>> = {}
    OBVIOUS
  <1>3. CodesTrue
    BY <1>2 DEF Init, CodesTrue, TrueCodes
  <1> QED
    BY <1>1, <1>3 DEF ExitInv

\* The codes in the maps stay true while nobody that has exited changes.
LEMMA CodesStay ==
  ASSUME ExitInv, ProcTypeOK', UNCHANGED <<exit_codes, status>>,
         \A p \in Pids : code[p] # -1 => parent'[p] = parent[p] /\ code'[p] = code[p],
         \A p \in Pids : code'[p] # -1 => phase'[p] \notin Alive \cup {"none"}
  PROVE  ExitInv'
  BY DEF ExitInv, CodesTrue, TrueCodes

LEMMA CreationExits ==
  ASSUME ExitInv, NEW p \in Pids, NEW of \in Pids \cup {KernelThread}, NEW table, NEW stdin,
         Process(p, of, table, stdin), fg_process' \in Pids \cup {NoProcess}, UNCHANGED joined
  PROVE  ExitInv'
  <1>1. /\ phase[p] = "none" /\ phase' = [phase EXCEPT ![p] = "user"]
        /\ parent' = [parent EXCEPT ![p] = of]
        /\ UNCHANGED <<code, exit_codes, status, num_descs>>
    BY DEF Process, NewPid, exits
  <1>2. processes' \in [Descs -> SUBSET Pids]
    BY DEF Process, AddProcessIdToDescriptors, ExitInv, ProcTypeOK
  <1>3. ProcTypeOK'
    BY <1>1, <1>2 DEF ExitInv, ProcTypeOK, Phases, Alive
  <1>4. code[p] = -1
    BY <1>1 DEF ExitInv, CodesTrue
  <1> QED
    BY <1>1, <1>3, <1>4, CodesStay DEF ExitInv, ProcTypeOK, CodesTrue

LEMMA CallExits ==
  ASSUME ExitInv, NEW p \in Pids,
         \/ SysOpen(p) \/ SysPipe(p)
         \/ \E old, new \in DupTargets(DOMAIN fd_table[p]) : SysDup2(p, old, new)
  PROVE  ExitInv'
  <1>1. UNCHANGED <<phase, parent, exits, console>>
    BY DEF SysOpen, SysPipe, SysDup2
  <1>2. processes' \in [Descs -> SUBSET Pids] /\ num_descs' \in Descs
    BY DEF SysOpen, SysPipe, SysDup2, ExitInv, ProcTypeOK, Descs
  <1>3. ProcTypeOK'
    BY <1>1, <1>2 DEF ExitInv, ProcTypeOK, exits, console
  <1> QED
    BY <1>1, <1>3, CodesStay DEF ExitInv, CodesTrue, exits

LEMMA SysExitExits ==
  ASSUME ExitInv, NEW p \in Pids, SysExit(p, ExitCode(p))
  PROVE  ExitInv'
  <1> DEFINE q == parent[p]
  <1>1. /\ phase[p] = "user" /\ phase' = [phase EXCEPT ![p] = "release"]
        /\ code' = [code EXCEPT ![p] = ExitCode(p)]
        /\ UNCHANGED <<parent, tables, status, console>>
    BY DEF SysExit, InUser
  <1>2. ExitCode(p) \in Nat /\ code[p] = -1
    BY <1>1, ProcessesAssumption DEF ExitInv, CodesTrue, Alive
  <1>0. PICK v : v = ExitCode(p) % IntRange
    OBVIOUS
  <1>3. \/ exit_codes' = exit_codes
        \/ q \in Pids /\ exit_codes' = [exit_codes EXCEPT ![q] = Put(exit_codes[q], p, v)]
    <2>1. q = KernelThread \/ q \in Pids
      BY DEF ExitInv, ProcTypeOK
    <2>2. \/ exit_codes' = exit_codes
          \/ /\ q # KernelThread
             /\ exit_codes' = [exit_codes EXCEPT ![q] = Put(exit_codes[q], p, v)]
      BY <1>0 DEF SysExit, SetExitCode
    <2> QED
      BY <2>1, <2>2
  <1>4. ProcTypeOK'
    <2>1. exit_codes' = [r \in Pids |-> exit_codes'[r]]
      BY <1>3 DEF ExitInv, ProcTypeOK
    <2>2. code' \in [Pids -> Int]
      BY <1>1, <1>2 DEF ExitInv, ProcTypeOK
    <2> QED
      BY <1>1, <2>1, <2>2 DEF ExitInv, ProcTypeOK, Phases, Alive, tables, console
  <1>5. \A r \in Pids : /\ code'[r] # -1 => phase'[r] \notin Alive \cup {"none"}
                        /\ code[r] # -1 => r # p /\ code'[r] = code[r]
    BY <1>1, <1>2 DEF ExitInv, ProcTypeOK, CodesTrue, Alive
  <1>6. \A r \in Pids : TrueCodes(r, status[r])' /\ TrueCodes(r, exit_codes[r])
    BY <1>1, <1>5 DEF ExitInv, CodesTrue, TrueCodes
  <1>7. ASSUME NEW r \in Pids PROVE TrueCodes(r, exit_codes[r])'
    <2>1. CASE exit_codes'[r] = exit_codes[r]
      BY <1>1, <1>5, <1>6, <2>1 DEF TrueCodes
    <2>2. CASE r = q /\ exit_codes'[r] = Put(exit_codes[r], p, v)
      <3>1. code'[p] = ExitCode(p) /\ code'[p] # -1 /\ parent'[p] = r
        BY <1>1, <1>2, <2>2 DEF ExitInv, ProcTypeOK
      <3>2. ASSUME NEW pid \in DOMAIN exit_codes'[r], pid # p
            PROVE  /\ pid \in Pids /\ parent'[pid] = r /\ code'[pid] # -1
                   /\ exit_codes'[r][pid] = code'[pid] % IntRange
        <4>1. pid \in DOMAIN exit_codes[r] /\ exit_codes'[r][pid] = exit_codes[r][pid]
          BY ONLY <2>2, <3>2 DEF Put
        <4> QED
          BY <1>1, <1>5, <1>6, <4>1 DEF TrueCodes
      <3>3. exit_codes'[r][p] = code'[p] % IntRange
        <4>1. exit_codes'[r][p] = v
          BY ONLY <2>2 DEF Put
        <4> QED
          BY <1>0, <3>1, <4>1
      <3> QED
        BY <3>1, <3>2, <3>3 DEF TrueCodes
    <2> QED
      BY <1>3, <2>1, <2>2 DEF ExitInv, ProcTypeOK
  <1> QED
    BY <1>4, <1>5, <1>6, <1>7 DEF ExitInv, CodesTrue

LEMMA ReadExits ==
  ASSUME ExitInv, NEW p \in Pids, ReadExitCode(p)
  PROVE  ExitInv'
  <1>1. /\ phase[p] = "waitpid"
        /\ phase' \in {[phase EXCEPT ![p] = "ended"], [phase EXCEPT ![p] = "user"]}
        /\ waits[p] \in DOMAIN exit_codes[p]
        /\ status' = [status EXCEPT ![p] = Put(@, waits[p], exit_codes[p][waits[p]])]
        /\ UNCHANGED <<parent, tables, exit_codes, code, console>>
    BY DEF ReadExitCode
  <1>2. ProcTypeOK'
    BY <1>1 DEF ExitInv, ProcTypeOK, Phases, Alive, tables, console
  <1>3. \A r \in Pids : code'[r] # -1 => phase'[r] \notin Alive \cup {"none"}
    BY <1>1 DEF ExitInv, ProcTypeOK, CodesTrue, Alive
  <1>4. ASSUME NEW r \in Pids PROVE TrueCodes(r, exit_codes[r])' /\ TrueCodes(r, status[r])'
    <2>1. TrueCodes(r, exit_codes[r]) /\ TrueCodes(r, status[r])
      BY DEF ExitInv, CodesTrue
    <2>2. TrueCodes(r, exit_codes[r])'
      BY <1>1, <2>1 DEF TrueCodes
    <2>3. CASE status'[r] = status[r]
      BY <1>1, <2>1, <2>2, <2>3 DEF TrueCodes
    <2>4. CASE r = p /\ status'[r] = Put(status[r], waits[r], exit_codes[r][waits[r]])
      <3>1. ASSUME NEW pid \in DOMAIN status'[r]
            PROVE  \/ pid \in DOMAIN exit_codes[r] /\ status'[r][pid] = exit_codes[r][pid]
                   \/ pid \in DOMAIN status[r] /\ status'[r][pid] = status[r][pid]
        <4>1. PICK k, f, g, h : /\ k = waits[r] /\ f = status[r] /\ g = exit_codes[r]
                               /\ h = status'[r]
          OBVIOUS
        <4>2. k \in DOMAIN g /\ h = Put(f, k, g[k]) /\ pid \in DOMAIN h
          BY <1>1, <2>4, <3>1, <4>1
        <4>3. \/ pid \in DOMAIN g /\ h[pid] = g[pid]
              \/ pid \in DOMAIN f /\ h[pid] = f[pid]
          BY ONLY <4>2 DEF Put
        <4> QED
          BY <1>1, <4>1, <4>3
      <3> QED
        BY <1>1, <2>1, <2>2, <3>1 DEF TrueCodes
    <2> QED
      BY <1>1, <2>2, <2>3, <2>4 DEF ExitInv, ProcTypeOK
  <1> QED
    BY <1>2, <1>3, <1>4 DEF ExitInv, CodesTrue

\* All other steps of processes, and those of the console.
LEMMA OtherExits ==
  ASSUME ExitInv,
         \/ \E p \in Pids : SysExitRelease(p) \/ Terminate(p) \/ MakeTerminate(p)
         \/ \E p, pid \in Pids : SysWaitpid(p, pid)
         \/ AddKeyStrokeCtrlC \/ MakeTerminateReady \/ JoinFgProcess \/ DeleteFgProcess
         \/ UNCHANGED vars
  PROVE  ExitInv'
  <1> USE DEF SysExitRelease, Terminate, MakeTerminate, SysWaitpid, AddKeyStrokeCtrlC,
        MakeTerminateReady, JoinFgProcess, DeleteFgProcess, vars
  <1>1. UNCHANGED <<parent, exit_codes, code, status>>
    BY DEF exits
  <1>2. processes' \in [Descs -> SUBSET Pids] /\ num_descs' \in Descs
    BY DEF ExitInv, ProcTypeOK, RemoveProcessIdToDescriptors, tables
  <1>3. fg_process' \in Pids \cup {NoProcess} /\ joined' \in Pids \cup {NoProcess}
    BY DEF ExitInv, ProcTypeOK, console
  <1>4. phase' = phase \/ \E r \in Pids, to \in Phases \ {"none"} :
          phase' = [phase EXCEPT ![r] = to] /\ (to \in Alive => phase[r] \in Alive)
    <2>0. /\ {"terminate", "ended", "deleted"} \cap Alive = {}
          /\ {"terminate", "ended", "deleted"} \subseteq Phases \ {"none"}
      BY DEF Phases, Alive
    <2>1. CASE \E r \in Pids : SysExitRelease(r)
      <3>1. PICK r \in Pids : phase' = [phase EXCEPT ![r] = "terminate"]
        BY <2>1
      <3> QED
        BY ONLY <2>0, <3>1
    <2>2. CASE \E r \in Pids : Terminate(r) \/ MakeTerminate(r)
      <3>1. PICK r \in Pids : phase' = [phase EXCEPT ![r] = "ended"]
        BY <2>2
      <3> QED
        BY ONLY <2>0, <3>1
    <2>3. CASE \E r, pid \in Pids : SysWaitpid(r, pid)
      <3>1. PICK r \in Pids, pid \in Pids : SysWaitpid(r, pid)
        BY <2>3
      <3>2. phase[r] = "user" /\ phase' = [phase EXCEPT ![r] = "waitpid"]
        BY <3>1 DEF InUser
      <3>3. "waitpid" \in Phases \ {"none"} /\ phase[r] \in Alive
        BY <3>2 DEF Phases, Alive
      <3> QED
        BY <3>2, <3>3
    <2>4. CASE DeleteFgProcess
      <3>1. joined \in Pids /\ phase' = [phase EXCEPT ![joined] = "deleted"]
        BY <2>4 DEF ExitInv, ProcTypeOK
      <3> QED
        BY ONLY <2>0, <3>1
    <2> QED
      BY <2>1, <2>2, <2>3, <2>4
  <1>5. phase' \in [Pids -> Phases]
    BY <1>4 DEF ExitInv, ProcTypeOK
  <1>6. ASSUME NEW r \in Pids, code'[r] # -1 PROVE phase'[r] \notin Alive \cup {"none"}
    BY <1>1, <1>4, <1>6 DEF ExitInv, ProcTypeOK, CodesTrue
  <1>7. ProcTypeOK'
    BY <1>1, <1>2, <1>3, <1>5 DEF ExitInv, ProcTypeOK
  <1> QED
    BY ONLY ExitInv, <1>1, <1>6, <1>7, CodesStay

LEMMA NextExits == ExitInv /\ [Next]_vars => ExitInv'
  <1> SUFFICES ASSUME ExitInv, [Next]_vars PROVE ExitInv'
    OBVIOUS
  <1>1. ASSUME NEW p \in Pids, NEW b \in BOOLEAN, DoParse(p, b) PROVE ExitInv'
    BY <1>1, CreationExits DEF DoParse, ExitInv, ProcTypeOK
  <1>2. ASSUME NEW p \in Pids, NEW child \in Pids, SysSpawn(p, child) PROVE ExitInv'
    <2>1. fg_process' \in Pids \cup {NoProcess} /\ UNCHANGED joined
      BY <1>2 DEF SysSpawn, console, ExitInv, ProcTypeOK
    <2> QED
      BY <1>2, <2>1, CreationExits DEF SysSpawn
  <1> QED
    BY <1>1, <1>2, CallExits, SysExitExits, ReadExits, OtherExits DEF Next, KernelStep

\* waitpid tells a parent the code that a child of its own has exited with, whatever
\* else exits, is killed, waits or is deleted meanwhile.
THEOREM WaitpidTellsTheCode == Spec => []WaitpidExact
  <1>1. ExitInv => WaitpidExact
    BY DEF ExitInv, CodesTrue, TrueCodes, WaitpidExact
  <1> QED
    BY <1>1, InitExits, NextExits, PTL DEF Spec

-----------------------------------------------------------------------------
(* The tables *)

\* A table has no gap: the number of its entries is the first number that is free.
LEMMA TableParts ==
  ASSUME NEW t \in Tables
  PROVE  \E n \in Nat : /\ n >= 3 /\ DOMAIN t = 0 .. n - 1 /\ NewFd(t) = n
                        /\ t \in [0 .. n - 1 -> Descs \cup {nullptr}]
  <1>1. PICK n \in Nat \ 0 .. 2 : t \in [0 .. n - 1 -> Descs \cup {nullptr}]
    BY DEF Tables
  <1>2. DOMAIN t = 0 .. n - 1 /\ n >= 3
    BY <1>1
  <1>3. Cardinality(0 .. n - 1) = n
    BY FS_Interval
  <1> QED
    BY <1>1, <1>2, <1>3 DEF NewFd

LEMMA FirstTable ==
  /\ FileDescriptorTable \in Tables
  /\ DescsOf(FileDescriptorTable) = {}
  <1>1. /\ FileDescriptorTable \in [0 .. 3 - 1 -> Descs \cup {nullptr}]
        /\ DOMAIN FileDescriptorTable = {STDIN, STDOUT, STDERR}
        /\ \A fd \in DOMAIN FileDescriptorTable : FileDescriptorTable[fd] = nullptr
    BY DEF FileDescriptorTable, STDIN, STDOUT, STDERR
  <1>2. 3 \in Nat \ 0 .. 2
    OBVIOUS
  <1> QED
    BY <1>1, <1>2 DEF Tables, DescsOf

\* A new descriptor takes a number that is free.
LEMMA AddKeeps ==
  ASSUME NEW t \in Tables, NEW d \in Descs
  PROVE  /\ AddDescriptor(t, d) \in Tables
         /\ \A fd \in DOMAIN t :
              fd \in DOMAIN AddDescriptor(t, d) /\ AddDescriptor(t, d)[fd] = t[fd]
         /\ DescsOf(t) \subseteq DescsOf(AddDescriptor(t, d))
  <1>1. PICK n \in Nat : /\ n >= 3 /\ DOMAIN t = 0 .. n - 1 /\ NewFd(t) = n
                         /\ t \in [0 .. n - 1 -> Descs \cup {nullptr}]
    BY TableParts
  <1>2. (0 .. n - 1) \cup {n} = 0 .. (n + 1) - 1 /\ n \notin 0 .. n - 1 /\ n + 1 \in Nat \ 0 .. 2
    BY <1>1
  <1>3. AddDescriptor(t, d) = [x \in 0 .. (n + 1) - 1 |-> IF x = n THEN d ELSE t[x]]
    BY <1>1, <1>2 DEF AddDescriptor, Put
  <1>4. AddDescriptor(t, d) \in [0 .. (n + 1) - 1 -> Descs \cup {nullptr}]
    BY <1>1, <1>3
  <1>5. AddDescriptor(t, d) \in Tables
    BY <1>2, <1>4 DEF Tables
  <1>6. \A fd \in DOMAIN t : fd \in DOMAIN AddDescriptor(t, d) /\ AddDescriptor(t, d)[fd] = t[fd]
    BY <1>1, <1>2, <1>3
  <1> QED
    BY <1>5, <1>6 DEF DescsOf

\* dup2 onto an open descriptor changes that one only.
LEMMA SetKeeps ==
  ASSUME NEW t \in Tables, NEW k \in DOMAIN t, NEW d \in Descs \cup {nullptr}
  PROVE  /\ SetDescriptor(t, k, d) \in Tables
         /\ SetDescriptor(t, k, d) = [t EXCEPT ![k] = d]
         /\ DOMAIN SetDescriptor(t, k, d) = DOMAIN t
         /\ \A fd \in DOMAIN t : fd # k => SetDescriptor(t, k, d)[fd] = t[fd]
         /\ SetDescriptor(t, k, d)[k] = d
  <1>1. PICK n \in Nat \ 0 .. 2 : t \in [0 .. n - 1 -> Descs \cup {nullptr}]
    BY DEF Tables
  <1>2. SetDescriptor(t, k, d) = [x \in 0 .. n - 1 |-> IF x = k THEN d ELSE t[x]]
    BY <1>1 DEF SetDescriptor, Put
  <1>3. SetDescriptor(t, k, d) \in [0 .. n - 1 -> Descs \cup {nullptr}]
    BY <1>1, <1>2
  <1> QED
    BY <1>1, <1>2, <1>3 DEF Tables

\* What a number refers to: a descriptor or nothing.
LEMMA Refers ==
  ASSUME NEW t \in Tables, NEW fd \in DOMAIN t
  PROVE  t[fd] \in Descs \cup {nullptr} /\ GetDescriptor(t, fd) = t[fd]
  BY DEF Tables, GetDescriptor

LEMMA StdIn ==
  ASSUME NEW t \in Tables
  PROVE  STDIN \in DOMAIN t
  BY TableParts DEF STDIN

LEMMA NullNoDesc == nullptr \notin Descs
  BY ProcessesAssumption DEF Descs, nullptr

-----------------------------------------------------------------------------
(* Who is registered *)

LEMMA InitDescs == Init => DescInv
  BY InitExits, FirstTable DEF Init, DescInv, Registered

LEMMA CreationDescs ==
  ASSUME DescInv, ExitInv', NEW p \in Pids, NEW of, NEW t \in Tables,
         NEW stdin \in Descs \cup {nullptr}, Process(p, of, t, stdin),
         DescsOf(t) \subseteq DescsOf(SetDescriptor(t, STDIN, stdin))
  PROVE  DescInv'
  <1>1. /\ phase[p] = "none" /\ phase' = [phase EXCEPT ![p] = "user"]
        /\ fd_table' = [fd_table EXCEPT ![p] = SetDescriptor(t, STDIN, stdin)]
        /\ processes' = AddProcessIdToDescriptors(t, p) /\ UNCHANGED code
    BY DEF Process, NewPid, exits
  <1>2. fd_table' \in [Pids -> Tables]
    BY <1>1, StdIn, SetKeeps DEF DescInv
  <1>3. ASSUME NEW d \in Descs, NEW q \in processes'[d]
        PROVE  /\ d \in DescsOf(fd_table'[q])
               /\ phase'[q] \notin {"none", "terminate"}
               /\ phase'[q] = "ended" => code'[q] = -1
    <2>1. q \in processes[d] \/ (q = p /\ d \in DescsOf(t))
      <3>1. processes'[d] = IF d \in DescsOf(t) THEN processes[d] \cup {p} ELSE processes[d]
        BY <1>1 DEF AddProcessIdToDescriptors
      <3> QED
        BY <1>3, <3>1
    <2>2. processes[d] \subseteq Pids
      BY DEF DescInv, ExitInv, ProcTypeOK
    <2>3. CASE q \in processes[d]
      <3>1. q # p /\ q \in Pids
        BY <1>1, <2>2, <2>3 DEF DescInv, Registered
      <3> QED
        BY <1>1, <2>3, <3>1 DEF DescInv, Registered, ExitInv, ProcTypeOK
    <2>4. CASE q = p /\ d \in DescsOf(t)
      BY <1>1, <2>4 DEF DescInv, ExitInv, ProcTypeOK
    <2> QED
      BY <2>1, <2>3, <2>4
  <1> QED
    BY <1>2, <1>3 DEF DescInv, Registered

\* What keeps everybody registered: descriptors and codes stay, nobody is entered and
\* nobody leaves by exit.
LEMMA RegisteredStays ==
  ASSUME DescInv, ExitInv', fd_table' \in [Pids -> Tables], UNCHANGED <<processes, code>>,
         \A p \in Pids : DescsOf(fd_table[p]) \subseteq DescsOf(fd_table'[p]),
         \A p \in Pids : phase[p] \notin {"none", "terminate"} =>
           /\ phase'[p] \notin {"none", "terminate"}
           /\ phase'[p] = "ended" => phase[p] = "ended" \/ code[p] = -1
  PROVE  DescInv'
  <1>1. \A d \in Descs : processes[d] \subseteq Pids
    BY DEF DescInv, ExitInv, ProcTypeOK
  <1> QED
    BY <1>1 DEF DescInv, Registered

LEMMA OpenDescs ==
  ASSUME DescInv, ExitInv', NEW p \in Pids, SysOpen(p) \/ SysPipe(p)
  PROVE  DescInv'
  <1>1. PICK t \in Tables : t = fd_table[p]
    BY DEF DescInv
  <1>2. /\ fd_table' = [fd_table EXCEPT ![p] = fd_table'[p]]
        /\ fd_table'[p] \in Tables
        /\ DescsOf(t) \subseteq DescsOf(fd_table'[p])
    <2>1. CASE SysOpen(p)
      <3>1. num_descs + 1 \in Descs
        BY <2>1 DEF SysOpen
      <3>2. fd_table' = [fd_table EXCEPT ![p] = AddDescriptor(t, num_descs + 1)]
        BY <1>1, <2>1 DEF SysOpen
      <3> QED
        BY <3>1, <3>2, AddKeeps DEF DescInv
    <2>2. CASE SysPipe(p)
      <3>1. num_descs + 1 \in Descs /\ num_descs + 2 \in Descs
        BY <2>2, ProcessesAssumption DEF SysPipe, DescInv, ExitInv, ProcTypeOK, Descs
      <3>2. PICK u \in Tables : u = AddDescriptor(t, num_descs + 1)
        BY <3>1, AddKeeps
      <3>3. fd_table' = [fd_table EXCEPT ![p] = AddDescriptor(u, num_descs + 2)]
        BY <1>1, <2>2, <3>2 DEF SysPipe
      <3>4. DescsOf(t) \subseteq DescsOf(u)
        BY <3>1, <3>2, AddKeeps
      <3> QED
        BY <3>1, <3>3, <3>4, AddKeeps DEF DescInv
    <2> QED
      BY <2>1, <2>2
  <1>3. UNCHANGED <<processes, code, phase>>
    BY DEF SysOpen, SysPipe, exits
  <1>4. /\ fd_table' \in [Pids -> Tables]
        /\ \A q \in Pids : DescsOf(fd_table[q]) \subseteq DescsOf(fd_table'[q])
    BY <1>1, <1>2 DEF DescInv
  <1> QED
    BY <1>3, <1>4, RegisteredStays

LEMMA DupDescs ==
  ASSUME DescInv, ExitInv', NEW p \in Pids, NEW old \in DOMAIN fd_table[p],
         NEW new \in DOMAIN fd_table[p], SysDup2(p, old, new)
  PROVE  DescInv'
  <1>1. PICK t \in Tables : t = fd_table[p]
    BY DEF DescInv
  <1>2. t[old] \in Descs \cup {nullptr}
    BY <1>1, Refers
  <1>3. /\ fd_table' = [fd_table EXCEPT ![p] = SetDescriptor(t, new, t[old])]
        /\ processes' = [d \in Descs |-> IF d = t[new] THEN processes[d] \ {p} ELSE processes[d]]
        /\ UNCHANGED <<phase, code>>
    BY <1>1, Refers DEF SysDup2, exits
  <1>4. fd_table' \in [Pids -> Tables]
    BY <1>1, <1>2, <1>3, SetKeeps DEF DescInv
  <1>5. ASSUME NEW d \in Descs, NEW q \in processes'[d]
        PROVE  q \in processes[d] /\ d \in DescsOf(fd_table'[q])
    <2>1. q \in processes[d] /\ q \in Pids /\ d \in DescsOf(fd_table[q])
          /\ (q = p => d # t[new])
      BY <1>3 DEF DescInv, Registered, ExitInv, ProcTypeOK
    <2>2. CASE q = p
      <3>1. PICK fd \in DOMAIN t : t[fd] = d /\ d # nullptr
        BY <1>1, <2>1, <2>2 DEF DescsOf
      <3>2. fd # new
        BY <2>1, <2>2, <3>1
      <3>3. PICK u \in Tables : u = SetDescriptor(t, new, t[old])
        BY <1>1, <1>2, SetKeeps
      <3>4. DOMAIN u = DOMAIN t /\ u[fd] = t[fd]
        BY <1>1, <1>2, <3>2, <3>3, SetKeeps
      <3>5. d \in DescsOf(u)
        BY <3>1, <3>4 DEF DescsOf
      <3> QED
        BY <1>3, <2>1, <2>2, <3>3, <3>5 DEF DescInv
    <2>3. CASE q # p
      BY <1>3, <2>1, <2>3 DEF DescInv
    <2> QED
      BY <2>2, <2>3
  <1> QED
    BY <1>3, <1>4, <1>5 DEF DescInv, Registered

LEMMA ReleaseDescs ==
  ASSUME DescInv, ExitInv', NEW p \in Pids, SysExitRelease(p)
  PROVE  DescInv'
  <1>1. /\ phase' = [phase EXCEPT ![p] = "terminate"] /\ UNCHANGED <<fd_table, code>>
        /\ processes' = RemoveProcessIdToDescriptors(fd_table[p], p)
    BY DEF SysExitRelease, exits
  <1>2. ASSUME NEW d \in Descs, NEW q \in processes'[d]
        PROVE  q \in processes[d] /\ q # p /\ q \in Pids
    BY <1>1 DEF RemoveProcessIdToDescriptors, DescInv, Registered, ExitInv, ProcTypeOK
  <1> QED
    BY <1>1, <1>2 DEF DescInv, Registered, ExitInv, ProcTypeOK

\* The other steps leave tables and descriptors alone, and a process that ends in one of
\* them is none that a descriptor lists, or has not called exit.
LEMMA OtherDescs ==
  ASSUME DescInv, ExitInv',
         \/ \E p \in Pids : \/ Terminate(p) \/ MakeTerminate(p) \/ ReadExitCode(p)
                            \/ SysExit(p, ExitCode(p))
         \/ \E p, pid \in Pids : SysWaitpid(p, pid)
         \/ AddKeyStrokeCtrlC \/ MakeTerminateReady \/ JoinFgProcess \/ DeleteFgProcess
         \/ UNCHANGED vars
  PROVE  DescInv'
  <1>1. UNCHANGED <<fd_table, processes>>
    BY DEF Terminate, MakeTerminate, ReadExitCode, SysExit, SysWaitpid, AddKeyStrokeCtrlC,
      MakeTerminateReady, JoinFgProcess, DeleteFgProcess, vars, tables
  <1>2. ASSUME NEW q \in Pids, phase[q] \notin {"none", "terminate"}
        PROVE  /\ phase'[q] \notin {"none", "terminate"}
               /\ phase'[q] = "ended" => code'[q] = code[q] /\ (phase[q] = "ended" \/ code[q] = -1)
    <2>1. phase \in [Pids -> Phases] /\ (phase[q] \in Alive => code[q] = -1)
      BY DEF DescInv, ExitInv, ProcTypeOK, CodesTrue
    <2>2. CASE UNCHANGED <<phase, code>>
      BY <1>2, <2>2 DEF DescInv, Registered
    <2>3. CASE \E r \in Pids : SysExit(r, ExitCode(r))
      <3>1. PICK r \in Pids : /\ phase' = [phase EXCEPT ![r] = "release"]
                              /\ code' = [code EXCEPT ![r] = ExitCode(r)]
        BY <2>3 DEF SysExit
      <3>2. phase'[q] = "release" \/ (phase'[q] = phase[q] /\ code'[q] = code[q])
        BY <2>1, <3>1 DEF DescInv, ExitInv, ProcTypeOK
      <3> QED
        BY <1>2, <3>2
    <2> QED
      BY <1>2, <2>1, <2>2, <2>3
      DEF Terminate, MakeTerminate, ReadExitCode, SysWaitpid, AddKeyStrokeCtrlC,
        MakeTerminateReady, JoinFgProcess, DeleteFgProcess, vars, exits, Alive
  <1>3. \A d \in Descs : processes[d] \subseteq Pids
    BY DEF DescInv, ExitInv, ProcTypeOK
  <1> QED
    BY <1>1, <1>2, <1>3 DEF DescInv, Registered

LEMMA NextDescs ==
  ASSUME \A fds \in SUBSET Nat : DupTargets(fds) \subseteq fds
  PROVE  DescInv /\ [Next]_vars => DescInv'
  <1> SUFFICES ASSUME DescInv, [Next]_vars PROVE DescInv'
    OBVIOUS
  <1>0. ExitInv'
    BY NextExits DEF DescInv
  <1>1. ASSUME NEW p \in Pids, NEW b \in BOOLEAN, DoParse(p, b) PROVE DescInv'
    <2>1. console_pipe_read_end \in Descs \cup {nullptr}
      BY ProcessesAssumption DEF console_pipe_read_end, Descs
    <2> QED
      BY <1>0, <1>1, <2>1, FirstTable, CreationDescs DEF DoParse
  <1>2. ASSUME NEW p \in Pids, NEW child \in Pids, SysSpawn(p, child) PROVE DescInv'
    <2>1. PICK t \in Tables : t = fd_table[p]
      BY DEF DescInv
    <2>2. STDIN \in DOMAIN t
      BY StdIn
    <2>3. SetDescriptor(t, STDIN, t[STDIN]) = t
      <3>1. SetDescriptor(t, STDIN, t[STDIN]) = [t EXCEPT ![STDIN] = t[STDIN]]
        BY <2>2, Refers, SetKeeps
      <3>2. t = [fd \in DOMAIN t |-> t[fd]]
        BY DEF Tables
      <3> QED
        BY <3>1, <3>2
    <2> QED
      BY <1>0, <1>2, <2>1, <2>2, <2>3, Refers, CreationDescs DEF SysSpawn
  <1>3. ASSUME NEW p \in Pids, NEW old \in DupTargets(DOMAIN fd_table[p]),
               NEW new \in DupTargets(DOMAIN fd_table[p]), SysDup2(p, old, new)
        PROVE  DescInv'
    <2>1. DOMAIN fd_table[p] \subseteq Nat
      BY TableParts DEF DescInv
    <2> QED
      BY <1>0, <1>3, <2>1, DupDescs
  <1> QED
    BY <1>0, <1>1, <1>2, <1>3, OpenDescs, ReleaseDescs, OtherDescs DEF Next, KernelStep

\* A descriptor lists only processes that refer to it and have not left by exit, so that
\* it is out of use when all have closed it: with programs that call dup2, as those of
\* user/ do, on numbers they have.
THEOREM RegisteredIsOpen ==
  ASSUME \A fds \in SUBSET Nat : DupTargets(fds) \subseteq fds
  PROVE  Spec => []RegisteredRefers
  <1>1. DescInv => RegisteredRefers
    BY DEF DescInv, Registered, RegisteredRefers
  <1> QED
    BY <1>1, InitDescs, NextDescs, PTL DEF Spec

\* What an open descriptor refers to is changed by nothing but dup2 onto it: the number
\* of entries, which open and pipe take for a free number, is free.
THEOREM OpenStaysOpen ==
  ASSUME \A fds \in SUBSET Nat : DupTargets(fds) \subseteq fds
  PROVE  Spec => DescriptorKept
  <1>1. ASSUME DescInv, [Next]_vars, NEW p \in Pids, NEW fd \in DOMAIN fd_table[p]
        PROVE  \/ phase[p] = "none"
               \/ fd \in DOMAIN fd_table'[p] /\ fd_table'[p][fd] = fd_table[p][fd]
               \/ \E old \in DOMAIN fd_table[p] : SysDup2(p, old, fd)
    <2>1. PICK t \in Tables : t = fd_table[p]
      BY <1>1 DEF DescInv
    <2>2. ASSUME fd_table'[p] = t
          PROVE  fd_table'[p][fd] = fd_table[p][fd] /\ fd \in DOMAIN fd_table'[p]
      BY <2>1, <2>2
    <2>3. ASSUME NEW q \in Pids, NEW of, NEW table, NEW stdin, Process(q, of, table, stdin)
          PROVE  phase[p] = "none" \/ fd_table'[p] = t
      BY <1>1, <2>1, <2>3 DEF Process, NewPid, DescInv
    <2>4. CASE SysOpen(p)
      BY <1>1, <2>1, <2>4, AddKeeps DEF SysOpen, DescInv
    <2>5. CASE SysPipe(p)
      <3>1. num_descs + 1 \in Descs /\ num_descs + 2 \in Descs
        BY <1>1, <2>5, ProcessesAssumption DEF SysPipe, DescInv, ExitInv, ProcTypeOK, Descs
      <3>2. PICK u \in Tables : u = AddDescriptor(t, num_descs + 1)
        BY <3>1, AddKeeps
      <3>3. fd_table'[p] = AddDescriptor(u, num_descs + 2)
        BY <1>1, <2>1, <2>5, <3>2 DEF SysPipe, DescInv
      <3>4. fd \in DOMAIN u /\ u[fd] = t[fd]
        BY <2>1, <3>1, <3>2, AddKeeps
      <3> QED
        BY <2>1, <3>1, <3>3, <3>4, AddKeeps
    <2>6. ASSUME NEW old \in DupTargets(DOMAIN t), NEW new \in DupTargets(DOMAIN t),
                 SysDup2(p, old, new)
          PROVE  \/ fd \in DOMAIN fd_table'[p] /\ fd_table'[p][fd] = fd_table[p][fd]
                 \/ SysDup2(p, old, fd) /\ old \in DOMAIN t
      <3>1. old \in DOMAIN t /\ new \in DOMAIN t
        BY TableParts
      <3>2. fd_table'[p] = SetDescriptor(t, new, t[old]) /\ t[old] \in Descs \cup {nullptr}
        BY <1>1, <2>1, <2>6, <3>1, Refers DEF SysDup2, DescInv
      <3> QED
        BY <2>1, <2>6, <3>1, <3>2, SetKeeps
    <2>7. ASSUME NEW q \in Pids, q # p,
                 \/ SysOpen(q) \/ SysPipe(q)
                 \/ \E old, new \in DupTargets(DOMAIN fd_table[q]) : SysDup2(q, old, new)
          PROVE  fd_table'[p] = t
      BY <1>1, <2>1, <2>7 DEF SysOpen, SysPipe, SysDup2, DescInv
    <2>8. CASE UNCHANGED fd_table
      BY <2>1, <2>2, <2>8
    <2> QED
      BY <1>1, <2>1, <2>2, <2>3, <2>4, <2>5, <2>6, <2>7, <2>8
      DEF Next, KernelStep, DoParse, SysSpawn, SysExit, SysExitRelease, Terminate, SysWaitpid,
        ReadExitCode, MakeTerminate, AddKeyStrokeCtrlC, MakeTerminateReady, JoinFgProcess,
        DeleteFgProcess, vars, tables
  <1>2. DescInv /\ [Next]_vars =>
          [\A p \in Pids :
             \A fd \in DOMAIN fd_table[p] :
               \/ phase[p] = "none"
               \/ fd \in DOMAIN fd_table'[p] /\ fd_table'[p][fd] = fd_table[p][fd]
               \/ \E old \in DOMAIN fd_table[p] : SysDup2(p, old, fd)]_vars
    BY <1>1
  <1> QED
    BY <1>2, InitDescs, NextDescs, PTL DEF Spec, DescriptorKept

=============================================================================
