-------------------------------- MODULE Pipe --------------------------------
(***************************************************************************)
(* The in-kernel pipe (pipe.cc): one buffer under one MultiCoreSpinLock,   *)
(* used by any number of threads on any number of cores.  A thread runs    *)
(* with interrupts enabled throughout, so every access to the buffer and   *)
(* to the lock is a step of its own.                                       *)
(*                                                                         *)
(* Bytes carry the number of the call of Write that they belong to, which  *)
(* lets the properties tell lost, doubled and mixed data apart.            *)
(***************************************************************************)
EXTENDS Integers, Sequences

CONSTANTS
  Procs,        \* the threads that use the pipe
  None,         \* nobody holds the lock
  PipeMaxSize,  \* kPipeMaxSize
  Counts,       \* the sizes that readers ask for
  MaxWrites     \* bound on the number of calls of Write

ASSUME PipeAssumption ==
  /\ None \notin Procs
  /\ PipeMaxSize \in Nat \ {0}
  /\ Counts \subseteq Nat
  /\ MaxWrites \in Nat

VARIABLES
  buf,         \* buf_
  size,        \* size_
  lock,        \* the thread that holds buf_access_lock_, or None
  isBlocking,  \* is_blocking_
  pc,          \* where each thread is in Write or Read
  data,        \* the bytes to write, or the bytes copied to the reader so far
  count,       \* the second argument of Read
  writes,      \* the number of calls of Write so far
  put,         \* history: every byte whose Write has returned
  got,         \* history: every byte that a Read has returned
  dead         \* the threads that were terminated inside Write or Read

vars == <<buf, size, lock, isBlocking, pc, data, count, writes, put, got, dead>>

Byte  == (1 .. MaxWrites) \X (1 .. PipeMaxSize + 1)
Zero  == <<0, 0>>           \* the value new Pipe() gives buf_

TypeOK ==
  /\ buf \in [1 .. PipeMaxSize -> Byte \cup {Zero}]
  /\ size \in 0 .. PipeMaxSize
  /\ lock \in Procs \cup {None}
  /\ isBlocking \in BOOLEAN
  /\ pc \in [Procs -> {"idle", "w_lock", "w_check", "w_size",
                       "r_lock", "r_check", "r_shift"}]
  /\ data \in [Procs -> Seq(Byte)]
  /\ count \in [Procs -> Nat]
  /\ writes \in 0 .. MaxWrites
  /\ put \in Seq(Byte)
  /\ got \in Seq(Byte)
  /\ dead \subseteq Procs

Init ==
  /\ buf = [i \in 1 .. PipeMaxSize |-> Zero]
  /\ size = 0
  /\ lock = None
  /\ isBlocking = TRUE
  /\ pc = [p \in Procs |-> "idle"]
  /\ data = [p \in Procs |-> <<>>]
  /\ count = [p \in Procs |-> 0]
  /\ writes = 0
  /\ put = <<>>
  /\ got = <<>>
  /\ dead = {}

\* The bytes that call number w of Write is given, n of them.
Message(w, n) == [i \in 1 .. n |-> <<w, i>>]

\* The bytes in the pipe.
Contents == SubSeq(buf, 1, size)

Goto(p, l) == pc' = [pc EXCEPT ![p] = l]

\* Fault: the test of the lock and its setting are two steps.
LockRace(p) == lock' = p

\* buf_access_lock_.lock(), when it gets the lock.
Lock(p) == lock = None /\ lock' = p

\* Fault: the lock is not released.
UnlockForgotten == UNCHANGED lock

\* buf_access_lock_.unlock().
Unlock == lock' = None
-----------------------------------------------------------------------------
(* Pipe::Write *)

\* The message does not fit.
TooLarge(n) == n > PipeMaxSize

\* The call, and its early return for a message that does not fit.
Write(p, n) ==
  /\ pc[p] = "idle" /\ p \notin dead
  /\ writes < MaxWrites
  /\ writes' = writes + 1
  /\ IF TooLarge(n)
     THEN UNCHANGED <<pc, data>>
     ELSE /\ Goto(p, "w_lock")
          /\ data' = [data EXCEPT ![p] = Message(writes + 1, n)]
  /\ UNCHANGED <<buf, size, lock, isBlocking, count, put, got, dead>>

WriteLock(p) ==
  /\ pc[p] = "w_lock"
  /\ Lock(p)
  /\ Goto(p, "w_check")
  /\ UNCHANGED <<buf, size, isBlocking, data, count, writes, put, got, dead>>

\* Fault: the writer does not wait for the readers.
MustWaitNever == FALSE

\* There is something left in the pipe.
MustWait == size > 0

\* Something is left in the pipe: unlock, yield, and try again.
WriteWait(p) ==
  /\ pc[p] = "w_check"
  /\ MustWait
  /\ Unlock
  /\ Goto(p, "w_lock")
  /\ UNCHANGED <<buf, size, isBlocking, data, count, writes, put, got, dead>>

\* The bytes are copied into the buffer.
WriteCopy(p) ==
  /\ pc[p] = "w_check"
  /\ ~MustWait
  /\ buf' = [i \in 1 .. PipeMaxSize |->
               IF i <= Len(data[p]) THEN data[p][i] ELSE buf[i]]
  /\ Goto(p, "w_size")
  /\ UNCHANGED <<size, lock, isBlocking, data, count, writes, put, got, dead>>

\* The size is set, the lock released, and Write returns.
WriteDone(p) ==
  /\ pc[p] = "w_size"
  /\ size' = Len(data[p])
  /\ Unlock
  /\ Goto(p, "idle")
  /\ put' = put \o data[p]
  /\ data' = [data EXCEPT ![p] = <<>>]
  /\ UNCHANGED <<buf, isBlocking, count, writes, got, dead>>

-----------------------------------------------------------------------------
(* Pipe::Read *)

Read(p, n) ==
  /\ pc[p] = "idle" /\ p \notin dead
  /\ count' = [count EXCEPT ![p] = n]
  /\ Goto(p, "r_lock")
  /\ UNCHANGED <<buf, size, lock, isBlocking, data, writes, put, got, dead>>

ReadLock(p) ==
  /\ pc[p] = "r_lock"
  /\ Lock(p)
  /\ Goto(p, "r_check")
  /\ UNCHANGED <<buf, size, isBlocking, data, count, writes, put, got, dead>>

\* The pipe is empty: unlock, then return at once or yield and try again.
ReadEmpty(p) ==
  /\ pc[p] = "r_check"
  /\ size = 0
  /\ Unlock
  /\ Goto(p, IF isBlocking THEN "r_lock" ELSE "idle")
  /\ UNCHANGED <<buf, size, isBlocking, data, count, writes, put, got, dead>>

\* The number of bytes that this call takes.
ActuallyRead(p) == IF count[p] < size THEN count[p] ELSE size

\* The bytes are copied to the reader.
ReadCopy(p) ==
  /\ pc[p] = "r_check"
  /\ size # 0
  /\ data' = [data EXCEPT ![p] = SubSeq(buf, 1, ActuallyRead(p))]
  /\ Goto(p, "r_shift")
  /\ UNCHANGED <<buf, size, lock, isBlocking, count, writes, put, got, dead>>

\* Fault: the bytes that stay are copied from one position too far.
ShiftedTooFar(n) ==
  [i \in 1 .. PipeMaxSize |->
     IF i <= size - n /\ i + n < PipeMaxSize THEN buf[i + n + 1] ELSE buf[i]]

\* buf_ after the first n bytes were taken.
Shifted(n) ==
  [i \in 1 .. PipeMaxSize |-> IF i <= size - n THEN buf[i + n] ELSE buf[i]]

\* The remaining bytes move to the front, the lock is released, Read returns.
ReadDone(p) ==
  LET n == Len(data[p])
  IN  /\ pc[p] = "r_shift"
      /\ size' = size - n
      /\ buf' = Shifted(n)
      /\ Unlock
      /\ Goto(p, "idle")
      /\ got' = got \o data[p]
      /\ data' = [data EXCEPT ![p] = <<>>]
      /\ UNCHANGED <<isBlocking, count, writes, put, dead>>

\* Pipe::SetBlocking, which takes no lock.
SetBlocking(b) ==
  /\ isBlocking' = b
  /\ UNCHANGED <<buf, size, lock, pc, data, count, writes, put, got, dead>>

-----------------------------------------------------------------------------
\* The steps of a call of Write or Read that is under way.
Step(p) ==
  \/ WriteWait(p) \/ WriteCopy(p) \/ WriteDone(p)
  \/ ReadEmpty(p) \/ ReadCopy(p) \/ ReadDone(p)

Next ==
  \/ \E p \in Procs :
       \/ \E n \in 0 .. PipeMaxSize + 1 : Write(p, n)
       \/ \E n \in Counts : Read(p, n)
       \/ WriteLock(p) \/ ReadLock(p) \/ Step(p)
  \/ \E b \in BOOLEAN : SetBlocking(b)

Spec == Init /\ [][Next]_vars

\* A scheduled thread goes on (the scheduler starves nobody), and a thread
\* that spins on the lock finds it free at some point: whoever finds the pipe
\* not ready releases the lock and yields before it takes it again.
Fairness ==
  \A p \in Procs :
    WF_vars(Step(p)) /\ SF_vars(WriteLock(p)) /\ SF_vars(ReadLock(p))

LiveSpec == Spec /\ Fairness

\* The copy between the pipe and user memory faults, and the process has been
\* killed meanwhile: PageFaultHandler terminates it where it is.
PageFaultTerminate(p) ==
  /\ \/ pc[p] = "w_check" /\ ~MustWait /\ data[p] # <<>>
     \/ pc[p] = "r_check" /\ size # 0 /\ count[p] # 0
  /\ Goto(p, "idle")
  /\ dead' = dead \cup {p}
  /\ UNCHANGED <<buf, size, lock, isBlocking, data, count, writes, put, got>>

KillSpec ==
  Init /\ [][Next \/ \E p \in Procs : PageFaultTerminate(p)]_vars

-----------------------------------------------------------------------------
\* The threads inside the critical section.
Holders == {p \in Procs : pc[p] \in {"w_check", "w_size", "r_check", "r_shift"}}

\* The spin lock works: the buffer is accessed by its holder only.
BufferExclusive == \A p \in Procs : p \in Holders <=> lock = p

\* Nothing is lost, doubled, mixed or reordered between the writers and the
\* readers: what was written is what was read, followed by what is in the
\* pipe, however the calls of many threads overlap.
FifoOrder == put = got \o Contents

\* The pipe implements a first-in first-out channel that takes a message only
\* when it is empty, and then as a whole.
ChannelSpec == INSTANCE Channel WITH Capacity <- PipeMaxSize, queue <- Contents
ImplementsChannel == ChannelSpec!Spec

\* A reader that waits while there are bytes in the pipe gets through, unless
\* another reader is faster.
ReaderServed ==
  \A p \in Procs : (pc[p] = "r_lock" /\ size > 0) ~> (pc[p] = "idle" \/ size = 0)

\* A terminated thread holds no kernel object.
NoDeadHolder == lock \notin dead

=============================================================================
