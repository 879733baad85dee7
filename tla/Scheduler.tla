------------------------------ MODULE Scheduler ------------------------------
(***************************************************************************)
(* The multi-core kernel thread scheduler (scheduler.cc), the life of a    *)
(* kernel thread (kthread.cc), the counting semaphore that puts threads to *)
(* sleep (semaphore.cc), and the places where a user process enters and    *)
(* leaves the kernel (syscall.cc, paging.cc).                              *)
(*                                                                         *)
(* A core either executes its current thread with interrupts enabled       *)
(* (act = "run") or is in a section that no interrupt can enter: the two   *)
(* halves of YieldInInterruptHandler, or EnqueueThread called by           *)
(* Semaphore::Up.  Everything a thread does between two of these sections  *)
(* interleaves with the other cores and with this core's interrupts.       *)
(***************************************************************************)
EXTENDS Integers, Sequences, FiniteSets

CONSTANTS
  NumCores,   \* queue_locks_.size()
  Threads,    \* every KernelThread object, user processes included
  None,       \* nullptr
  Main,       \* [Cores -> Threads]: the init thread of each core
  Processes,  \* the threads that are user processes
  Boot,       \* [Cores -> Seq(Threads)]: what boot left in each queue
  Joiners,    \* the threads that may Join() and then delete another thread
  Faulty,     \* the processes that may touch an address they do not own
  Semas,      \* the semaphores
  SemaCore,   \* [Semas -> Cores]: the core whose threads use the semaphore
  IsrSemas,   \* the semaphores that an interrupt handler Up()s
  InitCnt,    \* [Semas -> Nat]: constructor argument of each semaphore
  MaxCnt      \* bound on a semaphore's count

Cores == 0 .. NumCores - 1

InBoot(t) == \E c \in Cores : \E i \in 1 .. Len(Boot[c]) : Boot[c][i] = t

ASSUME ConstantsAssumption ==
  /\ NumCores \in Nat \ {0}
  /\ None \notin Threads /\ None \notin Semas
  /\ Main \in [Cores -> Threads]
  /\ \A c, d \in Cores : Main[c] = Main[d] => c = d
  /\ Boot \in [Cores -> Seq(Threads)]
  /\ Processes \subseteq Threads
  /\ Faulty \subseteq Processes
  /\ Joiners \subseteq Threads
  /\ IsrSemas \subseteq Semas
  /\ SemaCore \in [Semas -> Cores]
  /\ InitCnt \in [Semas -> Nat]
  /\ MaxCnt \in Nat

\* A thread is in one boot queue once, and an init thread is in none.
ASSUME BootAssumption ==
  /\ \A c \in Cores : ~InBoot(Main[c]) /\ Main[c] \notin Processes
  /\ \A c, d \in Cores : \A i \in 1 .. Len(Boot[c]), j \in 1 .. Len(Boot[d]) :
       Boot[c][i] = Boot[d][j] => c = d /\ i = j

VARIABLES
  status,            \* [Threads -> Status]: status_
  statusBeforeSleep, \* status_before_sleep_, "unset" until MakeSleep
  inQueue,           \* in_queue_
  cpuId,             \* cpu_id_
  pc,                \* the kernel operation the thread is in the middle of
  ctx,               \* where the thread's RIP is
  target,            \* the thread that operation is about
  threadList,        \* kernel_thread_list_
  queueLock,         \* queue_locks_[c].acquired
  numThreads,        \* num_threads_per_core_
  core,              \* the round robin counter of EnqueueThreadFirstTime
  current,           \* CurrentThread() of each core
  act,               \* what the core is executing
  next,              \* next_thread_element of YieldInInterruptHandler
  elem,              \* the element EnqueueThread is called with by Up
  cnt,               \* cnt_ of each semaphore
  waiters,           \* waiters_ of each semaphore
  wants,             \* the semaphore a thread is in Down() of
  freed              \* the threads whose destructor has run

threadVars == <<status, statusBeforeSleep, inQueue, cpuId>>
flowVars   == <<pc, ctx, target, wants>>
queueVars  == <<threadList, queueLock, numThreads, core>>
coreVars   == <<current, act, next, elem>>
semaVars   == <<cnt, waiters>>
vars == <<threadVars, flowVars, queueVars, coreVars, semaVars, freed>>

Status == {"run", "sleep", "terminate", "terminate_ready"}
Pc     == {"new", "idle", "start_lock", "start_push", "down", "join",
           "delete", "exit", "exit_intr"}
Ctx    == {"kernel", "user", "syscall", "fault", "nested_fault"}
Act    == {"run", "yield", "switch", "enqueue", "panic"}

TypeOK ==
  /\ status \in [Threads -> Status]
  /\ statusBeforeSleep \in [Threads -> Status \cup {"unset"}]
  /\ inQueue \in [Threads -> BOOLEAN]
  /\ cpuId \in [Threads -> Nat]
  /\ pc \in [Threads -> Pc]
  /\ ctx \in [Threads -> Ctx]
  /\ target \in [Threads -> Threads \cup {None}]
  /\ wants \in [Threads -> Semas \cup {None}]
  /\ threadList \in [Cores -> Seq(Threads)]
  /\ queueLock \in [Cores -> BOOLEAN]
  /\ numThreads \in [Cores -> Int]
  /\ core \in Nat
  /\ current \in [Cores -> Threads]
  /\ act \in [Cores -> Act]
  /\ next \in [Cores -> Threads \cup {None}]
  /\ elem \in [Cores -> Threads \cup {None}]
  /\ cnt \in [Semas -> Nat]
  /\ waiters \in [Semas -> Seq(Threads)]
  /\ freed \in SUBSET Threads

\* The core on which boot left thread t; 0 for a thread not yet started.
BootCore(t) ==
  IF \E c \in Cores : Main[c] = t \/ \E i \in 1 .. Len(Boot[c]) : Boot[c][i] = t
  THEN CHOOSE c \in Cores :
         Main[c] = t \/ \E i \in 1 .. Len(Boot[c]) : Boot[c][i] = t
  ELSE 0

\* The end of boot: one init thread runs on each core, the threads started
\* during boot are queued, the others exist but are not started.
Init ==
  /\ status = [t \in Threads |-> "run"]
  /\ statusBeforeSleep = [t \in Threads |-> "unset"]
  /\ inQueue = [t \in Threads |-> InBoot(t)]
  /\ cpuId = [t \in Threads |-> BootCore(t)]
  /\ pc = [t \in Threads |->
             IF InBoot(t) \/ \E c \in Cores : Main[c] = t THEN "idle" ELSE "new"]
  /\ ctx = [t \in Threads |-> IF t \in Processes THEN "user" ELSE "kernel"]
  /\ target = [t \in Threads |-> None]
  /\ wants = [t \in Threads |-> None]
  /\ threadList = Boot
  /\ queueLock = [c \in Cores |-> FALSE]
  /\ numThreads = [c \in Cores |-> Len(Boot[c])]
  /\ core = 1
  /\ current = Main
  /\ act = [c \in Cores |-> "run"]
  /\ next = [c \in Cores |-> None]
  /\ elem = [c \in Cores |-> None]
  /\ cnt = InitCnt
  /\ waiters = [s \in Semas |-> <<>>]
  /\ freed = {}

\* Fault: a test for "not asleep" that forgets the threads that have ended.
IsRunnableIfAwake(t) == status[t] # "sleep"

\* KernelThread::IsRunnable.
IsRunnable(t) == status[t] \in {"run", "terminate_ready"}

\* Fault: the thread's state before it slept is not kept.
MakeSleepForgets(t) ==
  /\ status' = [status EXCEPT ![t] = "sleep"]
  /\ UNCHANGED statusBeforeSleep

\* KernelThread::MakeSleep.
MakeSleep(t) ==
  /\ statusBeforeSleep' = [statusBeforeSleep EXCEPT ![t] = status[t]]
  /\ status' = [status EXCEPT ![t] = "sleep"]

\* KernelThread::MakeTerminate.
MakeTerminate(t) == status' = [status EXCEPT ![t] = "terminate"]

\* Fault: nobody acts on the mark that ctrl-c left.
TerminateIfReadySkipped(t) == status[t]

\* IsTerminateReady, then MakeTerminate: what the scheduler, the system call
\* handler and the page fault handler do with a process that was killed.
TerminateIfReady(t) ==
  IF status[t] = "terminate_ready" THEN "terminate" ELSE status[t]

\* Fault: the thread is pushed to the front.
PushedFront(q, t) == <<t>> \o q

\* KernelList::push_back.
PushedBack(q, t) == Append(q, t)

\* What i calls of KernelList::pop_front leave.
Popped(q, i) == SubSeq(q, i + 1, Len(q))

\* MultiCoreSpinLock::lock on the queue of core d, when it gets the lock.
Acquire(d) ==
  /\ ~queueLock[d]
  /\ queueLock' = [queueLock EXCEPT ![d] = TRUE]

-----------------------------------------------------------------------------
(* Switching threads *)

\* Core c executes its current thread, which is not inside any operation and
\* is in the kernel.
InKernelAt(c, p) ==
  /\ act[c] = "run"
  /\ pc[current[c]] = p
  /\ ctx[current[c]] # "user"

\* The core enters YieldInInterruptHandler.
EnterYield(c) == act' = [act EXCEPT ![c] = "yield"]

\* A thread calls KernelThreadScheduler::Yield.
Yield(c) ==
  /\ InKernelAt(c, "idle")
  /\ EnterYield(c)
  /\ UNCHANGED <<threadVars, flowVars, queueVars, current, next, elem,
                 semaVars, freed>>

\* The timer interrupt that ends a thread's time slice.
TimerInterruptHandler(c) ==
  /\ act[c] = "run"
  /\ EnterYield(c)
  /\ UNCHANGED <<threadVars, flowVars, queueVars, current, next, elem,
                 semaVars, freed>>

\* PopNextThreadToRun found nothing: the interrupted thread goes on.
YieldNoThread(c) ==
  /\ act[c] = "yield"
  /\ ~queueLock[c]
  /\ \A i \in 1 .. Len(threadList[c]) : ~IsRunnable(threadList[c][i])
  /\ threadList' = [threadList EXCEPT ![c] = <<>>]
  /\ act' = [act EXCEPT ![c] =
               IF pc[current[c]] = "exit_intr" THEN "panic" ELSE "run"]
  /\ UNCHANGED <<threadVars, flowVars, queueLock, numThreads, core, current,
                 next, elem, semaVars, freed>>

\* YieldInInterruptHandler takes the queue's lock, pops threads up to and
\* including the first runnable one, and terminates a killed process that was
\* interrupted in user mode.
YieldPopNext(c) ==
  /\ act[c] = "yield"
  /\ Acquire(c)
  /\ \E i \in 1 .. Len(threadList[c]) :
       /\ IsRunnable(threadList[c][i])
       /\ \A j \in 1 .. i - 1 : ~IsRunnable(threadList[c][j])
       /\ next' = [next EXCEPT ![c] = threadList[c][i]]
       /\ threadList' = [threadList EXCEPT ![c] = Popped(@, i)]
  /\ act' = [act EXCEPT ![c] = "switch"]
  /\ status' = [status EXCEPT ![current[c]] =
                  IF ctx[current[c]] = "user"
                  THEN TerminateIfReady(current[c]) ELSE @]
  /\ UNCHANGED <<statusBeforeSleep, inQueue, cpuId, flowVars, numThreads, core,
                 current, elem, semaVars, freed>>

\* Fault: a sleeping thread is put back too.
RequeuedAsleep(t) == status[t] # "terminate" /\ ~inQueue[t]

\* The thread that leaves the core goes to the back of the queue.
Requeued(t) == IsRunnable(t) /\ ~inQueue[t]

\* Fault: the thread that starts to run keeps its mark.
QueueMarksStale(t, n) == [inQueue EXCEPT ![t] = Requeued(t)]

\* in_queue_ after a switch from t to n.
QueueMarks(t, n) == [inQueue EXCEPT ![t] = Requeued(t), ![n] = FALSE]

\* num_threads_per_core_ after a switch from t: a thread that is not put back
\* is no longer counted.
CountLeft(t) ==
  [numThreads EXCEPT ![cpuId[t]] = IF Requeued(t) THEN @ ELSE @ - 1]

\* YieldInInterruptHandler puts the interrupted thread back unless it sleeps,
\* has ended or is queued already, and makes the popped thread current.
YieldSwitch(c) ==
  LET t == current[c]
      n == next[c]
  IN  /\ act[c] = "switch"
      /\ threadList' = [threadList EXCEPT
                          ![c] = IF Requeued(t) THEN PushedBack(@, t) ELSE @]
      /\ numThreads' = CountLeft(t)
      /\ inQueue' = QueueMarks(t, n)
      /\ current' = [current EXCEPT ![c] = n]
      /\ next' = [next EXCEPT ![c] = None]
      /\ queueLock' = [queueLock EXCEPT ![c] = FALSE]
      /\ act' = [act EXCEPT ![c] =
                   IF pc[t] = "exit_intr" THEN "panic" ELSE "run"]
      /\ UNCHANGED <<status, statusBeforeSleep, cpuId, flowVars, core, elem,
                     semaVars, freed>>

-----------------------------------------------------------------------------
(* Starting threads *)

\* The current thread of core c is between two operations of its own code,
\* not of a page fault handler.
InThreadCode(c) ==
  /\ InKernelAt(c, "idle")
  /\ ctx[current[c]] \in {"kernel", "syscall"}

\* The part of EnqueueThread under the queue's lock.
PushBack(t) ==
  /\ threadList' = [threadList EXCEPT
                      ![cpuId[t]] = IF inQueue[t] THEN @ ELSE PushedBack(@, t)]
  /\ inQueue' = [inQueue EXCEPT ![t] = TRUE]

\* KernelThread::Start: a kernel thread stays on the core that created it, a
\* process goes to the next core of the round robin.  The thread count grows
\* before the lock is taken; interrupts stay enabled throughout.
Start(c, u) ==
  /\ InThreadCode(c)
  /\ pc[u] = "new"
  /\ LET home == IF u \in Processes THEN core ELSE c
     IN  /\ cpuId' = [cpuId EXCEPT ![u] = home]
         /\ numThreads' = [d \in Cores |->
              IF d = home THEN numThreads[d] + 1 ELSE numThreads[d]]
  /\ core' = IF u \in Processes THEN (core + 1) % NumCores ELSE core
  /\ pc' = [pc EXCEPT ![u] = "idle", ![current[c]] = "start_lock"]
  /\ target' = [target EXCEPT ![current[c]] = u]
  /\ UNCHANGED <<status, statusBeforeSleep, inQueue, ctx, wants, threadList,
                 queueLock, coreVars, semaVars, freed>>

\* MultiCoreSpinLock::lock on the queue of the core the new thread belongs to.
StartLock(c) ==
  LET d == cpuId[target[current[c]]]
  IN  /\ InKernelAt(c, "start_lock")
      /\ d \in Cores
      /\ Acquire(d)
      /\ pc' = [pc EXCEPT ![current[c]] = "start_push"]
      /\ UNCHANGED <<threadVars, ctx, target, wants, threadList, numThreads,
                     core, coreVars, semaVars, freed>>

\* The same lock, spun for kMaxSpinCnt rounds without success: yield.
SpinYield(c) ==
  /\ InKernelAt(c, "start_lock")
  /\ cpuId[target[current[c]]] \in Cores
  /\ queueLock[cpuId[target[current[c]]]]
  /\ EnterYield(c)
  /\ UNCHANGED <<threadVars, flowVars, queueVars, current, next, elem,
                 semaVars, freed>>

\* EnqueueThread pushes the new thread and releases the lock.
StartPush(c) ==
  LET t == current[c]
      u == target[t]
  IN  /\ InKernelAt(c, "start_push")
      /\ PushBack(u)
      /\ queueLock' = [queueLock EXCEPT ![cpuId[u]] = FALSE]
      /\ pc' = [pc EXCEPT ![t] = "idle"]
      /\ target' = [target EXCEPT ![t] = None]
      /\ UNCHANGED <<status, statusBeforeSleep, cpuId, ctx, wants, numThreads,
                     core, coreVars, semaVars, freed>>

-----------------------------------------------------------------------------
(* Semaphores: interrupts are off from the first access to the last *)

\* Fault: the waiter is woken but not put into the scheduling queue.
WakeFirstLost(c, s) ==
  /\ waiters' = [waiters EXCEPT ![s] = Tail(@)]
  /\ status' = [status EXCEPT
                  ![Head(waiters[s])] = statusBeforeSleep[Head(waiters[s])]]
  /\ UNCHANGED <<numThreads, elem, act>>

\* Fault: the waiters are left asleep.
WakeFirstSkipped(c, s) == UNCHANGED <<waiters, status, numThreads, elem, act>>

\* The first waiter of s is woken (KernelThread::WakeUp) and handed to
\* EnqueueThread, whose first step counts it.
WakeFirst(c, s) ==
  LET w == Head(waiters[s])
  IN  /\ waiters' = [waiters EXCEPT ![s] = Tail(@)]
      /\ status' = [status EXCEPT ![w] = statusBeforeSleep[w]]
      /\ numThreads' = [numThreads EXCEPT ![cpuId[w]] = @ + 1]
      /\ elem' = [elem EXCEPT ![c] = w]
      /\ act' = [act EXCEPT ![c] = "enqueue"]

\* Semaphore::Up, by a thread of the semaphore's core or by an interrupt
\* handler that runs there.
Up(c, s) ==
  /\ act[c] = "run"
  /\ SemaCore[s] = c
  /\ s \in IsrSemas \/ InKernelAt(c, "idle")
  /\ cnt[s] < MaxCnt
  /\ cnt' = [cnt EXCEPT ![s] = @ + 1]
  /\ \/ /\ waiters[s] = <<>>
        /\ UNCHANGED <<status, waiters, elem, act, numThreads>>
     \/ /\ waiters[s] # <<>>
        /\ WakeFirst(c, s)
  /\ UNCHANGED <<statusBeforeSleep, inQueue, cpuId, flowVars, threadList,
                 queueLock, core, current, next, freed>>

\* EnqueueThread called by Up: lock, push, unlock, with interrupts off.
UpEnqueueThread(c) ==
  /\ act[c] = "enqueue"
  /\ ~queueLock[cpuId[elem[c]]]
  /\ PushBack(elem[c])
  /\ elem' = [elem EXCEPT ![c] = None]
  /\ act' = [act EXCEPT ![c] = "run"]
  /\ UNCHANGED <<status, statusBeforeSleep, cpuId, flowVars, queueLock,
                 numThreads, core, current, next, semaVars, freed>>

\* One round of the loop of Semaphore::Down.  The init threads do not call it
\* once boot is over.
Down(c, s) ==
  LET t == current[c]
  IN  /\ SemaCore[s] = c
      /\ t # Main[c]
      /\ InKernelAt(c, "idle") \/ (InKernelAt(c, "down") /\ wants[t] = s)
      /\ \/ /\ cnt[s] > 0
            /\ cnt' = [cnt EXCEPT ![s] = @ - 1]
            /\ pc' = [pc EXCEPT ![t] = "idle"]
            /\ wants' = [wants EXCEPT ![t] = None]
            /\ UNCHANGED <<status, statusBeforeSleep, waiters, act>>
         \/ /\ cnt[s] = 0
            /\ IF Len(threadList[c]) > 0
               THEN /\ MakeSleep(t)
                    /\ waiters' = [waiters EXCEPT ![s] = Append(@, t)]
               ELSE UNCHANGED <<status, statusBeforeSleep, waiters>>
            /\ pc' = [pc EXCEPT ![t] = "down"]
            /\ wants' = [wants EXCEPT ![t] = s]
            /\ EnterYield(c)
            /\ UNCHANGED cnt
      /\ UNCHANGED <<inQueue, cpuId, ctx, target, queueVars, current, next,
                     elem, freed>>

-----------------------------------------------------------------------------
(* The end of a thread *)

\* KernelThread::Terminate: a thread's function returned, or SysExit.
Terminate(c) ==
  LET t == current[c]
  IN  /\ InThreadCode(c)
      /\ \A d \in Cores : t # Main[d]
      /\ MakeTerminate(t)
      /\ pc' = [pc EXCEPT ![t] = "exit"]
      /\ EnterYield(c)
      /\ UNCHANGED <<statusBeforeSleep, inQueue, cpuId, ctx, target, wants,
                     queueVars, current, next, elem, semaVars, freed>>

\* Terminate's Yield came back: PANIC.
TerminatePanic(c) ==
  /\ act[c] = "run"
  /\ pc[current[c]] = "exit"
  /\ act' = [act EXCEPT ![c] = "panic"]
  /\ UNCHANGED <<threadVars, flowVars, queueVars, current, next, elem,
                 semaVars, freed>>

\* Fault: the joiner waits for the wrong mark.
JoinIsOverWrongMark(u) == status[u] = "terminate_ready"

\* The condition that ends the loop of KernelThread::Join.
JoinIsOver(u) == status[u] = "terminate"

\* One round of the loop of KernelThread::Join; once it is over the joiner
\* yields before it deletes the thread, as the console's wait thread does.
Join(c, u) ==
  LET t == current[c]
  IN  /\ t \in Joiners
      /\ u # t /\ pc[u] # "new" /\ u \notin freed
      /\ \A d \in Cores : u # Main[d]
      /\ \/ /\ InThreadCode(c)
            /\ \A v \in Threads : target[v] # u
         \/ InKernelAt(c, "join") /\ target[t] = u
      /\ pc' = [pc EXCEPT ![t] =
                  IF JoinIsOver(u) THEN "delete" ELSE "join"]
      /\ target' = [target EXCEPT ![t] = u]
      /\ EnterYield(c)
      /\ UNCHANGED <<threadVars, ctx, wants, queueVars, current, next, elem,
                     semaVars, freed>>

\* delete: the destructor gives the thread's kernel stack back.
Delete(c) ==
  LET t == current[c]
  IN  /\ InKernelAt(c, "delete")
      /\ freed' = freed \cup {target[t]}
      /\ pc' = [pc EXCEPT ![t] = "idle"]
      /\ target' = [target EXCEPT ![t] = None]
      /\ UNCHANGED <<threadVars, ctx, wants, queueVars, coreVars, semaVars>>

-----------------------------------------------------------------------------
(* User processes *)

\* The current thread of core c runs in user mode.
InUser(c) == act[c] = "run" /\ ctx[current[c]] = "user"

\* A killed process stops on its way into the kernel: MakeTerminate, Yield.
\* Otherwise it goes on in kernel context k.
EnterKernel(c, k) ==
  LET t == current[c]
  IN  /\ status' = [status EXCEPT ![t] = TerminateIfReady(t)]
      /\ ctx' = [ctx EXCEPT ![t] = k]
      /\ pc' = [pc EXCEPT ![t] =
                  IF status[t] = "terminate_ready" THEN "exit" ELSE @]
      /\ IF status[t] = "terminate_ready" THEN EnterYield(c) ELSE UNCHANGED act
      /\ UNCHANGED <<statusBeforeSleep, inQueue, cpuId, target, wants,
                     queueVars, current, next, elem, semaVars, freed>>

\* SyscallManager::SyscallHandler up to the dispatch of the system call.
SyscallEnter(c) == InUser(c) /\ EnterKernel(c, "syscall")

\* SyscallHandler after the dispatch.  A killed process is only marked: the
\* handler still returns to user mode.
SyscallReturn(c) ==
  LET t == current[c]
  IN  /\ InKernelAt(c, "idle")
      /\ ctx[t] = "syscall"
      /\ status' = [status EXCEPT ![t] = TerminateIfReady(t)]
      /\ ctx' = [ctx EXCEPT ![t] = "user"]
      /\ UNCHANGED <<statusBeforeSleep, inQueue, cpuId, pc, target, wants,
                     queueVars, coreVars, semaVars, freed>>

\* PageTableManager::PageFaultHandler for an address the process owns, taken
\* in user mode, or in a system call that copies from or to user memory.
PageFaultEnter(c) ==
  \/ InUser(c) /\ EnterKernel(c, "fault")
  \/ /\ InKernelAt(c, "idle")
     /\ ctx[current[c]] = "syscall"
     /\ EnterKernel(c, "nested_fault")

\* The end of the page fault handler: back to where the fault was taken.
PageFaultReturn(c) ==
  /\ InKernelAt(c, "idle")
  /\ ctx[current[c]] \in {"fault", "nested_fault"}
  /\ ctx' = [ctx EXCEPT ![current[c]] =
               IF @ = "fault" THEN "user" ELSE "syscall"]
  /\ UNCHANGED <<threadVars, pc, target, wants, queueVars, coreVars, semaVars,
                 freed>>

\* PageFaultHandler for any other address, taken in user mode or in a system
\* call that was given it: TerminateInInterruptHandler.
PageFaultInvalid(c) ==
  LET t == current[c]
  IN  /\ InUser(c) \/ (InKernelAt(c, "idle") /\ ctx[t] = "syscall")
      /\ t \in Faulty
      /\ status[t] # "terminate_ready"
      /\ MakeTerminate(t)
      /\ pc' = [pc EXCEPT ![t] = "exit_intr"]
      /\ EnterYield(c)
      /\ UNCHANGED <<statusBeforeSleep, inQueue, cpuId, ctx, target, wants,
                     queueVars, current, next, elem, semaVars, freed>>

-----------------------------------------------------------------------------
\* The steps of core c that end by themselves: no user or device decides.
KernelStep(c) ==
  \/ YieldNoThread(c)
  \/ YieldPopNext(c)
  \/ YieldSwitch(c)
  \/ StartLock(c)
  \/ StartPush(c)
  \/ UpEnqueueThread(c)
  \/ TerminatePanic(c)
  \/ Delete(c)

Next ==
  \E c \in Cores :
    \/ KernelStep(c)
    \/ Yield(c)
    \/ TimerInterruptHandler(c)
    \/ SpinYield(c)
    \/ Terminate(c)
    \/ SyscallEnter(c)
    \/ SyscallReturn(c)
    \/ PageFaultEnter(c)
    \/ PageFaultReturn(c)
    \/ PageFaultInvalid(c)
    \/ \E u \in Threads : Start(c, u) \/ Join(c, u)
    \/ \E s \in Semas : Up(c, s) \/ Down(c, s)

Spec == Init /\ [][Next]_vars

\* The scheduled thread t goes on: the next round of the loop of Join or Down,
\* or what follows the Yield of Terminate.
LoopStep(c, t) ==
  /\ current[c] = t
  /\ \/ \E u \in Threads : pc[t] = "join" /\ Join(c, u)
     \/ \E s \in Semas : pc[t] = "down" /\ Down(c, s)
     \/ TerminatePanic(c)

\* A core never stops in the middle of a section of its own.  A pending timer
\* interrupt is delivered as soon as interrupts are enabled again, and a slice
\* is long enough for a round of a thread's loop, however often either of
\* them is held up: hence strong fairness.
Fairness ==
  \A c \in Cores :
    /\ WF_vars(KernelStep(c))
    /\ SF_vars(TimerInterruptHandler(c))
    /\ \A t \in Threads : SF_vars(LoopStep(c, t))

LiveSpec == Spec /\ Fairness

-----------------------------------------------------------------------------
(* Where a thread is *)

Queued(t)   == \E c \in Cores : \E i \in 1 .. Len(threadList[c]) :
                 threadList[c][i] = t
Current(t)  == \E c \in Cores : current[c] = t
Chosen(t)   == \E c \in Cores : next[c] = t
Waking(t)   == \E c \in Cores : elem[c] = t
Starting(t) == \E v \in Threads :
                 pc[v] \in {"start_lock", "start_push"} /\ target[v] = t
Waiting(t)  == \E s \in Semas : \E i \in 1 .. Len(waiters[s]) :
                 waiters[s][i] = t

\* No two positions of the sequence hold the same thread.
NoRepeats(q) == \A i, j \in 1 .. Len(q) : q[i] = q[j] => i = j

\* A thread is in one place only.  It is at most once in its own core's queue,
\* and a thread that is queued, running, chosen to run, being woken or being
\* started is in none of the other four; a thread in a semaphore's list is in
\* none of them, except that it still runs until YieldInInterruptHandler has
\* switched away from it.  Two places would be two cores on one kernel stack,
\* or one list element in two KernelLists.
OnePlace ==
  /\ \A c \in Cores : NoRepeats(threadList[c])
  /\ \A s \in Semas : NoRepeats(waiters[s])
  /\ \A c \in Cores : cpuId[current[c]] = c
  /\ \A c \in Cores : next[c] # None => cpuId[next[c]] = c
  /\ \A c \in Cores : \A i \in 1 .. Len(threadList[c]) :
       cpuId[threadList[c][i]] = c
  /\ \A s \in Semas : \A i \in 1 .. Len(waiters[s]) :
       cpuId[waiters[s][i]] = SemaCore[s]
  /\ \A t \in Threads :
       /\ Queued(t) => ~(Current(t) \/ Chosen(t) \/ Waking(t) \/ Starting(t))
       /\ Current(t) => ~(Chosen(t) \/ Waking(t) \/ Starting(t))
       /\ Chosen(t) => ~(Waking(t) \/ Starting(t))
       /\ Waking(t) => ~Starting(t)
       /\ Waiting(t) => ~(Queued(t) \/ Chosen(t) \/ Waking(t) \/ Starting(t))
  /\ \A c \in Cores : Waiting(current[c]) => act[c] \in {"yield", "switch"}

\* A started thread that can run is never forgotten: it runs, or some step
\* that is already under way or a queue will bring it to its core.
NeverLost ==
  \A t \in Threads :
    pc[t] # "new" /\ IsRunnable(t) =>
      Queued(t) \/ Current(t) \/ Chosen(t) \/ Waking(t) \/ Starting(t)

\* in_queue_, on which both YieldInInterruptHandler and EnqueueThread decide
\* whether to push, tells the truth about the queue.
InQueueFlag == \A t \in Threads : inQueue[t] <=> (Queued(t) \/ Chosen(t))

\* Two actors never hold the lock of one run queue, and the lock is taken
\* exactly while one of them does.
QueueLockHolders(c) ==
  {<<"handler", d>> : d \in {e \in Cores : e = c /\ act[e] = "switch"}} \cup
  {<<"start", v>> : v \in {w \in Threads :
                             pc[w] = "start_push" /\ cpuId[target[w]] = c}}
QueueLockExclusive ==
  \A c \in Cores :
    Cardinality(QueueLockHolders(c)) = IF queueLock[c] THEN 1 ELSE 0

\* A semaphore never keeps a thread asleep while nobody is left to take its
\* count: with sleepers in the list, there are at least as many awake threads
\* inside Down as there are units to take.
NoLostWakeup ==
  \A s \in Semas : waiters[s] # <<>> =>
    cnt[s] <= Cardinality({t \in Threads : wants[t] = s /\ status[t] # "sleep"})

\* num_threads_per_core_, which the console prints, counts the live threads of
\* a core, the init thread left out.
Counted(t) ==
  Queued(t) \/ Current(t) \/ Chosen(t) \/ Waking(t) \/ Starting(t)
ThreadCountExact ==
  \A c \in Cores :
    numThreads[c] =
      Cardinality({t \in Threads \ {Main[c]} : cpuId[t] = c /\ Counted(t)})

\* Terminate's Yield never comes back to the thread that has ended, whatever
\* the other threads of the core are doing: there is always a thread to
\* switch to, and the ended one is in no queue.
TerminateNeverReturns ==
  \A c \in Cores : ~(act[c] = "run" /\ pc[current[c]] \in {"exit", "exit_intr"})

\* What the console prints, the marks and the locks of the run queues are true of
\* the queues, on all cores and between any two steps of theirs.
QueuesAccounted == InQueueFlag /\ QueueLockExclusive /\ ThreadCountExact /\ TerminateNeverReturns

\* No core waits, with interrupts off, for a queue lock whose holder is the
\* very thread it interrupted.
NoSelfDeadlock ==
  \A c \in Cores :
    LET t == current[c]
        holds(d) == pc[t] = "start_push" /\ cpuId[target[t]] = d
    IN  /\ act[c] = "yield" => ~holds(c)
        /\ act[c] = "enqueue" => ~holds(cpuId[elem[c]])

\* No runnable thread starves: from the moment Up has woken it or a yield has
\* queued it, a thread gets its core again.
NoStarvation ==
  \A t \in Threads : (Queued(t) \/ Waking(t)) ~> Current(t)

\* Join returns: a thread that waits for one that has ended gets past Join.
JoinReturns ==
  \A t, u \in Threads :
    (pc[t] = "join" /\ target[t] = u /\ status[u] = "terminate")
      ~> pc[t] # "join"

\* A core never switches to a thread that has ended or is asleep, not even to
\* one that ended or fell asleep after it was queued.
EndedStaysOff ==
  [][\A c \in Cores : current'[c] # current[c] =>
       status[current'[c]] \notin {"terminate", "sleep"}]_vars

=============================================================================
