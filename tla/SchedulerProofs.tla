--------------------------- MODULE SchedulerProofs ---------------------------
(***************************************************************************)
(* Theorems about Scheduler, for every number of cores, threads and        *)
(* semaphores and every boot configuration: steps act on threads that      *)
(* exist, a thread is in one place, and one that can run is in some place. *)
(***************************************************************************)
EXTENDS Scheduler, TLAPS

\* The operands of the steps under way exist.  TypeOK alone is not inductive:
\* a switch makes next[c] the current thread, an enqueue pushes elem[c], a
\* start pushes the target, and a wake-up restores the saved status.
OperandsExist ==
  /\ \A c \in Cores : act[c] = "switch" => next[c] \in Threads
  /\ \A c \in Cores : act[c] = "enqueue" => elem[c] \in Threads
  /\ \A t \in Threads :
       pc[t] \in {"start_lock", "start_push", "delete"} => target[t] \in Threads
  /\ \A s \in Semas : \A i \in 1 .. Len(waiters[s]) :
       statusBeforeSleep[waiters[s][i]] \in Status

TypeInv == TypeOK /\ OperandsExist

-----------------------------------------------------------------------------
(* Functions and sequences *)

\* An assignment to one entry keeps the type of a table, also when the index
\* is not in the table.
LEMMA ExceptType ==
  ASSUME NEW A, NEW B, NEW f \in [A -> B], NEW x, NEW v, x \in A => v \in B
  PROVE  [f EXCEPT ![x] = v] \in [A -> B]
  OBVIOUS

\* What Append adds to a queue, position by position.
LEMMA AppendPositions ==
  ASSUME NEW S, NEW q \in Seq(S), NEW x \in S
  PROVE  /\ Append(q, x) \in Seq(S)
         /\ Len(Append(q, x)) = Len(q) + 1
         /\ \A i \in 1 .. Len(q) : Append(q, x)[i] = q[i]
         /\ Append(q, x)[Len(q) + 1] = x
  OBVIOUS

\* The remainder of a queue after i pops.
LEMMA PoppedPositions ==
  ASSUME NEW S, NEW q \in Seq(S), NEW i \in 1 .. Len(q)
  PROVE  /\ Popped(q, i) \in Seq(S)
         /\ Len(Popped(q, i)) = Len(q) - i
         /\ \A j \in 1 .. Len(q) - i : Popped(q, i)[j] = q[i + j]
  BY DEF Popped

\* The head and the tail of a list of waiters.
LEMMA TailPositions ==
  ASSUME NEW S, NEW q \in Seq(S), q # <<>>
  PROVE  /\ Head(q) \in S
         /\ Head(q) = q[1]
         /\ 1 \in 1 .. Len(q)
         /\ Tail(q) \in Seq(S)
         /\ Len(Tail(q)) = Len(q) - 1
         /\ \A j \in 1 .. Len(q) - 1 : Tail(q)[j] = q[j + 1]
  OBVIOUS

-----------------------------------------------------------------------------
(* Type correctness *)

LEMMA InitTypeInv == Init => TypeInv
  <1> SUFFICES ASSUME Init PROVE TypeInv
    OBVIOUS
  <1>1. \A t \in Threads : BootCore(t) \in Nat
    <2> TAKE t \in Threads
    <2> DEFINE P(c) == Main[c] = t \/ \E i \in 1 .. Len(Boot[c]) : Boot[c][i] = t
    <2>1. CASE \E c \in Cores : P(c)
      <3>1. (CHOOSE c \in Cores : P(c)) \in Cores
        BY <2>1, Zenon
      <3> QED
        BY <2>1, <3>1, ConstantsAssumption DEF BootCore, Cores
    <2>2. CASE ~\E c \in Cores : P(c)
      BY <2>2 DEF BootCore
    <2> QED
      BY <2>1, <2>2
  <1>2. inQueue \in [Threads -> BOOLEAN]
    BY DEF Init, InBoot
  <1>3. numThreads \in [Cores -> Int]
    BY ConstantsAssumption DEF Init
  <1>4. TypeOK
    BY <1>1, <1>2, <1>3, ConstantsAssumption
    DEF Init, TypeOK, Status, Pc, Ctx, Act
  <1>5. OperandsExist
    BY DEF Init, OperandsExist
  <1> QED
    BY <1>4, <1>5 DEF TypeInv
\* Every step of every core preserves TypeInv.
LEMMA NextTypeInv == TypeInv /\ [Next]_vars => TypeInv'
  <1> SUFFICES ASSUME TypeInv, [Next]_vars PROVE TypeInv'
    OBVIOUS
  <1> USE ConstantsAssumption
      DEF TypeInv, TypeOK, OperandsExist, Status, Pc, Ctx, Act, vars,
          threadVars, flowVars, queueVars, coreVars, semaVars
  <1>1. CASE UNCHANGED vars
    BY <1>1
  <1>2. ASSUME NEW c \in Cores, YieldNoThread(c) PROVE TypeInv'
    BY <1>2 DEF YieldNoThread
  <1>3. ASSUME NEW c \in Cores, YieldPopNext(c) PROVE TypeInv'
    <2>1. PICK i \in 1 .. Len(threadList[c]) :
            /\ next' = [next EXCEPT ![c] = threadList[c][i]]
            /\ threadList' = [threadList EXCEPT ![c] = Popped(@, i)]
      BY <1>3 DEF YieldPopNext
    <2>2. threadList[c] \in Seq(Threads)
      OBVIOUS
    <2>3. threadList' \in [Cores -> Seq(Threads)]
      BY <2>1, <2>2, PoppedPositions
    <2>4. threadList[c][i] \in Threads
      BY <2>1, <2>2
    <2>5. next' \in [Cores -> Threads \cup {None}] /\ next'[c] \in Threads
      BY <2>1, <2>4
    <2>6. TypeOK'
      BY <1>3, <2>3, <2>5 DEF YieldPopNext, Acquire, TerminateIfReady
    <2>7. /\ act' = [act EXCEPT ![c] = "switch"]
          /\ next' = [next EXCEPT ![c] = threadList[c][i]]
          /\ UNCHANGED <<elem, pc, target, waiters, statusBeforeSleep>>
      BY <1>3, <2>1 DEF YieldPopNext
    <2>8. OperandsExist'
      BY <2>4, <2>7
    <2> QED
      BY <2>6, <2>8
  <1>4. ASSUME NEW c \in Cores, YieldSwitch(c) PROVE TypeInv'
    <2>1. /\ current[c] \in Threads
          /\ next[c] \in Threads
          /\ threadList[c] \in Seq(Threads)
      BY <1>4 DEF YieldSwitch
    <2>2. threadList' \in [Cores -> Seq(Threads)]
      BY <1>4, <2>1, AppendPositions DEF YieldSwitch, PushedBack
    <2>3. numThreads' \in [Cores -> Int]
      <3> DEFINE d == cpuId[current[c]]
                 n == IF Requeued(current[c]) THEN numThreads[d]
                                             ELSE numThreads[d] - 1
      <3>1. numThreads' = [numThreads EXCEPT ![d] = n]
        BY <1>4 DEF YieldSwitch, CountLeft
      <3>2. d \in Cores => n \in Int
        OBVIOUS
      <3>3. numThreads \in [Cores -> Int]
        OBVIOUS
      <3> HIDE DEF d, n
      <3> QED
        BY ONLY <3>1, <3>2, <3>3, ExceptType
    <2>4. inQueue' \in [Threads -> BOOLEAN]
      BY <1>4 DEF YieldSwitch, QueueMarks, Requeued, IsRunnable
    <2>5. TypeOK'
      BY <1>4, <2>1, <2>2, <2>3, <2>4 DEF YieldSwitch
    <2>6. OperandsExist'
      BY <1>4 DEF YieldSwitch
    <2> QED
      BY <2>5, <2>6
  <1>5. ASSUME NEW c \in Cores, StartLock(c) PROVE TypeInv'
    <2>1. current[c] \in Threads
      OBVIOUS
    <2>2. TypeOK'
      BY <1>5, <2>1 DEF StartLock, Acquire, InKernelAt
    <2>3. OperandsExist'
      BY <1>5, <2>1 DEF StartLock, Acquire, InKernelAt
    <2> QED
      BY <2>2, <2>3
  <1>6. ASSUME NEW c \in Cores, StartPush(c) PROVE TypeInv'
    <2>1. /\ current[c] \in Threads
          /\ target[current[c]] \in Threads
      BY <1>6 DEF StartPush, InKernelAt
    <2>2. TypeOK'
      <3> DEFINE t == current[c]
                 u == target[t]
      <3>1. /\ threadList' = [threadList EXCEPT ![cpuId[u]] =
                                IF inQueue[u] THEN @ ELSE Append(@, u)]
            /\ inQueue' = [inQueue EXCEPT ![u] = TRUE]
            /\ queueLock' = [queueLock EXCEPT ![cpuId[u]] = FALSE]
            /\ pc' = [pc EXCEPT ![t] = "idle"]
            /\ target' = [target EXCEPT ![t] = None]
        BY <1>6 DEF StartPush, PushBack, PushedBack
      <3>2. threadList' \in [Cores -> Seq(Threads)]
        <4> DEFINE d == cpuId[u]
                   q == IF inQueue[u] THEN threadList[d] ELSE Append(threadList[d], u)
        <4>1. threadList \in [Cores -> Seq(Threads)]
          OBVIOUS
        <4>2. d \in Cores => q \in Seq(Threads)
          BY <2>1, <4>1, AppendPositions
        <4>3. threadList' = [threadList EXCEPT ![d] = q]
          BY <3>1
        <4> HIDE DEF d, q
        <4> QED
          BY <4>1, <4>2, <4>3, ExceptType
      <3>3. /\ inQueue' \in [Threads -> BOOLEAN]
            /\ queueLock' \in [Cores -> BOOLEAN]
            /\ pc' \in [Threads -> Pc]
            /\ target' \in [Threads -> Threads \cup {None}]
        BY <2>1, <3>1
      <3> QED
        BY <1>6, <3>2, <3>3 DEF StartPush
    <2>3. OperandsExist'
      BY <1>6, <2>1, AppendPositions DEF StartPush, PushBack, PushedBack, InKernelAt
    <2> QED
      BY <2>2, <2>3
  <1>7. ASSUME NEW c \in Cores, UpEnqueueThread(c) PROVE TypeInv'
    <2>1. elem[c] \in Threads
      BY <1>7 DEF UpEnqueueThread
    <2>2. threadList' \in [Cores -> Seq(Threads)]
      <3> DEFINE d == cpuId[elem[c]]
                 q == IF inQueue[elem[c]] THEN threadList[d]
                                          ELSE Append(threadList[d], elem[c])
      <3>1. threadList' = [threadList EXCEPT ![d] = q]
        BY <1>7 DEF UpEnqueueThread, PushBack, PushedBack
      <3>2. d \in Cores => q \in Seq(Threads)
        BY <2>1, AppendPositions
      <3>3. threadList \in [Cores -> Seq(Threads)]
        OBVIOUS
      <3> HIDE DEF d, q
      <3> QED
        BY ONLY <3>1, <3>2, <3>3, ExceptType
    <2>3. TypeOK'
      BY <1>7, <2>2 DEF UpEnqueueThread, PushBack
    <2>4. OperandsExist'
      BY <1>7 DEF UpEnqueueThread
    <2> QED
      BY <2>3, <2>4
  <1>8. ASSUME NEW c \in Cores, TerminatePanic(c) PROVE TypeInv'
    BY <1>8 DEF TerminatePanic
  <1>9. ASSUME NEW c \in Cores, Delete(c) PROVE TypeInv'
    <2>1. current[c] \in Threads
      OBVIOUS
    <2>2. TypeOK'
      BY <1>9, <2>1 DEF Delete, InKernelAt
    <2>3. OperandsExist'
      BY <1>9, <2>1 DEF Delete, InKernelAt
    <2> QED
      BY <2>2, <2>3
  <1>10. ASSUME NEW c \in Cores, Yield(c) PROVE TypeInv'
    BY <1>10 DEF Yield, EnterYield
  <1>11. ASSUME NEW c \in Cores, TimerInterruptHandler(c) PROVE TypeInv'
    BY <1>11 DEF TimerInterruptHandler, EnterYield
  <1>12. ASSUME NEW c \in Cores, SpinYield(c) PROVE TypeInv'
    <2>1. /\ act' = [act EXCEPT ![c] = "yield"]
          /\ UNCHANGED <<threadVars, flowVars, queueVars, current, next, elem,
                         semaVars, freed>>
      BY <1>12 DEF SpinYield, EnterYield
    <2> QED
      BY <2>1
  <1>13. ASSUME NEW c \in Cores, Terminate(c) PROVE TypeInv'
    BY <1>13 DEF Terminate, EnterYield, MakeTerminate
  <1>14. ASSUME NEW c \in Cores, SyscallEnter(c) PROVE TypeInv'
    <2>1. current[c] \in Threads
      OBVIOUS
    <2>2. TypeOK'
      BY <1>14, <2>1, SMTT(60) DEF SyscallEnter, EnterKernel, EnterYield, TerminateIfReady
    <2>3. OperandsExist'
      BY <1>14, <2>1 DEF SyscallEnter, EnterKernel, EnterYield, TerminateIfReady
    <2> QED
      BY <2>2, <2>3
  <1>15. ASSUME NEW c \in Cores, SyscallReturn(c) PROVE TypeInv'
    BY <1>15 DEF SyscallReturn, TerminateIfReady
  <1>16. ASSUME NEW c \in Cores, PageFaultEnter(c) PROVE TypeInv'
    <2>1. current[c] \in Threads
      OBVIOUS
    <2>2. PICK k \in {"fault", "nested_fault"} : EnterKernel(c, k)
      BY <1>16 DEF PageFaultEnter
    <2>3. TypeOK'
      <3>1. TerminateIfReady(current[c]) \in Status
        BY <2>1 DEF TerminateIfReady
      <3>2. status' \in [Threads -> Status] /\ ctx' \in [Threads -> Ctx]
        BY <2>1, <2>2, <3>1 DEF EnterKernel
      <3>3. pc' \in [Threads -> Pc]
        BY <2>1, <2>2 DEF EnterKernel
      <3>4. act' \in [Cores -> Act]
        BY <2>1, <2>2 DEF EnterKernel, EnterYield
      <3> QED
        BY <2>2, <3>2, <3>3, <3>4 DEF EnterKernel
    <2>4. OperandsExist'
      BY <2>1, <2>2 DEF EnterKernel, EnterYield
    <2> QED
      BY <2>3, <2>4
  <1>17. ASSUME NEW c \in Cores, PageFaultReturn(c) PROVE TypeInv'
    BY <1>17 DEF PageFaultReturn
  <1>18. ASSUME NEW c \in Cores, PageFaultInvalid(c) PROVE TypeInv'
    BY <1>18 DEF PageFaultInvalid, EnterYield, MakeTerminate
  <1>19. ASSUME NEW c \in Cores, NEW u \in Threads, Start(c, u) PROVE TypeInv'
    <2>1. current[c] \in Threads
      OBVIOUS
    <2>2. cpuId' \in [Threads -> Nat]
      BY <1>19 DEF Start, Cores
    <2>3. numThreads' \in [Cores -> Int]
      BY <1>19 DEF Start
    <2>4. core' \in Nat
      BY <1>19 DEF Start
    <2>5. TypeOK'
      BY <1>19, <2>1, <2>2, <2>3, <2>4 DEF Start
    <2>6. OperandsExist'
      <3>1. /\ pc' = [pc EXCEPT ![u] = "idle", ![current[c]] = "start_lock"]
            /\ target' = [target EXCEPT ![current[c]] = u]
            /\ UNCHANGED <<act, next, elem, waiters, statusBeforeSleep>>
        BY <1>19 DEF Start
      <3>2. /\ OperandsExist /\ pc \in [Threads -> Pc]
            /\ target \in [Threads -> Threads \cup {None}]
        OBVIOUS
      <3>3. \A t \in Threads :
              pc'[t] \in {"start_lock", "start_push", "delete"} => target'[t] \in Threads
        BY ONLY <2>1, <3>1, <3>2, u \in Threads DEF OperandsExist
      <3> QED
        BY ONLY <3>1, <3>2, <3>3 DEF OperandsExist
    <2> QED
      BY <2>5, <2>6
  <1>20. ASSUME NEW c \in Cores, NEW u \in Threads, Join(c, u) PROVE TypeInv'
    BY <1>20 DEF Join, EnterYield
  <1>21. ASSUME NEW c \in Cores, NEW s \in Semas, Up(c, s) PROVE TypeInv'
    <2>1. cnt' \in [Semas -> Nat]
      BY <1>21 DEF Up
    <2>2. CASE waiters[s] = <<>>
      <3>1. UNCHANGED <<status, waiters, elem, act, numThreads>>
        BY <1>21, <2>2 DEF Up, WakeFirst
      <3> QED
        BY <1>21, <2>1, <3>1 DEF Up
    <2>3. CASE waiters[s] # <<>>
      <3> DEFINE w == Head(waiters[s])
      <3>1. WakeFirst(c, s)
        BY <1>21, <2>3 DEF Up
      <3>2. waiters[s] \in Seq(Threads)
        OBVIOUS
      <3>3. /\ w \in Threads
            /\ w = waiters[s][1]
            /\ 1 \in 1 .. Len(waiters[s])
            /\ Tail(waiters[s]) \in Seq(Threads)
            /\ Len(Tail(waiters[s])) = Len(waiters[s]) - 1
            /\ \A j \in 1 .. Len(waiters[s]) - 1 :
                 Tail(waiters[s])[j] = waiters[s][j + 1]
        BY <2>3, <3>2, TailPositions
      <3>4. statusBeforeSleep[w] \in Status
        BY <3>3
      <3>5. waiters' \in [Semas -> Seq(Threads)]
        BY <3>1, <3>3 DEF WakeFirst
      <3>6. status' \in [Threads -> Status]
        BY <3>1, <3>4 DEF WakeFirst
      <3>7. numThreads' \in [Cores -> Int]
        <4> DEFINE d == cpuId[w]
                   n == numThreads[d] + 1
        <4>1. numThreads' = [numThreads EXCEPT ![d] = n]
          BY <3>1 DEF WakeFirst
        <4>2. numThreads \in [Cores -> Int]
          OBVIOUS
        <4>3. d \in Cores => n \in Int
          BY ONLY <4>2
        <4> HIDE DEF d, n
        <4> QED
          BY ONLY <4>1, <4>2, <4>3, ExceptType
      <3>8. elem' \in [Cores -> Threads \cup {None}] /\ elem'[c] \in Threads
        <4>1. elem' = [elem EXCEPT ![c] = w]
          BY <3>1 DEF WakeFirst
        <4>2. elem \in [Cores -> Threads \cup {None}]
          OBVIOUS
        <4> HIDE DEF w
        <4> QED
          BY ONLY <3>3, <4>1, <4>2, c \in Cores
      <3>9. TypeOK'
        BY <1>21, <2>1, <3>1, <3>5, <3>6, <3>7, <3>8 DEF Up, WakeFirst
      <3>10. \A r \in Semas : \A i \in 1 .. Len(waiters'[r]) :
               statusBeforeSleep[waiters'[r][i]] \in Status
        <4> SUFFICES ASSUME NEW r \in Semas, NEW i \in 1 .. Len(waiters'[r])
                     PROVE  statusBeforeSleep[waiters'[r][i]] \in Status
          OBVIOUS
        <4>1. CASE r = s
          <5>1. waiters'[s] = Tail(waiters[s])
            BY <3>1 DEF WakeFirst
          <5>2. /\ i + 1 \in 1 .. Len(waiters[s])
                /\ waiters'[s][i] = waiters[s][i + 1]
            BY <3>2, <3>3, <4>1, <5>1
          <5> QED
            BY <4>1, <5>2
        <4>2. CASE r # s
          BY <3>1, <4>2 DEF WakeFirst
        <4> QED
          BY <4>1, <4>2
      <3>11. act' = [act EXCEPT ![c] = "enqueue"] /\ elem' = [elem EXCEPT ![c] = w]
        BY <3>1 DEF WakeFirst
      <3>12. UNCHANGED <<next, pc, target, statusBeforeSleep>>
        BY <1>21 DEF Up
      <3> HIDE DEF w
      <3>13. OperandsExist'
        <4>1. \A d \in Cores : act'[d] = "switch" => act[d] = "switch"
          BY <3>11
        <4>2. \A d \in Cores : act'[d] = "enqueue" => elem'[d] \in Threads
          BY <3>3, <3>11
        <4> QED
          BY <3>10, <3>12, <4>1, <4>2
      <3> QED
        BY <3>9, <3>13
    <2> QED
      BY <2>2, <2>3
  <1>22. ASSUME NEW c \in Cores, NEW s \in Semas, Down(c, s) PROVE TypeInv'
    <2> DEFINE t == current[c]
    <2>1. t \in Threads /\ waiters[s] \in Seq(Threads)
      OBVIOUS
    <2>2. CASE cnt[s] > 0
      <3>1. /\ cnt' = [cnt EXCEPT ![s] = @ - 1]
            /\ pc' = [pc EXCEPT ![t] = "idle"]
            /\ wants' = [wants EXCEPT ![t] = None]
            /\ UNCHANGED <<status, statusBeforeSleep, waiters, act, inQueue,
                           cpuId, ctx, target, queueVars, current, next, elem,
                           freed>>
        BY <1>22, <2>2, SMTT(60) DEF Down
      <3>2. cnt' \in [Semas -> Nat]
        <4>1. cnt \in [Semas -> Nat]
          OBVIOUS
        <4> QED
          BY ONLY <2>2, <3>1, <4>1, s \in Semas
      <3>3. TypeOK'
        BY <2>1, <3>1, <3>2
      <3>4. OperandsExist'
        <4>1. \A v \in Threads : pc'[v] # "idle" => pc'[v] = pc[v]
          BY <2>1, <3>1
        <4> QED
          BY <3>1, <4>1
      <3> QED
        BY <3>3, <3>4
    <2>3. CASE cnt[s] = 0
      <3>1. /\ pc' = [pc EXCEPT ![t] = "down"]
            /\ wants' = [wants EXCEPT ![t] = s]
            /\ act' = [act EXCEPT ![c] = "yield"]
            /\ UNCHANGED <<cnt, inQueue, cpuId, ctx, target, queueVars, current,
                           next, elem, freed>>
        BY <1>22, <2>3 DEF Down, EnterYield
      <3>2. \/ UNCHANGED <<status, statusBeforeSleep, waiters>>
            \/ /\ statusBeforeSleep' = [statusBeforeSleep EXCEPT ![t] = status[t]]
               /\ status' = [status EXCEPT ![t] = "sleep"]
               /\ waiters' = [waiters EXCEPT ![s] = Append(@, t)]
        BY <1>22, <2>3 DEF Down, MakeSleep
      <3>3. CASE UNCHANGED <<status, statusBeforeSleep, waiters>>
        <4>1. TypeOK'
          BY <2>1, <3>1, <3>3
        <4>2. \A v \in Threads : pc'[v] # "down" => pc'[v] = pc[v]
          BY <2>1, <3>1
        <4>3. \A d \in Cores : act'[d] # "yield" => act'[d] = act[d]
          BY <3>1
        <4>4. OperandsExist'
          BY <3>1, <3>3, <4>2, <4>3
        <4> QED
          BY <4>1, <4>4
      <3>4. CASE /\ statusBeforeSleep' = [statusBeforeSleep EXCEPT ![t] = status[t]]
                 /\ status' = [status EXCEPT ![t] = "sleep"]
                 /\ waiters' = [waiters EXCEPT ![s] = Append(@, t)]
        <4>1. /\ Append(waiters[s], t) \in Seq(Threads)
              /\ Len(Append(waiters[s], t)) = Len(waiters[s]) + 1
              /\ \A i \in 1 .. Len(waiters[s]) :
                   Append(waiters[s], t)[i] = waiters[s][i]
              /\ Append(waiters[s], t)[Len(waiters[s]) + 1] = t
          BY <2>1, AppendPositions
        <4>2. waiters' \in [Semas -> Seq(Threads)]
          BY <3>4, <4>1
        <4>3. TypeOK'
          BY <2>1, <3>1, <3>4, <4>2
        <4>4. \A r \in Semas : \A i \in 1 .. Len(waiters'[r]) :
                statusBeforeSleep'[waiters'[r][i]] \in Status
          <5> SUFFICES ASSUME NEW r \in Semas, NEW i \in 1 .. Len(waiters'[r])
                       PROVE  statusBeforeSleep'[waiters'[r][i]] \in Status
            OBVIOUS
          <5>1. waiters'[r][i] \in Threads
            BY <4>2, SMTT(60)
          <5>2. waiters'[r][i] = t \/
                  (i \in 1 .. Len(waiters[r]) /\ waiters'[r][i] = waiters[r][i])
            <6>1. CASE r = s
              <7>1. waiters'[s] = Append(waiters[s], t) /\ Len(waiters[s]) \in Nat
                <8>1. waiters \in [Semas -> Seq(Threads)]
                  OBVIOUS
                <8> QED
                  BY ONLY <3>4, <8>1, s \in Semas
              <7> QED
                BY ONLY <4>1, <6>1, <7>1, i \in 1 .. Len(waiters'[r])
            <6>2. CASE r # s
              BY <3>4, <6>2
            <6> QED
              BY <6>1, <6>2
          <5>3. statusBeforeSleep'[t] \in Status
            BY <2>1, <3>4
          <5>4. CASE waiters'[r][i] # t
            BY <3>4, <5>1, <5>2, <5>4
          <5> QED
            BY <5>3, <5>4
        <4>5. OperandsExist'
          BY <2>1, <3>1, <4>4, SMTT(60)
        <4> QED
          BY <4>3, <4>5
      <3> QED
        BY <3>2, <3>3, <3>4
    <2>4. cnt[s] > 0 \/ cnt[s] = 0
      OBVIOUS
    <2> QED
      BY <2>2, <2>3, <2>4
  <1> QED
    BY <1>1, <1>2, <1>3, <1>4, <1>5, <1>6, <1>7, <1>8, <1>9, <1>10, <1>11, <1>12, <1>13,
       <1>14, <1>15, <1>16, <1>17, <1>18, <1>19, <1>20, <1>21, <1>22 DEF Next, KernelStep

\* Type correctness of the scheduler, for every number of cores, threads and
\* semaphores: whatever the interleaving, a switch, an enqueue and a wake-up
\* act on a thread that exists, and no count of a semaphore drops below zero.
THEOREM TypeCorrect == Spec => []TypeOK
  <1>1. Init => TypeInv
    BY InitTypeInv
  <1>2. TypeInv /\ [Next]_vars => TypeInv'
    BY NextTypeInv
  <1>3. TypeInv => TypeOK
    BY DEF TypeInv
  <1> QED
    BY <1>1, <1>2, <1>3, PTL DEF Spec

-----------------------------------------------------------------------------
(***************************************************************************)
(* Where the threads are.  OnePlace is far from inductive: who may be      *)
(* pushed is decided by in_queue_ and status_, which PlaceInv ties to the  *)
(* places.                                                                 *)
(***************************************************************************)

\* Thread x is somewhere in the queue q.
In(q, x) == \E i \in 1 .. Len(q) : q[i] = x

\* Thread v is starting another one.
IsStarter(v) == pc[v] \in {"start_lock", "start_push"}

-----------------------------------------------------------------------------
(* The inductive invariant *)

\* The operand of a step exists exactly while the step is under way.
StepOperands ==
  \A c \in Cores :
    /\ act[c] = "switch" <=> next[c] # None
    /\ act[c] = "enqueue" <=> elem[c] # None

\* What happens to a thread happens on its own core.
Homes ==
  /\ \A c \in Cores : cpuId[current[c]] = c
  /\ \A c \in Cores : next[c] # None => cpuId[next[c]] = c
  /\ \A c \in Cores : elem[c] # None => cpuId[elem[c]] = c
  /\ \A c \in Cores, t \in Threads : In(threadList[c], t) => cpuId[t] = c
  /\ \A s \in Semas, t \in Threads : In(waiters[s], t) => cpuId[t] = SemaCore[s]

\* No list holds a thread twice.
ListsExact ==
  /\ \A c \in Cores : NoRepeats(threadList[c])
  /\ \A s \in Semas : NoRepeats(waiters[s])

\* The mark in_queue_ is on while the thread is in its queue or chosen.
Marks ==
  /\ \A c \in Cores, t \in Threads : In(threadList[c], t) => inQueue[t]
  /\ \A c \in Cores : next[c] # None => inQueue[next[c]]
  /\ \A t \in Threads : inQueue[t] =>
       \E c \in Cores : In(threadList[c], t) \/ next[c] = t

\* A thread that waits to run can run.
CanRun ==
  /\ \A t \in Threads : inQueue[t] => status[t] = "run" /\ pc[t] # "new"
  /\ \A c \in Cores : elem[c] # None => status[elem[c]] = "run" /\ pc[elem[c]] # "new"
  /\ \A t \in Threads : pc[t] = "new" => status[t] = "run"

\* The current thread is in none of the other places, and it can run unless
\* its core is about to leave it.
Running ==
  \A c \in Cores :
    /\ ~inQueue[current[c]]
    /\ pc[current[c]] # "new"
    /\ act[c] \notin {"yield", "switch"} => status[current[c]] = "run"

\* A chosen thread has left the queue it was popped from.
OutOfQueue == \A c \in Cores : next[c] # None => ~In(threadList[c], next[c])

\* A thread being woken is in no other place.
Woken ==
  \A c \in Cores : elem[c] # None => elem[c] # current[c] /\ ~inQueue[elem[c]]

\* A thread being started has one starter and is in no other place.
Started ==
  /\ \A v \in Threads : IsStarter(v) =>
       LET u == target[v]
       IN  /\ pc[u] = "idle" /\ status[u] = "run" /\ ~inQueue[u]
           /\ \A c \in Cores : current[c] # u /\ elem[c] # u
  /\ \A v, w \in Threads :
       IsStarter(v) /\ IsStarter(w) /\ target[v] = target[w] => v = w

\* A waiting thread sleeps inside Down, and remembers that it could run.
Asleep ==
  \A s \in Semas, t \in Threads : In(waiters[s], t) =>
    /\ status[t] = "sleep"
    /\ statusBeforeSleep[t] = "run"
    /\ pc[t] = "down" /\ wants[t] = s

\* Without ctrl-c a thread that cannot run sleeps or has ended.
Ended ==
  \A t \in Threads :
    /\ status[t] # "terminate_ready"
    /\ status[t] = "terminate" <=> pc[t] \in {"exit", "exit_intr"}

\* The init thread of a core stays there, awake.
MainStays ==
  \A c \in Cores :
    /\ cpuId[Main[c]] = c
    /\ status[Main[c]] = "run"
    /\ pc[Main[c]] # "new"
    /\ elem[c] # Main[c]
    /\ \A v \in Threads : IsStarter(v) => target[v] # Main[c]

\* A started thread that can run is somewhere.
Somewhere ==
  \A t \in Threads : pc[t] # "new" /\ status[t] = "run" =>
    \/ inQueue[t]
    \/ \E c \in Cores : current[c] = t \/ elem[c] = t
    \/ \E v \in Threads : IsStarter(v) /\ target[v] = t

\* A thread is in user mode only between two operations of the kernel.
UserCode == \A t \in Threads : ctx[t] = "user" => pc[t] \in {"new", "idle", "exit_intr"}

\* The lock a starter holds is the one of a core.
PushHome ==
  \A v \in Threads : pc[v] = "start_push" => cpuId[target[v]] \in Cores

PlaceInv ==
  /\ StepOperands
  /\ Homes
  /\ ListsExact
  /\ Marks
  /\ CanRun
  /\ Running
  /\ OutOfQueue
  /\ Woken
  /\ Started
  /\ Asleep
  /\ Ended
  /\ MainStays
  /\ Somewhere
  /\ UserCode
  /\ PushHome

-----------------------------------------------------------------------------
(* Lists as sets of threads *)

\* An empty list holds nobody.
LEMMA InEmpty == \A x : ~In(<<>>, x)
  BY DEF In

\* What push_back adds to a list.
LEMMA InAppend ==
  ASSUME NEW S, NEW q \in Seq(S), NEW x \in S
  PROVE  /\ \A y : In(Append(q, x), y) <=> In(q, y) \/ y = x
         /\ NoRepeats(q) /\ ~In(q, x) => NoRepeats(Append(q, x))
  <1> DEFINE r == Append(q, x)
  <1>1. /\ r \in Seq(S)
        /\ Len(q) \in Nat
        /\ Len(r) = Len(q) + 1
        /\ \A i \in 1 .. Len(q) : r[i] = q[i]
        /\ r[Len(q) + 1] = x
    BY AppendPositions
  <1> HIDE DEF r
  <1>2. \A i \in 1 .. Len(r) : i \in 1 .. Len(q) \/ i = Len(q) + 1
    BY <1>1
  <1>3. /\ \A i \in 1 .. Len(q) : i \in 1 .. Len(r)
        /\ Len(q) + 1 \in 1 .. Len(r)
    BY <1>1
  <1>4. \A y : In(r, y) <=> In(q, y) \/ y = x
    BY <1>1, <1>2, <1>3 DEF In
  <1>5. NoRepeats(q) /\ ~In(q, x) => NoRepeats(r)
    BY <1>1, <1>2 DEF In, NoRepeats
  <1> QED
    BY <1>4, <1>5 DEF r

\* A list without its first element.
LEMMA InRest ==
  ASSUME NEW S, NEW q \in Seq(S), NEW r \in Seq(S), 1 \in 1 .. Len(q),
         Len(r) = Len(q) - 1, \A j \in 1 .. Len(q) - 1 : r[j] = q[j + 1],
         NoRepeats(q)
  PROVE  /\ \A y : In(r, y) <=> In(q, y) /\ y # q[1]
         /\ NoRepeats(r)
  <1>1. Len(q) \in Nat /\ Len(q) >= 1
    OBVIOUS
  <1>2. \A j \in 1 .. Len(r) : j + 1 \in 1 .. Len(q) /\ r[j] = q[j + 1] /\ j + 1 # 1
    BY <1>1
  <1>3. \A i \in 1 .. Len(q) : i = 1 \/ (i - 1 \in 1 .. Len(r) /\ r[i - 1] = q[i])
    BY <1>1
  <1>4. \A y : In(r, y) => In(q, y) /\ y # q[1]
    BY <1>2 DEF In, NoRepeats
  <1>5. \A y : In(q, y) /\ y # q[1] => In(r, y)
    BY <1>3 DEF In
  <1>6. NoRepeats(r)
    <2> SUFFICES ASSUME NEW i \in 1 .. Len(r), NEW j \in 1 .. Len(r), r[i] = r[j]
                 PROVE  i = j
      BY DEF NoRepeats
    <2>1. i + 1 = j + 1
      BY <1>2 DEF NoRepeats
    <2> QED
      BY <2>1, <1>1
  <1> QED
    BY <1>4, <1>5, <1>6

\* One pop_front.
LEMMA InPopped ==
  ASSUME NEW S, NEW q \in Seq(S), 1 \in 1 .. Len(q), NoRepeats(q)
  PROVE  /\ \A y : In(Popped(q, 1), y) <=> In(q, y) /\ y # q[1]
         /\ NoRepeats(Popped(q, 1))
  <1>1. /\ Popped(q, 1) \in Seq(S)
        /\ Len(Popped(q, 1)) = Len(q) - 1
        /\ \A j \in 1 .. Len(q) - 1 : Popped(q, 1)[j] = q[1 + j]
    BY PoppedPositions
  <1> QED
    BY <1>1, InRest

\* The waiters that are left when the first one is woken.
LEMMA InTail ==
  ASSUME NEW S, NEW q \in Seq(S), q # <<>>, NoRepeats(q)
  PROVE  /\ \A y : In(Tail(q), y) <=> In(q, y) /\ y # Head(q)
         /\ NoRepeats(Tail(q))
         /\ In(q, Head(q))
  <1>1. /\ Head(q) = q[1]
        /\ 1 \in 1 .. Len(q)
        /\ Tail(q) \in Seq(S)
        /\ Len(Tail(q)) = Len(q) - 1
        /\ \A j \in 1 .. Len(q) - 1 : Tail(q)[j] = q[j + 1]
    BY TailPositions
  <1>2. In(q, Head(q))
    BY <1>1 DEF In
  <1> QED
    BY <1>1, <1>2, InRest

-----------------------------------------------------------------------------
(* The steps that move no thread *)

\* The tables of threads and of cores lead to threads.
LEMMA Operands ==
  ASSUME TypeInv
  PROVE  /\ \A c \in Cores : current[c] \in Threads /\ cpuId[current[c]] \in Nat
         /\ \A c \in Cores : next[c] # None => next[c] \in Threads
         /\ \A c \in Cores : elem[c] # None => elem[c] \in Threads
         /\ \A v \in Threads : IsStarter(v) => target[v] \in Threads
         /\ \A c \in Cores : threadList[c] \in Seq(Threads)
         /\ \A s \in Semas : waiters[s] \in Seq(Threads)
         /\ \A t \in Threads : t # None
         /\ \A c \in Cores : Main[c] \in Threads
  BY ConstantsAssumption DEF TypeInv, TypeOK, OperandsExist, IsStarter

\* A step of core c's current thread, or an interrupt, after which every
\* thread is where it was, in the state it was.
Stays(c) ==
  /\ act[c] = "run"
  /\ act' \in {act, [act EXCEPT ![c] = "yield"]}
  /\ \A t \in Threads : t # current[c] => pc'[t] = pc[t] /\ target'[t] = target[t]
  /\ LET t == current[c]
     IN  \/ pc'[t] = pc[t] /\ target'[t] = target[t]
         \/ pc[t] \in {"idle", "join", "delete"} /\ pc'[t] \in {"idle", "join", "delete"}
  /\ \A t \in Threads : ctx'[t] = "user" =>
       (ctx[t] = "user" /\ pc'[t] = pc[t]) \/ pc'[t] = "idle"
  /\ UNCHANGED <<status, statusBeforeSleep, inQueue, cpuId, wants, threadList,
                 queueLock, numThreads, current, next, elem, waiters>>

LEMMA StaysPlace ==
  ASSUME TypeInv, PlaceInv, NEW c \in Cores, Stays(c)
  PROVE  PlaceInv'
  <1>0. /\ StepOperands /\ Homes /\ ListsExact /\ Marks /\ CanRun /\ Running
        /\ OutOfQueue /\ Woken /\ Started /\ Asleep /\ Ended /\ MainStays /\ Somewhere
        /\ UserCode /\ PushHome
    BY DEF PlaceInv
  <1>1. act \in [Cores -> Act] /\ pc \in [Threads -> Pc]
    BY DEF TypeInv, TypeOK
  <1>2. \A d \in Cores : act'[d] = act[d] \/ (act[d] = "run" /\ act'[d] = "yield")
    BY <1>1 DEF Stays
  <1>3. \A v \in Threads :
          pc'[v] = pc[v] \/ (v = current[c] /\ {pc[v], pc'[v]} \subseteq {"idle", "join", "delete"})
    BY DEF Stays
  <1>4. UNCHANGED <<status, statusBeforeSleep, inQueue, cpuId, wants, threadList,
                    queueLock, numThreads, current, next, elem, waiters>>
    BY DEF Stays
  <1>5. \A v \in Threads :
          /\ IsStarter(v)' <=> IsStarter(v)
          /\ IsStarter(v) => target'[v] = target[v]
    BY DEF Stays, IsStarter
  <1>6. StepOperands'
    BY <1>0, <1>2, <1>4 DEF StepOperands
  <1>7. Homes' /\ ListsExact' /\ Marks' /\ OutOfQueue' /\ Woken'
    BY <1>0, <1>4 DEF Homes, ListsExact, Marks, OutOfQueue, Woken
  <1>8. CanRun'
    BY <1>0, <1>3, <1>4, Operands DEF CanRun
  <1>9. Running'
    BY <1>0, <1>2, <1>3, <1>4, Operands DEF Running
  <1>10. Asleep'
    BY <1>0, <1>3, <1>4 DEF Asleep
  <1>11. Ended'
    BY <1>0, <1>3, <1>4 DEF Ended
  <1>12. Started'
    BY <1>0, <1>3, <1>4, <1>5, Operands DEF Started
  <1>13. MainStays'
    BY <1>0, <1>3, <1>4, <1>5, Operands DEF MainStays
  <1>14. Somewhere'
    BY <1>0, <1>3, <1>4, <1>5 DEF Somewhere
  <1>15. UserCode'
    BY <1>0 DEF UserCode, Stays
  <1>16. PushHome'
    BY <1>0, <1>3, <1>4, <1>5 DEF PushHome, IsStarter
  <1> QED
    BY <1>15, <1>16, <1>6, <1>7, <1>8, <1>9, <1>10, <1>11, <1>12, <1>13, <1>14 DEF PlaceInv

\* Every step of this kind is one of the following.
LEMMA StayingSteps ==
  ASSUME TypeInv, PlaceInv, NEW c \in Cores,
         \/ Yield(c) \/ TimerInterruptHandler(c) \/ SpinYield(c)
         \/ Delete(c) \/ SyscallEnter(c) \/ SyscallReturn(c)
         \/ PageFaultEnter(c) \/ PageFaultReturn(c)
         \/ \E u \in Threads : Join(c, u)
  PROVE  Stays(c)
  <1> DEFINE t == current[c]
  <1>1. t \in Threads
    BY Operands
  <1>2. /\ status \in [Threads -> Status]
        /\ pc \in [Threads -> Pc]
        /\ target \in [Threads -> Threads \cup {None}]
        /\ ctx \in [Threads -> Ctx]
    BY DEF TypeInv, TypeOK
  <1>3. TerminateIfReady(t) = status[t] /\ status[t] # "terminate_ready"
    BY <1>1 DEF PlaceInv, Ended, TerminateIfReady
  <1>4. CASE Yield(c) \/ TimerInterruptHandler(c) \/ SpinYield(c)
    BY <1>4 DEF Yield, TimerInterruptHandler, SpinYield, EnterYield, InKernelAt, Stays,
                threadVars, flowVars, queueVars, semaVars
  <1>10. UserCode
    BY DEF PlaceInv
  <1>5. CASE Delete(c)
    BY <1>1, <1>2, <1>5 DEF Delete, InKernelAt, Stays, threadVars, queueVars, coreVars, semaVars
  <1>6. ASSUME NEW k \in {"syscall", "fault", "nested_fault"}, EnterKernel(c, k),
               act[c] = "run"
        PROVE  Stays(c)
    BY <1>1, <1>2, <1>3, <1>6 DEF EnterKernel, EnterYield, Stays, queueVars, semaVars
  <1>7. CASE SyscallEnter(c) \/ PageFaultEnter(c)
    BY <1>6, <1>7 DEF SyscallEnter, PageFaultEnter, InUser, InKernelAt
  <1>8. CASE SyscallReturn(c) \/ PageFaultReturn(c)
    BY <1>1, <1>2, <1>3, <1>8
    DEF SyscallReturn, PageFaultReturn, InKernelAt, Stays, threadVars, queueVars, coreVars, semaVars
  <1>9. ASSUME NEW u \in Threads, Join(c, u) PROVE Stays(c)
    BY <1>1, <1>2, <1>9
    DEF Join, EnterYield, InThreadCode, InKernelAt, Stays, threadVars, queueVars, semaVars
  <1> QED
    BY <1>4, <1>5, <1>7, <1>8, <1>9

-----------------------------------------------------------------------------
(* The steps that end a thread *)

\* The current thread of core c ends, and its core is about to leave it.
Ends(c) ==
  /\ act[c] = "run"
  /\ \A d \in Cores : current[c] # Main[d]
  /\ pc[current[c]] = "idle"
  /\ act' = [act EXCEPT ![c] = "yield"]
  /\ status' = [status EXCEPT ![current[c]] = "terminate"]
  /\ \/ pc' = [pc EXCEPT ![current[c]] = "exit"]
     \/ pc' = [pc EXCEPT ![current[c]] = "exit_intr"]
  /\ UNCHANGED <<statusBeforeSleep, inQueue, cpuId, wants, target, threadList,
                 queueLock, numThreads, current, next, elem, waiters>>

LEMMA EndingSteps ==
  ASSUME TypeInv, PlaceInv, NEW c \in Cores, Terminate(c) \/ PageFaultInvalid(c)
  PROVE  Ends(c) /\ UserCode'
  <1>1. /\ current[c] \in Threads /\ pc[current[c]] # "new" /\ UserCode
        /\ act[c] = "run" => pc[current[c]] \notin {"exit", "exit_intr"}
    BY Operands DEF PlaceInv, Running, Ended
  <1>2. pc \in [Threads -> Pc] /\ ctx \in [Threads -> Ctx]
    BY DEF TypeInv, TypeOK
  <1>3. CASE Terminate(c)
    BY <1>1, <1>2, <1>3 DEF Terminate, InThreadCode, InKernelAt, MakeTerminate, EnterYield, Ends,
      UserCode, queueVars, semaVars
  <1>4. CASE PageFaultInvalid(c)
    BY <1>1, <1>2, <1>4, BootAssumption, ConstantsAssumption
    DEF PageFaultInvalid, InUser, InKernelAt, MakeTerminate, EnterYield, Ends, UserCode,
      queueVars, semaVars
  <1> QED
    BY <1>3, <1>4

LEMMA EndsPlace ==
  ASSUME TypeInv, PlaceInv, NEW c \in Cores, Ends(c), UserCode'
  PROVE  PlaceInv'
  <1> DEFINE t == current[c]
  <1>0. /\ StepOperands /\ Homes /\ ListsExact /\ Marks /\ CanRun /\ Running
        /\ OutOfQueue /\ Woken /\ Started /\ Asleep /\ Ended /\ MainStays /\ Somewhere
        /\ UserCode /\ PushHome
    BY DEF PlaceInv
  <1>1. act \in [Cores -> Act] /\ pc \in [Threads -> Pc] /\ status \in [Threads -> Status]
    BY DEF TypeInv, TypeOK
  <1>2. t \in Threads /\ status[t] = "run" /\ ~inQueue[t] /\ ~IsStarter(t)
    BY <1>0, Operands DEF Ends, Running, IsStarter
  <1>3. \A v \in Threads :
          /\ v # t => pc'[v] = pc[v] /\ status'[v] = status[v]
          /\ IsStarter(v)' <=> IsStarter(v)
    BY <1>1, <1>2 DEF Ends, IsStarter
  <1>4. status'[t] = "terminate" /\ pc'[t] \in {"exit", "exit_intr"}
    BY <1>1, <1>2 DEF Ends
  <1>5. act' = [act EXCEPT ![c] = "yield"] /\ act[c] = "run"
    BY DEF Ends
  <1>6. UNCHANGED <<statusBeforeSleep, inQueue, cpuId, wants, target, threadList,
                    queueLock, numThreads, current, next, elem, waiters>>
    BY DEF Ends
  <1>7. StepOperands'
    BY <1>0, <1>1, <1>5, <1>6 DEF StepOperands
  <1>8. Homes' /\ ListsExact' /\ Marks' /\ OutOfQueue' /\ Woken'
    BY <1>0, <1>6 DEF Homes, ListsExact, Marks, OutOfQueue, Woken
  <1>9. CanRun'
    BY <1>0, <1>2, <1>3, <1>4, <1>5, <1>6, Operands DEF CanRun, Homes, StepOperands
  <1>10. Running'
    BY <1>0, <1>1, <1>2, <1>3, <1>4, <1>5, <1>6, Operands DEF Running, Homes
  <1>11. Asleep'
    BY <1>0, <1>2, <1>3, <1>6 DEF Asleep
  <1>12. Ended'
    BY <1>0, <1>3, <1>4 DEF Ended
  <1>13. Started'
    BY <1>0, <1>2, <1>3, <1>6, Operands DEF Started
  <1>14. MainStays'
    BY <1>0, <1>3, <1>6, Operands DEF MainStays, Ends
  <1>15. Somewhere'
    BY <1>0, <1>3, <1>4, <1>6 DEF Somewhere
  <1>16. PushHome'
    BY <1>0, <1>3, <1>4, <1>6 DEF PushHome
  <1> QED
    BY <1>16, <1>7, <1>8, <1>9, <1>10, <1>11, <1>12, <1>13, <1>14, <1>15 DEF PlaceInv

-----------------------------------------------------------------------------
(* Switching threads *)

\* What the places of a queue hold can run.
LEMMA QueuedRun ==
  ASSUME TypeInv, PlaceInv, NEW c \in Cores, NEW i \in 1 .. Len(threadList[c])
  PROVE  /\ threadList[c][i] \in Threads
         /\ In(threadList[c], threadList[c][i])
         /\ status[threadList[c][i]] = "run"
  <1>1. threadList[c][i] \in Threads
    BY Operands
  <1>2. In(threadList[c], threadList[c][i])
    BY DEF In
  <1> QED
    BY <1>1, <1>2 DEF PlaceInv, Marks, CanRun

\* The core's queue is empty only while the init thread runs.
LEMMA NoThreadPlace ==
  ASSUME TypeInv, PlaceInv, NEW c \in Cores, YieldNoThread(c)
  PROVE  PlaceInv'
  <1>0. /\ StepOperands /\ Homes /\ ListsExact /\ Marks /\ CanRun /\ Running
        /\ OutOfQueue /\ Woken /\ Started /\ Asleep /\ Ended /\ MainStays /\ Somewhere
        /\ UserCode /\ PushHome
    BY DEF PlaceInv
  <1>1. act \in [Cores -> Act] /\ threadList \in [Cores -> Seq(Threads)]
    BY DEF TypeInv, TypeOK
  <1>2. \A x : ~In(threadList[c], x)
    BY <1>0, QueuedRun DEF YieldNoThread, IsRunnable, In
  <1>3. current[c] = Main[c]
    <2>1. inQueue[Main[c]] => FALSE
      BY <1>0, <1>2, Operands DEF Marks, Homes, MainStays, StepOperands, YieldNoThread
    <2>2. \A d \in Cores : elem[d] # Main[c]
      BY <1>0, Operands DEF Homes, MainStays
    <2>3. \E d \in Cores : current[d] = Main[c]
      BY <1>0, <2>1, <2>2, Operands DEF Somewhere, MainStays
    <2> QED
      BY <1>0, <2>3 DEF Homes, MainStays
  <1>4. status[current[c]] = "run" /\ pc[current[c]] \notin {"exit", "exit_intr"}
    BY <1>0, <1>3, Operands DEF MainStays, Ended
  <1>5. /\ threadList' = [threadList EXCEPT ![c] = <<>>]
        /\ act' = [act EXCEPT ![c] = "run"] /\ act[c] = "yield"
        /\ UNCHANGED <<status, statusBeforeSleep, inQueue, cpuId, pc, ctx, target,
                       wants, current, next, elem, waiters>>
    BY <1>4 DEF YieldNoThread, threadVars, flowVars, semaVars
  <1>6. \A d \in Cores, x \in Threads : In(threadList'[d], x) <=> In(threadList[d], x)
    BY <1>1, <1>2, <1>5, InEmpty
  <1>7. StepOperands'
    BY <1>0, <1>1, <1>5 DEF StepOperands
  <1>8. Homes' /\ Marks'
    BY <1>0, <1>5, <1>6 DEF Homes, Marks
  <1>9. ListsExact'
    <2>1. NoRepeats(<<>>)
      BY DEF NoRepeats
    <2> QED
      BY <1>0, <1>1, <1>5, <2>1 DEF ListsExact
  <1>10. CanRun' /\ OutOfQueue' /\ Woken'
    BY <1>0, <1>5, <1>6, Operands DEF CanRun, OutOfQueue, Woken
  <1>11. Running'
    BY <1>0, <1>1, <1>4, <1>5 DEF Running
  <1>13. Started' /\ MainStays' /\ Somewhere'
    BY <1>0, <1>5 DEF Started, MainStays, Somewhere, IsStarter
  <1>14. Asleep' /\ Ended' /\ UserCode' /\ PushHome'
    BY <1>0, <1>5 DEF Asleep, Ended, UserCode, PushHome
  <1> QED
    BY <1>7, <1>8, <1>9, <1>10, <1>11, <1>13, <1>14 DEF PlaceInv

\* The first thread of the queue is chosen.
LEMMA PopNextPlace ==
  ASSUME TypeInv, PlaceInv, NEW c \in Cores, YieldPopNext(c)
  PROVE  PlaceInv'
  <1> DEFINE n == threadList[c][1]
  <1>0. /\ StepOperands /\ Homes /\ ListsExact /\ Marks /\ CanRun /\ Running
        /\ OutOfQueue /\ Woken /\ Started /\ Asleep /\ Ended /\ MainStays /\ Somewhere
        /\ UserCode /\ PushHome
    BY DEF PlaceInv
  <1>1. /\ act \in [Cores -> Act] /\ threadList \in [Cores -> Seq(Threads)]
        /\ status \in [Threads -> Status] /\ next \in [Cores -> Threads \cup {None}]
    BY DEF TypeInv, TypeOK
  <1>2. PICK i \in 1 .. Len(threadList[c]) :
          /\ \A j \in 1 .. i - 1 : ~IsRunnable(threadList[c][j])
          /\ next' = [next EXCEPT ![c] = threadList[c][i]]
          /\ threadList' = [threadList EXCEPT ![c] = Popped(@, i)]
    BY DEF YieldPopNext
  <1>3. i = 1 /\ 1 \in 1 .. Len(threadList[c])
    <2>1. 1 \in 1 .. Len(threadList[c]) /\ (i # 1 => 1 \in 1 .. i - 1)
      BY <1>1
    <2>2. IsRunnable(threadList[c][1])
      BY <2>1, QueuedRun DEF IsRunnable
    <2> QED
      BY <1>2, <2>1, <2>2
  <1>4. /\ \A y : In(Popped(threadList[c], 1), y) <=> In(threadList[c], y) /\ y # n
        /\ NoRepeats(Popped(threadList[c], 1))
    BY <1>0, <1>1, <1>3, InPopped DEF ListsExact
  <1>5. n \in Threads /\ In(threadList[c], n) /\ n # None /\ status[n] = "run"
    BY <1>3, QueuedRun, Operands
  <1>6. TerminateIfReady(current[c]) = status[current[c]]
    BY <1>0, Operands DEF Ended, TerminateIfReady
  <1>7. /\ next' = [next EXCEPT ![c] = n]
        /\ threadList' = [threadList EXCEPT ![c] = Popped(@, 1)]
        /\ act' = [act EXCEPT ![c] = "switch"] /\ act[c] = "yield"
        /\ status' = status
    BY <1>1, <1>2, <1>3, <1>6 DEF YieldPopNext
  <1>8. UNCHANGED <<statusBeforeSleep, inQueue, cpuId, pc, ctx, target,
                    wants, current, elem, waiters>>
    BY DEF YieldPopNext, flowVars, semaVars
  <1> HIDE DEF n
  <1>9. \A d \in Cores, y \in Threads :
          In(threadList'[d], y) <=> In(threadList[d], y) /\ ~(d = c /\ y = n)
    BY <1>1, <1>4, <1>7
  <1>10. \A d \in Cores : next'[d] = IF d = c THEN n ELSE next[d]
    BY <1>1, <1>7
  <1>11. \A d \in Cores : act'[d] = IF d = c THEN "switch" ELSE act[d]
    BY <1>1, <1>7
  <1>12. StepOperands'
    BY <1>0, <1>5, <1>7, <1>8, <1>10, <1>11 DEF StepOperands
  <1>13. Homes'
    BY <1>0, <1>5, <1>8, <1>9, <1>10 DEF Homes
  <1>14. ListsExact'
    BY <1>0, <1>1, <1>4, <1>7, <1>8 DEF ListsExact
  <1>15. Marks'
    <2>1. next[c] = None /\ inQueue[n]
      BY <1>0, <1>5, <1>7 DEF Marks, StepOperands
    <2>2. /\ \A d \in Cores, t \in Threads : In(threadList'[d], t) => inQueue'[t]
          /\ \A d \in Cores : next'[d] # None => inQueue'[next'[d]]
      BY <1>0, <1>8, <1>9, <1>10, <2>1 DEF Marks
    <2>3. ASSUME NEW t \in Threads, inQueue[t]
          PROVE  \E d \in Cores : In(threadList'[d], t) \/ next'[d] = t
      <3>1. PICK d \in Cores : In(threadList[d], t) \/ next[d] = t
        BY <1>0, <2>3 DEF Marks
      <3>2. CASE d = c /\ t = n
        BY <1>10, <3>2
      <3>3. CASE ~(d = c /\ t = n)
        BY <1>9, <1>10, <2>1, <3>1, <3>3, Operands
      <3> QED
        BY <3>2, <3>3
    <2> QED
      BY <1>8, <2>2, <2>3 DEF Marks
  <1>16. CanRun' /\ Running' /\ Woken'
    BY <1>0, <1>7, <1>8, <1>11, Operands DEF CanRun, Running, Woken
  <1>17. OutOfQueue'
    BY <1>0, <1>5, <1>9, <1>10, Operands DEF OutOfQueue
  <1>18. Started' /\ MainStays' /\ Somewhere'
    BY <1>0, <1>7, <1>8 DEF Started, MainStays, Somewhere, IsStarter
  <1>19. Asleep' /\ Ended' /\ UserCode' /\ PushHome'
    BY <1>0, <1>7, <1>8 DEF Asleep, Ended, UserCode, PushHome
  <1> QED
    BY <1>12, <1>13, <1>14, <1>15, <1>16, <1>17, <1>18, <1>19 DEF PlaceInv

\* The core leaves its thread for the chosen one.
LEMMA SwitchPlace ==
  ASSUME TypeInv, PlaceInv, NEW c \in Cores, YieldSwitch(c)
  PROVE  PlaceInv'
  <1> DEFINE t == current[c]
             n == next[c]
             q == IF Requeued(t) THEN Append(threadList[c], t) ELSE threadList[c]
  <1>0. /\ StepOperands /\ Homes /\ ListsExact /\ Marks /\ CanRun /\ Running
        /\ OutOfQueue /\ Woken /\ Started /\ Asleep /\ Ended /\ MainStays /\ Somewhere
        /\ UserCode /\ PushHome
    BY DEF PlaceInv
  <1>1. /\ act \in [Cores -> Act] /\ threadList \in [Cores -> Seq(Threads)]
        /\ inQueue \in [Threads -> BOOLEAN] /\ next \in [Cores -> Threads \cup {None}]
        /\ current \in [Cores -> Threads]
    BY DEF TypeInv, TypeOK
  <1>2. /\ t \in Threads /\ n \in Threads /\ n # None /\ act[c] = "switch" /\ elem[c] = None
        /\ inQueue[n] /\ ~inQueue[t] /\ n # t /\ cpuId[t] = c /\ cpuId[n] = c
        /\ status[n] = "run" /\ pc[n] # "new" /\ ~In(threadList[c], n)
    BY <1>0, Operands DEF YieldSwitch, StepOperands, Marks, Running, Homes, CanRun, OutOfQueue
  <1>3. Requeued(t) <=> status[t] = "run"
    BY <1>0, <1>2 DEF Requeued, IsRunnable, Ended
  <1>4. /\ threadList' = [threadList EXCEPT ![c] = q]
        /\ inQueue' = [inQueue EXCEPT ![t] = Requeued(t), ![n] = FALSE]
        /\ current' = [current EXCEPT ![c] = n]
        /\ next' = [next EXCEPT ![c] = None]
        /\ act' \in {[act EXCEPT ![c] = "run"], [act EXCEPT ![c] = "panic"]}
        /\ UNCHANGED <<status, statusBeforeSleep, cpuId, pc, ctx, target, wants, elem, waiters>>
    BY DEF YieldSwitch, QueueMarks, PushedBack, flowVars, semaVars
  <1>5. /\ \A y : In(q, y) <=> In(threadList[c], y) \/ (y = t /\ status[t] = "run")
        /\ NoRepeats(q)
    <2>1. ~In(threadList[c], t)
      BY <1>0, <1>2 DEF Marks
    <2> QED
      BY <1>0, <1>1, <1>2, <1>3, <2>1, InAppend DEF ListsExact
  <1> HIDE DEF t, n, q
  <1>6. \A d \in Cores, y \in Threads :
          In(threadList'[d], y) <=>
            In(threadList[d], y) \/ (d = c /\ y = t /\ status[t] = "run")
    BY <1>1, <1>4, <1>5
  <1>7. \A y \in Threads :
          inQueue'[y] <=> IF y = n THEN FALSE ELSE IF y = t THEN status[t] = "run" ELSE inQueue[y]
    BY <1>1, <1>2, <1>3, <1>4
  <1>8. \A d \in Cores :
          /\ current'[d] = IF d = c THEN n ELSE current[d]
          /\ next'[d] = IF d = c THEN None ELSE next[d]
          /\ d # c => act'[d] = act[d]
          /\ act'[c] \in {"run", "panic"}
    BY <1>1, <1>4
  <1>9. UNCHANGED <<status, statusBeforeSleep, cpuId, pc, ctx, target, wants, elem, waiters>>
    BY <1>4
  <1>10. t = current[c] /\ n = next[c]
    BY DEF t, n
  <1>11. StepOperands'
    BY <1>0, <1>2, <1>8, <1>9 DEF StepOperands
  <1>12. Homes'
    BY <1>0, <1>2, <1>6, <1>8, <1>9 DEF Homes
  <1>13. ListsExact'
    BY <1>0, <1>1, <1>4, <1>5 DEF ListsExact
  <1>14. Marks'
    <2>1. \A d \in Cores, y \in Threads : In(threadList'[d], y) => inQueue'[y]
      BY <1>0, <1>2, <1>6, <1>7 DEF Marks, Homes
    <2>2. \A d \in Cores : next'[d] # None => inQueue'[next'[d]]
      BY <1>0, <1>2, <1>7, <1>8, Operands DEF Marks, Homes
    <2>3. ASSUME NEW y \in Threads, inQueue'[y]
          PROVE  \E d \in Cores : In(threadList'[d], y) \/ next'[d] = y
      <3>1. CASE y = t
        BY <1>2, <1>6, <1>7, <2>3, <3>1
      <3>2. CASE y # t
        <4>1. y # n /\ inQueue[y]
          BY <1>7, <2>3, <3>2
        <4>2. PICK d \in Cores : In(threadList[d], y) \/ next[d] = y
          BY <1>0, <4>1 DEF Marks
        <4> QED
          BY <1>6, <1>8, <1>10, <4>1, <4>2
      <3> QED
        BY <3>1, <3>2
    <2> QED
      BY <2>1, <2>2, <2>3 DEF Marks
  <1>15. CanRun'
    <2>1. \A y \in Threads : inQueue'[y] => status'[y] = "run" /\ pc'[y] # "new"
      BY <1>0, <1>7, <1>9, <1>10 DEF CanRun, Running
    <2> QED
      BY <1>0, <1>9, <2>1 DEF CanRun
  <1>16. Running'
    BY <1>0, <1>2, <1>7, <1>8, <1>9, <1>10, Operands DEF Running, Homes
  <1>17. OutOfQueue'
    BY <1>0, <1>2, <1>6, <1>8, Operands DEF OutOfQueue, Homes
  <1>18. Woken'
    BY <1>0, <1>2, <1>7, <1>8, <1>9, <1>10, Operands DEF Woken, Homes
  <1>19. \A v \in Threads : IsStarter(v)' <=> IsStarter(v)
    BY <1>9 DEF IsStarter
  <1>20. Started'
    BY <1>0, <1>2, <1>7, <1>8, <1>9, <1>10, <1>19, Operands DEF Started
  <1>21. MainStays'
    BY <1>0, <1>9, <1>19 DEF MainStays
  <1>22. Somewhere'
    <2> SUFFICES ASSUME NEW y \in Threads, pc[y] # "new", status[y] = "run"
                 PROVE  \/ inQueue'[y]
                        \/ \E d \in Cores : current'[d] = y \/ elem[d] = y
                        \/ \E v \in Threads : IsStarter(v) /\ target[v] = y
      BY <1>9, <1>19 DEF Somewhere
    <2>1. CASE y = n
      BY <1>8, <2>1
    <2>2. CASE y = t
      BY <1>2, <1>7, <2>2
    <2>3. CASE y # n /\ y # t
      BY <1>0, <1>7, <1>8, <1>10, <2>3 DEF Somewhere
    <2> QED
      BY <2>1, <2>2, <2>3
  <1>23. Asleep' /\ Ended' /\ UserCode' /\ PushHome'
    BY <1>0, <1>9 DEF Asleep, Ended, UserCode, PushHome
  <1> QED
    BY <1>11, <1>12, <1>13, <1>14, <1>15, <1>16, <1>17, <1>18, <1>20, <1>21, <1>22, <1>23
    DEF PlaceInv

-----------------------------------------------------------------------------
(* Starting a thread *)

\* A new thread has a starter and a home, and is nowhere else.
LEMMA StartPlace ==
  ASSUME TypeInv, PlaceInv, NEW c \in Cores, NEW u \in Threads, Start(c, u)
  PROVE  PlaceInv'
  <1> DEFINE t == current[c]
  <1>0. /\ StepOperands /\ Homes /\ ListsExact /\ Marks /\ CanRun /\ Running
        /\ OutOfQueue /\ Woken /\ Started /\ Asleep /\ Ended /\ MainStays /\ Somewhere
        /\ UserCode /\ PushHome
    BY DEF PlaceInv
  <1>1. /\ pc \in [Threads -> Pc] /\ cpuId \in [Threads -> Nat]
        /\ target \in [Threads -> Threads \cup {None}]
    BY DEF TypeInv, TypeOK
  <1>2. /\ t \in Threads /\ pc[t] = "idle" /\ pc[u] = "new" /\ u # t /\ ctx[t] # "user"
        /\ act[c] = "run"
    BY Operands DEF Start, InThreadCode, InKernelAt
  <1>3. PICK home : cpuId' = [cpuId EXCEPT ![u] = home]
    BY DEF Start
  <1>4. /\ pc' = [pc EXCEPT ![u] = "idle", ![t] = "start_lock"]
        /\ target' = [target EXCEPT ![t] = u]
        /\ UNCHANGED <<status, statusBeforeSleep, inQueue, ctx, wants, threadList,
                       current, act, next, elem, waiters>>
    BY DEF Start, coreVars, semaVars
  <1>5. /\ status[u] = "run" /\ ~inQueue[u]
        /\ \A d \in Cores : current[d] # u /\ elem[d] # u /\ next[d] # u /\ Main[d] # u
        /\ \A d \in Cores : ~In(threadList[d], u)
        /\ \A s \in Semas : ~In(waiters[s], u)
        /\ \A v \in Threads : IsStarter(v) => target[v] # u
    BY <1>0, <1>2, Operands DEF CanRun, Running, Marks, MainStays, Started, Asleep
  <1> HIDE DEF t
  <1>6. \A y \in Threads :
          /\ pc'[y] = IF y = t THEN "start_lock" ELSE IF y = u THEN "idle" ELSE pc[y]
          /\ target'[y] = IF y = t THEN u ELSE target[y]
          /\ y # u => cpuId'[y] = cpuId[y]
          /\ IsStarter(y)' <=> IsStarter(y) \/ y = t
    <2>1. \A y \in Threads :
          /\ pc'[y] = IF y = t THEN "start_lock" ELSE IF y = u THEN "idle" ELSE pc[y]
          /\ target'[y] = IF y = t THEN u ELSE target[y]
          /\ y # u => cpuId'[y] = cpuId[y]
      BY <1>1, <1>3, <1>4
    <2> QED
      BY <1>2, <2>1 DEF IsStarter
  <1>7. ~IsStarter(t)
    BY <1>2 DEF IsStarter
  <1>16. \A y \in Threads :
           \/ pc'[y] = pc[y]
           \/ pc[y] = "idle" /\ pc'[y] = "start_lock" /\ ctx[y] # "user"
           \/ pc[y] = "new" /\ pc'[y] = "idle"
    BY <1>2, <1>6
  <1>8. StepOperands' /\ ListsExact' /\ Marks' /\ OutOfQueue' /\ Woken'
    BY <1>0, <1>4 DEF StepOperands, ListsExact, Marks, OutOfQueue, Woken
  <1>9. Homes'
    BY <1>0, <1>4, <1>5, <1>6, Operands DEF Homes
  <1>10. CanRun'
    BY <1>0, <1>4, <1>16, Operands DEF CanRun
  <1>11. Running'
    BY <1>0, <1>4, <1>16, Operands DEF Running
  <1>12. Started'
    <2>1. ASSUME NEW v \in Threads, IsStarter(v)', NEW w, w = target'[v]
          PROVE  /\ pc'[w] = "idle" /\ status'[w] = "run" /\ ~inQueue'[w]
                 /\ \A d \in Cores : current'[d] # w /\ elem'[d] # w
      <3>1. CASE v = t
        <4>1. w = u /\ pc'[u] = "idle"
          BY <1>2, <1>6, <2>1, <3>1
        <4> QED
          BY <1>4, <1>5, <4>1
      <3>2. CASE v # t
        <4>1. IsStarter(v) /\ w = target[v] /\ w \in Threads /\ w # u /\ w # t
          BY <1>0, <1>5, <1>6, <2>1, <3>2, Operands DEF Started, t
        <4> QED
          BY <1>0, <1>4, <1>6, <4>1 DEF Started
      <3> QED
        BY <3>1, <3>2
    <2>2. \A v, w \in Threads :
            IsStarter(v)' /\ IsStarter(w)' /\ target'[v] = target'[w] => v = w
      BY <1>0, <1>5, <1>6 DEF Started
    <2> QED
      BY <2>1, <2>2 DEF Started
  <1>13. MainStays'
    <2>1. \A d \in Cores : cpuId'[Main[d]] = d
      BY <1>0, <1>5, <1>6, Operands DEF MainStays
    <2>2. \A d \in Cores : pc'[Main[d]] # "new"
      BY <1>0, <1>16, Operands DEF MainStays
    <2>3. \A d \in Cores, v \in Threads : IsStarter(v)' => target'[v] # Main[d]
      BY <1>0, <1>5, <1>6 DEF MainStays
    <2> QED
      BY <1>0, <1>4, <2>1, <2>2, <2>3 DEF MainStays
  <1>14. Somewhere'
    <2> SUFFICES ASSUME NEW y \in Threads, pc'[y] # "new", status[y] = "run"
                 PROVE  \/ inQueue[y]
                        \/ \E d \in Cores : current[d] = y \/ elem[d] = y
                        \/ \E v \in Threads : IsStarter(v)' /\ target'[v] = y
      BY <1>4 DEF Somewhere
    <2>1. CASE y = u
      BY <1>2, <1>6, <2>1
    <2>2. CASE y # u
      <3>1. pc[y] # "new"
        BY <1>2, <1>6, <2>2
      <3> QED
        BY <1>0, <1>6, <1>7, <3>1 DEF Somewhere
    <2> QED
      BY <2>1, <2>2
  <1>15. Asleep' /\ Ended' /\ UserCode'
    <2>0. Asleep /\ Ended /\ UserCode
      BY <1>0
    <2>1. Asleep'
      <3>0. /\ waiters' = waiters /\ status' = status /\ wants' = wants
            /\ statusBeforeSleep' = statusBeforeSleep
        BY <1>4
      <3> SUFFICES ASSUME NEW s \in Semas, NEW v \in Threads, In(waiters'[s], v)
                   PROVE  /\ status'[v] = "sleep" /\ statusBeforeSleep'[v] = "run"
                          /\ pc'[v] = "down" /\ wants'[v] = s
        BY DEF Asleep
      <3>1. /\ status[v] = "sleep" /\ statusBeforeSleep[v] = "run"
            /\ pc[v] = "down" /\ wants[v] = s
        BY <2>0, <3>0 DEF Asleep
      <3> QED
        BY <1>16, <3>0, <3>1
    <2>2. Ended'
      BY <2>0, <1>4, <1>16 DEF Ended
    <2>3. UserCode'
      BY <2>0, <1>4, <1>16 DEF UserCode
    <2> QED
      BY <2>1, <2>2, <2>3
  <1>17. PushHome'
    <2> SUFFICES ASSUME NEW v \in Threads, pc'[v] = "start_push"
                 PROVE  cpuId'[target'[v]] \in Cores
      BY DEF PushHome
    <2>1. pc[v] = "start_push" /\ v # t
      BY <1>6, <1>16
    <2>2. IsStarter(v) /\ target'[v] = target[v] /\ target[v] \in Threads /\ target[v] # u
      BY <1>5, <1>6, <2>1, Operands DEF IsStarter
    <2> QED
      BY <1>0, <1>6, <2>1, <2>2 DEF PushHome
  <1> QED
    BY <1>17, <1>8, <1>9, <1>10, <1>11, <1>12, <1>13, <1>14, <1>15 DEF PlaceInv

\* The starter holds the lock of the queue: no thread has moved.
LEMMA StartLockPlace ==
  ASSUME TypeInv, PlaceInv, NEW c \in Cores, StartLock(c)
  PROVE  PlaceInv'
  <1> DEFINE t == current[c]
  <1>0. /\ StepOperands /\ Homes /\ ListsExact /\ Marks /\ CanRun /\ Running
        /\ OutOfQueue /\ Woken /\ Started /\ Asleep /\ Ended /\ MainStays /\ Somewhere
        /\ UserCode /\ PushHome
    BY DEF PlaceInv
  <1>1. pc \in [Threads -> Pc]
    BY DEF TypeInv, TypeOK
  <1>2. t \in Threads /\ pc[t] = "start_lock" /\ ctx[t] # "user"
    BY Operands DEF StartLock, InKernelAt
  <1>3. /\ pc' = [pc EXCEPT ![t] = "start_push"]
        /\ UNCHANGED <<status, statusBeforeSleep, inQueue, cpuId, ctx, target, wants,
                       threadList, current, act, next, elem, waiters>>
    BY DEF StartLock, threadVars, coreVars, semaVars
  <1> HIDE DEF t
  <1>4. \A y \in Threads :
          /\ pc'[y] = IF y = t THEN "start_push" ELSE pc[y]
          /\ IsStarter(y)' <=> IsStarter(y)
    BY <1>1, <1>2, <1>3 DEF IsStarter
  <1>5. StepOperands' /\ Homes' /\ ListsExact' /\ Marks' /\ OutOfQueue' /\ Woken'
    BY <1>0, <1>3 DEF StepOperands, Homes, ListsExact, Marks, OutOfQueue, Woken
  <1>6. CanRun'
    BY <1>0, <1>2, <1>3, <1>4, Operands DEF CanRun
  <1>7. Running'
    BY <1>0, <1>3, <1>4, Operands DEF Running
  <1>8. Started'
    BY <1>0, <1>2, <1>3, <1>4, Operands DEF Started
  <1>9. MainStays'
    BY <1>0, <1>3, <1>4, Operands DEF MainStays
  <1>10. Somewhere'
    BY <1>0, <1>2, <1>3, <1>4 DEF Somewhere
  <1>11. Asleep' /\ Ended' /\ UserCode'
    BY <1>0, <1>2, <1>3, <1>4 DEF Asleep, Ended, UserCode
  <1>12. PushHome'
    <2>1. cpuId[target[t]] \in Cores
      BY DEF StartLock, t
    <2> QED
      BY <1>0, <1>3, <1>4, <2>1 DEF PushHome
  <1> QED
    BY <1>12, <1>5, <1>6, <1>7, <1>8, <1>9, <1>10, <1>11 DEF PlaceInv

\* EnqueueThread of a thread that is not queued yet, on the thread's core.
LEMMA Pushed ==
  ASSUME TypeInv, ListsExact, NEW u \in Threads, ~inQueue[u], cpuId[u] \in Cores,
         \A d \in Cores, t \in Threads : In(threadList[d], t) => inQueue[t],
         PushBack(u)
  PROVE  /\ \A d \in Cores, y \in Threads :
              In(threadList'[d], y) <=> In(threadList[d], y) \/ (d = cpuId[u] /\ y = u)
         /\ \A d \in Cores : NoRepeats(threadList'[d])
         /\ \A y \in Threads : inQueue'[y] <=> inQueue[y] \/ y = u
  <1> DEFINE d == cpuId[u]
             q == Append(threadList[d], u)
  <1>1. /\ threadList \in [Cores -> Seq(Threads)] /\ inQueue \in [Threads -> BOOLEAN]
        /\ \A e \in Cores : NoRepeats(threadList[e])
        /\ ~In(threadList[d], u)
    BY DEF TypeInv, TypeOK, ListsExact
  <1>2. /\ threadList' = [threadList EXCEPT ![d] = q]
        /\ inQueue' = [inQueue EXCEPT ![u] = TRUE]
    BY DEF PushBack, PushedBack
  <1>3. /\ \A y : In(q, y) <=> In(threadList[d], y) \/ y = u
        /\ NoRepeats(q)
    BY <1>1, InAppend
  <1>4. d \in Cores
    OBVIOUS
  <1> HIDE DEF d, q
  <1>5. \A e \in Cores, y \in Threads :
          In(threadList'[e], y) <=> In(threadList[e], y) \/ (e = d /\ y = u)
    BY <1>1, <1>2, <1>3, <1>4
  <1>6. \A e \in Cores : NoRepeats(threadList'[e])
    BY <1>1, <1>2, <1>3, <1>4
  <1>7. \A y \in Threads : inQueue'[y] <=> inQueue[y] \/ y = u
    BY <1>1, <1>2
  <1> QED
    BY <1>5, <1>6, <1>7 DEF d

\* The started thread is queued, and has no starter any more.
LEMMA StartPushPlace ==
  ASSUME TypeInv, PlaceInv, NEW c \in Cores, StartPush(c)
  PROVE  PlaceInv'
  <1> DEFINE t == current[c]
             u == target[t]
  <1>0. /\ StepOperands /\ Homes /\ ListsExact /\ Marks /\ CanRun /\ Running
        /\ OutOfQueue /\ Woken /\ Started /\ Asleep /\ Ended /\ MainStays /\ Somewhere
        /\ UserCode /\ PushHome
    BY DEF PlaceInv
  <1>1. pc \in [Threads -> Pc] /\ target \in [Threads -> Threads \cup {None}]
    BY DEF TypeInv, TypeOK
  <1>2. /\ t \in Threads /\ pc[t] = "start_push" /\ ctx[t] # "user" /\ IsStarter(t)
        /\ u \in Threads /\ cpuId[u] \in Cores
    BY <1>0, Operands DEF StartPush, InKernelAt, IsStarter, PushHome
  <1>3. /\ pc[u] = "idle" /\ status[u] = "run" /\ ~inQueue[u]
        /\ \A d \in Cores : current[d] # u /\ elem[d] # u
        /\ \A v \in Threads : IsStarter(v) /\ target[v] = u => v = t
    BY <1>0, <1>2 DEF Started
  <1>4. /\ pc' = [pc EXCEPT ![t] = "idle"]
        /\ target' = [target EXCEPT ![t] = None]
        /\ PushBack(u)
        /\ UNCHANGED <<status, statusBeforeSleep, cpuId, ctx, wants,
                       current, act, next, elem, waiters>>
    BY DEF StartPush, coreVars, semaVars
  <1> HIDE DEF t, u
  <1>5. /\ \A d \in Cores, y \in Threads :
              In(threadList'[d], y) <=> In(threadList[d], y) \/ (d = cpuId[u] /\ y = u)
        /\ \A d \in Cores : NoRepeats(threadList'[d])
        /\ \A y \in Threads : inQueue'[y] <=> inQueue[y] \/ y = u
    BY <1>0, <1>2, <1>3, <1>4, Pushed DEF Marks
  <1>6. \A y \in Threads :
          /\ pc'[y] = IF y = t THEN "idle" ELSE pc[y]
          /\ y # t => target'[y] = target[y]
          /\ IsStarter(y)' <=> IsStarter(y) /\ y # t
    BY <1>1, <1>2, <1>4 DEF IsStarter
  <1>7. StepOperands' /\ Homes'
    BY <1>0, <1>4, <1>5 DEF StepOperands, Homes
  <1>8. ListsExact'
    BY <1>0, <1>4, <1>5 DEF ListsExact
  <1>9. Marks'
    BY <1>0, <1>2, <1>4, <1>5, Operands DEF Marks
  <1>10. CanRun'
    BY <1>0, <1>3, <1>4, <1>5, <1>6, Operands DEF CanRun
  <1>11. Running'
    BY <1>0, <1>3, <1>4, <1>5, <1>6, Operands DEF Running
  <1>12. OutOfQueue'
    BY <1>0, <1>3, <1>4, <1>5, Operands DEF OutOfQueue, Marks
  <1>13. Woken'
    BY <1>0, <1>3, <1>4, <1>5, Operands DEF Woken
  <1>14. Started'
    BY <1>0, <1>2, <1>3, <1>4, <1>5, <1>6, Operands DEF Started
  <1>15. MainStays'
    BY <1>0, <1>4, <1>6, Operands DEF MainStays
  <1>16. Somewhere'
    <2> SUFFICES ASSUME NEW y \in Threads, pc'[y] # "new", status[y] = "run"
                 PROVE  \/ inQueue'[y]
                        \/ \E d \in Cores : current[d] = y \/ elem[d] = y
                        \/ \E v \in Threads : IsStarter(v)' /\ target'[v] = y
      BY <1>4 DEF Somewhere
    <2>1. CASE y = u
      BY <1>5, <2>1
    <2>2. CASE y # u
      <3>1. pc[y] # "new"
        BY <1>2, <1>6
      <3> QED
        BY <1>0, <1>5, <1>6, <2>2, <3>1 DEF Somewhere, u
    <2> QED
      BY <2>1, <2>2
  <1>17. Asleep' /\ Ended' /\ UserCode'
    BY <1>0, <1>2, <1>4, <1>6 DEF Asleep, Ended, UserCode
  <1>18. PushHome'
    BY <1>0, <1>4, <1>6 DEF PushHome
  <1> QED
    BY <1>18, <1>7, <1>8, <1>9, <1>10, <1>11, <1>12, <1>13, <1>14, <1>15, <1>16, <1>17 DEF PlaceInv

-----------------------------------------------------------------------------
(* Semaphores *)

\* The first waiter is awake and in the hands of EnqueueThread.
LEMMA UpPlace ==
  ASSUME TypeInv, PlaceInv, NEW c \in Cores, NEW s \in Semas, Up(c, s)
  PROVE  PlaceInv'
  <1>0. /\ StepOperands /\ Homes /\ ListsExact /\ Marks /\ CanRun /\ Running
        /\ OutOfQueue /\ Woken /\ Started /\ Asleep /\ Ended /\ MainStays /\ Somewhere
        /\ UserCode /\ PushHome
    BY DEF PlaceInv
  <1>1. /\ status \in [Threads -> Status] /\ waiters \in [Semas -> Seq(Threads)]
        /\ elem \in [Cores -> Threads \cup {None}] /\ act \in [Cores -> Act]
    BY DEF TypeInv, TypeOK
  <1>2. /\ act[c] = "run" /\ SemaCore[s] = c
        /\ UNCHANGED <<statusBeforeSleep, inQueue, cpuId, pc, ctx, target, wants, threadList,
                       current, next>>
    BY DEF Up, flowVars
  <1>3. \A v \in Threads : IsStarter(v)' <=> IsStarter(v)
    BY <1>2 DEF IsStarter
  <1>4. CASE waiters[s] = <<>>
    <2>1. UNCHANGED <<status, waiters, elem, act>>
      BY <1>4 DEF Up, WakeFirst
    <2> QED
      BY <1>0, <1>2, <1>3, <2>1
      DEF PlaceInv, StepOperands, Homes, ListsExact, Marks, CanRun, Running, OutOfQueue, Woken,
          Started, Asleep, Ended, MainStays, Somewhere, UserCode, PushHome
  <1>5. CASE waiters[s] # <<>>
    <2> DEFINE w == Head(waiters[s])
               q == Tail(waiters[s])
    <2>1. /\ waiters' = [waiters EXCEPT ![s] = q]
          /\ status' = [status EXCEPT ![w] = statusBeforeSleep[w]]
          /\ elem' = [elem EXCEPT ![c] = w]
          /\ act' = [act EXCEPT ![c] = "enqueue"]
      BY <1>5 DEF Up, WakeFirst
    <2>2. /\ \A y : In(q, y) <=> In(waiters[s], y) /\ y # w
          /\ NoRepeats(q)
          /\ In(waiters[s], w)
          /\ w \in Threads
      BY <1>0, <1>1, <1>5, InTail, TailPositions DEF ListsExact
    <2>3. /\ status[w] = "sleep" /\ statusBeforeSleep[w] = "run" /\ pc[w] = "down"
          /\ cpuId[w] = c /\ ~inQueue[w] /\ w # None
      BY <1>0, <1>2, <2>2, Operands DEF Asleep, Homes, CanRun
    <2> HIDE DEF w, q
    <2>4. \A r \in Semas, y \in Threads :
            In(waiters'[r], y) <=> In(waiters[r], y) /\ ~(r = s /\ y = w)
      BY <1>1, <2>1, <2>2
    <2>5. \A r \in Semas, y \in Threads : In(waiters'[r], y) => In(waiters[r], y) /\ y # w
      BY <1>0, <2>2, <2>4 DEF Asleep
    <2>6. \A y \in Threads : status'[y] = IF y = w THEN "run" ELSE status[y]
      BY <1>1, <2>1, <2>3
    <2>7. \A d \in Cores :
            /\ elem'[d] = IF d = c THEN w ELSE elem[d]
            /\ act'[d] = IF d = c THEN "enqueue" ELSE act[d]
      BY <1>1, <2>1
    <2>8. \A d \in Cores : current[d] # w
      <3>1. current[c] # w
        BY <1>0, <1>2, <2>3 DEF Running
      <3> QED
        BY <1>0, <2>3, <3>1 DEF Homes
    <2>9. StepOperands'
      BY <1>0, <1>2, <2>3, <2>7 DEF StepOperands
    <2>10. Homes'
      BY <1>0, <1>2, <2>3, <2>5, <2>7 DEF Homes
    <2>11. ListsExact'
      BY <1>0, <1>1, <1>2, <2>1, <2>2 DEF ListsExact
    <2>12. Marks' /\ OutOfQueue' /\ UserCode' /\ PushHome'
      BY <1>0, <1>2 DEF Marks, OutOfQueue, UserCode, PushHome
    <2>13. CanRun'
      <3>1. \A y \in Threads : inQueue[y] => status'[y] = "run" /\ pc[y] # "new"
        BY <1>0, <2>3, <2>6 DEF CanRun
      <3>2. \A d \in Cores : elem'[d] # None => status'[elem'[d]] = "run" /\ pc[elem'[d]] # "new"
        BY <1>0, <2>2, <2>3, <2>6, <2>7, Operands DEF CanRun
      <3>3. \A y \in Threads : pc[y] = "new" => status'[y] = "run"
        BY <1>0, <2>6 DEF CanRun
      <3> QED
        BY <1>2, <3>1, <3>2, <3>3 DEF CanRun
    <2>14. Running'
      BY <1>0, <1>2, <2>6, <2>7, <2>8, Operands DEF Running
    <2>15. Woken'
      BY <1>0, <1>2, <2>3, <2>7, <2>8 DEF Woken
    <2>16. Started'
      <3>1. \A v \in Threads : IsStarter(v) => target[v] # w
        BY <1>0, <2>3 DEF Started
      <3> QED
        BY <1>0, <1>2, <1>3, <2>6, <2>7, <3>1, Operands DEF Started
    <2>17. Asleep'
      BY <1>0, <1>2, <2>5, <2>6 DEF Asleep
    <2>18. Ended'
      BY <1>0, <1>2, <2>3, <2>6 DEF Ended
    <2>19. MainStays'
      <3>1. \A d \in Cores : Main[d] # w
        BY <1>0, <2>3 DEF MainStays
      <3> QED
        BY <1>0, <1>2, <1>3, <2>6, <2>7, <3>1, Operands DEF MainStays
    <2>20. Somewhere'
      <3> SUFFICES ASSUME NEW y \in Threads, pc[y] # "new", status'[y] = "run"
                   PROVE  \/ inQueue[y]
                          \/ \E d \in Cores : current[d] = y \/ elem'[d] = y
                          \/ \E v \in Threads : IsStarter(v) /\ target[v] = y
        BY <1>2, <1>3 DEF Somewhere
      <3>1. CASE y = w
        BY <2>7, <3>1
      <3>2. CASE y # w
        <4>1. elem[c] = None /\ y # None
          BY <1>0, <1>2, Operands DEF StepOperands
        <4> QED
          BY <1>0, <2>6, <2>7, <3>2, <4>1 DEF Somewhere
      <3> QED
        BY <3>1, <3>2
    <2> QED
      BY <2>9, <2>10, <2>11, <2>12, <2>13, <2>14, <2>15, <2>16, <2>17, <2>18, <2>19, <2>20
      DEF PlaceInv
  <1> QED
    BY <1>4, <1>5

\* The woken thread is queued.
LEMMA UpEnqueuePlace ==
  ASSUME TypeInv, PlaceInv, NEW c \in Cores, UpEnqueueThread(c)
  PROVE  PlaceInv'
  <1> DEFINE u == elem[c]
  <1>0. /\ StepOperands /\ Homes /\ ListsExact /\ Marks /\ CanRun /\ Running
        /\ OutOfQueue /\ Woken /\ Started /\ Asleep /\ Ended /\ MainStays /\ Somewhere
        /\ UserCode /\ PushHome
    BY DEF PlaceInv
  <1>1. /\ elem \in [Cores -> Threads \cup {None}] /\ act \in [Cores -> Act]
    BY DEF TypeInv, TypeOK
  <1>2. /\ act[c] = "enqueue" /\ u # None /\ u \in Threads /\ cpuId[u] = c /\ ~inQueue[u]
        /\ status[u] = "run" /\ pc[u] # "new" /\ next[c] = None
    BY <1>0, Operands DEF UpEnqueueThread, StepOperands, Homes, Woken, CanRun
  <1>3. /\ elem' = [elem EXCEPT ![c] = None]
        /\ act' = [act EXCEPT ![c] = "run"]
        /\ PushBack(u)
        /\ UNCHANGED <<status, statusBeforeSleep, cpuId, pc, ctx, target, wants,
                       current, next, waiters>>
    BY DEF UpEnqueueThread, flowVars, semaVars
  <1>4. \A d \in Cores : current[d] # u
    BY <1>0, <1>2 DEF Homes, Woken
  <1>5. \A v \in Threads : IsStarter(v) => target[v] # u
    BY <1>0 DEF Started
  <1>6. \A d \in Cores : d # c => elem[d] # u
    BY <1>0, <1>2 DEF Homes
  <1>11. Main[c] # u
    BY <1>0 DEF MainStays
  <1> HIDE DEF u
  <1>7. /\ \A d \in Cores, y \in Threads :
              In(threadList'[d], y) <=> In(threadList[d], y) \/ (d = c /\ y = u)
        /\ \A d \in Cores : NoRepeats(threadList'[d])
        /\ \A y \in Threads : inQueue'[y] <=> inQueue[y] \/ y = u
    BY <1>0, <1>2, <1>3, Pushed DEF Marks
  <1>8. \A d \in Cores :
          /\ elem'[d] = IF d = c THEN None ELSE elem[d]
          /\ act'[d] = IF d = c THEN "run" ELSE act[d]
    BY <1>1, <1>3
  <1>9. \A v \in Threads : IsStarter(v)' <=> IsStarter(v)
    BY <1>3 DEF IsStarter
  <1>10. \A d \in Cores : next[d] # u
    BY <1>0, <1>2 DEF Homes
  <1>12. StepOperands'
    BY <1>0, <1>2, <1>3, <1>8 DEF StepOperands
  <1>13. Homes'
    BY <1>0, <1>2, <1>3, <1>7, <1>8 DEF Homes
  <1>14. ListsExact'
    BY <1>0, <1>3, <1>7 DEF ListsExact
  <1>15. Marks'
    <2>1. \A d \in Cores : next[d] # None => next[d] \in Threads
      BY Operands
    <2> QED
      BY <1>0, <1>2, <1>3, <1>7, <2>1 DEF Marks
  <1>16. CanRun'
    BY <1>0, <1>2, <1>3, <1>7, <1>8 DEF CanRun
  <1>17. Running'
    BY <1>0, <1>2, <1>3, <1>4, <1>7, <1>8, Operands DEF Running
  <1>18. OutOfQueue'
    BY <1>0, <1>3, <1>7, <1>10, Operands DEF OutOfQueue
  <1>19. Woken'
    BY <1>0, <1>3, <1>6, <1>7, <1>8, Operands DEF Woken
  <1>20. Started'
    BY <1>0, <1>2, <1>3, <1>5, <1>7, <1>8, <1>9, Operands DEF Started
  <1>21. MainStays'
    BY <1>0, <1>3, <1>8, <1>9, Operands DEF MainStays
  <1>22. Somewhere'
    <2> SUFFICES ASSUME NEW y \in Threads, pc[y] # "new", status[y] = "run", y # u
                 PROVE  \/ inQueue'[y]
                        \/ \E d \in Cores : current[d] = y \/ elem'[d] = y
                        \/ \E v \in Threads : IsStarter(v) /\ target[v] = y
      BY <1>3, <1>7, <1>9 DEF Somewhere
    <2>1. \A d \in Cores : elem[d] = y => elem'[d] = y
      BY <1>8 DEF u
    <2> QED
      BY <1>0, <1>7, <2>1 DEF Somewhere
  <1>23. Asleep' /\ Ended' /\ UserCode' /\ PushHome'
    BY <1>0, <1>3 DEF Asleep, Ended, UserCode, PushHome
  <1> QED
    BY <1>12, <1>13, <1>14, <1>15, <1>16, <1>17, <1>18, <1>19, <1>20, <1>21, <1>22, <1>23
    DEF PlaceInv

\* A round of Down: the thread takes a unit, or is about to leave its core.
LEMMA DownPlace ==
  ASSUME TypeInv, PlaceInv, NEW c \in Cores, NEW s \in Semas, Down(c, s)
  PROVE  PlaceInv'
  <1> DEFINE t == current[c]
  <1>0. /\ StepOperands /\ Homes /\ ListsExact /\ Marks /\ CanRun /\ Running
        /\ OutOfQueue /\ Woken /\ Started /\ Asleep /\ Ended /\ MainStays /\ Somewhere
        /\ UserCode /\ PushHome
    BY DEF PlaceInv
  <1>1. /\ status \in [Threads -> Status] /\ waiters \in [Semas -> Seq(Threads)]
        /\ statusBeforeSleep \in [Threads -> Status \cup {"unset"}]
        /\ pc \in [Threads -> Pc] /\ wants \in [Threads -> Semas \cup {None}]
        /\ act \in [Cores -> Act] /\ cnt \in [Semas -> Nat]
    BY DEF TypeInv, TypeOK
  <1>2. /\ t \in Threads /\ act[c] = "run" /\ pc[t] \in {"idle", "down"} /\ status[t] = "run"
        /\ ~inQueue[t] /\ cpuId[t] = c /\ SemaCore[s] = c /\ ctx[t] # "user"
    BY <1>0, Operands DEF Down, InKernelAt, Running, Homes
  <1>3. /\ ~IsStarter(t) /\ pc[t] \notin {"exit", "exit_intr"}
        /\ \A d \in Cores : Main[d] # t /\ (elem[d] # t) /\ (d # c => current[d] # t)
        /\ \A v \in Threads : IsStarter(v) => target[v] # t
        /\ \A r \in Semas : ~In(waiters[r], t)
    <2>1. t # Main[c]
      BY DEF Down
    <2>2. \A d \in Cores : Main[d] # t
      BY <1>0, <1>2, <2>1 DEF MainStays
    <2>3. \A d \in Cores : elem[d] # t /\ (d # c => current[d] # t)
      BY <1>0, <1>2, Operands DEF Homes, Woken
    <2>4. /\ \A v \in Threads : IsStarter(v) => target[v] # t
          /\ \A r \in Semas : ~In(waiters[r], t)
      BY <1>0, <1>2 DEF Started, Asleep
    <2> QED
      BY <1>2, <2>2, <2>3, <2>4 DEF IsStarter
  <1>4. UNCHANGED <<inQueue, cpuId, ctx, target, threadList, current, next, elem>>
    BY DEF Down, queueVars
  <1>5. /\ pc' \in {[pc EXCEPT ![t] = "idle"], [pc EXCEPT ![t] = "down"]}
        /\ act' \in {act, [act EXCEPT ![c] = "yield"]}
        /\ wants' \in {[wants EXCEPT ![t] = None], [wants EXCEPT ![t] = s]}
    BY DEF Down, EnterYield
  <1>6. \/ UNCHANGED <<status, statusBeforeSleep, waiters>>
        \/ /\ statusBeforeSleep' = [statusBeforeSleep EXCEPT ![t] = status[t]]
           /\ status' = [status EXCEPT ![t] = "sleep"]
           /\ waiters' = [waiters EXCEPT ![s] = Append(@, t)]
           /\ wants' = [wants EXCEPT ![t] = s]
           /\ pc' = [pc EXCEPT ![t] = "down"]
           /\ act' = [act EXCEPT ![c] = "yield"]
    BY DEF Down, MakeSleep, EnterYield
  <1> HIDE DEF t
  <1>7. \A y \in Threads :
          /\ pc'[y] = pc[y] \/ (y = t /\ pc'[y] \in {"idle", "down"})
          /\ y # t => pc'[y] = pc[y] /\ wants'[y] = wants[y] /\ status'[y] = status[y]
                        /\ statusBeforeSleep'[y] = statusBeforeSleep[y]
          /\ IsStarter(y)' <=> IsStarter(y)
    <2>1. \A y \in Threads :
          /\ pc'[y] = pc[y] \/ (y = t /\ pc'[y] \in {"idle", "down"})
          /\ y # t => pc'[y] = pc[y] /\ wants'[y] = wants[y]
      BY <1>1, <1>5
    <2>2. \A y \in Threads :
             y # t => status'[y] = status[y] /\ statusBeforeSleep'[y] = statusBeforeSleep[y]
      BY <1>1, <1>6
    <2> QED
      BY <1>3, <2>1, <2>2 DEF IsStarter
  <1>8. \A d \in Cores : act'[d] = act[d] \/ (d = c /\ act'[d] = "yield")
    BY <1>1, <1>5
  <1>9. status'[t] = "run" \/ (status'[t] = "sleep" /\ act'[c] = "yield")
    BY <1>1, <1>2, <1>6
  <1>10. pc'[t] \in {"idle", "down"}
    BY <1>1, <1>2, <1>5
  <1>11. /\ \A r \in Semas : NoRepeats(waiters'[r])
         /\ \A r \in Semas, y \in Threads : In(waiters'[r], y) =>
              \/ y # t /\ In(waiters[r], y)
              \/ y = t /\ r = s /\ status'[t] = "sleep" /\ statusBeforeSleep'[t] = "run"
                 /\ pc'[t] = "down" /\ wants'[t] = s
    <2>1. CASE UNCHANGED <<status, statusBeforeSleep, waiters>>
      BY <1>0, <1>3, <2>1 DEF ListsExact
    <2>2. CASE /\ statusBeforeSleep' = [statusBeforeSleep EXCEPT ![t] = status[t]]
               /\ status' = [status EXCEPT ![t] = "sleep"]
               /\ waiters' = [waiters EXCEPT ![s] = Append(@, t)]
               /\ wants' = [wants EXCEPT ![t] = s]
               /\ pc' = [pc EXCEPT ![t] = "down"]
      <3>1. /\ \A y : In(Append(waiters[s], t), y) <=> In(waiters[s], y) \/ y = t
            /\ NoRepeats(Append(waiters[s], t))
        BY <1>0, <1>1, <1>2, <1>3, InAppend DEF ListsExact
      <3>2. /\ status'[t] = "sleep" /\ statusBeforeSleep'[t] = "run"
            /\ pc'[t] = "down" /\ wants'[t] = s
        BY <1>1, <1>2, <2>2
      <3>3. /\ waiters'[s] = Append(waiters[s], t)
            /\ \A r \in Semas : r # s => waiters'[r] = waiters[r]
        BY <1>1, <2>2
      <3> QED
        BY <1>0, <1>3, <3>1, <3>2, <3>3 DEF ListsExact
    <2> QED
      BY <1>6, <2>1, <2>2
  <1>12. StepOperands'
    BY <1>0, <1>2, <1>4, <1>8 DEF StepOperands
  <1>13. Homes'
    BY <1>0, <1>2, <1>4, <1>11 DEF Homes
  <1>14. ListsExact' /\ Marks' /\ OutOfQueue' /\ Woken'
    BY <1>0, <1>4, <1>11 DEF ListsExact, Marks, OutOfQueue, Woken
  <1>15. CanRun'
    BY <1>0, <1>2, <1>3, <1>4, <1>7, <1>10, Operands DEF CanRun
  <1>16. Running'
    <2>1. current[c] = t
      BY DEF t
    <2> QED
      BY <1>0, <1>2, <1>3, <1>4, <1>7, <1>8, <1>9, <1>10, <2>1, Operands DEF Running
  <1>17. Started'
    BY <1>0, <1>3, <1>4, <1>7, Operands DEF Started
  <1>18. Asleep'
    BY <1>0, <1>7, <1>11 DEF Asleep
  <1>19. Ended'
    BY <1>0, <1>2, <1>7, <1>9, <1>10 DEF Ended
  <1>20. MainStays'
    BY <1>0, <1>3, <1>4, <1>7, Operands DEF MainStays
  <1>21. Somewhere'
    <2> SUFFICES ASSUME NEW y \in Threads, pc'[y] # "new", status'[y] = "run"
                 PROVE  \/ inQueue[y]
                        \/ \E d \in Cores : current[d] = y \/ elem[d] = y
                        \/ \E v \in Threads : IsStarter(v) /\ target[v] = y
      BY <1>4, <1>7 DEF Somewhere
    <2>1. CASE y = t
      BY <2>1 DEF t
    <2>2. CASE y # t
      BY <1>0, <1>7, <2>2 DEF Somewhere
    <2> QED
      BY <2>1, <2>2
  <1>22. UserCode'
    BY <1>0, <1>2, <1>4, <1>7 DEF UserCode
  <1>23. PushHome'
    BY <1>0, <1>4, <1>7, <1>10 DEF PushHome
  <1> QED
    BY <1>23, <1>12, <1>13, <1>14, <1>15, <1>16, <1>17, <1>18, <1>19, <1>20, <1>21, <1>22
    DEF PlaceInv

-----------------------------------------------------------------------------
(* The theorems *)

\* Boot left every thread on one core.
LEMMA BootHomes ==
  /\ \A c \in Cores : BootCore(Main[c]) = c
  /\ \A c \in Cores, t \in Threads : In(Boot[c], t) => BootCore(t) = c
  <1>1. /\ Main \in [Cores -> Threads] /\ Boot \in [Cores -> Seq(Threads)]
        /\ \A c \in Cores : ~InBoot(Main[c])
    BY ConstantsAssumption, BootAssumption
  <1>2. \A c \in Cores, t \in Threads : In(Boot[c], t) => InBoot(t)
    BY DEF In, InBoot
  <1>3. \A c, d \in Cores, t \in Threads : In(Boot[c], t) /\ In(Boot[d], t) => c = d
    BY BootAssumption DEF In
  <1>4. \A c \in Cores : BootCore(Main[c]) = c
    <2> TAKE c \in Cores
    <2> DEFINE P(d) == Main[d] = Main[c] \/ \E i \in 1 .. Len(Boot[d]) : Boot[d][i] = Main[c]
    <2>1. \A d \in Cores : P(d) => d = c
      BY <1>1, ConstantsAssumption DEF InBoot
    <2>2. P(c)
      OBVIOUS
    <2> HIDE DEF P
    <2>3. (CHOOSE d \in Cores : P(d)) = c
      BY <2>1, <2>2
    <2> QED
      BY <2>2, <2>3 DEF BootCore, P
  <1>5. \A c \in Cores, t \in Threads : In(Boot[c], t) => BootCore(t) = c
    <2> SUFFICES ASSUME NEW c \in Cores, NEW t \in Threads, In(Boot[c], t)
                 PROVE  BootCore(t) = c
      OBVIOUS
    <2> DEFINE P(d) == Main[d] = t \/ \E i \in 1 .. Len(Boot[d]) : Boot[d][i] = t
    <2>1. \A d \in Cores : P(d) => d = c
      BY <1>1, <1>2, <1>3 DEF In
    <2>2. P(c)
      BY DEF In
    <2> HIDE DEF P
    <2>3. (CHOOSE d \in Cores : P(d)) = c
      BY <2>1, <2>2
    <2> QED
      BY <2>2, <2>3 DEF BootCore, P
  <1> QED
    BY <1>4, <1>5

\* What boot leaves satisfies the invariant.
LEMMA InitPlace == Init => PlaceInv
  <1> SUFFICES ASSUME Init PROVE PlaceInv
    OBVIOUS
  <1>1. /\ None \notin Threads /\ Main \in [Cores -> Threads] /\ Boot \in [Cores -> Seq(Threads)]
        /\ \A c \in Cores : ~InBoot(Main[c])
    BY ConstantsAssumption, BootAssumption
  <1>2. \A c \in Cores, t \in Threads : In(Boot[c], t) => InBoot(t)
    BY DEF In, InBoot
  <1>3. \A t \in Threads : InBoot(t) => \E c \in Cores : In(Boot[c], t)
    BY DEF In, InBoot
  <1>5. \A c \in Cores : BootCore(Main[c]) = c
    BY BootHomes
  <1>6. \A c \in Cores, t \in Threads : In(Boot[c], t) => BootCore(t) = c
    BY BootHomes
  <1>7. NoRepeats(<<>>) /\ \A c \in Cores : NoRepeats(Boot[c])
    BY BootAssumption DEF NoRepeats
  <1>8. \A t \in Threads : ~IsStarter(t) /\ pc[t] \in {"idle", "new"}
    BY DEF Init, IsStarter
  <1>9. StepOperands /\ ListsExact /\ OutOfQueue /\ Woken
    BY <1>7 DEF Init, StepOperands, ListsExact, OutOfQueue, Woken
  <1>10. Homes
    BY <1>1, <1>5, <1>6, InEmpty DEF Init, Homes
  <1>11. Marks
    BY <1>1, <1>2, <1>3 DEF Init, Marks
  <1>12. CanRun /\ Running
    BY <1>1 DEF Init, CanRun, Running
  <1>13. Started /\ Asleep /\ PushHome
    BY <1>8, InEmpty DEF Init, Started, Asleep, PushHome
  <1>14. Ended /\ UserCode
    BY <1>8 DEF Init, Ended, UserCode
  <1>15. MainStays
    BY <1>1, <1>5, <1>8 DEF Init, MainStays
  <1>16. Somewhere
    BY <1>1 DEF Init, Somewhere
  <1> QED
    BY <1>9, <1>10, <1>11, <1>12, <1>13, <1>14, <1>15, <1>16 DEF PlaceInv

\* Every step of every core preserves the invariant.
LEMMA NextPlace == TypeInv /\ PlaceInv /\ [Next]_vars => PlaceInv'
  <1> SUFFICES ASSUME TypeInv, PlaceInv, [Next]_vars PROVE PlaceInv'
    OBVIOUS
  <1>1. CASE UNCHANGED vars
    BY <1>1 DEF vars, threadVars, flowVars, queueVars, coreVars, semaVars, PlaceInv,
      StepOperands, Homes, ListsExact, Marks, CanRun, Running, OutOfQueue, Woken, Started,
      Asleep, Ended, MainStays, Somewhere, UserCode, PushHome, IsStarter
  <1>2. ASSUME NEW c \in Cores, KernelStep(c) PROVE PlaceInv'
    <2>1. ~TerminatePanic(c)
      BY Operands DEF PlaceInv, Running, Ended, TerminatePanic
    <2>2. CASE Delete(c)
      BY <2>2, StayingSteps, StaysPlace
    <2> QED
      BY <1>2, <2>1, <2>2, NoThreadPlace, PopNextPlace, SwitchPlace, StartLockPlace,
         StartPushPlace, UpEnqueuePlace DEF KernelStep
  <1>3. ASSUME NEW c \in Cores,
               \/ Yield(c) \/ TimerInterruptHandler(c) \/ SpinYield(c)
               \/ SyscallEnter(c) \/ SyscallReturn(c)
               \/ PageFaultEnter(c) \/ PageFaultReturn(c)
               \/ \E u \in Threads : Join(c, u)
        PROVE  PlaceInv'
    BY <1>3, StayingSteps, StaysPlace
  <1>4. ASSUME NEW c \in Cores, Terminate(c) \/ PageFaultInvalid(c) PROVE PlaceInv'
    BY <1>4, EndingSteps, EndsPlace
  <1>5. ASSUME NEW c \in Cores, NEW u \in Threads, Start(c, u) PROVE PlaceInv'
    BY <1>5, StartPlace
  <1>6. ASSUME NEW c \in Cores, NEW s \in Semas, Up(c, s) \/ Down(c, s) PROVE PlaceInv'
    BY <1>6, UpPlace, DownPlace
  <1> QED
    BY <1>1, <1>2, <1>3, <1>4, <1>5, <1>6 DEF Next

\* The invariant of the two theorems, and of those about the queues.
LEMMA SpecPlace == Spec => [](TypeInv /\ PlaceInv)
  <1>1. Init => TypeInv /\ PlaceInv
    BY InitTypeInv, InitPlace
  <1>2. TypeInv /\ PlaceInv /\ [Next]_vars => TypeInv' /\ PlaceInv'
    BY NextTypeInv, NextPlace
  <1> QED
    BY <1>1, <1>2, PTL DEF Spec

\* The places of the invariant are those of the property.
LEMMA PlaceImplies == TypeInv /\ PlaceInv => OnePlace /\ NeverLost /\ InQueueFlag
  <1> SUFFICES ASSUME TypeInv, PlaceInv PROVE OnePlace /\ NeverLost /\ InQueueFlag
    OBVIOUS
  <1>0. /\ StepOperands /\ Homes /\ ListsExact /\ Marks /\ CanRun /\ Running
        /\ OutOfQueue /\ Woken /\ Started /\ Asleep /\ Ended /\ MainStays /\ Somewhere
        /\ UserCode /\ PushHome
    BY DEF PlaceInv
  <1>1. \A t \in Threads :
          /\ Queued(t) <=> \E c \in Cores : In(threadList[c], t)
          /\ Waiting(t) <=> \E s \in Semas : In(waiters[s], t)
          /\ Starting(t) <=> \E v \in Threads : IsStarter(v) /\ target[v] = t
    BY DEF Queued, Waiting, Starting, In, IsStarter
  <1>2. \A t \in Threads : inQueue[t] <=> Queued(t) \/ Chosen(t)
    BY <1>0, <1>1, Operands DEF Marks, Chosen
  <1>3. NeverLost
    BY <1>0, <1>1, <1>2
    DEF NeverLost, IsRunnable, Somewhere, Ended, Current, Waking, Chosen
  <1>4. /\ \A c \in Cores : \A i \in 1 .. Len(threadList[c]) : cpuId[threadList[c][i]] = c
        /\ \A s \in Semas : \A i \in 1 .. Len(waiters[s]) : cpuId[waiters[s][i]] = SemaCore[s]
    BY <1>0, Operands DEF Homes, In
  <1>5. ASSUME NEW t \in Threads
        PROVE  /\ Queued(t) => ~(Current(t) \/ Chosen(t) \/ Waking(t) \/ Starting(t))
               /\ Current(t) => ~(Chosen(t) \/ Waking(t) \/ Starting(t))
               /\ Chosen(t) => ~(Waking(t) \/ Starting(t))
               /\ Waking(t) => ~Starting(t)
               /\ Waiting(t) => ~(Queued(t) \/ Chosen(t) \/ Waking(t) \/ Starting(t))
    <2>1. Queued(t) \/ Chosen(t) => ~(Current(t) \/ Waking(t) \/ Starting(t))
      BY <1>0, <1>1, <1>2, Operands DEF Running, Woken, Started, Current, Waking
    <2>2. Queued(t) => ~Chosen(t)
      BY <1>0, <1>1, Operands DEF Homes, OutOfQueue, Chosen
    <2>3. Current(t) => ~(Waking(t) \/ Starting(t))
      BY <1>0, <1>1, Operands DEF Homes, Woken, Started, Current, Waking
    <2>4. Waking(t) => ~Starting(t)
      BY <1>0, <1>1 DEF Started, Waking
    <2>5. Queued(t) \/ Chosen(t) \/ Waking(t) \/ Starting(t) => status[t] = "run"
      BY <1>0, <1>1, <1>2, Operands DEF CanRun, Started, Waking
    <2>6. Waiting(t) => status[t] = "sleep"
      BY <1>0, <1>1 DEF Asleep
    <2> QED
      BY <2>1, <2>2, <2>3, <2>4, <2>5, <2>6
  <1>6. \A c \in Cores : Waiting(current[c]) => act[c] \in {"yield", "switch"}
    BY <1>0, <1>1, Operands DEF Asleep, Running
  <1>7. OnePlace
    BY <1>0, <1>4, <1>5, <1>6 DEF OnePlace, ListsExact, Homes
  <1> QED
    BY <1>2, <1>3, <1>7 DEF InQueueFlag

\* No thread is ever on two cores, in two run queues, or twice in one: the
\* marks and queues that EnqueueThread, Up and YieldInInterruptHandler decide
\* on keep every thread in one place, whatever the interleaving of the cores.
THEOREM InOnePlace == Spec => []OnePlace
  BY SpecPlace, PlaceImplies, PTL

\* No started thread that can run is ever forgotten by the scheduler.
THEOREM NoneLost == Spec => []NeverLost
  BY SpecPlace, PlaceImplies, PTL

=============================================================================
