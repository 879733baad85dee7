----------------------------- MODULE KillProofs -----------------------------
(***************************************************************************)
(* Theorems about Scheduler with ctrl-c (Kill), for every number of cores, *)
(* threads and semaphores, every boot configuration and any number of      *)
(* kills at any moment.                                                    *)
(*                                                                         *)
(* A kill makes a thread runnable wherever it is, so PlaceInv does not     *)
(* survive it.  What survives is that all that happens to a thread happens *)
(* on its own core: between the pop and the switch nobody can put the      *)
(* chosen thread to sleep or end it.  And as long as no kill meets a       *)
(* thread that sleeps, every thread stays in one place.                    *)
(***************************************************************************)
EXTENDS Kill, SchedulerProofs

\* The inductive invariant: what is current, chosen, being woken, queued or
\* waiting has been started, on the core where it is, and the chosen thread
\* can run unless it is the very thread that leaves the core.
KillInv ==
  /\ \A c \in Cores : cpuId[current[c]] = c /\ pc[current[c]] # "new"
  /\ \A c \in Cores : act[c] = "switch" =>
       /\ cpuId[next[c]] = c /\ pc[next[c]] # "new"
       /\ next[c] # current[c] => IsRunnable(next[c])
  /\ \A c \in Cores : act[c] = "enqueue" => pc[elem[c]] # "new"
  /\ \A c \in Cores, t \in Threads :
       In(threadList[c], t) => cpuId[t] = c /\ pc[t] # "new"
  /\ \A s \in Semas, t \in Threads :
       In(waiters[s], t) => cpuId[t] = SemaCore[s] /\ pc[t] # "new"
  /\ \A v \in Threads : IsStarter(v) => pc[target[v]] # "new"

-----------------------------------------------------------------------------
(* What a step may do to a thread *)

\* A started thread stays started, on its core.
HomesStay ==
  \A t \in Threads : pc[t] # "new" => pc'[t] # "new" /\ cpuId'[t] = cpuId[t]

\* Lists grow only by threads of their own core.
ListsGrowAtHome ==
  /\ \A c \in Cores, t \in Threads :
       In(threadList'[c], t) => In(threadList[c], t) \/ (cpuId[t] = c /\ pc[t] # "new")
  /\ \A s \in Semas, t \in Threads :
       In(waiters'[s], t) =>
         In(waiters[s], t) \/ (cpuId[t] = SemaCore[s] /\ pc[t] # "new")

\* A core switches to the chosen thread only, and chooses from its own queue.
SwitchesToChosen ==
  \A c \in Cores :
    /\ current'[c] = current[c] \/ (act[c] = "switch" /\ current'[c] = next[c])
    /\ act'[c] = "switch" =>
         \/ act[c] = "switch" /\ next'[c] = next[c] /\ current'[c] = current[c]
         \/ /\ In(threadList[c], next'[c])
            /\ next'[c] # current'[c] => status'[next'[c]] \in {"run", "terminate_ready"}

\* Only the steps of a thread and of its semaphore can keep it from running,
\* and not while their core is switching.
StopsAtHome ==
  \A t \in Threads :
    IsRunnable(t) /\ status'[t] \notin {"run", "terminate_ready"} =>
      \E d \in Cores :
        /\ act[d] # "switch"
        /\ current[d] = t \/ \E s \in Semas : SemaCore[s] = d /\ In(waiters[s], t)

\* What is woken has waited, and what is being started has been started.
OperandsStarted ==
  /\ \A c \in Cores : act'[c] = "enqueue" =>
       \/ act[c] = "enqueue" /\ elem'[c] = elem[c]
       \/ \E s \in Semas : In(waiters[s], elem'[c])
  /\ \A v \in Threads : pc'[v] \in {"start_lock", "start_push"} =>
       \/ IsStarter(v) /\ target'[v] = target[v]
       \/ target'[v] \in Threads /\ pc'[target'[v]] # "new"

Moves ==
  HomesStay /\ ListsGrowAtHome /\ SwitchesToChosen /\ StopsAtHome /\ OperandsStarted

\* Such a step preserves the invariant.
LEMMA MovesKill == TypeInv /\ KillInv /\ Moves => KillInv'
  <1> SUFFICES ASSUME TypeInv, KillInv, Moves PROVE KillInv'
    OBVIOUS
  <1>0. HomesStay /\ ListsGrowAtHome /\ SwitchesToChosen /\ StopsAtHome /\ OperandsStarted
    BY DEF Moves
  <1>1. \A c \in Cores : act[c] = "switch" => next[c] \in Threads
    BY DEF TypeInv, OperandsExist
  <1>2. \A c \in Cores : act[c] = "enqueue" => elem[c] \in Threads
    BY DEF TypeInv, OperandsExist
  <1>3. \A c \in Cores : \A x : In(threadList[c], x) => x \in Threads
    BY Operands DEF In
  <1>4. \A s \in Semas : \A x : In(waiters[s], x) => x \in Threads
    BY Operands DEF In
  <1>5. ASSUME NEW c \in Cores
        PROVE  cpuId'[current'[c]] = c /\ pc'[current'[c]] # "new"
    <2>1. PICK t \in Threads : t = current'[c] /\ cpuId[t] = c /\ pc[t] # "new"
      BY <1>0, <1>1, Operands DEF SwitchesToChosen, KillInv
    <2> QED
      BY <1>0, <2>1 DEF HomesStay
  <1>6. ASSUME NEW c \in Cores, act'[c] = "switch"
        PROVE  /\ cpuId'[next'[c]] = c /\ pc'[next'[c]] # "new"
               /\ next'[c] # current'[c] => status'[next'[c]] \in {"run", "terminate_ready"}
    <2>1. CASE act[c] = "switch" /\ next'[c] = next[c] /\ current'[c] = current[c]
      <3>1. PICK t \in Threads : t = next[c] /\ cpuId[t] = c /\ pc[t] # "new"
        BY <1>1, <2>1 DEF KillInv
      <3>2. cpuId'[t] = c /\ pc'[t] # "new"
        BY <1>0, <3>1 DEF HomesStay
      <3>3. ASSUME t # current[c], status'[t] \notin {"run", "terminate_ready"}
            PROVE  FALSE
        <4>1. IsRunnable(t)
          BY <2>1, <3>1, <3>3 DEF KillInv
        <4>2. PICK d \in Cores :
                /\ act[d] # "switch"
                /\ current[d] = t \/ \E s \in Semas : SemaCore[s] = d /\ In(waiters[s], t)
          BY <1>0, <3>3, <4>1 DEF StopsAtHome
        <4>3. cpuId[t] = d
          BY <4>2 DEF KillInv
        <4> QED
          BY <2>1, <3>1, <4>2, <4>3
      <3> QED
        BY <2>1, <3>1, <3>2, <3>3
    <2>2. CASE /\ In(threadList[c], next'[c])
               /\ next'[c] # current'[c] => status'[next'[c]] \in {"run", "terminate_ready"}
      <3>1. PICK t \in Threads : t = next'[c] /\ cpuId[t] = c /\ pc[t] # "new"
        BY <1>3, <2>2 DEF KillInv
      <3> QED
        BY <1>0, <2>2, <3>1 DEF HomesStay
    <2> QED
      BY <1>0, <1>6, <2>1, <2>2 DEF SwitchesToChosen
  <1>7. ASSUME NEW c \in Cores, act'[c] = "enqueue" PROVE pc'[elem'[c]] # "new"
    <2>1. PICK t \in Threads : t = elem'[c] /\ pc[t] # "new"
      BY <1>0, <1>2, <1>4, <1>7 DEF OperandsStarted, KillInv
    <2> QED
      BY <1>0, <2>1 DEF HomesStay
  <1>8. \A c \in Cores, t \in Threads :
          In(threadList'[c], t) => cpuId'[t] = c /\ pc'[t] # "new"
    BY <1>0 DEF ListsGrowAtHome, HomesStay, KillInv
  <1>9. \A s \in Semas, t \in Threads :
          In(waiters'[s], t) => cpuId'[t] = SemaCore[s] /\ pc'[t] # "new"
    BY <1>0 DEF ListsGrowAtHome, HomesStay, KillInv
  <1>10. ASSUME NEW v \in Threads, pc'[v] \in {"start_lock", "start_push"}
         PROVE  pc'[target'[v]] # "new"
    BY <1>0, <1>10, Operands DEF OperandsStarted, HomesStay, KillInv
  <1> QED
    BY <1>5, <1>6, <1>7, <1>8, <1>9, <1>10 DEF KillInv, IsRunnable, IsStarter

-----------------------------------------------------------------------------
(* Every step is of that kind *)

\* A step that leaves the lists, the current and the chosen threads alone.
LEMMA CalmMoves ==
  ASSUME UNCHANGED <<cpuId, threadList, waiters, current, next, elem>>,
         \A c \in Cores : act'[c] \in {"switch", "enqueue"} => act'[c] = act[c],
         \A t \in Threads : pc[t] # "new" => pc'[t] # "new",
         StopsAtHome,
         \A v \in Threads : pc'[v] \in {"start_lock", "start_push"} =>
           IsStarter(v) /\ target'[v] = target[v]
  PROVE  Moves
  BY DEF Moves, HomesStay, ListsGrowAtHome, SwitchesToChosen, OperandsStarted

LEMMA CalmSteps ==
  ASSUME TypeInv, KillInv, NEW c \in Cores,
         \/ Yield(c) \/ TimerInterruptHandler(c) \/ SpinYield(c) \/ TerminatePanic(c)
         \/ Delete(c) \/ SyscallEnter(c) \/ SyscallReturn(c) \/ StartLock(c)
         \/ PageFaultEnter(c) \/ PageFaultReturn(c) \/ PageFaultInvalid(c)
         \/ Terminate(c) \/ \E u \in Threads : Join(c, u)
  PROVE  Moves
  <1> DEFINE t == current[c]
  <1>1. /\ t \in Threads /\ pc[t] # "new" /\ act \in [Cores -> Act] /\ pc \in [Threads -> Pc]
        /\ status \in [Threads -> Status] /\ target \in [Threads -> Threads \cup {None}]
    BY Operands DEF TypeInv, TypeOK, KillInv
  <1>2. /\ act[c] = "run"
        /\ UNCHANGED <<cpuId, threadList, waiters, current, next, elem>>
    BY DEF Yield, TimerInterruptHandler, SpinYield, TerminatePanic, Delete, SyscallEnter,
      SyscallReturn, StartLock, PageFaultEnter, PageFaultReturn, PageFaultInvalid, Terminate,
      Join, EnterKernel, InThreadCode, InKernelAt, InUser, threadVars, queueVars, coreVars, semaVars
  <1>3. act' \in {act, [act EXCEPT ![c] = "yield"], [act EXCEPT ![c] = "panic"]}
    BY DEF Yield, TimerInterruptHandler, SpinYield, TerminatePanic, Delete, SyscallEnter,
      SyscallReturn, StartLock, PageFaultEnter, PageFaultReturn, PageFaultInvalid, Terminate,
      Join, EnterKernel, EnterYield, coreVars
  <1>4. \E v : status' = [status EXCEPT ![t] = v]
    <2>1. status' = status => status' = [status EXCEPT ![t] = status[t]]
      BY <1>1
    <2> QED
      BY <2>1 DEF Yield, TimerInterruptHandler, SpinYield, TerminatePanic, Delete, SyscallEnter,
        SyscallReturn, StartLock, PageFaultEnter, PageFaultReturn, PageFaultInvalid, Terminate,
        Join, EnterKernel, MakeTerminate, threadVars
  <1>5. \/ pc' = pc /\ target' = target
        \/ \E k \in {"exit", "exit_intr"} : pc' = [pc EXCEPT ![t] = k] /\ target' = target
        \/ pc[t] = "start_lock" /\ pc' = [pc EXCEPT ![t] = "start_push"] /\ target' = target
        \/ \E k \in {"idle", "join", "delete"} : \E u :
              pc' = [pc EXCEPT ![t] = k] /\ target' = [target EXCEPT ![t] = u]
    <2>1. CASE SyscallEnter(c) \/ PageFaultEnter(c)
      <3>1. PICK k : EnterKernel(c, k)
        BY <2>1 DEF SyscallEnter, PageFaultEnter
      <3>2. /\ pc' = [pc EXCEPT ![t] = IF status[t] = "terminate_ready" THEN "exit" ELSE @]
            /\ target' = target
        BY <3>1 DEF EnterKernel
      <3>3. CASE status[t] = "terminate_ready"
        BY <3>2, <3>3
      <3>4. CASE status[t] # "terminate_ready"
        <4>1. pc' = pc
          BY <1>1, <3>2, <3>4
        <4> QED
          BY <3>2, <4>1
      <3> QED
        BY <3>3, <3>4
    <2>2. CASE Delete(c) \/ StartLock(c) \/ \E u \in Threads : Join(c, u)
      BY <2>2 DEF Delete, StartLock, Join, InKernelAt
    <2>3. CASE \/ Yield(c) \/ TimerInterruptHandler(c) \/ SpinYield(c) \/ TerminatePanic(c)
               \/ SyscallReturn(c) \/ PageFaultReturn(c) \/ PageFaultInvalid(c) \/ Terminate(c)
      BY <2>3 DEF Yield, TimerInterruptHandler, SpinYield, TerminatePanic, SyscallReturn,
        PageFaultReturn, PageFaultInvalid, Terminate, flowVars
    <2> QED
      BY <2>1, <2>2, <2>3
  <1> HIDE DEF t
  <1>6. \A d \in Cores : act'[d] \in {"switch", "enqueue"} => act'[d] = act[d]
    BY <1>1, <1>3
  <1>7. /\ \A v \in Threads : pc[v] # "new" => pc'[v] # "new"
        /\ \A v \in Threads : pc'[v] \in {"start_lock", "start_push"} =>
             IsStarter(v) /\ target'[v] = target[v]
    BY <1>1, <1>5 DEF IsStarter
  <1>8. StopsAtHome
    BY <1>1, <1>2, <1>4 DEF StopsAtHome, IsRunnable, t
  <1> QED
    BY <1>2, <1>6, <1>7, <1>8, CalmMoves

LEMMA KillMoves ==
  ASSUME TypeInv, NEW p \in Processes, AddKeyStrokeCtrlC(p)
  PROVE  Moves
  <1>1. status \in [Threads -> Status]
    BY DEF TypeInv, TypeOK
  <1>2. UNCHANGED <<cpuId, threadList, waiters, current, next, elem, act, pc, target>>
    BY DEF AddKeyStrokeCtrlC, flowVars, queueVars, coreVars, semaVars
  <1>3. StopsAtHome
    BY <1>1 DEF AddKeyStrokeCtrlC, StopsAtHome, IsRunnable
  <1> QED
    BY <1>2, <1>3, CalmMoves DEF IsStarter

LEMMA SwitchingMoves ==
  ASSUME TypeInv, KillInv, NEW c \in Cores,
         YieldNoThread(c) \/ YieldPopNext(c) \/ YieldSwitch(c)
  PROVE  Moves
  <1>1. /\ act \in [Cores -> Act] /\ threadList \in [Cores -> Seq(Threads)]
        /\ status \in [Threads -> Status] /\ next \in [Cores -> Threads \cup {None}]
        /\ current \in [Cores -> Threads]
    BY DEF TypeInv, TypeOK
  <1>2. UNCHANGED <<cpuId, pc, target, waiters, elem>>
    BY DEF YieldNoThread, YieldPopNext, YieldSwitch, threadVars, flowVars, semaVars
  <1>3. HomesStay /\ OperandsStarted
    <2>1. \A d \in Cores : act'[d] = "enqueue" => act[d] = "enqueue"
      BY <1>1 DEF YieldNoThread, YieldPopNext, YieldSwitch
    <2> QED
      BY <1>2, <2>1 DEF HomesStay, OperandsStarted, IsStarter
  <1>4. CASE YieldNoThread(c)
    <2>1. /\ threadList' = [threadList EXCEPT ![c] = <<>>] /\ UNCHANGED <<current, next, status>>
          /\ \A d \in Cores : act'[d] = "switch" => act[d] = "switch"
      BY <1>1, <1>4 DEF YieldNoThread, threadVars
    <2>2. \A d \in Cores : \A y : In(threadList'[d], y) => In(threadList[d], y)
      BY <1>1, <2>1, InEmpty
    <2> QED
      BY <1>2, <1>3, <2>1, <2>2
      DEF Moves, ListsGrowAtHome, SwitchesToChosen, StopsAtHome, IsRunnable
  <1>5. CASE YieldPopNext(c)
    <2>1. PICK i \in 1 .. Len(threadList[c]) :
            /\ IsRunnable(threadList[c][i])
            /\ next' = [next EXCEPT ![c] = threadList[c][i]]
            /\ threadList' = [threadList EXCEPT ![c] = Popped(@, i)]
      BY <1>5 DEF YieldPopNext
    <2>2. PICK n \in Threads : n = threadList[c][i]
      BY Operands
    <2>3. In(threadList[c], n)
      BY <2>2 DEF In
    <2>4. \A y : In(Popped(threadList[c], i), y) => In(threadList[c], y)
      <3>1. /\ Len(Popped(threadList[c], i)) = Len(threadList[c]) - i
            /\ \A j \in 1 .. Len(threadList[c]) - i :
                 Popped(threadList[c], i)[j] = threadList[c][i + j]
        <4>1. threadList[c] \in Seq(Threads)
          BY <1>1
        <4> QED
          BY <4>1, PoppedPositions
      <3>2. Len(threadList[c]) \in Nat
        BY <1>1
      <3>3. \A j \in 1 .. Len(threadList[c]) - i : i + j \in 1 .. Len(threadList[c])
        BY <3>2
      <3> QED
        BY <3>1, <3>3 DEF In
    <2>5. /\ act' = [act EXCEPT ![c] = "switch"] /\ act[c] = "yield"
          /\ \A t \in Threads : t # current[c] => status'[t] = status[t]
          /\ UNCHANGED current
      BY <1>1, <1>5 DEF YieldPopNext
    <2>6. ListsGrowAtHome
      BY <1>1, <1>2, <2>1, <2>4 DEF ListsGrowAtHome
    <2>7. SwitchesToChosen
      BY <1>1, <2>1, <2>2, <2>3, <2>5 DEF SwitchesToChosen, IsRunnable
    <2>8. StopsAtHome
      BY <2>5, Operands DEF StopsAtHome, IsRunnable
    <2> QED
      BY <1>3, <2>6, <2>7, <2>8 DEF Moves
  <1>6. CASE YieldSwitch(c)
    <2>1. PICK t \in Threads : t = current[c] /\ cpuId[t] = c /\ pc[t] # "new"
      BY Operands DEF KillInv
    <2>2. /\ act[c] = "switch"
          /\ threadList' = [threadList EXCEPT
                              ![c] = IF Requeued(t) THEN Append(@, t) ELSE @]
          /\ current' = [current EXCEPT ![c] = next[c]]
          /\ next' = [next EXCEPT ![c] = None]
          /\ act' \in {[act EXCEPT ![c] = "run"], [act EXCEPT ![c] = "panic"]}
          /\ UNCHANGED status
      BY <1>6, <2>1 DEF YieldSwitch, PushedBack
    <2>3. \A y : In(Append(threadList[c], t), y) <=> In(threadList[c], y) \/ y = t
      BY <1>1, <2>1, InAppend
    <2>4. ListsGrowAtHome
      BY <1>1, <1>2, <2>1, <2>2, <2>3 DEF ListsGrowAtHome
    <2>5. SwitchesToChosen
      BY <1>1, <2>2 DEF SwitchesToChosen
    <2> QED
      BY <1>3, <2>2, <2>4, <2>5 DEF Moves, StopsAtHome, IsRunnable
  <1> QED
    BY <1>4, <1>5, <1>6

LEMMA QueueingMoves ==
  ASSUME TypeInv, KillInv, NEW c \in Cores, StartPush(c) \/ UpEnqueueThread(c)
  PROVE  Moves
  <1>1. /\ act \in [Cores -> Act] /\ threadList \in [Cores -> Seq(Threads)]
        /\ pc \in [Threads -> Pc] /\ target \in [Threads -> Threads \cup {None}]
    BY DEF TypeInv, TypeOK
  <1>2. PICK u \in Threads : PushBack(u) /\ pc[u] # "new"
    <2>1. CASE StartPush(c)
      <3>1. current[c] \in Threads /\ IsStarter(current[c])
        BY <2>1, Operands DEF StartPush, InKernelAt, IsStarter
      <3> QED
        BY <2>1, <3>1, Operands DEF StartPush, KillInv
    <2>2. CASE UpEnqueueThread(c)
      BY <2>2 DEF UpEnqueueThread, KillInv, TypeInv, OperandsExist
    <2> QED
      BY <2>1, <2>2
  <1>3. \A d \in Cores, y \in Threads :
          In(threadList'[d], y) => In(threadList[d], y) \/ (d = cpuId[u] /\ y = u)
    <2>1. threadList' = [threadList EXCEPT ![cpuId[u]] = IF inQueue[u] THEN @ ELSE Append(@, u)]
      BY <1>2 DEF PushBack, PushedBack
    <2>2. \A d \in Cores :
            threadList'[d] = threadList[d]
              \/ (d = cpuId[u] /\ threadList'[d] = Append(threadList[d], u))
      BY <1>1, <2>1
    <2>3. \A d \in Cores : \A y :
            In(Append(threadList[d], u), y) <=> In(threadList[d], y) \/ y = u
      BY <1>1, InAppend
    <2> QED
      BY <2>2, <2>3
  <1>4. /\ UNCHANGED <<status, cpuId, current, next, waiters>>
        /\ \A d \in Cores : act'[d] = act[d] \/ act'[d] = "run"
        /\ \A d \in Cores : act'[d] = "enqueue" => elem'[d] = elem[d]
        /\ \A v \in Threads :
             \/ pc'[v] = pc[v] /\ target'[v] = target[v]
             \/ pc'[v] = "idle"
    <2>1. CASE StartPush(c)
      BY <1>1, <2>1 DEF StartPush, coreVars, semaVars
    <2>2. CASE UpEnqueueThread(c)
      <3>1. /\ act' = [act EXCEPT ![c] = "run"]
            /\ elem' = [elem EXCEPT ![c] = None] /\ elem \in [Cores -> Threads \cup {None}]
            /\ UNCHANGED <<status, cpuId, current, next, waiters, pc, target>>
        BY <2>2 DEF UpEnqueueThread, flowVars, semaVars, TypeInv, TypeOK
      <3> QED
        BY <1>1, <3>1
    <2> QED
      BY <2>1, <2>2
  <1>5. HomesStay /\ SwitchesToChosen /\ StopsAtHome /\ OperandsStarted
    BY <1>4 DEF HomesStay, SwitchesToChosen, StopsAtHome, OperandsStarted, IsRunnable, IsStarter
  <1>6. ListsGrowAtHome
    BY <1>2, <1>3, <1>4 DEF ListsGrowAtHome
  <1> QED
    BY <1>5, <1>6 DEF Moves

LEMMA StartMoves ==
  ASSUME TypeInv, NEW c \in Cores, NEW u \in Threads, Start(c, u)
  PROVE  Moves
  <1> DEFINE t == current[c]
  <1>1. /\ pc \in [Threads -> Pc] /\ target \in [Threads -> Threads \cup {None}]
        /\ cpuId \in [Threads -> Nat] /\ t \in Threads
    BY Operands DEF TypeInv, TypeOK
  <1>2. PICK home :
          /\ pc[u] = "new" /\ pc[t] = "idle"
          /\ cpuId' = [cpuId EXCEPT ![u] = home]
          /\ pc' = [pc EXCEPT ![u] = "idle", ![t] = "start_lock"]
          /\ target' = [target EXCEPT ![t] = u]
          /\ UNCHANGED <<status, threadList, current, act, next, elem, waiters>>
    BY DEF Start, InThreadCode, InKernelAt, coreVars, semaVars
  <1> HIDE DEF t
  <1>3. HomesStay
    BY <1>1, <1>2 DEF HomesStay
  <1>4. OperandsStarted
    BY <1>1, <1>2 DEF OperandsStarted, IsStarter
  <1> QED
    BY <1>2, <1>3, <1>4 DEF Moves, ListsGrowAtHome, SwitchesToChosen, StopsAtHome, IsRunnable

LEMMA UpMoves ==
  ASSUME TypeInv, KillInv, NEW c \in Cores, NEW s \in Semas, Up(c, s)
  PROVE  Moves
  <1>1. /\ status \in [Threads -> Status] /\ waiters \in [Semas -> Seq(Threads)]
        /\ elem \in [Cores -> Threads \cup {None}] /\ act \in [Cores -> Act]
    BY DEF TypeInv, TypeOK
  <1>2. /\ act[c] = "run" /\ SemaCore[s] = c
        /\ UNCHANGED <<cpuId, pc, target, threadList, current, next>>
    BY DEF Up, flowVars
  <1>3. CASE waiters[s] = <<>>
    BY <1>2, <1>3, CalmMoves DEF Up, WakeFirst, StopsAtHome, IsRunnable, IsStarter
  <1>4. CASE waiters[s] # <<>>
    <2>1. PICK w \in Threads : w = Head(waiters[s]) /\ In(waiters[s], w)
      <3>1. /\ Head(waiters[s]) = waiters[s][1] /\ 1 \in 1 .. Len(waiters[s])
            /\ Head(waiters[s]) \in Threads
        BY <1>1, <1>4, TailPositions
      <3> QED
        BY <3>1 DEF In
    <2>2. \A y : In(Tail(waiters[s]), y) => In(waiters[s], y)
      <3>1. /\ Len(Tail(waiters[s])) = Len(waiters[s]) - 1 /\ Len(waiters[s]) \in Nat
            /\ \A j \in 1 .. Len(waiters[s]) - 1 : Tail(waiters[s])[j] = waiters[s][j + 1]
        BY <1>1, <1>4, TailPositions
      <3>2. \A j \in 1 .. Len(waiters[s]) - 1 : j + 1 \in 1 .. Len(waiters[s])
        BY <3>1
      <3> QED
        BY <3>1, <3>2 DEF In
    <2>3. /\ waiters' = [waiters EXCEPT ![s] = Tail(@)]
          /\ \A t \in Threads : t # w => status'[t] = status[t]
          /\ elem' = [elem EXCEPT ![c] = w]
          /\ act' = [act EXCEPT ![c] = "enqueue"]
      BY <1>1, <1>4, <2>1 DEF Up, WakeFirst
    <2>4. ListsGrowAtHome
      BY <1>1, <1>2, <2>2, <2>3 DEF ListsGrowAtHome
    <2>5. SwitchesToChosen
      BY <1>1, <1>2, <2>3 DEF SwitchesToChosen
    <2>6. StopsAtHome
      BY <1>2, <2>1, <2>3 DEF StopsAtHome, IsRunnable
    <2>7. HomesStay /\ OperandsStarted
      BY <1>1, <1>2, <2>1, <2>3 DEF HomesStay, OperandsStarted, IsStarter
    <2> QED
      BY <2>4, <2>5, <2>6, <2>7 DEF Moves
  <1> QED
    BY <1>3, <1>4

LEMMA DownMoves ==
  ASSUME TypeInv, KillInv, NEW c \in Cores, NEW s \in Semas, Down(c, s)
  PROVE  Moves
  <1>1. /\ status \in [Threads -> Status] /\ waiters \in [Semas -> Seq(Threads)]
        /\ pc \in [Threads -> Pc] /\ act \in [Cores -> Act]
    BY DEF TypeInv, TypeOK
  <1>2. PICK t \in Threads : t = current[c] /\ cpuId[t] = c /\ pc[t] # "new"
    BY Operands DEF KillInv
  <1>3. /\ act[c] = "run" /\ SemaCore[s] = c
        /\ act' \in {act, [act EXCEPT ![c] = "yield"]}
        /\ pc' \in {[pc EXCEPT ![t] = "idle"], [pc EXCEPT ![t] = "down"]}
        /\ UNCHANGED <<cpuId, target, threadList, current, next, elem>>
    BY <1>2 DEF Down, InKernelAt, EnterYield, queueVars
  <1>4. /\ waiters' \in {waiters, [waiters EXCEPT ![s] = Append(@, t)]}
        /\ \A y \in Threads : y # t => status'[y] = status[y]
    BY <1>1, <1>2 DEF Down, MakeSleep
  <1>5. \A y : In(Append(waiters[s], t), y) <=> In(waiters[s], y) \/ y = t
    BY <1>1, InAppend
  <1>6. ListsGrowAtHome
    BY <1>1, <1>2, <1>3, <1>4, <1>5 DEF ListsGrowAtHome
  <1>7. SwitchesToChosen
    BY <1>1, <1>3 DEF SwitchesToChosen
  <1>8. StopsAtHome
    BY <1>2, <1>3, <1>4 DEF StopsAtHome, IsRunnable
  <1>9. HomesStay /\ OperandsStarted
    BY <1>1, <1>3 DEF HomesStay, OperandsStarted, IsStarter
  <1> QED
    BY <1>6, <1>7, <1>8, <1>9 DEF Moves

-----------------------------------------------------------------------------
(* The theorems *)

LEMMA KillTypeInv == TypeInv /\ [KillNext]_vars => TypeInv'
  <1>1. ASSUME TypeInv, NEW p \in Processes, AddKeyStrokeCtrlC(p) PROVE TypeInv'
    <2>1. /\ status' = [status EXCEPT ![p] = "terminate_ready"]
          /\ statusBeforeSleep' = [statusBeforeSleep EXCEPT ![p] = "terminate_ready"]
          /\ UNCHANGED <<inQueue, cpuId, pc, ctx, target, wants, threadList, queueLock,
                         numThreads, core, current, act, next, elem, cnt, waiters, freed>>
      BY <1>1 DEF AddKeyStrokeCtrlC, flowVars, queueVars, coreVars, semaVars
    <2>2. TypeOK'
      BY <1>1, <2>1 DEF TypeInv, TypeOK, Status
    <2>3. OperandsExist'
      BY <1>1, <2>1 DEF TypeInv, TypeOK, OperandsExist, Status
    <2> QED
      BY <2>2, <2>3 DEF TypeInv
  <1> QED
    BY <1>1, NextTypeInv DEF KillNext

LEMMA InitKill == Init => KillInv
  <1> SUFFICES ASSUME Init PROVE KillInv
    OBVIOUS
  <1>1. PlaceInv
    BY InitPlace
  <1>2. /\ \A c \in Cores : act[c] = "run"
        /\ \A s \in Semas, t \in Threads : ~In(waiters[s], t)
        /\ \A t \in Threads : ~IsStarter(t)
    BY InEmpty DEF Init, IsStarter
  <1> QED
    BY <1>1, <1>2 DEF PlaceInv, Homes, Marks, CanRun, Running, KillInv

LEMMA NextKill == TypeInv /\ KillInv /\ [KillNext]_vars => KillInv'
  <1> SUFFICES ASSUME TypeInv, KillInv, [KillNext]_vars PROVE KillInv'
    OBVIOUS
  <1>1. CASE UNCHANGED vars
    BY <1>1 DEF vars, threadVars, flowVars, queueVars, coreVars, semaVars, KillInv, IsStarter,
      IsRunnable
  <1>2. KillNext => Moves
    BY KillMoves, CalmSteps, SwitchingMoves, QueueingMoves, StartMoves, UpMoves, DownMoves
    DEF KillNext, Next, KernelStep
  <1> QED
    BY <1>1, <1>2, MovesKill

LEMMA SpecKill == KillSpec => [](TypeInv /\ KillInv)
  <1>1. Init => TypeInv /\ KillInv
    BY InitTypeInv, InitKill
  <1>2. TypeInv /\ KillInv /\ [KillNext]_vars => TypeInv' /\ KillInv'
    BY KillTypeInv, NextKill
  <1> QED
    BY <1>1, <1>2, PTL DEF KillSpec

\* Whenever and however often processes are killed, a core only ever switches
\* to a thread that can run: YieldInInterruptHandler looks at the chosen thread
\* before the switch, and nobody can end it or put it to sleep in between.
THEOREM SwitchesToRunnable == KillSpec => EndedStaysOff
  <1>1. TypeInv /\ KillInv /\ [KillNext]_vars =>
          [\A c \in Cores : current'[c] # current[c] =>
             status[current'[c]] \notin {"terminate", "sleep"}]_vars
    <2> SUFFICES ASSUME TypeInv, KillInv, KillNext, NEW c \in Cores, current'[c] # current[c]
                 PROVE  status[current'[c]] \notin {"terminate", "sleep"}
      OBVIOUS
    <2>1. Moves
      BY KillMoves, CalmSteps, SwitchingMoves, QueueingMoves, StartMoves, UpMoves, DownMoves
      DEF KillNext, Next, KernelStep
    <2>2. act[c] = "switch" /\ current'[c] = next[c]
      BY <2>1 DEF Moves, SwitchesToChosen
    <2> QED
      BY <2>2 DEF KillInv, IsRunnable
  <1> QED
    BY <1>1, SpecKill, PTL DEF KillSpec, EndedStaysOff

-----------------------------------------------------------------------------
(***************************************************************************)
(* Kills of threads that are awake.  OnePlace is false of KillSpec only    *)
(* because of a kill that makes a sleeping thread runnable while it is in  *)
(* the list of a semaphore.  AwakeInv is what remains of PlaceInv: it says *)
(* next to nothing of status_, because a killed thread may be marked       *)
(* wherever it is, and stay in user mode or in a queue after it has been   *)
(* terminated.  The marks in_queue_ are enough to keep it in one place.    *)
(***************************************************************************)

\* Who is in a queue or chosen is marked, and has been started.
Marked ==
  /\ \A c \in Cores, t \in Threads : In(threadList[c], t) => inQueue[t] /\ pc[t] # "new"
  /\ \A c \in Cores : next[c] # None => inQueue[next[c]] /\ pc[next[c]] # "new"

\* Who runs, is being woken or has not been started is not marked.
Unmarked ==
  /\ \A c \in Cores : ~inQueue[current[c]] /\ pc[current[c]] # "new"
  /\ \A c \in Cores : elem[c] # None => pc[elem[c]] # "new"
  /\ \A t \in Threads : pc[t] = "new" => ~inQueue[t]

\* A thread being started has one starter and is in no other place.
Begun ==
  /\ \A v \in Threads : IsStarter(v) =>
       LET u == target[v]
       IN  /\ pc[u] = "idle" /\ ~inQueue[u]
           /\ \A c \in Cores : current[c] # u /\ elem[c] # u
  /\ \A v, w \in Threads :
       IsStarter(v) /\ IsStarter(w) /\ target[v] = target[w] => v = w

\* A waiting thread sleeps inside Down, in no other place but on the core that is
\* about to leave it.
Aside ==
  \A s \in Semas, t \in Threads : In(waiters[s], t) =>
    /\ status[t] = "sleep" /\ pc[t] = "down" /\ wants[t] = s
    /\ ~inQueue[t]
    /\ \A c \in Cores : elem[c] # t /\ (current[c] = t => act[c] \in {"yield", "switch"})

\* The init thread can always run, so that the queue of a core whose thread goes
\* to sleep is not empty.
MainThere ==
  \A c \in Cores :
    /\ cpuId[Main[c]] = c
    /\ status[Main[c]] = "run"
    /\ In(threadList[c], Main[c]) \/ next[c] = Main[c] \/ current[c] = Main[c]

AwakeInv ==
  /\ StepOperands
  /\ Homes
  /\ ListsExact
  /\ Marked
  /\ Unmarked
  /\ OutOfQueue
  /\ Woken
  /\ Begun
  /\ Aside
  /\ MainThere
  /\ PushHome

\* A step that moves no thread: at most the current one of a core is in another
\* operation, and whoever waits goes on sleeping.
Quiet ==
  /\ UNCHANGED <<inQueue, cpuId, wants, threadList, current, next, elem, waiters>>
  /\ \A d \in Cores :
       act'[d] = act[d] \/ (act[d] = "run" /\ act'[d] \in {"yield", "panic"})
  /\ \A t \in Threads :
       \/ pc'[t] = pc[t] /\ target'[t] = target[t]
       \/ /\ \E d \in Cores : current[d] = t /\ act[d] = "run"
          /\ pc'[t] \notin {"new", "start_lock", "start_push"}
  /\ \A s \in Semas, t \in Threads : In(waiters[s], t) => status'[t] = status[t]
  /\ \A d \in Cores : status[Main[d]] = "run" => status'[Main[d]] = "run"

LEMMA QuietAwake == TypeInv /\ AwakeInv /\ Quiet => AwakeInv'
  <1> SUFFICES ASSUME TypeInv, AwakeInv, Quiet PROVE AwakeInv'
    OBVIOUS
  <1>0. /\ StepOperands /\ Homes /\ ListsExact /\ Marked /\ Unmarked /\ OutOfQueue
        /\ Woken /\ Begun /\ Aside /\ MainThere /\ PushHome
    BY DEF AwakeInv
  <1>1. UNCHANGED <<inQueue, cpuId, wants, threadList, current, next, elem, waiters>>
    BY DEF Quiet
  <1>2. \A d \in Cores :
          act'[d] = act[d] \/ (act[d] = "run" /\ act'[d] \in {"yield", "panic"})
    BY DEF Quiet
  <1>3. \A t \in Threads :
          \/ pc'[t] = pc[t] /\ target'[t] = target[t]
          \/ /\ \E d \in Cores : current[d] = t /\ act[d] = "run"
             /\ pc'[t] \notin {"new", "start_lock", "start_push"}
    BY DEF Quiet
  <1>4. \A v \in Threads : IsStarter(v)' => IsStarter(v) /\ target'[v] = target[v] /\ pc'[v] = pc[v]
    BY <1>3 DEF IsStarter
  <1>5. \A t \in Threads : pc'[t] = "new" <=> pc[t] = "new"
    BY <1>0, <1>3 DEF Unmarked
  <1>6. StepOperands'
    BY <1>0, <1>1, <1>2 DEF StepOperands
  <1>7. Homes' /\ ListsExact' /\ OutOfQueue' /\ Woken'
    BY <1>0, <1>1 DEF Homes, ListsExact, OutOfQueue, Woken
  <1>8. Marked' /\ Unmarked'
    BY <1>0, <1>1, <1>5, Operands DEF Marked, Unmarked
  <1>9. Begun'
    <2>1. ASSUME NEW v \in Threads, IsStarter(v)'
          PROVE  LET u == target'[v]
                 IN  /\ pc'[u] = "idle" /\ ~inQueue'[u]
                     /\ \A c \in Cores : current'[c] # u /\ elem'[c] # u
      <3>1. IsStarter(v) /\ target'[v] = target[v] /\ target[v] \in Threads
        BY <1>4, <2>1, Operands
      <3>2. /\ pc[target[v]] = "idle" /\ ~inQueue[target[v]]
            /\ \A c \in Cores : current[c] # target[v] /\ elem[c] # target[v]
        BY <1>0, <3>1 DEF Begun
      <3>3. pc'[target[v]] = pc[target[v]]
        BY <1>3, <3>1, <3>2
      <3> QED
        BY <1>1, <3>1, <3>2, <3>3
    <2>2. \A v, w \in Threads :
            IsStarter(v)' /\ IsStarter(w)' /\ target'[v] = target'[w] => v = w
      BY <1>0, <1>4 DEF Begun
    <2> QED
      BY <2>1, <2>2 DEF Begun
  <1>10. Aside'
    <2> SUFFICES ASSUME NEW s \in Semas, NEW t \in Threads, In(waiters'[s], t)
                 PROVE  /\ status'[t] = "sleep" /\ pc'[t] = "down" /\ wants'[t] = s
                        /\ ~inQueue'[t]
                        /\ \A c \in Cores :
                             elem'[c] # t /\ (current'[c] = t => act'[c] \in {"yield", "switch"})
      BY DEF Aside
    <2>1. /\ status[t] = "sleep" /\ pc[t] = "down" /\ wants[t] = s /\ ~inQueue[t]
          /\ \A c \in Cores : elem[c] # t /\ (current[c] = t => act[c] \in {"yield", "switch"})
      BY <1>0, <1>1 DEF Aside
    <2>2. status'[t] = "sleep"
      BY <1>1, <2>1 DEF Quiet
    <2>3. pc'[t] = "down"
      BY <1>3, <2>1
    <2> QED
      BY <1>1, <1>2, <2>1, <2>2, <2>3
  <1>11. MainThere'
    BY <1>0, <1>1 DEF MainThere, Quiet
  <1>12. PushHome'
    BY <1>0, <1>1, <1>4 DEF PushHome, IsStarter
  <1> QED
    BY <1>6, <1>7, <1>8, <1>9, <1>10, <1>11, <1>12 DEF AwakeInv

\* The steps of this kind: all that happens to the current thread of a core but
\* for the switch, the semaphores and the starts.
LEMMA QuietSteps ==
  ASSUME TypeInv, AwakeInv, NEW c \in Cores,
         \/ Yield(c) \/ TimerInterruptHandler(c) \/ SpinYield(c)
         \/ Terminate(c) \/ TerminatePanic(c) \/ Delete(c)
         \/ SyscallEnter(c) \/ SyscallReturn(c)
         \/ PageFaultEnter(c) \/ PageFaultReturn(c) \/ PageFaultInvalid(c)
         \/ \E u \in Threads : Join(c, u)
  PROVE  Quiet
  <1> DEFINE t == current[c]
  <1>1. t \in Threads
    BY Operands
  <1>2. /\ status \in [Threads -> Status] /\ pc \in [Threads -> Pc]
        /\ target \in [Threads -> Threads \cup {None}] /\ act \in [Cores -> Act]
    BY DEF TypeInv, TypeOK
  <1> DEFINE Steps(k) ==
               /\ act[c] = "run"
               /\ UNCHANGED <<inQueue, cpuId, wants, threadList, current, next, elem, waiters>>
               /\ act' \in {act, [act EXCEPT ![c] = "yield"], [act EXCEPT ![c] = "panic"]}
               /\ status' = [status EXCEPT ![t] = k]
               /\ k = "terminate" => \A d \in Cores : t # Main[d]
               /\ \/ UNCHANGED <<pc, target>>
                  \/ /\ \E p \in {"idle", "join", "delete", "exit", "exit_intr"} :
                          pc' = [pc EXCEPT ![t] = p]
                     /\ \E u : target' = [target EXCEPT ![t] = u]
  <1>3. ASSUME NEW k, k \in {status[t], "terminate"}, Steps(k)
        PROVE  Quiet
    <2>1. \A d \in Cores : act'[d] = act[d] \/ (act[d] = "run" /\ act'[d] \in {"yield", "panic"})
      BY <1>2, <1>3
    <2>2. /\ \A y \in Threads : y # t => status'[y] = status[y]
          /\ status'[t] = k
      BY <1>1, <1>2, <1>3
    <2>3. \A y \in Threads :
            \/ pc'[y] = pc[y] /\ target'[y] = target[y]
            \/ y = t /\ pc'[y] \in {"idle", "join", "delete", "exit", "exit_intr"}
      BY <1>1, <1>2, <1>3
    <2>4. \A s \in Semas : ~In(waiters[s], t)
      BY <1>1, <1>3 DEF AwakeInv, Aside
    <2>5. \A s \in Semas, y \in Threads : In(waiters[s], y) => status'[y] = status[y]
      BY <2>2, <2>4
    <2>6. \A d \in Cores : status[Main[d]] = "run" => status'[Main[d]] = "run"
      BY <1>3, <2>2, Operands
    <2>7. \A y \in Threads :
            \/ pc'[y] = pc[y] /\ target'[y] = target[y]
            \/ /\ \E d \in Cores : current[d] = y /\ act[d] = "run"
               /\ pc'[y] \notin {"new", "start_lock", "start_push"}
      BY <1>3, <2>3
    <2> QED
      BY <1>3, <2>1, <2>5, <2>6, <2>7 DEF Quiet
  <1>4. /\ [status EXCEPT ![t] = status[t]] = status
        /\ [pc EXCEPT ![t] = pc[t]] = pc
        /\ [target EXCEPT ![t] = target[t]] = target
        /\ status[t] = "terminate" => \A d \in Cores : t # Main[d]
    BY <1>1, <1>2 DEF AwakeInv, MainThere
  <1>5. CASE \/ Yield(c) \/ TimerInterruptHandler(c) \/ SpinYield(c) \/ TerminatePanic(c)
             \/ PageFaultReturn(c)
    <2>1. Steps(status[t])
      BY <1>4, <1>5 DEF Yield, TimerInterruptHandler, SpinYield, TerminatePanic, PageFaultReturn,
        EnterYield, InKernelAt, threadVars, flowVars, queueVars, coreVars, semaVars
    <2> QED
      BY <1>3, <2>1
  <1>6. CASE Delete(c)
    <2>1. Steps(status[t])
      BY <1>4, <1>6 DEF Delete, InKernelAt, threadVars, queueVars, coreVars, semaVars
    <2> QED
      BY <1>3, <2>1
  <1>7. ASSUME NEW u \in Threads, Join(c, u) PROVE Quiet
    <2>1. act[c] = "run"
      BY <1>7 DEF Join, InThreadCode, InKernelAt
    <2>2. \E p \in {"delete", "join"} : pc' = [pc EXCEPT ![t] = p]
      BY <1>7 DEF Join
    <2>3. Steps(status[t])
      BY <1>4, <1>7, <2>1, <2>2 DEF Join, EnterYield, threadVars, queueVars, semaVars
    <2> QED
      BY <1>3, <2>3
  <1>8. CASE Terminate(c)
    <2>1. Steps("terminate")
      BY <1>4, <1>8 DEF Terminate, InThreadCode, InKernelAt, MakeTerminate, EnterYield,
        queueVars, semaVars
    <2> QED
      BY <1>3, <2>1
  <1>9. CASE PageFaultInvalid(c)
    <2>1. t \in Faulty /\ \A d \in Cores : t # Main[d]
      BY <1>9, BootAssumption, ConstantsAssumption DEF PageFaultInvalid
    <2>2. act[c] = "run"
      BY <1>9 DEF PageFaultInvalid, InUser, InKernelAt
    <2>3. Steps("terminate")
      BY <1>4, <1>9, <2>1, <2>2 DEF PageFaultInvalid, MakeTerminate, EnterYield, queueVars, semaVars
    <2> QED
      BY <1>3, <2>3
  <1>10. TerminateIfReady(t) \in {status[t], "terminate"}
         /\ (TerminateIfReady(t) = "terminate" => \A d \in Cores : t # Main[d])
    BY DEF TerminateIfReady, AwakeInv, MainThere
  <1>11. CASE SyscallReturn(c)
    <2>1. Steps(TerminateIfReady(t))
      BY <1>4, <1>10, <1>11 DEF SyscallReturn, InKernelAt, queueVars, coreVars, semaVars
    <2> QED
      BY <1>3, <1>10, <2>1
  <1>12. ASSUME NEW k, EnterKernel(c, k), act[c] = "run" PROVE Quiet
    <2>1. act' \in {act, [act EXCEPT ![c] = "yield"]}
      BY <1>12 DEF EnterKernel, EnterYield
    <2>2. pc' = pc \/ pc' = [pc EXCEPT ![t] = "exit"]
      BY <1>4, <1>12 DEF EnterKernel
    <2>3. Steps(TerminateIfReady(t))
      BY <1>4, <1>10, <1>12, <2>1, <2>2 DEF EnterKernel, queueVars, semaVars
    <2> QED
      BY <1>3, <1>10, <2>3
  <1>13. CASE SyscallEnter(c) \/ PageFaultEnter(c)
    BY <1>12, <1>13 DEF SyscallEnter, PageFaultEnter, InUser, InKernelAt
  <1> QED
    BY <1>5, <1>6, <1>7, <1>8, <1>9, <1>11, <1>13

\* A kill moves nobody, and by assumption it wakes nobody who waits.
LEMMA KillQuiet ==
  ASSUME TypeInv, AwakeInv, NEW p \in Processes, AddKeyStrokeCtrlC(p), status[p] # "sleep"
  PROVE  Quiet
  <1>1. /\ status' = [status EXCEPT ![p] = "terminate_ready"]
        /\ UNCHANGED <<inQueue, cpuId, wants, threadList, current, next, elem, waiters, pc,
                       target, act>>
    BY DEF AddKeyStrokeCtrlC, flowVars, queueVars, coreVars, semaVars
  <1>2. status \in [Threads -> Status]
    BY DEF TypeInv, TypeOK
  <1>3. \A y \in Threads : y # p => status'[y] = status[y]
    BY <1>1, <1>2
  <1>4. \A s \in Semas, y \in Threads : In(waiters[s], y) => status'[y] = status[y]
    BY <1>3 DEF AwakeInv, Aside
  <1>5. \A d \in Cores : status'[Main[d]] = status[Main[d]]
    BY <1>3, Operands, BootAssumption
  <1> QED
    BY <1>1, <1>4, <1>5 DEF Quiet

\* What is left of a queue after i pops.
LEMMA InPoppedMany ==
  ASSUME NEW S, NEW q \in Seq(S), NEW i \in 1 .. Len(q), NoRepeats(q)
  PROVE  /\ \A y : In(Popped(q, i), y) => In(q, y) /\ \A j \in 1 .. i : y # q[j]
         /\ \A y : In(q, y) => In(Popped(q, i), y) \/ \E j \in 1 .. i : y = q[j]
         /\ NoRepeats(Popped(q, i))
         /\ In(q, q[i])
  <1> DEFINE r == Popped(q, i)
  <1>1. /\ Len(q) \in Nat /\ i \in Nat /\ Len(r) = Len(q) - i
        /\ \A j \in 1 .. Len(q) - i : r[j] = q[i + j]
    <2>1. Len(q) \in Nat /\ i \in Nat
      OBVIOUS
    <2> QED
      BY <2>1, PoppedPositions
  <1> HIDE DEF r
  <1>2. \A j \in 1 .. Len(r) : i + j \in 1 .. Len(q) /\ i + j > i /\ r[j] = q[i + j]
    BY <1>1
  <1>3. \A k \in 1 .. Len(q) : k \in 1 .. i \/ (k - i \in 1 .. Len(r) /\ r[k - i] = q[k])
    <2>1. \A k \in 1 .. Len(q) : k > i => k - i \in 1 .. Len(q) - i /\ i + (k - i) = k
      BY <1>1
    <2> QED
      BY <1>1, <2>1
  <1>4. \A j \in 1 .. i, k \in 1 .. Len(q) : q[j] = q[k] => k <= i
    <2>1. \A j \in 1 .. i : j \in 1 .. Len(q) /\ j <= i
      BY <1>1
    <2> QED
      BY <2>1 DEF NoRepeats
  <1>5. \A y : In(r, y) => In(q, y) /\ \A j \in 1 .. i : y # q[j]
    <2> SUFFICES ASSUME NEW k \in 1 .. Len(r)
                 PROVE  In(q, r[k]) /\ \A j \in 1 .. i : r[k] # q[j]
      BY DEF In
    <2>1. i + k \in 1 .. Len(q) /\ ~(i + k <= i) /\ r[k] = q[i + k]
      BY <1>1, <1>2
    <2> QED
      BY <1>4, <2>1 DEF In
  <1>6. \A y : In(q, y) => In(r, y) \/ \E j \in 1 .. i : y = q[j]
    BY <1>3 DEF In
  <1>7. NoRepeats(r)
    <2> SUFFICES ASSUME NEW j \in 1 .. Len(r), NEW k \in 1 .. Len(r), r[j] = r[k]
                 PROVE  j = k
      BY DEF NoRepeats
    <2>1. i + j = i + k
      BY <1>2 DEF NoRepeats
    <2> QED
      BY <1>1, <2>1
  <1>8. In(q, q[i])
    BY DEF In
  <1> QED
    BY <1>5, <1>6, <1>7, <1>8 DEF r

\* No thread is found: then the current one is the init thread, which does not sleep.
LEMMA NoThreadAwake ==
  ASSUME TypeInv, AwakeInv, NEW c \in Cores, YieldNoThread(c)
  PROVE  AwakeInv'
  <1>0. /\ StepOperands /\ Homes /\ ListsExact /\ Marked /\ Unmarked /\ OutOfQueue
        /\ Woken /\ Begun /\ Aside /\ MainThere /\ PushHome
    BY DEF AwakeInv
  <1>1. act \in [Cores -> Act] /\ threadList \in [Cores -> Seq(Threads)]
    BY DEF TypeInv, TypeOK
  <1>2. /\ act[c] = "yield"
        /\ threadList' = [threadList EXCEPT ![c] = <<>>]
        /\ act' \in {[act EXCEPT ![c] = "run"], [act EXCEPT ![c] = "panic"]}
        /\ UNCHANGED <<status, inQueue, cpuId, pc, target, wants, current, next, elem, waiters>>
    BY DEF YieldNoThread, threadVars, flowVars, semaVars
  <1>3. current[c] = Main[c] /\ status[current[c]] = "run"
    <2>1. next[c] # Main[c]
      BY <1>0, <1>2, Operands DEF StepOperands
    <2>2. ~In(threadList[c], Main[c])
      BY <1>0 DEF YieldNoThread, IsRunnable, In, MainThere
    <2> QED
      BY <1>0, <2>1, <2>2 DEF MainThere
  <1>4. \A d \in Cores :
          /\ threadList'[d] = IF d = c THEN <<>> ELSE threadList[d]
          /\ d # c => act'[d] = act[d]
          /\ act'[c] \in {"run", "panic"}
    BY <1>1, <1>2
  <1>5. \A d \in Cores, y \in Threads : In(threadList'[d], y) => In(threadList[d], y) /\ d # c
    BY <1>4, InEmpty
  <1>6. StepOperands'
    BY <1>0, <1>2, <1>4 DEF StepOperands
  <1>7. Homes' /\ OutOfQueue'
    BY <1>0, <1>2, <1>5, Operands DEF Homes, OutOfQueue
  <1>8. ListsExact'
    <2>1. NoRepeats(<<>>)
      BY DEF NoRepeats
    <2> QED
      BY <1>0, <1>2, <1>4, <2>1 DEF ListsExact
  <1>9. Marked' /\ Unmarked' /\ Woken'
    BY <1>0, <1>2, <1>5 DEF Marked, Unmarked, Woken
  <1>10. Begun' /\ PushHome'
    BY <1>0, <1>2 DEF Begun, PushHome, IsStarter
  <1>11. Aside'
    BY <1>0, <1>2, <1>3, <1>4 DEF Aside
  <1>12. MainThere'
    <2>1. \A d \in Cores : d # c => threadList'[d] = threadList[d]
      BY <1>4
    <2> QED
      BY <1>0, <1>2, <1>3, <2>1 DEF MainThere
  <1> QED
    BY <1>6, <1>7, <1>8, <1>9, <1>10, <1>11, <1>12 DEF AwakeInv

\* The first thread that can run is chosen; those before it are in no place any more.
LEMMA PopNextAwake ==
  ASSUME TypeInv, AwakeInv, NEW c \in Cores, YieldPopNext(c)
  PROVE  AwakeInv'
  <1>0. /\ StepOperands /\ Homes /\ ListsExact /\ Marked /\ Unmarked /\ OutOfQueue
        /\ Woken /\ Begun /\ Aside /\ MainThere /\ PushHome
    BY DEF AwakeInv
  <1>1. /\ act \in [Cores -> Act] /\ threadList \in [Cores -> Seq(Threads)]
        /\ status \in [Threads -> Status] /\ next \in [Cores -> Threads \cup {None}]
    BY DEF TypeInv, TypeOK
  <1>2. PICK i \in 1 .. Len(threadList[c]) :
          /\ \A j \in 1 .. i - 1 : ~IsRunnable(threadList[c][j])
          /\ next' = [next EXCEPT ![c] = threadList[c][i]]
          /\ threadList' = [threadList EXCEPT ![c] = Popped(@, i)]
    BY DEF YieldPopNext
  <1> DEFINE n == threadList[c][i]
             q == Popped(threadList[c], i)
  <1>3. /\ \A y : In(q, y) => In(threadList[c], y) /\ y # n
        /\ \A y : In(threadList[c], y) => In(q, y) \/ \E j \in 1 .. i : y = threadList[c][j]
        /\ NoRepeats(q)
        /\ In(threadList[c], n)
    <2>1. i \in 1 .. i
      BY <1>1
    <2> QED
      BY <1>0, <1>1, <2>1, InPoppedMany DEF ListsExact
  <1>4. In(threadList[c], Main[c]) => In(q, Main[c]) \/ Main[c] = n
    <2>1. IsRunnable(Main[c])
      BY <1>0 DEF MainThere, IsRunnable
    <2>2. \A j \in 1 .. i : j = i \/ j \in 1 .. i - 1
      BY <1>1
    <2> QED
      BY <1>2, <1>3, <2>1, <2>2
  <1>5. /\ n \in Threads /\ n # None
        /\ next' = [next EXCEPT ![c] = n]
        /\ threadList' = [threadList EXCEPT ![c] = q]
    BY <1>1, <1>2, Operands
  <1> HIDE DEF n, q
  <1>6. /\ act[c] = "yield" /\ act' = [act EXCEPT ![c] = "switch"]
        /\ UNCHANGED <<inQueue, cpuId, pc, target, wants, current, elem, waiters>>
    BY DEF YieldPopNext, flowVars, semaVars
  <1>7. \A y \in Threads : status[y] \in {"run", "sleep"} => status'[y] = status[y]
    BY <1>1, Operands DEF YieldPopNext, TerminateIfReady
  <1>8. \A d \in Cores :
          /\ next'[d] = IF d = c THEN n ELSE next[d]
          /\ threadList'[d] = IF d = c THEN q ELSE threadList[d]
          /\ act'[d] = IF d = c THEN "switch" ELSE act[d]
    BY <1>1, <1>5, <1>6
  <1>9. \A d \in Cores, y \in Threads :
          In(threadList'[d], y) => In(threadList[d], y) /\ (d = c => y # n)
    BY <1>3, <1>8
  <1>10. StepOperands'
    BY <1>0, <1>5, <1>6, <1>8 DEF StepOperands
  <1>11. Homes' /\ Marked' /\ OutOfQueue'
    BY <1>0, <1>3, <1>5, <1>6, <1>8, <1>9, Operands DEF Homes, Marked, OutOfQueue
  <1>12. ListsExact'
    BY <1>0, <1>3, <1>6, <1>8 DEF ListsExact
  <1>13. Unmarked' /\ Woken' /\ Begun' /\ PushHome'
    BY <1>0, <1>6 DEF Unmarked, Woken, Begun, PushHome, IsStarter
  <1>14. Aside'
    BY <1>0, <1>6, <1>7, <1>8 DEF Aside
  <1>15. MainThere'
    <2>1. \A d \in Cores : cpuId'[Main[d]] = d /\ status'[Main[d]] = "run"
      BY <1>0, <1>6, <1>7, Operands DEF MainThere
    <2>2. ASSUME NEW d \in Cores
          PROVE  In(threadList'[d], Main[d]) \/ next'[d] = Main[d] \/ current'[d] = Main[d]
      <3>1. CASE d = c
        <4>1. next[c] # Main[c]
          BY <1>0, <1>6, Operands DEF StepOperands
        <4> QED
          BY <1>0, <1>4, <1>6, <1>8, <3>1, <4>1 DEF MainThere
      <3>2. CASE d # c
        BY <1>0, <1>6, <1>8, <3>2 DEF MainThere
      <3> QED
        BY <3>1, <3>2
    <2> QED
      BY <2>1, <2>2 DEF MainThere
  <1> QED
    BY <1>10, <1>11, <1>12, <1>13, <1>14, <1>15 DEF AwakeInv

\* The core leaves its thread for the chosen one, and queues it if it can run:
\* a sleeping one is in a semaphore's list, and cannot.
LEMMA SwitchAwake ==
  ASSUME TypeInv, AwakeInv, NEW c \in Cores, YieldSwitch(c)
  PROVE  AwakeInv'
  <1> DEFINE t == current[c]
             n == next[c]
             r == IsRunnable(t)
             q == IF r THEN Append(threadList[c], t) ELSE threadList[c]
  <1>0. /\ StepOperands /\ Homes /\ ListsExact /\ Marked /\ Unmarked /\ OutOfQueue
        /\ Woken /\ Begun /\ Aside /\ MainThere /\ PushHome
    BY DEF AwakeInv
  <1>1. /\ act \in [Cores -> Act] /\ threadList \in [Cores -> Seq(Threads)]
        /\ inQueue \in [Threads -> BOOLEAN] /\ next \in [Cores -> Threads \cup {None}]
        /\ current \in [Cores -> Threads]
    BY DEF TypeInv, TypeOK
  <1>2. /\ t \in Threads /\ n \in Threads /\ n # None /\ act[c] = "switch" /\ elem[c] = None
        /\ inQueue[n] /\ ~inQueue[t] /\ n # t /\ cpuId[t] = c /\ cpuId[n] = c
        /\ pc[n] # "new" /\ pc[t] # "new" /\ ~In(threadList[c], n)
    BY <1>0, Operands DEF YieldSwitch, StepOperands, Marked, Unmarked, Homes, OutOfQueue
  <1>3. /\ threadList' = [threadList EXCEPT ![c] = q]
        /\ inQueue' = [inQueue EXCEPT ![t] = r, ![n] = FALSE]
        /\ current' = [current EXCEPT ![c] = n]
        /\ next' = [next EXCEPT ![c] = None]
        /\ act' \in {[act EXCEPT ![c] = "run"], [act EXCEPT ![c] = "panic"]}
        /\ UNCHANGED <<status, cpuId, pc, target, wants, elem, waiters>>
    <2>1. Requeued(t) = r
      BY <1>2 DEF Requeued, IsRunnable
    <2>2. /\ threadList' = [threadList EXCEPT ![c] = IF Requeued(t) THEN Append(@, t) ELSE @]
          /\ inQueue' = [inQueue EXCEPT ![t] = Requeued(t), ![n] = FALSE]
      BY DEF YieldSwitch, QueueMarks, PushedBack
    <2>3. threadList' = [threadList EXCEPT ![c] = q]
      BY <2>1, <2>2
    <2>4. /\ current' = [current EXCEPT ![c] = n]
          /\ next' = [next EXCEPT ![c] = None]
          /\ act' \in {[act EXCEPT ![c] = "run"], [act EXCEPT ![c] = "panic"]}
          /\ UNCHANGED <<status, cpuId, pc, target, wants, elem, waiters>>
      BY DEF YieldSwitch, flowVars, semaVars
    <2> QED
      BY <2>1, <2>2, <2>3, <2>4
  <1>4. /\ \A y : In(q, y) <=> In(threadList[c], y) \/ (y = t /\ r)
        /\ NoRepeats(q)
    <2>1. ~In(threadList[c], t)
      BY <1>0, <1>2 DEF Marked
    <2> QED
      BY <1>0, <1>1, <1>2, <2>1, InAppend DEF ListsExact
  <1>5. /\ \A s \in Semas : In(waiters[s], t) => ~r
        /\ t = Main[c] => r
    BY <1>0, <1>2 DEF Aside, MainThere, IsRunnable
  <1>6. t = current[c] /\ n = next[c] /\ r \in BOOLEAN
    BY DEF IsRunnable
  <1> HIDE DEF t, n, r, q
  <1>7. \A d \in Cores, y \in Threads :
          In(threadList'[d], y) <=> In(threadList[d], y) \/ (d = c /\ y = t /\ r)
    BY <1>1, <1>3, <1>4
  <1>8. \A y \in Threads :
          inQueue'[y] <=> IF y = n THEN FALSE ELSE IF y = t THEN r ELSE inQueue[y]
    BY <1>1, <1>2, <1>3, <1>6
  <1>9. \A d \in Cores :
          /\ current'[d] = IF d = c THEN n ELSE current[d]
          /\ next'[d] = IF d = c THEN None ELSE next[d]
          /\ d # c => act'[d] = act[d]
          /\ act'[c] \in {"run", "panic"}
    BY <1>1, <1>3
  <1>10. UNCHANGED <<status, cpuId, pc, target, wants, elem, waiters>>
    BY <1>3
  <1>11. StepOperands'
    BY <1>0, <1>2, <1>9, <1>10 DEF StepOperands
  <1>12. Homes'
    BY <1>0, <1>2, <1>7, <1>9, <1>10 DEF Homes
  <1>13. ListsExact'
    BY <1>0, <1>1, <1>3, <1>4 DEF ListsExact
  <1>14. Marked'
    <2>1. \A d \in Cores, y \in Threads : In(threadList'[d], y) => inQueue'[y] /\ pc'[y] # "new"
      BY <1>0, <1>2, <1>7, <1>8, <1>10 DEF Marked, Homes
    <2>2. \A d \in Cores : next'[d] # None => inQueue'[next'[d]] /\ pc'[next'[d]] # "new"
      <3> SUFFICES ASSUME NEW d \in Cores, next'[d] # None
                   PROVE  inQueue'[next'[d]] /\ pc'[next'[d]] # "new"
        OBVIOUS
      <3>1. d # c /\ next'[d] = next[d] /\ next[d] \in Threads
        BY <1>9, Operands
      <3>2. cpuId[next[d]] = d /\ inQueue[next[d]] /\ pc[next[d]] # "new"
        BY <1>0, <1>9, <3>1 DEF Homes, Marked
      <3> QED
        BY <1>2, <1>8, <1>10, <3>1, <3>2
    <2> QED
      BY <2>1, <2>2 DEF Marked
  <1>15. Unmarked'
    <2>1. \A d \in Cores : ~inQueue'[current'[d]] /\ pc'[current'[d]] # "new"
      BY <1>0, <1>2, <1>8, <1>9, <1>10, Operands DEF Unmarked, Homes
    <2>2. \A y \in Threads : pc'[y] = "new" => ~inQueue'[y]
      BY <1>0, <1>2, <1>8, <1>10 DEF Unmarked
    <2> QED
      BY <1>0, <1>10, <2>1, <2>2 DEF Unmarked
  <1>16. OutOfQueue'
    BY <1>0, <1>2, <1>7, <1>9, Operands DEF OutOfQueue, Homes
  <1>17. Woken'
    BY <1>0, <1>2, <1>6, <1>8, <1>9, <1>10, Operands DEF Woken, Homes
  <1>18. Begun'
    <2>1. \A v \in Threads : IsStarter(v)' <=> IsStarter(v)
      BY <1>10 DEF IsStarter
    <2> QED
      BY <1>0, <1>2, <1>6, <1>8, <1>9, <1>10, <2>1, Operands DEF Begun
  <1>19. Aside'
    <2> SUFFICES ASSUME NEW s \in Semas, NEW y \in Threads, In(waiters[s], y)
                 PROVE  ~inQueue'[y] /\ \A d \in Cores : current'[d] = y => act'[d] \in {"yield", "switch"}
      BY <1>0, <1>10 DEF Aside
    <2>1. ~inQueue[y] /\ \A d \in Cores : current[d] = y => act[d] \in {"yield", "switch"}
      BY <1>0 DEF Aside
    <2>2. y # n /\ ~(y = t /\ r)
      BY <1>2, <1>5, <2>1
    <2> QED
      BY <1>8, <1>9, <2>1, <2>2
  <1>20. MainThere'
    <2>1. \A d \in Cores : In(threadList'[d], Main[d]) \/ next'[d] = Main[d] \/ current'[d] = Main[d]
      <3> TAKE d \in Cores
      <3>1. CASE d = c
        BY <1>0, <1>5, <1>6, <1>7, <1>9, <3>1, Operands DEF MainThere
      <3>2. CASE d # c
        BY <1>0, <1>7, <1>9, <3>2, Operands DEF MainThere
      <3> QED
        BY <3>1, <3>2
    <2> QED
      BY <1>0, <1>10, <2>1 DEF MainThere
  <1>21. PushHome'
    BY <1>0, <1>10 DEF PushHome
  <1> QED
    BY <1>11, <1>12, <1>13, <1>14, <1>15, <1>16, <1>17, <1>18, <1>19, <1>20, <1>21 DEF AwakeInv

\* A new thread has a starter and a home, and is nowhere else.
LEMMA StartAwake ==
  ASSUME TypeInv, AwakeInv, NEW c \in Cores, NEW u \in Threads, Start(c, u)
  PROVE  AwakeInv'
  <1> DEFINE t == current[c]
  <1>0. /\ StepOperands /\ Homes /\ ListsExact /\ Marked /\ Unmarked /\ OutOfQueue
        /\ Woken /\ Begun /\ Aside /\ MainThere /\ PushHome
    BY DEF AwakeInv
  <1>1. /\ pc \in [Threads -> Pc] /\ cpuId \in [Threads -> Nat]
        /\ target \in [Threads -> Threads \cup {None}]
    BY DEF TypeInv, TypeOK
  <1>2. t \in Threads /\ pc[t] = "idle" /\ pc[u] = "new" /\ u # t /\ act[c] = "run"
    BY Operands DEF Start, InThreadCode, InKernelAt
  <1>3. PICK home : cpuId' = [cpuId EXCEPT ![u] = home]
    BY DEF Start
  <1>4. /\ pc' = [pc EXCEPT ![u] = "idle", ![t] = "start_lock"]
        /\ target' = [target EXCEPT ![t] = u]
        /\ UNCHANGED <<status, inQueue, wants, threadList, current, act, next, elem, waiters>>
    BY DEF Start, coreVars, semaVars
  <1>5. /\ ~inQueue[u]
        /\ \A d \in Cores : current[d] # u /\ elem[d] # u /\ next[d] # u
        /\ \A d \in Cores : ~In(threadList[d], u)
        /\ \A s \in Semas : ~In(waiters[s], u)
        /\ \A v \in Threads : IsStarter(v) => target[v] # u
    BY <1>0, <1>2, Operands DEF Marked, Unmarked, Begun, Aside
  <1>6. \A d \in Cores : Main[d] # u
    BY <1>0, <1>5, Operands DEF MainThere
  <1>7. t = current[c]
    BY DEF t
  <1> HIDE DEF t
  <1>8. \A y \in Threads :
          /\ pc'[y] = IF y = t THEN "start_lock" ELSE IF y = u THEN "idle" ELSE pc[y]
          /\ target'[y] = IF y = t THEN u ELSE target[y]
          /\ y # u => cpuId'[y] = cpuId[y]
    BY <1>1, <1>3, <1>4
  <1>9. \A y \in Threads : IsStarter(y)' <=> IsStarter(y) \/ y = t
    BY <1>2, <1>8 DEF IsStarter
  <1>10. \A y \in Threads :
           /\ pc[y] # "new" => pc'[y] # "new"
           /\ pc'[y] = "new" => pc[y] = "new"
           /\ pc[y] = "down" => pc'[y] = "down"
    BY <1>2, <1>8
  <1>11. StepOperands' /\ ListsExact' /\ OutOfQueue' /\ Woken'
    BY <1>0, <1>4 DEF StepOperands, ListsExact, OutOfQueue, Woken
  <1>12. Homes'
    BY <1>0, <1>4, <1>5, <1>8, Operands DEF Homes
  <1>13. Marked' /\ Unmarked'
    BY <1>0, <1>4, <1>10, Operands DEF Marked, Unmarked
  <1>14. Begun'
    <2>1. ASSUME NEW v \in Threads, IsStarter(v)', NEW w, w = target'[v]
          PROVE  /\ pc'[w] = "idle" /\ ~inQueue'[w]
                 /\ \A d \in Cores : current'[d] # w /\ elem'[d] # w
      <3>1. CASE v = t
        <4>1. w = u /\ pc'[u] = "idle"
          BY <1>2, <1>8, <2>1, <3>1
        <4> QED
          BY <1>4, <1>5, <4>1
      <3>2. CASE v # t
        <4>1. IsStarter(v) /\ w = target[v] /\ w \in Threads /\ w # u
          BY <1>5, <1>8, <1>9, <2>1, <3>2, Operands
        <4>2. /\ pc[w] = "idle" /\ ~inQueue[w]
              /\ \A d \in Cores : current[d] # w /\ elem[d] # w
          BY <1>0, <4>1 DEF Begun
        <4> QED
          BY <1>4, <1>7, <1>8, <4>1, <4>2
      <3> QED
        BY <3>1, <3>2
    <2>2. \A v, w \in Threads :
            IsStarter(v)' /\ IsStarter(w)' /\ target'[v] = target'[w] => v = w
      BY <1>0, <1>5, <1>8, <1>9 DEF Begun
    <2> QED
      BY <2>1, <2>2 DEF Begun
  <1>15. Aside'
    <2>0. UNCHANGED <<status, wants, inQueue, elem, current, act, waiters>>
      BY <1>4
    <2> SUFFICES ASSUME NEW s \in Semas, NEW y \in Threads, In(waiters[s], y)
                 PROVE  /\ status[y] = "sleep" /\ pc'[y] = "down" /\ wants[y] = s
                        /\ ~inQueue[y]
                        /\ \A d \in Cores : elem[d] # y
                             /\ (current[d] = y => act[d] \in {"yield", "switch"})
      BY <2>0 DEF Aside
    <2>1. /\ status[y] = "sleep" /\ pc[y] = "down" /\ wants[y] = s /\ ~inQueue[y]
          /\ \A d \in Cores : elem[d] # y /\ (current[d] = y => act[d] \in {"yield", "switch"})
      BY <1>0 DEF Aside
    <2> QED
      BY <1>10, <2>1
  <1>16. MainThere'
    BY <1>0, <1>4, <1>6, <1>8, Operands DEF MainThere
  <1>17. PushHome'
    <2> SUFFICES ASSUME NEW v \in Threads, pc'[v] = "start_push"
                 PROVE  cpuId'[target'[v]] \in Cores
      BY DEF PushHome
    <2>1. pc[v] = "start_push" /\ target'[v] = target[v]
      BY <1>8
    <2>2. target[v] \in Threads /\ target[v] # u
      BY <1>5, <2>1, Operands DEF IsStarter
    <2> QED
      BY <1>0, <1>8, <2>1, <2>2 DEF PushHome
  <1> QED
    BY <1>11, <1>12, <1>13, <1>14, <1>15, <1>16, <1>17 DEF AwakeInv

\* The starter holds the lock of the queue: no thread has moved.
LEMMA StartLockAwake ==
  ASSUME TypeInv, AwakeInv, NEW c \in Cores, StartLock(c)
  PROVE  AwakeInv'
  <1> DEFINE t == current[c]
  <1>0. /\ StepOperands /\ Homes /\ ListsExact /\ Marked /\ Unmarked /\ OutOfQueue
        /\ Woken /\ Begun /\ Aside /\ MainThere /\ PushHome
    BY DEF AwakeInv
  <1>1. pc \in [Threads -> Pc]
    BY DEF TypeInv, TypeOK
  <1>2. t \in Threads /\ pc[t] = "start_lock" /\ cpuId[target[t]] \in Cores
    BY Operands DEF StartLock, InKernelAt
  <1>3. /\ pc' = [pc EXCEPT ![t] = "start_push"]
        /\ UNCHANGED <<status, inQueue, cpuId, target, wants, threadList, current, act, next,
                       elem, waiters>>
    BY DEF StartLock, threadVars, coreVars, semaVars
  <1> HIDE DEF t
  <1>4. \A y \in Threads :
          /\ pc'[y] = IF y = t THEN "start_push" ELSE pc[y]
          /\ IsStarter(y)' <=> IsStarter(y)
    BY <1>1, <1>2, <1>3 DEF IsStarter
  <1>5. \A y \in Threads :
          /\ pc'[y] = "new" <=> pc[y] = "new"
          /\ pc[y] \in {"down", "idle"} => pc'[y] = pc[y]
    BY <1>2, <1>4
  <1>6. StepOperands' /\ Homes' /\ ListsExact' /\ OutOfQueue' /\ Woken' /\ MainThere'
    BY <1>0, <1>3 DEF StepOperands, Homes, ListsExact, OutOfQueue, Woken, MainThere
  <1>7. Marked' /\ Unmarked'
    BY <1>0, <1>3, <1>5, Operands DEF Marked, Unmarked
  <1>8. Begun'
    BY <1>0, <1>3, <1>4, <1>5, Operands DEF Begun
  <1>9. Aside'
    BY <1>0, <1>3, <1>5 DEF Aside
  <1>10. PushHome'
    BY <1>0, <1>2, <1>3, <1>4 DEF PushHome
  <1> QED
    BY <1>6, <1>7, <1>8, <1>9, <1>10 DEF AwakeInv

\* The started thread is queued, and has no starter any more.
LEMMA StartPushAwake ==
  ASSUME TypeInv, AwakeInv, NEW c \in Cores, StartPush(c)
  PROVE  AwakeInv'
  <1> DEFINE t == current[c]
             u == target[t]
  <1>0. /\ StepOperands /\ Homes /\ ListsExact /\ Marked /\ Unmarked /\ OutOfQueue
        /\ Woken /\ Begun /\ Aside /\ MainThere /\ PushHome
    BY DEF AwakeInv
  <1>1. pc \in [Threads -> Pc] /\ target \in [Threads -> Threads \cup {None}]
    BY DEF TypeInv, TypeOK
  <1>2. /\ t \in Threads /\ pc[t] = "start_push" /\ IsStarter(t)
        /\ u \in Threads /\ cpuId[u] \in Cores
    BY <1>0, Operands DEF StartPush, InKernelAt, IsStarter, PushHome
  <1>3. /\ pc[u] = "idle" /\ ~inQueue[u]
        /\ \A d \in Cores : current[d] # u /\ elem[d] # u
        /\ \A v \in Threads : IsStarter(v) /\ target[v] = u => v = t
    BY <1>0, <1>2 DEF Begun
  <1>4. /\ pc' = [pc EXCEPT ![t] = "idle"]
        /\ target' = [target EXCEPT ![t] = None]
        /\ PushBack(u)
        /\ UNCHANGED <<status, cpuId, wants, current, act, next, elem, waiters>>
    BY DEF StartPush, coreVars, semaVars
  <1>5. t = current[c] /\ u = target[t]
    BY DEF t, u
  <1> HIDE DEF t, u
  <1>6. /\ \A d \in Cores, y \in Threads :
              In(threadList'[d], y) <=> In(threadList[d], y) \/ (d = cpuId[u] /\ y = u)
        /\ \A d \in Cores : NoRepeats(threadList'[d])
        /\ \A y \in Threads : inQueue'[y] <=> inQueue[y] \/ y = u
    BY <1>0, <1>2, <1>3, <1>4, Pushed DEF Marked
  <1>7. \A y \in Threads :
          /\ pc'[y] = IF y = t THEN "idle" ELSE pc[y]
          /\ y # t => target'[y] = target[y]
          /\ IsStarter(y)' <=> IsStarter(y) /\ y # t
    BY <1>1, <1>2, <1>4 DEF IsStarter
  <1>8. \A y \in Threads :
          /\ pc'[y] = "new" <=> pc[y] = "new"
          /\ pc[y] \in {"down", "idle"} => pc'[y] = pc[y]
    BY <1>2, <1>7
  <1>9. StepOperands' /\ Homes'
    BY <1>0, <1>4, <1>6 DEF StepOperands, Homes
  <1>10. ListsExact'
    BY <1>0, <1>4, <1>6 DEF ListsExact
  <1>11. Marked'
    BY <1>0, <1>3, <1>4, <1>6, <1>8, Operands DEF Marked
  <1>12. Unmarked'
    BY <1>0, <1>3, <1>4, <1>6, <1>8, Operands DEF Unmarked
  <1>13. OutOfQueue'
    BY <1>0, <1>3, <1>4, <1>6, Operands DEF OutOfQueue, Marked
  <1>14. Woken'
    BY <1>0, <1>3, <1>4, <1>6, Operands DEF Woken
  <1>15. Begun'
    BY <1>0, <1>3, <1>4, <1>5, <1>6, <1>7, <1>8, Operands DEF Begun
  <1>16. Aside'
    BY <1>0, <1>3, <1>4, <1>6, <1>8 DEF Aside
  <1>17. MainThere'
    BY <1>0, <1>4, <1>6, Operands DEF MainThere
  <1>18. PushHome'
    BY <1>0, <1>4, <1>7 DEF PushHome
  <1> QED
    BY <1>9, <1>10, <1>11, <1>12, <1>13, <1>14, <1>15, <1>16, <1>17, <1>18 DEF AwakeInv

\* The first waiter is awake and in the hands of EnqueueThread.
LEMMA UpAwake ==
  ASSUME TypeInv, AwakeInv, NEW c \in Cores, NEW s \in Semas, Up(c, s)
  PROVE  AwakeInv'
  <1>0. /\ StepOperands /\ Homes /\ ListsExact /\ Marked /\ Unmarked /\ OutOfQueue
        /\ Woken /\ Begun /\ Aside /\ MainThere /\ PushHome
    BY DEF AwakeInv
  <1>1. /\ status \in [Threads -> Status] /\ waiters \in [Semas -> Seq(Threads)]
        /\ elem \in [Cores -> Threads \cup {None}] /\ act \in [Cores -> Act]
    BY DEF TypeInv, TypeOK
  <1>2. /\ act[c] = "run" /\ SemaCore[s] = c
        /\ UNCHANGED <<inQueue, cpuId, pc, target, wants, threadList, current, next>>
    BY DEF Up, flowVars
  <1>3. CASE waiters[s] = <<>>
    <2>1. UNCHANGED <<status, waiters, elem, act>>
      BY <1>3 DEF Up, WakeFirst
    <2>2. Quiet
      BY <1>2, <2>1 DEF Quiet
    <2> QED
      BY <2>2, QuietAwake
  <1>4. CASE waiters[s] # <<>>
    <2> DEFINE w == Head(waiters[s])
               q == Tail(waiters[s])
    <2>1. /\ waiters' = [waiters EXCEPT ![s] = q]
          /\ status' = [status EXCEPT ![w] = statusBeforeSleep[w]]
          /\ elem' = [elem EXCEPT ![c] = w]
          /\ act' = [act EXCEPT ![c] = "enqueue"]
      BY <1>4 DEF Up, WakeFirst
    <2>2. /\ \A y : In(q, y) <=> In(waiters[s], y) /\ y # w
          /\ NoRepeats(q)
          /\ In(waiters[s], w)
          /\ w \in Threads
      BY <1>0, <1>1, <1>4, InTail, TailPositions DEF ListsExact
    <2>3. /\ status[w] = "sleep" /\ pc[w] = "down" /\ wants[w] = s
          /\ cpuId[w] = c /\ ~inQueue[w] /\ w # None
      BY <1>0, <1>2, <2>2, Operands DEF Aside, Homes
    <2> HIDE DEF w, q
    <2>4. \A r \in Semas, y \in Threads : In(waiters'[r], y) => In(waiters[r], y) /\ y # w
      <3>1. \A r \in Semas : waiters'[r] = IF r = s THEN q ELSE waiters[r]
        BY <1>1, <2>1
      <3>2. \A r \in Semas : In(waiters[r], w) => r = s
        BY <1>0, <2>2, <2>3 DEF Aside
      <3> QED
        BY <2>2, <3>1, <3>2
    <2>5. \A y \in Threads : y # w => status'[y] = status[y]
      BY <1>1, <2>1
    <2>6. \A d \in Cores :
            /\ elem'[d] = IF d = c THEN w ELSE elem[d]
            /\ act'[d] = IF d = c THEN "enqueue" ELSE act[d]
      BY <1>1, <2>1
    <2>7. \A d \in Cores : current[d] # w
      <3>1. current[c] # w
        BY <1>0, <1>2, <2>2 DEF Aside
      <3> QED
        BY <1>0, <2>3, <3>1 DEF Homes
    <2>8. StepOperands'
      BY <1>0, <1>2, <2>3, <2>6 DEF StepOperands
    <2>9. Homes'
      BY <1>0, <1>2, <2>3, <2>4, <2>6 DEF Homes
    <2>10. ListsExact'
      BY <1>0, <1>1, <1>2, <2>1, <2>2 DEF ListsExact
    <2>11. Marked' /\ OutOfQueue' /\ PushHome'
      BY <1>0, <1>2 DEF Marked, OutOfQueue, PushHome
    <2>12. Unmarked'
      BY <1>0, <1>2, <2>3, <2>6 DEF Unmarked
    <2>13. Woken'
      BY <1>0, <1>2, <2>3, <2>6, <2>7 DEF Woken
    <2>14. Begun'
      <3>1. \A v \in Threads : IsStarter(v)' <=> IsStarter(v)
        BY <1>2 DEF IsStarter
      <3>2. \A v \in Threads : IsStarter(v) => target[v] # w
        BY <1>0, <2>3 DEF Begun
      <3> QED
        BY <1>0, <1>2, <2>6, <3>1, <3>2 DEF Begun
    <2>15. Aside'
      <3> SUFFICES ASSUME NEW r \in Semas, NEW y \in Threads, In(waiters'[r], y)
                   PROVE  /\ status'[y] = "sleep" /\ pc'[y] = "down" /\ wants'[y] = r
                          /\ ~inQueue'[y]
                          /\ \A d \in Cores : elem'[d] # y
                               /\ (current'[d] = y => act'[d] \in {"yield", "switch"})
        BY DEF Aside
      <3>1. In(waiters[r], y) /\ y # w
        BY <2>4
      <3>2. /\ status[y] = "sleep" /\ pc[y] = "down" /\ wants[y] = r /\ ~inQueue[y]
            /\ \A d \in Cores : elem[d] # y /\ (current[d] = y => act[d] \in {"yield", "switch"})
        BY <1>0, <3>1 DEF Aside
      <3> QED
        BY <1>2, <2>5, <2>6, <3>1, <3>2
    <2>16. MainThere'
      BY <1>0, <1>2, <2>3, <2>5, Operands DEF MainThere
    <2> QED
      BY <2>8, <2>9, <2>10, <2>11, <2>12, <2>13, <2>14, <2>15, <2>16 DEF AwakeInv
  <1> QED
    BY <1>3, <1>4

\* The woken thread is queued.
LEMMA UpEnqueueAwake ==
  ASSUME TypeInv, AwakeInv, NEW c \in Cores, UpEnqueueThread(c)
  PROVE  AwakeInv'
  <1> DEFINE u == elem[c]
  <1>0. /\ StepOperands /\ Homes /\ ListsExact /\ Marked /\ Unmarked /\ OutOfQueue
        /\ Woken /\ Begun /\ Aside /\ MainThere /\ PushHome
    BY DEF AwakeInv
  <1>1. /\ elem \in [Cores -> Threads \cup {None}] /\ act \in [Cores -> Act]
    BY DEF TypeInv, TypeOK
  <1>2. /\ act[c] = "enqueue" /\ u # None /\ u \in Threads /\ cpuId[u] = c /\ ~inQueue[u]
        /\ pc[u] # "new" /\ next[c] = None
    BY <1>0, Operands DEF UpEnqueueThread, StepOperands, Homes, Woken, Unmarked
  <1>3. /\ elem' = [elem EXCEPT ![c] = None]
        /\ act' = [act EXCEPT ![c] = "run"]
        /\ PushBack(u)
        /\ UNCHANGED <<status, cpuId, pc, target, wants, current, next, waiters>>
    BY DEF UpEnqueueThread, flowVars, semaVars
  <1>4. /\ \A d \in Cores : current[d] # u
        /\ \A d \in Cores : d # c => elem[d] # u
        /\ \A d \in Cores : next[d] # u
        /\ \A v \in Threads : IsStarter(v) => target[v] # u
        /\ \A s \in Semas : ~In(waiters[s], u)
    BY <1>0, <1>2 DEF Homes, Woken, Begun, Aside
  <1> HIDE DEF u
  <1>5. /\ \A d \in Cores, y \in Threads :
              In(threadList'[d], y) <=> In(threadList[d], y) \/ (d = c /\ y = u)
        /\ \A d \in Cores : NoRepeats(threadList'[d])
        /\ \A y \in Threads : inQueue'[y] <=> inQueue[y] \/ y = u
    BY <1>0, <1>2, <1>3, Pushed DEF Marked
  <1>6. \A d \in Cores :
          /\ elem'[d] = IF d = c THEN None ELSE elem[d]
          /\ act'[d] = IF d = c THEN "run" ELSE act[d]
    BY <1>1, <1>3
  <1>7. \A v \in Threads : IsStarter(v)' <=> IsStarter(v)
    BY <1>3 DEF IsStarter
  <1>8. StepOperands'
    BY <1>0, <1>2, <1>3, <1>6 DEF StepOperands
  <1>9. Homes'
    BY <1>0, <1>2, <1>3, <1>5, <1>6 DEF Homes
  <1>10. ListsExact'
    BY <1>0, <1>3, <1>5 DEF ListsExact
  <1>11. Marked'
    BY <1>0, <1>2, <1>3, <1>5, Operands DEF Marked
  <1>12. Unmarked'
    BY <1>0, <1>2, <1>3, <1>4, <1>5, <1>6, Operands DEF Unmarked
  <1>13. OutOfQueue'
    BY <1>0, <1>3, <1>4, <1>5, Operands DEF OutOfQueue
  <1>14. Woken'
    BY <1>0, <1>3, <1>4, <1>5, <1>6, Operands DEF Woken
  <1>15. Begun'
    BY <1>0, <1>2, <1>3, <1>4, <1>5, <1>6, <1>7, Operands DEF Begun
  <1>16. Aside'
    <2> SUFFICES ASSUME NEW s \in Semas, NEW y \in Threads, In(waiters[s], y)
                 PROVE  /\ ~inQueue'[y]
                        /\ \A d \in Cores : elem'[d] # y
                             /\ (current[d] = y => act'[d] \in {"yield", "switch"})
      BY <1>0, <1>3 DEF Aside
    <2>1. /\ ~inQueue[y] /\ y # u /\ y # None
          /\ \A d \in Cores : elem[d] # y /\ (current[d] = y => act[d] \in {"yield", "switch"})
      BY <1>0, <1>4, Operands DEF Aside
    <2> QED
      BY <1>2, <1>5, <1>6, <2>1
  <1>17. MainThere'
    BY <1>0, <1>3, <1>5, Operands DEF MainThere
  <1>18. PushHome'
    BY <1>0, <1>3 DEF PushHome
  <1> QED
    BY <1>8, <1>9, <1>10, <1>11, <1>12, <1>13, <1>14, <1>15, <1>16, <1>17, <1>18 DEF AwakeInv

\* A round of Down: the thread takes a unit, or is about to leave its core.
LEMMA DownAwake ==
  ASSUME TypeInv, AwakeInv, NEW c \in Cores, NEW s \in Semas, Down(c, s)
  PROVE  AwakeInv'
  <1> DEFINE t == current[c]
  <1>0. /\ StepOperands /\ Homes /\ ListsExact /\ Marked /\ Unmarked /\ OutOfQueue
        /\ Woken /\ Begun /\ Aside /\ MainThere /\ PushHome
    BY DEF AwakeInv
  <1>1. /\ status \in [Threads -> Status] /\ waiters \in [Semas -> Seq(Threads)]
        /\ pc \in [Threads -> Pc] /\ wants \in [Threads -> Semas \cup {None}]
        /\ act \in [Cores -> Act]
    BY DEF TypeInv, TypeOK
  <1>2. /\ t \in Threads /\ act[c] = "run" /\ pc[t] \in {"idle", "down"}
        /\ ~inQueue[t] /\ cpuId[t] = c /\ SemaCore[s] = c /\ elem[c] = None
    BY <1>0, Operands DEF Down, InKernelAt, Unmarked, Homes, StepOperands
  <1>3. /\ ~IsStarter(t)
        /\ \A d \in Cores : Main[d] # t /\ elem[d] # t /\ (d # c => current[d] # t)
        /\ \A v \in Threads : IsStarter(v) => target[v] # t
        /\ \A r \in Semas : ~In(waiters[r], t)
    <2>1. t # Main[c]
      BY DEF Down
    <2>2. \A d \in Cores : Main[d] # t
      BY <1>0, <1>2, <2>1 DEF MainThere
    <2>3. \A d \in Cores : elem[d] # t /\ (d # c => current[d] # t)
      BY <1>0, <1>2, Operands DEF Homes, Woken
    <2>4. /\ \A v \in Threads : IsStarter(v) => target[v] # t
          /\ \A r \in Semas : ~In(waiters[r], t)
      BY <1>0, <1>2 DEF Begun, Aside
    <2> QED
      BY <1>2, <2>2, <2>3, <2>4 DEF IsStarter
  <1>4. UNCHANGED <<inQueue, cpuId, target, threadList, current, next, elem>>
    BY DEF Down, queueVars
  <1>5. /\ pc' \in {[pc EXCEPT ![t] = "idle"], [pc EXCEPT ![t] = "down"]}
        /\ act' \in {act, [act EXCEPT ![c] = "yield"]}
        /\ wants' \in {[wants EXCEPT ![t] = None], [wants EXCEPT ![t] = s]}
    BY DEF Down, EnterYield
  <1>6. \/ UNCHANGED <<status, waiters>>
        \/ /\ status' = [status EXCEPT ![t] = "sleep"]
           /\ waiters' = [waiters EXCEPT ![s] = Append(@, t)]
           /\ wants' = [wants EXCEPT ![t] = s]
           /\ pc' = [pc EXCEPT ![t] = "down"]
           /\ act' = [act EXCEPT ![c] = "yield"]
    BY DEF Down, MakeSleep, EnterYield
  <1> HIDE DEF t
  <1>7. \A y \in Threads : y # t =>
          pc'[y] = pc[y] /\ wants'[y] = wants[y] /\ status'[y] = status[y]
    <2>1. \A y \in Threads : y # t => pc'[y] = pc[y] /\ wants'[y] = wants[y]
      BY <1>1, <1>5
    <2>2. \A y \in Threads : y # t => status'[y] = status[y]
      BY <1>1, <1>6
    <2> QED
      BY <2>1, <2>2
  <1>8. \A d \in Cores : act'[d] = act[d] \/ (d = c /\ act'[d] = "yield")
    BY <1>1, <1>5
  <1>9. pc'[t] \in {"idle", "down"}
    BY <1>1, <1>2, <1>5
  <1>10. \A y \in Threads : IsStarter(y)' <=> IsStarter(y)
    BY <1>3, <1>7, <1>9 DEF IsStarter
  <1>11. /\ \A r \in Semas : NoRepeats(waiters'[r])
         /\ \A r \in Semas, y \in Threads : In(waiters'[r], y) =>
              \/ y # t /\ In(waiters[r], y)
              \/ y = t /\ r = s /\ status'[t] = "sleep" /\ pc'[t] = "down" /\ wants'[t] = s
                 /\ act'[c] = "yield"
    <2>1. CASE UNCHANGED <<status, waiters>>
      BY <1>0, <1>3, <2>1 DEF ListsExact
    <2>2. CASE /\ status' = [status EXCEPT ![t] = "sleep"]
               /\ waiters' = [waiters EXCEPT ![s] = Append(@, t)]
               /\ wants' = [wants EXCEPT ![t] = s]
               /\ pc' = [pc EXCEPT ![t] = "down"]
               /\ act' = [act EXCEPT ![c] = "yield"]
      <3>1. /\ \A y : In(Append(waiters[s], t), y) <=> In(waiters[s], y) \/ y = t
            /\ NoRepeats(Append(waiters[s], t))
        BY <1>0, <1>1, <1>2, <1>3, InAppend DEF ListsExact
      <3>2. status'[t] = "sleep" /\ pc'[t] = "down" /\ wants'[t] = s /\ act'[c] = "yield"
        BY <1>1, <1>2, <2>2
      <3>3. /\ waiters'[s] = Append(waiters[s], t)
            /\ \A r \in Semas : r # s => waiters'[r] = waiters[r]
        BY <1>1, <2>2
      <3> QED
        BY <1>0, <1>3, <3>1, <3>2, <3>3 DEF ListsExact
    <2> QED
      BY <1>6, <2>1, <2>2
  <1>12. StepOperands'
    BY <1>0, <1>2, <1>4, <1>8 DEF StepOperands
  <1>13. Homes'
    BY <1>0, <1>2, <1>4, <1>11 DEF Homes
  <1>14. ListsExact' /\ OutOfQueue' /\ Woken'
    BY <1>0, <1>4, <1>11 DEF ListsExact, OutOfQueue, Woken
  <1>15. Marked' /\ Unmarked'
    <2>1. \A y \in Threads : pc'[y] = "new" <=> pc[y] = "new"
      BY <1>2, <1>7, <1>9
    <2> QED
      BY <1>0, <1>4, <2>1, Operands DEF Marked, Unmarked
  <1>16. Begun'
    BY <1>0, <1>3, <1>4, <1>7, <1>10, Operands DEF Begun
  <1>17. Aside'
    <2> SUFFICES ASSUME NEW r \in Semas, NEW y \in Threads, In(waiters'[r], y)
                 PROVE  /\ status'[y] = "sleep" /\ pc'[y] = "down" /\ wants'[y] = r
                        /\ ~inQueue[y]
                        /\ \A d \in Cores : elem[d] # y
                             /\ (current[d] = y => act'[d] \in {"yield", "switch"})
      BY <1>4 DEF Aside
    <2>1. CASE y = t
      BY <1>2, <1>3, <1>11, <2>1
    <2>2. CASE y # t
      <3>1. In(waiters[r], y)
        BY <1>11, <2>2
      <3>2. /\ status[y] = "sleep" /\ pc[y] = "down" /\ wants[y] = r /\ ~inQueue[y]
            /\ \A d \in Cores : elem[d] # y /\ (current[d] = y => act[d] \in {"yield", "switch"})
        BY <1>0, <3>1 DEF Aside
      <3> QED
        BY <1>7, <1>8, <2>2, <3>2
    <2> QED
      BY <2>1, <2>2
  <1>18. MainThere'
    BY <1>0, <1>3, <1>4, <1>7, Operands DEF MainThere
  <1>19. PushHome'
    <2>1. \A v \in Threads : pc'[v] = "start_push" => pc[v] = "start_push"
      BY <1>7, <1>9
    <2> QED
      BY <1>0, <1>4, <2>1 DEF PushHome
  <1> QED
    BY <1>12, <1>13, <1>14, <1>15, <1>16, <1>17, <1>18, <1>19 DEF AwakeInv

-----------------------------------------------------------------------------
(* Kills of threads that are awake: the theorem *)

LEMMA InitAwake == Init => AwakeInv
  <1> SUFFICES ASSUME Init PROVE AwakeInv
    OBVIOUS
  <1>1. PlaceInv
    BY InitPlace
  <1>2. /\ current = Main
        /\ \A s \in Semas, t \in Threads : ~In(waiters[s], t)
        /\ \A v \in Threads : ~IsStarter(v)
        /\ \A c \in Cores : next[c] = None /\ elem[c] = None
    BY InEmpty DEF Init, IsStarter
  <1>3. Marked /\ Unmarked
    BY <1>1, <1>2, Operands DEF PlaceInv, Marks, CanRun, Running, Marked, Unmarked
  <1>4. Begun /\ Aside
    BY <1>2 DEF Begun, Aside
  <1>5. MainThere
    BY <1>1, <1>2 DEF PlaceInv, MainStays, MainThere
  <1> QED
    BY <1>1, <1>3, <1>4, <1>5 DEF PlaceInv, AwakeInv

\* No step of a core disturbs the invariant, and no kill of a thread that is awake.
LEMMA NextAwake ==
  ASSUME TypeInv, AwakeInv, [KillNext]_vars,
         \A p \in Processes : AddKeyStrokeCtrlC(p) => status[p] # "sleep"
  PROVE  AwakeInv'
  <1>1. CASE UNCHANGED vars
    <2>1. Quiet
      BY <1>1 DEF vars, threadVars, flowVars, queueVars, coreVars, semaVars, Quiet
    <2> QED
      BY <2>1, QuietAwake
  <1>2. ASSUME NEW p \in Processes, AddKeyStrokeCtrlC(p) PROVE AwakeInv'
    BY <1>2, KillQuiet, QuietAwake
  <1>3. ASSUME NEW c \in Cores, KernelStep(c) PROVE AwakeInv'
    BY <1>3, NoThreadAwake, PopNextAwake, SwitchAwake, StartLockAwake, StartPushAwake,
       UpEnqueueAwake, QuietSteps, QuietAwake DEF KernelStep
  <1>4. ASSUME NEW c \in Cores,
               \/ Yield(c) \/ TimerInterruptHandler(c) \/ SpinYield(c)
               \/ Terminate(c) \/ SyscallEnter(c) \/ SyscallReturn(c)
               \/ PageFaultEnter(c) \/ PageFaultReturn(c) \/ PageFaultInvalid(c)
               \/ \E u \in Threads : Join(c, u)
        PROVE  AwakeInv'
    BY <1>4, QuietSteps, QuietAwake
  <1>5. ASSUME NEW c \in Cores, NEW u \in Threads, Start(c, u) PROVE AwakeInv'
    BY <1>5, StartAwake
  <1>6. ASSUME NEW c \in Cores, NEW s \in Semas, Up(c, s) \/ Down(c, s) PROVE AwakeInv'
    BY <1>6, UpAwake, DownAwake
  <1> QED
    BY <1>1, <1>2, <1>3, <1>4, <1>5, <1>6 DEF KillNext, Next

\* The marks keep a thread in one place.
LEMMA AwakeImplies == TypeInv /\ AwakeInv => OnePlace
  <1> SUFFICES ASSUME TypeInv, AwakeInv PROVE OnePlace
    OBVIOUS
  <1>0. /\ StepOperands /\ Homes /\ ListsExact /\ Marked /\ Unmarked /\ OutOfQueue
        /\ Woken /\ Begun /\ Aside /\ MainThere /\ PushHome
    BY DEF AwakeInv
  <1>1. \A t \in Threads :
          /\ Queued(t) <=> \E c \in Cores : In(threadList[c], t)
          /\ Waiting(t) <=> \E s \in Semas : In(waiters[s], t)
          /\ Starting(t) <=> \E v \in Threads : IsStarter(v) /\ target[v] = t
    BY DEF Queued, Waiting, Starting, In, IsStarter
  <1>2. /\ \A c \in Cores : \A i \in 1 .. Len(threadList[c]) : cpuId[threadList[c][i]] = c
        /\ \A s \in Semas : \A i \in 1 .. Len(waiters[s]) : cpuId[waiters[s][i]] = SemaCore[s]
    BY <1>0, Operands DEF Homes, In
  <1>3. ASSUME NEW t \in Threads
        PROVE  /\ Queued(t) => ~(Current(t) \/ Chosen(t) \/ Waking(t) \/ Starting(t))
               /\ Current(t) => ~(Chosen(t) \/ Waking(t) \/ Starting(t))
               /\ Chosen(t) => ~(Waking(t) \/ Starting(t))
               /\ Waking(t) => ~Starting(t)
               /\ Waiting(t) => ~(Queued(t) \/ Chosen(t) \/ Waking(t) \/ Starting(t))
    <2>1. Queued(t) \/ Chosen(t) => inQueue[t]
      BY <1>0, <1>1, Operands DEF Marked, Chosen
    <2>2. Current(t) \/ Waking(t) \/ Starting(t) => ~inQueue[t]
      BY <1>0, <1>1, Operands DEF Unmarked, Woken, Begun, Current, Waking
    <2>3. Queued(t) => ~Chosen(t)
      BY <1>0, <1>1, Operands DEF Homes, OutOfQueue, Chosen
    <2>4. Current(t) => ~(Waking(t) \/ Starting(t))
      BY <1>0, <1>1, Operands DEF Homes, Woken, Begun, Current, Waking
    <2>5. Waking(t) => ~Starting(t)
      BY <1>0, <1>1 DEF Begun, Waking
    <2>6. Waiting(t) => ~inQueue[t] /\ ~Waking(t) /\ ~Starting(t)
      BY <1>0, <1>1 DEF Aside, Begun, Waking
    <2> QED
      BY <2>1, <2>2, <2>3, <2>4, <2>5, <2>6
  <1>4. \A c \in Cores : Waiting(current[c]) => act[c] \in {"yield", "switch"}
    BY <1>0, <1>1, Operands DEF Aside
  <1> QED
    BY <1>0, <1>2, <1>3, <1>4 DEF OnePlace, ListsExact, Homes

\* Ctrl-C never reaches a process that sleeps in a semaphore.
KillsAwake == \A p \in Processes : AddKeyStrokeCtrlC(p) => status[p] # "sleep"

\* However often processes are killed, and whatever they are doing when
\* AddKeyStroke marks them, no thread gets into two places as long as none of
\* them is asleep: MakeTerminateReady, which overwrites status_ and leaves
\* waiters_ as it is, is the only thing that breaks OnePlace.
THEOREM KilledInOnePlace == KillSpec /\ [][KillsAwake]_vars => []OnePlace
  <1>1. Init => TypeInv /\ AwakeInv
    BY InitTypeInv, InitAwake
  <1>2. TypeInv /\ AwakeInv /\ [KillNext]_vars /\ [KillsAwake]_vars => TypeInv' /\ AwakeInv'
    <2> SUFFICES ASSUME TypeInv, AwakeInv, [KillNext]_vars, [KillsAwake]_vars
                 PROVE  AwakeInv'
      BY KillTypeInv
    <2>1. CASE KillsAwake
      BY <2>1, NextAwake DEF KillsAwake
    <2>2. CASE UNCHANGED vars
      <3>1. Quiet
        BY <2>2 DEF vars, threadVars, flowVars, queueVars, coreVars, semaVars, Quiet
      <3> QED
        BY <3>1, QuietAwake
    <2> QED
      BY <2>1, <2>2
  <1>3. TypeInv /\ AwakeInv => OnePlace
    BY AwakeImplies
  <1> QED
    BY <1>1, <1>2, <1>3, PTL DEF KillSpec

=============================================================================
