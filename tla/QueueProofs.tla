---------------------------- MODULE QueueProofs ----------------------------
(***************************************************************************)
(* Theorems about what Scheduler keeps beside its run queues, for every    *)
(* number of cores, threads and semaphores: the locks, the thread counts,  *)
(* the threads that have ended, and the counts of the semaphores.  The     *)
(* places of the threads (PlaceInv) decide who holds a lock, who is        *)
(* counted and who is left to take a unit.                                 *)
(***************************************************************************)
EXTENDS SchedulerProofs, FiniteSetTheorems

-----------------------------------------------------------------------------
(* The inductive invariants *)

\* Thread v is inside EnqueueThread, under the lock of core c's queue.
HoldsLock(v, c) == pc[v] = "start_push" /\ cpuId[target[v]] = c

\* A core's lock is taken by its own switch or by one starter, never by both.
LockInv ==
  \A c \in Cores :
    /\ queueLock[c] <=> act[c] = "switch" \/ \E v \in Threads : HoldsLock(v, c)
    /\ act[c] = "switch" => ~\E v \in Threads : HoldsLock(v, c)
    /\ \A v, w \in Threads : HoldsLock(v, c) /\ HoldsLock(w, c) => v = w

\* The threads a core is charged with: those that can run, and the one that
\* still runs although it sleeps or has ended.
Live(t) == (pc[t] # "new" /\ status[t] = "run") \/ \E c \in Cores : current[c] = t
OnCore(c) == {t \in Threads \ {Main[c]} : cpuId[t] = c /\ Live(t)}

CountInv ==
  \A c \in Cores : IsFiniteSet(OnCore(c)) /\ numThreads[c] = Cardinality(OnCore(c))

\* The threads that are awake inside Down of semaphore s.
Takers(s) == {t \in Threads : wants[t] = s /\ status[t] # "sleep"}

TakersInv ==
  /\ \A t \in Threads : wants[t] # None => pc[t] = "down"
  /\ \A s \in Semas :
       /\ IsFiniteSet(Takers(s))
       /\ waiters[s] # <<>> => cnt[s] <= Cardinality(Takers(s))

-----------------------------------------------------------------------------
(* The locks *)

\* A step that takes no lock, gives none back and moves no starter.
LEMMA LockKept ==
  ASSUME LockInv, UNCHANGED queueLock,
         \A c \in Cores : act'[c] = "switch" <=> act[c] = "switch",
         \A v \in Threads : pc'[v] = "start_push" <=> pc[v] = "start_push",
         \A v \in Threads : pc[v] = "start_push" => cpuId'[target'[v]] = cpuId[target[v]]
  PROVE  LockInv'
  <1>1. \A c \in Cores, v \in Threads : HoldsLock(v, c)' <=> HoldsLock(v, c)
    BY DEF HoldsLock
  <1> QED
    BY <1>1 DEF LockInv

LEMMA NextLock == TypeInv /\ PlaceInv /\ LockInv /\ [Next]_vars => LockInv'
  <1> SUFFICES ASSUME TypeInv, PlaceInv, LockInv, [Next]_vars PROVE LockInv'
    OBVIOUS
  <1>0. /\ StepOperands /\ Homes /\ Running /\ Started /\ UserCode /\ PushHome
    BY DEF PlaceInv
  <1>1. /\ act \in [Cores -> Act] /\ pc \in [Threads -> Pc] /\ queueLock \in [Cores -> BOOLEAN]
        /\ target \in [Threads -> Threads \cup {None}] /\ cpuId \in [Threads -> Nat]
    BY DEF TypeInv, TypeOK
  <1>2. CASE UNCHANGED vars
    BY <1>2, LockKept DEF vars, threadVars, flowVars, queueVars, coreVars
  <1>3. ASSUME NEW c \in Cores, Stays(c) PROVE LockInv'
    <2>1. current[c] \in Threads
      BY Operands
    <2>2. \A d \in Cores : act'[d] = "switch" <=> act[d] = "switch"
      BY <1>1, <1>3 DEF Stays
    <2>3. \A v \in Threads :
            /\ pc'[v] = "start_push" <=> pc[v] = "start_push"
            /\ pc[v] = "start_push" => cpuId'[target'[v]] = cpuId[target[v]]
      BY <1>3, <2>1 DEF Stays
    <2>4. UNCHANGED queueLock
      BY <1>3 DEF Stays
    <2> QED
      BY <2>2, <2>3, <2>4, LockKept
  <1>4. ASSUME NEW c \in Cores, Ends(c) PROVE LockInv'
    <2>1. \A v \in Threads :
            /\ pc'[v] = "start_push" <=> pc[v] = "start_push"
            /\ pc[v] = "start_push" => cpuId'[target'[v]] = cpuId[target[v]]
      BY <1>1, <1>4 DEF Ends
    <2>2. \A d \in Cores : act'[d] = "switch" <=> act[d] = "switch"
      BY <1>1, <1>4 DEF Ends
    <2> QED
      BY <1>4, <2>1, <2>2, LockKept DEF Ends
  <1>5. ASSUME NEW c \in Cores, YieldNoThread(c) PROVE LockInv'
    BY <1>1, <1>5, LockKept DEF YieldNoThread, threadVars, flowVars
  <1>6. ASSUME NEW c \in Cores, YieldPopNext(c) PROVE LockInv'
    <2>1. /\ ~queueLock[c] /\ queueLock' = [queueLock EXCEPT ![c] = TRUE]
          /\ act' = [act EXCEPT ![c] = "switch"]
          /\ UNCHANGED <<pc, target, cpuId>>
      BY <1>6 DEF YieldPopNext, Acquire, flowVars
    <2>2. \A d \in Cores, v \in Threads : HoldsLock(v, d)' <=> HoldsLock(v, d)
      BY <2>1 DEF HoldsLock
    <2> QED
      BY <1>1, <2>1, <2>2 DEF LockInv
  <1>7. ASSUME NEW c \in Cores, YieldSwitch(c) PROVE LockInv'
    <2>1. /\ act[c] = "switch" /\ queueLock' = [queueLock EXCEPT ![c] = FALSE]
          /\ UNCHANGED <<pc, target, cpuId>>
      BY <1>7 DEF YieldSwitch, flowVars
    <2>2. \A d \in Cores : IF d = c THEN act'[d] # "switch" ELSE act'[d] = act[d]
      BY <1>1, <1>7 DEF YieldSwitch
    <2>3. \A d \in Cores, v \in Threads : HoldsLock(v, d)' <=> HoldsLock(v, d)
      BY <2>1 DEF HoldsLock
    <2> QED
      BY <1>1, <2>1, <2>2, <2>3 DEF LockInv
  <1>8. ASSUME NEW c \in Cores, StartLock(c) PROVE LockInv'
    <2> DEFINE t == current[c]
               d == cpuId[target[t]]
    <2>1. t \in Threads /\ pc[t] = "start_lock" /\ d \in Cores
      BY <1>8, Operands DEF StartLock, InKernelAt
    <2>2. /\ ~queueLock[d] /\ queueLock' = [queueLock EXCEPT ![d] = TRUE]
          /\ pc' = [pc EXCEPT ![t] = "start_push"]
          /\ UNCHANGED <<act, target, cpuId>>
      BY <1>8 DEF StartLock, Acquire, threadVars, coreVars
    <2> HIDE DEF t
    <2>3. \A e \in Cores, v \in Threads :
            HoldsLock(v, e)' <=> HoldsLock(v, e) \/ (v = t /\ e = d)
      BY <1>1, <2>1, <2>2 DEF HoldsLock
    <2> HIDE DEF d
    <2> QED
      BY <1>1, <2>1, <2>2, <2>3 DEF LockInv
  <1>9. ASSUME NEW c \in Cores, StartPush(c) PROVE LockInv'
    <2> DEFINE t == current[c]
               d == cpuId[target[t]]
    <2>1. t \in Threads /\ pc[t] = "start_push" /\ d \in Cores
      BY <1>0, <1>9, Operands DEF StartPush, InKernelAt, PushHome
    <2>2. /\ queueLock' = [queueLock EXCEPT ![d] = FALSE]
          /\ pc' = [pc EXCEPT ![t] = "idle"]
          /\ target' = [target EXCEPT ![t] = None]
          /\ UNCHANGED <<act, cpuId>>
      BY <1>9 DEF StartPush, coreVars
    <2>3. HoldsLock(t, d)
      BY <2>1 DEF HoldsLock
    <2> HIDE DEF t, d
    <2>4. \A e \in Cores, v \in Threads : HoldsLock(v, e)' <=> HoldsLock(v, e) /\ v # t
      BY <1>1, <2>1, <2>2 DEF HoldsLock
    <2>5. \A e \in Cores : HoldsLock(t, e) => e = d
      BY DEF HoldsLock, d
    <2> QED
      BY <1>1, <2>1, <2>2, <2>3, <2>4, <2>5 DEF LockInv
  <1>10. ASSUME NEW c \in Cores, NEW u \in Threads, Start(c, u) PROVE LockInv'
    <2> DEFINE t == current[c]
    <2>1. t \in Threads /\ pc[t] = "idle" /\ pc[u] = "new"
      BY <1>10, Operands DEF Start, InThreadCode, InKernelAt
    <2>2. PICK home : cpuId' = [cpuId EXCEPT ![u] = home]
      BY <1>10 DEF Start
    <2>3. /\ pc' = [pc EXCEPT ![u] = "idle", ![t] = "start_lock"]
          /\ target' = [target EXCEPT ![t] = u]
          /\ UNCHANGED <<act, queueLock>>
      BY <1>10 DEF Start, coreVars
    <2> HIDE DEF t
    <2>4. \A v \in Threads :
            /\ pc'[v] = "start_push" <=> pc[v] = "start_push"
            /\ pc[v] = "start_push" => target'[v] = target[v]
      BY <1>1, <2>1, <2>3
    <2>5. \A v \in Threads : pc[v] = "start_push" => target[v] \in Threads /\ target[v] # u
      BY <1>0, <2>1, Operands DEF Started, IsStarter
    <2>6. \A v \in Threads : pc[v] = "start_push" => cpuId'[target'[v]] = cpuId[target[v]]
      BY <1>1, <2>2, <2>4, <2>5
    <2> QED
      BY <2>3, <2>4, <2>6, LockKept
  <1>11. ASSUME NEW c \in Cores, NEW s \in Semas, Up(c, s) PROVE LockInv'
    <2>1. \A d \in Cores : act'[d] = "switch" <=> act[d] = "switch"
      BY <1>1, <1>11 DEF Up, WakeFirst
    <2> QED
      BY <1>11, <2>1, LockKept DEF Up, flowVars
  <1>12. ASSUME NEW c \in Cores, UpEnqueueThread(c) PROVE LockInv'
    BY <1>1, <1>12, LockKept DEF UpEnqueueThread, flowVars
  <1>13. ASSUME NEW c \in Cores, NEW s \in Semas, Down(c, s) PROVE LockInv'
    <2>1. /\ act' \in {act, [act EXCEPT ![c] = "yield"]} /\ act[c] = "run"
          /\ UNCHANGED <<queueLock, target, cpuId>>
      BY <1>13 DEF Down, EnterYield, InKernelAt, queueVars
    <2>2. /\ current[c] \in Threads /\ pc[current[c]] \in {"idle", "down"}
          /\ pc' \in {[pc EXCEPT ![current[c]] = "idle"], [pc EXCEPT ![current[c]] = "down"]}
      BY <1>13, Operands DEF Down, InKernelAt
    <2>3. \A v \in Threads : pc'[v] = "start_push" <=> pc[v] = "start_push"
      BY <1>1, <2>2
    <2>4. \A d \in Cores : act'[d] = "switch" <=> act[d] = "switch"
      BY <1>1, <2>1
    <2> QED
      BY <2>1, <2>3, <2>4, LockKept
  <1>14. \A c \in Cores : ~TerminatePanic(c)
    BY Operands DEF PlaceInv, Running, Ended, TerminatePanic
  <1> QED
    BY <1>2, <1>3, <1>4, <1>5, <1>6, <1>7, <1>8, <1>9, <1>10, <1>11, <1>12, <1>13, <1>14,
       StayingSteps, EndingSteps DEF Next, KernelStep

-----------------------------------------------------------------------------
(* The thread counts *)

\* A step after which every thread is charged to the core it was charged to.
LEMMA CountKept ==
  ASSUME CountInv, UNCHANGED numThreads,
         \A c \in Cores, t \in Threads : t # Main[c] =>
           (cpuId'[t] = c /\ Live(t)' <=> cpuId[t] = c /\ Live(t))
  PROVE  CountInv'
  <1>1. \A c \in Cores : OnCore(c)' = OnCore(c)
    BY DEF OnCore
  <1> QED
    BY <1>1 DEF CountInv

\* A step that charges core c with one more thread.
LEMMA CountUp ==
  ASSUME CountInv, numThreads \in [Cores -> Int], NEW u \in Threads, NEW c,
         ~(c \in Cores /\ cpuId[u] = c /\ Live(u)), \A d \in Cores : u # Main[d],
         \A d \in Cores : numThreads'[d] = IF d = c THEN numThreads[d] + 1 ELSE numThreads[d],
         \A d \in Cores, t \in Threads :
           cpuId'[t] = d /\ Live(t)' <=> (cpuId[t] = d /\ Live(t)) \/ (t = u /\ d = c)
  PROVE  CountInv'
  <1> SUFFICES ASSUME NEW d \in Cores
               PROVE  IsFiniteSet(OnCore(d)') /\ numThreads'[d] = Cardinality(OnCore(d)')
    BY DEF CountInv
  <1>1. CASE d = c
    <2>1. OnCore(d)' = OnCore(d) \cup {u} /\ u \notin OnCore(d)
      BY <1>1 DEF OnCore
    <2> QED
      BY <1>1, <2>1, FS_AddElement, FS_CardinalityType DEF CountInv
  <1>2. CASE d # c
    <2>1. OnCore(d)' = OnCore(d)
      BY <1>2 DEF OnCore
    <2> QED
      BY <1>2, <2>1 DEF CountInv
  <1> QED
    BY <1>1, <1>2

LEMMA NextCount == TypeInv /\ PlaceInv /\ CountInv /\ [Next]_vars => CountInv'
  <1> SUFFICES ASSUME TypeInv, PlaceInv, CountInv, [Next]_vars PROVE CountInv'
    OBVIOUS
  <1>0. /\ StepOperands /\ Homes /\ Running /\ Marks /\ CanRun /\ Asleep /\ MainStays /\ Ended
    BY DEF PlaceInv
  <1>1. /\ status \in [Threads -> Status] /\ pc \in [Threads -> Pc]
        /\ numThreads \in [Cores -> Int] /\ current \in [Cores -> Threads]
        /\ cpuId \in [Threads -> Nat]
    BY DEF TypeInv, TypeOK
  \* Most steps change neither the homes nor who runs, and end or wake nobody
  \* but the current thread of a core.
  <1>2. ASSUME UNCHANGED <<numThreads, cpuId, current>>,
               \A t \in Threads :
                 \/ \E c \in Cores : current[c] = t
                 \/ (pc'[t] = "new" <=> pc[t] = "new") /\ (status'[t] = "run" <=> status[t] = "run")
        PROVE  CountInv'
    <2>1. \A t \in Threads : Live(t)' <=> Live(t)
      BY <1>2 DEF Live
    <2> QED
      BY <1>2, <2>1, CountKept
  <1>3. CASE UNCHANGED vars
    BY <1>2, <1>3 DEF vars, threadVars, flowVars, queueVars, coreVars
  <1>4. ASSUME NEW c \in Cores, Stays(c) PROVE CountInv'
    BY <1>2, <1>4 DEF Stays
  <1>5. ASSUME NEW c \in Cores, Ends(c) PROVE CountInv'
    <2>1. \A t \in Threads : t # current[c] => pc'[t] = pc[t] /\ status'[t] = status[t]
      BY <1>1, <1>5 DEF Ends
    <2> QED
      BY <1>2, <1>5, <2>1 DEF Ends
  <1>6. ASSUME NEW c \in Cores, YieldNoThread(c) PROVE CountInv'
    BY <1>2, <1>6 DEF YieldNoThread, threadVars, flowVars
  <1>7. ASSUME NEW c \in Cores, YieldPopNext(c) PROVE CountInv'
    <2>1. \A t \in Threads : t # current[c] => pc'[t] = pc[t] /\ status'[t] = status[t]
      BY <1>1, <1>7 DEF YieldPopNext, flowVars
    <2> QED
      BY <1>2, <1>7, <2>1 DEF YieldPopNext
  <1>8. ASSUME NEW c \in Cores, YieldSwitch(c) PROVE CountInv'
    <2>0. PICK t, n : t = current[c] /\ n = next[c]
      OBVIOUS
    <2>1. /\ t \in Threads /\ n \in Threads /\ cpuId[t] = c /\ cpuId[n] = c /\ n # t
          /\ status[n] = "run" /\ pc[n] # "new" /\ pc[t] # "new" /\ ~inQueue[t]
      BY <1>0, <1>8, <2>0, Operands DEF YieldSwitch, StepOperands, Homes, Marks, CanRun, Running
    <2>2. Requeued(t) <=> status[t] = "run"
      BY <1>0, <2>1 DEF Requeued, IsRunnable, Ended
    <2>3. /\ numThreads' = [numThreads EXCEPT ![c] = IF Requeued(t) THEN @ ELSE @ - 1]
          /\ current' = [current EXCEPT ![c] = n]
          /\ UNCHANGED <<status, pc, cpuId>>
      BY <1>8, <2>0, <2>1 DEF YieldSwitch, CountLeft, flowVars
    <2>4. Live(t) /\ Live(n) /\ (Live(t)' <=> status[t] = "run") /\ Live(n)'
      <3>1. \A d \in Cores : current[d] = t => d = c
        BY <1>0, <2>1 DEF Homes
      <3>2. Live(t) /\ Live(n)
        BY <2>0, <2>1 DEF Live
      <3>3. Live(t)' <=> status[t] = "run"
        BY <1>1, <2>1, <2>3, <3>1 DEF Live
      <3>4. Live(n)'
        BY <2>1, <2>3 DEF Live
      <3> QED
        BY <3>2, <3>3, <3>4
    <2>5. \A y \in Threads : y # t /\ y # n => (Live(y)' <=> Live(y))
      BY <1>1, <2>0, <2>3 DEF Live
    <2>6. CASE status[t] = "run"
      <3>1. UNCHANGED numThreads
        BY <1>1, <2>2, <2>3, <2>6
      <3> QED
        BY <2>3, <2>4, <2>5, <2>6, <3>1, CountKept
    <2>7. CASE status[t] # "run"
      <3>1. t # Main[c]
        BY <1>0, <2>7 DEF MainStays
      <3>2. t \in OnCore(c) /\ OnCore(c)' = OnCore(c) \ {t}
        BY <2>1, <2>3, <2>4, <2>5, <2>7, <3>1 DEF OnCore
      <3>3. \A d \in Cores : d # c => OnCore(d)' = OnCore(d)
        BY <2>1, <2>3, <2>4, <2>5 DEF OnCore
      <3>4. \A d \in Cores : numThreads'[d] = IF d = c THEN numThreads[d] - 1 ELSE numThreads[d]
        BY <1>1, <2>2, <2>3, <2>7
      <3>5. IsFiniteSet(OnCore(c)') /\ numThreads'[c] = Cardinality(OnCore(c)')
        BY <3>2, <3>4, FS_RemoveElement DEF CountInv
      <3> QED
        BY <3>3, <3>4, <3>5 DEF CountInv
    <2> QED
      BY <2>6, <2>7
  <1>9. ASSUME NEW c \in Cores, StartLock(c) \/ StartPush(c) PROVE CountInv'
    BY <1>2, <1>9, <1>1 DEF StartLock, StartPush, InKernelAt, threadVars, coreVars
  <1>10. ASSUME NEW c \in Cores, NEW u \in Threads, Start(c, u) PROVE CountInv'
    <2> DEFINE t == current[c]
    <2>0. PICK home : home = IF u \in Processes THEN core ELSE c
      OBVIOUS
    <2>1. t \in Threads /\ pc[t] = "idle" /\ pc[u] = "new"
      BY <1>10, Operands DEF Start, InThreadCode, InKernelAt
    <2>2. /\ cpuId' = [cpuId EXCEPT ![u] = home]
          /\ numThreads' = [d \in Cores |->
               IF d = home THEN numThreads[d] + 1 ELSE numThreads[d]]
          /\ pc' = [pc EXCEPT ![u] = "idle", ![t] = "start_lock"]
          /\ UNCHANGED <<status, current>>
      BY <1>10, <2>0 DEF Start, coreVars
    <2>3. /\ status[u] = "run" /\ (\A d \in Cores : current[d] # u) /\ u # t
          /\ \A d \in Cores : u # Main[d]
      BY <1>0, <2>1 DEF CanRun, Running, MainStays
    <2> HIDE DEF t
    <2>4. \A y \in Threads :
            /\ pc'[y] = IF y = t THEN "start_lock" ELSE IF y = u THEN "idle" ELSE pc[y]
            /\ cpuId'[y] = IF y = u THEN home ELSE cpuId[y]
      BY <1>1, <2>1, <2>2
    <2>5. ~Live(u) /\ Live(u)'
      BY <2>1, <2>2, <2>3, <2>4 DEF Live
    <2>6. \A y \in Threads : y # u => (Live(y)' <=> Live(y))
      <3>1. \A y \in Threads : y # u => (pc'[y] = "new" <=> pc[y] = "new")
        BY <2>1, <2>4
      <3> QED
        BY <2>2, <3>1 DEF Live
    <2>7. \A d \in Cores, y \in Threads :
            cpuId'[y] = d /\ Live(y)' <=> (cpuId[y] = d /\ Live(y)) \/ (y = u /\ d = home)
      BY <2>4, <2>5, <2>6
    <2>8. \A d \in Cores :
            numThreads'[d] = IF d = home THEN numThreads[d] + 1 ELSE numThreads[d]
      BY <2>2
    <2>9. ~(home \in Cores /\ cpuId[u] = home /\ Live(u)) /\ \A d \in Cores : u # Main[d]
      BY <2>3, <2>5
    <2>10. numThreads \in [Cores -> Int]
      BY <1>1
    <2> QED
      BY ONLY CountInv, u \in Threads, <2>7, <2>8, <2>9, <2>10, CountUp
  <1>11. ASSUME NEW c \in Cores, NEW s \in Semas, Up(c, s) PROVE CountInv'
    <2>1. CASE waiters[s] = <<>>
      <3>1. UNCHANGED <<numThreads, cpuId, current, pc, status>>
        BY <1>11, <2>1 DEF Up, WakeFirst, flowVars
      <3> QED
        BY <1>2, <3>1
    <2>2. CASE waiters[s] # <<>>
      <3>0. PICK w : w = Head(waiters[s])
        OBVIOUS
      <3>1. w \in Threads /\ In(waiters[s], w)
        BY <2>2, <3>0, Operands, InTail DEF PlaceInv, ListsExact
      <3>2. /\ status[w] = "sleep" /\ statusBeforeSleep[w] = "run" /\ pc[w] = "down"
            /\ cpuId[w] = c /\ act[c] = "run"
        BY <1>0, <1>11, <3>1 DEF Asleep, Homes, Up
      <3>3. /\ numThreads' = [numThreads EXCEPT ![c] = @ + 1]
            /\ status' = [status EXCEPT ![w] = "run"]
            /\ UNCHANGED <<cpuId, current, pc>>
        BY <1>11, <2>2, <3>0, <3>2 DEF Up, WakeFirst, flowVars
      <3>4. \A d \in Cores : current[d] # w /\ Main[d] # w
        BY <1>0, <3>2 DEF Running, Homes, MainStays
      <3>5. ~Live(w) /\ Live(w)' /\ \A y \in Threads : y # w => (Live(y)' <=> Live(y))
        BY <1>1, <3>1, <3>2, <3>3, <3>4 DEF Live
      <3>6. \A d \in Cores : numThreads'[d] = IF d = c THEN numThreads[d] + 1 ELSE numThreads[d]
        BY <1>1, <3>3
      <3>7. \A d \in Cores, y \in Threads :
              cpuId'[y] = d /\ Live(y)' <=> (cpuId[y] = d /\ Live(y)) \/ (y = w /\ d = c)
        BY <3>2, <3>3, <3>5
      <3>8. ~(c \in Cores /\ cpuId[w] = c /\ Live(w)) /\ \A d \in Cores : w # Main[d]
        BY <3>4, <3>5
      <3>9. numThreads \in [Cores -> Int] /\ w \in Threads
        BY <1>1, <3>1
      <3> QED
        BY ONLY CountInv, <3>6, <3>7, <3>8, <3>9, CountUp
    <2> QED
      BY <2>1, <2>2
  <1>12. ASSUME NEW c \in Cores, UpEnqueueThread(c) PROVE CountInv'
    BY <1>2, <1>12 DEF UpEnqueueThread, flowVars
  <1>13. ASSUME NEW c \in Cores, NEW s \in Semas, Down(c, s) PROVE CountInv'
    <2>1. \A t \in Threads : t # current[c] => pc'[t] = pc[t] /\ status'[t] = status[t]
      BY <1>1, <1>13 DEF Down, MakeSleep
    <2> QED
      BY <1>2, <1>13, <2>1 DEF Down, queueVars
  <1>14. \A c \in Cores : ~TerminatePanic(c)
    BY Operands DEF PlaceInv, Running, Ended, TerminatePanic
  <1> QED
    BY <1>3, <1>4, <1>5, <1>6, <1>7, <1>8, <1>9, <1>10, <1>11, <1>12, <1>13, <1>14,
       StayingSteps, EndingSteps DEF Next, KernelStep

-----------------------------------------------------------------------------
(* The units of the semaphores *)

\* A step that gives and takes no unit, wakes nobody, and moves nobody into or
\* out of Down.
LEMMA TakersKept ==
  ASSUME TakersInv, UNCHANGED <<wants, cnt, waiters>>,
         \A t \in Threads : pc[t] = "down" => pc'[t] = "down",
         \A t \in Threads : wants[t] # None => (status'[t] = "sleep" <=> status[t] = "sleep")
  PROVE  TakersInv'
  <1>1. \A s \in Semas : Takers(s)' = Takers(s)
    <2> SUFFICES ASSUME NEW s \in Semas PROVE Takers(s)' = Takers(s)
      OBVIOUS
    <2>1. s # None
      BY ConstantsAssumption
    <2> QED
      BY <2>1 DEF Takers
  <1> QED
    BY <1>1 DEF TakersInv

LEMMA NextTakers == TypeInv /\ PlaceInv /\ TakersInv /\ [Next]_vars => TakersInv'
  <1> SUFFICES ASSUME TypeInv, PlaceInv, TakersInv, [Next]_vars PROVE TakersInv'
    OBVIOUS
  <1>0. /\ StepOperands /\ Homes /\ Running /\ Asleep /\ Ended /\ UserCode
    BY DEF PlaceInv
  <1>1. /\ status \in [Threads -> Status] /\ pc \in [Threads -> Pc]
        /\ wants \in [Threads -> Semas \cup {None}] /\ cnt \in [Semas -> Nat]
        /\ waiters \in [Semas -> Seq(Threads)]
    BY DEF TypeInv, TypeOK
  <1>2. \A s \in Semas : s # None
    BY ConstantsAssumption
  <1>3. \A t \in Threads : wants[t] # None => pc[t] = "down"
    BY DEF TakersInv
  <1>4. CASE UNCHANGED vars
    BY <1>4, TakersKept DEF vars, threadVars, flowVars, semaVars
  <1>5. ASSUME NEW c \in Cores, Stays(c), UNCHANGED cnt PROVE TakersInv'
    <2>1. \A t \in Threads : pc[t] = "down" => pc'[t] = "down"
      BY <1>5 DEF Stays
    <2> QED
      BY <1>5, <2>1, TakersKept DEF Stays
  <1>6. ASSUME NEW c \in Cores, Ends(c), UNCHANGED cnt PROVE TakersInv'
    <2>1. \A t \in Threads : pc[t] = "down" => t # current[c]
      BY <1>6 DEF Ends
    <2>2. \A t \in Threads : t # current[c] => pc'[t] = pc[t] /\ status'[t] = status[t]
      BY <1>1, <1>6 DEF Ends
    <2> QED
      BY <1>3, <1>6, <2>1, <2>2, TakersKept DEF Ends
  <1>7. ASSUME NEW c \in Cores, YieldNoThread(c) PROVE TakersInv'
    BY <1>7, TakersKept DEF YieldNoThread, threadVars, flowVars, semaVars
  <1>8. ASSUME NEW c \in Cores, YieldPopNext(c) PROVE TakersInv'
    <2>1. UNCHANGED status
      <3>1. TerminateIfReady(current[c]) = status[current[c]]
        BY <1>0, Operands DEF TerminateIfReady, Ended
      <3> QED
        BY <1>1, <1>8, <3>1 DEF YieldPopNext
    <2> QED
      BY <1>8, <2>1, TakersKept DEF YieldPopNext, flowVars, semaVars
  <1>9. ASSUME NEW c \in Cores, YieldSwitch(c) PROVE TakersInv'
    BY <1>9, TakersKept DEF YieldSwitch, flowVars, semaVars
  <1>10. ASSUME NEW c \in Cores, StartLock(c) \/ StartPush(c) PROVE TakersInv'
    <2>1. \A t \in Threads : pc[t] = "down" => pc'[t] = "down"
      BY <1>1, <1>10 DEF StartLock, StartPush, InKernelAt
    <2> QED
      BY <1>10, <2>1, TakersKept DEF StartLock, StartPush, threadVars, semaVars
  <1>11. ASSUME NEW c \in Cores, NEW u \in Threads, Start(c, u) PROVE TakersInv'
    <2>1. \A t \in Threads : pc[t] = "down" => pc'[t] = "down"
      BY <1>1, <1>11 DEF Start, InThreadCode, InKernelAt
    <2> QED
      BY <1>11, <2>1, TakersKept DEF Start, semaVars
  <1>12. ASSUME NEW c \in Cores, NEW s \in Semas, Up(c, s) PROVE TakersInv'
    <2>0. /\ cnt' = [cnt EXCEPT ![s] = @ + 1]
          /\ UNCHANGED <<wants, pc>>
      BY <1>12 DEF Up, flowVars
    <2>1. CASE waiters[s] = <<>>
      <3>1. UNCHANGED <<status, waiters>>
        BY <1>12, <2>1 DEF Up, WakeFirst
      <3>2. \A r \in Semas : Takers(r)' = Takers(r)
        BY <2>0, <3>1 DEF Takers
      <3>3. \A r \in Semas : r # s => cnt'[r] = cnt[r]
        BY <1>1, <2>0
      <3> QED
        BY <2>0, <2>1, <3>1, <3>2, <3>3 DEF TakersInv
    <2>2. CASE waiters[s] # <<>>
      <3>0. PICK w : w = Head(waiters[s])
        OBVIOUS
      <3>1. w \in Threads /\ In(waiters[s], w)
        BY <2>2, <3>0, Operands, InTail DEF PlaceInv, ListsExact
      <3>2. /\ status[w] = "sleep" /\ statusBeforeSleep[w] = "run" /\ wants[w] = s
        BY <1>0, <3>1 DEF Asleep
      <3>3. /\ status' = [status EXCEPT ![w] = "run"]
            /\ \A r \in Semas : r # s => waiters'[r] = waiters[r]
        BY <1>1, <1>12, <2>2, <3>0, <3>2 DEF Up, WakeFirst
      <3>4. \A t \in Threads : status'[t] = IF t = w THEN "run" ELSE status[t]
        BY <1>1, <3>3
      <3>5. Takers(s)' = Takers(s) \cup {w} /\ w \notin Takers(s)
        BY <2>0, <3>1, <3>2, <3>4 DEF Takers
      <3>6. ASSUME NEW r \in Semas, r # s
            PROVE  Takers(r)' = Takers(r) /\ cnt'[r] = cnt[r] /\ waiters'[r] = waiters[r]
        BY <1>1, <2>0, <3>2, <3>3, <3>4, <3>6 DEF Takers
      <3>7. IsFiniteSet(Takers(s)') /\ Cardinality(Takers(s)') = Cardinality(Takers(s)) + 1
        BY <3>5, FS_AddElement DEF TakersInv
      <3>8. Cardinality(Takers(s)) \in Nat /\ cnt'[s] = cnt[s] + 1 /\ cnt[s] \in Nat
        BY <1>1, <2>0, FS_CardinalityType DEF TakersInv
      <3>9. cnt'[s] <= Cardinality(Takers(s)')
        BY <2>2, <3>7, <3>8 DEF TakersInv
      <3> QED
        BY <1>3, <2>0, <3>6, <3>7, <3>9 DEF TakersInv
    <2> QED
      BY <2>1, <2>2
  <1>13. ASSUME NEW c \in Cores, UpEnqueueThread(c) PROVE TakersInv'
    BY <1>13, TakersKept DEF UpEnqueueThread, flowVars, semaVars
  <1>14. ASSUME NEW c \in Cores, NEW s \in Semas, Down(c, s) PROVE TakersInv'
    <2>0. PICK t \in Threads : t = current[c]
      BY Operands
    <2>1. status[t] = "run" /\ (wants[t] = s \/ wants[t] = None)
      BY <1>0, <1>3, <1>14, <2>0 DEF Down, InKernelAt, Running
    <2>2. CASE cnt[s] > 0
      <3>1. /\ cnt' = [cnt EXCEPT ![s] = @ - 1]
            /\ pc' = [pc EXCEPT ![t] = "idle"]
            /\ wants' = [wants EXCEPT ![t] = None]
            /\ UNCHANGED <<status, waiters>>
        BY <1>14, <2>0, <2>2, SMTT(60) DEF Down
      <3>2. \A y \in Threads : wants'[y] # None => pc'[y] = "down"
        BY <1>1, <1>3, <3>1
      <3>3. Takers(s)' = Takers(s) \ {t}
        BY <1>1, <1>2, <3>1 DEF Takers
      <3>4. ASSUME NEW r \in Semas, r # s
            PROVE  Takers(r)' = Takers(r) /\ cnt'[r] = cnt[r]
        BY <1>1, <1>2, <2>1, <3>1, <3>4 DEF Takers
      <3>5. /\ IsFiniteSet(Takers(s)')
            /\ Cardinality(Takers(s)') >= Cardinality(Takers(s)) - 1
            /\ Cardinality(Takers(s)) \in Nat
        <4> DEFINE T == Takers(s)
        <4>1. IsFiniteSet(T)
          BY DEF TakersInv
        <4>2. Cardinality(T) \in Nat
          BY <4>1, FS_CardinalityType
        <4> HIDE DEF T
        <4>3. /\ IsFiniteSet(T \ {t})
              /\ Cardinality(T \ {t}) = IF t \in T THEN Cardinality(T) - 1 ELSE Cardinality(T)
          BY <4>1, FS_RemoveElement
        <4>4. Cardinality(T \ {t}) >= Cardinality(T) - 1
          BY <4>2, <4>3
        <4> QED
          BY <3>3, <4>2, <4>3, <4>4 DEF T
      <3>6. cnt'[s] = cnt[s] - 1 /\ cnt[s] \in Nat
        BY <1>1, <3>1
      <3>7. waiters[s] # <<>> => cnt'[s] <= Cardinality(Takers(s)')
        <4>1. Cardinality(Takers(s)') \in Nat
          BY <3>5, FS_CardinalityType
        <4> QED
          BY <3>5, <3>6, <4>1 DEF TakersInv
      <3> QED
        BY <3>1, <3>2, <3>4, <3>5, <3>7 DEF TakersInv
    <2>3. CASE cnt[s] = 0
      <3>1. /\ pc' = [pc EXCEPT ![t] = "down"]
            /\ wants' = [wants EXCEPT ![t] = s]
            /\ UNCHANGED cnt
        BY <1>14, <2>0, <2>3 DEF Down
      <3>2. /\ \A y \in Threads : y # t => status'[y] = status[y]
            /\ \A r \in Semas : r # s => waiters'[r] = waiters[r]
        BY <1>1, <1>14, <2>0, <2>3 DEF Down, MakeSleep
      <3>3. \A y \in Threads : wants'[y] # None => pc'[y] = "down"
        BY <1>1, <1>3, <3>1
      <3>4. Takers(s)' \subseteq Takers(s) \cup {t}
        BY <1>1, <3>1, <3>2 DEF Takers
      <3>5. IsFiniteSet(Takers(s)') /\ Cardinality(Takers(s)') \in Nat
        <4>1. IsFiniteSet(Takers(s) \cup {t})
          BY FS_AddElement DEF TakersInv
        <4> QED
          BY <3>4, <4>1, FS_Subset, FS_CardinalityType
      <3>6. ASSUME NEW r \in Semas, r # s PROVE Takers(r)' = Takers(r)
        BY <1>1, <1>2, <2>1, <3>1, <3>2, <3>6 DEF Takers
      <3>7. cnt'[s] <= Cardinality(Takers(s)')
        BY <2>3, <3>1, <3>5
      <3> QED
        BY <3>1, <3>2, <3>3, <3>5, <3>6, <3>7 DEF TakersInv
    <2> QED
      BY <1>1, <2>2, <2>3
  <1>15. \A c \in Cores : ~TerminatePanic(c)
    BY Operands DEF PlaceInv, Running, Ended, TerminatePanic
  <1>16. \A c \in Cores :
           \/ Yield(c) \/ TimerInterruptHandler(c) \/ SpinYield(c)
           \/ Delete(c) \/ SyscallEnter(c) \/ SyscallReturn(c)
           \/ PageFaultEnter(c) \/ PageFaultReturn(c)
           \/ (\E u \in Threads : Join(c, u))
           \/ Terminate(c) \/ PageFaultInvalid(c)
           => UNCHANGED cnt
    BY DEF Yield, TimerInterruptHandler, SpinYield, Delete, SyscallEnter, SyscallReturn,
           PageFaultEnter, PageFaultReturn, EnterKernel, Join, Terminate, PageFaultInvalid, semaVars
  <1> QED
    BY <1>4, <1>5, <1>6, <1>7, <1>8, <1>9, <1>10, <1>11, <1>12, <1>13, <1>14, <1>15, <1>16,
       StayingSteps, EndingSteps DEF Next, KernelStep

-----------------------------------------------------------------------------
(* The theorems *)

\* The end of boot: no lock is taken, and each queue holds the threads its
\* core is charged with.
LEMMA InitQueues == Init => LockInv /\ CountInv /\ TakersInv
  <1> SUFFICES ASSUME Init PROVE LockInv /\ CountInv /\ TakersInv
    OBVIOUS
  <1>1. LockInv
    BY DEF Init, LockInv, HoldsLock
  <1>2. TakersInv
    <2>1. \A s \in Semas : Takers(s) = {} /\ waiters[s] = <<>>
      BY ConstantsAssumption DEF Init, Takers
    <2>2. \A t \in Threads : wants[t] = None
      BY DEF Init
    <2> QED
      BY <2>1, <2>2, FS_EmptySet DEF TakersInv
  <1>3. ASSUME NEW c \in Cores
        PROVE  IsFiniteSet(OnCore(c)) /\ numThreads[c] = Cardinality(OnCore(c))
    <2> DEFINE q == Boot[c]
               T == {t \in Threads : In(q, t)}
    <2>1. q \in Seq(Threads) /\ numThreads[c] = Len(q) /\ Len(q) \in Nat
      BY ConstantsAssumption DEF Init
    <2>2. OnCore(c) = T
      <3>1. \A t \in T : t # Main[c] /\ BootCore(t) = c /\ InBoot(t)
        BY BootHomes, BootAssumption DEF In, InBoot
      <3>2. ASSUME NEW t \in Threads, t # Main[c], BootCore(t) = c, Live(t)
            PROVE  t \in T
        <4>1. \A d \in Cores : Main[d] # t
          BY <3>2, BootHomes
        <4>2. InBoot(t)
          BY <3>2, <4>1 DEF Init, Live
        <4>3. PICK d \in Cores : In(Boot[d], t)
          BY <4>2 DEF InBoot, In
        <4> QED
          BY <3>2, <4>3, BootHomes
      <3>3. \A t \in T : Live(t)
        BY <3>1 DEF Init, Live
      <3>4. \A t \in Threads : cpuId[t] = BootCore(t)
        BY DEF Init
      <3> QED
        BY <3>1, <3>2, <3>3, <3>4 DEF OnCore
    <2>3. \A i, j \in 1 .. Len(q) : q[i] = q[j] => i = j
      BY BootAssumption
    <2>4. q \in [1 .. Len(q) -> T] /\ \A t \in T : \E i \in 1 .. Len(q) : q[i] = t
      BY <2>1 DEF In
    <2> HIDE DEF q, T
    <2>5. ExistsBijection(1 .. Len(q), T)
      <3>1. q \in Injection(1 .. Len(q), T)
        BY <2>3, <2>4 DEF Injection, IsInjective
      <3>2. q \in Surjection(1 .. Len(q), T)
        BY <2>4 DEF Surjection
      <3> QED
        BY <3>1, <3>2 DEF ExistsBijection, Bijection
    <2>6. IsFiniteSet(1 .. Len(q)) /\ Cardinality(1 .. Len(q)) = Len(q)
      <3>1. \A n \in Nat :
              IsFiniteSet(1 .. n) /\ Cardinality(1 .. n) = IF 1 > n THEN 0 ELSE n - 1 + 1
        BY FS_Interval
      <3>2. \A n \in Nat : (IF 1 > n THEN 0 ELSE n - 1 + 1) = n
        OBVIOUS
      <3> QED
        BY <2>1, <3>1, <3>2
    <2>7. IsFiniteSet(T) /\ Cardinality(T) = Len(q)
      BY <2>5, <2>6, FS_Bijection
    <2> QED
      BY <2>1, <2>2, <2>7
  <1> QED
    BY <1>1, <1>2, <1>3 DEF CountInv

QueueInv == TypeInv /\ PlaceInv /\ LockInv /\ CountInv /\ TakersInv

LEMMA SpecQueue == Spec => []QueueInv
  <1>1. Init => QueueInv
    BY InitTypeInv, InitPlace, InitQueues DEF QueueInv
  <1>2. QueueInv /\ [Next]_vars => QueueInv'
    BY NextTypeInv, NextPlace, NextLock, NextCount, NextTakers DEF QueueInv
  <1> QED
    BY <1>1, <1>2, PTL DEF Spec

\* One actor at most is under the lock of a run queue.
LEMMA LocksExclude == TypeInv /\ LockInv => QueueLockExclusive
  <1> SUFFICES ASSUME TypeInv, LockInv, NEW c \in Cores
               PROVE  Cardinality(QueueLockHolders(c)) = IF queueLock[c] THEN 1 ELSE 0
    BY DEF QueueLockExclusive
  <1>1. QueueLockHolders(c) =
          {<<"handler", c>> : d \in {e \in {c} : act[e] = "switch"}} \cup
          {<<"start", v>> : v \in {w \in Threads : HoldsLock(w, c)}}
    BY DEF QueueLockHolders, HoldsLock
  <1>2. queueLock[c] \in BOOLEAN
    BY DEF TypeInv, TypeOK
  <1>3. CASE act[c] = "switch"
    <2>1. queueLock[c] /\ ~\E v \in Threads : HoldsLock(v, c)
      BY <1>3 DEF LockInv
    <2>2. QueueLockHolders(c) = {<<"handler", c>>}
      BY <1>1, <1>3, <2>1
    <2> QED
      BY <2>1, <2>2, FS_Singleton
  <1>4. CASE act[c] # "switch" /\ \E v \in Threads : HoldsLock(v, c)
    <2>1. PICK v \in Threads : HoldsLock(v, c)
      BY <1>4
    <2>2. queueLock[c] /\ \A w \in Threads : HoldsLock(w, c) => w = v
      BY <2>1 DEF LockInv
    <2>3. QueueLockHolders(c) = {<<"start", v>>}
      BY <1>1, <1>4, <2>1, <2>2
    <2> QED
      BY <2>2, <2>3, FS_Singleton
  <1>5. CASE act[c] # "switch" /\ ~\E v \in Threads : HoldsLock(v, c)
    <2>1. ~queueLock[c]
      BY <1>5 DEF LockInv
    <2>2. QueueLockHolders(c) = {}
      BY <1>1, <1>5
    <2> QED
      BY <2>1, <2>2, FS_EmptySet
  <1> QED
    BY <1>3, <1>4, <1>5

\* The threads a core is charged with are those that are somewhere on it.
LEMMA CountsExact == TypeInv /\ PlaceInv /\ CountInv => ThreadCountExact
  <1> SUFFICES ASSUME TypeInv, PlaceInv, CountInv PROVE ThreadCountExact
    OBVIOUS
  <1>1. \A t \in Threads : Counted(t) => Live(t)
    <2>1. \A t \in Threads : Starting(t) => pc[t] # "new" /\ status[t] = "run"
      BY DEF PlaceInv, Started, Starting, IsStarter
    <2>2. \A t \in Threads : Waking(t) => pc[t] # "new" /\ status[t] = "run"
      BY Operands DEF PlaceInv, CanRun, Waking
    <2>3. \A t \in Threads : Queued(t) \/ Chosen(t) => pc[t] # "new" /\ status[t] = "run"
      BY PlaceImplies DEF PlaceInv, CanRun, InQueueFlag
    <2> QED
      BY <2>1, <2>2, <2>3 DEF Counted, Live, Current
  <1>2. \A t \in Threads : Live(t) => Counted(t)
    BY PlaceImplies DEF Live, Counted, Current, NeverLost, IsRunnable
  <1>3. ASSUME NEW c \in Cores
        PROVE  OnCore(c) = {t \in Threads \ {Main[c]} : cpuId[t] = c /\ Counted(t)}
    BY <1>1, <1>2 DEF OnCore
  <1> QED
    BY <1>3 DEF CountInv, ThreadCountExact

\* The marks, locks and thread counts of the run queues are true of the queues
\* between any two steps, and no thread runs on after its last Yield.
THEOREM QueuesTrue == Spec => []QueuesAccounted
  <1>1. QueueInv => QueuesAccounted
    <2> SUFFICES ASSUME QueueInv PROVE QueuesAccounted
      OBVIOUS
    <2>1. InQueueFlag /\ QueueLockExclusive /\ ThreadCountExact
      BY PlaceImplies, LocksExclude, CountsExact DEF QueueInv
    <2>2. TerminateNeverReturns
      BY Operands DEF QueueInv, PlaceInv, Running, Ended, TerminateNeverReturns
    <2> QED
      BY <2>1, <2>2 DEF QueuesAccounted
  <1> QED
    BY <1>1, SpecQueue, PTL

\* While threads sleep in a semaphore's list, no unit is left without an awake
\* thread to take it: Up and Down lose no wake-up.
THEOREM NoWakeupLost == Spec => []NoLostWakeup
  <1>1. QueueInv => NoLostWakeup
    BY DEF QueueInv, TakersInv, Takers, NoLostWakeup
  <1> QED
    BY <1>1, SpecQueue, PTL

=============================================================================
