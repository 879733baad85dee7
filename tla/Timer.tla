------------------------------- MODULE Timer -------------------------------
(***************************************************************************)
(* How the cores come up (kmain.cc, apic.cc), which core the alarm clock   *)
(* thread of each of them is put on (scheduler.cc), and the sleeping and   *)
(* waking of threads by it (timer.cc).                                     *)
(*                                                                         *)
(* A core's timer is used by the threads of that core only, which the      *)
(* scheduler never moves.  A critical section in which nothing but the     *)
(* clock can change is one step.                                           *)
(***************************************************************************)
EXTENDS Integers

CONSTANTS
  NumCores,
  Sleepers,        \* the threads that sleep
  CpuOf(_),        \* the core of a thread
  Ticks,           \* for how many ticks a thread may sleep
  MaxTick          \* the clocks stop here

ASSUME TimerAssumption ==
  /\ NumCores \in Nat \ {0}
  /\ \A t \in Sleepers : CpuOf(t) \in 0 .. NumCores - 1
  /\ Ticks \subseteq Nat
  /\ MaxTick \in Nat

BSP == 0
Cores == 0 .. NumCores - 1
NoCore == -1

VARIABLES
  boot,                   \* where each core is in its boot
  waking,                 \* the AP that the BSP wakes up
  context_slot,           \* the context at 0x199B, named by its cpu_id
  context,                \* the context a core has loaded
  ap_boot_done,           \* of a context
  is_multicore_enabled_,
  core,                   \* round robin of the threads that are started
  clock_core,             \* the core that the alarm clock a core has started runs on
  clock_pc,               \* "yield", or "scan" inside of the critical section
  timer_tick_,
  waiting_threads_,       \* of a thread: its tick and whether it is on
  sema,                   \* of a thread: the count of the semaphore it sleeps on
  asleep,                 \* of a thread: whether it is inside of Sleep
  due                     \* history: when the thread should wake at the earliest

boots == <<boot, waking, context_slot, context, ap_boot_done, is_multicore_enabled_, core, clock_core>>
sleeps == <<waiting_threads_, sema, asleep, due>>
timer == <<boots, clock_pc, timer_tick_, sleeps>>

NoEntry == [timer_tick |-> 0, on |-> TRUE]

TimerInit ==
  /\ boot = [c \in Cores |-> IF c = BSP THEN "enqueue" ELSE "off"]
  /\ waking = BSP
  /\ context_slot = NoCore
  /\ context = [c \in Cores |-> IF c = BSP THEN BSP ELSE NoCore]
  /\ ap_boot_done = [c \in Cores |-> FALSE]
  /\ is_multicore_enabled_ = FALSE
  /\ core = 1 % NumCores
  /\ clock_core = [c \in Cores |-> NoCore]
  /\ clock_pc = [c \in Cores |-> "yield"]
  /\ timer_tick_ = [c \in Cores |-> 0]
  /\ waiting_threads_ = [t \in Sleepers |-> NoEntry]
  /\ sema = [t \in Sleepers |-> 0]
  /\ asleep = [t \in Sleepers |-> FALSE]
  /\ due = [t \in Sleepers |-> 0]
-----------------------------------------------------------------------------
(* Starting the alarm clock of a core *)

\* EnqueueThreadFirstTime reads core and advances it in two steps, and without a
\* lock.  Before all cores are up a thread stays where it was created.
RegisterAlarmClock(c) ==
  /\ boot[c] = "enqueue"
  /\ clock_core' = [clock_core EXCEPT ![c] = IF is_multicore_enabled_ THEN core ELSE c]
  /\ boot' = [boot EXCEPT ![c] = IF is_multicore_enabled_ THEN "count" ELSE "wake"]
  /\ UNCHANGED <<waking, context_slot, context, ap_boot_done, is_multicore_enabled_, core,
                 clock_pc, timer_tick_, sleeps>>

\* The build may read core a second time here, or go by the value it has.
CountCore(c) ==
  /\ boot[c] = "count"
  /\ \E seen \in {core, clock_core[c]} : core' = (seen + 1) % NumCores
  /\ boot' = [boot EXCEPT ![c] = "up"]
  /\ UNCHANGED <<waking, context_slot, context, ap_boot_done, is_multicore_enabled_, clock_core,
                 clock_pc, timer_tick_, sleeps>>
-----------------------------------------------------------------------------
(* SendWakeUpAllCores on the BSP, and KernelMainForAP *)

\* Fault: the 20 ticks that the BSP sleeps are taken to be enough.
ApIsReadyAfterSleep == TRUE

\* The BSP loops until the AP before has finished its setup.
ApIsReady == waking = BSP \/ ap_boot_done[waking]

WakeUpCore ==
  /\ boot[BSP] = "wake"
  /\ waking + 1 \in Cores
  /\ ApIsReady
  /\ waking' = waking + 1
  /\ context_slot' = waking + 1
  /\ boot' = [boot EXCEPT ![waking + 1] = "sipi"]
  /\ UNCHANGED <<context, ap_boot_done, is_multicore_enabled_, core, clock_core, clock_pc,
                 timer_tick_, sleeps>>

EnableMulticore ==
  /\ boot[BSP] = "wake"
  /\ waking + 1 \notin Cores
  /\ ApIsReady
  /\ is_multicore_enabled_' = TRUE
  /\ boot' = [boot EXCEPT ![BSP] = "up"]
  /\ UNCHANGED <<waking, context_slot, context, ap_boot_done, core, clock_core, clock_pc,
                 timer_tick_, sleeps>>

\* boot_ap.S finds its context at 0x199B.
LoadContext(c) ==
  /\ boot[c] = "sipi"
  /\ context' = [context EXCEPT ![c] = context_slot]
  /\ boot' = [boot EXCEPT ![c] = "wait"]
  /\ UNCHANGED <<waking, context_slot, ap_boot_done, is_multicore_enabled_, core, clock_core,
                 clock_pc, timer_tick_, sleeps>>

ApBootDone(c) ==
  /\ boot[c] = "wait" /\ ~ap_boot_done[context[c]]
  /\ ap_boot_done' = [ap_boot_done EXCEPT ![context[c]] = TRUE]
  /\ UNCHANGED <<boot, waking, context_slot, context, is_multicore_enabled_, core, clock_core,
                 clock_pc, timer_tick_, sleeps>>

MulticoreIsEnabled(c) ==
  /\ boot[c] = "wait" /\ ap_boot_done[context[c]]
  /\ is_multicore_enabled_
  /\ boot' = [boot EXCEPT ![c] = "enqueue"]
  /\ UNCHANGED <<waking, context_slot, context, ap_boot_done, is_multicore_enabled_, core,
                 clock_core, clock_pc, timer_tick_, sleeps>>
-----------------------------------------------------------------------------
(* Sleeping and waking *)

ClocksOn(c) == {a \in Cores : clock_core[a] = c}
SemaIsFree(c) == \A a \in ClocksOn(c) : clock_pc[a] = "yield"

TimerInterrupt(c) ==
  /\ \A a \in Cores : boot[a] = "up"
  /\ timer_tick_[c] < MaxTick
  /\ timer_tick_' = [timer_tick_ EXCEPT ![c] = @ + 1]
  /\ UNCHANGED <<boots, clock_pc, sleeps>>

\* Fault: an old entry keeps its mark.
EntryStillOn(t, num_tick) ==
  [timer_tick |-> timer_tick_[CpuOf(t)] + num_tick,
   on |-> waiting_threads_[t] # NoEntry /\ waiting_threads_[t].on]

\* The entry of a thread that sleeps: a new one, or its old one that is used again.
Entry(t, num_tick) == [timer_tick |-> timer_tick_[CpuOf(t)] + num_tick, on |-> FALSE]

Sleep(t, num_tick) ==
  /\ boot[CpuOf(t)] = "up"
  /\ ~asleep[t]
  /\ SemaIsFree(CpuOf(t))
  /\ timer_tick_[CpuOf(t)] + num_tick <= MaxTick
  /\ waiting_threads_' = [waiting_threads_ EXCEPT ![t] = Entry(t, num_tick)]
  /\ due' = [due EXCEPT ![t] = timer_tick_[CpuOf(t)] + num_tick]
  /\ asleep' = [asleep EXCEPT ![t] = TRUE]
  /\ UNCHANGED <<boots, clock_pc, timer_tick_, sema>>

\* The semaphore of its entry lets the thread go on.
SleepDown(t) ==
  /\ asleep[t] /\ sema[t] > 0
  /\ sema' = [sema EXCEPT ![t] = @ - 1]
  /\ asleep' = [asleep EXCEPT ![t] = FALSE]
  /\ UNCHANGED <<boots, clock_pc, timer_tick_, waiting_threads_, due>>

ClockDown(a) ==
  /\ clock_core[a] # NoCore
  /\ clock_pc[a] = "yield"
  /\ SemaIsFree(clock_core[a])
  /\ clock_pc' = [clock_pc EXCEPT ![a] = "scan"]
  /\ UNCHANGED <<boots, timer_tick_, sleeps>>

ToWake(c) == {t \in Sleepers : CpuOf(t) = c /\ ~waiting_threads_[t].on
                                /\ waiting_threads_[t].timer_tick <= timer_tick_[c]}

HandleWaitingThreads(a) ==
  /\ clock_pc[a] = "scan"
  /\ IF ToWake(clock_core[a]) = {}
     THEN /\ clock_pc' = [clock_pc EXCEPT ![a] = "yield"]
          /\ UNCHANGED sleeps
     ELSE \E t \in ToWake(clock_core[a]) :
            /\ waiting_threads_' = [waiting_threads_ EXCEPT ![t].on = TRUE]
            /\ sema' = [sema EXCEPT ![t] = @ + 1]
            /\ UNCHANGED <<clock_pc, asleep, due>>
  /\ UNCHANGED <<boots, timer_tick_>>
-----------------------------------------------------------------------------
ClockStep(a) == ClockDown(a) \/ HandleWaitingThreads(a)
BootStep(c) == RegisterAlarmClock(c) \/ CountCore(c) \/ LoadContext(c) \/ ApBootDone(c)
               \/ MulticoreIsEnabled(c) \/ (c = BSP /\ (WakeUpCore \/ EnableMulticore))

TimerNext ==
  \/ \E c \in Cores : BootStep(c) \/ ClockStep(c) \/ TimerInterrupt(c)
  \/ \E t \in Sleepers : SleepDown(t) \/ \E n \in Ticks : Sleep(t, n)
-----------------------------------------------------------------------------
(* Properties *)

\* An AP runs with the context, and so on the stack and with the cpu_id, that was
\* made for it, although all find theirs at the same address.
OwnContext == \A c \in Cores : context[c] \in {NoCore, c}

\* Everybody on a core with an alarm clock, or with two, returns from Sleep.  That
\* every core has one holds only if no two threads are started at the same time.
SleepEnds == \A t \in Sleepers : asleep[t] /\ ClocksOn(CpuOf(t)) # {} ~> ~asleep[t]

=============================================================================
