----------------------------- MODULE MCDevices -----------------------------
(***************************************************************************)
(* Instances of the timer and of the disk driver.  They share no variable, *)
(* so that the run looks at one at a time.                                 *)
(***************************************************************************)
EXTENDS Timer, Ata

VARIABLE part

Modulo(t) == t % NumCores

Init ==
  /\ TimerInit
  /\ AtaInit
  /\ part \in {"timer", "disk"}

Next ==
  \/ part = "timer" /\ TimerNext /\ UNCHANGED <<part, ata>>
  \/ part = "disk" /\ AtaNext /\ UNCHANGED <<part, timer>>

\* A core boots and its clock ticks, and the scheduler gives every thread its turn.
TimerFairness ==
  /\ \A c \in Cores : /\ WF_timer(part = "timer" /\ (BootStep(c) \/ TimerInterrupt(c)))
                     /\ WF_timer(part = "timer" /\ ClockStep(c))
  /\ \A t \in Sleepers : WF_timer(part = "timer" /\ SleepDown(t))

\* The disk answers, its interrupt is handled and threads get their turn; one that
\* spins for the lock gets it sooner or later.
AtaFairness ==
  /\ WF_ata(part = "disk" /\ (DriveStep \/ ATAHandler))
  /\ \A u \in Users : SF_ata(part = "disk" /\ UserStep(u))

Spec == Init /\ [][Next]_<<part, timer, ata>> /\ TimerFairness /\ AtaFairness
=============================================================================
