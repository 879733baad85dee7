-------------------------------- MODULE Kill --------------------------------
(***************************************************************************)
(* Ctrl-C on the console: AddKeyStroke, running in the keyboard interrupt  *)
(* of core 0, calls MakeTerminateReady on the foreground process, whatever *)
(* that process is doing on its own core at that moment.                   *)
(***************************************************************************)
EXTENDS Scheduler

\* KernelConsole::AddKeyStroke for ctrl-c: fg_process_ is p until the thread
\* that waits for it returns from Join.
AddKeyStrokeCtrlC(p) ==
  /\ act[0] = "run"
  /\ pc[p] # "new"
  /\ p \notin freed /\ ~\E v \in Threads : pc[v] = "delete" /\ target[v] = p
  /\ status' = [status EXCEPT ![p] = "terminate_ready"]
  /\ statusBeforeSleep' = [statusBeforeSleep EXCEPT ![p] = "terminate_ready"]
  /\ UNCHANGED <<inQueue, cpuId, flowVars, queueVars, coreVars, semaVars, freed>>

KillNext == Next \/ \E p \in Processes : AddKeyStrokeCtrlC(p)

KillSpec == Init /\ [][KillNext]_vars

\* The scheduler's fairness; nobody is obliged to press a key, and nobody
\* presses ctrl-c for ever.
KillLiveSpec ==
  /\ KillSpec
  /\ Fairness
  /\ <>[][\A p \in Processes : ~AddKeyStrokeCtrlC(p)]_vars

-----------------------------------------------------------------------------
\* A process has left its core for good.
Dead(t) ==
  /\ status[t] = "terminate"
  /\ ~(Current(t) \/ Queued(t) \/ Chosen(t) \/ Waking(t) \/ Starting(t) \/ Waiting(t))

\* A process killed while it computes in user mode is off its core for good
\* soon after, whether the timer or its next entry into the kernel comes first;
\* or a second ctrl-c caught it between MakeTerminate and the switch, which
\* brings it back to the PANIC() after its last Yield.
KilledInUserDies ==
  \A t \in Processes :
    (status[t] = "terminate_ready" /\ ctx[t] = "user" /\ Current(t))
      ~> (Dead(t) \/ \E c \in Cores : current[c] = t /\ act[c] = "panic")

=============================================================================
