----------------------------- MODULE MCScheduler -----------------------------
(***************************************************************************)
(* Model values for Scheduler: the init threads m0 and m1, kernel threads  *)
(* a and b and a user process p, on one or two cores.                      *)
(***************************************************************************)
EXTENDS Scheduler, TLC

CONSTANTS m0, m1, a, b, p, s0, s1

\* Two cores.
Main2     == 0 :> m0 @@ 1 :> m1
Boot2     == 0 :> <<a>> @@ 1 :> <<b>>
SemaCore2 == s0 :> 0 @@ s1 :> 1
InitCnt2  == s0 :> 0 @@ s1 :> 1

\* One core.
Main1     == 0 :> m0
Boot3     == 0 :> <<a, p>>
SemaCore1 == s0 :> 0
InitCnt1  == s0 :> 0

=============================================================================
