------------------------------- MODULE MCKill -------------------------------
(***************************************************************************)
(* Model values for Kill: the init threads m0 and m1, and a user process p *)
(* that boot has put on core 1.                                            *)
(***************************************************************************)
EXTENDS Kill, TLC

CONSTANTS m0, m1, a, p, s1

Main2     == 0 :> m0 @@ 1 :> m1
Boot2     == 0 :> <<a>> @@ 1 :> <<p>>
SemaCore1 == s1 :> 1
InitCnt1  == s1 :> 0
NoFun     == [s \in {} |-> 0]

=============================================================================
