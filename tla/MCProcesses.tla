---------------------------- MODULE MCProcesses ----------------------------
(***************************************************************************)
(* Instances of Processes.  DupInTable is how the programs of user/ call   *)
(* dup2: on descriptors they have.                                         *)
(***************************************************************************)
EXTENDS Processes

TwoBits(p) == p % 4

DupInTable(fds) == fds \ {STDIN, STDERR}
=============================================================================
