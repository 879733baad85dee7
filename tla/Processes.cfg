\* Three processes, two descriptors besides the console's, two presses of ctrl-c.
\* Exit codes of 0 .. 3 where int holds 0 .. 1.  Everything may have ended.
CONSTANTS
  Pids = {1, 2, 3}
  MaxPrograms = 1
  MaxDescs = 2
  MaxCalls = 2
  MaxKills = 1
  ExitCode <- TwoBits
  IntRange = 2
  DupTargets <- DupInTable
SPECIFICATION Spec
INVARIANTS  WaitpidExact
PROPERTIES DescriptorKept WaitpidReturns
CHECK_DEADLOCK FALSE
