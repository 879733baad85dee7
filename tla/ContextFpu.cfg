\* Two processes and a kernel thread on one core.
SPECIFICATION SwitchSpec
CONSTANTS
  Users = {u1, u2}
  Kernels = {k}
INVARIANT
  FpuKept
CHECK_DEADLOCK FALSE
