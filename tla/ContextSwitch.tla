--------------------------- MODULE ContextSwitch ---------------------------
(***************************************************************************)
(* One core as its instructions see it: the registers, the kernel stacks,  *)
(* and what moves a thread in and out of the kernel and off the core       *)
(* (interrupt_handler.S, syscall.cc, user/libc/syscall.c, and of           *)
(* scheduler.cc and paging.cc what they do with saved registers).          *)
(*                                                                         *)
(* A register holds a token that says whose code put it there.  What runs  *)
(* with interrupts disabled is one step.  All threads are runnable: who is *)
(* chosen, sleeps or ends is the matter of Scheduler.                      *)
(***************************************************************************)
EXTENDS Integers, Sequences, FiniteSets, SequencesExt, Functions

CONSTANTS Users,     \* processes
          Kernels    \* kernel threads, not empty: the first thread of a core is one

\* A thread is a process or not (KernelThread::IsKernelThread).
ASSUME ContextsAssumption == Users \cap Kernels = {}

VARIABLES
  cur,               \* the current thread, at fs:0
  cpu,               \* rip, cs, rflags, rsp and the other registers
  stack,             \* what lies on the kernel stacks, from their tops on
  user_stack,        \* what a stub of the C library has pushed
  kernel_regs_, user_regs_, in_kernel_space_,
  rsp0,              \* the thread whose kernel_stack_top_ is in the TSS
  cr3,               \* the process whose page table is loaded
  fpu, fxsaved_region_,
  alone,             \* what each thread would find if it had a core to itself
  lost               \* something was written over a kernel stack in use

cpuState == <<cur, cpu, rsp0, cr3, fpu>>
saved == <<kernel_regs_, user_regs_, in_kernel_space_, fxsaved_region_>>
switchVars == <<cpuState, saved, stack, user_stack, alone, lost>>

Contexts == Users \cup Kernels
-----------------------------------------------------------------------------
(* Registers *)

\* The order of the pushes of the interrupt handlers, and of their pops.
Pushes == <<"r15", "r14", "r13", "r12", "r11", "r10", "r9", "r8",
            "rdi", "rsi", "rdx", "rcx", "rbx", "rax", "rbp">>
Pops == <<"rbp", "rax", "rbx", "rcx", "rdx", "rsi", "rdi", "r8", "r9",
          "r10", "r11", "r12", "r13", "r14", "r15">>

\* The fields of InterruptHandlerSavedRegs, from the stack pointer upward.
SavedRegs == <<"rbp", "rax", "rbx", "rcx", "rdx", "rsi", "rdi", "r8", "r9",
               "r10", "r11", "r12", "r13", "r14", "r15">>

Regs == Range(Pushes)

\* What C code keeps for its caller; the stubs push what the kernel's entry
\* uses before it gets to C code.
CalleeSaved == {"rbx", "rbp", "r12", "r13", "r14", "r15"}
StubPushes == {"rbx", "r12", "r13", "r14", "r15"}

At(names, f) == CHOOSE i \in DOMAIN names : names[i] = f

\* The pushed registers as the handler's C code sees them, and back.
AsStruct(regs) == [f \in Regs |-> regs[Reverse(Pushes)[At(SavedRegs, f)]]]
Popped(struct) == [r \in Regs |-> struct[SavedRegs[At(Pops, r)]]]

\* Every register holds something of the code that runs.
FilledBy(code) == [r \in Regs |-> <<code, r>>]

Frame == [cpu EXCEPT !.regs = AsStruct(@)]
Return(frame) == [frame EXCEPT !.regs = Popped(@)]

UserRsp == <<"user", 0>>
KernelRsp(t, depth) == <<t, depth>>
IsKernelMemory(rip) == rip \notin {"user", "stub"}

\* Where the core pushes the frame of an interrupt: on the stack it is on, or on
\* the one in the TSS when it comes from a program.
FrameRsp == IF cpu.cs = "kernel" THEN cpu.rsp ELSE KernelRsp(rsp0, 0)

\* Something that is in use lies there.
Overwrites(rsp) == Len(stack[rsp[1]]) > rsp[2]
-----------------------------------------------------------------------------
(* States *)

KernelCode(t) == [rip |-> "code", cs |-> "kernel", rflags |-> "set", rsp |-> KernelRsp(t, 0),
                  regs |-> FilledBy("code")]
UserEntry == [rip |-> "user", cs |-> "user", rflags |-> "this", rsp |-> UserRsp,
              regs |-> FilledBy("this")]

\* What a place holds after it has been read: nobody looks there again.
Stale == [UserEntry EXCEPT !.rip = "stale", !.regs = FilledBy("stale")]

\* A kernel thread that has not run yet and a process that has not.
SwitchInit ==
  /\ cur \in Kernels /\ cpu = KernelCode(cur)
  /\ rsp0 = "unset" /\ cr3 = "kernel" /\ fpu = "unset"
  /\ kernel_regs_ = [t \in Contexts |-> IF t \in Kernels THEN KernelCode(t) ELSE Stale]
  /\ user_regs_ = [t \in Contexts |-> IF t \in Users THEN UserEntry ELSE Stale]
  /\ in_kernel_space_ = [u \in Users |-> FALSE]
  /\ fxsaved_region_ = [u \in Users |-> "unset"]
  /\ stack = [t \in Contexts |-> <<>>]
  /\ user_stack = [u \in Users |-> <<>>]
  /\ alone = [t \in Contexts |-> <<IF t \in Users THEN UserEntry ELSE KernelCode(t)>>]
  /\ lost = FALSE

\* The current thread goes on to a state of its own.
Goes(new) == cpu' = new /\ alone' = [alone EXCEPT ![cur] = Append(Front(@), new)]

\* It enters or leaves an inner level of its own.
Enters(new) == cpu' = new /\ alone' = [alone EXCEPT ![cur] = Append(@, new)]

\* The program computes, with all registers.
UserStep ==
  /\ cpu.rip = "user"
  /\ \E code \in {"this", "that"} :
       /\ cpu.regs["rbx"] # <<code, "rbx">>
       /\ Goes([cpu EXCEPT !.regs = FilledBy(code), !.rflags = code])
       /\ fpu' = cur
  /\ UNCHANGED <<cur, rsp0, cr3, saved, stack, user_stack, lost>>

\* So does a kernel thread; handlers do as they go on.
KernelStep ==
  /\ cpu.regs = FilledBy("code")
  /\ Goes([cpu EXCEPT !.regs = FilledBy("on")])
  /\ UNCHANGED <<cur, rsp0, cr3, fpu, saved, stack, user_stack, lost>>
-----------------------------------------------------------------------------
(* System calls *)

\* The order of the moves to the registers of the C calling convention.
Moves == << <<"r8", "r9">>, <<"r10", "r8">>, <<"rdx", "rcx">>, <<"rsi", "rdx">>,
            <<"rdi", "rsi">>, <<"rax", "rdi">> >>

Moved(regs) ==
  LET do(f, i) == [f EXCEPT ![Moves[i][2]] = f[Moves[i][1]]]
  IN  do(do(do(do(do(do(regs, 1), 2), 3), 4), 5), 6)

\* What the instruction does and the handler before it touches the stack.
AfterSyscall ==
  [cpu.regs EXCEPT !["rcx"] = "stub", !["r11"] = cpu.rflags, !["r12"] = cpu.rsp, !["rbx"] = cur]

\* The number and the six arguments as the stub puts them and as SyscallHandler
\* gets them: six in registers, the last one as the top of the stack.
Meant == [i \in 1 .. 7 |-> cpu.regs[<<"rax", "rdi", "rsi", "rdx", "r10", "r8", "r9">>[i]]]
Got(regs, top) == [i \in 1 .. 6 |-> regs[<<"rdi", "rsi", "rdx", "rcx", "r8", "r9">>[i]]] \o <<top>>

\* What the handler leaves on the kernel stack, and the C code below it.
SyscallFrame(regs) ==
  [pushed |-> <<regs["r12"], regs["r11"], regs["rcx"], regs["r9"]>>,
   kept   |-> Restrict(Moved(regs), CalleeSaved),
   meant  |-> Meant,
   got    |-> Got(Moved(regs), regs["r9"])]

\* From the stub's pushes to EnableInterrupt; the flags are masked until then.
Syscall ==
  /\ cpu.rip = "user" /\ cur \in Users
  /\ user_stack' = [user_stack EXCEPT ![cur] = Restrict(cpu.regs, StubPushes)]
  /\ stack' = [stack EXCEPT ![cur] = <<SyscallFrame(AfterSyscall)>>]
  /\ Enters([rip |-> "syscall", cs |-> "kernel", rflags |-> "set", rsp |-> KernelRsp(cur, 1),
             regs |-> FilledBy("syscall")])
  /\ lost' = Overwrites(KernelRsp(cur, 0))
  /\ UNCHANGED <<cur, rsp0, cr3, fpu, saved>>

\* The end of SyscallHandler, with interrupts enabled.
SetRSP0 ==
  /\ cpu.rip = "syscall"
  /\ rsp0' = cur
  /\ Goes([cpu EXCEPT !.rip = "exit", !.regs = FilledBy("exit")])
  /\ UNCHANGED <<cur, cr3, fpu, saved, stack, user_stack, lost>>

\* Fault: the flags and the address are popped in the order of the pushes.
PopOrderSwapped == <<"r9", "r11", "rcx", "r12">>

SyscallPops == <<"r9", "rcx", "r11", "r12">>

\* The registers after the return from C code and the pops.
AfterPops(frame) ==
  LET returned == [r \in Regs |-> IF r \in CalleeSaved THEN frame.kept[r] ELSE <<"result", r>>]
      pop(f, i) == [f EXCEPT ![SyscallPops[i]] = Reverse(frame.pushed)[i]]
  IN  pop(pop(pop(pop(returned, 1), 2), 3), 4)

Sysret ==
  /\ cpu.rip = "exit"
  /\ LET regs == AfterPops(Last(stack[cur]))
     IN  cpu' = [rip |-> regs["rcx"], cs |-> "user", rflags |-> regs["r11"], rsp |-> regs["r12"],
                 regs |-> regs]
  /\ stack' = [stack EXCEPT ![cur] = Front(@)]
  /\ LET caller == alone[cur][Len(alone[cur]) - 1]
         results == [r \in Regs |-> IF r \in CalleeSaved THEN caller.regs[r] ELSE cpu'.regs[r]]
     IN  alone' = [alone EXCEPT ![cur] =
                     Append(Front(Front(@)), [caller EXCEPT !.rip = "stub", !.regs = results])]
  /\ UNCHANGED <<cur, rsp0, cr3, fpu, saved, user_stack, lost>>

\* The stub pops what it has pushed.
AfterStub == IF cpu.rip # "stub" THEN cpu
             ELSE [cpu EXCEPT !.rip = "user",
                     !.regs = [r \in Regs |-> IF r \in StubPushes THEN user_stack[cur][r]
                                              ELSE @[r]]]

StubReturn ==
  /\ cpu.rip = "stub"
  /\ Goes(AfterStub)
  /\ user_stack' = [user_stack EXCEPT ![cur] = <<>>]
  /\ UNCHANGED <<cur, rsp0, cr3, fpu, saved, stack, lost>>
-----------------------------------------------------------------------------
(* Page faults *)

\* In a program, or where a system call reads or writes what the program gave
\* it.  The handler goes on with interrupts enabled, to read the disk.  It copies
\* its frame to user_regs_ as well, for CopyArgvToStack only (see Paging).
PageFault ==
  /\ cur \in Users /\ cpu.rip \in {"user", "stub", "syscall"}
  /\ lost' = Overwrites(FrameRsp)
  /\ stack' = [stack EXCEPT ![FrameRsp[1]] = Append(SubSeq(@, 1, FrameRsp[2]), Frame)]
  /\ Enters([rip |-> "fault", cs |-> "kernel", rflags |-> "set",
             rsp |-> KernelRsp(FrameRsp[1], FrameRsp[2] + 1), regs |-> FilledBy("fault")])
  /\ UNCHANGED <<cur, rsp0, cr3, fpu, saved, user_stack>>

\* From DisableInterrupt to iretq.
FaultReturn ==
  /\ cpu.rip = "fault"
  /\ in_kernel_space_' = [in_kernel_space_ EXCEPT ![cur] = FALSE]
  /\ rsp0' = cur
  /\ cpu' = Return(Last(stack[cpu.rsp[1]]))
  /\ stack' = [stack EXCEPT ![cpu.rsp[1]] = Front(@)]
  /\ alone' = [alone EXCEPT ![cur] = Front(@)]
  /\ UNCHANGED <<cur, cr3, fpu, kernel_regs_, user_regs_, fxsaved_region_, user_stack, lost>>
-----------------------------------------------------------------------------
(* Switches *)

IsInKernelSpace(t) == t \in Kernels \/ in_kernel_space_[t]

\* What becomes of kernel_regs_ or user_regs_ when the current thread leaves its
\* frame there, or not, and the next one finds its own there, or not.
Exchange(regs, leaves, next, finds) ==
  [regs EXCEPT ![cur] = IF leaves THEN Frame ELSE @, ![next] = IF finds THEN Stale ELSE @]

LoadCR3(next) == cr3' = IF next \in Kernels THEN cr3 ELSE next

\* Whether the registers of the next thread are those it had in the kernel.
ResumesInKernel(next) == IsInKernelSpace(next)

\* YieldInInterruptHandler once it has popped the next thread.  The frame's code
\* segment tells where to save, the address what is marked, the mark where to load.
YieldInInterruptHandler(next) ==
  LET inKernel == cpu.cs = "kernel"
      toKernel == ResumesInKernel(next)
  IN  /\ in_kernel_space_' = [t \in Users |-> IF t = cur THEN IsKernelMemory(cpu.rip)
                                              ELSE in_kernel_space_[t]]
      /\ kernel_regs_' = Exchange(kernel_regs_, inKernel, next, toKernel)
      /\ user_regs_' = Exchange(user_regs_, ~inKernel, next, ~toKernel)
      /\ fxsaved_region_' = IF inKernel THEN fxsaved_region_
                            ELSE [fxsaved_region_ EXCEPT ![cur] = fpu]
      /\ cpu' = Return(IF toKernel THEN kernel_regs_[next] ELSE user_regs_[next])
      /\ fpu' = IF toKernel THEN fpu ELSE fxsaved_region_[next]
      /\ rsp0' = IF toKernel THEN rsp0 ELSE next
      /\ LoadCR3(next)
      /\ cur' = next

\* The handler has its frame and itself on a stack, whoever comes next.
TimerInterruptHandler ==
  /\ lost' = Overwrites(FrameRsp)
  /\ \/ \E next \in Contexts \ {cur} : YieldInInterruptHandler(next)
     \/ UNCHANGED <<cpuState, saved>>
  /\ UNCHANGED <<stack, user_stack, alone>>

SwitchNext ==
  /\ ~lost
  /\ \/ UserStep \/ KernelStep
     \/ Syscall \/ SetRSP0 \/ Sysret \/ StubReturn
     \/ PageFault \/ FaultReturn
     \/ TimerInterruptHandler

SwitchSpec == SwitchInit /\ [][SwitchNext]_switchVars
-----------------------------------------------------------------------------
(* Properties *)

\* SyscallHandler gets the number and the arguments that the stub was called with.
ArgumentsInOrder ==
  \A t \in Users : \A i \in DOMAIN stack[t] :
    "got" \in DOMAIN stack[t][i] => stack[t][i].got = stack[t][i].meant

\* Whatever interrupts it, a thread finds the registers, the stack pointer and
\* the place it would have if it ran alone, and a process its page table; a
\* system call gets what was meant for it (ArgumentsInOrder) and keeps the
\* registers that its caller has to find again.
RunsAlone ==
  /\ ArgumentsInOrder
  /\ ~lost => /\ AfterStub.regs = Last(alone[cur]).regs
              /\ cpu.rip = Last(alone[cur]).rip
              /\ cpu.rsp = Last(alone[cur]).rsp
              /\ cpu.rflags = Last(alone[cur]).rflags
              /\ cur \in Users => cr3 = cur

\* The registers of the FPU are saved on a context switch: a program finds what
\* it has left in them.
FpuKept == cpu.cs = "user" => fpu \in {"unset", cur}
=============================================================================
