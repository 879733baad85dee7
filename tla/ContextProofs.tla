--------------------------- MODULE ContextProofs ---------------------------
(***************************************************************************)
(* For any number of processes and kernel threads and every interleaving   *)
(* of calls, faults and switches a thread finds what it would find if it   *)
(* had the core to itself, as long as no kernel stack is written over.     *)
(*                                                                         *)
(* The property is about the current thread; the invariant says of every   *)
(* thread, level by level, where its registers lie and what is on the      *)
(* kernel stack it is on.                                                  *)
(***************************************************************************)
EXTENDS ContextSwitch, SequenceTheorems, TLAPS

-----------------------------------------------------------------------------
(* Lemmas about the moves of registers *)

\* The register file.
LEMMA RegNames ==
  /\ Regs = {"r15", "r14", "r13", "r12", "r11", "r10", "r9", "r8",
             "rdi", "rsi", "rdx", "rcx", "rbx", "rax", "rbp"}
  /\ Reverse(Pushes) = SavedRegs /\ Pops = SavedRegs
  /\ CalleeSaved \subseteq Regs /\ StubPushes \subseteq CalleeSaved
  <1>1. \A i \in 1 .. 15 : i = 1 \/ i = 2 \/ i = 3 \/ i = 4 \/ i = 5 \/ i = 6 \/ i = 7 \/ i = 8
                           \/ i = 9 \/ i = 10 \/ i = 11 \/ i = 12 \/ i = 13 \/ i = 14 \/ i = 15
    OBVIOUS
  <1>2. Regs = {"r15", "r14", "r13", "r12", "r11", "r10", "r9", "r8",
             "rdi", "rsi", "rdx", "rcx", "rbx", "rax", "rbp"}
    <2>1. DOMAIN Pushes = 1 .. 15
      BY DEF Pushes
    <2>2. Regs = {Pushes[i] : i \in 1 .. 15}
      BY <2>1 DEF Regs, Range
    <2> QED
      BY <1>1, <2>2 DEF Pushes
  <1>3. Reverse(Pushes) = SavedRegs
    BY <1>1 DEF Reverse, Pushes, SavedRegs
  <1> QED
    BY <1>2, <1>3 DEF Pops, SavedRegs, CalleeSaved, StubPushes

\* The fields of InterruptHandlerSavedRegs are where the pushes and the pops of the
\* interrupt handlers have them.
LEMMA StructIsRegs ==
  ASSUME NEW regs, regs = [r \in Regs |-> regs[r]]
  PROVE  AsStruct(regs) = regs /\ Popped(regs) = regs
  <1>1. \A r \in Regs : \E i \in DOMAIN SavedRegs : SavedRegs[i] = r
    BY RegNames DEF SavedRegs
  <1>2. \A r \in Regs : SavedRegs[At(SavedRegs, r)] = r
    BY <1>1 DEF At
  <1>3. \A r \in Regs : AsStruct(regs)[r] = regs[r] /\ Popped(regs)[r] = regs[r]
    BY <1>2, RegNames DEF AsStruct, Popped
  <1> QED
    BY <1>3 DEF AsStruct, Popped

\* The six moves shift the arguments by one register.
LEMMA MovedRegs ==
  ASSUME NEW regs, regs = [r \in Regs |-> regs[r]]
  PROVE  Moved(regs) = [r \in Regs |->
           CASE r = "r9" -> regs["r8"] [] r = "r8" -> regs["r10"] [] r = "rcx" -> regs["rdx"]
             [] r = "rdx" -> regs["rsi"] [] r = "rsi" -> regs["rdi"] [] r = "rdi" -> regs["rax"]
             [] OTHER -> regs[r]]
  BY RegNames DEF Moved, Moves

\* What the four pops put into the registers.
LEMMA PoppedFrame ==
  ASSUME NEW frame, NEW a, NEW b, NEW c, NEW d, frame.pushed = <<a, b, c, d>>
  PROVE  AfterPops(frame) = [r \in Regs |->
           CASE r = "r9" -> d [] r = "rcx" -> c [] r = "r11" -> b [] r = "r12" -> a
             [] r \in CalleeSaved \ {"r12"} -> frame.kept[r]
             [] OTHER -> <<"result", r>>]
  <1>1. /\ Reverse(frame.pushed)[1] = d /\ Reverse(frame.pushed)[2] = c
        /\ Reverse(frame.pushed)[3] = b /\ Reverse(frame.pushed)[4] = a
        /\ SyscallPops[1] = "r9" /\ SyscallPops[2] = "rcx"
        /\ SyscallPops[3] = "r11" /\ SyscallPops[4] = "r12"
    BY DEF Reverse, SyscallPops
  <1> DEFINE returned == [r \in Regs |-> IF r \in CalleeSaved THEN frame.kept[r]
                                     ELSE <<"result", r>>]
  <1>2. AfterPops(frame) = [[[[returned EXCEPT !["r9"] = d] EXCEPT !["rcx"] = c]
                               EXCEPT !["r11"] = b] EXCEPT !["r12"] = a]
    BY <1>1 DEF AfterPops
  <1> QED
    BY <1>2, RegNames DEF CalleeSaved

-----------------------------------------------------------------------------
(* What is where *)

Rips == {"code", "user", "stub", "syscall", "exit", "fault", "stale"}
Rsps == (Contexts \cup {"user"}) \X Nat
Codes == {"this", "that", "code", "on", "syscall", "exit", "fault", "stale", "result"}
Flags == {"this", "that", "set"}
Tokens == (Codes \X Regs) \cup {"stub"} \cup Flags \cup Contexts \cup Rsps
Files == [Regs -> Tokens]
CpuStates == [rip : Rips, cs : {"user", "kernel"}, rflags : Flags, rsp : Rsps, regs : Files]
CallFrames == [pushed : Seq(Tokens), kept : [CalleeSaved -> Tokens],
               meant : Seq(Tokens), got : Seq(Tokens)]

CoreTypeOK ==
  /\ cur \in Contexts
  /\ cpu \in CpuStates
  /\ stack \in [Contexts -> Seq(CpuStates \cup CallFrames)]
  /\ user_stack = [u \in Users |-> user_stack[u]]
  /\ kernel_regs_ \in [Contexts -> CpuStates]
  /\ user_regs_ \in [Contexts -> CpuStates]
  /\ in_kernel_space_ \in [Users -> BOOLEAN]
  /\ alone \in [Contexts -> Seq(CpuStates)]

\* How deep a thread is in the kernel: a process runs, is in a system call, in the
\* handler of a fault, or in the handler of a fault in a system call.
Depth(t) == Len(alone[t])
InCall(u) == Depth(u) >= 2 /\ alone[u][2].rip \in {"syscall", "exit"}

KernelLevel(t) == Depth(t) = 1 /\ alone[t][1].rip = "code" /\ alone[t][1].cs = "kernel"

Levels(u) ==
  /\ Depth(u) \in 1 .. 3
  /\ alone[u][1].rip \in {"user", "stub"} /\ alone[u][1].cs = "user"
  /\ Depth(u) >= 2 =>
       /\ alone[u][2].rip \in {"syscall", "exit", "fault"} /\ alone[u][2].cs = "kernel"
       /\ alone[u][2].rsp[1] \in Users /\ alone[u][2].rsp[2] = 1
  /\ InCall(u) => alone[u][1].rip = "user" /\ alone[u][2].rsp[1] = u
  /\ Depth(u) = 3 =>
       /\ alone[u][2].rip = "syscall" /\ alone[u][3].rip = "fault"
       /\ alone[u][3].cs = "kernel" /\ alone[u][3].rsp = KernelRsp(u, 2)

\* The kernel stack that a process is on, its own or the one that was in the TSS.
StackOf(u) == alone[u][2].rsp[1]

\* Registers c are what the thread would have, but for those its stub is going to pop.
Same(c, a) ==
  /\ c.rip = a.rip /\ c.cs = a.cs /\ c.rflags = a.rflags /\ c.rsp = a.rsp
  /\ IF a.rip = "stub" THEN \A r \in Regs \ StubPushes : c.regs[r] = a.regs[r]
     ELSE c.regs = a.regs

SavedIn(frame, a) == frame \in CpuStates /\ Same(frame, a)

CallFrom(frame, a) ==
  /\ frame \in CallFrames
  /\ frame.pushed = <<a.rsp, a.rflags, "stub", frame.pushed[4]>>
  /\ frame.kept["rbp"] = a.regs["rbp"]

\* A process in the kernel finds on its stack how it came there, level by level.
Stacked(u) ==
  Depth(u) >= 2 =>
    /\ Len(stack[StackOf(u)]) = Depth(u) - 1
    /\ InCall(u) => CallFrom(stack[u][1], alone[u][1])
    /\ Last(alone[u]).rip = "fault" =>
         SavedIn(stack[StackOf(u)][Depth(u) - 1], alone[u][Depth(u) - 1])

\* Until the stub has popped them its caller's registers are on the user stack.
InStub(u) ==
  /\ InCall(u) \/ alone[u][1].rip = "stub" =>
       user_stack[u] = Restrict(alone[u][1].regs, StubPushes)
  /\ alone[u][1].rip = "stub" => alone[u][1].regs["rax"] = <<"result", "rax">>

\* The registers of a thread are in the core or where a switch to it looks for them.
Own(t) ==
  IF t = cur THEN cpu
  ELSE IF IsInKernelSpace(t) THEN kernel_regs_[t] ELSE user_regs_[t]

Resumes(t) ==
  /\ Same(Own(t), Last(alone[t]))
  /\ t # cur => (IsInKernelSpace(t) <=> IsKernelMemory(Last(alone[t]).rip))

ThreadInv(t) ==
  /\ t \in Kernels => KernelLevel(t)
  /\ t \in Users => Levels(t) /\ Stacked(t) /\ InStub(t)

OneOnStack ==
  \A u, v \in Users : Depth(u) >= 2 /\ Depth(v) >= 2 /\ StackOf(u) = StackOf(v) => u = v

TssSet == cur \in Users \/ (\E u \in Users : Depth(u) >= 2) => rsp0 \in Users

OwnTable == cur \in Users => cr3 = cur

CoreInv ==
  /\ CoreTypeOK
  /\ \A t \in Contexts : ThreadInv(t) /\ Resumes(t)
  /\ OneOnStack /\ TssSet /\ OwnTable

\* An interrupt saves the registers and its return restores them.
LEMMA FrameIsCpu ==
  /\ CoreTypeOK => Frame = cpu
  /\ \A frame \in CpuStates : Return(frame) = frame
  <1>1. \A x \in CpuStates : /\ x.regs = [r \in Regs |-> x.regs[r]]
                             /\ [x EXCEPT !.regs = x.regs] = x
    BY DEF CpuStates, Files
  <1> QED
    BY <1>1, StructIsRegs DEF CoreTypeOK, Frame, Return

\* The operators on the top of a stack.
LEMMA Tops ==
  ASSUME NEW S, NEW s \in Seq(S), NEW n \in Nat, Len(s) = n + 1
  PROVE  /\ Front(s) \in Seq(S) /\ Len(Front(s)) = n
         /\ \A i \in 1 .. n : Front(s)[i] = s[i]
         /\ Last(s) = s[n + 1] /\ Last(s) \in S
  <1>1. \A i \in 1 .. n + 1 : s[i] \in S
    OBVIOUS
  <1>2. \A i \in 1 .. n : s[i] \in S
    BY <1>1
  <1>3. Front(s) = SubSeq(s, 1, n)
    BY DEF Front
  <1>4. /\ Front(s) \in Seq(S)
        /\ Len(Front(s)) = IF 1 <= n THEN n - 1 + 1 ELSE 0
        /\ \A i \in 1 .. n - 1 + 1 : Front(s)[i] = s[1 + i - 1]
    BY <1>2, <1>3, SubSeqProperties
  <1>5. Last(s) = s[n + 1] /\ Last(s) \in S
    BY <1>1 DEF Last
  <1> QED
    BY <1>4, <1>5

\* A stack gets a top.
LEMMA Appended ==
  ASSUME NEW S, NEW s \in Seq(S), NEW x \in S
  PROVE  /\ Append(s, x) \in Seq(S) /\ Len(Append(s, x)) = Len(s) + 1
         /\ \A i \in 1 .. Len(s) : Append(s, x)[i] = s[i]
         /\ Append(s, x)[Len(s) + 1] = x
  OBVIOUS

\* A stack gets another top.
LEMMA NewTop ==
  ASSUME NEW S, NEW s \in Seq(S), NEW n \in Nat, Len(s) = n + 1, NEW x \in S
  PROVE  /\ Append(Front(s), x) \in Seq(S) /\ Len(Append(Front(s), x)) = n + 1
         /\ \A i \in 1 .. n : Append(Front(s), x)[i] = s[i]
         /\ Append(Front(s), x)[n + 1] = x
  <1>1. PICK f \in Seq(S) : f = Front(s) /\ Len(f) = n /\ \A i \in 1 .. n : f[i] = s[i]
    BY Tops
  <1>2. /\ Append(f, x) \in Seq(S) /\ Len(Append(f, x)) = n + 1
        /\ \A i \in 1 .. n : Append(f, x)[i] = s[i]
        /\ Append(f, x)[n + 1] = x
    BY <1>1
  <1> QED
    BY <1>1, <1>2

\* The levels of the current thread are counted from one.
LEMMA CurDepth ==
  ASSUME CoreInv
  PROVE  /\ cur \in Contexts /\ alone \in [Contexts -> Seq(CpuStates)]
         /\ ThreadInv(cur) /\ Resumes(cur)
         /\ alone[cur] \in Seq(CpuStates)
         /\ \E n \in Nat : Len(alone[cur]) = n + 1 /\ Depth(cur) = n + 1
         /\ Same(cpu, alone[cur][Depth(cur)])
  <1>1. cur \in Contexts /\ alone \in [Contexts -> Seq(CpuStates)]
    BY DEF CoreInv, CoreTypeOK
  <1>2. ThreadInv(cur) /\ Resumes(cur)
    BY <1>1 DEF CoreInv
  <1>3. Depth(cur) = 1 \/ Depth(cur) = 2 \/ Depth(cur) = 3
    BY <1>1, <1>2 DEF ThreadInv, KernelLevel, Levels, Contexts
  <1>4. \E n \in Nat : Depth(cur) = n + 1
    BY <1>3
  <1>5. \E n \in Nat : Len(alone[cur]) = n + 1 /\ Depth(cur) = n + 1
    BY <1>4 DEF Depth
  <1>6. Same(cpu, alone[cur][Depth(cur)])
    BY <1>2 DEF Resumes, Own, Last, Depth
  <1> QED
    BY <1>1, <1>2, <1>5, <1>6

\* The top of what the current thread would have is replaced.
ReplacesTop(new) == alone' = [alone EXCEPT ![cur] = Append(Front(@), new)]

\* The levels below the top stay.
LEMMA Replaced ==
  ASSUME CoreInv, NEW new \in CpuStates, ReplacesTop(new)
  PROVE  /\ alone' \in [Contexts -> Seq(CpuStates)]
         /\ \A t \in Contexts \ {cur} : alone'[t] = alone[t]
         /\ Len(alone'[cur]) = Depth(cur)
         /\ \A i \in 1 .. Depth(cur) - 1 : alone'[cur][i] = alone[cur][i]
         /\ alone'[cur][Depth(cur)] = new
  <1>1. PICK n \in Nat : Len(alone[cur]) = n + 1 /\ Depth(cur) = n + 1
    BY CurDepth
  <1>2. /\ Append(Front(alone[cur]), new) \in Seq(CpuStates)
        /\ Len(Append(Front(alone[cur]), new)) = n + 1
        /\ \A i \in 1 .. n : Append(Front(alone[cur]), new)[i] = alone[cur][i]
        /\ Append(Front(alone[cur]), new)[n + 1] = new
    BY <1>1, CurDepth, NewTop
  <1>3. /\ alone' \in [Contexts -> Seq(CpuStates)]
        /\ alone'[cur] = Append(Front(alone[cur]), new)
        /\ \A t \in Contexts \ {cur} : alone'[t] = alone[t]
    BY <1>2, CurDepth DEF ReplacesTop
  <1> QED
    BY <1>1, <1>2, <1>3

\* What a step of the current thread leaves alone.
LEMMA OthersKept ==
  ASSUME CoreInv, NEW t \in Contexts, alone'[t] = alone[t],
         t \in Users => user_stack'[t] = user_stack[t],
         t \in Users /\ Depth(t) >= 2 => stack'[StackOf(t)] = stack[StackOf(t)]
  PROVE  ThreadInv(t)'
  <1>1. t \in Users => Levels(t) /\ Stacked(t) /\ InStub(t)
    BY DEF CoreInv, ThreadInv
  <1>2. t \in Kernels => KernelLevel(t)'
    BY DEF CoreInv, ThreadInv, KernelLevel, Depth
  <1>3. t \in Users => Levels(t)'
    BY <1>1 DEF Levels, InCall, Depth
  <1>4. t \in Users => InStub(t)'
    BY <1>1 DEF InStub, InCall, Depth
  <1>5. ASSUME t \in Users PROVE Stacked(t)'
    <2>1. Depth(t)' = Depth(t) /\ StackOf(t)' = StackOf(t) /\ InCall(t)' = InCall(t)
      BY DEF Depth, StackOf, InCall
    <2>2. InCall(t) => StackOf(t) = t
      BY <1>1, <1>5 DEF Levels, StackOf
    <2> QED
      BY <1>1, <1>5, <2>1, <2>2 DEF Stacked, InCall
  <1> QED
    BY <1>2, <1>3, <1>4, <1>5 DEF ThreadInv

\* A thread that is not current finds its registers where they were.
LEMMA OthersResume ==
  ASSUME CoreInv, NEW t \in Contexts \ {cur}, cur' = cur, alone'[t] = alone[t],
         kernel_regs_' = kernel_regs_, user_regs_' = user_regs_,
         t \in Users => in_kernel_space_'[t] = in_kernel_space_[t]
  PROVE  Resumes(t)'
  <1>1. IsInKernelSpace(t)' = IsInKernelSpace(t)
    BY DEF IsInKernelSpace, Contexts
  <1>2. Own(t)' = Own(t)
    BY <1>1 DEF Own
  <1> QED
    BY <1>1, <1>2 DEF CoreInv, Resumes, Same

-----------------------------------------------------------------------------
(* Steps that keep their level *)

Disjoint == Users \cap Kernels = {}

\* What a thread may become without leaving its level.
SameLevel(new) ==
  /\ new.cs = cpu.cs /\ new.rsp = cpu.rsp /\ new.rip # "stub"
  /\ \/ new.rip = cpu.rip
     \/ cpu.rip = "syscall" /\ new.rip = "exit"
     \/ cpu.rip = "stub" /\ new.rip = "user"

\* A step on a level keeps what the invariant says of every thread.
LEMMA TopStep ==
  ASSUME Disjoint, CoreInv, NEW new \in CpuStates, ReplacesTop(new), SameLevel(new), cpu' = new,
         UNCHANGED <<cur, stack, kernel_regs_, user_regs_, in_kernel_space_>>,
         \A u \in Users \ {cur} : user_stack'[u] = user_stack[u],
         cpu.rip # "stub" => user_stack' = user_stack,
         user_stack' = [u \in Users |-> user_stack'[u]]
  PROVE  /\ CoreTypeOK'
         /\ \A t \in Contexts : ThreadInv(t)' /\ Resumes(t)'
         /\ OneOnStack'
         /\ \A t \in Contexts : Depth(t)' = Depth(t)
  <1>1. /\ alone' \in [Contexts -> Seq(CpuStates)]
        /\ \A t \in Contexts \ {cur} : alone'[t] = alone[t]
        /\ Len(alone'[cur]) = Depth(cur)
        /\ \A i \in 1 .. Depth(cur) - 1 : alone'[cur][i] = alone[cur][i]
        /\ alone'[cur][Depth(cur)] = new
    BY Replaced
  <1>2. /\ cur \in Contexts /\ ThreadInv(cur) /\ Same(cpu, alone[cur][Depth(cur)])
    BY CurDepth
  <1>3. \A t \in Contexts : Depth(t)' = Depth(t)
    BY <1>1 DEF Depth
  <1>4. CoreTypeOK'
    BY <1>1 DEF CoreInv, CoreTypeOK
  <1>5. ASSUME NEW t \in Contexts \ {cur} PROVE ThreadInv(t)' /\ Resumes(t)'
    BY <1>1, <1>5, OthersKept, OthersResume
  <1>6. cur \in Kernels => KernelLevel(cur)'
    BY <1>1, <1>2, <1>3 DEF ThreadInv, KernelLevel, Same, SameLevel
  <1>7. ASSUME cur \in Users
        PROVE  Levels(cur)' /\ InStub(cur)' /\ Stacked(cur)'
               /\ (Depth(cur) >= 2 => StackOf(cur)' = StackOf(cur))
    <2>1. Levels(cur) /\ Stacked(cur) /\ InStub(cur)
      BY <1>2, <1>7 DEF ThreadInv
    <2>2. CASE Depth(cur) = 1
      <3>1. alone'[cur][1] = new /\ Depth(cur)' = 1
        BY <1>1, <1>2, <1>3, <2>2 DEF Depth
      <3>2. new.cs = "user" /\ new.rip = "user"
        BY <1>2, <2>1, <2>2 DEF Levels, Same, SameLevel
      <3> QED
        BY <2>2, <3>1, <3>2 DEF Levels, InStub, Stacked, InCall
    <2>3. CASE Depth(cur) = 2
      <3>1. alone'[cur][1] = alone[cur][1] /\ alone'[cur][2] = new /\ Depth(cur)' = 2
        BY <1>1, <1>2, <1>3, <2>3 DEF Depth
      <3>2. cpu.rip = alone[cur][2].rip /\ new.cs = alone[cur][2].cs /\ new.rsp = alone[cur][2].rsp
        BY <1>2, <2>3 DEF Same, SameLevel
      <3>3. \/ new.rip = alone[cur][2].rip
            \/ alone[cur][2].rip = "syscall" /\ new.rip = "exit"
        BY <2>1, <2>3, <3>2 DEF Levels, SameLevel
      <3>4. InCall(cur)' = InCall(cur) /\ (new.rip = "fault") = (alone[cur][2].rip = "fault")
        BY <2>1, <2>3, <3>1, <3>3 DEF InCall, Levels
      <3>5. cpu.rip # "stub" /\ user_stack' = user_stack
        BY <2>1, <2>3, <3>2 DEF Levels
      <3>6. Levels(cur)' /\ StackOf(cur)' = StackOf(cur)
        BY <2>1, <2>3, <3>1, <3>2, <3>3, <3>4 DEF Levels, StackOf
      <3>7. InStub(cur)'
        BY <2>1, <2>3, <3>1, <3>4, <3>5 DEF InStub
      <3>8. Last(alone[cur]) = alone[cur][2] /\ Last(alone'[cur]) = new
        BY <1>1, <2>3, <3>1 DEF Last, Depth
      <3>9. Stacked(cur)'
        BY <2>1, <2>3, <3>1, <3>4, <3>6, <3>8 DEF Stacked
      <3> QED
        BY <3>6, <3>7, <3>9
    <2>4. CASE Depth(cur) = 3
      <3>1. /\ alone'[cur][1] = alone[cur][1] /\ alone'[cur][2] = alone[cur][2]
            /\ alone'[cur][3] = new /\ Depth(cur)' = 3
        BY <1>1, <1>2, <1>3, <2>4 DEF Depth
      <3>2. cpu.rip = alone[cur][3].rip /\ new.cs = alone[cur][3].cs /\ new.rsp = alone[cur][3].rsp
        BY <1>2, <2>4 DEF Same, SameLevel
      <3>3. new.rip = "fault" /\ cpu.rip = "fault" /\ user_stack' = user_stack
        BY <2>1, <2>4, <3>2 DEF Levels, SameLevel
      <3>4. InCall(cur)' = InCall(cur)
        BY <2>4, <3>1 DEF InCall
      <3>5. Levels(cur)' /\ StackOf(cur)' = StackOf(cur)
        BY <2>1, <2>4, <3>1, <3>2, <3>3, <3>4 DEF Levels, StackOf
      <3>6. InStub(cur)'
        BY <2>1, <2>4, <3>1, <3>3, <3>4 DEF InStub
      <3>7. Last(alone[cur]).rip = "fault" /\ Last(alone'[cur]).rip = "fault"
        BY <1>1, <2>1, <2>4, <3>1, <3>3 DEF Last, Depth, Levels
      <3>8. Stacked(cur)'
        BY <2>1, <2>4, <3>1, <3>4, <3>5, <3>7 DEF Stacked
      <3> QED
        BY <3>5, <3>6, <3>8
    <2> QED
      BY <2>1, <2>2, <2>3, <2>4 DEF Levels
  <1>8. ThreadInv(cur)'
    BY <1>2, <1>6, <1>7 DEF ThreadInv, Contexts
  <1>9. Resumes(cur)'
    <2>1. Last(alone'[cur]) = new
      BY <1>1 DEF Last
    <2> QED
      BY <2>1 DEF Resumes, Own, Same
  <1>10. OneOnStack'
    <2>1. \A u \in Users \ {cur} : StackOf(u)' = StackOf(u)
      BY <1>1 DEF StackOf, Contexts
    <2>2. \A u \in Users : Depth(u)' = Depth(u) /\ (Depth(u) >= 2 => StackOf(u)' = StackOf(u))
      BY <1>3, <1>7, <2>1 DEF Contexts
    <2> QED
      BY <2>2 DEF CoreInv, OneOnStack
  <1> QED
    BY <1>3, <1>4, <1>5, <1>8, <1>9, <1>10

\* What is where the current thread is.
LEMMA CurWhere ==
  ASSUME Disjoint, CoreInv
  PROVE  /\ cpu \in CpuStates
         /\ cpu.rip \notin {"code", "user", "stub", "syscall", "exit", "fault"} => FALSE
         /\ cur \in Kernels => cpu.rip = "code" /\ cpu.cs = "kernel"
         /\ cpu.rip \in {"user", "stub"} => cur \in Users /\ Depth(cur) = 1 /\ cpu.cs = "user"
         /\ cpu.rip \in {"syscall", "exit"} =>
              /\ cur \in Users /\ Depth(cur) = 2 /\ InCall(cur) /\ cpu.cs = "kernel"
              /\ StackOf(cur) = cur /\ cpu.rsp[1] = cur /\ cpu.rsp[2] = 1
         /\ cpu.rip = "fault" =>
              /\ cur \in Users /\ Depth(cur) \in {2, 3} /\ cpu.cs = "kernel"
              /\ cpu.rsp[1] = StackOf(cur) /\ cpu.rsp[1] \in Users
  <1>1. cur \in Contexts /\ ThreadInv(cur) /\ Same(cpu, alone[cur][Depth(cur)])
    BY CurDepth
  <1>2. cpu \in CpuStates
    BY DEF CoreInv, CoreTypeOK
  <1>3. CASE cur \in Kernels
    BY <1>1, <1>2, <1>3 DEF Disjoint, ThreadInv, KernelLevel, Same
  <1>4. CASE cur \in Users
    <2>1. Levels(cur)
      BY <1>1, <1>4 DEF ThreadInv
    <2>2. /\ cpu.rip = alone[cur][Depth(cur)].rip
          /\ cpu.cs = alone[cur][Depth(cur)].cs
          /\ cpu.rsp = alone[cur][Depth(cur)].rsp
      BY <1>1 DEF Same
    <2>3. cur \notin Kernels
      BY <1>4 DEF Disjoint
    <2>4. CASE Depth(cur) = 1
      BY <1>2, <1>4, <2>1, <2>2, <2>3, <2>4 DEF Levels
    <2>5. CASE Depth(cur) = 2
      BY <1>2, <1>4, <2>1, <2>2, <2>3, <2>5 DEF Levels, InCall, StackOf
    <2>6. CASE Depth(cur) = 3
      BY <1>2, <1>4, <2>1, <2>2, <2>3, <2>6 DEF Levels, InCall, StackOf, KernelRsp
    <2> QED
      BY <2>1, <2>4, <2>5, <2>6 DEF Levels
  <1> QED
    BY <1>1, <1>3, <1>4 DEF Contexts

\* Filling the registers, and with them the state of the core.
LEMMA Filled == \A code \in Codes : FilledBy(code) \in Files
  BY DEF FilledBy, Files, Tokens

LEMMA Computed ==
  \A c \in CpuStates : \A regs \in Files :
    /\ [c EXCEPT !.regs = regs] \in CpuStates
    /\ \A rflags \in Flags : [c EXCEPT !.regs = regs, !.rflags = rflags] \in CpuStates
    /\ \A rip \in Rips : [c EXCEPT !.rip = rip, !.regs = regs] \in CpuStates
  BY DEF CpuStates

\* The program computes.
LEMMA UserStepInv ==
  ASSUME Disjoint, CoreInv, UserStep
  PROVE  CoreInv'
  <1>1. PICK code \in {"this", "that"} :
          Goes([cpu EXCEPT !.regs = FilledBy(code), !.rflags = code])
    BY DEF UserStep
  <1> DEFINE new == [cpu EXCEPT !.regs = FilledBy(code), !.rflags = code]
  <1>2. cpu \in CpuStates /\ cur \in Users /\ cpu.rip = "user"
    BY CurWhere DEF UserStep
  <1>3. new \in CpuStates /\ SameLevel(new)
    <2>1. FilledBy(code) \in Files /\ code \in Flags
      BY Filled DEF Codes, Flags
    <2>2. new \in CpuStates
      BY <1>2, <2>1, Computed
    <2>3. new.cs = cpu.cs /\ new.rsp = cpu.rsp /\ new.rip = cpu.rip
      BY <1>2, <2>1 DEF CpuStates
    <2> QED
      BY <1>2, <2>2, <2>3 DEF SameLevel
  <1>4. ReplacesTop(new) /\ cpu' = new
    BY <1>1 DEF Goes, ReplacesTop
  <1>5. UNCHANGED <<cur, stack, kernel_regs_, user_regs_, in_kernel_space_, user_stack, rsp0, cr3>>
    BY DEF UserStep, saved
  <1>6. user_stack' = [u \in Users |-> user_stack'[u]]
    BY <1>5 DEF CoreInv, CoreTypeOK
  <1> HIDE DEF new
  <1>7. /\ CoreTypeOK'
        /\ \A t \in Contexts : ThreadInv(t)' /\ Resumes(t)'
        /\ OneOnStack'
        /\ \A t \in Contexts : Depth(t)' = Depth(t)
    BY <1>3, <1>4, <1>5, <1>6, TopStep
  <1> QED
    BY <1>5, <1>7 DEF CoreInv, TssSet, OwnTable, Contexts

\* A kernel thread or a handler goes on.
LEMMA KernelStepInv ==
  ASSUME Disjoint, CoreInv, KernelStep
  PROVE  CoreInv'
  <1> DEFINE new == [cpu EXCEPT !.regs = FilledBy("on")]
  <1>1. cpu.rip # "stub"
    <2>1. SUFFICES ASSUME cpu.rip = "stub" PROVE FALSE
      OBVIOUS
    <2>2. cur \in Users /\ Depth(cur) = 1
      BY <2>1, CurWhere
    <2>3. ThreadInv(cur) /\ Same(cpu, alone[cur][1])
      BY <2>2, CurDepth
    <2>4. alone[cur][1].rip = "stub" /\ alone[cur][1].regs["rax"] = <<"result", "rax">>
      BY <2>1, <2>2, <2>3 DEF ThreadInv, InStub, Same
    <2>5. "rax" \in Regs \ StubPushes
      BY RegNames DEF StubPushes
    <2>6. cpu.regs["rax"] = <<"result", "rax">>
      BY <2>3, <2>4, <2>5 DEF Same
    <2>7. cpu.regs["rax"] = <<"code", "rax">>
      BY <2>5 DEF KernelStep, FilledBy
    <2> QED
      BY <2>6, <2>7
  <1>2. cpu \in CpuStates
    BY CurWhere
  <1>3. new \in CpuStates /\ SameLevel(new)
    <2>1. FilledBy("on") \in Files
      BY Filled DEF Codes
    <2>2. new \in CpuStates
      BY <1>2, <2>1, Computed
    <2>3. new.cs = cpu.cs /\ new.rsp = cpu.rsp /\ new.rip = cpu.rip
      BY <1>2, <2>1 DEF CpuStates
    <2> QED
      BY <1>1, <2>2, <2>3 DEF SameLevel
  <1>4. ReplacesTop(new) /\ cpu' = new
    BY DEF KernelStep, Goes, ReplacesTop
  <1>5. UNCHANGED <<cur, stack, kernel_regs_, user_regs_, in_kernel_space_, user_stack, rsp0, cr3>>
    BY DEF KernelStep, saved
  <1>6. user_stack' = [u \in Users |-> user_stack'[u]]
    BY <1>5 DEF CoreInv, CoreTypeOK
  <1> HIDE DEF new
  <1>7. /\ CoreTypeOK'
        /\ \A t \in Contexts : ThreadInv(t)' /\ Resumes(t)'
        /\ OneOnStack'
        /\ \A t \in Contexts : Depth(t)' = Depth(t)
    BY <1>3, <1>4, <1>5, <1>6, TopStep
  <1> QED
    BY <1>5, <1>7 DEF CoreInv, TssSet, OwnTable, Contexts

\* A call ends with its own stack in the TSS.
LEMMA SetRSP0Inv ==
  ASSUME Disjoint, CoreInv, SetRSP0
  PROVE  CoreInv'
  <1> DEFINE new == [cpu EXCEPT !.rip = "exit", !.regs = FilledBy("exit")]
  <1>1. cpu.rip = "syscall" /\ rsp0' = cur
    BY DEF SetRSP0
  <1>2. cpu \in CpuStates /\ cur \in Users
    BY <1>1, CurWhere
  <1>3. new \in CpuStates /\ SameLevel(new)
    <2>1. FilledBy("exit") \in Files /\ "exit" \in Rips
      BY Filled DEF Codes, Rips
    <2>2. new \in CpuStates
      BY <1>2, <2>1, Computed
    <2>3. new.cs = cpu.cs /\ new.rsp = cpu.rsp /\ new.rip = "exit"
      BY <1>2, <2>1 DEF CpuStates
    <2> QED
      BY <1>1, <2>2, <2>3 DEF SameLevel
  <1>4. ReplacesTop(new) /\ cpu' = new
    BY DEF SetRSP0, Goes, ReplacesTop
  <1>5. UNCHANGED <<cur, stack, kernel_regs_, user_regs_, in_kernel_space_, user_stack, cr3>>
    BY DEF SetRSP0, saved
  <1>6. user_stack' = [u \in Users |-> user_stack'[u]]
    BY <1>5 DEF CoreInv, CoreTypeOK
  <1> HIDE DEF new
  <1>7. /\ CoreTypeOK'
        /\ \A t \in Contexts : ThreadInv(t)' /\ Resumes(t)'
        /\ OneOnStack'
    BY <1>3, <1>4, <1>5, <1>6, TopStep
  <1> QED
    BY <1>1, <1>2, <1>5, <1>7 DEF CoreInv, TssSet, OwnTable

\* The stub's pops complete what the call has returned.
LEMMA StubReturnInv ==
  ASSUME Disjoint, CoreInv, StubReturn
  PROVE  CoreInv'
  <1>1. cpu.rip = "stub"
    BY DEF StubReturn
  <1>2. cpu \in CpuStates /\ cur \in Users /\ Depth(cur) = 1
    BY <1>1, CurWhere
  <1>3. ThreadInv(cur) /\ Same(cpu, alone[cur][1])
    BY <1>2, CurDepth
  <1>4. user_stack[cur] = Restrict(alone[cur][1].regs, StubPushes) /\ alone[cur][1] \in CpuStates
    <2>1. alone[cur][1].rip = "stub"
      BY <1>1, <1>3 DEF Same
    <2>2. user_stack[cur] = Restrict(alone[cur][1].regs, StubPushes)
      BY <1>2, <1>3, <2>1 DEF ThreadInv, InStub
    <2>3. alone[cur] \in Seq(CpuStates) /\ Len(alone[cur]) = 1
      BY <1>2, CurDepth DEF Depth
    <2> QED
      BY <2>2, <2>3
  <1>5. \A r \in StubPushes : user_stack[cur][r] \in Tokens
    BY <1>4, RegNames DEF Restrict, CpuStates, Files
  <1>6. AfterStub \in CpuStates /\ SameLevel(AfterStub)
    BY <1>1, <1>2, <1>5 DEF AfterStub, CpuStates, Files, Rips, SameLevel
  <1>7. ReplacesTop(AfterStub) /\ cpu' = AfterStub
    BY DEF StubReturn, Goes, ReplacesTop
  <1>8. UNCHANGED <<cur, stack, kernel_regs_, user_regs_, in_kernel_space_, rsp0, cr3>>
    BY DEF StubReturn, saved
  <1>9. /\ user_stack' = [u \in Users |-> user_stack'[u]]
        /\ \A u \in Users \ {cur} : user_stack'[u] = user_stack[u]
    BY DEF CoreInv, CoreTypeOK, StubReturn
  <1>10. /\ CoreTypeOK'
         /\ \A t \in Contexts : ThreadInv(t)' /\ Resumes(t)'
         /\ OneOnStack'
         /\ \A t \in Contexts : Depth(t)' = Depth(t)
    BY <1>1, <1>6, <1>7, <1>8, <1>9, TopStep
  <1> QED
    BY <1>8, <1>10 DEF CoreInv, TssSet, OwnTable, Contexts
-----------------------------------------------------------------------------
(* Steps into a level and out of it *)

\* The current thread enters an inner level.
AddsTop(new) == alone' = [alone EXCEPT ![cur] = Append(@, new)]

\* The levels below a new one stay.
LEMMA Entered ==
  ASSUME CoreInv, NEW new \in CpuStates, AddsTop(new)
  PROVE  /\ alone' \in [Contexts -> Seq(CpuStates)]
         /\ \A t \in Contexts \ {cur} : alone'[t] = alone[t]
         /\ Len(alone'[cur]) = Depth(cur) + 1
         /\ \A i \in 1 .. Depth(cur) : alone'[cur][i] = alone[cur][i]
         /\ alone'[cur][Depth(cur) + 1] = new
  <1>1. alone[cur] \in Seq(CpuStates) /\ cur \in Contexts /\ alone \in [Contexts -> Seq(CpuStates)]
    BY CurDepth
  <1>2. /\ Append(alone[cur], new) \in Seq(CpuStates)
        /\ Len(Append(alone[cur], new)) = Len(alone[cur]) + 1
        /\ \A i \in 1 .. Len(alone[cur]) : Append(alone[cur], new)[i] = alone[cur][i]
        /\ Append(alone[cur], new)[Len(alone[cur]) + 1] = new
    BY <1>1, Appended
  <1>3. /\ alone' \in [Contexts -> Seq(CpuStates)]
        /\ alone'[cur] = Append(alone[cur], new)
        /\ \A t \in Contexts \ {cur} : alone'[t] = alone[t]
    BY <1>1, <1>2 DEF AddsTop
  <1> QED
    BY <1>2, <1>3 DEF Depth

\* The frame of a system call: what the handler pushes, and what it gets.
LEMMA CallFrame ==
  ASSUME Disjoint, CoreInv
  PROVE  LET frame == SyscallFrame(AfterSyscall)
         IN  /\ frame \in CallFrames /\ frame.got = frame.meant
             /\ frame.pushed = <<cpu.rsp, cpu.rflags, "stub", frame.pushed[4]>>
             /\ frame.kept["rbp"] = cpu.regs["rbp"]
  <1> DEFINE frame == SyscallFrame(AfterSyscall)
             after == AfterSyscall
             moved == Moved(AfterSyscall)
             six == [i \in 1 .. 6 |-> moved[<<"rdi", "rsi", "rdx", "rcx", "r8", "r9">>[i]]]
  <1>1. cpu \in CpuStates /\ cur \in Contexts
    BY DEF CoreInv, CoreTypeOK
  <1>2. /\ cpu.regs \in Files /\ cpu.rsp \in Tokens /\ cpu.rflags \in Tokens
        /\ cur \in Tokens /\ "stub" \in Tokens
    BY <1>1 DEF CpuStates, Tokens
  <1>3. after \in Files
    BY <1>2 DEF AfterSyscall, Files
  <1>4. /\ after["rcx"] = "stub" /\ after["r11"] = cpu.rflags /\ after["r12"] = cpu.rsp
        /\ \A r \in Regs \ {"rcx", "r11", "r12", "rbx"} : after[r] = cpu.regs[r]
    BY <1>2, RegNames DEF AfterSyscall, Files
  <1>5. /\ moved = [r \in Regs |->
           CASE r = "r9" -> after["r8"] [] r = "r8" -> after["r10"] [] r = "rcx" -> after["rdx"]
             [] r = "rdx" -> after["rsi"] [] r = "rsi" -> after["rdi"] [] r = "rdi" -> after["rax"]
             [] OTHER -> after[r]]
    BY <1>3, MovedRegs DEF Files
  <1> HIDE DEF after, moved
  <1>6. moved \in Files
    BY <1>3, <1>5, RegNames DEF Files
  <1>7. /\ moved["rdi"] = cpu.regs["rax"] /\ moved["rsi"] = cpu.regs["rdi"]
        /\ moved["rdx"] = cpu.regs["rsi"] /\ moved["rcx"] = cpu.regs["rdx"]
        /\ moved["r8"] = cpu.regs["r10"] /\ moved["r9"] = cpu.regs["r8"]
        /\ after["r9"] = cpu.regs["r9"] /\ moved["rbp"] = cpu.regs["rbp"]
    BY <1>4, <1>5, RegNames
  <1>8. Meant \in Seq(Tokens) /\ Len(Meant) = 7
    BY <1>2, RegNames DEF Meant, Files
  <1>9. six \in Seq(Tokens) /\ Len(six) = 6
    BY <1>6, RegNames DEF Files
  <1> DEFINE seven == six \o <<after["r9"]>>
  <1>10. Got(moved, after["r9"]) = seven
    BY DEF Got
  <1>11. seven \in Seq(Tokens) /\ Len(seven) = 7
    <2>1. <<after["r9"]>> \in Seq(Tokens) /\ Len(<<after["r9"]>>) = 1
      BY <1>3, RegNames DEF Files
    <2> QED
      BY <1>9, <2>1, ConcatProperties
  <1>12. \A i \in 1 .. 7 : seven[i] = Meant[i]
    <2>1. \A i \in 1 .. 6 : seven[i] = six[i]
      BY <1>9
    <2>2. seven[7] = after["r9"]
      BY <1>9
    <2>3. /\ six[1] = moved["rdi"] /\ six[2] = moved["rsi"] /\ six[3] = moved["rdx"]
          /\ six[4] = moved["rcx"] /\ six[5] = moved["r8"] /\ six[6] = moved["r9"]
      OBVIOUS
    <2>4. /\ Meant[1] = cpu.regs["rax"] /\ Meant[2] = cpu.regs["rdi"]
          /\ Meant[3] = cpu.regs["rsi"] /\ Meant[4] = cpu.regs["rdx"]
          /\ Meant[5] = cpu.regs["r10"] /\ Meant[6] = cpu.regs["r8"]
          /\ Meant[7] = cpu.regs["r9"]
      BY DEF Meant
    <2> QED
      BY <1>7, <2>1, <2>2, <2>3, <2>4
  <1> HIDE DEF six, seven
  <1>13. seven = Meant
    BY <1>8, <1>11, <1>12, SeqEqual
  <1>14. frame = [pushed |-> <<after["r12"], after["r11"], after["rcx"], after["r9"]>>,
                  kept |-> Restrict(moved, CalleeSaved), meant |-> Meant,
                  got |-> Got(moved, after["r9"])]
    BY DEF SyscallFrame, after, moved
  <1> HIDE DEF frame
  <1>15. frame.kept \in [CalleeSaved -> Tokens] /\ frame.kept["rbp"] = cpu.regs["rbp"]
    BY <1>6, <1>7, <1>14, RegNames DEF Restrict, Files, CalleeSaved
  <1>16. frame.pushed \in Seq(Tokens)
    BY <1>3, <1>14, RegNames DEF Files
  <1>17. /\ frame.got = frame.meant /\ frame.meant \in Seq(Tokens)
         /\ frame.pushed = <<cpu.rsp, cpu.rflags, "stub", frame.pushed[4]>>
    BY <1>4, <1>8, <1>10, <1>13, <1>14
  <1>18. frame \in CallFrames
    BY <1>14, <1>15, <1>16, <1>17 DEF CallFrames
  <1> QED
    BY <1>15, <1>17, <1>18 DEF frame

\* What entering a level has to establish for the thread that enters; the others are
\* on other stacks.
LEMMA EnterStep ==
  ASSUME Disjoint, CoreInv, NEW new \in CpuStates, AddsTop(new), cpu' = new, cur \in Users,
         UNCHANGED <<cur, kernel_regs_, user_regs_, in_kernel_space_, rsp0, cr3>>,
         NEW place \in Users,
         \A u \in Users \ {cur} : Depth(u) >= 2 => StackOf(u) # place,
         \A t \in Contexts \ {place} : stack'[t] = stack[t],
         stack' \in [Contexts -> Seq(CpuStates \cup CallFrames)],
         \A u \in Users \ {cur} : user_stack'[u] = user_stack[u],
         user_stack' = [u \in Users |-> user_stack'[u]],
         Levels(cur)', Stacked(cur)', InStub(cur)', StackOf(cur)' = place
  PROVE  CoreInv'
  <1>1. /\ alone' \in [Contexts -> Seq(CpuStates)]
        /\ \A t \in Contexts \ {cur} : alone'[t] = alone[t]
        /\ Len(alone'[cur]) = Depth(cur) + 1
        /\ alone'[cur][Depth(cur) + 1] = new
    BY Entered
  <1>2. CoreTypeOK'
    BY <1>1 DEF CoreInv, CoreTypeOK
  <1>3. cur \notin Kernels
    BY DEF Disjoint
  <1>4. \A u \in Users : u \in Contexts /\ ThreadInv(u)
    BY DEF CoreInv, Contexts
  <1>5. ASSUME NEW t \in Contexts \ {cur} PROVE ThreadInv(t)' /\ Resumes(t)'
    <2>1. t \in Users /\ Depth(t) >= 2 => stack'[StackOf(t)] = stack[StackOf(t)]
      BY <1>4 DEF ThreadInv, Levels, StackOf, Contexts
    <2>2. t \in Users => user_stack'[t] = user_stack[t]
      OBVIOUS
    <2>3. ThreadInv(t)'
      BY <1>1, <1>5, <2>1, <2>2, OthersKept
    <2>4. Resumes(t)'
      BY <1>1, <1>5, OthersResume
    <2> QED
      BY <2>3, <2>4
  <1>6. ThreadInv(cur)'
    BY <1>3 DEF ThreadInv
  <1>7. Resumes(cur)'
    <2>1. Last(alone'[cur]) = new
      BY <1>1 DEF Last
    <2> QED
      BY <2>1 DEF Resumes, Own, Same
  <1>8. OneOnStack'
    <2>1. \A u \in Users \ {cur} : StackOf(u)' = StackOf(u) /\ Depth(u)' = Depth(u)
      BY <1>1 DEF StackOf, Depth, Contexts
    <2> QED
      BY <2>1 DEF CoreInv, OneOnStack
  <1>9. TssSet' /\ OwnTable'
    BY DEF CoreInv, TssSet, OwnTable
  <1> QED
    BY <1>2, <1>5, <1>6, <1>7, <1>8, <1>9 DEF CoreInv

\* A process that is in the kernel has something on a stack of a process.
LEMMA DeepOnStack ==
  ASSUME CoreInv, NEW u \in Users, Depth(u) >= 2
  PROVE  /\ StackOf(u) \in Users
         /\ Depth(u) \in {2, 3} /\ Len(stack[StackOf(u)]) = Depth(u) - 1
         /\ Len(stack[StackOf(u)]) > 0
  <1>1. Levels(u) /\ Stacked(u)
    BY DEF CoreInv, ThreadInv, Contexts
  <1> QED
    BY <1>1 DEF Levels, Stacked, StackOf

\* A call pushes its frame where nothing lies.
LEMMA SyscallInv ==
  ASSUME Disjoint, CoreInv, Syscall, ~lost'
  PROVE  CoreInv'
  <1> DEFINE new == [rip |-> "syscall", cs |-> "kernel", rflags |-> "set",
                     rsp |-> KernelRsp(cur, 1), regs |-> FilledBy("syscall")]
             frame == SyscallFrame(AfterSyscall)
  <1>1. cpu.rip = "user" /\ cur \in Users /\ cur \in Contexts /\ Depth(cur) = 1
    BY CurWhere DEF Syscall, Contexts
  <1>2. Same(cpu, alone[cur][1]) /\ ThreadInv(cur) /\ alone[cur][1].rip = "user"
    BY <1>1, CurDepth DEF Same
  <1>3. new \in CpuStates
    <2>1. FilledBy("syscall") \in Files
      BY Filled DEF Codes
    <2>2. KernelRsp(cur, 1) \in Rsps
      BY <1>1 DEF KernelRsp, Rsps
    <2> QED
      BY <2>1, <2>2 DEF CpuStates, Rips, Flags
  <1>4. AddsTop(new) /\ cpu' = new
    BY DEF Syscall, Enters, AddsTop
  <1>5. UNCHANGED <<cur, kernel_regs_, user_regs_, in_kernel_space_, rsp0, cr3>>
    BY DEF Syscall, saved
  <1>6. \A u \in Users \ {cur} : Depth(u) >= 2 => StackOf(u) # cur
    <2>1. ~(Len(stack[cur]) > 0)
      BY DEF Syscall, Overwrites, KernelRsp
    <2> QED
      BY <2>1, DeepOnStack
  <1>7. stack' = [stack EXCEPT ![cur] = <<frame>>]
    BY DEF Syscall
  <1>8. user_stack' = [user_stack EXCEPT ![cur] = Restrict(cpu.regs, StubPushes)]
    BY DEF Syscall
  <1>9. /\ user_stack' = [u \in Users |-> user_stack'[u]]
        /\ \A u \in Users \ {cur} : user_stack'[u] = user_stack[u]
        /\ user_stack'[cur] = Restrict(cpu.regs, StubPushes)
    BY <1>1, <1>8 DEF CoreInv, CoreTypeOK
  <1>10. /\ frame \in CallFrames
         /\ frame.pushed = <<cpu.rsp, cpu.rflags, "stub", frame.pushed[4]>>
         /\ frame.kept["rbp"] = cpu.regs["rbp"]
    BY CallFrame
  <1>11. /\ alone'[cur][1] = alone[cur][1] /\ Len(alone'[cur]) = 2
         /\ alone'[cur][2] = new
    BY <1>1, <1>3, <1>4, Entered
  <1>12. /\ new.rip = "syscall" /\ new.cs = "kernel" /\ new.rsp = <<cur, 1>>
    BY DEF KernelRsp
  <1> HIDE DEF new, frame
  <1>13. /\ stack' \in [Contexts -> Seq(CpuStates \cup CallFrames)]
         /\ \A t \in Contexts \ {cur} : stack'[t] = stack[t]
         /\ stack'[cur] = <<frame>>
    <2>1. <<frame>> \in Seq(CpuStates \cup CallFrames)
      BY <1>10
    <2>2. stack \in [Contexts -> Seq(CpuStates \cup CallFrames)]
      BY DEF CoreInv, CoreTypeOK
    <2> QED
      BY <1>1, <1>7, <2>1, <2>2
  <1>14. Levels(cur)' /\ StackOf(cur)' = cur
    <2>1. Levels(cur)
      BY <1>1, <1>2 DEF ThreadInv
    <2> QED
      BY <1>1, <1>2, <1>5, <1>11, <1>12, <2>1 DEF Levels, InCall, Depth, StackOf
  <1>15. Stacked(cur)'
    <2>1. CallFrom(frame, alone[cur][1])
      BY <1>2, <1>10 DEF CallFrom, Same
    <2>2. Last(alone'[cur]) = new
      BY <1>11 DEF Last
    <2>3. Len(stack'[cur]) = 1 /\ stack'[cur][1] = frame
      BY <1>13
    <2> QED
      BY <1>5, <1>11, <1>12, <1>14, <2>1, <2>2, <2>3 DEF Stacked, Depth, CallFrom
  <1>16. InStub(cur)'
    BY <1>2, <1>5, <1>9, <1>11 DEF InStub, Same
  <1> QED
    BY <1>1, <1>3, <1>4, <1>5, <1>6, <1>9, <1>13, <1>14, <1>15, <1>16, EnterStep

\* Where the frame of a fault goes: not below what the process has on that stack.
LEMMA FrameAbove ==
  ASSUME Disjoint, CoreInv, PageFault
  PROVE  /\ FrameRsp[1] \in Users /\ FrameRsp[2] \in Nat
         /\ FrameRsp[2] = Depth(cur) - 1 /\ Depth(cur) \in {1, 2}
         /\ FrameRsp[2] <= Len(stack[FrameRsp[1]])
         /\ Depth(cur) = 2 =>
              /\ FrameRsp[1] = cur /\ StackOf(cur) = cur /\ cpu.rip = "syscall"
              /\ Len(stack[cur]) = 1
  <1>1. cur \in Users /\ cpu.rip \in {"user", "stub", "syscall"}
    BY DEF PageFault
  <1>2. CASE cpu.rip \in {"user", "stub"}
    <2>1. Depth(cur) = 1 /\ cpu.cs = "user"
      BY <1>2, CurWhere
    <2>2. FrameRsp = <<rsp0, 0>> /\ rsp0 \in Users
      BY <1>1, <2>1 DEF FrameRsp, KernelRsp, CoreInv, TssSet
    <2>3. stack[rsp0] \in Seq(CpuStates \cup CallFrames)
      BY <2>2 DEF CoreInv, CoreTypeOK, Contexts
    <2> QED
      BY <2>1, <2>2, <2>3
  <1>3. CASE cpu.rip = "syscall"
    <2>1. /\ Depth(cur) = 2 /\ cpu.cs = "kernel" /\ StackOf(cur) = cur
          /\ cpu.rsp[1] = cur /\ cpu.rsp[2] = 1
      BY <1>3, CurWhere
    <2>2. Len(stack[cur]) = 1
      <3>1. Depth(cur) >= 2 /\ Depth(cur) - 1 = 1
        BY <2>1
      <3> QED
        BY <1>1, <2>1, <3>1, DeepOnStack
    <2>3. FrameRsp = cpu.rsp
      BY <2>1 DEF FrameRsp
    <2>4. /\ FrameRsp[2] = Depth(cur) - 1 /\ Depth(cur) \in {1, 2}
          /\ FrameRsp[1] = cur /\ FrameRsp[2] = 1 /\ FrameRsp[2] \in Nat
      BY <2>1, <2>3
    <2>5. FrameRsp[2] <= Len(stack[FrameRsp[1]])
      <3>1. FrameRsp[1] = cur /\ FrameRsp[2] = 1
        BY <2>4
      <3>2. Len(stack[FrameRsp[1]]) = 1
        BY <2>2, <3>1
      <3> QED
        BY <3>1, <3>2
    <2> QED
      BY <1>1, <1>3, <2>1, <2>2, <2>4, <2>5
  <1> QED
    BY <1>1, <1>2, <1>3

\* When it overwrites nothing it goes right above, and nobody else is on that stack.
LEMMA FaultPlace ==
  ASSUME Disjoint, CoreInv, PageFault, ~lost'
  PROVE  /\ FrameRsp[1] \in Users /\ FrameRsp[2] = Depth(cur) - 1 /\ Depth(cur) \in {1, 2}
         /\ Len(stack[FrameRsp[1]]) = FrameRsp[2]
         /\ Depth(cur) = 2 => FrameRsp[1] = cur /\ StackOf(cur) = cur /\ cpu.rip = "syscall"
         /\ \A u \in Users \ {cur} : Depth(u) >= 2 => StackOf(u) # FrameRsp[1]
  <1>1. /\ FrameRsp[1] \in Users /\ FrameRsp[2] \in Nat
        /\ FrameRsp[2] = Depth(cur) - 1 /\ Depth(cur) \in {1, 2}
        /\ FrameRsp[2] <= Len(stack[FrameRsp[1]])
        /\ Depth(cur) = 2 => FrameRsp[1] = cur /\ StackOf(cur) = cur /\ cpu.rip = "syscall"
    BY FrameAbove
  <1>2. cur \in Users
    BY DEF PageFault
  <1>3. Len(stack[FrameRsp[1]]) = FrameRsp[2]
    <2>1. ~(Len(stack[FrameRsp[1]]) > FrameRsp[2])
      BY DEF PageFault, Overwrites
    <2>2. stack[FrameRsp[1]] \in Seq(CpuStates \cup CallFrames)
      BY <1>1 DEF CoreInv, CoreTypeOK, Contexts
    <2> QED
      BY <1>1, <2>1, <2>2
  <1>4. ASSUME NEW u \in Users \ {cur}, Depth(u) >= 2 PROVE StackOf(u) # FrameRsp[1]
    <2>1. CASE Depth(cur) = 1
      <3>1. ~(Len(stack[FrameRsp[1]]) > 0)
        BY <1>1, <1>3, <2>1
      <3> QED
        BY <1>4, <3>1, DeepOnStack
    <2>2. CASE Depth(cur) = 2
      BY <1>1, <1>2, <1>4, <2>2 DEF CoreInv, OneOnStack
    <2> QED
      BY <1>1, <2>1, <2>2
  <1> QED
    BY <1>1, <1>3, <1>4

\* A fault pushes its frame on the stack that the process is on, or the TSS has.
LEMMA PageFaultInv ==
  ASSUME Disjoint, CoreInv, PageFault, ~lost'
  PROVE  CoreInv'
  <1> DEFINE place == FrameRsp[1]
             new == [rip |-> "fault", cs |-> "kernel", rflags |-> "set",
                     rsp |-> KernelRsp(FrameRsp[1], FrameRsp[2] + 1), regs |-> FilledBy("fault")]
  <1>1. /\ place \in Users /\ FrameRsp[2] = Depth(cur) - 1 /\ Depth(cur) \in {1, 2}
        /\ Len(stack[place]) = FrameRsp[2]
        /\ Depth(cur) = 2 => place = cur /\ StackOf(cur) = cur /\ cpu.rip = "syscall"
        /\ \A u \in Users \ {cur} : Depth(u) >= 2 => StackOf(u) # place
    BY FaultPlace
  <1>2. cur \in Users /\ cur \in Contexts /\ place \in Contexts /\ cpu \in CpuStates
    BY <1>1 DEF PageFault, Contexts, CoreInv, CoreTypeOK
  <1>3. Same(cpu, alone[cur][Depth(cur)]) /\ Levels(cur) /\ Stacked(cur) /\ InStub(cur)
    BY <1>2, CurDepth DEF ThreadInv
  <1>4. new \in CpuStates
    <2>1. FilledBy("fault") \in Files
      BY Filled DEF Codes
    <2>2. KernelRsp(FrameRsp[1], FrameRsp[2] + 1) \in Rsps
      BY <1>1, <1>2 DEF KernelRsp, Rsps
    <2> QED
      BY <2>1, <2>2 DEF CpuStates, Rips, Flags
  <1>5. AddsTop(new) /\ cpu' = new
    BY DEF PageFault, Enters, AddsTop
  <1>6. /\ UNCHANGED <<cur, kernel_regs_, user_regs_, in_kernel_space_, rsp0, cr3>>
        /\ user_stack' = user_stack
    BY DEF PageFault, saved
  <1>7. stack' = [stack EXCEPT ![place] = Append(SubSeq(@, 1, FrameRsp[2]), cpu)]
    BY FrameIsCpu DEF PageFault, CoreInv
  <1>8. /\ \A i \in 1 .. Depth(cur) : alone'[cur][i] = alone[cur][i]
        /\ Len(alone'[cur]) = Depth(cur) + 1 /\ alone'[cur][Depth(cur) + 1] = new
    BY <1>4, <1>5, Entered
  <1>9. new.rip = "fault" /\ new.cs = "kernel" /\ new.rsp = <<place, Depth(cur)>>
    BY <1>1 DEF KernelRsp
  <1> HIDE DEF new, place
  <1>10. /\ stack' \in [Contexts -> Seq(CpuStates \cup CallFrames)]
         /\ \A t \in Contexts \ {place} : stack'[t] = stack[t]
         /\ Len(stack'[place]) = Depth(cur) /\ stack'[place][Depth(cur)] = cpu
         /\ \A i \in 1 .. Depth(cur) - 1 : stack'[place][i] = stack[place][i]
    <2>1. stack \in [Contexts -> Seq(CpuStates \cup CallFrames)]
      BY DEF CoreInv, CoreTypeOK
    <2>2. SubSeq(stack[place], 1, FrameRsp[2]) = stack[place]
      BY <1>1, <1>2, <2>1, SubSeqFull
    <2>3. /\ Append(stack[place], cpu) \in Seq(CpuStates \cup CallFrames)
          /\ Len(Append(stack[place], cpu)) = Len(stack[place]) + 1
          /\ \A i \in 1 .. Len(stack[place]) : Append(stack[place], cpu)[i] = stack[place][i]
          /\ Append(stack[place], cpu)[Len(stack[place]) + 1] = cpu
      BY <1>2, <2>1, Appended
    <2>4. stack' = [stack EXCEPT ![place] = Append(stack[place], cpu)]
      BY <1>7, <2>2
    <2>5. /\ stack' \in [Contexts -> Seq(CpuStates \cup CallFrames)]
          /\ \A t \in Contexts \ {place} : stack'[t] = stack[t]
          /\ stack'[place] = Append(stack[place], cpu)
      BY <1>2, <2>1, <2>3, <2>4
    <2>6. Len(stack[place]) = Depth(cur) - 1 /\ Depth(cur) \in Nat
      BY <1>1
    <2> QED
      BY <2>3, <2>5, <2>6
  <1>11. Levels(cur)' /\ StackOf(cur)' = place
    <2>1. CASE Depth(cur) = 1
      <3>1. /\ alone'[cur][1] = alone[cur][1] /\ alone'[cur][2] = new /\ Len(alone'[cur]) = 2
        BY <1>8, <2>1
      <3> QED
        BY <1>1, <1>3, <1>6, <1>9, <2>1, <3>1 DEF Levels, InCall, Depth, StackOf
    <2>2. CASE Depth(cur) = 2
      <3>1. /\ alone'[cur][1] = alone[cur][1] /\ alone'[cur][2] = alone[cur][2]
            /\ alone'[cur][3] = new /\ Len(alone'[cur]) = 3
        BY <1>8, <2>2
      <3>2. alone[cur][2].rip = "syscall"
        BY <1>1, <1>3, <2>2 DEF Same
      <3> QED
        BY <1>1, <1>3, <1>6, <1>9, <2>2, <3>1, <3>2 DEF Levels, InCall, Depth, StackOf, KernelRsp
    <2> QED
      BY <1>1, <2>1, <2>2
  <1>12. Stacked(cur)'
    <2>1. SavedIn(cpu, alone'[cur][Depth(cur)])
      BY <1>1, <1>2, <1>3, <1>8 DEF SavedIn
    <2>2. Last(alone'[cur]) = new
      BY <1>1, <1>8 DEF Last
    <2>3. CASE Depth(cur) = 1
      <3>1. Len(alone'[cur]) = 2 /\ alone'[cur][2] = new
        BY <1>8, <2>3
      <3> QED
        BY <1>6, <1>9, <1>10, <1>11, <2>1, <2>2, <2>3, <3>1
           DEF Stacked, Depth, InCall, SavedIn, Same
    <2>4. CASE Depth(cur) = 2
      <3>1. /\ alone'[cur][1] = alone[cur][1] /\ alone'[cur][2] = alone[cur][2]
            /\ Len(alone'[cur]) = 3
        BY <1>8, <2>4
      <3>2. CallFrom(stack[cur][1], alone[cur][1])
        BY <1>1, <1>3, <2>4 DEF Stacked, InCall, Same
      <3>3. CallFrom(stack'[place][1], alone'[cur][1])
        BY <1>1, <1>10, <2>4, <3>1, <3>2
      <3> QED
        BY <1>1, <1>6, <1>9, <1>10, <1>11, <2>1, <2>2, <2>4, <3>1, <3>3
           DEF Stacked, Depth, SavedIn, Same, CallFrom
    <2> QED
      BY <1>1, <2>3, <2>4
  <1>13. InStub(cur)'
    <2>1. alone'[cur][1] = alone[cur][1]
      BY <1>1, <1>8
    <2>2. InCall(cur)' => InCall(cur)
      BY <1>1, <1>6, <1>8, <1>9 DEF InCall, Depth
    <2> QED
      BY <1>3, <1>6, <2>1, <2>2 DEF InStub
  <1>14. /\ user_stack' = [u \in Users |-> user_stack'[u]]
         /\ \A u \in Users \ {cur} : user_stack'[u] = user_stack[u]
    BY <1>6 DEF CoreInv, CoreTypeOK
  <1> QED
    BY <1>1, <1>2, <1>4, <1>5, <1>6, <1>10, <1>11, <1>12, <1>13, <1>14, EnterStep

\* What leaving a level has to establish for the thread that leaves it.
LEMMA LeaveStep ==
  ASSUME Disjoint, CoreInv, cur \in Users, Depth(cur) >= 2,
         UNCHANGED <<cur, kernel_regs_, user_regs_, cr3, user_stack>>,
         cpu' \in CpuStates, rsp0' \in Users,
         in_kernel_space_' \in [Users -> BOOLEAN],
         \A u \in Users \ {cur} : in_kernel_space_'[u] = in_kernel_space_[u],
         alone' \in [Contexts -> Seq(CpuStates)],
         \A t \in Contexts \ {cur} : alone'[t] = alone[t],
         stack' \in [Contexts -> Seq(CpuStates \cup CallFrames)],
         \A t \in Contexts \ {StackOf(cur)} : stack'[t] = stack[t],
         Levels(cur)', Stacked(cur)', InStub(cur)', Same(cpu', Last(alone'[cur])),
         Len(alone'[cur]) >= 2 => alone'[cur][2] = alone[cur][2]
  PROVE  CoreInv'
  <1>1. CoreTypeOK'
    BY DEF CoreInv, CoreTypeOK
  <1>2. cur \notin Kernels
    BY DEF Disjoint
  <1>3. \A u \in Users \ {cur} :
          Depth(u) >= 2 => StackOf(u) # StackOf(cur) /\ StackOf(u) \in Contexts
    BY DeepOnStack DEF CoreInv, OneOnStack, Contexts
  <1>4. ASSUME NEW t \in Contexts \ {cur} PROVE ThreadInv(t)' /\ Resumes(t)'
    <2>1. t \in Users /\ Depth(t) >= 2 => stack'[StackOf(t)] = stack[StackOf(t)]
      BY <1>3
    <2>2. ThreadInv(t)'
      BY <2>1, OthersKept
    <2>3. t \in Users => in_kernel_space_'[t] = in_kernel_space_[t]
      OBVIOUS
    <2>4. Resumes(t)'
      BY <2>3, OthersResume
    <2> QED
      BY <2>2, <2>4
  <1>5. ThreadInv(cur)'
    BY <1>2 DEF ThreadInv
  <1>6. Resumes(cur)'
    BY DEF Resumes, Own, Same
  <1>7. OneOnStack'
    <2>1. \A u \in Users \ {cur} : StackOf(u)' = StackOf(u) /\ Depth(u)' = Depth(u)
      BY DEF StackOf, Depth, Contexts
    <2>2. Depth(cur)' >= 2 => StackOf(cur)' = StackOf(cur)
      BY DEF StackOf, Depth
    <2>3. OneOnStack
      BY DEF CoreInv
    <2>4. \A u \in Users : Depth(u)' >= 2 => Depth(u) >= 2 /\ StackOf(u)' = StackOf(u)
      BY <2>1, <2>2
    <2> QED
      BY <2>3, <2>4 DEF OneOnStack
  <1>8. TssSet' /\ OwnTable'
    BY DEF CoreInv, TssSet, OwnTable
  <1> QED
    BY <1>1, <1>4, <1>5, <1>6, <1>7, <1>8 DEF CoreInv

\* A stack loses its top.
LEMMA StackPopped ==
  ASSUME CoreInv, NEW place \in Contexts, NEW n \in Nat, Len(stack[place]) = n + 1,
         stack' = [stack EXCEPT ![place] = Front(@)]
  PROVE  /\ stack' \in [Contexts -> Seq(CpuStates \cup CallFrames)]
         /\ \A t \in Contexts \ {place} : stack'[t] = stack[t]
         /\ Len(stack'[place]) = n /\ \A i \in 1 .. n : stack'[place][i] = stack[place][i]
         /\ Last(stack[place]) = stack[place][n + 1]
  <1>1. stack \in [Contexts -> Seq(CpuStates \cup CallFrames)]
    BY DEF CoreInv, CoreTypeOK
  <1>2. /\ Front(stack[place]) \in Seq(CpuStates \cup CallFrames) /\ Len(Front(stack[place])) = n
        /\ \A i \in 1 .. n : Front(stack[place])[i] = stack[place][i]
        /\ Last(stack[place]) = stack[place][n + 1]
    <2> DEFINE Entries == CpuStates \cup CallFrames
    <2>1. stack[place] \in Seq(Entries)
      BY <1>1
    <2>2. PICK s : s = stack[place]
      OBVIOUS
    <2> HIDE DEF Entries
    <2>3. /\ s \in Seq(Entries) /\ Len(s) = n + 1
      BY <2>1, <2>2
    <2>4. /\ Front(s) \in Seq(Entries) /\ Len(Front(s)) = n
          /\ \A i \in 1 .. n : Front(s)[i] = s[i]
          /\ Last(s) = s[n + 1]
      BY <2>3, Tops
    <2> QED
      BY <2>2, <2>4 DEF Entries
  <1>3. /\ stack' \in [Contexts -> Seq(CpuStates \cup CallFrames)]
        /\ stack'[place] = Front(stack[place])
        /\ \A t \in Contexts \ {place} : stack'[t] = stack[t]
    BY <1>1, <1>2
  <1> QED
    BY <1>2, <1>3

\* A fault returns to the level below.
LEMMA FaultReturnInv ==
  ASSUME Disjoint, CoreInv, FaultReturn
  PROVE  CoreInv'
  <1> DEFINE place == StackOf(cur)
  <1>1. /\ cur \in Users /\ cur \in Contexts /\ Depth(cur) \in {2, 3}
        /\ cpu.rsp[1] = place /\ cpu.rip = "fault"
    BY CurWhere DEF FaultReturn, Contexts
  <1>2. PICK n \in {1, 2} : Depth(cur) = n + 1
    BY <1>1
  <1>3. Same(cpu, alone[cur][Depth(cur)]) /\ Levels(cur) /\ Stacked(cur) /\ InStub(cur)
    BY <1>1, CurDepth DEF ThreadInv
  <1>4. place \in Users /\ place \in Contexts /\ Len(stack[place]) = n
    <2>1. Depth(cur) >= 2 /\ Depth(cur) - 1 = n
      BY <1>2
    <2> QED
      BY <1>1, <2>1, DeepOnStack DEF Contexts
  <1>5. /\ UNCHANGED <<cur, kernel_regs_, user_regs_, cr3, user_stack>> /\ rsp0' = cur
        /\ in_kernel_space_' = [in_kernel_space_ EXCEPT ![cur] = FALSE]
        /\ cpu' = Return(Last(stack[place]))
        /\ stack' = [stack EXCEPT ![place] = Front(@)]
    BY <1>1 DEF FaultReturn
  <1>6. alone' = [alone EXCEPT ![cur] = Front(@)]
    BY DEF FaultReturn
  <1> HIDE DEF place
  <1>7. /\ stack' \in [Contexts -> Seq(CpuStates \cup CallFrames)]
        /\ \A t \in Contexts \ {place} : stack'[t] = stack[t]
        /\ Len(stack'[place]) = n - 1 /\ \A i \in 1 .. n - 1 : stack'[place][i] = stack[place][i]
        /\ Last(stack[place]) = stack[place][n]
    <2>1. PICK m \in Nat : n = m + 1
      BY <1>2
    <2>2. /\ stack' \in [Contexts -> Seq(CpuStates \cup CallFrames)]
          /\ \A t \in Contexts \ {place} : stack'[t] = stack[t]
          /\ Len(stack'[place]) = m /\ \A i \in 1 .. m : stack'[place][i] = stack[place][i]
          /\ Last(stack[place]) = stack[place][m + 1]
      <3>1. Len(stack[place]) = m + 1 /\ place \in Contexts
        BY <1>4, <2>1
      <3>2. stack' = [stack EXCEPT ![place] = Front(@)]
        BY <1>5
      <3> QED
        BY <3>1, <3>2, StackPopped
    <2>3. n - 1 = m /\ m + 1 = n
      BY <2>1
    <2> QED
      BY <2>2, <2>3
  <1>8. /\ alone' \in [Contexts -> Seq(CpuStates)]
        /\ \A t \in Contexts \ {cur} : alone'[t] = alone[t]
        /\ Len(alone'[cur]) = n /\ \A i \in 1 .. n : alone'[cur][i] = alone[cur][i]
    <2>1. alone \in [Contexts -> Seq(CpuStates)] /\ alone[cur] \in Seq(CpuStates)
      BY CurDepth
    <2>2. n \in Nat /\ Len(alone[cur]) = n + 1
      BY <1>2 DEF Depth
    <2>3. /\ Front(alone[cur]) \in Seq(CpuStates) /\ Len(Front(alone[cur])) = n
          /\ \A i \in 1 .. n : Front(alone[cur])[i] = alone[cur][i]
      BY <2>1, <2>2, Tops
    <2>4. /\ alone' \in [Contexts -> Seq(CpuStates)]
          /\ \A t \in Contexts \ {cur} : alone'[t] = alone[t]
          /\ alone'[cur] = Front(alone[cur])
      BY <1>1, <1>6, <2>1, <2>3
    <2> QED
      BY <2>3, <2>4
  <1>9. Last(alone[cur]).rip = "fault"
    BY <1>1, <1>3 DEF Same, Last, Depth
  <1>10. SavedIn(stack[place][n], alone[cur][n])
    <2>1. Depth(cur) >= 2 /\ Depth(cur) - 1 = n
      BY <1>2
    <2> QED
      BY <1>3, <1>9, <2>1 DEF Stacked, place
  <1>11. cpu' \in CpuStates /\ Same(cpu', Last(alone'[cur]))
    <2>1. cpu' = stack[place][n] /\ cpu' \in CpuStates
      BY <1>5, <1>7, <1>10, FrameIsCpu DEF SavedIn
    <2>2. Last(alone'[cur]) = alone[cur][n]
      BY <1>2, <1>8 DEF Last
    <2> QED
      BY <1>10, <2>1, <2>2 DEF SavedIn
  <1>12. Levels(cur)'
    BY <1>2, <1>3, <1>5, <1>8 DEF Levels, InCall, Depth
  <1>13. n = 2 => /\ alone[cur][2].rip = "syscall" /\ place = cur
                  /\ alone'[cur][2] = alone[cur][2]
    BY <1>2, <1>3, <1>8 DEF Levels, InCall, StackOf, place
  <1>14. Stacked(cur)'
    <2>1. CASE n = 1
      BY <1>5, <1>8, <2>1 DEF Stacked, Depth
    <2>2. CASE n = 2
      <3>1. /\ alone'[cur][1] = alone[cur][1] /\ Len(alone'[cur]) = 2
            /\ Last(alone'[cur]) = alone'[cur][2] /\ StackOf(cur)' = cur
        <4>1. Len(alone'[cur]) = 2 /\ alone'[cur][1] = alone[cur][1]
          BY <1>8, <2>2
        <4>2. StackOf(cur)' = cur
          BY <1>5, <1>13, <2>2, <4>1 DEF StackOf, place
        <4> QED
          BY <4>1, <4>2 DEF Last
      <3>2. Len(stack'[cur]) = 1 /\ stack'[cur][1] = stack[cur][1]
        <4>1. place = cur /\ n - 1 = 1 /\ 1 \in 1 .. 1
          BY <1>13, <2>2
        <4> QED
          BY ONLY <1>7, <4>1
      <3>3. CallFrom(stack[cur][1], alone[cur][1])
        BY <1>2, <1>3, <1>13, <2>2 DEF Stacked, InCall
      <3>4. CallFrom(stack'[cur][1], alone'[cur][1])
        BY <3>1, <3>2, <3>3
      <3> QED
        BY <1>5, <1>13, <2>2, <3>1, <3>2, <3>4 DEF Stacked, Depth, CallFrom
    <2> QED
      BY <2>1, <2>2
  <1>15. InStub(cur)'
    <2>1. alone'[cur][1] = alone[cur][1]
      BY <1>2, <1>8
    <2>2. InCall(cur)' => InCall(cur)
      BY <1>2, <1>5, <1>8, <1>13 DEF InCall, Depth
    <2> QED
      BY <1>3, <1>5, <2>1, <2>2 DEF InStub
  <1>16. /\ in_kernel_space_' \in [Users -> BOOLEAN]
         /\ \A u \in Users \ {cur} : in_kernel_space_'[u] = in_kernel_space_[u]
    BY <1>5 DEF CoreInv, CoreTypeOK
  <1>17. Len(alone'[cur]) >= 2 => alone'[cur][2] = alone[cur][2]
    BY <1>2, <1>8
  <1> QED
    <2>1. rsp0' \in Users /\ Depth(cur) >= 2
      BY <1>1, <1>5
    <2> QED
      BY <1>1, <1>5, <1>7, <1>8, <1>11, <1>12, <1>14, <1>15, <1>16, <1>17, <2>1, LeaveStep DEF place

\* What the caller of a system call would find after it, from what is returned to it.
Results(regs, caller) == [r \in Regs |-> IF r \in CalleeSaved THEN caller.regs[r] ELSE regs[r]]

\* The pops and the C code give back what the caller has to find again.
LEMMA Returned ==
  ASSUME NEW frame \in CallFrames, NEW caller \in CpuStates, CallFrom(frame, caller)
  PROVE  LET regs == AfterPops(frame)
             new == [caller EXCEPT !.rip = "stub", !.regs = Results(regs, caller)]
         IN  /\ regs \in Files
             /\ regs["rcx"] = "stub" /\ regs["r11"] = caller.rflags /\ regs["r12"] = caller.rsp
             /\ regs["rax"] = <<"result", "rax">>
             /\ \A r \in Regs \ StubPushes : regs[r] = Results(regs, caller)[r]
             /\ new \in CpuStates /\ new.rip = "stub" /\ new.regs = Results(regs, caller)
             /\ new.cs = caller.cs /\ new.rflags = caller.rflags /\ new.rsp = caller.rsp
             /\ Restrict(new.regs, StubPushes) = Restrict(caller.regs, StubPushes)
  <1> DEFINE regs == AfterPops(frame)
             results == Results(regs, caller)
             new == [caller EXCEPT !.rip = "stub", !.regs = results]
  <1>1. /\ frame.pushed = <<caller.rsp, caller.rflags, "stub", frame.pushed[4]>>
        /\ frame.kept["rbp"] = caller.regs["rbp"]
        /\ frame.kept \in [CalleeSaved -> Tokens] /\ frame.pushed \in Seq(Tokens)
    BY DEF CallFrom, CallFrames
  <1>2. /\ caller.regs \in Files /\ caller.rflags \in Flags /\ caller.rsp \in Rsps
    BY DEF CpuStates
  <1> DEFINE last == frame.pushed[4]
  <1>3. last \in Tokens
    <2>1. \A a, b, c, d : Len(<<a, b, c, d>>) = 4
      OBVIOUS
    <2>2. Len(frame.pushed) = 4
      BY <1>1, <2>1
    <2> QED
      BY <1>1, <2>2
  <1> HIDE DEF last
  <1>4. regs = [r \in Regs |->
           CASE r = "r9" -> last [] r = "rcx" -> "stub" [] r = "r11" -> caller.rflags
             [] r = "r12" -> caller.rsp
             [] r \in CalleeSaved \ {"r12"} -> frame.kept[r]
             [] OTHER -> <<"result", r>>]
    BY <1>1, PoppedFrame DEF last
  <1> HIDE DEF regs
  <1>5. /\ regs["rcx"] = "stub" /\ regs["r11"] = caller.rflags /\ regs["r12"] = caller.rsp
        /\ regs["rax"] = <<"result", "rax">> /\ regs["rbp"] = caller.regs["rbp"]
    BY <1>1, <1>4, RegNames DEF CalleeSaved
  <1>6. regs \in Files
    <2>1. \A r \in Regs : <<"result", r>> \in Tokens
      BY DEF Tokens, Codes
    <2>2. "stub" \in Tokens /\ caller.rflags \in Tokens /\ caller.rsp \in Tokens
      BY <1>2 DEF Tokens
    <2>3. \A r \in Regs : regs[r] \in Tokens
      BY <1>1, <1>3, <1>4, <2>1, <2>2
    <2> QED
      BY <1>4, <2>3 DEF Files
  <1>7. results \in Files /\ \A r \in CalleeSaved : results[r] = caller.regs[r]
    BY <1>2, <1>6, RegNames DEF Results, Files
  <1>8. \A r \in Regs \ StubPushes : regs[r] = results[r]
    BY <1>5, RegNames DEF Results, CalleeSaved, StubPushes
  <1> HIDE DEF results
  <1>9. /\ new.rip = "stub" /\ new.regs = results
        /\ new.cs = caller.cs /\ new.rflags = caller.rflags /\ new.rsp = caller.rsp
    BY DEF CpuStates
  <1>10. new \in CpuStates
    BY <1>7 DEF CpuStates, Rips
  <1>11. Restrict(results, StubPushes) = Restrict(caller.regs, StubPushes)
    BY <1>7, RegNames DEF Restrict
  <1> QED
    BY <1>5, <1>6, <1>8, <1>9, <1>10, <1>11 DEF regs, results

\* A call returns to its stub.
LEMMA SysretInv ==
  ASSUME Disjoint, CoreInv, Sysret
  PROVE  CoreInv'
  <1> DEFINE frame == stack[cur][1]
             caller == alone[cur][1]
             regs == AfterPops(frame)
             new == [caller EXCEPT !.rip = "stub", !.regs = Results(regs, caller)]
  <1>1. /\ cur \in Users /\ cur \in Contexts /\ Depth(cur) = 2 /\ InCall(cur)
        /\ StackOf(cur) = cur
    BY CurWhere DEF Sysret, Contexts
  <1>2. Levels(cur) /\ Stacked(cur) /\ InStub(cur)
    BY <1>1, CurDepth DEF ThreadInv
  <1>3. Len(stack[cur]) = 1 /\ CallFrom(frame, caller)
    BY <1>1, <1>2 DEF Stacked
  <1>4. frame \in CallFrames
    BY <1>3 DEF CallFrom
  <1>5. /\ alone[cur] \in Seq(CpuStates) /\ alone \in [Contexts -> Seq(CpuStates)]
        /\ Len(alone[cur]) = 2
    BY <1>1, CurDepth DEF Depth
  <1>6. caller \in CpuStates
    BY <1>5
  <1>7. /\ regs \in Files
        /\ regs["rcx"] = "stub" /\ regs["r11"] = caller.rflags /\ regs["r12"] = caller.rsp
        /\ regs["rax"] = <<"result", "rax">>
        /\ \A r \in Regs \ StubPushes : regs[r] = Results(regs, caller)[r]
        /\ new \in CpuStates /\ new.rip = "stub" /\ new.regs = Results(regs, caller)
        /\ new.cs = caller.cs /\ new.rflags = caller.rflags /\ new.rsp = caller.rsp
        /\ Restrict(new.regs, StubPushes) = Restrict(caller.regs, StubPushes)
    BY <1>3, <1>4, <1>6, Returned
  <1>8. stack' = [stack EXCEPT ![cur] = Front(@)]
    BY DEF Sysret
  <1>9. /\ stack' \in [Contexts -> Seq(CpuStates \cup CallFrames)]
        /\ \A t \in Contexts \ {cur} : stack'[t] = stack[t]
        /\ Last(stack[cur]) = frame
    <2>1. PICK n \in Nat : n + 1 = 1 /\ Len(stack[cur]) = n + 1
      BY <1>3
    <2>2. /\ stack' \in [Contexts -> Seq(CpuStates \cup CallFrames)]
          /\ \A t \in Contexts \ {cur} : stack'[t] = stack[t]
          /\ Last(stack[cur]) = stack[cur][n + 1]
      BY <1>1, <1>8, <2>1, StackPopped
    <2> QED
      BY <2>1, <2>2
  <1>10. /\ UNCHANGED <<cur, kernel_regs_, user_regs_, in_kernel_space_, cr3, user_stack>>
         /\ rsp0' = rsp0
    BY DEF Sysret, saved
  <1>11. cpu' = [rip |-> "stub", cs |-> "user", rflags |-> caller.rflags, rsp |-> caller.rsp,
                 regs |-> regs]
    BY <1>7, <1>9 DEF Sysret
  <1>12. alone' = [alone EXCEPT ![cur] = Append(Front(Front(@)), new)]
    <2>1. cpu'.regs = regs
      BY <1>11
    <2>2. alone[cur][Len(alone[cur]) - 1] = caller
      BY <1>5
    <2> QED
      BY <2>1, <2>2 DEF Sysret, Results
  <1> HIDE DEF frame, regs, new
  <1>13. Append(Front(Front(alone[cur])), new) \in Seq(CpuStates)
         /\ Len(Append(Front(Front(alone[cur])), new)) = 1
         /\ Append(Front(Front(alone[cur])), new)[1] = new
    <2>1. Len(alone[cur]) = 1 + 1 /\ 1 \in Nat
      BY <1>5
    <2>2. PICK f \in Seq(CpuStates) : f = Front(alone[cur]) /\ Len(f) = 1
      <3>1. Front(alone[cur]) \in Seq(CpuStates) /\ Len(Front(alone[cur])) = 1
        BY <1>5, <2>1, Tops
      <3> QED
        BY <3>1
    <2>3. PICK n \in Nat : n + 1 = 1 /\ Len(f) = n + 1
      BY <2>2
    <2>4. /\ Append(Front(f), new) \in Seq(CpuStates) /\ Len(Append(Front(f), new)) = n + 1
          /\ Append(Front(f), new)[n + 1] = new
      <3>1. new \in CpuStates
        BY <1>7
      <3> QED
        BY <2>3, <3>1, NewTop
    <2> QED
      BY <2>2, <2>3, <2>4
  <1>14. /\ alone' \in [Contexts -> Seq(CpuStates)]
         /\ \A t \in Contexts \ {cur} : alone'[t] = alone[t]
         /\ Len(alone'[cur]) = 1 /\ alone'[cur][1] = new /\ Last(alone'[cur]) = new
    <2>1. alone'[cur] = Append(Front(Front(alone[cur])), new)
      BY <1>1, <1>5, <1>12
    <2>2. /\ alone' \in [Contexts -> Seq(CpuStates)]
          /\ \A t \in Contexts \ {cur} : alone'[t] = alone[t]
      BY <1>1, <1>5, <1>12, <1>13
    <2> QED
      BY <1>13, <2>1, <2>2 DEF Last
  <1>15. caller.cs = "user"
    BY <1>2 DEF Levels
  <1>16. cpu' \in CpuStates
    BY <1>6, <1>7, <1>11 DEF CpuStates, Rips
  <1>17. Same(cpu', Last(alone'[cur]))
    BY <1>7, <1>11, <1>14, <1>15 DEF Same
  <1>18. Levels(cur)' /\ Stacked(cur)'
    BY <1>7, <1>10, <1>14, <1>15 DEF Levels, Stacked, Depth, InCall
  <1>19. InStub(cur)'
    <2>1. user_stack[cur] = Restrict(caller.regs, StubPushes)
      BY <1>1, <1>2 DEF InStub
    <2>2. new.regs["rax"] = <<"result", "rax">>
      BY <1>7, RegNames DEF StubPushes
    <2> QED
      BY <1>7, <1>10, <1>14, <2>1, <2>2 DEF InStub
  <1>20. rsp0' \in Users
    BY <1>1, <1>10 DEF CoreInv, TssSet
  <1>21. /\ in_kernel_space_' \in [Users -> BOOLEAN]
         /\ \A u \in Users \ {cur} : in_kernel_space_'[u] = in_kernel_space_[u]
    BY <1>10 DEF CoreInv, CoreTypeOK
  <1> QED
    BY <1>1, <1>9, <1>10, <1>14, <1>16, <1>17, <1>18, <1>19, <1>20, <1>21, LeaveStep
-----------------------------------------------------------------------------
(* The switch *)

\* The code segment and the address of the frame tell the same: where the registers of
\* the thread that leaves are saved is where its mark will have them looked for.
LEMMA MarkTellsPlace ==
  ASSUME Disjoint, CoreInv
  PROVE  /\ cpu.cs = "kernel" <=> IsKernelMemory(cpu.rip)
         /\ cur \in Kernels => cpu.cs = "kernel"
  <1>1. cpu.rip \in {"user", "stub"} => cpu.cs = "user"
    BY CurWhere
  <1>2. cpu.rip \notin {"user", "stub"} => cpu.cs = "kernel"
    <2>1. cpu.rip \in {"code", "user", "stub", "syscall", "exit", "fault"}
      BY CurWhere
    <2>2. cpu.rip \in {"syscall", "exit", "fault"} => cpu.cs = "kernel"
      BY CurWhere
    <2>3. cur \in Kernels => cpu.cs = "kernel"
      BY CurWhere
    <2>4. cpu.rip = "code" => cur \in Kernels
      <3>1. SUFFICES ASSUME cpu.rip = "code", cur \in Users PROVE FALSE
        BY CurDepth DEF Contexts
      <3>2. Levels(cur) /\ Same(cpu, alone[cur][Depth(cur)])
        BY <3>1, CurDepth DEF ThreadInv
      <3> QED
        BY <3>1, <3>2 DEF Levels, Same
    <2> QED
      BY <2>1, <2>2, <2>3, <2>4
  <1> QED
    BY <1>1, <1>2, CurWhere DEF IsKernelMemory

\* A switch leaves the registers of one thread where its mark has them looked for,
\* and finds those of the next one.
LEMMA SwitchInv ==
  ASSUME Disjoint, CoreInv, NEW next \in Contexts \ {cur}, YieldInInterruptHandler(next),
         UNCHANGED <<stack, user_stack, alone>>
  PROVE  CoreInv'
  <1> DEFINE inKernel == cpu.cs = "kernel"
             toKernel == IsInKernelSpace(next)
  <1>1. /\ cur \in Contexts /\ cpu \in CpuStates /\ alone \in [Contexts -> Seq(CpuStates)]
        /\ kernel_regs_ \in [Contexts -> CpuStates] /\ user_regs_ \in [Contexts -> CpuStates]
        /\ in_kernel_space_ \in [Users -> BOOLEAN]
    BY DEF CoreInv, CoreTypeOK
  <1>2. Frame = cpu
    BY FrameIsCpu DEF CoreInv
  <1>3. Stale \in CpuStates
    <2>1. FilledBy("stale") \in Files /\ FilledBy("this") \in Files
      BY Filled DEF Codes
    <2> QED
      BY <2>1 DEF Stale, UserEntry, CpuStates, Rips, Flags, Rsps, UserRsp
  <1>4. /\ cur' = next
        /\ in_kernel_space_' = [t \in Users |-> IF t = cur THEN IsKernelMemory(cpu.rip)
                                                ELSE in_kernel_space_[t]]
        /\ kernel_regs_' = [kernel_regs_ EXCEPT ![cur] = IF inKernel THEN cpu ELSE @,
                                                ![next] = IF toKernel THEN Stale ELSE @]
        /\ user_regs_' = [user_regs_ EXCEPT ![cur] = IF ~inKernel THEN cpu ELSE @,
                                            ![next] = IF ~toKernel THEN Stale ELSE @]
        /\ cpu' = Return(IF toKernel THEN kernel_regs_[next] ELSE user_regs_[next])
        /\ rsp0' = IF toKernel THEN rsp0 ELSE next
        /\ cr3' = IF next \in Kernels THEN cr3 ELSE next
    BY <1>2 DEF YieldInInterruptHandler, ResumesInKernel, Exchange, LoadCR3
  <1> HIDE DEF toKernel, inKernel
  <1>5. cpu' = Own(next) /\ cpu' \in CpuStates
    BY <1>1, <1>4, FrameIsCpu DEF Own, toKernel
  <1>6. /\ kernel_regs_' \in [Contexts -> CpuStates] /\ user_regs_' \in [Contexts -> CpuStates]
        /\ in_kernel_space_' \in [Users -> BOOLEAN]
    <2>1. \A f \in [Contexts -> CpuStates] : \A x, y \in CpuStates :
            [f EXCEPT ![cur] = x, ![next] = y] \in [Contexts -> CpuStates]
      OBVIOUS
    <2>2. kernel_regs_[cur] \in CpuStates /\ kernel_regs_[next] \in CpuStates
      BY <1>1
    <2>3. user_regs_[cur] \in CpuStates /\ user_regs_[next] \in CpuStates
      BY <1>1
    <2>4. kernel_regs_' = [kernel_regs_ EXCEPT
                             ![cur] = IF inKernel THEN cpu ELSE kernel_regs_[cur],
                             ![next] = IF toKernel THEN Stale ELSE kernel_regs_[next]]
      BY <1>4
    <2>5. user_regs_' = [user_regs_ EXCEPT
                           ![cur] = IF ~inKernel THEN cpu ELSE user_regs_[cur],
                           ![next] = IF ~toKernel THEN Stale ELSE user_regs_[next]]
      BY <1>4
    <2>6. kernel_regs_' \in [Contexts -> CpuStates]
      BY <1>1, <1>3, <2>1, <2>2, <2>4
    <2>7. user_regs_' \in [Contexts -> CpuStates]
      BY <1>1, <1>3, <2>1, <2>3, <2>5
    <2>8. in_kernel_space_' \in [Users -> BOOLEAN]
      BY <1>1, <1>4 DEF IsKernelMemory
    <2> QED
      BY <2>6, <2>7, <2>8
  <1>7. CoreTypeOK'
    BY <1>4, <1>5, <1>6 DEF CoreInv, CoreTypeOK
  <1>8. \A t \in Contexts : ThreadInv(t)'
    BY OthersKept
  <1>9. Resumes(next)'
    <2>1. Resumes(next)
      BY DEF CoreInv
    <2> QED
      BY <1>4, <1>5, <2>1 DEF Resumes, Own, Same
  <1>10. ASSUME NEW t \in Contexts \ {cur, next} PROVE Resumes(t)'
    <2>1. Resumes(t)
      BY DEF CoreInv
    <2>2. IsInKernelSpace(t)' = IsInKernelSpace(t)
      BY <1>4 DEF IsInKernelSpace, Contexts
    <2>3. kernel_regs_'[t] = kernel_regs_[t] /\ user_regs_'[t] = user_regs_[t]
      BY <1>1, <1>4
    <2>4. Own(t)' = Own(t)
      BY <1>4, <2>2, <2>3 DEF Own
    <2> QED
      BY <2>1, <2>2, <2>4 DEF Resumes, Same
  <1>11. LET t == cur
         IN  /\ IF t \in Kernels \/ in_kernel_space_'[t] THEN kernel_regs_'[t] = cpu
                ELSE user_regs_'[t] = cpu
             /\ (t \in Kernels \/ in_kernel_space_'[t]) <=> IsKernelMemory(cpu.rip)
    BY <1>1, <1>4, MarkTellsPlace DEF Contexts, inKernel
  <1>12. ASSUME NEW t, t = cur PROVE Resumes(t)'
    <2>1. Same(cpu, Last(alone[t])) /\ Last(alone[t]).rip = cpu.rip
      BY <1>1, <1>12, CurDepth DEF Resumes, Own, Same
    <2>2. Own(t)' = cpu
      BY <1>4, <1>11, <1>12 DEF Own, IsInKernelSpace
    <2> QED
      BY <1>11, <1>12, <2>1, <2>2 DEF Resumes, IsInKernelSpace, Same
  <1>13. OneOnStack'
    BY DEF CoreInv, OneOnStack, Depth, StackOf
  <1>14. TssSet' /\ OwnTable'
    <2>1. next \in Users /\ toKernel => Depth(next) >= 2
      <3>1. SUFFICES ASSUME next \in Users, toKernel PROVE Depth(next) >= 2
        OBVIOUS
      <3>2. Resumes(next) /\ Levels(next)
        BY <3>1 DEF CoreInv, ThreadInv
      <3>3. IsKernelMemory(Last(alone[next]).rip)
        BY <3>1, <3>2 DEF Resumes, toKernel
      <3>4. Depth(next) = 1 => Last(alone[next]) = alone[next][1]
        BY DEF Last, Depth
      <3> QED
        BY <3>2, <3>3, <3>4 DEF Levels, IsKernelMemory
    <2>2. next \in Users => next \notin Kernels
      BY DEF Disjoint
    <2>3. ~toKernel => next \in Users
      BY DEF toKernel, IsInKernelSpace, Contexts
    <2> QED
      BY <1>4, <2>1, <2>2, <2>3 DEF CoreInv, TssSet, OwnTable, Depth
  <1> QED
    BY <1>7, <1>8, <1>9, <1>10, <1>12, <1>13, <1>14 DEF CoreInv
-----------------------------------------------------------------------------
(* The arguments of system calls *)

\* What lies on a stack: a call's frame has the arguments that were meant.
InOrder(entry) == "got" \in DOMAIN entry => entry.got = entry.meant

\* A step writes frames that are in order, on one stack.
LEMMA InOrderStack ==
  ASSUME ArgumentsInOrder, NEW place \in Contexts,
         \A t \in Contexts \ {place} : stack'[t] = stack[t],
         \A i \in DOMAIN stack'[place] :
           \/ i \in DOMAIN stack[place] /\ stack'[place][i] = stack[place][i]
           \/ InOrder(stack'[place][i])
  PROVE  ArgumentsInOrder'
  BY DEF ArgumentsInOrder, InOrder, Contexts

\* A stack that loses its top loses no other frame.
LEMMA InOrderPopped ==
  ASSUME CoreInv, ArgumentsInOrder, NEW place \in Contexts, Len(stack[place]) \in {1, 2},
         stack' = [stack EXCEPT ![place] = Front(@)]
  PROVE  ArgumentsInOrder'
  <1>1. PICK n \in Nat : Len(stack[place]) = n + 1
    <2>1. Len(stack[place]) = 0 + 1 \/ Len(stack[place]) = 1 + 1
      OBVIOUS
    <2> QED
      BY <2>1
  <1>2. /\ stack' \in [Contexts -> Seq(CpuStates \cup CallFrames)]
        /\ \A t \in Contexts \ {place} : stack'[t] = stack[t]
        /\ Len(stack'[place]) = n /\ \A i \in 1 .. n : stack'[place][i] = stack[place][i]
    BY <1>1, StackPopped
  <1>3. DOMAIN stack'[place] = 1 .. n /\ DOMAIN stack[place] = 1 .. n + 1
    <2>1. stack[place] \in Seq(CpuStates \cup CallFrames)
      BY DEF CoreInv, CoreTypeOK
    <2>2. stack'[place] \in Seq(CpuStates \cup CallFrames)
      BY <1>2
    <2> QED
      BY <1>1, <1>2, <2>1, <2>2
  <1>4. \A i \in DOMAIN stack'[place] :
          i \in DOMAIN stack[place] /\ stack'[place][i] = stack[place][i]
    BY <1>2, <1>3
  <1> QED
    BY <1>2, <1>4, InOrderStack

\* Every frame that a step leaves is in order, whether it overwrites something or not.
LEMMA ArgumentsStep ==
  ASSUME Disjoint, CoreInv, ArgumentsInOrder, [SwitchNext]_switchVars
  PROVE  ArgumentsInOrder'
  <1>1. CASE stack' = stack
    BY <1>1 DEF ArgumentsInOrder
  <1>2. CASE Syscall
    <2> DEFINE frame == SyscallFrame(AfterSyscall)
    <2>1. frame.got = frame.meant
      BY CallFrame
    <2>2. stack' = [stack EXCEPT ![cur] = <<frame>>] /\ cur \in Contexts
      BY <1>2 DEF Syscall, Contexts
    <2> HIDE DEF frame
    <2>3. /\ stack'[cur] = <<frame>>
          /\ \A t \in Contexts \ {cur} : stack'[t] = stack[t]
      BY <2>2 DEF CoreInv, CoreTypeOK
    <2>4. \A i \in DOMAIN stack'[cur] : InOrder(stack'[cur][i])
      BY <2>1, <2>3 DEF InOrder
    <2> QED
      BY <2>2, <2>3, <2>4, InOrderStack
  <1>3. CASE Sysret
    <2>1. cur \in Users /\ Depth(cur) >= 2 /\ Depth(cur) - 1 = 1 /\ StackOf(cur) = cur
      BY <1>3, CurWhere DEF Sysret
    <2>2. cur \in Contexts /\ Len(stack[cur]) = 1
      BY <2>1, DeepOnStack DEF Contexts
    <2>3. stack' = [stack EXCEPT ![cur] = Front(@)]
      BY <1>3 DEF Sysret
    <2> QED
      BY <2>2, <2>3, InOrderPopped
  <1>4. CASE FaultReturn
    <2>1. cur \in Users /\ Depth(cur) \in {2, 3} /\ cpu.rsp[1] = StackOf(cur)
      BY <1>4, CurWhere DEF FaultReturn
    <2>2. Depth(cur) >= 2 /\ Depth(cur) - 1 \in {1, 2}
      BY <2>1
    <2>3. StackOf(cur) \in Contexts /\ Len(stack[StackOf(cur)]) \in {1, 2}
      BY <2>1, <2>2, DeepOnStack DEF Contexts
    <2>4. stack' = [stack EXCEPT ![StackOf(cur)] = Front(@)]
      BY <1>4, <2>1 DEF FaultReturn
    <2> QED
      BY <2>3, <2>4, InOrderPopped
  <1>5. CASE PageFault
    <2> DEFINE place == FrameRsp[1]
               n == FrameRsp[2]
    <2>1. /\ place \in Users /\ n \in Nat /\ n <= Len(stack[place])
      BY <1>5, FrameAbove
    <2>2. place \in Contexts /\ cpu \in CpuStates
      BY <2>1 DEF Contexts, CoreInv, CoreTypeOK
    <2>3. stack' = [stack EXCEPT ![place] = Append(SubSeq(@, 1, n), cpu)]
      BY <1>5, FrameIsCpu DEF PageFault, CoreInv
    <2> HIDE DEF place, n
    <2>4. stack \in [Contexts -> Seq(CpuStates \cup CallFrames)]
          /\ stack[place] \in Seq(CpuStates \cup CallFrames)
      BY <2>2 DEF CoreInv, CoreTypeOK
    <2> DEFINE below == SubSeq(stack[place], 1, n)
    <2>5. /\ below \in Seq(CpuStates \cup CallFrames) /\ Len(below) = n
          /\ \A i \in 1 .. n : below[i] = stack[place][i]
      <3>1. \A i \in 1 .. n : stack[place][i] \in CpuStates \cup CallFrames
        BY <2>1, <2>4
      <3>2. /\ SubSeq(stack[place], 1, n) \in Seq(CpuStates \cup CallFrames)
            /\ Len(SubSeq(stack[place], 1, n)) = IF 1 <= n THEN n - 1 + 1 ELSE 0
            /\ \A i \in 1 .. n - 1 + 1 : SubSeq(stack[place], 1, n)[i] = stack[place][1 + i - 1]
        BY <2>1, <3>1, SubSeqProperties
      <3>3. /\ (IF 1 <= n THEN n - 1 + 1 ELSE 0) = n /\ n - 1 + 1 = n
            /\ \A i \in 1 .. n : 1 + i - 1 = i
        BY <2>1
      <3> QED
        BY <3>2, <3>3
    <2>6. /\ stack'[place] = Append(below, cpu)
          /\ \A t \in Contexts \ {place} : stack'[t] = stack[t]
      BY <2>2, <2>3, <2>4
    <2> HIDE DEF below
    <2>7. InOrder(cpu)
      BY <2>2 DEF InOrder, CpuStates
    <2>8. \A i \in DOMAIN Append(below, cpu) :
            \/ i \in DOMAIN stack[place] /\ Append(below, cpu)[i] = stack[place][i]
            \/ InOrder(Append(below, cpu)[i])
      <3>1. DOMAIN Append(below, cpu) = 1 .. n + 1 /\ Append(below, cpu)[n + 1] = cpu
        BY <2>1, <2>2, <2>5
      <3>2. \A i \in 1 .. n : i \in DOMAIN stack[place] /\ Append(below, cpu)[i] = stack[place][i]
        BY <2>1, <2>2, <2>4, <2>5
      <3>3. \A i \in 1 .. n + 1 : i \in 1 .. n \/ i = n + 1
        BY <2>1
      <3> QED
        BY <2>7, <3>1, <3>2, <3>3
    <2> QED
      BY <2>2, <2>6, <2>8, InOrderStack
  <1> QED
    BY <1>1, <1>2, <1>3, <1>4, <1>5
       DEF SwitchNext, switchVars, UserStep, KernelStep, SetRSP0, StubReturn, TimerInterruptHandler
-----------------------------------------------------------------------------
(* The theorem *)

ContextInv == ArgumentsInOrder /\ (~lost => CoreInv)

\* Everybody starts on the outermost level.
LEMMA ContextInit ==
  ASSUME Disjoint, SwitchInit
  PROVE  ContextInv
  <1>1. cur \in Kernels /\ cur \in Contexts /\ cur \notin Users
    BY DEF SwitchInit, Contexts, Disjoint
  <1>2. /\ UserEntry \in CpuStates /\ Stale \in CpuStates
        /\ \A t \in Contexts : KernelCode(t) \in CpuStates
    <2>1. FilledBy("code") \in Files /\ FilledBy("this") \in Files /\ FilledBy("stale") \in Files
      BY Filled DEF Codes
    <2> QED
      BY <2>1 DEF UserEntry, Stale, KernelCode, CpuStates, Rips, Flags, Rsps, UserRsp, KernelRsp
  <1>3. CoreTypeOK
    BY <1>1, <1>2 DEF SwitchInit, CoreTypeOK
  <1>4. \A t \in Contexts : Depth(t) = 1 /\ Last(alone[t]) = alone[t][1]
    BY DEF SwitchInit, Depth, Last
  <1>5. \A t \in Contexts : alone[t][1] = IF t \in Users THEN UserEntry ELSE KernelCode(t)
    BY DEF SwitchInit
  <1>6. ASSUME NEW t \in Contexts PROVE ThreadInv(t)
    <2>1. t \in Kernels => KernelLevel(t)
      <3>1. t \in Kernels => alone[t][1] = KernelCode(t)
        BY <1>5 DEF Disjoint
      <3> QED
        BY <1>4, <3>1 DEF KernelLevel, KernelCode
    <2>2. t \in Users => Levels(t) /\ Stacked(t) /\ InStub(t)
      BY <1>4, <1>5 DEF Levels, Stacked, InStub, InCall, UserEntry
    <2> QED
      BY <2>1, <2>2 DEF ThreadInv
  <1>7. ASSUME NEW t \in Contexts PROVE Resumes(t)
    <2>1. CASE t \in Kernels
      <3>1. alone[t][1] = KernelCode(t) /\ Own(t) = KernelCode(t) /\ IsInKernelSpace(t)
        BY <1>5, <2>1 DEF SwitchInit, Own, IsInKernelSpace, Disjoint
      <3>2. KernelCode(t).rip = "code"
        BY DEF KernelCode
      <3> QED
        BY <1>4, <3>1, <3>2 DEF Resumes, Same, IsKernelMemory
    <2>2. CASE t \in Users
      <3>1. alone[t][1] = UserEntry /\ Own(t) = UserEntry /\ ~IsInKernelSpace(t)
        BY <1>1, <1>5, <2>2 DEF SwitchInit, Own, IsInKernelSpace, Disjoint
      <3>2. UserEntry.rip = "user"
        BY DEF UserEntry
      <3> QED
        BY <1>4, <3>1, <3>2 DEF Resumes, Same, IsKernelMemory
    <2> QED
      BY <2>1, <2>2 DEF Contexts
  <1>8. OneOnStack /\ TssSet /\ OwnTable
    <2>1. \A u \in Users : ~(Depth(u) >= 2)
      BY <1>4 DEF Contexts
    <2> QED
      BY <1>1, <2>1 DEF OneOnStack, TssSet, OwnTable
  <1>9. ArgumentsInOrder
    BY DEF SwitchInit, ArgumentsInOrder, Contexts
  <1> QED
    BY <1>3, <1>6, <1>7, <1>8, <1>9 DEF ContextInv, CoreInv

\* The invariant is about the core, what is saved and the stacks.
LEMMA CoreKept ==
  ASSUME CoreInv, UNCHANGED <<cpuState, saved, stack, user_stack, alone>>
  PROVE  CoreInv'
  <1>1. UNCHANGED <<cur, cpu, rsp0, cr3, kernel_regs_, user_regs_, in_kernel_space_>>
    BY DEF cpuState, saved
  <1>2. CoreTypeOK'
    BY <1>1 DEF CoreInv, CoreTypeOK
  <1>3. ASSUME NEW t \in Contexts PROVE ThreadInv(t)'
    <2>1. t \in Users => Levels(t) /\ Stacked(t) /\ InStub(t)
      BY DEF CoreInv, ThreadInv
    <2> QED
      BY OthersKept
  <1>4. ASSUME NEW t \in Contexts PROVE Resumes(t)'
    BY <1>1 DEF CoreInv, Resumes, Own, IsInKernelSpace, Same
  <1>5. OneOnStack' /\ TssSet' /\ OwnTable'
    BY <1>1 DEF CoreInv, OneOnStack, TssSet, OwnTable, Depth, StackOf
  <1> QED
    BY <1>2, <1>3, <1>4, <1>5 DEF CoreInv

\* Every step keeps the invariant, until a stack in use is written over.
LEMMA ContextStep ==
  ASSUME Disjoint, ContextInv, [SwitchNext]_switchVars
  PROVE  ContextInv'
  <1>1. CASE UNCHANGED switchVars
    <2>1. ArgumentsInOrder' /\ lost' = lost
      BY <1>1 DEF switchVars, ContextInv, ArgumentsInOrder
    <2>2. UNCHANGED <<cpuState, saved, stack, user_stack, alone>>
      BY <1>1 DEF switchVars
    <2> QED
      BY <2>1, <2>2, CoreKept DEF ContextInv
  <1>2. CASE SwitchNext
    <2>1. ~lost /\ CoreInv /\ ArgumentsInOrder
      BY <1>2 DEF SwitchNext, ContextInv
    <2>2. ArgumentsInOrder'
      BY <1>2, <2>1, ArgumentsStep
    <2>3. ASSUME ~lost' PROVE CoreInv'
      <3>1. CASE UserStep
        BY <2>1, <3>1, UserStepInv
      <3>2. CASE KernelStep
        BY <2>1, <3>2, KernelStepInv
      <3>3. CASE Syscall
        BY <2>1, <2>3, <3>3, SyscallInv
      <3>4. CASE SetRSP0
        BY <2>1, <3>4, SetRSP0Inv
      <3>5. CASE Sysret
        BY <2>1, <3>5, SysretInv
      <3>6. CASE StubReturn
        BY <2>1, <3>6, StubReturnInv
      <3>7. CASE PageFault
        BY <2>1, <2>3, <3>7, PageFaultInv
      <3>8. CASE FaultReturn
        BY <2>1, <3>8, FaultReturnInv
      <3>9. CASE TimerInterruptHandler
        <4>1. UNCHANGED <<stack, user_stack, alone>>
          BY <3>9 DEF TimerInterruptHandler
        <4>2. CASE \E next \in Contexts \ {cur} : YieldInInterruptHandler(next)
          BY <2>1, <4>1, <4>2, SwitchInv
        <4>3. CASE UNCHANGED <<cpuState, saved>>
          BY <2>1, <4>1, <4>3, CoreKept
        <4> QED
          BY <3>9, <4>2, <4>3 DEF TimerInterruptHandler
      <3> QED
        BY <1>2, <3>1, <3>2, <3>3, <3>4, <3>5, <3>6, <3>7, <3>8, <3>9 DEF SwitchNext
    <2> QED
      BY <2>2, <2>3 DEF ContextInv
  <1> QED
    BY <1>1, <1>2

\* The core shows the current thread what it would have alone.
LEMMA ShowsAlone ==
  ASSUME Disjoint, ContextInv
  PROVE  RunsAlone
  <1>1. SUFFICES ASSUME CoreInv
                 PROVE  /\ AfterStub.regs = Last(alone[cur]).regs
                        /\ cpu.rip = Last(alone[cur]).rip /\ cpu.rsp = Last(alone[cur]).rsp
                        /\ cpu.rflags = Last(alone[cur]).rflags
                        /\ cur \in Users => cr3 = cur
    BY DEF ContextInv, RunsAlone
  <1>2. Same(cpu, Last(alone[cur])) /\ Last(alone[cur]) = alone[cur][Depth(cur)]
    BY <1>1, CurDepth DEF Resumes, Own, Last, Depth
  <1>3. AfterStub.regs = Last(alone[cur]).regs
    <2>1. CASE cpu.rip # "stub"
      BY <1>2, <2>1 DEF AfterStub, Same
    <2>2. CASE cpu.rip = "stub"
      <3>1. cur \in Users /\ Depth(cur) = 1 /\ cpu \in CpuStates
        BY <1>1, <2>2, CurWhere
      <3>2. /\ user_stack[cur] = Restrict(alone[cur][1].regs, StubPushes)
            /\ alone[cur][1] \in CpuStates
        <4>1. ThreadInv(cur) /\ alone[cur][1].rip = "stub"
          BY <1>1, <1>2, <2>2, <3>1, CurDepth DEF Same
        <4>2. alone[cur] \in Seq(CpuStates) /\ Len(alone[cur]) = 1
          BY <1>1, <3>1, CurDepth DEF Depth
        <4> QED
          BY <3>1, <4>1, <4>2 DEF ThreadInv, InStub
      <3>3. AfterStub.regs = [r \in Regs |-> IF r \in StubPushes THEN user_stack[cur][r]
                                            ELSE cpu.regs[r]]
        BY <2>2, <3>1 DEF AfterStub, CpuStates
      <3>4. \A r \in Regs : AfterStub.regs[r] = alone[cur][1].regs[r]
        BY <1>2, <2>2, <3>1, <3>2, <3>3, RegNames DEF Restrict, Same
      <3>5. alone[cur][1].regs = [r \in Regs |-> alone[cur][1].regs[r]]
        BY <3>2 DEF CpuStates, Files
      <3> QED
        BY <1>2, <3>1, <3>3, <3>4, <3>5
    <2> QED
      BY <2>1, <2>2
  <1> QED
    BY <1>1, <1>2, <1>3 DEF Same, CoreInv, OwnTable

\* Whatever interrupts it, a thread finds the registers, the stack pointer and the place
\* it would have if it ran alone, a process its page table, and a call the arguments that
\* were meant (interrupt_handler.S, syscall.cc, scheduler.cc:81).
THEOREM ThreadsRunAlone ==
  ASSUME Users \cap Kernels = {}
  PROVE  SwitchSpec => []RunsAlone
  <1>1. SwitchInit => ContextInv
    BY ContextInit DEF Disjoint
  <1>2. ContextInv /\ [SwitchNext]_switchVars => ContextInv'
    BY ContextStep DEF Disjoint
  <1>3. ContextInv => RunsAlone
    BY ShowsAlone DEF Disjoint
  <1> QED
    BY <1>1, <1>2, <1>3, PTL DEF SwitchSpec
=============================================================================
