------------------------------ MODULE MCMemory ------------------------------
(***************************************************************************)
(* The four levels of memory management for TLC: the user frames, the      *)
(* kernel heap, the page tables with what they show to programs, and the   *)
(* heap of a program; and what a program has in its core's registers.      *)
(* They share no variable, so a behaviour is one of the part that its      *)
(* first state names, while the others stay as they are.                   *)
(***************************************************************************)
EXTENDS FrameAllocator, ContextSwitch

CONSTANTS NumBuckets, HeapLimit, KernelRequests, AlignedRequests, Alignments, MaxBlocks

VARIABLES heap, blocks, aligning
kernelHeap == <<heap, blocks, aligning>>
KernelHeap == INSTANCE Heap WITH Requests <- KernelRequests

CONSTANTS FourKb, MaxPages, Slots, Requests, MaxOps

VARIABLES mem, allocated_size, free_block_list_start, pages, user, calls
userHeap == <<mem, allocated_size, free_block_list_start, pages, user, calls>>
Tag(s) == 1001 + 2 * s
ProgramHeap == INSTANCE UserHeap

CONSTANTS Entries, FourKB, WordSize, KernelVMStart, KernelPages, StackTop, StackLimit,
          HeapStart, Processes, Kernel, Frames, Regions, LowPages, Programs,
          FaultAddrs, WriteAddrs, MaxSbrk

VARIABLES tables, sharedPml4, ram, freeFrames, process, written
paging == <<tables, sharedPml4, ram, freeFrames, process, written>>
Segment(o, v, n) == [offset |-> o, vaddr |-> v, memsz |-> n]
Section(a, n) == [addr |-> a, size |-> n]

\* Two segments, the second one with a .bss inside of its page; and one that
\* covers two pages, with a .bss that begins on one and ends on the other.
Small == [entry |-> 18, size |-> 12,
          segments |-> <<Segment(1, 18, 5), Segment(6, 32, 8)>>, nobits |-> <<Section(35, 5)>>]
Large == [entry |-> 16, size |-> 40,
          segments |-> <<Segment(0, 16, 26)>>, nobits |-> <<Section(30, 12)>>]

MCPrograms == {[image |-> Small, argv |-> <<<<201, 202>>, <<203>>>>],
               [image |-> Large, argv |-> <<>>]}
MCRegions == {<<9, 2, 40>>}
Tables == INSTANCE Paging

Symmetry == Permutations(Processes)

VARIABLE part   \* which of the five this behaviour is about

mcvars == <<vars, kernelHeap, userHeap, paging, switchVars, part>>

MCInit ==
  /\ part \in {"frames", "kernel heap", "user heap", "paging", "core"}
  /\ Init /\ KernelHeap!Init /\ ProgramHeap!Init /\ Tables!Init /\ SwitchInit

MCNext ==
  /\ \/ part = "frames" /\ Next /\ UNCHANGED <<kernelHeap, userHeap, paging, switchVars>>
     \/ part = "kernel heap" /\ KernelHeap!Next /\ UNCHANGED <<vars, userHeap, paging, switchVars>>
     \/ part = "user heap" /\ ProgramHeap!Next /\ UNCHANGED <<vars, kernelHeap, paging, switchVars>>
     \/ part = "paging" /\ Tables!Next /\ UNCHANGED <<vars, kernelHeap, userHeap, switchVars>>
     \/ part = "core" /\ SwitchNext /\ UNCHANGED <<vars, kernelHeap, userHeap, paging>>
  /\ UNCHANGED part

MCSpec == MCInit /\ [][MCNext]_mcvars

-----------------------------------------------------------------------------
\* The properties of the parts, under the names they have there.
ChunksSound == part = "kernel heap" => KernelHeap!ChunksSound
FreeListsExact == part = "kernel heap" => KernelHeap!FreeListsExact
HeapAndDataKept == part = "user heap" => ProgramHeap!HeapAndDataKept
ImageShown == part = "paging" => Tables!ImageShown
ArgvReadable == part = "paging" => Tables!ArgvReadable
\* Tables!ImplementsAddressSpaces, for the behaviours it is about.
ImplementsAddressSpaces ==
  /\ part = "paging" => Tables!Spaces!Init
  /\ [][part = "paging" => Tables!Spaces!Next]_paging
=============================================================================
