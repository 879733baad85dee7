------------------------------- MODULE Paging -------------------------------
(***************************************************************************)
(* Page tables (paging.cc) and what they show a program: the image of its  *)
(* ELF file, which page faults bring in page by page, its stack with the   *)
(* arguments, and its heap (process.cc).                                   *)
(*                                                                         *)
(* A page number stands for an address above its lowest 12 bits, and is    *)
(* cut into four table indexes; sums wrap around at the end of the address *)
(* space as in the code.  The tables are kept as they are in memory, so    *)
(* that two address spaces may share one.  The bytes of user frames are    *)
(* kept too: a byte of a file, one that the program wrote, or junk.        *)
(***************************************************************************)
EXTENDS Integers, Sequences, SequencesExt, FiniteSets

CONSTANTS
  Entries,        \* entries of a table (512)
  FourKB,         \* bytes of a page
  WordSize,       \* bytes of a pointer (8)
  KernelVMStart,  \* first page of the kernel, in the upper half
  KernelPages,    \* kKernelMemorySize
  StackTop,       \* kUserProcessStackAddress, a byte address
  StackLimit,     \* kEightMB
  HeapStart,      \* kUserProcessHeapStartAddress as a page
  Processes, Kernel,
  Frames,         \* the frames of the user frame allocator
  Regions,        \* <<first, pages, physical>> that AllocateKernelPage is asked to map
  LowPages,       \* pages that CreateIdentityForKernel is asked to map
  Programs,       \* an ELF file (entry, segments, NOBITS sections) and arguments
  FaultAddrs,     \* addresses that programs use
  WriteAddrs,     \* addresses that they write to
  MaxSbrk         \* bound on the pages of a heap

VARIABLES
  tables,      \* table -> index -> entry
  sharedPml4,  \* shared_kernel_pml4e_entries_: <<index, entry>>
  ram,         \* frame -> byte -> content
  freeFrames,
  process,     \* process -> its image, arguments, heap size, faults, state
  written      \* <<process, address>>: what programs have written

pvars == <<tables, sharedPml4, ram, freeFrames, process, written>>

Width == Entries * Entries * Entries * Entries
Span(level) == Entries ^ (level - 1)   \* pages under an entry of a table of this level
Offset(level, page) == (page \div Span(level)) % Entries
StartAddr(level, page) == page - (page % Span(level))
Least(a, b) == IF a < b THEN a ELSE b
Most(a, b) == IF a < b THEN b ELSE a
Wrap(page) == page % Width

Byte == [junk |-> -1, dirty |-> -2, zero |-> 0]
Empty == [present |-> FALSE, user |-> FALSE, base |-> 0]

-----------------------------------------------------------------------------
(* Tables.  m is the memory that holds them and the list of shared entries. *)

Memory == [tables |-> tables, shared |-> sharedPml4]

CreateNewTable(m) ==
  [m EXCEPT !.tables = Append(@, [i \in 0 .. Entries - 1 |-> Empty])]

\* The entry at this index leads to a table: an old one, or a new one.  A user
\* mapping opens the way down to it for programs.
Ensure(m, table, index, kernel) ==
  LET made == IF m.tables[table][index].present THEN m
              ELSE [CreateNewTable(m) EXCEPT !.tables[table][index] =
                      [present |-> TRUE, user |-> ~kernel, base |-> Len(m.tables) + 1]]
  IN IF kernel THEN made ELSE [made EXCEPT !.tables[table][index].user = TRUE]

\* SetPT: leaves for the pages first up to the one before end.
SetPT(m, table, start, end, kernel, phys) ==
  LET first == Offset(1, start)
  IN [m EXCEPT !.tables[table] = [i \in DOMAIN @ |->
        IF i \in first .. Offset(1, Wrap(end - 1))
        THEN [present |-> TRUE, user |-> ~kernel, base |-> phys + i - first]
        ELSE @[i]]]

\* SetPDPT and SetPDT: the part of the range under each entry.
RECURSIVE SetTable(_, _, _, _, _, _, _)
SetTable(m, level, table, start, end, kernel, phys) ==
  IF level = 1 THEN SetPT(m, table, start, end, kernel, phys)
  ELSE LET first == Offset(level, start)
           count == Offset(level, Wrap(end - 1)) - first + 1
           base == StartAddr(level, start)
           Below(acc, delta) ==
             LET ready == Ensure(acc, table, first + delta, kernel)
                 from == Most(start, base + delta * Span(level))
                 upTo == Least(end, Wrap(base + (delta + 1) * Span(level)))
             IN SetTable(ready, level - 1, ready.tables[table][first + delta].base,
                         from, upTo, kernel, phys + from - start)
       IN FoldLeft(LAMBDA acc, i : Below(acc, i - 1), m, [i \in 1 .. count |-> i])

\* Fault: what the kernel maps at low addresses is handed on as well.
ShareAny(m, table, index, start) ==
  IF \A s \in m.shared : s[1] # index
  THEN [m EXCEPT !.shared = @ \cup {<<index, m.tables[table][index]>>}] ELSE m

\* The kernel's entries of the top level are handed on to every new table, the
\* identity mappings of low memory are not.
Share(m, table, index, start) ==
  IF start >= KernelVMStart /\ \A s \in m.shared : s[1] # index
  THEN [m EXCEPT !.shared = @ \cup {<<index, m.tables[table][index]>>}] ELSE m

SetPML4E(m, table, start, size, kernel, phys) ==
  LET first == Offset(4, start)
      base == StartAddr(4, start)
      count == Offset(4, Wrap(start + size - 1)) - first + 1
      Below(acc, delta) ==
        LET index == first + delta
            made == Ensure(acc, table, index, kernel)
            ready == IF kernel /\ ~acc.tables[table][index].present
                     THEN Share(made, table, index, start) ELSE made
            from == Most(start, base + delta * Span(4))
            boundary == Wrap(base + (delta + 1) * Span(4))
            end == Wrap(start + size)
            upTo == IF boundary = 0 THEN end ELSE Least(end, boundary)
        IN SetTable(ready, 3, ready.tables[table][index].base, from, upTo,
                    kernel, phys + from - start)
  IN FoldLeft(LAMBDA acc, i : Below(acc, i - 1), m, [i \in 1 .. count |-> i])

\* The table of a new address space, the last one of the memory.
CreateEmptyPageTable(m) ==
  LET new == CreateNewTable(m)
      at == Len(new.tables)
  IN [new EXCEPT !.tables[at] = [i \in DOMAIN @ |->
        IF \E s \in m.shared : s[1] = i
        THEN (CHOOSE s \in m.shared : s[1] = i)[2] ELSE Empty]]

\* The processor's walk: the physical page and whether programs may use it.
RECURSIVE WalkFrom(_, _, _, _, _)
WalkFrom(all, level, table, page, user) ==
  LET e == all[table][Offset(level, page)]
  IN IF ~e.present THEN <<-1, FALSE>>
     ELSE IF level = 1 THEN <<e.base, user /\ e.user>>
     ELSE WalkFrom(all, level - 1, e.base, page, user /\ e.user)

Walk(m, pml4, page) == WalkFrom(m.tables, 4, pml4, page, TRUE)

-----------------------------------------------------------------------------
(* The memory of a program *)

KernelPml4 == 1
Page(addr) == addr \div FourKB
Boundary(addr) == addr - (addr % FourKB)
Created == {p \in Processes : process[p].state # "none"}
UserPage(p, page) == Walk(Memory, process[p].pml4, page)[2]

NextFrame == CHOOSE f \in freeFrames : \A g \in freeFrames : f <= g

\* AllocatePage: a frame for a page of the process.
AllocatePage(m, pml4, page, frame) == SetPML4E(m, pml4, page, 1, FALSE, frame)

\* The frames after the bytes w (a function of addresses) are stored by p,
\* whose tables are in m.
Stored(m, pml4, w) ==
  LET Shows(f) == {page \in {Page(a) : a \in DOMAIN w} : Walk(m, pml4, page)[1] = f}
  IN [f \in Frames |->
        IF Shows(f) = {} THEN ram[f]
        ELSE LET first == FourKB * (CHOOSE page \in Shows(f) : TRUE)
             IN [i \in 0 .. FourKB - 1 |->
                   IF first + i \in DOMAIN w THEN w[first + i] ELSE ram[f][i]]]

\* A pointer or count is stored as its lowest byte, with its value, and filler.
Word(v) == [i \in 0 .. WordSize - 1 |-> IF i = 0 THEN 1000 + v ELSE 999]

Put(w, at, bytes) ==
  [a \in DOMAIN w \cup {at + i : i \in DOMAIN bytes} |->
     IF a - at \in DOMAIN bytes THEN bytes[a - at] ELSE w[a]]

\* Fault: no room for the terminator.
PushUnterminated(st, string) ==
  LET rsp == st.rsp - Len(string)
  IN [rsp |-> rsp,
      addrs |-> <<rsp>> \o st.addrs,
      w |-> Put(st.w, rsp, [i \in 0 .. Len(string) - 1 |-> string[i + 1]])]

\* CopyStringToStack, with the terminator.
PushString(st, string) ==
  LET rsp == st.rsp - (Len(string) + 1)
  IN [rsp |-> rsp,
      addrs |-> <<rsp>> \o st.addrs,
      w |-> Put(st.w, rsp, [i \in 0 .. Len(string) |->
                              IF i = Len(string) THEN Byte.zero ELSE string[i + 1]])]

\* WriteToRSP
PushWord(st, v) ==
  [st EXCEPT !.rsp = @ - WordSize, !.w = Put(@, st.rsp - WordSize, Word(v))]

\* The strings from the last to the first, the pointers to them, their number.
CopyArgvToStack(argv) ==
  LET top == [rsp |-> StackTop - WordSize, addrs |-> <<>>, w |-> <<>>]
      strings == FoldRight(LAMBDA string, st : PushString(st, string), argv, top)
      aligned == [strings EXCEPT !.rsp = @ - (@ % WordSize)]
      pointers == FoldRight(LAMBDA addr, st : PushWord(st, addr), aligned.addrs, aligned)
  IN PushWord(pointers, Len(argv))

InSegment(seg, addr) == seg.vaddr <= addr /\ addr < seg.vaddr + seg.memsz
InSection(sec, addr) == sec.addr <= addr /\ addr < sec.addr + sec.size

\* GetAddressInfo
GetAddressInfo(image, addr) ==
  IF addr = 0 THEN "NOT_VALID_ADDR"
  ELSE IF addr \in StackTop - StackLimit .. StackTop THEN "STACK_ADDR"
  ELSE IF \E seg \in Range(image.segments) : InSegment(seg, addr) THEN "ELF_SEGMENT_ADDR"
  ELSE "NOT_VALID_ADDR"

GetMatchingProgramHeader(image, addr) ==
  image.segments[CHOOSE i \in DOMAIN image.segments :
    /\ InSegment(image.segments[i], addr)
    /\ \A j \in 1 .. i - 1 : ~InSegment(image.segments[j], addr)]

FileByte(at) == at + 1

\* The bytes that the handler reads from the file into the page: as many as
\* the memory of the segment has, whatever part of it the file holds.
ReadFromFile(image, seg, boundary) ==
  LET to == Most(seg.vaddr, boundary)
      num == IF boundary > seg.vaddr
             THEN Least(FourKB, seg.vaddr + seg.memsz - boundary)
             ELSE Least(FourKB, seg.memsz)
      from == seg.offset + (to - seg.vaddr)
      read == IF from >= image.size THEN 0 ELSE Least(num, image.size - from)
  IN [a \in to .. to + read - 1 |-> FileByte(from + a - to)]

\* Fault: a section that lies within the page is forgotten.
OverlapAtEnds(sec, boundary) ==
  LET end == sec.addr + sec.size
      after == boundary + FourKB
  IN IF sec.addr <= boundary /\ boundary <= end THEN <<boundary, Least(after, end)>>
     ELSE IF sec.addr <= after /\ after <= end THEN <<Most(boundary, sec.addr), after>>
     ELSE <<0, 0>>

\* The part of a NOBITS section that the page has to clear; <<0, 0>> is none.
Overlap(sec, boundary) ==
  LET end == sec.addr + sec.size
      after == boundary + FourKB
  IN IF sec.addr <= boundary /\ boundary <= end THEN <<boundary, Least(after, end)>>
     ELSE IF sec.addr <= after /\ after <= end THEN <<Most(boundary, sec.addr), after>>
     ELSE IF boundary <= sec.addr /\ end <= after THEN <<sec.addr, end>>
     ELSE <<0, 0>>

\* The first section that overlaps the page is cleared, any other one is not.
ZeroInitIfNeeded(image, boundary, w) ==
  LET hit == {i \in DOMAIN image.nobits : Overlap(image.nobits[i], boundary) # <<0, 0>>}
      o == Overlap(image.nobits[CHOOSE i \in hit : \A j \in hit : i <= j], boundary)
  IN IF hit = {} THEN w
     ELSE Put(w, o[1], [i \in 0 .. o[2] - o[1] - 1 |-> Byte.zero])

-----------------------------------------------------------------------------
(* Actions *)

NoProcess == [state |-> "none", pml4 |-> 0, image |-> <<>>,
              argv |-> <<>>, heap |-> 0, faults |-> 0, killed |-> FALSE,
              rsp |-> 0, addr |-> 0]

Init ==
  LET made == CreateEmptyPageTable([tables |-> <<>>, shared |-> {}])
      m == SetPML4E(made, KernelPml4, KernelVMStart, KernelPages, TRUE, 0)
  IN /\ tables = m.tables
     /\ sharedPml4 = m.shared
     /\ ram = [f \in Frames |-> [i \in 0 .. FourKB - 1 |-> Byte.junk]]
     /\ freeFrames = Frames
     /\ process = [p \in Processes |-> NoProcess]
     /\ written = {}

MemoryBecomes(m) == tables' = m.tables /\ sharedPml4' = m.shared

\* ProcessManager::CreateProcess and the constructor of Process.
CreateProcess(p, image, argv) ==
  LET new == CreateEmptyPageTable(Memory)
      pml4 == Len(new.tables)
  IN /\ process[p].state = "none" /\ freeFrames # {}
     /\ MemoryBecomes(AllocatePage(new, pml4, Page(StackTop) - 1, NextFrame))
     /\ freeFrames' = freeFrames \ {NextFrame}
     /\ process' = [process EXCEPT ![p] =
          [NoProcess EXCEPT !.state = "run", !.pml4 = pml4, !.image = image,
                            !.argv = argv, !.rsp = StackTop - WordSize]]
     /\ UNCHANGED <<ram, written>>

\* An address that the program may not use, or whose page is not there.  The
\* first one is its entry point.
Faults(p, addr) ==
  /\ process[p].state = "run"
  /\ addr = process[p].image.entry \/ process[p].faults > 0
  /\ ~UserPage(p, Page(addr))

\* A process that is to be killed ends instead.
FaultKilled(p, addr) ==
  /\ Faults(p, addr) /\ process[p].killed
  /\ process' = [process EXCEPT ![p].state = "dead"]
  /\ UNCHANGED <<tables, sharedPml4, ram, freeFrames, written>>

\* PageFaultHandler up to the point where the page is there; interrupts are
\* enabled from then on.  The first fault brings the arguments to the stack.
PageFault(p, addr) ==
  LET st == CopyArgvToStack(process[p].argv)
      first == process[p].faults = 0
      info == GetAddressInfo(process[p].image, addr)
      rsp == IF first THEN st.rsp ELSE process[p].rsp
  IN /\ Faults(p, addr) /\ ~process[p].killed
     /\ ram' = IF first THEN Stored(Memory, process[p].pml4, st.w) ELSE ram
     /\ IF info = "NOT_VALID_ADDR"
        THEN /\ process' = [process EXCEPT ![p].state = "dead", ![p].rsp = rsp]
             /\ UNCHANGED <<tables, sharedPml4, freeFrames>>
        ELSE /\ freeFrames # {}
             /\ MemoryBecomes(AllocatePage(Memory, process[p].pml4, Page(addr), NextFrame))
             /\ freeFrames' = freeFrames \ {NextFrame}
             /\ process' = [process EXCEPT ![p].state = info, ![p].rsp = rsp,
                                           ![p].addr = addr]
     /\ UNCHANGED written

Back(p) == [process EXCEPT ![p].state = "run", ![p].faults = @ + 1]

\* The rest of it, when the disk has answered.
LoadPage(p) ==
  LET image == process[p].image
      boundary == Boundary(process[p].addr)
      read == ReadFromFile(image, GetMatchingProgramHeader(image, process[p].addr), boundary)
  IN /\ process[p].state = "ELF_SEGMENT_ADDR"
     /\ ram' = Stored(Memory, process[p].pml4, ZeroInitIfNeeded(image, boundary, read))
     /\ process' = Back(p)
     /\ UNCHANGED <<tables, sharedPml4, freeFrames, written>>

GrowStack(p) ==
  /\ process[p].state = "STACK_ADDR"
  /\ process' = Back(p)
  /\ UNCHANGED <<tables, sharedPml4, ram, freeFrames, written>>

\* SysSbrk and IncreaseHeapSize: every page gets its frame at once.
Sbrk(p, pages) ==
  LET Add(m, i) == AllocatePage(m, process[p].pml4, HeapStart + process[p].heap + i - 1,
                                CHOOSE f \in freeFrames :
                                  Cardinality({g \in freeFrames : g < f}) = i - 1)
  IN /\ process[p].state = "run" /\ process[p].faults > 0
     /\ process[p].heap + pages <= MaxSbrk /\ Cardinality(freeFrames) >= pages
     /\ MemoryBecomes(FoldLeft(Add, Memory, [i \in 1 .. pages |-> i]))
     /\ freeFrames' = {f \in freeFrames : Cardinality({g \in freeFrames : g < f}) >= pages}
     /\ process' = [process EXCEPT ![p].heap = @ + pages]
     /\ UNCHANGED <<ram, written>>

\* The program stores something of its own.
Write(p, addr) ==
  /\ process[p].state = "run" /\ process[p].faults > 0
  /\ UserPage(p, Page(addr))
  /\ ram' = Stored(Memory, process[p].pml4, [a \in {addr} |-> Byte.dirty])
  /\ written' = written \cup {<<p, addr>>}
  /\ UNCHANGED <<tables, sharedPml4, freeFrames, process>>

Kill(p) ==
  /\ process[p].state = "run"
  /\ process' = [process EXCEPT ![p].killed = TRUE]
  /\ UNCHANGED <<tables, sharedPml4, ram, freeFrames, written>>

AllocateKernelPage(first, n, phys) ==
  /\ MemoryBecomes(SetPML4E(Memory, KernelPml4, first, n, TRUE, phys))
  /\ UNCHANGED <<ram, freeFrames, process, written>>

CreateIdentityForKernel(page) ==
  /\ MemoryBecomes(SetPML4E(Memory, KernelPml4, page, 1, TRUE, page))
  /\ UNCHANGED <<ram, freeFrames, process, written>>

Next ==
  \/ \E p \in Processes :
       \/ \E program \in Programs : CreateProcess(p, program.image, program.argv)
       \/ \E addr \in FaultAddrs : FaultKilled(p, addr) \/ PageFault(p, addr)
       \/ \E addr \in WriteAddrs : Write(p, addr)
       \/ LoadPage(p)
       \/ GrowStack(p)
       \/ \E pages \in 1 .. MaxSbrk : Sbrk(p, pages)
       \/ Kill(p)
  \/ \E r \in Regions : AllocateKernelPage(r[1], r[2], r[3])
  \/ \E page \in LowPages : CreateIdentityForKernel(page)

Spec == Init /\ [][Next]_pvars

-----------------------------------------------------------------------------
(* Properties *)

Pml4Of(space) == IF space = Kernel THEN KernelPml4 ELSE process[space].pml4

\* Whatever Walk comes to from a table that is for the pages from first on.
RECURSIVE Shown(_, _, _, _, _)
Shown(space, level, table, first, user) ==
  UNION {LET e == tables[table][i]
             page == first + i * Span(level)
         IN  IF level = 1 THEN {<<space, page, e.base, user /\ e.user>>}
             ELSE Shown(space, level - 1, e.base, page, user /\ e.user)
         : i \in {i \in DOMAIN tables[table] : tables[table][i].present}}

Spaces == INSTANCE AddressSpaces WITH
  KernelStart <- KernelVMStart,
  spaces <- {Kernel} \cup Created,
  view <- UNION {Shown(space, 4, Pml4Of(space), 0, TRUE) : space \in {Kernel} \cup Created}

\* The tables show every process its own pages and all of them the kernel's:
\* what is mapped for one process, for the kernel or at boot never appears in
\* another place, and a frame never twice.
ImplementsAddressSpaces == Spaces!Spec

\* What the file and its NOBITS sections say of a byte of the image.
ImageByte(image, addr) ==
  IF \E sec \in Range(image.nobits) : InSection(sec, addr) THEN Byte.zero
  ELSE LET seg == GetMatchingProgramHeader(image, addr)
       IN FileByte(seg.offset + addr - seg.vaddr)

\* A program finds in every page of its image what its file says, or what it
\* has written there itself since: a page that comes in later changes nothing
\* in the pages that were there.
ImageShown ==
  \A p \in Created : process[p].state = "run" =>
    \A seg \in Range(process[p].image.segments) :
      \A page \in Page(seg.vaddr) .. Page(seg.vaddr + seg.memsz - 1) :
        \E at \in {Walk(Memory, process[p].pml4, page)} : at[2] =>
          \A addr \in seg.vaddr .. seg.vaddr + seg.memsz - 1 : Page(addr) = page =>
            ram[at[1]][addr % FourKB] = IF <<p, addr>> \in written THEN Byte.dirty
                                        ELSE ImageByte(process[p].image, addr)

\* What p finds at an address of its stack.
Peek(p, addr) == ram[Walk(Memory, process[p].pml4, Page(addr))[1]][addr % FourKB]
PeekWord(p, addr) == Peek(p, addr) - 1000

ArgvAt(p, argv, rsp) ==
  /\ rsp % WordSize = 0
  /\ PeekWord(p, rsp) = Len(argv)
  /\ \A i \in DOMAIN argv :
       LET at == PeekWord(p, rsp + i * WordSize)
       IN /\ \A j \in DOMAIN argv[i] : Peek(p, at + j - 1) = argv[i][j]
          /\ Peek(p, at + Len(argv[i])) = Byte.zero

\* _start (crt0.S) reads the number of arguments at rsp, the pointers above
\* it, and finds behind each the characters of the argument and a terminator.
ArgvReadable ==
  \A p \in Created : process[p].faults > 0 =>
    LET argv == process[p].argv
        rsp == process[p].rsp
    IN \/ \E w \in written : w[1] = p /\ w[2] >= rsp   \* it has changed them
       \/ ArgvAt(p, argv, rsp)
=============================================================================
