---------------------------- MODULE FrameAllocator ----------------------------
(***************************************************************************)
(* The physical frame allocator (frame_allocator.cc): a list of buddy      *)
(* block allocators that grows when all of them are full, under one spin   *)
(* lock.  AllocateFrame and FreeFrame hold that lock from their first      *)
(* access to a buddy allocator to their last, so each is one action.       *)
(*                                                                         *)
(* Addresses are in units of a frame, relative to the start of the memory  *)
(* that the allocator spans.  The two bit vectors of a buddy allocator are *)
(* represented by the sets of blocks <<order, index within the layer>>     *)
(* whose bit is set, a circular free list by a sequence from its head on.  *)
(***************************************************************************)
EXTENDS Integers, Sequences, FiniteSets, SequencesExt

CONSTANTS
  MaxOrder,      \* kBuddyBlockAllocatorOrder
  MaxAllocators, \* bound on allocators_.size()
  MaxFrames      \* bound on the number of chunks in use

ASSUME FrameAssumption == 
  MaxOrder \in Nat /\ MaxAllocators \in Nat \ {0} /\ MaxFrames \in Nat

VARIABLES
  allocators,  \* allocators_
  frames       \* what the callers hold: {<<allocator, offset, order>>}

vars == <<allocators, frames>>

Orders == 0 .. MaxOrder
Offsets == 0 .. 2^MaxOrder - 1

\* The block of the given order that contains an offset.
Block(offset, order) == <<order, offset \div 2^order>>

\* GetChunkStartOffset.
GetChunkStartOffset(offset, order) == 2^order * (offset \div 2^order)

-----------------------------------------------------------------------------
(* One BuddyBlockAllocator, as a record *)

\* The constructor: one block spans the whole memory.
NewAllocator ==
  [needMerge |-> {},
   splitted  |-> {},
   freeLists |-> [i \in Orders |-> IF i = MaxOrder THEN <<0>> ELSE <<>>]]

\* The free lists: append at the end, take the head, take out any element.
AddToFreeList(list, offset) == Append(list, offset)
RemoveFirstFromFreeList(list) == Tail(list)
RemovePageFromFreeList(list, offset) == RemoveFirst(list, offset)

\* SetSplitted and SetMerged of the blocks around the offset, above order lo
\* and up to order hi.
SetSplitted(bits, offset, lo, hi) ==
  bits \cup {Block(offset, i) : i \in lo + 1 .. hi}
SetMerged(bits, offset, lo, hi) ==
  bits \ {Block(offset, i) : i \in lo + 1 .. hi}

\* FlipNeedMerge of the blocks around a chunk of order lo, up to the block
\* around a chunk of order hi.  The largest block has no enclosing block.
FlipNeedMerge(bits, offset, lo, hi) ==
  SymDiff(bits, {Block(offset, i) : i \in lo + 1 .. Min({hi + 1, MaxOrder})})

\* The free list GetFrame takes from: the first one that is not empty.
Candidates(a, order) == {i \in order .. MaxOrder : a.freeLists[i] # <<>>}

\* Fault: the left part of a splitted block is put to the free list.
SplitListsLeft(lists, offset, order, i) ==
  [j \in Orders |->
     IF order <= j /\ j < i THEN AddToFreeList(lists[j], offset)
     ELSE IF j = i THEN RemoveFirstFromFreeList(lists[j]) ELSE lists[j]]

\* RemoveFirstFromFreeList on list i, then Split down to order: each step
\* puts the right half of what is left at the end of its list.
SplitLists(lists, offset, order, i) ==
  [j \in Orders |->
     IF order <= j /\ j < i THEN AddToFreeList(lists[j], offset + 2^j)
     ELSE IF j = i THEN RemoveFirstFromFreeList(lists[j]) ELSE lists[j]]

\* GetFrame: the address handed out.
FrameOf(a, order) == Head(a.freeLists[Min(Candidates(a, order))])

\* GetFrame: the allocator afterwards.
GetFrame(a, order) ==
  LET i      == Min(Candidates(a, order))
      offset == Head(a.freeLists[i])
  IN  [needMerge |-> FlipNeedMerge(a.needMerge, offset, order, i),
       splitted  |-> SetSplitted(a.splitted, offset, order, i),
       freeLists |-> SplitLists(a.freeLists, offset, order, i)]

\* The largest order a chunk at this offset can have.
LargestPossibleOrder(offset) ==
  IF offset = 0 THEN MaxOrder
  ELSE Max({i \in Orders : offset % 2^i = 0})

\* FreeFrame is not told the size: the chunk ends below the smallest block
\* around it that is splitted.
ActualOrder(a, offset) ==
  LET s == {i \in 1 .. LargestPossibleOrder(offset) :
              Block(offset, i) \in a.splitted}
  IN  IF s = {} THEN LargestPossibleOrder(offset) ELSE Min(s) - 1

\* The order the chunk has after FreeFrame merged it with its buddies.  Each
\* block around it is tested after its bit was flipped once, so merging goes
\* on as long as the bit was set: until then exactly one half was free.
MergedOrder(a, offset) ==
  LET k == ActualOrder(a, offset)
  IN  Min({i \in k .. MaxOrder :
             i = MaxOrder \/ Block(offset, i + 1) \notin a.needMerge})

\* The other half of the block of the given order around the offset.
Buddy(offset, order) ==
  LET start == GetChunkStartOffset(offset, order)
      half  == 2^(order - 1)
  IN  IF offset < start + half THEN start + half ELSE start

\* FreeFrame: flip, merge (MergeChunk removes the buddy from its free list),
\* and add what came out to its free list.
FreeFrame(a, offset) ==
  LET k == ActualOrder(a, offset)
      m == MergedOrder(a, offset)
  IN  [needMerge |-> FlipNeedMerge(a.needMerge, offset, k, m),
       splitted  |-> SetMerged(a.splitted, offset, k, m),
       freeLists |-> [j \in Orders |->
         IF k <= j /\ j < m
         THEN RemovePageFromFreeList(a.freeLists[j], Buddy(offset, j + 1))
         ELSE IF j = m
         THEN AddToFreeList(a.freeLists[j], GetChunkStartOffset(offset, m))
         ELSE a.freeLists[j]]]

-----------------------------------------------------------------------------
(* UserFrameAllocator *)

Init == allocators = <<NewAllocator>> /\ frames = {}

\* AllocateFrame: from the first allocator that has room, or from a new one.
AllocateFrame(order) ==
  LET room == {n \in 1 .. Len(allocators) : Candidates(allocators[n], order) # {}}
  IN  \/ /\ room # {}
         /\ LET n == Min(room)
            IN  /\ allocators' = [allocators EXCEPT ![n] = GetFrame(@, order)]
                /\ frames' = frames \cup
                     {<<n, FrameOf(allocators[n], order), order>>}
      \/ /\ room = {}
         /\ Len(allocators) < MaxAllocators
         /\ allocators' = Append(allocators, GetFrame(NewAllocator, order))
         /\ frames' = frames \cup
              {<<Len(allocators) + 1, FrameOf(NewAllocator, order), order>>}

\* FreeFrame by a caller that holds the frame.
FreeUserFrame(f) ==
  /\ f \in frames
  /\ allocators' = [allocators EXCEPT ![f[1]] = FreeFrame(@, f[2])]
  /\ frames' = frames \ {f}

Next ==
  \/ /\ Cardinality(frames) < MaxFrames
     /\ \E order \in Orders : AllocateFrame(order)
  \/ \E f \in frames : FreeUserFrame(f)

Spec == Init /\ [][Next]_vars

-----------------------------------------------------------------------------
Blocks == {<<i, j>> \in (1 .. MaxOrder) \X Offsets : j < 2^(MaxOrder - i)}

TypeOK ==
  /\ allocators \in Seq([needMerge : SUBSET Blocks,
                         splitted  : SUBSET Blocks,
                         freeLists : [Orders -> Seq(Offsets)]])
  /\ frames \subseteq (1 .. MaxAllocators) \X Offsets \X Orders

\* The frames of a chunk.
Span(offset, order) == offset .. offset + 2^order - 1

\* The chunks in the free lists of a, and the chunks of allocator n in use.
FreeChunks(a) == UNION {{<<x, i>> : x \in ToSet(a.freeLists[i])} : i \in Orders}
UsedChunks(n) == {<<f[2], f[3]>> : f \in {g \in frames : g[1] = n}}

\* The memory of every allocator is exactly divided into chunks that are used
\* by one caller or in one free list: nothing is handed out twice, nothing is
\* lost, and the two bit vectors never mislead GetFrame or FreeFrame into
\* breaking that, in whatever order frames of whatever sizes come and go.
ExactDivision ==
  \A n \in 1 .. Len(allocators) :
    LET chunks == FreeChunks(allocators[n]) \cup UsedChunks(n)
    IN  /\ \A i \in Orders : IsInjective(allocators[n].freeLists[i])
        /\ FreeChunks(allocators[n]) \cap UsedChunks(n) = {}
        /\ \A x \in Offsets :
             Cardinality({ch \in chunks : x \in Span(ch[1], ch[2])}) = 1

\* need_merge_ is what its comment says: one half of the block is a chunk in
\* the free list and the other is not.
NeedMergeExact ==
  \A n \in 1 .. Len(allocators) : \A b \in Blocks :
    LET half == 2^(b[1] - 1)
        free(x) == <<x, b[1] - 1>> \in FreeChunks(allocators[n])
        left == b[2] * 2^b[1]
    IN  b \in allocators[n].needMerge <=> free(left) # free(left + half)

\* FreeFrame, which gets no size, frees the size that was allocated.
SizeRecovered ==
  \A f \in frames : ActualOrder(allocators[f[1]], f[2]) = f[3]

\* Whenever merging looks for a buddy, the buddy is in its free list (the
\* result of FindPageFromFreeList is used without a test).
BuddyFound ==
  \A f \in frames :
    LET a == allocators[f[1]]
    IN  \A i \in ActualOrder(a, f[2]) + 1 .. MergedOrder(a, f[2]) :
          Contains(a.freeLists[i - 1], Buddy(f[2], i))

\* GetFrame fails only when there is no room: a free aligned range of the size
\* asked for is always found, whatever was allocated and freed before.
NoFragmentation ==
  \A n \in 1 .. Len(allocators) : \A i \in Orders :
    (\E x \in Offsets :
       /\ x % 2^i = 0
       /\ \A ch \in UsedChunks(n) : Span(ch[1], ch[2]) \cap Span(x, i) = {})
    => Candidates(allocators[n], i) # {}

\* The allocator as a whole: GetFrame and FreeFrame find and return every frame of
\* the memory whatever the two bit vectors had to remember.
FramesAccounted ==
  ExactDivision /\ NeedMergeExact /\ SizeRecovered /\ BuddyFound /\ NoFragmentation

=============================================================================
