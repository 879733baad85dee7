-------------------------------- MODULE Heap --------------------------------
(***************************************************************************)
(* The kernel heap (kmalloc.cc): chunks between two equal tags, free ones  *)
(* linked into buckets by size, in one region that grows and shrinks at    *)
(* its end.  Offsets are bytes from heap_start_.                           *)
(*                                                                         *)
(* The words that are tags or links of a chunk are kept, by the offset     *)
(* they start at.  What callers store in their blocks is not, nor what is  *)
(* left of former tags and links: such a word reads as 0.  The heap lock   *)
(* covers kmalloc and kfree as a whole, and the second half of             *)
(* AlignedAlloc, so each of these is one action.                           *)
(***************************************************************************)
EXTENDS Integers, Sequences, FiniteSets, FiniteSetsExt, Functions, TLC

CONSTANTS
  NumBuckets,       \* NUM_BUCKETS
  HeapLimit,        \* heap_memory_limit_
  Requests,         \* the sizes that callers of kmalloc ask for
  AlignedRequests,  \* and those of kaligned_alloc
  Alignments,       \* the alignments that they ask for
  MaxBlocks         \* bound on the number of blocks in use

VARIABLES
  heap,     \* the words, free_list_ and current_heap_size_
  blocks,   \* <<address, bytes>>: what callers hold
  aligning  \* <<address, alignment, bytes>>: AlignedAlloc between its locks

vars == <<heap, blocks, aligning>>

Buckets == 0 .. NumBuckets - 1

Init ==
  /\ heap = [mem |-> <<>>, freeList |-> [b \in Buckets |-> 0], size |-> 8]
  /\ blocks = {}
  /\ aligning = {}
-----------------------------------------------------------------------------
(* Words *)

Word(h, a) == IF a \in DOMAIN h.mem THEN h.mem[a] ELSE 0

\* The words w (a function of offsets) are written.
Store(h, w) ==
  [h EXCEPT !.mem = [a \in DOMAIN @ \cup DOMAIN w |->
                       IF a \in DOMAIN w THEN w[a] ELSE @[a]]]

\* The words from offset a up to offset e are no longer tags or links.
Forget(h, a, e) == [h EXCEPT !.mem = Restrict(@, DOMAIN @ \ (a .. e - 1))]

Tag(size, occupied) == 2 * size + (IF occupied THEN 1 ELSE 0)
GetChunkSize(h, a) == Word(h, a) \div 2
IsOccupied(h, a) == Word(h, a) % 2 = 1

SuffixOf(a, size) == a + size + 4
EndOf(a, size) == a + size + 8
PrevLink(a) == a + 4
NextLink(a) == a + 8

RoundDownLog(n) == CHOOSE k \in 0 .. 31 : 2^k <= n /\ n < 2^(k + 1)
RoundUpLog(n) == IF n = 2^RoundDownLog(n) THEN RoundDownLog(n) ELSE RoundDownLog(n) + 1

\* The bucket a free chunk is kept in.
GetBucketIndexOfFreeChunk(n) ==
  LET power == RoundDownLog(n)
  IN  IF power <= 2 THEN -1 ELSE Min({power - 3, NumBuckets - 1})

\* The bucket the search for a free chunk starts in.
GetBucketIndex(n) ==
  LET power == RoundUpLog(n)
  IN  IF power < 3 THEN 0
      ELSE IF 3 < power /\ power < 3 + NumBuckets THEN power - 3
      ELSE NumBuckets - 1
-----------------------------------------------------------------------------
(* Chunks *)

\* A chunk with these links leaves the list of bucket b.
WeaveTwoChunksTogether(h, prev, next, b) ==
  LET g == IF prev = 0 THEN [h EXCEPT !.freeList[b] = next]
                       ELSE Store(h, NextLink(prev) :> next)
  IN  IF next = 0 THEN g ELSE Store(g, PrevLink(next) :> prev)

Detach(h, a, b) ==
  WeaveTwoChunksTogether(h, Word(h, PrevLink(a)), Word(h, NextLink(a)), b)

\* Fault: the former first chunk of the list gets no link back.
CreateNewFreeChunkAtNoBackLink(h, a, size, b) ==
  Store(Forget([h EXCEPT !.freeList[b] = a], a, EndOf(a, size)),
        a :> Tag(size, FALSE) @@ PrevLink(a) :> 0 @@ NextLink(a) :> h.freeList[b]
          @@ SuffixOf(a, size) :> Tag(size, FALSE))

CreateNewFreeChunkAt(h, a, size, b) ==
  LET next == h.freeList[b]
      g == IF next = 0 THEN h ELSE Store(h, PrevLink(next) :> a)
  IN  Store(Forget([g EXCEPT !.freeList[b] = a], a, EndOf(a, size)),
            a :> Tag(size, FALSE) @@ PrevLink(a) :> 0 @@ NextLink(a) :> next
              @@ SuffixOf(a, size) :> Tag(size, FALSE))

\* The heap is too full for a chunk of this size.
OverLimit(h, size) == h.size + size + 8 >= HeapLimit

CreateNewUsedChunkAt(h, a, size) ==
  IF OverLimit(h, size) THEN h
  ELSE Store(Forget([h EXCEPT !.size = IF a = @ THEN @ + size + 8 ELSE @],
                    a, EndOf(a, size)),
             a :> Tag(size, TRUE) @@ SuffixOf(a, size) :> Tag(size, TRUE))

SplitMemory(h, a, bytes, b) ==
  LET size == GetChunkSize(h, a)
      split == IF size - bytes < 16 THEN size ELSE bytes
      rest == size - split - 8
      g == CreateNewUsedChunkAt(Detach(h, a, b), a, split)
  IN  IF split = size THEN g
      ELSE CreateNewFreeChunkAt(g, EndOf(a, split), rest,
                                GetBucketIndexOfFreeChunk(rest))

\* The first chunk of the list that is large enough, or 0.  After a chunk that
\* is too small the search goes on at the offset in its suffix, n words at most.
IterateFreeList(h, first, bytes) ==
  LET search[n \in 0 .. HeapLimit, a \in Nat] ==
        IF a = 0 \/ GetChunkSize(h, a) >= bytes \/ n = 0 THEN a
        ELSE search[n - 1, Word(h, SuffixOf(a, GetChunkSize(h, a)))]
  IN  search[HeapLimit, first]

\* GetMemoryFromBucket: the heap afterwards and the address of the block, 0 if
\* there is none.
GetMemoryFromBucket(h, bytes) ==
  LET found(b) == IterateFreeList(h, h.freeList[b], bytes)
      fits == {b \in GetBucketIndex(bytes) .. NumBuckets - 1 : found(b) # 0}
      grown == 2^RoundUpLog(bytes)
  IN  IF fits # {}
      THEN LET b == Min(fits)
           IN  [heap |-> SplitMemory(h, found(b), bytes, b),
                address |-> found(b) + 4]
      ELSE [heap |-> CreateNewUsedChunkAt(h, h.size, grown),
            address |-> IF OverLimit(h, grown) THEN 0 ELSE h.size + 4]

\* Fault: the tags between the two chunks are not counted.
CoalsceTwoChunksNoTags(h, left, right) ==
  LET ls == GetChunkSize(h, left)
      rs == GetChunkSize(h, right)
      g == Detach(h, left, GetBucketIndexOfFreeChunk(ls))
      k == Detach(g, right, GetBucketIndexOfFreeChunk(rs))
  IN  CreateNewFreeChunkAt(k, left, ls + rs, GetBucketIndexOfFreeChunk(ls + rs))

CoalsceTwoChunks(h, left, right) ==
  LET ls == GetChunkSize(h, left)
      rs == GetChunkSize(h, right)
      g == Detach(h, left, GetBucketIndexOfFreeChunk(ls))
      k == Detach(g, right, GetBucketIndexOfFreeChunk(rs))
  IN  CreateNewFreeChunkAt(k, left, ls + rs + 8,
                           GetBucketIndexOfFreeChunk(ls + rs + 8))

\* The chunk whose suffix is at offset s.
GetStartOfChunkFromSuffix(h, s) == s - GetChunkSize(h, s) - 4

RemoveFreeChunkFromHeap(h, a) ==
  LET size == GetChunkSize(h, a)
      g == Detach(h, a, GetBucketIndexOfFreeChunk(size))
  IN  Forget([g EXCEPT !.size = @ - size - 8], a, EndOf(a, size))

\* Merging with the chunk on the left, then with the one on the right, and the
\* end of the heap moves back over a free chunk.
FreeOccupiedChunk(h, a) ==
  LET size == GetChunkSize(h, a)
      g == CreateNewFreeChunkAt(h, a, size, GetBucketIndexOfFreeChunk(size))
      mergeLeft == a - 4 >= 8 /\ ~IsOccupied(g, a - 4)
      start == IF mergeLeft THEN GetStartOfChunkFromSuffix(g, a - 4) ELSE a
      k == IF mergeLeft THEN CoalsceTwoChunks(g, start, a) ELSE g
      right == EndOf(start, GetChunkSize(k, start))
      l == IF right < k.size /\ ~IsOccupied(k, right)
           THEN CoalsceTwoChunks(k, start, right) ELSE k
  IN  IF EndOf(start, GetChunkSize(l, start)) = l.size
      THEN RemoveFreeChunkFromHeap(l, start) ELSE l
-----------------------------------------------------------------------------
(* Operations *)

\* kmalloc: the block goes to the caller, unless there is none.  A request of 0
\* bytes returns before the lock.
kmalloc(n) ==
  LET bytes == IF n < 8 THEN 8 ELSE n
      r == GetMemoryFromBucket(heap, bytes)
  IN  /\ n > 0
      /\ heap' = r.heap
      /\ blocks' = IF r.address = 0 THEN blocks
                   ELSE blocks \cup {<<r.address, bytes>>}
      /\ UNCHANGED aligning

kfree(b) ==
  /\ heap' = FreeOccupiedChunk(heap, b[1] - 4)
  /\ blocks' = blocks \ {b}
  /\ UNCHANGED aligning

\* The first half of AlignedAlloc: kmalloc of a block with room to move.  The
\* code does not look at the result; without memory it would write through a
\* null pointer, which is left out here.
AlignedAlloc(alignment, n) ==
  LET bytes == n + alignment - 1
      r == GetMemoryFromBucket(heap, bytes)
  IN  /\ bytes >= 8
      /\ r.address # 0
      /\ heap' = r.heap
      /\ aligning' = aligning \cup {<<r.address, alignment, n>>}
      /\ UNCHANGED blocks

\* The first address from m on with this alignment; heap_start_ is a multiple
\* of every alignment plus 4.
AlignedAddress(m, alignment) ==
  Min({a \in m .. m + alignment - 1 : (a + 4) % alignment = 0})

\* The left neighbour takes the bytes before the aligned address, or they
\* become a free chunk of their own at the start of the heap.
GiveToLeft(h, chunk, bytes) ==
  IF chunk - 4 >= 8
  THEN LET left == GetStartOfChunkFromSuffix(h, chunk - 4)
           size == GetChunkSize(h, left) + bytes
           tag  == Tag(size, IsOccupied(h, left))
       IN  Store(Forget(h, chunk - 4, chunk + 4),
                 left :> tag @@ SuffixOf(left, size) :> tag)
  ELSE IF bytes >= 16
  THEN CreateNewFreeChunkAt(h, chunk, bytes - 8,
                            GetBucketIndexOfFreeChunk(bytes - 8))
  ELSE h

\* The second half of AlignedAlloc, under the lock again.
AlignedAllocMove(x) ==
  LET chunk == x[1] - 4
      address == AlignedAddress(x[1], x[2])
      given == address - x[1]
      size == GetChunkSize(heap, chunk) - given
      tag == Tag(size, TRUE)
  IN  /\ heap' = IF given = 0 THEN heap
                 ELSE Store(GiveToLeft(heap, chunk, given),
                            address - 4 :> tag @@ SuffixOf(address - 4, size) :> tag)
      /\ blocks' = blocks \cup {<<address, x[3]>>}
      /\ aligning' = aligning \ {x}

Allocate ==
  /\ Cardinality(blocks) + Cardinality(aligning) < MaxBlocks
  /\ \/ \E n \in Requests : kmalloc(n)
     \/ \E alignment \in Alignments, n \in AlignedRequests :
          AlignedAlloc(alignment, n)

\* One thread: an aligned allocation ends before the next call starts.
Next ==
  \/ aligning = {} /\ Allocate
  \/ aligning = {} /\ \E b \in blocks : kfree(b)
  \/ \E x \in aligning : AlignedAllocMove(x)

Spec == Init /\ [][Next]_vars

\* Several threads: other calls come between the halves of AlignedAlloc.
ConcurrentNext ==
  \/ Allocate
  \/ \E b \in blocks : kfree(b)
  \/ \E x \in aligning : AlignedAllocMove(x)

ConcurrentSpec == Init /\ [][ConcurrentNext]_vars
-----------------------------------------------------------------------------
\* Every tag and link lies within the heap, and so does its end: freeing never
\* moves the end back over the first offset.
TypeOK ==
  /\ DOMAIN heap.mem \subseteq 0 .. HeapLimit
  /\ \A a \in DOMAIN heap.mem : heap.mem[a] \in Nat
  /\ heap.freeList \in [Buckets -> 0 .. HeapLimit]
  /\ heap.size \in 8 .. HeapLimit
  /\ \A b \in blocks : b \in Nat \X Nat
  /\ \A x \in aligning : x \in Nat \X Nat \X Nat

\* The chunks that a walk over the heap from its start meets.
Chunks ==
  LET from[a \in 0 .. HeapLimit] ==
        IF a >= heap.size THEN {}
        ELSE LET e == EndOf(a, GetChunkSize(heap, a))
             IN  {a} \cup (IF e > HeapLimit THEN {} ELSE from[e])
  IN  from[8]
SizeOf(a) == GetChunkSize(heap, a)
FreeChunks == {a \in Chunks : ~IsOccupied(heap, a)}

\* What SanityCheck tests, of free chunks too: the chunks fill the heap to its
\* end, and every chunk's suffix, by which kfree finds its left neighbour, is a
\* copy of its prefix.
HeapIsTiled ==
  /\ \A a \in Chunks : Word(heap, SuffixOf(a, SizeOf(a))) = Word(heap, a)
  /\ \A a \in Chunks : EndOf(a, SizeOf(a)) \in Chunks \cup {heap.size}

\* The list of bucket b along its links, n chunks at most.
Listed(b) ==
  LET along[n \in 0 .. HeapLimit, a \in Nat] ==
        IF a = 0 \/ n = 0 THEN <<>>
        ELSE <<a>> \o along[n - 1, Word(heap, NextLink(a))]
  IN  along[Cardinality(Chunks) + 1, heap.freeList[b]]

\* The links of every bucket are right in both directions, and the buckets hold
\* exactly the free chunks, each once and in the bucket of its size: this is
\* what lets Detach work with the size alone.
FreeListsExact ==
  \A b \in Buckets :
    LET l == Listed(b)
        own == {a \in FreeChunks : GetBucketIndexOfFreeChunk(SizeOf(a)) = b}
    IN  /\ Len(l) = Cardinality(own)
        /\ Range(l) = own
        /\ \A i \in 1 .. Len(l) :
             Word(heap, PrevLink(l[i])) = IF i = 1 THEN 0 ELSE l[i - 1]

\* Every block a caller holds is an occupied chunk of its own and has the size
\* the caller asked for, and no other chunk is occupied: nothing is handed out
\* twice, nothing leaks.
BlocksAreChunks ==
  LET held == {b[1] - 4 : b \in blocks} \cup {x[1] - 4 : x \in aligning}
  IN  /\ held = Chunks \ FreeChunks
      /\ Cardinality(held) = Cardinality(blocks) + Cardinality(aligning)
      /\ \A b \in blocks : SizeOf(b[1] - 4) >= b[2]

\* Free neighbours are always merged, and the heap never ends in a free chunk.
Coalesced ==
  \A a \in FreeChunks : EndOf(a, SizeOf(a)) \in Chunks \ FreeChunks

\* The heap as a whole: kmalloc and kfree leave chunks that fill it, that belong to
\* one caller or are free, and that are merged.
ChunksSound == HeapIsTiled /\ BlocksAreChunks /\ Coalesced

=============================================================================
