------------------------------ MODULE UserHeap ------------------------------
(***************************************************************************)
(* The heap of a user program: malloc, calloc, realloc and free of         *)
(* user/libc/malloc.c on the memory that sbrk gives.                       *)
(*                                                                         *)
(* The memory is an array of words of 4 bytes and every offset counts      *)
(* words.  A word holds what the code stores there: the header or footer   *)
(* of a block (is_free | sz << 1, see SetMetaField; sz counts words), a    *)
(* link of the free list (the offset of a block or END_OF_LIST) or a word  *)
(* of the program's data, so that a write outside of its block destroys    *)
(* what another one keeps there.                                           *)
(*                                                                         *)
(*   occupied:  | front |  data ....................... | back |           *)
(*   free:      | front | .... | prev_free | next_free  | back |           *)
(***************************************************************************)
EXTENDS Integers, Sequences, FiniteSets

CONSTANTS FourKb,        \* words of a page that sbrk hands out (1024 in the code)
          MaxPages,      \* bound on the pages the program asks for
          Slots,         \* the pointers the program keeps
          Requests,      \* the sizes it asks for, in words
          Tag(_),        \* the data it writes into the block of a slot
          MaxOps         \* bound on the calls it makes

VARIABLES mem,               \* the words of the heap
          allocated_size,    \* words of the heap the program manages
          free_block_list_start,
          pages,             \* pages that sbrk has given (heap_size_ of the process)
          user,              \* slot -> what the program believes it holds
          calls

uvars == <<mem, allocated_size, free_block_list_start, pages, user, calls>>

MetaBlock == 2
FreeLinks == 2
EndOfList == 48059
Nothing == [block |-> -1, words |-> 0, tag |-> 0]

\* The state the functions of malloc.c pass on to each other.
Heap == [mem |-> mem, size |-> allocated_size, head |-> free_block_list_start]

-----------------------------------------------------------------------------
(* The words of a block *)

Header(free, sz) == free + 2 * sz
Size(h, b) == h.mem[b] \div 2
IsFree(h, b) == h.mem[b] % 2 = 1

Back(h, b) == b + 1 + Size(h, b)
Links(h, b) == b + 1 + Size(h, b) - FreeLinks
Prev(h, b) == h.mem[Links(h, b)]
NextFree(h, b) == h.mem[Links(h, b) + 1]

RightNeighbor(h, b) == b + MetaBlock + Size(h, b)
LeftNeighbor(h, b) == b - MetaBlock - (h.mem[b - 1] \div 2)

Store(h, at, w) == [h EXCEPT !.mem[at] = w]
SetPrev(h, b, to) == Store(h, Links(h, b), to)
SetNext(h, b, to) == Store(h, Links(h, b) + 1, to)

\* Header and footer of the block b.
SetBlock(h, b, free, sz) ==
    [h EXCEPT !.mem = [@ EXCEPT ![b] = Header(free, sz),
                                ![b + 1 + sz] = Header(free, sz)]]

\* The neighbours of b in the list point at "to".
Relink(h, b, to) ==
    LET left == IF Prev(h, b) = EndOfList THEN h ELSE SetNext(h, Prev(h, b), to)
    IN  IF NextFree(h, b) = EndOfList THEN left
        ELSE SetPrev(left, NextFree(h, b), to)

AddToFreeList(h, b) ==
    LET linked == SetPrev(SetNext(h, b, h.head), b, EndOfList)
    IN  [(IF h.head = EndOfList THEN linked ELSE SetPrev(linked, h.head, b))
           EXCEPT !.head = b]

RemoveFromFreeList(h, b) ==
    LET skip == IF Prev(h, b) = EndOfList THEN h
                ELSE SetNext(h, Prev(h, b), NextFree(h, b))
        both == IF NextFree(h, b) = EndOfList THEN skip
                ELSE SetPrev(skip, NextFree(h, b), Prev(h, b))
    IN  [both EXCEPT !.head = IF @ = b THEN NextFree(h, b) ELSE @]

MarkOccupied(h, b) ==
    RemoveFromFreeList(SetBlock(h, b, 0, Size(h, b)), b)

\* Fault: what lies between the two is counted twice.
MergeTooLong(h, left, right) ==
    LET merged == SetBlock(RemoveFromFreeList(h, left), left, 1,
                           Size(h, left) + Size(h, right) + 2 * MetaBlock)
    IN  [Relink(merged, left, left)
           EXCEPT !.head = IF @ = right THEN left ELSE @]

\* The merged block inherits the links at its end, which are the right one's.
MergeTwoBlocks(h, left, right) ==
    LET merged == SetBlock(RemoveFromFreeList(h, left), left, 1,
                           Size(h, left) + Size(h, right) + MetaBlock)
    IN  [Relink(merged, left, left)
           EXCEPT !.head = IF @ = right THEN left ELSE @]

MergeRight(h, b) ==
    IF RightNeighbor(h, b) < h.size /\ IsFree(h, RightNeighbor(h, b))
    THEN MergeTwoBlocks(h, b, RightNeighbor(h, b)) ELSE h

MergeLeft(h, b) ==
    IF b > 0 /\ IsFree(h, LeftNeighbor(h, b))
    THEN MergeTwoBlocks(h, LeftNeighbor(h, b), b) ELSE h

MarkFree(h, b) ==
    MergeLeft(MergeRight(AddToFreeList(SetBlock(h, b, 1, Size(h, b)), b), b), b)

-----------------------------------------------------------------------------
(* Allocation *)

\* The free blocks in the order of the list from b on, at most n of them: a
\* list longer than the memory would not end.
RECURSIVE ListFrom(_, _, _)
ListFrom(h, b, n) ==
    IF b = EndOfList \/ n = 0 THEN <<>> ELSE <<b>> \o ListFrom(h, NextFree(h, b), n - 1)

FreeList(h) == ListFrom(h, h.head, h.size)

\* The first block of the list that is large enough, -1 when there is none.
FindFreeBlock(h, sz) ==
    LET list == FreeList(h)
        fits == {i \in 1..Len(list) : Size(h, list[i]) >= sz}
    IN  IF fits = {} THEN -1
        ELSE list[CHOOSE i \in fits : \A j \in fits : i <= j]

RoomToSplit(h, b, words) == Size(h, b) >= words + MetaBlock + FreeLinks

\* Cuts the first "words" words off the free block b.  The rest takes over
\* the links of b, which are at its end, and b becomes the head of the list.
SplitFreeBlock(h, b, words) ==
    IF ~RoomToSplit(h, b, words) THEN h
    ELSE LET rest == b + MetaBlock + words
             cut == SetBlock(SetBlock(h, rest, 1, Size(h, b) - words - MetaBlock),
                             b, 1, words)
             handed == [cut EXCEPT !.head = IF @ = b THEN rest ELSE @]
         IN  Relink(AddToFreeList(handed, b), rest, rest)

TakeBlock(h, b, words) == MarkOccupied(SplitFreeBlock(h, b, words), b)

RoundUpToPages(words) == (words + FourKb - 1) \div FourKb

RoundUpToMultipleOf8(words) == words + (words % 2)

\* The block that a fresh region of memory becomes, before it is freed.
NewBlock(h, b, words) == [SetBlock(h, b, 0, words - MetaBlock) EXCEPT !.size = b + words]

\* The first page without the word that aligns the data to 8 bytes.
InitMalloc(h) ==
    IF h.size # 0 THEN h ELSE MarkFree(NewBlock(h, 0, FourKb - 1), 0)

\* More memory: the new block may have been merged with the one before it.
Extended(h, words) ==
    MarkFree(NewBlock(h, h.size, RoundUpToPages(words + MetaBlock) * FourKb), h.size)

LastBlock(h) == LeftNeighbor(h, h.size)

\* malloc: the heap afterwards and the block it returns.
Malloc(h, words) ==
    LET found == FindFreeBlock(h, words)
        grown == Extended(h, words)
        b     == IF found # -1 THEN found ELSE LastBlock(grown)
    IN  [heap |-> TakeBlock(IF found # -1 THEN h ELSE grown, b, words), block |-> b]

-----------------------------------------------------------------------------
(* The program *)

Init ==
    /\ mem = [i \in 0..(MaxPages * FourKb - 2) |-> 0]
    /\ allocated_size = 0
    /\ free_block_list_start = EndOfList
    /\ pages = 0
    /\ user = [s \in Slots |-> Nothing]
    /\ calls = 0

Held == {s \in Slots : user[s] # Nothing}

Return(h) ==
    /\ mem' = h.mem
    /\ allocated_size' = h.size
    /\ free_block_list_start' = h.head
    /\ pages' = RoundUpToPages(h.size)
    /\ calls < MaxOps /\ calls' = calls + 1

\* The heap after data[0..words - 1] = v in the block b.
Fill(h, b, words, v) ==
    [h EXCEPT !.mem = [i \in DOMAIN @ |-> IF i \in (b + 1)..(b + words) THEN v ELSE @[i]]]

\* Enough pages are left for whatever the call may ask for.
MayGrow(words) == RoundUpToPages(allocated_size) + RoundUpToPages(words + MetaBlock) <= MaxPages

CallMalloc(s, words, v) ==
    LET got == Malloc(InitMalloc(Heap), RoundUpToMultipleOf8(words))
    IN  /\ MayGrow(words + FourKb)
        /\ Return(Fill(got.heap, got.block, words, v))
        /\ user' = [user EXCEPT ![s] = [block |-> got.block, words |-> words, tag |-> v]]

\* malloc and the program writes its data; calloc writes the zeros itself.
UserMalloc(s, words) == s \notin Held /\ CallMalloc(s, words, Tag(s))
UserCalloc(s, words) == s \notin Held /\ CallMalloc(s, words, 0)

UserFree(s) ==
    /\ s \in Held
    /\ Return(MarkFree(Heap, user[s].block))
    /\ user' = [user EXCEPT ![s] = Nothing]

\* A block that is large enough stays where it is.
UserReallocInPlace(s, words) ==
    /\ s \in Held
    /\ Size(Heap, user[s].block) >= words
    /\ Return(Fill(Heap, user[s].block, words, Tag(s)))
    /\ user' = [user EXCEPT ![s].words = words, ![s].tag = Tag(s)]

\* Any other one is freed and a new one allocated; nothing is copied, so the
\* program has to write its data again.
UserRealloc(s, words) ==
    LET got == Malloc(MarkFree(Heap, user[s].block), RoundUpToMultipleOf8(words))
    IN  /\ s \in Held
        /\ Size(Heap, user[s].block) < words
        /\ MayGrow(words)
        /\ Return(Fill(got.heap, got.block, words, Tag(s)))
        /\ user' = [user EXCEPT ![s] = [block |-> got.block, words |-> words, tag |-> Tag(s)]]

Next ==
    \E s \in Slots :
      \/ UserFree(s)
      \/ \E words \in Requests :
           \/ UserMalloc(s, words)
           \/ UserCalloc(s, words)
           \/ UserReallocInPlace(s, words)
           \/ UserRealloc(s, words)

Spec == Init /\ [][Next]_uvars

-----------------------------------------------------------------------------
(* Properties *)

\* The start of every block from b on, and where the last one ends.
RECURSIVE BlocksFrom(_)
BlocksFrom(b) ==
    {b} \cup (IF b >= allocated_size THEN {} ELSE BlocksFrom(RightNeighbor(Heap, b)))

Blocks == BlocksFrom(0)

FreeBlocks == {b \in Blocks \ {allocated_size} : IsFree(Heap, b)}

\* __malloc_sanity_check and what it relies on: the blocks follow each other
\* up to the end of the heap, each with the same size and flag at both of its
\* ends; no two neighbours are free; the list leads through every free block
\* once, and back.
SaneUserHeap ==
    allocated_size > 0 =>
      LET list == FreeList(Heap)
      IN  /\ \A b \in Blocks : b <= allocated_size
          /\ \A b \in Blocks \ {allocated_size} : mem[b] = mem[Back(Heap, b)]
          /\ \A b \in FreeBlocks : RightNeighbor(Heap, b) \notin FreeBlocks
          /\ {list[i] : i \in DOMAIN list} = FreeBlocks
          /\ Len(list) = Cardinality(FreeBlocks)
          /\ \A i \in DOMAIN list :
               Prev(Heap, list[i]) = (IF i = 1 THEN EndOfList ELSE list[i - 1])

\* What a program wrote into its block stays there until it frees it, whatever
\* it allocates, grows and frees in between.
UserDataKept ==
    \A s \in Held : \A i \in 1..user[s].words : mem[user[s].block + i] = user[s].tag

\* malloc and free keep the heap's own words and the program's.
HeapAndDataKept == SaneUserHeap /\ UserDataKept
=============================================================================
