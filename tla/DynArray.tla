------------------------------ MODULE DynArray ------------------------------
(***************************************************************************)
(* std::vector of the kernel (vector.h): memory for alloc_size_ elements   *)
(* of which the first size_ are constructed.  A cell holds a value, is raw *)
(* memory, or holds what is left of a value that was moved away.           *)
(***************************************************************************)
EXTENDS Integers, Sequences, SequencesExt

CONSTANTS Elems, MaxLen   \* the values; bound on the memory of a vector

VARIABLES data,    \* data_
          length,  \* size_
          popped   \* back(), before it is popped

avars == <<data, length, popped>>

Raw == -1
Moved == -2
alloc_size == Len(data)

Memory(n) == [i \in 1 .. n |-> Raw]
Copied(cells, n, size) == [i \in 1 .. size |-> IF i <= n THEN cells[i] ELSE Raw]

Init == data = <<>> /\ length = 0 /\ popped = 0

\* Resize: the elements are moved to the new memory.
Resize(n) == Copied(data, length, n)

GetNewAllocSize == IF alloc_size = 0 THEN 1 ELSE alloc_size * 2

push_back(x) ==
  LET grown == IF length >= alloc_size THEN Resize(GetNewAllocSize) ELSE data
  IN /\ Len(grown) <= MaxLen
     /\ data' = [grown EXCEPT ![length + 1] = x] /\ length' = length + 1
     /\ UNCHANGED popped

reserve(n) ==
  /\ data' = IF n < alloc_size THEN data ELSE Resize(n)
  /\ UNCHANGED <<length, popped>>

pop_back ==
  /\ length > 0
  /\ data' = [data EXCEPT ![length] = Raw] /\ length' = length - 1
  /\ popped' = data[length]

\* erase: the elements behind i move up one by one; the last cell is left as it
\* is then, and not destroyed.
Erased(i) ==
  [j \in DOMAIN data |-> IF j \in i .. length - 1 THEN data[j + 1]
                         ELSE IF j = length THEN (IF i = j THEN Raw ELSE Moved)
                         ELSE data[j]]

erase(i) ==
  /\ i \in 1 .. length
  /\ data' = Erased(i) /\ length' = length - 1
  /\ UNCHANGED popped

\* v = another vector: its memory's size is taken over only when one's own
\* is too small.
CopyAssign(items, capacity) ==
  /\ data' = IF alloc_size < Len(items) THEN Copied(items, Len(items), capacity)
             ELSE [i \in DOMAIN data |-> IF i <= Len(items) THEN items[i]
                                         ELSE IF i <= length THEN Raw ELSE data[i]]
  /\ length' = Len(items)
  /\ UNCHANGED popped

\* v = std::move(another vector): with its memory.
MoveAssign(items, capacity) ==
  /\ data' = Copied(items, Len(items), capacity) /\ length' = Len(items)
  /\ UNCHANGED popped

Vectors == BoundedSeq(Elems, MaxLen)

Next ==
  \/ \E x \in Elems : push_back(x)
  \/ \E n \in 0 .. MaxLen : reserve(n)
  \/ pop_back
  \/ \E i \in DOMAIN data : erase(i)
  \/ \E items \in Vectors : \E capacity \in Len(items) .. MaxLen :
       CopyAssign(items, capacity) \/ MoveAssign(items, capacity)

Spec == Init /\ [][Next]_avars

-----------------------------------------------------------------------------
\* The constructed elements are the sequence that the calls describe: nothing
\* raw or moved away is left among them.
Abstract == INSTANCE Deque WITH items <- SubSeq(data, 1, length), Others <- Vectors
=============================================================================
