--------------------------- MODULE IntrusiveList ---------------------------
(***************************************************************************)
(* KernelList (kernel_list.h): the run queues of the scheduler, the        *)
(* waiters of a semaphore and the children of a process are linked through *)
(* elements that the threads own, so that no list ever allocates.          *)
(***************************************************************************)
EXTENDS Integers, Sequences, SequencesExt

CONSTANT Elems

VARIABLES head, tail,   \* head_, tail_
          prev, next,   \* the links of every element
          size,         \* size_
          popped        \* what the last pop returned

lvars == <<head, tail, prev, next, size, popped>>

nullptr == 0
empty == head = nullptr

\* s is what a loop meets that begins at head and follows next until it is null;
\* what one meets, last element first, that begins at tail and follows prev.
Forward(s) ==
  /\ head = IF s = <<>> THEN nullptr ELSE s[1]
  /\ \A i \in DOMAIN s : next[s[i]] = IF i = Len(s) THEN nullptr ELSE s[i + 1]
Backward(s) ==
  /\ tail = IF s = <<>> THEN nullptr ELSE s[Len(s)]
  /\ \A i \in DOMAIN s : prev[s[i]] = IF i = 1 THEN nullptr ELSE s[i - 1]

Items == CHOOSE s \in BoundedSeq(Elems, size) : Forward(s)

Init ==
  /\ head = nullptr /\ tail = nullptr /\ size = 0 /\ popped = nullptr
  /\ prev = [e \in Elems |-> nullptr] /\ next = [e \in Elems |-> nullptr]

\* The callers push what is in no list: PANIC() catches only an element that is
\* the first or the last one already.
push_front(e) ==
  /\ e \notin Range(Items)
  /\ size' = size + 1 /\ head' = e
  /\ tail' = IF empty THEN e ELSE tail
  /\ next' = [next EXCEPT ![e] = head]
  /\ prev' = [x \in Elems |-> IF x = e THEN nullptr ELSE IF x = head THEN e ELSE prev[x]]
  /\ UNCHANGED popped

push_back(e) ==
  /\ e \notin Range(Items)
  /\ size' = size + 1 /\ tail' = e
  /\ head' = IF empty THEN e ELSE head
  /\ prev' = [prev EXCEPT ![e] = tail]
  /\ next' = [x \in Elems |-> IF x = e THEN nullptr ELSE IF x = tail THEN e ELSE next[x]]
  /\ UNCHANGED popped

\* The neighbours are linked to each other, the element to nothing.
Detach(e) ==
  /\ next' = [x \in Elems |-> IF x = e THEN nullptr ELSE IF x = prev[e] THEN next[e] ELSE next[x]]
  /\ prev' = [x \in Elems |-> IF x = e THEN nullptr ELSE IF x = next[e] THEN prev[e] ELSE prev[x]]

pop_front ==
  IF empty THEN popped' = nullptr /\ UNCHANGED <<head, tail, prev, next, size>>
  ELSE /\ size' = size - 1 /\ popped' = head
       /\ Detach(head)
       /\ head' = next[head]
       /\ tail' = IF next[head] = nullptr THEN nullptr ELSE tail

pop_back ==
  IF empty THEN popped' = nullptr /\ UNCHANGED <<head, tail, prev, next, size>>
  ELSE /\ size' = size - 1 /\ popped' = tail
       /\ Detach(tail)
       /\ tail' = prev[tail]
       /\ head' = IF prev[tail] = nullptr THEN nullptr ELSE head

\* Fault: the last element of the list is detached without a new tail.
RemoveKeepsTail(e) ==
  /\ e \in Range(Items)
  /\ head' = IF head = e THEN next[e] ELSE head
  /\ tail' = tail
  /\ size' = size - 1
  /\ Detach(e)
  /\ UNCHANGED popped

\* remove and Detach, of an element that is in the list.
RemoveSelfFromList(e) ==
  /\ e \in Range(Items)
  /\ head' = IF head = e THEN next[e] ELSE head
  /\ tail' = IF tail = e THEN prev[e] ELSE tail
  /\ size' = size - 1
  /\ Detach(e)
  /\ UNCHANGED popped

Next ==
  \/ \E e \in Elems : push_front(e) \/ push_back(e) \/ RemoveSelfFromList(e)
  \/ pop_front
  \/ pop_back

Spec == Init /\ [][Next]_lvars

-----------------------------------------------------------------------------
\* The links and ends describe one sequence, the same from both ends, and the
\* list changes it the way its operations say.
Abstract == INSTANCE Deque WITH items <- Items, Others <- {}
BothWays(s) == Forward(s) /\ Backward(s) /\ size = Len(s)
=============================================================================
