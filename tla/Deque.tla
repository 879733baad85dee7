------------------------------- MODULE Deque -------------------------------
(***************************************************************************)
(* What KernelList and std::vector promise: a sequence of elements that    *)
(* changes at its ends, by the removal of an element, or as a whole.       *)
(***************************************************************************)
EXTENDS Integers, Sequences, SequencesExt

CONSTANTS Elems, Others   \* the elements, and what the sequence may be replaced by
VARIABLES items, popped   \* the sequence and what was last taken from it

NoElement == 0

Init == items = <<>> /\ popped = NoElement

Push(e) == /\ items' \in {Append(items, e), Cons(e, items)}
           /\ popped' = popped

PopFront == IF items = <<>> THEN items' = items /\ popped' = NoElement
            ELSE items' = Tail(items) /\ popped' = Head(items)

PopBack == IF items = <<>> THEN items' = items /\ popped' = NoElement
           ELSE items' = Front(items) /\ popped' = Last(items)

TakeOut == \E i \in DOMAIN items : items' = RemoveAt(items, i) /\ popped' = popped

Replace == items' \in Others /\ popped' = popped

Next == TakeOut \/ Replace \/ PopFront \/ PopBack \/ \E e \in Elems : Push(e)

Spec == Init /\ [][Next]_<<items, popped>>
=============================================================================
