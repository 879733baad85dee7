----------------------------- MODULE Containers -----------------------------
(***************************************************************************)
(* The containers of the kernel that keep a sequence, KernelList and       *)
(* std::vector, and what both promise.  They share nothing but the         *)
(* elements.                                                               *)
(***************************************************************************)
EXTENDS Naturals

CONSTANTS Elems, MaxLen

\* An element is not the null pointer.
ASSUME ContainersAssumption == 0 \notin Elems /\ MaxLen \in Nat

VARIABLES head, tail, prev, next, listSize, listPopped,
          array, length, arrayPopped

List == INSTANCE IntrusiveList WITH size <- listSize, popped <- listPopped
Vector == INSTANCE DynArray WITH data <- array, popped <- arrayPopped

list == <<head, tail, prev, next, listSize, listPopped>>
vector == <<array, length, arrayPopped>>
-----------------------------------------------------------------------------
\* The links of a KernelList, read from either end, and the cells of a vector
\* implement a sequence (push_back, pop_front, RemoveSelfFromList, erase).
ImplementsSequence ==
  /\ List!Abstract!Spec /\ [](List!BothWays(List!Items))
  /\ Vector!Abstract!Spec
=============================================================================
