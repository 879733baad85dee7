------------------------------- MODULE Channel -------------------------------
(***************************************************************************)
(* What a pipe promises: a first-in first-out channel of bytes in which a  *)
(* message is put as a whole, into an empty channel only, and taken from   *)
(* the front in portions.                                                  *)
(***************************************************************************)
EXTENDS Integers, Sequences

CONSTANTS
  Byte,      \* what a channel carries
  Capacity   \* the longest message

VARIABLE queue   \* the bytes put and not yet taken

Init == queue = <<>>

Put == /\ queue = <<>>
       /\ queue' \in UNION {[1 .. n -> Byte] : n \in 1 .. Capacity}

Take == \E n \in 1 .. Len(queue) : queue' = SubSeq(queue, n + 1, Len(queue))

Spec == Init /\ [][Put \/ Take]_queue

=============================================================================
