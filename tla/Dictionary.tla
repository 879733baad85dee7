----------------------------- MODULE Dictionary -----------------------------
(***************************************************************************)
(* What map, set, HashMap and HashSet promise: every key has at most one   *)
(* value, and a call answers as if nothing but the keys and the values     *)
(* mattered.                                                               *)
(***************************************************************************)
EXTENDS Integers

CONSTANTS Keys, Values
VARIABLES dict,     \* the keys that are there, with their values
          answer    \* what the last call returned

Nothing == 0        \* end() or nullptr

Init == dict = [k \in {} |-> Nothing] /\ answer = Nothing

With(d, k, v) == [j \in DOMAIN d \cup {k} |-> IF j = k THEN v ELSE d[j]]
Without(d, k) == [j \in DOMAIN d \ {k} |-> d[j]]

Find(d, k) == answer' = IF k \in DOMAIN d THEN d[k] ELSE Nothing

Insert(d, e, k, v) == e = With(d, k, v) /\ k \notin DOMAIN d /\ answer' = Nothing
InsertAgain(d, k) == k \in DOMAIN d /\ answer' = Nothing

Assign(d, e, k, v) == e = With(d, k, v) /\ answer' = v

Erase(d, e, k) == e = Without(d, k) /\ k \in DOMAIN d /\ answer' = 1
EraseNothing(d, k) == k \notin DOMAIN d /\ answer' = Nothing

\* The smallest key goes.
EraseFirst(d, e) == /\ \E k \in DOMAIN d : e = Without(d, k) /\ \A j \in DOMAIN d : k <= j
                    /\ answer' = Nothing

Changes(d, e) ==
  \/ /\ e = d
     /\ answer' = answer \/ \E k \in Keys : Find(d, k) \/ InsertAgain(d, k) \/ EraseNothing(d, k)
  \/ \E k \in Keys : Erase(d, e, k) \/ \E v \in Values : Insert(d, e, k, v) \/ Assign(d, e, k, v)
  \/ EraseFirst(d, e)

Next == \E d \in {dict}, e \in {dict'} : Changes(d, e)

Spec == Init /\ [][Next]_<<dict, answer>>
=============================================================================
