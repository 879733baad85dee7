----------------------------- MODULE HashTable -----------------------------
(***************************************************************************)
(* std::HashMap and std::HashSet of the kernel (hash_map.h, hash_set.h):   *)
(* open addressing, a tombstone where a key was removed, twice the slots   *)
(* when a third of them is counted as used.                                *)
(***************************************************************************)
EXTENDS Integers, Sequences, FiniteSets

CONSTANTS Keys, Values,
          Hash(_),             \* std::hash
          kInitNumSlots,
          kInverseLoadFactor

VARIABLES slots,         \* slots_, counted from 0
          counted,       \* num_elements_
          answer         \* what the last call returned

hvars == <<slots, counted, answer>>

nullptr == 0
Nothing == 0
Free == [key |-> nullptr, is_tomb |-> FALSE, value |-> Nothing]

Size(s) == Cardinality(DOMAIN s)
Start(s, k) == Hash(k) % Size(s)
Following(s, i) == IF i + 1 >= Size(s) THEN 0 ELSE i + 1
NewSlots(n) == [i \in 0 .. n - 1 |-> Free]

-----------------------------------------------------------------------------
RECURSIVE Probe(_, _)
Probe(s, i) == IF s[i].key = nullptr THEN i ELSE Probe(s, Following(s, i))

\* InsertKeyInternal, without its count: a tombstone is used again.
InsertKeyInternal(s, k, v) ==
  [s EXCEPT ![Probe(s, Start(s, k))] = [key |-> k, is_tomb |-> FALSE, value |-> v]]

\* The keys go to the new slots one by one, and each of them is counted again.
Rehash(s) ==
  LET used == {i \in DOMAIN s : s[i].key # nullptr}
      MovedUpTo[i \in -1 .. Size(s) - 1] ==
        IF i = -1 THEN NewSlots(2 * Size(s))
        ELSE IF i \in used THEN InsertKeyInternal(MovedUpTo[i - 1], s[i].key, s[i].value)
        ELSE MovedUpTo[i - 1]
  IN [slots |-> MovedUpTo[Size(s) - 1], added |-> Cardinality(used)]

RehashIfLoaded(s, n) ==
  IF n * kInverseLoadFactor < Size(s) THEN [slots |-> s, added |-> 0] ELSE Rehash(s)

\* Where the probing for k ends: at its slot, or at one that was never used;
\* -1 when there is no such slot and the loop goes round for ever.
RECURSIVE SearchFrom(_, _, _, _)
SearchFrom(s, k, i, steps) ==
  IF steps = 0 THEN -1
  ELSE IF s[i].key = k \/ (s[i].key = nullptr /\ ~s[i].is_tomb) THEN i
  ELSE SearchFrom(s, k, Following(s, i), steps - 1)

SearchKey(s, k) == SearchFrom(s, k, Start(s, k), Size(s))
Finds(s, k) == SearchKey(s, k) # -1 /\ s[SearchKey(s, k)].key = k

-----------------------------------------------------------------------------
Init == slots = NewSlots(kInitNumSlots) /\ counted = 0 /\ answer = Nothing

Inserted(k, v) ==
  LET room == RehashIfLoaded(slots, counted)
  IN /\ slots' = InsertKeyInternal(room.slots, k, v)
     /\ counted' = counted + room.added + 1

\* insert does not look for the key; its callers insert every key once.
Insert(k, v) ==
  /\ ~Finds(slots, k) /\ Inserted(k, v)
  /\ answer' = Nothing

\* map[k] = v
Assign(k, v) ==
  /\ IF Finds(slots, k)
     THEN slots' = [slots EXCEPT ![SearchKey(slots, k)].value = v] /\ counted' = counted
     ELSE Inserted(k, v)
  /\ answer' = v

\* Fault: the slot is as if it had never been used.
RemovedWithoutTomb(s, k) == [s EXCEPT ![SearchKey(s, k)] = Free]

Removed(s, k) == [s EXCEPT ![SearchKey(s, k)] = [Free EXCEPT !.is_tomb = TRUE]]

\* RemoveKey and the deletion of what it returns.
Erase(k) ==
  IF Finds(slots, k)
  THEN slots' = Removed(slots, k) /\ counted' = counted - 1 /\ answer' = 1
  ELSE UNCHANGED <<slots, counted>> /\ answer' = Nothing

Find(k) ==
  /\ answer' = IF Finds(slots, k) THEN slots[SearchKey(slots, k)].value ELSE Nothing
  /\ UNCHANGED <<slots, counted>>

Next == \E k \in Keys : Erase(k) \/ Find(k) \/ \E v \in Values : Insert(k, v) \/ Assign(k, v)

Spec == Init /\ [][Next]_hvars

-----------------------------------------------------------------------------
Found == {k \in Keys : Finds(slots, k)}

\* Collisions, tombstones and rehashing do not show: the table answers like a
\* dictionary, no key is there twice, and every search comes to an end.
Abstract == INSTANCE Dictionary WITH dict <- [k \in Found |-> slots[SearchKey(slots, k)].value]
OneSlotPerKey == \A k \in Keys : Cardinality({i \in DOMAIN slots : slots[i].key = k}) <= 1
SearchEnds == \A k \in Keys : SearchKey(slots, k) # -1
=============================================================================
