------------------------------ MODULE TreeMap ------------------------------
(***************************************************************************)
(* std::map and std::set of the kernel (map.h, set.h) on a binary tree     *)
(* that is never balanced (tree.h).  A node is named by its key, which no  *)
(* other node has; only allocated nodes have links.  Timer keeps its       *)
(* sleeping threads in one, and every process its file descriptors.        *)
(***************************************************************************)
EXTENDS Integers, Sequences, SequencesExt, FiniteSets, TLC

CONSTANTS Keys, Values

VARIABLES root,          \* root_
          nodes,         \* key -> left_, right_ and the value
          num_elements,  \* num_elements_
          answer         \* what the last call returned

tvars == <<root, nodes, num_elements, answer>>

nullptr == 0
Nothing == 0

Tree == [root |-> root, nodes |-> nodes]
Left(t, n) == t.nodes[n].left
Right(t, n) == t.nodes[n].right

-----------------------------------------------------------------------------
(* tree.h *)

\* The nodes that a search for k visits, from n on.
RECURSIVE PathFrom(_, _, _)
PathFrom(t, n, k) ==
  IF n = nullptr THEN <<>>
  ELSE <<n>> \o (IF n = k THEN <<>>
                 ELSE PathFrom(t, IF n < k THEN Right(t, n) ELSE Left(t, n), k))

Path(t, k) == PathFrom(t, t.root, k)

\* SearchNode: the node of k, and the one above it or above where it would be.
SearchNode(t, k) ==
  LET path == Path(t, k)
      found == path # <<>> /\ path[Len(path)] = k
      above == IF found THEN Len(path) - 1 ELSE Len(path)
  IN [current |-> IF found THEN k ELSE nullptr,
      parent |-> IF above = 0 THEN nullptr ELSE path[above]]

NumChild(t, n) == Cardinality({Left(t, n), Right(t, n)} \ {nullptr})

RemoveChild(t, n, child) ==
  IF Left(t, n) = child THEN [t EXCEPT !.nodes[n].left = nullptr]
  ELSE IF Right(t, n) = child THEN [t EXCEPT !.nodes[n].right = nullptr] ELSE t

\* AddChild and SetChild: on the side where the key belongs.
SetChild(t, n, child) ==
  IF child > n THEN [t EXCEPT !.nodes[n].right = child]
  ELSE [t EXCEPT !.nodes[n].left = child]

SwitchChild(t, n, from, to) ==
  IF Left(t, n) = from THEN [t EXCEPT !.nodes[n].left = to]
  ELSE IF Right(t, n) = from THEN [t EXCEPT !.nodes[n].right = to] ELSE t

\* InsertNode, of a node that has been allocated.
InsertNode(t, n) ==
  IF t.root = nullptr THEN [t EXCEPT !.root = n]
  ELSE SetChild(t, SearchNode(t, n).parent, n)

RECURSIVE LeftMost(_, _)
LeftMost(t, n) == IF Left(t, n) = nullptr THEN n ELSE LeftMost(t, Left(t, n))

\* The parent, or the root, gets "to" in the place of n.
Replace(t, parent, n, to) ==
  IF parent = nullptr THEN [t EXCEPT !.root = to] ELSE SwitchChild(t, parent, n, to)

DeleteLeaf(t, n, parent) ==
  IF parent = nullptr THEN [t EXCEPT !.root = nullptr] ELSE RemoveChild(t, parent, n)

DeleteAboveOne(t, n, parent) ==
  LET child == IF Left(t, n) # nullptr THEN Left(t, n) ELSE Right(t, n)
      cut == RemoveChild(t, n, child)
  IN IF parent = nullptr THEN [cut EXCEPT !.root = child]
     ELSE SetChild(RemoveChild(cut, parent, n), parent, child)

DeleteEasy(t, n, parent) ==
  IF NumChild(t, n) = 0 THEN DeleteLeaf(t, n, parent) ELSE DeleteAboveOne(t, n, parent)

\* The successor is cut off, wherever it is, and takes the place of n with the
\* links that n has then.
DeleteAboveTwo(t, n, parent) ==
  LET next == LeftMost(t, Right(t, n))
      cut == DeleteEasy(t, next, SearchNode(t, next).parent)
  IN Replace([cut EXCEPT !.nodes[next].right = Right(cut, n), !.nodes[next].left = Left(cut, n)],
             parent, n, next)

DeleteNode(t, n, parent) ==
  IF NumChild(t, n) = 2 THEN DeleteAboveTwo(t, n, parent) ELSE DeleteEasy(t, n, parent)

-----------------------------------------------------------------------------
(* SetIterator: the nodes from the root to the current one *)

RECURSIVE LeftSpine(_, _)
LeftSpine(t, n) == IF n = nullptr THEN <<>> ELSE <<n>> \o LeftSpine(t, Left(t, n))

begin(t) == LeftSpine(t, t.root)
end == <<>>

\* The way up ends at a node whose left child is the one where it began: that
\* one is not replaced on the way.
RECURSIVE Up(_, _, _)
Up(t, stack, from) ==
  LET above == Front(stack)
  IN IF above = <<>> \/ Left(t, Last(above)) = from THEN above ELSE Up(t, above, from)

Increment(t, stack) ==
  LET n == Last(stack)
  IN IF Right(t, n) = nullptr THEN Up(t, stack, n)
     ELSE stack \o LeftSpine(t, Right(t, n))

\* What a loop from begin() to end() visits.
RECURSIVE ListFrom(_, _)
ListFrom(t, stack) ==
  IF stack = end THEN <<>> ELSE <<Last(stack)>> \o ListFrom(t, Increment(t, stack))

Listing(t) == ListFrom(t, begin(t))

-----------------------------------------------------------------------------
(* set.h, map.h *)

Init ==
  /\ root = nullptr /\ nodes = [n \in {} |-> nullptr]
  /\ num_elements = 0 /\ answer = Nothing

count(k) == IF SearchNode(Tree, k).current = nullptr THEN 0 ELSE 1

Allocate(t, k, v) ==
  [t EXCEPT !.nodes = @ @@ (k :> [left |-> nullptr, right |-> nullptr, value |-> v])]

Becomes(t, num, result) ==
  root' = t.root /\ nodes' = t.nodes /\ num_elements' = num /\ answer' = result

Insert(k, v) ==
  IF count(k) = 1 THEN Becomes(Tree, num_elements, Nothing)
  ELSE Becomes(InsertNode(Allocate(Tree, k, v), k), num_elements + 1, Nothing)

\* map[k] = v: find, insert where there is nothing, and at().
Assign(k, v) ==
  IF count(k) = 1 THEN Becomes([Tree EXCEPT !.nodes[k].value = v], num_elements, v)
  ELSE Becomes(InsertNode(Allocate(Tree, k, v), k), num_elements + 1, v)

Destroyed(t, n) == [t EXCEPT !.nodes = [m \in DOMAIN @ \ {n} |-> @[m]]]

Erase(k) ==
  LET at == SearchNode(Tree, k)
  IN IF at.current = nullptr THEN Becomes(Tree, num_elements, Nothing)
     ELSE Becomes(Destroyed(DeleteNode(Tree, k, at.parent), k), num_elements - 1, 1)

Find(k) ==
  Becomes(Tree, num_elements, IF count(k) = 1 THEN nodes[k].value ELSE Nothing)

\* erase(begin()), by which ~set empties itself; an iterator knows its parent.
EraseFirst ==
  LET stack == begin(Tree)
      parent == IF Len(stack) < 2 THEN nullptr ELSE stack[Len(stack) - 1]
  IN /\ num_elements > 0
     /\ Becomes(Destroyed(DeleteNode(Tree, Last(stack), parent), Last(stack)),
                num_elements - 1, Nothing)

\* map(const map&): every element that the loop visits is assigned to a new
\* tree, which becomes the current one.  Copied are the descriptor tables of
\* processes, whose keys have come in ascending order.
Copy ==
  LET Add(t, k) == InsertNode(Allocate(t, k, nodes[k].value), k)
      new == FoldLeft(Add, [root |-> nullptr, nodes |-> [n \in {} |-> nullptr]], Listing(Tree))
  IN /\ \A n \in DOMAIN nodes : Left(Tree, n) = nullptr
     /\ Becomes(new, Cardinality(DOMAIN new.nodes), answer)

Next ==
  \/ \E k \in Keys : Erase(k) \/ Find(k) \/ \E v \in Values : Insert(k, v) \/ Assign(k, v)
  \/ EraseFirst
  \/ Copy

Spec == Init /\ [][Next]_tvars

-----------------------------------------------------------------------------
\* The keys that a search finds, all of them counted.
Found == {k \in Keys : count(k) = 1}

\* Whatever shape the insertions and deletions have given to the tree, it
\* answers like a dictionary, and counts what it has.
Abstract == INSTANCE Dictionary WITH dict <- [k \in Found |-> nodes[k].value]
SizeExact == num_elements = Cardinality(Found)

\* A loop over a map or a set visits every element once, in ascending order.
IterationComplete == Listing(Tree) = SetToSortSeq(Found, <)
=============================================================================
