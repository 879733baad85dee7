---------------------------- MODULE MCLibraries ----------------------------
(***************************************************************************)
(* What the rest is built on, for TLC: the pipe and the containers of the  *)
(* kernel, the layout of its disk, and the streams, strings and numbers of *)
(* the C library.  They share no variable, so a behaviour is about the one *)
(* that its first state names.                                             *)
(***************************************************************************)
EXTENDS Pipe, Stdio, Containers

CONSTANTS Keys, HashedKeys, Values, kInitNumSlots, kInverseLoadFactor,
          InodesPerGroup, BlockGroups, Modes, Sizes, MaxWritten,
          MemSize, PRINTF_NTOA_BUFFER_SIZE, Widths, Precisions

VARIABLES root, nodes, num_elements, slots, counted, answer,
          disk, super_block_, block_descs_, written,
          mem, printed, text, part

Identity(k) == k
Tree == INSTANCE TreeMap
Table == INSTANCE HashTable WITH Keys <- HashedKeys, Hash <- Identity

TableOfGroup == [g \in 0 .. BlockGroups - 1 |-> 5 + 4 * g]
Layout == INSTANCE Ext2Layout WITH InodeTables <- TableOfGroup

\* The file to read has an empty line at its end and one of every length up to two.
Lines == <<1, 0, 2, 3, 0>>

\* A capital, its small letter and a character beyond ASCII.
Small == [c \in {65} |-> 97]
Strings == INSTANCE CString WITH Chars <- {0, 65, 97, -23}, Upper <- {65}, Lower <- Small

\* The smallest and the largest of some lengths, zero, and numbers that do not fit.
WordBits == [hh |-> 4, h |-> 6, int |-> 8, l |-> 10]
Numbers == [hh |-> {-8, 20}, h |-> {-32}, int |-> {-128, 0, 18, 127}, l |-> {-512, 300}]
Numeral == INSTANCE Numerals WITH Bits <- WordBits, Args <- Numbers

tree == <<root, nodes, num_elements>>
table == <<slots, counted>>
containers == <<tree, table, answer, list, vector>>
layout == <<disk, super_block_, block_descs_, written>>
numeral == <<printed, text>>
mcvars == <<vars, containers, layout, stdio, mem, numeral, part>>

MCInit ==
  /\ part \in {"pipe", "tree", "table", "list", "vector", "layout", "stream", "strings", "numeral"}
  /\ Init /\ Tree!Init /\ Table!Init /\ List!Init /\ Vector!Init
  /\ Layout!Init /\ StdioInit /\ Strings!Init /\ Numeral!Init

OfContainers ==
  \/ part = "tree" /\ Tree!Next /\ UNCHANGED <<table, list, vector>>
  \/ part = "table" /\ Table!Next /\ UNCHANGED <<tree, list, vector>>
  \/ part = "list" /\ List!Next /\ UNCHANGED <<tree, table, answer, vector>>
  \/ part = "vector" /\ Vector!Next /\ UNCHANGED <<tree, table, answer, list>>

MCNext ==
  /\ \/ part = "pipe" /\ Next /\ UNCHANGED <<containers, layout, stdio, mem, numeral>>
     \/ OfContainers /\ UNCHANGED <<vars, layout, stdio, mem, numeral>>
     \/ part = "layout" /\ Layout!Next /\ UNCHANGED <<vars, containers, stdio, mem, numeral>>
     \/ part = "stream" /\ StdioNext /\ UNCHANGED <<vars, containers, layout, mem, numeral>>
     \/ part = "strings" /\ Strings!Next /\ UNCHANGED <<vars, containers, layout, stdio, numeral>>
     \/ part = "numeral" /\ Numeral!Next /\ UNCHANGED <<vars, containers, layout, stdio, mem>>
  /\ UNCHANGED part

\* The pipe's fairness; nobody has to call a container or the library.
PipeFairness ==
  \A p \in Procs :
    /\ WF_vars(part = "pipe" /\ Step(p))
    /\ SF_vars(part = "pipe" /\ WriteLock(p)) /\ SF_vars(part = "pipe" /\ ReadLock(p))

MCSpec == MCInit /\ [][MCNext]_mcvars /\ PipeFairness

-----------------------------------------------------------------------------
\* The trees and the hash tables behind map, set, HashMap and HashSet implement
\* a dictionary, whatever order their keys come and go in.
ImplementsDictionary ==
  /\ part = "tree" => Tree!Abstract!Init
  /\ part = "table" => Table!Abstract!Init
  /\ [][part = "tree" => Tree!Abstract!Next]_<<tree, answer>>
  /\ [][part = "table" => Table!Abstract!Next]_<<table, answer>>
  /\ [](part = "tree" => Tree!SizeExact)
  /\ [](part = "table" => Table!OneSlotPerKey /\ Table!SearchEnds)

\* A loop over a map meets every key.
IterationComplete == part = "tree" => Tree!IterationComplete

\* Inodes lie where mkfs and the next mount look for them, and keep what was written.
InodesKept == part = "layout" => Layout!InodesKept

\* Copying, comparing and searching in memory do what their names say.
StringsAsPromised == part = "strings" => Strings!StringsAsPromised

\* sscanf reads what sprintf has written.
ReadsBack == part = "numeral" => Numeral!ReadsBack
=============================================================================
