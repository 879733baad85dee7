----------------------------- MODULE FileStore ------------------------------
(***************************************************************************)
(* What a file system promises: files and directories by path, the words   *)
(* written are the words read, and when the power goes off only what was   *)
(* being changed is damaged; of that nothing is promised any more.         *)
(***************************************************************************)
EXTENDS Integers, Sequences, FiniteSets, SequencesExt, FiniteSetsExt, Functions

CONSTANTS
  Paths,
  Data,      \* what is written
  MaxSize    \* bound on the size of a file

VARIABLES
  files,    \* path |-> whether it is a directory, and its words
  damaged   \* paths of which nothing is promised

vars == <<files, damaged>>

Empty(is_directory) == [dir |-> is_directory, words |-> <<>>]

\* The words written over the old ones from an offset on; a gap reads as 0.
Overwrite(old, words, offset) ==
  LET end == offset + Len(words)
  IN  [i \in 1 .. Max({Len(old), end}) |->
         IF i \in offset + 1 .. end THEN words[i - offset]
         ELSE IF i <= Len(old) THEN old[i] ELSE 0]

Init ==
  /\ DOMAIN files \subseteq Paths
  /\ damaged = {}

OthersKept(S) == Restrict(files', DOMAIN files' \ S) = Restrict(files, DOMAIN files \ S)

Create(p, is_directory) ==
  /\ p \notin DOMAIN files
  /\ Len(p) > 1 => Front(p) \in DOMAIN files /\ files[Front(p)].dir
  /\ OthersKept({p})
  /\ p \in DOMAIN files' /\ files'[p] = Empty(is_directory)
  /\ UNCHANGED damaged

\* Some words are written to a file, or it is truncated.
Change(p) ==
  /\ p \in DOMAIN files /\ p \in DOMAIN files'
  /\ OthersKept({p})
  /\ ~files[p].dir /\ ~files'[p].dir
  /\ \E old \in {files[p].words}, new \in {files'[p].words} :
       \/ new = <<>>
       \/ \E words \in Data, offset \in 0 .. MaxSize : new = Overwrite(old, words, offset)
  /\ UNCHANGED damaged

\* The power goes off while p, or a new file in a directory, is changed.
Crash(p) ==
  /\ damaged' \in {damaged \cup {p}, damaged \cup {p, Front(p)}}
  /\ OthersKept(damaged')

Next == \E p \in Paths : Change(p) \/ Crash(p) \/ \E d \in BOOLEAN : Create(p, d)

Spec == Init /\ [][Next]_vars
=============================================================================
