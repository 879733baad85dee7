----------------------------- MODULE MCConsole -----------------------------
(***************************************************************************)
(* Instances of the console and of the file system.  Input, output and     *)
(* files share no variable, so a behaviour is one of the part that its     *)
(* first state names, while the others stay as they are.                   *)
(***************************************************************************)
EXTENDS MCExt2, Console, Terminal

VARIABLE part

Shell(line) ==
  CASE line = <<"x">> -> "run"
    [] line = <<"y">> -> <<"d", "/", ".">>
    [] line = <<"Y">> -> <<"..", "/", "..", "/", "d">>
    [] line = <<>> -> "none"
    [] OTHER -> <<"/", "d", "/", "/", "e", "/">>

UpperCase(c) == IF c = "y" THEN "Y" ELSE "X"

DirNames == {<<>>, <<"d">>, <<"d", "d">>, <<"d", "e">>}

Bytes == {<<"a", Newline>>, <<"b">>, <<Newline>>}

MCInit ==
  /\ ConsoleInit
  /\ TerminalInit
  /\ Init
  /\ part \in {"input", "output", "files"}

MCNext ==
  \/ part = "input" /\ ConsoleNext /\ UNCHANGED <<part, terminal, vars>>
  \/ part = "output" /\ TerminalNext /\ UNCHANGED <<part, console, vars>>
  \/ part = "files" /\ Next /\ UNCHANGED <<part, console, terminal>>

MCSpec == MCInit /\ [][MCNext]_<<part, console, terminal, vars>>

-----------------------------------------------------------------------------
\* Ext2's Consistent, for the behaviours it is about.
FilesConsistent == part = "files" => Consistent

\* The file system implements FileStore: the words read are the words written,
\* in files that are found by their paths, and a power failure damages only
\* the file that was being changed.
ImplementsFileStore ==
  /\ part = "files" => Store!Init
  /\ [][part = "files" => Store!Next]_<<files, damaged>>
=============================================================================
