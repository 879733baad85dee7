------------------------------ MODULE Console ------------------------------
(***************************************************************************)
(* From the keyboard to the shell and to the foreground process: the       *)
(* keyboard interrupt (keyboard.cc), the ring of key strokes between it    *)
(* and the console thread, the input line, cd, and the pipe to the         *)
(* foreground process (console.cc).                                        *)
(*                                                                         *)
(* The interrupt and the console thread may be on different cores; each    *)
(* index of the ring is written by one of them only.  What a line means    *)
(* (its words, and what the file system knows of them) is a parameter, and *)
(* so is what a key is: a character, or one of the keys below.             *)
(***************************************************************************)
EXTENDS Integers, Sequences, SequencesExt

CONSTANTS
  Keys,                  \* the keys that are pressed
  Meaning(_),            \* of a line: "none", "run", or the path of a cd
  CharWhenShiftPressed(_),
  Dirs,                  \* the directories there are, as sequences of names
  kKeyStrokeBufferSize,
  MaxStrokes             \* how many key strokes are recorded at most

ASSUME ConsoleAssumption ==
  /\ kKeyStrokeBufferSize \in Nat \ {0}
  /\ MaxStrokes \in Nat

ENTER == "ENTER"
BACKSPACE == "BACKSPACE"
LSHIFT == "LSHIFT"
SpecialKeys == {ENTER, BACKSPACE, LSHIFT}

NoStroke == [c |-> "none", action |-> "KEY_DOWN", shift |-> FALSE]

VARIABLES
  key_press_list_,       \* of a key: up, down for less than 40 ticks, down for longer
  received_keyinfo_queue, current_write_index_, current_read_index_,
  thread,                \* the console thread: where it is, how many strokes it has, which is next
  input_buffer_,
  fg_process_,           \* whether there is a foreground process
  line_buffer,           \* buffering_mode_ = LINE_BUFFER
  keystroke_mode_,
  console_pipe_,         \* what is in the pipe to the foreground process
  working_dir_,
  strokes,               \* history: the strokes that were recorded
  handled,               \* history: the strokes that were handled
  here                   \* history: where the cds lead, as a sequence of names

keys == <<key_press_list_, received_keyinfo_queue, current_write_index_, strokes>>
modes == <<fg_process_, line_buffer, keystroke_mode_>>
dirs == <<working_dir_, here>>
console == <<keys, current_read_index_, thread, input_buffer_, modes, console_pipe_, dirs, handled>>

ConsoleInit ==
  /\ key_press_list_ = [k \in Keys |-> "up"]
  /\ received_keyinfo_queue = [i \in 0 .. kKeyStrokeBufferSize - 1 |-> NoStroke]
  /\ current_write_index_ = 0
  /\ current_read_index_ = 0
  /\ thread = [pc |-> "read", num |-> 0, i |-> 0]
  /\ input_buffer_ = <<>>
  /\ fg_process_ = FALSE
  /\ line_buffer = TRUE
  /\ keystroke_mode_ = {"ASCII_ONLY"}
  /\ console_pipe_ = <<>>
  /\ working_dir_ = <<"/">>
  /\ strokes = <<>>
  /\ handled = <<>>
  /\ here = <<>>
-----------------------------------------------------------------------------
(* Paths, as sequences of names and slashes *)

GetAbsolutePath(path, current_dir) ==
  IF path = <<>> THEN current_dir
  ELSE IF path[1] = "/" THEN path
  ELSE (IF Last(current_dir) = "/" THEN current_dir ELSE Append(current_dir, "/")) \o path

\* One name of a path, which is empty between two slashes.
Descend(paths, dir) ==
  IF dir = <<"..">> THEN (IF paths = <<>> THEN paths ELSE Front(paths))
  ELSE IF dir \in {<<".">>, <<>>} THEN paths
  ELSE Append(paths, dir)

GetCanonicalAbsolutePath(path) ==
  LET split == FoldLeft(LAMBDA s, token :
                          IF token = "/" THEN [paths |-> Descend(s.paths, s.dir), dir |-> <<>>]
                          ELSE [s EXCEPT !.dir = Append(@, token)],
                        [paths |-> <<>>, dir |-> <<>>], path)
      paths == Descend(split.paths, split.dir)
  IN  IF paths = <<>> THEN <<"/">> ELSE FlattenSeq([i \in DOMAIN paths |-> <<"/">> \o paths[i]])

\* The path of a directory.
PathOf(dir) == IF dir = <<>> THEN <<"/">> ELSE FlattenSeq([i \in DOMAIN dir |-> <<"/", dir[i]>>])
-----------------------------------------------------------------------------
(* MainKeyboardHandler, in the keyboard interrupt of core 0 *)

\* AddKeyStroke: the write index wraps at its next use.
AddKeyStroke(key) ==
  LET at == IF current_write_index_ = kKeyStrokeBufferSize THEN 0 ELSE current_write_index_
  IN  IF key.action = "KEY_UP" /\ "RECORD_UP" \notin keystroke_mode_
      THEN /\ current_write_index_' = at
           /\ UNCHANGED <<received_keyinfo_queue, strokes>>
      ELSE /\ received_keyinfo_queue' = [received_keyinfo_queue EXCEPT ![at] = key]
           /\ current_write_index_' = at + 1
           /\ strokes' = Append(strokes, key)

\* A key that is held repeats, which counts only when it was held for a while.
KeyDown(k) ==
  /\ Len(strokes) < MaxStrokes
  /\ key_press_list_[k] # "recent"
  /\ key_press_list_' = [key_press_list_ EXCEPT ![k] = IF @ = "up" THEN "recent" ELSE @]
  /\ AddKeyStroke([c |-> k, action |-> "KEY_DOWN",
                   shift |-> LSHIFT \in Keys /\ key_press_list_'[LSHIFT] # "up"])
  /\ UNCHANGED <<current_read_index_, thread, input_buffer_, modes, console_pipe_, dirs, handled>>

KeyUp(k) ==
  /\ Len(strokes) < MaxStrokes
  /\ key_press_list_[k] # "up"
  /\ key_press_list_' = [key_press_list_ EXCEPT ![k] = "up"]
  /\ AddKeyStroke([c |-> k, action |-> "KEY_UP",
                   shift |-> LSHIFT \in Keys /\ key_press_list_'[LSHIFT] # "up"])
  /\ UNCHANGED <<current_read_index_, thread, input_buffer_, modes, console_pipe_, dirs, handled>>

\* 40 ticks after a key was pressed.
KeyHeld(k) ==
  /\ key_press_list_[k] = "recent"
  /\ key_press_list_' = [key_press_list_ EXCEPT ![k] = "long"]
  /\ UNCHANGED <<received_keyinfo_queue, current_write_index_, strokes, current_read_index_, thread,
                 input_buffer_, modes, console_pipe_, dirs, handled>>
-----------------------------------------------------------------------------
(* The console thread *)

\* ReadKeyStroke counts the strokes, while more may come in.
ReadKeyStroke ==
  LET num == current_write_index_ - current_read_index_
  IN  /\ thread.pc = "read"
      /\ num # 0
      /\ thread' = [pc |-> "copy", i |-> 0, num |-> IF num < 0 THEN num + kKeyStrokeBufferSize ELSE num]
      /\ UNCHANGED <<keys, current_read_index_, input_buffer_, modes, console_pipe_, dirs, handled>>

\* The strokes are copied to the front of the ring they are in, one after the other.
StrokesCopied(num) ==
  FoldLeftDomain(LAMBDA queue, i :
                   [queue EXCEPT ![i - 1] = queue[(i - 1 + current_read_index_) % kKeyStrokeBufferSize]],
                 received_keyinfo_queue, [i \in 1 .. num |-> i])

\* Fault: the read index catches up with the write index.
NextReadIndexAll(num) == current_write_index_ % kKeyStrokeBufferSize

\* The read index moves by what was counted, and not to the write index.
NextReadIndex(num) ==
  IF current_read_index_ + num >= kKeyStrokeBufferSize
  THEN current_read_index_ + num - kKeyStrokeBufferSize
  ELSE current_read_index_ + num

CopyStrokes ==
  /\ thread.pc = "copy"
  /\ received_keyinfo_queue' = StrokesCopied(thread.num)
  /\ current_read_index_' = NextReadIndex(thread.num)
  /\ thread' = [thread EXCEPT !.pc = "fill"]
  /\ UNCHANGED <<key_press_list_, current_write_index_, strokes, input_buffer_, modes, console_pipe_,
                 dirs, handled>>

\* cd: only to a directory.
DoCd(path) ==
  LET new_working_dir == GetCanonicalAbsolutePath(GetAbsolutePath(path, working_dir_))
      target == FoldLeft(LAMBDA at, token : IF token \in {"/", "."} THEN at
                                            ELSE IF token = ".." THEN (IF at = <<>> THEN at ELSE Front(at))
                                            ELSE Append(at, token),
                         IF path # <<>> /\ path[1] = "/" THEN <<>> ELSE here, path)
  IN  /\ working_dir_' = IF \E dir \in Dirs : new_working_dir = PathOf(dir)
                         THEN new_working_dir ELSE working_dir_
      /\ here' = IF target \in Dirs THEN target ELSE here

\* DoParse: a line is a command of the shell, or a program that becomes the
\* foreground process, with the modes of the console as they are by default.
DoParse ==
  LET command == Meaning(input_buffer_)
  IN  /\ input_buffer_' = <<>>
      /\ IF command = "run"
         THEN /\ fg_process_' = TRUE
              /\ line_buffer' = TRUE
              /\ keystroke_mode_' = {"ASCII_ONLY"}
              /\ UNCHANGED dirs
         ELSE /\ UNCHANGED modes
              /\ IF command = "none" THEN UNCHANGED dirs ELSE DoCd(command)

\* A prefix for the direction of the key, when that is asked for.
Prefix(key) == IF "RECORD_UP" \in keystroke_mode_ THEN <<key.action>> ELSE <<>>

\* What a key puts into the line: a character, or its code if everything counts.
Characters(key) ==
  IF key.c \notin SpecialKeys THEN <<IF key.shift THEN CharWhenShiftPressed(key.c) ELSE key.c>>
  ELSE IF "EVERYTHING" \in keystroke_mode_ THEN <<key.c>> ELSE <<>>

\* The thread goes on to the next stroke of those it has read.
NextStroke == thread' = IF thread.i + 1 = thread.num THEN [pc |-> "read", num |-> 0, i |-> 0]
                        ELSE [thread EXCEPT !.pc = "fill", !.i = @ + 1]

\* One round of FillInputBufferAndParse.
FillInputBufferAndParse ==
  LET key == received_keyinfo_queue[thread.i]
  IN  /\ thread.pc = "fill"
      /\ handled' = Append(handled, key)
      /\ \/ /\ key.c = ENTER /\ ~fg_process_
            /\ DoParse
            /\ NextStroke
         \/ /\ key.c = ENTER /\ fg_process_
            /\ input_buffer_' = input_buffer_ \o Prefix(key) \o <<ENTER>>
            /\ thread' = [thread EXCEPT !.pc = "send"]
            /\ UNCHANGED <<modes, dirs>>
         \/ /\ key.c = BACKSPACE
            /\ input_buffer_' = IF input_buffer_ = <<>> THEN <<>> ELSE Front(input_buffer_)
            /\ NextStroke
            /\ UNCHANGED <<modes, dirs>>
         \/ /\ key.c \notin {ENTER, BACKSPACE}
            /\ input_buffer_' = input_buffer_ \o Prefix(key) \o Characters(key)
            /\ IF fg_process_ /\ ~line_buffer THEN thread' = [thread EXCEPT !.pc = "send"] ELSE NextStroke
            /\ UNCHANGED <<modes, dirs>>
      /\ UNCHANGED <<keys, current_read_index_, console_pipe_>>

\* The pipe takes the line when it is empty; until then the thread waits.
SendInputBufferToFgProcess ==
  /\ thread.pc = "send" /\ console_pipe_ = <<>>
  /\ console_pipe_' = input_buffer_
  /\ input_buffer_' = <<>>
  /\ NextStroke
  /\ UNCHANGED <<keys, current_read_index_, modes, dirs, handled>>
-----------------------------------------------------------------------------
(* The foreground process *)

SysRead ==
  /\ fg_process_ /\ console_pipe_ # <<>>
  /\ console_pipe_' = <<>>
  /\ UNCHANGED <<keys, current_read_index_, thread, input_buffer_, modes, dirs, handled>>

\* SysConsole: modes are added, none is taken away.
SysConsole(no_buffer, mode) ==
  /\ fg_process_
  /\ line_buffer' = ~no_buffer
  /\ keystroke_mode_' = keystroke_mode_ \cup mode
  /\ UNCHANGED <<keys, current_read_index_, thread, input_buffer_, fg_process_, console_pipe_, dirs, handled>>

\* The process has ended and was waited for.
FgProcessEnds ==
  /\ fg_process_
  /\ fg_process_' = FALSE
  /\ UNCHANGED <<keys, current_read_index_, thread, input_buffer_, line_buffer, keystroke_mode_,
                 console_pipe_, dirs, handled>>
-----------------------------------------------------------------------------
ThreadStep == ReadKeyStroke \/ CopyStrokes \/ FillInputBufferAndParse \/ SendInputBufferToFgProcess

ConsoleNext ==
  \/ \E k \in Keys : KeyDown(k) \/ KeyUp(k) \/ KeyHeld(k)
  \/ ThreadStep
  \/ SysRead
  \/ \E b \in BOOLEAN, mode \in {{}, {"EVERYTHING"}, {"RECORD_UP"}} : SysConsole(b, mode)
  \/ FgProcessEnds

-----------------------------------------------------------------------------
(* Properties *)

\* The strokes are handled in the order they came in, none twice and none left
\* out, although the interrupt adds more at any time.
StrokesInOrder == IsPrefix(handled, strokes)

\* The working directory is, in canonical form, where the cds lead one after the
\* other, whatever dots and slashes they had, and a cd to what is not there is
\* without effect.
WorkingDirIsWalk == working_dir_ = PathOf(here) /\ here \in Dirs

\* What is typed is done, all of it and in order (FillInputBufferAndParse).
TypedIsDone == StrokesInOrder /\ WorkingDirIsWalk
=============================================================================
