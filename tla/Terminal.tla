------------------------------ MODULE Terminal ------------------------------
(***************************************************************************)
(* The way of a byte that a process writes to the screen: the ring of      *)
(* console.cc, which any number of processes fill and the printing thread  *)
(* empties, the characters in GraphicManager's buffer, and the thread that *)
(* copies what has changed to video memory (graphic.cc).                   *)
(*                                                                         *)
(* A character is one cell of the buffer and a line one row, so that       *)
(* cur_row_ counts lines.  Every statement that another core can see the   *)
(* effect of is a step.                                                    *)
(***************************************************************************)
EXTENDS Integers, Sequences, SequencesExt

CONSTANTS
  Writers,                    \* processes that write to the terminal
  Messages,                   \* what they write: sequences of bytes
  kTerminalOutputBufferSize,
  MaxBytes,                   \* how many bytes are written at most
  height_, width_             \* in characters

ASSUME TerminalAssumption ==
  /\ Messages \subseteq Seq(STRING)
  /\ kTerminalOutputBufferSize \in Nat \ {0}
  /\ MaxBytes \in Nat
  /\ height_ \in Nat \ {0, 1}
  /\ width_ \in Nat \ {0}

Newline == "\n"
Blank == " "
Nothing == "stale"    \* what a slot of the ring holds before its first byte

VARIABLES
  term_output_buffer_, term_output_write_index_, term_output_read_index_,
  data,       \* of a writer: what it has still to put into the ring
  slot,       \* of a writer: the slot it has reserved, or -1
  printer,    \* the printing thread: where it is, how many bytes it goes for, what it took
  buffer_, cur_row_, cur_col_, is_synced_, video_mem_,
  sync,       \* the row that the copying thread copies next, 0 if none
  reserved,   \* history: the bytes in the order of their slots
  printed     \* history: the bytes in the order they were printed

ring == <<term_output_buffer_, term_output_write_index_, data, slot, reserved>>
screen == <<buffer_, cur_row_, cur_col_>>
terminal == <<ring, term_output_read_index_, printer, screen, is_synced_, video_mem_, sync, printed>>

BlankRow == [col \in 1 .. width_ |-> Blank]

TerminalInit ==
  /\ term_output_buffer_ = [i \in 0 .. kTerminalOutputBufferSize - 1 |-> Nothing]
  /\ term_output_write_index_ = 0
  /\ term_output_read_index_ = 0
  /\ data = [w \in Writers |-> <<>>]
  /\ slot = [w \in Writers |-> -1]
  /\ printer = [pc |-> "idle", num_to_read |-> 0, to_print |-> <<>>]
  /\ buffer_ = [row \in 1 .. height_ |-> BlankRow]
  /\ cur_row_ = 0
  /\ cur_col_ = 0
  /\ is_synced_ = TRUE
  /\ video_mem_ = buffer_
  /\ sync = 0
  /\ reserved = <<>>
  /\ printed = <<>>
-----------------------------------------------------------------------------
(* PrintToTerminal, in processes on any core *)

PrintToTerminal(w, message) ==
  /\ data[w] = <<>> /\ slot[w] = -1
  /\ data' = [data EXCEPT ![w] = message]
  /\ UNCHANGED <<term_output_buffer_, term_output_write_index_, slot, reserved,
                 term_output_read_index_, printer, screen, is_synced_, video_mem_, sync, printed>>

\* The atomic fetch and add.
FetchAdd(w) ==
  /\ data[w] # <<>> /\ slot[w] = -1
  /\ term_output_write_index_ < MaxBytes
  /\ term_output_write_index_' = term_output_write_index_ + 1
  /\ slot' = [slot EXCEPT ![w] = term_output_write_index_ % kTerminalOutputBufferSize]
  /\ reserved' = Append(reserved, Head(data[w]))
  /\ UNCHANGED <<term_output_buffer_, data, term_output_read_index_, printer, screen,
                 is_synced_, video_mem_, sync, printed>>

StoreByte(w) ==
  /\ slot[w] # -1
  /\ term_output_buffer_' = [term_output_buffer_ EXCEPT ![slot[w]] = Head(data[w])]
  /\ slot' = [slot EXCEPT ![w] = -1]
  /\ data' = [data EXCEPT ![w] = Tail(@)]
  /\ UNCHANGED <<term_output_write_index_, reserved, term_output_read_index_, printer, screen,
                 is_synced_, video_mem_, sync, printed>>
-----------------------------------------------------------------------------
(* The cursor *)

\* The rows move up by one, the last one becomes empty.
Scroll(b) == [row \in 1 .. height_ |-> IF row < height_ THEN b[row + 1] ELSE BlankRow]

\* The cursor goes to this place, after the screen has scrolled if need be.
CursorTo(row, col) ==
  /\ cur_col_' = col
  /\ cur_row_' = IF row + 1 >= height_ THEN row - 1 ELSE row
  /\ buffer_' = IF row + 1 >= height_ THEN Scroll(buffer_) ELSE buffer_
-----------------------------------------------------------------------------
(* PrintTermOutputBuffer, in its thread *)

\* Both indices, and with them the number of bytes to print.  In the second
\* case the difference of the indices is the wrong way round.
NumToRead(write_index, read_index) ==
  IF write_index > read_index THEN write_index - read_index
  ELSE read_index - write_index + kTerminalOutputBufferSize

CountBytes ==
  LET write_index == term_output_write_index_ % kTerminalOutputBufferSize
  IN  /\ printer.pc = "idle"
      /\ write_index # term_output_read_index_
      /\ printer' = [pc |-> "copy", to_print |-> <<>>,
                     num_to_read |-> NumToRead(write_index, term_output_read_index_)]
      /\ UNCHANGED <<ring, term_output_read_index_, screen, is_synced_, video_mem_, sync, printed>>

\* Fault: the read index goes to where the writers are now.
TakeBytesToWriteIndex ==
  LET byte(i) == term_output_buffer_[(term_output_read_index_ + i - 1) % kTerminalOutputBufferSize]
  IN  /\ printer.pc = "copy"
      /\ printer' = [pc |-> "print", num_to_read |-> 0,
                     to_print |-> [i \in 1 .. printer.num_to_read |-> byte(i)]]
      /\ term_output_read_index_' = term_output_write_index_ % kTerminalOutputBufferSize
      /\ UNCHANGED <<ring, screen, is_synced_, video_mem_, sync, printed>>

TakeBytes ==
  LET n == printer.num_to_read
      next == term_output_read_index_ + n
      byte(i) == term_output_buffer_[(term_output_read_index_ + i - 1) % kTerminalOutputBufferSize]
  IN  /\ printer.pc = "copy"
      /\ printer' = [pc |-> "print", num_to_read |-> 0, to_print |-> [i \in 1 .. n |-> byte(i)]]
      /\ term_output_read_index_' =
           IF next >= kTerminalOutputBufferSize THEN next - kTerminalOutputBufferSize ELSE next
      /\ UNCHANGED <<ring, screen, is_synced_, video_mem_, sync, printed>>

\* The first half of PutChar: a newline moves the cursor, anything else is drawn.
PutChar ==
  LET c == Head(printer.to_print)
  IN  /\ printer.pc = "print" /\ printer.to_print # <<>>
      /\ printed' = Append(printed, c)
      /\ IF c = Newline THEN CursorTo(cur_row_ + 1, 0)
         ELSE /\ buffer_' = [buffer_ EXCEPT ![cur_row_ + 1][cur_col_ + 1] = c]
              /\ UNCHANGED <<cur_row_, cur_col_>>
      /\ printer' = [printer EXCEPT !.pc = "flag", !.to_print = Tail(@)]
      /\ UNCHANGED <<ring, term_output_read_index_, is_synced_, video_mem_, sync>>

MarkNotSynced ==
  /\ printer.pc = "flag"
  /\ is_synced_' = FALSE
  /\ printer' = [printer EXCEPT !.pc = IF Last(printed) = Newline THEN "print" ELSE "move"]
  /\ UNCHANGED <<ring, term_output_read_index_, screen, video_mem_, sync, printed>>

\* MoveCursor: it may scroll, and comes after the mark.
MoveCursor ==
  /\ printer.pc = "move"
  /\ IF cur_col_ + 1 >= width_ THEN CursorTo(cur_row_ + 1, 0) ELSE CursorTo(cur_row_, cur_col_ + 1)
  /\ printer' = [printer EXCEPT !.pc = "print"]
  /\ UNCHANGED <<ring, term_output_read_index_, is_synced_, video_mem_, sync, printed>>

PrintUnlock ==
  /\ printer.pc = "print" /\ printer.to_print = <<>>
  /\ printer' = [printer EXCEPT !.pc = "idle"]
  /\ UNCHANGED <<ring, term_output_read_index_, screen, is_synced_, video_mem_, sync, printed>>
-----------------------------------------------------------------------------
(* SyncScreen, in its thread *)

SyncScreen ==
  /\ sync = 0 /\ ~is_synced_
  /\ is_synced_' = TRUE
  /\ sync' = 1
  /\ UNCHANGED <<ring, term_output_read_index_, printer, screen, video_mem_, printed>>

\* Fault: the screen is marked as synced once it is copied.
SyncRowMarks ==
  /\ sync # 0
  /\ video_mem_' = [video_mem_ EXCEPT ![sync] = buffer_[sync]]
  /\ sync' = (sync + 1) % (height_ + 1)
  /\ is_synced_' = (is_synced_ \/ sync' = 0)
  /\ UNCHANGED <<ring, term_output_read_index_, printer, screen, printed>>

SyncRow ==
  /\ sync # 0
  /\ video_mem_' = [video_mem_ EXCEPT ![sync] = buffer_[sync]]
  /\ sync' = (sync + 1) % (height_ + 1)
  /\ UNCHANGED <<ring, term_output_read_index_, printer, screen, is_synced_, printed>>
-----------------------------------------------------------------------------
PrinterStep == CountBytes \/ TakeBytes \/ PutChar \/ MarkNotSynced \/ MoveCursor \/ PrintUnlock
SyncStep == SyncScreen \/ SyncRow
WriterStep(w) == FetchAdd(w) \/ StoreByte(w)

TerminalNext ==
  \/ \E w \in Writers, message \in Messages : PrintToTerminal(w, message)
  \/ \E w \in Writers : WriterStep(w)
  \/ PrinterStep
  \/ SyncStep

-----------------------------------------------------------------------------
(* Properties *)

\* Every slot that was reserved is printed once and in the order of the slots,
\* with its byte or, when the writer was still on its way to store it, with what
\* the slot held before.
PrintsReserved ==
  /\ Len(printed) <= Len(reserved)
  /\ \A i \in 1 .. Len(printed) : printed[i] \in {reserved[i], Nothing}

\* The last character has filled its line and moved the cursor to the start of the
\* line at the bottom, for which the screen may have scrolled.
WrappedAtBottom ==
  printed # <<>> /\ Last(printed) # Newline /\ cur_col_ = 0 /\ cur_row_ + 2 = height_

\* When nobody is drawing or copying and the screen counts as synced, video memory
\* is what was drawn: no character that was drawn while the copy was on its way is
\* left out for good.  But a scroll comes after the mark when it is a full line that
\* makes it, and then the screen can stay as it was until the next character.
ScreenShows ==
  is_synced_ /\ sync = 0 /\ printer.pc \in {"idle", "copy", "print"} /\ ~WrappedAtBottom
    => video_mem_ = buffer_
=============================================================================
