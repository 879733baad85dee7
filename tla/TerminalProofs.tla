--------------------------- MODULE TerminalProofs ---------------------------
(***************************************************************************)
(* Theorems about the way of a byte to the screen, for any number of       *)
(* writers, any messages and any size of the ring and of the screen: the   *)
(* printing thread prints what was reserved, once and in order, and video  *)
(* memory shows what was drawn.                                            *)
(***************************************************************************)
EXTENDS Terminal, TLAPS

Slots == 0 .. kTerminalOutputBufferSize - 1
Rows == 1 .. height_

Steps == {"idle", "copy", "print", "flag", "move"}
Printers == [pc : Steps, num_to_read : Nat, to_print : Seq(STRING)]

TermTypeOK ==
  /\ term_output_buffer_ \in [Slots -> STRING]
  /\ term_output_write_index_ \in Nat
  /\ term_output_read_index_ \in Nat
  /\ data \in [Writers -> Seq(STRING)]
  /\ slot \in [Writers -> Slots \cup {-1}]
  /\ \A w \in Writers : slot[w] # -1 => data[w] # <<>>
  /\ printer \in Printers
  /\ reserved \in Seq(STRING)
  /\ printed \in Seq(STRING)

-----------------------------------------------------------------------------
(* The ring, before its first round is over *)

\* A slot below the write index holds its byte, or nothing yet; one above nothing.
Filled ==
  /\ Len(reserved) = term_output_write_index_
  /\ term_output_write_index_ <= MaxBytes
  /\ \A i \in Slots :
       \/ term_output_buffer_[i] = Nothing
       \/ i < term_output_write_index_ /\ term_output_buffer_[i] = reserved[i + 1]

\* A writer with a slot is about to store the byte the slot was reserved for.
Storing ==
  \A w \in Writers : slot[w] # -1 =>
    /\ slot[w] < term_output_write_index_
    /\ Head(data[w]) = reserved[slot[w] + 1]

\* The printing thread takes from the ring what it has counted, prints all of it,
\* and only then counts again.
Taken ==
  /\ term_output_read_index_ <= term_output_write_index_
  /\ printer.pc = "copy" =>
       /\ printer.to_print = <<>>
       /\ term_output_read_index_ + printer.num_to_read <= term_output_write_index_
  /\ printer.pc = "idle" => printer.to_print = <<>>
  /\ Len(printed) + Len(printer.to_print) = term_output_read_index_
  /\ \A i \in 1 .. Len(printed) : printed[i] \in {reserved[i], Nothing}
  /\ \A i \in 1 .. Len(printer.to_print) :
       printer.to_print[i] \in {reserved[Len(printed) + i], Nothing}

RingInv == Filled /\ Storing /\ Taken

-----------------------------------------------------------------------------
(* The screen *)

Shape ==
  /\ buffer_ = [r \in Rows |-> buffer_[r]]
  /\ video_mem_ = [r \in Rows |-> video_mem_[r]]
  /\ sync \in 0 .. height_
  /\ is_synced_ \in BOOLEAN

\* The cursor stays above the last row, and between a mark and the move of the cursor
\* there is a character that is no newline.
Cursor ==
  /\ cur_row_ \in 0 .. height_ - 2
  /\ cur_col_ \in Nat
  /\ printer.pc \in {"flag", "move"} => printed # <<>>
  /\ printer.pc = "move" => Last(printed) # Newline

\* Unless the screen is marked, or is about to be marked, or was moved after the mark,
\* the rows copied so far are what was drawn.
Copied ==
  is_synced_ /\ printer.pc # "flag" /\ (printer.pc = "move" \/ ~WrappedAtBottom) =>
    \A r \in Rows : sync = 0 \/ r < sync => video_mem_[r] = buffer_[r]

ScreenInv == Shape /\ Cursor /\ Copied

-----------------------------------------------------------------------------
(* Sequences, and the state of the printing thread *)

\* What is left of a sequence when its head is taken.
LEMMA TailParts ==
  ASSUME NEW S, NEW q \in Seq(S), q # <<>>
  PROVE  /\ Head(q) \in S /\ Head(q) = q[1] /\ Tail(q) \in Seq(S)
         /\ Len(q) \in Nat /\ Len(q) > 0 /\ Len(Tail(q)) = Len(q) - 1
         /\ \A i \in 1 .. Len(q) - 1 : Tail(q)[i] = q[i + 1]
  OBVIOUS

\* What is in a sequence that has grown by one.
LEMMA AppendParts ==
  ASSUME NEW S, NEW q \in Seq(S), NEW x \in S
  PROVE  /\ Append(q, x) \in Seq(S) /\ Append(q, x) # <<>>
         /\ Len(q) \in Nat /\ Len(Append(q, x)) = Len(q) + 1
         /\ \A i \in 1 .. Len(q) : Append(q, x)[i] = q[i]
         /\ Append(q, x)[Len(q) + 1] = x
         /\ Last(Append(q, x)) = x
  <1>1. /\ Append(q, x) \in Seq(S) /\ Append(q, x) # <<>>
        /\ Len(q) \in Nat /\ Len(Append(q, x)) = Len(q) + 1
        /\ \A i \in 1 .. Len(q) : Append(q, x)[i] = q[i]
    OBVIOUS
  <1>2. Append(q, x)[Len(q) + 1] = x
    OBVIOUS
  <1>3. Last(Append(q, x)) = x
    BY <1>1, <1>2 DEF Last
  <1> QED
    BY <1>1, <1>2, <1>3

LEMMA FunctionIsSequence ==
  ASSUME NEW S, NEW n \in Nat, NEW f \in [1 .. n -> S]
  PROVE  f \in Seq(S) /\ Len(f) = n
  OBVIOUS

\* A printing thread of which parts are changed, part by part.
LEMMA PrinterParts ==
  ASSUME NEW p \in Printers, NEW s, NEW x
  PROVE  /\ [p EXCEPT !.pc = s]
              = [pc |-> s, num_to_read |-> p.num_to_read, to_print |-> p.to_print]
         /\ [p EXCEPT !.pc = s, !.to_print = x]
              = [pc |-> s, num_to_read |-> p.num_to_read, to_print |-> x]
  <1>1. PICK a \in Steps, b \in Nat, c \in Seq(STRING) :
          p = [pc |-> a, num_to_read |-> b, to_print |-> c]
    BY DEF Printers
  <1>2. p.num_to_read = b /\ p.to_print = c
    BY <1>1
  <1>3. [p EXCEPT !.pc = s] = [pc |-> s, num_to_read |-> b, to_print |-> c]
    BY <1>1
  <1>4. [p EXCEPT !.pc = s, !.to_print = x] = [[p EXCEPT !.pc = s] EXCEPT !.to_print = x]
    BY <1>1
  <1>5. [[pc |-> s, num_to_read |-> b, to_print |-> c] EXCEPT !.to_print = x]
          = [pc |-> s, num_to_read |-> b, to_print |-> x]
    OBVIOUS
  <1> QED
    BY <1>2, <1>3, <1>4, <1>5

\* What a step of the printing thread makes of where it is and of what it took.
LEMMA PrinterSteps ==
  ASSUME TermTypeOK
  PROVE  /\ CountBytes =>
              printer' = [pc |-> "copy", to_print |-> <<>>,
                          num_to_read |-> NumToRead(term_output_write_index_
                                                      % kTerminalOutputBufferSize,
                                                    term_output_read_index_)]
         /\ PutChar => printer' = [pc |-> "flag", num_to_read |-> printer.num_to_read,
                                   to_print |-> Tail(printer.to_print)]
         /\ MarkNotSynced =>
              printer' = [pc |-> IF Last(printed) = Newline THEN "print" ELSE "move",
                          num_to_read |-> printer.num_to_read, to_print |-> printer.to_print]
         /\ MoveCursor => printer' = [pc |-> "print", num_to_read |-> printer.num_to_read,
                                      to_print |-> printer.to_print]
         /\ PrintUnlock => printer' = [pc |-> "idle", num_to_read |-> printer.num_to_read,
                                       to_print |-> printer.to_print]
  BY PrinterParts DEF TermTypeOK, CountBytes, PutChar, MarkNotSynced, MoveCursor, PrintUnlock

LEMMA IndexInRing ==
  ASSUME NEW i \in Nat
  PROVE  /\ i % kTerminalOutputBufferSize \in Slots
         /\ i < kTerminalOutputBufferSize => i % kTerminalOutputBufferSize = i
  BY TerminalAssumption DEF Slots

-----------------------------------------------------------------------------
(* Type correctness *)

LEMMA InitType == TerminalInit => TermTypeOK
  BY TerminalAssumption DEF TerminalInit, TermTypeOK, Slots, Printers, Steps, Nothing

LEMMA WriterTypes ==
  ASSUME TermTypeOK, NEW w \in Writers,
         WriterStep(w) \/ \E message \in Messages : PrintToTerminal(w, message)
  PROVE  TermTypeOK'
  <1>1. UNCHANGED <<term_output_read_index_, printer, printed>>
    BY DEF WriterStep, FetchAdd, StoreByte, PrintToTerminal
  <1>2. ASSUME NEW message \in Messages, PrintToTerminal(w, message) PROVE TermTypeOK'
    BY <1>1, <1>2, TerminalAssumption DEF TermTypeOK, PrintToTerminal
  <1>3. CASE FetchAdd(w)
    <2>1. Head(data[w]) \in STRING
      BY <1>3, TailParts DEF FetchAdd, TermTypeOK
    <2>2. term_output_write_index_' \in Nat /\ reserved' \in Seq(STRING)
      BY <1>3, <2>1, AppendParts DEF FetchAdd, TermTypeOK
    <2>3. slot' \in [Writers -> Slots \cup {-1}]
      BY <1>3, IndexInRing DEF FetchAdd, TermTypeOK
    <2> QED
      BY <1>1, <1>3, <2>2, <2>3 DEF FetchAdd, TermTypeOK
  <1>4. CASE StoreByte(w)
    <2>1. Head(data[w]) \in STRING /\ Tail(data[w]) \in Seq(STRING)
      BY <1>4, TailParts DEF StoreByte, TermTypeOK
    <2> QED
      BY <1>1, <1>4, <2>1 DEF StoreByte, TermTypeOK
  <1> QED
    BY <1>2, <1>3, <1>4 DEF WriterStep

LEMMA PrinterTypes ==
  ASSUME TermTypeOK, PrinterStep
  PROVE  TermTypeOK'
  <1> USE DEF TermTypeOK
  <1>1. UNCHANGED <<term_output_buffer_, term_output_write_index_, data, slot, reserved>>
    BY DEF PrinterStep, CountBytes, TakeBytes, PutChar, MarkNotSynced, MoveCursor, PrintUnlock,
      ring
  <1>2. printer.num_to_read \in Nat /\ printer.to_print \in Seq(STRING)
    BY DEF Printers
  <1>3. CASE CountBytes
    <2>1. term_output_write_index_ % kTerminalOutputBufferSize \in Nat
      BY IndexInRing DEF Slots
    <2>2. NumToRead(term_output_write_index_ % kTerminalOutputBufferSize,
                    term_output_read_index_) \in Nat
      BY <2>1, TerminalAssumption, <1>3 DEF NumToRead, CountBytes
    <2> QED
      BY <1>1, <1>3, <2>2, PrinterSteps DEF CountBytes, Printers, Steps
  <1>4. CASE TakeBytes
    <2>1. \A i \in 1 .. printer.num_to_read :
            term_output_buffer_[(term_output_read_index_ + i - 1) % kTerminalOutputBufferSize]
              \in STRING
      BY <1>2, IndexInRing
    <2>2. term_output_read_index_' \in Nat
      BY <1>2, <1>4, TerminalAssumption DEF TakeBytes
    <2>3. [i \in 1 .. printer.num_to_read |->
             term_output_buffer_[(term_output_read_index_ + i - 1) % kTerminalOutputBufferSize]]
            \in Seq(STRING)
      BY <1>2, <2>1, FunctionIsSequence
    <2>4. printer' \in Printers
      BY <1>4, <2>3 DEF TakeBytes, Printers, Steps
    <2>5. UNCHANGED printed
      BY <1>4 DEF TakeBytes
    <2> QED
      BY <1>1, <2>2, <2>4, <2>5
  <1>5. CASE PutChar
    <2>1. printer.to_print # <<>> /\ printed' = Append(printed, Head(printer.to_print))
          /\ UNCHANGED term_output_read_index_
      BY <1>5 DEF PutChar
    <2>2. printed' \in Seq(STRING) /\ Tail(printer.to_print) \in Seq(STRING)
      BY <1>2, <2>1, TailParts, AppendParts
    <2>3. printer' \in Printers
      <3>1. printer' = [pc |-> "flag", num_to_read |-> printer.num_to_read,
                        to_print |-> Tail(printer.to_print)]
        BY <1>5, PrinterSteps
      <3> QED
        BY ONLY <1>2, <2>2, <3>1 DEF Printers, Steps
    <2> QED
      BY <1>1, <2>1, <2>2, <2>3
  <1>6. CASE MarkNotSynced \/ MoveCursor \/ PrintUnlock
    <2>1. UNCHANGED <<term_output_read_index_, printed>>
      BY <1>6 DEF MarkNotSynced, MoveCursor, PrintUnlock
    <2> QED
      BY <1>1, <1>2, <1>6, <2>1, PrinterSteps DEF Printers, Steps
  <1> QED
    BY <1>3, <1>4, <1>5, <1>6 DEF PrinterStep

LEMMA NextType == TermTypeOK /\ [TerminalNext]_terminal => TermTypeOK'
  <1>1. TermTypeOK /\ SyncStep => TermTypeOK'
    BY DEF SyncStep, SyncScreen, SyncRow, TermTypeOK, ring
  <1>2. TermTypeOK /\ UNCHANGED terminal => TermTypeOK'
    BY DEF terminal, TermTypeOK, ring
  <1> QED
    BY <1>1, <1>2, WriterTypes, PrinterTypes DEF TerminalNext

-----------------------------------------------------------------------------
(* The ring *)

LEMMA InitRing == TerminalInit => RingInv
  BY TerminalAssumption DEF TerminalInit, RingInv, Filled, Storing, Taken, Slots, Nothing

\* Who prints sees of a new slot only that there is one more.
LEMMA TakenStays ==
  ASSUME TermTypeOK, Filled, Taken, NEW x \in STRING,
         UNCHANGED <<term_output_read_index_, printer, printed>>,
         term_output_write_index_' \in Nat,
         term_output_write_index_' >= term_output_write_index_,
         reserved' = reserved \/ reserved' = Append(reserved, x)
  PROVE  Taken'
  <1>1. Len(printed) \in Nat /\ Len(printer.to_print) \in Nat /\ printer.num_to_read \in Nat
    BY DEF TermTypeOK, Printers
  <1>2. /\ \A i \in 1 .. Len(printed) : i \in 1 .. Len(reserved)
        /\ \A i \in 1 .. Len(printer.to_print) : Len(printed) + i \in 1 .. Len(reserved)
    BY <1>1 DEF TermTypeOK, Filled, Taken
  <1>3. \A i \in 1 .. Len(reserved) : reserved'[i] = reserved[i]
    <2>1. reserved \in Seq(STRING)
      BY DEF TermTypeOK
    <2>2. \A i \in 1 .. Len(reserved) : Append(reserved, x)[i] = reserved[i]
      BY <2>1, AppendParts
    <2> QED
      BY <2>2
  <1>4. /\ \A i \in 1 .. Len(printed) : printed'[i] \in {reserved'[i], Nothing}
        /\ \A i \in 1 .. Len(printer.to_print) :
             printer.to_print[i] \in {reserved'[Len(printed) + i], Nothing}
    BY <1>2, <1>3 DEF Taken
  <1>5. /\ term_output_read_index_ <= term_output_write_index_'
        /\ printer.pc = "copy" =>
             term_output_read_index_ + printer.num_to_read <= term_output_write_index_'
    BY <1>1 DEF TermTypeOK, Taken
  <1> QED
    BY <1>4, <1>5 DEF Taken

LEMMA WriterRing ==
  ASSUME MaxBytes < kTerminalOutputBufferSize, TermTypeOK, RingInv, NEW w \in Writers,
         WriterStep(w) \/ \E message \in Messages : PrintToTerminal(w, message)
  PROVE  RingInv'
  <1>0. UNCHANGED <<term_output_read_index_, printer, printed>>
    BY DEF WriterStep, FetchAdd, StoreByte, PrintToTerminal
  <1>1. ASSUME NEW message \in Messages, PrintToTerminal(w, message) PROVE RingInv'
    <2>1. Storing'
      BY <1>1 DEF PrintToTerminal, RingInv, Storing, TermTypeOK
    <2> QED
      BY <1>0, <1>1, <2>1 DEF PrintToTerminal, RingInv, Filled, Taken
  <1>2. CASE FetchAdd(w)
    <2> DEFINE n == term_output_write_index_
    <2>1. /\ data[w] # <<>> /\ slot[w] = -1 /\ n < MaxBytes /\ n \in Nat
          /\ term_output_write_index_' = n + 1
          /\ slot' = [slot EXCEPT ![w] = n]
          /\ UNCHANGED <<data, term_output_buffer_>>
      <3>1. n \in Nat /\ n < MaxBytes
        BY <1>2 DEF FetchAdd, TermTypeOK
      <3>2. n < kTerminalOutputBufferSize
        BY <3>1, TerminalAssumption
      <3>3. n % kTerminalOutputBufferSize = n
        BY <3>1, <3>2, IndexInRing
      <3> QED
        BY <1>2, <3>1, <3>3 DEF FetchAdd
    <2>2. Head(data[w]) \in STRING /\ reserved' = Append(reserved, Head(data[w]))
      BY <1>2, <2>1, TailParts DEF FetchAdd, TermTypeOK
    <2>3. /\ Len(reserved') = n + 1
          /\ \A i \in 1 .. n : reserved'[i] = reserved[i]
          /\ reserved'[n + 1] = Head(data[w])
      BY <2>2, AppendParts DEF TermTypeOK, RingInv, Filled
    <2>4. Filled'
      BY <2>1, <2>3, TerminalAssumption DEF RingInv, Filled, Slots
    <2>5. Storing'
      <3> SUFFICES ASSUME NEW v \in Writers, slot'[v] # -1
                   PROVE  /\ slot'[v] < n + 1
                          /\ Head(data[v]) = reserved'[slot'[v] + 1]
        BY <2>1 DEF Storing
      <3>1. CASE v = w
        BY <2>1, <2>3, <3>1 DEF TermTypeOK
      <3>2. CASE v # w
        BY <2>1, <2>3, <3>2 DEF TermTypeOK, RingInv, Storing, Slots
      <3> QED
        BY <3>1, <3>2
    <2>6. Taken'
      <3>1. n + 1 \in Nat /\ n + 1 >= n
        BY <2>1
      <3> QED
        BY <1>0, <2>1, <2>2, <3>1, TakenStays DEF RingInv
    <2> QED
      BY <2>4, <2>5, <2>6 DEF RingInv
  <1>3. CASE StoreByte(w)
    <2>1. /\ slot[w] # -1 /\ slot[w] \in Slots
          /\ term_output_buffer_' = [term_output_buffer_ EXCEPT ![slot[w]] = Head(data[w])]
          /\ slot' = [slot EXCEPT ![w] = -1]
          /\ data' = [data EXCEPT ![w] = Tail(@)]
          /\ UNCHANGED <<term_output_write_index_, reserved>>
      BY <1>3 DEF StoreByte, TermTypeOK
    <2>2. Filled'
      BY <2>1 DEF TermTypeOK, RingInv, Filled, Storing
    <2>3. Storing'
      BY <2>1 DEF TermTypeOK, RingInv, Storing
    <2> QED
      BY <1>0, <2>1, <2>2, <2>3 DEF RingInv, Taken
  <1> QED
    BY <1>1, <1>2, <1>3 DEF WriterStep

LEMMA PrinterRing ==
  ASSUME MaxBytes < kTerminalOutputBufferSize, TermTypeOK, RingInv, PrinterStep
  PROVE  RingInv'
  <1> DEFINE read == term_output_read_index_
  <1>0. UNCHANGED <<term_output_buffer_, term_output_write_index_, data, slot, reserved>>
    BY DEF PrinterStep, CountBytes, TakeBytes, PutChar, MarkNotSynced, MoveCursor, PrintUnlock,
      ring
  <1>1. Filled' /\ Storing'
    BY <1>0 DEF RingInv, Filled, Storing
  <1>2. /\ read \in Nat /\ term_output_write_index_ \in Nat /\ read <= term_output_write_index_
        /\ term_output_write_index_ < kTerminalOutputBufferSize
        /\ printer.num_to_read \in Nat /\ printer.to_print \in Seq(STRING)
        /\ printed \in Seq(STRING)
    BY TerminalAssumption DEF TermTypeOK, Printers, RingInv, Filled, Taken
  <1>3. CASE CountBytes
    <2>1. printer.pc = "idle" /\ read # term_output_write_index_
          /\ printer' = [pc |-> "copy", to_print |-> <<>>,
                         num_to_read |-> term_output_write_index_ - read]
          /\ UNCHANGED <<term_output_read_index_, printed>>
      BY <1>2, <1>3, IndexInRing, PrinterSteps DEF CountBytes, NumToRead
    <2> QED
      BY <1>0, <1>1, <1>2, <2>1 DEF RingInv, Taken
  <1>4. CASE TakeBytes
    <2>1. /\ printer.pc = "copy" /\ UNCHANGED printed
          /\ printer' = [pc |-> "print", num_to_read |-> 0,
                         to_print |-> [i \in 1 .. printer.num_to_read |->
                           term_output_buffer_[(read + i - 1) % kTerminalOutputBufferSize]]]
      BY <1>4 DEF TakeBytes
    <2>2. read + printer.num_to_read <= term_output_write_index_ /\ Len(printed) = read
      BY <1>2, <2>1 DEF RingInv, Taken
    <2>3. read' = read + printer.num_to_read
      BY <1>2, <1>4, <2>2, TerminalAssumption DEF TakeBytes
    <2>4. \A i \in 1 .. printer.num_to_read :
            term_output_buffer_[(read + i - 1) % kTerminalOutputBufferSize]
              \in {reserved[read + i], Nothing}
      <3> SUFFICES ASSUME NEW i \in 1 .. printer.num_to_read
                   PROVE  term_output_buffer_[(read + i - 1) % kTerminalOutputBufferSize]
                            \in {reserved[read + i], Nothing}
        OBVIOUS
      <3>1. read + i - 1 \in Nat /\ read + i - 1 < kTerminalOutputBufferSize
        BY <1>2, <2>2, TerminalAssumption
      <3>2. (read + i - 1) % kTerminalOutputBufferSize = read + i - 1 /\ read + i - 1 \in Slots
        BY <3>1, IndexInRing
      <3>3. (read + i - 1) + 1 = read + i
        BY <1>2
      <3> QED
        BY <3>2, <3>3 DEF RingInv, Filled
    <2>5. /\ Len(printer'.to_print) = printer.num_to_read
          /\ \A i \in 1 .. printer.num_to_read :
               printer'.to_print[i] \in {reserved[read + i], Nothing}
      BY <1>2, <2>1, <2>4
    <2> QED
      BY <1>0, <1>1, <1>2, <2>1, <2>2, <2>3, <2>5 DEF RingInv, Taken
  <1>5. CASE PutChar
    <2> DEFINE q == printer.to_print
    <2>1. /\ printer.pc = "print" /\ q # <<>> /\ printed' = Append(printed, Head(q))
          /\ UNCHANGED term_output_read_index_
          /\ printer' = [pc |-> "flag", num_to_read |-> printer.num_to_read, to_print |-> Tail(q)]
      BY <1>5, PrinterSteps DEF PutChar
    <2>2. /\ Head(q) = q[1] /\ Len(q) \in Nat /\ Len(q) > 0 /\ Len(Tail(q)) = Len(q) - 1
          /\ \A i \in 1 .. Len(q) - 1 : Tail(q)[i] = q[i + 1]
          /\ Head(q) \in STRING
      BY <1>2, <2>1, TailParts
    <2>3. /\ Len(printed) \in Nat /\ Len(printed') = Len(printed) + 1
          /\ \A i \in 1 .. Len(printed) : printed'[i] = printed[i]
          /\ printed'[Len(printed) + 1] = q[1]
      BY <1>2, <2>1, <2>2, AppendParts
    <2>4. q[1] \in {reserved[Len(printed) + 1], Nothing}
      BY <2>2 DEF RingInv, Taken
    <2>5. \A i \in 1 .. Len(printed') : printed'[i] \in {reserved[i], Nothing}
      BY <2>3, <2>4 DEF RingInv, Taken
    <2>6. \A i \in 1 .. Len(Tail(q)) : Tail(q)[i] \in {reserved[Len(printed') + i], Nothing}
      <3> SUFFICES ASSUME NEW i \in 1 .. Len(Tail(q))
                   PROVE  Tail(q)[i] \in {reserved[Len(printed') + i], Nothing}
        OBVIOUS
      <3>1. i + 1 \in 1 .. Len(q) /\ Len(printed') + i = Len(printed) + (i + 1)
        BY <2>2, <2>3
      <3> QED
        BY <2>2, <3>1 DEF RingInv, Taken
    <2>7. Len(printed') + Len(Tail(q)) = read /\ read <= term_output_write_index_
      <3>1. Len(printed) + Len(q) = read
        BY DEF RingInv, Taken
      <3>2. /\ Len(printed') = Len(printed) + 1 /\ Len(Tail(q)) = Len(q) - 1
            /\ Len(printed) \in Nat /\ Len(q) \in Nat
        BY <2>2, <2>3
      <3>3. \A a, b \in Nat : (a + 1) + (b - 1) = a + b
        OBVIOUS
      <3>4. (Len(printed) + 1) + (Len(q) - 1) = read
        BY <3>1, <3>2, <3>3
      <3>5. Len(printed') + Len(Tail(q)) = read
        BY <3>2, <3>4
      <3> QED
        BY <1>2, <3>5
    <2> QED
      BY <1>0, <1>1, <2>1, <2>5, <2>6, <2>7 DEF RingInv, Taken
  <1>6. CASE MarkNotSynced \/ MoveCursor \/ PrintUnlock
    <2>1. /\ UNCHANGED <<term_output_read_index_, printed>>
          /\ printer'.to_print = printer.to_print /\ printer'.pc \in {"print", "move", "idle"}
          /\ printer'.pc = "idle" => printer.to_print = <<>>
      BY <1>6, PrinterSteps DEF MarkNotSynced, MoveCursor, PrintUnlock
    <2> QED
      BY <1>0, <1>1, <2>1 DEF RingInv, Taken
  <1> QED
    BY <1>3, <1>4, <1>5, <1>6 DEF PrinterStep

LEMMA NextRing ==
  ASSUME MaxBytes < kTerminalOutputBufferSize
  PROVE  TermTypeOK /\ RingInv /\ [TerminalNext]_terminal => RingInv'
  <1>1. RingInv /\ SyncStep => RingInv'
    BY DEF SyncStep, SyncScreen, SyncRow, RingInv, Filled, Storing, Taken, ring
  <1>2. RingInv /\ UNCHANGED terminal => RingInv'
    BY DEF terminal, RingInv, Filled, Storing, Taken, ring
  <1> QED
    BY <1>1, <1>2, WriterRing, PrinterRing DEF TerminalNext

\* As long as fewer bytes are written than the ring has slots, what the printing thread
\* prints is what the writers have reserved slots for, byte by byte, however their
\* additions and stores and its counting and copying interleave; at most a byte that
\* is still to be stored is printed as nothing.
THEOREM ReservedIsPrinted ==
  ASSUME MaxBytes < kTerminalOutputBufferSize
  PROVE  TerminalInit /\ [][TerminalNext]_terminal => []PrintsReserved
  <1>1. TermTypeOK /\ RingInv => PrintsReserved
    <2> SUFFICES ASSUME TermTypeOK, RingInv PROVE PrintsReserved
      OBVIOUS
    <2>1. Len(printed) \in Nat /\ Len(printer.to_print) \in Nat
      BY DEF TermTypeOK, Printers
    <2> QED
      BY <2>1 DEF TermTypeOK, RingInv, Filled, Taken, PrintsReserved
  <1> QED
    BY <1>1, InitType, NextType, InitRing, NextRing, PTL

-----------------------------------------------------------------------------
(* The screen *)

LEMMA InitScreen == TerminalInit => ScreenInv
  BY TerminalAssumption
  DEF TerminalInit, ScreenInv, Shape, Cursor, Copied, Rows

\* The cursor goes on to a place that is at most one row too low, with a scroll just
\* when it is.
LEMMA CursorSteps ==
  ASSUME Shape, NEW row \in 0 .. height_ - 1, NEW col \in Nat, CursorTo(row, col)
  PROVE  /\ cur_row_' \in 0 .. height_ - 2 /\ cur_col_' = col
         /\ buffer_' = [r \in Rows |-> buffer_'[r]]
         /\ row <= height_ - 2 => buffer_' = buffer_ /\ cur_row_' = row
         /\ row = height_ - 1 => cur_row_' = height_ - 2
  <1>1. height_ \in Nat /\ height_ >= 2 /\ (row + 1 >= height_ <=> row = height_ - 1)
    BY TerminalAssumption
  <1>2. CASE row = height_ - 1
    <2>1. cur_row_' = row - 1 /\ buffer_' = Scroll(buffer_) /\ cur_col_' = col
      BY <1>1, <1>2 DEF CursorTo
    <2>2. Scroll(buffer_) = [r \in Rows |-> Scroll(buffer_)[r]]
      BY DEF Scroll, Rows
    <2> QED
      BY <1>1, <1>2, <2>1, <2>2
  <1>3. CASE row # height_ - 1
    <2>1. cur_row_' = row /\ buffer_' = buffer_ /\ cur_col_' = col
      BY <1>1, <1>3 DEF CursorTo
    <2> QED
      BY <1>1, <1>3, <2>1 DEF Shape
  <1> QED
    BY <1>2, <1>3

\* Nothing but the printing thread and the one that copies touches the screen.
LEMMA OtherScreen ==
  ASSUME ScreenInv, UNCHANGED <<printer, screen, is_synced_, video_mem_, sync, printed>>
  PROVE  ScreenInv'
  BY DEF ScreenInv, Shape, Cursor, Copied, WrappedAtBottom, screen

LEMMA PrinterScreen ==
  ASSUME TermTypeOK, ScreenInv, PrinterStep
  PROVE  ScreenInv'
  <1>1. UNCHANGED <<video_mem_, sync>>
    BY DEF PrinterStep, CountBytes, TakeBytes, PutChar, MarkNotSynced, MoveCursor, PrintUnlock
  <1>2. ASSUME UNCHANGED <<screen, is_synced_, printed>>,
               printer.pc \in {"idle", "copy", "print"}, printer'.pc \in {"idle", "copy", "print"}
        PROVE  ScreenInv'
    BY <1>1, <1>2 DEF ScreenInv, Shape, Cursor, Copied, WrappedAtBottom, screen
  <1>3. CASE CountBytes \/ TakeBytes \/ PrintUnlock
    BY <1>2, <1>3, PrinterSteps DEF CountBytes, TakeBytes, PrintUnlock
  <1>4. CASE PutChar
    <2> DEFINE c == Head(printer.to_print)
    <2>1. /\ printer.to_print # <<>> /\ printed' = Append(printed, c) /\ printer'.pc = "flag"
          /\ UNCHANGED is_synced_
      BY <1>4, PrinterSteps DEF PutChar
    <2>2. printed' # <<>>
      BY <2>1 DEF TermTypeOK
    <2>3. /\ cur_row_' \in 0 .. height_ - 2 /\ cur_col_' \in Nat
          /\ buffer_' = [r \in Rows |-> buffer_'[r]]
      <3>1. CASE c = Newline
        <4>1. CursorTo(cur_row_ + 1, 0) /\ cur_row_ + 1 \in 0 .. height_ - 1
          BY <1>4, <3>1, TerminalAssumption DEF PutChar, ScreenInv, Cursor
        <4> QED
          BY <4>1, CursorSteps DEF ScreenInv
      <3>2. CASE c # Newline
        BY <1>4, <3>2 DEF PutChar, ScreenInv, Shape, Cursor
      <3> QED
        BY <3>1, <3>2
    <2> QED
      BY <1>1, <2>1, <2>2, <2>3 DEF ScreenInv, Shape, Cursor, Copied
  <1>5. CASE MarkNotSynced
    BY <1>1, <1>5, PrinterSteps DEF MarkNotSynced, ScreenInv, Shape, Cursor, Copied, screen
  <1>6. CASE MoveCursor
    <2>1. /\ printer.pc = "move" /\ printer'.pc = "print" /\ UNCHANGED <<is_synced_, printed>>
          /\ printed # <<>> /\ Last(printed) # Newline
      BY <1>6, PrinterSteps DEF MoveCursor, ScreenInv, Cursor
    <2>2. PICK row \in 0 .. height_ - 1, col \in Nat :
            /\ CursorTo(row, col)
            /\ row = height_ - 1 => col = 0
      <3>1. /\ cur_row_ + 1 \in 0 .. height_ - 1 /\ cur_row_ \in 0 .. height_ - 1
            /\ cur_row_ # height_ - 1 /\ cur_col_ + 1 \in Nat
        BY TerminalAssumption DEF ScreenInv, Cursor
      <3> QED
        BY <1>6, <3>1 DEF MoveCursor
    <2>3. /\ cur_row_' \in 0 .. height_ - 2 /\ cur_col_' = col
          /\ buffer_' = [r \in Rows |-> buffer_'[r]]
          /\ row <= height_ - 2 => buffer_' = buffer_ /\ cur_row_' = row
          /\ row = height_ - 1 => cur_row_' = height_ - 2
      BY <2>2, CursorSteps DEF ScreenInv
    <2>4. WrappedAtBottom' \/ buffer_' = buffer_
      BY <2>1, <2>2, <2>3, TerminalAssumption DEF WrappedAtBottom
    <2>5. Copied'
      BY <1>1, <2>1, <2>4 DEF ScreenInv, Copied
    <2> QED
      BY <1>1, <2>1, <2>2, <2>3, <2>5 DEF ScreenInv, Shape, Cursor
  <1> QED
    BY <1>3, <1>4, <1>5, <1>6 DEF PrinterStep

LEMMA SyncScreenInv ==
  ASSUME ScreenInv, SyncStep
  PROVE  ScreenInv'
  <1>1. Cursor' /\ UNCHANGED <<printer, buffer_, cur_row_, cur_col_, printed>>
    BY DEF ScreenInv, Cursor, SyncStep, SyncScreen, SyncRow, screen
  <1>2. CASE SyncScreen
    BY <1>1, <1>2, TerminalAssumption
    DEF SyncScreen, ScreenInv, Shape, Copied, Rows, WrappedAtBottom
  <1>3. CASE SyncRow
    <2>1. /\ sync \in Rows /\ UNCHANGED is_synced_
          /\ video_mem_' = [video_mem_ EXCEPT ![sync] = buffer_[sync]]
          /\ IF sync = height_ THEN sync' = 0 ELSE sync' = sync + 1
      BY <1>3, TerminalAssumption DEF SyncRow, ScreenInv, Shape, Rows
    <2>2. Shape'
      <3>1. video_mem_' = [r \in Rows |-> video_mem_'[r]]
        <4>1. video_mem_ = [r \in Rows |-> video_mem_[r]]
          BY DEF ScreenInv, Shape
        <4> QED
          BY <2>1, <4>1
      <3>2. sync' \in 0 .. height_ /\ is_synced_' \in BOOLEAN
        <4>1. sync' \in 0 .. height_
          BY <2>1, TerminalAssumption DEF Rows
        <4> QED
          BY <2>1, <4>1 DEF ScreenInv, Shape
      <3> QED
        BY <1>1, <3>1, <3>2 DEF ScreenInv, Shape
    <2>3. \A r \in Rows : /\ r = sync => video_mem_'[r] = buffer_[r]
                          /\ r # sync => video_mem_'[r] = video_mem_[r]
      BY <2>1 DEF ScreenInv, Shape
    <2>4. \A r \in Rows : sync' = 0 \/ r < sync' => r = sync \/ r < sync
      BY <2>1, TerminalAssumption DEF Rows
    <2> QED
      BY <1>1, <2>1, <2>2, <2>3, <2>4 DEF ScreenInv, Copied, WrappedAtBottom
  <1> QED
    BY <1>2, <1>3 DEF SyncStep

LEMMA NextScreen == TermTypeOK /\ ScreenInv /\ [TerminalNext]_terminal => ScreenInv'
  <1>1. ASSUME TermTypeOK, ScreenInv, NEW w \in Writers,
               WriterStep(w) \/ \E message \in Messages : PrintToTerminal(w, message)
        PROVE  ScreenInv'
    BY <1>1, OtherScreen DEF WriterStep, FetchAdd, StoreByte, PrintToTerminal, screen
  <1>2. ScreenInv /\ UNCHANGED terminal => ScreenInv'
    BY OtherScreen DEF terminal
  <1> QED
    BY <1>1, <1>2, PrinterScreen, SyncScreenInv DEF TerminalNext

\* Drawing and copying at the same time leaves nothing out for good: whenever the screen
\* counts as synced and nobody draws or copies, video memory is what was drawn, except
\* that the scroll at the end of a full line can come after the mark.
THEOREM DrawnIsShown == TerminalInit /\ [][TerminalNext]_terminal => []ScreenShows
  <1>1. ScreenInv => ScreenShows
    BY DEF ScreenInv, Shape, Copied, ScreenShows
  <1> QED
    BY <1>1, InitType, NextType, InitScreen, NextScreen, PTL

=============================================================================
