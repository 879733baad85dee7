------------------------------- MODULE Stdio -------------------------------
(***************************************************************************)
(* The buffered streams of the C library (user/libc/stdio.c): one process  *)
(* and one stream, which reads a file or a pipe or writes a file.  A call  *)
(* that reads takes one byte per step, as fgetc may refill the buffer at   *)
(* any of them and a pipe gives as much as there happens to be.            *)
(*                                                                         *)
(* A program writes a stream with fputc or with fwrite: fwrite goes past   *)
(* the buffer, and fseek, fclose and fflush forget what fputc has left in  *)
(* it.                                                                     *)
(***************************************************************************)
EXTENDS Integers, Sequences, FiniteSetsExt, SequencesExt

CONSTANTS File,        \* what is there to read
          Newline,     \* one of its bytes
          BUF_SIZE,
          Rooms,       \* sizes and counts that callers pass
          MaxPut       \* bound on the bytes written to a stream

ASSUME StdioAssumption ==
  /\ File \in Seq(Nat) /\ Newline \in Nat
  /\ BUF_SIZE \in Nat \ {0} /\ Rooms \subseteq Nat /\ MaxPut \in Nat
-----------------------------------------------------------------------------
VARIABLES use,         \* what the process does with the stream
          content, offset,            \* the file and its descriptor's place in it
          buffer, buf_size, buf_pos, mode,
          call,        \* the call that reads, under way or answered
          from, seen,  \* where reading began and the bytes handed out since
          handed          \* the bytes handed in
stdio == <<use, content, offset, buffer, buf_size, buf_pos, mode, call, from, seen, handed>>

EOF == -1
Idle == [op |-> "none", size |-> 1, wanted |-> 0, at |-> 0, str |-> <<>>, ret |-> 0]
Running == -2
Null == 0      \* what fgets returns
Str == 1
FileModes == {"none", "_IO_UNBUFFERED", "_IO_LINE_BUFFERED", "_IO_BLOCK_BUFFERED"}
Reading == use \in {"file", "pipe"}

StdioInit ==
  /\ use = "none" /\ content = <<>> /\ offset = 0
  /\ buffer = [i \in 0 .. BUF_SIZE - 1 |-> 0] /\ buf_size = 0 /\ buf_pos = 0 /\ mode = "none"
  /\ call = Idle /\ from = 0 /\ seen = <<>> /\ handed = <<>>

\* The mode, which only fputc looks at, is what malloc has left there; O_TRUNC empties the
\* file.
fopen ==
  /\ use = "none"
  /\ use' \in {"file", "pipe", "fputc", "fwrite"}
  /\ content' = IF use' \in {"fputc", "fwrite"} THEN <<>> ELSE File
  /\ offset' = 0 /\ buf_size' = 0 /\ buf_pos' = 0 /\ mode' \in IF use' = "fputc" THEN FileModes ELSE {"none"}
  /\ UNCHANGED <<buffer, call, from, seen, handed>>

\* The end of the process, also in a call; the next one begins with a stream of its own.
Exit ==
  /\ use # "none"
  /\ use' = "none" /\ content' = <<>> /\ offset' = 0
  /\ buffer' = [i \in 0 .. BUF_SIZE - 1 |-> 0] /\ buf_size' = 0 /\ buf_pos' = 0 /\ mode' = "none"
  /\ call' = Idle /\ from' = 0 /\ seen' = <<>> /\ handed' = <<>>
-----------------------------------------------------------------------------
(* Reading *)

Remaining == Len(content) - offset

\* How much read may give: of a pipe anything, but it waits for the first byte.
Given ==
  LET most == Min({BUF_SIZE, Remaining})
  IN  IF use = "file" THEN {most} ELSE 1 .. most

\* Fault: the place in the buffer is not set back.
RefillKeepsPlace(n) ==
  /\ buffer' = [i \in DOMAIN buffer |-> IF i < n THEN content[offset + i + 1] ELSE buffer[i]]
  /\ offset' = offset + n /\ buf_size' = n
  /\ buf_pos' = IF buf_pos = 0 THEN 1 ELSE buf_pos

Refill(n) ==
  /\ buffer' = [i \in DOMAIN buffer |-> IF i < n THEN content[offset + i + 1] ELSE buffer[i]]
  /\ offset' = offset + n /\ buf_size' = n
  /\ buf_pos' = IF n = 0 THEN 0 ELSE 1

\* The character that fgetc returns.
fgetc(c) ==
  \/ /\ buf_size = buf_pos
     /\ \E n \in Given : Refill(n) /\ c = IF n = 0 THEN EOF ELSE buffer'[buf_pos' - 1]
  \/ /\ buf_size # buf_pos
     /\ c = buffer[buf_pos] /\ buf_pos' = buf_pos + 1
     /\ UNCHANGED <<buffer, offset, buf_size>>

Begin(op, size, wanted, ret) ==
  /\ Reading /\ call.ret # Running
  /\ call' = [op |-> op, size |-> size, wanted |-> wanted, at |-> from + Len(seen),
              str |-> <<>>, ret |-> ret]
  /\ UNCHANGED <<use, content, offset, buffer, buf_size, buf_pos, mode, from, seen, handed>>

CallFgetc == Begin("fgetc", 1, 1, Running)
CallFread(size, count) ==
  Begin("fread", size, size * count, IF size * count = 0 THEN 0 ELSE Running)
CallFgets(count) ==
  Begin("fgets", 1, count - 1, IF count < 1 THEN Null ELSE IF count = 1 THEN Str ELSE Running)

AtEnd ==
  CASE call.op = "fgetc" -> EOF
    [] call.op = "fread" -> Len(call.str) \div call.size
    [] call.op = "fgets" -> IF call.str = <<>> THEN Null ELSE Str

AfterByte(str, c) ==
  CASE call.op = "fgetc" -> c
    [] call.op = "fread" -> IF Len(str) = call.wanted THEN call.wanted \div call.size ELSE Running
    [] call.op = "fgets" -> IF c = Newline \/ Len(str) = call.wanted THEN Str ELSE Running

NextByte ==
  /\ call.ret = Running
  /\ \E c \in {EOF} \cup Range(File) :
       /\ fgetc(c)
       /\ IF c = EOF THEN call' = [call EXCEPT !.ret = AtEnd] /\ seen' = seen
          ELSE LET str == Append(call.str, c)
               IN  /\ call' = [call EXCEPT !.str = str, !.ret = AfterByte(str, c)]
                   /\ seen' = Append(seen, c)
  /\ UNCHANGED <<use, content, mode, from, handed>>

EmptyBuffer == buf_pos' = 0 /\ buf_size' = 0

\* SEEK_SET or SEEK_END, to a place in the file.
fseek(place) ==
  /\ use = "file" /\ call.ret # Running
  /\ EmptyBuffer /\ offset' = place
  /\ from' = place /\ seen' = <<>> /\ call' = Idle
  /\ UNCHANGED <<use, content, buffer, mode, handed>>
-----------------------------------------------------------------------------
(* Writing *)

Buffered == [i \in 1 .. buf_size |-> buffer[i - 1]]

ShouldFlush(ch, filled) ==
  CASE mode = "_IO_UNBUFFERED" -> TRUE
    [] mode = "_IO_LINE_BUFFERED" -> ch = Newline
    [] mode = "_IO_BLOCK_BUFFERED" -> filled = BUF_SIZE
    [] mode = "none" -> FALSE

\* A full buffer is written first, and the buffer with ch at once if the mode asks for it.
fputc(ch) ==
  /\ use = "fputc" /\ Len(handed) < MaxPut
  /\ LET full    == buf_size = BUF_SIZE
         written == IF full THEN Buffered ELSE <<>>
         pos     == IF full THEN 0 ELSE buf_pos
         flush   == ShouldFlush(ch, pos + 1)
         rest    == IF ~flush THEN <<>> ELSE (IF full THEN <<>> ELSE Buffered) \o <<ch>>
     IN  /\ buffer' = [buffer EXCEPT ![pos] = ch]
         /\ buf_size' = IF flush THEN 0 ELSE pos + 1
         /\ buf_pos' = IF flush THEN 0 ELSE pos + 1
         /\ content' = content \o written \o rest
         /\ offset' = offset + Len(written \o rest)
  /\ handed' = Append(handed, ch)
  /\ UNCHANGED <<use, mode, call, from, seen>>

fwrite(bytes, size) ==
  /\ use = "fwrite" /\ Len(handed \o bytes) <= MaxPut
  /\ content' = content \o bytes /\ offset' = offset + Len(bytes)
  /\ handed' = handed \o bytes
  /\ call' = [Idle EXCEPT !.op = "fwrite", !.size = size, !.wanted = Len(bytes),
                          !.ret = Len(bytes) \div size]
  /\ UNCHANGED <<use, buffer, buf_size, buf_pos, mode, from, seen>>

StdioNext ==
  \/ fopen \/ Exit \/ CallFgetc \/ NextByte
  \/ \E size, count \in Rooms : CallFread(size, count)
  \/ \E count \in Rooms : CallFgets(count)
  \/ \E place \in 0 .. Len(content) : fseek(place)
  \/ \E ch \in Range(File) : fputc(ch)
  \/ \E size \in Rooms \ {0}, count \in Rooms :
       size * count <= Len(File) /\ fwrite(SubSeq(File, 1, size * count), size)
-----------------------------------------------------------------------------
(* Properties *)

\* What a call that began at call.at should bring: fgets ends at a newline.
Expected ==
  LET most == SubSeq(content, call.at + 1, Min({call.at + call.wanted, Len(content)}))
      lines == {i \in DOMAIN most : most[i] = Newline}
  IN  IF call.op = "fgets" /\ lines # {} THEN SubSeq(most, 1, Min(lines)) ELSE most

Answered ==
  /\ call.str = Expected
  /\ call.op = "fgetc" => call.ret = IF Expected = <<>> THEN EOF ELSE Expected[1]
  /\ call.op = "fread" /\ call.size # 0 => call.ret = Len(Expected) \div call.size
  /\ call.op = "fgets" => (call.ret = Str) = (Expected # <<>> \/ call.wanted = 0)

\* Whatever mix of fgetc, fgets and fread a program calls, and in whatever pieces a
\* pipe delivers, it gets every byte once and in order, calls end where they
\* should and only the end of the file gives EOF (fgetc).  The descriptor, which
\* ftell reports, is ahead by what is buffered.  What fputc and fwrite were
\* given is in the file or, in order, behind it in the buffer.
StreamInOrder ==
  /\ Reading =>
       /\ seen = SubSeq(content, from + 1, from + Len(seen))
       /\ offset = from + Len(seen) + buf_size - buf_pos
       /\ call.op # "none" /\ call.ret # Running => Answered
  /\ ~Reading =>
       /\ handed = content \o Buffered
       /\ call.op = "fwrite" => call.ret * call.size = call.wanted
  /\ use = "fputc" =>
       /\ mode = "_IO_UNBUFFERED" => buf_size = 0
       /\ mode = "_IO_LINE_BUFFERED" => Newline \notin Range(Buffered)
       /\ mode = "_IO_BLOCK_BUFFERED" => buf_size < BUF_SIZE
=============================================================================
