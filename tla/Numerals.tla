------------------------------ MODULE Numerals ------------------------------
(***************************************************************************)
(* Numbers as text in the C library: the integer conversions of sprintf    *)
(* (user/libc/printf.c) and of sscanf (user/libc/scanf.c).  A text is a    *)
(* sequence of characters without its terminator.  Widths of words are     *)
(* scaled down, and overflow wraps as it does in the build.                *)
(***************************************************************************)
EXTENDS Integers, Sequences, FiniteSetsExt, SequencesExt

CONSTANTS Bits,           \* of each length: hh, h, int and l
          PRINTF_NTOA_BUFFER_SIZE,
          Args,           \* what programs print: a set for each length
          Widths, Precisions

NoPrecision == -1
Flags == {"ZEROPAD", "LEFT", "PLUS", "SPACE", "HASH"}
Conversions == {"d", "u", "x", "X", "o"}
Specs == [conversion : Conversions, flags : SUBSET Flags, width : Widths,
          precision : Precisions \cup {NoPrecision}, length : DOMAIN Bits]

AsUnsigned(n, bits) == n % 2 ^ bits
AsSigned(n, bits) == ((n + 2 ^ (bits - 1)) % 2 ^ bits) - 2 ^ (bits - 1)

Digits == <<"0", "1", "2", "3", "4", "5", "6", "7", "8", "9", "a", "b", "c", "d", "e", "f">>
DigitsUpper == SubSeq(Digits, 1, 10) \o <<"A", "B", "C", "D", "E", "F">>
Repeat(c, n) == [i \in 1 .. n |-> c]
Base(spec) == CASE spec.conversion \in {"x", "X"} -> 16
                [] spec.conversion = "o" -> 8
                [] OTHER -> 10
-----------------------------------------------------------------------------
(* sprintf *)

\* The digits of value from the last to the first.
DigitsOf(value, base, upper) ==
  LET left[i \in 1 .. PRINTF_NTOA_BUFFER_SIZE] == IF i = 1 THEN value ELSE left[i - 1] \div base
      len == Max({1} \cup {i \in DOMAIN left : left[i] # 0})
  IN  [i \in 1 .. len |-> (IF upper THEN DigitsUpper ELSE Digits)[1 + (left[i] % base)]]

FilledTo(buf, n) == buf \o Repeat("0", Min({n, PRINTF_NTOA_BUFFER_SIZE}) - Len(buf))
Put(buf, c) == IF Len(buf) < PRINTF_NTOA_BUFFER_SIZE THEN Append(buf, c) ELSE buf

\* Fault: the place of the sign is filled up, too.
NoRoomForSign(width, negative, flags) == width

\* The width that zeros fill up: a sign needs one place.
WidthOfDigits(width, negative, flags) ==
  IF /\ "LEFT" \notin flags /\ "ZEROPAD" \in flags /\ width > 0
     /\ negative \/ {"PLUS", "SPACE"} \cap flags # {}
  THEN width - 1 ELSE width

LeadingZeros(buf, prec, width, flags) ==
  IF "LEFT" \in flags THEN buf
  ELSE IF "ZEROPAD" \in flags THEN FilledTo(FilledTo(buf, prec), width) ELSE FilledTo(buf, prec)

\* The prefix takes the place of digits that fill the field.
Hash(buf, base, prec, width, flags) ==
  LET full == "PRECISION" \notin flags /\ Len(buf) > 0 /\ Len(buf) \in {prec, width}
      gone == IF ~full THEN 0 ELSE IF base = 16 /\ Len(buf) > 1 THEN 2 ELSE 1
      kept == SubSeq(buf, 1, Len(buf) - gone)
  IN  Put(IF base # 16 THEN kept ELSE Put(kept, IF "UPPERCASE" \in flags THEN "X" ELSE "x"), "0")

Sign(buf, negative, flags) ==
  IF negative THEN Put(buf, "-")
  ELSE IF "PLUS" \in flags THEN Put(buf, "+")
  ELSE IF "SPACE" \in flags THEN Put(buf, " ") ELSE buf

_out_rev(buf, width, flags) ==
  LET spaces == Repeat(" ", width - Len(buf))
  IN  IF "LEFT" \in flags THEN Reverse(buf) \o spaces
      ELSE IF "ZEROPAD" \in flags THEN Reverse(buf) ELSE spaces \o Reverse(buf)

_ntoa_format(buf, negative, base, prec, width, flags) ==
  LET room   == WidthOfDigits(width, negative, flags)
      filled == LeadingZeros(buf, prec, room, flags)
      hashed == IF "HASH" \in flags THEN Hash(filled, base, prec, room, flags) ELSE filled
  IN  _out_rev(Sign(hashed, negative, flags), room, flags)

_ntoa_long(value, negative, base, prec, width, flags) ==
  LET digits == IF "PRECISION" \in flags /\ value = 0 THEN <<>>
                ELSE DigitsOf(value, base, "UPPERCASE" \in flags)
  IN  _ntoa_format(digits, negative, base, prec, width,
                   IF value = 0 THEN flags \ {"HASH"} ELSE flags)

\* The flags that hold for a conversion.
FlagsOf(spec) ==
  (spec.flags
     \cup (IF spec.precision # NoPrecision THEN {"PRECISION"} ELSE {})
     \cup (IF spec.conversion = "X" THEN {"UPPERCASE"} ELSE {}))
  \ ((IF Base(spec) = 10 THEN {"HASH"} ELSE {})
     \cup (IF spec.conversion # "d" THEN {"PLUS", "SPACE"} ELSE {})
     \cup (IF spec.precision # NoPrecision THEN {"ZEROPAD"} ELSE {}))

Converted(spec, arg) ==
  IF spec.conversion = "d" THEN AsSigned(arg, Bits[spec.length])
  ELSE AsUnsigned(arg, Bits[spec.length])

_vsnprintf(spec, arg) ==
  LET value == Converted(spec, arg)
  IN  _ntoa_long(IF value < 0 THEN -value ELSE value, value < 0, Base(spec),
                 Max({spec.precision, 0}), spec.width, FlagsOf(spec))
-----------------------------------------------------------------------------
(* sscanf *)

isspace(c) == c \in {" ", "\t", "\n"}
At(buffer, current) == IF current < Len(buffer) THEN buffer[current + 1] ELSE "NUL"
SkipWhile(buffer, current, Goes(_)) ==
  Min({i \in current .. Len(buffer) : ~Goes(At(buffer, i))})

ValueOf(c) == IF \E i \in 1 .. 16 : c \in {Digits[i], DigitsUpper[i]}
              THEN (CHOOSE i \in 1 .. 16 : c \in {Digits[i], DigitsUpper[i]}) - 1 ELSE 16

Prefix(buffer, current, base) ==
  IF At(buffer, current) # "0" THEN 0
  ELSE CASE base = 16 -> IF At(buffer, current + 1) \in {"x", "X"} THEN 2 ELSE 0
         [] base = 8 -> 1
         [] base = 10 -> 0

\* MatchDecimal, MatchHex and MatchOct: <<the number, the place behind it>>.
Match(buffer, current, base) ==
  LET start  == SkipWhile(buffer, current, isspace)
      sign   == IF At(buffer, start) = "-" THEN -1 ELSE 1
      signed == IF At(buffer, start) \in {"-", "+"} THEN start + 1 ELSE start
      first  == signed + Prefix(buffer, signed, base)
      behind == SkipWhile(buffer, first, LAMBDA c : ValueOf(c) < base)
      num    == FoldLeft(LAMBDA n, c : AsSigned(n * base + ValueOf(c), Bits.int), 0,
                         SubSeq(buffer, first + 1, behind))
  IN  <<AsSigned(num * sign, Bits.int), behind>>

BaseOf(c) == CASE c = "d" -> 10 [] c = "x" -> 16 [] c = "o" -> 8

\* One character of the format; s is where sscanf is.
Step(buffer, s, c) ==
  IF s.ended THEN s
  ELSE IF isspace(c) THEN [s EXCEPT !.pos = SkipWhile(buffer, s.pos, isspace)]
  ELSE IF c = "%" /\ ~s.percent THEN [s EXCEPT !.percent = TRUE]
  ELSE IF c = "%" \/ ~s.percent
       THEN IF At(buffer, s.pos) = c THEN [s EXCEPT !.pos = @ + 1, !.percent = FALSE]
            ELSE [s EXCEPT !.ended = TRUE]
  ELSE IF c \in {"d", "x", "o"}
       THEN LET found == Match(buffer, s.pos, BaseOf(c))
            IN  [s EXCEPT !.percent = FALSE, !.nums = Append(@, found[1]), !.pos = found[2]]
  ELSE [s EXCEPT !.percent = FALSE]

\* What the call returns is pos, nums what it stores through its arguments.
sscanf(buffer, format) ==
  FoldLeft(LAMBDA s, c : Step(buffer, s, c),
           [pos |-> 0, percent |-> FALSE, ended |-> FALSE, nums |-> <<>>], format)
-----------------------------------------------------------------------------
VARIABLES printed,   \* the conversion and the argument of the last sprintf
          text       \* and what it wrote

Init == printed = <<>> /\ text = <<>>

sprintf(spec, arg) ==
  printed = <<>> /\ printed' = <<spec, arg>> /\ text' = _vsnprintf(spec, arg)

Forget == printed # <<>> /\ printed' = <<>> /\ text' = <<>>

Next == Forget \/ \E spec \in Specs : \E arg \in Args[spec.length] : sprintf(spec, arg)
-----------------------------------------------------------------------------
(* Properties *)

\* The prefix falls on digits of the number: "%#2x" of 18 prints 0x.
HashEatsDigits(spec, arg) ==
  LET len == Len(DigitsOf(Converted(spec, arg), Base(spec), FALSE))
  IN  /\ "HASH" \in FlagsOf(spec) /\ spec.precision = NoPrecision /\ arg # 0
      /\ spec.width - len \in 0 .. (IF Base(spec) = 16 THEN 1 ELSE 0)
      /\ len = spec.width \/ {"ZEROPAD", "LEFT"} \cap spec.flags = {"ZEROPAD"}

FormatFor(spec) == <<" ", "%", CASE Base(spec) = 10 -> "d" [] Base(spec) = 16 -> "x"
                                 [] Base(spec) = 8 -> "o">>

\* With every combination of flags, width, precision and length, what sprintf writes
\* of an integer is exactly as wide as it has to be, sscanf reads the same integer back, up to
\* the spaces behind it, and two in one text come back as two.  The smallest integer
\* has no positive counterpart (_vsnprintf), and signs, zeros, prefixes and digits
\* share one buffer (_ntoa_format).
ReadsBack ==
  printed # <<>> /\ ~HashEatsDigits(printed[1], printed[2]) =>
    LET spec == printed[1]
        num  == AsSigned(Converted(spec, printed[2]), Bits.int)
        once == sscanf(text, FormatFor(spec))
        both == sscanf(text \o <<" ">> \o text, FormatFor(spec) \o FormatFor(spec))
        bare == _vsnprintf([spec EXCEPT !.width = 0], printed[2])
    IN  /\ Len(text) = Max({spec.width, Len(bare)})
        /\ once.nums = <<num>>
        /\ \A i \in once.pos + 1 .. Len(text) : text[i] = " "
        /\ both.nums = <<num, num>>
=============================================================================
