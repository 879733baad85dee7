------------------------------ MODULE CString ------------------------------
(***************************************************************************)
(* Memory and strings in the C library (user/libc/string.c): operators on  *)
(* an array of characters, pointers are indices, and a loop that writes is *)
(* a function of the number of its rounds.  A character is a number and,   *)
(* like char, has a sign.                                                  *)
(***************************************************************************)
EXTENDS Integers, Sequences, FiniteSetsExt, SequencesExt

CONSTANTS Chars,        \* with the terminator, 0
          Upper, Lower, \* letters: the one is the other's capital
          MemSize       \* bound on the memory of the model

NULL == -1
Cells == 0 .. MemSize - 1

VARIABLE mem
-----------------------------------------------------------------------------
(* What the calls do to memory m *)

\* Cell by cell, upwards.
memcpy(m, dest, src, count) ==
  LET round[i \in 0 .. count] ==
        IF i = 0 THEN m
        ELSE [round[i - 1] EXCEPT ![dest + i - 1] = round[i - 1][src + i - 1]]
  IN  round[count]

memset(m, dest, ch, count) ==
  LET round[i \in 0 .. count] ==
        IF i = 0 THEN m ELSE [round[i - 1] EXCEPT ![dest + i - 1] = ch]
  IN  round[count]

\* Fault: overlapping memory is copied like any other.
CopiedDirectly(m, dest, src, count) == memcpy(m, dest, src, count)

\* Through memory that malloc gives, which lies behind the rest.
CopiedThrough(m, dest, src, count) ==
  LET wide == [i \in 0 .. MemSize + count - 1 |-> IF i \in Cells THEN m[i] ELSE 0]
      kept == memcpy(wide, MemSize, src, count)
      back == memcpy(kept, dest, MemSize, count)
  IN  [i \in Cells |-> back[i]]

memmove(m, dest, src, count) ==
  IF \/ dest > src /\ dest - src >= count
     \/ src > dest /\ src - dest >= count
  THEN memcpy(m, dest, src, count)
  ELSE CopiedThrough(m, dest, src, count)

\* The first index from which on the condition fails; the loop must not leave memory.
Scan(from, Goes(_)) == Min({i \in from .. MemSize - 1 : ~Goes(i)})

strlen(m, str) == Scan(str, LAMBDA i : m[i] # 0) - str

strcpy(m, dest, src) == memcpy(m, dest, src, strlen(m, src) + 1)

\* The first loop ends behind the terminator or when n characters are copied.
strncpy(m, dest, src, n) ==
  LET copied == Min({n, strlen(m, src) + 1})
  IN  memset(memcpy(m, dest, src, copied), dest + copied, 0, n - copied)

\* The string that strdup copies to memory of its own.
strdup(m, str) == [i \in 1 .. strlen(m, str) + 1 |-> m[str + i - 1]]
-----------------------------------------------------------------------------
(* What the calls answer *)

tolower(c) == IF c \in Upper THEN Lower[c] ELSE c
Unsigned(c) == c % 256

\* Where two parts of memory differ.
Unlike(m, lhs, rhs, count) ==
  {i \in 0 .. count - 1 : {lhs + i, rhs + i} \subseteq Cells /\ m[lhs + i] # m[rhs + i]}

memcmp(m, lhs, rhs, count) ==
  LET unlike == Unlike(m, lhs, rhs, count)
  IN  IF unlike = {} THEN 0 ELSE m[lhs + Min(unlike)] - m[rhs + Min(unlike)]

\* Where two strings end or differ.
Meet(m, lhs, rhs, Same(_, _)) ==
  Min({i \in Cells : /\ {lhs + i, rhs + i} \subseteq Cells
                     /\ m[lhs + i] = 0 \/ ~Same(m[lhs + i], m[rhs + i])})

Equal(c, d) == c = d
EqualFolded(c, d) == tolower(c) = tolower(d)

strcmp(m, lhs, rhs) ==
  LET i == Meet(m, lhs, rhs, Equal) IN m[lhs + i] - m[rhs + i]

\* Goes on behind the end of two equal strings.
strncmp(m, lhs, rhs, count) ==
  LET unlike == Unlike(m, lhs, rhs, count)
  IN  IF unlike = {} THEN 0
      ELSE Unsigned(m[lhs + Min(unlike)]) - Unsigned(m[rhs + Min(unlike)])

strcasecmp(m, lhs, rhs) ==
  LET i == Meet(m, lhs, rhs, EqualFolded) IN tolower(m[lhs + i]) - tolower(m[rhs + i])

\* The answer is the difference of the characters as they are, not folded.
strncasecmp(m, lhs, rhs, count) ==
  LET ends == {i \in 0 .. count - 1 :
                 /\ {lhs + i, rhs + i} \subseteq Cells
                 /\ \/ m[lhs + i] = 0 \/ m[rhs + i] = 0
                    \/ ~EqualFolded(m[lhs + i], m[rhs + i])}
  IN  IF ends = {} THEN 0
      ELSE Unsigned(m[lhs + Min(ends)]) - Unsigned(m[rhs + Min(ends)])

\* The terminator is found, too.
strchr(m, str, ch) ==
  LET stop == Scan(str, LAMBDA i : m[i] # ch /\ m[i] # 0)
  IN  IF m[stop] = ch THEN stop ELSE NULL

strrchr(m, str, ch) ==
  LET found == {i \in str .. str + strlen(m, str) : m[i] = ch}
  IN  IF found = {} THEN NULL ELSE Max(found)

\* Nothing is found in the empty string, not even the empty string.
strstr(m, str, substr) ==
  LET n == strlen(m, substr)
      found == {i \in str .. str + strlen(m, str) - 1 : memcmp(m, i, substr, n) = 0}
  IN  IF found = {} THEN NULL ELSE Min(found)

\* The low six bits of a byte that continues a character.
Rest(byte) == byte % 64

\* <<unicode, length>>
utf8_str_to_unicode_num(str) ==
  CASE str[1] <= 127 -> <<str[1], 1>>
    [] str[1] \in 128 .. 223 -> <<(str[1] % 32) * 64 + Rest(str[2]), 2>>
    [] str[1] \in 224 .. 239 ->
         <<(str[1] % 16) * 4096 + Rest(str[2]) * 64 + Rest(str[3]), 3>>
    [] str[1] \in 240 .. 247 ->
         <<(str[1] % 8) * 262144 + Rest(str[2]) * 4096 + Rest(str[3]) * 64 + Rest(str[4]), 4>>
    [] OTHER -> <<0, 0>>
-----------------------------------------------------------------------------
(* Calls of a program, which owns the memory and ends its strings *)

IsString(p) == \E i \in p .. MemSize - 1 : mem[i] = 0
Fits(p, count) == p + count <= MemSize
Apart(p, q, count) == p + count <= q \/ q + count <= p

Init == mem = [i \in Cells |-> 0]

Memset(p, ch, count) == Fits(p, count) /\ mem' = memset(mem, p, ch, count)
Memcpy(p, q, count) ==
  Fits(p, count) /\ Fits(q, count) /\ Apart(p, q, count) /\ mem' = memcpy(mem, p, q, count)
Memmove(p, q, count) == Fits(p, count) /\ Fits(q, count) /\ mem' = memmove(mem, p, q, count)
Strcpy(p, q) ==
  /\ IsString(q) /\ Fits(p, strlen(mem, q) + 1) /\ Apart(p, q, strlen(mem, q) + 1)
  /\ mem' = strcpy(mem, p, q)
Strncpy(p, q, n) ==
  /\ IsString(q) /\ Fits(p, n) /\ Apart(p, q, Max({n, strlen(mem, q) + 1}))
  /\ mem' = strncpy(mem, p, q, n)

Next ==
  \/ \E p \in Cells, ch \in Chars, count \in 0 .. MemSize : Memset(p, ch, count)
  \/ \E p, q \in Cells : Strcpy(p, q)
  \/ \E p, q \in Cells, n \in 0 .. MemSize :
       Memcpy(p, q, n) \/ Memmove(p, q, n) \/ Strncpy(p, q, n)
-----------------------------------------------------------------------------
(* Properties *)

Bytes(m, p, count) == [i \in 1 .. count |-> m[p + i - 1]]
String(p) == Bytes(mem, p, strlen(mem, p))
Strings == {p \in Cells : IsString(p)}
Outside(m, n, p, count) == \A i \in Cells \ (p .. p + count - 1) : n[i] = m[i]

\* Memory moves as it was, also onto itself.
Moved ==
  \A p, q \in Cells, n \in 0 .. MemSize :
    Fits(p, n) /\ Fits(q, n) =>
      LET m == memmove(mem, p, q, n)
      IN  Bytes(m, p, n) = Bytes(mem, q, n) /\ Outside(mem, m, p, n)

Copied ==
  \A p \in Cells, q \in Strings :
    LET n == strlen(mem, q)
    IN  /\ strdup(mem, q) = String(q) \o <<0>>
        /\ Fits(p, n + 1) /\ Apart(p, q, n + 1) =>
             /\ Bytes(strcpy(mem, p, q), p, n + 1) = String(q) \o <<0>>
             /\ Outside(mem, strcpy(mem, p, q), p, n + 1)
             /\ \A k \in 0 .. n + 1 :
                  /\ Bytes(strncpy(mem, p, q, k), p, k) = SubSeq(String(q) \o <<0>>, 1, k)
                  /\ Outside(mem, strncpy(mem, p, q, k), p, k)

Folded(str) == [i \in DOMAIN str |-> tolower(str[i])]

\* strncmp is asked for no more than one of the strings and its end.
Compared ==
  \A p, q \in Strings :
    /\ strcmp(mem, p, q) = 0 <=> String(p) = String(q)
    /\ strcmp(mem, p, q) = -strcmp(mem, q, p)
    /\ strcasecmp(mem, p, q) = 0 <=> Folded(String(p)) = Folded(String(q))
    /\ \A k \in 0 .. Min({strlen(mem, p), strlen(mem, q)}) + 1 :
         LET lhs == SubSeq(String(p) \o <<0>>, 1, k)
             rhs == SubSeq(String(q) \o <<0>>, 1, k)
         IN  /\ strncmp(mem, p, q, k) = 0 <=> lhs = rhs
             /\ lhs = rhs => strncasecmp(mem, p, q, k) = 0
             /\ strncasecmp(mem, p, q, k) = 0 => Folded(lhs) = Folded(rhs)

Found ==
  \A p \in Strings, ch \in Chars :
    LET places == {i \in p .. p + strlen(mem, p) : mem[i] = ch}
    IN  /\ strchr(mem, p, ch) = IF places = {} THEN NULL ELSE Min(places)
        /\ \A q \in Strings :
             LET sub == String(q)
                 starts == {i \in p .. p + strlen(mem, p) - Len(sub) :
                              Bytes(mem, i, Len(sub)) = sub}
             IN  sub # <<>> => strstr(mem, p, q) = IF starts = {} THEN NULL ELSE Min(starts)
        /\ ch # 0 => (strrchr(mem, p, ch) = NULL <=> strchr(mem, p, ch) = NULL)
        /\ strrchr(mem, p, 0) = strchr(mem, p, 0)

Continued(n) == 128 + (n % 64)

\* The bytes of a character in UTF-8.
Encoded(u) ==
  CASE u < 128 -> <<u>>
    [] u \in 128 .. 2047 -> <<192 + u \div 64, Continued(u)>>
    [] u \in 2048 .. 65535 -> <<224 + u \div 4096, Continued(u \div 64), Continued(u)>>
    [] u > 65535 -> <<240 + u \div 262144, Continued(u \div 4096), Continued(u \div 64),
                      Continued(u)>>

\* On both sides of every change of length.
Decoded ==
  \A u \in {0, 127, 128, 2047, 2048, 65535, 65536, 1114111} :
    utf8_str_to_unicode_num(Encoded(u)) = <<u, Len(Encoded(u))>>

\* The memory that a call writes holds what the call is for and the rest of it is as
\* before, whatever overlaps (memmove), and comparing, searching and decoding tell what
\* is there and stop at the terminator (strcmp).
StringsAsPromised == Moved /\ Copied /\ Compared /\ Found /\ Decoded
=============================================================================
