--------------------------- MODULE LibraryProofs ---------------------------
(***************************************************************************)
(* Proofs about what MCLibraries checks.  Pipe, for every number of        *)
(* threads, every capacity and every number of writes: the spin lock       *)
(* protects the buffer, the pipe is first in first out, and it implements  *)
(* Channel.  Stdio, for every file and every size of the buffer: streams   *)
(* keep the order of their bytes.  Containers, for every set of elements:  *)
(* the list and the vector implement a sequence.                           *)
(***************************************************************************)
EXTENDS Pipe, Stdio, Containers, SequenceTheorems, WellFoundedInduction, TLAPS
-----------------------------------------------------------------------------
(* The pipe *)

\* What a thread has in hand between two of its steps under the lock: a writer
\* has copied its whole message into the empty pipe, a reader has copied the
\* front of the pipe.
WriterReady(p) ==
  pc[p] = "w_size" =>
    size = 0 /\ \A i \in 1 .. Len(data[p]) : buf[i] = data[p][i]
ReaderReady(p) ==
  pc[p] = "r_shift" =>
    Len(data[p]) <= size /\ data[p] = SubSeq(buf, 1, Len(data[p]))
MessageFits(p) ==
  pc[p] \in {"w_lock", "w_check", "w_size"} => Len(data[p]) <= PipeMaxSize
InHand == \A p \in Procs : WriterReady(p) /\ ReaderReady(p) /\ MessageFits(p)

\* The part of the buffer in use holds bytes of messages.
ContentsAreBytes == \A i \in 1 .. size : buf[i] \in Byte

\* The inductive invariant.
PipeInv == TypeOK /\ ContentsAreBytes /\ InHand /\ BufferExclusive /\ FifoOrder
-----------------------------------------------------------------------------
(* The bytes in the pipe *)

LEMMA BufIsSeq ==
  ASSUME TypeOK
  PROVE  buf \in Seq(Byte \cup {Zero}) /\ Len(buf) = PipeMaxSize
BY PipeAssumption DEF TypeOK

LEMMA ContentsIsSeq ==
  ASSUME TypeOK, ContentsAreBytes
  PROVE  Contents \in Seq(Byte) /\ Len(Contents) = size
<1> DEFINE S == Byte
<1>1. size \in Int /\ size >= 0
  BY PipeAssumption DEF TypeOK
<1>2. \A i \in 1 .. size : buf[i] \in S
  BY DEF ContentsAreBytes
<1> HIDE DEF S
<1>3. SubSeq(buf, 1, size) \in Seq(S)
      /\ Len(SubSeq(buf, 1, size)) = IF 1 <= size THEN size - 1 + 1 ELSE 0
  BY <1>1, <1>2, SubSeqProperties
<1> QED BY <1>1, <1>3 DEF Contents, S

\* The front of the pipe and the rest of it make up the whole.
LEMMA FrontAndRest ==
  ASSUME TypeOK, ContentsAreBytes, NEW n \in 0 .. size
  PROVE  /\ SubSeq(buf, 1, n) \in Seq(Byte)
         /\ Len(SubSeq(buf, 1, n)) = n
         /\ SubSeq(buf, n + 1, size) \in Seq(Byte)
         /\ Len(SubSeq(buf, n + 1, size)) = size - n
         /\ Contents = SubSeq(buf, 1, n) \o SubSeq(buf, n + 1, size)
<1> DEFINE S == Byte
<1>1. size \in Nat /\ PipeMaxSize \in Nat /\ size <= PipeMaxSize /\ n \in Nat
      /\ n <= size
  BY PipeAssumption DEF TypeOK
<1>2. \A i \in 1 .. size : buf[i] \in S
  BY DEF ContentsAreBytes
<1> HIDE DEF S
<1>3. /\ SubSeq(buf, 1, n) \in Seq(S)
      /\ Len(SubSeq(buf, 1, n)) = IF 1 <= n THEN n - 1 + 1 ELSE 0
  BY <1>1, <1>2, SubSeqProperties
<1>4. /\ SubSeq(buf, n + 1, size) \in Seq(S)
      /\ Len(SubSeq(buf, n + 1, size)) =
           IF n + 1 <= size THEN size - (n + 1) + 1 ELSE 0
  BY <1>1, <1>2, SubSeqProperties
<1> DEFINE T == Byte \cup {Zero}
<1>5. buf \in Seq(T) /\ Len(buf) = PipeMaxSize
  BY BufIsSeq
<1> HIDE DEF T
<1>6. 1 \in 1 .. Len(buf) + 1 /\ n \in 1 - 1 .. Len(buf) /\ size \in n .. Len(buf)
  BY <1>1, <1>5
<1>7. SubSeq(buf, 1, n) \o SubSeq(buf, n + 1, size) = SubSeq(buf, 1, size)
  BY <1>5, <1>6, ConcatAdjacentSubSeq
<1> QED BY <1>1, <1>3, <1>4, <1>7 DEF S, Contents

\* What is left of the pipe's contents is a part of the buffer.
LEMMA RestOfContents ==
  ASSUME TypeOK, ContentsAreBytes, NEW n \in 0 .. size
  PROVE  SubSeq(SubSeq(buf, 1, size), n + 1, size) = SubSeq(buf, n + 1, size)
<1> DEFINE S == Byte
           C == SubSeq(buf, 1, size)
           L == SubSeq(C, n + 1, size)
           R == SubSeq(buf, n + 1, size)
<1>1. size \in Nat /\ n \in Nat /\ n <= size
  BY PipeAssumption DEF TypeOK
<1>2. \A i \in 1 .. size : buf[i] \in S
  BY DEF ContentsAreBytes
<1> HIDE DEF S
<1>3. \A i \in 1 .. size - 1 + 1 : C[i] = buf[1 + i - 1]
  <2>1. size \in Int
    BY <1>1
  <2> QED BY <1>2, <2>1, SubSeqProperties
<1>4. \A i \in 1 .. size : C[i] = buf[i]
  <2> HIDE DEF C
  <2> QED BY <1>1, <1>3
<1>5. n + 1 \in Int /\ size \in Int /\ \A i \in n + 1 .. size : buf[i] \in S
  BY <1>1, <1>2
<1> HIDE DEF C
<1>6. \A i \in n + 1 .. size : C[i] \in S
  BY <1>1, <1>4, <1>5
<1>7. /\ L \in Seq(S)
      /\ Len(L) = IF n + 1 <= size THEN size - (n + 1) + 1 ELSE 0
      /\ \A i \in 1 .. size - (n + 1) + 1 : L[i] = C[n + 1 + i - 1]
  BY <1>5, <1>6, SubSeqProperties
<1>8. /\ R \in Seq(S)
      /\ Len(R) = IF n + 1 <= size THEN size - (n + 1) + 1 ELSE 0
      /\ \A i \in 1 .. size - (n + 1) + 1 : R[i] = buf[n + 1 + i - 1]
  BY <1>5, SubSeqProperties
<1> HIDE DEF L, R
<1>9. Len(L) = Len(R) /\ \A i \in 1 .. Len(L) : L[i] = R[i]
  BY <1>1, <1>4, <1>7, <1>8
<1>10. L = R
  BY <1>7, <1>8, <1>9, SeqEqual
<1> QED BY <1>10 DEF L, R, C

LEMMA ThreeParts ==
  ASSUME NEW s \in Seq(Byte), NEW t \in Seq(Byte), NEW u \in Seq(Byte)
  PROVE  s \o (t \o u) = (s \o t) \o u
<1> DEFINE S == Byte
           L == s \o (t \o u)
           R == (s \o t) \o u
<1>0. s \in Seq(S) /\ t \in Seq(S) /\ u \in Seq(S)
  OBVIOUS
<1> HIDE DEF S
<1>1. s \o t \in Seq(S) /\ t \o u \in Seq(S)
  BY <1>0, ConcatProperties
<1>2. L \in Seq(S) /\ R \in Seq(S)
  BY <1>0, <1>1, ConcatProperties
<1>3. Len(L) = Len(R) /\ \A i \in 1 .. Len(L) : L[i] = R[i]
  BY <1>0, <1>1, <1>2
<1> HIDE DEF L, R
<1>4. L = R
  BY <1>2, <1>3, SeqEqual
<1> QED BY <1>4 DEF L, R

\* Without one of Write's and Read's two effects on the buffer nothing that
\* FifoOrder speaks of changes.
LEMMA SameContents ==
  ASSUME PipeInv, UNCHANGED <<buf, size, put, got>>
  PROVE  ContentsAreBytes' /\ FifoOrder'
BY DEF PipeInv, ContentsAreBytes, FifoOrder, Contents

\* A thread that moves to a place where it has nothing in hand but perhaps a
\* message that fits.
LEMMA InHandKept ==
  ASSUME TypeOK, InHand, NEW p \in Procs,
         NEW l \in {"idle", "w_lock", "w_check", "r_lock", "r_check"},
         pc' = [pc EXCEPT ![p] = l], UNCHANGED <<buf, size, data>>,
         l \in {"w_lock", "w_check"} => Len(data[p]) <= PipeMaxSize
  PROVE  InHand'
<1> SUFFICES ASSUME NEW q \in Procs
             PROVE  WriterReady(q)' /\ ReaderReady(q)' /\ MessageFits(q)'
  BY DEF InHand
<1>1. CASE q = p
  <2>1. pc'[q] = l
    BY <1>1 DEF TypeOK
  <2> QED BY <1>1, <2>1 DEF WriterReady, ReaderReady, MessageFits
<1>2. CASE q # p
  <2>1. pc'[q] = pc[q]
    BY <1>2 DEF TypeOK
  <2>2. WriterReady(q) /\ ReaderReady(q) /\ MessageFits(q)
    BY DEF InHand
  <2> QED BY <2>1, <2>2 DEF WriterReady, ReaderReady, MessageFits
<1> QED BY <1>1, <1>2

-----------------------------------------------------------------------------
(* The invariant *)

LEMMA InitInv == Init => PipeInv
<1> SUFFICES ASSUME Init PROVE PipeInv
  OBVIOUS
<1>1. TypeOK
  BY PipeAssumption DEF Init, TypeOK
<1>2. ContentsAreBytes /\ InHand
  BY PipeAssumption
  DEF Init, ContentsAreBytes, InHand, WriterReady, ReaderReady, MessageFits
<1>3. BufferExclusive
  BY PipeAssumption DEF Init, BufferExclusive, Holders
<1>4. Contents = <<>>
  BY SubSeqEmpty DEF Init, Contents
<1>5. FifoOrder
  BY <1>4 DEF Init, FifoOrder
<1> QED BY <1>1, <1>2, <1>3, <1>5 DEF PipeInv

LEMMA MessageType ==
  ASSUME NEW w \in 1 .. MaxWrites, NEW n \in 0 .. PipeMaxSize
  PROVE  Message(w, n) \in Seq(Byte) /\ Len(Message(w, n)) = n
BY PipeAssumption DEF Message, Byte

\* Write fills the empty pipe with its message.
LEMMA WriteDoneContents ==
  ASSUME TypeOK, InHand, NEW p \in Procs, WriteDone(p)
  PROVE  Contents = <<>> /\ Contents' = data[p]
<1> USE PipeAssumption
<1>1. /\ pc[p] = "w_size" /\ size = 0 /\ size' = Len(data[p]) /\ buf' = buf
      /\ data[p] \in Seq(Byte) /\ Len(data[p]) \in 0 .. PipeMaxSize
      /\ \A i \in 1 .. Len(data[p]) : buf[i] = data[p][i]
  BY DEF WriteDone, TypeOK, InHand, WriterReady, MessageFits
<1>2. Contents = <<>>
  BY <1>1, SubSeqEmpty DEF Contents
<1> DEFINE d == data[p]
           S == Byte
           k == Len(d)
<1>3. d \in Seq(S) /\ k \in Nat /\ \A i \in 1 .. k : buf[i] = d[i]
  BY <1>1
<1>4. \A i \in 1 .. k : d[i] \in S
  BY <1>1
<1> HIDE DEF d, S
<1>5. \A i \in 1 .. k : buf[i] \in S
  BY <1>3, <1>4
<1>6. /\ SubSeq(buf, 1, k) \in Seq(S)
      /\ Len(SubSeq(buf, 1, k)) = IF 1 <= k THEN k - 1 + 1 ELSE 0
      /\ \A i \in 1 .. k - 1 + 1 : SubSeq(buf, 1, k)[i] = buf[1 + i - 1]
  <2> HIDE DEF k
  <2> QED BY <1>3, <1>5, SubSeqProperties
<1>7. Len(SubSeq(buf, 1, k)) = k
  <2> HIDE DEF k
  <2> QED BY <1>3, <1>6
<1>8. \A i \in 1 .. Len(SubSeq(buf, 1, k)) : SubSeq(buf, 1, k)[i] = d[i]
  <2> HIDE DEF k
  <2> QED BY <1>3, <1>6, <1>7
<1>9. SubSeq(buf, 1, k) = d
  BY <1>3, <1>6, <1>7, <1>8, SeqEqual
<1> QED BY <1>1, <1>2, <1>9 DEF Contents, d

\* Read takes the front of the pipe and leaves the rest.
LEMMA ReadDoneContents ==
  ASSUME TypeOK, ContentsAreBytes, InHand, NEW p \in Procs, ReadDone(p)
  PROVE  /\ Len(data[p]) \in 0 .. size
         /\ data[p] = SubSeq(buf, 1, Len(data[p]))
         /\ Contents' = SubSeq(buf, Len(data[p]) + 1, size)
         /\ ContentsAreBytes'
         /\ buf' \in [1 .. PipeMaxSize -> Byte \cup {Zero}]
<1> USE PipeAssumption
<1> DEFINE n == Len(data[p])
           S == Byte
<1>1. /\ pc[p] = "r_shift" /\ size' = size - n /\ buf' = Shifted(n)
      /\ n \in 0 .. size /\ data[p] = SubSeq(buf, 1, n)
      /\ size \in 0 .. PipeMaxSize
  BY DEF ReadDone, TypeOK, InHand, ReaderReady
<1>2. buf \in [1 .. PipeMaxSize -> Byte \cup {Zero}] /\ \A i \in 1 .. size : buf[i] \in S
  BY DEF TypeOK, ContentsAreBytes
<1> HIDE DEF n, S
<1>3. \A i \in 1 .. size - n : buf'[i] = buf[i + n] /\ buf[i + n] \in S
  BY <1>1, <1>2 DEF Shifted
<1>4. buf' \in [1 .. PipeMaxSize -> Byte \cup {Zero}]
  BY <1>1, <1>2 DEF Shifted
<1>5. ContentsAreBytes'
  BY <1>1, <1>3 DEF ContentsAreBytes, S
<1> DEFINE L == SubSeq(buf', 1, size - n)
           R == SubSeq(buf, n + 1, size)
           k == size - n
<1>6. size \in Nat /\ n \in Nat /\ n <= size
  BY <1>1
<1>7. /\ L \in Seq(S) /\ Len(L) = IF 1 <= k THEN k - 1 + 1 ELSE 0
      /\ \A i \in 1 .. k - 1 + 1 : L[i] = buf'[1 + i - 1]
  <2>1. k \in Int /\ \A i \in 1 .. k : buf'[i] \in S
    BY <1>3, <1>6
  <2> QED BY <2>1, SubSeqProperties
<1>8. /\ R \in Seq(S)
      /\ Len(R) = IF n + 1 <= size THEN size - (n + 1) + 1 ELSE 0
      /\ \A i \in 1 .. size - (n + 1) + 1 : R[i] = buf[n + 1 + i - 1]
  <2>1. n + 1 \in Int /\ size \in Int /\ \A i \in n + 1 .. size : buf[i] \in S
    BY <1>2, <1>6
  <2> QED BY <2>1, SubSeqProperties
<1> HIDE DEF L, R
<1>9. Len(L) = Len(R) /\ \A i \in 1 .. Len(L) : L[i] = R[i]
  BY <1>3, <1>6, <1>7, <1>8
<1>10. L = R
  BY <1>7, <1>8, <1>9, SeqEqual
<1> QED BY <1>1, <1>4, <1>5, <1>10 DEF L, R, Contents, n

LEMMA NextInv == PipeInv /\ [Next]_vars => PipeInv'
<1> SUFFICES ASSUME PipeInv, [Next]_vars PROVE PipeInv'
  OBVIOUS
<1>0. TypeOK /\ ContentsAreBytes /\ InHand /\ BufferExclusive /\ FifoOrder
  BY DEF PipeInv
<1> USE PipeAssumption
<1>1. ASSUME NEW p \in Procs, NEW n \in 0 .. PipeMaxSize + 1, Write(p, n)
      PROVE  PipeInv'
  <2>1. CASE TooLarge(n)
    <3>1. UNCHANGED <<buf, size, lock, isBlocking, pc, data, count, put, got, dead>>
          /\ writes < MaxWrites /\ writes' = writes + 1
      BY <1>1, <2>1 DEF Write
    <3> QED
      BY <1>0, <3>1
      DEF PipeInv, TypeOK, ContentsAreBytes, InHand, WriterReady, ReaderReady,
          MessageFits, BufferExclusive, Holders, FifoOrder, Contents
  <2>2. CASE ~TooLarge(n)
    <3> DEFINE M == Message(writes + 1, n)
    <3>1. /\ pc[p] = "idle" /\ writes < MaxWrites /\ writes' = writes + 1
          /\ pc' = [pc EXCEPT ![p] = "w_lock"]
          /\ data' = [data EXCEPT ![p] = M]
          /\ UNCHANGED <<buf, size, lock, isBlocking, count, put, got, dead>>
      BY <1>1, <2>2 DEF Write, Goto
    <3>2. writes + 1 \in 1 .. MaxWrites /\ n \in 0 .. PipeMaxSize
      BY <1>0, <2>2, <3>1 DEF TooLarge, TypeOK
    <3>3. M \in Seq(Byte) /\ Len(M) = n
      BY <3>2, MessageType
    <3> HIDE DEF M
    <3>4. TypeOK'
      BY <1>0, <3>1, <3>2, <3>3 DEF TypeOK
    <3>5. InHand'
      BY <1>0, <3>1, <3>2, <3>3
      DEF TypeOK, InHand, WriterReady, ReaderReady, MessageFits
    <3>6. BufferExclusive'
      BY <1>0, <3>1 DEF TypeOK, BufferExclusive, Holders
    <3> QED BY <3>1, <3>4, <3>5, <3>6, SameContents DEF PipeInv
  <2> QED BY <2>1, <2>2
<1>2. ASSUME NEW p \in Procs, NEW n \in Counts, Read(p, n)
      PROVE  PipeInv'
  <2>1. /\ pc[p] = "idle" /\ pc' = [pc EXCEPT ![p] = "r_lock"]
        /\ count' = [count EXCEPT ![p] = n]
        /\ UNCHANGED <<buf, size, lock, isBlocking, data, writes, put, got, dead>>
    BY <1>2 DEF Read, Goto
  <2>2. TypeOK'
    BY <1>0, <2>1 DEF TypeOK
  <2>3. InHand' /\ BufferExclusive'
    <3>1. InHand'
      BY <1>0, <2>1, InHandKept DEF PipeInv
    <3>2. BufferExclusive'
      BY <1>0, <2>1 DEF TypeOK, BufferExclusive, Holders
    <3> QED BY <3>1, <3>2
  <2> QED BY <2>1, <2>2, <2>3, SameContents DEF PipeInv
<1>3. ASSUME NEW p \in Procs, WriteLock(p) \/ ReadLock(p)
      PROVE  PipeInv'
  <2>1. /\ lock = None /\ lock' = p
        /\ \/ pc[p] = "w_lock" /\ pc' = [pc EXCEPT ![p] = "w_check"]
           \/ pc[p] = "r_lock" /\ pc' = [pc EXCEPT ![p] = "r_check"]
        /\ UNCHANGED <<buf, size, isBlocking, data, count, writes, put, got, dead>>
    BY <1>3 DEF WriteLock, ReadLock, Lock, Goto
  <2>2. TypeOK'
    BY <1>0, <2>1 DEF TypeOK
  <2>3. InHand'
    <3>1. pc[p] = "w_lock" => Len(data[p]) <= PipeMaxSize
      BY <1>0 DEF InHand, MessageFits
    <3>2. CASE pc[p] = "w_lock" /\ pc' = [pc EXCEPT ![p] = "w_check"]
      BY <1>0, <2>1, <3>1, <3>2, InHandKept
    <3>3. CASE pc[p] = "r_lock" /\ pc' = [pc EXCEPT ![p] = "r_check"]
      BY <1>0, <2>1, <3>3, InHandKept
    <3> QED BY <2>1, <3>2, <3>3
  <2>4. BufferExclusive'
    <3>1. \A q \in Procs : q \in Holders' <=> q = p
      <4>1. \A q \in Procs : pc[q] \notin {"w_check", "w_size", "r_check", "r_shift"}
        BY <1>0, <2>1 DEF BufferExclusive, Holders
      <4>2. pc'[p] \in {"w_check", "r_check"} /\ \A q \in Procs : q # p => pc'[q] = pc[q]
        BY <1>0, <2>1 DEF TypeOK
      <4> QED BY <4>1, <4>2 DEF Holders
    <3> QED BY <2>1, <3>1 DEF BufferExclusive
  <2> QED BY <2>1, <2>2, <2>3, <2>4, SameContents DEF PipeInv
<1>4. ASSUME NEW p \in Procs, WriteWait(p) \/ ReadEmpty(p)
      PROVE  PipeInv'
  <2>1. /\ lock' = None
        /\ \/ pc[p] = "w_check" /\ pc' = [pc EXCEPT ![p] = "w_lock"]
           \/ pc[p] = "r_check" /\ pc' = [pc EXCEPT ![p] = "r_lock"]
           \/ pc[p] = "r_check" /\ pc' = [pc EXCEPT ![p] = "idle"]
        /\ UNCHANGED <<buf, size, isBlocking, data, count, writes, put, got, dead>>
    BY <1>4 DEF WriteWait, ReadEmpty, Unlock, Goto
  <2>2. TypeOK'
    BY <1>0, <2>1 DEF TypeOK
  <2>3. InHand'
    <3>1. pc[p] = "w_check" => Len(data[p]) <= PipeMaxSize
      BY <1>0 DEF InHand, MessageFits
    <3>2. CASE pc[p] = "w_check" /\ pc' = [pc EXCEPT ![p] = "w_lock"]
      BY <1>0, <2>1, <3>1, <3>2, InHandKept
    <3>3. CASE pc[p] = "r_check" /\ pc' = [pc EXCEPT ![p] = "r_lock"]
      BY <1>0, <2>1, <3>3, InHandKept
    <3>4. CASE pc[p] = "r_check" /\ pc' = [pc EXCEPT ![p] = "idle"]
      BY <1>0, <2>1, <3>4, InHandKept
    <3> QED BY <2>1, <3>2, <3>3, <3>4
  <2>4. BufferExclusive'
    <3>1. \A q \in Procs : q # p => pc[q] \notin {"w_check", "w_size", "r_check", "r_shift"}
      BY <1>0, <2>1 DEF BufferExclusive, Holders
    <3>2. pc'[p] \in {"w_lock", "r_lock", "idle"} /\ \A q \in Procs : q # p => pc'[q] = pc[q]
      BY <1>0, <2>1 DEF TypeOK
    <3>3. Holders' = {}
      BY <3>1, <3>2 DEF Holders
    <3> QED BY <2>1, <3>3 DEF BufferExclusive
  <2> QED BY <2>1, <2>2, <2>3, <2>4, SameContents DEF PipeInv
<1>5. ASSUME NEW p \in Procs, WriteCopy(p)
      PROVE  PipeInv'
  <2>1. /\ pc[p] = "w_check" /\ pc' = [pc EXCEPT ![p] = "w_size"]
        /\ size = 0
        /\ buf' = [i \in 1 .. PipeMaxSize |->
                     IF i <= Len(data[p]) THEN data[p][i] ELSE buf[i]]
        /\ UNCHANGED <<size, lock, isBlocking, data, count, writes, put, got, dead>>
    BY <1>0, <1>5 DEF WriteCopy, MustWait, Goto, TypeOK
  <2>2. data[p] \in Seq(Byte) /\ Len(data[p]) <= PipeMaxSize
    BY <1>0, <2>1 DEF TypeOK, InHand, MessageFits
  <2>3. buf' \in [1 .. PipeMaxSize -> Byte \cup {Zero}]
    BY <1>0, <2>1, <2>2 DEF TypeOK
  <2>4. TypeOK'
    BY <1>0, <2>1, <2>3 DEF TypeOK
  <2>5. BufferExclusive'
    BY <1>0, <2>1 DEF TypeOK, BufferExclusive, Holders
  <2>6. \A q \in Procs : q # p => pc[q] \notin {"w_size", "r_shift"}
    BY <1>0, <2>1 DEF BufferExclusive, Holders
  <2>7. InHand'
    BY <1>0, <2>1, <2>2, <2>6
    DEF TypeOK, InHand, WriterReady, ReaderReady, MessageFits
  <2>8. Contents = <<>> /\ Contents' = <<>>
    BY <2>1, SubSeqEmpty DEF Contents
  <2>9. FifoOrder' /\ ContentsAreBytes'
    BY <1>0, <2>1, <2>8 DEF FifoOrder, ContentsAreBytes
  <2> QED BY <2>4, <2>5, <2>7, <2>9 DEF PipeInv
<1>6. ASSUME NEW p \in Procs, WriteDone(p)
      PROVE  PipeInv'
  <2>1. /\ pc[p] = "w_size" /\ pc' = [pc EXCEPT ![p] = "idle"]
        /\ size' = Len(data[p]) /\ lock' = None /\ put' = put \o data[p]
        /\ data' = [data EXCEPT ![p] = <<>>]
        /\ UNCHANGED <<buf, isBlocking, count, writes, got, dead>>
    BY <1>6 DEF WriteDone, Unlock, Goto
  <2>2. TypeOK' /\ ContentsAreBytes' /\ InHand' /\ BufferExclusive'
    <3>1. data[p] \in Seq(Byte) /\ Len(data[p]) \in 0 .. PipeMaxSize
          /\ \A i \in 1 .. Len(data[p]) : buf[i] = data[p][i]
      BY <1>0, <2>1 DEF TypeOK, InHand, WriterReady, MessageFits
    <3>2. put' \in Seq(Byte) /\ <<>> \in Seq(Byte)
      BY <1>0, <2>1, <3>1 DEF TypeOK
    <3>3. TypeOK'
      BY <1>0, <2>1, <3>1, <3>2 DEF TypeOK
    <3>4. ContentsAreBytes'
      BY <2>1, <3>1 DEF ContentsAreBytes
    <3>5. BufferExclusive'
      BY <1>0, <2>1 DEF TypeOK, BufferExclusive, Holders
    <3>6. \A q \in Procs : q # p => pc[q] \notin {"w_size", "r_shift"}
      BY <1>0, <2>1 DEF BufferExclusive, Holders
    <3>7. InHand'
      BY <1>0, <2>1, <3>6
      DEF TypeOK, InHand, WriterReady, ReaderReady, MessageFits
    <3> QED BY <3>3, <3>4, <3>5, <3>7
  <2>3. Contents = <<>> /\ Contents' = data[p]
    BY <1>0, <1>6, WriteDoneContents
  <2>4. FifoOrder'
    <3>1. put = got
      <4>1. got \in Seq(Byte)
        BY <1>0 DEF TypeOK
      <4> QED BY <1>0, <2>3, <4>1, ConcatEmptySeq DEF FifoOrder
    <3> QED BY <2>1, <2>3, <3>1 DEF FifoOrder
  <2> QED BY <2>2, <2>4 DEF PipeInv
<1>7. ASSUME NEW p \in Procs, ReadCopy(p)
      PROVE  PipeInv'
  <2> DEFINE n == ActuallyRead(p)
             D == SubSeq(buf, 1, n)
  <2>1. /\ pc[p] = "r_check" /\ pc' = [pc EXCEPT ![p] = "r_shift"]
        /\ data' = [data EXCEPT ![p] = D]
        /\ UNCHANGED <<buf, size, lock, isBlocking, count, writes, put, got, dead>>
    BY <1>7 DEF ReadCopy, Goto
  <2>2. n \in 0 .. size
    BY <1>0 DEF TypeOK, ActuallyRead
  <2> HIDE DEF n
  <2>3. D \in Seq(Byte) /\ Len(D) = n
    BY <1>0, <2>2, FrontAndRest
  <2>4. TypeOK'
    <3> HIDE DEF D
    <3> QED BY <1>0, <2>1, <2>3 DEF TypeOK
  <2>5. BufferExclusive'
    BY <1>0, <2>1 DEF TypeOK, BufferExclusive, Holders
  <2>6. InHand'
    <3>1. size \in Nat /\ n \in Nat /\ n <= size
      BY <1>0, <2>2 DEF TypeOK
    <3>2. D = SubSeq(buf, 1, Len(D))
      BY <2>3
    <3> HIDE DEF D
    <3> QED
      BY <1>0, <2>1, <2>3, <3>1, <3>2
      DEF TypeOK, InHand, WriterReady, ReaderReady, MessageFits
  <2> QED BY <2>1, <2>4, <2>5, <2>6, SameContents DEF PipeInv
<1>8. ASSUME NEW p \in Procs, ReadDone(p)
      PROVE  PipeInv'
  <2> DEFINE n == Len(data[p])
             rest == SubSeq(buf, n + 1, size)
  <2>1. /\ pc[p] = "r_shift" /\ pc' = [pc EXCEPT ![p] = "idle"]
        /\ size' = size - n /\ buf' = Shifted(n) /\ lock' = None
        /\ got' = got \o data[p]
        /\ data' = [data EXCEPT ![p] = <<>>]
        /\ UNCHANGED <<isBlocking, count, writes, put, dead>>
    BY <1>8 DEF ReadDone, Unlock, Goto
  <2>2. /\ n \in 0 .. size /\ data[p] = SubSeq(buf, 1, n)
        /\ Contents' = rest /\ ContentsAreBytes'
        /\ buf' \in [1 .. PipeMaxSize -> Byte \cup {Zero}]
    BY <1>0, <1>8, ReadDoneContents
  <2>3. data[p] \in Seq(Byte) /\ got \in Seq(Byte) /\ rest \in Seq(Byte)
    BY <1>0, <2>2, FrontAndRest DEF TypeOK
  <2>4. TypeOK'
    <3>1. got' \in Seq(Byte) /\ <<>> \in Seq(Byte)
      BY <2>1, <2>3
    <3>2. size' \in 0 .. PipeMaxSize
      BY <1>0, <2>1, <2>2 DEF TypeOK
    <3> HIDE DEF n, rest
    <3> QED BY <1>0, <2>1, <2>2, <3>1, <3>2 DEF TypeOK
  <2>5. BufferExclusive'
    BY <1>0, <2>1 DEF TypeOK, BufferExclusive, Holders
  <2>6. \A q \in Procs : q # p => pc[q] \notin {"w_size", "r_shift"}
    BY <1>0, <2>1 DEF BufferExclusive, Holders
  <2>7. InHand'
    BY <1>0, <2>1, <2>6
    DEF TypeOK, InHand, WriterReady, ReaderReady, MessageFits
  <2>8. FifoOrder'
    <3>1. put = got \o (data[p] \o rest)
      BY <1>0, <2>2, FrontAndRest DEF FifoOrder
    <3>2. got \o (data[p] \o rest) = (got \o data[p]) \o rest
      BY <2>3, ThreeParts
    <3> QED BY <2>1, <2>2, <3>1, <3>2 DEF FifoOrder
  <2> QED BY <2>2, <2>4, <2>5, <2>7, <2>8 DEF PipeInv
<1>9. ASSUME NEW b \in BOOLEAN, SetBlocking(b)
      PROVE  PipeInv'
  BY <1>0, <1>9
  DEF SetBlocking, PipeInv, TypeOK, ContentsAreBytes, InHand, WriterReady,
      ReaderReady, MessageFits, BufferExclusive, Holders, FifoOrder, Contents
<1>10. CASE UNCHANGED vars
  BY <1>0, <1>10
  DEF vars, PipeInv, TypeOK, ContentsAreBytes, InHand, WriterReady, ReaderReady,
      MessageFits, BufferExclusive, Holders, FifoOrder, Contents
<1> QED
  BY <1>1, <1>2, <1>3, <1>4, <1>5, <1>6, <1>7, <1>8, <1>9, <1>10 DEF Next, Step

-----------------------------------------------------------------------------
(* The theorems *)

\* However many threads call Write and Read and however they overlap, the
\* buffer is accessed by the holder of buf_access_lock_ only.
THEOREM LockProtectsBuffer == Spec => []BufferExclusive
<1>1. PipeInv => BufferExclusive
  BY DEF PipeInv
<1> QED BY InitInv, NextInv, <1>1, PTL DEF Spec

\* Whatever was written is what was read, followed by what is still in the
\* buffer: Write and Read lose, double, mix and reorder nothing.
THEOREM PipeIsFifo == Spec => []FifoOrder
<1>1. PipeInv => FifoOrder
  BY DEF PipeInv
<1> QED BY InitInv, NextInv, <1>1, PTL DEF Spec

\* The bytes of buf_ that size_ delimits are touched by two steps only: the end
\* of Write puts a whole message into the empty pipe, the end of Read takes a
\* portion from the front.
LEMMA NextChannel ==
  PipeInv /\ [Next]_vars => [ChannelSpec!Put \/ ChannelSpec!Take]_Contents
<1> SUFFICES ASSUME PipeInv, [Next]_vars
             PROVE  ChannelSpec!Put \/ ChannelSpec!Take \/ Contents' = Contents
  OBVIOUS
<1>0. TypeOK /\ ContentsAreBytes /\ InHand
  BY DEF PipeInv
<1>1. CASE UNCHANGED <<buf, size>>
  BY <1>1 DEF Contents
<1>2. ASSUME NEW p \in Procs, WriteDone(p)
      PROVE  ChannelSpec!Put \/ Contents' = Contents
  <2>1. Contents = <<>> /\ Contents' = data[p]
    BY <1>0, <1>2, WriteDoneContents
  <2>2. data[p] \in Seq(Byte) /\ Len(data[p]) \in 0 .. PipeMaxSize
    BY <1>0, <1>2, PipeAssumption DEF WriteDone, TypeOK, InHand, MessageFits
  <2>3. CASE Len(data[p]) = 0
    <3>1. data[p] = <<>>
      BY <2>2, <2>3
    <3> QED BY <2>1, <3>1
  <2>4. CASE Len(data[p]) # 0
    <3>1. /\ Len(data[p]) \in 1 .. PipeMaxSize
          /\ data[p] \in [1 .. Len(data[p]) -> Byte]
      BY <2>2, <2>4, PipeAssumption
    <3>2. data[p] \in UNION {[1 .. n -> Byte] : n \in 1 .. PipeMaxSize}
      BY <3>1
    <3> QED BY <2>1, <3>2 DEF ChannelSpec!Put
  <2> QED BY <2>3, <2>4
<1>3. ASSUME NEW p \in Procs, ReadDone(p)
      PROVE  ChannelSpec!Take \/ Contents' = Contents
  <2> DEFINE n == Len(data[p])
  <2>1. n \in 0 .. size /\ Contents' = SubSeq(buf, n + 1, size)
    BY <1>0, <1>3, ReadDoneContents
  <2>2. size \in 0 .. PipeMaxSize /\ Contents \in Seq(Byte) /\ Len(Contents) = size
    BY <1>0, ContentsIsSeq DEF TypeOK
  <2> HIDE DEF n
  <2>3. CASE n = 0
    <3>1. n + 1 = 1
      BY <2>3
    <3>2. Contents' = SubSeq(buf, 1, size)
      BY <2>1, <3>1, Zenon
    <3> QED BY <3>2, Zenon DEF Contents
  <2>4. CASE n # 0
    <3>1. SubSeq(buf, n + 1, size) = SubSeq(Contents, n + 1, size)
      <4>1. SubSeq(Contents, n + 1, size) = SubSeq(SubSeq(buf, 1, size), n + 1, size)
        BY DEF Contents
      <4> QED BY <1>0, <2>1, <2>2, <4>1, RestOfContents
    <3>2. n \in 1 .. Len(Contents)
      BY <2>1, <2>2, <2>4
    <3> QED BY <2>1, <2>2, <3>1, <3>2 DEF ChannelSpec!Take
  <2> QED BY <2>3, <2>4
<1>4. ASSUME NEW p \in Procs, WriteCopy(p)
      PROVE  Contents' = Contents
  <2>1. size = 0 /\ size' = 0
    BY <1>0, <1>4, PipeAssumption DEF WriteCopy, MustWait, TypeOK
  <2> QED BY <2>1, SubSeqEmpty DEF Contents
<1> QED
  BY <1>1, <1>2, <1>3, <1>4
  DEF Next, Step, vars, Write, WriteLock, WriteWait, Read, ReadLock, ReadEmpty,
      ReadCopy, SetBlocking

\* The pipe implements a first-in first-out channel: no caller can tell its
\* byte buffer, its size and its lock from a queue of bytes.
THEOREM PipeImplementsChannel == Spec => ImplementsChannel
<1>1. Init => ChannelSpec!Init
  BY SubSeqEmpty DEF Init, Contents, ChannelSpec!Init
<1> QED
  BY InitInv, NextInv, NextChannel, <1>1, PTL
  DEF Spec, ImplementsChannel, ChannelSpec!Spec
-----------------------------------------------------------------------------
(* The buffered streams *)

\* What the fields of the stream hold.
StreamTypes ==
  /\ use \in {"none", "file", "pipe", "fputc", "fwrite"}
  /\ content \in Seq(Nat) /\ offset \in Nat
  /\ buffer \in [0 .. BUF_SIZE - 1 -> Nat]
  /\ buf_size \in 0 .. BUF_SIZE /\ buf_pos \in 0 .. BUF_SIZE
  /\ mode \in FileModes
  /\ call \in [op : {"none", "fgetc", "fread", "fgets", "fwrite"}, size : Nat, wanted : Int,
               at : Nat, str : Seq(Nat), ret : Int]
  /\ from \in Nat /\ seen \in Seq(Nat) /\ handed \in Seq(Nat)

\* Between two uses there is no stream.
NoStream ==
  use = "none" =>
    /\ content = <<>> /\ offset = 0 /\ buf_size = 0 /\ buf_pos = 0 /\ call = Idle
    /\ from = 0 /\ seen = <<>> /\ handed = <<>>

\* The bytes str are those of the stream from the place at on.
ReadFrom(at, str) ==
  at + Len(str) <= Len(content) /\ \A i \in 1 .. Len(str) : str[i] = content[at + i]

\* The descriptor is ahead of the program by what is left in the buffer.
ReadsOn ==
  /\ buf_pos <= buf_size /\ offset <= Len(content)
  /\ offset = from + Len(seen) + buf_size - buf_pos
  /\ \A i \in buf_pos .. buf_size - 1 : buffer[i] = content[offset - buf_size + i + 1]

\* A call under way has what was read since it began and has still room.
CallGoesOn ==
  /\ call.at + Len(call.str) = from + Len(seen)
  /\ ReadFrom(call.at, call.str)
  /\ Len(call.str) < call.wanted /\ call.size # 0
  /\ call.op \in {"fgetc", "fread", "fgets"}
  /\ call.op = "fgetc" => call.wanted = 1
  /\ call.op = "fgets" => \A i \in 1 .. Len(call.str) : call.str[i] # Newline

ReadInv ==
  Reading =>
    /\ content = File
    /\ ReadsOn /\ ReadFrom(from, seen)
    /\ call.op # "fwrite"
    /\ call.ret = Running => CallGoesOn
    /\ call.op # "none" /\ call.ret # Running => Answered

\* What fputc has left in the buffer.
WriteInv ==
  ~Reading =>
    /\ handed = content \o Buffered
    /\ call.op \in {"none", "fwrite"} /\ call.ret # Running
    /\ call.op = "fwrite" => call.ret * call.size = call.wanted
    /\ use = "fputc" =>
         /\ buf_pos = buf_size
         /\ mode = "_IO_UNBUFFERED" => buf_size = 0
         /\ mode = "_IO_LINE_BUFFERED" => \A i \in 0 .. buf_size - 1 : buffer[i] # Newline
         /\ mode = "_IO_BLOCK_BUFFERED" => buf_size < BUF_SIZE
    /\ use # "fputc" => buf_size = 0 /\ buf_pos = 0

StreamInv == StreamTypes /\ NoStream /\ ReadInv /\ WriteInv

-----------------------------------------------------------------------------
LEMMA MinPair ==
  ASSUME NEW a \in Int, NEW b \in Int
  PROVE  Min({a, b}) = IF a <= b THEN a ELSE b
  <1> DEFINE m == IF a <= b THEN a ELSE b
  <1>1. m \in {a, b} /\ \A y \in {a, b} : m <= y
    OBVIOUS
  <1>2. \A x \in {a, b} : (\A y \in {a, b} : x <= y) => x = m
    OBVIOUS
  <1> QED
    BY <1>1, <1>2 DEF Min

\* A piece of a sequence is known by its elements.
LEMMA PieceIs ==
  ASSUME NEW s \in Seq(Nat), NEW at \in Nat, NEW str \in Seq(Nat),
         at + Len(str) <= Len(s), \A i \in 1 .. Len(str) : str[i] = s[at + i]
  PROVE  SubSeq(s, at + 1, at + Len(str)) = str
  <1> DEFINE q == SubSeq(s, at + 1, at + Len(str))
  <1>1. q \in Seq(Nat) /\ Len(q) = Len(str) /\ \A i \in 1 .. Len(str) : q[i] = s[at + i]
    <2>1. Len(str) \in Nat
      OBVIOUS
    <2>2. \A i \in at + 1 .. at + Len(str) : s[i] \in Nat
      BY <2>1
    <2>3. /\ q \in Seq(Nat)
          /\ Len(q) = IF at + 1 <= at + Len(str) THEN at + Len(str) - (at + 1) + 1 ELSE 0
          /\ \A i \in 1 .. at + Len(str) - (at + 1) + 1 : q[i] = s[at + 1 + i - 1]
      BY <2>1, <2>2, SubSeqProperties
    <2> HIDE DEF q
    <2>4. /\ Len(q) = Len(str) /\ at + Len(str) - (at + 1) + 1 = Len(str)
          /\ \A i \in 1 .. Len(str) : at + 1 + i - 1 = at + i
      BY ONLY <2>1, <2>3, at \in Nat
    <2>5. \A i \in 1 .. Len(str) : q[i] = s[at + i]
      BY ONLY <2>3, <2>4
    <2>6. \A i \in 1 .. Len(str) : str[i] = s[at + i]
      OBVIOUS
    <2> QED
      BY ONLY <2>3, <2>4, <2>5, <2>6
  <1> HIDE DEF q
  <1>2. q = str
    BY <1>1, SeqEqual
  <1> QED
    BY <1>2 DEF q

\* Where a call ends.
LEMMA EndIs ==
  ASSUME NEW at \in Nat, NEW k \in Nat, NEW wanted \in Int, NEW len \in Nat,
         at + k <= len, k <= wanted
  PROVE  /\ Min({at + wanted, len}) \in Int
         /\ at + k <= Min({at + wanted, len}) /\ Min({at + wanted, len}) <= len
         /\ k = wanted \/ at + k = len => Min({at + wanted, len}) = at + k
  <1> DEFINE w == at + wanted
  <1>1. w \in Int /\ len \in Int
    OBVIOUS
  <1> HIDE DEF w
  <1>2. Min({w, len}) = IF w <= len THEN w ELSE len
    BY ONLY <1>1, MinPair
  <1> QED
    BY <1>2 DEF w

\* What a call may bring, and the ends of lines in it.
Most(s, at, wanted) == SubSeq(s, at + 1, Min({at + wanted, Len(s)}))
NewlinesIn(q) == {i \in DOMAIN q : q[i] = Newline}

\* What a call brings that ended with its last byte, or with that of the file.
LEMMA MostIs ==
  ASSUME NEW s \in Seq(Nat), NEW at \in Nat, NEW str \in Seq(Nat), NEW wanted \in Int,
         at + Len(str) <= Len(s), \A i \in 1 .. Len(str) : str[i] = s[at + i],
         Len(str) <= wanted, Len(str) = wanted \/ at + Len(str) = Len(s)
  PROVE  Most(s, at, wanted) = str
  <1>1. Len(str) \in Nat /\ Len(s) \in Nat
    BY ONLY s \in Seq(Nat), str \in Seq(Nat)
  <1>2. Min({at + wanted, Len(s)}) = at + Len(str)
    BY ONLY <1>1, at \in Nat, wanted \in Int, at + Len(str) <= Len(s), Len(str) <= wanted,
            Len(str) = wanted \/ at + Len(str) = Len(s), EndIs
  <1>3. SubSeq(s, at + 1, at + Len(str)) = str
    BY PieceIs
  <1> QED
    BY ONLY <1>2, <1>3 DEF Most

\* What a call brings that ended with the first newline.
LEMMA LineIs ==
  ASSUME NEW s \in Seq(Nat), NEW at \in Nat, NEW str \in Seq(Nat), NEW wanted \in Int,
         at + Len(str) <= Len(s), \A i \in 1 .. Len(str) : str[i] = s[at + i],
         Len(str) <= wanted, str # <<>>, str[Len(str)] = Newline,
         \A i \in 1 .. Len(str) - 1 : str[i] # Newline
  PROVE  /\ NewlinesIn(Most(s, at, wanted)) # {}
         /\ SubSeq(Most(s, at, wanted), 1, Min(NewlinesIn(Most(s, at, wanted)))) = str
  <1> DEFINE k == Len(str)
             e == Min({at + wanted, Len(s)})
             most == Most(s, at, wanted)
             lines == NewlinesIn(most)
  <1>1. k \in Nat /\ k > 0 /\ Len(s) \in Nat
    BY ONLY s \in Seq(Nat), str \in Seq(Nat), str # <<>>, EmptySeq
  <1>2. e \in Int /\ at + k <= e /\ e <= Len(s)
    BY ONLY <1>1, at \in Nat, wanted \in Int, at + Len(str) <= Len(s), Len(str) <= wanted, EndIs
  <1>0. /\ \A i \in 1 .. k : str[i] = s[at + i]
        /\ str[k] = Newline /\ \A i \in 1 .. k - 1 : str[i] # Newline
    OBVIOUS
  <1> HIDE DEF e, k, most, lines
  <1>3. /\ most \in Seq(Nat) /\ Len(most) = e - at
        /\ \A i \in 1 .. e - at : most[i] = s[at + i]
    <2>1. \A i \in at + 1 .. e : s[i] \in Nat
      BY ONLY <1>2, at \in Nat, s \in Seq(Nat)
    <2>2. /\ most \in Seq(Nat)
          /\ Len(most) = IF at + 1 <= e THEN e - (at + 1) + 1 ELSE 0
          /\ \A i \in 1 .. e - (at + 1) + 1 : most[i] = s[at + 1 + i - 1]
      <3>1. at + 1 \in Int /\ most = SubSeq(s, at + 1, e)
        BY DEF e, most, Most
      <3> QED
        BY ONLY <3>1, <1>2, <2>1, SubSeqProperties
    <2>3. e - (at + 1) + 1 = e - at /\ at + 1 <= e
      BY ONLY <1>1, <1>2, at \in Nat
    <2>4. \A i \in 1 .. e - at : at + 1 + i - 1 = at + i
      BY ONLY <1>2, at \in Nat
    <2> QED
      BY ONLY <2>2, <2>3, <2>4
  <1>4. k \in 1 .. e - at /\ e - at \in Nat
    BY ONLY <1>1, <1>2, at \in Nat
  <1>5. k <= Len(most) /\ \A i \in 1 .. k : most[i] = str[i]
    <2>1. ASSUME NEW i \in 1 .. k PROVE most[i] = str[i]
      <3>1. i \in 1 .. e - at
        BY ONLY <1>4, i \in 1 .. k
      <3>2. most[i] = s[at + i]
        BY ONLY <1>3, <3>1
      <3>3. str[i] = s[at + i]
        BY ONLY <1>0
      <3> QED
        BY ONLY <3>2, <3>3
    <2>2. k <= Len(most)
      BY ONLY <1>3, <1>4
    <2> QED
      BY ONLY <2>1, <2>2
  <1>6. k \in lines /\ \A i \in lines : i \in Int /\ k <= i
    <2>1. DOMAIN most = 1 .. e - at
      BY ONLY <1>3
    <2>2. most[k] = Newline
      BY ONLY <1>0, <1>1, <1>5
    <2>3. \A i \in 1 .. k - 1 : most[i] # Newline
      <3>1. \A i \in 1 .. k - 1 : i \in 1 .. k
        BY ONLY <1>1
      <3> QED
        BY ONLY <1>0, <1>5, <3>1
    <2>4. \A i \in 1 .. e - at : k <= i \/ i \in 1 .. k - 1
      BY ONLY <1>1, <1>4
    <2> QED
      BY ONLY <1>4, <2>1, <2>2, <2>3, <2>4 DEF lines, NewlinesIn
  <1>7. Min(lines) = k
    <2>1. \A x \in lines : (\A y \in lines : x <= y) => x = k
      BY ONLY <1>1, <1>6
    <2>2. k \in lines /\ \A y \in lines : k <= y
      BY ONLY <1>6
    <2> QED
      BY ONLY <2>1, <2>2 DEF Min
  <1>8. SubSeq(most, 0 + 1, 0 + k) = str
    <2>1. 0 + k <= Len(most) /\ \A i \in 1 .. k : str[i] = most[0 + i]
      BY ONLY <1>1, <1>4, <1>5
    <2> QED
      BY ONLY <1>3, <2>1, str \in Seq(Nat), PieceIs DEF k
  <1>9. SubSeq(most, 1, k) = str
    BY ONLY <1>1, <1>8
  <1> QED
    BY ONLY <1>6, <1>7, <1>9 DEF lines, most

-----------------------------------------------------------------------------
(* Reading a byte *)

\* What fgetc does, from the buffer or with a new one: the next byte, or EOF at
\* the end of the stream only.
GivesNext(c) ==
  /\ buffer' \in [0 .. BUF_SIZE - 1 -> Nat] /\ offset' \in Nat
  /\ buf_size' \in 0 .. BUF_SIZE /\ buf_pos' \in 0 .. BUF_SIZE
  /\ buf_pos' <= buf_size' /\ offset' <= Len(content)
  /\ \A i \in buf_pos' .. buf_size' - 1 : buffer'[i] = content[offset' - buf_size' + i + 1]
  /\ \/ /\ c = EOF /\ from + Len(seen) = Len(content)
        /\ offset' = from + Len(seen) + buf_size' - buf_pos'
     \/ /\ c \in Nat /\ from + Len(seen) < Len(content) /\ c = content[from + Len(seen) + 1]
        /\ offset' = from + Len(seen) + 1 + buf_size' - buf_pos'

\* read gives nothing at the end of a file only.
LEMMA GivenIs ==
  ASSUME StreamTypes, Reading, offset <= Len(content), NEW n \in Given
  PROVE  n \in 0 .. BUF_SIZE /\ offset + n <= Len(content) /\ (n = 0 => offset = Len(content))
  <1> DEFINE r == Len(content) - offset
             most == Min({BUF_SIZE, r})
  <1>1. r \in Nat /\ BUF_SIZE \in Nat \ {0} /\ Len(content) \in Nat /\ offset \in Nat
    BY StdioAssumption DEF StreamTypes
  <1>2. n \in IF use = "file" THEN {most} ELSE 1 .. most
    BY DEF Given, Remaining
  <1> HIDE DEF most
  <1>3. most = IF BUF_SIZE <= r THEN BUF_SIZE ELSE r
    <2> HIDE DEF r
    <2> QED
      BY ONLY <1>1, MinPair DEF most
  <1> QED
    BY ONLY <1>1, <1>2, <1>3 DEF r

LEMMA FgetcGivesNext ==
  ASSUME StreamInv, Reading, NEW c, fgetc(c)
  PROVE  GivesNext(c)
  <1> DEFINE at == from + Len(seen)
  <1>0. /\ StreamTypes /\ ReadsOn /\ at \in Nat
        /\ content \in Seq(Nat) /\ Len(content) \in Nat
        /\ buffer \in [0 .. BUF_SIZE - 1 -> Nat] /\ offset \in Nat /\ BUF_SIZE \in Nat \ {0}
        /\ buf_size \in 0 .. BUF_SIZE /\ buf_pos \in 0 .. BUF_SIZE
    BY StdioAssumption DEF StreamInv, ReadInv, StreamTypes
  <1>1. /\ buf_pos <= buf_size /\ offset <= Len(content)
        /\ offset = at + buf_size - buf_pos
        /\ \A i \in buf_pos .. buf_size - 1 : buffer[i] = content[offset - buf_size + i + 1]
    BY <1>0 DEF ReadsOn
  <1> HIDE DEF at
  <1>2. CASE buf_size = buf_pos
    <2>1. PICK n \in Given : Refill(n) /\ c = IF n = 0 THEN EOF ELSE buffer'[buf_pos' - 1]
      BY <1>2 DEF fgetc
    <2>2. offset = at /\ n \in 0 .. BUF_SIZE /\ at + n <= Len(content) /\ (n = 0 => at = Len(content))
      BY <1>0, <1>1, <1>2, GivenIs
    <2>3. /\ buffer' = [i \in 0 .. BUF_SIZE - 1 |-> IF i < n THEN content[at + i + 1] ELSE buffer[i]]
          /\ offset' = at + n /\ buf_size' = n /\ buf_pos' = IF n = 0 THEN 0 ELSE 1
      <3>1. DOMAIN buffer = 0 .. BUF_SIZE - 1
        BY ONLY <1>0
      <3> QED
        BY ONLY <2>1, <2>2, <3>1 DEF Refill
    <2>4. \A i \in 0 .. n - 1 : content[at + i + 1] \in Nat
      BY ONLY <1>0, <2>2
    <2>5. buffer' \in [0 .. BUF_SIZE - 1 -> Nat]
      <3>1. ASSUME NEW i \in 0 .. BUF_SIZE - 1
            PROVE  (IF i < n THEN content[at + i + 1] ELSE buffer[i]) \in Nat
        <4>1. CASE i < n
          <5>1. i \in 0 .. n - 1
            BY ONLY <2>2, <4>1, i \in 0 .. BUF_SIZE - 1, StdioAssumption
          <5> QED
            BY ONLY <2>4, <4>1, <5>1
        <4>2. CASE ~(i < n)
          <5>1. buffer[i] \in Nat
            BY ONLY <1>0, i \in 0 .. BUF_SIZE - 1
          <5> QED
            BY ONLY <4>2, <5>1
        <4> QED
          BY ONLY <4>1, <4>2
      <3> QED
        BY ONLY <2>3, <3>1
    <2>6. \A i \in 0 .. n - 1 : buffer'[i] = content[at + i + 1]
      BY ONLY <1>0, <2>2, <2>3
    <2>7. \A i \in buf_pos' .. buf_size' - 1 : buffer'[i] = content[offset' - buf_size' + i + 1]
      <3> SUFFICES ASSUME NEW i \in buf_pos' .. buf_size' - 1
                   PROVE  buffer'[i] = content[offset' - buf_size' + i + 1]
        OBVIOUS
      <3>1. i \in 0 .. n - 1 /\ offset' - buf_size' = at
        BY ONLY <1>0, <2>2, <2>3, i \in buf_pos' .. buf_size' - 1
      <3> QED
        BY ONLY <2>6, <3>1
    <2>8. CASE n = 0
      BY ONLY <1>0, <2>1, <2>2, <2>3, <2>5, <2>7, <2>8 DEF GivesNext, at
    <2>9. CASE n # 0
      <3>1. c = content[at + 1] /\ c \in Nat /\ buf_pos' = 1 /\ at < Len(content)
        <4>1. 0 \in 0 .. n - 1 /\ buf_pos' = 1 /\ at + 0 + 1 = at + 1 /\ at < Len(content)
          BY ONLY <1>0, <2>2, <2>3, <2>9
        <4>2. c = buffer'[0] /\ 1 - 1 = 0
          BY ONLY <2>1, <2>9, <4>1
        <4> QED
          BY ONLY <2>4, <2>6, <4>1, <4>2
      <3>2. /\ offset' \in Nat /\ buf_size' \in 0 .. BUF_SIZE /\ buf_pos' \in 0 .. BUF_SIZE
            /\ buf_pos' <= buf_size' /\ offset' <= Len(content)
            /\ offset' = at + 1 + buf_size' - buf_pos'
        BY ONLY <1>0, <2>2, <2>3, <2>9
      <3> QED
        BY ONLY <2>5, <2>7, <3>1, <3>2 DEF GivesNext, at
    <2> QED
      BY <2>8, <2>9
  <1>3. CASE buf_size # buf_pos
    <2>1. c = buffer[buf_pos] /\ buf_pos' = buf_pos + 1 /\ UNCHANGED <<buffer, offset, buf_size>>
      BY <1>3 DEF fgetc
    <2>2. buf_pos \in buf_pos .. buf_size - 1 /\ offset - buf_size + buf_pos = at
      BY ONLY <1>0, <1>1, <1>3
    <2>3. c = content[at + 1] /\ c \in Nat /\ at < Len(content)
      BY ONLY <1>0, <1>1, <1>3, <2>1, <2>2
    <2>4. \A i \in buf_pos' .. buf_size' - 1 : buffer'[i] = content[offset' - buf_size' + i + 1]
      <3>1. \A i \in buf_pos' .. buf_size' - 1 : i \in buf_pos .. buf_size - 1
        BY ONLY <1>0, <2>1
      <3> QED
        BY ONLY <1>1, <2>1, <3>1
    <2> QED
      BY ONLY <1>0, <1>1, <1>3, <2>1, <2>3, <2>4 DEF GivesNext, at
  <1> QED
    BY <1>2, <1>3

LEMMA DivNat == \A a \in Nat, b \in Nat \ {0} : a \div b \in Nat
  OBVIOUS

LEMMA NoNewlineMore ==
  ASSUME NEW str \in Seq(Nat), NEW more \in Seq(Nat), NEW c, c # Newline,
         Len(more) = Len(str) + 1, \A i \in 1 .. Len(str) : more[i] = str[i],
         more[Len(str) + 1] = c, \A i \in 1 .. Len(str) : str[i] # Newline
  PROVE  \A i \in 1 .. Len(more) : more[i] # Newline
  <1>1. \A i \in 1 .. Len(more) : i \in 1 .. Len(str) \/ i = Len(str) + 1
    OBVIOUS
  <1> QED
    BY <1>1

\* A call has brought what it should when it has ended for one of three reasons.
LEMMA ExpectedIs ==
  ASSUME content' = content, content \in Seq(Nat),
         NEW op, NEW at \in Nat, NEW wanted \in Int, NEW str \in Seq(Nat),
         call'.op = op, call'.at = at, call'.wanted = wanted,
         ReadFrom(at, str), Len(str) <= wanted,
         \/ /\ Len(str) = wanted \/ at + Len(str) = Len(content)
            /\ op = "fgets" => \A i \in 1 .. Len(str) : str[i] # Newline
         \/ /\ op = "fgets" /\ str # <<>> /\ str[Len(str)] = Newline
            /\ \A i \in 1 .. Len(str) - 1 : str[i] # Newline
  PROVE  Expected' = str
  <1> DEFINE most == Most(content, at, wanted)
             lines == NewlinesIn(most)
  <1>3. Expected' = IF op = "fgets" /\ lines # {} THEN SubSeq(most, 1, Min(lines)) ELSE most
    BY ONLY content' = content, call'.op = op, call'.at = at, call'.wanted = wanted
    DEF Expected, Most, NewlinesIn
  <1> HIDE DEF most, lines
  <1>4. at + Len(str) <= Len(content) /\ \A i \in 1 .. Len(str) : str[i] = content[at + i]
    BY DEF ReadFrom
  <1>5. CASE /\ Len(str) = wanted \/ at + Len(str) = Len(content)
             /\ op = "fgets" => \A i \in 1 .. Len(str) : str[i] # Newline
    <2>1. most = str
      BY ONLY <1>4, <1>5, content \in Seq(Nat), at \in Nat, str \in Seq(Nat),
              wanted \in Int, Len(str) <= wanted, MostIs DEF most
    <2>2. op = "fgets" => lines = {}
      BY ONLY <1>5, <2>1, str \in Seq(Nat) DEF lines, NewlinesIn
    <2> QED
      BY ONLY <1>3, <2>1, <2>2
  <1>6. CASE /\ op = "fgets" /\ str # <<>> /\ str[Len(str)] = Newline
             /\ \A i \in 1 .. Len(str) - 1 : str[i] # Newline
    <2>1. lines # {} /\ SubSeq(most, 1, Min(lines)) = str
      BY ONLY <1>4, <1>6, content \in Seq(Nat), at \in Nat, str \in Seq(Nat),
              wanted \in Int, Len(str) <= wanted, LineIs DEF most, lines
    <2> QED
      BY ONLY <1>3, <1>6, <2>1
  <1> QED
    BY <1>5, <1>6

\* One more byte of the stream.
LEMMA ReadFromAppend ==
  ASSUME content \in Seq(Nat), NEW at \in Nat, NEW str \in Seq(Nat), NEW c \in Nat,
         ReadFrom(at, str), at + Len(str) < Len(content), c = content[at + Len(str) + 1]
  PROVE  /\ Append(str, c) \in Seq(Nat) /\ Len(Append(str, c)) = Len(str) + 1
         /\ \A i \in 1 .. Len(str) : Append(str, c)[i] = str[i]
         /\ Append(str, c)[Len(str) + 1] = c
         /\ ReadFrom(at, Append(str, c))
  <1> DEFINE q == Append(str, c)
  <1>1. /\ q \in Seq(Nat) /\ Len(q) = Len(str) + 1
        /\ \A i \in 1 .. Len(str) : q[i] = str[i]
        /\ q[Len(str) + 1] = c
    BY AppendProperties
  <1> HIDE DEF q
  <1>2. Len(str) \in Nat /\ Len(content) \in Nat
    OBVIOUS
  <1>3. ASSUME NEW i \in 1 .. Len(q) PROVE q[i] = content[at + i]
    <2>1. CASE i \in 1 .. Len(str)
      BY <1>1, <2>1 DEF ReadFrom
    <2>2. CASE i = Len(str) + 1
      <3>1. at + i = at + Len(str) + 1
        BY ONLY <1>2, <2>2, at \in Nat
      <3> QED
        BY ONLY <1>1, <2>2, <3>1, c = content[at + Len(str) + 1]
    <2> QED
      BY ONLY <1>1, <1>2, <1>3, <2>1, <2>2
  <1>4. at + Len(q) <= Len(content)
    BY ONLY <1>1, <1>2, at \in Nat, at + Len(str) < Len(content)
  <1>5. ReadFrom(at, q)
    BY ONLY <1>3, <1>4 DEF ReadFrom
  <1> QED
    BY <1>1, <1>5 DEF q

-----------------------------------------------------------------------------
(* The steps *)

\* What a stream that is read keeps, and what becomes of its call.
LEMMA StillReads ==
  ASSUME Reading, StreamTypes', UNCHANGED use, content' = File,
         ReadsOn', ReadFrom(from, seen)', call'.op # "fwrite",
         call'.ret = Running => CallGoesOn',
         call'.op # "none" /\ call'.ret # Running => Answered'
  PROVE  StreamInv'
  <1>1. Reading' /\ use' # "none"
    BY DEF Reading
  <1> QED
    BY <1>1 DEF StreamInv, NoStream, ReadInv, WriteInv

LEMMA NextByteKeeps ==
  ASSUME StreamInv, NextByte
  PROVE  StreamInv'
  <1>1. Reading /\ CallGoesOn /\ StreamTypes /\ content = File /\ ReadsOn /\ ReadFrom(from, seen)
    <2>1. call.ret = Running
      BY DEF NextByte
    <2>2. Reading
      BY <2>1 DEF StreamInv, WriteInv
    <2> QED
      BY <2>1, <2>2 DEF StreamInv, ReadInv
  <1>2. PICK c \in {EOF} \cup Range(File) :
          /\ fgetc(c)
          /\ IF c = EOF THEN call' = [call EXCEPT !.ret = AtEnd] /\ seen' = seen
             ELSE LET str == Append(call.str, c)
                  IN  /\ call' = [call EXCEPT !.str = str, !.ret = AfterByte(str, c)]
                      /\ seen' = Append(seen, c)
    BY DEF NextByte
  <1>3. GivesNext(c)
    BY <1>1, <1>2, FgetcGivesNext
  <1>4. UNCHANGED <<use, content, mode, from, handed>>
    BY DEF NextByte
  <1>5. PICK op, unit, wanted, at, str :
          /\ op = call.op /\ unit = call.size /\ wanted = call.wanted /\ at = call.at
          /\ str = call.str
    OBVIOUS
  <1>6. /\ op \in {"fgetc", "fread", "fgets"} /\ unit \in Nat \ {0} /\ wanted \in Int /\ at \in Nat
        /\ str \in Seq(Nat) /\ seen \in Seq(Nat) /\ from \in Nat /\ content \in Seq(Nat)
        /\ Len(str) \in Nat /\ Len(seen) \in Nat /\ Len(content) \in Nat
        /\ at + Len(str) = from + Len(seen) /\ Len(str) < wanted
        /\ op = "fgetc" => wanted = 1
    BY <1>1, <1>5 DEF CallGoesOn, StreamTypes
  <1>9. ReadFrom(at, str)
    BY <1>1, <1>5 DEF CallGoesOn
  <1>10. op = "fgets" => \A i \in 1 .. Len(str) : str[i] # Newline
    BY <1>1, <1>5 DEF CallGoesOn
  <1>7. CASE c = EOF
    <2>1. /\ from + Len(seen) = Len(content)
          /\ offset' = from + Len(seen) + buf_size' - buf_pos'
      BY <1>3, <1>7 DEF GivesNext, EOF
    <2>2. /\ call'.op = op /\ call'.size = unit /\ call'.wanted = wanted /\ call'.at = at
          /\ call'.str = str /\ call'.ret = AtEnd /\ seen' = seen
      BY <1>1, <1>2, <1>5, <1>7 DEF StreamTypes
    <2>3. Expected' = str
      <3>1. content' = content /\ at + Len(str) = Len(content) /\ Len(str) <= wanted
        BY ONLY <1>4, <1>6, <2>1
      <3> QED
        BY ONLY <1>6, <1>9, <1>10, <2>2, <3>1, ExpectedIs
    <2>4. AtEnd = CASE op = "fgetc" -> EOF
                    [] op = "fread" -> Len(str) \div unit
                    [] op = "fgets" -> IF str = <<>> THEN Null ELSE Str
      BY ONLY <1>5 DEF AtEnd
    <2>5. AtEnd \in Int /\ AtEnd # Running
      <3>1. Len(str) \div unit \in Nat
        BY ONLY <1>6, DivNat
      <3> QED
        BY ONLY <1>6, <2>4, <3>1 DEF EOF, Null, Str, Running
    <2>6. Answered'
      <3>1. op = "fgetc" => str = <<>>
        BY ONLY <1>6, EmptySeq
      <3>2. (call'.op = "fgetc" => call'.ret = IF str = <<>> THEN EOF ELSE str[1])
        BY ONLY <2>2, <2>4, <3>1
      <3>3. call'.op = "fread" /\ call'.size # 0 => call'.ret = Len(str) \div call'.size
        BY ONLY <2>2, <2>4
      <3>4. call'.op = "fgets" => (call'.ret = Str) = (str # <<>> \/ call'.wanted = 0)
        BY ONLY <1>6, <2>2, <2>4 DEF Str, Null
      <3> QED
        BY ONLY <2>2, <2>3, <3>2, <3>3, <3>4 DEF Answered
    <2>7. StreamTypes'
      BY <1>1, <1>2, <1>3, <1>4, <1>7, <2>5 DEF StreamTypes, GivesNext
    <2>8. ReadsOn' /\ ReadFrom(from, seen)'
      BY <1>1, <1>3, <1>4, <2>1, <2>2 DEF ReadsOn, ReadFrom, GivesNext
    <2> QED
      BY <1>1, <1>4, <1>6, <2>2, <2>5, <2>6, <2>7, <2>8, StillReads
  <1>8. CASE c # EOF
    <2> DEFINE more == Append(str, c)
    <2>1. /\ c \in Nat /\ from + Len(seen) < Len(content) /\ c = content[from + Len(seen) + 1]
          /\ offset' = from + Len(seen) + 1 + buf_size' - buf_pos'
      BY <1>3, <1>8 DEF GivesNext, EOF
    <2>2. /\ call'.op = op /\ call'.size = unit /\ call'.wanted = wanted /\ call'.at = at
          /\ call'.str = more /\ call'.ret = AfterByte(more, c) /\ seen' = Append(seen, c)
      BY <1>1, <1>2, <1>5, <1>8 DEF StreamTypes
    <2>3. /\ more \in Seq(Nat) /\ Len(more) = Len(str) + 1
          /\ \A i \in 1 .. Len(str) : more[i] = str[i]
          /\ more[Len(str) + 1] = c
          /\ ReadFrom(at, more)
      BY ONLY <1>6, <1>9, <2>1, ReadFromAppend
    <2>4. /\ Append(seen, c) \in Seq(Nat) /\ Len(Append(seen, c)) = Len(seen) + 1
          /\ ReadFrom(from, Append(seen, c))
      BY ONLY <1>1, <1>6, <2>1, ReadFromAppend
    <2>5. AfterByte(more, c) =
            CASE op = "fgetc" -> c
              [] op = "fread" -> IF Len(more) = wanted THEN wanted \div unit ELSE Running
              [] op = "fgets" -> IF c = Newline \/ Len(more) = wanted THEN Str ELSE Running
      BY ONLY <1>5 DEF AfterByte
    <2> HIDE DEF more
    <2>6. AfterByte(more, c) \in Int
      <3>1. op = "fgetc" => AfterByte(more, c) = c
        BY ONLY <2>5
      <3>2. op = "fread" => AfterByte(more, c) = IF Len(more) = wanted THEN wanted \div unit ELSE Running
        BY ONLY <2>5
      <3>3. op = "fgets" => AfterByte(more, c) \in {Str, Running}
        BY ONLY <2>5
      <3>4. wanted \div unit \in Int
        BY ONLY <1>6
      <3>5. Str \in Int /\ Running \in Int
        BY ONLY DEF Str, Running
      <3> QED
        BY ONLY <1>6, <2>1, <3>1, <3>2, <3>3, <3>4, <3>5
    <2>7. StreamTypes'
      BY <1>1, <1>2, <1>3, <1>4, <1>5, <1>8, <2>3, <2>4, <2>6 DEF StreamTypes, GivesNext, more
    <2>8. ReadsOn' /\ ReadFrom(from, seen)'
      <3>1. ReadFrom(from, seen)'
        BY ONLY <1>4, <2>2, <2>4 DEF ReadFrom
      <3>2. /\ buf_pos' <= buf_size' /\ offset' <= Len(content')
            /\ \A i \in buf_pos' .. buf_size' - 1 : buffer'[i] = content'[offset' - buf_size' + i + 1]
        BY ONLY <1>3, <1>4 DEF GivesNext
      <3>3. offset' = from' + Len(seen') + buf_size' - buf_pos'
        <4>1. Len(seen') = Len(seen) + 1 /\ from' = from
          BY ONLY <1>4, <2>2, <2>4
        <4>2. buf_size' \in Int /\ buf_pos' \in Int
          BY ONLY <2>7, StdioAssumption DEF StreamTypes
        <4> QED
          BY ONLY <1>6, <2>1, <4>1, <4>2
      <3> QED
        BY ONLY <3>1, <3>2, <3>3 DEF ReadsOn
    <2>9. CASE AfterByte(more, c) = Running
      <3>1. op # "fgetc" /\ Len(more) # wanted /\ (op = "fgets" => c # Newline)
        <4>1. wanted \in Nat => wanted \div unit \in Nat
          BY ONLY <1>6, DivNat
        <4>2. op # "fgetc"
          BY ONLY <2>1, <2>5, <2>9 DEF Running
        <4>3. op = "fread" => Len(more) # wanted
          <5>1. op = "fread" /\ Len(more) = wanted => AfterByte(more, c) = wanted \div unit
            BY ONLY <2>5
          <5>2. Len(more) = wanted => wanted \in Nat
            BY ONLY <1>6, <2>3
          <5>3. wanted \div unit \in Nat => wanted \div unit # Running
            BY ONLY DEF Running
          <5> QED
            BY ONLY <2>9, <4>1, <5>1, <5>2, <5>3
        <4>4. op = "fgets" => Len(more) # wanted /\ c # Newline
          BY ONLY <2>5, <2>9 DEF Str, Running
        <4> QED
          BY ONLY <1>6, <4>2, <4>3, <4>4
      <3>2. op = "fgets" => \A i \in 1 .. Len(more) : more[i] # Newline
        BY ONLY <1>6, <1>10, <2>3, <3>1, NoNewlineMore
      <3>3. Len(more) < wanted /\ at + Len(more) = from + Len(seen')
        BY ONLY <1>6, <2>2, <2>3, <2>4, <3>1
      <3>4. CallGoesOn'
        BY ONLY <1>4, <1>6, <2>2, <2>3, <3>1, <3>2, <3>3 DEF CallGoesOn, ReadFrom
      <3> QED
        BY <1>1, <1>4, <1>6, <2>2, <2>7, <2>8, <2>9, <3>4, StillReads
    <2>10. CASE AfterByte(more, c) # Running
      <3>1. Len(more) <= wanted
        BY ONLY <1>6, <2>3
      <3>2. more # <<>> /\ more[1] \in Nat /\ Len(more) > 0
        BY ONLY <1>6, <2>3, EmptySeq
      <3>3. Expected' = more
        <4>1. CASE op = "fgets" /\ c = Newline
          <5>1. more[Len(more)] = Newline /\ \A i \in 1 .. Len(more) - 1 : more[i] # Newline
            <6>1. Len(more) - 1 = Len(str)
              BY ONLY <1>6, <2>3
            <6> QED
              BY ONLY <1>10, <2>3, <4>1, <6>1
          <5>2. at + Len(more) <= Len(content) /\ content' = content
            BY ONLY <1>4, <2>3 DEF ReadFrom
          <5> QED
            <6>1. op = "fgets" /\ more # <<>>
              BY ONLY <3>2, <4>1
            <6>2. more \in Seq(Nat) /\ ReadFrom(at, more)
              BY ONLY <2>3
            <6> QED
              <7>1. /\ content \in Seq(Nat) /\ at \in Nat /\ wanted \in Int
                    /\ call'.op = op /\ call'.at = at /\ call'.wanted = wanted /\ call'.str = more
                BY ONLY <1>6, <2>2
              <7> QED
                BY ONLY <3>1, <5>1, <5>2, <6>1, <6>2, <7>1, ExpectedIs
        <4>2. CASE ~(op = "fgets" /\ c = Newline)
          <5>1. Len(more) = wanted
            BY ONLY <1>6, <2>3, <2>5, <2>10, <4>2
          <5>2. op = "fgets" => \A i \in 1 .. Len(more) : more[i] # Newline
            BY ONLY <1>6, <1>10, <2>3, <4>2, NoNewlineMore
          <5> QED
            BY ONLY <1>4, <1>6, <2>2, <2>3, <3>1, <5>1, <5>2, ExpectedIs
        <4> QED
          BY <4>1, <4>2
      <3>4. Answered'
        <4>1. call'.op = "fgetc" => call'.ret = IF more = <<>> THEN EOF ELSE more[1]
          BY ONLY <1>6, <2>2, <2>3, <2>5, <3>1, <3>2
        <4>2. call'.op = "fread" /\ call'.size # 0 => call'.ret = Len(more) \div call'.size
          BY ONLY <2>2, <2>5, <2>10
        <4>3. call'.op = "fgets" => (call'.ret = Str) = (more # <<>> \/ call'.wanted = 0)
          BY ONLY <2>2, <2>5, <2>10, <3>2
        <4> QED
          BY ONLY <2>2, <3>3, <4>1, <4>2, <4>3 DEF Answered
      <3> QED
        BY <1>1, <1>4, <1>6, <2>2, <2>7, <2>8, <2>10, <3>4, StillReads
    <2> QED
      BY <2>9, <2>10
  <1> QED
    BY <1>7, <1>8

\* A call that asks for nothing brings nothing.
LEMMA NothingExpected ==
  ASSUME content' \in Seq(Nat), call'.at \in Nat, call'.wanted \in Int, call'.wanted <= 0
  PROVE  Expected' = <<>>
  <1> DEFINE w == call'.at + call'.wanted
             n == Len(content')
             e == Min({w, n})
             most == SubSeq(content', call'.at + 1, e)
             lines == {i \in DOMAIN most : most[i] = Newline}
  <1>1. w \in Int /\ n \in Int /\ call'.at + 1 \in Int /\ w < call'.at + 1
    OBVIOUS
  <1>2. Expected' = IF call'.op = "fgets" /\ lines # {} THEN SubSeq(most, 1, Min(lines)) ELSE most
    BY DEF Expected
  <1> HIDE DEF w, n
  <1>3. e \in Int /\ e < call'.at + 1
    BY ONLY <1>1, MinPair
  <1> HIDE DEF e
  <1>4. most = <<>>
    BY ONLY <1>1, <1>3, SubSeqEmpty
  <1> HIDE DEF most
  <1>5. lines = {}
    BY ONLY <1>4
  <1> QED
    BY ONLY <1>2, <1>4, <1>5

LEMMA BeginKeeps ==
  ASSUME StreamInv, NEW op \in {"fgetc", "fread", "fgets"}, NEW unit \in Nat,
         NEW wanted \in Int, NEW ret \in Int, Begin(op, unit, wanted, ret),
         ret = Running => wanted > 0 /\ unit # 0 /\ (op = "fgetc" => wanted = 1),
         ret # Running => /\ wanted <= 0 /\ op # "fgetc"
                          /\ op = "fread" => ret = 0
                          /\ op = "fgets" => (ret = Str) = (wanted = 0)
  PROVE  StreamInv'
  <1>1. /\ Reading /\ StreamTypes /\ content = File /\ ReadsOn /\ ReadFrom(from, seen)
        /\ UNCHANGED <<use, content, offset, buffer, buf_size, buf_pos, mode, from, seen, handed>>
    BY DEF Begin, StreamInv, ReadInv
  <1>2. /\ from \in Nat /\ seen \in Seq(Nat) /\ Len(seen) \in Nat /\ content \in Seq(Nat)
        /\ from + Len(seen) <= Len(content)
    BY <1>1 DEF StreamTypes, ReadFrom
  <1>3. call' = [op |-> op, size |-> unit, wanted |-> wanted, at |-> from + Len(seen),
                 str |-> <<>>, ret |-> ret]
    BY DEF Begin
  <1>4. StreamTypes'
    BY <1>1, <1>2, <1>3 DEF StreamTypes
  <1>5. ReadsOn' /\ ReadFrom(from, seen)' /\ call'.op # "fwrite"
    BY <1>1, <1>3 DEF ReadsOn, ReadFrom
  <1>6. CASE ret = Running
    <2>1. CallGoesOn'
      <3>1. /\ call'.op = op /\ call'.size = unit /\ call'.wanted = wanted
            /\ call'.at = from + Len(seen) /\ call'.str = <<>>
        BY ONLY <1>3
      <3>2. /\ call'.at + Len(call'.str) = from + Len(seen)
            /\ call'.at + Len(call'.str) <= Len(content')
            /\ Len(call'.str) = 0
        BY ONLY <1>1, <1>2, <3>1
      <3>3. wanted > 0 /\ unit # 0 /\ (op = "fgetc" => wanted = 1)
        BY <1>6
      <3>4. \A i \in 1 .. Len(call'.str) : FALSE
        BY ONLY <3>2
      <3> QED
        <4>1. from' = from /\ seen' = seen
          BY ONLY <1>1
        <4>2. op \in {"fgetc", "fread", "fgets"}
          OBVIOUS
        <4>3. ReadFrom(call.at, call.str)'
          BY ONLY <3>2, <3>4 DEF ReadFrom
        <4> QED
          BY ONLY <3>1, <3>2, <3>3, <3>4, <4>1, <4>2, <4>3 DEF CallGoesOn
    <2> QED
      BY <1>1, <1>3, <1>4, <1>5, <1>6, <2>1, StillReads
  <1>7. CASE ret # Running
    <2>1. Expected' = <<>>
      BY <1>1, <1>2, <1>3, <1>7, NothingExpected
    <2>2. unit # 0 => 0 \div unit = 0
      OBVIOUS
    <2>3. Answered'
      BY <1>3, <1>7, <2>1, <2>2 DEF Answered
    <2> QED
      BY <1>1, <1>3, <1>4, <1>5, <1>7, <2>3, StillReads
  <1> QED
    BY <1>6, <1>7

LEMMA CallsKeep ==
  ASSUME StreamInv,
         \/ CallFgetc
         \/ \E unit, times \in Rooms : CallFread(unit, times)
         \/ \E times \in Rooms : CallFgets(times)
  PROVE  StreamInv'
  <1>0. Rooms \subseteq Nat
    BY StdioAssumption
  <1>1. CASE CallFgetc
    BY <1>1, BeginKeeps DEF CallFgetc, Running
  <1>2. CASE \E unit, times \in Rooms : CallFread(unit, times)
    <2>1. PICK unit \in Nat, times \in Nat : CallFread(unit, times)
      BY <1>0, <1>2
    <2>2. unit * times \in Nat /\ (unit * times # 0 => unit # 0)
      OBVIOUS
    <2> DEFINE wanted == unit * times
    <2>3. Begin("fread", unit, wanted, IF wanted = 0 THEN 0 ELSE Running)
      BY <2>1 DEF CallFread
    <2>4. wanted \in Nat /\ (wanted # 0 => unit # 0)
      BY <2>2
    <2> HIDE DEF wanted
    <2> QED
      BY <2>3, <2>4, BeginKeeps DEF Running
  <1>3. CASE \E times \in Rooms : CallFgets(times)
    <2>1. PICK times \in Nat : CallFgets(times)
      BY <1>0, <1>3
    <2>2. /\ Begin("fgets", 1, times - 1, IF times < 1 THEN Null ELSE IF times = 1 THEN Str ELSE Running)
          /\ 1 \in Nat /\ times - 1 \in Int
      BY ONLY <2>1, times \in Nat DEF CallFgets
    <2>3. "fgets" \in {"fgetc", "fread", "fgets"}
      OBVIOUS
    <2>4. CASE times > 1
      <3>1. Begin("fgets", 1, times - 1, Running) /\ times - 1 > 0
        BY ONLY <2>2, <2>4, times \in Nat
      <3> QED
        BY ONLY StreamInv, <2>2, <2>3, <3>1, BeginKeeps DEF Running
    <2>5. CASE times = 1
      <3>1. Begin("fgets", 1, 0, Str)
        BY ONLY <2>2, <2>5
      <3>2. /\ 0 \in Int /\ Str \in Int /\ Str # Running /\ 0 <= 0 /\ (Str = Str) = (0 = 0)
            /\ "fgets" # "fgetc" /\ "fgets" # "fread"
        BY ONLY DEF Running, Str
      <3> QED
        BY ONLY StreamInv, <2>2, <2>3, <3>1, <3>2, BeginKeeps
    <2>6. CASE times = 0
      <3>1. Begin("fgets", 1, -1, Null)
        BY ONLY <2>2, <2>6
      <3>2. /\ -1 \in Int /\ Null \in Int /\ Null # Running /\ -1 <= 0 /\ (Null = Str) = (-1 = 0)
            /\ "fgets" # "fgetc" /\ "fgets" # "fread"
        BY ONLY DEF Running, Str, Null
      <3> QED
        BY ONLY StreamInv, <2>2, <2>3, <3>1, <3>2, BeginKeeps
    <2> QED
      BY ONLY <2>4, <2>5, <2>6, times \in Nat
  <1> QED
    BY <1>1, <1>2, <1>3

LEMMA fseekKeeps ==
  ASSUME StreamInv, NEW place \in 0 .. Len(content), fseek(place)
  PROVE  StreamInv'
  <1>1. Reading /\ StreamTypes /\ content = File
    BY DEF fseek, StreamInv, ReadInv, Reading
  <1>2. /\ content \in Seq(Nat) /\ Len(content) \in Nat /\ place \in Nat /\ place <= Len(content)
    BY <1>1 DEF StreamTypes
  <1>3. /\ buf_pos' = 0 /\ buf_size' = 0 /\ offset' = place /\ from' = place /\ seen' = <<>>
        /\ call' = Idle /\ UNCHANGED <<use, content, buffer, mode, handed>>
    BY DEF fseek, EmptyBuffer
  <1>4. StreamTypes'
    BY <1>1, <1>2, <1>3, StdioAssumption DEF StreamTypes, Idle
  <1>5. ReadsOn' /\ ReadFrom(from, seen)'
    BY <1>2, <1>3 DEF ReadsOn, ReadFrom
  <1> QED
    BY <1>1, <1>3, <1>4, <1>5, StillReads DEF Idle, Running

LEMMA FreshKeeps ==
  ASSUME StreamInv, fopen \/ Exit
  PROVE  StreamInv'
  <1>1. CASE Exit
    <2>1. StreamTypes'
      BY <1>1, StdioAssumption DEF Exit, StreamTypes, FileModes, Idle
    <2>2. NoStream' /\ ~Reading'
      BY <1>1 DEF Exit, NoStream, Reading
    <2>3. WriteInv'
      <3>1. handed' = <<>> /\ content' = <<>> /\ Buffered' = <<>>
        BY <1>1 DEF Exit, Buffered
      <3> QED
        BY <1>1, <3>1 DEF Exit, WriteInv, Idle, Running
    <2> QED
      BY <2>1, <2>2, <2>3 DEF StreamInv, ReadInv
  <1>2. CASE fopen
    <2>1. /\ use = "none" /\ call = Idle /\ from = 0 /\ seen = <<>> /\ handed = <<>> /\ StreamTypes
      BY <1>2 DEF fopen, StreamInv, NoStream
    <2>2. /\ use' \in {"file", "pipe", "fputc", "fwrite"} /\ mode' \in FileModes
          /\ content' = IF use' \in {"fputc", "fwrite"} THEN <<>> ELSE File
          /\ offset' = 0 /\ buf_size' = 0 /\ buf_pos' = 0
          /\ UNCHANGED <<buffer, call, from, seen, handed>>
      BY <1>2 DEF fopen, FileModes
    <2>3. StreamTypes' /\ NoStream'
      BY <2>1, <2>2, StdioAssumption DEF StreamTypes, NoStream
    <2>4. ReadInv'
      BY <2>1, <2>2, <2>3, StdioAssumption
      DEF ReadInv, Reading, ReadsOn, ReadFrom, Idle, Running, StreamTypes
    <2>5. WriteInv'
      <3>1. Buffered' = <<>> /\ handed' = <<>> /\ call' = Idle
        BY <2>1, <2>2 DEF Buffered
      <3>2. call'.op = "none" /\ call'.ret # Running
        BY ONLY <3>1 DEF Idle, Running
      <3>3. ~Reading' => content' = <<>>
        BY ONLY <2>2 DEF Reading
      <3>4. <<>> \o <<>> = <<>>
        OBVIOUS
      <3>5. ~Reading' => handed' = content' \o Buffered'
        BY ONLY <3>1, <3>3, <3>4
      <3>6. buf_size' < BUF_SIZE /\ \A i \in 0 .. buf_size' - 1 : FALSE
        BY ONLY <2>2, StdioAssumption
      <3> QED
        BY ONLY <2>2, <3>2, <3>5, <3>6 DEF WriteInv
    <2> QED
      BY <2>3, <2>4, <2>5 DEF StreamInv
  <1> QED
    BY <1>1, <1>2

LEMMA BufferedIs ==
  ASSUME BUF_SIZE \in Nat, NEW b \in [0 .. BUF_SIZE - 1 -> Nat], NEW n \in 0 .. BUF_SIZE
  PROVE  /\ [i \in 1 .. n |-> b[i - 1]] \in Seq(Nat)
         /\ Len([i \in 1 .. n |-> b[i - 1]]) = n
  <1>1. \A i \in 1 .. n : b[i - 1] \in Nat
    OBVIOUS
  <1>2. [i \in 1 .. n |-> b[i - 1]] \in [1 .. n -> Nat]
    BY ONLY <1>1
  <1> QED
    BY <1>2, SeqDef, LenProperties

LEMMA OneMore ==
  ASSUME NEW s \in Seq(Nat), NEW ch \in Nat
  PROVE  Append(s, ch) = s \o <<ch>> /\ <<ch>> \in Seq(Nat) /\ Len(<<ch>>) = 1
  OBVIOUS

\* fputc puts the byte behind the others, or writes them all.
LEMMA fputcKeeps ==
  ASSUME StreamInv, NEW ch \in Nat, fputc(ch)
  PROVE  StreamInv'
  <1>1. /\ StreamTypes /\ use = "fputc" /\ ~Reading /\ handed = content \o Buffered
        /\ call.op \in {"none", "fwrite"} /\ call.ret # Running
        /\ call.op = "fwrite" => call.ret * call.size = call.wanted
        /\ buf_pos = buf_size /\ mode \in FileModes
        /\ mode = "_IO_UNBUFFERED" => buf_size = 0
        /\ mode = "_IO_LINE_BUFFERED" => \A i \in 0 .. buf_size - 1 : buffer[i] # Newline
        /\ mode = "_IO_BLOCK_BUFFERED" => buf_size < BUF_SIZE
    BY DEF fputc, StreamInv, WriteInv, Reading, StreamTypes
  <1>2. /\ content \in Seq(Nat) /\ offset \in Nat /\ buffer \in [0 .. BUF_SIZE - 1 -> Nat]
        /\ buf_size \in 0 .. BUF_SIZE /\ handed \in Seq(Nat) /\ BUF_SIZE \in Nat \ {0}
        /\ Buffered \in Seq(Nat)
    BY <1>1, StdioAssumption, BufferedIs DEF StreamTypes, Buffered
  <1> DEFINE full == buf_size = BUF_SIZE
             kept == IF full THEN <<>> ELSE Buffered
             before == IF full THEN handed ELSE content
             pos == IF full THEN 0 ELSE buf_size
             flush == ShouldFlush(ch, pos + 1)
  <1> DEFINE written == IF full THEN Buffered ELSE <<>>
             rest == IF ~flush THEN <<>> ELSE kept \o <<ch>>
  <1>3. /\ buffer' = [buffer EXCEPT ![pos] = ch]
        /\ buf_size' = IF flush THEN 0 ELSE pos + 1
        /\ buf_pos' = IF flush THEN 0 ELSE pos + 1
        /\ content' = content \o written \o rest
        /\ offset' = offset + Len(written \o rest)
        /\ handed' = Append(handed, ch)
        /\ UNCHANGED <<use, mode, call, from, seen>>
    BY <1>1 DEF fputc
  <1>4. /\ pos \in 0 .. BUF_SIZE - 1 /\ pos + 1 \in 1 .. BUF_SIZE
        /\ kept \in Seq(Nat) /\ before \in Seq(Nat) /\ written \in Seq(Nat)
        /\ kept \o <<ch>> \in Seq(Nat) /\ rest \in Seq(Nat)
    BY ONLY <1>2, ch \in Nat
  <1>5. content \o written = before /\ before \o kept = handed
    <2>1. content \o <<>> = content /\ handed \o <<>> = handed
      BY ONLY <1>2, ConcatEmptySeq
    <2>2. handed = content \o Buffered
      BY ONLY <1>1
    <2>3. CASE full
      BY ONLY <2>1, <2>2, <2>3
    <2>4. CASE ~full
      BY ONLY <2>1, <2>2, <2>4
    <2> QED
      BY <2>3, <2>4
  <1>6. content' = before \o rest /\ handed' = before \o (kept \o <<ch>>)
    <2>1. handed' = handed \o <<ch>>
      BY ONLY <1>2, <1>3, ch \in Nat, OneMore
    <2>2. (before \o kept) \o <<ch>> = before \o (kept \o <<ch>>)
      <3>1. <<ch>> \in Seq(Nat)
        BY ONLY ch \in Nat, OneMore
      <3>2. before \in Seq(Nat) /\ kept \in Seq(Nat)
        BY ONLY <1>4
      <3>3. PICK b \in Seq(Nat), k \in Seq(Nat), s \in Seq(Nat) : b = before /\ k = kept /\ s = <<ch>>
        BY ONLY <3>1, <3>2
      <3> HIDE DEF before, kept
      <3>4. (b \o k) \o s = b \o (k \o s)
        BY ONLY <3>3, ConcatAssociative
      <3> QED
        BY ONLY <3>3, <3>4
    <2> QED
      BY ONLY <1>3, <1>5, <2>1, <2>2
  <1>7. buffer' \in [0 .. BUF_SIZE - 1 -> Nat] /\ buffer'[pos] = ch
        /\ \A i \in 0 .. BUF_SIZE - 1 : i # pos => buffer'[i] = buffer[i]
    BY ONLY <1>2, <1>3, <1>4, ch \in Nat
  <1>8. ~flush => Buffered' = kept \o <<ch>>
    <2>1. SUFFICES ASSUME ~flush PROVE Buffered' = kept \o <<ch>>
      OBVIOUS
    <2>2. Buffered' = [i \in 1 .. pos + 1 |-> buffer'[i - 1]]
      BY ONLY <1>3, <2>1 DEF Buffered
    <2>3. Buffered' \in Seq(Nat) /\ Len(Buffered') = pos + 1
      <3>1. pos + 1 \in 0 .. BUF_SIZE /\ BUF_SIZE \in Nat
        BY ONLY <1>2, <1>4
      <3> QED
        BY ONLY <1>7, <2>2, <3>1, BufferedIs
    <2>4. Len(kept) = pos /\ \A i \in 1 .. pos : kept[i] = buffer[i - 1]
      BY ONLY <1>2, BufferedIs DEF Buffered
    <2>5. /\ Len(kept \o <<ch>>) = pos + 1 /\ (kept \o <<ch>>)[pos + 1] = ch
          /\ \A i \in 1 .. pos : (kept \o <<ch>>)[i] = kept[i]
      <3> HIDE DEF pos, kept
      <3> QED
        BY ONLY <1>4, <2>4, ch \in Nat
    <2>6. \A i \in 1 .. pos + 1 : Buffered'[i] = (kept \o <<ch>>)[i]
      <3> SUFFICES ASSUME NEW i \in 1 .. pos + 1
                   PROVE  Buffered'[i] = (kept \o <<ch>>)[i]
        OBVIOUS
      <3>1. Buffered'[i] = buffer'[i - 1]
        BY ONLY <2>2, i \in 1 .. pos + 1
      <3>2. CASE i = pos + 1
        <4>1. i - 1 = pos
          BY ONLY <1>4, <3>2
        <4> QED
          BY ONLY <1>7, <2>5, <3>1, <3>2, <4>1
      <3>3. CASE i # pos + 1
        <4>1. i \in 1 .. pos /\ i - 1 \in 0 .. BUF_SIZE - 1 /\ i - 1 # pos
          <5> HIDE DEF pos
          <5> QED
            BY ONLY <1>2, <1>4, <3>3, i \in 1 .. pos + 1
        <4> QED
          BY ONLY <1>7, <2>4, <2>5, <3>1, <4>1
      <3> QED
        BY <3>2, <3>3
    <2> HIDE DEF kept, pos
    <2> QED
      BY ONLY <1>4, <2>3, <2>5, <2>6, SeqEqual
  <1>9. flush => Buffered' = <<>>
    BY ONLY <1>3 DEF Buffered
  <1>10. handed' = content' \o Buffered'
    <2>1. CASE flush
      <3>1. content' = handed' /\ Buffered' = <<>>
        BY ONLY <1>6, <1>9, <2>1
      <3>2. content' \in Seq(Nat)
        BY ONLY <1>4, <1>6
      <3> QED
        BY ONLY <3>1, <3>2, ConcatEmptySeq
    <2>2. CASE ~flush
      <3>1. content' = before
        BY ONLY <1>4, <1>6, <2>2, ConcatEmptySeq
      <3> QED
        BY ONLY <1>6, <1>8, <2>2, <3>1
    <2> QED
      BY <2>1, <2>2
  <1>11. /\ mode = "_IO_UNBUFFERED" => flush
         /\ mode = "_IO_LINE_BUFFERED" => (flush \/ ch # Newline)
         /\ mode = "_IO_BLOCK_BUFFERED" => (flush \/ pos + 1 # BUF_SIZE)
    BY ONLY DEF ShouldFlush
  <1>12. /\ mode = "_IO_UNBUFFERED" => buf_size' = 0
         /\ mode = "_IO_BLOCK_BUFFERED" => buf_size' < BUF_SIZE
         /\ buf_size' \in 0 .. BUF_SIZE /\ buf_pos' = buf_size'
    <2> HIDE DEF flush, pos
    <2> QED
      BY ONLY <1>2, <1>3, <1>4, <1>11
  <1>13. mode = "_IO_LINE_BUFFERED" => \A i \in 0 .. buf_size' - 1 : buffer'[i] # Newline
    <2> SUFFICES ASSUME mode = "_IO_LINE_BUFFERED", NEW i \in 0 .. buf_size' - 1
                 PROVE  buffer'[i] # Newline
      OBVIOUS
    <2>1. ~flush /\ i \in 0 .. pos
      <3> HIDE DEF flush, pos
      <3> QED
        BY ONLY <1>3, <1>4, i \in 0 .. buf_size' - 1
    <2>2. ch # Newline
      BY <1>11, <2>1
    <2>3. CASE i = pos
      BY ONLY <1>7, <2>2, <2>3
    <2>4. CASE i # pos
      <3>1. i \in 0 .. buf_size - 1 /\ i \in 0 .. BUF_SIZE - 1
        BY ONLY <1>2, <2>1, <2>4
      <3> QED
        BY <1>1, <1>7, <2>4, <3>1
    <2> QED
      BY <2>3, <2>4
  <1>14. StreamTypes'
    <2>1. content' \in Seq(Nat) /\ handed' \in Seq(Nat)
      <3> HIDE DEF before, rest, kept
      <3> QED
        BY ONLY <1>4, <1>6, ConcatProperties
    <2>2. offset' \in Nat
      <3> HIDE DEF written, rest
      <3>1. written \o rest \in Seq(Nat)
        BY ONLY <1>4, ConcatProperties
      <3>2. Len(written \o rest) \in Nat
        BY ONLY <3>1, LenProperties
      <3> QED
        BY ONLY <1>2, <1>3, <3>2
    <2> QED
      BY <1>1, <1>3, <1>7, <1>12, <2>1, <2>2 DEF StreamTypes
  <1>15. WriteInv' /\ ~Reading' /\ use' # "none"
    BY ONLY <1>1, <1>3, <1>10, <1>12, <1>13 DEF WriteInv, Reading
  <1> QED
    BY ONLY <1>14, <1>15 DEF StreamInv, NoStream, ReadInv

\* fwrite goes past a buffer that holds nothing.
LEMMA fwriteKeeps ==
  ASSUME StreamInv, NEW unit \in Nat \ {0}, NEW times \in Nat,
         unit * times <= Len(File), fwrite(SubSeq(File, 1, unit * times), unit)
  PROVE  StreamInv'
  <1> DEFINE n == unit * times
             bytes == SubSeq(File, 1, n)
  <1>1. n \in Nat /\ (n \div unit) * unit = n /\ n \div unit \in Nat
    OBVIOUS
  <1>2. n <= Len(File) /\ File \in Seq(Nat)
    BY StdioAssumption
  <1>3. fwrite(bytes, unit)
    OBVIOUS
  <1> HIDE DEF n
  <1>4. bytes \in Seq(Nat) /\ Len(bytes) = n
    <2>1. \A i \in 1 .. n : File[i] \in Nat
      BY ONLY <1>1, <1>2
    <2> QED
      BY ONLY <1>1, <1>2, <2>1, SubSeqProperties
  <1> HIDE DEF bytes
  <1>5. /\ StreamTypes /\ use = "fwrite" /\ ~Reading /\ handed = content \o Buffered
        /\ buf_size = 0 /\ buf_pos = 0
    BY <1>3 DEF fwrite, StreamInv, WriteInv, Reading
  <1>6. content \in Seq(Nat) /\ handed \in Seq(Nat) /\ offset \in Nat /\ Buffered = <<>>
    BY <1>5 DEF StreamTypes, Buffered
  <1>7. /\ content' = content \o bytes /\ offset' = offset + n /\ handed' = handed \o bytes
        /\ call' = [Idle EXCEPT !.op = "fwrite", !.size = unit, !.wanted = n, !.ret = n \div unit]
        /\ UNCHANGED <<use, buffer, buf_size, buf_pos, mode, from, seen>>
    BY <1>3, <1>4 DEF fwrite
  <1>8. handed' = content' \o Buffered' /\ content' \in Seq(Nat)
    <2>1. Buffered' = <<>> /\ handed = content
      BY ONLY <1>5, <1>6, <1>7, ConcatEmptySeq DEF Buffered
    <2>2. content' \in Seq(Nat)
      BY ONLY <1>4, <1>6, <1>7, ConcatProperties
    <2> QED
      BY ONLY <1>7, <2>1, <2>2, ConcatEmptySeq
  <1>9. /\ call'.op = "fwrite" /\ call'.ret = n \div unit /\ call'.size = unit /\ call'.wanted = n
        /\ call' \in [op : {"none", "fgetc", "fread", "fgets", "fwrite"}, size : Nat, wanted : Int,
                      at : Nat, str : Seq(Nat), ret : Int]
    <2>1. call' = [op |-> "fwrite", size |-> unit, wanted |-> n, at |-> 0, str |-> <<>>,
                   ret |-> n \div unit]
      BY ONLY <1>7 DEF Idle
    <2>2. /\ n \div unit \in Int /\ n \in Int /\ unit \in Nat /\ 0 \in Nat /\ <<>> \in Seq(Nat)
          /\ "fwrite" \in {"none", "fgetc", "fread", "fgets", "fwrite"}
      BY ONLY <1>1, unit \in Nat \ {0}
    <2> HIDE DEF n
    <2>3. PICK r \in Int : r = n \div unit
      BY ONLY <2>2
    <2> QED
      BY ONLY <2>1, <2>2, <2>3
  <1>10. StreamTypes'
    <2>1. handed' \in Seq(Nat) /\ offset' \in Nat
      BY ONLY <1>1, <1>4, <1>6, <1>7, ConcatProperties
    <2> QED
      BY <1>5, <1>7, <1>8, <1>9, <2>1 DEF StreamTypes
  <1>11. call'.ret # Running /\ call'.ret * call'.size = call'.wanted
    BY ONLY <1>1, <1>9, unit \in Nat \ {0} DEF Running
  <1>12. WriteInv' /\ ~Reading' /\ use' # "none"
    BY ONLY <1>5, <1>7, <1>8, <1>9, <1>11 DEF WriteInv, Reading
  <1> QED
    BY ONLY <1>10, <1>12 DEF StreamInv, NoStream, ReadInv

LEMMA StdioNextKeeps ==
  ASSUME StreamInv, [StdioNext]_stdio
  PROVE  StreamInv'
  <1>1. CASE UNCHANGED stdio
    <2>1. UNCHANGED <<use, content, offset, buffer, buf_size, buf_pos, mode, call, from, seen, handed>>
      BY <1>1 DEF stdio
    <2>2. StreamTypes' = StreamTypes /\ NoStream' = NoStream
      BY <2>1 DEF StreamTypes, NoStream
    <2>3. Reading' = Reading /\ ReadsOn' = ReadsOn /\ ReadFrom(from, seen)' = ReadFrom(from, seen)
      BY <2>1 DEF Reading, ReadsOn, ReadFrom
    <2>4. Expected' = Expected
      BY <2>1 DEF Expected
    <2>5. Answered' = Answered
      BY <2>1, <2>4 DEF Answered
    <2>6. CallGoesOn' = CallGoesOn
      BY <2>1 DEF CallGoesOn, ReadFrom
    <2>7. ReadInv' = ReadInv
      BY <2>1, <2>3, <2>5, <2>6 DEF ReadInv
    <2>8. Buffered' = Buffered
      BY <2>1 DEF Buffered
    <2>9. WriteInv' = WriteInv
      BY <2>1, <2>3, <2>8 DEF WriteInv
    <2> QED
      BY <2>2, <2>7, <2>9 DEF StreamInv
  <1>2. CASE fopen \/ Exit
    BY <1>2, FreshKeeps
  <1>3. CASE \/ CallFgetc
             \/ \E unit, times \in Rooms : CallFread(unit, times)
             \/ \E times \in Rooms : CallFgets(times)
    BY <1>3, CallsKeep
  <1>4. CASE NextByte
    BY <1>4, NextByteKeeps
  <1>5. CASE \E place \in 0 .. Len(content) : fseek(place)
    BY <1>5, fseekKeeps
  <1>6. CASE \E ch \in Range(File) : fputc(ch)
    <2>1. Range(File) \subseteq Nat
      BY StdioAssumption DEF Range
    <2> QED
      BY <1>6, <2>1, fputcKeeps
  <1>7. CASE \E unit \in Rooms \ {0}, times \in Rooms :
               unit * times <= Len(File) /\ fwrite(SubSeq(File, 1, unit * times), unit)
    <2>1. Rooms \subseteq Nat
      BY StdioAssumption
    <2>2. PICK unit \in Nat \ {0}, times \in Nat :
            unit * times <= Len(File) /\ fwrite(SubSeq(File, 1, unit * times), unit)
      BY <1>7, <2>1
    <2> QED
      BY <2>2, fwriteKeeps
  <1> QED
    BY <1>1, <1>2, <1>3, <1>4, <1>5, <1>6, <1>7 DEF StdioNext

LEMMA StreamInvIsOrder ==
  ASSUME StreamInv
  PROVE  StreamInOrder
  <1>1. ASSUME Reading
        PROVE  /\ seen = SubSeq(content, from + 1, from + Len(seen))
               /\ offset = from + Len(seen) + buf_size - buf_pos
               /\ call.op # "none" /\ call.ret # Running => Answered
    <2>1. ReadsOn /\ ReadFrom(from, seen) /\ (call.op # "none" /\ call.ret # Running => Answered)
      BY <1>1 DEF StreamInv, ReadInv
    <2>2. content \in Seq(Nat) /\ from \in Nat /\ seen \in Seq(Nat)
      BY DEF StreamInv, StreamTypes
    <2>3. SubSeq(content, from + 1, from + Len(seen)) = seen
      BY ONLY <2>1, <2>2, PieceIs DEF ReadFrom
    <2> QED
      BY <2>1, <2>3 DEF ReadsOn
  <1>2. ASSUME use = "fputc", mode = "_IO_LINE_BUFFERED"
        PROVE  Newline \notin Range(Buffered)
    <2>1. \A i \in 0 .. buf_size - 1 : buffer[i] # Newline
      BY <1>2 DEF StreamInv, WriteInv, Reading
    <2>2. buf_size \in Int
      BY StdioAssumption DEF StreamInv, StreamTypes
    <2>3. \A i \in 1 .. buf_size : Buffered[i] # Newline
      <3>1. \A i \in 1 .. buf_size : Buffered[i] = buffer[i - 1] /\ i - 1 \in 0 .. buf_size - 1
        BY ONLY <2>2 DEF Buffered
      <3> QED
        BY ONLY <2>1, <3>1
    <2> QED
      BY ONLY <2>3 DEF Range, Buffered
  <1>3. ~Reading => WriteInv /\ (use = "fputc" => ~Reading)
    BY DEF StreamInv, Reading
  <1> QED
    BY <1>1, <1>2, <1>3 DEF StreamInOrder, StreamInv, WriteInv, Reading

\* Whatever a program calls, with a buffer of any size: reading gives every byte once
\* and in order, each call ends where it should, and what is written is in the file or,
\* in order, behind it in the buffer (fgetc, fgets, fread, fseek, fputc, fwrite).
THEOREM StreamsInOrder == StdioInit /\ [][StdioNext]_stdio => []StreamInOrder
  <1>1. StdioInit => StreamInv
    <2> SUFFICES ASSUME StdioInit PROVE StreamInv
      OBVIOUS
    <2>1. StreamTypes
      BY StdioAssumption DEF StdioInit, StreamTypes, FileModes, Idle
    <2>2. handed = content \o Buffered
      <3>1. handed = <<>> /\ content = <<>> /\ Buffered = <<>> /\ <<>> \o <<>> = <<>>
        BY DEF StdioInit, Buffered
      <3> QED
        BY ONLY <3>1
    <2>3. NoStream /\ ReadInv /\ WriteInv
      BY <2>2 DEF StdioInit, NoStream, ReadInv, WriteInv, Reading, Idle, Running
    <2> QED
      BY <2>1, <2>3 DEF StreamInv
  <1>2. StreamInv /\ [StdioNext]_stdio => StreamInv'
    BY StdioNextKeeps
  <1>3. StreamInv => StreamInOrder
    BY StreamInvIsOrder
  <1> QED
    BY <1>1, <1>2, <1>3, PTL
-----------------------------------------------------------------------------
(* The containers *)

\* A set of numbers has a smallest one.
LEMMA Least ==
  ASSUME NEW T \in SUBSET Nat, T # {}
  PROVE  \E m \in T : \A k \in T : m <= k
  <1> DEFINE R == {ss \in Nat \X Nat : ss[1] < ss[2]}
  <1>1. OpToRel(<, Nat) = R
    BY ONLY DEF OpToRel
  <1>2. IsWellFoundedOn(R, Nat)
    BY <1>1, NatLessThanWellFounded
  <1>3. \A m, k \in T : k < m => <<k, m>> \in R
    OBVIOUS
  <1> HIDE DEF R
  <1>4. PICK m \in T : \A k \in T : ~ (<<k, m>> \in R)
    BY <1>2, WFMin
  <1>5. \A k \in T : ~ (k < m)
    BY ONLY <1>3, <1>4
  <1>6. \A k \in T : m <= k
    BY ONLY <1>5, T \in SUBSET Nat, m \in T
  <1> QED
    BY <1>6

\* The links of the list, in both directions, are those of the sequence s.
Chain(s) ==
  /\ s \in Seq(Elems) /\ listSize = Len(s)
  /\ head = IF Len(s) = 0 THEN 0 ELSE s[1]
  /\ tail = IF Len(s) = 0 THEN 0 ELSE s[Len(s)]
  /\ \A i \in 1 .. Len(s) : next[s[i]] = IF i = Len(s) THEN 0 ELSE s[i + 1]
  /\ \A i \in 1 .. Len(s) : prev[s[i]] = IF i = 1 THEN 0 ELSE s[i - 1]
  /\ \A i, j \in 1 .. Len(s) : s[i] = s[j] => i = j

LinkTypes == prev \in [Elems -> Elems \cup {0}] /\ next \in [Elems -> Elems \cup {0}]

ListInv == LinkTypes /\ \E s : Chain(s)

\* The sequence that begins at head and follows next, in the words of the proofs.
Follows(s) ==
  /\ head = IF Len(s) = 0 THEN 0 ELSE s[1]
  /\ \A i \in 1 .. Len(s) : next[s[i]] = IF i = Len(s) THEN 0 ELSE s[i + 1]

LEMMA FollowsIs ==
  ASSUME NEW s \in Seq(Elems)
  PROVE  List!Forward(s) <=> Follows(s)
  <1>1. (s = <<>>) <=> (Len(s) = 0)
    BY EmptySeq
  <1>2. DOMAIN s = 1 .. Len(s)
    OBVIOUS
  <1> QED
    BY <1>1, <1>2 DEF List!Forward, List!nullptr, Follows

\* Two sequences that begin at head and follow next agree as far as the first goes.
LEMMA OneFollows ==
  ASSUME NEW s \in Seq(Elems), NEW t \in Seq(Elems), Follows(s), Follows(t)
  PROVE  Len(s) <= Len(t) /\ \A i \in 1 .. Len(s) : s[i] = t[i]
  <1> DEFINE T == {i \in 1 .. Len(s) : i > Len(t) \/ s[i] # t[i]}
  <1>1. Len(s) \in Nat /\ Len(t) \in Nat /\ 0 \notin Elems
    BY ContainersAssumption
  <1>2. T = {}
    <2>1. SUFFICES ASSUME T # {} PROVE FALSE
      OBVIOUS
    <2>2. PICK m \in T : \A k \in T : m <= k
      <3>1. T \in SUBSET Nat
        BY <1>1
      <3> QED
        BY ONLY <2>1, <3>1, Least
    <2>3. m \in 1 .. Len(s) /\ (m > Len(t) \/ s[m] # t[m]) /\ s[m] \in Elems
      OBVIOUS
    <2>4. CASE m = 1
      <3>1. head = s[1] /\ head # 0
        BY ONLY <1>1, <2>3, <2>4, Follows(s) DEF Follows
      <3>2. Len(t) # 0 /\ head = t[1]
        BY ONLY <3>1, Follows(t) DEF Follows
      <3> QED
        BY ONLY <1>1, <2>3, <2>4, <3>1, <3>2
    <2>5. CASE m # 1
      <3>1. m - 1 \in 1 .. Len(s) /\ m - 1 \notin T /\ m - 1 # Len(s) /\ (m - 1) + 1 = m
        BY ONLY <1>1, <2>2, <2>3, <2>5
      <3>2. m - 1 <= Len(t) /\ s[m - 1] = t[m - 1]
        BY <1>1, <3>1
      <3>3. next[s[m - 1]] = s[m]
        BY ONLY <3>1, Follows(s) DEF Follows
      <3>4. m - 1 \in 1 .. Len(t)
        BY ONLY <1>1, <3>1, <3>2
      <3>5. m - 1 # Len(t)
        BY ONLY <1>1, <2>3, <3>2, <3>3, <3>4, Follows(t) DEF Follows
      <3>6. next[t[m - 1]] = t[m]
        BY ONLY <3>1, <3>4, <3>5, Follows(t) DEF Follows
      <3> QED
        BY ONLY <1>1, <2>3, <3>2, <3>3, <3>4, <3>5, <3>6
    <2> QED
      BY <2>4, <2>5
  <1>3. \A i \in 1 .. Len(s) : i <= Len(t) /\ s[i] = t[i]
    BY <1>1, <1>2
  <1>4. Len(s) = 0 \/ Len(s) \in 1 .. Len(s)
    BY ONLY <1>1
  <1> QED
    BY ONLY <1>1, <1>3, <1>4

\* The links of a list describe one sequence only.
LEMMA ItemsIs ==
  ASSUME NEW s, Chain(s)
  PROVE  List!Items = s /\ List!BothWays(List!Items)
  <1>1. s \in Seq(Elems) /\ Len(s) \in Nat /\ Follows(s) /\ listSize = Len(s)
    BY DEF Chain, Follows
  <1> DEFINE Some == List!BoundedSeq(Elems, listSize)
  <1>3. s \in Some /\ Some \subseteq Seq(Elems)
    <2>1. Some = UNION {[1 .. m -> Elems] : m \in 0 .. listSize}
      BY DEF List!BoundedSeq, List!SeqOf
    <2>2. s \in [1 .. Len(s) -> Elems] /\ Len(s) \in 0 .. listSize
      BY ONLY <1>1
    <2>3. \A m \in 0 .. listSize : [1 .. m -> Elems] \subseteq Seq(Elems)
      BY ONLY <1>1, SeqDef
    <2> HIDE DEF Some
    <2> QED
      BY ONLY <2>1, <2>2, <2>3
  <1>4. List!Forward(s)
    BY <1>1, FollowsIs
  <1>5. \A t \in Some : List!Forward(t) => t = s
    <2> SUFFICES ASSUME NEW t \in Some, List!Forward(t)
                 PROVE  t = s
      OBVIOUS
    <2>1. t \in Seq(Elems)
      BY <1>3
    <2>2. Follows(t)
      BY <2>1, FollowsIs
    <2>3. /\ Len(s) <= Len(t) /\ \A i \in 1 .. Len(s) : s[i] = t[i]
          /\ Len(t) <= Len(s) /\ \A i \in 1 .. Len(t) : t[i] = s[i]
      BY ONLY <1>1, <2>1, <2>2, OneFollows
    <2>4. Len(t) = Len(s)
      BY ONLY <1>1, <2>1, <2>3
    <2> QED
      BY ONLY <1>1, <2>1, <2>3, <2>4, SeqEqual
  <1>6. List!Items = CHOOSE t \in Some : List!Forward(t)
    BY DEF List!Items
  <1> HIDE DEF Some
  <1>7. List!Items = s
    BY ONLY <1>3, <1>4, <1>5, <1>6
  <1>8. List!Backward(s)
    <2>1. (s = <<>>) <=> (Len(s) = 0)
      BY ONLY <1>1, EmptySeq
    <2>2. DOMAIN s = 1 .. Len(s)
      BY ONLY <1>1
    <2> QED
      BY ONLY <2>1, <2>2, Chain(s) DEF List!Backward, List!nullptr, Chain
  <1> QED
    BY <1>1, <1>4, <1>7, <1>8 DEF List!BothWays

-----------------------------------------------------------------------------
\* What removing the element e does to the fields of the list.
Removed(e) ==
  /\ listSize' = listSize - 1
  /\ head' = IF head = e THEN next[e] ELSE head
  /\ tail' = IF tail = e THEN prev[e] ELSE tail
  /\ next' = [x \in Elems |-> IF x = e THEN 0 ELSE IF x = prev[e] THEN next[e] ELSE next[x]]
  /\ prev' = [x \in Elems |-> IF x = e THEN 0 ELSE IF x = next[e] THEN prev[e] ELSE prev[x]]

LEMMA RemovedKeeps ==
  ASSUME LinkTypes, NEW s, Chain(s), NEW k \in 1 .. Len(s), Removed(s[k]),
         NEW t \in Seq(Elems), Len(t) = Len(s) - 1,
         \A i \in 1 .. Len(s) - 1 : t[i] = IF i < k THEN s[i] ELSE s[i + 1]
  PROVE  LinkTypes' /\ Chain(t)'
  <1> DEFINE n == Len(s)
             e == s[k]
  <1>1. /\ n \in Nat /\ k \in 1 .. n /\ Len(t) = n - 1 /\ 0 \notin Elems
        /\ \A i \in 1 .. n : s[i] \in Elems
    <2>1. s \in Seq(Elems)
      BY DEF Chain
    <2> QED
      BY <2>1, ContainersAssumption
  <1>2. /\ listSize = n
        /\ head = IF n = 0 THEN 0 ELSE s[1]
        /\ tail = IF n = 0 THEN 0 ELSE s[n]
        /\ \A i \in 1 .. n : next[s[i]] = IF i = n THEN 0 ELSE s[i + 1]
        /\ \A i \in 1 .. n : prev[s[i]] = IF i = 1 THEN 0 ELSE s[i - 1]
        /\ \A i, j \in 1 .. n : s[i] = s[j] => i = j
    BY DEF Chain
  <1>3. \A i \in 1 .. n - 1 : t[i] = IF i < k THEN s[i] ELSE s[i + 1]
    OBVIOUS
  <1>4. /\ listSize' = n - 1
        /\ head' = IF head = e THEN next[e] ELSE head
        /\ tail' = IF tail = e THEN prev[e] ELSE tail
        /\ next' = [x \in Elems |-> IF x = e THEN 0 ELSE IF x = prev[e] THEN next[e] ELSE next[x]]
        /\ prev' = [x \in Elems |-> IF x = e THEN 0 ELSE IF x = next[e] THEN prev[e] ELSE prev[x]]
    BY <1>2 DEF Removed
  <1>5. LinkTypes'
    <2>1. e \in Elems
      BY ONLY <1>1
    <2> HIDE DEF e
    <2> QED
      BY ONLY <1>4, <2>1, LinkTypes DEF LinkTypes
  <1> HIDE DEF n, e
  <1>6. /\ e \in Elems /\ e = s[k]
        /\ next[e] = IF k = n THEN 0 ELSE s[k + 1]
        /\ prev[e] = IF k = 1 THEN 0 ELSE s[k - 1]
    BY ONLY <1>1, <1>2 DEF e
  <1>7. head' = IF n - 1 = 0 THEN 0 ELSE t[1]
    <2>1. CASE k = 1
      BY ONLY <1>1, <1>2, <1>3, <1>4, <1>6, <2>1
    <2>2. CASE k # 1
      BY ONLY <1>1, <1>2, <1>3, <1>4, <1>6, <2>2
    <2> QED
      BY <2>1, <2>2
  <1>8. tail' = IF n - 1 = 0 THEN 0 ELSE t[n - 1]
    <2>1. CASE k = n
      BY ONLY <1>1, <1>2, <1>3, <1>4, <1>6, <2>1
    <2>2. CASE k # n
      <3>1. tail = s[n] /\ s[n] # e /\ n - 1 \in 1 .. n - 1 /\ ~(n - 1 < k) /\ n - 1 + 1 = n
        BY ONLY <1>1, <1>2, <1>6, <2>2
      <3> QED
        BY ONLY <1>3, <1>4, <3>1
    <2> QED
      BY <2>1, <2>2
  \* The i-th of the new elements was the j-th.
  <1>9. ASSUME NEW i \in 1 .. n - 1
        PROVE  /\ next'[t[i]] = IF i = n - 1 THEN 0 ELSE t[i + 1]
               /\ prev'[t[i]] = IF i = 1 THEN 0 ELSE t[i - 1]
    <2> DEFINE j == IF i < k THEN i ELSE i + 1
    <2>1. j \in 1 .. n /\ j # k /\ t[i] = s[j] /\ s[j] \in Elems /\ s[j] # e
      <3>1. j \in 1 .. n /\ j # k
        BY ONLY <1>1, i \in 1 .. n - 1
      <3>2. t[i] = s[j]
        BY ONLY <1>3, i \in 1 .. n - 1
      <3> HIDE DEF j
      <3> QED
        BY ONLY <1>1, <1>2, <1>6, <3>1, <3>2
    <2>2. next'[t[i]] = IF s[j] = prev[e] THEN next[e] ELSE IF j = n THEN 0 ELSE s[j + 1]
      <3> HIDE DEF j
      <3> QED
        BY ONLY <1>2, <1>4, <2>1
    <2>3. prev'[t[i]] = IF s[j] = next[e] THEN prev[e] ELSE IF j = 1 THEN 0 ELSE s[j - 1]
      <3> HIDE DEF j
      <3> QED
        BY ONLY <1>2, <1>4, <2>1
    <2>4. (s[j] = prev[e]) <=> (k # 1 /\ j = k - 1)
      <3> HIDE DEF j
      <3>1. CASE k = 1
        BY ONLY <1>1, <1>6, <2>1, <3>1
      <3>2. CASE k # 1
        <4>1. k - 1 \in 1 .. n /\ prev[e] = s[k - 1]
          BY ONLY <1>1, <1>6, <3>2
        <4> QED
          BY ONLY <1>2, <2>1, <3>2, <4>1
      <3> QED
        BY <3>1, <3>2
    <2>5. (s[j] = next[e]) <=> (k # n /\ j = k + 1)
      <3> HIDE DEF j
      <3>1. CASE k = n
        BY ONLY <1>1, <1>6, <2>1, <3>1
      <3>2. CASE k # n
        <4>1. k + 1 \in 1 .. n /\ next[e] = s[k + 1]
          BY ONLY <1>1, <1>6, <3>2
        <4> QED
          BY ONLY <1>2, <2>1, <3>2, <4>1
      <3> QED
        BY <3>1, <3>2
    <2>6. i \in Int /\ k \in Int /\ n \in Int /\ 1 <= i /\ i <= n - 1 /\ 1 <= k /\ k <= n
      BY ONLY <1>1, i \in 1 .. n - 1
    <2>7. i # n - 1 => t[i + 1] = IF i + 1 < k THEN s[i + 1] ELSE s[i + 2]
      BY ONLY <1>3, <2>6
    <2>8. i # 1 => t[i - 1] = IF i - 1 < k THEN s[i - 1] ELSE s[i]
      BY ONLY <1>3, <2>6
    <2>9. next'[t[i]] = IF i = n - 1 THEN 0 ELSE t[i + 1]
      <3>1. CASE j = k - 1
        <4>1. i = k - 1 /\ k # 1 /\ i + 2 = k + 1 /\ ~(i + 1 < k)
          BY ONLY <2>6, <3>1
        <4>2. next'[t[i]] = next[e]
          BY ONLY <2>2, <2>4, <3>1, <4>1
        <4>3. (i = n - 1) <=> (k = n)
          BY ONLY <2>6, <4>1
        <4> QED
          BY ONLY <1>6, <2>7, <4>1, <4>2, <4>3
      <3>2. CASE j # k - 1
        <4>1. next'[t[i]] = IF j = n THEN 0 ELSE s[j + 1]
          BY ONLY <2>2, <2>4, <3>2
        <4>2. CASE i < k
          <5>1. j = i /\ i + 1 < k /\ i # n - 1 /\ j # n
            BY ONLY <2>6, <3>2, <4>2
          <5> QED
            BY ONLY <2>7, <4>1, <5>1
        <4>3. CASE ~(i < k)
          <5>1. j = i + 1 /\ ~(i + 1 < k) /\ ((i = n - 1) <=> (j = n)) /\ j + 1 = i + 2
            BY ONLY <2>6, <4>3
          <5> QED
            BY ONLY <2>7, <4>1, <5>1
        <4> QED
          BY <4>2, <4>3
      <3> QED
        BY <3>1, <3>2
    <2>10. prev'[t[i]] = IF i = 1 THEN 0 ELSE t[i - 1]
      <3>1. CASE j = k + 1
        <4>1. i = k /\ k # n /\ i - 1 < k
          BY ONLY <2>6, <3>1
        <4>2. prev'[t[i]] = prev[e]
          BY ONLY <2>3, <2>5, <3>1, <4>1
        <4> QED
          BY ONLY <1>6, <2>8, <4>1, <4>2
      <3>2. CASE j # k + 1
        <4>1. prev'[t[i]] = IF j = 1 THEN 0 ELSE s[j - 1]
          BY ONLY <2>3, <2>5, <3>2
        <4>2. CASE i < k
          <5>1. j = i /\ i - 1 < k
            BY ONLY <2>6, <4>2
          <5> QED
            BY ONLY <2>8, <4>1, <5>1
        <4>3. CASE ~(i < k)
          <5>1. j = i + 1 /\ ~(i - 1 < k) /\ i # 1 /\ j # 1 /\ j - 1 = i
            BY ONLY <2>6, <3>2, <4>3
          <5> QED
            BY ONLY <2>8, <4>1, <5>1
        <4> QED
          BY <4>2, <4>3
      <3> QED
        BY <3>1, <3>2
    <2> QED
      BY <2>9, <2>10
  <1>10. ASSUME NEW i \in 1 .. n - 1, NEW j \in 1 .. n - 1, t[i] = t[j]
         PROVE  i = j
    <2>1. /\ (IF i < k THEN i ELSE i + 1) \in 1 .. n
          /\ (IF j < k THEN j ELSE j + 1) \in 1 .. n
      BY ONLY <1>1, i \in 1 .. n - 1, j \in 1 .. n - 1
    <2>2. s[IF i < k THEN i ELSE i + 1] = s[IF j < k THEN j ELSE j + 1]
      BY <1>3, <1>10
    <2>3. (IF i < k THEN i ELSE i + 1) = (IF j < k THEN j ELSE j + 1)
      BY ONLY <1>2, <2>1, <2>2
    <2> QED
      BY ONLY <1>1, <2>3, i \in 1 .. n - 1, j \in 1 .. n - 1
  <1> QED
    BY ONLY <1>1, <1>4, <1>5, <1>7, <1>8, <1>9, <1>10, t \in Seq(Elems) DEF Chain

\* What an element in front of the others does to the fields of the list.
LEMMA PushedFront ==
  ASSUME LinkTypes, NEW s, Chain(s), NEW e \in Elems, \A i \in 1 .. Len(s) : s[i] # e,
         listSize' = listSize + 1, head' = e, tail' = IF head = 0 THEN e ELSE tail,
         next' = [next EXCEPT ![e] = head],
         prev' = [x \in Elems |-> IF x = e THEN 0 ELSE IF x = head THEN e ELSE prev[x]]
  PROVE  LinkTypes' /\ Chain(<<e>> \o s)'
  <1> DEFINE n == Len(s)
             t == <<e>> \o s
  <1>1. /\ s \in Seq(Elems) /\ n \in Nat /\ 0 \notin Elems
        /\ \A i \in 1 .. n : s[i] \in Elems /\ s[i] # e
    <2>1. s \in Seq(Elems)
      BY DEF Chain
    <2> QED
      BY <2>1, ContainersAssumption
  <1>2. /\ listSize = n
        /\ head = IF n = 0 THEN 0 ELSE s[1]
        /\ tail = IF n = 0 THEN 0 ELSE s[n]
        /\ \A i \in 1 .. n : next[s[i]] = IF i = n THEN 0 ELSE s[i + 1]
        /\ \A i \in 1 .. n : prev[s[i]] = IF i = 1 THEN 0 ELSE s[i - 1]
        /\ \A i, j \in 1 .. n : s[i] = s[j] => i = j
    BY DEF Chain
  <1>3. /\ t \in Seq(Elems) /\ Len(t) = n + 1 /\ t[1] = e
        /\ \A i \in 1 .. n : t[i + 1] = s[i]
    <2>1. <<e>> \in Seq(Elems) /\ Len(<<e>>) = 1 /\ <<e>>[1] = e
      OBVIOUS
    <2>2. t \in Seq(Elems) /\ Len(t) = 1 + n
      BY ONLY <1>1, <2>1, ConcatProperties
    <2>3. \A i \in 1 .. 1 + n : t[i] = IF i <= 1 THEN <<e>>[i] ELSE s[i - 1]
      BY ONLY <1>1, <2>1, ConcatProperties
    <2> HIDE DEF t
    <2>4. t[1] = e
      BY ONLY <1>1, <2>1, <2>3
    <2>5. \A i \in 1 .. n : i + 1 \in 1 .. 1 + n /\ ~(i + 1 <= 1) /\ i + 1 - 1 = i
      BY ONLY <1>1
    <2>6. \A i \in 1 .. n : t[i + 1] = s[i]
      BY ONLY <2>3, <2>5
    <2> QED
      BY ONLY <1>1, <2>2, <2>4, <2>6
  <1> HIDE DEF n, t
  <1>4. head \in Elems \cup {0} /\ (head = 0 <=> n = 0)
    BY ONLY <1>1, <1>2
  <1>5. LinkTypes'
    BY ONLY <1>4, LinkTypes, e \in Elems, next' = [next EXCEPT ![e] = head],
            prev' = [x \in Elems |-> IF x = e THEN 0 ELSE IF x = head THEN e ELSE prev[x]]
    DEF LinkTypes
  <1>6. /\ next'[e] = head /\ \A x \in Elems : x # e => next'[x] = next[x]
        /\ prev'[e] = 0 /\ \A x \in Elems : x # e => prev'[x] = IF x = head THEN e ELSE prev[x]
    BY ONLY LinkTypes, e \in Elems, next' = [next EXCEPT ![e] = head],
            prev' = [x \in Elems |-> IF x = e THEN 0 ELSE IF x = head THEN e ELSE prev[x]]
    DEF LinkTypes
  <1>7. tail' = t[n + 1]
    <2>1. CASE n = 0
      BY ONLY <1>3, <1>4, <2>1, tail' = IF head = 0 THEN e ELSE tail
    <2>2. CASE n # 0
      BY ONLY <1>1, <1>2, <1>3, <1>4, <2>2, tail' = IF head = 0 THEN e ELSE tail
    <2> QED
      BY <2>1, <2>2
  <1>8. \A i \in 1 .. n + 1 : i = 1 \/ (i - 1 \in 1 .. n /\ (i - 1) + 1 = i)
    BY ONLY <1>1
  <1>9. ASSUME NEW i \in 1 .. n + 1
        PROVE  next'[t[i]] = IF i = n + 1 THEN 0 ELSE t[i + 1]
    <2>1. CASE i = 1
      <3>1. n # 0 => 1 \in 1 .. n /\ t[1 + 1] = s[1]
        BY ONLY <1>1, <1>3
      <3> QED
        BY ONLY <1>1, <1>2, <1>3, <1>6, <2>1, <3>1
    <2>2. CASE i # 1
      <3>1. i - 1 \in 1 .. n /\ t[i] = s[i - 1] /\ (i = n + 1 <=> i - 1 = n) /\ (i - 1) + 1 = i
        BY ONLY <1>1, <1>3, <1>8, <2>2, i \in 1 .. n + 1
      <3>2. next'[t[i]] = IF i - 1 = n THEN 0 ELSE s[i]
        <4>1. s[i - 1] \in Elems /\ s[i - 1] # e
          BY ONLY <1>1, <3>1
        <4>2. next'[t[i]] = next[s[i - 1]]
          BY ONLY <1>6, <3>1, <4>1
        <4>3. next[s[i - 1]] = IF i - 1 = n THEN 0 ELSE s[(i - 1) + 1]
          BY ONLY <1>2, <3>1
        <4> QED
          BY ONLY <3>1, <4>2, <4>3
      <3>3. i # n + 1 => i \in 1 .. n
        BY ONLY <1>1, i \in 1 .. n + 1
      <3> QED
        BY ONLY <1>3, <3>1, <3>2, <3>3
    <2> QED
      BY <2>1, <2>2
  <1>10. ASSUME NEW i \in 1 .. n + 1
         PROVE  prev'[t[i]] = IF i = 1 THEN 0 ELSE t[i - 1]
    <2>1. CASE i = 1
      BY ONLY <1>3, <1>6, <2>1
    <2>2. CASE i # 1
      <3>1. i - 1 \in 1 .. n /\ t[i] = s[i - 1]
        BY ONLY <1>1, <1>3, <1>8, <2>2, i \in 1 .. n + 1
      <3>2. prev'[t[i]] = IF s[i - 1] = head THEN e ELSE prev[s[i - 1]]
        BY ONLY <1>1, <1>6, <3>1
      <3>3. CASE i = 2
        BY ONLY <1>1, <1>2, <1>3, <3>1, <3>2, <3>3
      <3>4. CASE i # 2
        <4>1. i - 1 # 1 /\ 1 \in 1 .. n /\ i - 1 - 1 \in 1 .. n /\ (i - 1 - 1) + 1 = i - 1 /\ n # 0
          BY ONLY <1>1, <2>2, <3>1, <3>4, i \in 1 .. n + 1
        <4>2. s[i - 1] # head
          BY ONLY <1>2, <3>1, <4>1
        <4>3. prev[s[i - 1]] = s[i - 1 - 1] /\ t[i - 1] = s[i - 1 - 1]
          BY ONLY <1>2, <1>3, <3>1, <4>1
        <4> QED
          BY ONLY <2>2, <3>2, <4>2, <4>3
      <3> QED
        BY <3>3, <3>4
    <2> QED
      BY <2>1, <2>2
  <1>11. ASSUME NEW i \in 1 .. n + 1, NEW j \in 1 .. n + 1, t[i] = t[j]
         PROVE  i = j
    <2>1. \A k \in 1 .. n + 1 : k # 1 => k - 1 \in 1 .. n /\ t[k] = s[k - 1] /\ t[k] # e
      BY ONLY <1>1, <1>3, <1>8
    <2>2. CASE i = 1 \/ j = 1
      BY ONLY <1>3, <1>11, <2>1, <2>2, i \in 1 .. n + 1, j \in 1 .. n + 1
    <2>3. CASE i # 1 /\ j # 1
      <3>1. i - 1 = j - 1
        BY ONLY <1>2, <1>11, <2>1, <2>3, i \in 1 .. n + 1, j \in 1 .. n + 1
      <3> QED
        BY ONLY <1>1, <3>1, i \in 1 .. n + 1, j \in 1 .. n + 1
    <2> QED
      BY <2>2, <2>3
  <1>12. listSize' = Len(t) /\ head' = t[1] /\ Len(t) # 0
    BY ONLY <1>1, <1>2, <1>3, listSize' = listSize + 1, head' = e
  <1>13. Chain(t)'
    BY ONLY <1>3, <1>7, <1>9, <1>10, <1>11, <1>12 DEF Chain
  <1> QED
    BY <1>5, <1>13 DEF t

\* The same behind the others.
LEMMA PushedBack ==
  ASSUME LinkTypes, NEW s, Chain(s), NEW e \in Elems, \A i \in 1 .. Len(s) : s[i] # e,
         listSize' = listSize + 1, tail' = e, head' = IF head = 0 THEN e ELSE head,
         prev' = [prev EXCEPT ![e] = tail],
         next' = [x \in Elems |-> IF x = e THEN 0 ELSE IF x = tail THEN e ELSE next[x]]
  PROVE  LinkTypes' /\ Chain(Append(s, e))'
  <1> DEFINE n == Len(s)
             t == Append(s, e)
  <1>1. /\ s \in Seq(Elems) /\ n \in Nat /\ 0 \notin Elems
        /\ \A i \in 1 .. n : s[i] \in Elems /\ s[i] # e
    <2>1. s \in Seq(Elems)
      BY DEF Chain
    <2> QED
      BY <2>1, ContainersAssumption
  <1>2. /\ listSize = n
        /\ head = IF n = 0 THEN 0 ELSE s[1]
        /\ tail = IF n = 0 THEN 0 ELSE s[n]
        /\ \A i \in 1 .. n : next[s[i]] = IF i = n THEN 0 ELSE s[i + 1]
        /\ \A i \in 1 .. n : prev[s[i]] = IF i = 1 THEN 0 ELSE s[i - 1]
        /\ \A i, j \in 1 .. n : s[i] = s[j] => i = j
    BY DEF Chain
  <1>3. /\ t \in Seq(Elems) /\ Len(t) = n + 1 /\ t[n + 1] = e
        /\ \A i \in 1 .. n : t[i] = s[i]
    BY ONLY <1>1, e \in Elems, AppendProperties
  <1> HIDE DEF n, t
  <1>4. /\ tail \in Elems \cup {0} /\ (tail = 0 <=> n = 0) /\ (head = 0 <=> n = 0)
        /\ n # 0 => n \in 1 .. n /\ 1 \in 1 .. n
    BY ONLY <1>1, <1>2
  <1>5. LinkTypes'
    BY ONLY <1>4, LinkTypes, e \in Elems, prev' = [prev EXCEPT ![e] = tail],
            next' = [x \in Elems |-> IF x = e THEN 0 ELSE IF x = tail THEN e ELSE next[x]]
    DEF LinkTypes
  <1>6. /\ prev'[e] = tail /\ \A x \in Elems : x # e => prev'[x] = prev[x]
        /\ next'[e] = 0 /\ \A x \in Elems : x # e => next'[x] = IF x = tail THEN e ELSE next[x]
    BY ONLY LinkTypes, e \in Elems, prev' = [prev EXCEPT ![e] = tail],
            next' = [x \in Elems |-> IF x = e THEN 0 ELSE IF x = tail THEN e ELSE next[x]]
    DEF LinkTypes
  <1>7. head' = t[1]
    <2>1. CASE n = 0
      BY ONLY <1>3, <1>4, <2>1, head' = IF head = 0 THEN e ELSE head
    <2>2. CASE n # 0
      BY ONLY <1>2, <1>3, <1>4, <2>2, head' = IF head = 0 THEN e ELSE head
    <2> QED
      BY <2>1, <2>2
  <1>8. \A i \in 1 .. n + 1 : i = n + 1 \/ i \in 1 .. n
    BY ONLY <1>1
  <1>9. ASSUME NEW i \in 1 .. n + 1
        PROVE  prev'[t[i]] = IF i = 1 THEN 0 ELSE t[i - 1]
    <2>1. CASE i = n + 1
      <3>1. /\ prev'[t[i]] = tail /\ (i = 1 <=> n = 0) /\ i - 1 = n
        BY ONLY <1>1, <1>3, <1>6, <2>1
      <3> QED
        BY ONLY <1>2, <1>3, <1>4, <3>1
    <2>2. CASE i # n + 1
      <3>1. i \in 1 .. n /\ t[i] = s[i] /\ (i # 1 => i - 1 \in 1 .. n)
        BY ONLY <1>1, <1>3, <1>8, <2>2, i \in 1 .. n + 1
      <3> QED
        BY ONLY <1>1, <1>2, <1>3, <1>6, <3>1
    <2> QED
      BY <2>1, <2>2
  <1>10. ASSUME NEW i \in 1 .. n + 1
         PROVE  next'[t[i]] = IF i = n + 1 THEN 0 ELSE t[i + 1]
    <2>1. CASE i = n + 1
      BY ONLY <1>3, <1>6, <2>1
    <2>2. CASE i # n + 1
      <3>1. i \in 1 .. n /\ t[i] = s[i]
        BY ONLY <1>1, <1>3, <1>8, <2>2, i \in 1 .. n + 1
      <3>2. next'[t[i]] = IF s[i] = tail THEN e ELSE next[s[i]]
        BY ONLY <1>1, <1>6, <3>1
      <3>3. CASE i = n
        <4>1. n # 0
          BY ONLY <1>1, <3>1
        <4> QED
          BY ONLY <1>2, <1>3, <2>2, <3>2, <3>3, <4>1
      <3>4. CASE i # n
        <4>1. i + 1 \in 1 .. n /\ n # 0 /\ n \in 1 .. n
          BY ONLY <1>1, <3>1, <3>4
        <4>2. s[i] # tail
          BY ONLY <1>2, <3>1, <3>4, <4>1
        <4> QED
          BY ONLY <1>2, <1>3, <2>2, <3>1, <3>2, <3>4, <4>1, <4>2
      <3> QED
        BY <3>3, <3>4
    <2> QED
      BY <2>1, <2>2
  <1>11. ASSUME NEW i \in 1 .. n + 1, NEW j \in 1 .. n + 1, t[i] = t[j]
         PROVE  i = j
    <2>1. \A k \in 1 .. n : t[k] = s[k] /\ t[k] # e
      BY ONLY <1>1, <1>3
    <2>2. CASE i = n + 1 \/ j = n + 1
      BY ONLY <1>3, <1>8, <1>11, <2>1, <2>2, i \in 1 .. n + 1, j \in 1 .. n + 1
    <2>3. CASE i # n + 1 /\ j # n + 1
      BY ONLY <1>2, <1>8, <1>11, <2>1, <2>3, i \in 1 .. n + 1, j \in 1 .. n + 1
    <2> QED
      BY <2>2, <2>3
  <1>12. listSize' = Len(t) /\ tail' = t[Len(t)] /\ Len(t) # 0
    BY ONLY <1>1, <1>2, <1>3, listSize' = listSize + 1, tail' = e
  <1>13. Chain(t)'
    BY ONLY <1>3, <1>7, <1>9, <1>10, <1>11, <1>12 DEF Chain
  <1> QED
    BY <1>5, <1>13 DEF t

\* Three ways to take an element out.
Without(s, k) == SubSeq(s, 1, k - 1) \o SubSeq(s, k + 1, Len(s))

LEMMA Shorter ==
  ASSUME NEW S, NEW s \in Seq(S), NEW k \in 1 .. Len(s)
  PROVE  /\ Without(s, k) \in Seq(S) /\ Len(Without(s, k)) = Len(s) - 1
         /\ \A i \in 1 .. Len(s) - 1 : Without(s, k)[i] = IF i < k THEN s[i] ELSE s[i + 1]
         /\ k = 1 => Without(s, k) = Tail(s)
         /\ k = Len(s) => Without(s, k) = SubSeq(s, 1, Len(s) - 1)
  <1> DEFINE t == Without(s, k)
             n == Len(s)
             a == SubSeq(s, 1, k - 1)
             b == SubSeq(s, k + 1, n)
  <1>1. n \in Nat /\ k \in 1 .. n /\ n >= 1 /\ \A i \in 1 .. n : s[i] \in S
    OBVIOUS
  <1>2. /\ a \in Seq(S) /\ Len(a) = k - 1 /\ \A i \in 1 .. k - 1 : a[i] = s[i]
    <2>1. /\ a \in Seq(S) /\ Len(a) = IF 1 <= k - 1 THEN k - 1 - 1 + 1 ELSE 0
          /\ \A i \in 1 .. k - 1 - 1 + 1 : a[i] = s[1 + i - 1]
      <3>1. 1 \in Int /\ k - 1 \in Int /\ \A i \in 1 .. k - 1 : s[i] \in S
        BY ONLY <1>1
      <3> QED
        BY ONLY s \in Seq(S), <3>1, SubSeqProperties
    <2> HIDE DEF a, n
    <2>2. k - 1 - 1 + 1 = k - 1 /\ \A i \in 1 .. k - 1 : 1 + i - 1 = i
      BY ONLY <1>1
    <2>3. Len(a) = k - 1
      BY ONLY <1>1, <2>1
    <2> QED
      BY ONLY <2>1, <2>2, <2>3
  <1>3. b \in Seq(S) /\ Len(b) = n - k /\ \A i \in 1 .. n - k : b[i] = s[k + i]
    <2>1. /\ b \in Seq(S) /\ Len(b) = IF k + 1 <= n THEN n - (k + 1) + 1 ELSE 0
          /\ \A i \in 1 .. n - (k + 1) + 1 : b[i] = s[k + 1 + i - 1]
      <3>1. k + 1 \in Int /\ n \in Int /\ \A i \in k + 1 .. n : s[i] \in S
        BY ONLY <1>1
      <3> QED
        BY ONLY s \in Seq(S), <3>1, SubSeqProperties
    <2> HIDE DEF b, n
    <2>2. n - (k + 1) + 1 = n - k /\ \A i \in 1 .. n - k : k + 1 + i - 1 = k + i
      BY ONLY <1>1
    <2>3. Len(b) = n - k
      BY ONLY <1>1, <2>1
    <2> QED
      BY ONLY <2>1, <2>2, <2>3
  <1>4. t = a \o b
    BY DEF Without
  <1> HIDE DEF a, b, n, t
  <1>5. /\ t \in Seq(S) /\ Len(t) = (k - 1) + (n - k)
        /\ \A i \in 1 .. (k - 1) + (n - k) : t[i] = IF i <= k - 1 THEN a[i] ELSE b[i - (k - 1)]
    BY ONLY <1>2, <1>3, <1>4, ConcatProperties
  <1>6. (k - 1) + (n - k) = n - 1
    BY ONLY <1>1
  <1>7. \A i \in 1 .. n - 1 : t[i] = IF i < k THEN s[i] ELSE s[i + 1]
    <2> SUFFICES ASSUME NEW i \in 1 .. n - 1
                 PROVE  t[i] = IF i < k THEN s[i] ELSE s[i + 1]
      OBVIOUS
    <2>1. t[i] = IF i <= k - 1 THEN a[i] ELSE b[i - (k - 1)]
      BY ONLY <1>5, <1>6
    <2>2. CASE i < k
      <3>1. i <= k - 1 /\ i \in 1 .. k - 1
        BY ONLY <1>1, <2>2, i \in 1 .. n - 1
      <3> QED
        BY ONLY <1>2, <2>1, <2>2, <3>1
    <2>3. CASE ~(i < k)
      <3>1. ~(i <= k - 1) /\ i - (k - 1) \in 1 .. n - k /\ k + (i - (k - 1)) = i + 1
        BY ONLY <1>1, <2>3, i \in 1 .. n - 1
      <3> QED
        BY ONLY <1>3, <2>1, <2>3, <3>1
    <2> QED
      BY <2>2, <2>3
  <1>8. CASE k = 1
    <2>1. Tail(s) \in Seq(S) /\ Len(Tail(s)) = n - 1 /\ \A i \in 1 .. n - 1 : Tail(s)[i] = s[i + 1]
      <3>1. s # <<>>
        BY ONLY <1>1, s \in Seq(S), EmptySeq DEF n
      <3> QED
        BY ONLY <3>1, s \in Seq(S), HeadTailProperties DEF n
    <2>2. \A i \in 1 .. n - 1 : ~(i < k)
      BY ONLY <1>8
    <2>3. \A i \in 1 .. n - 1 : t[i] = Tail(s)[i]
      BY ONLY <1>7, <2>1, <2>2
    <2>4. t = Tail(s)
      BY ONLY <1>5, <1>6, <2>1, <2>3, SeqEqual
    <2>5. k = n => t = SubSeq(s, 1, Len(s) - 1)
      <3>1. SUFFICES ASSUME k = n PROVE t = SubSeq(s, 1, Len(s) - 1)
        OBVIOUS
      <3>2. Len(s) - 1 = 0
        BY ONLY <1>8, <3>1 DEF n
      <3>3. SubSeq(s, 1, 0) = <<>>
        BY ONLY s \in Seq(S), SubSeqEmpty
      <3>4. t = <<>>
        BY ONLY <1>5, <1>6, <1>8, <3>1, EmptySeq
      <3> QED
        BY ONLY <3>2, <3>3, <3>4
    <2> QED
      BY ONLY <1>5, <1>6, <1>7, <2>4, <2>5 DEF n, t
  <1>9. CASE k # 1
    <2>1. k = n => t = SubSeq(s, 1, Len(s) - 1)
      <3>1. SUFFICES ASSUME k = n PROVE t = SubSeq(s, 1, Len(s) - 1)
        OBVIOUS
      <3>2. SubSeq(s, 1, Len(s) - 1) = a
        BY ONLY <3>1 DEF n, a
      <3>3. b = <<>>
        BY ONLY <1>1, <1>3, <3>1, EmptySeq
      <3> QED
        BY ONLY <1>2, <1>4, <3>2, <3>3, ConcatEmptySeq
    <2> QED
      BY ONLY <1>5, <1>6, <1>7, <1>9, <2>1 DEF n, t
  <1> QED
    BY <1>8, <1>9


LEMMA TheItems == \A s : Chain(s) => List!Items = s /\ List!BothWays(List!Items)
  BY ItemsIs

LEMMA TheItemsNext == (\A s : Chain(s) => List!Items = s /\ List!BothWays(List!Items))'
  BY TheItems, PTL

\* A step of the list is one of the sequence.
LEMMA ListStep ==
  ASSUME ListInv, [List!Next]_list
  PROVE  ListInv' /\ [List!Abstract!Next]_<<List!Items, listPopped>>
  <1>1. LinkTypes
    BY DEF ListInv
  <1>2. PICK s : Chain(s)
    BY DEF ListInv
  <1> DEFINE n == Len(s)
  <1>3. List!Items = s /\ s \in Seq(Elems) /\ n \in Nat
    <2>1. s \in Seq(Elems)
      BY <1>2 DEF Chain
    <2> QED
      BY <1>2, <2>1, TheItems
  <1>4. \A t : Chain(t)' => List!Items' = t
    <2>1. (\A t : Chain(t) => List!Items = t /\ List!BothWays(List!Items))'
      BY TheItemsNext
    <2> QED
      BY ONLY <2>1
  <1>5. ASSUME NEW t, LinkTypes', Chain(t)'
        PROVE  ListInv' /\ List!Items' = t
    BY ONLY <1>4, <1>5 DEF ListInv
  <1>6. /\ listSize = n
        /\ head = IF n = 0 THEN 0 ELSE s[1]
        /\ tail = IF n = 0 THEN 0 ELSE s[n]
        /\ \A i \in 1 .. n : next[s[i]] = IF i = n THEN 0 ELSE s[i + 1]
        /\ \A i \in 1 .. n : prev[s[i]] = IF i = 1 THEN 0 ELSE s[i - 1]
        /\ \A i, j \in 1 .. n : s[i] = s[j] => i = j
        /\ \A i \in 1 .. n : s[i] \in Elems
        /\ 0 \notin Elems
    BY <1>2, <1>3, ContainersAssumption DEF Chain
  <1>7. List!Range(s) = {s[i] : i \in 1 .. n}
    BY ONLY <1>3 DEF List!Range
  <1>8. ASSUME UNCHANGED <<head, tail, prev, next, listSize>>
        PROVE  ListInv' /\ List!Items' = s
    <2>1. LinkTypes' /\ Chain(s)'
      BY <1>1, <1>2, <1>8 DEF LinkTypes, Chain
    <2> QED
      BY ONLY <1>5, <2>1
  <1>9. ASSUME NEW k \in 1 .. n, Removed(s[k])
        PROVE  /\ ListInv' /\ List!Items' = List!Abstract!RemoveAt(s, k)
               /\ k = 1 => List!Items' = Tail(s)
               /\ k = n => List!Items' = List!Abstract!Front(s)
    <2>1. PICK q : q = Without(s, k)
      OBVIOUS
    <2>2. /\ q \in Seq(Elems) /\ Len(q) = Len(s) - 1
          /\ \A i \in 1 .. Len(s) - 1 : q[i] = IF i < k THEN s[i] ELSE s[i + 1]
          /\ k = 1 => q = Tail(s)
          /\ k = Len(s) => q = SubSeq(s, 1, Len(s) - 1)
      <3>1. s \in Seq(Elems) /\ k \in 1 .. Len(s)
        BY ONLY <1>3, k \in 1 .. n
      <3> QED
        BY ONLY <2>1, <3>1, Shorter
    <2>3. LinkTypes' /\ Chain(q)'
      BY ONLY <1>1, <1>2, <1>9, <2>2, k \in 1 .. n, RemovedKeeps
    <2>4. ListInv' /\ List!Items' = q
      BY ONLY <1>5, <2>3
    <2> QED
      BY <2>1, <2>2, <2>4 DEF Without, List!Abstract!RemoveAt, List!Abstract!Front
  <1> DEFINE Abs == List!Abstract!Next
  <1>10. CASE UNCHANGED list
    <2>1. UNCHANGED <<head, tail, prev, next, listSize>> /\ listPopped' = listPopped
      BY <1>10 DEF list
    <2> QED
      BY <1>3, <1>8, <2>1
  <1>11. CASE \E e \in Elems : List!push_front(e)
    <2>1. PICK e \in Elems : List!push_front(e)
      BY <1>11
    <2>2. \A i \in 1 .. n : s[i] # e
      BY <1>3, <1>7, <2>1 DEF List!push_front
    <2>3. /\ listSize' = listSize + 1 /\ head' = e /\ tail' = IF head = 0 THEN e ELSE tail
          /\ next' = [next EXCEPT ![e] = head]
          /\ prev' = [x \in Elems |-> IF x = e THEN 0 ELSE IF x = head THEN e ELSE prev[x]]
          /\ listPopped' = listPopped
      BY <2>1 DEF List!push_front, List!empty, List!nullptr
    <2>4. LinkTypes' /\ Chain(<<e>> \o s)'
      BY ONLY <1>1, <1>2, <2>2, <2>3, e \in Elems, PushedFront
    <2>5. ListInv' /\ List!Items' = <<e>> \o s
      BY ONLY <1>5, <2>4
    <2>6. List!Abstract!Push(e)
      BY ONLY <1>3, <2>3, <2>5 DEF List!Abstract!Push, List!Abstract!Cons
    <2> QED
      BY <2>5, <2>6 DEF List!Abstract!Next
  <1>12. CASE \E e \in Elems : List!push_back(e)
    <2>1. PICK e \in Elems : List!push_back(e)
      BY <1>12
    <2>2. \A i \in 1 .. n : s[i] # e
      BY <1>3, <1>7, <2>1 DEF List!push_back
    <2>3. /\ listSize' = listSize + 1 /\ tail' = e /\ head' = IF head = 0 THEN e ELSE head
          /\ prev' = [prev EXCEPT ![e] = tail]
          /\ next' = [x \in Elems |-> IF x = e THEN 0 ELSE IF x = tail THEN e ELSE next[x]]
          /\ listPopped' = listPopped
      BY <2>1 DEF List!push_back, List!empty, List!nullptr
    <2>4. LinkTypes' /\ Chain(Append(s, e))'
      BY ONLY <1>1, <1>2, <2>2, <2>3, e \in Elems, PushedBack
    <2>5. ListInv' /\ List!Items' = Append(s, e)
      BY ONLY <1>5, <2>4
    <2>6. List!Abstract!Push(e)
      BY ONLY <1>3, <2>3, <2>5 DEF List!Abstract!Push
    <2> QED
      BY <2>5, <2>6 DEF List!Abstract!Next
  <1>13. CASE \E e \in Elems : List!RemoveSelfFromList(e)
    <2>1. PICK e \in Elems : List!RemoveSelfFromList(e)
      BY <1>13
    <2>2. PICK k \in 1 .. n : e = s[k]
      BY <1>3, <1>7, <2>1 DEF List!RemoveSelfFromList
    <2>3. Removed(s[k]) /\ listPopped' = listPopped
      BY <2>1, <2>2 DEF List!RemoveSelfFromList, List!Detach, List!nullptr, Removed
    <2>4. ListInv' /\ List!Items' = List!Abstract!RemoveAt(s, k)
      BY ONLY <1>9, <2>3, k \in 1 .. n
    <2>5. List!Abstract!TakeOut
      <3>1. k \in DOMAIN s
        BY ONLY <1>3
      <3> QED
        BY ONLY <1>3, <2>3, <2>4, <3>1 DEF List!Abstract!TakeOut
    <2> QED
      BY <2>4, <2>5 DEF List!Abstract!Next
  <1>14. CASE List!pop_front
    <2>1. CASE head = 0
      <3>1. UNCHANGED <<head, tail, prev, next, listSize>> /\ listPopped' = 0
        BY <1>14, <2>1 DEF List!pop_front, List!empty, List!nullptr
      <3>2. s = <<>>
        BY <1>3, <1>6, <2>1, EmptySeq
      <3>3. ListInv' /\ List!Items' = s
        BY ONLY <1>8, <3>1
      <3>4. List!Abstract!PopFront
        BY ONLY <1>3, <3>1, <3>2, <3>3 DEF List!Abstract!PopFront, List!Abstract!NoElement
      <3> QED
        BY <3>3, <3>4 DEF List!Abstract!Next
    <2>2. CASE head # 0
      <3>1. /\ listSize' = listSize - 1 /\ listPopped' = head
            /\ head' = next[head] /\ tail' = IF next[head] = 0 THEN 0 ELSE tail
            /\ List!Detach(head)
        BY <1>14, <2>2 DEF List!pop_front, List!empty, List!nullptr
      <3>2. n # 0 /\ 1 \in 1 .. n /\ n \in 1 .. n /\ head = s[1] /\ tail = s[n]
        BY <1>3, <1>6, <2>2
      <3>3. (tail = head) <=> (next[head] = 0)
        BY ONLY <1>3, <1>6, <3>2
      <3>4. prev[head] = 0
        BY ONLY <1>6, <3>2
      <3>5. Removed(s[1])
        BY ONLY <3>1, <3>2, <3>3, <3>4 DEF Removed, List!Detach, List!nullptr
      <3>6. ListInv' /\ List!Items' = Tail(s)
        BY ONLY <1>9, <3>2, <3>5
      <3>7. List!Abstract!PopFront
        <4>1. s # <<>> /\ Head(s) = s[1]
          BY <1>3, <3>2, EmptySeq
        <4> QED
          BY ONLY <1>3, <3>1, <3>2, <3>6, <4>1 DEF List!Abstract!PopFront
      <3> QED
        BY <3>6, <3>7 DEF List!Abstract!Next
    <2> QED
      BY <2>1, <2>2
  <1>15. CASE List!pop_back
    <2>1. CASE head = 0
      <3>1. UNCHANGED <<head, tail, prev, next, listSize>> /\ listPopped' = 0
        BY <1>15, <2>1 DEF List!pop_back, List!empty, List!nullptr
      <3>2. s = <<>>
        BY <1>3, <1>6, <2>1, EmptySeq
      <3>3. ListInv' /\ List!Items' = s
        BY ONLY <1>8, <3>1
      <3>4. List!Abstract!PopBack
        BY ONLY <1>3, <3>1, <3>2, <3>3 DEF List!Abstract!PopBack, List!Abstract!NoElement
      <3> QED
        BY <3>3, <3>4 DEF List!Abstract!Next
    <2>2. CASE head # 0
      <3>1. /\ listSize' = listSize - 1 /\ listPopped' = tail
            /\ tail' = prev[tail] /\ head' = IF prev[tail] = 0 THEN 0 ELSE head
            /\ List!Detach(tail)
        BY <1>15, <2>2 DEF List!pop_back, List!empty, List!nullptr
      <3>2. n # 0 /\ 1 \in 1 .. n /\ n \in 1 .. n /\ head = s[1] /\ tail = s[n]
        BY <1>3, <1>6, <2>2
      <3>3. (head = tail) <=> (prev[tail] = 0)
        BY ONLY <1>3, <1>6, <3>2
      <3>4. next[tail] = 0
        BY ONLY <1>6, <3>2
      <3>5. Removed(s[n])
        BY ONLY <3>1, <3>2, <3>3, <3>4 DEF Removed, List!Detach, List!nullptr
      <3>6. ListInv' /\ List!Items' = List!Abstract!Front(s)
        BY ONLY <1>9, <3>2, <3>5
      <3>7. List!Abstract!PopBack
        <4>1. s # <<>> /\ List!Abstract!Last(s) = s[n]
          BY <1>3, <3>2, EmptySeq DEF List!Abstract!Last
        <4> QED
          BY ONLY <1>3, <3>1, <3>2, <3>6, <4>1 DEF List!Abstract!PopBack
      <3> QED
        BY <3>6, <3>7 DEF List!Abstract!Next
    <2> QED
      BY <2>1, <2>2
  <1> QED
    BY <1>10, <1>11, <1>12, <1>13, <1>14, <1>15 DEF List!Next

LEMMA ListInit == List!Init => ListInv /\ List!Abstract!Init
  <1> SUFFICES ASSUME List!Init PROVE ListInv /\ List!Abstract!Init
    OBVIOUS
  <1>1. /\ head = 0 /\ tail = 0 /\ listSize = 0 /\ listPopped = 0
        /\ prev = [e \in Elems |-> 0] /\ next = [e \in Elems |-> 0]
    BY DEF List!Init, List!nullptr
  <1>2. LinkTypes /\ Chain(<<>>)
    BY <1>1, EmptySeq DEF LinkTypes, Chain
  <1>3. List!Items = <<>>
    BY <1>2, TheItems
  <1> QED
    BY <1>1, <1>2, <1>3 DEF ListInv, List!Abstract!Init, List!Abstract!NoElement

-----------------------------------------------------------------------------
(* The vector *)

Cells == Elems \cup {-1, -2}
Held == SubSeq(array, 1, length)

VectorInv ==
  /\ array \in Seq(Cells) /\ length \in 0 .. Len(array)
  /\ \A i \in 1 .. length : array[i] \in Elems

\* The sequence that the first n cells are.
LEMMA CellsAre ==
  ASSUME NEW S, NEW T, S \subseteq T, NEW a \in Seq(T), NEW n \in 0 .. Len(a),
         NEW t \in Seq(S), Len(t) = n, \A i \in 1 .. n : a[i] = t[i]
  PROVE  SubSeq(a, 1, n) = t /\ \A i \in 1 .. n : a[i] \in S
  <1>1. n \in Nat /\ Len(a) \in Nat /\ n <= Len(a)
    OBVIOUS
  <1>2. \A i \in 1 .. n : t[i] \in S /\ a[i] \in T
    OBVIOUS
  <1> DEFINE q == SubSeq(a, 1, n)
  <1>3. /\ q \in Seq(T) /\ Len(q) = IF 1 <= n THEN n - 1 + 1 ELSE 0
        /\ \A i \in 1 .. n - 1 + 1 : q[i] = a[1 + i - 1]
    BY ONLY <1>1, <1>2, a \in Seq(T), SubSeqProperties
  <1> HIDE DEF q
  <1>4. n - 1 + 1 = n /\ Len(q) = n /\ \A i \in 1 .. n : 1 + i - 1 = i
    BY ONLY <1>1, <1>3
  <1>5. \A i \in 1 .. n : q[i] = t[i]
    BY ONLY <1>3, <1>4, \A i \in 1 .. n : a[i] = t[i]
  <1>6. t \in Seq(T)
    BY ONLY t \in Seq(S), S \subseteq T
  <1>7. q = t
    BY ONLY <1>3, <1>4, <1>5, <1>6, Len(t) = n, SeqEqual
  <1> QED
    BY <1>2, <1>7 DEF q

LEMMA HeldIs ==
  ASSUME VectorInv
  PROVE  Held \in Seq(Elems) /\ Len(Held) = length /\ \A i \in 1 .. length : Held[i] = array[i]
  <1>1. length \in Nat /\ length <= Len(array) /\ array \in Seq(Cells)
    BY DEF VectorInv
  <1> DEFINE t == [i \in 1 .. length |-> array[i]]
  <1>2. t \in [1 .. length -> Elems]
    BY DEF VectorInv
  <1>3. t \in Seq(Elems) /\ Len(t) = length /\ \A i \in 1 .. length : t[i] = array[i]
    BY ONLY <1>1, <1>2, SeqDef
  <1> HIDE DEF t
  <1>4. length \in 0 .. Len(array) /\ Elems \subseteq Cells
    BY ONLY <1>1 DEF Cells
  <1>5. SubSeq(array, 1, length) = t
    BY ONLY <1>1, <1>3, <1>4, CellsAre
  <1> QED
    BY ONLY <1>3, <1>5 DEF Held

\* What the vector holds after a step.
LEMMA NowHolds ==
  ASSUME NEW t \in Seq(Elems), array' \in Seq(Cells), length' = Len(t), Len(t) <= Len(array'),
         \A i \in 1 .. Len(t) : array'[i] = t[i]
  PROVE  VectorInv' /\ Held' = t
  <1>1. Len(t) \in 0 .. Len(array') /\ Elems \subseteq Cells
    BY DEF Cells
  <1>2. SubSeq(array', 1, Len(t)) = t /\ \A i \in 1 .. Len(t) : array'[i] \in Elems
    BY ONLY <1>1, t \in Seq(Elems), array' \in Seq(Cells), \A i \in 1 .. Len(t) : array'[i] = t[i],
            CellsAre
  <1> QED
    BY ONLY <1>1, <1>2, array' \in Seq(Cells), length' = Len(t) DEF VectorInv, Held

LEMMA CopiedIs ==
  ASSUME NEW cells, NEW n \in Nat, NEW m \in Nat, \A i \in 1 .. n : cells[i] \in Cells
  PROVE  /\ Vector!Copied(cells, n, m) \in Seq(Cells) /\ Len(Vector!Copied(cells, n, m)) = m
         /\ \A i \in 1 .. m : i <= n => Vector!Copied(cells, n, m)[i] = cells[i]
  <1> DEFINE q == [i \in 1 .. m |-> IF i <= n THEN cells[i] ELSE -1]
  <1>1. Vector!Copied(cells, n, m) = q
    BY DEF Vector!Copied, Vector!Raw
  <1>2. \A i \in 1 .. m : (IF i <= n THEN cells[i] ELSE -1) \in Cells
    <2>1. \A i \in 1 .. m : i <= n => i \in 1 .. n
      OBVIOUS
    <2>2. -1 \in Cells
      BY DEF Cells
    <2> QED
      BY <2>1, <2>2
  <1>3. q \in [1 .. m -> Cells]
    BY ONLY <1>2
  <1>4. q \in Seq(Cells) /\ Len(q) = m /\ \A i \in 1 .. m : i <= n => q[i] = cells[i]
    <2>1. q \in Seq(Cells)
      BY ONLY <1>3, m \in Nat, SeqDef
    <2>2. Len(q) = m
      BY ONLY m \in Nat
    <2> QED
      BY ONLY <2>1, <2>2
  <1> QED
    BY ONLY <1>1, <1>4

LEMMA VectorStep ==
  ASSUME VectorInv, [Vector!Next]_vector
  PROVE  VectorInv' /\ [Vector!Abstract!Next]_<<Held, arrayPopped>>
  <1> DEFINE n == length
             m == Len(array)
  <1>1. /\ array \in Seq(Cells) /\ n \in Nat /\ m \in Nat /\ n <= m
        /\ \A i \in 1 .. n : array[i] \in Elems
        /\ \A i \in 1 .. m : array[i] \in Cells
    BY DEF VectorInv
  <1>2. Held \in Seq(Elems) /\ Len(Held) = n /\ \A i \in 1 .. n : Held[i] = array[i]
    BY HeldIs
  <1>3. CASE UNCHANGED vector
    <2>1. array' = array /\ length' = length /\ arrayPopped' = arrayPopped
      BY <1>3 DEF vector
    <2> QED
      BY <2>1 DEF VectorInv, Held
  <1>4. CASE \E x \in Elems : Vector!push_back(x)
    <2>1. PICK x \in Elems : Vector!push_back(x)
      BY <1>4
    <2> DEFINE more == IF m = 0 THEN 1 ELSE m * 2
               g == IF n >= m THEN Vector!Copied(array, n, more) ELSE array
    <2>2. array' = [g EXCEPT ![n + 1] = x] /\ length' = n + 1 /\ arrayPopped' = arrayPopped
      BY <2>1 DEF Vector!push_back, Vector!Resize, Vector!alloc_size, Vector!GetNewAllocSize
    <2>3. g \in Seq(Cells) /\ Len(g) \in Nat /\ n + 1 <= Len(g) /\ \A i \in 1 .. n : g[i] = array[i]
      <3>1. CASE n >= m
        <4>1. more \in Nat /\ n + 1 <= more
          BY ONLY <1>1, <3>1
        <4>2. \A i \in 1 .. n : array[i] \in Cells /\ i \in 1 .. more /\ i <= n
          BY ONLY <1>1, <3>1, <4>1
        <4>3. g = Vector!Copied(array, n, more)
          BY ONLY <3>1
        <4> HIDE DEF g, more, n
        <4>4. /\ g \in Seq(Cells) /\ Len(g) = more
              /\ \A i \in 1 .. more : i <= n => g[i] = array[i]
          BY ONLY <1>1, <4>1, <4>2, <4>3, CopiedIs
        <4> QED
          BY ONLY <4>1, <4>2, <4>4
      <3>2. CASE ~(n >= m)
        BY ONLY <1>1, <3>2
      <3> QED
        BY <3>1, <3>2
    <2> HIDE DEF g, more
    <2>4. /\ array' \in Seq(Cells) /\ Len(array') = Len(g) /\ array'[n + 1] = x
          /\ \A i \in 1 .. n : array'[i] = array[i]
      <3>1. x \in Cells /\ n + 1 \in 1 .. Len(g) /\ \A i \in 1 .. n : i \in 1 .. Len(g) /\ i # n + 1
        BY ONLY <1>1, <2>3, x \in Elems DEF Cells
      <3>2. array' \in Seq(Cells) /\ Len(array') = Len(g)
        BY ONLY <2>2, <2>3, <3>1, ExceptSeq
      <3>3. DOMAIN g = 1 .. Len(g)
        BY ONLY <2>3
      <3> QED
        BY ONLY <2>2, <2>3, <3>1, <3>2, <3>3
    <2> DEFINE t == Append(Held, x)
    <2>5. /\ t \in Seq(Elems) /\ Len(t) = n + 1 /\ t[n + 1] = x
          /\ \A i \in 1 .. n : t[i] = array[i]
      BY ONLY <1>2, x \in Elems, AppendProperties
    <2>6. \A i \in 1 .. n + 1 : i = n + 1 \/ i \in 1 .. n
      BY ONLY <1>1
    <2> HIDE DEF t
    <2>7. VectorInv' /\ Held' = t
      <3>1. \A i \in 1 .. Len(t) : array'[i] = t[i]
        BY ONLY <2>4, <2>5, <2>6
      <3> QED
        BY ONLY <2>2, <2>3, <2>4, <2>5, <3>1, NowHolds
    <2>8. Vector!Abstract!Push(x)
      BY ONLY <2>2, <2>7 DEF Vector!Abstract!Push, t, Held
    <2> QED
      BY ONLY <2>7, <2>8, x \in Elems DEF Vector!Abstract!Next
  <1>5. CASE \E k \in 0 .. MaxLen : Vector!reserve(k)
    <2>1. PICK k \in 0 .. MaxLen : Vector!reserve(k)
      BY <1>5
    <2>2. /\ array' = IF k < m THEN array ELSE Vector!Copied(array, n, k)
          /\ length' = n /\ arrayPopped' = arrayPopped
      BY <2>1 DEF Vector!reserve, Vector!Resize, Vector!alloc_size
    <2>3. array' \in Seq(Cells) /\ n <= Len(array') /\ \A i \in 1 .. n : array'[i] = array[i]
      <3>1. CASE k < m
        BY ONLY <1>1, <2>2, <3>1
      <3>2. CASE ~(k < m)
        <4>1. k \in Nat /\ \A i \in 1 .. n : array[i] \in Cells /\ i \in 1 .. k /\ i <= n
          BY ONLY <1>1, <3>2, k \in 0 .. MaxLen, ContainersAssumption
        <4>2. array' = Vector!Copied(array, n, k) /\ n <= k
          BY ONLY <1>1, <2>2, <3>2, <4>1
        <4> HIDE DEF n, m
        <4>3. /\ array' \in Seq(Cells) /\ Len(array') = k
              /\ \A i \in 1 .. k : i <= n => array'[i] = array[i]
          BY ONLY <1>1, <4>1, <4>2, CopiedIs
        <4> QED
          BY ONLY <4>1, <4>2, <4>3
      <3> QED
        BY <3>1, <3>2
    <2>4. VectorInv' /\ Held' = Held
      <3> HIDE DEF n, m
      <3>1. length' = Len(Held) /\ Len(Held) <= Len(array')
        BY ONLY <1>2, <2>2, <2>3
      <3>2. \A i \in 1 .. Len(Held) : array'[i] = Held[i]
        BY ONLY <1>2, <2>3
      <3>3. PICK t \in Seq(Elems) : t = Held
        BY ONLY <1>2
      <3> QED
        BY ONLY <2>3, <3>1, <3>2, <3>3, NowHolds
    <2> QED
      BY ONLY <2>2, <2>4
  <1>6. CASE Vector!pop_back
    <2>1. /\ n > 0 /\ array' = [array EXCEPT ![n] = -1] /\ length' = n - 1
          /\ arrayPopped' = array[n]
      BY <1>6 DEF Vector!pop_back, Vector!Raw
    <2>2. array' \in Seq(Cells) /\ Len(array') = m /\ \A i \in 1 .. n - 1 : array'[i] = array[i]
      <3>1. n \in 1 .. m /\ -1 \in Cells /\ \A i \in 1 .. n - 1 : i \in 1 .. m /\ i # n
        BY ONLY <1>1, <2>1 DEF Cells
      <3>2. array' \in Seq(Cells) /\ Len(array') = m
        BY ONLY <1>1, <2>1, <3>1, ExceptSeq
      <3>3. DOMAIN array = 1 .. m
        BY ONLY <1>1
      <3> QED
        BY ONLY <2>1, <3>1, <3>2, <3>3
    <2> DEFINE t == SubSeq(Held, 1, Len(Held) - 1)
    <2> HIDE DEF n, m
    <2>3. /\ Held # <<>> /\ Held[Len(Held)] = array[n] /\ n \in 1 .. Len(Held)
      BY ONLY <1>1, <1>2, <2>1, EmptySeq
    <2>4. /\ t \in Seq(Elems) /\ Len(t) = n - 1 /\ \A i \in 1 .. n - 1 : t[i] = array[i]
      <3>1. n \in 1 .. Len(Held) /\ Len(Held) = n
        BY ONLY <1>2, <2>3
      <3>2. PICK h \in Seq(Elems) : h = Held
        BY ONLY <1>2
      <3>3. n \in 1 .. Len(h) /\ n = Len(h) /\ t = SubSeq(h, 1, Len(h) - 1)
        BY ONLY <3>1, <3>2
      <3>4. /\ Without(h, n) \in Seq(Elems) /\ Len(Without(h, n)) = Len(h) - 1
            /\ \A i \in 1 .. Len(h) - 1 : Without(h, n)[i] = IF i < n THEN h[i] ELSE h[i + 1]
            /\ Without(h, n) = SubSeq(h, 1, Len(h) - 1)
        BY ONLY <3>2, <3>3, Shorter
      <3>5. \A i \in 1 .. n - 1 : i < n /\ i \in 1 .. n
        BY ONLY <1>1
      <3> HIDE DEF t
      <3> QED
        BY ONLY <1>2, <3>2, <3>3, <3>4, <3>5
    <2> HIDE DEF t
    <2>5. VectorInv' /\ Held' = t
      <3>1. length' = Len(t) /\ Len(t) <= Len(array')
        BY ONLY <1>1, <2>1, <2>2, <2>4
      <3>2. \A i \in 1 .. Len(t) : array'[i] = t[i]
        BY ONLY <2>2, <2>4
      <3>3. PICK q \in Seq(Elems) : q = t
        BY ONLY <2>4
      <3> QED
        BY ONLY <2>2, <3>1, <3>2, <3>3, NowHolds
    <2>6. Vector!Abstract!PopBack
      BY ONLY <2>1, <2>3, <2>5
      DEF Vector!Abstract!PopBack, Vector!Abstract!Front, Vector!Abstract!Last, t, Held
    <2> QED
      BY ONLY <2>5, <2>6 DEF Vector!Abstract!Next
  <1>7. CASE \E k \in DOMAIN array : Vector!erase(k)
    <2>1. PICK k \in 1 .. n : Vector!erase(k)
      BY <1>7 DEF Vector!erase
    <2>2. /\ array' = [j \in 1 .. m |-> IF j \in k .. n - 1 THEN array[j + 1]
                                       ELSE IF j = n THEN (IF k = j THEN -1 ELSE -2)
                                       ELSE array[j]]
          /\ length' = n - 1 /\ arrayPopped' = arrayPopped
      <3>1. DOMAIN array = 1 .. m
        BY ONLY <1>1
      <3> QED
        BY <2>1, <3>1 DEF Vector!erase, Vector!Erased, Vector!Raw, Vector!Moved
    <2> HIDE DEF n, m
    <2>3. array' \in Seq(Cells) /\ Len(array') = m
      <3>1. \A j \in 1 .. m : array[j] \in Cells /\ (j \in k .. n - 1 => array[j + 1] \in Cells)
        <4>1. \A j \in 1 .. m : j \in k .. n - 1 => j + 1 \in 1 .. m
          BY ONLY <1>1, k \in 1 .. n
        <4> QED
          BY ONLY <1>1, <4>1
      <3>2. -1 \in Cells /\ -2 \in Cells
        BY DEF Cells
      <3>3. array' \in [1 .. m -> Cells]
        BY ONLY <2>2, <3>1, <3>2
      <3> QED
        BY ONLY <1>1, <3>3, SeqDef
    <2>4. \A i \in 1 .. n - 1 : array'[i] = IF i < k THEN array[i] ELSE array[i + 1]
      <3>1. \A i \in 1 .. n - 1 : i \in 1 .. m /\ i # n /\ (i \in k .. n - 1 <=> ~(i < k))
        BY ONLY <1>1, k \in 1 .. n
      <3> QED
        BY ONLY <2>2, <3>1
    <2>5. PICK h \in Seq(Elems) : h = Held
      BY ONLY <1>2
    <2>6. k \in 1 .. Len(h) /\ Len(h) = n
      BY ONLY <1>2, <2>5, k \in 1 .. n
    <2>7. PICK t : t = Without(h, k)
      OBVIOUS
    <2>8. /\ t \in Seq(Elems) /\ Len(t) = Len(h) - 1
          /\ \A i \in 1 .. Len(h) - 1 : t[i] = IF i < k THEN h[i] ELSE h[i + 1]
      BY ONLY <2>5, <2>6, <2>7, Shorter
    <2>9. \A i \in 1 .. n - 1 : array'[i] = t[i]
      <3>1. \A i \in 1 .. n - 1 : i \in 1 .. n /\ i + 1 \in 1 .. n
        BY ONLY <1>1
      <3>2. \A i \in 1 .. n - 1 : h[i] = array[i] /\ h[i + 1] = array[i + 1]
        BY ONLY <1>2, <2>5, <3>1
      <3> QED
        BY ONLY <2>4, <2>6, <2>8, <3>2
    <2>10. VectorInv' /\ Held' = t
      <3>1. length' = Len(t) /\ Len(t) <= Len(array')
        BY ONLY <1>1, <2>2, <2>3, <2>6, <2>8, k \in 1 .. n
      <3>2. \A i \in 1 .. Len(t) : array'[i] = t[i]
        BY ONLY <2>6, <2>8, <2>9
      <3> QED
        BY ONLY <2>3, <2>8, <3>1, <3>2, NowHolds
    <2>11. Vector!Abstract!TakeOut
      <3>1. k \in DOMAIN Held
        BY ONLY <2>5, <2>6
      <3>2. Held' = Vector!Abstract!RemoveAt(Held, k)
        BY ONLY <2>5, <2>7, <2>10 DEF Without, Vector!Abstract!RemoveAt
      <3> QED
        BY ONLY <2>2, <3>1, <3>2 DEF Vector!Abstract!TakeOut, Held
    <2> QED
      BY ONLY <2>10, <2>11 DEF Vector!Abstract!Next
  <1>8. CASE \E items \in Vector!Vectors : \E capacity \in Len(items) .. MaxLen :
               Vector!CopyAssign(items, capacity) \/ Vector!MoveAssign(items, capacity)
    <2>0. PICK items \in Vector!Vectors : \E capacity \in Len(items) .. MaxLen :
            Vector!CopyAssign(items, capacity) \/ Vector!MoveAssign(items, capacity)
      BY <1>8
    <2>1. PICK capacity \in Len(items) .. MaxLen :
            Vector!CopyAssign(items, capacity) \/ Vector!MoveAssign(items, capacity)
      BY <2>0
    <2> DEFINE l == Len(items)
    <2>2. items \in Seq(Elems) /\ l \in Nat
      <3>1. PICK j \in 0 .. MaxLen : items \in [1 .. j -> Elems]
        BY DEF Vector!Vectors, Vector!BoundedSeq, Vector!SeqOf
      <3>2. items \in Seq(Elems)
        BY ONLY <3>1, ContainersAssumption, SeqDef
      <3> QED
        BY ONLY <3>2
    <2>3. capacity \in Nat /\ l <= capacity
      BY ONLY <2>2, capacity \in l .. MaxLen, ContainersAssumption
    <2>4. \A i \in 1 .. l : items[i] \in Elems /\ items[i] \in Cells
      BY ONLY <2>2 DEF Cells
    <2> HIDE DEF l, n, m
    <2>5. /\ length' = l /\ arrayPopped' = arrayPopped
          /\ \/ array' = Vector!Copied(items, l, capacity)
             \/ /\ l <= m
                /\ array' = [i \in 1 .. m |-> IF i <= l THEN items[i]
                                             ELSE IF i <= n THEN -1 ELSE array[i]]
      <3>1. DOMAIN array = 1 .. m
        BY ONLY <1>1 DEF m
      <3>2. l \in Nat /\ m \in Nat
        BY ONLY <1>1, <2>2
      <3> QED
        BY <2>1, <3>1, <3>2
        DEF Vector!CopyAssign, Vector!MoveAssign, Vector!alloc_size, Vector!Raw, l, m, n
    <2>6. array' \in Seq(Cells) /\ l <= Len(array') /\ \A i \in 1 .. l : array'[i] = items[i]
      <3>1. CASE array' = Vector!Copied(items, l, capacity)
        <4>1. /\ array' \in Seq(Cells) /\ Len(array') = capacity
              /\ \A i \in 1 .. capacity : i <= l => array'[i] = items[i]
          BY ONLY <2>2, <2>3, <2>4, <3>1, CopiedIs
        <4>2. \A i \in 1 .. l : i \in 1 .. capacity /\ i <= l
          BY ONLY <2>2, <2>3
        <4> QED
          BY ONLY <2>3, <4>1, <4>2
      <3>2. CASE /\ l <= m
                 /\ array' = [i \in 1 .. m |-> IF i <= l THEN items[i]
                                              ELSE IF i <= n THEN -1 ELSE array[i]]
        <4>1. \A i \in 1 .. m : array[i] \in Cells /\ (i <= l => items[i] \in Cells)
          <5>1. \A i \in 1 .. m : i <= l => i \in 1 .. l
            BY ONLY <2>2
          <5> QED
            BY ONLY <1>1, <2>4, <5>1
        <4>2. -1 \in Cells
          BY DEF Cells
        <4>3. array' \in [1 .. m -> Cells]
          BY ONLY <3>2, <4>1, <4>2
        <4>4. array' \in Seq(Cells) /\ Len(array') = m
          BY ONLY <1>1, <4>3, SeqDef
        <4>5. \A i \in 1 .. l : i \in 1 .. m /\ i <= l
          BY ONLY <1>1, <2>2, <3>2
        <4> QED
          BY ONLY <3>2, <4>4, <4>5
      <3> QED
        BY <2>5, <3>1, <3>2
    <2>7. VectorInv' /\ Held' = items
      BY ONLY <2>2, <2>5, <2>6, NowHolds DEF l
    <2>8. Vector!Abstract!Replace
      BY ONLY <2>5, <2>7, items \in Vector!Vectors DEF Vector!Abstract!Replace, Held
    <2> QED
      BY ONLY <2>7, <2>8 DEF Vector!Abstract!Next
  <1> QED
    BY <1>3, <1>4, <1>5, <1>6, <1>7, <1>8 DEF Vector!Next

LEMMA VectorInit == Vector!Init => VectorInv /\ Vector!Abstract!Init
  <1> SUFFICES ASSUME Vector!Init PROVE VectorInv /\ Vector!Abstract!Init
    OBVIOUS
  <1>1. array = <<>> /\ length = 0 /\ arrayPopped = 0
    BY DEF Vector!Init
  <1>2. VectorInv
    BY <1>1, EmptySeq DEF VectorInv
  <1>3. SubSeq(array, 1, length) = <<>>
    BY <1>1, SubSeqEmpty
  <1> QED
    BY <1>1, <1>2, <1>3 DEF Vector!Abstract!Init, Vector!Abstract!NoElement

\* The run queues, the waiters of a semaphore and the children of a process, however many
\* there are, and every vector of the kernel: whatever the order of the calls, the links
\* read from either end and the cells of the memory are the sequence that the calls
\* describe (push_front, push_back, pop_front, pop_back, RemoveSelfFromList, erase).
THEOREM SequencesImplemented == List!Spec /\ Vector!Spec => ImplementsSequence
  <1>1. List!Init => ListInv /\ List!Abstract!Init
    BY ListInit
  <1>2. ListInv /\ [List!Next]_list => ListInv' /\ [List!Abstract!Next]_<<List!Items, listPopped>>
    BY ListStep
  <1>3. ListInv => List!BothWays(List!Items)
    BY TheItems DEF ListInv
  <1>4. Vector!Init => VectorInv /\ Vector!Abstract!Init
    BY VectorInit
  <1>5. VectorInv /\ [Vector!Next]_vector => VectorInv' /\ [Vector!Abstract!Next]_<<Held, arrayPopped>>
    BY VectorStep
  <1> QED
    BY <1>1, <1>2, <1>3, <1>4, <1>5, PTL
    DEF List!Spec, List!lvars, list, Vector!Spec, Vector!avars, vector, Held, ImplementsSequence,
        List!Abstract!Spec, Vector!Abstract!Spec
=============================================================================
