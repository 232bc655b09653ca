------------------------ MODULE MsgpackEncoderProofs ------------------------
(***************************************************************************)
(* Proofs about MsgpackEncoder: the type invariant for any set of         *)
(* threads, and the bound on the byte strings encode() returns when one   *)
(* thread at a time calls the encoder.                                     *)
(***************************************************************************)
EXTENDS MsgpackEncoder, SequenceTheorems, TLAPS

(* Writing a byte string into the buffer at an offset inside it gives a  *)
(* byte sequence at least as long.                                         *)
LEMMA WriteAtProperties ==
  ASSUME NEW S, NEW b \in Seq(S), NEW pos \in 0..Len(b), NEW bs \in Seq(S)
  PROVE  /\ WriteAt(b, pos, bs) \in Seq(S)
         /\ Len(WriteAt(b, pos, bs))
              = IF pos + Len(bs) > Len(b) THEN pos + Len(bs) ELSE Len(b)
         /\ Len(WriteAt(b, pos, bs)) >= pos + Len(bs)
         /\ Len(WriteAt(b, pos, bs)) >= Len(b)
  BY DEF WriteAt

(* A slice of a byte sequence between two offsets inside it.               *)
LEMMA SliceProperties ==
  ASSUME NEW S, NEW b \in Seq(S), NEW lo \in Nat, NEW hi \in lo..Len(b)
  PROVE  /\ Slice(b, lo, hi) \in Seq(S)
         /\ Len(Slice(b, lo, hi)) = hi - lo
  <1>1. \A i \in lo + 1 .. hi : b[i] \in S
    OBVIOUS
  <1>2. QED
    BY <1>1, SubSeqProperties DEF Slice

(* A msgpack array header is one, three or five bytes.                     *)
LEMMA ArrayHeaderProperties ==
  ASSUME NEW l \in Nat
  PROVE  /\ ArrayHeader(l) \in Seq(Byte)
         /\ Len(ArrayHeader(l)) = ArrayHeaderLen(l)
         /\ ArrayHeaderLen(l) \in {1, 3, 5}
         /\ ArrayPrefixSize(l) \in {1, 3, 5}
  <1>1. ArrayHeaderLen(l) \in {1, 3, 5} /\ ArrayPrefixSize(l) \in {1, 3, 5}
    BY DEF ArrayHeaderLen, ArrayPrefixSize
  <1>2. ArrByte(l) \in Byte /\ Cont \in Byte
    BY DEF ArrByte, Cont, Byte
  <1>3. QED
    BY <1>1, <1>2 DEF ArrayHeader

(* The byte a span is encoded to.                                          *)
LEMMA SpanByteType ==
  ASSUME NEW tr \in Trace, NEW i \in 1..MaxSpans
  PROVE  <<SpanByte(tr.id, i)>> \in Seq(Byte)
  BY DEF SpanByte, Byte, Trace

(* A function into an interval is a function into any longer interval.   *)
LEMMA RangeMono ==
  ASSUME NEW D, NEW a \in Int, NEW b \in Int, NEW c \in Int, c >= b,
         NEW f \in [D -> a..b]
  PROVE  f \in [D -> a..c]
  OBVIOUS

(* Updating one point of a function keeps it in its function set.         *)
LEMMA ExceptType ==
  ASSUME NEW D, NEW R, NEW f \in [D -> R], NEW x \in D, NEW v \in R
  PROVE  [f EXCEPT ![x] = v] \in [D -> R]
  OBVIOUS

-----------------------------------------------------------------------------
(* Type correctness, for any set of threads.                               *)

LEMMA InitTypeOK == Init => TypeOK
  <1> SUFFICES ASSUME Init PROVE TypeOK
    OBVIOUS
  <1>1. [i \in 1..Reserved |-> Junk] \in Seq(Byte)
    BY DEF Junk, Byte, Reserved
  <1>2. [id |-> 0, len |-> 1] \in Trace
    BY SizeAssumption DEF Trace
  <1>3. QED
    BY <1>1, <1>2, SizeAssumption DEF Init, TypeOK, Reserved, PC

LEMMA NextTypeOK == TypeOK /\ [Next]_vars => TypeOK'
  <1> SUFFICES ASSUME TypeOK, [Next]_vars PROVE TypeOK'
    OBVIOUS
  <1> USE SizeAssumption, ThreadsAssumption
  <1>0. /\ Reserved = 5 /\ Reserved <= Len(buf) /\ length \in Nat
        /\ length \in Reserved..Len(buf) /\ count \in Nat /\ buf \in Seq(Byte)
    BY DEF TypeOK, Reserved
  <1>b. ASSUME buf' \in Seq(Byte), Len(buf') >= Len(buf)
        PROVE  /\ lenBefore \in [Threads -> Reserved..Len(buf')]
               /\ oldPos \in [Threads -> Reserved..Len(buf')]
    <2>1. Len(buf') \in Nat /\ Len(buf) \in Nat
      BY <1>0, <1>b, LenProperties
    <2>2. lenBefore \in [Threads -> Reserved..Len(buf)]
          /\ oldPos \in [Threads -> Reserved..Len(buf)]
      BY DEF TypeOK
    <2>3. QED
      BY <1>0, <1>b, <2>1, <2>2, RangeMono
  <1>1. ASSUME NEW t \in Threads, PutStart(t) PROVE TypeOK'
    <2>1. PICK L \in 1..MaxSpans :
            /\ cur' = [cur EXCEPT ![t] = [id |-> nextId, len |-> L]]
            /\ buf' = WriteAt(buf, length, ArrayHeader(L))
            /\ length' = length + ArrayHeaderLen(L)
      BY <1>1 DEF PutStart
    <2>2. /\ ArrayHeader(L) \in Seq(Byte)
          /\ Len(ArrayHeader(L)) = ArrayHeaderLen(L)
          /\ ArrayHeaderLen(L) \in {1, 3, 5}
          /\ ArrayPrefixSize(count) \in {1, 3, 5}
      <3>1. L \in Nat
        BY SizeAssumption
      <3>2. ArrayHeader(L) \in Seq(Byte) /\ Len(ArrayHeader(L)) = ArrayHeaderLen(L)
        BY <3>1, ArrayHeaderProperties
      <3>3. ArrayHeaderLen(L) \in {1, 3, 5}
        BY <3>1, ArrayHeaderProperties
      <3>4. ArrayPrefixSize(count) \in {1, 3, 5}
        BY <1>0, ArrayHeaderProperties
      <3>5. QED
        BY <3>2, <3>3, <3>4
    <2>3. /\ WriteAt(buf, length, ArrayHeader(L)) \in Seq(Byte)
          /\ Len(WriteAt(buf, length, ArrayHeader(L)))
               >= length + Len(ArrayHeader(L))
          /\ Len(WriteAt(buf, length, ArrayHeader(L))) >= Len(buf)
      BY <1>0, <2>2, WriteAtProperties
    <2>4. /\ buf' \in Seq(Byte)
          /\ length' \in Reserved..Len(buf')
          /\ Len(buf') >= Len(buf)
      BY <1>0, <2>1, <2>2, <2>3
    <2>5. [id |-> nextId, len |-> L] \in Trace
      BY <1>1 DEF PutStart, TypeOK, Trace
    <2>6. Size \in Nat
      BY <1>0, <2>2 DEF Size
    <2>7. lenBefore' \in [Threads -> Reserved..Len(buf')]
      <3>1. length \in Reserved..Len(buf')
        BY <1>0, <2>4
      <3>2. QED
        BY <1>1, <1>b, <2>4, <3>1, ExceptType DEF PutStart
    <2>8. oldPos' \in [Threads -> Reserved..Len(buf')]
      BY <1>1, <1>b, <2>4 DEF PutStart
    <2>9. sizeBefore' \in [Threads -> Nat] /\ nextId' \in 0..MaxPuts
      BY <1>1, <2>6 DEF PutStart, TypeOK
    <2>10. cur' \in [Threads -> Trace]
      BY <1>1, <2>1, <2>5, ExceptType DEF TypeOK
    <2>11. pc' \in [Threads -> PC]
      <3>1. "acquire" \in PC
        BY DEF PC
      <3>2. QED
        BY <1>1, <3>1, ExceptType DEF PutStart, TypeOK
    <2>12. spanIdx' \in [Threads -> 1..MaxSpans]
      <3>1. 1 \in 1..MaxSpans
        OBVIOUS
      <3>2. QED
        BY <1>1, <3>1, ExceptType DEF PutStart, TypeOK
    <2>13. QED
      BY <1>1, <2>4, <2>7, <2>8, <2>9, <2>10, <2>11, <2>12 DEF PutStart, TypeOK
  <1>2. ASSUME NEW t \in Threads,
               \/ Acquire(t) \/ AcquireBlock(t) \/ AcquireWake(t)
               \/ EncodeWake(t) \/ GetBytesBlock(t) \/ GetBytesWake(t)
        PROVE  TypeOK'
    BY <1>2 DEF Acquire, AcquireBlock, AcquireWake, EncodeWake, GetBytesBlock,
                GetBytesWake, TypeOK, PC
  <1>a. ASSUME NEW t \in Threads
        PROVE  LET w == WriteAt(buf, length, <<SpanByte(cur[t].id, spanIdx[t])>>)
               IN  /\ w \in Seq(Byte)
                   /\ Len(w) >= length + 1
                   /\ Len(w) >= Len(buf)
    <2>1. cur[t] \in Trace /\ spanIdx[t] \in 1..MaxSpans
      BY DEF TypeOK
    <2>2. <<SpanByte(cur[t].id, spanIdx[t])>> \in Seq(Byte)
      BY <2>1, SpanByteType
    <2>3. Len(<<SpanByte(cur[t].id, spanIdx[t])>>) = 1
      OBVIOUS
    <2>4. length \in 0..Len(buf)
      BY <1>0
    <2>5. QED
      BY <1>0, <2>2, <2>3, <2>4, WriteAtProperties
  <1>3. ASSUME NEW t \in Threads, PackSpan(t) PROVE TypeOK'
    <2>1. /\ buf' \in Seq(Byte)
          /\ length' \in Reserved..Len(buf')
          /\ Len(buf') >= Len(buf)
      BY <1>0, <1>3, <1>a DEF PackSpan
    <2>2. spanIdx[t] + 1 \in 1..MaxSpans
      <3>1. cur[t] \in Trace /\ spanIdx[t] \in 1..MaxSpans
        BY DEF TypeOK
      <3>2. cur[t].len \in 1..MaxSpans
        BY <3>1 DEF Trace
      <3>3. QED
        BY <1>3, <3>1, <3>2 DEF PackSpan
    <2>3. spanIdx' \in [Threads -> 1..MaxSpans]
      BY <1>3, <2>2, ExceptType DEF PackSpan, TypeOK
    <2>4. QED
      BY <1>3, <1>b, <2>1, <2>3 DEF PackSpan, TypeOK
  <1>4. ASSUME NEW t \in Threads, PackLastSpan(t) PROVE TypeOK'
    <2>1. /\ buf' \in Seq(Byte)
          /\ length + 1 \in Reserved..Len(buf')
          /\ Len(buf') >= Len(buf)
      BY <1>0, <1>4, <1>a DEF PackLastSpan
    <2>2. lenBefore[t] \in Reserved..Len(buf')
      BY <2>1 DEF TypeOK
    <2>3. /\ length' \in Reserved..Len(buf')
          /\ count' \in Nat
          /\ accepted' \in Seq(Trace)
      <3>1. CASE PutAccept(t)
        <4>1. Append(accepted, cur[t]) \in Seq(Trace)
          BY AppendProperties DEF TypeOK
        <4>2. QED
          BY <1>0, <2>1, <3>1, <4>1 DEF PutAccept
      <3>2. CASE PutRollback(t)
        BY <2>2, <3>2 DEF PutRollback, TypeOK
      <3>3. QED
        BY <1>4, <3>1, <3>2 DEF PackLastSpan
    <2>4. pc' \in [Threads -> PC] /\ lock' \in Threads \cup {NoThread}
      <3>1. "idle" \in PC
        BY DEF PC
      <3>2. QED
        BY <1>4, <3>1, ExceptType DEF PackLastSpan, TypeOK
    <2>5. QED
      BY <1>4, <1>b, <2>1, <2>3, <2>4 DEF PackLastSpan, TypeOK
  <1>p. ASSUME NEW off \in 0..Reserved, NEW old \in Reserved..Len(buf),
               PatchHeader(off, old)
        PROVE  /\ buf' \in Seq(Byte) /\ Len(buf') >= Len(buf)
               /\ length' \in Reserved..Len(buf')
    <2>1. ArrayHeader(count) \in Seq(Byte)
      BY <1>0, ArrayHeaderProperties
    <2>2. off \in 0..Len(buf)
      BY <1>0
    <2>3. /\ WriteAt(buf, off, ArrayHeader(count)) \in Seq(Byte)
          /\ Len(WriteAt(buf, off, ArrayHeader(count))) >= Len(buf)
      BY <1>0, <2>1, <2>2, WriteAtProperties
    <2>4. QED
      BY <1>p, <2>3 DEF PatchHeader
  <1>5. ASSUME NEW t \in Threads, EncodeNow(t) PROVE TypeOK'
    <2>1. ArrayPrefixSize(count) \in {1, 3, 5}
      BY <1>0, ArrayHeaderProperties
    <2>2. /\ Reserved - ArrayPrefixSize(count) \in 0..Reserved
          /\ length \in Reserved..Len(buf)
      BY <1>0, <2>1 DEF Reserved
    <2>3. /\ buf' \in Seq(Byte) /\ Len(buf') >= Len(buf)
          /\ length' \in Reserved..Len(buf')
      BY <1>p, <1>5, <2>2 DEF EncodeNow
    <2>4. oldPos' \in [Threads -> Reserved..Len(buf')]
      <3>1. length \in Reserved..Len(buf')
        BY <1>0, <2>3
      <3>2. QED
        BY <1>5, <1>b, <2>3, <3>1, ExceptType DEF EncodeNow
    <2>5. offset' \in [Threads -> 0..Reserved] /\ pc' \in [Threads -> PC]
      <3>1. "getbytes" \in PC
        BY DEF PC
      <3>2. QED
        BY <1>5, <2>2, <3>1, ExceptType DEF EncodeNow, TypeOK
    <2>6. QED
      BY <1>5, <1>b, <2>3, <2>4, <2>5 DEF EncodeNow, TypeOK
  <1>6. ASSUME NEW t \in Threads, EncodeBlock(t) PROVE TypeOK'
    <2>1. ArrayPrefixSize(count) \in {1, 3, 5}
      BY <1>0, ArrayHeaderProperties
    <2>2. Reserved - ArrayPrefixSize(count) \in 0..Reserved
      BY <2>1 DEF Reserved
    <2>3. QED
      BY <1>6, <2>2 DEF EncodeBlock, TypeOK, PC
  <1>7. ASSUME NEW t \in Threads, EncodePatch(t) PROVE TypeOK'
    <2>1. offset[t] \in 0..Reserved /\ oldPos[t] \in Reserved..Len(buf)
      BY DEF TypeOK
    <2>2. /\ buf' \in Seq(Byte) /\ Len(buf') >= Len(buf)
          /\ length' \in Reserved..Len(buf')
      BY <1>p, <1>7, <2>1 DEF EncodePatch
    <2>3. pc' \in [Threads -> PC]
      <3>1. "getbytes" \in PC
        BY DEF PC
      <3>2. QED
        BY <1>7, <3>1, ExceptType DEF EncodePatch, TypeOK
    <2>4. QED
      BY <1>7, <1>b, <2>2, <2>3 DEF EncodePatch, TypeOK
  <1>f. ASSUME NEW t \in Threads, Flush(t)
        PROVE  /\ emitted' \in Seq(Seq(Byte))
               /\ length' \in Reserved..Len(buf) /\ count' \in Nat
    <2>1. offset[t] \in 0..Reserved
      BY DEF TypeOK
    <2>2. Slice(buf, offset[t], length) \in Seq(Byte)
      <3>1. offset[t] \in Nat /\ length \in offset[t]..Len(buf)
        BY <1>0, <2>1
      <3>2. QED
        BY <1>0, <3>1, SliceProperties
    <2>3. Append(emitted, Slice(buf, offset[t], length)) \in Seq(Seq(Byte))
      BY <2>2, AppendProperties DEF TypeOK
    <2>4. QED
      BY <1>0, <1>f, <2>3 DEF Flush
  <1>8. ASSUME NEW t \in Threads, GetBytes(t) \/ GetBytesResume(t)
        PROVE  TypeOK'
    <2>1. /\ emitted' \in Seq(Seq(Byte))
          /\ length' \in Reserved..Len(buf) /\ count' \in Nat
      BY <1>8, <1>f DEF GetBytes, GetBytesResume
    <2>2. pc' = [pc EXCEPT ![t] = "idle"] /\ lock' \in Threads \cup {NoThread}
      BY <1>8 DEF GetBytes, GetBytesResume, TypeOK
    <2>3. pc' \in [Threads -> PC]
      <3>1. "idle" \in PC
        BY DEF PC
      <3>2. QED
        BY <2>2, <3>1, ExceptType DEF TypeOK
    <2>4. UNCHANGED <<buf, cur, spanIdx, lenBefore, sizeBefore, offset, oldPos,
                     nextId, accepted>>
      BY <1>8 DEF GetBytes, GetBytesResume
    <2>5. QED
      BY <2>1, <2>2, <2>3, <2>4 DEF TypeOK
  <1>9. CASE UNCHANGED vars
    BY <1>9 DEF vars, TypeOK
  <1>10. QED
    BY <1>1, <1>2, <1>3, <1>4, <1>5, <1>6, <1>7, <1>8, <1>9 DEF Next

(* Every reachable state is well typed, whatever the set of threads.       *)
THEOREM TypeCorrect == Spec => []TypeOK
  BY InitTypeOK, NextTypeOK, PTL DEF Spec

-----------------------------------------------------------------------------
(* The payload bound, for a lone caller.                                   *)

(* Incrementing _count grows the reserved array prefix by at most two    *)
(* bytes (1 -> 3 at 16, 3 -> 5 at 2 * 2^16).                              *)
LEMMA PrefixStep ==
  ASSUME NEW c \in Nat \ {0}
  PROVE  ArrayPrefixSize(c) <= ArrayPrefixSize(c - 1) + 2
  BY DEF ArrayPrefixSize

(* Appending a byte string no longer than max_size + 2 keeps the bound.  *)
LEMMA AppendLemma ==
  ASSUME NEW p \in Seq(Byte), emitted \in Seq(Seq(Byte)),
         PayloadWithinBound, Len(p) <= MaxSize + 2,
         emitted' = Append(emitted, p)
  PROVE  PayloadWithinBound'
  <1>1. /\ Len(emitted') = Len(emitted) + 1
        /\ \A k \in 1..Len(emitted) : emitted'[k] = emitted[k]
        /\ emitted'[Len(emitted) + 1] = p
        /\ emitted' \in Seq(Seq(Byte))
    BY AppendProperties
  <1>2. \A k \in 1..Len(emitted) : Len(emitted[k]) <= MaxSize + 2
    BY DEF PayloadWithinBound
  <1>3. QED
    BY <1>1, <1>2 DEF PayloadWithinBound

(* What put's BufferFull check established: once a trace is counted, the  *)
(* length at the end of the last accepted put, with the prefix of the     *)
(* count before it, is within max_size.                                    *)
CommitOK(l) == count > 0 => l + ArrayPrefixSize(count - 1) - Reserved <= MaxSize

(* PayloadWithinBound is not inductive: a flush's length depends on the   *)
(* state it starts from.  A lone caller holds the lock exactly while it   *)
(* packs spans, so it never blocks; CommitOK holds of the length when it  *)
(* is idle or between the two lock sections of encode, and of the         *)
(* len_before its rollback restores while a put is in progress; and       *)
(* between the two lock sections of encode, the offset is the one the     *)
(* count it patched gives.                                                 *)
SequentialInv ==
  \A t \in Threads :
    /\ (lock = t) = (pc[t] = "spans")
    /\ pc[t] \in {"idle", "acquire", "spans", "getbytes"}
    /\ pc[t] \in {"idle", "getbytes"} => CommitOK(length)
    /\ pc[t] \in {"acquire", "spans"} => CommitOK(lenBefore[t])
    /\ pc[t] = "getbytes" =>
         count # 0 /\ offset[t] = Reserved - ArrayPrefixSize(count)

IInv == TypeOK /\ SequentialInv /\ PayloadWithinBound

LEMMA InitIInv == Init => IInv
  <1> SUFFICES ASSUME Init PROVE IInv
    OBVIOUS
  <1>1. TypeOK
    BY InitTypeOK
  <1>2. SequentialInv
    BY ThreadsAssumption DEF Init, SequentialInv, CommitOK
  <1>3. PayloadWithinBound
    BY DEF Init, PayloadWithinBound
  <1>4. QED
    BY <1>1, <1>2, <1>3 DEF IInv

LEMMA NextIInv ==
  ASSUME NEW T, Threads = {T}
  PROVE  IInv /\ [Next]_vars => IInv'
  <1> SUFFICES ASSUME IInv, [Next]_vars PROVE IInv'
    OBVIOUS
  <1> USE SizeAssumption, ThreadsAssumption
  <1>0. /\ TypeOK /\ SequentialInv /\ PayloadWithinBound
        /\ Reserved = 5
    BY DEF IInv, Reserved
  <1>1. TypeOK'
    BY <1>0, NextTypeOK
  <1>s. /\ (lock = T) = (pc[T] = "spans")
        /\ pc[T] \in {"idle", "acquire", "spans", "getbytes"}
        /\ pc[T] \in {"idle", "getbytes"} => CommitOK(length)
        /\ pc[T] \in {"acquire", "spans"} => CommitOK(lenBefore[T])
        /\ pc[T] = "getbytes" =>
             count # 0 /\ offset[T] = Reserved - ArrayPrefixSize(count)
        /\ lock \in {T, NoThread}
        /\ count \in Nat /\ length \in Nat
    BY <1>0 DEF SequentialInv, TypeOK
  <1> SUFFICES ASSUME NEW t \in Threads, Next \/ UNCHANGED vars
               PROVE  SequentialInv' /\ PayloadWithinBound'
    BY <1>1 DEF IInv, Next
  <1>t. t = T
    OBVIOUS
  <1>q. SequentialInv' <=>
          /\ (lock' = T) = (pc'[T] = "spans")
          /\ pc'[T] \in {"idle", "acquire", "spans", "getbytes"}
          /\ pc'[T] \in {"idle", "getbytes"} => CommitOK(length)'
          /\ pc'[T] \in {"acquire", "spans"} => CommitOK(lenBefore[T])'
          /\ pc'[T] = "getbytes" =>
               count' # 0 /\ offset'[T] = Reserved - ArrayPrefixSize(count')
    BY DEF SequentialInv
  <1>u. ASSUME UNCHANGED emitted PROVE PayloadWithinBound'
    BY <1>u, <1>0 DEF PayloadWithinBound
  <1>2. ASSUME PutStart(T) PROVE SequentialInv' /\ PayloadWithinBound'
    <2>1. lock = NoThread /\ CommitOK(length)
      BY <1>2, <1>s DEF PutStart
    <2>2. /\ pc'[T] = "acquire" /\ lock' = NoThread
          /\ lenBefore'[T] = length /\ count' = count
      BY <1>2, <1>0, <2>1 DEF PutStart, TypeOK
    <2>3. CommitOK(lenBefore[T])'
      BY <2>1, <2>2 DEF CommitOK
    <2>4. QED
      BY <1>2, <1>q, <1>u, <2>2, <2>3, ThreadsAssumption DEF PutStart
  <1>3. ASSUME Acquire(T) PROVE SequentialInv' /\ PayloadWithinBound'
    <2>1. /\ pc'[T] = "spans" /\ lock' = T /\ pc[T] = "acquire"
          /\ UNCHANGED <<count, lenBefore>>
      BY <1>3, <1>0 DEF Acquire, TypeOK
    <2>2. CommitOK(lenBefore[T])'
      BY <1>s, <2>1 DEF CommitOK
    <2>3. QED
      BY <1>3, <1>q, <1>u, <2>1, <2>2 DEF Acquire
  <1>4. ASSUME PackSpan(T) PROVE SequentialInv' /\ PayloadWithinBound'
    <2>1. /\ pc[T] = "spans" /\ UNCHANGED <<pc, lock, count, lenBefore>>
      BY <1>4 DEF PackSpan
    <2>2. CommitOK(lenBefore[T])'
      BY <1>s, <2>1 DEF CommitOK
    <2>3. QED
      BY <1>4, <1>q, <1>s, <1>u, <2>1, <2>2 DEF PackSpan
  <1>5. ASSUME PackLastSpan(T) PROVE SequentialInv' /\ PayloadWithinBound'
    <2>0. pc[T] = "spans" /\ pc'[T] = "idle" /\ lock' = NoThread
      BY <1>5, <1>0 DEF PackLastSpan, TypeOK
    <2>1. CommitOK(length)'
      <3>1. CASE PutAccept(T)
        <4>1. ~(NewSize > MaxSize)
          BY <3>1, Zenon DEF PutAccept, Rejected
        <4>2. ArrayPrefixSize(count) \in {1, 3, 5}
          BY <1>s, ArrayHeaderProperties
        <4>3. length + 1 + ArrayPrefixSize(count) - Reserved <= MaxSize
          BY <1>0, <1>s, <4>1, <4>2 DEF NewSize
        <4>4. length' = length + 1 /\ count' = count + 1
          BY <3>1 DEF PutAccept
        <4>5. QED
          BY <1>s, <4>3, <4>4 DEF CommitOK
      <3>2. CASE PutRollback(T)
        <4>1. length' = lenBefore[T] /\ count' = count
          BY <3>2 DEF PutRollback
        <4>2. QED
          BY <1>s, <2>0, <4>1 DEF CommitOK
      <3>3. QED
        BY <1>5, <3>1, <3>2 DEF PackLastSpan
    <2>2. QED
      BY <1>5, <1>q, <1>u, <2>0, <2>1, ThreadsAssumption DEF PackLastSpan
  <1>6. ASSUME EncodeNow(T) PROVE SequentialInv' /\ PayloadWithinBound'
    <2>1. /\ pc[T] = "idle" /\ pc'[T] = "getbytes" /\ lock = NoThread
          /\ lock' = lock /\ count' = count /\ count # 0
          /\ length' = length /\ offset'[T] = Reserved - ArrayPrefixSize(count)
          /\ emitted' = emitted
      BY <1>6, <1>0 DEF EncodeNow, EncodeCall, PatchHeader, TypeOK
    <2>2. CommitOK(length)'
      BY <1>s, <2>1 DEF CommitOK
    <2>3. QED
      BY <1>q, <1>u, <2>1, <2>2, ThreadsAssumption
  <1>7. ASSUME GetBytes(T) PROVE SequentialInv' /\ PayloadWithinBound'
    <2>1. /\ pc[T] = "getbytes" /\ pc'[T] = "idle" /\ lock' = lock
          /\ lock = NoThread /\ count' = 0 /\ length' = Reserved
          /\ emitted' = Append(emitted, Slice(buf, offset[T], length))
      BY <1>7, <1>0 DEF GetBytes, Flush, TypeOK
    <2>2. /\ count \in Nat \ {0}
          /\ offset[T] = Reserved - ArrayPrefixSize(count)
          /\ length + ArrayPrefixSize(count - 1) - Reserved <= MaxSize
      BY <1>s, <2>1 DEF CommitOK
    <2>3. /\ ArrayPrefixSize(count) <= ArrayPrefixSize(count - 1) + 2
          /\ ArrayPrefixSize(count - 1) \in {1, 3, 5}
          /\ ArrayPrefixSize(count) \in {1, 3, 5}
      <3>1. count - 1 \in Nat
        BY <2>2
      <3>2. ArrayPrefixSize(count - 1) \in {1, 3, 5}
        BY <3>1, ArrayHeaderProperties
      <3>3. ArrayPrefixSize(count) \in {1, 3, 5}
        BY <2>2, ArrayHeaderProperties
      <3>4. ArrayPrefixSize(count) <= ArrayPrefixSize(count - 1) + 2
        BY <2>2, PrefixStep
      <3>5. QED
        BY <3>2, <3>3, <3>4
    <2>4. /\ Slice(buf, offset[T], length) \in Seq(Byte)
          /\ Len(Slice(buf, offset[T], length)) = length - offset[T]
      <3>1. offset[T] \in Nat /\ length \in offset[T]..Len(buf) /\ buf \in Seq(Byte)
        BY <1>0, <2>2, <2>3 DEF TypeOK
      <3>2. QED
        BY <3>1, SliceProperties
    <2>5. Len(Slice(buf, offset[T], length)) <= MaxSize + 2
      BY <1>0, <1>s, <2>2, <2>3, <2>4
    <2>6. PayloadWithinBound'
      BY <1>0, <2>1, <2>4, <2>5, AppendLemma DEF TypeOK
    <2>7. SequentialInv'
      BY <1>q, <1>s, <2>1 DEF CommitOK
    <2>8. QED
      BY <2>6, <2>7
  <1>8. ASSUME \/ AcquireBlock(T) \/ AcquireWake(T) \/ EncodeBlock(T)
               \/ EncodeWake(T) \/ EncodePatch(T) \/ GetBytesBlock(T)
               \/ GetBytesWake(T) \/ GetBytesResume(T)
        PROVE  FALSE
    BY <1>8, <1>s DEF AcquireBlock, AcquireWake, EncodeBlock, EncodeCall,
                      EncodeWake, EncodePatch, GetBytesBlock, GetBytesWake,
                      GetBytesResume
  <1>9. CASE UNCHANGED vars
    BY <1>9, <1>0 DEF vars, SequentialInv, CommitOK, PayloadWithinBound
  <1>10. QED
    BY <1>t, <1>2, <1>3, <1>4, <1>5, <1>6, <1>7, <1>8, <1>9 DEF Next

(* When one thread at a time uses the encoder, no byte string encode()    *)
(* returns is longer than max_size + 2, for every max_size,               *)
(* max_item_size and bound on traces.                                      *)
THEOREM PayloadBound ==
  ASSUME NEW T, Threads = {T}
  PROVE  Spec => []PayloadWithinBound
  <1>1. Init => IInv
    BY InitIInv
  <1>2. IInv /\ [Next]_vars => IInv'
    BY NextIInv
  <1>3. IInv => PayloadWithinBound
    BY DEF IInv
  <1>4. QED
    BY <1>1, <1>2, <1>3, PTL DEF Spec

=============================================================================
