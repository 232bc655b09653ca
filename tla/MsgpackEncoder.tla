--------------------------- MODULE MsgpackEncoder ---------------------------
(***************************************************************************)
(* The buffered msgpack trace encoder of ddtrace/internal/_encoding.pyx   *)
(* (src/unnamed/part_000): MsgpackEncoder.put / _pack_trace / encode /     *)
(* get_bytes / _update_array_len and the V03 flush, run by several Python *)
(* threads that share one encoder: producers call put, and the consumers *)
(* (spec 5: a single one) also call encode.                                *)
(*                                                                         *)
(* The byte buffer pk.buf is a sequence of abstract bytes.  A byte is      *)
(* either uninitialised memory (Junk), the first byte of a msgpack array  *)
(* header carrying its element count, a continuation byte of a header, or *)
(* the encoding of one span (a span is abstracted to a single byte that   *)
(* names the trace it belongs to and its position in it).  Bytes beyond   *)
(* pk.length are kept: the code can move pk.length forward over them.      *)
(*                                                                         *)
(* Threads run under the GIL.  Cython code runs without a thread switch   *)
(* until it runs Python code or blocks on a lock; so one step below is    *)
(* the code from one such switch point to the next:                        *)
(*   - put: entry .. trace header written, then the switch at              *)
(*     trace[0].context.dd_origin (a Python property);                     *)
(*   - the acquisition of self._lock, or blocking on it;                  *)
(*   - each pack_span (it reads span attributes first);                   *)
(*   - the last pack_span, the lock release and the size checks, which   *)
(*     run without a switch up to the return of put;                      *)
(*   - encode: entry .. _update_array_len's locked patch (or blocking on  *)
(*     the lock at 470), then get_bytes' locked slice and flush's reset   *)
(*     (or blocking on the lock at 479).                                   *)
(* A thread blocked on the lock waits without the GIL, and takes the lock *)
(* as soon as it is free, without the GIL: in one step, after which it    *)
(* runs when it gets the GIL.  So between the release at 474 and the      *)
(* acquisition at 479 no other thread runs Python code, but a thread      *)
(* already blocked on the lock can take it.                                *)
(***************************************************************************)
EXTENDS MsgpackPack, SequencesExt

CONSTANTS
  Threads,      \* Python threads calling put on the encoder
  Consumers,    \* the threads that also call encode
  NoThread,     \* the holder of a free lock
  MaxSize,      \* max_size given to the constructor
  MaxItemSize,  \* max_item_size given to the constructor
  MaxSpans,     \* bound: spans in one trace
  MaxPuts,      \* bound: put calls in a behaviour
  MaxEncodes    \* bound: encode calls that return bytes

ASSUME ThreadsAssumption ==
  Threads # {} /\ NoThread \notin Threads /\ Consumers \subseteq Threads
ASSUME SizeAssumption ==
  /\ MaxSize \in Nat /\ MaxItemSize \in Nat
  /\ MaxSpans \in Nat \ {0}
  /\ MaxSpans < 16   \* a trace header is then a one-byte fixarray
  /\ MaxPuts \in Nat /\ MaxEncodes \in Nat

VARIABLES
  buf,         \* pk.buf: the bytes written so far, stale ones included
  length,      \* pk.length
  count,       \* _count
  lock,        \* self._lock: its holder or NoThread
  pc,          \* where each thread is
  cur,         \* the trace a thread is putting: [id, len]
  spanIdx,     \* the next span of cur[t] to pack
  lenBefore,   \* put's local len_before
  sizeBefore,  \* put's local size_before
  offset,      \* _update_array_len's local offset
  oldPos,      \* _update_array_len's local old_pos
  nextId,      \* number of put calls so far (names the traces)
  accepted,    \* history: traces whose put returned normally, in order
  emitted      \* history: the byte strings encode returned, in order

vars == <<buf, length, count, lock, pc, cur, spanIdx, lenBefore, sizeBefore,
          offset, oldPos, nextId, accepted, emitted>>

-----------------------------------------------------------------------------
(* The size property of MsgpackEncoder.                                  *)
Size == length + ArrayPrefixSize(count) - Reserved

(* __cinit__: max_item_size is capped at max_size.                        *)
EffMaxItemSize == IF MaxItemSize < MaxSize THEN MaxItemSize ELSE MaxSize

Trace == [id : 0..MaxPuts, len : 1..MaxSpans]

-----------------------------------------------------------------------------
Init ==
  /\ buf = [i \in 1..Reserved |-> Junk]
  /\ length = Reserved
  /\ count = 0
  /\ lock = NoThread
  /\ pc = [t \in Threads |-> "idle"]
  /\ cur = [t \in Threads |-> [id |-> 0, len |-> 1]]
  /\ spanIdx = [t \in Threads |-> 1]
  /\ lenBefore = [t \in Threads |-> Reserved]
  /\ sizeBefore = [t \in Threads |-> 0]
  /\ offset = [t \in Threads |-> 0]
  /\ oldPos = [t \in Threads |-> Reserved]
  /\ nextId = 0
  /\ accepted = <<>>
  /\ emitted = <<>>

(* A thread between the release at 474 and the acquisition at 479 runs   *)
(* without a switch: no other thread takes a step that needs the GIL.      *)
GILFree == \A u \in Threads : pc[u] # "getbytes"

(* put(trace) up to the first switch point: record len_before and         *)
(* size_before, then _pack_trace writes the trace's array header.         *)
PutStart(t) ==
  /\ pc[t] = "idle"
  /\ GILFree
  /\ nextId < MaxPuts
  /\ \E L \in 1..MaxSpans :
       /\ cur' = [cur EXCEPT ![t] = [id |-> nextId, len |-> L]]
       /\ buf' = WriteAt(buf, length, ArrayHeader(L))
       /\ length' = length + ArrayHeaderLen(L)
  /\ lenBefore' = [lenBefore EXCEPT ![t] = length]
  /\ sizeBefore' = [sizeBefore EXCEPT ![t] = Size]
  /\ spanIdx' = [spanIdx EXCEPT ![t] = 1]
  /\ nextId' = nextId + 1
  /\ pc' = [pc EXCEPT ![t] = "acquire"]
  /\ UNCHANGED <<count, lock, offset, oldPos, accepted, emitted>>

(* _pack_trace: with self._lock, on a free lock.                          *)
Acquire(t) ==
  /\ pc[t] = "acquire"
  /\ GILFree
  /\ lock = NoThread
  /\ lock' = t
  /\ pc' = [pc EXCEPT ![t] = "spans"]
  /\ UNCHANGED <<buf, length, count, cur, spanIdx, lenBefore, sizeBefore,
                 offset, oldPos, nextId, accepted, emitted>>

(* _pack_trace: with self._lock, on a held lock: the thread blocks.       *)
AcquireBlock(t) ==
  /\ pc[t] = "acquire"
  /\ GILFree
  /\ lock # NoThread
  /\ pc' = [pc EXCEPT ![t] = "lockwait"]
  /\ UNCHANGED <<buf, length, count, lock, cur, spanIdx, lenBefore,
                 sizeBefore, offset, oldPos, nextId, accepted, emitted>>

(* The blocked put takes the lock once it is free.                         *)
AcquireWake(t) ==
  /\ pc[t] = "lockwait"
  /\ lock = NoThread
  /\ lock' = t
  /\ pc' = [pc EXCEPT ![t] = "spans"]
  /\ UNCHANGED <<buf, length, count, cur, spanIdx, lenBefore, sizeBefore,
                 offset, oldPos, nextId, accepted, emitted>>

(* pack_span of a span that is not the last of the trace.                 *)
PackSpan(t) ==
  /\ pc[t] = "spans"
  /\ GILFree
  /\ spanIdx[t] < cur[t].len
  /\ buf' = WriteAt(buf, length, <<SpanByte(cur[t].id, spanIdx[t])>>)
  /\ length' = length + 1
  /\ spanIdx' = [spanIdx EXCEPT ![t] = @ + 1]
  /\ UNCHANGED <<count, lock, pc, cur, lenBefore, sizeBefore, offset, oldPos,
                 nextId, accepted, emitted>>

(* put's checks after the last span is packed: the size it would have,   *)
(* and whether it raises BufferItemTooLarge or BufferFull.                 *)
NewSize == length + 1 + ArrayPrefixSize(count) - Reserved
(* Mutant: put without the BufferFull check.                                *)
RejectedNoFullCheck(t) == NewSize - sizeBefore[t] > EffMaxItemSize
Rejected(t) ==
  \/ NewSize - sizeBefore[t] > EffMaxItemSize
  \/ NewSize > MaxSize

(* Mutant: a put that succeeds without counting its trace.                 *)
PutAcceptNoCount(t) ==
  /\ ~Rejected(t)
  /\ length' = length + 1
  /\ count' = count
  /\ accepted' = Append(accepted, cur[t])

(* put returns normally: _count is incremented.                           *)
PutAccept(t) ==
  /\ ~Rejected(t)
  /\ length' = length + 1
  /\ count' = count + 1
  /\ accepted' = Append(accepted, cur[t])

(* Mutant: an except clause that does not rewind pk.length.               *)
PutRollbackNoRewind(t) ==
  /\ Rejected(t)
  /\ length' = length + 1
  /\ UNCHANGED <<count, accepted>>

(* put raises: the except clause rewinds pk.length to len_before.        *)
PutRollback(t) ==
  /\ Rejected(t)
  /\ length' = lenBefore[t]
  /\ UNCHANGED <<count, accepted>>

(* The last pack_span, the release of the lock and put's size checks,     *)
(* which run without a thread switch.                                      *)
PackLastSpan(t) ==
  /\ pc[t] = "spans"
  /\ GILFree
  /\ spanIdx[t] = cur[t].len
  /\ buf' = WriteAt(buf, length, <<SpanByte(cur[t].id, spanIdx[t])>>)
  /\ lock' = NoThread
  /\ pc' = [pc EXCEPT ![t] = "idle"]
  /\ PutAccept(t) \/ PutRollback(t)
  /\ UNCHANGED <<cur, spanIdx, lenBefore, sizeBefore, offset, oldPos,
                 nextId, emitted>>

(* encode() of a consumer: return None when _count is 0, else flush.      *)
EncodeCall(t) ==
  /\ t \in Consumers
  /\ pc[t] = "idle"
  /\ GILFree
  /\ count # 0
  /\ Len(emitted) < MaxEncodes

(* _update_array_len's locked section: the array header of the current   *)
(* _count written at offset, and pk.length set back to old_pos.           *)
PatchHeader(off, old) ==
  /\ buf' = WriteAt(buf, off, ArrayHeader(count))
  /\ length' = old

(* encode() on a free lock: _update_array_len computes offset and old_pos, *)
(* takes the lock, patches and releases it (474).                          *)
EncodeNow(t) ==
  /\ EncodeCall(t)
  /\ lock = NoThread
  /\ PatchHeader(Reserved - ArrayPrefixSize(count), length)
  /\ offset' = [offset EXCEPT ![t] = Reserved - ArrayPrefixSize(count)]
  /\ oldPos' = [oldPos EXCEPT ![t] = length]
  /\ pc' = [pc EXCEPT ![t] = "getbytes"]
  /\ UNCHANGED <<count, lock, cur, spanIdx, lenBefore, sizeBefore, nextId,
                 accepted, emitted>>

(* encode() on a held lock: offset and old_pos are computed, and the       *)
(* thread blocks at 470.                                                   *)
EncodeBlock(t) ==
  /\ EncodeCall(t)
  /\ lock # NoThread
  /\ offset' = [offset EXCEPT ![t] = Reserved - ArrayPrefixSize(count)]
  /\ oldPos' = [oldPos EXCEPT ![t] = length]
  /\ pc' = [pc EXCEPT ![t] = "flushwait"]
  /\ UNCHANGED <<buf, length, count, lock, cur, spanIdx, lenBefore,
                 sizeBefore, nextId, accepted, emitted>>

(* The encode blocked at 470 takes the lock once it is free.              *)
EncodeWake(t) ==
  /\ pc[t] = "flushwait"
  /\ lock = NoThread
  /\ lock' = t
  /\ pc' = [pc EXCEPT ![t] = "patch"]
  /\ UNCHANGED <<buf, length, count, cur, spanIdx, lenBefore, sizeBefore,
                 offset, oldPos, nextId, accepted, emitted>>

(* ... and, with the GIL, patches with the offset and old_pos it computed *)
(* before blocking, and releases the lock (474).                           *)
EncodePatch(t) ==
  /\ pc[t] = "patch"
  /\ GILFree
  /\ PatchHeader(offset[t], oldPos[t])
  /\ lock' = NoThread
  /\ pc' = [pc EXCEPT ![t] = "getbytes"]
  /\ UNCHANGED <<count, cur, spanIdx, lenBefore, sizeBefore, offset, oldPos,
                 nextId, accepted, emitted>>

(* Mutants of the flush: pk.length reset to 0 instead of 5; _count not  *)
(* reset; pk.length not reset.                                            *)
FlushResetZero(t) ==
  /\ emitted' = Append(emitted, Slice(buf, offset[t], length))
  /\ length' = 0
  /\ count' = 0
FlushKeepCount(t) ==
  /\ emitted' = Append(emitted, Slice(buf, offset[t], length))
  /\ length' = Reserved
  /\ count' = count
FlushKeepLength(t) ==
  /\ emitted' = Append(emitted, Slice(buf, offset[t], length))
  /\ length' = length
  /\ count' = 0

(* get_bytes' locked slice from the offset _update_array_len returned to  *)
(* the current pk.length (480), then V03.flush's finally: pk.length = 5,  *)
(* _count = 0 (557-558), after the lock is released but without a switch. *)
Flush(t) ==
  /\ emitted' = Append(emitted, Slice(buf, offset[t], length))
  /\ length' = Reserved
  /\ count' = 0

(* get_bytes on a free lock: take it, slice, release, reset.              *)
GetBytes(t) ==
  /\ pc[t] = "getbytes"
  /\ lock = NoThread
  /\ Flush(t)
  /\ pc' = [pc EXCEPT ![t] = "idle"]
  /\ UNCHANGED <<buf, lock, cur, spanIdx, lenBefore, sizeBefore, offset,
                 oldPos, nextId, accepted>>

(* get_bytes finds the lock taken by a thread that was blocked on it and  *)
(* blocks at 479.                                                          *)
GetBytesBlock(t) ==
  /\ pc[t] = "getbytes"
  /\ lock # NoThread
  /\ pc' = [pc EXCEPT ![t] = "byteswait"]
  /\ UNCHANGED <<buf, length, count, lock, cur, spanIdx, lenBefore,
                 sizeBefore, offset, oldPos, nextId, accepted, emitted>>

(* The get_bytes blocked at 479 takes the lock once it is free ...         *)
GetBytesWake(t) ==
  /\ pc[t] = "byteswait"
  /\ lock = NoThread
  /\ lock' = t
  /\ pc' = [pc EXCEPT ![t] = "slice"]
  /\ UNCHANGED <<buf, length, count, cur, spanIdx, lenBefore, sizeBefore,
                 offset, oldPos, nextId, accepted, emitted>>

(* ... and, with the GIL, slices, releases it and resets.                  *)
GetBytesResume(t) ==
  /\ pc[t] = "slice"
  /\ GILFree
  /\ Flush(t)
  /\ lock' = NoThread
  /\ pc' = [pc EXCEPT ![t] = "idle"]
  /\ UNCHANGED <<buf, cur, spanIdx, lenBefore, sizeBefore, offset, oldPos,
                 nextId, accepted>>

Next ==
  \E t \in Threads :
    \/ PutStart(t) \/ Acquire(t) \/ AcquireBlock(t) \/ AcquireWake(t)
    \/ PackSpan(t) \/ PackLastSpan(t)
    \/ EncodeNow(t) \/ EncodeBlock(t) \/ EncodeWake(t) \/ EncodePatch(t)
    \/ GetBytes(t) \/ GetBytesBlock(t) \/ GetBytesWake(t) \/ GetBytesResume(t)

Spec == Init /\ [][Next]_vars

-----------------------------------------------------------------------------
(* Invariants and properties.                                             *)

Byte == {Junk, Cont} \cup [kind : {"array"}, n : Nat]
          \cup [kind : {"span"}, trace : 0..MaxPuts, idx : 1..MaxSpans]

PC == {"idle", "acquire", "lockwait", "spans", "flushwait", "patch",
       "getbytes", "byteswait", "slice"}

TypeOK ==
  /\ buf \in Seq(Byte)
  /\ length \in Reserved..Len(buf)
  /\ count \in Nat
  /\ lock \in Threads \cup {NoThread}
  /\ pc \in [Threads -> PC]
  /\ cur \in [Threads -> Trace]
  /\ spanIdx \in [Threads -> 1..MaxSpans]
  /\ lenBefore \in [Threads -> Reserved..Len(buf)]
  /\ sizeBefore \in [Threads -> Nat]
  /\ offset \in [Threads -> 0..Reserved]
  /\ oldPos \in [Threads -> Reserved..Len(buf)]
  /\ nextId \in 0..MaxPuts
  /\ accepted \in Seq(Trace)
  /\ emitted \in Seq(Seq(Byte))

(* The msgpack encoding of one trace and of a top-level array of traces. *)
TraceBytes(tr) ==
  ArrayHeader(tr.len) \o [i \in 1..tr.len |-> SpanByte(tr.id, i)]
PayloadBytes(trs) ==
  ArrayHeader(Len(trs)) \o FlattenSeq([k \in DOMAIN trs |-> TraceBytes(trs[k])])

(* The traces a decoder finds in a byte string: one per first span, with *)
(* the element count of the array header just before it.                  *)
TracesIn(bs) ==
  LET firsts == SelectSeq([j \in 1..Len(bs) |-> j],
                          LAMBDA j : bs[j].kind = "span" /\ bs[j].idx = 1)
      lenAt(j) == IF j > 1 /\ bs[j - 1].kind = "array" THEN bs[j - 1].n ELSE 0
  IN  [k \in DOMAIN firsts |-> [id |-> bs[firsts[k]].trace,
                                 len |-> lenAt(firsts[k])]]

(* Every byte string encode() returns is exactly the msgpack array of     *)
(* the accepted traces it holds: the count in the patched prefix is the  *)
(* number of traces that follow, and no byte of a trace whose put failed,*)
(* of a torn trace or of another thread's half-written trace is in it.   *)
EmittedPayloadsDecode ==
  \A k \in DOMAIN emitted : emitted[k] = PayloadBytes(TracesIn(emitted[k]))

(* Each accepted trace is returned by encode() at most once and in the    *)
(* order of the put calls that accepted it; when no call is in progress, *)
(* the buffer holds exactly the accepted traces not yet returned, in      *)
(* order, and _count counts them.                                          *)
EmittedTraces == FlattenSeq([k \in DOMAIN emitted |-> TracesIn(emitted[k])])
Quiescent == \A t \in Threads : pc[t] = "idle"
Buffered == SubSeq(accepted, Len(EmittedTraces) + 1, Len(accepted))
AcceptedExactlyOnce ==
  /\ IsPrefix(EmittedTraces, accepted)
  /\ Quiescent =>
       /\ Slice(buf, Reserved, length)
            = FlattenSeq([k \in DOMAIN Buffered |-> TraceBytes(Buffered[k])])
       /\ count = Len(Buffered)

(* Refinement: the traces a decoder finds in the first _count traces of *)
(* the buffer are the pending items of TraceBuffer, and the traces it     *)
(* finds in the byte strings encode returned are its batches.             *)
BufferedTraces == TracesIn(Slice(buf, Reserved, length))
AbsPending ==
  IF count <= Len(BufferedTraces) THEN SubSeq(BufferedTraces, 1, count)
  ELSE BufferedTraces
AbsOut == [k \in DOMAIN emitted |-> TracesIn(emitted[k])]
Abs == INSTANCE TraceBuffer WITH Items <- Trace, pending <- AbsPending,
                                 out <- AbsOut

(* The single-caller encoder implements TraceBuffer.                       *)
ImplementsTraceBuffer == Abs!Spec

(* No byte string encode() returns is longer than max_size + 2: put       *)
(* checks the size with the array prefix of the old _count, and the       *)
(* prefix grows by at most 2 bytes when _count is incremented.            *)
PayloadWithinBound ==
  \A k \in DOMAIN emitted : Len(emitted[k]) <= MaxSize + 2

(* The traces counted by the array headers of the byte strings encode()   *)
(* returned.                                                               *)
HeaderCount(bs) == bs[1].n
HeadersTotal == FoldLeft(LAMBDA acc, bs : acc + HeaderCount(bs), 0, emitted)

(* Every put that returned normally is counted by the array header of     *)
(* exactly one returned byte string or by the current _count.             *)
CountsAccountForAccepted == Len(accepted) = count + HeadersTotal

(* No trace is counted twice: the headers of the byte strings encode()    *)
(* returned and the current _count never count more traces than put       *)
(* accepted.  The header patched at 471 counts _count, which flush's      *)
(* reset at 558 then zeroes; with the lock released at 474 and taken      *)
(* again at 479, a put that commits in between is lost from both, but a   *)
(* single consumer never counts a trace in two headers.                    *)
NoTraceCountedTwice == count + HeadersTotal <= Len(accepted)

(* The encoder's size never exceeds max_size (spec, BufferedEncoder       *)
(* state: size() = length + array_prefix_size(count) - 5 <= max_size).    *)
SizeWithinMax == Size <= MaxSize

=============================================================================
