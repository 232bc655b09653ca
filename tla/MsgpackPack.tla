----------------------------- MODULE MsgpackPack -----------------------------
(***************************************************************************)
(* The msgpack writers the encoders of _encoding.pyx build on            *)
(* (src/unnamed/part_000): array_prefix_size, and msgpack_pack_array and *)
(* the other pack.h writers as what they do to the packer's buffer.       *)
(* pk.buf is a sequence of abstract bytes and pk.length a C offset in it.*)
(***************************************************************************)
EXTENDS Naturals, Sequences

(* Bytes and msgpack headers.                                             *)

Junk == [kind |-> "junk"]
Cont == [kind |-> "cont"]
ArrByte(n) == [kind |-> "array", n |-> n]
SpanByte(id, i) == [kind |-> "span", trace |-> id, idx |-> i]

Reserved == 5   \* pk.length = 5: room for the array length prefix

(* array_prefix_size: the bytes the code reserves for an array header.   *)
ArrayPrefixSize(l) ==
  IF l < 16 THEN 1 ELSE IF l < 2 * 2^16 THEN 3 ELSE 5

(* The bytes msgpack_pack_array writes: fixarray, array16 or array32.    *)
ArrayHeaderLen(l) ==
  IF l < 16 THEN 1 ELSE IF l < 2^16 THEN 3 ELSE 5

ArrayHeader(l) ==
  [i \in 1..ArrayHeaderLen(l) |-> IF i = 1 THEN ArrByte(l) ELSE Cont]

(* The buffer after writing the byte string bs at C offset pos.          *)
WriteAt(b, pos, bs) ==
  [i \in 1..(IF pos + Len(bs) > Len(b) THEN pos + Len(bs) ELSE Len(b)) |->
     IF pos < i /\ i <= pos + Len(bs) THEN bs[i - pos] ELSE b[i]]

(* The bytes of b from C offset lo up to (excluding) hi.                  *)
Slice(b, lo, hi) == SubSeq(b, lo + 1, hi)

(* The header msgpack_pack_array writes for _count fits in the room that *)
(* _update_array_len reserves for it: offset = 5 - array_prefix_size is  *)
(* where it starts, and it must end at 5, where the first trace starts.  *)
PrefixHoldsHeader(l) == ArrayHeaderLen(l) <= ArrayPrefixSize(l)

=============================================================================
