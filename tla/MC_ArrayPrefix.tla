---------------------------- MODULE MC_ArrayPrefix ----------------------------
(***************************************************************************)
(* array_prefix_size against the header msgpack_pack_array writes, for a  *)
(* _count taken from a set of values around the msgpack format limits.    *)
(***************************************************************************)
EXTENDS MsgpackPack

CONSTANT Counts   \* values of _count at which encode() may be called

VARIABLE n        \* the _count encode() sees

Init == n \in Counts
Next == n' \in Counts
Spec == Init /\ [][Next]_n

(* Flushing with any of these counts writes the array header inside the  *)
(* reserved prefix and not over the first bytes of the first trace.      *)
PrefixCoversHeader == PrefixHoldsHeader(n)

(* Counts at each side of the fixarray, array16 and array32 limits.       *)
MCCounts == {0, 15, 16, 2^16 - 1, 2^16, 2 * 2^16 - 1, 2 * 2^16}
=============================================================================
