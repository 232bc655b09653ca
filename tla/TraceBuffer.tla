---------------------------- MODULE TraceBuffer ----------------------------
(***************************************************************************)
(* What a BufferedEncoder promises its callers (spec 4.3 and 8): put      *)
(* either appends its item to the pending items or leaves them as they    *)
(* were, and encode returns all pending items, in the order they were    *)
(* put, as one batch and starts a new one.  encode on an empty buffer      *)
(* returns nothing and changes nothing.                                    *)
(***************************************************************************)
EXTENDS Sequences

CONSTANT Items   \* the items put may be given

VARIABLES
  pending,   \* items accepted since the last batch, in order
  out        \* the batches encode returned, in order

Init ==
  /\ pending = <<>>
  /\ out = <<>>

(* A put that returns normally.  A put that fails is a stuttering step.   *)
Accept(item) ==
  /\ pending' = Append(pending, item)
  /\ UNCHANGED out

(* An encode that returns bytes.                                          *)
Emit ==
  /\ pending # <<>>
  /\ out' = Append(out, pending)
  /\ pending' = <<>>

Next == (\E item \in Items : Accept(item)) \/ Emit

Spec == Init /\ [][Next]_<<pending, out>>
=============================================================================
