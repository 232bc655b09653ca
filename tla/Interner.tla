------------------------------ MODULE Interner ------------------------------
(***************************************************************************)
(* What a StringTable promises (spec 3 and 4.2): an append-only interner. *)
(* The table is the sequence of the texts interned so far, in insertion   *)
(* order; a text's id is its position minus one, so an id, once given,    *)
(* never changes until reset.  index(text) returns the existing id or     *)
(* appends the text; reset clears every entry but the empty text, which    *)
(* keeps id 0.                                                             *)
(***************************************************************************)
EXTENDS Sequences

CONSTANTS
  Texts,   \* the texts callers intern
  Empty    \* the empty text

VARIABLE strings   \* the interned texts, in the order of their ids

Interned(s) == \E k \in DOMAIN strings : strings[k] = s

Init == strings = <<Empty>>

(* index(s) of a new text appends it; of a known one changes nothing.    *)
Index(s) ==
  /\ ~Interned(s)
  /\ strings' = Append(strings, s)

(* reset(): post-condition index("") == 0, and no other entry.           *)
Reset == strings' = <<Empty>>

Next == Reset \/ \E s \in Texts : Index(s)

Spec == Init /\ [][Next]_strings
=============================================================================
