---------------------------- MODULE StringTable ----------------------------
(***************************************************************************)
(* StringTable and its list variant ListStringTable, from                  *)
(* ddtrace/internal/_encoding.pyx (src/unnamed/part_000).                  *)
(*                                                                         *)
(* StringTable keeps _index, a dict from a string to its id; an id is the *)
(* len(self) (= len(_index)) at the moment the string was first seen, and *)
(* the subclass hook insert(string) records the string.  ListStringTable  *)
(* is the variant the pprof converter uses: insert appends to _list, and  *)
(* iterating the table yields _list, which pprof emits as the profile's   *)
(* string_table, where a string's id is its position.                      *)
(*                                                                         *)
(* ListStringTable() as written cannot be built: its __init__ assigns     *)
(* self._list (337), an attribute the cdef class does not declare, and    *)
(* raises AttributeError.  The table modelled is the one the code means:  *)
(* _index built by StringTable.__init__, and insert appending to _list.   *)
(* A table is the pair (index, list); index is None only in an extension  *)
(* object whose _index nothing assigned, which no constructor leaves.     *)
(***************************************************************************)
EXTENDS Naturals, Sequences, FiniteSets

CONSTANTS
  Strings,     \* strings callers intern ("" is always a string)
  None,        \* Python's None
  MaxListLen   \* bound: length of _list

VARIABLES
  index,   \* _index: [interned string -> id], or None
  list,    \* _list: the strings inserted, in order
  error    \* "none", or the exception the last call raised

tableVars == <<index, list, error>>

(* len(self): StringTable.__len__ is len(self._index).                   *)
TableLen(ix) == Cardinality(DOMAIN ix)

(* Mutant: index() without the lookup in _index, so a known string is    *)
(* given a new id.                                                        *)
InternNoCheck(t, s) ==
  [index |-> [x \in DOMAIN t.index \cup {s} |->
                IF x = s THEN TableLen(t.index) ELSE t.index[x]],
   list  |-> Append(t.list, s)]

(* The table after self.index(s) for a string s: an unseen string gets    *)
(* id len(self), is put in _index, then insert appends it to _list.       *)
Intern(t, s) ==
  IF s \in DOMAIN t.index THEN t
  ELSE [index |-> [x \in DOMAIN t.index \cup {s} |->
                     IF x = s THEN TableLen(t.index) ELSE t.index[x]],
        list  |-> Append(t.list, s)]

(* The id self.index(s) returns once s is interned (None gets 0).        *)
IdOf(t, s) == IF s = None THEN 0 ELSE Intern(t, s).index[s]

(* The empty string, which every table interns first with id 0.         *)
EmptyStr == ""

(* StringTable.__init__: _index = {"": 0}, then insert("").              *)
EmptyTable == [index |-> [x \in {EmptyStr} |-> 0], list |-> <<EmptyStr>>]

StringTableInit ==
  /\ index = EmptyTable.index
  /\ list = EmptyTable.list
  /\ error = "none"

(* StringTable.index(string): None gives 0 and changes nothing; on a     *)
(* table whose _index is None the lookup raises TypeError, which the     *)
(* except KeyError does not catch.                                        *)
Index(s) ==
  /\ error = "none"
  /\ \/ /\ s = None
        /\ UNCHANGED tableVars
     \/ /\ s # None /\ index = None
        /\ error' = "TypeError"
        /\ UNCHANGED <<index, list>>
     \/ /\ s # None /\ index # None
        /\ Len(list) < MaxListLen
        /\ index' = Intern([index |-> index, list |-> list], s).index
        /\ list' = Intern([index |-> index, list |-> list], s).list
        /\ UNCHANGED error

(* StringTable.reset: _index.clear(), then assert self.index("") == 0,   *)
(* which interns "" again (and ListStringTable.insert appends it).  _list *)
(* is not cleared.                                                         *)
Reset ==
  /\ error = "none"
  /\ index # None
  /\ Len(list) < MaxListLen
  /\ index' = [x \in {EmptyStr} |-> 0]
  /\ list' = Append(list, EmptyStr)
  /\ UNCHANGED error

TableNext == Reset \/ \E s \in Strings \cup {None} : Index(s)

(* A table built by StringTable.__init__, under every operation.         *)
TableSpec == StringTableInit /\ [][TableNext]_tableVars

(* A table built by StringTable.__init__ that only interns, as the pprof *)
(* converter uses it.                                                      *)
InternSpec ==
  StringTableInit /\ [][\E s \in Strings \cup {None} : Index(s)]_tableVars

TableTypeOK ==
  /\ DOMAIN index \subseteq Strings \cup {EmptyStr}
  /\ index \in [DOMAIN index -> Nat]
  /\ list \in Seq(Strings \cup {EmptyStr})
  /\ error \in {"none", "TypeError"}

(* The ids the table hands out are positions in _list: iterating the    *)
(* table (what pprof emits as string_table) yields at position id+1 the  *)
(* string that was given that id, and every listed string has an id.     *)
(* pprof relies on this for every string id it writes into a profile.    *)
IdsMatchList ==
  /\ Len(list) = TableLen(index)
  /\ \A s \in DOMAIN index : index[s] < Len(list) /\ list[index[s] + 1] = s

(* An id, once index() has handed it out, never changes and never leaves *)
(* _index while the table is only interned into: the pprof converter      *)
(* writes a string's id into a Function, a label or the mapping as soon   *)
(* as it gets it and serialises string_table only at the end, so every   *)
(* id it wrote must still name its string then.  (reset() breaks this;   *)
(* the converter never calls it.)                                          *)
IdsStable == \A x \in DOMAIN index : x \in DOMAIN index' /\ index'[x] = index[x]
IdsNeverChange == [][IdsStable]_tableVars


(* Refinement: read in the order of their ids, the strings in _index are *)
(* the interner's table.  _list is not the table: reset does not clear it. *)
AbsStrings ==
  [k \in 1..TableLen(index) |-> CHOOSE x \in DOMAIN index : index[x] = k - 1]
AbsInterner == INSTANCE Interner WITH Texts <- Strings, Empty <- EmptyStr,
                                      strings <- AbsStrings

(* A table built by StringTable.__init__, under index() and reset(),     *)
(* implements the spec's append-only interner.                            *)
ImplementsInterner == AbsInterner!Spec

=============================================================================
