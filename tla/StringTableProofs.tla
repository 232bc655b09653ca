------------------------- MODULE StringTableProofs -------------------------
(***************************************************************************)
(* Proof that a string table built by StringTable.__init__ and used only *)
(* through index() hands out ids that are positions in _list, for every   *)
(* set of strings and every bound on the list.                            *)
(***************************************************************************)
EXTENDS StringTable, FiniteSetTheorems, SequenceTheorems, TLAPS

(* IdsMatchList alone is not inductive: the step needs index to be a     *)
(* function with a finite domain, so that a new string's id,              *)
(* Cardinality(DOMAIN index), is the current length of _list.             *)
IInv ==
  /\ TableTypeOK
  /\ IsFiniteSet(DOMAIN index)
  /\ IdsMatchList

LEMMA InitIInv == StringTableInit => IInv
  <1> SUFFICES ASSUME StringTableInit PROVE IInv
    OBVIOUS
  <1>1. DOMAIN index = {EmptyStr} /\ index[EmptyStr] = 0 /\ list = <<EmptyStr>>
    BY DEF StringTableInit, EmptyTable
  <1>2. IsFiniteSet({EmptyStr}) /\ Cardinality({EmptyStr}) = 1
    BY FS_Singleton
  <1>3. TableTypeOK
    <2>1. DOMAIN index \subseteq Strings \cup {EmptyStr}
      BY <1>1
    <2>2. index \in [DOMAIN index -> Nat]
      BY DEF StringTableInit, EmptyTable
    <2>3. list \in Seq(Strings \cup {EmptyStr})
      BY <1>1
    <2>4. error \in {"none", "TypeError"}
      BY DEF StringTableInit
    <2>5. QED
      BY <2>1, <2>2, <2>3, <2>4 DEF TableTypeOK
  <1>4. IdsMatchList
    <2>1. Len(list) = 1 /\ list[1] = EmptyStr
      BY <1>1
    <2>2. TableLen(index) = 1
      BY <1>1, <1>2 DEF TableLen
    <2>3. \A x \in DOMAIN index : index[x] < Len(list) /\ list[index[x] + 1] = x
      BY <1>1, <2>1
    <2>4. QED
      BY <2>1, <2>2, <2>3 DEF IdsMatchList
  <1>5. QED
    BY <1>1, <1>2, <1>3, <1>4 DEF IInv

(* Interning a string the table lacks.                                    *)
LEMMA InternNew ==
  ASSUME NEW s \in Strings, IInv, s \notin DOMAIN index,
         index' = Intern([index |-> index, list |-> list], s).index,
         list' = Intern([index |-> index, list |-> list], s).list,
         error' = error
  PROVE  IInv'
  <1> DEFINE D == DOMAIN index
  <1>1. index' = [x \in D \cup {s} |-> IF x = s THEN Cardinality(D) ELSE index[x]]
          /\ list' = Append(list, s)
    BY DEF Intern, TableLen
  <1>2. IsFiniteSet(D \cup {s}) /\ Cardinality(D \cup {s}) = Cardinality(D) + 1
    BY FS_AddElement DEF IInv
  <1>3. Len(list) = Cardinality(D) /\ Cardinality(D) \in Nat
    BY FS_CardinalityType DEF IInv, IdsMatchList, TableLen
  <1>4. TableTypeOK'
    <2>1. DOMAIN index' \subseteq Strings \cup {EmptyStr}
      BY <1>1 DEF IInv, TableTypeOK
    <2>2. index' \in [DOMAIN index' -> Nat]
      BY <1>1, <1>3 DEF IInv, TableTypeOK
    <2>3. list' \in Seq(Strings \cup {EmptyStr})
      <3>1. list \in Seq(Strings \cup {EmptyStr}) /\ s \in Strings \cup {EmptyStr}
        BY DEF IInv, TableTypeOK
      <3>2. QED
        BY <1>1, <3>1, AppendProperties
    <2>4. error' \in {"none", "TypeError"}
      BY DEF IInv, TableTypeOK
    <2>5. QED
      BY <2>1, <2>2, <2>3, <2>4 DEF TableTypeOK
  <1>5. Len(list') = Cardinality(DOMAIN index')
    BY <1>1, <1>2, <1>3 DEF IInv, TableTypeOK
  <1>6. \A x \in DOMAIN index' : index'[x] < Len(list') /\ list'[index'[x] + 1] = x
    <2> SUFFICES ASSUME NEW x \in D \cup {s}
                 PROVE  index'[x] < Len(list') /\ list'[index'[x] + 1] = x
      BY <1>1
    <2>1. CASE x = s
      BY <2>1, <1>1, <1>3 DEF IInv, TableTypeOK
    <2>2. CASE x # s
      <3>1. x \in D /\ index'[x] = index[x]
        BY <2>2, <1>1
      <3>2. index[x] \in Nat /\ index[x] < Len(list) /\ list[index[x] + 1] = x
        BY <3>1 DEF IInv, TableTypeOK, IdsMatchList
      <3>3. Len(list') = Len(list) + 1 /\ \A k \in 1..Len(list) : list'[k] = list[k]
        BY <1>1 DEF IInv, TableTypeOK
      <3>4. index[x] + 1 \in 1..Len(list)
        BY <3>2
      <3>5. QED
        BY <3>1, <3>2, <3>3, <3>4
    <2>3. QED
      BY <2>1, <2>2
  <1>7. QED
    BY <1>1, <1>2, <1>4, <1>5, <1>6 DEF IInv, IdsMatchList, TableLen

LEMMA StepIInv ==
  IInv /\ [\E s \in Strings \cup {None} : Index(s)]_tableVars => IInv'
  <1> SUFFICES ASSUME IInv, [\E s \in Strings \cup {None} : Index(s)]_tableVars
               PROVE  IInv'
    OBVIOUS
  <1>1. CASE UNCHANGED tableVars
    BY <1>1 DEF IInv, TableTypeOK, IdsMatchList, TableLen, tableVars
  <1>2. CASE \E s \in Strings \cup {None} : Index(s)
    <2>1. PICK s \in Strings \cup {None} : Index(s)
      BY <1>2
    <2>2. CASE s = None
      BY <2>1, <2>2 DEF Index, IInv, TableTypeOK, IdsMatchList, TableLen, tableVars
    <2>3. CASE s # None /\ index = None
      BY <2>1, <2>3 DEF Index, IInv, TableTypeOK, IdsMatchList, TableLen
    <2>4. CASE s # None /\ index # None
      <3>2. s \in Strings
        BY <2>4
      <3>3. /\ index' = Intern([index |-> index, list |-> list], s).index
            /\ list' = Intern([index |-> index, list |-> list], s).list
            /\ error' = error
        BY <2>1, <2>4 DEF Index
      <3>4. CASE s \in DOMAIN index
        BY <3>3, <3>4 DEF Intern, IInv, TableTypeOK, IdsMatchList, TableLen
      <3>5. CASE s \notin DOMAIN index
        BY <3>2, <3>3, <3>5, InternNew
      <3>6. QED
        BY <3>4, <3>5
    <2>5. QED
      BY <2>2, <2>3, <2>4
  <1>3. QED
    BY <1>1, <1>2

(* Every id index() returns on a table built by StringTable.__init__ is  *)
(* a position of _list that holds the interned string: the invariant the *)
(* pprof converter relies on for every string id it writes.               *)
THEOREM InternIdsMatchList == InternSpec => []IdsMatchList
  <1>1. StringTableInit => IInv
    BY InitIInv
  <1>2. IInv /\ [\E s \in Strings \cup {None} : Index(s)]_tableVars => IInv'
    BY StepIInv
  <1>3. IInv => IdsMatchList
    BY DEF IInv
  <1>4. QED
    BY <1>1, <1>2, <1>3, PTL DEF InternSpec

(* One interning step keeps every id already given.                       *)
LEMMA StepIdsStable ==
  IInv /\ [\E s \in Strings \cup {None} : Index(s)]_tableVars => [IdsStable]_tableVars
  <1> SUFFICES ASSUME IInv, \E s \in Strings \cup {None} : Index(s)
               PROVE  IdsStable
    OBVIOUS
  <1>1. PICK s \in Strings \cup {None} : Index(s)
    OBVIOUS
  <1>2. CASE s = None \/ index = None
    BY <1>1, <1>2 DEF Index, IdsStable, tableVars
  <1>3. CASE s # None /\ index # None
    <2>1. index' = Intern([index |-> index, list |-> list], s).index
      BY <1>1, <1>3 DEF Index
    <2>2. QED
      BY <2>1 DEF Intern, IdsStable
  <1>4. QED
    BY <1>2, <1>3

(* A table built by StringTable.__init__ and used through index() alone  *)
(* never changes an id it handed out, for every set of strings and bound. *)
THEOREM InternIdsStable == InternSpec => IdsNeverChange
  BY InitIInv, StepIInv, StepIdsStable, PTL DEF InternSpec, IdsNeverChange


-----------------------------------------------------------------------------
(* Refinement of the spec's interner, under index() and reset().         *)

(* The interner's table read off an _index ix, and the fact that makes it *)
(* a table: the ids are a bijection from the strings onto 0..len(ix)-1.   *)
(* IdsMatchList does not survive reset(), which keeps _list; this does.   *)
AbsOf(ix) == [k \in 1..TableLen(ix) |-> CHOOSE x \in DOMAIN ix : ix[x] = k - 1]

IdsBijective(ix) ==
  /\ IsFiniteSet(DOMAIN ix)
  /\ ix \in [DOMAIN ix -> Nat]
  /\ \A x \in DOMAIN ix : ix[x] < TableLen(ix)
  /\ \A x, y \in DOMAIN ix : ix[x] = ix[y] => x = y
  /\ \A k \in 0..TableLen(ix) - 1 : \E x \in DOMAIN ix : ix[x] = k

(* The table __init__ and reset() leave: "" with id 0.                    *)
LEMMA EmptyIndex ==
  /\ IdsBijective([x \in {EmptyStr} |-> 0])
  /\ AbsOf([x \in {EmptyStr} |-> 0]) = <<EmptyStr>>
  <1> DEFINE ix == [x \in {EmptyStr} |-> 0]
  <1>1. IsFiniteSet({EmptyStr}) /\ TableLen(ix) = 1
    BY FS_Singleton DEF TableLen
  <1>2. IdsBijective(ix)
    BY <1>1 DEF IdsBijective
  <1>3. AbsOf(ix) = <<EmptyStr>>
    BY <1>1 DEF AbsOf
  <1>4. QED
    BY <1>2, <1>3

(* A string's id is the position of the string in the table, minus one.  *)
LEMMA AbsOfEntries ==
  ASSUME NEW ix, IdsBijective(ix)
  PROVE  /\ TableLen(ix) \in Nat
         /\ \A k \in 1..TableLen(ix) : AbsOf(ix)[k] \in DOMAIN ix /\ ix[AbsOf(ix)[k]] = k - 1
  <1>1. TableLen(ix) \in Nat
    BY FS_CardinalityType DEF IdsBijective, TableLen
  <1>2. \A k \in 1..TableLen(ix) : \E x \in DOMAIN ix : ix[x] = k - 1
    BY <1>1 DEF IdsBijective
  <1>3. QED
    BY <1>1, <1>2 DEF AbsOf

(* The _index that Intern leaves when s is new.                           *)
AddedId(ix, s) == [x \in DOMAIN ix \cup {s} |-> IF x = s THEN TableLen(ix) ELSE ix[x]]

(* Interning a new string appends it to the interner's table.            *)
LEMMA AddId ==
  ASSUME NEW ix, IdsBijective(ix), NEW s, s \notin DOMAIN ix
  PROVE  /\ IdsBijective(AddedId(ix, s))
         /\ AbsOf(AddedId(ix, s)) = Append(AbsOf(ix), s)
         /\ \A k \in DOMAIN AbsOf(ix) : AbsOf(ix)[k] # s
  <1> DEFINE D == DOMAIN ix
             n == TableLen(ix)
             ix2 == [x \in D \cup {s} |-> IF x = s THEN n ELSE ix[x]]
  <1>1. n \in Nat /\ \A k \in 1..n : AbsOf(ix)[k] \in D /\ ix[AbsOf(ix)[k]] = k - 1
    BY AbsOfEntries
  <1>2. IsFiniteSet(D \cup {s}) /\ TableLen(ix2) = n + 1
    BY FS_AddElement DEF IdsBijective, TableLen
  <1>3. IdsBijective(ix2)
    <2>1. ix2 \in [DOMAIN ix2 -> Nat] /\ \A x \in DOMAIN ix2 : ix2[x] < n + 1
      BY <1>1 DEF IdsBijective, TableLen
    <2>2. \A x, y \in DOMAIN ix2 : ix2[x] = ix2[y] => x = y
      BY <1>1 DEF IdsBijective, TableLen
    <2>3. \A k \in 0..n : \E x \in DOMAIN ix2 : ix2[x] = k
      BY <1>1 DEF IdsBijective, TableLen
    <2>4. QED
      BY <1>2, <2>1, <2>2, <2>3 DEF IdsBijective
  <1>4. \A k \in 1..n : AbsOf(ix2)[k] = AbsOf(ix)[k]
    <2> SUFFICES ASSUME NEW k \in 1..n PROVE AbsOf(ix2)[k] = AbsOf(ix)[k]
      OBVIOUS
    <2> DEFINE w == AbsOf(ix)[k]
               y == AbsOf(ix2)[k]
    <2>1. w \in D /\ ix[w] = k - 1 /\ w # s
      BY <1>1
    <2>2. y \in D \cup {s} /\ ix2[y] = k - 1
      <3>1. y = CHOOSE x \in DOMAIN ix2 : ix2[x] = k - 1
        BY <1>1, <1>2 DEF AbsOf
      <3>2. w \in DOMAIN ix2 /\ ix2[w] = k - 1
        BY <2>1
      <3>3. QED
        BY <3>1, <3>2
    <2>3. y \in D /\ ix[y] = k - 1
      BY <1>1, <2>2
    <2>4. QED
      BY <2>1, <2>3 DEF IdsBijective
  <1>5. AbsOf(ix2)[n + 1] = s
    <2> DEFINE y == AbsOf(ix2)[n + 1]
    <2>1. y \in D \cup {s} /\ ix2[y] = n
      BY <1>1, <1>2 DEF AbsOf
    <2>2. QED
      BY <1>1, <2>1 DEF IdsBijective
  <1>6. AbsOf(ix2) = Append(AbsOf(ix), s)
    <2>1. AbsOf(ix) \in Seq(D) /\ Len(AbsOf(ix)) = n
      BY <1>1 DEF AbsOf
    <2>2. QED
      BY <1>1, <1>2, <1>4, <1>5, <2>1 DEF AbsOf
  <1>7. \A k \in DOMAIN AbsOf(ix) : AbsOf(ix)[k] # s
    BY <1>1 DEF AbsOf
  <1>8. QED
    BY <1>3, <1>6, <1>7 DEF AddedId


(* The invariant the refinement rests on: the ids in _index stay a        *)
(* bijection onto 0..len-1 under index() and reset().                      *)
RInv == IdsBijective(index)

LEMMA InitRefines == StringTableInit => RInv /\ AbsInterner!Init
  <1> SUFFICES ASSUME StringTableInit PROVE RInv /\ AbsInterner!Init
    OBVIOUS
  <1>1. index = [x \in {EmptyStr} |-> 0]
    BY DEF StringTableInit, EmptyTable
  <1>2. QED
    BY <1>1, EmptyIndex DEF RInv, AbsInterner!Init, AbsStrings, AbsOf

(* Every step of index() or reset() is a step of the interner, or leaves  *)
(* its table as it was.                                                   *)
LEMMA StepRefines ==
  RInv /\ [TableNext]_tableVars => RInv' /\ [AbsInterner!Next]_AbsStrings
  <1> SUFFICES ASSUME RInv, [TableNext]_tableVars
               PROVE  RInv' /\ [AbsInterner!Next]_AbsStrings
    OBVIOUS
  <1>0. AbsStrings = AbsOf(index) /\ AbsStrings' = AbsOf(index')
    BY DEF AbsStrings, AbsOf
  <1>1. CASE index' = index
    BY <1>0, <1>1 DEF RInv
  <1>2. CASE Reset
    <2>1. index' = [x \in {EmptyStr} |-> 0]
      BY <1>2 DEF Reset
    <2>2. QED
      BY <2>1, <1>0, EmptyIndex DEF RInv, AbsInterner!Next, AbsInterner!Reset
  <1>3. CASE \E s \in Strings \cup {None} : Index(s)
    <2>1. PICK s \in Strings \cup {None} : Index(s)
      BY <1>3
    <2>2. CASE s = None \/ index = None \/ s \in DOMAIN index
      <3>1. index' = index
        BY <2>1, <2>2 DEF Index, Intern, tableVars
      <3>2. QED
        BY <3>1, <1>1
    <2>3. CASE s # None /\ index # None /\ s \notin DOMAIN index
      <3>1. s \in Strings
        BY <2>3
      <3>2. index' = AddedId(index, s)
        BY <2>1, <2>3 DEF Index, Intern, AddedId
      <3>3. /\ IdsBijective(index')
            /\ AbsOf(index') = Append(AbsOf(index), s)
            /\ \A k \in DOMAIN AbsOf(index) : AbsOf(index)[k] # s
        BY <2>3, <3>2, AddId DEF RInv
      <3>4. AbsInterner!Index(s)
        BY <1>0, <3>3 DEF AbsInterner!Index, AbsInterner!Interned
      <3>5. QED
        BY <3>1, <3>3, <3>4 DEF RInv, AbsInterner!Next
    <2>4. QED
      BY <2>2, <2>3
  <1>4. CASE UNCHANGED tableVars
    BY <1>4, <1>1 DEF tableVars
  <1>5. QED
    BY <1>2, <1>3, <1>4 DEF TableNext

(* The spec's promise (spec 3, 4.2), for every set of strings and bound:  *)
(* read in id order, the strings in _index of a table built by            *)
(* StringTable.__init__ behave as an append-only interner under index()   *)
(* and reset(): a string is appended once, and reset leaves only "".      *)
THEOREM StringTableRefinesInterner == TableSpec => ImplementsInterner
  <1>1. TableSpec => []RInv
    BY InitRefines, StepRefines, PTL DEF TableSpec
  <1>2. QED
    BY <1>1, InitRefines, StepRefines, PTL
       DEF TableSpec, ImplementsInterner, AbsInterner!Spec

=============================================================================
