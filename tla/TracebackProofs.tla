-------------------------- MODULE TracebackProofs --------------------------
(***************************************************************************)
(* Proofs that traceback_to_frames and pyframe_to_frames return what     *)
(* their docstrings promise, for every chain of frames, every max_nframes *)
(* and both compiled branches.                                             *)
(***************************************************************************)
EXTENDS Traceback, SequenceTheorems, TLAPS

(* The number of frames kept after the first n of the chain.             *)
KeptAfter(n) == IF maxN < n THEN maxN ELSE n

(* The frames list after the first n iterations, by a closed form:        *)
(* traceback_to_frames inserts each kept frame at the front, so its list *)
(* is the kept prefix reversed; pyframe_to_frames appends.                *)
FramesAfter(n) ==
  IF fn = "traceback"
  THEN [k \in 1..KeptAfter(n) |-> FrameTuple(chain[KeptAfter(n) - k + 1], py311)]
  ELSE [k \in 1..KeptAfter(n) |-> FrameTuple(chain[k], py311)]

(* FramesAsDocumented only speaks of the returned state; the loop keeps  *)
(* nframes equal to the iterations done and frames equal to their closed *)
(* form, which is what the step needs.  A crashed call returns nothing.   *)
IInv ==
  /\ TypeOK
  /\ py311 \in Versions /\ chain \in Chains[py311] /\ maxN \in MaxNFrames
  /\ nframes = i - 1
  /\ pc # "crashed" => frames = FramesAfter(i - 1)
  /\ pc = "done" => i = Len(chain) + 1

-----------------------------------------------------------------------------
(* Lemmas about the operators the steps are built from.                   *)

(* A reference count change never changes which objects are counted.    *)
LEMMA RefDomain ==
  ASSUME NEW r, NEW o
  PROVE  /\ DOMAIN GetRef(r, o) = DOMAIN r
         /\ DOMAIN XDecref(r, o) = DOMAIN r
  BY DEF GetRef, XDecref

LEMMA AfterClassNameDomain ==
  ASSUME NEW r, NEW f, NEW v
  PROVE  DOMAIN AfterClassName(r, f, v) = DOMAIN r
  BY RefDomain DEF AfterClassName

LEMMA PyframeRefsDomain ==
  ASSUME NEW r, NEW k, NEW kept
  PROVE  DOMAIN PyframeRefs(r, k, kept) = DOMAIN r
  BY RefDomain DEF PyframeRefs

(* Facts about the constants that every state of a call carries.         *)
LEMMA CallFacts ==
  ASSUME IInv
  PROVE  /\ py311 \in BOOLEAN
         /\ fn \in {"traceback", "pyframe"}
         /\ maxN \in Nat
         /\ chain \in Seq(Frame(py311))
  BY CallAssumption, ChainsAssumption DEF IInv, TypeOK

-----------------------------------------------------------------------------
LEMMA InitIInv == Init => IInv
  <1> SUFFICES ASSUME Init PROVE IInv
    OBVIOUS
  <1>1. py311 \in BOOLEAN /\ maxN \in Nat /\ chain \in Seq(Frame(py311))
    BY CallAssumption, ChainsAssumption DEF Init
  <1>2. KeptAfter(0) = 0
    BY <1>1 DEF KeptAfter
  <1>3. frames = FramesAfter(i - 1)
    BY <1>2 DEF Init, FramesAfter
  <1>4. TypeOK
    BY <1>1 DEF Init, TypeOK
  <1>5. QED
    BY <1>3, <1>4 DEF Init, IInv

(* One iteration of traceback_to_frames keeps the loop invariant: a kept  *)
(* frame goes to the front of the list, a dropped one only counts.        *)
LEMMA TracebackStepIInv == IInv /\ TracebackStep => IInv'
  <1> SUFFICES ASSUME IInv, TracebackStep PROVE IInv'
    OBVIOUS
  <1> DEFINE x == FrameTuple(chain[i], py311)
  <1>1. /\ py311 \in BOOLEAN /\ maxN \in Nat /\ chain \in Seq(Frame(py311))
        /\ fn = "traceback" /\ pc = "loop"
        /\ i \in 1..Len(chain) /\ nframes = i - 1
        /\ frames = FramesAfter(i - 1)
    BY CallFacts DEF IInv, TypeOK, TracebackStep
  <1>2. /\ nframes' = nframes + 1 /\ i' = i + 1
        /\ UNCHANGED <<fn, py311, chain, maxN>>
    BY DEF TracebackStep
  <1>3. DOMAIN rc' = Objects(chain)
    BY <1>1, RefDomain, AfterClassNameDomain DEF TracebackStep, TracebackRefs, IInv, TypeOK
  <1>7. (FramesAfter(i - 1))' = FramesAfter(i)
    <2>1. i' - 1 = i
      BY <1>1, <1>2
    <2>2. (KeptAfter(i - 1))' = KeptAfter(i)
      BY <1>2, <2>1 DEF KeptAfter
    <2>3. QED
      BY <1>2, <2>2 DEF FramesAfter
  <1>8. (py311 \in Versions /\ chain \in Chains[py311] /\ maxN \in MaxNFrames)'
    BY <1>2 DEF IInv
  <1>9. (nframes = i - 1)' /\ (pc = "done" => i = Len(chain) + 1)'
    BY <1>1, <1>2 DEF TracebackStep
  <1>4. CASE KeepTb(nframes, maxN)
    <2>1. KeptAfter(i - 1) = i - 1 /\ KeptAfter(i) = i
      BY <1>1, <1>4 DEF KeptAfter, KeepTb
    <2>2. frames = [k \in 1..i - 1 |-> FrameTuple(chain[i - k], py311)]
      BY <1>1, <2>1 DEF FramesAfter
    <2>3. frames' = <<x>> \o frames /\ pc' \in {"loop", "crashed"}
      BY <1>4 DEF TracebackStep
    <2>4. <<x>> \o frames = [k \in 1..i |-> FrameTuple(chain[i - k + 1], py311)]
      <3> DEFINE S == {FrameTuple(chain[j], py311) : j \in 1..Len(chain)}
      <3>1. <<x>> \in Seq(S) /\ frames \in Seq(S)
        BY <1>1, <2>2
      <3>2. /\ Len(<<x>> \o frames) = i
            /\ \A k \in 1..i : (<<x>> \o frames)[k] = IF k <= 1 THEN x ELSE frames[k - 1]
        BY <1>1, <2>2, <3>1, ConcatProperties
      <3>3. QED
        BY <1>1, <2>2, <3>1, <3>2, ConcatProperties
    <2>5. FramesAfter(i) = [k \in 1..i |-> FrameTuple(chain[i - k + 1], py311)]
      BY <1>1, <2>1 DEF FramesAfter
    <2>6. Len(frames') = i /\ i <= maxN
      BY <1>1, <1>4, <2>3, <2>4 DEF KeepTb
    <2>7. TypeOK'
      BY <1>1, <1>2, <1>3, <2>3, <2>6 DEF TypeOK, IInv
    <2>8. QED
      BY <1>7, <1>8, <1>9, <2>3, <2>4, <2>5, <2>7 DEF IInv
  <1>5. CASE ~KeepTb(nframes, maxN)
    <2>1. KeptAfter(i - 1) = maxN /\ KeptAfter(i) = maxN
      BY <1>1, <1>5 DEF KeptAfter, KeepTb
    <2>2. FramesAfter(i) = FramesAfter(i - 1)
      BY <1>1, <2>1 DEF FramesAfter
    <2>3. UNCHANGED <<pc, frames>>
      BY <1>5 DEF TracebackStep
    <2>4. TypeOK'
      BY <1>1, <1>2, <1>3, <2>3 DEF TypeOK, IInv
    <2>5. QED
      BY <1>1, <1>7, <1>8, <1>9, <2>2, <2>3, <2>4 DEF IInv
  <1>6. QED
    BY <1>4, <1>5

(* One iteration of pyframe_to_frames keeps the loop invariant: a kept    *)
(* frame is appended, and whether it is kept is read off the list length. *)
LEMMA PyframeStepIInv == IInv /\ PyframeStep => IInv'
  <1> SUFFICES ASSUME IInv, PyframeStep PROVE IInv'
    OBVIOUS
  <1> DEFINE x == FrameTuple(chain[i], py311)
  <1>1. /\ py311 \in BOOLEAN /\ maxN \in Nat /\ chain \in Seq(Frame(py311))
        /\ fn = "pyframe" /\ pc = "loop"
        /\ i \in 1..Len(chain) /\ nframes = i - 1
        /\ frames = FramesAfter(i - 1)
    BY CallFacts DEF IInv, TypeOK, PyframeStep
  <1>2. /\ nframes' = nframes + 1 /\ i' = i + 1
        /\ UNCHANGED <<fn, py311, chain, maxN>>
    BY DEF PyframeStep
  <1>3. DOMAIN rc' = Objects(chain)
    BY <1>1, PyframeRefsDomain, AfterClassNameDomain DEF PyframeStep, IInv, TypeOK
  <1>4. (FramesAfter(i - 1))' = FramesAfter(i)
    <2>1. i' - 1 = i
      BY <1>1, <1>2
    <2>2. (KeptAfter(i - 1))' = KeptAfter(i)
      BY <1>2, <2>1 DEF KeptAfter
    <2>3. QED
      BY <1>2, <2>2 DEF FramesAfter
  <1>5. (py311 \in Versions /\ chain \in Chains[py311] /\ maxN \in MaxNFrames)'
    BY <1>2 DEF IInv
  <1>6. (nframes = i - 1)' /\ (pc = "done" => i = Len(chain) + 1)'
    BY <1>1, <1>2 DEF PyframeStep
  <1>7. Len(frames) = KeptAfter(i - 1)
    BY <1>1 DEF FramesAfter, KeptAfter
  <1>8. CASE i - 1 < maxN
    <2>1. KeptAfter(i - 1) = i - 1 /\ KeptAfter(i) = i
      BY <1>1, <1>8 DEF KeptAfter
    <2>2. frames = [k \in 1..i - 1 |-> FrameTuple(chain[k], py311)]
      BY <1>1, <2>1 DEF FramesAfter
    <2>3. frames' = Append(frames, x) /\ pc' \in {"loop", "crashed"}
      BY <1>7, <1>8, <2>1 DEF PyframeStep
    <2>4. Append(frames, x) = [k \in 1..i |-> FrameTuple(chain[k], py311)]
      <3> DEFINE S == {FrameTuple(chain[j], py311) : j \in 1..Len(chain)}
      <3>1. x \in S /\ frames \in Seq(S)
        BY <1>1, <2>2
      <3>2. QED
        BY <1>1, <2>2, <3>1, AppendProperties
    <2>5. FramesAfter(i) = [k \in 1..i |-> FrameTuple(chain[k], py311)]
      BY <1>1, <2>1 DEF FramesAfter
    <2>6. Len(frames') = i /\ i <= maxN
      BY <1>1, <1>8, <2>3, <2>4
    <2>7. TypeOK'
      BY <1>1, <1>2, <1>3, <2>3, <2>6 DEF TypeOK, IInv
    <2>8. QED
      BY <1>4, <1>5, <1>6, <2>3, <2>4, <2>5, <2>7 DEF IInv
  <1>9. CASE ~(i - 1 < maxN)
    <2>1. KeptAfter(i - 1) = maxN /\ KeptAfter(i) = maxN
      BY <1>1, <1>9 DEF KeptAfter
    <2>2. FramesAfter(i) = FramesAfter(i - 1)
      BY <1>1, <2>1 DEF FramesAfter
    <2>3. frames' = frames /\ pc' = "loop"
      BY <1>7, <1>9, <2>1 DEF PyframeStep
    <2>4. TypeOK'
      BY <1>1, <1>2, <1>3, <2>3 DEF TypeOK, IInv
    <2>5. QED
      BY <1>1, <1>4, <1>5, <1>6, <2>2, <2>3, <2>4 DEF IInv
  <1>10. QED
    BY <1>8, <1>9

(* Returning ends the loop only once the chain is exhausted.             *)
LEMMA ReturnIInv == IInv /\ Return => IInv'
  <1> SUFFICES ASSUME IInv, Return PROVE IInv'
    OBVIOUS
  <1>1. (FramesAfter(i - 1))' = FramesAfter(i - 1)
    BY DEF Return, FramesAfter, KeptAfter
  <1>2. TypeOK'
    BY DEF Return, IInv, TypeOK
  <1>3. i = Len(chain) + 1
    BY DEF Return, IInv, TypeOK
  <1>4. QED
    BY <1>1, <1>2, <1>3 DEF Return, IInv

(* Stuttering keeps the invariant.                                        *)
LEMMA StutterIInv == IInv /\ UNCHANGED vars => IInv'
  BY DEF IInv, vars, TypeOK, FramesAfter, KeptAfter, Objects

(* The loop invariant is inductive.                                       *)
LEMMA NextIInv == IInv /\ [Next]_vars => IInv'
  BY TracebackStepIInv, PyframeStepIInv, ReturnIInv, StutterIInv DEF Next

-----------------------------------------------------------------------------
(* Every line number a frame tuple carries is at least 0: on 3.11+ a     *)
(* negative f_lineno is clamped, before it a None becomes 0.             *)
LEMMA LineNoNonNegative ==
  ASSUME NEW v \in BOOLEAN, NEW f \in Frame(v)
  PROVE  FrameTuple(f, v)[2] >= 0
  <1>1. f.lineno \in LineNos(v)
    BY DEF Frame
  <1>2. CASE v
    BY <1>1, <1>2 DEF FrameTuple, LineNo, LineNos
  <1>3. CASE ~v
    <2>1. f.lineno = None \/ f.lineno \in Nat
      BY <1>1, <1>3 DEF LineNos
    <2>2. QED
      BY <1>3, <2>1 DEF FrameTuple, LineNo
  <1>4. QED
    BY <1>2, <1>3

(* After the whole chain, the closed form is the documented result:      *)
(* the first max_nframes frames, reversed for traceback_to_frames.       *)
LEMMA FramesAfterIsExpected ==
  ASSUME IInv
  PROVE  FramesAfter(Len(chain)) = Expected(fn, chain, maxN, py311)
  <1> DEFINE m == KeptAfter(Len(chain))
             tuples == [k \in 1..m |-> FrameTuple(chain[k], py311)]
  <1>1. maxN \in Nat /\ chain \in Seq(Frame(py311)) /\ fn \in {"traceback", "pyframe"}
    BY CallFacts
  <1>2. m \in 0..Len(chain) /\ m = IF maxN < Len(chain) THEN maxN ELSE Len(chain)
    BY <1>1 DEF KeptAfter
  <1>3. LET kept == SubSeq(chain, 1, m)
        IN  [k \in DOMAIN kept |-> FrameTuple(kept[k], py311)] = tuples
    BY <1>1, <1>2
  <1>4. Expected(fn, chain, maxN, py311) =
          IF fn = "traceback" THEN Reverse(tuples) ELSE tuples
    BY <1>2, <1>3 DEF Expected
  <1>5. Reverse(tuples) = [k \in 1..m |-> FrameTuple(chain[m - k + 1], py311)]
    BY <1>2 DEF Reverse
  <1>6. QED
    BY <1>4, <1>5 DEF FramesAfter

(* The loop invariant gives what the docstrings promise of a returned call. *)
LEMMA IInvDocumented == IInv => FramesAsDocumented
  <1> SUFFICES ASSUME IInv, pc = "done"
               PROVE  /\ nframes = Len(chain)
                      /\ frames = Expected(fn, chain, maxN, py311)
                      /\ \A k \in DOMAIN frames : frames[k][2] >= 0
    BY DEF FramesAsDocumented
  <1>1. py311 \in BOOLEAN /\ maxN \in Nat /\ chain \in Seq(Frame(py311))
    BY CallFacts
  <1>2. i = Len(chain) + 1 /\ nframes = Len(chain) /\ frames = FramesAfter(Len(chain))
    BY <1>1 DEF IInv
  <1>3. \A k \in DOMAIN frames : \E j \in 1..Len(chain) : frames[k] = FrameTuple(chain[j], py311)
    <2> DEFINE m == KeptAfter(Len(chain))
    <2>1. m \in 0..Len(chain) /\ DOMAIN frames = 1..m
      BY <1>1, <1>2 DEF FramesAfter, KeptAfter
    <2> TAKE k \in DOMAIN frames
    <2>2. CASE fn = "traceback"
      <3>1. frames[k] = FrameTuple(chain[m - k + 1], py311) /\ m - k + 1 \in 1..Len(chain)
        BY <1>2, <2>1, <2>2 DEF FramesAfter
      <3>2. QED
        BY <3>1
    <2>3. CASE fn # "traceback"
      <3>1. frames[k] = FrameTuple(chain[k], py311) /\ k \in 1..Len(chain)
        BY <1>2, <2>1, <2>3 DEF FramesAfter
      <3>2. QED
        BY <3>1
    <2>4. QED
      BY <2>2, <2>3
  <1>4. \A j \in 1..Len(chain) : FrameTuple(chain[j], py311)[2] >= 0
    BY <1>1, LineNoNonNegative
  <1>5. QED
    BY <1>2, <1>3, <1>4, FramesAfterIsExpected

-----------------------------------------------------------------------------
(* Type correctness of both helpers: the list never holds more frames     *)
(* than were visited or than max_nframes allows, and the reference counts *)
(* stay over the chain's objects.                                         *)
THEOREM TracebackTypeOK == Spec => []TypeOK
  <1>1. IInv => TypeOK
    BY DEF IInv
  <1>2. QED
    BY InitIInv, NextIInv, <1>1, PTL DEF Spec

(* traceback_to_frames and pyframe_to_frames return, for every chain and  *)
(* every max_nframes, the first max_nframes frames (innermost first for   *)
(* a traceback), count every frame visited, and never a negative line.    *)
THEOREM FramesDocumented == Spec => []FramesAsDocumented
  BY InitIInv, NextIInv, IInvDocumented, PTL DEF Spec


-----------------------------------------------------------------------------
(* Reference counts.                                                      *)

(* Taking or dropping a reference keeps the counts integers over the same *)
(* objects.                                                               *)
LEMMA RefInt ==
  ASSUME NEW D, NEW r \in [D -> Int], NEW o \in D
  PROVE  /\ GetRef(r, o) \in [D -> Int]
         /\ XDecref(r, o) \in [D -> Int]
  BY DEF GetRef, XDecref

LEMMA AfterClassNameInt ==
  ASSUME NEW D, NEW r \in [D -> Int], NEW f, NEW v, f.code.id \in D, EmptyTuple \in D
  PROVE  AfterClassName(r, f, v) \in [D -> Int]
  <1>1. XDecref(GetRef(r, f.code.id), f.code.id) \in [D -> Int]
    BY RefInt
  <1>2. GetRef(XDecref(GetRef(r, f.code.id), f.code.id), EmptyTuple) \in [D -> Int]
    BY <1>1, RefInt
  <1>3. QED
    BY <1>1, <1>2 DEF AfterClassName

(* The references one kept frame takes in traceback_to_frames are all    *)
(* given back, except the leaked empty varnames tuple.                    *)
LEMMA TracebackRefsBalance ==
  ASSUME NEW D, NEW r \in [D -> Int], NEW f, f.code.id \in D, EmptyTuple \in D
  PROVE  /\ TracebackRefs(r, f) \in [D -> Int]
         /\ \A o \in D \ {EmptyTuple} : TracebackRefs(r, f)[o] = r[o]
  <1> DEFINE a == AfterClassName(r, f, py311)
  <1>1. a \in [D -> Int]
    BY AfterClassNameInt
  <1>2. \A o \in D \ {EmptyTuple} : a[o] = r[o]
    BY DEF AfterClassName, GetRef, XDecref
  <1>3. CASE py311
    <2>1. TracebackRefs(r, f) = XDecref(GetRef(a, f.code.id), f.code.id)
      BY <1>3 DEF TracebackRefs
    <2>2. XDecref(GetRef(a, f.code.id), f.code.id) \in [D -> Int]
      BY <1>1, RefInt
    <2>3. \A o \in D : XDecref(GetRef(a, f.code.id), f.code.id)[o] = a[o]
      BY <1>1 DEF GetRef, XDecref
    <2>4. QED
      BY <1>2, <2>1, <2>2, <2>3
  <1>4. CASE ~py311
    BY <1>4 DEF TracebackRefs
  <1>5. QED
    BY <1>3, <1>4

(* A code object of the chain is one of the counted objects.             *)
LEMMA ChainObjects ==
  ASSUME NEW c, NEW k \in DOMAIN c
  PROVE  /\ c[k].id \in Objects(c) /\ c[k].code.id \in Objects(c)
         /\ EmptyTuple \in Objects(c)
  BY DEF Objects

(* The counts are integers, and traceback_to_frames keeps every count    *)
(* but the empty tuple's at the one the owner holds, in every state.      *)
TbBalanced == fn = "traceback" => \A o \in Objects(chain) \ {EmptyTuple} : rc[o] = 1
RefIInv == IInv /\ rc \in [Objects(chain) -> Int] /\ TbBalanced

LEMMA InitRefIInv == Init => RefIInv
  BY InitIInv DEF Init, RefIInv, TbBalanced

LEMMA NextRefIInv == RefIInv /\ [Next]_vars => RefIInv'
  <1> SUFFICES ASSUME RefIInv, [Next]_vars PROVE RefIInv'
    OBVIOUS
  <1>1. IInv'
    BY NextIInv DEF RefIInv
  <1>2. /\ chain \in Seq(Frame(py311))
        /\ rc \in [Objects(chain) -> Int] /\ TbBalanced
        /\ i \in 1..Len(chain) + 1
    BY CallFacts DEF RefIInv, IInv, TypeOK
  <1>3. CASE TracebackStep
    <2>1. i \in DOMAIN chain /\ chain' = chain /\ fn' = fn /\ fn = "traceback"
      BY <1>2, <1>3 DEF TracebackStep
    <2>2. rc' = rc \/ rc' = TracebackRefs(rc, chain[i])
      BY <1>3 DEF TracebackStep
    <2>3. chain[i].code.id \in Objects(chain) /\ EmptyTuple \in Objects(chain)
      BY <2>1, ChainObjects
    <2>4. /\ TracebackRefs(rc, chain[i]) \in [Objects(chain) -> Int]
          /\ \A o \in Objects(chain) \ {EmptyTuple} : TracebackRefs(rc, chain[i])[o] = rc[o]
      BY <1>2, <2>3, TracebackRefsBalance
    <2>5. /\ rc' \in [Objects(chain) -> Int]
          /\ \A o \in Objects(chain) \ {EmptyTuple} : rc'[o] = rc[o]
      BY <1>2, <2>2, <2>4
    <2>6. QED
      BY <1>1, <1>2, <2>1, <2>5 DEF RefIInv, TbBalanced
  <1>4. CASE PyframeStep
    <2>1. /\ i \in DOMAIN chain /\ chain' = chain /\ fn' = fn /\ fn = "pyframe"
      BY <1>2, <1>4 DEF PyframeStep
    <2>2. rc' \in [Objects(chain) -> Int]
      <3> DEFINE D == Objects(chain)
                 kept == Len(frames) < maxN
                 r == IF kept THEN AfterClassName(rc, chain[i], py311) ELSE rc
      <3>1. /\ chain[i].id \in D /\ chain[i].code.id \in D /\ EmptyTuple \in D
            /\ i < Len(chain) => chain[i + 1].id \in D
        BY <1>2, <2>1, ChainObjects
      <3>2. r \in [D -> Int]
        BY <1>2, <3>1, AfterClassNameInt
      <3>3. PyframeRefs(r, i, kept) \in [D -> Int]
        BY <3>1, <3>2, RefInt DEF PyframeRefs
      <3>4. QED
        BY <1>4, <3>2, <3>3 DEF PyframeStep
    <2>3. QED
      BY <1>1, <2>1, <2>2 DEF RefIInv, TbBalanced
  <1>5. CASE Return \/ UNCHANGED vars
    BY <1>1, <1>2, <1>5 DEF Return, vars, RefIInv, TbBalanced
  <1>6. QED
    BY <1>3, <1>4, <1>5 DEF Next

(* On both compiled branches, every iteration of traceback_to_frames that *)
(* does not crash leaves each frame and code object of the chain with    *)
(* the one reference its owner holds, for every chain and max_nframes.   *)
THEOREM TracebackReleasesRefs == Spec => []TracebackRefsReleased
  <1>1. RefIInv => TracebackRefsReleased
    BY DEF RefIInv, TbBalanced, TracebackRefsReleased
  <1>2. QED
    BY InitRefIInv, NextRefIInv, <1>1, PTL DEF Spec

=============================================================================
