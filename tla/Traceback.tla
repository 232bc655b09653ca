----------------------------- MODULE Traceback -----------------------------
(***************************************************************************)
(* The traceback helpers of ddtrace/profiling/collector/_traceback.pyx:   *)
(* traceback_to_frames and pyframe_to_frames walk a chain of frames and   *)
(* return (frames, nframes), and _extract_class_name names the class of a  *)
(* frame's first argument.                                                 *)
(*                                                                         *)
(* One call is modelled, one loop iteration per step.  The chain is a     *)
(* sequence of frame records: for traceback_to_frames in tb_next order    *)
(* (outermost first), for pyframe_to_frames in f_back order (innermost    *)
(* first).  Py311 selects the compile-time branch for CPython >= 3.11,    *)
(* where the code handles references by hand; rc counts the references   *)
(* to every frame and code object, starting from the one its owner (the  *)
(* running interpreter frame) holds.                                       *)
(***************************************************************************)
EXTENDS Integers, Sequences, SequencesExt

CONSTANTS
  Chains,     \* [version -> the frame chains a call may get]
  MaxNFrames, \* the values of max_nframes
  Versions,   \* subset of BOOLEAN: TRUE is the >= 3.11 branch
  Funcs,      \* subset of {"traceback", "pyframe"}
  None,       \* Python's None
  EmptyTuple  \* the shared () that PyCode_GetVarnames returns for no names

(* A frame record: id, code (its code object: [id, file, name]), lineno,      *)
(* argname (co_varnames[0], or "" when co_varnames is empty), inLocals   *)
(* (whether f_locals holds argname) and cls (the __name__ the self/cls   *)
(* lookup finds, None when there is none).  The line number is the int   *)
(* PyFrame_GetLineNumber returns on >= 3.11 (-1 or 0 for a frame with    *)
(* no line yet), and frame.f_lineno before, a line number or None.        *)
LineNos(v311) == IF v311 THEN Int ELSE {None} \cup Nat
Frame(v311) ==
  [id : STRING, code : [id : STRING, file : STRING, name : STRING],
   lineno : LineNos(v311), argname : STRING, inLocals : BOOLEAN,
   cls : {None} \cup STRING]

ASSUME CallAssumption ==
  /\ Versions \subseteq BOOLEAN
  /\ Funcs \subseteq {"traceback", "pyframe"}
  /\ MaxNFrames \subseteq Nat
ASSUME ChainsAssumption == \A v \in Versions : Chains[v] \subseteq Seq(Frame(v))

VARIABLES
  fn,      \* the helper called
  py311,   \* the compiled branch
  chain,   \* the chain it walks
  maxN,    \* max_nframes
  i,       \* position of tb / pyframe in chain; Len(chain) + 1 is None/NULL
  frames,  \* the frames list
  nframes, \* the nframes counter
  rc,      \* reference counts of the frames, codes and EmptyTuple
  pc       \* "loop", "done" (returned) or "crashed"

vars == <<fn, py311, chain, maxN, i, frames, nframes, rc, pc>>

Objects(c) == {c[k].id : k \in DOMAIN c} \cup {c[k].code.id : k \in DOMAIN c}
                \cup {EmptyTuple}

(* _extract_class_name(frame): [name |-> the result, crash |-> whether   *)
(* it dereferences NULL, empty |-> whether it leaks a reference to ()].  *)
(* On >= 3.11, PyDict_GetItem returns NULL for a missing key and raises *)
(* no KeyError, so <object>value is NULL when argname is self or cls.    *)
ExtractClassName(f, v311) ==
  LET missing == ~f.inLocals
      named == IF f.argname = "self" \/ f.argname = "cls"
               THEN IF f.cls = None THEN "" ELSE f.cls
               ELSE ""
  IN [name  |-> IF f.argname = "" \/ missing THEN "" ELSE named,
      crash |-> v311 /\ f.argname # "" /\ missing /\ f.argname \in {"self", "cls"},
      empty |-> v311 /\ f.argname = ""]

(* Mutant: the None test of the older branch applied to the int that    *)
(* PyFrame_GetLineNumber returns (as src/unnamed/part_001 line 77 does).  *)
LineNoIsNone(f, v311) == IF f.lineno = None THEN 0 ELSE f.lineno

(* The lineno a frame gets: <= 0 becomes 0 on >= 3.11, None becomes 0   *)
(* before.                                                                 *)
LineNo(f, v311) ==
  IF v311 THEN (IF f.lineno <= 0 THEN 0 ELSE f.lineno)
  ELSE (IF f.lineno = None THEN 0 ELSE f.lineno)

FrameTuple(f, v311) ==
  <<f.code.file, LineNo(f, v311), f.code.name, ExtractClassName(f, v311).name>>

(* A C-API call that returns a new (strong) reference to o, and          *)
(* Py_XDECREF(o).                                                          *)
GetRef(r, o) == [r EXCEPT ![o] = @ + 1]

XDecref(r, o) == [r EXCEPT ![o] = @ - 1]

(* rc after _extract_class_name on >= 3.11: code (line 30) is released   *)
(* on both paths; co_varnames (line 31) is released at line 37 but not   *)
(* on the early return at lines 32-34, which for no names leaks a         *)
(* reference to (); f_locals is released at line 41.                      *)
AfterClassName(r, f, v311) ==
  IF ~v311 THEN r
  ELSE LET r1 == XDecref(GetRef(r, f.code.id), f.code.id)
       IN IF ExtractClassName(f, v311).empty THEN GetRef(r1, EmptyTuple) ELSE r1

Init ==
  /\ fn \in Funcs
  /\ py311 \in Versions
  /\ chain \in Chains[py311]
  /\ maxN \in MaxNFrames
  /\ i = 1
  /\ frames = <<>>
  /\ nframes = 0
  /\ rc = [o \in Objects(chain) |-> 1]
  /\ pc = "loop"

(* Mutant: a frame is kept while nframes <= max_nframes.                 *)
(* Mutant: the Py_XDECREF of the code object at line 82 left out.        *)
TracebackRefsNoDecref(r, f) ==
  IF py311 THEN GetRef(AfterClassName(r, f, py311), f.code.id) ELSE r

(* The references a kept frame takes and drops on >= 3.11: the code from *)
(* PyFrame_GetCode, _extract_class_name's own, and the Py_XDECREF.        *)
TracebackRefs(r, f) ==
  IF py311 THEN XDecref(GetRef(AfterClassName(r, f, py311), f.code.id), f.code.id)
  ELSE r

KeepTbLe(n, m) == n <= m

(* Line 74: traceback_to_frames keeps the frame while nframes < max.     *)
KeepTb(n, m) == n < m

(* One iteration of traceback_to_frames's while loop (lines 73-88): a    *)
(* kept frame is inserted at the front; on >= 3.11 the code reference    *)
(* PyFrame_GetCode returns is released at line 82.                        *)
TracebackStep ==
  /\ fn = "traceback" /\ pc = "loop"
  /\ i <= Len(chain)
  /\ LET f == chain[i]
         cn == ExtractClassName(f, py311)
     IN IF KeepTb(nframes, maxN)
        THEN /\ pc' = IF cn.crash THEN "crashed" ELSE "loop"
             /\ frames' = <<FrameTuple(f, py311)>> \o frames
             /\ rc' = TracebackRefs(rc, f)
        ELSE UNCHANGED <<pc, frames, rc>>
  /\ nframes' = nframes + 1
  /\ i' = i + 1
  /\ UNCHANGED <<fn, py311, chain, maxN>>

(* rc after the frame and code references of one pyframe_to_frames       *)
(* iteration on >= 3.11: PyFrame_GetCode's reference is stored through   *)
(* <object> and never released (line 106), pyframe is released (line     *)
(* 110) and PyFrame_GetBack returns a new reference to the next frame.   *)
PyframeRefs(r, k, kept) ==
  LET r1 == IF kept THEN GetRef(r, chain[k].code.id) ELSE r
      r2 == XDecref(r1, chain[k].id)
  IN IF k < Len(chain) THEN GetRef(r2, chain[k + 1].id) ELSE r2

(* One iteration of pyframe_to_frames's while loop (lines 103-111 and    *)
(* 113-119): count the frame, append it while fewer than max_nframes    *)
(* are kept, go to the caller's frame.                                    *)
PyframeStep ==
  /\ fn = "pyframe" /\ pc = "loop"
  /\ i <= Len(chain)
  /\ LET f == chain[i]
         cn == ExtractClassName(f, py311)
         kept == Len(frames) < maxN
         r == IF kept THEN AfterClassName(rc, f, py311) ELSE rc
     IN /\ frames' = IF kept THEN Append(frames, FrameTuple(f, py311)) ELSE frames
        /\ pc' = IF kept /\ cn.crash THEN "crashed" ELSE "loop"
        /\ rc' = IF py311 /\ ~(kept /\ cn.crash) THEN PyframeRefs(r, i, kept) ELSE r
  /\ nframes' = nframes + 1
  /\ i' = i + 1
  /\ UNCHANGED <<fn, py311, chain, maxN>>

(* The loop ends at tb None / a NULL frame and the call returns.          *)
Return ==
  /\ pc = "loop"
  /\ i > Len(chain)
  /\ pc' = "done"
  /\ UNCHANGED <<fn, py311, chain, maxN, i, frames, nframes, rc>>

Next == TracebackStep \/ PyframeStep \/ Return

Spec == Init /\ [][Next]_vars

-----------------------------------------------------------------------------
(* Properties                                                              *)

TypeOK ==
  /\ fn \in Funcs /\ py311 \in BOOLEAN /\ pc \in {"loop", "done", "crashed"}
  /\ i \in 1..(Len(chain) + 1)
  /\ nframes \in Nat /\ Len(frames) <= nframes /\ Len(frames) <= maxN
  /\ DOMAIN rc = Objects(chain)

(* The frames the docstrings promise, by a direct definition: nframes is *)
(* the length of the whole chain and at most max_nframes frames are      *)
(* kept.  traceback_to_frames keeps the first (outermost) ones and        *)
(* returns them innermost first; pyframe_to_frames keeps the innermost.  *)
Expected(f, c, m, v311) ==
  LET kept == SubSeq(c, 1, IF m < Len(c) THEN m ELSE Len(c))
      tuples == [k \in DOMAIN kept |-> FrameTuple(kept[k], v311)]
  IN IF f = "traceback" THEN Reverse(tuples) ELSE tuples

(* When a helper returns, its (frames, nframes) are the ones above: each *)
(* kept frame is a (filename, lineno, name, class) tuple with lineno      *)
(* normalised to a non-negative int, in the order its caller expects.    *)
FramesAsDocumented ==
  pc = "done" =>
    /\ nframes = Len(chain)
    /\ frames = Expected(fn, chain, maxN, py311)
    /\ \A k \in DOMAIN frames : frames[k][2] >= 0

(* When a helper returns, every frame and code object has the references *)
(* it had at the call: each strong reference the code takes (the         *)
(* "Returns strong reference" comments at lines 30 and 39) is released,  *)
(* and nothing it only borrowed is released.                              *)
RefsBalanced ==
  pc = "done" => \A o \in Objects(chain) \ {EmptyTuple} : rc[o] = 1

(* _extract_class_name never crashes: a first argument missing from the *)
(* frame's locals gives "" (the except KeyError at lines 42-43).          *)
ClassNameNoCrash == pc # "crashed"

(* traceback_to_frames gives back every reference it takes: after every  *)
(* iteration that did not crash, every frame and code object of the      *)
(* chain has the one reference its owner holds.  The code object from    *)
(* PyFrame_GetCode is a new reference that the <object> cast does not     *)
(* steal, so line 82 must release it.  (The empty varnames tuple is left  *)
(* out: _extract_class_name leaks it, see the hazard at line 34.)        *)
TracebackRefsReleased ==
  fn = "traceback" /\ pc # "crashed" =>
    \A o \in Objects(chain) \ {EmptyTuple} : rc[o] = 1

=============================================================================
