---------------------------- MODULE PprofExport ----------------------------
(***************************************************************************)
(* PprofExporter.export and the _PprofConverter it drives, from            *)
(* src/ddtrace/profiling/exporter/pprof.pyx.                               *)
(*                                                                         *)
(* One call of export is modelled.  The events it is given are chosen in  *)
(* Init from small sets of event records, one set per event class.  The   *)
(* converter's state is the string table (the variables of StringTable)   *)
(* and the tables _functions, _locations and _location_values with the   *)
(* two id sequences.  One step is one converter call (one group, or one  *)
(* heap event), the end of one of export's loops, or _build_profile.      *)
(*                                                                         *)
(* itertools.groupby over the sorted events yields each group key once;  *)
(* the model converts the groups of a loop in any order (the sort order  *)
(* only decides which ids are handed out first), and _build_profile      *)
(* walks _location_values in an order of its choosing for the same      *)
(* reason.                                                                *)
(*                                                                         *)
(* The converter's table is a ListStringTable(), whose constructor as     *)
(* written raises AttributeError (see StringTable); the model starts from *)
(* the table the code means to build: {"": 0}, listing "".                *)
(***************************************************************************)
EXTENDS StringTable, SequencesExt, Integers, TLC

CONSTANTS
  StackEvents,    \* StackSampleEvent records export may be given
  AcquireEvents,  \* LockAcquireEvent records
  ReleaseEvents,  \* LockReleaseEvent records
  ExcEvents,      \* StackExceptionSampleEvent records
  AllocEvents,    \* MemoryAllocSampleEvent records
  HeapEvents,     \* MemoryHeapSampleEvent records
  MaxEvents,      \* bound: events of one class
  ProgramName,    \* config.get_application_name()
  Web             \* ext.SpanTypes.WEB.value

VARIABLES
  functions,       \* _functions: (filename, funcname) -> Function
  locations,       \* _locations: (filename, lineno, funcname) -> Location
  nextFuncId,      \* _last_func_id.next_id
  nextLocId,       \* _last_location_id.next_id
  locationValues,  \* _location_values: location key -> sample type -> value
  events,          \* export's argument: event class -> list of events
  memallocOn,      \* memalloc._memalloc
  phase,           \* which loop of export runs
  pending,         \* group keys of the running loop not converted yet
  heapIdx,         \* position in the heap event loop
  profile          \* the Profile export returns, once built

convVars == <<index, list, functions, locations, nextFuncId, nextLocId,
              locationValues>>
vars == <<convVars, error, events, memallocOn, phase, pending, heapIdx,
          profile>>

Classes == {"stack", "acquire", "release", "exception", "alloc", "heap"}
Universe == [c \in Classes |->
               CASE c = "stack" -> StackEvents [] c = "acquire" -> AcquireEvents
                 [] c = "release" -> ReleaseEvents [] c = "exception" -> ExcEvents
                 [] c = "alloc" -> AllocEvents [] c = "heap" -> HeapEvents]

-----------------------------------------------------------------------------
(* Text conversions.                                                       *)

(* str(x) of a str or None, and str(n) of an int (its decimal digits).   *)
Str(x) == IF x = None THEN "None" ELSE x
Digits(n) == ToString(n)

(* PprofExporter._none_to_str, of a str field and of an int field.       *)
NoneToStr(x) == IF x = None THEN "" ELSE x
NoneToDigits(n) == IF n = None THEN "" ELSE Digits(n)

(* PprofExporter._get_thread_name *)
ThreadName(tid, name) ==
  IF name = None THEN "Anonymous Thread " \o ToString(tid) ELSE name

(* The trace endpoint exported: trace_resource only for web spans.       *)
Endpoint(e) == IF e.trace_type = Web THEN NoneToStr(e.trace_resource) ELSE ""

(* exc_type.__module__ + "." + exc_type.__name__ *)
ExcTypeName(e) == e.exc_type.module \o "." \o e.exc_type.name

(* The funcname of the synthetic location for omitted frames.            *)
OmittedName(k) ==
  "<" \o ToString(k) \o " frame" \o (IF k > 1 THEN "s" ELSE "") \o " omitted>"

-----------------------------------------------------------------------------
(* The converter's state as one record, and the helpers that thread it.   *)

Conv == [index |-> index, list |-> list, functions |-> functions,
         locations |-> locations, nextFunc |-> nextFuncId,
         nextLoc |-> nextLocId, values |-> locationValues]

SetConv(c) ==
  /\ index' = c.index /\ list' = c.list
  /\ functions' = c.functions /\ locations' = c.locations
  /\ nextFuncId' = c.nextFunc /\ nextLocId' = c.nextLoc
  /\ locationValues' = c.values

(* self._str(s): the string table interns str(s).  A helper takes a     *)
(* converter state it reads several times as an argument, not a LET.      *)
WithTable(c, t) == [c EXCEPT !.index = t.index, !.list = t.list]

InternStr(c, s) == WithTable(c, Intern([index |-> c.index, list |-> c.list], Str(s)))

StrId(c, s) == IdOf([index |-> c.index, list |-> c.list], Str(s))

(* The Function record _to_Function stores, once its strings are in c.  *)
AddFunction(c, id, file, func) ==
  [c EXCEPT !.functions = @ @@ (<<file, func>> :> [id |-> id, name |-> StrId(c, func),
                                                   filename |-> StrId(c, file)])]

(* Mutant: _last_func_id.generate() without next_id += 1.               *)
ToFunctionNoNext(c, file, func) ==
  IF <<file, func>> \in DOMAIN c.functions THEN c
  ELSE AddFunction(InternStr(InternStr(c, func), file), c.nextFunc, file, func)

(* _to_Function: a new Function takes the next function id, then interns *)
(* funcname and filename, in the order of the keyword arguments.          *)
ToFunction(c, file, func) ==
  IF <<file, func>> \in DOMAIN c.functions THEN c
  ELSE AddFunction(InternStr(InternStr([c EXCEPT !.nextFunc = @ + 1], func), file),
                   c.nextFunc, file, func)

RealName(func) == IF func = None THEN "<unknown function>" ELSE func

(* The Location record _to_Location stores, once its Function is in c.   *)
AddLocation(c, id, file, line, func) ==
  [c EXCEPT !.locations =
     @ @@ (<<file, line, func>> :> [id |-> id, line |-> line,
                                    function_id |-> c.functions[<<file, RealName(func)>>].id])]

(* _to_Location: a new Location takes the next location id before its   *)
(* Function is looked up or made.                                          *)
ToLocation(c, file, line, func) ==
  IF <<file, line, func>> \in DOMAIN c.locations THEN c
  ELSE AddLocation(ToFunction([c EXCEPT !.nextLoc = @ + 1], file, RealName(func)),
                   c.nextLoc, file, line, func)

LocId(c, file, line, func) == c.locations[<<file, line, func>>].id

(* [converter, location ids] after the location of one frame.           *)
WithLocId(c, ids, file, line, func) ==
  [cv |-> c, ids |-> Append(ids, LocId(c, file, line, func))]

AddFrameLoc(acc, f) ==
  WithLocId(ToLocation(acc.cv, f[1], f[2], f[3]), acc.ids, f[1], f[2], f[3])

(* The synthetic location for the frames the collector did not keep.     *)
AddOmitted(r, omitted) ==
  IF omitted # 0
  THEN WithLocId(ToLocation(r.cv, "", 0, OmittedName(omitted)), r.ids,
                 "", 0, OmittedName(omitted))
  ELSE r

(* Mutant: omitted taken as nframes, the kept frames not subtracted.     *)
ToLocationsNoSubtract(c, frames, nframes) ==
  AddOmitted(FoldLeft(AddFrameLoc, [cv |-> c, ids |-> <<>>], frames), nframes)

(* _to_locations: one location per frame, then the synthetic one for the *)
(* frames the collector counted but did not keep.                          *)
ToLocations(c, frames, nframes) ==
  AddOmitted(FoldLeft(AddFrameLoc, [cv |-> c, ids |-> <<>>], frames), nframes - Len(frames))

SampleTypeNames ==
  {"cpu-samples", "cpu-time", "wall-time", "exception-samples",
   "lock-acquire", "lock-acquire-wait", "lock-release", "lock-release-hold",
   "alloc-samples", "alloc-space", "heap-space"}

(* self._location_values[key][ty] = v, and += v, on the nested          *)
(* defaultdicts (a missing value reads as 0).                              *)
SetValue(lv, key, ty, v) ==
  IF key \in DOMAIN lv THEN [lv EXCEPT ![key][ty] = v]
  ELSE lv @@ (key :> [t \in SampleTypeNames |-> IF t = ty THEN v ELSE 0])

AddValue(lv, key, ty, v) ==
  IF key \in DOMAIN lv THEN [lv EXCEPT ![key][ty] = @ + v]
  ELSE SetValue(lv, key, ty, v)

Sum(seq, fld) == FoldLeft(LAMBDA acc, e : acc + e[fld], 0, seq)

(* Python's round() of the rational a / b (b > 0): halves go to even.     *)
RoundHalfEven(a, b) ==
  LET q == a \div b
      r == a % b
  IN IF 2 * r > b \/ (2 * r = b /\ q % 2 = 1) THEN q + 1 ELSE q

-----------------------------------------------------------------------------
(* The converter's event methods.  Each builds a location key (the ids of *)
(* _to_locations and a tuple of labels) and writes its sample values.     *)

Key(r, labels) == <<r.ids, labels>>

(* convert_stack_event: the group key's fields become the labels.  Each *)
(* converter writes through a local write(r), r the result of             *)
(* _to_locations, so that r is computed once.                             *)
ConvertStackEvent(c, k, samples) ==
  LET write(r) ==
        LET key == Key(r, << <<"thread id", Digits(k[1])>>, <<"thread native id", Digits(k[2])>>,
                             <<"thread name", k[3]>>, <<"task id", k[4]>>,
                             <<"task name", k[5]>>, <<"trace id", k[6]>>,
                             <<"span id", k[7]>>, <<"trace endpoint", k[8]>>,
                             <<"trace type", k[9]>> >>)
        IN [r.cv EXCEPT !.values =
              SetValue(SetValue(SetValue(@, key, "cpu-samples", Len(samples)),
                                key, "cpu-time", Sum(samples, "cpu_time_ns")),
                       key, "wall-time", Sum(samples, "wall_time_ns"))]
  IN write(ToLocations(c, k[10], k[11]))

(* convert_memalloc_event: only the three thread fields become labels.   *)
(* alloc-space is round(total_alloc * sampling_ratio_avg *               *)
(* average_alloc_size), with the ratio and the average taken as exact    *)
(* rationals.                                                              *)
ConvertMemallocEvent(c, tid, native, name, frames, nframes, evs) ==
  LET n == Len(evs)
      space == RoundHalfEven(Sum(evs, "nevents") * Sum(evs, "capture_pct") * Sum(evs, "size"),
                             n * n * 100)
      write(r) ==
        LET key == Key(r, << <<"thread id", Digits(tid)>>, <<"thread native id", Digits(native)>>,
                             <<"thread name", name>> >>)
        IN [r.cv EXCEPT !.values = SetValue(SetValue(@, key, "alloc-samples", n),
                                            key, "alloc-space", space)]
  IN write(ToLocations(c, frames, nframes))

(* convert_memalloc_heap_event: heap-space accumulates (+=).             *)
ConvertMemallocHeapEvent(c, e) ==
  LET write(r) ==
        LET key == Key(r, << <<"thread id", Digits(e.thread_id)>>,
                             <<"thread native id", Digits(e.thread_native_id)>>,
                             <<"thread name", e.thread_name>> >>)
        IN [r.cv EXCEPT !.values = AddValue(@, key, "heap-space", e.size)]
  IN write(ToLocations(c, e.frames, e.nframes))

(* convert_lock_acquire_event and convert_lock_release_event: the same   *)
(* labels, a count and a time scaled by the class's average sampling     *)
(* ratio, int(sum / ratio) with ratio = pct / 100.                        *)
(* Mutant: the release method writes the acquire sample types.           *)
LockNamesCopied ==
  [acquire |-> <<"lock-acquire", "lock-acquire-wait", "wait_time_ns">>,
   release |-> <<"lock-acquire", "lock-acquire-wait", "locked_for_ns">>]

LockNames == [acquire |-> <<"lock-acquire", "lock-acquire-wait", "wait_time_ns">>,
              release |-> <<"lock-release", "lock-release-hold", "locked_for_ns">>]

ConvertLockEvent(cls, c, k, evs, pctSum, nAll) ==
  LET names == LockNames[cls]
      scaled == (Sum(evs, names[3]) * nAll * 100) \div pctSum
      write(r) ==
        LET key == Key(r, << <<"thread id", Digits(k[2])>>, <<"thread name", k[3]>>,
                             <<"trace id", k[4]>>, <<"span id", k[5]>>,
                             <<"trace endpoint", k[6]>>, <<"trace type", k[7]>>,
                             <<"lock name", k[1]>> >>)
        IN [r.cv EXCEPT !.values = SetValue(SetValue(@, key, names[1], Len(evs)),
                                            key, names[2], scaled)]
  IN write(ToLocations(c, k[8], k[9]))

(* convert_stack_exception_event *)
ConvertStackExceptionEvent(c, k, evs) ==
  LET write(r) ==
        LET key == Key(r, << <<"thread id", Digits(k[1])>>, <<"thread native id", Digits(k[2])>>,
                             <<"thread name", k[3]>>, <<"trace id", k[4]>>,
                             <<"span id", k[5]>>, <<"exception type", k[8]>> >>)
        IN [r.cv EXCEPT !.values = SetValue(@, key, "exception-samples", Len(evs))]
  IN write(ToLocations(c, k[6], k[7]))

-----------------------------------------------------------------------------
(* The exporter's group keys.                                              *)

(* _stack_event_group_key (used for stack and memalloc events) *)
StackGroupKey(e) ==
  << e.thread_id, e.thread_native_id, ThreadName(e.thread_id, e.thread_name),
     NoneToDigits(e.task_id), NoneToStr(e.task_name), NoneToDigits(e.trace_id),
     NoneToDigits(e.span_id), Endpoint(e), NoneToStr(e.trace_type),
     e.frames, e.nframes >>

(* _lock_event_group_key *)
LockGroupKey(e) ==
  << e.lock_name, e.thread_id, ThreadName(e.thread_id, e.thread_name),
     NoneToDigits(e.trace_id), NoneToDigits(e.span_id), Endpoint(e),
     NoneToStr(e.trace_type), e.frames, e.nframes >>

(* _stack_exception_group_key *)
ExceptionGroupKey(e) ==
  << e.thread_id, e.thread_native_id, ThreadName(e.thread_id, e.thread_name),
     NoneToDigits(e.trace_id), NoneToDigits(e.span_id), e.frames, e.nframes,
     ExcTypeName(e) >>

GroupKey(cls, e) ==
  CASE cls \in {"stack", "alloc"} -> StackGroupKey(e)
    [] cls \in {"acquire", "release"} -> LockGroupKey(e)
    [] cls = "exception" -> ExceptionGroupKey(e)

(* The keys itertools.groupby yields over the sorted events of a class,  *)
(* and the group of one key (the events keep their list order).          *)
GroupKeys(cls) == {GroupKey(cls, events[cls][i]) : i \in DOMAIN events[cls]}

Group(cls, k) == SelectSeq(events[cls], LAMBDA e : GroupKey(cls, e) = k)

-----------------------------------------------------------------------------
(* export                                                                  *)

NoProfile == None

(* Line 478-481 and 596-599: the period is the mean sampling_period of   *)
(* the stack events (int() of a non-negative quotient), None without one. *)
Period ==
  IF events["stack"] = <<>> THEN None
  ELSE Sum(events["stack"], "sampling_period") \div Len(events["stack"])

(* sample_types, in export's order.                                       *)
SampleTypes ==
  << <<"cpu-samples", "count">>, <<"cpu-time", "nanoseconds">>,
     <<"wall-time", "nanoseconds">>, <<"exception-samples", "count">>,
     <<"lock-acquire", "count">>, <<"lock-acquire-wait", "nanoseconds">>,
     <<"lock-release", "count">>, <<"lock-release-hold", "nanoseconds">>,
     <<"alloc-samples", "count">>, <<"alloc-space", "bytes">>,
     <<"heap-space", "bytes">> >>

(* The loops of export, in order; the memalloc loops run only when the   *)
(* memalloc extension is loaded.                                           *)
PhaseAfter(p) ==
  CASE p = "stack" -> "acquire"
    [] p = "acquire" -> "release"
    [] p = "release" -> "exception"
    [] p = "exception" -> IF memallocOn THEN "alloc" ELSE "build"
    [] p = "alloc" -> "heap"
    [] p = "heap" -> "build"

GroupedPhases == {"stack", "acquire", "release", "exception", "alloc"}

Init ==
  /\ StringTableInit
  /\ functions = <<>> /\ locations = <<>> /\ locationValues = <<>>
  /\ nextFuncId = 1 /\ nextLocId = 1
  /\ \E s \in BoundedSeq(StackEvents, MaxEvents), a \in BoundedSeq(AcquireEvents, MaxEvents),
        r \in BoundedSeq(ReleaseEvents, MaxEvents), x \in BoundedSeq(ExcEvents, MaxEvents),
        m \in BoundedSeq(AllocEvents, MaxEvents), h \in BoundedSeq(HeapEvents, MaxEvents) :
       events = [c \in Classes |->
                   CASE c = "stack" -> s [] c = "acquire" -> a [] c = "release" -> r
                     [] c = "exception" -> x [] c = "alloc" -> m [] c = "heap" -> h]
  /\ memallocOn \in BOOLEAN
  /\ phase = "stack"
  /\ pending = GroupKeys("stack")
  /\ heapIdx = 1
  /\ profile = NoProfile

(* One convert_stack_event call, for one group of stack events.          *)
ConvertStackGroup ==
  /\ phase = "stack"
  /\ \E k \in pending :
       /\ SetConv(ConvertStackEvent(Conv, k, Group("stack", k)))
       /\ pending' = pending \ {k}
  /\ UNCHANGED <<error, events, memallocOn, phase, heapIdx, profile>>

(* One convert_lock_acquire_event / convert_lock_release_event call,    *)
(* with the class's sampling_ratio_avg.                                   *)
ConvertLockGroup ==
  /\ phase \in {"acquire", "release"}
  /\ \E k \in pending :
       /\ SetConv(ConvertLockEvent(phase, Conv, k, Group(phase, k),
                                   Sum(events[phase], "sampling_pct"),
                                   Len(events[phase])))
       /\ pending' = pending \ {k}
  /\ UNCHANGED <<error, events, memallocOn, phase, heapIdx, profile>>

(* One convert_stack_exception_event call.                               *)
ConvertExceptionGroup ==
  /\ phase = "exception"
  /\ \E k \in pending :
       /\ SetConv(ConvertStackExceptionEvent(Conv, k, Group("exception", k)))
       /\ pending' = pending \ {k}
  /\ UNCHANGED <<error, events, memallocOn, phase, heapIdx, profile>>

(* One convert_memalloc_event call, for a group of the stack key.        *)
ConvertAllocGroup ==
  /\ phase = "alloc"
  /\ \E k \in pending :
       /\ SetConv(ConvertMemallocEvent(Conv, k[1], k[2], k[3], k[10], k[11],
                                       Group("alloc", k)))
       /\ pending' = pending \ {k}
  /\ UNCHANGED <<error, events, memallocOn, phase, heapIdx, profile>>

(* One convert_memalloc_heap_event call: heap events are not grouped.    *)
ConvertHeapEvent ==
  /\ phase = "heap"
  /\ heapIdx <= Len(events["heap"])
  /\ SetConv(ConvertMemallocHeapEvent(Conv, events["heap"][heapIdx]))
  /\ heapIdx' = heapIdx + 1
  /\ UNCHANGED <<error, events, memallocOn, phase, pending, profile>>

(* Mutant: the next loop starts on the keys of the loop that ended.      *)
EndLoopStaleKeys ==
  /\ phase \notin {"build", "done"}
  /\ pending = {}
  /\ phase = "heap" => heapIdx > Len(events["heap"])
  /\ phase' = PhaseAfter(phase)
  /\ pending' = IF phase \in GroupedPhases THEN GroupKeys(phase) ELSE {}
  /\ UNCHANGED <<convVars, error, events, memallocOn, heapIdx, profile>>

(* A loop of export ends; the next one starts on its groups.             *)
EndLoop ==
  /\ phase \notin {"build", "done"}
  /\ pending = {}
  /\ phase = "heap" => heapIdx > Len(events["heap"])
  /\ LET p == PhaseAfter(phase)
     IN /\ phase' = p
        /\ pending' = IF p \in GroupedPhases THEN GroupKeys(p) ELSE {}
  /\ UNCHANGED <<convVars, error, events, memallocOn, heapIdx, profile>>

(* self._str(s) for each s of strs, in order, as one table update: the  *)
(* strings not yet interned, at their first occurrence, get the next ids *)
(* and are appended to _list (what the calls do one by one).             *)
InternSeq(c, strs) ==
  LET str == [i \in DOMAIN strs |-> Str(strs[i])]
      isNew(p) == p[2] \notin DOMAIN c.index /\ \A j \in 1..(p[1] - 1) : str[j] # p[2]
      newPairs == SelectSeq([i \in DOMAIN str |-> <<i, str[i]>>], isNew)
      new == [k \in DOMAIN newPairs |-> newPairs[k][2]]
  IN [c EXCEPT !.list = @ \o new,
               !.index = @ @@ [x \in Range(new) |->
                                 TableLen(c.index) + (CHOOSE k \in DOMAIN new : new[k] = x) - 1]]

(* The strings _build_profile interns before the period type: each sample *)
(* type's name and unit, then each label's key and str of every sample.  *)
ProfileStrings ==
  FlattenSeq(SampleTypes)
    \o FoldSet(LAMBDA key, acc : acc \o FlattenSeq(key[2]), <<>>, DOMAIN locationValues)

(* The Profile _build_profile returns, for the converter c after all of  *)
(* its _str calls and the string table st.                                *)
MakeProfile(c, st) ==
  LET sample(key) ==
        [location_id |-> key[1],
         value |-> [i \in DOMAIN SampleTypes |-> locationValues[key][SampleTypes[i][1]]],
         label |-> [j \in DOMAIN key[2] |->
                      [key |-> StrId(c, key[2][j][1]), str |-> StrId(c, key[2][j][2])]]]
  IN [sample_type |-> [i \in DOMAIN SampleTypes |->
                         [type |-> StrId(c, SampleTypes[i][1]),
                          unit |-> StrId(c, SampleTypes[i][2])]],
      sample |-> {sample(key) : key \in DOMAIN locationValues},
      mapping |-> [id |-> 1, filename |-> StrId(c, ProgramName)],
      location |-> Range(c.locations),
      function |-> Range(c.functions),
      string_table |-> st,
      period |-> Period,
      period_type |-> [type |-> StrId(c, "time"), unit |-> StrId(c, "nanoseconds")]]

(* export's result: the converter state c and the Profile built from it. *)
EmitProfile(c, st) ==
  /\ SetConv(c)
  /\ profile' = MakeProfile(c, st)

(* Mutant: string_table taken before the mapping's _str(program_name).   *)
BuildProfileEarlyTable ==
  /\ phase = "build"
  /\ LET c3 == InternSeq(Conv, ProfileStrings \o <<"time", "nanoseconds">>)
     IN EmitProfile(InternStr(c3, ProgramName), c3.list)
  /\ phase' = "done"
  /\ UNCHANGED <<error, events, memallocOn, pending, heapIdx>>

(* _build_profile: intern the sample types, then each sample's labels,    *)
(* then the period type, then the program name for the mapping; the      *)
(* string_table keyword argument is evaluated last, after all of these.  *)
(* An id never changes once given, so every id is read from the final     *)
(* table.                                                                  *)
BuildProfile ==
  /\ phase = "build"
  /\ LET c4 == InternSeq(Conv, ProfileStrings \o <<"time", "nanoseconds", ProgramName>>)
     IN EmitProfile(c4, c4.list)
  /\ phase' = "done"
  /\ UNCHANGED <<error, events, memallocOn, pending, heapIdx>>

Next ==
  \/ ConvertStackGroup \/ ConvertLockGroup \/ ConvertExceptionGroup
  \/ ConvertAllocGroup \/ ConvertHeapEvent \/ EndLoop \/ BuildProfile

Spec == Init /\ [][Next]_vars

-----------------------------------------------------------------------------
(* Properties                                                              *)

PhaseTypeOK ==
  /\ phase \in GroupedPhases \cup {"heap", "build", "done"}
  /\ nextFuncId \in Nat \ {0} /\ nextLocId \in Nat \ {0}
  /\ heapIdx \in 1..(MaxEvents + 1)
  /\ phase \in GroupedPhases => pending \subseteq GroupKeys(phase)

(* The converter's tables stay consistent through every call: the string *)
(* ids are positions in the string list; the Functions and the Locations *)
(* carry the distinct ids 1..next_id-1 of their sequences; a Location's  *)
(* function_id names a Function, and the Function's name and filename    *)
(* ids spell the funcname and filename it was made for.                   *)
TablesConsistent ==
  /\ IdsMatchList
  /\ {functions[k].id : k \in DOMAIN functions} = 1..(nextFuncId - 1)
  /\ Cardinality(DOMAIN functions) = nextFuncId - 1
  /\ {locations[k].id : k \in DOMAIN locations} = 1..(nextLocId - 1)
  /\ Cardinality(DOMAIN locations) = nextLocId - 1
  /\ \A k \in DOMAIN functions :
       /\ functions[k].name < Len(list) /\ list[functions[k].name + 1] = Str(k[2])
       /\ functions[k].filename < Len(list) /\ list[functions[k].filename + 1] = Str(k[1])
  /\ \A k \in DOMAIN locations :
       \E f \in DOMAIN functions :
         /\ functions[f].id = locations[k].function_id
         /\ f[1] = k[1]

(* Every string id a profile holds. *)
StringIds(p) ==
  {p.sample_type[i].type : i \in DOMAIN p.sample_type}
  \cup {p.sample_type[i].unit : i \in DOMAIN p.sample_type}
  \cup UNION {{s.label[j].key : j \in DOMAIN s.label} \cup {s.label[j].str : j \in DOMAIN s.label}
                : s \in p.sample}
  \cup {p.mapping.filename, p.period_type.type, p.period_type.unit}
  \cup {f.name : f \in p.function} \cup {f.filename : f \in p.function}

(* The profile export returns is self-contained (spec section 8): every  *)
(* location id of a sample is the id of an emitted Location, every       *)
(* Location's function_id that of an emitted Function, ids are unique,   *)
(* every string id anywhere is an index of the emitted string_table, and *)
(* the mapping's filename id spells the program name.  The string_table  *)
(* is taken from the table after the last _str of _build_profile.        *)
ProfileWellFormed ==
  phase = "done" =>
    LET p == profile IN
    /\ \A s \in p.sample : \A i \in DOMAIN s.location_id :
         \E l \in p.location : l.id = s.location_id[i]
    /\ \A l \in p.location : \E f \in p.function : f.id = l.function_id
    /\ \A l1, l2 \in p.location : l1.id = l2.id => l1 = l2
    /\ \A f1, f2 \in p.function : f1.id = f2.id => f1 = f2
    /\ \A x \in StringIds(p) : x < Len(p.string_table)
    /\ p.string_table[p.mapping.filename + 1] = ProgramName

(* The sum of one sample type's values over the emitted samples.         *)
SampleTotal(name) ==
  LET i == CHOOSE i \in DOMAIN SampleTypes : SampleTypes[i][1] = name
  IN MapThenSumSet(LAMBDA s : s.value[i], profile.sample)

(* No event is lost or counted twice between the exporter's grouping and *)
(* the converter's location keys: the emitted cpu-samples, lock counts   *)
(* and exception-samples add up to the number of events export was given *)
(* and the times to their sums, and heap-space to the heap events' sizes. *)
(* It fails if two groups of one loop land on one location key, where    *)
(* the second convert call overwrites what the first assigned.            *)
EventsAccounted ==
  phase = "done" =>
    /\ SampleTotal("cpu-samples") = Len(events["stack"])
    /\ SampleTotal("cpu-time") = Sum(events["stack"], "cpu_time_ns")
    /\ SampleTotal("wall-time") = Sum(events["stack"], "wall_time_ns")
    /\ SampleTotal("lock-acquire") = Len(events["acquire"])
    /\ SampleTotal("lock-release") = Len(events["release"])
    /\ SampleTotal("exception-samples") = Len(events["exception"])
    /\ SampleTotal("heap-space") = IF memallocOn THEN Sum(events["heap"], "size") ELSE 0

(* The same for memory allocation events (spec 4.7: group, then one      *)
(* convert call per group): alloc-samples adds up to their number.        *)
AllocEventsAccounted ==
  phase = "done" =>
    SampleTotal("alloc-samples") = IF memallocOn THEN Len(events["alloc"]) ELSE 0

(* The funcname a location id of profile p resolves to, through the      *)
(* Location's function_id, the Function's name id and the string_table.  *)
FuncNameOf(p, lid) ==
  LET l == CHOOSE l \in p.location : l.id = lid
      f == CHOOSE f \in p.function : f.id = l.function_id
  IN p.string_table[f.name + 1]

(* The funcnames a sample of event e must carry: one per kept frame, then *)
(* '<K frames omitted>' with K the frames the collector counted but did  *)
(* not keep.                                                               *)
ExpectedNames(e) ==
  [i \in DOMAIN e.frames |-> RealName(e.frames[i][3])]
    \o (IF e.nframes > Len(e.frames) THEN <<OmittedName(e.nframes - Len(e.frames))>>
        ELSE <<>>)

(* The classes whose events reach the profile. *)
Exported == IF memallocOn THEN Classes ELSE Classes \ {"alloc", "heap"}

(* Every event's stack survives export (spec 4.5, _to_locations): some    *)
(* sample's location ids resolve, through the emitted Locations,         *)
(* Functions and string_table, to the event's funcnames in order, ending *)
(* with '<K frames omitted>' for the right K exactly when nframes exceeds *)
(* the frames kept.  It fails if the converter miscounts the omitted      *)
(* frames, drops or adds the synthetic location, or an id of one table    *)
(* points at the wrong entry of another.                                  *)
StacksRecorded ==
  phase = "done" =>
    \A c \in Exported : \A i \in DOMAIN events[c] :
      \E s \in profile.sample :
        /\ Len(s.location_id) = Len(ExpectedNames(events[c][i]))
        /\ \A j \in DOMAIN s.location_id :
             FuncNameOf(profile, s.location_id[j]) = ExpectedNames(events[c][i])[j]


=============================================================================
