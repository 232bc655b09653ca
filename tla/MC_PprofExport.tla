--------------------------- MODULE MC_PprofExport ---------------------------
(* Model-checking instance of PprofExport: the events export may be      *)
(* given.  Frames are (filename, lineno, funcname) triples; two frames    *)
(* share a file, two share a function name in different files.            *)
EXTENDS PprofExport

F1 == <<"a.py", 10, "f">>
F2 == <<"a.py", 20, "g">>
F3 == <<"b.py", 10, "f">>

ExcType == [module |-> "builtins", name |-> "ValueError"]

StackEv(tid, name, span, type, res, frames, n, cpu) ==
  [thread_id |-> tid, thread_native_id |-> tid + 100, thread_name |-> name,
   task_id |-> None, task_name |-> None, trace_id |-> span, span_id |-> span,
   trace_resource |-> res, trace_type |-> type, frames |-> frames, nframes |-> n,
   cpu_time_ns |-> cpu, wall_time_ns |-> cpu + 1, sampling_period |-> 10 + cpu]

LockEv(lock, tid, span, type, res, frames, n, ns, pct) ==
  [lock_name |-> lock, thread_id |-> tid, thread_name |-> "main",
   trace_id |-> span, span_id |-> span, trace_resource |-> res,
   trace_type |-> type, frames |-> frames, nframes |-> n,
   wait_time_ns |-> ns, locked_for_ns |-> ns, sampling_pct |-> pct]

MCAcquireEvents ==
  { LockEv("lk", 1, 7, "web", "/r", <<F1>>, 1, 100, 50),
    LockEv("lk", 1, None, None, None, <<F1>>, 1, 40, 100) }

MCReleaseEvents == { LockEv("lk", 1, 7, "web", "/r", <<F2>>, 3, 30, 50) }

(* Two allocations of one thread at one stack, inside and outside a span. *)
MCAllocEvents ==
  { StackEv(1, "main", 7, "web", "/r", <<F1>>, 1, 0)
       @@ [capture_pct |-> 50, size |-> 64, nevents |-> 3],
    StackEv(1, "main", None, None, None, <<F1>>, 1, 0)
       @@ [capture_pct |-> 100, size |-> 32, nevents |-> 1] }

MCStackOnly == {StackEv(1, "main", 7, "web", "/r", <<F1, F2>>, 3, 5)}

(* The run of every loop of export: a web sample with an omitted frame  *)
(* and an anonymous thread outside any span, two lock acquisitions with  *)
(* different sampling ratios, and one event of each other class (a       *)
(* sequence may repeat it, so a group folds two samples).                 *)
MCStackPair ==
  { StackEv(1, "main", 7, "web", "/r", <<F1, F2>>, 3, 5),
    StackEv(2, None, None, None, None, <<F3>>, 1, 2) }
MCExcOne ==
  { [thread_id |-> 1, thread_native_id |-> 101, thread_name |-> "main",
     trace_id |-> 7, span_id |-> 7, frames |-> <<F2>>, nframes |-> 4,
     exc_type |-> ExcType] }
MCAllocOne ==
  { StackEv(1, "main", 7, "web", "/r", <<F1>>, 1, 0)
       @@ [capture_pct |-> 50, size |-> 64, nevents |-> 3] }
MCHeapOne ==
  { [thread_id |-> 1, thread_native_id |-> 101, thread_name |-> "main",
     frames |-> <<F1>>, nframes |-> 1, size |-> 64] }
=============================================================================
