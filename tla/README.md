# TLA+ models of the ddtrace encoding core

This directory holds TLA+ models of the trace encoders and the profile exporter in this repository. It contains the modules, the TLC configurations that check them and the TLAPS proofs about them. All source references point at files under `src/`:

- `src/unnamed/part_000` is `ddtrace/internal/_encoding.pyx`: the msgpack pack helpers, the string tables, `MsgpackEncoder` and its V03 and V05 dialects, and the crashtracker setters.
- `src/ddtrace/profiling/collector/_traceback.pyx` holds the traceback helpers; `src/unnamed/part_001` is an older copy of them.
- `src/ddtrace/profiling/exporter/pprof.pyx` holds `_PprofConverter` and `PprofExporter`.

## 1. The system

| Part | Code | State | Operations |
|---|---|---|---|
| Pack primitives | part_000:184-296 | none of their own; they write into a `msgpack_packer` (`buf`, `length`) | `msgpack_pack_*`, `pack_number`, `pack_text`, `array_prefix_size` |
| StringTable / ListStringTable | part_000:299-343 | `_index` dict, `_list` | `index`, `insert`, `reset` |
| MsgpackStringTable | part_000:346-415 | its own packer, `_sp`, `_lock` | `insert`, `savepoint`, `rollback`, `get_bytes`, `append_raw`, `flush` |
| MsgpackEncoder (base) | part_000:426-548 | `pk.buf`, `pk.length`, `_count`, `_lock`, `max_size`, `max_item_size` | `put` (`_pack_trace`), `size`, `encode`, `_update_array_len`, `get_bytes`, `get_buffer` |
| MsgpackEncoderV03 | part_000:551-689 | (base state) | `flush`, `pack_span` (a map per span) |
| MsgpackEncoderV05 | part_000:692-772 | base state plus `_st` (a MsgpackStringTable) | `put` with string-table savepoint and rollback, `flush` through `append_raw`, `pack_span` (12 fields, strings as ids) |
| _PprofConverter | pprof.pyx:55-308 | `_functions`, `_locations`, `_string_table`, two id sequences, `_location_values` | `convert_*_event`, `_to_Location`, `_to_Function`, `_build_profile` |
| PprofExporter | pprof.pyx:324-622 | none (one converter per `export`) | grouping of events by key, sampling ratios, period |
| Traceback helpers | _traceback.pyx:1-120 | none of their own; on CPython >= 3.11 they take and release references to frames and code objects by hand | `traceback_to_frames`, `pyframe_to_frames`, `_extract_class_name` |
| Crashtracker setters, CI script | part_000:1-180, .circleci/run_test.sh | kept in a C++ library that is not in this repository | not modelled |

How the parts interact:

- Producers call `put(trace)` on one encoder from several Python threads.
- A single consumer calls `encode()`.
- `put` packs the trace into `pk.buf` after a 5-byte reserved prefix. It checks the size and either counts the trace or rewinds `pk.length`.
- `encode` patches the msgpack array header for `_count` into the prefix, at `5 - array_prefix_size(_count)`. It then returns the bytes from that offset and resets the buffer.
- V05 also interns every string in a `MsgpackStringTable`. At flush it glues the payload onto the table.
- The stack and lock collectors turn frames into `(frames, nframes)` with the traceback helpers and record events.
- The pprof exporter groups recorded events and feeds each group to a converter. The converter interns strings, functions and locations in a `ListStringTable` and emits the table as the profile's `string_table`.

What makes the code hard is its concurrency, and it is Cython code under the GIL. A thread runs without interruption until it executes Python code or blocks on `threading.Lock`. A thread blocked on the lock acquires it without the GIL when it is released, and then runs as soon as it gets the GIL back. `put` takes `self._lock` only around the span loop, at part_000:502. The trace header (part_000:494), the size checks and the rollback (525-535) all run outside that lock. `encode` reads `_count` and `pk.length` before it blocks on the lock (part_000:467-470). It then takes the lock twice: once in `_update_array_len` to patch the header (470-474), and again in `get_bytes` to copy the bytes (479). Between the two only a thread already blocked on the lock can run.

## 2. Modules

- **`MsgpackPack`** holds the byte-level vocabulary.
  - Abstract bytes: `Junk` (uninitialised memory from `PyMem_Malloc`), array header bytes `ArrByte(n)`/`Cont`, and a span byte `SpanByte(trace, idx)`.
  - `ArrayPrefixSize` is `array_prefix_size`, taken from the source, `2<<16` included.
  - `ArrayHeaderLen` and `ArrayHeader` are the header `msgpack_pack_array` writes. pack.h is not under `src/`, so these come from the msgpack format in the spec.
  - `WriteAt` is a pack.h write at `pk.length`. `Slice` is `PyBytes_FromStringAndSize(buf + off, len - off)`.
- **`MsgpackEncoder`** models the base encoder with the V03 flush, run by the threads in `Threads`. All of them may put. Only those in `Consumers` call encode; the MC module has one, as spec section 5 describes (concurrent producers, a single consumer).
  - Per-thread state: `pc`, the trace being put (`cur`, `spanIdx`), and put's and `_update_array_len`'s locals (`lenBefore`, `sizeBefore`, `offset`, `oldPos`).
  - Shared state: `buf`, `length`, `count` and `lock`.
  - History variables: `accepted` (traces whose put returned normally) and `emitted` (the byte strings encode returned).
  - A step runs from one switch point to the next:
    - `PutStart` covers put's entry up to the read of `trace[0].context.dd_origin`, which runs Python code. It records `len_before` and `size_before` and writes the trace header.
    - `Acquire` takes `self._lock` when it is free. `AcquireBlock` puts the thread to wait on a held lock, and `AcquireWake` hands it the lock once released.
    - `PackSpan` packs one span. `pack_span` reads span attributes first, so each span is its own step.
    - `PackLastSpan` is the last span, the lock release and put's checks, which run without a switch. It is `PutAccept` (`_count += 1`) or `PutRollback` (`pk.length = len_before`), decided by `Rejected`, which holds both checks of part_000:525-529.
    - `EncodeNow` is encode (`EncodeCall`) and `_update_array_len` with the lock free: it computes `offset` and `old_pos` and patches the header (`PatchHeader`), and releases the lock at 474.
    - `EncodeBlock`, `EncodeWake` and `EncodePatch` are the same when the lock is held: the locals are computed first, the thread waits, is handed the lock, and patches.
    - `GetBytes` is `get_bytes`'s second section with the lock free: the slice, then `MsgpackEncoderV03.flush`'s reset of `pk.length` and `_count` (`Flush`). `GetBytesBlock`, `GetBytesWake` and `GetBytesResume` are the same when a waiter took the lock first.
    - `GILFree` holds unless some thread is between 474 and 479. Every step that needs the GIL is guarded by it, so in that window only the wake steps of blocked waiters, and then the consumer itself, can move.
  - A span is one abstract byte: the field layout of `pack_span` is data, and no property tells layouts apart.
- **`TraceBuffer`** is the abstract promise of a buffered encoder: a FIFO of pending items and a list of emitted batches. `Accept(item)` appends an item; `Emit` moves all pending items to a new batch.
- **`MC_MsgpackEncoder`** gives the threads as model values.
- **`MC_ArrayPrefix`** checks `array_prefix_size` against the header size over counts at the format limits.
- **`MsgpackEncoderProofs`** holds the TLAPS proofs about the encoder.
- **`StringTable`** models `StringTable` and `ListStringTable` (part_000:299-343) as the pair (`index`, `list`) with `error` for a raised exception.
  - `Index(s)` is `index()` with the `insert` hook: `None` gives 0; on a table whose `_index` is `None` the lookup raises `TypeError`; a new string gets id `len(self)` and is appended to `_list`.
  - `Reset` is `reset()`: `_index` is cleared and `""` re-interned, and `_list` is kept. The converter never resets its table, so this divergence from the spec ("reset() clears all entries") is latent.
  - `StringTableInit` is `StringTable.__init__`. `ListStringTable()` as written cannot be constructed: `ListStringTable` is a `cdef class` that does not declare `_list`, so the assignment at line 337 raises `AttributeError`. (It would otherwise also skip `StringTable.__init__`, since it calls `super(StringTable, self).__init__()`.) The model is the list-keeping table the code means to build, starting from `StringTable.__init__`'s state.
- **`Interner`** is the spec's promise for a string table (spec 3 and 4.2): an append-only sequence `strings` of the interned texts, in id order. `Index(s)` appends a new text, and `Reset` leaves only the empty text.
  - `StringTable` maps to it by `AbsStrings`: entry `k` is the string whose id in `_index` is `k - 1`. The mapping reads `_index`, not `_list`, because `reset()` clears `_index` but keeps `_list`.
  - `ImplementsInterner` is the instantiated `Interner!Spec`.
- **`PprofExport`** models `PprofExporter.export` and the `_PprofConverter` it drives (pprof.pyx).
  - State: the converter's `functions`, `locations`, the two `_Sequence` counters, `locationValues`, the string table (from `StringTable`), and export's `phase` (which loop runs), `pending` (group keys not converted yet), `heapIdx` and the returned `profile`.
  - One action per converter call: `ConvertStackGroup`, `ConvertLockGroup` (acquire and release, with the class's average sampling ratio), `ConvertExceptionGroup`, `ConvertAllocGroup` and `ConvertHeapEvent` (only when `memallocOn`, the `memalloc._memalloc` switch). `EndLoop` moves to the next loop, and `BuildProfile` is `_build_profile`.
  - The converter helpers (`ToFunction`, `ToLocation`, `ToLocations`, `InternStr`) thread the converter state as a record in the order the code runs. For example, a location takes its id before its function, and a function takes its id before its name and file are interned.
  - A helper that reads a converter state more than once takes it as an operator argument (`AddFunction`, `AddLocation`, `WithLocId`, `EmitProfile`, and each converter's local `write(r)`) rather than a LET definition. TLC's coverage report expands a LET body once per reference, and the nested converter calls made that tree exponential.
  - `BuildProfile` does its `_str` calls as one table update, `InternSeq`. The strings not interned yet get the next ids in first-occurrence order, which is what the calls do one at a time. Every id is read from the final table, because an id never changes once given. This keeps TLC's evaluation shallow: a fold over about 30 interns, each on the lazily evaluated table before it, overflowed TLC's stack.
  - Data is abstracted: frames are `(file, line, func)` triples from a small set, and events are records with the fields the group keys and the sample values read. `str()` of an int is `ToString`, and `round()` is round-half-even on the exact rational.
  - Order is abstracted: `itertools.groupby(sorted(...))` yields groups in sort order, and the model converts them in every order. `sorted(_location_values)` only orders the samples, so `BuildProfile` interns the label strings in an arbitrary order of the samples (`FoldSet` in `ProfileStrings`). The properties hold in every order, so they hold in the sorted one.
  - The model assumes the converter's table was built by `StringTable.__init__`, since with `ListStringTable` as written the converter's constructor raises `AttributeError` and no export runs.
  - Left out: `convert_memory_event`, which export does not call, and `start_time_ns`/`duration_ns`, which are copied through.
- **`Traceback`** models one call of `traceback_to_frames` or `pyframe_to_frames` (`fn`), on either compiled branch (`py311`), one loop iteration per step (`TracebackStep`, `PyframeStep`, then `Return`).
  - A chain is a sequence of frame records: code object, line number, first variable name, whether the locals hold it, and the class name found.
  - `rc` counts the references to every frame and code object, starting at the one their owner holds. `GetRef` is a C-API call returning a new reference, and `XDecref` is `Py_XDECREF`.
  - `ExtractClassName` is `_extract_class_name`, including the NULL that `PyDict_GetItem` returns on >= 3.11 for a missing name.
  - `Frame(v311)` is the set of frame records. The line number is any `int` on >= 3.11, because `PyFrame_GetLineNumber` returns a C int. Before 3.11 it is `None` or a natural number (`f_lineno`). `ChainsAssumption` requires every chain the cfg gives to be made of such records. `CallAssumption` requires `max_nframes` to be a natural number.
- **`MC_PprofExport`**, **`MC_StringTable`** and **`MC_Traceback`** give the events, strings and frame chains.
- **`StringTableProofs`** holds the TLAPS proof about the string table.
- **`TracebackProofs`** holds the TLAPS proofs about the two traceback helpers.

## 3. Properties and runs

Each property is stated in a comment next to its definition.

| Run (cfg) | Expect | Properties | What it shows |
|---|---|---|---|
| sequential (`MC_Sequential.cfg`) | pass | TypeOK, EmittedPayloadsDecode, AcceptedExactlyOnce, ImplementsTraceBuffer | With one caller, each payload decodes (by `TracesIn`, a decoder of the abstract bytes) to exactly its traces, with the right top-level count. Every accepted trace is returned once and in put order, and none of a rejected put's bytes survive. The encoder refines `TraceBuffer` under the mapping `AbsPending`/`AbsOut`. |
| concurrent (`MC_Concurrent.cfg`) | violation | CountsAccountForAccepted | A put blocked on the lock at 502 is handed it when encode releases it at 474, and commits `_count += 1` before encode re-takes the lock at 479. Its trace is in the payload but in no header, and the reset at 558 drops its count. |
| concurrent_counts (`MC_ConcurrentCounts.cfg`) | pass | NoTraceCountedTwice | With two producers and the single consumer, in every interleaving of GIL switches and lock waits, no accepted trace is counted twice: the headers returned plus `_count` never exceed the accepted puts. (With a second consumer this fails too: two encodes can patch the same count before either resets it.) |
| prefix_growth (`MC_PrefixGrowth.cfg`) | pass | PayloadWithinBound | With one caller and `_count` crossing 16, no payload exceeds `max_size + 2`. |
| concurrent_payload | violation | EmittedPayloadsDecode | The trace header is packed outside the lock, so an encode between another thread's header and its span loop returns a payload with a dangling trace header. |
| size_bound | violation | SizeWithinMax | put checks `size` before `_count += 1`. After the 16th trace, `size()` is `max_size + 2`. |
| pprof_export (`MC_PprofExport.cfg`) | pass | PhaseTypeOK, TablesConsistent, ProfileWellFormed, EventsAccounted, StacksRecorded, IdsNeverChange | Export of events of every class, with memalloc on or off and in every group order, keeps function and location ids dense and unique, names each function and file by its string id, and only references existing entries. The profile's location, function and string ids all resolve, with the program name at the mapping's filename id. The totals of the count sample types (cpu-samples, lock-acquire, lock-release, exception-samples), of cpu-time and wall-time, and of heap-space (accumulated with `+=`) equal the events' totals; the scaled lock times are not compared with the events. Every event's stack is recorded: some sample's location ids resolve through the Locations, Functions and string table to the event's funcnames in order, followed by `<K frames omitted>` with `K = nframes - len(frames)` exactly when frames were dropped (`StacksRecorded`). No step of the export changes or drops a string id the table has handed out (`IdsNeverChange`, an action property). |
| pprof_alloc_count | violation | AllocEventsAccounted | Two memalloc groups that differ only in span id share one location key, so alloc-samples counts one group. |
| traceback_frames (`MC_TracebackFrames.cfg`) | pass | TypeOK, FramesAsDocumented, TracebackRefsReleased | On both branches, both helpers return `nframes` equal to the chain's length and at most `max_nframes` frames. `traceback_to_frames` returns the outermost ones, innermost first. `pyframe_to_frames` returns the innermost ones. Every line number is at least 0. After each iteration of `traceback_to_frames`, every frame and code object has its owner's one reference again. |
| pyframe_refs | violation | RefsBalanced | On >= 3.11, `pyframe_to_frames` releases the caller's borrowed frame (line 110) and keeps the code reference of line 106. |
| class_name_crash | violation | ClassNameNoCrash | On >= 3.11, a method frame without `self` in its locals makes `_extract_class_name` use a NULL value. |
| array_prefix | violation | PrefixCoversHeader | For `65536 <= _count < 131072`, the 5-byte array32 header is written from offset 2, over the first trace. |

Each violation is recorded as a finding in `PROJECT.json`.

Bounds, and why they are enough:

- **sequential** uses 1 thread, `MaxSize` 9, `MaxItemSize` 3, traces of 1 to 3 spans, 5 puts and 2 encodes. Both rejections happen: a trace of 3 spans is too large for the item limit, and a full buffer triggers BufferFull. Accepts follow rejections, and two encodes follow each other.
- **concurrent** and **concurrent_counts** use 2 threads (one of them the consumer) with traces of up to 2 spans, 3 puts and 2 encodes. This lets a put wait for the lock while the other packs spans, an encode block on a held lock, a waiting put take the lock between encode's two sections, and a rollback happen under contention.
- **prefix_growth** uses 18 one-span puts with `MaxSize` 33. `_count` reaches 16, where the reserved prefix grows from 1 to 3 bytes.

- **pprof_export** uses up to 2 events per class (`MaxEvents`), drawn with repetition:
  - 2 stack events: a web sample with an omitted frame, and an anonymous thread outside any span;
  - 2 lock acquisitions with sampling ratios 50 and 100, and 1 release;
  - 1 exception, 1 allocation and 1 heap event.
  These bounds make every case happen:
  - groups share locations, functions and strings;
  - a repeated event folds two samples into one group, and `+=` adds two heap samples;
  - the singular `<1 frame omitted>` and the plural `<2 frames omitted>` and `<3 frames omitted>` all occur;
  - the lock scaling uses the average ratio over groups;
  - `memallocOn` is both true and false.
  The run explores every group order, about 120,000 states. Larger event sets multiply the initial states and take TLC past five minutes.
- **traceback_frames** uses chains of 1 to 4 frames: a method, a classmethod whose class has no `__name__`, a module body (no names, line -1) and a plain function whose argument is absent. `max_nframes` runs from 0 to past the chain length, so every frame is kept in some runs and dropped in others.

Fairness: every property is a safety property, so no run assumes fairness. `PprofExport` and `Traceback` model one sequential call each, and their runs turn deadlock checking off because the call returns (`phase = "done"`, `pc = "done"` or `"crashed"`). The encoder runs turn it off because the bounds on puts and encodes end every behaviour.

## 4. Proofs

`MsgpackEncoderProofs` is checked by `tlapm` and proves these theorems.

- **`TypeCorrect`**: `Spec => []TypeOK`, for every set of threads and every value of the constants that satisfies `ThreadsAssumption` and `SizeAssumption`.
  - `TypeOK` is inductive as it stands.
  - It rests on lemmas about the buffer operators: `WriteAtProperties`, `SliceProperties` and `ArrayHeaderProperties`.
  - It also uses two function-set lemmas, `RangeMono` and `ExceptType`.
  - The step proof has one case per action. Two facts carry it: every step only grows `buf` (`Len(buf') >= Len(buf)`), and so the saved offsets `lenBefore` and `oldPos` stay inside it.
- **`PayloadBound`**: with `Threads = {T}`, `Spec => []PayloadWithinBound`.
  - The bound alone is not inductive: it says nothing about the payload the next encode will cut.
  - The inductive invariant is `IInv == TypeOK /\ SequentialInv /\ PayloadWithinBound`, defined in `MsgpackEncoderProofs`. `SequentialInv` says that the lone caller is idle, about to acquire, packing spans, or between encode's two lock sections, so it never waits on the lock.
  - It carries `CommitOK`, which states what put's BufferFull check established: `length + array_prefix_size(count - 1) - 5 <= max_size`. This holds for `length` when the caller is idle or in `get_bytes`, and for `len_before` while a put is in progress.
  - Between the two lock sections it also says that `count` is not 0 and that the saved offset is `5 - array_prefix_size(count)`, so the slice `GetBytes` returns is `length - 5 + array_prefix_size(count)` bytes long.
  - `array_prefix_size` grows by at most 2 per increment (`PrefixStep`). With `CommitOK` this gives the bound.
  - Before the proof, `IInv` was checked by TLC as an invariant of the sequential and prefix_growth instances.

`StringTableProofs` proves **`InternIdsMatchList`**: `InternSpec => []IdsMatchList`.
- This holds for every set of strings and every bound, for a table built by `StringTable.__init__` and used through `index()` alone, which is how the converter uses it.
- `IdsMatchList` alone is not inductive. A new string's id is `Cardinality(DOMAIN index)`, and that is the next position of `_list` only if `index` is a function with a finite domain whose size is `Len(list)`. The invariant `IInv` therefore adds `TableTypeOK` and `IsFiniteSet(DOMAIN index)`.
- `InternNew` handles an unseen string, using `FS_AddElement` for the cardinality. A known string and `None` leave the table unchanged. A `TypeError` changes only `error`.
- The empty string is named `EmptyStr`, so that the provers treat it as an opaque constant.

It also proves **`InternIdsStable`**: `InternSpec => IdsNeverChange`, where `IdsNeverChange == [][IdsStable]_tableVars`. Under `index()` alone, no string once interned leaves `_index` or changes its id. This is what lets the converter write a string's id into a Function, a label or the mapping as soon as it gets it and serialise `string_table` only at the end. It is also what `PprofExport`'s `InternSeq` takes for granted. `reset()` breaks it, and the converter never calls `reset()`. TLC checks `IdsNeverChange` on the pprof_export run, where the converter is the table's user. There, `BuildProfile`'s `InternSeq` is covered as well. The theorem proves it for the table on its own, for every set of strings. The proof is a case split on `Index`: a new string extends `_index` with the other ids kept.

It also proves **`StringTableRefinesInterner`**: `TableSpec => ImplementsInterner`. This covers `index()` and `reset()` together, for every set of strings and every list bound.
- `IdsMatchList` cannot be the invariant here, because `reset()` breaks it. The invariant is `RInv == IdsBijective(index)`: `_index` is a finite function into `Nat`, and its ids are a bijection onto `0..len-1`. This is what makes `AbsStrings` a well-defined sequence whose `CHOOSE` picks the one string with each id.
- `EmptyIndex` shows that the table left by `__init__` and by `reset()` maps to `<<"">>`. That is the interner's `Init` and its `Reset`.
- `AddId` shows that interning a new string (`AddedId`) keeps the bijection, appends the string to the abstract table, and that the string was not in that table. Every old position keeps its string because the ids are injective, and the new position is filled by the new string because every old id is below `len`.
- `StepRefines` maps each step: `reset()` to `Reset`, a new string to `Index`, and `None`, a known string or a `TypeError` to a stutter, since `_index` is unchanged.
- No run checks `ImplementsInterner`; the theorem covers every instance.

`TracebackProofs` proves three theorems, for every chain of frames, every `max_nframes` and both compiled branches. They rest on `CallAssumption` and `ChainsAssumption`.

- **`TracebackTypeOK`**: `Spec => []TypeOK`. No list ever holds more frames than were visited or than `max_nframes` allows, and `rc` stays over the chain's objects.
- **`FramesDocumented`**: `Spec => []FramesAsDocumented`.
  - `FramesAsDocumented` only speaks of a returned call, so it says nothing about the loop and is not inductive.
  - The inductive invariant `IInv` gives the loop's state in closed form. After `n` iterations, `nframes = n`. If the call has not crashed, `frames` is `FramesAfter(n)`: the first `min(n, max_nframes)` frame tuples, reversed for `traceback_to_frames`.
  - The closed form gives each frame's position directly. A step proof can then compare the lists element by element, and at the end the closed form is matched with `Expected`, which is written with `SubSeq` and `Reverse`.
  - `TracebackStepIInv` covers `traceback_to_frames`. A kept frame is put at the front (`ConcatProperties`), and the guard `nframes < max_nframes` makes the kept count grow exactly when fewer than `max_nframes` frames were visited.
  - `PyframeStepIInv` covers `pyframe_to_frames`. A kept frame is appended (`AppendProperties`). Here the guard is `len(frames) < max_nframes`, and by the invariant this is the same test as `nframes < max_nframes`.
  - `FramesAfterIsExpected` identifies `FramesAfter(len(chain))` with the documented result. `LineNoNonNegative` shows that both branches' line conversions give a value of at least 0.
  - A crashed call returns nothing, so `IInv` only asks `TypeOK` of it.
- **`TracebackReleasesRefs`**: `Spec => []TracebackRefsReleased`.
  - On >= 3.11 each kept frame takes the code reference from `PyFrame_GetCode`, and `_extract_class_name` takes and drops its own. Line 82 gives the first back.
  - The property states that every frame and code object keeps count 1. The empty varnames tuple is excluded because `_extract_class_name` leaks it (line 34).
  - The strengthening `RefIInv` adds that the counts are integers over `Objects(chain)` and that the balance holds in every state of a `traceback_to_frames` call, crashed or not.
  - `TracebackRefsBalance` shows that one kept frame's updates (`TracebackRefs`) change no count but the empty tuple's. `RefInt` and `AfterClassNameInt` keep the counts integers, which the `pyframe_to_frames` steps also need.

These stay with TLC alone:

- the refinement `ImplementsTraceBuffer`. Its mapping reads the pending and emitted traces with `TracesIn`, a `SelectSeq` over the bytes, and a step's effect on that needs induction over the byte sequence;
- the decoding properties, which are stated with `SelectSeq` and `FlattenSeq` over the abstract bytes and are beyond the provers' reach for all inputs;
- `PhaseTypeOK` and the other pprof properties, and `NoTraceCountedTwice`. The converter's id counters advance inside `ToLocations`'s `FoldLeft` over the frames, and its tables are extended with `@@` and `:>`, which the provers cannot unfold. These properties are stated with folds (`FoldLeft`, `FoldSet`, `MapThenSumSet`) over the returned payloads and the converter's tables, and what a fold computes for every input needs induction over data, which the provers cannot instantiate.

## 5. Not modelled yet, and why

These are planned for later modules, and their hazards are listed in `PROJECT.json`:

- `MsgpackStringTable` and V05. The rollback keeps the interned ids, and `flush` resets the table and then drops the `""` that `reset` re-packed.

These are left out for good:

- The crashtracker setters are FFI calls into a C++ library that is not in this repository.
- The CI script is shell glue.
- The numeric dispatch of `pack_number` and `pack_text`. It has no state, and a span is abstracted to one byte.
- The protobuf serialisation of the `Profile`. The model stops at the fields `_build_profile` passes.
- `src/unnamed/part_001`, an older copy of the traceback helpers. It is not compiled next to `_traceback.pyx`.
- The collectors that call the traceback helpers and record events. They are not under `src/`, so the model cannot tell whether the 4-tuple frames of the helpers are cut to the triples `_to_locations` unpacks.
