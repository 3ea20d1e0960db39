# ocltrace in TLA+

ocltrace is an OpenCL call tracer. `ocltrace PROG` sets environment variables
and runs PROG with ocltrace itself as an `LD_PRELOAD` library. Inside PROG it
replaces `dlopen`, `dlclose` and `dlsym` and 101 OpenCL functions; each of
these wrappers prints the call, calls the real function and prints the result.
At exit it may print a summary.

This directory holds TLA+ models of that program, TLC configurations that check
them on small instances, and proofs checked by TLAPS. Line numbers are those of
`src/ocltrace.c` and `src/opencl.c`; `PROJECT.json` maps every definition to the
lines it stands for.

## The system

| component | code | state | operations |
|---|---|---|---|
| launcher | ocltrace.c:85-120, 356-382 | `struct arguments`, the environment | `parse_opt`, `main` |
| initialisation | ocltrace.c:124-202 | `lock`, `libopencl_handle`, `opencl_fptr`, `trace_fptr`, `fout`, `emit_*` | `init` |
| dynamic-loader shim | ocltrace.c:213-224, 267-354 | `handles`, `lock` | `dlopen`, `dlclose`, `dlsym`, the first half of `fini` |
| OpenCL wrappers | opencl.c:743-3016 | `struct emit` of each call | 101 functions |
| emit functions and statistics | opencl.c:415-739 | the stdio buffer of `fout`, `func_stats` | `emit_open` .. `emit_void_ptr` |
| lookup tables | opencl.c:49-413, opencl.h:26-373 | constant | `func_names`, `error_codes`, `common_string`, `bools`, `memory_flags`, the types the wrappers cast to |
| finalisation | ocltrace.c:213-230 | `handles`, `fout`, `lock` | the first half of `fini` |
| summary | ocltrace.c:204-211, 232-264 | `func_stats` | the second half of `fini`, `stats_cmp` |
| OpenCL headers | include/CL/cl.h and the extension headers | constant | values, codes and functions a program may use |

How they interact:

* The launcher speaks to `init` of the new process image through the environment
  (`OCLTRACE*`, `LD_PRELOAD`) and nothing else.
* `init` opens libOpenCL and ocltrace through the shim's own `dlopen`, so both are
  on the list `handles` before the program runs.
* Any thread of the program calls the shim; all of it shares `handles` and `lock`.
  The real loader is called with the mutex held in one place (`dlsym(NULL, ..)`,
  277 and 286) and without it elsewhere. The loader runs constructors and
  destructors, and those call the shim again.
* `dlsym` decides whether a lookup returns a wrapper or the real function.
* Any thread calls wrappers. They share `fout` and `func_stats` and take no lock.
* `fini` runs in the thread that exits, while the others go on.
* What the program may pass to a wrapper, and the library may return, is set by the
  headers; the tables were written from `cl.h` and are indexed without a check.
* Processes of one environment share the output file, and nothing else.

What is hard: the interleavings of `dlopen`, `dlclose` and the fall-back search of
`dlsym`, each with a real loader call on one side of a critical section; a list
walk that frees the node it stands on; two locks, one of them the loader's; a
statistics table without a lock; lines built from many stdio calls; a crash of
the library in the middle of a line; the order of constructors and destructors; a
table that is sorted while others write to it; processes that truncate each other's
file.
`hazards` in `PROJECT.json` lists each at its line with the properties that would
catch it.

What makes each component correct:

* shim: the list names loaded libraries only, the mutex is held exactly between
  its lock and unlock, the search misses nothing, a wrapper is returned wherever
  one exists, walks end, fini gets through;
* locks: no thread waits for itself, and the known lock inversion is the only one;
* wrappers and statistics: the call is in the file before control enters the
  library, counters never exceed what happened, no called function disappears,
  errors are failures, the time covers the call, a line is one call;
* tables: every value `cl.h` defines for a type has a name where that type is
  printed, no name is printed for anything else, and the code in the trace is the one
  the caller received;
* summary: one line for each called function with its own figures, in order, and a
  total that is never too high, and too low only where unlocked updates overlapped;
* `init` and `fini`: every use of what they set up lies between them, or is of a kind
  the property names; no wrapper calls itself; stderr is never closed;
* launcher: options of nested launchers add up as if given at once, and each trace is
  in the file its own options name, alone if nobody else has that file.

## Modules

| module | what it is |
|---|---|
| `Registry` | abstract specification of the shim: a set of loaded and a set of listed libraries |
| `DlShim` | the shim in detail: threads, the mutex, list nodes, references |
| `DlShimProofs` | theorems about `DlShim` |
| `LockOrder` | the mutex of the shim and the lock of the loader, with nested calls |
| `LockOrderProofs` | theorems about `LockOrder` |
| `Tables` | tables by name, and several as one |
| `Wrappers` | the 101 wrappers as sequences of operations |
| `Tracer` | threads executing `Wrappers`: output, statistics, clock |
| `TracerProofs` | theorems about `Tracer` |
| `OpenCLHeaders`, `OpenCLExtensions` | the values, codes and functions of `cl.h`, and of the other headers |
| `Printing` | `Wrappers` called with those values: table lookups and returned codes |
| `PrintingProofs` | theorems about `Printing` |
| `Summary` | `func_stats`, its updates, and the end of `fini` that sorts and prints it |
| `SummaryProofs` | theorems about `Summary` |
| `Lifecycle` | `init` and the middle of `fini` against calls that come at any time |
| `LifecycleProofs` | theorems about `Lifecycle` |
| `Launch` | `parse_opt`, `main`, the environment, processes and output files |
| `LaunchProofs` | theorems about `Launch` |
| `Induction` | lemmas on natural numbers and recursive functions for `SummaryProofs` and `LaunchProofs` |
| `MCDlShim`, `MCLockOrder`, `MCTracer`, `MCPrinting`, `MCSummary`, `MCLifecycle`, `MCLaunch` | small instances for TLC |

Definitions named `X_Fault` and commented "Seeded fault" are variants of `X` with
a bug in them. Nothing uses them; they are put in the place of `X` to see that the
property they are paired with in `PROJECT.json` notices.

### DlShim

A step is one access to shared state: taking the mutex, one node of a
`LIST_FOREACH`, one call of the real loader. What happens between two of those
while the mutex is held cannot be observed, so it belongs to the step. A call that
blocks in `pthread_mutex_lock` has done nothing yet; entering it and taking the
mutex is one step, except in `dlopen`, which calls the loader first.

| state | code |
|---|---|
| `lock` | owner of `lock` |
| `handles` | the nodes of `handles`, first to last, each as the library of its handle |
| `refs` | the loader's reference counts: each outstanding `dlopen` is a reference |
| `pc`, `ref`, `at`, `sym` | program counter, `handle`, `h` (as an index) and `name` of each thread's call |
| `found` | what the last `dlsym` of a thread returned, as the library that provides it |
| `status` | the process: running, exiting (in fini), ended (fini is past 224), crashed |

* `dlopen`: `OpenReal` (323), `OpenLock` (325), `OpenInsert` (326-330),
  `OpenNoMemory` (328, `malloc` failed).
* `dlclose`: `CloseLock` (337), `CloseWalk` (345-350, one node), `CloseUnlock`
  (352), `CloseReal` (353).
* `dlsym`: `SymNull` or `SymHandle` (268), `SymDefault` (277-281), `SymWalk`
  (285-291, one node), `SymWalkEnd` (293), `SymLast` (294), `SymMatch` (298-312),
  `SymDirect` (300, 313).
* `fini`: `FiniLock` (218), `FiniWalk` (220-223), `FiniUnlock` (224).

Freed memory. Both walks that remove a node then read its link (`FreeNode`). What
they read is undefined, so it is a choice among the outcomes an allocator
produces, and `Memory` says which: the link is still there (always possible: an
allocator that keeps its own data in the first word of a chunk leaves `le_next` at
offset 8 alone), the link reads NULL ("ends": the memory was cleared), or it reads
anything else ("wild": the allocator or another thread has written it, as
allocators do that keep a second word in free chunks), which is a crash. "nomem"
adds the unchecked `malloc`.

The traced program is external. It passes handles it got from `dlopen` and has not
closed, and closes none that another of its threads is using (`Usable`,
`Closable`): without that, a dlclose of a closed handle is the program's error and
not the tracer's. It may open a library many times and from many threads.

`Registry` is the contract: a library joins the list while it is loaded and is
unloaded while it is not listed. The mapping (`R` in `DlShim`) takes the set of
libraries with a reference as `loaded` and the set of libraries on the list as
`listed`; mutex, threads, duplicates and order disappear.

### LockOrder

`DlShim` makes each loader call one step. `LockOrder` gives it duration: the loader
takes its own recursive lock, and inside a `dlopen` or `dlclose` it runs library
code that may call the shim again. The state is `lock` and, for each thread, the
stack of shim calls it is in, each by the place it has reached; the loader's lock
is derived from the stacks (the thread with a place of `InLoader` has it). The list
does not appear. The places and steps are those of the code, from lock to unlock
and from loader call to return; both sides of a dlsym and a dlopen that fails are
there.

### Wrappers and Tracer

A wrapper is straight-line code. `Wrappers` has the operations of each `emit_*`
function (`Open`, `Args`, `Close`, `End`, `Flush`, `Code`), the seven sequences of
them that the 101 functions follow, and the function of each name (`Script`), in
groups that follow the file. `Tracer` runs these sequences for several threads:

| state | code |
|---|---|
| `todo`, `fn` | the rest of the wrapper a thread is in, and which wrapper |
| `frame` | `struct emit e`, `diff`, and what the call returned |
| `loaded` | a counter between the read and the write of its update |
| `line`, `pending` | the text since the last newline; whose text is in the stdio buffer |
| `stats` | `func_stats` |
| `due`, `raced`, `failed` | history: what the counters should be, functions with overlapping updates, calls that failed |
| `time`, `clock` | real time and `CLOCK_REALTIME` |
| `died` | has printing a code ended the process |

`fputs`, `fprintf` and `fflush` are atomic (stdio locks the stream), and nothing
else is. `x++` of a global is a load and a later store. `Load` and `Store` stand for
the updates at opencl.c:439, 465, 575 and 585, one action each for all of them, as
`Counts` and `Amount` say when and by how much. A callback that a driver runs in a
thread of its own is one more thread. The model begins after `init`.

A code is "ok", an "error" with a name in `error_codes`, or "unnamed": `-x` is then the
index of a hole of the table, or outside it (opencl.c:573, 582). What that does is
undefined; the process dies or something is printed. The properties of `Tracer` hold
of both.

### OpenCLHeaders, OpenCLExtensions and Printing

`OpenCLHeaders` is `cl.h` as data: the error codes, the values of each enumerated type
(`Core`), and of each function what it gives back and which arguments are printed
from a table (`Api`). `OpenCLExtensions` has what the extension headers add.
`Printing` has the four tables as sets of the indices that hold a name, the typedefs
of `opencl.h` by what they return, and the printers by the table they index. A program
calls any function with any value of any header, or one that no header has; the
library returns any code. `Look` says what comes out: the name, a null pointer from a
hole of the table, something "wild" from outside it, or, for a memory flag, nothing.
`fputs` of a null pointer ends the process and of a wild one may.

| state | code |
|---|---|
| `fn`, `left` | the call, and the types of its arguments still to be printed |
| `seen` | history: the last lookup |
| `gave` | history: the error code the caller received |
| `phase` | idle, printing arguments, returned, or dead |

`CodeIsShown` ties four places together that nothing else compares: the declaration in
`cl.h`, the typedef in `opencl.h`, the operations of the wrapper (`Script`) and the
table. A code that `cl.h` defines is then shown by a name; one of an extension (-1001) or
of the library's own is looked up all the same, in a hole or outside the table, and the
trace shows no name for it. That a name in a table is the text `cl.h` has for the value was compared entry
by entry outside TLA+; the text is not in the model. Values such as
`CL_DEVICE_TYPE_ALL` that are printed as numbers are left out.

### Summary

| state | code |
|---|---|
| `stats` | `func_stats` |
| `call`, `stage` | the wrapper each thread is in, and which update of `func_stats` it has come to |
| `loaded` | what it has read of the field it is updating |
| `exiting`, `phase`, `i`, `sum` | the thread in `fini`, where it is, and its variables |
| `copy` | what `qsort` has read of the array |
| `printed` | the rows printed, by index |
| `truth`, `raced`, `before`, `late`, `setback` | history: the true figures, functions with overlapping updates, the calls when fini began, updates since, negative durations |

An update of a field is a load (`Load`) and a later store (`Count`, `Fail`, `End`), as in
`Tracer`: the code has no lock (opencl.c:439, 465, 575, 585), so updates of two threads
can be lost, and a stale store can take back what was counted in between or write a
figure to the row that the sort has put at its index. `AddUp` and `PrintRow` are one
turn of a loop each. `qsort` is a read of the whole array
(`SortRead`) and a write of it in an order that `stats_cmp` allows (`SortWrite`), so
that an update in between is lost and one after it goes to another function's row.
glibc may also sort in place, element by element; a thread that updates during that is
`late` like the others, and the properties that hold in spite of `late` do not look at
the rows. `mutex` and stream are left to `Lifecycle`.

### Lifecycle

| state | code |
|---|---|
| `phase`, `runner`, `i` | how far `init` or `fini` is, the thread that runs it, its loop counter |
| `real`, `wrap`, `known` | `opencl_fptr`, `trace_fptr`, whether `libopencl_handle` is set |
| `out`, `closed` | `fout`, and whether `fclose` was called on it |
| `stats`, `want` | `emit_stats`, and the environment |
| `mutex`, `holder` | `lock`: usable or destroyed, and who has it |
| `fn`, `at`, `named` | each thread's call: function, place, whether `e->name` was stored |
| `early` | history: did the call begin before `init` was through? |
| `harm`, `culprit` | history: the first thing a call needed that was not there, and whose call it was |

`InitMutex` .. `OpenNull` are `init`, `FiniList`, `FiniClose` and `FiniDestroy` are
`fini`. A wrapper is its accesses to that state: `EmitOpen` (stream), `Real`
(`opencl_fptr`), `EmitEnd` (stream, `func_stats`); a loader call is `ShimLock` and
`ShimUnlock`. The lookups of `init` go through the shim's own `dlsym` (`Dlsym`).
Each failure of `init` is an action or a disjunct: `pthread_mutex_init`, `dlopen` of
either library (`exit(1)` from a constructor runs the destructors or not, as the
C library has it), `fopen` of the file and of `/dev/null`. After harm nothing is
defined, so the behaviour stops there; the properties say when harm can come.

### Launch

A process is an image (`ocltrace` or a program), its environment, and its output
file. `Constructor` is `init` as far as options and files go; `ParseOption`, `End` and
`Main` are `parse_opt` and `main`; `Spawn` starts another process with the environment
inherited, traced or not, ocltrace or not. A traced call is written in two pieces, one
for each `fflush`, at the offset of the process (`Flush`, `Put`); "w" truncates, nothing
appends. An `ocltrace` that runs under another is a preloaded library in its own
process first: it opens, and truncates, the outer output file before its `main`.
`/dev/null` is taken to open here (its failure is in `Lifecycle`), a piece to be
written whole, and the program to exec, not to fork without exec.

## Runs

| run | instance | shows |
|---|---|---|
| `DlShim_safety` | 2 threads, libOpenCL, ocltrace and two plug-ins, 2 references besides those of init, every `Memory`, reopening of all but one | `TypeOK`, `NoStaleHandle`, `LockDiscipline`, `SearchMissesNothing`, `UnlistedBeforeUnload`, `OpenIsListed`, `Intercepted`, `ImplementsRegistry` |
| `DlShim_live` | 1 reference of the program, freed links readable, fairness of the owner's steps outside the loader | `LockReleased`, `FiniCompletes` |
| `DlShim_exit` | freed links wild, fairness | `FiniCompletes` is violated |
| `LockOrder_shim` | 3 threads, calls nested 3 deep | `TypeOK`, `NoSelfDeadlock`, `DeadlockNeedsNullLookup` |
| `Tracer_all` | 1 thread, 1 call, all 101 functions, 2 ticks | `FlushedBeforeCall`, `ErrorsAreFailures`, `TimeCoversCall`, `LinesPrefixed`, `LineIsACall` |
| `Tracer_threads` | 2 threads, 2 calls, a status and a create function | `TypeOK`, `FlushedBeforeCall`, `NoOvercount`, `CalledIsListed`, `ExactUnlessRaced` |
| `Tracer_lost` | 2 threads in one function | `CountsExact` is violated |
| `Printing_all` | all functions and values of all headers, 13 foreign values | `TypeOK`, `MisprintNeedsForeign`, `NamesAreCore`, `CodeIsShown` |
| `Printing_status` | the same | `CoreCallsSurvive` is violated |
| `Summary_all` | 3 functions, 2 threads, 2 calls, durations -1 to 2 | `TypeOK`, `SummaryExact`, `SummarySorted`, `TotalInRange`, `PercentSane` |
| `Lifecycle_all` | main and 2 threads, 2 functions of which the library has one | `TypeOK`, `UsableWhileRunning`, `RealIsReal`, `StderrSurvives` |
| `Launch_all` | 2 processes, 2 files, 1 library, 2 options a command line, 2 pieces | `TypeOK`, `NestingConcatenates`, `TraceGoesWhereAsked`, `FileIsOneTrace` |

Why the bounds are enough. In the shim all threads run the same code and hold at
most one reference each, so two threads give every pair of concurrent calls, and
two references give the case that matters: one library listed twice, by one thread
or two. One plug-in is never opened twice, for `OpenIsListed`. One symbol has a wrapper and one has not. In `LockOrder` a deadlock of two
locks needs two threads, the third shows that a bystander does not help, and three
levels let a nested call nest again. In `Tracer` a lost update needs two calls; the
functions differ only by their sequence, and `Tracer_all` runs every one. Two ticks
of time let a call take none, some or all of it; `CLOCK_REALTIME` is not set back in
this model, and if it is, a duration is too short or negative (opencl.c:456);
`Summary` has that case. In `Printing` calls share no state, so one at a time is all
there is, and the foreign values are the two ends of an int, the neighbours of each
table and the holes of `error_codes`. In `Summary` three rows give every permutation a
sort can make of a called, another called and an uncalled function, and two calls by
two threads overlap in one function, and put a load or a store before, inside and after
the sort. In `Lifecycle` calls of
three threads meet the mutex, and one function the library has and one it lacks are the
two cases of `real`. In `Launch` the second process is the child, ocltrace or not, with the same file or another;
two options a command line let a later one override an earlier one, and two pieces are
one line, which lets a file be truncated between them. The theorems below have no such
bounds.

`LockOrder_shim` does not check for TLC's deadlock, because the system really has
one: a thread in `dlsym(NULL, ..)` owns the mutex and waits for the loader, another
is in a constructor and waits for the mutex. `DeadlockNeedsNullLookup` says that
this is the only kind, and the run reaches it. A program whose library
constructors do not call the loader, or that never passes NULL, is free of it.

Fairness. `FairSpec` of `DlShim` assumes weak fairness of each thread's `Unhindered`
steps: those in which the owner of the mutex calls no loader, and so waits for nobody.
That is no more than a kernel that keeps scheduling every runnable thread. Nothing is
assumed of the rest:

* a call of the real loader may never return. With the mutex held there are two such
  calls (277, 286), and `LockOrder` shows that their owner can wait for the loader's
  lock for ever. `LockReleased` therefore has an exception: the mutex is given back
  unless one such call never returns. What it says is that the walks end, the ones that
  remove nodes as they go included, that the search does not ask the loader without end
  (an insert cannot outrun it, as the mutex is held), and that no path forgets the
  mutex;
* `pthread_mutex_lock` is not fair: a thread may wait while others take the mutex in
  turn;
* the program may never make a call.

`FiniCompletes` starts where fini already has the mutex, and no step from there to 224
calls the loader. The other specifications have no fairness and no liveness property.

### What the violations mean

Each contrasts a behaviour of the code with a line of the repository (`findings`):
`fini` uses a node after freeing it and may not reach the summary; `-c` loses counts
when threads call the same function; an event status that `cl.h` defines is looked up
before the start of `error_codes`, and the traced program may die of it.

### What the properties leave out

Each of these is a behaviour of the code that a property names as its exception:

* a library that is opened twice and closed once is open and off the list
  (`OpenIsListed`, 345);
* `-t` prefixes every line, and a line is one call, only while no two calls overlap
  (`LinesPrefixed`, `LineIsACall`; opencl.c:425, 467);
* the status argument of `clSetUserEventStatus` and `clSetEventCallback` counts as an
  error when it is not 0, and `clCreateProgramWithBinary` counts what `*binary_status`
  held before the call (`ErrorsAreFailures`; opencl.c:1895, 1911, 1410);
* `clEnqueueSVMFree` closes its argument list twice (`LineIsACall`; opencl.c:2673);
* values and codes of extensions and vendors have no name, and looking them up may end
  the program (`MisprintNeedsForeign`);
* a function of the 101 that the OpenCL library lacks is called through NULL
  (`UsableWhileRunning`, 167); so is any function before `init` is through;
* after `fini` has begun, a call may meet a closed stream or a destroyed mutex
  (`UsableWhileRunning`), unless the trace goes to stderr (`StderrSurvives`: then only
  the mutex);
* what threads still trace while `fini` sorts may go to another function's line
  (`SummaryExact`);
* where two updates of a function overlapped, its line may be too low, and the total may
  be below the calls made before `fini` began (`SummaryExact`, `TotalInRange`);
* a code that is not in `cl.h` is looked up like the others, and what is shown is no name
  of it (`CodeIsShown`);
* a call of the real `dlsym` with the mutex held may never return (`LockReleased`);
* `dlopen` ends the process if `malloc` fails, with the mutex held (328);
* a child process that is traced truncates and overwrites its parent's file
  (`FileIsOneTrace`); with `-c` and `-o` the file is opened, truncated and stays empty
  (`TraceGoesWhereAsked`).

## Proofs

`tlapm` checks `DlShimProofs`, `LockOrderProofs`, `TracerProofs`, `PrintingProofs`,
`SummaryProofs`, `LifecycleProofs`, `LaunchProofs` and `Induction`. They use no
assumption but those the modules name about their constants. Those that only say
that a mark is none of the things it is told from (`NothingAssumption`,
`NoneAssumption`, `HoleAssumption`, `NoCodeAssumption`) are about the model and not
about the code.

| theorem | states |
|---|---|
| `TypeCorrect` | `[](TypeOK /\ RefsOwned)` of `DlShim` |
| `LockDisciplineHolds` | `[]LockDiscipline` |
| `SearchIsSound` | `[]SearchMissesNothing` |
| `NoStaleHandleHolds` | `[]NoStaleHandle` |
| `UnlistedBeforeUnloadHolds` | `[]UnlistedBeforeUnload` |
| `OpenIsListedHolds` | `[]OpenIsListed` |
| `InterceptedHolds` | `Spec => Intercepted`, an action property |
| `Refinement` | `Spec => ImplementsRegistry` |
| `LockOrderTypeCorrect` | `[]TypeOK` of `LockOrder` |
| `NoSelfDeadlockHolds` | `[]NoSelfDeadlock` |
| `DeadlockNeedsNullLookupHolds` | `[]DeadlockNeedsNullLookup` |
| `TracerTypeCorrect` | `[](TypeOK /\ InFunction)` of `Tracer` |
| `FlushedBeforeCallHolds` | `[]FlushedBeforeCall` |
| `NoOvercountHolds` | `[]NoOvercount` |
| `CalledIsListedHolds` | `[]CalledIsListed` |
| `ExactUnlessRacedHolds` | `[]ExactUnlessRaced` |
| `ErrorsAreFailuresHolds` | `[]ErrorsAreFailures` |
| `TimeCoversCallHolds` | `[]TimeCoversCall` |
| `LinesPrefixedHolds` | `[]LinesPrefixed`, if no two calls overlap |
| `LineIsACallHolds` | `[]LineIsACall`, if no two calls overlap |
| `PrintingTypeCorrect` | `[]TypeOK` of `Printing` |
| `MisprintNeedsForeignHolds` | `[]MisprintNeedsForeign` |
| `NamesAreCoreHolds` | `[]NamesAreCore` |
| `CodeIsShownHolds` | `[]CodeIsShown` |
| `SummaryTypeCorrect` | `[]TypeOK` of `Summary` |
| `SummaryExactHolds` | `[]SummaryExact` |
| `SummarySortedHolds` | `[]SummarySorted` |
| `PercentSaneHolds` | `[]PercentSane` |
| `TotalInRangeHolds` | `[]TotalInRange` |
| `LifecycleTypeCorrect` | `[]TypeOK` of `Lifecycle` |
| `UsableWhileRunningHolds` | `[]UsableWhileRunning` |
| `RealIsRealHolds` | `[]RealIsReal` |
| `StderrSurvivesHolds` | `[]StderrSurvives` |
| `LaunchTypeCorrect` | `[]TypeOK` of `Launch` |
| `FileIsOneTraceHolds` | `[]FileIsOneTrace` |
| `NestingConcatenatesHolds` | `[]NestingConcatenates` |
| `TraceGoesWhereAskedHolds` | `[]TraceGoesWhereAsked` |

They hold for any number of threads, processes, libraries, symbols, references (a
finite set), functions, calls and ticks, any depth of nesting, any subset of functions
in the OpenCL library, any values that no header defines, for every `Memory`, with and
without reopening.

The shim. `NoStaleHandle` is not inductive. A library may be listed several times
and be unloaded only with its last reference, and when `dlclose` removes one node
too few ("ends") the leftover node must still be backed by some reference. The
invariant `Counted` says so by counting: each library has no more nodes than
references that are not about to be dropped (`Backing`), where a reference in a
`dlopen` before its insert, or in a `dlclose` after its walk, backs nothing.
`Closing` covers the walk itself: it has freed a node, so that there are fewer nodes
than references, or the cursor has passed no node of the library being closed. Every
step either leaves both counts alone, adds one to each, or removes at least as many
nodes as references; the lemmas `PositionsRemove` and `PositionsInsert` turn list
operations into cardinalities. `LockDiscipline` is needed because the count of a walker
is right only if nobody else changes the list, and `RefsOwned` (two threads never work
on one reference of dlopen or dlclose) because a reference must be dropped once.
`UnlistedBeforeUnload` follows from the same counts: a node that is left needs a second
reference. `OpenIsListed` goes the other way and has its own invariant, `DueListed`: a
library that is not reopened has at most one reference, its node is on the list while
the process runs and no call works on that reference, and only `fini` takes it off.
`SearchIsSound` adds that a search starts at the head and that nobody else writes during
it. `InterceptedHolds` needs that a call for a traced name never gets past the branch
that answers it (`PastInterception`). `Refinement` maps each step to `Load`, `List`,
`Unlist`, `Unload` or a stutter: the interesting one is `CloseReal`, where `Counted`
shows that a library whose last reference goes is no longer listed.

The two locks. The invariant says that everything below the top of a stack is library
code (`Nested`), that the mutex is owned by the thread whose innermost call is between
a lock and an unlock (`MutexOwned`), and that the loader's lock excludes
(`LoaderOwned`). Lemmas on replacing, popping and pushing the top of a stack reduce
each action to what its two places hold. A deadlock then has one thread at "default",
the only place that has the mutex and wants the loader, and the other, which has the
loader's lock and wants the mutex, inside library code.

The tracer. A counter is tied to its true value by what the threads have loaded and
not yet stored. `CounterInv` says: only a thread at an update it is going to make
holds a value (`LoadedAtCounter`); counters and held values lie between zero and
the true count (`Bounded`); for a function not yet raced, the counter is exact,
a held value equals it, and at most one thread holds each field (`ExactSoFar`).
Steps that leave the counters alone are one lemma (`QuietStep`), the read and the
write half one each. `FlushedBeforeCall` is about the sequences: each of the seven has
its call right after a flush (`SequencesBracketed`, by splitting it into pieces that
hold no call), every function's sequence is one of the seven (`ScriptSequences`), and
the rest of a sequence stays clean while it is worked off and other threads fill and
flush the buffer (`CleanSoFar`).

The other properties of the tracer are about the order of operations too, and rest on
one set of lemmas. `Never(s, A)`, `Order(s, A, B)` and `Before(s, A, B)` say that s has
no operation of A, none of A after one of B, and one of A before each of B; each
is kept by the tail of a sequence (`Executed`), and each is known of a concatenation
from its parts (`NeverConcat`, `OrderConcat`, `BeforeConcat`). All seven sequences are
an opening, a middle with the call, and an ending (`Frames`); so what is proved of the
three parts holds of the 101 functions (`ScriptOrder`). Three invariants then say what
the rest of a sequence still has to do, given what the thread's locals hold:

* `TimeInv`: until the clock is read the first time nothing has been spent inside the
  library; between the two readings the clock is ahead of the first by at least that; after
  the second the difference is, and the call does not come any more.
* `LineInv`: a thread has ended its line, or is in the middle of the only one; the
  brackets in the line and those the rest still prints are one of each, and the line
  begins with the timestamp or the timestamp is what comes next. This needs
  `Sequential`, that no two calls overlap: the properties are false otherwise, as lines
  of two threads mix. `Tracer_all` checks `LinesPrefixed` and `LineIsACall` with one
  thread, the theorems have any number that take turns.
* `AccountInv`: the errors due to a function and the calls of it that have failed and are
  yet to be counted (`Owing`, a set of threads) add up to the failures, or to no more if
  the code comes through a pointer. With the counters exact while no update was lost
  (`CounterInv`), and nobody owing when all is idle, the errors are the failures.

The tables. Each is given in pieces. `MergeEntry` says that an entry of the whole is an
entry of a piece, so that facts are proved piece by piece: `Covers` compares the table of
each printed type with the values of `cl.h` (and `CommonIsCore` the other way round),
`CallsTell` sorts the wrappers by how they learn the error code, `ApiDeclared` the
declarations, `TypedefWays` the typedefs. `WrapperPerFunction` and `FunctionPerWrapper`
show that the 101 wrappers are the functions of `cl.h`, no fewer and no more;
`CodesAreLearned` puts the four together for each of them. That a looked-up code is
shown by a name exactly if `cl.h` defines it is `CodesNamed`. The invariant `PrintInv`
adds that what was seen last is what the table has (`Looked`), and that only printed
types are left to print.

The summary. A row is tied to the truth as a counter of the tracer is: it is never ahead
of it, and equal to it while no two updates of its function have overlapped (`Faithful`).
That is inductive only with what threads hold between load and store (`Loaded`, `Held`):
nothing negative, nothing ahead of the truth, and as long as the function is not raced
the truth itself, held by nobody else. Until the sort the row of a function is its own
(`Bookkept`); after it, unless an update was late, the rows of the called functions are
all there, once each, in descending order, and those printed are the ones before the
cursor (`Permuted`). `Summed` says that while nothing is late the partial sum is at least
the seconds of each row added, and not negative; that is what bounds a percentage, and it
needs no sum over the set of rows, and no row that is exact.
The total of calls does need one. It is the recursive function `CallsUpTo`, and the
invariant `Tallied` says of the loop of `fini` that what it has added is no more than the
true calls of the rows passed, and, unless updates overlapped, with those of the rows to
come no less than there were when `fini` began, while any row may still grow.

Initialisation. `Filled` describes the loop of `init` and ties `libopencl_handle` to its
end, so that no lookup of `init` is answered with a wrapper. `TakenDown` says what is
set and what is closed in each phase. `EarlyCalls` and `Named` follow a call that
straddles `init`. `HarmExplained` then covers each use that can go wrong.

The launcher. `FileIsOneTrace` is made inductive by two facts: a process that has run no
constructor has written nothing (`NothingYet`), and two processes with the same file
open are neither of them alone (`StillAlone`). `Put` at the end of a sequence is an
append. `NestingConcatenates` is about options of any number of command lines, one
after the other (`Together`, a recursive function). Its invariant `Nested` says of a
launcher in the middle of its options that setting what it has parsed, over the
environment it found, gives what all options so far give together: the step is that
parsing one more option and setting the environment commute (`SetenvParse`).
`TraceGoesWhereAsked` follows with `Directed`: an open file is the one the environment
names, and who has written was, and stays, a program whose options are all parsed.

Recursion. The library's induction theorems have a predicate as a parameter, which the
backends cannot instantiate. `Induction` states what is needed with a set in its place:
a set that has 0 and every successor has all numbers (`NaturalInduction`), and a
recursion that climbs by one has a solution (`RecursionSolved`), from which the equations
of `CallsUpTo` and `Together` follow.

Only model-checked:

* `LockReleased` and `FiniCompletes`: liveness under fairness is beyond the backends;
* the three runs that expect a violation: their properties are false, and a
  counterexample is what they show.

That the seven sequences and the tables are those of the source is beyond any proof:
they were transcribed, and compared entry by entry.

## Not modelled

* `cl2.hpp`, more than half of the lines under `src/`: a vendored C++ binding that
  nothing in the program includes. `cl_platform.h` and `include/CL/opencl.h`: types of
  each compiler, and includes.
* The text of names, numbers and pointers. Printing one of them is one step of output;
  that 64-bit values are printed with `%d` is listed as a hazard.
* `RTLD_NEXT`, which the shim passes to the loader from its own place in the search
  order (ocltrace.c:300); a program that forks without exec and so shares the offset of
  the file; `readlink` of a path that does not fit (375).
* `-v` beyond the environment: nothing reads `OCLTRACE_VERBOSE`.
* A malicious or broken program: one that uses a closed handle or frees memory it does
  not own.

The option text (ocltrace.c:74) says that `-o` replaces standard output; without it the
trace goes to stderr (172), which is what the models have.

What could follow: `DlShim` with `RTLD_NEXT` as a handle of its own; `Tracer` as an
implementation of a specification of what one call prints.
