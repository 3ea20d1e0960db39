------------------------------- MODULE Tracer -------------------------------
(***************************************************************************)
(* The wrappers of opencl.c at run time: threads of the traced program     *)
(* call OpenCL functions, and each call executes the operations module     *)
(* Wrappers lists for its function, one at a time and interleaved with the *)
(* other threads.  There is no mutex here: the output stream is protected  *)
(* only by stdio, per call of fputs or fflush, and func_stats not at all,  *)
(* so every update of it is a load and a later store.                      *)
(*                                                                         *)
(* The real OpenCL library is external: between "enter" and "leave" it     *)
(* takes any time and succeeds or fails.  The behaviour starts after       *)
(* init() has set the options.                                             *)
(***************************************************************************)
EXTENDS Integers, Sequences, FiniteSets, Wrappers

CONSTANTS
  Thread,       \* the threads that call OpenCL
  Function,     \* the functions they call, a subset of FuncNames
  MaxCalls,     \* bound: calls in a behaviour
  MaxTime,      \* bound: ticks of time in a behaviour
  NoFunction, Nothing

ASSUME FunctionAssumption == Function \subseteq FuncNames /\ NoFunction \notin FuncNames
ASSUME NothingAssumption == Nothing \notin Int
ASSUME BoundAssumption == MaxCalls \in Nat /\ MaxTime \in Nat

Counter == {"calls", "errors", "seconds"}
Text    == {"prefix", "name", "open", "args", "close", "ret", "pointer", "spent"}
Codes   == {"result", "resultptr", "argument", "unset"}
Op == Text \union Codes \union Counter
        \union {"flush", "start", "stop", "enter", "leave", "eol"}

VARIABLES
  todo,     \* the operations each thread still has to execute
  fn,       \* the function each thread is in
  loaded,   \* the counter a thread has read and not yet written back, or Nothing
  frame,    \* the locals of each call
  line,     \* the text after the last newline of the stream
  pending,  \* the threads with text in the stdio buffer that is not in the file
  stats,    \* func_stats
  due,      \* history: what func_stats would be if no update were lost
  raced,    \* history: functions of which two updates overlapped
  failed,   \* history: how many calls of a function returned an error
  begun,    \* history: calls so far
  time,     \* ticks so far
  clock,    \* what CLOCK_REALTIME shows
  died      \* has printing a code ended the process?

vars == <<todo, fn, loaded, frame, line, pending, stats, due, raced, failed,
          begun, time, clock, died>>

\* start: e->start_time; elapsed: diff of emit_end;
\* inside: ticks spent in the real function; result: does it succeed,
\* and if not, has error_codes a name for the code; given:
\* did the program pass a pointer for the error code; shown: the last code
\* printed ("none": a NULL pointer was)
Outcome == {"ok", "error", "unnamed"}
Frame == [start : Int, elapsed : Int, inside : Nat, given : BOOLEAN,
          result : Outcome, shown : Outcome \union {"none"}]

NewFrame(given) == [start |-> 0, elapsed |-> 0, inside |-> 0, given |-> given,
                    result |-> "ok", shown |-> "none"]

Line == [first : Text \union Codes \union {"none"}, opened : Nat, closed : Nat]

EmptyLine == [first |-> "none", opened |-> 0, closed |-> 0]

Zero == [f \in Function |-> [c \in Counter |-> 0]]

TypeOK ==
  /\ todo \in [Thread -> Seq(Op)]
  /\ fn \in [Thread -> Function \union {NoFunction}]
  /\ loaded \in [Thread -> Int \union {Nothing}]
  /\ frame \in [Thread -> Frame]
  /\ line \in Line
  /\ pending \subseteq Thread
  /\ stats \in [Function -> [Counter -> Int]]
  /\ due \in [Function -> [Counter -> Int]]
  /\ raced \subseteq Function
  /\ failed \in [Function -> Nat]
  /\ begun \in Nat /\ time \in Nat /\ clock \in Int /\ died \in BOOLEAN

Init ==
  /\ todo = [t \in Thread |-> <<>>]
  /\ fn = [t \in Thread |-> NoFunction]
  /\ loaded = [t \in Thread |-> Nothing]
  /\ frame = [t \in Thread |-> NewFrame(TRUE)]
  /\ line = EmptyLine
  /\ pending = {}
  /\ stats = Zero
  /\ due = Zero
  /\ raced = {}
  /\ failed = [f \in Function |-> 0]
  /\ begun = 0 /\ time = 0 /\ clock = 0 /\ died = FALSE

Idle(t) == todo[t] = <<>>
At(t, ops) == ~Idle(t) /\ Head(todo[t]) \in ops
Advance(t) == todo' = [todo EXCEPT ![t] = Tail(@)]

-----------------------------------------------------------------------------
(* A call of a wrapper begins.                                             *)
Begin(t) == \E f \in Function, given \in BOOLEAN :
  /\ Idle(t)
  /\ begun < MaxCalls
  /\ begun' = begun + 1
  /\ todo' = [todo EXCEPT ![t] = Script[f]]
  /\ fn' = [fn EXCEPT ![t] = f]
  /\ frame' = [frame EXCEPT ![t] = NewFrame(given)]
  /\ UNCHANGED <<loaded, line, pending, stats, due, raced, failed, time, clock, died>>

-----------------------------------------------------------------------------
(* Output                                                                  *)

\* One fputs or fprintf: it goes into the buffer, after whatever is there.
Put(t, op) ==
  /\ line' = [first  |-> IF line.first = "none" THEN op ELSE line.first,
              opened |-> line.opened + (IF op = "open" THEN 1 ELSE 0),
              closed |-> line.closed + (IF op = "close" THEN 1 ELSE 0)]
  /\ pending' = pending \union {t}

Emit(t) ==
  /\ At(t, Text)
  /\ Put(t, Head(todo[t]))
  /\ Advance(t)
  /\ UNCHANGED <<fn, loaded, frame, stats, due, raced, failed, begun, time, clock, died>>

\* fputs("\n", fout)
Newline(t) ==
  /\ At(t, {"eol"})
  /\ line' = EmptyLine
  /\ pending' = pending \union {t}
  /\ Advance(t)
  /\ UNCHANGED <<fn, loaded, frame, stats, due, raced, failed, begun, time, clock, died>>

\* fflush(fout) writes out what all threads have put into the buffer.
FlushOut(t) ==
  /\ At(t, {"flush"})
  /\ pending' = {}
  /\ Advance(t)
  /\ UNCHANGED <<fn, loaded, frame, line, stats, due, raced, failed, begun, time, clock, died>>

\* Seeded fault: *x is printed though x is NULL.
CodeShown_NoNullCheck(t, op) ==
  IF op = "resultptr" /\ ~frame[t].given THEN {"garbage"} ELSE {frame[t].result}

\* What emit_cl_int and emit_cl_int_ptr are given to print: the result of the
\* call, the memory behind a pointer the call has set or not yet, an argument
\* of the program's choice.
CodeShown(t, op) ==
  CASE op = "result"    -> {frame[t].result}
    [] op = "resultptr" -> {IF frame[t].given THEN frame[t].result ELSE "none"}
    [] op = "argument"  -> Outcome
    [] op = "unset"     -> Outcome \union {"none"}

\* emit_cl_int and emit_cl_int_ptr, up to the error count.  The index of a code
\* without a name meets a hole of error_codes or memory outside it: the process
\* dies, or something is printed.
EmitCode(t) == \E x \in Codes :
  /\ At(t, {x})
  /\ \E shown \in CodeShown(t, x) :
       /\ frame' = [frame EXCEPT ![t].shown = shown]
       /\ died' \in IF shown = "unnamed" THEN BOOLEAN ELSE {FALSE}
  /\ Put(t, x)
  /\ Advance(t)
  /\ UNCHANGED <<fn, loaded, stats, due, raced, failed, begun, time, clock>>

-----------------------------------------------------------------------------
(* Statistics                                                              *)

\* Seeded fault: errors++ when the code is CL_SUCCESS.
Counts_Success(t, c) == c = "errors" => frame[t].shown = "ok"

\* calls++ always, errors++ if the code just printed is not 0, seconds +=
\* diff always
Counts(t, c) == c = "errors" => frame[t].shown \in {"error", "unnamed"}
Amount(t, c) == IF c = "seconds" THEN frame[t].elapsed ELSE 1

\* the other threads half-way through an update of the same field
Overlaps(t, c) == \E u \in Thread \ {t} :
  loaded[u] # Nothing /\ fn[u] = fn[t] /\ Head(todo[u]) = c

\* emit_cl_int: no error, nothing to count
SkipCount(t) == \E c \in Counter :
  /\ At(t, {c})
  /\ ~Counts(t, c)
  /\ Advance(t)
  /\ UNCHANGED <<fn, loaded, frame, line, pending, stats, due, raced, failed,
                 begun, time, clock, died>>

\* Seeded fault: every counter continues from "calls".
Load_Calls(t) == \E c \in Counter :
  /\ At(t, {c})
  /\ Counts(t, c)
  /\ loaded[t] = Nothing
  /\ loaded' = [loaded EXCEPT ![t] = stats[fn[t]]["calls"]]
  /\ raced' = IF Overlaps(t, c) THEN raced \union {fn[t]} ELSE raced
  /\ UNCHANGED <<todo, fn, frame, line, pending, stats, due, failed, begun, time, clock, died>>

\* Seeded fault: the old value is not read.
Load_Zero(t) == \E c \in Counter :
  /\ At(t, {c})
  /\ Counts(t, c)
  /\ loaded[t] = Nothing
  /\ loaded' = [loaded EXCEPT ![t] = 0]
  /\ raced' = IF Overlaps(t, c) THEN raced \union {fn[t]} ELSE raced
  /\ UNCHANGED <<todo, fn, frame, line, pending, stats, due, failed, begun, time, clock, died>>

\* the read half of an update of func_stats[e->name]
Load(t) == \E c \in Counter :
  /\ At(t, {c})
  /\ Counts(t, c)
  /\ loaded[t] = Nothing
  /\ loaded' = [loaded EXCEPT ![t] = stats[fn[t]][c]]
  /\ raced' = IF Overlaps(t, c) THEN raced \union {fn[t]} ELSE raced
  /\ UNCHANGED <<todo, fn, frame, line, pending, stats, due, failed, begun, time, clock, died>>

\* Seeded fault: the old value is written back (x = x++).
Store_Old(t) == \E c \in Counter :
  /\ At(t, {c})
  /\ loaded[t] # Nothing
  /\ stats' = [stats EXCEPT ![fn[t]][c] = loaded[t]]
  /\ due' = [due EXCEPT ![fn[t]][c] = @ + Amount(t, c)]
  /\ loaded' = [loaded EXCEPT ![t] = Nothing]
  /\ Advance(t)
  /\ UNCHANGED <<fn, frame, line, pending, raced, failed, begun, time, clock, died>>

\* the write half
Store(t) == \E c \in Counter :
  /\ At(t, {c})
  /\ loaded[t] # Nothing
  /\ stats' = [stats EXCEPT ![fn[t]][c] = loaded[t] + Amount(t, c)]
  /\ due' = [due EXCEPT ![fn[t]][c] = @ + Amount(t, c)]
  /\ loaded' = [loaded EXCEPT ![t] = Nothing]
  /\ Advance(t)
  /\ UNCHANGED <<fn, frame, line, pending, raced, failed, begun, time, clock, died>>

-----------------------------------------------------------------------------
(* The clock and the real function                                         *)

\* clock_gettime(CLOCK_REALTIME) in emit_open
StartClock(t) ==
  /\ At(t, {"start"})
  /\ frame' = [frame EXCEPT ![t].start = clock]
  /\ Advance(t)
  /\ UNCHANGED <<fn, loaded, line, pending, stats, due, raced, failed, begun, time, clock, died>>

\* Seeded fault: the difference the wrong way round.
StopClock_Swapped(t) ==
  /\ At(t, {"stop"})
  /\ frame' = [frame EXCEPT ![t].elapsed = frame[t].start - clock]
  /\ Advance(t)
  /\ UNCHANGED <<fn, loaded, line, pending, stats, due, raced, failed, begun, time, clock, died>>

\* clock_gettime(CLOCK_REALTIME) in emit_end
StopClock(t) ==
  /\ At(t, {"stop"})
  /\ frame' = [frame EXCEPT ![t].elapsed = clock - frame[t].start]
  /\ Advance(t)
  /\ UNCHANGED <<fn, loaded, line, pending, stats, due, raced, failed, begun, time, clock, died>>

Enter(t) ==
  /\ At(t, {"enter"})
  /\ Advance(t)
  /\ UNCHANGED <<fn, loaded, frame, line, pending, stats, due, raced, failed,
                 begun, time, clock, died>>

Leave(t) == \E result \in Outcome :
  /\ At(t, {"leave"})
  /\ frame' = [frame EXCEPT ![t].result = result]
  /\ failed' = IF result # "ok" THEN [failed EXCEPT ![fn[t]] = @ + 1] ELSE failed
  /\ Advance(t)
  /\ UNCHANGED <<fn, loaded, line, pending, stats, due, raced, begun, time, clock, died>>

\* Time passes, and CLOCK_REALTIME follows it: nobody sets it back.
Tick ==
  /\ time < MaxTime
  /\ time' = time + 1
  /\ clock' = clock + 1
  /\ frame' = [t \in Thread |-> IF At(t, {"leave"})
                                THEN [frame[t] EXCEPT !.inside = @ + 1] ELSE frame[t]]
  /\ UNCHANGED <<todo, fn, loaded, line, pending, stats, due, raced, failed, begun, died>>

-----------------------------------------------------------------------------
Step(t) ==
  \/ Begin(t) \/ Emit(t) \/ Newline(t) \/ FlushOut(t) \/ EmitCode(t)
  \/ SkipCount(t) \/ Load(t) \/ Store(t)
  \/ StartClock(t) \/ StopClock(t) \/ Enter(t) \/ Leave(t)

\* All calls of the behaviour have returned, or the process is gone.
Finished ==
  /\ died \/ (begun = MaxCalls /\ \A t \in Thread : Idle(t))
  /\ UNCHANGED vars

Next == (~died /\ ((\E t \in Thread : Step(t)) \/ Tick)) \/ Finished

Spec == Init /\ [][Next]_vars

-----------------------------------------------------------------------------
(* Properties                                                              *)

\* When control is in the real library, everything this call has printed is in
\* the file: if the library crashes or hangs there, the trace names the call
\* and its arguments (the emit_flush before, or the emit_close).
FlushedBeforeCall == \A t \in Thread : At(t, {"enter", "leave"}) => t \notin pending

\* No counter of func_stats runs ahead of what happened, however updates overlap.
NoOvercount == \A f \in Function : \A c \in {"calls", "errors"} : stats[f][c] <= due[f][c]

\* A function that was called is in the summary (ocltrace.c:242, 252): lost
\* updates never take its counter back to zero.
CalledIsListed == \A f \in Function : due[f]["calls"] > 0 => stats[f]["calls"] > 0

\* Updates are lost only when two of them overlap.
ExactUnlessRaced == \A f \in Function \ raced : stats[f] = due[f]

\* "Count time and calls for each func call and report a summary"
\* (ocltrace.c:80): once all calls have returned, func_stats has all of them.
CountsExact == (\A t \in Thread : Idle(t)) => stats = due

ReturnsStatus == {f \in Function : Script[f] \in {Status, Event, SVMFree}}
AllReturned == raced = {} /\ \A t \in Thread : Idle(t)

\* The summary's "errors" (ocltrace.c:237; there is one with -c and -C only) of a
\* function that returns a status are the calls that failed; those of a function
\* that stores its error code through a pointer are no more than that, as the
\* pointer may be NULL.  Left out are the functions that print another cl_int:
\* Event and Binary of Wrappers.
ErrorsAreFailures == EmitStats /\ AllReturned => \A f \in Function :
  /\ f \in ReturnsStatus /\ Script[f] # Event => stats[f]["errors"] = failed[f]
  /\ Script[f] = Create => stats[f]["errors"] <= failed[f]

\* "Show the time spent in system calls" (ocltrace.c:78): the time printed and
\* added up covers the time spent in the real function, if nobody sets the clock
\* back meanwhile.
TimeCoversCall ==
  \A t \in Thread : At(t, {"spent", "seconds"}) => frame[t].elapsed >= frame[t].inside

\* "Prefix each line of the trace with timestamp" (ocltrace.c:77)
LinesPrefixed == EmitTime => line.first \in {"none", "prefix"}

Closed(t) == At(t, {"eol"}) => line.opened = 1 /\ line.closed = 1

\* A line shows one call: one argument list, opened and closed once
\* (all wrappers but clEnqueueSVMFree, opencl.c:2673).
LineIsACall == \A t \in Thread : fn[t] # "clEnqueueSVMFree" => Closed(t)
=============================================================================
