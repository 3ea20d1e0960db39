------------------------------- MODULE Summary -------------------------------
(***************************************************************************)
(* The summary of options -c and -C: the array func_stats that emit_open,  *)
(* emit_cl_int and emit_end fill (opencl.c), and the end of fini()         *)
(* (ocltrace.c:232-264) that adds it up, sorts it in place and prints it   *)
(* while threads of the program may still be inside OpenCL calls.          *)
(*                                                                         *)
(* A function is its index in func_names.  There is no mutex, so every     *)
(* `++' and `+=' is a load and a later store, as in module Tracer.  What   *)
(* is special here is that an update finds its row by the index, and the   *)
(* sort gives the index to another function.                               *)
(***************************************************************************)
EXTENDS Integers, FiniteSets, Functions

CONSTANTS
  N,            \* how many functions there are (FUNCTIONS_MAX)
  Thread,       \* threads of the program; one of them calls exit()
  Duration,     \* what a call may add to seconds, below 0 if the clock is set back
  MaxCalls,     \* bound: calls in a behaviour
  NoThread, NoCall, NoRow

ASSUME SizeAssumption == N \in Nat \ {0} /\ MaxCalls \in Nat /\ Duration \subseteq Int

Function == 1..N

ASSUME NothingAssumption == NoThread \notin Thread /\ NoCall \notin Function

VARIABLES
  stats,     \* func_stats
  call,      \* the function each thread is in, or NoCall
  stage,     \* how far its wrapper has come in updating func_stats
  loaded,    \* what it has read of the field it is updating, otherwise 0
  exiting,   \* the thread in fini, or NoThread
  phase,     \* where it is
  i,         \* its loop counter
  sum,       \* its variable of that name
  copy,      \* what qsort has read of the array
  printed,   \* the rows printed, by the index they were read from
  truth,     \* history: the figures of each function, were no update lost
  raced,     \* history: functions of which two updates of a field overlapped
  before,    \* history: the calls counted when fini began
  late,      \* history: has a row been updated since?
  setback    \* history: has a call taken less than no time?

vars == <<stats, call, stage, loaded, exiting, phase, i, sum, copy, printed,
          truth, raced, before, late, setback>>

Field == {"calls", "errors", "seconds"}
Stage == {"out", "named", "open", "counted"} \union Field

\* struct stats; every row begins as all zeroes, so with the first function's name
Row  == [name : Function, calls : Nat, errors : Nat, seconds : Int]
Zero == [name |-> 1, calls |-> 0, errors |-> 0, seconds |-> 0]

ASSUME NoRowAssumption == NoRow \notin Row

Figures == [calls : Nat, errors : Nat, seconds : Int]
Nought  == [calls |-> 0, errors |-> 0, seconds |-> 0]

\* the calls of the first k functions, and of all of them
CallsUpTo(rows) == LET upto[k \in 0..N] == IF k = 0 THEN 0 ELSE upto[k - 1] + rows[k].calls
                   IN  upto
TotalCalls == CallsUpTo(truth)[N]

TypeOK ==
  /\ stats \in [Function -> Row]
  /\ call \in [Thread -> Function \union {NoCall}]
  /\ stage \in [Thread -> Stage]
  /\ loaded \in [Thread -> Int]
  /\ exiting \in Thread \union {NoThread}
  /\ phase \in {"running", "totals", "sort", "sorting", "rows", "done"}
  /\ i \in 1..(N + 1)
  /\ sum \in Figures
  /\ copy \in [Function -> Row]
  /\ printed \in [Function -> Row \union {NoRow}]
  /\ truth \in [Function -> Figures]
  /\ raced \subseteq Function
  /\ late \in BOOLEAN /\ setback \in BOOLEAN
  /\ \A t \in Thread : stage[t] # "out" => call[t] # NoCall /\ t # exiting

Init ==
  /\ stats = [f \in Function |-> Zero]
  /\ call = [t \in Thread |-> NoCall]
  /\ stage = [t \in Thread |-> "out"]
  /\ loaded = [t \in Thread |-> 0]
  /\ exiting = NoThread /\ phase = "running" /\ i = 1 /\ sum = Nought
  /\ copy = [f \in Function |-> Zero]
  /\ printed = [f \in Function |-> NoRow]
  /\ truth = [f \in Function |-> Nought]
  /\ raced = {}
  /\ before = 0 /\ late = FALSE /\ setback = FALSE

-----------------------------------------------------------------------------
(* The wrappers, as far as they touch func_stats                           *)

Late == late' = (late \/ exiting # NoThread)

\* emit_open: func_stats[name].name = name
Open(t) == \E f \in Function :
  /\ t # exiting /\ phase # "done"
  /\ TotalCalls + Cardinality({u \in Thread : stage[u] \in {"named", "calls"}}) < MaxCalls
  /\ stage[t] = "out"
  /\ stage' = [stage EXCEPT ![t] = "named"]
  /\ call' = [call EXCEPT ![t] = f]
  /\ stats' = [stats EXCEPT ![f].name = f]
  /\ Late
  /\ UNCHANGED <<loaded, exiting, phase, i, sum, copy, printed, truth, raced, before,
                 setback>>

\* where a wrapper is when it comes to a field: emit_open, then emit_cl_int or
\* emit_cl_int_ptr if it printed an error, then emit_end
Precedes(c) == CASE c = "calls"   -> {"named"}
                 [] c = "errors"  -> {"open"}
                 [] c = "seconds" -> {"open", "counted"}

\* the other threads half-way through an update of the same field
Overlaps(t, c) == \E u \in Thread \ {t} : stage[u] = c /\ call[u] = call[t]

\* Seeded fault: the old value is not read.
Load_Zero(t) == \E c \in Field :
  /\ phase # "done"
  /\ stage[t] \in Precedes(c)
  /\ stage' = [stage EXCEPT ![t] = c]
  /\ raced' = IF Overlaps(t, c) THEN raced \union {call[t]} ELSE raced
  /\ Late
  /\ UNCHANGED <<stats, call, loaded, exiting, phase, i, sum, copy, printed, truth,
                 before, setback>>

\* the read half of an update of func_stats[e->name]
Load(t) == \E c \in Field :
  /\ phase # "done"
  /\ stage[t] \in Precedes(c)
  /\ stage' = [stage EXCEPT ![t] = c]
  /\ loaded' = [loaded EXCEPT ![t] = stats[call[t]][c]]
  /\ raced' = IF Overlaps(t, c) THEN raced \union {call[t]} ELSE raced
  /\ Late
  /\ UNCHANGED <<stats, call, exiting, phase, i, sum, copy, printed, truth, before,
                 setback>>

\* The write half: of the field c, by d more than was read.  It goes to the row
\* that has the index now.
Store(t, c, d, to) ==
  /\ phase # "done"
  /\ stage[t] = c
  /\ stage' = [stage EXCEPT ![t] = to]
  /\ stats' = [stats EXCEPT ![call[t]][c] = loaded[t] + d]
  /\ truth' = [truth EXCEPT ![call[t]][c] = @ + d]
  /\ loaded' = [loaded EXCEPT ![t] = 0]
  /\ Late
  /\ UNCHANGED <<exiting, phase, i, sum, copy, printed, raced, before>>

\* emit_open: func_stats[name].calls++
Count(t) == Store(t, "calls", 1, "open") /\ UNCHANGED <<call, setback>>

\* emit_cl_int, emit_cl_int_ptr: func_stats[e->name].errors++
Fail(t) == Store(t, "errors", 1, "counted") /\ UNCHANGED <<call, setback>>

\* emit_end: func_stats[e->name].seconds += diff
End(t) == \E d \in Duration :
  /\ Store(t, "seconds", d, "out")
  /\ call' = [call EXCEPT ![t] = NoCall]
  /\ setback' = (setback \/ d < 0)

-----------------------------------------------------------------------------
(* fini with emit_stats set                                                *)

\* the program calls exit(), and fini comes to the summary
Exit(t) ==
  /\ phase = "running" /\ stage[t] = "out"
  /\ exiting' = t
  /\ phase' = "totals"
  /\ before' = TotalCalls
  /\ UNCHANGED <<stats, call, stage, loaded, i, sum, copy, printed, truth, raced, late,
                 setback>>

\* Seeded fault: = for += in the seconds.
AddUp_Assigns ==
  /\ phase = "totals" /\ i <= N
  /\ sum' = IF stats[i].calls = 0 THEN sum
            ELSE [calls   |-> sum.calls + stats[i].calls,
                  errors  |-> sum.errors + stats[i].errors,
                  seconds |-> stats[i].seconds]
  /\ i' = i + 1
  /\ UNCHANGED <<stats, call, stage, loaded, exiting, phase, copy, printed, truth, raced,
                 before, late, setback>>

\* one turn of the loop that adds up; a row without calls is passed over
AddUp ==
  /\ phase = "totals" /\ i <= N
  /\ sum' = IF stats[i].calls = 0 THEN sum
            ELSE [calls   |-> sum.calls + stats[i].calls,
                  errors  |-> sum.errors + stats[i].errors,
                  seconds |-> sum.seconds + stats[i].seconds]
  /\ i' = i + 1
  /\ UNCHANGED <<stats, call, stage, loaded, exiting, phase, copy, printed, truth, raced,
                 before, late, setback>>

AddedUp ==
  /\ phase = "totals" /\ i > N
  /\ phase' = "sort"
  /\ UNCHANGED <<stats, call, stage, loaded, exiting, i, sum, copy, printed, truth, raced,
                 before, late, setback>>

\* qsort reads the array, and later writes it back in another order
SortRead ==
  /\ phase = "sort"
  /\ copy' = stats
  /\ phase' = "sorting"
  /\ UNCHANGED <<stats, call, stage, loaded, exiting, i, sum, printed, truth, raced,
                 before, late, setback>>

\* Seeded fault: the comparison the other way round.
Sorted_Ascending(rows, p) ==
  \A j, k \in Function : j < k => rows[p[j]].seconds <= rows[p[k]].seconds

\* stats_cmp: the most seconds first, equal ones in any order
Sorted(rows, p) ==
  \A j, k \in Function : j < k => rows[p[j]].seconds >= rows[p[k]].seconds

\* Seeded fault: only the first element moves, a copy of it is left behind.
SortWrite_Copies == \E p \in [Function -> Function] :
  /\ phase = "sorting"
  /\ Sorted(copy, p)
  /\ stats' = [j \in Function |-> copy[p[j]]]
  /\ phase' = "rows"
  /\ i' = 1
  /\ UNCHANGED <<call, stage, loaded, exiting, sum, copy, printed, truth, raced,
                 before, late, setback>>

SortWrite == \E p \in Bijection(Function, Function) :
  /\ phase = "sorting"
  /\ Sorted(copy, p)
  /\ stats' = [j \in Function |-> copy[p[j]]]
  /\ phase' = "rows"
  /\ i' = 1
  /\ UNCHANGED <<call, stage, loaded, exiting, sum, copy, printed, truth, raced,
                 before, late, setback>>

\* Seeded fault: every other row.
PrintRow_Skips ==
  /\ phase = "rows" /\ i <= N
  /\ printed' = [printed EXCEPT ![i] = IF stats[i].calls # 0 THEN stats[i] ELSE NoRow]
  /\ i' = i + 2
  /\ UNCHANGED <<stats, call, stage, loaded, exiting, phase, sum, copy, truth, raced,
                 before, late, setback>>

\* one turn of the loop that prints the rows with calls
PrintRow ==
  /\ phase = "rows" /\ i <= N
  /\ printed' = [printed EXCEPT ![i] = IF stats[i].calls # 0 THEN stats[i] ELSE NoRow]
  /\ i' = i + 1
  /\ UNCHANGED <<stats, call, stage, loaded, exiting, phase, sum, copy, truth, raced,
                 before, late, setback>>

\* the line of the totals, and fini returns
PrintTotal ==
  /\ phase = "rows" /\ i > N
  /\ phase' = "done"
  /\ UNCHANGED <<stats, call, stage, loaded, exiting, i, sum, copy, printed, truth, raced,
                 before, late, setback>>

Ended == phase = "done" /\ UNCHANGED vars

Wrapper(t) == Open(t) \/ Load(t) \/ Count(t) \/ Fail(t) \/ End(t)
Fini == AddUp \/ AddedUp \/ SortRead \/ SortWrite \/ PrintRow \/ PrintTotal

Next == (\E t \in Thread : Wrapper(t) \/ Exit(t)) \/ Fini \/ Ended

Spec == Init /\ [][Next]_vars

-----------------------------------------------------------------------------
(* Properties                                                              *)

\* the figures a row shows
Shown(row) == [calls |-> row.calls, errors |-> row.errors, seconds |-> row.seconds]
Lines == {j \in Function : printed[j] # NoRow}
Quiet == phase = "done" /\ ~late

\* "Count time and calls for each func call and report a summary"
\* (ocltrace.c:80): if no thread was still tracing when fini came to the
\* summary, the functions that were called have one line each, with their own
\* name and figures, and no other line is printed.  The figures are exact unless
\* two updates of the function overlapped, and even then not too high.
SummaryExact == Quiet =>
  /\ \A j \in Lines : LET f == printed[j].name IN
       /\ printed[j].calls <= truth[f].calls /\ printed[j].errors <= truth[f].errors
       /\ f \notin raced => Shown(printed[j]) = truth[f]
  /\ \A f \in Function : truth[f].calls > 0 => \E j \in Lines : printed[j].name = f
  /\ \A j, k \in Lines : printed[j].name = printed[k].name => j = k

\* Then the lines are in the order of the time spent, the longest first
\* (stats_cmp, ocltrace.c:204-211).
SummarySorted == Quiet =>
  \A j, k \in Lines : j < k => printed[j].seconds >= printed[k].seconds

\* The calls of the last line (262) are no more than have been made, whatever
\* the threads still do, as the sums are taken before the sort.  They are no
\* fewer than when fini began unless two updates overlapped: a store of a stale
\* value takes back the calls counted meanwhile.
TotalInRange == phase \in {"sort", "sorting", "rows", "done"} =>
  /\ sum.calls <= TotalCalls
  /\ raced = {} => before <= sum.calls

\* A percentage (254) lies between 0 and 100 unless a thread was still tracing,
\* the clock was set back, or no time at all was measured (then it is 0/0).
\* Lost updates do not matter.
PercentSane == (Quiet /\ ~setback /\ sum.seconds # 0) =>
  \A j \in Lines : printed[j].seconds \in 0..sum.seconds
=============================================================================
