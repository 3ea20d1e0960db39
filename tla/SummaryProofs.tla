--------------------------- MODULE SummaryProofs ---------------------------
(***************************************************************************)
(* Theorems about Summary: if no thread is still tracing when fini comes   *)
(* to the summary, it has one line for each function called, in order,     *)
(* exact unless updates overlapped, with percentages that make sense, for  *)
(* any number of functions, threads and calls.                             *)
(***************************************************************************)
EXTENDS Summary, Induction

Unsorted == {"running", "totals", "sort", "sorting"}

\* fini is at work from the exit on, and only then is an update late.
Exiting == /\ phase = "running" <=> exiting = NoThread
           /\ late => exiting # NoThread
           /\ phase = "running" => i = 1 /\ sum = Nought

\* What lost updates leave of the figures of f.
Faithful(row, f) ==
  /\ row.calls <= truth[f].calls /\ row.errors <= truth[f].errors
  /\ f \notin raced => Shown(row) = truth[f]

\* Until the sort the row of a function is its own, and nothing is printed.
Bookkept == phase \in Unsorted =>
  /\ \A f \in Function : Faithful(stats[f], f)
  /\ \A f \in Function : truth[f].calls > 0 => stats[f].calls > 0 /\ stats[f].name = f
  /\ \A t \in Thread : stage[t] \in {"named", "calls"} => stats[call[t]].name = call[t]
  /\ \A f \in Function : printed[f] = NoRow

\* Nobody is about to take a counter below zero.
Loaded == \A t \in Thread : stage[t] \in {"calls", "errors"} => loaded[t] >= 0

\* Until the sort nobody is about to take a counter past the truth; and as long
\* as no two updates of a function overlap, the one under way has read the truth.
Held == phase \in Unsorted => \A t \in Thread : stage[t] \in Field =>
  /\ stage[t] \in {"calls", "errors"} => loaded[t] <= truth[call[t]][stage[t]]
  /\ call[t] \notin raced =>
       loaded[t] = truth[call[t]][stage[t]] /\ ~Overlaps(t, stage[t])

Copied == phase = "sorting" /\ ~late => copy = stats

\* After the sort the rows of the called functions are all there, once each, in
\* order; those before i are printed.
Permuted == phase \in {"rows", "done"} /\ ~late =>
  /\ \A j \in Function : stats[j].calls > 0 => Faithful(stats[j], stats[j].name)
  /\ \A j, k \in Function :
       stats[j].calls > 0 /\ stats[k].calls > 0 /\ stats[j].name = stats[k].name => j = k
  /\ \A f \in Function :
       truth[f].calls > 0 => \E j \in Function : stats[j].calls > 0 /\ stats[j].name = f
  /\ \A j, k \in Function : j < k => stats[j].seconds >= stats[k].seconds
  /\ \A j \in Function :
       printed[j] = IF j < i /\ stats[j].calls # 0 THEN stats[j] ELSE NoRow
  /\ phase = "done" => i > N

Nonnegative == ~setback =>
  /\ \A f \in Function : stats[f].seconds >= 0 /\ copy[f].seconds >= 0
  /\ \A t \in Thread : stage[t] = "seconds" => loaded[t] >= 0

\* No function has taken longer than the sum of those added up so far.
Summed == ~setback /\ ~late /\ phase # "running" =>
  /\ sum.seconds >= 0
  /\ \A f \in Function : (phase = "totals" => f < i) /\ stats[f].calls > 0
                           => stats[f].seconds <= sum.seconds

Inv == TypeOK /\ Exiting /\ Bookkept /\ Loaded /\ Held /\ Copied /\ Permuted
         /\ Nonnegative /\ Summed

-----------------------------------------------------------------------------
LEMMA Initially == Init => Inv
<1>. SUFFICES ASSUME Init PROVE Inv
  OBVIOUS
<1>. USE SizeAssumption, NothingAssumption DEF Init, Function
<1>1. Zero \in Row /\ Nought \in Figures
  BY DEF Zero, Row, Nought, Figures
<1>2. TypeOK
  <2>1. late \in BOOLEAN /\ setback \in BOOLEAN
    BY Zenon
  <2>2. i \in 1..(N + 1)
    OBVIOUS
  <2>3. /\ stats \in [Function -> Row] /\ copy \in [Function -> Row]
        /\ truth \in [Function -> Figures] /\ sum \in Figures
        /\ printed \in [Function -> Row \union {NoRow}]
    BY <1>1, Zenon
  <2>4. /\ call \in [Thread -> Function \union {NoCall}]
        /\ stage \in [Thread -> Stage] /\ loaded \in [Thread -> Int]
        /\ \A t \in Thread : stage[t] = "out"
    BY DEF Stage
  <2>5. exiting = NoThread /\ phase = "running" /\ raced \subseteq Function
    OBVIOUS
  <2>. HIDE DEF Init, Function
  <2>. QED
    BY <2>1, <2>2, <2>3, <2>4, <2>5 DEF TypeOK
<1>3. Exiting /\ Copied /\ Permuted
  BY DEF Exiting, Copied, Permuted
<1>4. Bookkept /\ Loaded /\ Held
  BY DEF Bookkept, Loaded, Held, Faithful, Shown, Zero, Nought, Field
<1>5. Nonnegative /\ Summed
  BY DEF Nonnegative, Summed, Nought, Zero
<1>. QED
  BY <1>2, <1>3, <1>4, <1>5 DEF Inv

-----------------------------------------------------------------------------
(* The wrappers.  A step of one of them after the exit is late, so that    *)
(* nothing is claimed of the rest of the summary.                          *)

LEMMA LateIsBoolean == Late => late' \in BOOLEAN
BY Zenon DEF Late

LEMMA Lateness ==
  ASSUME Inv, Late, UNCHANGED <<exiting, phase, i, sum, printed>>
  PROVE  /\ Exiting'
         /\ ~late' => ~late /\ phase = "running" /\ phase' = "running"
         /\ Copied' /\ Permuted' /\ Summed'
<1>1. Exiting'
  BY DEF Inv, TypeOK, Exiting, Late
<1>2. ~late' => ~late /\ phase = "running" /\ phase' = "running"
  BY DEF Inv, TypeOK, Exiting, Late
<1>. QED
  BY <1>1, <1>2 DEF Copied, Permuted, Summed

LEMMA OpenStep ==
  ASSUME Inv, NEW t \in Thread, Open(t)
  PROVE  Inv'
<1>1. PICK f \in Function :
        /\ t # exiting /\ stage[t] = "out" /\ stage' = [stage EXCEPT ![t] = "named"]
        /\ call' = [call EXCEPT ![t] = f] /\ stats' = [stats EXCEPT ![f].name = f]
        /\ Late
        /\ UNCHANGED <<loaded, exiting, phase, i, sum, copy, printed, truth, raced,
                       before, setback>>
  BY DEF Open
<1>2. Exiting' /\ Copied' /\ Permuted' /\ Summed'
  BY <1>1, Lateness
<1>3. stats' \in [Function -> Row] /\ \A g \in Function : Shown(stats'[g]) = Shown(stats[g])
  BY <1>1 DEF Inv, TypeOK, Row, Shown
<1>4. \A g \in Function : /\ stats'[g].calls = stats[g].calls
                          /\ stats'[g].errors = stats[g].errors
                          /\ stats'[g].seconds = stats[g].seconds
  BY <1>3 DEF Shown
<1>5. /\ \A u \in Thread \ {t} : call'[u] = call[u] /\ stage'[u] = stage[u]
      /\ call'[t] = f /\ stage'[t] = "named" /\ stage[t] = "out"
      /\ call' \in [Thread -> Function \union {NoCall}] /\ stage' \in [Thread -> Stage]
  BY <1>1 DEF Inv, TypeOK, Stage
<1>6. TypeOK'
  <2>1. \A u \in Thread : stage'[u] # "out" => call'[u] # NoCall /\ u # exiting'
    BY <1>1, <1>5, NothingAssumption DEF Inv, TypeOK
  <2>2. late' \in BOOLEAN /\ setback' \in BOOLEAN
    BY <1>1, LateIsBoolean, Zenon DEF Inv, TypeOK
  <2>. QED
    BY <1>1, <1>3, <1>5, <2>1, <2>2 DEF Inv, TypeOK
<1>7. Bookkept'
  <2>1. /\ stats'[f].name = f
        /\ \A g \in Function \ {f} : stats'[g] = stats[g]
    BY <1>1 DEF Inv, TypeOK, Row
  <2>2. \A u \in Thread : stage[u] \in {"named", "calls"} => call[u] \in Function
    BY DEF Inv, TypeOK
  <2>3. \A g \in Function : Faithful(stats[g], g) => Faithful(stats[g], g)'
    BY <1>1, <1>3, <1>4 DEF Faithful
  <2>. QED
    BY <1>1, <1>4, <1>5, <2>1, <2>2, <2>3 DEF Inv, Bookkept
<1>8. Loaded' /\ Held'
  <2>1. \A u \in Thread : stage'[u] \in Field =>
          u # t /\ stage[u] = stage'[u] /\ call[u] = call'[u]
    BY <1>5 DEF Field
  <2>2. \A u \in Thread : \A c \in Field : Overlaps(u, c)' => Overlaps(u, c) \/ u = t
    BY <1>5 DEF Overlaps, Field
  <2>3. Loaded'
    BY <1>1, <2>1 DEF Inv, Loaded, Field
  <2>4. Held'
    BY <1>1, <2>1, <2>2 DEF Inv, Held
  <2>. QED
    BY <2>3, <2>4
<1>9. Nonnegative'
  <2>1. \A u \in Thread : stage'[u] = "seconds" => stage[u] = "seconds"
    BY <1>5
  <2>. QED
    BY <1>1, <1>4, <2>1 DEF Inv, Nonnegative
<1>. QED
  BY <1>2, <1>6, <1>7, <1>8, <1>9 DEF Inv

LEMMA LoadStep ==
  ASSUME Inv, NEW t \in Thread, Load(t)
  PROVE  Inv'
<1>. DEFINE f == call[t]
<1>1. PICK c \in Field :
        /\ stage[t] \in Precedes(c) /\ stage' = [stage EXCEPT ![t] = c]
        /\ loaded' = [loaded EXCEPT ![t] = stats[f][c]]
        /\ raced' = IF Overlaps(t, c) THEN raced \union {f} ELSE raced
        /\ Late
        /\ UNCHANGED <<stats, call, exiting, phase, i, sum, copy, printed, truth,
                       before, setback>>
  BY DEF Load
<1>2. Exiting' /\ Copied' /\ Permuted' /\ Summed'
  BY <1>1, Lateness
<1>3. /\ stage[t] \in {"named", "open", "counted"}
      /\ c = "calls" => stage[t] = "named"
  BY <1>1 DEF Precedes, Field
<1>4. /\ f \in Function /\ t # exiting
      /\ stats[f] \in Row /\ truth[f] \in Figures
  BY <1>3 DEF Inv, TypeOK
<1>5. /\ stats[f][c] \in Int /\ truth[f][c] \in Int
      /\ c # "seconds" => stats[f][c] \in Nat
  BY <1>4 DEF Row, Figures, Field
<1>6. /\ \A u \in Thread \ {t} : loaded'[u] = loaded[u] /\ stage'[u] = stage[u]
      /\ loaded'[t] = stats[f][c] /\ stage'[t] = c
      /\ loaded' \in [Thread -> Int] /\ stage' \in [Thread -> Stage]
  BY <1>1, <1>5 DEF Inv, TypeOK, Stage
<1>7. raced \subseteq raced' /\ raced' \subseteq Function /\ \A u \in Thread : call'[u] = call[u]
  BY <1>1, <1>4 DEF Inv, TypeOK
<1>8. TypeOK'
  <2>1. \A u \in Thread : stage'[u] # "out" => call'[u] # NoCall /\ u # exiting'
    BY <1>1, <1>3, <1>6 DEF Inv, TypeOK
  <2>2. late' \in BOOLEAN /\ setback' \in BOOLEAN
    BY <1>1, LateIsBoolean, Zenon DEF Inv, TypeOK
  <2>. QED
    BY <1>1, <1>6, <1>7, <2>1, <2>2 DEF Inv, TypeOK
<1>9. Bookkept'
  <2>1. \A u \in Thread : stage'[u] \in {"named", "calls"} => stage[u] \in {"named", "calls"}
    BY <1>3, <1>6 DEF Field
  <2>2. \A g \in Function : Faithful(stats[g], g) => Faithful(stats[g], g)'
    BY <1>1, <1>7 DEF Faithful, Shown
  <2>. QED
    BY <1>1, <1>7, <2>1, <2>2 DEF Inv, Bookkept
<1>10. Loaded'
  BY <1>5, <1>6 DEF Inv, Loaded, Field
<1>11. Held'
  <2>. SUFFICES ASSUME phase \in Unsorted, NEW u \in Thread, stage'[u] \in Field
                PROVE  /\ stage'[u] \in {"calls", "errors"} =>
                            loaded'[u] <= truth[call[u]][stage'[u]]
                       /\ call[u] \notin raced' =>
                            loaded'[u] = truth[call[u]][stage'[u]] /\ ~Overlaps(u, stage[u])'
    BY <1>1, <1>7 DEF Held
  <2>1. \A v \in Thread : v # t => ~(stage'[v] = stage'[u] /\ call[v] = call[u])
                                  \/ (stage[v] = stage'[u] /\ call[v] = call[u])
    BY <1>6
  <2>2. CASE u = t
    <3>1. Faithful(stats[f], f)
      BY <1>4 DEF Inv, Bookkept
    <3>2. c # "seconds" => stats[f][c] <= truth[f][c]
      BY <1>4, <3>1 DEF Faithful, Field, Row, Figures
    <3>3. f \notin raced' => stats[f][c] = truth[f][c] /\ ~Overlaps(t, c)
      BY <1>1, <1>4, <1>7, <3>1 DEF Faithful, Field, Row, Figures, Shown
    <3>4. ~Overlaps(t, c) => ~Overlaps(t, c)'
      BY <1>6, <1>7 DEF Overlaps
    <3>. QED
      BY <1>6, <2>2, <3>2, <3>3, <3>4
  <2>3. CASE u # t
    <3>1. stage[u] = stage'[u] /\ loaded'[u] = loaded[u]
      BY <1>6, <2>3
    <3>2. Overlaps(u, stage[u])' /\ ~Overlaps(u, stage[u]) => f \in raced' /\ f = call[u]
      BY <1>1, <1>6, <1>7, <2>3, <3>1 DEF Overlaps
    <3>. QED
      BY <1>7, <3>1, <3>2 DEF Inv, Held
  <2>. QED
    BY <2>2, <2>3
<1>12. Nonnegative'
  BY <1>1, <1>4, <1>6 DEF Inv, Nonnegative, Row
<1>. QED
  BY <1>2, <1>8, <1>9, <1>10, <1>11, <1>12 DEF Inv

\* What a store does to a field, and that it leaves the others alone.
LEMMA Stored ==
  ASSUME Inv, NEW t \in Thread, NEW c \in Field, NEW d \in Int, NEW to, Store(t, c, d, to),
         c # "seconds" => d = 1
  PROVE  /\ call[t] \in Function /\ t # exiting
         /\ stats' \in [Function -> Row] /\ truth' \in [Function -> Figures]
         /\ stats'[call[t]].name = stats[call[t]].name
         /\ stats'[call[t]][c] = loaded[t] + d /\ truth'[call[t]][c] = truth[call[t]][c] + d
         /\ \A b \in Field \ {c} : /\ stats'[call[t]][b] = stats[call[t]][b]
                                   /\ truth'[call[t]][b] = truth[call[t]][b]
         /\ \A g \in Function \ {call[t]} : stats'[g] = stats[g] /\ truth'[g] = truth[g]
<1>. DEFINE f == call[t]
<1>1. stage[t] = c /\ f \in Function /\ t # exiting /\ stats[f] \in Row /\ truth[f] \in Figures
  BY DEF Inv, TypeOK, Store, Field
<1>2. loaded[t] \in Int /\ (c # "seconds" => loaded[t] \in Nat)
  BY <1>1 DEF Inv, TypeOK, Loaded, Field
<1>3. /\ stats' = [stats EXCEPT ![f] = [stats[f] EXCEPT ![c] = loaded[t] + d]]
      /\ truth' = [truth EXCEPT ![f] = [truth[f] EXCEPT ![c] = truth[f][c] + d]]
  BY DEF Store
<1>. DEFINE row == [stats[f] EXCEPT ![c] = loaded[t] + d]
            fig == [truth[f] EXCEPT ![c] = truth[f][c] + d]
<1>4. /\ row \in Row /\ row.name = stats[f].name /\ row[c] = loaded[t] + d
      /\ \A b \in Field \ {c} : row[b] = stats[f][b]
  BY <1>1, <1>2 DEF Row, Field
<1>5. /\ fig \in Figures /\ fig[c] = truth[f][c] + d
      /\ \A b \in Field \ {c} : fig[b] = truth[f][b]
  BY <1>1 DEF Figures, Field
<1>. HIDE DEF row, fig
<1>6. stats' = [stats EXCEPT ![f] = row] /\ truth' = [truth EXCEPT ![f] = fig]
  BY <1>3 DEF row, fig
<1>. QED
  BY <1>1, <1>4, <1>5, <1>6 DEF Inv, TypeOK

LEMMA StoreStep ==
  ASSUME Inv, NEW t \in Thread, NEW c \in Field, NEW d \in Int, NEW to, Store(t, c, d, to),
         c # "seconds" => d = 1, to \in {"out", "open", "counted"},
         \/ to # "out" /\ UNCHANGED call
         \/ to = "out" /\ call' = [call EXCEPT ![t] = NoCall],
         setback' \in BOOLEAN,
         ~setback' => ~setback /\ d >= 0
  PROVE  Inv'
<1>0. PICK f \in Function : f = call[t]
  BY Stored
<1>1. /\ stage[t] = c /\ stage' = [stage EXCEPT ![t] = to]
      /\ loaded' = [loaded EXCEPT ![t] = 0]
      /\ Late /\ UNCHANGED <<exiting, phase, i, sum, copy, printed, raced, before>>
  BY DEF Store
<1>2. /\ f \in Function /\ t # exiting
      /\ stats' \in [Function -> Row] /\ truth' \in [Function -> Figures]
      /\ stats'[f].name = stats[f].name
      /\ stats'[f][c] = loaded[t] + d /\ truth'[f][c] = truth[f][c] + d
      /\ \A b \in Field \ {c} : stats'[f][b] = stats[f][b] /\ truth'[f][b] = truth[f][b]
      /\ \A g \in Function \ {f} : stats'[g] = stats[g] /\ truth'[g] = truth[g]
  BY <1>0, Stored
<1>3. Exiting' /\ Copied' /\ Permuted' /\ Summed'
  BY <1>1, Lateness
<1>4. /\ \A u \in Thread \ {t} :
           stage'[u] = stage[u] /\ call'[u] = call[u] /\ loaded'[u] = loaded[u]
      /\ stage'[t] = to /\ to \notin Field /\ to # "named"
      /\ to # "out" => call'[t] = f
      /\ stage' \in [Thread -> Stage] /\ loaded' \in [Thread -> Int]
      /\ call' \in [Thread -> Function \union {NoCall}]
  BY <1>0, <1>1 DEF Inv, TypeOK, Stage, Field
<1>5. TypeOK'
  <2>1. \A u \in Thread : stage'[u] # "out" => call'[u] # NoCall /\ u # exiting'
    BY <1>1, <1>2, <1>4, NothingAssumption DEF Inv, TypeOK
  <2>2. late' \in BOOLEAN
    BY <1>1, LateIsBoolean
  <2>. QED
    BY <1>1, <1>2, <1>4, <2>1, <2>2 DEF Inv, TypeOK
<1>6. /\ stats[f] \in Row /\ truth[f] \in Figures /\ stats'[f] \in Row /\ truth'[f] \in Figures
      /\ loaded[t] \in Int /\ (c # "seconds" => loaded[t] >= 0)
  BY <1>1, <1>2 DEF Inv, TypeOK, Loaded, Field
<1>7. Bookkept'
  <2>. SUFFICES ASSUME phase \in Unsorted
                PROVE  /\ Faithful(stats[f], f)'
                       /\ truth'[f].calls > 0 => stats'[f].calls > 0 /\ stats'[f].name = f
    <3>1. \A g \in Function \ {f} : Faithful(stats[g], g) => Faithful(stats[g], g)'
      BY <1>1, <1>2 DEF Faithful
    <3>2. \A u \in Thread : stage'[u] \in {"named", "calls"} =>
            stage[u] \in {"named", "calls"} /\ call'[u] = call[u] /\ call[u] \in Function
      BY <1>4 DEF Field, Inv, TypeOK
    <3>3. \A g \in Function : stats'[g].name = stats[g].name
      BY <1>2
    <3>. QED
      BY <1>1, <1>2, <3>1, <3>2, <3>3 DEF Inv, Bookkept
  <2>1. /\ c # "seconds" => loaded[t] <= truth[f][c]
        /\ f \notin raced => loaded[t] = truth[f][c]
        /\ Faithful(stats[f], f)
        /\ truth[f].calls > 0 => stats[f].calls > 0 /\ stats[f].name = f
        /\ c = "calls" => stats[f].name = f
    BY <1>0, <1>1, <1>2 DEF Inv, Held, Bookkept, Field
  <2>2. CASE c = "calls"
    BY <1>1, <1>2, <1>6, <2>1, <2>2 DEF Faithful, Shown, Field, Row, Figures
  <2>3. CASE c = "errors"
    BY <1>1, <1>2, <1>6, <2>1, <2>3 DEF Faithful, Shown, Field, Row, Figures
  <2>4. CASE c = "seconds"
    BY <1>1, <1>2, <1>6, <2>1, <2>4 DEF Faithful, Shown, Field, Row, Figures
  <2>. QED
    BY <2>2, <2>3, <2>4 DEF Field
<1>8. Loaded'
  BY <1>4 DEF Inv, Loaded, Field
<1>9. Held'
  <2>. SUFFICES ASSUME phase \in Unsorted, NEW u \in Thread, stage'[u] \in Field
                PROVE  /\ stage'[u] \in {"calls", "errors"} =>
                            loaded'[u] <= truth'[call'[u]][stage'[u]]
                       /\ call'[u] \notin raced =>
                            /\ loaded'[u] = truth'[call'[u]][stage'[u]]
                            /\ ~Overlaps(u, stage[u])'
    BY <1>1 DEF Held
  <2>1. u # t /\ stage'[u] = stage[u] /\ call'[u] = call[u] /\ loaded'[u] = loaded[u]
    BY <1>4
  <2>2. call[u] \in Function /\ truth[call[u]] \in Figures /\ truth'[call[u]] \in Figures
    BY <1>2, <2>1 DEF Inv, TypeOK, Field
  <2>3. /\ stage[u] \in {"calls", "errors"} => loaded[u] <= truth[call[u]][stage[u]]
        /\ call[u] \notin raced =>
             loaded[u] = truth[call[u]][stage[u]] /\ ~Overlaps(u, stage[u])
    BY <2>1 DEF Inv, Held
  <2>4. CASE call[u] = f /\ stage[u] = c
    <3>1. Overlaps(u, stage[u])
      BY <1>0, <1>1, <2>1, <2>4 DEF Overlaps
    <3>2. loaded[u] \in Int /\ truth[f][c] \in Int
      BY <1>6 DEF Inv, TypeOK, Figures, Field
    <3>. QED
      BY <1>2, <2>1, <2>3, <2>4, <3>1, <3>2
  <2>5. CASE ~(call[u] = f /\ stage[u] = c)
    <3>1. truth'[call[u]][stage[u]] = truth[call[u]][stage[u]]
      BY <1>2, <2>1, <2>2, <2>5
    <3>2. Overlaps(u, stage[u])' => Overlaps(u, stage[u])
      BY <1>4, <2>1 DEF Overlaps
    <3>. QED
      BY <2>1, <2>3, <3>1, <3>2
  <2>. QED
    BY <2>4, <2>5
<1>10. Nonnegative'
  <2>. SUFFICES ASSUME ~setback' PROVE Nonnegative'
    BY DEF Nonnegative
  <2>1. ~setback /\ d >= 0
    OBVIOUS
  <2>2. stats'[f].seconds >= 0
    <3>1. c = "seconds" => loaded[t] >= 0 /\ stats'[f].seconds = loaded[t] + d
      BY <1>1, <1>2, <1>6, <2>1 DEF Inv, Nonnegative, Row
    <3>2. c # "seconds" => stats'[f].seconds = stats[f].seconds
      BY <1>2, <1>6 DEF Field, Row
    <3>. QED
      BY <1>2, <1>6, <2>1, <3>1, <3>2 DEF Inv, Nonnegative
  <2>3. \A u \in Thread : stage'[u] = "seconds" => stage[u] = "seconds" /\ loaded'[u] = loaded[u]
    BY <1>4 DEF Field
  <2>. QED
    BY <1>1, <1>2, <2>1, <2>2, <2>3 DEF Inv, Nonnegative
<1>. QED
  BY <1>3, <1>5, <1>7, <1>8, <1>9, <1>10 DEF Inv

LEMMA CountStep ==
  ASSUME Inv, NEW t \in Thread, Count(t)
  PROVE  Inv'
<1>1. /\ Store(t, "calls", 1, "open") /\ UNCHANGED call
      /\ setback' \in BOOLEAN /\ (~setback' => ~setback)
  BY Zenon DEF Count, Inv, TypeOK
<1>. QED
  BY <1>1, StoreStep DEF Field

LEMMA FailStep ==
  ASSUME Inv, NEW t \in Thread, Fail(t)
  PROVE  Inv'
<1>1. /\ Store(t, "errors", 1, "counted") /\ UNCHANGED call
      /\ setback' \in BOOLEAN /\ (~setback' => ~setback)
  BY Zenon DEF Fail, Inv, TypeOK
<1>. QED
  BY <1>1, StoreStep DEF Field

LEMMA EndStep ==
  ASSUME Inv, NEW t \in Thread, End(t)
  PROVE  Inv'
<1>1. PICK d \in Duration :
        /\ Store(t, "seconds", d, "out")
        /\ call' = [call EXCEPT ![t] = NoCall]
        /\ setback' = (setback \/ d < 0)
  BY DEF End
<1>2. d \in Int
  BY SizeAssumption
<1>3. setback' \in BOOLEAN /\ (~setback' => ~setback /\ ~(d < 0))
  BY <1>1, Zenon
<1>4. ~setback' => ~setback /\ d >= 0
  BY <1>2, <1>3
<1>. QED
  BY <1>1, <1>2, <1>3, <1>4, StoreStep DEF Field

-----------------------------------------------------------------------------
(* fini                                                                    *)

LEMMA NothingUnderWayMoves ==
  ASSUME Inv, UNCHANGED <<call, stage, loaded, truth, raced>>,
         phase' \in Unsorted => phase \in Unsorted
  PROVE  Loaded' /\ Held'
BY DEF Inv, Loaded, Held, Overlaps

LEMMA ExitStep ==
  ASSUME Inv, NEW t \in Thread, Exit(t)
  PROVE  Inv'
<1>1. /\ phase = "running" /\ phase' = "totals" /\ exiting' = t /\ stage[t] = "out"
      /\ i = 1 /\ sum = Nought /\ ~late
      /\ UNCHANGED <<stats, call, stage, loaded, i, sum, copy, printed, truth, raced,
                     late, setback>>
  BY DEF Inv, TypeOK, Exiting, Exit
<1>2. TypeOK'
  BY <1>1 DEF Inv, TypeOK
<1>3. Exiting' /\ Bookkept' /\ Copied' /\ Permuted' /\ Nonnegative'
  BY <1>1, NothingAssumption
  DEF Inv, Exiting, Bookkept, Faithful, Copied, Permuted, Nonnegative, Unsorted
<1>4. Summed'
  BY <1>1 DEF Summed, Nought, Function
<1>5. Loaded' /\ Held'
  BY <1>1, NothingUnderWayMoves DEF Unsorted
<1>. QED
  BY <1>2, <1>3, <1>4, <1>5 DEF Inv

LEMMA AddUpStep ==
  ASSUME Inv, AddUp
  PROVE  Inv'
<1>1. /\ phase = "totals" /\ i \in Function /\ i' = i + 1 /\ stats[i] \in Row
      /\ UNCHANGED <<stats, call, stage, loaded, exiting, phase, copy, printed, truth,
                     raced,
                     late, setback>>
  BY SizeAssumption DEF Inv, TypeOK, AddUp, Function
<1>2. stats[i].calls \in Nat /\ stats[i].errors \in Nat /\ stats[i].seconds \in Int
  BY <1>1 DEF Row
<1>3. /\ sum \in Figures /\ sum' \in Figures
      /\ stats[i].calls = 0 => sum'.seconds = sum.seconds
      /\ stats[i].calls # 0 => sum'.seconds = sum.seconds + stats[i].seconds
  BY <1>2 DEF Inv, TypeOK, AddUp, Figures
<1>4. TypeOK'
  BY <1>1, <1>3, SizeAssumption DEF Inv, TypeOK, Function
<1>5. Exiting' /\ Bookkept' /\ Copied' /\ Permuted' /\ Nonnegative'
  BY <1>1 DEF Inv, Exiting, Bookkept, Faithful, Copied, Permuted, Nonnegative
<1>6. Summed'
  <2>. SUFFICES ASSUME ~setback, ~late
                PROVE  /\ sum'.seconds >= 0
                       /\ \A f \in Function : f < i' /\ stats[f].calls > 0
                                               => stats[f].seconds <= sum'.seconds
    BY <1>1 DEF Summed
  <2>1. stats[i].seconds >= 0
    BY <1>1 DEF Inv, Nonnegative
  <2>2. /\ sum.seconds >= 0
        /\ \A f \in Function : f < i /\ stats[f].calls > 0 => stats[f].seconds <= sum.seconds
    BY <1>1 DEF Inv, Summed
  <2>3. sum.seconds \in Int /\ sum'.seconds \in Int
    BY <1>3 DEF Figures
  <2>4. sum'.seconds >= sum.seconds
    BY <1>2, <1>3, <2>1, <2>3
  <2>5. stats[i].calls > 0 => stats[i].seconds <= sum'.seconds
    BY <1>2, <1>3, <2>1, <2>2, <2>3
  <2>6. ASSUME NEW f \in Function, f < i', stats[f].calls > 0
        PROVE  stats[f].seconds <= sum'.seconds
    <3>1. f = i \/ f < i
      BY <1>1, <2>6 DEF Function
    <3>2. stats[f].seconds \in Int
      BY DEF Inv, TypeOK, Row
    <3>. QED
      BY <2>2, <2>3, <2>4, <2>5, <2>6, <3>1, <3>2
  <2>. QED
    BY <2>2, <2>3, <2>4, <2>6
<1>7. Loaded' /\ Held'
  BY <1>1, NothingUnderWayMoves
<1>. QED
  BY <1>4, <1>5, <1>6, <1>7 DEF Inv

LEMMA AddedUpStep ==
  ASSUME Inv, AddedUp
  PROVE  Inv'
<1>1. /\ phase = "totals" /\ i > N /\ i \in Nat /\ phase' = "sort"
      /\ UNCHANGED <<stats, call, stage, loaded, exiting, i, sum, copy, printed, truth,
                     raced, late, setback>>
  BY SizeAssumption DEF Inv, TypeOK, AddedUp
<1>2. TypeOK'
  BY <1>1 DEF Inv, TypeOK
<1>3. Exiting' /\ Bookkept' /\ Copied' /\ Permuted' /\ Nonnegative'
  BY <1>1 DEF Inv, Exiting, Bookkept, Faithful, Copied, Permuted, Nonnegative, Unsorted
<1>4. Summed'
  <2>1. \A f \in Function : f < i
    BY <1>1, SizeAssumption DEF Function
  <2>. QED
    BY <1>1, <2>1 DEF Inv, Summed
<1>5. Loaded' /\ Held'
  BY <1>1, NothingUnderWayMoves DEF Unsorted
<1>. QED
  BY <1>2, <1>3, <1>4, <1>5 DEF Inv

LEMMA SortReadStep ==
  ASSUME Inv, SortRead
  PROVE  Inv'
<1>1. /\ phase = "sort" /\ phase' = "sorting" /\ copy' = stats
      /\ UNCHANGED <<stats, call, stage, loaded, exiting, i, sum, printed, truth,
                     raced, late, setback>>
  BY DEF SortRead
<1>2. TypeOK'
  BY <1>1 DEF Inv, TypeOK
<1>3. Exiting' /\ Bookkept' /\ Copied' /\ Permuted' /\ Nonnegative' /\ Summed'
  BY <1>1 DEF Inv, Exiting, Bookkept, Faithful, Copied, Permuted, Nonnegative, Summed, Unsorted
<1>4. Loaded' /\ Held'
  BY <1>1, NothingUnderWayMoves DEF Unsorted
<1>. QED
  BY <1>2, <1>3, <1>4 DEF Inv

LEMMA SortWriteStep ==
  ASSUME Inv, SortWrite
  PROVE  Inv'
<1>1. PICK p \in Bijection(Function, Function) :
        /\ phase = "sorting" /\ phase' = "rows" /\ i' = 1
        /\ Sorted(copy, p)
        /\ stats' = [j \in Function |-> copy[p[j]]]
        /\ UNCHANGED <<call, stage, loaded, exiting, sum, copy, printed, truth, raced,
                       late, setback>>
  BY DEF SortWrite
<1>2. /\ p \in [Function -> Function]
      /\ \A j, k \in Function : p[j] = p[k] => j = k
      /\ \A f \in Function : \E j \in Function : p[j] = f
  BY DEF Bijection, Injection, Surjection, IsInjective
<1>3. \A j \in Function : stats'[j] = copy[p[j]] /\ stats'[j] \in Row
  BY <1>1, <1>2 DEF Inv, TypeOK
<1>4. TypeOK'
  <2>1. stats' \in [Function -> Row]
    BY <1>1, <1>3
  <2>2. i' \in 1..(N + 1)
    BY <1>1, SizeAssumption
  <2>. QED
    BY <1>1, <2>1, <2>2 DEF Inv, TypeOK
<1>5. Exiting' /\ Bookkept' /\ Copied' /\ Nonnegative'
  BY <1>1, <1>2, <1>3 DEF Inv, Exiting, Bookkept, Copied, Nonnegative, Unsorted
<1>6. ~late => \A j \in Function : stats'[j] = stats[p[j]]
  BY <1>1, <1>3 DEF Inv, Copied
<1>7. Summed'
  BY <1>1, <1>2, <1>6 DEF Inv, Summed
<1>8. Permuted'
  <2>. SUFFICES ASSUME ~late PROVE Permuted'
    BY <1>1 DEF Permuted
  <2>1. \A j \in Function : Faithful(stats'[j], p[j]) /\ stats[p[j]] \in Row
    BY <1>1, <1>2, <1>6 DEF Inv, TypeOK, Bookkept, Unsorted
  <2>2. \A f \in Function : stats[f].calls > 0 => truth[f].calls > 0
    BY <1>1 DEF Inv, TypeOK, Bookkept, Unsorted, Faithful, Row, Figures
  <2>3. \A j \in Function : stats'[j].calls > 0 => stats'[j].name = p[j]
    BY <1>1, <1>2, <1>6, <2>2 DEF Inv, Bookkept, Unsorted
  <2>4. \A j \in Function : stats'[j].calls > 0 => Faithful(stats[j], stats[j].name)'
    BY <1>1, <2>1, <2>3 DEF Faithful
  <2>5. \A j, k \in Function :
          stats'[j].calls > 0 /\ stats'[k].calls > 0 /\ stats'[j].name = stats'[k].name => j = k
    BY <1>2, <2>3
  <2>6. ASSUME NEW f \in Function, truth[f].calls > 0
        PROVE  \E j \in Function : stats'[j].calls > 0 /\ stats'[j].name = f
    <3>1. PICK j \in Function : p[j] = f
      BY <1>2
    <3>2. stats[f].calls > 0
      BY <1>1, <2>6 DEF Inv, Bookkept, Unsorted
    <3>. QED
      BY <1>6, <2>3, <3>1, <3>2
  <2>7. \A j, k \in Function : j < k => stats'[j].seconds >= stats'[k].seconds
    BY <1>1, <1>3 DEF Sorted
  <2>8. \A j \in Function : ~(j < i') /\ printed'[j] = NoRow
    BY <1>1 DEF Inv, Bookkept, Unsorted, Function
  <2>. QED
    BY <1>1, <2>4, <2>5, <2>6, <2>7, <2>8 DEF Permuted
<1>9. Loaded' /\ Held'
  BY <1>1, NothingUnderWayMoves DEF Unsorted
<1>. QED
  BY <1>4, <1>5, <1>7, <1>8, <1>9 DEF Inv

LEMMA PrintRowStep ==
  ASSUME Inv, PrintRow
  PROVE  Inv'
<1>1. /\ phase = "rows" /\ i \in Function /\ i' = i + 1
      /\ printed' = [printed EXCEPT ![i] = IF stats[i].calls # 0 THEN stats[i] ELSE NoRow]
      /\ UNCHANGED <<stats, call, stage, loaded, exiting, phase, sum, copy, truth,
                     raced, late, setback>>
  BY SizeAssumption DEF Inv, TypeOK, PrintRow, Function
<1>2. /\ printed' \in [Function -> Row \union {NoRow}]
      /\ printed'[i] = IF stats[i].calls # 0 THEN stats[i] ELSE NoRow
      /\ \A j \in Function \ {i} : printed'[j] = printed[j]
  BY <1>1 DEF Inv, TypeOK
<1>3. TypeOK'
  <2>1. i' \in 1..(N + 1)
    BY <1>1, SizeAssumption DEF Function
  <2>. QED
    BY <1>1, <1>2, <2>1 DEF Inv, TypeOK
<1>4. Exiting' /\ Bookkept' /\ Copied' /\ Nonnegative' /\ Summed'
  BY <1>1 DEF Inv, Exiting, Bookkept, Copied, Nonnegative, Summed, Unsorted
<1>5. Permuted'
  <2>1. \A j \in Function : j < i' <=> j < i \/ j = i
    BY <1>1 DEF Function
  <2>. QED
    BY <1>1, <1>2, <2>1 DEF Inv, Permuted, Faithful
<1>6. Loaded' /\ Held'
  BY <1>1, NothingUnderWayMoves
<1>. QED
  BY <1>3, <1>4, <1>5, <1>6 DEF Inv

LEMMA PrintTotalStep ==
  ASSUME Inv, PrintTotal
  PROVE  Inv'
<1>1. /\ phase = "rows" /\ i > N /\ phase' = "done"
      /\ UNCHANGED <<stats, call, stage, loaded, exiting, i, sum, copy, printed, truth,
                     raced, late, setback>>
  BY DEF PrintTotal
<1>2. TypeOK'
  BY <1>1 DEF Inv, TypeOK
<1>3. Exiting' /\ Bookkept' /\ Copied' /\ Permuted' /\ Nonnegative' /\ Summed'
  BY <1>1 DEF Inv, Exiting, Bookkept, Faithful, Copied, Permuted, Nonnegative, Summed, Unsorted
<1>4. Loaded' /\ Held'
  BY <1>1, NothingUnderWayMoves DEF Unsorted
<1>. QED
  BY <1>2, <1>3, <1>4 DEF Inv

LEMMA Stuttering ==
  ASSUME Inv, UNCHANGED vars
  PROVE  Inv'
<1>1. TypeOK' /\ Exiting' /\ Copied' /\ Nonnegative' /\ Summed'
  BY DEF vars, Inv, TypeOK, Exiting, Copied, Nonnegative, Summed
<1>2. Bookkept' /\ Permuted'
  BY DEF vars, Inv, Bookkept, Permuted, Faithful
<1>3. Loaded' /\ Held'
  BY NothingUnderWayMoves DEF vars
<1>. QED
  BY <1>1, <1>2, <1>3 DEF Inv

LEMMA Invariance == Spec => []Inv
<1>1. ASSUME Inv, [Next]_vars PROVE Inv'
  BY <1>1, OpenStep, LoadStep, CountStep, FailStep, EndStep, ExitStep, AddUpStep, AddedUpStep,
     SortReadStep, SortWriteStep, PrintRowStep, PrintTotalStep, Stuttering
  DEF Next, Wrapper, Fini, Ended
<1>. QED
  BY Initially, <1>1, PTL DEF Spec

-----------------------------------------------------------------------------
(* The theorems                                                            *)

\* The rows stay rows and the counters counters, before and after the sort.
THEOREM SummaryTypeCorrect == Spec => []TypeOK
<1>1. Inv => TypeOK
  BY DEF Inv
<1>. QED
  BY Invariance, <1>1, PTL

\* What is printed once fini is done and nobody was late: exactly the rows with
\* calls, as the sort has left them.
LEMMA PrintedRows ==
  ASSUME Inv, Quiet
  PROVE  /\ \A j \in Lines : j \in Function /\ printed[j] = stats[j] /\ stats[j].calls > 0
         /\ \A j \in Function : stats[j].calls > 0 => j \in Lines
<1>1. \A j \in Function : j < i
  BY SizeAssumption DEF Inv, TypeOK, Quiet, Permuted, Function
<1>2. \A j \in Function : stats[j] \in Row /\ stats[j].calls \in Nat
  BY DEF Inv, TypeOK, Row
<1>3. \A j \in Function : printed[j] = IF stats[j].calls # 0 THEN stats[j] ELSE NoRow
  BY <1>1 DEF Inv, Permuted, Quiet
<1>. QED
  BY <1>2, <1>3, NoRowAssumption DEF Lines

\* One line for each function called, with its own name, and with its own
\* figures unless updates overlapped.
THEOREM SummaryExactHolds == Spec => []SummaryExact
<1>1. ASSUME Inv PROVE SummaryExact
  <2>. SUFFICES ASSUME Quiet
                PROVE  /\ \A j \in Lines : Faithful(printed[j], printed[j].name)
                       /\ \A f \in Function :
                            truth[f].calls > 0 => \E j \in Lines : printed[j].name = f
                       /\ \A j, k \in Lines : printed[j].name = printed[k].name => j = k
    BY DEF SummaryExact, Faithful
  <2>1. Permuted /\ phase \in {"rows", "done"} /\ ~late
    BY <1>1 DEF Inv, Quiet
  <2>. QED
    BY <1>1, <2>1, PrintedRows DEF Permuted
<1>. QED
  BY Invariance, <1>1, PTL

\* The lines are in the order of the time spent.
THEOREM SummarySortedHolds == Spec => []SummarySorted
<1>1. ASSUME Inv PROVE SummarySorted
  BY <1>1, PrintedRows DEF SummarySorted, Quiet, Inv, Permuted
<1>. QED
  BY Invariance, <1>1, PTL

\* Every percentage is between 0 and 100.
THEOREM PercentSaneHolds == Spec => []PercentSane
<1>1. ASSUME Inv PROVE PercentSane
  <2>. SUFFICES ASSUME Quiet, ~setback, NEW j \in Lines
                PROVE  printed[j].seconds \in 0..sum.seconds
    BY DEF PercentSane
  <2>1. /\ j \in Function /\ printed[j] = stats[j] /\ stats[j].calls > 0
        /\ stats[j] \in Row
    BY <1>1, PrintedRows DEF Inv, TypeOK
  <2>2. stats[j].seconds >= 0 /\ stats[j].seconds <= sum.seconds
    BY <1>1, <2>1 DEF Inv, Nonnegative, Summed, Quiet
  <2>3. stats[j].seconds \in Int /\ sum.seconds \in Int
    BY <1>1, <2>1 DEF Row, Inv, TypeOK, Figures
  <2>. QED
    BY <2>1, <2>2, <2>3
<1>. QED
  BY Invariance, <1>1, PTL
-----------------------------------------------------------------------------
(* The calls of the first k functions                                      *)

LEMMA CallsUpToType ==
  ASSUME NEW rows \in [Function -> Figures]
  PROVE  /\ CallsUpTo(rows) \in [0..N -> Nat]
         /\ CallsUpTo(rows)[0] = 0
         /\ \A k \in Function : CallsUpTo(rows)[k] = CallsUpTo(rows)[k - 1] + rows[k].calls
<1> USE SizeAssumption DEF Function
<1> DEFINE step == [k \in 1..N |-> [v \in Nat |-> v + rows[k].calls]]
           Solves(g) == g = [k \in 0..N |-> IF k = 0 THEN 0 ELSE g[k - 1] + rows[k].calls]
<1>1. \A k \in 1..N : rows[k].calls \in Nat
  BY DEF Figures
<1>2. step \in [1..N -> [Nat -> Nat]]
  BY <1>1
<1>3. PICK f \in [0..N -> Nat] : Climbs(f, 0, step, N)
  <2> HIDE DEF step
  <2> QED BY <1>2, RecursionSolved
<1>4. f[0] = 0 /\ \A k \in 1..N : f[k] = f[k - 1] + rows[k].calls
  <2>1. \A k \in 1..N : f[k - 1] \in Nat
    OBVIOUS
  <2> QED BY <1>3, <2>1 DEF Climbs
<1>5. Solves(f)
  <2>1. \A k \in 0..N : k # 0 => k \in 1..N
    OBVIOUS
  <2> QED BY <1>3, <1>4, <2>1
<1>6. Solves(CallsUpTo(rows))
  <2>1. CallsUpTo(rows) = CHOOSE g : Solves(g)
    BY DEF CallsUpTo
  <2> HIDE DEF Solves
  <2> QED BY <1>5, <2>1, Zenon
<1> DEFINE C == CallsUpTo(rows)
<1>7. C[0] = 0 /\ \A k \in 1..N : C[k] = C[k - 1] + rows[k].calls
  <2> HIDE DEF C
  <2>1. C = [k \in 0..N |-> IF k = 0 THEN 0 ELSE C[k - 1] + rows[k].calls]
    BY <1>6 DEF C
  <2> QED BY <2>1
<1>8. \A k \in 0..N : C[k] = f[k]
  <2> DEFINE S == {k \in Nat : k <= N => C[k] = f[k]}
  <2>1. 0 \in S
    BY <1>4, <1>7
  <2>2. ASSUME NEW k \in Nat, k \in S PROVE k + 1 \in S
    <3>1. SUFFICES ASSUME k + 1 \in 1..N PROVE C[k + 1] = f[k + 1]
      OBVIOUS
    <3>2. (k + 1) - 1 = k /\ C[k] = f[k]
      BY <2>2, <3>1
    <3> QED BY <1>4, <1>7, <3>1, <3>2
  <2>3. Nat \subseteq S
    <3> HIDE DEF S
    <3> QED BY <2>1, <2>2, NaturalInduction
  <2> QED BY <2>3
<1>9. C = [k \in 0..N |-> C[k]]
  BY <1>6
<1> QED BY <1>7, <1>8, <1>9

\* One more call of f, one more in every sum that takes f in.
LEMMA OneMoreCall ==
  ASSUME NEW r \in [Function -> Figures], NEW s \in [Function -> Figures],
         NEW f \in Function, NEW d \in Nat, s[f].calls = r[f].calls + d,
         \A g \in Function \ {f} : s[g].calls = r[g].calls
  PROVE  \A k \in 0..N : CallsUpTo(s)[k] = CallsUpTo(r)[k] + IF k >= f THEN d ELSE 0
<1> USE SizeAssumption DEF Function
<1> DEFINE C == CallsUpTo(r)
           D == CallsUpTo(s)
           S == {k \in Nat : k <= N => D[k] = C[k] + IF k >= f THEN d ELSE 0}
<1>1. /\ C \in [0..N -> Nat] /\ C[0] = 0 /\ \A k \in Function : C[k] = C[k - 1] + r[k].calls
      /\ D \in [0..N -> Nat] /\ D[0] = 0 /\ \A k \in Function : D[k] = D[k - 1] + s[k].calls
  BY CallsUpToType
<1>2. \A k \in Function : r[k].calls \in Nat /\ s[k].calls \in Nat
  BY DEF Figures
<1> HIDE DEF C, D
<1>3. 0 \in S
  BY <1>1
<1>4. ASSUME NEW k \in Nat, k \in S PROVE k + 1 \in S
  <2>1. SUFFICES ASSUME k + 1 \in Function
                 PROVE  D[k + 1] = C[k + 1] + IF k + 1 >= f THEN d ELSE 0
    OBVIOUS
  <2>2. D[k] = C[k] + IF k >= f THEN d ELSE 0
    BY <1>4, <2>1
  <2>3. (k + 1) - 1 = k /\ C[k] \in Nat /\ D[k] \in Nat
    BY <1>1, <2>1
  <2>4. C[k + 1] = C[k] + r[k + 1].calls /\ D[k + 1] = D[k] + s[k + 1].calls
    BY <1>1, <2>1, <2>3
  <2>5. CASE k + 1 = f
    <3>1. ~(k >= f) /\ k + 1 >= f
      BY <2>5
    <3>2. s[k + 1].calls = r[k + 1].calls + d /\ r[k + 1].calls \in Nat
      BY <1>2, <2>5
    <3> QED BY <2>2, <2>3, <2>4, <3>1, <3>2
  <2>6. CASE k + 1 # f
    BY <1>2, <2>1, <2>2, <2>3, <2>4, <2>6
  <2> QED BY <2>5, <2>6
<1>5. Nat \subseteq S
  <2> HIDE DEF S
  <2> QED BY <1>3, <1>4, NaturalInduction
<1> QED BY <1>5 DEF C, D

\* Between the exit and the sort, the calls added up so far are no more than were
\* made; with those of the functions still to come they are no fewer than at the
\* exit, unless updates overlapped.
Tallied ==
  /\ before \in Nat
  /\ phase = "totals" =>
       /\ sum.calls <= CallsUpTo(truth)[i - 1]
       /\ raced = {} => before <= sum.calls + (TotalCalls - CallsUpTo(truth)[i - 1])
  /\ TotalInRange

LEMMA TalliedInit == Init => Tallied
BY DEF Init, Tallied, TotalInRange

LEMMA TalliedStep ==
  ASSUME Inv, Tallied, [Next]_vars
  PROVE  Tallied'
<1> USE DEF TotalCalls
<1> DEFINE C == CallsUpTo(truth)
<1>1. /\ truth \in [Function -> Figures] /\ sum.calls \in Nat /\ i \in 1..(N + 1) /\ N \in Nat
      /\ \A f \in Function : truth[f].calls \in Nat
  BY SizeAssumption DEF Inv, TypeOK, Figures
<1>2. C \in [0..N -> Nat] /\ C[0] = 0 /\ \A k \in Function : C[k] = C[k - 1] + truth[k].calls
  BY <1>1, CallsUpToType
<1>3. C[i - 1] \in Nat /\ C[N] \in Nat
  BY <1>1, <1>2
<1> HIDE DEF C
<1>4. CASE UNCHANGED <<truth, before, phase, i, sum>> /\ raced \subseteq raced'
  BY <1>4 DEF Tallied, TotalInRange
<1>5. ASSUME NEW f \in Function, NEW d \in Nat,
             truth' \in [Function -> Figures],
             truth'[f].calls = truth[f].calls + d,
             \A g \in Function \ {f} : truth'[g].calls = truth[g].calls,
             UNCHANGED <<before, phase, i, sum, raced>>
      PROVE  Tallied'
  <2> DEFINE D == CallsUpTo(truth')
  <2>1. \A k \in 0..N : D[k] = C[k] + IF k >= f THEN d ELSE 0
    BY <1>1, <1>5, OneMoreCall DEF C
  <2> HIDE DEF D
  <2>2. D[N] = C[N] + d /\ D[i - 1] = C[i - 1] + IF i - 1 >= f THEN d ELSE 0
    BY <1>1, <2>1 DEF Function
  <2>3. f \in Nat /\ before \in Nat
    BY DEF Function, Tallied
  <2>4. phase = "totals" =>
          /\ sum.calls <= D[i - 1]
          /\ raced = {} => before <= sum.calls + (D[N] - D[i - 1])
    BY <1>1, <1>3, <2>2, <2>3 DEF Tallied, C
  <2>5. phase \in {"sort", "sorting", "rows", "done"} =>
          sum.calls <= D[N] /\ (raced = {} => before <= sum.calls)
    BY <1>1, <1>3, <2>2, <2>3 DEF Tallied, TotalInRange, C
  <2> QED BY <1>5, <2>3, <2>4, <2>5 DEF Tallied, TotalInRange, D
<1>6. ASSUME NEW t \in Thread, Wrapper(t) PROVE Tallied'
  <2>1. CASE Open(t)
    BY <1>4, <2>1 DEF Open
  <2>2. CASE Load(t)
    BY <1>4, <2>2 DEF Load
  <2>3. ASSUME NEW c \in Field, NEW d \in Int, NEW to, Store(t, c, d, to), c # "seconds" => d = 1
        PROVE  Tallied'
    <3> DEFINE f == call[t]
    <3>1. /\ f \in Function /\ truth' \in [Function -> Figures]
          /\ truth'[f][c] = truth[f][c] + d
          /\ \A b \in Field \ {c} : truth'[f][b] = truth[f][b]
          /\ \A g \in Function \ {f} : truth'[g] = truth[g]
      BY <2>3, Stored
    <3>2. truth[f] \in Figures /\ truth'[f] \in Figures
      BY <1>1, <3>1
    <3>3. truth'[f].calls = truth[f].calls + IF c = "calls" THEN 1 ELSE 0
      BY <2>3, <3>1, <3>2 DEF Field, Figures
    <3>4. UNCHANGED <<before, phase, i, sum, raced>>
      BY <2>3 DEF Store
    <3>5. PICK e \in Nat : truth'[f].calls = truth[f].calls + e
      BY <3>3
    <3> QED BY <1>5, <3>1, <3>4, <3>5
  <2>4. CASE Count(t) \/ Fail(t)
    BY <2>3, <2>4 DEF Count, Fail, Field
  <2>5. CASE End(t)
    BY <2>3, <2>5, SizeAssumption DEF End, Field
  <2> QED BY <1>6, <2>1, <2>2, <2>4, <2>5 DEF Wrapper
<1>7. ASSUME NEW t \in Thread, Exit(t) PROVE Tallied'
  <2>1. /\ i = 1 /\ sum.calls = 0 /\ phase' = "totals" /\ before' = C[N]
        /\ UNCHANGED <<truth, i, sum, raced>>
    BY <1>7 DEF Exit, Inv, Exiting, Nought, C
  <2> QED BY <1>2, <1>3, <2>1 DEF Tallied, TotalInRange, C
<1>8. CASE AddUp
  <2>1. /\ phase = "totals" /\ i \in Function /\ i' = i + 1
        /\ UNCHANGED <<truth, before, phase, raced>>
        /\ stats[i] \in Row /\ truth[i] \in Figures /\ Faithful(stats[i], i)
    BY <1>1, <1>8 DEF AddUp, Inv, TypeOK, Bookkept, Unsorted, Function
  <2>2. /\ stats[i].calls \in Nat /\ truth[i].calls \in Nat
        /\ stats[i].calls <= truth[i].calls
        /\ raced = {} => stats[i].calls = truth[i].calls
    BY <2>1 DEF Faithful, Shown, Row, Figures
  <2>3. sum'.calls = sum.calls + stats[i].calls
    BY <1>1, <1>8, <2>2 DEF AddUp
  <2>4. C[i] = C[i - 1] + truth[i].calls /\ (i + 1) - 1 = i
    <3>1. C[i] = C[i - 1] + truth[i].calls
      BY <1>1, <1>2, <2>1, Zenon
    <3> QED BY <1>1, <3>1
  <2>5. /\ before \in Nat /\ sum.calls <= C[i - 1]
        /\ raced = {} => before <= sum.calls + (C[N] - C[i - 1])
    BY <2>1 DEF Tallied, C
  <2>6. sum'.calls <= C[i] /\ (raced = {} => before <= sum'.calls + (C[N] - C[i]))
    BY <1>1, <1>3, <2>2, <2>3, <2>4, <2>5
  <2> QED BY <2>1, <2>4, <2>5, <2>6 DEF Tallied, TotalInRange, C
<1>9. CASE AddedUp
  <2>1. phase = "totals" /\ i - 1 = N /\ phase' = "sort" /\ UNCHANGED <<truth, before,
                                                                        sum, raced>>
    BY <1>1, <1>9 DEF AddedUp
  <2>2. before \in Nat /\ sum.calls <= C[N] /\ (raced = {} => before <= sum.calls + (C[N] - C[N]))
    BY <2>1 DEF Tallied, C
  <2>3. sum.calls <= C[N] /\ (raced = {} => before <= sum.calls)
    BY <1>1, <1>3, <2>2
  <2> QED BY <2>1, <2>2, <2>3 DEF Tallied, TotalInRange, C
<1>10. CASE SortRead \/ SortWrite \/ PrintRow \/ PrintTotal
  <2>1. /\ phase \in {"sort", "sorting", "rows"} /\ phase' \in {"sorting", "rows", "done"}
        /\ UNCHANGED <<truth, before, sum, raced>>
    BY <1>10 DEF SortRead, SortWrite, PrintRow, PrintTotal
  <2> QED BY <2>1 DEF Tallied, TotalInRange
<1> QED BY <1>4, <1>6, <1>7, <1>8, <1>9, <1>10 DEF Next, Fini, Ended, vars

\* The calls of the last line are no more than have been made, and no fewer than
\* were made when fini began unless two updates overlapped (ocltrace.c:241-246,
\* 262; opencl.c:439).
THEOREM TotalInRangeHolds == Spec => []TotalInRange
<1>1. Tallied => TotalInRange
  BY DEF Tallied
<1> QED BY Invariance, TalliedInit, TalliedStep, <1>1, PTL DEF Spec
=============================================================================
