---------------------------- MODULE TimersProofs ----------------------------
(***************************************************************************)
(* Proofs about Timers: the count is exact and every timer is reported, in *)
(* whatever order the threads take the callbacks.                          *)
(***************************************************************************)
EXTENDS Timers, TLAPS

\* One callback runs at a time, and between its two halves it holds the
\* count that everybody else sees.
StrandInv ==
  /\ \A v, w \in Threads : InCallback(v) /\ InCallback(w) => v = w
  /\ \A w \in Threads :
       /\ thread[w][1] \in {"test", "update"} => example \in Repeating
       /\ thread[w][1] = "handler" => example \notin Repeating
       /\ thread[w][1] = "update" => seen[w] = count_ /\ count_ < Limit

\* A timer that is set again below the limit always is; and a thread that
\* has left run() has left no work.
ProgressInv ==
  /\ example \in Repeating => ~OutOfWork \/ count_ = Limit
  /\ (\E w \in Threads : thread[w] \in {<<"returned">>, <<"done">>}) => OutOfWork

Queued(t) == \E i \in DOMAIN queue : queue[i][1] = t

\* No timer gets lost on its way to its callback.
ReportInv == \A t \in Used(example) : waiting[t] \/ Queued(t) \/ outcome[t] # "none"

\* Timers that fire once are queued in the order of their deadlines.
OrderInv ==
  example \notin Repeating =>
    /\ \A t \in Timers : expiry[t] = Deadlines(example)[t]
    /\ \A t, u \in Timers : Deadlines(example)[u] < Deadlines(example)[t] =>
         /\ outcome[t] # "none" => outcome[u] # "none"
         /\ \A i \in DOMAIN queue : queue[i][1] = t =>
              outcome[u] # "none" \/ \E j \in DOMAIN queue : j < i /\ queue[j][1] = u

\* Only timer 2 of "cancel" is aborted, after timer 1 has been reported.
AbortInv ==
  /\ \A i \in DOMAIN queue : queue[i][2] = "operation_aborted" =>
       queue[i][1] = "timer2" /\ example = "cancel" /\ outcome["timer1"] = "success"
  /\ outcome["timer1"] # "operation_aborted"
  /\ outcome["timer2"] = "operation_aborted" => example = "cancel" /\ outcome["timer1"] = "success"
  /\ \A w \in Threads : thread[w] = <<"handler", "timer1">> => outcome["timer1"] = "success"

TimersIInv ==
  /\ TimersTypeOK
  /\ StrandInv
  /\ CountExact
  /\ ProgressInv
  /\ ReportInv
  /\ OrderInv
  /\ AbortInv

-----------------------------------------------------------------------------
(* Facts about the data.                                                   *)

\* What is left when one element of a sequence is removed.
LEMMA RemoveAtFacts ==
  ASSUME NEW S, NEW q \in Seq(S), NEW i \in DOMAIN q
  PROVE  /\ RemoveAt(q, i) \in Seq(S)
         /\ Len(RemoveAt(q, i)) = Len(q) - 1
         /\ \A j \in 1 .. Len(q) - 1 : RemoveAt(q, i)[j] = IF j < i THEN q[j] ELSE q[j + 1]
<1>1. i \in 1 .. Len(q) /\ Len(q) \in Nat
  OBVIOUS
<1>2. /\ SubSeq(q, 1, i - 1) \in Seq(S)
      /\ Len(SubSeq(q, 1, i - 1)) = i - 1
      /\ \A j \in 1 .. i - 1 : SubSeq(q, 1, i - 1)[j] = q[j]
  BY <1>1
<1>3. /\ SubSeq(q, i + 1, Len(q)) \in Seq(S)
      /\ Len(SubSeq(q, i + 1, Len(q))) = Len(q) - i
      /\ \A j \in 1 .. Len(q) - i : SubSeq(q, i + 1, Len(q))[j] = q[i + j]
  BY <1>1
<1>4. ASSUME NEW before \in Seq(S), NEW after \in Seq(S),
             Len(before) = i - 1, Len(after) = Len(q) - i,
             \A j \in 1 .. i - 1 : before[j] = q[j],
             \A j \in 1 .. Len(q) - i : after[j] = q[i + j]
      PROVE  /\ before \o after \in Seq(S)
             /\ Len(before \o after) = Len(q) - 1
             /\ \A j \in 1 .. Len(q) - 1 : (before \o after)[j] = IF j < i THEN q[j] ELSE q[j + 1]
  <2>1. before \o after \in Seq(S) /\ Len(before \o after) = Len(q) - 1
    BY <1>1, <1>4
  <2>2. ASSUME NEW j \in 1 .. Len(q) - 1
        PROVE  (before \o after)[j] = IF j < i THEN q[j] ELSE q[j + 1]
    <3>1. CASE j < i
      BY <1>1, <1>4, <3>1
    <3>2. CASE j >= i
      <4>1. j \in 1 .. Len(before) + Len(after) /\ j > Len(before)
        BY <1>1, <1>4, <3>2
      <4>2. (before \o after)[j] = after[j - Len(before)]
        BY <4>1
      <4>3. PICK k \in 1 .. Len(q) - i : k = j - Len(before) /\ i + k = j + 1
        <5>1. j \in Nat /\ i \in Nat /\ Len(q) \in Nat /\ Len(before) = i - 1 /\ j <= Len(q) - 1
          BY <1>1, <1>4
        <5>2. j - (i - 1) \in 1 .. Len(q) - i /\ i + (j - (i - 1)) = j + 1
          BY <5>1, <3>2
        <5>. QED
          BY <5>1, <5>2
      <4>4. after[k] = q[j + 1]
        BY <1>4, <4>3
      <4>. QED
        BY <1>1, <3>2, <4>2, <4>3, <4>4
    <3>3. j < i \/ j >= i
      BY <1>1
    <3>. QED
      BY <3>1, <3>2, <3>3, <1>1
  <2>. QED
    BY <2>1, <2>2
<1>. QED
  BY <1>2, <1>3, <1>4 DEF RemoveAt

\* Where a thread can be.
ThreadStates ==
  {<<"none">>, <<"run">>, <<"returned">>, <<"done">>} \cup ({"test", "update", "handler"} \X Timers)

\* A thread that is in a callback is in that of a timer.
LEMMA CallbackOf ==
  ASSUME TimersTypeOK, NEW w \in Threads, InCallback(w)
  PROVE  /\ thread[w][2] \in Timers
         /\ thread[w] = <<thread[w][1], thread[w][2]>>
BY DEF TimersTypeOK, InCallback

\* A step of one thread leaves the others where they are.
LEMMA ThreadMoves ==
  ASSUME TimersTypeOK, NEW w \in Threads, NEW x \in ThreadStates,
         thread' = [thread EXCEPT ![w] = x]
  PROVE  /\ thread' \in [Threads -> ThreadStates]
         /\ thread'[w] = x
         /\ \A v \in Threads : v # w => thread'[v] = thread[v]
BY DEF TimersTypeOK, ThreadStates

\* What a thread does when it takes the callback of timer t, number i of
\* the queue.
Takes(w, i, t, code) ==
  /\ queue[i] = <<t, code>>
  /\ StrandFree
  /\ i = 1 \/ example = "strand"
  /\ thread[w] = <<"run">>
  /\ queue' \in Seq(Timers \X {"success", "operation_aborted"})
  /\ Len(queue') = Len(queue) - 1
  /\ \A j \in 1 .. Len(queue) - 1 : queue'[j] = IF j < i THEN queue[j] ELSE queue[j + 1]
  /\ thread' \in [Threads -> ThreadStates]
  /\ thread'[w] = <<IF example \in Repeating THEN "test" ELSE "handler", t>>
  /\ \A v \in Threads : v # w => thread'[v] = thread[v]
  /\ outcome' \in [Timers -> {"none", "success", "operation_aborted"}]
  /\ outcome'[t] = code
  /\ \A u \in Timers : u # t => outcome'[u] = outcome[u]
  /\ UNCHANGED <<example, expiry, waiting, seen, count_, printed>>

LEMMA TakeCallbackEffect ==
  ASSUME TimersTypeOK, NEW w \in Threads, TakeCallback(w)
  PROVE  \E i \in DOMAIN queue, t \in Timers, code \in {"success", "operation_aborted"} :
           Takes(w, i, t, code)
<1>. DEFINE Entry == Timers \X {"success", "operation_aborted"}
<1>1. PICK i \in DOMAIN queue :
        /\ StrandFree
        /\ i = 1 \/ example = "strand"
        /\ thread[w] = <<"run">>
        /\ queue' = RemoveAt(queue, i)
        /\ thread' = [thread EXCEPT ![w] =
                        <<IF example \in Repeating THEN "test" ELSE "handler", queue[i][1]>>]
        /\ outcome' = [outcome EXCEPT ![queue[i][1]] = queue[i][2]]
        /\ UNCHANGED <<example, expiry, waiting, seen, count_, printed>>
  BY DEF TakeCallback
<1>2. queue \in Seq(Entry) /\ queue[i] \in Entry
  BY DEF TimersTypeOK
<1>3. PICK t \in Timers, code \in {"success", "operation_aborted"} : queue[i] = <<t, code>>
  BY <1>2
<1>4. queue[i][1] = t /\ queue[i][2] = code
  BY <1>3
<1>5. /\ queue' \in Seq(Entry)
      /\ Len(queue') = Len(queue) - 1
      /\ \A j \in 1 .. Len(queue) - 1 : queue'[j] = IF j < i THEN queue[j] ELSE queue[j + 1]
  BY <1>1, <1>2, RemoveAtFacts
<1>. DEFINE x == <<IF example \in Repeating THEN "test" ELSE "handler", t>>
<1>6. x \in ThreadStates
  BY DEF ThreadStates
<1>7. thread' = [thread EXCEPT ![w] = x]
  BY <1>1, <1>4
<1>8. /\ thread' \in [Threads -> ThreadStates]
      /\ thread'[w] = x
      /\ \A v \in Threads : v # w => thread'[v] = thread[v]
  BY <1>6, <1>7, ThreadMoves
<1>9. /\ outcome' \in [Timers -> {"none", "success", "operation_aborted"}]
      /\ outcome'[t] = code
      /\ \A u \in Timers : u # t => outcome'[u] = outcome[u]
  BY <1>1, <1>4 DEF TimersTypeOK
<1>10. Takes(w, i, t, code)
  BY <1>1, <1>3, <1>5, <1>8, <1>9 DEF Takes
<1>. QED
  BY <1>10

\* What print does: below the limit it goes on to the update, ...
Prints(w) ==
  /\ thread[w][1] = "test"
  /\ count_ < Limit
  /\ thread[w][2] \in Timers
  /\ thread' \in [Threads -> ThreadStates]
  /\ thread'[w] = <<"update", thread[w][2]>>
  /\ \A v \in Threads : v # w => thread'[v] = thread[v]
  /\ seen' = [seen EXCEPT ![w] = count_]
  /\ printed' = Append(printed, count_)
  /\ UNCHANGED <<example, expiry, waiting, queue, count_, outcome>>

\* ... at the limit the callback ends.
PrintsNot(w) ==
  /\ thread[w][1] = "test"
  /\ count_ = Limit
  /\ thread' \in [Threads -> ThreadStates]
  /\ thread'[w] = <<"run">>
  /\ \A v \in Threads : v # w => thread'[v] = thread[v]
  /\ UNCHANGED <<example, expiry, waiting, queue, seen, count_, printed, outcome>>

LEMMA PrintEffect ==
  ASSUME TimersTypeOK, NEW w \in Threads, print(w)
  PROVE  Prints(w) \/ PrintsNot(w)
<1>1. thread[w][1] = "test" /\ thread[w][2] \in Timers
  BY CallbackOf DEF print, InCallback
<1>2. <<"update", thread[w][2]>> \in ThreadStates /\ <<"run">> \in ThreadStates
  BY <1>1 DEF ThreadStates
<1>3. CASE count_ < Limit
  <2>1. thread' = [thread EXCEPT ![w] = <<"update", thread[w][2]>>]
    BY <1>3 DEF print, TimersTypeOK
  <2>. QED
    BY <1>1, <1>2, <1>3, <2>1, ThreadMoves DEF print, Prints
<1>4. CASE ~(count_ < Limit)
  <2>1. thread' = [thread EXCEPT ![w] = <<"run">>]
    BY <1>4 DEF print
  <2>2. count_ = Limit
    BY <1>4 DEF TimersTypeOK, Limit
  <2>. QED
    BY <1>1, <1>2, <1>4, <2>1, <2>2, ThreadMoves DEF print, PrintsNot
<1>. QED
  BY <1>3, <1>4

\* What rearm does, of the callback of timer t.
Rearms(w, t) ==
  /\ thread[w] = <<"update", t>>
  /\ thread' \in [Threads -> ThreadStates]
  /\ thread'[w] = <<"run">>
  /\ \A v \in Threads : v # w => thread'[v] = thread[v]
  /\ count_' = seen[w] + 1
  /\ expiry' = [expiry EXCEPT ![t] = expiry[t] + 1]
  /\ waiting' = [waiting EXCEPT ![t] = TRUE]
  /\ seen' = [seen EXCEPT ![w] = 0]
  /\ UNCHANGED <<example, queue, printed, outcome>>

LEMMA RearmEffect ==
  ASSUME TimersTypeOK, NEW w \in Threads, rearm(w)
  PROVE  \E t \in Timers : Rearms(w, t)
<1>1. thread[w] = <<"update", thread[w][2]>> /\ thread[w][2] \in Timers
  BY CallbackOf DEF rearm, InCallback
<1>2. <<"run">> \in ThreadStates
  BY DEF ThreadStates
<1>3. Rearms(w, thread[w][2])
  BY <1>1, <1>2, ThreadMoves DEF rearm, Rearms, TimersTypeOK
<1>. QED
  BY <1>1, <1>3

\* What the handler of timer t does.
Handles(w, t) ==
  /\ thread[w] = <<"handler", t>>
  /\ thread' \in [Threads -> ThreadStates]
  /\ thread'[w] = <<"run">>
  /\ \A v \in Threads : v # w => thread'[v] = thread[v]
  /\ \/ UNCHANGED <<waiting, queue>>
     \/ /\ example = "cancel"
        /\ t = "timer1"
        /\ waiting["timer2"]
        /\ waiting' = [waiting EXCEPT !["timer2"] = FALSE]
        /\ queue' = Append(queue, <<"timer2", "operation_aborted">>)
  /\ UNCHANGED <<example, expiry, seen, count_, printed, outcome>>

LEMMA HandlerEffect ==
  ASSUME TimersTypeOK, NEW w \in Threads, handler(w)
  PROVE  \E t \in Timers : Handles(w, t)
<1>1. thread[w] = <<"handler", thread[w][2]>> /\ thread[w][2] \in Timers
  BY CallbackOf DEF handler, InCallback
<1>2. <<"run">> \in ThreadStates
  BY DEF ThreadStates
<1>3. thread' = [thread EXCEPT ![w] = <<"run">>]
  BY DEF handler
<1>4. Handles(w, thread[w][2])
  BY <1>1, <1>2, <1>3, ThreadMoves DEF handler, Handles
<1>. QED
  BY <1>1, <1>4

\* A new entry goes behind what is queued.
LEMMA QueuedAppend ==
  ASSUME TimersTypeOK, NEW t \in Timers, NEW code \in {"success", "operation_aborted"},
         queue' = Append(queue, <<t, code>>)
  PROVE  /\ queue' \in Seq(Timers \X {"success", "operation_aborted"})
         /\ Len(queue') = Len(queue) + 1
         /\ Len(queue) \in Nat
         /\ queue'[Len(queue) + 1] = <<t, code>>
         /\ \A i \in 1 .. Len(queue) : queue'[i] = queue[i]
         /\ DOMAIN queue = 1 .. Len(queue)
         /\ DOMAIN queue' = 1 .. Len(queue) + 1
BY DEF TimersTypeOK

\* The programs and the first deadlines of their timers.
LEMMA DeadlineFacts ==
  ASSUME NEW p \in TimerPrograms
  PROVE  /\ Used(p) \subseteq Timers
         /\ \A t \in Used(p) : Deadlines(p)[t] \in Nat
         /\ p \notin Repeating => Used(p) = Timers
         /\ p = "cancel" => Deadlines(p)["timer1"] < Deadlines(p)["timer2"]
BY DEF TimerPrograms, Used, Deadlines, Timers, Repeating

\* The limits are positive.
LEMMA LimitFacts == Limit \in Nat /\ Limit > 0
BY DEF Limit

-----------------------------------------------------------------------------
(* The invariant holds initially and every step preserves it.              *)


\* The program that runs stays the same.
LEMMA ProgramKept == [TimersNext]_timerVars => example' = example /\ Limit' = Limit
<1> SUFFICES ASSUME [TimersNext]_timerVars PROVE example' = example
  BY DEF Limit
<1> QED
  BY DEF TimersNext, ThreadStep, timerVars, Expire, TakeCallback, print, rearm, handler,
         ioRunReturns, joinThread

\* The types are preserved; the count stays below the limit by StrandInv.
LEMMA TypeOKStep ==
  ASSUME TimersTypeOK, StrandInv, [TimersNext]_timerVars
  PROVE  TimersTypeOK'
<1>0. Limit \in Nat /\ Limit > 0 /\ example' = example /\ Limit' = Limit
  BY LimitFacts, ProgramKept
<1>1. ASSUME NEW t \in Timers, Expire(t)
      PROVE  TimersTypeOK'
  BY <1>0, <1>1 DEF Expire, TimersTypeOK
<1>2. ASSUME NEW w \in Threads, TakeCallback(w)
      PROVE  TimersTypeOK'
  <2>1. PICK i \in DOMAIN queue, t \in Timers, code \in {"success", "operation_aborted"} :
          Takes(w, i, t, code)
    BY <1>2, TakeCallbackEffect
  <2>. QED
    BY <1>0, <2>1 DEF Takes, TimersTypeOK, ThreadStates
<1>3. ASSUME NEW w \in Threads, print(w)
      PROVE  TimersTypeOK'
  <2>1. CASE Prints(w)
    BY <1>0, <2>1 DEF Prints, TimersTypeOK, ThreadStates
  <2>2. CASE PrintsNot(w)
    BY <1>0, <2>2 DEF PrintsNot, TimersTypeOK, ThreadStates
  <2>. QED
    BY <1>3, <2>1, <2>2, PrintEffect
<1>4. ASSUME NEW w \in Threads, rearm(w)
      PROVE  TimersTypeOK'
  <2>1. PICK t \in Timers : Rearms(w, t)
    BY <1>4, RearmEffect
  <2>2. seen[w] < Limit
    BY <2>1 DEF Rearms, StrandInv
  <2>. QED
    BY <1>0, <2>1, <2>2 DEF Rearms, TimersTypeOK, ThreadStates
<1>5. ASSUME NEW w \in Threads, handler(w)
      PROVE  TimersTypeOK'
  <2>1. PICK t \in Timers : Handles(w, t)
    BY <1>5, HandlerEffect
  <2>2. queue' \in Seq(Timers \X {"success", "operation_aborted"})
    BY <2>1, QueuedAppend DEF Handles, TimersTypeOK, Timers
  <2>3. waiting' \in [Timers -> BOOLEAN]
    BY <2>1 DEF Handles, TimersTypeOK
  <2>. QED
    BY <1>0, <2>1, <2>2, <2>3 DEF Handles, TimersTypeOK, ThreadStates
<1>6. ASSUME NEW w \in Threads, ioRunReturns(w)
      PROVE  TimersTypeOK'
  BY <1>0, <1>6 DEF ioRunReturns, TimersTypeOK
<1>7. CASE joinThread
  BY <1>0, <1>7 DEF joinThread, TimersTypeOK
<1>8. CASE UNCHANGED timerVars
  BY <1>0, <1>8 DEF timerVars, TimersTypeOK
<1>. QED
  BY <1>1, <1>2, <1>3, <1>4, <1>5, <1>6, <1>7, <1>8 DEF TimersNext, ThreadStep

\* StrandInv is preserved: a callback starts only when none is running.
LEMMA StrandInvStep ==
  ASSUME TimersTypeOK, StrandInv, [TimersNext]_timerVars
  PROVE  StrandInv'
<1>0. Limit \in Nat /\ example' = example /\ Limit' = Limit
  BY LimitFacts, ProgramKept
<1>. USE <1>0 DEF TimersTypeOK, StrandInv, InCallback
<1>1. ASSUME NEW t \in Timers, Expire(t)
      PROVE  StrandInv'
  BY <1>1 DEF Expire
<1>2. ASSUME NEW w \in Threads, TakeCallback(w)
      PROVE  StrandInv'
  BY <1>2 DEF TakeCallback, StrandFree
<1>3. ASSUME NEW w \in Threads, print(w)
      PROVE  StrandInv'
  <2>1. \A v \in Threads : InCallback(v) => v = w
    BY <1>3 DEF print
  <2>2. example \in Repeating
    BY <1>3 DEF print
  <2>3. CASE Prints(w)
    <3>1. \A v \in Threads : v # w => thread'[v][1] \notin {"test", "update", "handler"}
      BY <2>1, <2>3 DEF Prints
    <3>2. thread'[w][1] = "update" /\ seen'[w] = count_' /\ count_' < Limit'
      BY <2>3 DEF Prints
    <3>. QED
      BY <2>2, <3>1, <3>2
  <2>4. CASE PrintsNot(w)
    <3>1. \A v \in Threads : thread'[v][1] \notin {"test", "update", "handler"}
      BY <2>1, <2>4 DEF PrintsNot
    <3>. QED
      BY <3>1
  <2>. QED
    BY <1>3, <2>3, <2>4, PrintEffect
<1>4. ASSUME NEW w \in Threads, rearm(w)
      PROVE  StrandInv'
  BY <1>4 DEF rearm
<1>5. ASSUME NEW w \in Threads, handler(w)
      PROVE  StrandInv'
  BY <1>5 DEF handler
<1>6. ASSUME NEW w \in Threads, ioRunReturns(w)
      PROVE  StrandInv'
  BY <1>6 DEF ioRunReturns
<1>7. CASE joinThread
  BY <1>7 DEF joinThread
<1>8. CASE UNCHANGED timerVars
  BY <1>8 DEF timerVars
<1>. QED
  BY <1>1, <1>2, <1>3, <1>4, <1>5, <1>6, <1>7, <1>8 DEF TimersNext, ThreadStep

\* The numbers from 0 on, and the next one.
LEMMA CountedUp ==
  ASSUME NEW n \in Nat, NEW s, s \in Seq(Nat), s = [i \in 1 .. n |-> i - 1]
  PROVE  /\ Len(Append(s, n)) = n + 1
         /\ Append(s, n) = [i \in 1 .. n + 1 |-> i - 1]
<1>1. Len(s) = n
  <2>1. DOMAIN s = 1 .. n /\ DOMAIN s = 1 .. Len(s) /\ Len(s) \in Nat
    OBVIOUS
  <2>. QED
    BY <2>1
<1>2. /\ Append(s, n) \in Seq(Nat)
      /\ Len(Append(s, n)) = n + 1
      /\ DOMAIN Append(s, n) = 1 .. n + 1
  BY <1>1
<1>3. \A i \in 1 .. n + 1 : Append(s, n)[i] = i - 1
  BY <1>1
<1>. QED
  BY <1>2, <1>3

\* ProgressInv is preserved.
LEMMA ProgressInvStep ==
  ASSUME TimersTypeOK, StrandInv, ProgressInv, [TimersNext]_timerVars
  PROVE  ProgressInv'
<1>0. Limit \in Nat /\ example' = example /\ Limit' = Limit
  BY LimitFacts, ProgramKept
<1>1. ASSUME NEW t \in Timers, Expire(t)
      PROVE  ProgressInv'
  <2>1. ~OutOfWork /\ ~OutOfWork'
    BY <1>1, QueuedAppend DEF Expire, OutOfWork
  <2>. QED
    BY <1>1, <2>1 DEF Expire, ProgressInv
<1>2. ASSUME NEW w \in Threads, TakeCallback(w)
      PROVE  ProgressInv'
  <2>1. PICK i \in DOMAIN queue, t \in Timers, code \in {"success", "operation_aborted"} :
          Takes(w, i, t, code)
    BY <1>2, TakeCallbackEffect
  <2>2. ~OutOfWork /\ ~OutOfWork'
    BY <2>1 DEF Takes, OutOfWork, InCallback, TimersTypeOK
  <2>3. thread'[w] \notin {<<"returned">>, <<"done">>}
    BY <2>1 DEF Takes
  <2>. QED
    BY <2>1, <2>2, <2>3 DEF Takes, ProgressInv
<1>3. ASSUME NEW w \in Threads, print(w)
      PROVE  ProgressInv'
  <2>1. ~OutOfWork
    BY <1>3 DEF print, OutOfWork, InCallback
  <2>2. CASE Prints(w)
    <3>1. ~OutOfWork'
      BY <2>2 DEF Prints, OutOfWork, InCallback
    <3>. QED
      BY <2>1, <2>2, <3>1 DEF Prints, ProgressInv
  <2>3. CASE PrintsNot(w)
    BY <1>0, <2>1, <2>3 DEF PrintsNot, ProgressInv
  <2>. QED
    BY <1>3, <2>2, <2>3, PrintEffect
<1>4. ASSUME NEW w \in Threads, rearm(w)
      PROVE  ProgressInv'
  <2>1. PICK t \in Timers : Rearms(w, t)
    BY <1>4, RearmEffect
  <2>2. ~OutOfWork /\ ~OutOfWork'
    BY <2>1 DEF Rearms, OutOfWork, InCallback, TimersTypeOK
  <2>. QED
    BY <2>1, <2>2 DEF Rearms, ProgressInv
<1>5. ASSUME NEW w \in Threads, handler(w)
      PROVE  ProgressInv'
  <2>1. PICK t \in Timers : Handles(w, t)
    BY <1>5, HandlerEffect
  <2>2. ~OutOfWork /\ example \notin Repeating
    BY <2>1 DEF Handles, OutOfWork, InCallback, StrandInv
  <2>. QED
    BY <1>0, <2>1, <2>2 DEF Handles, ProgressInv
<1>6. ASSUME NEW w \in Threads, ioRunReturns(w)
      PROVE  ProgressInv'
  <2>1. OutOfWork /\ OutOfWork'
    BY <1>6 DEF ioRunReturns, OutOfWork, InCallback, TimersTypeOK
  <2>. QED
    BY <1>0, <1>6, <2>1 DEF ioRunReturns, ProgressInv
<1>7. CASE joinThread
  <2>1. OutOfWork
    BY <1>7 DEF joinThread, ProgressInv, Threads
  <2>2. OutOfWork'
    BY <1>7, <2>1 DEF joinThread, OutOfWork, InCallback, TimersTypeOK
  <2>. QED
    BY <1>0, <1>7, <2>1, <2>2 DEF joinThread, ProgressInv
<1>8. CASE UNCHANGED timerVars
  BY <1>0, <1>8 DEF timerVars, ProgressInv, OutOfWork, InCallback
<1>. QED
  BY <1>1, <1>2, <1>3, <1>4, <1>5, <1>6, <1>7, <1>8 DEF TimersNext, ThreadStep

\* Is a thread between printing the count and storing the next one?
Updating == \E w \in Threads : thread[w][1] = "update"

\* CountExact is preserved.
LEMMA CountExactStep ==
  ASSUME TimersTypeOK, StrandInv, ProgressInv, CountExact, [TimersNext]_timerVars
  PROVE  CountExact'
<1>0. Limit \in Nat /\ example' = example /\ Limit' = Limit
  BY LimitFacts, ProgramKept
<1>1. /\ count_ \in Nat
      /\ printed \in Seq(Nat)
      /\ printed = [i \in 1 .. Len(printed) |-> i - 1]
      /\ Len(printed) = IF Updating THEN count_ + 1 ELSE count_
      /\ thread["main"] = <<"done">> /\ example \in Repeating => count_ = Limit
  BY <1>0 DEF CountExact, TimersTypeOK, Updating
<1>2. SUFFICES /\ printed' = [i \in 1 .. Len(printed') |-> i - 1]
               /\ Len(printed') = IF Updating' THEN count_' + 1 ELSE count_'
               /\ thread'["main"] = <<"done">> /\ example \in Repeating => count_' = Limit
  BY <1>0 DEF CountExact, Updating
<1>. DEFINE Goal == /\ printed' = [i \in 1 .. Len(printed') |-> i - 1]
                    /\ Len(printed') = IF Updating' THEN count_' + 1 ELSE count_'
                    /\ thread'["main"] = <<"done">> /\ example \in Repeating => count_' = Limit
<1>. HIDE DEF Goal
<1>3. ASSUME UNCHANGED <<count_, printed>>, Updating' = Updating,
             thread'["main"] = <<"done">> => thread["main"] = <<"done">>
      PROVE  Goal
  BY <1>1, <1>3 DEF Goal
<1>4. ASSUME NEW t \in Timers, Expire(t)
      PROVE  Goal
  BY <1>3, <1>4 DEF Expire, Updating
<1>5. ASSUME NEW w \in Threads, TakeCallback(w)
      PROVE  Goal
  <2>1. PICK i \in DOMAIN queue, t \in Timers, code \in {"success", "operation_aborted"} :
          Takes(w, i, t, code)
    BY <1>5, TakeCallbackEffect
  <2>2. Updating' = Updating
    BY <2>1 DEF Takes, Updating
  <2>3. thread'["main"] = <<"done">> => thread["main"] = <<"done">>
    BY <2>1 DEF Takes, Threads
  <2>. QED
    BY <1>3, <2>1, <2>2, <2>3 DEF Takes
<1>6. ASSUME NEW w \in Threads, print(w)
      PROVE  Goal
  <2>1. ~Updating
    BY <1>6 DEF print, Updating, StrandInv, InCallback
  <2>2. CASE Prints(w)
    <3>1. Updating'
      BY <2>2 DEF Prints, Updating
    <3>2. Len(printed') = count_ + 1 /\ printed' = [i \in 1 .. count_ + 1 |-> i - 1]
      BY <1>1, <2>1, <2>2, CountedUp DEF Prints
    <3>3. thread'["main"] = <<"done">> => thread["main"] = <<"done">>
      BY <2>2 DEF Prints, Threads
    <3>. QED
      BY <1>1, <2>2, <3>1, <3>2, <3>3 DEF Prints, Goal
  <2>3. CASE PrintsNot(w)
    <3>1. ~Updating'
      BY <2>1, <2>3 DEF PrintsNot, Updating
    <3>2. thread'["main"] = <<"done">> => thread["main"] = <<"done">>
      BY <2>3 DEF PrintsNot, Threads
    <3>. QED
      BY <1>1, <2>1, <2>3, <3>1, <3>2 DEF PrintsNot, Goal
  <2>. QED
    BY <1>6, <2>2, <2>3, PrintEffect
<1>7. ASSUME NEW w \in Threads, rearm(w)
      PROVE  Goal
  <2>1. PICK t \in Timers : Rearms(w, t)
    BY <1>7, RearmEffect
  <2>2. Updating /\ ~OutOfWork /\ seen[w] = count_
    BY <2>1 DEF Rearms, Updating, OutOfWork, InCallback, StrandInv
  <2>3. ~Updating'
    BY <2>1 DEF Rearms, Updating, StrandInv, InCallback
  <2>4. thread["main"] # <<"done">>
    BY <2>2 DEF ProgressInv, Threads
  <2>5. thread'["main"] # <<"done">>
    BY <2>1, <2>4 DEF Rearms, Threads
  <2>. QED
    BY <1>1, <2>1, <2>2, <2>3, <2>5 DEF Rearms, Goal
<1>8. ASSUME NEW w \in Threads, handler(w)
      PROVE  Goal
  <2>1. PICK t \in Timers : Handles(w, t)
    BY <1>8, HandlerEffect
  <2>2. Updating' = Updating
    BY <2>1 DEF Handles, Updating
  <2>3. thread'["main"] = <<"done">> => thread["main"] = <<"done">>
    BY <2>1 DEF Handles, Threads
  <2>. QED
    BY <1>3, <2>1, <2>2, <2>3 DEF Handles
<1>9. ASSUME NEW w \in Threads, ioRunReturns(w)
      PROVE  Goal
  <2>1. Updating' = Updating
    BY <1>9 DEF ioRunReturns, Updating, TimersTypeOK
  <2>2. thread'["main"] = <<"done">> => thread["main"] = <<"done">>
    BY <1>9 DEF ioRunReturns, TimersTypeOK, Threads
  <2>. QED
    BY <1>3, <1>9, <2>1, <2>2 DEF ioRunReturns
<1>10. CASE joinThread
  <2>1. Updating' = Updating
    BY <1>10 DEF joinThread, Updating, TimersTypeOK
  <2>2. OutOfWork
    BY <1>10 DEF joinThread, ProgressInv, Threads
  <2>3. example \in Repeating => count_ = Limit
    BY <2>2 DEF ProgressInv
  <2>. QED
    BY <1>1, <1>10, <2>1, <2>3 DEF joinThread, Goal
<1>11. CASE UNCHANGED timerVars
  <2>1. Updating' = Updating
    BY <1>11 DEF timerVars, Updating
  <2>. QED
    BY <1>1, <1>11, <2>1 DEF timerVars, Goal
<1>. QED
  BY <1>4, <1>5, <1>6, <1>7, <1>8, <1>9, <1>10, <1>11 DEF TimersNext, ThreadStep, Goal

\* ReportInv is preserved.
LEMMA ReportInvStep ==
  ASSUME TimersTypeOK, ReportInv, [TimersNext]_timerVars
  PROVE  ReportInv'
<1>0. Used(example) \subseteq Timers /\ example' = example
  BY DeadlineFacts, ProgramKept DEF TimersTypeOK
<1>1. SUFFICES ASSUME NEW u \in Used(example)
               PROVE  waiting'[u] \/ Queued(u)' \/ outcome'[u] # "none"
  BY <1>0 DEF ReportInv, Queued
<1>2. u \in Timers /\ (waiting[u] \/ Queued(u) \/ outcome[u] # "none")
  BY <1>0 DEF ReportInv
<1>. DEFINE Kept == waiting'[u] \/ Queued(u)' \/ outcome'[u] # "none"
<1>. HIDE DEF Kept
<1>3. ASSUME NEW t \in Timers, NEW code \in {"success", "operation_aborted"},
             queue' = Append(queue, <<t, code>>), waiting' = [waiting EXCEPT ![t] = FALSE],
             outcome' = outcome
      PROVE  Kept
  <2>1. u = t => Queued(u)'
    BY <1>3, QueuedAppend DEF Queued
  <2>2. Queued(u) => Queued(u)'
    BY <1>3, QueuedAppend DEF Queued
  <2>. QED
    BY <1>2, <1>3, <2>1, <2>2 DEF TimersTypeOK, Kept
<1>4. ASSUME NEW t \in Timers, Expire(t)
      PROVE  Kept
  BY <1>3, <1>4 DEF Expire
<1>5. ASSUME NEW w \in Threads, TakeCallback(w)
      PROVE  Kept
  <2>1. PICK i \in DOMAIN queue, t \in Timers, code \in {"success", "operation_aborted"} :
          Takes(w, i, t, code)
    BY <1>5, TakeCallbackEffect
  <2>2. CASE u = t
    BY <2>1, <2>2 DEF Takes, Kept
  <2>3. CASE u # t /\ Queued(u)
    <3>1. PICK j \in DOMAIN queue : queue[j][1] = u
      BY <2>3 DEF Queued
    <3>2. j # i
      BY <2>1, <2>3, <3>1 DEF Takes
    <3>3. /\ DOMAIN queue = 1 .. Len(queue) /\ Len(queue) \in Nat
          /\ DOMAIN queue' = 1 .. Len(queue) - 1
      BY <2>1 DEF Takes, TimersTypeOK
    <3>4. CASE j < i
      <4>1. j \in DOMAIN queue' /\ queue'[j] = queue[j]
        BY <2>1, <3>3, <3>4 DEF Takes
      <4>. QED
        BY <3>1, <4>1 DEF Queued, Kept
    <3>5. CASE j > i
      <4>1. j - 1 \in DOMAIN queue' /\ queue'[j - 1] = queue[j]
        BY <2>1, <3>3, <3>5 DEF Takes
      <4>. QED
        BY <3>1, <4>1 DEF Queued, Kept
    <3>. QED
      BY <3>2, <3>3, <3>4, <3>5
  <2>. QED
    BY <1>2, <2>1, <2>2, <2>3 DEF Takes, Kept
<1>6. ASSUME NEW w \in Threads, print(w)
      PROVE  Kept
  BY <1>2, <1>6 DEF print, Queued, Kept
<1>7. ASSUME NEW w \in Threads, rearm(w)
      PROVE  Kept
  <2>1. PICK t \in Timers : Rearms(w, t)
    BY <1>7, RearmEffect
  <2>2. waiting[u] => waiting'[u]
    BY <1>2, <2>1 DEF Rearms, TimersTypeOK
  <2>. QED
    BY <1>2, <2>1, <2>2 DEF Rearms, Queued, Kept
<1>8. ASSUME NEW w \in Threads, handler(w)
      PROVE  Kept
  <2>1. PICK t \in Timers : Handles(w, t)
    BY <1>8, HandlerEffect
  <2>2. CASE UNCHANGED <<waiting, queue>>
    BY <1>2, <2>1, <2>2 DEF Handles, Queued, Kept
  <2>3. CASE ~UNCHANGED <<waiting, queue>>
    BY <1>3, <2>1, <2>3 DEF Handles, Timers
  <2>. QED
    BY <2>2, <2>3
<1>9. ASSUME NEW w \in Threads, ioRunReturns(w)
      PROVE  Kept
  BY <1>2, <1>9 DEF ioRunReturns, Queued, Kept
<1>10. CASE joinThread
  BY <1>2, <1>10 DEF joinThread, Queued, Kept
<1>11. CASE UNCHANGED timerVars
  BY <1>2, <1>11 DEF timerVars, Queued, Kept
<1>. QED
  BY <1>4, <1>5, <1>6, <1>7, <1>8, <1>9, <1>10, <1>11 DEF TimersNext, ThreadStep, Kept

\* Timer t, with a later deadline than u, is reported and queued only after u.
Before(u, t) ==
  /\ outcome[t] # "none" => outcome[u] # "none"
  /\ \A i \in DOMAIN queue : queue[i][1] = t =>
       outcome[u] # "none" \/ \E j \in DOMAIN queue : j < i /\ queue[j][1] = u

\* An entry of a timer u keeps its order when an entry of t is appended,
\* if u has been queued or reported.
LEMMA BeforeAppend ==
  ASSUME TimersTypeOK, NEW s \in Timers, NEW code \in {"success", "operation_aborted"},
         queue' = Append(queue, <<s, code>>), outcome' = outcome,
         NEW u \in Timers, NEW t \in Timers, Before(u, t),
         s = t => outcome[u] # "none" \/ Queued(u)
  PROVE  Before(u, t)'
<1>1. /\ Len(queue) \in Nat
      /\ DOMAIN queue = 1 .. Len(queue) /\ DOMAIN queue' = 1 .. Len(queue) + 1
      /\ queue'[Len(queue) + 1] = <<s, code>>
      /\ \A i \in 1 .. Len(queue) : queue'[i] = queue[i]
  BY QueuedAppend
<1>2. ASSUME NEW i \in DOMAIN queue', queue'[i][1] = t, outcome[u] = "none"
      PROVE  \E j \in DOMAIN queue' : j < i /\ queue'[j][1] = u
  <2>1. CASE i \in DOMAIN queue
    <3>1. PICK j \in DOMAIN queue : j < i /\ queue[j][1] = u
      BY <1>1, <1>2, <2>1 DEF Before
    <3>. QED
      BY <1>1, <3>1
  <2>2. CASE i = Len(queue) + 1
    <3>1. PICK j \in DOMAIN queue : queue[j][1] = u
      BY <1>1, <1>2, <2>2 DEF Queued
    <3>2. j \in DOMAIN queue' /\ j < i /\ queue'[j][1] = u
      BY <1>1, <2>2, <3>1
    <3>. QED
      BY <3>2
  <2>. QED
    BY <1>1, <2>1, <2>2
<1>. QED
  BY <1>2 DEF Before

\* ... and when the first callback is taken.
LEMMA BeforeTake ==
  ASSUME TimersTypeOK, NEW w \in Threads, NEW s \in Timers,
         NEW code \in {"success", "operation_aborted"}, 1 \in DOMAIN queue, Takes(w, 1, s, code),
         NEW u \in Timers, NEW t \in Timers, Before(u, t)
  PROVE  Before(u, t)'
<1>1. /\ Len(queue) \in Nat
      /\ DOMAIN queue = 1 .. Len(queue) /\ DOMAIN queue' = 1 .. Len(queue) - 1
      /\ queue[1][1] = s
      /\ \A i \in 1 .. Len(queue) - 1 : queue'[i] = queue[i + 1]
  BY DEF Takes, TimersTypeOK
<1>2. /\ outcome'[s] # "none"
      /\ \A v \in Timers : v # s => outcome'[v] = outcome[v]
  BY DEF Takes
<1>3. s = t => outcome[u] # "none"
  BY <1>1 DEF Before
<1>4. outcome'[t] # "none" => outcome'[u] # "none"
  BY <1>2, <1>3 DEF Before
<1>5. ASSUME NEW i \in DOMAIN queue', queue'[i][1] = t, outcome'[u] = "none"
      PROVE  \E j \in DOMAIN queue' : j < i /\ queue'[j][1] = u
  <2>1. i + 1 \in DOMAIN queue /\ queue[i + 1][1] = t /\ outcome[u] = "none" /\ u # s
    BY <1>1, <1>2, <1>5
  <2>2. PICK j \in DOMAIN queue : j < i + 1 /\ queue[j][1] = u
    BY <2>1 DEF Before
  <2>3. j - 1 \in DOMAIN queue' /\ j - 1 < i /\ queue'[j - 1][1] = u
    BY <1>1, <2>1, <2>2
  <2>. QED
    BY <2>3
<1>. QED
  BY <1>4, <1>5 DEF Before

\* OrderInv is preserved; ReportInv says that an earlier timer is not lost,
\* AbortInv that timer 1 comes before the abort of timer 2.
LEMMA OrderInvStep ==
  ASSUME TimersTypeOK, StrandInv, ReportInv, OrderInv, AbortInv, [TimersNext]_timerVars
  PROVE  OrderInv'
<1>0. example' = example
  BY ProgramKept
<1>. DEFINE OnTime == \A t \in Timers : expiry[t] = Deadlines(example)[t]
            Ordered == \A t, u \in Timers :
                         Deadlines(example)[u] < Deadlines(example)[t] => Before(u, t)
<1>1. OrderInv = (example \notin Repeating => OnTime /\ Ordered)
  BY DEF OrderInv, Before
<1>2. OrderInv' = (example \notin Repeating => OnTime' /\ Ordered')
  BY <1>0 DEF OrderInv, Before
<1>3. SUFFICES ASSUME example \notin Repeating
               PROVE  OnTime' /\ Ordered'
  BY <1>2
<1>4. OnTime /\ Ordered /\ Used(example) = Timers
  BY <1>1, <1>3, DeadlineFacts DEF TimersTypeOK
<1>5. UNCHANGED <<expiry, queue, outcome>> => OnTime' /\ Ordered'
  BY <1>0, <1>4 DEF Before
<1>6. ASSUME NEW t \in Timers, Expire(t)
      PROVE  OnTime' /\ Ordered'
  <2>1. OnTime'
    BY <1>0, <1>4, <1>6 DEF Expire
  <2>2. ASSUME NEW v \in Timers, NEW u \in Timers,
               Deadlines(example)[u] < Deadlines(example)[v]
        PROVE  Before(u, v)'
    <3>1. Before(u, v)
      BY <1>4, <2>2
    <3>2. v = t => outcome[u] # "none" \/ Queued(u)
      <4>1. ASSUME v = t PROVE ~waiting[u]
        <5>1. waiting[u] => expiry[t] <= expiry[u]
          BY <1>6 DEF Expire
        <5>2. expiry[t] \in Nat /\ expiry[u] \in Nat /\ expiry[u] < expiry[t]
          BY <1>4, <2>2, <4>1 DEF TimersTypeOK
        <5>. QED
          BY <5>1, <5>2
      <4>. QED
        BY <1>4, <4>1 DEF ReportInv
    <3>. QED
      BY <1>6, <3>1, <3>2, BeforeAppend DEF Expire
  <2>. QED
    BY <1>0, <2>1, <2>2
<1>7. ASSUME NEW w \in Threads, TakeCallback(w)
      PROVE  OnTime' /\ Ordered'
  <2>1. PICK i \in DOMAIN queue, t \in Timers, code \in {"success", "operation_aborted"} :
          Takes(w, i, t, code)
    BY <1>7, TakeCallbackEffect
  <2>2. i = 1
    BY <1>3, <2>1 DEF Takes, Repeating
  <2>3. OnTime'
    BY <1>0, <1>4, <2>1 DEF Takes
  <2>. QED
    BY <1>0, <1>4, <2>1, <2>2, <2>3, BeforeTake
<1>8. ASSUME NEW w \in Threads, print(w)
      PROVE  OnTime' /\ Ordered'
  BY <1>5, <1>8 DEF print
<1>9. ASSUME NEW w \in Threads, rearm(w)
      PROVE  OnTime' /\ Ordered'
  BY <1>3, <1>9 DEF rearm, StrandInv
<1>10. ASSUME NEW w \in Threads, handler(w)
      PROVE  OnTime' /\ Ordered'
  <2>1. PICK t \in Timers : Handles(w, t)
    BY <1>10, HandlerEffect
  <2>2. CASE UNCHANGED <<waiting, queue>>
    BY <1>5, <2>1, <2>2 DEF Handles
  <2>3. CASE ~UNCHANGED <<waiting, queue>>
    <3>1. /\ queue' = Append(queue, <<"timer2", "operation_aborted">>)
          /\ outcome' = outcome /\ expiry' = expiry
          /\ thread[w] = <<"handler", "timer1">>
      BY <2>1, <2>3 DEF Handles
    <3>2. outcome["timer1"] # "none"
      BY <3>1 DEF AbortInv
    <3>3. ASSUME NEW v \in Timers, NEW u \in Timers,
                 Deadlines(example)[u] < Deadlines(example)[v]
          PROVE  Before(u, v)'
      <4>1. v = "timer2" => u = "timer1"
        <5>1. v # u
          BY <1>4, <3>3 DEF TimersTypeOK
        <5>. QED
          BY <5>1 DEF Timers
      <4>2. Before(u, v)
        BY <1>4, <3>3
      <4>. QED
        BY <3>1, <3>2, <4>1, <4>2, BeforeAppend DEF Timers
    <3>. QED
      BY <1>0, <1>4, <3>1, <3>3
  <2>. QED
    BY <2>2, <2>3
<1>11. ASSUME NEW w \in Threads, ioRunReturns(w)
      PROVE  OnTime' /\ Ordered'
  BY <1>5, <1>11 DEF ioRunReturns
<1>12. CASE joinThread
  BY <1>5, <1>12 DEF joinThread
<1>13. CASE UNCHANGED timerVars
  BY <1>5, <1>13 DEF timerVars
<1>. QED
  BY <1>6, <1>7, <1>8, <1>9, <1>10, <1>11, <1>12, <1>13 DEF TimersNext, ThreadStep

\* AbortInv is preserved.
LEMMA AbortInvStep ==
  ASSUME TimersTypeOK, AbortInv, [TimersNext]_timerVars
  PROVE  AbortInv'
<1>0. example' = example
  BY ProgramKept
<1>1. ASSUME NEW t \in Timers, Expire(t)
      PROVE  AbortInv'
  BY <1>0, <1>1, QueuedAppend DEF Expire, AbortInv
<1>2. ASSUME NEW w \in Threads, TakeCallback(w)
      PROVE  AbortInv'
  <2>1. PICK i \in DOMAIN queue, t \in Timers, code \in {"success", "operation_aborted"} :
          Takes(w, i, t, code)
    BY <1>2, TakeCallbackEffect
  <2>2. code = "operation_aborted" =>
          t = "timer2" /\ example = "cancel" /\ outcome["timer1"] = "success"
    BY <2>1 DEF Takes, AbortInv
  <2>3. ASSUME NEW j \in DOMAIN queue', queue'[j][2] = "operation_aborted"
        PROVE  queue'[j][1] = "timer2" /\ example = "cancel" /\ outcome["timer1"] = "success"
    <3>1. /\ DOMAIN queue = 1 .. Len(queue) /\ Len(queue) \in Nat
          /\ DOMAIN queue' = 1 .. Len(queue) - 1
      BY <2>1 DEF Takes, TimersTypeOK
    <3>2. PICK k \in DOMAIN queue : queue'[j] = queue[k]
      <4>1. j \in DOMAIN queue /\ j + 1 \in DOMAIN queue
        BY <3>1
      <4>2. queue'[j] = queue[j] \/ queue'[j] = queue[j + 1]
        BY <2>1, <3>1 DEF Takes
      <4>. QED
        BY <4>1, <4>2
    <3>. QED
      BY <2>3, <3>2 DEF AbortInv
  <2>4. /\ outcome["timer1"] = "success" => outcome'["timer1"] = "success"
        /\ outcome'["timer1"] # "operation_aborted"
        /\ t = "timer1" => outcome'["timer1"] = "success"
    <3>1. CASE t = "timer1"
      BY <2>1, <2>2, <3>1 DEF Takes
    <3>2. CASE t = "timer2"
      BY <2>1, <2>2, <3>2 DEF Takes, AbortInv, Timers
    <3>. QED
      BY <3>1, <3>2 DEF Timers
  <2>5. outcome'["timer2"] = "operation_aborted" =>
          example = "cancel" /\ outcome'["timer1"] = "success"
    <3>1. CASE t = "timer1"
      BY <2>1, <2>4, <3>1 DEF Takes, AbortInv, Timers
    <3>2. CASE t = "timer2"
      BY <2>1, <2>2, <2>4, <3>2 DEF Takes
    <3>. QED
      BY <3>1, <3>2 DEF Timers
  <2>6. ASSUME NEW v \in Threads, thread'[v] = <<"handler", "timer1">>
        PROVE  outcome'["timer1"] = "success"
    <3>1. CASE v = w
      BY <2>1, <2>4, <2>6, <3>1 DEF Takes
    <3>2. CASE v # w
      BY <2>1, <2>4, <2>6, <3>2 DEF Takes, AbortInv
    <3>. QED
      BY <3>1, <3>2
  <2>. QED
    BY <1>0, <2>3, <2>4, <2>5, <2>6 DEF AbortInv
<1>3. ASSUME NEW w \in Threads, print(w)
      PROVE  AbortInv'
  <2>1. CASE Prints(w)
    BY <2>1 DEF Prints, AbortInv
  <2>2. CASE PrintsNot(w)
    BY <2>2 DEF PrintsNot, AbortInv
  <2>. QED
    BY <1>3, <2>1, <2>2, PrintEffect
<1>4. ASSUME NEW w \in Threads, rearm(w)
      PROVE  AbortInv'
  <2>1. PICK t \in Timers : Rearms(w, t)
    BY <1>4, RearmEffect
  <2>. QED
    BY <2>1 DEF Rearms, AbortInv
<1>5. ASSUME NEW w \in Threads, handler(w)
      PROVE  AbortInv'
  <2>1. PICK t \in Timers : Handles(w, t)
    BY <1>5, HandlerEffect
  <2>2. \A v \in Threads : thread'[v] = <<"handler", "timer1">> => outcome["timer1"] = "success"
    BY <2>1 DEF Handles, AbortInv
  <2>3. CASE UNCHANGED <<waiting, queue>>
    BY <2>1, <2>2, <2>3 DEF Handles, AbortInv
  <2>4. CASE ~UNCHANGED <<waiting, queue>>
    <3>1. /\ queue' = Append(queue, <<"timer2", "operation_aborted">>)
          /\ example = "cancel"
          /\ outcome["timer1"] = "success"
      BY <2>1, <2>4 DEF Handles, AbortInv
    <3>2. \A i \in DOMAIN queue' : queue'[i][2] = "operation_aborted" =>
            queue'[i][1] = "timer2" /\ example = "cancel" /\ outcome["timer1"] = "success"
      BY <3>1, QueuedAppend DEF AbortInv, Timers
    <3>. QED
      BY <2>1, <2>2, <3>1, <3>2 DEF Handles, AbortInv
  <2>. QED
    BY <2>3, <2>4
<1>6. ASSUME NEW w \in Threads, ioRunReturns(w)
      PROVE  AbortInv'
  BY <1>6 DEF ioRunReturns, AbortInv, TimersTypeOK
<1>7. CASE joinThread
  BY <1>7 DEF joinThread, AbortInv, TimersTypeOK
<1>8. CASE UNCHANGED timerVars
  BY <1>8 DEF timerVars, AbortInv
<1>. QED
  BY <1>1, <1>2, <1>3, <1>4, <1>5, <1>6, <1>7, <1>8 DEF TimersNext, ThreadStep

\* The invariant holds before time passes.
LEMMA TimersInitIInv == TimersInit => TimersIInv
<1> SUFFICES ASSUME TimersInit PROVE TimersIInv
  OBVIOUS
<1>1. /\ example \in TimerPrograms
      /\ Used(example) \subseteq Timers
      /\ \A t \in Used(example) : Deadlines(example)[t] \in Nat
      /\ example \notin Repeating => Used(example) = Timers
      /\ Limit \in Nat /\ Limit > 0
  BY DeadlineFacts, LimitFacts DEF TimersInit
<1>2. TimersTypeOK
  BY <1>1 DEF TimersInit, TimersTypeOK
<1>3. StrandInv
  BY DEF TimersInit, StrandInv, InCallback
<1>4. CountExact
  <2>1. printed = [i \in 1 .. Len(printed) |-> i - 1] /\ Len(printed) = 0
    BY DEF TimersInit
  <2>2. \A w \in Threads : thread[w] \in {<<"none">>, <<"run">>}
    BY DEF TimersInit
  <2>. QED
    BY <2>1, <2>2 DEF TimersInit, CountExact, Threads
<1>5. ProgressInv
  <2>1. ~OutOfWork
    BY <1>1 DEF TimersInit, OutOfWork, TimerPrograms, Used, Deadlines, Timers
  <2>. QED
    BY <2>1 DEF TimersInit, ProgressInv
<1>6. ReportInv
  BY <1>1 DEF TimersInit, ReportInv
<1>7. OrderInv
  BY <1>1 DEF TimersInit, OrderInv
<1>8. AbortInv
  BY DEF TimersInit, AbortInv, Timers
<1>. QED
  BY <1>2, <1>3, <1>4, <1>5, <1>6, <1>7, <1>8 DEF TimersIInv

\* TimersIInv is inductive.
LEMMA TimersNextIInv == TimersIInv /\ [TimersNext]_timerVars => TimersIInv'
BY TypeOKStep, StrandInvStep, CountExactStep, ProgressInvStep, ReportInvStep, OrderInvStep,
   AbortInvStep
DEF TimersIInv

-----------------------------------------------------------------------------

\* It holds in every reachable state.
LEMMA TimersIInvInvariant == TimersSpec => []TimersIInv
BY TimersInitIInv, TimersNextIInv, PTL DEF TimersSpec

\* The timer programs keep their types.
THEOREM TimersTypeCorrect == TimersSpec => []TimersTypeOK
<1>1. TimersIInv => TimersTypeOK
  BY DEF TimersIInv
<1>. QED
  BY TimersIInvInvariant, <1>1, PTL

\* Whichever thread runs the callbacks and in whichever order the strand
\* gets them, no increment of the count is lost.
THEOREM EveryCountExact == TimersSpec => []CountExact
<1>1. TimersIInv => CountExact
  BY DEF TimersIInv
<1>. QED
  BY TimersIInvInvariant, <1>1, PTL

\* What the invariant says of a program that has ended.
LEMMA ReportedAtEnd == TimersIInv => TimersReported
<1> SUFFICES ASSUME TimersIInv PROVE TimersReported
  OBVIOUS
<1>1. ASSUME thread["main"] = <<"done">>, NEW t \in Used(example)
      PROVE  outcome[t] # "none"
  <2>1. OutOfWork
    BY <1>1 DEF TimersIInv, ProgressInv, Threads
  <2>2. t \in Timers
    BY DeadlineFacts DEF TimersIInv, TimersTypeOK
  <2>. QED
    BY <2>1, <2>2 DEF TimersIInv, ReportInv, Queued, OutOfWork
<1>. QED
  BY <1>1 DEF TimersReported, TimersIInv, OrderInv, AbortInv

\* However late the threads are, timers are reported in the order of their
\* deadlines, an abort only when it was asked for, and all before the end.
THEOREM EveryTimerReported == TimersSpec => []TimersReported
BY TimersIInvInvariant, ReportedAtEnd, PTL

=============================================================================
