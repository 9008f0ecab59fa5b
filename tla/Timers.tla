------------------------------- MODULE Timers -------------------------------
(***************************************************************************)
(* The timer programs of Appendix_01 and Chapter06, each named after what  *)
(* it shows: two timers that fire once ("async"), one that is set again by *)
(* its own callback ("binding", "member_func"), two such timers whose      *)
(* callbacks share a count and run on two threads ("strand"), and a timer  *)
(* whose callback cancels the other ("cancel").                            *)
(*                                                                         *)
(* A deadline is a number of seconds.  No clock is modelled: an io_context *)
(* that runs late finds several timers expired and takes the earliest.     *)
(***************************************************************************)
EXTENDS Naturals, SequencesExt

Timers == {"timer1", "timer2"}
Threads == {"main", "t"}
TimerPrograms == {"async", "binding", "member_func", "strand", "cancel"}

VARIABLES
  example,   \* which of the programs runs
  expiry,    \* per timer: its deadline
  waiting,   \* per timer: is an async_wait pending?
  queue,     \* callbacks ready to run: <<timer, error code>>
  thread,    \* per thread: where it is, in which callback
  seen,      \* per thread: the count its callback has read
  count_,    \* the count of the program
  printed,   \* the counts that were printed
  outcome    \* per timer: what its last callback was told

timerVars == <<example, expiry, waiting, queue, thread, seen, count_, printed, outcome>>

Repeating == {"binding", "member_func", "strand"}

Limit == IF example = "strand" THEN 10 ELSE 5

\* The first deadlines, of the timers that the program has.
Deadlines(p) ==
  CASE p = "async" -> [timer1 |-> 5, timer2 |-> 1]
    [] p = "binding" -> [timer1 |-> 1]
    [] p = "member_func" -> [timer1 |-> 1]
    [] p = "strand" -> [timer1 |-> 1, timer2 |-> 1]
    [] p = "cancel" -> [timer1 |-> 2, timer2 |-> 5]

Used(p) == DOMAIN Deadlines(p)

TimersInit ==
  /\ example \in TimerPrograms
  /\ expiry = [t \in Timers |-> IF t \in Used(example) THEN Deadlines(example)[t] ELSE 0]
  /\ waiting = [t \in Timers |-> t \in Used(example)]
  /\ queue = <<>>
  /\ thread = [w \in Threads |-> IF w = "t" /\ example # "strand" THEN <<"none">> ELSE <<"run">>]
  /\ seen = [w \in Threads |-> 0]
  /\ count_ = 0
  /\ printed = <<>>
  /\ outcome = [t \in Timers |-> "none"]

\* The earliest timer that is being waited for expires.
Expire(t) ==
  /\ waiting[t]
  /\ \A u \in Timers : waiting[u] => expiry[t] <= expiry[u]
  /\ waiting' = [waiting EXCEPT ![t] = FALSE]
  /\ queue' = Append(queue, <<t, "success">>)
  /\ UNCHANGED <<example, expiry, thread, seen, count_, printed, outcome>>

InCallback(w) == thread[w][1] \in {"test", "update", "handler"}

\* Slip: the callbacks are not bound to a strand.
StrandFree_Always == TRUE

\* The callbacks of "strand" are bound to one strand; the other programs
\* run them on one thread.
StrandFree == \A w \in Threads : ~InCallback(w)

\* A thread inside run() takes the first callback.  Two threads may hand
\* theirs to the strand in either order.
TakeCallback(w) ==
  \E i \in DOMAIN queue :
    /\ thread[w] = <<"run">>
    /\ StrandFree
    /\ i = 1 \/ example = "strand"
    /\ queue' = RemoveAt(queue, i)
    /\ thread' = [thread EXCEPT ![w] =
                    <<IF example \in Repeating THEN "test" ELSE "handler", queue[i][1]>>]
    /\ outcome' = [outcome EXCEPT ![queue[i][1]] = queue[i][2]]
    /\ UNCHANGED <<example, expiry, waiting, seen, count_, printed>>

\* print(): below the limit, print the count ...
print(w) ==
  /\ thread[w][1] = "test"
  /\ IF count_ < Limit
       THEN /\ thread' = [thread EXCEPT ![w] = <<"update", @[2]>>]
            /\ seen' = [seen EXCEPT ![w] = count_]
            /\ printed' = Append(printed, count_)
       ELSE /\ thread' = [thread EXCEPT ![w] = <<"run">>]
            /\ UNCHANGED <<seen, printed>>
  /\ UNCHANGED <<example, expiry, waiting, queue, count_, outcome>>

\* ... increment it, and wait for the second that follows the last one.
rearm(w) ==
  /\ thread[w][1] = "update"
  /\ count_' = seen[w] + 1
  /\ expiry' = [expiry EXCEPT ![thread[w][2]] = @ + 1]
  /\ waiting' = [waiting EXCEPT ![thread[w][2]] = TRUE]
  /\ seen' = [seen EXCEPT ![w] = 0]
  /\ thread' = [thread EXCEPT ![w] = <<"run">>]
  /\ UNCHANGED <<example, queue, printed, outcome>>

\* The callback of a timer that fires once prints, and that of timer 1 of
\* "cancel" cancels timer 2: its wait is aborted if it is still pending.
handler(w) ==
  LET cancels == example = "cancel" /\ thread[w][2] = "timer1" /\ waiting["timer2"] IN
  /\ thread[w][1] = "handler"
  /\ thread' = [thread EXCEPT ![w] = <<"run">>]
  /\ waiting' = IF cancels THEN [waiting EXCEPT !["timer2"] = FALSE] ELSE waiting
  /\ queue' = IF cancels THEN Append(queue, <<"timer2", "operation_aborted">>) ELSE queue
  /\ UNCHANGED <<example, expiry, seen, count_, printed, outcome>>

\* run() returns when there is nothing left to wait for.
OutOfWork ==
  /\ queue = <<>>
  /\ \A t \in Timers : ~waiting[t]
  /\ \A w \in Threads : ~InCallback(w)

ioRunReturns(w) ==
  /\ thread[w] = <<"run">>
  /\ OutOfWork
  /\ thread' = [thread EXCEPT ![w] = <<"returned">>]
  /\ UNCHANGED <<example, expiry, waiting, queue, seen, count_, printed, outcome>>

\* main() joins the other thread, if there is one, and returns.
joinThread ==
  /\ thread["main"] = <<"returned">>
  /\ thread["t"] \in {<<"none">>, <<"returned">>}
  /\ thread' = [thread EXCEPT !["main"] = <<"done">>]
  /\ UNCHANGED <<example, expiry, waiting, queue, seen, count_, printed, outcome>>

ThreadStep(w) == TakeCallback(w) \/ print(w) \/ rearm(w) \/ handler(w) \/ ioRunReturns(w)

TimersNext ==
  \/ \E t \in Timers : Expire(t)
  \/ \E w \in Threads : ThreadStep(w)
  \/ joinThread

\* Time passes and the threads run.
TimersFairness ==
  /\ \A t \in Timers : WF_timerVars(Expire(t))
  /\ \A w \in Threads : WF_timerVars(ThreadStep(w))
  /\ WF_timerVars(joinThread)

TimersSpec == TimersInit /\ [][TimersNext]_timerVars

-----------------------------------------------------------------------------
(* Properties.                                                             *)

TimersTypeOK ==
  /\ example \in TimerPrograms
  /\ expiry \in [Timers -> Nat]
  /\ waiting \in [Timers -> BOOLEAN]
  /\ queue \in Seq(Timers \X {"success", "operation_aborted"})
  /\ thread \in [Threads -> {<<"none">>, <<"run">>, <<"returned">>, <<"done">>}
                             \cup ({"test", "update", "handler"} \X Timers)]
  /\ seen \in [Threads -> 0 .. Limit]
  /\ count_ \in 0 .. Limit
  /\ printed \in Seq(0 .. Limit)
  /\ outcome \in [Timers -> {"none", "success", "operation_aborted"}]

\* Whichever thread runs the callbacks, every count from 0 on is printed
\* once and in order, no increment is lost, and the final count when
\* main() returns is the limit.
CountExact ==
  /\ printed = [i \in 1 .. Len(printed) |-> i - 1]
  /\ Len(printed) = IF \E w \in Threads : thread[w][1] = "update" THEN count_ + 1 ELSE count_
  /\ thread["main"] = <<"done">> /\ example \in Repeating => count_ = Limit

\* However late the threads are, a timer is reported only when those set to
\* expire before it have been, an aborted wait was cancelled by the callback
\* of timer 1, and when main() returns each timer has been reported.
TimersReported ==
  /\ example \notin Repeating =>
       \A t, u \in Timers : outcome[t] # "none" /\ Deadlines(example)[u] < Deadlines(example)[t] =>
         outcome[u] # "none"
  /\ outcome["timer2"] = "operation_aborted" => example = "cancel" /\ outcome["timer1"] = "success"
  /\ thread["main"] = <<"done">> => \A t \in Used(example) : outcome[t] # "none"
=============================================================================
