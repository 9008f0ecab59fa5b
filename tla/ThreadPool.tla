----------------------------- MODULE ThreadPool -----------------------------
(***************************************************************************)
(* The thread pool of Appendix_02: main() reads commands and posts a task  *)
(* for each "func" and "lambda"; "cancel" ends the loop, anything else is  *)
(* ignored, and so is the end of the input, for ever.                      *)
(***************************************************************************)
EXTENDS Naturals

CONSTANTS
  PoolThreads,  \* the four threads of the pool
  MaxTasks,     \* bound: tasks that the user posts
  NoTask        \* a thread that has none

ASSUME PoolAssumption == PoolThreads # {} /\ MaxTasks \in Nat /\ NoTask \notin 1 .. MaxTasks

VARIABLES
  reader,   \* main(): reading commands, in join(), or after it
  posted,   \* tasks posted so far; they are numbered
  waitingTasks,  \* posted and not yet taken
  running,  \* per thread: the task it performs
  ended,    \* threads that have left the pool
  performed \* per task: how often it was performed

poolVars == <<reader, posted, waitingTasks, running, ended, performed>>

PoolInit ==
  /\ reader = "reading"
  /\ posted = 0
  /\ waitingTasks = {}
  /\ running = [w \in PoolThreads |-> NoTask]
  /\ ended = {}
  /\ performed = [k \in 1 .. MaxTasks |-> 0]

\* "func" or "lambda"; another command, or the end of the input, changes nothing.
post ==
  /\ reader = "reading"
  /\ posted < MaxTasks
  /\ posted' = posted + 1
  /\ waitingTasks' = waitingTasks \cup {posted + 1}
  /\ UNCHANGED <<reader, running, ended, performed>>

\* "cancel" ends the loop.
cancelCommand ==
  /\ reader = "reading"
  /\ reader' = "join"
  /\ UNCHANGED <<posted, waitingTasks, running, ended, performed>>

\* A thread of the pool takes a task, the oldest.
TakeTask(w) ==
  \E k \in waitingTasks :
    /\ w \notin ended
    /\ running[w] = NoTask
    /\ \A j \in waitingTasks : k <= j
    /\ running' = [running EXCEPT ![w] = k]
    /\ waitingTasks' = waitingTasks \ {k}
    /\ UNCHANGED <<reader, posted, ended, performed>>

my_task(w) ==
  /\ running[w] # NoTask
  /\ performed' = [performed EXCEPT ![running[w]] = @ + 1]
  /\ running' = [running EXCEPT ![w] = NoTask]
  /\ UNCHANGED <<reader, posted, waitingTasks, ended>>

\* Once join() was called a thread ends when no task is waiting or running.
LeavePool(w) ==
  /\ reader = "join"
  /\ w \notin ended
  /\ waitingTasks = {}
  /\ \A v \in PoolThreads : running[v] = NoTask
  /\ ended' = ended \cup {w}
  /\ UNCHANGED <<reader, posted, waitingTasks, running, performed>>

\* Wait for all tasks in the pool to complete.
joinPool ==
  /\ reader = "join"
  /\ ended = PoolThreads
  /\ reader' = "done"
  /\ UNCHANGED <<posted, waitingTasks, running, ended, performed>>

PoolThreadStep(w) == TakeTask(w) \/ my_task(w) \/ LeavePool(w)

PoolNext ==
  \/ post
  \/ cancelCommand
  \/ joinPool
  \/ \E w \in PoolThreads : PoolThreadStep(w)

\* The user need not type anything; the threads run.
PoolFairness ==
  /\ WF_poolVars(joinPool)
  /\ \A w \in PoolThreads : WF_poolVars(PoolThreadStep(w))

PoolSpec == PoolInit /\ [][PoolNext]_poolVars

-----------------------------------------------------------------------------
(* Properties.                                                             *)

PoolTypeOK ==
  /\ reader \in {"reading", "join", "done"}
  /\ posted \in 0 .. MaxTasks
  /\ waitingTasks \subseteq 1 .. MaxTasks
  /\ running \in [PoolThreads -> (1 .. MaxTasks) \cup {NoTask}]
  /\ ended \subseteq PoolThreads
  /\ performed \in [1 .. MaxTasks -> Nat]

\* No task is performed twice, and when join() has returned each task that
\* was posted has been performed.
JoinedMeansDone ==
  /\ \A k \in 1 .. MaxTasks : performed[k] <= 1
  /\ reader = "done" => \A k \in 1 .. posted : performed[k] = 1
=============================================================================
