--------------------------- MODULE AsyncTCPClient ---------------------------
(***************************************************************************)
(* The asynchronous TCP client of Chapter03 with a pool of threads running *)
(* its io_context (04_async_tcp_client_mt; 03_async_tcp_client is the same *)
(* code with one such thread).  User threads issue requests, cancel them   *)
(* by id and close the client; worker threads run the callbacks of the     *)
(* chain connect -> write -> read that serves one request.                 *)
(*                                                                         *)
(* A step is what a thread does between two points where another thread    *)
(* can see or change something it uses: taking or releasing a mutex,       *)
(* handing an operation to the io_context, taking one from it.             *)
(***************************************************************************)
EXTENDS Naturals, Sequences, FiniteSets

CONSTANTS
  Sessions,    \* the Session objects a run may create
  Ids,         \* the request ids callers choose from
  Users,       \* threads that call the public functions
  Workers,     \* threads inside m_io_ctx.run()
  None,        \* no session, no id, no owner
  MaxCancels,  \* bound: calls of cancelRequest per id
  MaxParts,    \* bound: partial transfers per session
  UniqueIds    \* do callers keep the ids of active requests distinct?

Threads == Users \cup Workers

ASSUME ThreadsAssumption == Users \cap Workers = {} /\ None \notin Threads
ASSUME WorkersAssumption == Workers # {}
ASSUME NoneAssumption == None \notin Sessions /\ None \notin Ids
ASSUME BoundsAssumption ==
  MaxCancels \in Nat /\ MaxParts \in Nat /\ UniqueIds \in BOOLEAN

VARIABLES
  m_active_sessions,        \* the map from id to session, None where absent
  m_active_sessions_guard,  \* the thread that owns this mutex
  m_work_guard,             \* is the executor_work_guard still held?
  m_id,                     \* Session::m_id, None until the object exists
  m_was_cancelled,
  m_cancel_guard,           \* per session: the thread that owns this mutex
  m_ec,
  m_response,               \* has the response line been extracted?
  op,                       \* the asynchronous operation the session is in
  status,                   \* where the io_context has that operation
  result,                   \* the error code it hands to its callback
  parts,                    \* partial transfers so far
  reported,                 \* codes m_callback was invoked with, in order
  pc, at,                   \* per thread: where it is, and for which session
  cancels                   \* calls of cancelRequest so far, per id

sessionVars == <<m_id, m_was_cancelled, m_cancel_guard, m_ec, m_response>>
clientVars == <<m_active_sessions, m_active_sessions_guard, m_work_guard>>
opVars == <<op, status, result, parts>>
threadVars == <<pc, at>>
vars == <<sessionVars, clientVars, opVars, threadVars, reported, cancels>>

Codes == {"success", "operation_aborted", "failure"}

Ops == {"none", "connect", "write", "read", "done"}

\* "partial": a composed operation moved some bytes and its internal handler
\* waits to be run; the socket has nothing pending meanwhile.
Statuses == {"idle", "pending", "partial", "queued", "running"}

IdlePcs == {"idle", "joining", "closed", "run", "stopped"}
UserPcs == {"idle", "starting", "cancelling", "joining", "closed"}
WorkerPcs == {"run", "checking", "unlocking", "completing", "reporting", "stopped"}

Init ==
  /\ m_active_sessions = [id \in Ids |-> None]
  /\ m_active_sessions_guard = None
  /\ m_work_guard = TRUE
  /\ m_id = [s \in Sessions |-> None]
  /\ m_was_cancelled = [s \in Sessions |-> FALSE]
  /\ m_cancel_guard = [s \in Sessions |-> None]
  /\ m_ec = [s \in Sessions |-> "success"]
  /\ m_response = [s \in Sessions |-> FALSE]
  /\ op = [s \in Sessions |-> "none"]
  /\ status = [s \in Sessions |-> "idle"]
  /\ result = [s \in Sessions |-> "success"]
  /\ parts = [s \in Sessions |-> 0]
  /\ reported = [s \in Sessions |-> <<>>]
  /\ pc = [t \in Threads |-> IF t \in Users THEN "idle" ELSE "run"]
  /\ at = [t \in Threads |-> None]
  /\ cancels = [id \in Ids |-> 0]

Goto(t, label, s) ==
  /\ pc' = [pc EXCEPT ![t] = label]
  /\ at' = [at EXCEPT ![t] = s]

\* An operation is handed to the io_context.
Start(s, which) ==
  /\ op' = [op EXCEPT ![s] = which]
  /\ status' = [status EXCEPT ![s] = "pending"]
  /\ UNCHANGED <<result, parts>>

Active(s) == m_id[s] # None /\ op[s] # "done"

\* Slip: the flag is not set.
CancelFlag_NotSet(s) == m_was_cancelled

CancelFlag(s) == [m_was_cancelled EXCEPT ![s] = TRUE]

\* Slips: the flag is not tested; every request is taken for cancelled.
MustStop_Never(s) == FALSE
MustStop_Always(s) == TRUE

MustStop(s) == m_was_cancelled[s]

NextOp(s) == IF op[s] = "connect" THEN "write" ELSE "read"

\* Slips: the entry stays in the map; the whole map is cleared.
Erased_Not(s) == m_active_sessions
Erased_All(s) == [id \in Ids |-> None]

Erased(s) == [m_active_sessions EXCEPT ![m_id[s]] = None]

\* Slip: the flag is ignored.
CompletionCode_EcOnly(s) == m_ec[s]

CompletionCode(s) ==
  IF m_ec[s] = "success" /\ m_was_cancelled[s] THEN "operation_aborted" ELSE m_ec[s]

Released_Never(s, w) == m_cancel_guard \* Slip: the mutex stays locked.

\* The unique_lock on m_cancel_guard, if the callback has one, ends with it.
Released(s, w) ==
  [m_cancel_guard EXCEPT ![s] = IF @ = w THEN None ELSE @]

AllJoined_Detached == TRUE \* Slip: the threads are not joined.

AllJoined == \A w \in Workers : pc[w] = "stopped"

-----------------------------------------------------------------------------
(* The public functions, called by user threads.                           *)

\* Create the session and enter it in the map, over whatever is there.
\* Callers do not issue requests on a client that is being closed.
emulateLongComputationOp(u, s, id) ==
  /\ pc[u] = "idle"
  /\ m_work_guard
  /\ m_id[s] = None
  /\ UniqueIds => \A r \in Sessions : Active(r) => m_id[r] # id
  /\ m_active_sessions_guard = None
  /\ m_id' = [m_id EXCEPT ![s] = id]
  /\ m_active_sessions' = [m_active_sessions EXCEPT ![id] = s]
  /\ Goto(u, "starting", s)
  /\ UNCHANGED <<m_was_cancelled, m_cancel_guard, m_ec, m_response,
                 m_active_sessions_guard, m_work_guard, opVars, reported, cancels>>

\* The rest of that function: no mutex is held here.
asyncConnect(u) ==
  /\ pc[u] = "starting"
  /\ Start(at[u], "connect")
  /\ Goto(u, "idle", None)
  /\ UNCHANGED <<sessionVars, clientVars, reported, cancels>>

\* A call of cancelRequest takes m_active_sessions_guard and looks the id up.
Lookup(u, id) ==
  /\ pc[u] = "idle"
  /\ cancels[id] < MaxCancels
  /\ cancels' = [cancels EXCEPT ![id] = @ + 1]
  /\ m_active_sessions_guard = None
  /\ UNCHANGED <<sessionVars, m_active_sessions, m_work_guard, opVars, reported>>

\* There is nothing to cancel.
cancelNotFound(u, id) ==
  /\ Lookup(u, id)
  /\ m_active_sessions[id] = None
  /\ UNCHANGED <<m_active_sessions_guard, threadVars>>

\* There is: the guard of the map stays locked while the session's own
\* mutex is being waited for.
cancelFound(u, id) ==
  /\ Lookup(u, id)
  /\ m_active_sessions[id] # None
  /\ m_active_sessions_guard' = u
  /\ Goto(u, "cancelling", m_active_sessions[id])

\* socket::cancel: an operation the socket has pending completes as aborted,
\* one whose completion is already queued keeps its result, and between two
\* partial transfers there is nothing to cancel.
SocketCancel(s) ==
  /\ status' = [status EXCEPT ![s] = IF @ = "pending" THEN "queued" ELSE @]
  /\ result' = [result EXCEPT
                  ![s] = IF status[s] = "pending" THEN "operation_aborted" ELSE @]
  /\ UNCHANGED <<op, parts>>

\* The body of the if, then both mutexes are released on return.
setCancelled(u) ==
  /\ pc[u] = "cancelling"
  /\ m_cancel_guard[at[u]] = None
  /\ m_was_cancelled' = CancelFlag(at[u])
  /\ SocketCancel(at[u])
  /\ m_active_sessions_guard' = None
  /\ Goto(u, "idle", None)
  /\ UNCHANGED <<m_id, m_cancel_guard, m_ec, m_response, m_active_sessions,
                 m_work_guard, reported, cancels>>

\* Slip: the work guard is not reset.
close_KeepsWork(u) ==
  /\ pc[u] = "idle"
  /\ m_work_guard
  /\ \A v \in Users : pc[v] # "starting"
  /\ Goto(u, "joining", None)
  /\ UNCHANGED <<sessionVars, clientVars, opVars, reported, cancels>>

\* One thread closes the client, when no call that issues a request is on.
close(u) ==
  /\ pc[u] = "idle"
  /\ m_work_guard
  /\ \A v \in Users : pc[v] # "starting"
  /\ m_work_guard' = FALSE
  /\ Goto(u, "joining", None)
  /\ UNCHANGED <<sessionVars, m_active_sessions, m_active_sessions_guard,
                 opVars, reported, cancels>>

joinAll(u) ==
  /\ pc[u] = "joining"
  /\ AllJoined
  /\ Goto(u, "closed", None)
  /\ UNCHANGED <<sessionVars, clientVars, opVars, reported, cancels>>

-----------------------------------------------------------------------------
(* The callbacks, run by worker threads.                                   *)

\* A worker takes a completion handler of operation `which` off the queue.
Dispatch(w, s, which) ==
  /\ pc[w] = "run"
  /\ op[s] = which
  /\ status[s] = "queued"
  /\ status' = [status EXCEPT ![s] = "running"]
  /\ UNCHANGED <<op, result, parts>>

\* The head the connect and the write callback share: an error is recorded
\* and completes the request, otherwise m_cancel_guard is asked for.
CheckError(w, s) ==
  /\ m_ec' = [m_ec EXCEPT ![s] = IF result[s] = "success" THEN @ ELSE result[s]]
  /\ Goto(w, IF result[s] = "success" THEN "checking" ELSE "completing", s)

connectCallback(w, s) ==
  /\ Dispatch(w, s, "connect")
  /\ CheckError(w, s)
  /\ UNCHANGED <<m_id, m_was_cancelled, m_cancel_guard, m_response,
                 clientVars, reported, cancels>>

writeCallback(w, s) ==
  /\ Dispatch(w, s, "write")
  /\ CheckError(w, s)
  /\ UNCHANGED <<m_id, m_was_cancelled, m_cancel_guard, m_response,
                 clientVars, reported, cancels>>

\* The flag is tested with m_cancel_guard locked.
LockCancelGuard(w) ==
  /\ pc[w] = "checking"
  /\ m_cancel_guard[at[w]] = None
  /\ m_cancel_guard' = [m_cancel_guard EXCEPT ![at[w]] = w]

\* A cancelled request is completed with the mutex still held.
cancelledReturn(w) ==
  /\ LockCancelGuard(w)
  /\ MustStop(at[w])
  /\ Goto(w, "completing", at[w])
  /\ UNCHANGED <<m_id, m_was_cancelled, m_ec, m_response, clientVars, opVars,
                 reported, cancels>>

\* Slip: the next operation is started before the flag is tested.
startNextOp_BeforeTest(w) ==
  /\ LockCancelGuard(w)
  /\ Start(at[w], NextOp(at[w]))
  /\ Goto(w, IF MustStop(at[w]) THEN "completing" ELSE "unlocking", at[w])
  /\ UNCHANGED <<m_id, m_was_cancelled, m_ec, m_response, clientVars, reported, cancels>>

\* Otherwise the next operation of the chain starts.
startNextOp(w) ==
  /\ LockCancelGuard(w)
  /\ ~MustStop(at[w])
  /\ Start(at[w], NextOp(at[w]))
  /\ Goto(w, "unlocking", at[w])
  /\ UNCHANGED <<m_id, m_was_cancelled, m_ec, m_response, clientVars, reported, cancels>>

\* The callback returns; the operation it started may already be served by
\* another worker.
callbackReturn(w) ==
  /\ pc[w] = "unlocking"
  /\ m_cancel_guard' = Released(at[w], w)
  /\ Goto(w, "run", None)
  /\ UNCHANGED <<m_id, m_was_cancelled, m_ec, m_response, clientVars, opVars, reported, cancels>>

\* The read callback locks nothing.
readCallback(w, s) ==
  /\ Dispatch(w, s, "read")
  /\ m_ec' = [m_ec EXCEPT ![s] = IF result[s] = "success" THEN @ ELSE result[s]]
  /\ m_response' = [m_response EXCEPT ![s] = IF result[s] = "success" THEN TRUE ELSE @]
  /\ Goto(w, "completing", s)
  /\ UNCHANGED <<m_id, m_was_cancelled, m_cancel_guard, clientVars, reported, cancels>>

\* Slip: the mutex of the map is not unlocked.
onRequestComplete_KeepsLock(w) ==
  /\ pc[w] = "completing"
  /\ m_active_sessions_guard = None
  /\ m_active_sessions_guard' = w
  /\ m_active_sessions' = Erased(at[w])
  /\ Goto(w, "reporting", at[w])
  /\ UNCHANGED <<sessionVars, m_work_guard, opVars, reported, cancels>>

\* onRequestComplete up to lock.unlock(): whatever the map holds under the
\* session's id is erased.
onRequestComplete(w) ==
  /\ pc[w] = "completing"
  /\ m_active_sessions_guard = None
  /\ m_active_sessions' = Erased(at[w])
  /\ Goto(w, "reporting", at[w])
  /\ UNCHANGED <<sessionVars, m_active_sessions_guard, m_work_guard, opVars, reported, cancels>>

\* The rest of onRequestComplete, with no mutex of the client held, and the
\* return of the callback that called it.
callCallback(w) ==
  LET s == at[w] IN
  /\ pc[w] = "reporting"
  /\ reported' = [reported EXCEPT ![s] = Append(@, CompletionCode(s))]
  /\ m_cancel_guard' = Released(s, w)
  /\ op' = [op EXCEPT ![s] = "done"]
  /\ status' = [status EXCEPT ![s] = "idle"]
  /\ Goto(w, "run", None)
  /\ UNCHANGED <<m_id, m_was_cancelled, m_ec, m_response, clientVars, result, parts, cancels>>

\* The internal handler of async_write or async_read_until asks for the rest.
resumeTransfer(w, s) ==
  /\ pc[w] = "run"
  /\ status[s] = "partial"
  /\ status' = [status EXCEPT ![s] = "pending"]
  /\ UNCHANGED <<sessionVars, clientVars, op, result, parts, threadVars, reported, cancels>>

\* m_io_ctx.run() returns when there is no work left: no work guard, no
\* operation outstanding, no handler running.
runReturns(w) ==
  /\ pc[w] = "run"
  /\ ~m_work_guard
  /\ \A s \in Sessions : status[s] = "idle"
  /\ \A v \in Workers : at[v] = None
  /\ Goto(w, "stopped", None)
  /\ UNCHANGED <<sessionVars, clientVars, opVars, reported, cancels>>

-----------------------------------------------------------------------------
(* The peer and the kernel.                                                *)

\* A pending operation ends, well or with an error of its own.
Deliver(s) ==
  /\ status[s] = "pending"
  /\ status' = [status EXCEPT ![s] = "queued"]
  /\ \E code \in {"success", "failure"} : result' = [result EXCEPT ![s] = code]
  /\ UNCHANGED <<sessionVars, clientVars, op, parts, threadVars, reported, cancels>>

\* A transfer moves some of its bytes.
Progress(s) ==
  /\ op[s] \in {"write", "read"}
  /\ status[s] = "pending"
  /\ parts[s] < MaxParts
  /\ parts' = [parts EXCEPT ![s] = @ + 1]
  /\ status' = [status EXCEPT ![s] = "partial"]
  /\ UNCHANGED <<sessionVars, clientVars, op, result, threadVars, reported, cancels>>

-----------------------------------------------------------------------------
UserCall(u) ==
  \/ \E s \in Sessions, id \in Ids : emulateLongComputationOp(u, s, id)
  \/ \E id \in Ids : cancelNotFound(u, id) \/ cancelFound(u, id)
  \/ close(u)

UserReturn(u) == asyncConnect(u) \/ setCancelled(u) \/ joinAll(u)

WorkerStep(w) ==
  \/ \E s \in Sessions :
       \/ connectCallback(w, s)
       \/ writeCallback(w, s)
       \/ readCallback(w, s)
       \/ resumeTransfer(w, s)
  \/ cancelledReturn(w)
  \/ startNextOp(w)
  \/ callbackReturn(w)
  \/ onRequestComplete(w)
  \/ callCallback(w)
  \/ runReturns(w)

Network(s) == Deliver(s) \/ Progress(s)

\* The program has returned from close().
Finished ==
  /\ \A w \in Workers : pc[w] = "stopped"
  /\ \A u \in Users : pc[u] \in {"idle", "closed"}
  /\ UNCHANGED vars

Next ==
  \/ \E u \in Users : UserCall(u) \/ UserReturn(u)
  \/ \E w \in Workers : WorkerStep(w)
  \/ \E s \in Sessions : Network(s)
  \/ Finished

Spec == Init /\ [][Next]_vars

\* Threads are scheduled: a call that has begun and a worker with something
\* to do go on.  Nothing is assumed of callers or of the peer.
LocalFairness ==
  /\ \A u \in Users : WF_vars(UserReturn(u))
  /\ \A w \in Workers : WF_vars(WorkerStep(w))

LocalFairSpec == Spec /\ LocalFairness

\* Moreover the peer, or its time-out, ends every operation.
FairSpec == LocalFairSpec /\ \A s \in Sessions : WF_vars(Deliver(s))

-----------------------------------------------------------------------------
(* Properties.                                                             *)

\* Every variable has its type, and a thread is at a session exactly while it
\* executes code that works on one.
TypeOK ==
  /\ m_active_sessions \in [Ids -> Sessions \cup {None}]
  /\ m_active_sessions_guard \in Users \cup {None}
  /\ m_work_guard \in BOOLEAN
  /\ m_id \in [Sessions -> Ids \cup {None}]
  /\ m_was_cancelled \in [Sessions -> BOOLEAN]
  /\ m_cancel_guard \in [Sessions -> Workers \cup {None}]
  /\ m_ec \in [Sessions -> Codes]
  /\ m_response \in [Sessions -> BOOLEAN]
  /\ op \in [Sessions -> Ops]
  /\ status \in [Sessions -> Statuses]
  /\ result \in [Sessions -> Codes]
  /\ parts \in [Sessions -> 0 .. MaxParts]
  /\ reported \in [Sessions -> Seq(Codes)]
  /\ pc \in [Threads -> UserPcs \cup WorkerPcs]
  /\ \A u \in Users : pc[u] \in UserPcs
  /\ \A w \in Workers : pc[w] \in WorkerPcs
  /\ at \in [Threads -> Sessions \cup {None}]
  /\ \A t \in Threads : at[t] = None <=> pc[t] \in IdlePcs
  /\ cancels \in [Ids -> 0 .. MaxCancels]

\* m_ec, m_response and the socket are used by callbacks without a mutex.
\* That is sound only because the chain of callbacks never has two of one
\* session at work: the only overlap is with one that has started the next
\* operation and is about to return.
HandlersSerialised ==
  \A v, w \in Workers :
    v # w /\ at[v] = at[w] /\ at[v] # None => "unlocking" \in {pc[v], pc[w]}

\* onRequestComplete reads m_was_cancelled after unlocking the map, often
\* without m_cancel_guard.  No cancelRequest is then about to write it: it
\* could only have found the session before it was erased.
CancelFlagNotRaced ==
  \A u \in Users, w \in Workers :
    ~(pc[u] = "cancelling" /\ pc[w] = "reporting" /\ at[u] = at[w])

\* The caller hears the truth, whatever the order of the cancel, the answer
\* and the callbacks: "completed" only for a request that was not cancelled
\* and has the response line the sample handler prints (no path of the chain
\* skips the read), "cancelled by the user" only if it was.
OutcomeHonest ==
  \A s \in Sessions : \A i \in 1 .. Len(reported[s]) :
    /\ reported[s][i] = "success" => ~m_was_cancelled[s] /\ m_response[s]
    /\ reported[s][i] = "operation_aborted" => m_was_cancelled[s]

\* A callback that runs after the request was cancelled starts no further
\* operation of the chain.
NoNewOpAfterCancel ==
  [][\A s \in Sessions :
       m_was_cancelled[s] /\ op'[s] # op[s] => op'[s] \in {"connect", "done"}]_vars

\* As long as callers keep the ids of active requests distinct, every
\* request can be found by its id from the call that issues it until its
\* completion erases it.
LiveIsRegistered ==
  UniqueIds =>
    \A s \in Sessions :
      Active(s) /\ (\A w \in Workers : ~(pc[w] = "reporting" /\ at[w] = s))
        => m_active_sessions[m_id[s]] = s

\* When close() has returned, every request that was issued has been
\* reported: the destructor of the client drops none.
ClosedMeansReported ==
  (\E u \in Users : pc[u] = "closed") => \A s \in Sessions : ~Active(s)

\* The client keeps the promise of RequestLifecycle: one callback per
\* request, cancellation only while active, codes that agree with it.
Phase(s) ==
  CASE m_id[s] = None -> "new"
    [] Active(s) -> "active"
    [] OTHER -> "done"

Lifecycle == INSTANCE RequestLifecycle WITH
  Requests <- Sessions,
  phase <- [s \in Sessions |-> Phase(s)],
  cancelled <- m_was_cancelled,
  callbacks <- reported

ImplementsLifecycle == Lifecycle!Spec

\* If peers answer, every request issued is reported in the end.
EveryRequestReported ==
  \A s \in Sessions : m_id[s] # None ~> reported[s] # <<>>

\* If peers answer, close() returns.
CloseReturns ==
  \A u \in Users : pc[u] = "joining" ~> pc[u] = "closed"

\* A request the user cancelled is reported in the end, as the sample handler
\* announces it.
CancelledIsReported ==
  \A s \in Sessions : m_was_cancelled[s] ~> reported[s] # <<>>

\* Two threads never wait for each other's mutex, one in cancelRequest, the
\* other in a callback that completes the request, provided no request is
\* cancelled a second time while it is active.
NoLockCycle ==
  ~ \E u \in Users, w \in Workers :
      /\ m_active_sessions_guard = u /\ pc[u] = "cancelling"
      /\ m_cancel_guard[at[u]] = w /\ pc[w] = "completing"
=============================================================================
