----------------------------- MODULE HTTPClient -----------------------------
(***************************************************************************)
(* The HTTP client of Chapter05: requests that callers execute and cancel, *)
(* and the one thread that runs their callbacks, resolve -> connect ->     *)
(* write -> status line -> headers -> body.                                *)
(*                                                                         *)
(* m_cancel_mux is held around one test or assignment of m_was_cancelled   *)
(* and the start or the cancellation of an operation, and nothing else is  *)
(* waited for with it: a critical section is one step.  A callback is two: *)
(* what it does before it asks for the mutex, and from there to its end.   *)
(***************************************************************************)
EXTENDS Naturals, Sequences

CONSTANTS
  Requests,
  None,          \* no request
  MaxEndpoints,  \* bound: addresses a name resolves to
  MaxParts,      \* bound: partial transfers per request
  PeersReset     \* may a peer reset a connection once it has the request?

ASSUME NoneAssumption == None \notin Requests
ASSUME BoundsAssumption ==
  MaxEndpoints \in Nat \ {0} /\ MaxParts \in Nat /\ PeersReset \in BOOLEAN

VARIABLES
  m_was_cancelled,
  op,            \* the operation the request is in
  status,        \* where the io_context has it
  result,        \* the error code it hands to the callback
  endpoints,     \* addresses not tried yet
  parts,         \* partial transfers so far
  received,      \* what m_response holds
  reported,      \* codes m_callback was invoked with
  handling,      \* the request whose callback the io thread is in
  m_work_guard,
  io,            \* the io thread: inside run(), "returned", or "died"
  main           \* the thread that calls HTTPClient::close

requestVars == <<m_was_cancelled, received, reported>>
opVars == <<op, status, result, endpoints, parts>>
clientVars == <<m_work_guard, io, main>>
vars == <<requestVars, opVars, handling, clientVars>>

Codes == {"success", "eof", "operation_aborted", "failure"}
Transfers == {"write", "status", "headers", "body"}
Ops == {"none", "resolve", "connect", "done"} \cup Transfers

\* "between": a composed operation waits for its internal handler, between
\* two addresses or two partial transfers; the socket has nothing pending.
Statuses == {"idle", "pending", "between", "queued", "running"}

Init ==
  /\ m_was_cancelled = [r \in Requests |-> FALSE]
  /\ op = [r \in Requests |-> "none"]
  /\ status = [r \in Requests |-> "idle"]
  /\ result = [r \in Requests |-> "success"]
  /\ endpoints = [r \in Requests |-> 0]
  /\ parts = [r \in Requests |-> 0]
  /\ received = [r \in Requests |-> {}]
  /\ reported = [r \in Requests |-> <<>>]
  /\ handling = None
  /\ m_work_guard = TRUE
  /\ io = "run"
  /\ main = "running"

\* The program runs: an exception that leaves the io thread terminates it.
Alive == io # "died"

Start(r, which) ==
  /\ op' = [op EXCEPT ![r] = which]
  /\ status' = [status EXCEPT ![r] = "pending"]
  /\ UNCHANGED <<result, parts>>

\* on_finish: the caller's callback, whatever the code.
on_finish(r, ec) ==
  /\ reported' = [reported EXCEPT ![r] = Append(@, ec)]
  /\ op' = [op EXCEPT ![r] = "done"]
  /\ status' = [status EXCEPT ![r] = "idle"]
  /\ UNCHANGED <<result, endpoints, parts>>

-----------------------------------------------------------------------------
(* The public functions.                                                   *)

\* A request is executed once, on a client that is not being closed.
Executable(r) == Alive /\ main = "running" /\ op[r] = "none"

execute(r) ==
  /\ Executable(r)
  /\ ~m_was_cancelled[r]
  /\ Start(r, "resolve")
  /\ UNCHANGED <<requestVars, endpoints, handling, clientVars>>

\* A request cancelled beforehand is finished on the thread of the caller.
executeCancelled(r) ==
  /\ Executable(r)
  /\ m_was_cancelled[r]
  /\ on_finish(r, "operation_aborted")
  /\ UNCHANGED <<m_was_cancelled, received, handling, clientVars>>

\* cancel() of a socket aborts what it has pending; an aborted connect is a
\* failed attempt to async_connect, which goes on with the next address.
SocketCancel(r) ==
  LET pending == status[r] = "pending"
      more == op[r] = "connect" /\ endpoints[r] > 0
  IN
  /\ status' = [status EXCEPT ![r] =
                  IF ~pending THEN @ ELSE IF more THEN "between" ELSE "queued"]
  /\ result' = [result EXCEPT ![r] = IF pending THEN "operation_aborted" ELSE @]

\* A name that is already being looked up is looked up to the end.
cancel(r) ==
  /\ Alive
  /\ m_was_cancelled' = [m_was_cancelled EXCEPT ![r] = TRUE]
  /\ \/ SocketCancel(r)
     \/ op[r] = "resolve" /\ UNCHANGED <<status, result>>
  /\ UNCHANGED <<op, endpoints, parts, received, reported, handling, clientVars>>

\* Slip: the work guard is not reset.
close_KeepsWork ==
  /\ Alive
  /\ main = "running"
  /\ main' = "closing"
  /\ UNCHANGED <<requestVars, opVars, handling, m_work_guard, io>>

close ==
  /\ Alive
  /\ main = "running"
  /\ main' = "closing"
  /\ m_work_guard' = FALSE
  /\ UNCHANGED <<requestVars, opVars, handling, io>>

\* Slip: the thread is not joined.
join_Not ==
  /\ main = "closing"
  /\ main' = "closed"
  /\ UNCHANGED <<requestVars, opVars, handling, m_work_guard, io>>

join ==
  /\ main = "closing"
  /\ io = "returned"
  /\ main' = "closed"
  /\ UNCHANGED <<requestVars, opVars, handling, m_work_guard, io>>

-----------------------------------------------------------------------------
(* The io thread: callbacks up to the lock on m_cancel_mux.                *)

\* A completed operation is taken from the queue.
Completed(r, which) ==
  /\ io = "run"
  /\ handling = None
  /\ op[r] = which
  /\ status[r] = "queued"
  /\ UNCHANGED <<m_was_cancelled, clientVars>>

Failed(r, which) ==
  /\ Completed(r, which)
  /\ result[r] # "success"
  /\ on_finish(r, result[r])
  /\ UNCHANGED <<received, handling>>

Succeeded(r, which) ==
  /\ Completed(r, which)
  /\ result[r] = "success"
  /\ handling' = r
  /\ status' = [status EXCEPT ![r] = "running"]
  /\ UNCHANGED <<op, result, endpoints, parts, reported>>

on_host_name_resolved(r) == Succeeded(r, "resolve") /\ UNCHANGED received

on_connection_established(r) == Succeeded(r, "connect") /\ UNCHANGED received

\* shutdown_send succeeds.
on_request_sent(r) == Succeeded(r, "write") /\ UNCHANGED received

\* shutdown_send throws when the peer has reset the connection; nothing on
\* the io thread catches the exception.
shutdownThrows(r) ==
  /\ PeersReset
  /\ io = "run" /\ handling = None
  /\ op[r] = "write" /\ status[r] = "queued" /\ result[r] = "success"
  /\ io' = "died"
  /\ UNCHANGED <<requestVars, opVars, handling, m_work_guard, main>>

on_status_line_received(r) ==
  /\ Succeeded(r, "status")
  /\ received' = [received EXCEPT ![r] = @ \cup {"status"}]

\* The version is not HTTP/1.1 or the status code not a number.
invalid_response(r) ==
  /\ Completed(r, "status")
  /\ result[r] = "success"
  /\ on_finish(r, "failure")
  /\ UNCHANGED <<received, handling>>

on_headers_received(r) ==
  /\ Succeeded(r, "headers")
  /\ received' = [received EXCEPT ![r] = @ \cup {"headers"}]

\* Slip: the code of the last read is not looked at.
BodyCode_Unchecked(ec) == "success"

\* The body ends where the connection does.
BodyCode(ec) == IF ec = "eof" THEN "success" ELSE ec

on_response_body_received(r) ==
  /\ Completed(r, "body")
  /\ on_finish(r, BodyCode(result[r]))
  /\ received' =
       [received EXCEPT ![r] = IF result[r] = "eof" THEN @ \cup {"body"} ELSE @]
  /\ UNCHANGED handling

-----------------------------------------------------------------------------
(* The io thread: with m_cancel_mux, to the end of the callback.           *)

\* Slip: the flag is not tested.
MustStop_Never(r) == FALSE

MustStop(r) == m_was_cancelled[r]

\* The operation that follows each one.
Following ==
  {<<"resolve", "connect">>, <<"connect", "write">>, <<"write", "status">>,
   <<"status", "headers">>, <<"headers", "body">>}

Leave == handling' = None /\ UNCHANGED <<m_was_cancelled, received, clientVars>>

\* Slip: the callback returns without on_finish.
cancelledReturn_Silent(r) ==
  /\ handling = r
  /\ MustStop(r)
  /\ op' = [op EXCEPT ![r] = "done"]
  /\ status' = [status EXCEPT ![r] = "idle"]
  /\ UNCHANGED <<result, endpoints, parts, reported>>
  /\ Leave

cancelledReturn(r) ==
  /\ handling = r
  /\ MustStop(r)
  /\ on_finish(r, "operation_aborted")
  /\ Leave

startNextOp(r) ==
  /\ handling = r
  /\ ~MustStop(r)
  /\ \E next \in Transfers \cup {"connect"} :
       <<op[r], next>> \in Following /\ Start(r, next)
  /\ endpoints' = [endpoints EXCEPT ![r] = IF op[r] = "resolve" THEN @ - 1 ELSE @]
  /\ UNCHANGED reported
  /\ Leave

\* Slip: the remaining addresses are counted down by every operation.
resume_AlwaysCounts(r) ==
  /\ io = "run"
  /\ handling = None
  /\ status[r] = "between"
  /\ status' = [status EXCEPT ![r] = "pending"]
  /\ endpoints' = [endpoints EXCEPT ![r] = @ - 1]
  /\ UNCHANGED <<requestVars, op, result, parts, handling, clientVars>>

\* The internal handler of a composed operation: the next address, the rest.
resume(r) ==
  /\ io = "run"
  /\ handling = None
  /\ status[r] = "between"
  /\ status' = [status EXCEPT ![r] = "pending"]
  /\ endpoints' = [endpoints EXCEPT ![r] = IF op[r] = "connect" THEN @ - 1 ELSE @]
  /\ UNCHANGED <<requestVars, op, result, parts, handling, clientVars>>

\* run() is out of work.
runReturns ==
  /\ io = "run"
  /\ handling = None
  /\ ~m_work_guard
  /\ \A r \in Requests : status[r] = "idle"
  /\ io' = "returned"
  /\ UNCHANGED <<requestVars, opVars, handling, m_work_guard, main>>

-----------------------------------------------------------------------------
(* The resolver and the peer.                                              *)

Outcome(r, newStatus, code) ==
  /\ Alive
  /\ status[r] = "pending"
  /\ status' = [status EXCEPT ![r] = newStatus]
  /\ result' = [result EXCEPT ![r] = code]
  /\ UNCHANGED <<requestVars, op, handling, clientVars>>

Resolved(r) ==
  /\ op[r] = "resolve"
  /\ UNCHANGED parts
  /\ \/ /\ Outcome(r, "queued", "success")
        /\ \E n \in 1 .. MaxEndpoints : endpoints' = [endpoints EXCEPT ![r] = n]
     \/ Outcome(r, "queued", "failure") /\ UNCHANGED endpoints

ConnectAttempt(r) ==
  /\ op[r] = "connect"
  /\ UNCHANGED <<endpoints, parts>>
  /\ \/ Outcome(r, "queued", "success")
     \/ Outcome(r, IF endpoints[r] > 0 THEN "between" ELSE "queued", "failure")

\* Only the end of the connection ends the read of the body.
Transferred(r) ==
  /\ op[r] \in Transfers
  /\ UNCHANGED <<endpoints, parts>>
  /\ \E code \in {"failure", IF op[r] = "body" THEN "eof" ELSE "success"} :
       Outcome(r, "queued", code)

Progress(r) ==
  /\ op[r] \in Transfers
  /\ parts[r] < MaxParts
  /\ parts' = [parts EXCEPT ![r] = @ + 1]
  /\ Outcome(r, "between", result[r])
  /\ UNCHANGED endpoints

-----------------------------------------------------------------------------
IoStep ==
  \/ \E r \in Requests :
       \/ \E which \in Ops \ {"body"} : Failed(r, which)
       \/ on_host_name_resolved(r)
       \/ on_connection_established(r)
       \/ on_request_sent(r)
       \/ shutdownThrows(r)
       \/ on_status_line_received(r)
       \/ invalid_response(r)
       \/ on_headers_received(r)
       \/ on_response_body_received(r)
       \/ cancelledReturn(r)
       \/ startNextOp(r)
       \/ resume(r)
  \/ runReturns

Peer(r) == ConnectAttempt(r) \/ Transferred(r)

Next ==
  \/ \E r \in Requests : execute(r) \/ executeCancelled(r) \/ cancel(r)
  \/ close
  \/ join
  \/ IoStep
  \/ \E r \in Requests : Resolved(r) \/ Peer(r) \/ Progress(r)

Spec == Init /\ [][Next]_vars

\* The io thread runs and close() goes on; a name look-up takes only so long,
\* and peers, or the time-outs of TCP, end every attempt to connect and every
\* transfer.  Nothing is assumed of callers.
FairSpec ==
  /\ Spec
  /\ WF_vars(IoStep) /\ WF_vars(join)
  /\ \A r \in Requests : WF_vars(Resolved(r)) /\ WF_vars(Peer(r))

-----------------------------------------------------------------------------
(* Properties.                                                             *)

\* Every variable has its type.
TypeOK ==
  /\ m_was_cancelled \in [Requests -> BOOLEAN]
  /\ op \in [Requests -> Ops]
  /\ status \in [Requests -> Statuses]
  /\ result \in [Requests -> Codes]
  /\ endpoints \in [Requests -> 0 .. MaxEndpoints]
  /\ parts \in [Requests -> 0 .. MaxParts]
  /\ received \in [Requests -> SUBSET {"status", "headers", "body"}]
  /\ reported \in [Requests -> Seq(Codes)]
  /\ handling \in Requests \cup {None}
  /\ m_work_guard \in BOOLEAN
  /\ io \in {"run", "returned", "died"}
  /\ main \in {"running", "closing", "closed"}

\* The outcome a caller hears is true: "cancelled by the user" only if it
\* was, "completed" only with a whole response; and it hears one at most.
OutcomeHonest ==
  \A r \in Requests :
    /\ Len(reported[r]) <= 1
    /\ reported[r] = <<"operation_aborted">> => m_was_cancelled[r]
    /\ reported[r] = <<"success">> => received[r] = {"status", "headers", "body"}

\* A request that has been cancelled makes no further progress along the
\* chain.  Hence one that is reported as completed all the same was cancelled
\* when only its body was missing: on_response_body_received does not test
\* the flag.
CancelStopsChain ==
  [][\A r \in Requests : m_was_cancelled[r] /\ op'[r] # op[r] => op'[r] = "done"]_vars

\* close() returns only when every request executed has been reported.
ClosedMeansReported ==
  main = "closed" => \A r \in Requests : op[r] # "none" => reported[r] # <<>>

\* If peers answer, every request executed is reported, unless the program
\* is terminated.
EveryRequestReported ==
  \A r \in Requests : op[r] # "none" ~> reported[r] # <<>> \/ ~Alive

\* If peers answer, close() returns.
CloseReturns == main = "closing" ~> main = "closed" \/ ~Alive

\* A request cancelled while it was being connected is announced as cancelled
\* by the user, by the handler of main.cpp, if it is announced at all.
ConnectCancelAnnounced ==
  \A r \in Requests :
    [](op[r] = "connect" /\ status[r] \in {"pending", "between"} /\ m_was_cancelled[r]
         => [](reported[r] \in {<<>>, <<"operation_aborted">>}))

\* If peers answer or reset the connection, every request executed is
\* reported, as the handler in main.cpp that announces failures expects.
EveryOutcomeReported == \A r \in Requests : op[r] # "none" ~> reported[r] # <<>>
=============================================================================
