----------------------------- MODULE HTTPServer -----------------------------
(***************************************************************************)
(* The HTTP server of Chapter05.  Its Acceptor and its pool are those of   *)
(* AsyncTCPServer, but a Service reads a request line, then headers, and   *)
(* decides on a status code on the way; and the pool consists of           *)
(* std::threads, so that an exception thrown in a callback ends the        *)
(* program.                                                                *)
(*                                                                         *)
(* A callback is two steps, taking it from the io_context and running it.  *)
(* It ends with starting the next operation or deleting its Service.       *)
(***************************************************************************)
EXTENDS Naturals

CONSTANTS
  Clients,         \* one connection each
  Workers,         \* m_thread_pool
  None,            \* no client, no request, no response
  Sends,           \* per client: the kinds of request it may send
  MaxAcceptErrors  \* bound: accepts that fail

\* What the server tells apart in a request.
Kinds ==
  { "longLine",     \* no end of the first line in 4096 bytes
    "notGET", "badVersion",
    "longHeaders",  \* no end of the headers in 4096 bytes
    "noHeaders",    \* an empty line right after the first
    "badPath",      \* a path that cannot be looked up, such as a name too long
    "missing", "unreadable", "empty", "file", "directory" } \* what is at the path

\* The status codes that a response may carry.
http_status_table == {200, 404, 413, 500, 501, 505}

\* What may follow its headers: nothing, the file, or the m_resource_buffer
\* that nothing was read into.
Bodies == {"none", "file", "memory"}

ASSUME NoneAssumption ==
  None \notin Clients /\ None \notin Kinds /\ None \notin http_status_table \X Bodies
ASSUME WorkersAssumption == Workers # {}   \* assert(thread_pool_size > 0)
ASSUME SendsAssumption == Sends \in [Clients -> SUBSET Kinds]
ASSUME BoundAssumption == MaxAcceptErrors \in Nat

VARIABLES
  m_isStopped,   \* the atomic flag of the Acceptor
  acceptor,      \* where its async_accept is
  accepted,      \* the connection that accept completed with, None on error
  acceptErrors,
  client,        \* per client: its end of the connection
  request,       \* and what it sent
  service,       \* the Service of that client's connection
  op, status,    \* its asynchronous operation and where the io_context has it
  result,        \* the error code handed to the callback
  response,      \* status code and body sent
  answers,       \* responses written
  ioStopped,     \* m_io_ctx.stop() was called
  main,          \* the thread that calls Server::Stop
  pc, at         \* per worker: where it is, and for which Service

acceptorVars == <<m_isStopped, acceptor, accepted, acceptErrors>>
peerVars == <<client, request>>
opVars == <<op, status, result>>
serviceVars == <<service, response>>
mainVars == <<ioStopped, main>>
threadVars == <<pc, at>>
vars == <<acceptorVars, peerVars, opVars, serviceVars, answers, mainVars, threadVars>>

\* The callback that each operation of a Service has.
Callback == [readLine |-> "on_request_line_received",
             readHeaders |-> "on_headers_received",
             write |-> "on_response_sent"]

ServicePcs == {"start_handling"} \cup {Callback[o] : o \in DOMAIN Callback}

Init ==
  /\ m_isStopped = FALSE
  /\ acceptor = "pending"      \* Server::Start has called Acceptor::Start
  /\ accepted = None
  /\ acceptErrors = 0
  /\ client = [c \in Clients |-> "away"]
  /\ request = [c \in Clients |-> None]
  /\ service = [c \in Clients |-> "none"]
  /\ op = [c \in Clients |-> "none"]
  /\ status = [c \in Clients |-> "idle"]
  /\ result = [c \in Clients |-> "success"]
  /\ response = [c \in Clients |-> None]
  /\ answers = [c \in Clients |-> 0]
  /\ ioStopped = FALSE
  /\ main = "serving"
  /\ pc = [w \in Workers |-> "run"]
  /\ at = [w \in Workers |-> None]

Goto(w, label, c) ==
  /\ pc' = [pc EXCEPT ![w] = label]
  /\ at' = [at EXCEPT ![w] = c]

\* A callback hands an operation to the io_context and returns from run().
Begin(w, which) ==
  /\ op' = [op EXCEPT ![at[w]] = which]
  /\ status' = [status EXCEPT ![at[w]] = "pending"]
  /\ result' = [result EXCEPT ![at[w]] = "success"]
  /\ Goto(w, "run", None)

Ready(w) == pc[w] = "run" /\ ~ioStopped

\* A worker inside run() takes a callback, unless the context is stopped.
Take(w, c) ==
  /\ Ready(w)
  /\ status[c] = "queued"
  /\ status' = [status EXCEPT ![c] = "idle"]
  /\ Goto(w, Callback[op[c]], c)
  /\ UNCHANGED <<acceptorVars, peerVars, op, result, serviceVars, answers, mainVars>>

-----------------------------------------------------------------------------
(* The Acceptor.                                                           *)

\* Slip: the error code of the accept is not looked at.
onAccept_Unchecked(w) ==
  /\ Ready(w)
  /\ acceptor = "queued"
  /\ acceptor' = "running"
  /\ Goto(w, "start_handling", accepted)
  /\ UNCHANGED <<m_isStopped, accepted, acceptErrors, peerVars, opVars, serviceVars,
                 answers, mainVars>>

\* A connection was accepted: a Service is made for it.
onAccept(w) ==
  /\ Ready(w)
  /\ acceptor = "queued"
  /\ accepted # None
  /\ acceptor' = "running"
  /\ accepted' = None
  /\ service' = [service EXCEPT ![accepted] = "alive"]
  /\ Goto(w, "start_handling", accepted)
  /\ UNCHANGED <<m_isStopped, acceptErrors, peerVars, opVars, response, answers, mainVars>>

\* A failed accept is logged, nothing else.
onAcceptError(w) ==
  /\ Ready(w)
  /\ acceptor = "queued"
  /\ accepted = None
  /\ acceptor' = "running"
  /\ Goto(w, "checkStopped", None)
  /\ UNCHANGED <<m_isStopped, accepted, acceptErrors, peerVars, opVars, serviceVars,
                 answers, mainVars>>

\* Service::start_handling; from here on the Service may be run, and
\* deleted, by other threads, and onAccept goes on without it.
start_handling(w) ==
  /\ pc[w] = "start_handling"
  /\ op' = [op EXCEPT ![at[w]] = "readLine"]
  /\ status' = [status EXCEPT ![at[w]] = "pending"]
  /\ Goto(w, "checkStopped", None)
  /\ UNCHANGED <<acceptorVars, peerVars, result, serviceVars, answers, mainVars>>

\* The end of onAccept: accept again, or close the acceptor.
afterAccept == IF m_isStopped THEN "closed" ELSE "pending"

InitAccept(w) ==
  /\ pc[w] = "checkStopped"
  /\ acceptor' = afterAccept
  /\ Goto(w, "run", None)
  /\ UNCHANGED <<m_isStopped, accepted, acceptErrors, peerVars, opVars, serviceVars,
                 answers, mainVars>>

-----------------------------------------------------------------------------
(* The Service.                                                            *)

\* The callback that a worker is about to run for client c.
In(w, c, which) == at[w] = c /\ pc[w] = Callback[which]

\* Slip: no return after the 501.
LineStatus_NoReturn(c) ==
  IF result[c] = "not_found" THEN 413
  ELSE IF request[c] = "badVersion" THEN 505
  ELSE 0

\* The status the first line leads to, 0 for: read the headers.
LineStatus(c) ==
  IF result[c] = "not_found" THEN 413
  ELSE IF request[c] = "notGET" THEN 501
  ELSE IF request[c] = "badVersion" THEN 505
  ELSE 0

\* process_request: the status and body that what is at the path leads to,
\* unless it throws.  tellg() of a directory depends on the file system; if
\* it is small the read fails, which nothing tests.
process_request(c) ==
  CASE request[c] = "missing"    -> {<<404, "none">>}
    [] request[c] = "unreadable" -> {<<500, "none">>}
    [] request[c] = "empty"      -> {<<200, "none">>}
    [] request[c] = "directory"  -> {<<200, "none">>, <<200, "memory">>}
    [] request[c] = "badPath"    -> {}
    [] OTHER                     -> {<<200, "file">>}

HeadersOutcomes(c) ==
  IF result[c] = "not_found" THEN {<<413, "none">>} ELSE process_request(c)

\* send_response: its shutdown_receive throws on a connection that was reset.
send_response(w, c, code, body) ==
  /\ client[c] # "reset"
  /\ response' = [response EXCEPT ![c] = <<code, body>>]
  /\ Begin(w, "write")
  /\ UNCHANGED <<acceptorVars, peerVars, service, answers, mainVars>>

on_request_line_received(w, c) ==
  /\ In(w, c, "readLine")
  /\ result[c] # "error"
  /\ IF LineStatus(c) = 0
       THEN /\ Begin(w, "readHeaders")
            /\ UNCHANGED <<acceptorVars, peerVars, serviceVars, answers, mainVars>>
       ELSE send_response(w, c, LineStatus(c), "none")

on_headers_received(w, c) ==
  /\ In(w, c, "readHeaders")
  /\ result[c] # "error"
  /\ \E outcome \in HeadersOutcomes(c) : send_response(w, c, outcome[1], outcome[2])

\* delete this; the socket is closed with it.
on_finish(w, c) ==
  /\ service' = [service EXCEPT ![c] = "deleted"]
  /\ op' = [op EXCEPT ![c] = "none"]
  /\ result' = [result EXCEPT ![c] = "success"]
  /\ Goto(w, "run", None)
  /\ UNCHANGED <<acceptorVars, peerVars, status, response, answers, mainVars>>

\* Slip: the callback of a failed read deletes its Service and goes on.
readError_NoReturn(w, c) ==
  /\ In(w, c, "readLine")
  /\ result[c] = "error"
  /\ service' = [service EXCEPT ![c] = "deleted"]
  /\ Begin(w, "readHeaders")
  /\ UNCHANGED <<acceptorVars, peerVars, response, answers, mainVars>>

\* Slip: the callback of a failed read only returns.
readError_NoFinish(w, c) ==
  /\ In(w, c, "readLine") \/ In(w, c, "readHeaders")
  /\ result[c] = "error"
  /\ Goto(w, "run", None)
  /\ UNCHANGED <<acceptorVars, peerVars, opVars, serviceVars, answers, mainVars>>

\* A read that failed otherwise than by a full buffer.
readError(w, c) ==
  /\ In(w, c, "readLine") \/ In(w, c, "readHeaders")
  /\ result[c] = "error"
  /\ on_finish(w, c)

\* Slip: the write callback sends again instead of finishing.
on_response_sent_Again(w, c) == In(w, c, "write") /\ send_response(w, c, 200, "none")

\* The write callback; whether the write failed is only logged.  Its
\* shutdown_both throws like the shutdown in send_response.
on_response_sent(w, c) ==
  /\ In(w, c, "write")
  /\ client[c] # "reset"
  /\ on_finish(w, c)

\* Slip: whether the file could be opened is not tested.
resourceThrows_Unopened(c) ==
  result[c] # "not_found" /\ request[c] \in {"unreadable", "directory", "badPath"}

\* process_request may throw: exists() when it cannot look up the path, the
\* allocation when tellg() of a directory is -1 or huge.
resourceThrows(c) == result[c] # "not_found" /\ request[c] \in {"directory", "badPath"}

\* A thrown exception leaves run() and the std::thread: std::terminate.
callbackThrows(w, c) ==
  /\ \/ /\ client[c] = "reset"
        /\ \/ In(w, c, "readLine") /\ result[c] # "error" /\ LineStatus(c) # 0
           \/ In(w, c, "readHeaders") /\ result[c] # "error"
           \/ In(w, c, "write")
     \/ In(w, c, "readHeaders") /\ result[c] # "error" /\ resourceThrows(c)
  /\ main' = "terminated"
  /\ UNCHANGED <<acceptorVars, peerVars, opVars, serviceVars, answers, ioStopped, threadVars>>

-----------------------------------------------------------------------------
(* Server::Stop, called by the main thread, and the end of run().          *)

StopAcceptor ==
  /\ main = "serving"
  /\ main' = "stopping"
  /\ m_isStopped' = TRUE
  /\ UNCHANGED <<acceptor, accepted, acceptErrors, peerVars, opVars, serviceVars, answers,
                 ioStopped, threadVars>>

StopContext ==
  /\ main = "stopping"
  /\ main' = "joining"
  /\ ioStopped' = TRUE
  /\ UNCHANGED <<acceptorVars, peerVars, opVars, serviceVars, answers, threadVars>>

joinAll ==
  /\ main = "joining"
  /\ \A w \in Workers : pc[w] = "stopped"
  /\ main' = "stopped"
  /\ UNCHANGED <<acceptorVars, peerVars, opVars, serviceVars, answers, ioStopped, threadVars>>

runReturns(w) ==
  /\ pc[w] = "run"
  /\ ioStopped
  /\ Goto(w, "stopped", None)
  /\ UNCHANGED <<acceptorVars, peerVars, opVars, serviceVars, answers, mainVars>>

-----------------------------------------------------------------------------
(* The clients and the kernel.                                             *)

PeerStep(c, from, to) ==
  /\ client[c] \in from
  /\ client' = [client EXCEPT ![c] = to]
  /\ UNCHANGED <<opVars, serviceVars, answers, mainVars, threadVars>>

Send(c) ==
  /\ PeerStep(c, {"connected"}, "requested")
  /\ \E k \in Sends[c] : request' = [request EXCEPT ![c] = k]
  /\ UNCHANGED acceptorVars

\* A client closes its end, before or after its request.
Leave(c) ==
  /\ PeerStep(c, {"connected"}, "gone") \/ PeerStep(c, {"requested"}, "leaving")
  /\ UNCHANGED <<acceptorVars, request>>

\* A client aborts the connection, or has closed it and is sent a response.
Reset(c) ==
  /\ PeerStep(c, {"connected", "requested"}, "reset") \/
       (answers[c] > 0 /\ PeerStep(c, {"leaving"}, "reset"))
  /\ UNCHANGED <<acceptorVars, request>>

AcceptDone(c) ==
  /\ acceptor = "pending"
  /\ acceptor' = "queued"
  /\ accepted' = c
  /\ PeerStep(c, {"away"}, "connected")
  /\ UNCHANGED <<m_isStopped, acceptErrors, request>>

AcceptFails ==
  /\ acceptor = "pending"
  /\ acceptErrors < MaxAcceptErrors
  /\ acceptErrors' = acceptErrors + 1
  /\ acceptor' = "queued"
  /\ UNCHANGED <<m_isStopped, accepted, peerVars, opVars, serviceVars, answers, mainVars,
                 threadVars>>

\* How a read of a request that has been sent ends, "wait" if it does not.
ReadResult(c) ==
  CASE op[c] = "readLine" /\ request[c] = "longLine" -> "not_found"
    [] op[c] = "readHeaders" /\ request[c] = "longHeaders" -> "not_found"
    [] op[c] = "readHeaders" /\ request[c] = "noHeaders" ->
         IF client[c] = "leaving" THEN "error" ELSE "wait"
    [] OTHER -> "success"

EndOp(c, code) ==
  /\ status[c] = "pending"
  /\ status' = [status EXCEPT ![c] = "queued"]
  /\ result' = [result EXCEPT ![c] = code]
  /\ UNCHANGED <<acceptorVars, peerVars, op, serviceVars, mainVars, threadVars>>

ReadDone(c) ==
  /\ op[c] \in {"readLine", "readHeaders"}
  /\ client[c] \in {"requested", "leaving"}
  /\ ReadResult(c) # "wait"
  /\ EndOp(c, ReadResult(c))
  /\ UNCHANGED answers

WriteDone(c) ==
  /\ op[c] = "write"
  /\ client[c] \in {"requested", "leaving"}
  /\ EndOp(c, "success")
  /\ answers' = [answers EXCEPT ![c] = @ + 1]

OpFails(c) ==
  /\ client[c] \in {"gone", "reset"}
  /\ EndOp(c, "error")
  /\ UNCHANGED answers

-----------------------------------------------------------------------------
WorkerStep(w) ==
  \/ onAccept(w)
  \/ onAcceptError(w)
  \/ start_handling(w)
  \/ InitAccept(w)
  \/ \E c \in Clients :
       \/ Take(w, c)
       \/ on_request_line_received(w, c)
       \/ on_headers_received(w, c)
       \/ readError(w, c)
       \/ on_response_sent(w, c)
       \/ callbackThrows(w, c)
  \/ runReturns(w)

Kernel(c) == AcceptDone(c) \/ ReadDone(c) \/ WriteDone(c) \/ OpFails(c)

ClientStep(c) == Send(c) \/ Leave(c) \/ Reset(c)

\* Nothing happens once the program has been terminated.
Next ==
  /\ main # "terminated"
  /\ \/ \E w \in Workers : WorkerStep(w)
     \/ StopAcceptor
     \/ StopContext
     \/ joinAll
     \/ \E c \in Clients : Kernel(c) \/ ClientStep(c)
     \/ AcceptFails

Spec == Init /\ [][Next]_vars

\* While the program lives the threads of the pool run and the kernel
\* completes what it can.  Clients need not act.
Lives(A) == main # "terminated" /\ A

Fairness ==
  /\ \A w \in Workers : WF_vars(Lives(WorkerStep(w)))
  /\ \A c \in Clients : WF_vars(Lives(Kernel(c)))

FairSpec == Spec /\ Fairness

-----------------------------------------------------------------------------
(* Properties.                                                             *)

\* Every variable has its type, and a worker is at a Service exactly while
\* it runs code that uses its members.
TypeOK ==
  /\ m_isStopped \in BOOLEAN
  /\ acceptor \in {"pending", "queued", "running", "closed"}
  /\ accepted \in Clients \cup {None}
  /\ acceptErrors \in 0 .. MaxAcceptErrors
  /\ client \in [Clients -> {"away", "connected", "requested", "gone", "leaving", "reset"}]
  /\ request \in [Clients -> Kinds \cup {None}]
  /\ service \in [Clients -> {"none", "alive", "deleted"}]
  /\ op \in [Clients -> {"none"} \cup DOMAIN Callback]
  /\ status \in [Clients -> {"idle", "pending", "queued"}]
  /\ result \in [Clients -> {"success", "not_found", "error"}]
  /\ response \in [Clients -> {None} \cup http_status_table \X Bodies]
  /\ answers \in [Clients -> Nat]
  /\ ioStopped \in BOOLEAN
  /\ main \in {"serving", "stopping", "joining", "stopped", "terminated"}
  /\ pc \in [Workers -> {"run", "checkStopped", "stopped"} \cup ServicePcs]
  /\ at \in [Workers -> Clients \cup {None}]
  /\ \A w \in Workers : at[w] = None <=> pc[w] \notin ServicePcs

\* `delete this` is safe on every error path: once a Service is deleted no
\* thread is in a member function of it and no callback with its address
\* is left; and no two threads, nor a thread and a pending operation, ever
\* use the members of one Service at the same time.
ServiceOwnedOnce ==
  /\ \A w \in Workers : pc[w] \in ServicePcs => service[at[w]] = "alive" /\ status[at[w]] = "idle"
  /\ \A c \in Clients : status[c] # "idle" => service[c] = "alive"
  /\ \A v, w \in Workers : v # w /\ at[v] = at[w] => at[v] = None

\* The responses fit for each kind of request, should it be answered: the
\* one HTTP wants, but for a directory, whose 200 may carry anything.
Expected(k) ==
  CASE k \in {"longLine", "longHeaders"} -> {<<413, "none">>}
    [] k = "notGET"                      -> {<<501, "none">>}
    [] k = "badVersion"                  -> {<<505, "none">>}
    [] k \in {"missing", "badPath"}      -> {<<404, "none">>}
    [] k = "unreadable"                  -> {<<500, "none">>}
    [] k = "empty"                       -> {<<200, "none">>}
    [] k \in {"file", "noHeaders"}       -> {<<200, "file">>}
    [] k = "directory"                   -> {200} \X {"none", "memory"}

\* Over three callbacks and their early returns each response is one that
\* its own request calls for, with a file only if there is one and memory
\* nothing was read into only for a directory; and the Service of a client
\* that stays is not deleted without its response.
ResponseFitsRequest ==
  \A c \in Clients :
    /\ response[c] # None => request[c] \in Kinds /\ response[c] \in Expected(request[c])
    /\ service[c] = "deleted" /\ client[c] = "requested" => answers[c] = 1

\* No early return or error path ends the program: it is terminated only
\* by a client that resets its connection or asks for a path that is no
\* file and no missing one.
TerminatedOnlyByClient ==
  main = "terminated" =>
    \E c \in Clients : client[c] = "reset" \/ request[c] \in {"directory", "badPath"}

Conn(c) == CASE service[c] = "none" -> "none"
             [] service[c] = "alive" -> "open"
             [] service[c] = "deleted" -> "closed"

\* Towards each client the server keeps the promise of RequestResponse,
\* where a request is received when the status of its response is known.
Abstract == INSTANCE RequestResponse WITH
  Connections <- Clients,
  conn <- [c \in Clients |-> Conn(c)],
  requested <- [c \in Clients |-> response[c] # None]

ImplementsRequestResponse == Abstract!Spec

\* While the program lives and until Stop(), the Service of every client
\* that sends a request with headers, or leaves, is deleted: no path of the
\* callbacks leaks one, except through an exception.
ServiceEnds ==
  \A c \in Clients :
    (\/ client[c] = "requested" /\ request[c] # "noHeaders"
     \/ client[c] \in {"gone", "leaving", "reset"})
      ~> (service[c] = "deleted" \/ m_isStopped \/ main = "terminated")
=============================================================================
