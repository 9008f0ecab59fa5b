--------------------------- MODULE AsyncTCPServer ---------------------------
(***************************************************************************)
(* The asynchronous parallel TCP server of Chapter04.  A pool of threads   *)
(* runs one io_context; the Acceptor keeps one async_accept outstanding    *)
(* and makes a Service for each connection, which reads a request, writes  *)
(* a response and deletes itself.  Callbacks hold a raw pointer to it.     *)
(*                                                                         *)
(* A step is what a thread does between handing an operation to the        *)
(* io_context, taking a callback from it, and touching an atomic.          *)
(***************************************************************************)
EXTENDS Naturals, FiniteSets

CONSTANTS
  Clients,         \* one connection each
  Workers,         \* m_thread_pool
  None,            \* no client
  MaxAcceptErrors  \* bound: accepts that fail

ASSUME NoneAssumption == None \notin Clients
ASSUME WorkersAssumption == Workers # {}   \* assert(thread_pool_size > 0)
ASSUME BoundAssumption == MaxAcceptErrors \in Nat

VARIABLES
  m_isStopped,   \* the atomic flag of the Acceptor
  acceptor,      \* where its async_accept is
  accepted,      \* the connection that accept completed with, None on error
  acceptErrors,
  client,        \* per client: what it does
  service,       \* the Service of that client's connection
  op, status,    \* its asynchronous operation and where the io_context has it
  result,        \* the error code handed to the callback
  m_request,     \* has the request been read into the buffer?
  m_response,    \* has the response been built?
  answers,       \* responses the client was sent
  ioStopped,     \* m_io_ctx.stop() was called
  main,          \* the thread that calls Server::Stop
  pc, at         \* per worker: where it is, and for which Service

acceptorVars == <<m_isStopped, acceptor, accepted, acceptErrors>>
opVars == <<op, status, result>>
serviceVars == <<service, m_request, m_response>>
mainVars == <<ioStopped, main>>
threadVars == <<pc, at>>
vars == <<acceptorVars, client, opVars, serviceVars, answers, mainVars, threadVars>>

\* Callbacks that use the members of a Service.
ServicePcs == {"StartHandling", "ProcessRequest", "respond", "onFinish"}
Pcs == {"run", "checkStopped", "InitAccept", "stopped"} \cup ServicePcs

Init ==
  /\ m_isStopped = FALSE
  /\ acceptor = "pending"      \* Server::Start has called Acceptor::Start
  /\ accepted = None
  /\ acceptErrors = 0
  /\ client = [c \in Clients |-> "away"]
  /\ service = [c \in Clients |-> "none"]
  /\ op = [c \in Clients |-> "none"]
  /\ status = [c \in Clients |-> "idle"]
  /\ result = [c \in Clients |-> "success"]
  /\ m_request = [c \in Clients |-> FALSE]
  /\ m_response = [c \in Clients |-> FALSE]
  /\ answers = [c \in Clients |-> 0]
  /\ ioStopped = FALSE
  /\ main = "serving"
  /\ pc = [w \in Workers |-> "run"]
  /\ at = [w \in Workers |-> None]

Goto(w, label, c) ==
  /\ pc' = [pc EXCEPT ![w] = label]
  /\ at' = [at EXCEPT ![w] = c]

\* A Service hands an operation to the io_context.
Begin(c, which) ==
  /\ op' = [op EXCEPT ![c] = which]
  /\ status' = [status EXCEPT ![c] = "pending"]
  /\ UNCHANGED result

\* A worker inside run() takes a callback, unless the context is stopped.
Ready(w) == pc[w] = "run" /\ ~ioStopped

Take(w, c, which) ==
  /\ Ready(w)
  /\ op[c] = which
  /\ status[c] = "queued"
  /\ status' = [status EXCEPT ![c] = "idle"]
  /\ UNCHANGED <<op, result>>

AllJoined_Not == TRUE \* Slip: the pool is not joined.

AllJoined == \A w \in Workers : pc[w] = "stopped"

-----------------------------------------------------------------------------
(* The Acceptor.                                                           *)

\* Slip: the error code of the accept is not looked at.
onAccept_Unchecked(w) ==
  /\ Ready(w)
  /\ acceptor = "queued"
  /\ acceptor' = "running"
  /\ accepted' = None
  /\ Goto(w, "StartHandling", accepted)
  /\ UNCHANGED <<m_isStopped, acceptErrors, client, opVars, serviceVars, answers, mainVars>>

\* A connection was accepted: a Service is made for it.
onAccept(w) ==
  /\ Ready(w)
  /\ acceptor = "queued"
  /\ accepted # None
  /\ acceptor' = "running"
  /\ accepted' = None
  /\ service' = [service EXCEPT ![accepted] = "alive"]
  /\ Goto(w, "StartHandling", accepted)
  /\ UNCHANGED <<m_isStopped, acceptErrors, client, opVars, m_request, m_response,
                 answers, mainVars>>

\* Slip: a failed accept ends the callback.
onAcceptError_Return(w) ==
  /\ Ready(w)
  /\ acceptor = "queued"
  /\ accepted = None
  /\ acceptor' = "running"
  /\ UNCHANGED <<m_isStopped, accepted, acceptErrors, client, opVars, serviceVars,
                 answers, mainVars, threadVars>>

\* A failed accept is logged, nothing else.
onAcceptError(w) ==
  /\ Ready(w)
  /\ acceptor = "queued"
  /\ accepted = None
  /\ acceptor' = "running"
  /\ Goto(w, "checkStopped", None)
  /\ UNCHANGED <<m_isStopped, accepted, acceptErrors, client, opVars, serviceVars,
                 answers, mainVars>>

\* Slip: the read is not started.
StartHandling_NoRead(w) ==
  /\ pc[w] = "StartHandling"
  /\ Goto(w, "checkStopped", None)
  /\ UNCHANGED <<acceptorVars, client, opVars, serviceVars, answers, mainVars>>

\* Service::StartHandling; from here on other threads may run, and delete,
\* the Service, and onAccept goes on without it.
StartHandling(w) ==
  /\ pc[w] = "StartHandling"
  /\ Begin(at[w], "read")
  /\ Goto(w, "checkStopped", None)
  /\ UNCHANGED <<acceptorVars, client, serviceVars, answers, mainVars>>

\* The flag is read first, the accept started afterwards.
checkStopped(w) ==
  /\ pc[w] = "checkStopped"
  /\ ~m_isStopped
  /\ Goto(w, "InitAccept", None)
  /\ UNCHANGED <<acceptorVars, client, opVars, serviceVars, answers, mainVars>>

InitAccept(w) ==
  /\ pc[w] = "InitAccept"
  /\ acceptor' = "pending"
  /\ Goto(w, "run", None)
  /\ UNCHANGED <<m_isStopped, accepted, acceptErrors, client, opVars, serviceVars,
                 answers, mainVars>>

closeAcceptor(w) ==
  /\ pc[w] = "checkStopped"
  /\ m_isStopped
  /\ acceptor' = "closed"
  /\ Goto(w, "run", None)
  /\ UNCHANGED <<m_isStopped, accepted, acceptErrors, client, opVars, serviceVars,
                 answers, mainVars>>

-----------------------------------------------------------------------------
(* The Service.                                                            *)

\* Slip: the Service of a failed read is not finished.
onRequestReceived_NoFinish(w, c) ==
  /\ Take(w, c, "read")
  /\ m_request' = [m_request EXCEPT ![c] = IF result[c] = "success" THEN TRUE ELSE @]
  /\ Goto(w, IF result[c] = "success" THEN "ProcessRequest" ELSE "run",
             IF result[c] = "success" THEN c ELSE None)
  /\ UNCHANGED <<acceptorVars, client, service, m_response, answers, mainVars>>

\* Slip: after a failed read the callback deletes the Service but goes on.
onRequestReceived_NoReturn(w, c) ==
  /\ Take(w, c, "read")
  /\ service' = [service EXCEPT ![c] = IF result[c] = "success" THEN @ ELSE "deleted"]
  /\ Goto(w, "ProcessRequest", c)
  /\ UNCHANGED <<acceptorVars, client, m_request, m_response, answers, mainVars>>

\* The read callback: a failed read finishes the Service.
onRequestReceived(w, c) ==
  /\ Take(w, c, "read")
  /\ m_request' = [m_request EXCEPT ![c] = IF result[c] = "success" THEN TRUE ELSE @]
  /\ Goto(w, IF result[c] = "success" THEN "ProcessRequest" ELSE "onFinish", c)
  /\ UNCHANGED <<acceptorVars, client, service, m_response, answers, mainVars>>

\* Slip: the write is started before the response is in its buffer.
ProcessRequest_Late(w) ==
  /\ pc[w] = "ProcessRequest"
  /\ Begin(at[w], "write")
  /\ Goto(w, "respond", at[w])
  /\ UNCHANGED <<acceptorVars, client, serviceVars, answers, mainVars>>

ProcessRequest(w) ==
  /\ pc[w] = "ProcessRequest"
  /\ m_response' = [m_response EXCEPT ![at[w]] = TRUE]
  /\ Goto(w, "respond", at[w])
  /\ UNCHANGED <<acceptorVars, client, opVars, service, m_request, answers, mainVars>>

\* async_write, the last thing onRequestReceived does.
respond(w) ==
  /\ pc[w] = "respond"
  /\ Begin(at[w], "write")
  /\ Goto(w, "run", None)
  /\ UNCHANGED <<acceptorVars, client, serviceVars, answers, mainVars>>

\* The write callback finishes the Service, whether or not it failed.
onResponseSent(w, c) ==
  /\ Take(w, c, "write")
  /\ Goto(w, "onFinish", c)
  /\ UNCHANGED <<acceptorVars, client, serviceVars, answers, mainVars>>

\* delete this; the socket is closed with it.
onFinish(w) ==
  /\ pc[w] = "onFinish"
  /\ service' = [service EXCEPT ![at[w]] = "deleted"]
  /\ op' = [op EXCEPT ![at[w]] = "none"]
  /\ Goto(w, "run", None)
  /\ UNCHANGED <<acceptorVars, client, status, result, m_request, m_response, answers,
                 mainVars>>

-----------------------------------------------------------------------------
(* Server::Stop, called by the main thread, and the end of run().          *)

StopAcceptor ==
  /\ main = "serving"
  /\ main' = "stopping"
  /\ m_isStopped' = TRUE
  /\ UNCHANGED <<acceptor, accepted, acceptErrors, client, opVars, serviceVars, answers,
                 ioStopped, threadVars>>

\* Slip: m_io_ctx.stop() is forgotten.
StopContext_Not ==
  /\ main = "stopping"
  /\ main' = "joining"
  /\ UNCHANGED <<acceptorVars, client, opVars, serviceVars, answers, ioStopped, threadVars>>

StopContext ==
  /\ main = "stopping"
  /\ main' = "joining"
  /\ ioStopped' = TRUE
  /\ UNCHANGED <<acceptorVars, client, opVars, serviceVars, answers, threadVars>>

joinAll ==
  /\ main = "joining"
  /\ AllJoined
  /\ main' = "stopped"
  /\ UNCHANGED <<acceptorVars, client, opVars, serviceVars, answers, ioStopped, threadVars>>

runReturns(w) ==
  /\ pc[w] = "run"
  /\ ioStopped
  /\ Goto(w, "stopped", None)
  /\ UNCHANGED <<acceptorVars, client, opVars, serviceVars, answers, mainVars>>

-----------------------------------------------------------------------------
(* The clients and the kernel.                                             *)

Connect(c) ==
  /\ client[c] = "away"
  /\ client' = [client EXCEPT ![c] = "backlog"]
  /\ UNCHANGED <<acceptorVars, opVars, serviceVars, answers, mainVars, threadVars>>

AcceptDone(c) ==
  /\ client[c] = "backlog"
  /\ acceptor = "pending"
  /\ acceptor' = "queued"
  /\ accepted' = c
  /\ client' = [client EXCEPT ![c] = "connected"]
  /\ UNCHANGED <<m_isStopped, acceptErrors, opVars, serviceVars, answers, mainVars, threadVars>>

AcceptFails ==
  /\ acceptor = "pending"
  /\ acceptErrors < MaxAcceptErrors
  /\ acceptErrors' = acceptErrors + 1
  /\ acceptor' = "queued"
  /\ UNCHANGED <<m_isStopped, accepted, client, opVars, serviceVars, answers, mainVars, threadVars>>

\* The client sends its request, or leaves, before that or after.
Send(c) ==
  /\ client[c] = "connected"
  /\ client' = [client EXCEPT ![c] = "requested"]
  /\ UNCHANGED <<acceptorVars, opVars, serviceVars, answers, mainVars, threadVars>>

Leave(c) ==
  /\ client[c] \in {"connected", "requested"}
  /\ client' = [client EXCEPT ![c] = IF @ = "connected" THEN "gone" ELSE "leaving"]
  /\ UNCHANGED <<acceptorVars, opVars, serviceVars, answers, mainVars, threadVars>>

\* An operation ends: well if the client has sent its request, and maybe
\* also after it left, otherwise with an error once it has left.
EndOp(c, which, code) ==
  /\ op[c] = which
  /\ status[c] = "pending"
  /\ client[c] \in (IF code = "success" THEN {"requested", "leaving"} ELSE {"gone", "leaving"})
  /\ status' = [status EXCEPT ![c] = "queued"]
  /\ result' = [result EXCEPT ![c] = code]
  /\ UNCHANGED <<acceptorVars, client, op, serviceVars, mainVars, threadVars>>

ReadDone(c) == EndOp(c, "read", "success") /\ UNCHANGED answers

WriteDone(c) ==
  /\ EndOp(c, "write", "success")
  /\ answers' = [answers EXCEPT ![c] = @ + 1]

OpFails(c) == (\E which \in {"read", "write"} : EndOp(c, which, "error")) /\ UNCHANGED answers

-----------------------------------------------------------------------------
WorkerStep(w) ==
  \/ onAccept(w)
  \/ onAcceptError(w)
  \/ StartHandling(w)
  \/ checkStopped(w)
  \/ InitAccept(w)
  \/ closeAcceptor(w)
  \/ \E c \in Clients : onRequestReceived(w, c) \/ onResponseSent(w, c)
  \/ ProcessRequest(w)
  \/ respond(w)
  \/ onFinish(w)
  \/ runReturns(w)

Kernel(c) == AcceptDone(c) \/ ReadDone(c) \/ WriteDone(c) \/ OpFails(c)

ClientStep(c) == Connect(c) \/ Send(c) \/ Leave(c)

Next ==
  \/ \E w \in Workers : WorkerStep(w)
  \/ StopAcceptor
  \/ StopContext
  \/ joinAll
  \/ \E c \in Clients : Kernel(c) \/ ClientStep(c)
  \/ AcceptFails

Spec == Init /\ [][Next]_vars

\* The threads of the pool run, a call of Stop goes on, and the kernel
\* completes what it can.  Clients need not do anything.
Fairness ==
  /\ \A w \in Workers : WF_vars(WorkerStep(w))
  /\ WF_vars(StopContext) /\ WF_vars(joinAll)
  /\ \A c \in Clients : WF_vars(Kernel(c))

FairSpec == Spec /\ Fairness

-----------------------------------------------------------------------------
(* Properties.                                                             *)

\* Every variable has its type, and a worker is at a Service exactly while
\* it runs code that uses its members.
TypeOK ==
  /\ m_isStopped \in BOOLEAN
  /\ acceptor \in {"pending", "queued", "running", "closed"}
  /\ accepted \in Clients \cup {None}
  /\ acceptErrors \in 0 .. MaxAcceptErrors
  /\ client \in [Clients -> {"away", "backlog", "connected", "requested", "gone", "leaving"}]
  /\ service \in [Clients -> {"none", "alive", "deleted"}]
  /\ op \in [Clients -> {"none", "read", "write"}]
  /\ status \in [Clients -> {"idle", "pending", "queued"}]
  /\ result \in [Clients -> {"success", "error"}]
  /\ m_request \in [Clients -> BOOLEAN]
  /\ m_response \in [Clients -> BOOLEAN]
  /\ answers \in [Clients -> Nat]
  /\ ioStopped \in BOOLEAN
  /\ main \in {"serving", "stopping", "joining", "stopped"}
  /\ pc \in [Workers -> Pcs]
  /\ at \in [Workers -> Clients \cup {None}]
  /\ \A w \in Workers : at[w] = None <=> pc[w] \notin ServicePcs

\* `delete this` is safe: no thread is in a member function of a Service,
\* and the io_context holds no callback with a pointer to it, once it has
\* been deleted.
NoUseAfterDelete ==
  /\ \A w \in Workers : pc[w] \in ServicePcs => service[at[w]] = "alive"
  /\ \A c \in Clients : status[c] # "idle" => service[c] = "alive"

\* The members of a Service need no mutex: at any time either one thread
\* works on it or one operation of it is outstanding, never two of these,
\* and what a write sends is a finished response.
OneActivity ==
  /\ \A v, w \in Workers : v # w /\ at[v] = at[w] => at[v] = None
  /\ \A w \in Workers : pc[w] \in ServicePcs => status[at[w]] = "idle"
  /\ \A c \in Clients : op[c] = "write" => m_response[c]

\* Stop() interrupts no callback: when it has returned, whatever Service is
\* left has its operation outstanding in the stopped context.
StopLeavesOnlyOutstanding ==
  main = "stopped" => \A c \in Clients : service[c] = "alive" => status[c] # "idle"

Conn(c) ==
  CASE service[c] = "none" -> "none"
    [] service[c] = "alive" -> "open"
    [] service[c] = "deleted" -> "closed"

\* Towards each client the server keeps the promise of RequestResponse.
Abstract == INSTANCE RequestResponse WITH
  Connections <- Clients,
  conn <- [c \in Clients |-> Conn(c)],
  requested <- m_request

ImplementsRequestResponse == Abstract!Spec

\* Accepting goes on, after errors too: until Stop() every client that
\* connects is accepted, however silent the others are.
EveryoneAccepted ==
  \A c \in Clients : client[c] = "backlog" ~> client[c] # "backlog" \/ m_isStopped

\* Until Stop() every client that sends its request and stays is answered.
EveryRequestAnswered ==
  \A c \in Clients :
    client[c] = "requested" ~> answers[c] = 1 \/ client[c] = "leaving" \/ m_isStopped

\* Until Stop() the Service of a client that leaves is deleted.
ServiceFreed ==
  \A c \in Clients :
    client[c] \in {"gone", "leaving"} ~> service[c] = "deleted" \/ m_isStopped

\* Stop() returns, whatever the clients do.
StopReturns == main = "stopping" ~> main = "stopped"
=============================================================================
