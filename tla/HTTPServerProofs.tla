------------------------- MODULE HTTPServerProofs -------------------------
(***************************************************************************)
(* Proofs about HTTPServer for every set of clients, whatever requests     *)
(* they send, and every pool.                                              *)
(***************************************************************************)
EXTENDS HTTPServer, TLAPS

\* One thread at most is in onAccept, and where the accept is determines
\* what exists of the connection it accepted.
AcceptInv ==
  /\ \A w \in Workers : pc[w] \in {"start_handling", "checkStopped"} => acceptor = "running"
  /\ \A v, w \in Workers :
       /\ pc[v] \in {"start_handling", "checkStopped"}
       /\ pc[w] \in {"start_handling", "checkStopped"}
       => v = w
  /\ accepted # None => acceptor = "queued" /\ service[accepted] = "none"
  /\ \A c \in Clients : client[c] = "away" => service[c] = "none" /\ accepted # c

\* A thread at a Service runs the callback of the operation that ended, and
\* a new Service has done nothing yet.
WorkInv ==
  /\ \A w \in Workers :
       /\ pc[w] = "start_handling" => op[at[w]] = "none" /\ response[at[w]] = None
       /\ \A o \in DOMAIN Callback : pc[w] = Callback[o] => op[at[w]] = o
  /\ \A c \in Clients :
       /\ status[c] # "idle" => op[c] # "none"
       /\ op[c] = "none" \/ status[c] = "pending" => result[c] = "success"
       /\ service[c] = "none" => op[c] = "none" /\ response[c] = None

\* How far a request has been read is known from the operation, and the
\* result of a read is that of the request.
RequestInv ==
  \A c \in Clients :
    /\ client[c] \in {"away", "connected"} => request[c] = None
    /\ client[c] \in {"requested", "leaving"} => request[c] \in Kinds
    /\ op[c] = "readLine" /\ status[c] # "pending" =>
         /\ result[c] = "success" => request[c] \in Kinds \ {"longLine"}
         /\ result[c] = "not_found" => request[c] = "longLine"
    /\ op[c] = "readHeaders" => request[c] \in Kinds \ {"longLine", "notGET", "badVersion"}
    /\ op[c] = "readHeaders" /\ status[c] # "pending" =>
         /\ result[c] = "success" => request[c] \notin {"longHeaders", "noHeaders"}
         /\ result[c] = "not_found" => request[c] = "longHeaders"

\* A Service has answered only if its write has ended well, and a client
\* that stays sees no error.
AnswerInv ==
  \A c \in Clients :
    /\ response[c] = None => answers[c] = 0
    /\ response[c] # None => request[c] \in Kinds
    /\ op[c] \in {"readLine", "readHeaders"} => response[c] = None
    /\ op[c] = "write" => response[c] # None /\ result[c] # "not_found"
    /\ op[c] = "write" /\ status[c] = "pending" => answers[c] = 0
    /\ op[c] = "write" /\ status[c] # "pending" /\ result[c] = "success" => answers[c] = 1
    /\ result[c] = "error" => client[c] \in {"gone", "leaving", "reset"}
    /\ service[c] = "deleted" => client[c] \notin {"away", "connected"}

IInv ==
  /\ TypeOK
  /\ AcceptInv
  /\ WorkInv
  /\ ServiceOwnedOnce
  /\ RequestInv
  /\ AnswerInv
  /\ ResponseFitsRequest
  /\ TerminatedOnlyByClient

-----------------------------------------------------------------------------
(* What the callbacks that read come to.                                   *)

\* The callbacks spelled out.
LEMMA Callbacks ==
  /\ DOMAIN Callback = {"readLine", "readHeaders", "write"}
  /\ Callback["readLine"] = "on_request_line_received"
  /\ Callback["readHeaders"] = "on_headers_received"
  /\ Callback["write"] = "on_response_sent"
  /\ ServicePcs = {"start_handling", "on_request_line_received", "on_headers_received",
                   "on_response_sent"}
BY DEF Callback, ServicePcs

\* The responses that fit are ones of the status table.
LEMMA ExpectedResponses ==
  ASSUME NEW k \in Kinds
  PROVE  Expected(k) \subseteq (http_status_table \X Bodies) \ {None}
<1>1. Expected(k) \subseteq http_status_table \X Bodies
  BY DEF Expected, Kinds, http_status_table, Bodies
<1>. QED
  BY <1>1, NoneAssumption

\* The callback of the first line starts the other read for a request that
\* has passed, or writes the response that a bad one calls for.
LEMMA LineReceived ==
  ASSUME TypeOK, WorkInv, ServiceOwnedOnce, RequestInv,
         NEW w \in Workers, NEW c \in Clients, on_request_line_received(w, c)
  PROVE  /\ at[w] = c /\ pc[w] = "on_request_line_received" /\ op[c] = "readLine"
         /\ Begin(w, "readHeaders") \/ Begin(w, "write")
         /\ UNCHANGED <<acceptorVars, peerVars, service, answers, mainVars>>
         /\ \/ /\ request[c] \in Kinds \ {"longLine", "notGET", "badVersion"}
               /\ op' = [op EXCEPT ![c] = "readHeaders"]
               /\ UNCHANGED response
            \/ /\ request[c] \in {"longLine", "notGET", "badVersion"}
               /\ op' = [op EXCEPT ![c] = "write"]
               /\ \E resp \in Expected(request[c]) : response' = [response EXCEPT ![c] = resp]
<1>1. at[w] = c /\ pc[w] = "on_request_line_received" /\ op[c] = "readLine" /\ result[c] # "error"
  BY Callbacks DEF on_request_line_received, In, WorkInv
<1>2. status[c] = "idle"
  BY <1>1, Callbacks DEF ServiceOwnedOnce
<1>3. /\ result[c] = "success" => request[c] \in Kinds \ {"longLine"}
      /\ result[c] = "not_found" => request[c] = "longLine"
      /\ result[c] \in {"success", "not_found"}
  BY <1>1, <1>2 DEF RequestInv, TypeOK
<1>4. CASE LineStatus(c) = 0
  <2>1. request[c] \in Kinds \ {"longLine", "notGET", "badVersion"}
    BY <1>3, <1>4 DEF LineStatus
  <2>2. /\ Begin(w, "readHeaders")
        /\ UNCHANGED <<acceptorVars, peerVars, service, response, answers, mainVars>>
    BY <1>4 DEF on_request_line_received, serviceVars
  <2>3. op' = [op EXCEPT ![c] = "readHeaders"]
    BY <1>1, <2>2 DEF Begin
  <2>. QED
    BY <1>1, <2>1, <2>2, <2>3
<1>5. CASE LineStatus(c) # 0
  <2>1. request[c] \in {"longLine", "notGET", "badVersion"}
    BY <1>3, <1>5 DEF LineStatus
  <2>2. <<LineStatus(c), "none">> \in Expected(request[c])
    BY <1>3, <2>1 DEF LineStatus, Expected
  <2>3. /\ Begin(w, "write")
        /\ response' = [response EXCEPT ![c] = <<LineStatus(c), "none">>]
        /\ UNCHANGED <<acceptorVars, peerVars, service, answers, mainVars>>
    BY <1>5 DEF on_request_line_received, send_response
  <2>4. op' = [op EXCEPT ![c] = "write"]
    BY <1>1, <2>3 DEF Begin
  <2>. QED
    BY <1>1, <2>1, <2>2, <2>3, <2>4
<1>. QED
  BY <1>4, <1>5

\* The callback of the headers writes the response that the request, or
\* what is at its path, calls for.
LEMMA HeadersReceived ==
  ASSUME TypeOK, WorkInv, ServiceOwnedOnce, RequestInv,
         NEW w \in Workers, NEW c \in Clients, on_headers_received(w, c)
  PROVE  /\ at[w] = c /\ pc[w] = "on_headers_received" /\ op[c] = "readHeaders"
         /\ Begin(w, "write")
         /\ UNCHANGED <<acceptorVars, peerVars, service, answers, mainVars>>
         /\ request[c] \in Kinds
         /\ \E resp \in Expected(request[c]) : response' = [response EXCEPT ![c] = resp]
<1>1. at[w] = c /\ pc[w] = "on_headers_received" /\ op[c] = "readHeaders" /\ result[c] # "error"
  BY Callbacks DEF on_headers_received, In, WorkInv
<1>2. status[c] = "idle"
  BY <1>1, Callbacks DEF ServiceOwnedOnce
<1>3. /\ request[c] \in Kinds \ {"longLine", "notGET", "badVersion"}
      /\ result[c] = "success" => request[c] \notin {"longHeaders", "noHeaders"}
      /\ result[c] = "not_found" => request[c] = "longHeaders"
      /\ result[c] \in {"success", "not_found"}
  BY <1>1, <1>2 DEF RequestInv, TypeOK
<1>4. HeadersOutcomes(c) \subseteq Expected(request[c])
  BY <1>3 DEF HeadersOutcomes, process_request, Expected, Kinds
<1>5. PICK outcome \in HeadersOutcomes(c) : send_response(w, c, outcome[1], outcome[2])
  BY DEF on_headers_received
<1>6. outcome \in http_status_table \X Bodies
  BY <1>3, <1>4, ExpectedResponses
<1>7. <<outcome[1], outcome[2]>> = outcome
  BY <1>6
<1>. QED
  BY <1>1, <1>3, <1>4, <1>5, <1>7 DEF send_response

-----------------------------------------------------------------------------
(* The invariant holds initially and every step preserves it.              *)

\* Nobody has connected yet.
LEMMA InitIInv == Init => IInv
<1>. SUFFICES ASSUME Init PROVE IInv
  OBVIOUS
<1>. USE NoneAssumption, BoundAssumption, Callbacks DEF Init
<1>1. TypeOK
  <2>1. acceptErrors \in 0 .. MaxAcceptErrors
    OBVIOUS
  <2>2. \A w \in Workers : at[w] = None <=> pc[w] \notin ServicePcs
    OBVIOUS
  <2>3. "run" \in {"run", "checkStopped", "stopped"} \cup ServicePcs
    OBVIOUS
  <2>. QED
    BY <2>1, <2>2, <2>3 DEF TypeOK
<1>2. AcceptInv /\ WorkInv /\ ServiceOwnedOnce
  BY DEF AcceptInv, WorkInv, ServiceOwnedOnce
<1>3. RequestInv /\ AnswerInv /\ ResponseFitsRequest /\ TerminatedOnlyByClient
  BY DEF RequestInv, AnswerInv, ResponseFitsRequest, TerminatedOnlyByClient
<1>. QED
  BY <1>1, <1>2, <1>3 DEF IInv

\* A response has a status code of the table.
LEMMA TypeOKStep ==
  ASSUME TypeOK, WorkInv, ServiceOwnedOnce, RequestInv, [Next]_vars
  PROVE  TypeOK'
<1>. USE NoneAssumption, SendsAssumption, BoundAssumption, Callbacks DEF TypeOK,
        acceptorVars, peerVars, mainVars
<1>1. ASSUME NEW w \in Workers, onAccept(w)
     PROVE  TypeOK'
  BY <1>1 DEF onAccept, Ready, Goto, peerVars, opVars, mainVars
<1>2. ASSUME NEW w \in Workers, onAcceptError(w)
     PROVE  TypeOK'
  BY <1>2 DEF onAcceptError, Ready, Goto, peerVars, opVars, serviceVars, mainVars
<1>3. ASSUME NEW w \in Workers, start_handling(w)
     PROVE  TypeOK'
  BY <1>3 DEF start_handling, Goto, acceptorVars, peerVars, serviceVars, mainVars
<1>4. ASSUME NEW w \in Workers, InitAccept(w)
     PROVE  TypeOK'
  BY <1>4 DEF InitAccept, afterAccept, Goto, peerVars, opVars, serviceVars, mainVars
<1>5. ASSUME NEW w \in Workers, NEW c \in Clients, Take(w, c)
     PROVE  TypeOK'
  <2>1. op[c] \in DOMAIN Callback
    BY <1>5 DEF Take, WorkInv
  <2>2. Callback[op[c]] \in ServicePcs
    BY <2>1
  <2>. QED
    BY <1>5, <2>2 DEF Take, Ready, Goto, acceptorVars, peerVars, serviceVars, mainVars
<1>6. ASSUME NEW w \in Workers, NEW c \in Clients, on_request_line_received(w, c)
     PROVE  TypeOK'
  <2>1. response' \in [Clients -> {None} \cup http_status_table \X Bodies]
    <3>1. CASE UNCHANGED response
      BY <3>1
    <3>2. CASE request[c] \in {"longLine", "notGET", "badVersion"}
      <4>1. PICK resp \in Expected(request[c]) : response' = [response EXCEPT ![c] = resp]
        BY <1>6, <3>2, LineReceived
      <4>2. resp \in http_status_table \X Bodies
        BY <3>2, ExpectedResponses DEF Kinds
      <4>. QED
        BY <4>1, <4>2
    <3>. QED
      BY <1>6, <3>1, <3>2, LineReceived
  <2>2. /\ at[w] = c
        /\ \E o \in DOMAIN Callback : Begin(w, o)
        /\ UNCHANGED <<acceptorVars, peerVars, service, answers, mainVars>>
    BY <1>6, LineReceived
  <2>. QED
    BY <2>1, <2>2 DEF Begin, Goto
<1>7. ASSUME NEW w \in Workers, NEW c \in Clients, on_headers_received(w, c)
     PROVE  TypeOK'
  <2>1. /\ response' \in [Clients -> {None} \cup http_status_table \X Bodies]
        /\ at[w] = c
        /\ \E o \in DOMAIN Callback : Begin(w, o)
        /\ UNCHANGED <<acceptorVars, peerVars, service, answers, mainVars>>
    BY <1>7, HeadersReceived, ExpectedResponses DEF RequestInv
  <2>. QED
    BY <2>1 DEF Begin, Goto
<1>8. ASSUME NEW w \in Workers, NEW c \in Clients, readError(w, c)
     PROVE  TypeOK'
  BY <1>8 DEF readError, In, on_finish, Goto, acceptorVars, peerVars, mainVars
<1>9. ASSUME NEW w \in Workers, NEW c \in Clients, on_response_sent(w, c)
     PROVE  TypeOK'
  BY <1>9 DEF on_response_sent, In, on_finish, Goto, acceptorVars, peerVars, mainVars
<1>10. ASSUME NEW w \in Workers, NEW c \in Clients, callbackThrows(w, c)
     PROVE  TypeOK'
  BY <1>10 DEF callbackThrows, acceptorVars, peerVars, opVars, serviceVars, threadVars
<1>11. ASSUME NEW w \in Workers, runReturns(w)
     PROVE  TypeOK'
  BY <1>11 DEF runReturns, Goto, acceptorVars, peerVars, opVars, serviceVars, mainVars
<1>12. CASE StopAcceptor
  BY <1>12 DEF StopAcceptor, peerVars, opVars, serviceVars, threadVars
<1>13. CASE StopContext
  BY <1>13 DEF StopContext, acceptorVars, peerVars, opVars, serviceVars, threadVars
<1>14. CASE joinAll
  BY <1>14 DEF joinAll, acceptorVars, peerVars, opVars, serviceVars, threadVars
<1>15. ASSUME NEW c \in Clients, AcceptDone(c)
     PROVE  TypeOK'
  BY <1>15 DEF AcceptDone, PeerStep, opVars, serviceVars, mainVars, threadVars
<1>16. ASSUME NEW c \in Clients, ReadDone(c)
     PROVE  TypeOK'
  BY <1>16 DEF ReadDone, ReadResult, EndOp, acceptorVars, peerVars, serviceVars, mainVars,
     threadVars
<1>17. ASSUME NEW c \in Clients, WriteDone(c)
     PROVE  TypeOK'
  BY <1>17 DEF WriteDone, EndOp, acceptorVars, peerVars, serviceVars, mainVars, threadVars
<1>18. ASSUME NEW c \in Clients, OpFails(c)
     PROVE  TypeOK'
  BY <1>18 DEF OpFails, EndOp, acceptorVars, peerVars, serviceVars, mainVars, threadVars
<1>19. ASSUME NEW c \in Clients, Send(c)
     PROVE  TypeOK'
  BY <1>19 DEF Send, PeerStep, acceptorVars, opVars, serviceVars, mainVars, threadVars
<1>20. ASSUME NEW c \in Clients, Leave(c)
     PROVE  TypeOK'
  BY <1>20 DEF Leave, PeerStep, acceptorVars, opVars, serviceVars, mainVars, threadVars
<1>21. ASSUME NEW c \in Clients, Reset(c)
     PROVE  TypeOK'
  BY <1>21 DEF Reset, PeerStep, acceptorVars, opVars, serviceVars, mainVars, threadVars
<1>22. CASE AcceptFails
  BY <1>22 DEF AcceptFails, peerVars, opVars, serviceVars, mainVars, threadVars
<1>23. CASE UNCHANGED vars
  BY <1>23 DEF vars, acceptorVars, peerVars, opVars, serviceVars, mainVars, threadVars
<1>. QED
  BY <1>1, <1>2, <1>3, <1>4, <1>5, <1>6, <1>7, <1>8, <1>9, <1>10, <1>11, <1>12, <1>13,
     <1>14, <1>15, <1>16, <1>17, <1>18, <1>19, <1>20, <1>21, <1>22, <1>23 DEF Next,
     WorkerStep, Kernel, ClientStep

\* Only the thread in onAccept changes the acceptor while it runs.
LEMMA AcceptInvStep ==
  ASSUME TypeOK, AcceptInv, WorkInv, ServiceOwnedOnce, [Next]_vars
  PROVE  AcceptInv'
<1>. USE NoneAssumption, SendsAssumption, BoundAssumption, Callbacks DEF TypeOK, AcceptInv,
        ServiceOwnedOnce
<1>1. ASSUME NEW w \in Workers, onAccept(w)
     PROVE  AcceptInv'
  BY <1>1 DEF onAccept, Ready, Goto, peerVars, opVars, mainVars
<1>2. ASSUME NEW w \in Workers, onAcceptError(w)
     PROVE  AcceptInv'
  BY <1>2 DEF onAcceptError, Ready, Goto, peerVars, opVars, serviceVars, mainVars
<1>3. ASSUME NEW w \in Workers, start_handling(w)
     PROVE  AcceptInv'
  BY <1>3 DEF start_handling, Goto, acceptorVars, peerVars, serviceVars, mainVars
<1>4. ASSUME NEW w \in Workers, InitAccept(w)
     PROVE  AcceptInv'
  BY <1>4 DEF InitAccept, afterAccept, Goto, peerVars, opVars, serviceVars, mainVars
<1>5. ASSUME NEW w \in Workers, NEW c \in Clients, Take(w, c)
     PROVE  AcceptInv'
  <2>1. op[c] \in DOMAIN Callback
    BY <1>5 DEF Take, WorkInv
  <2>2. Callback[op[c]] \notin {"start_handling", "checkStopped"}
    BY <2>1
  <2>. QED
    BY <1>5, <2>2 DEF Take, Ready, Goto, acceptorVars, peerVars, serviceVars, mainVars
<1>6. ASSUME NEW w \in Workers, NEW c \in Clients, on_request_line_received(w, c)
     PROVE  AcceptInv'
  BY <1>6 DEF on_request_line_received, In, LineStatus, send_response, Begin, Goto,
     acceptorVars, peerVars, serviceVars, mainVars
<1>7. ASSUME NEW w \in Workers, NEW c \in Clients, on_headers_received(w, c)
     PROVE  AcceptInv'
  BY <1>7 DEF on_headers_received, In, send_response, Begin, Goto, acceptorVars, peerVars,
     mainVars
<1>8. ASSUME NEW w \in Workers, NEW c \in Clients, readError(w, c)
     PROVE  AcceptInv'
  BY <1>8 DEF readError, In, on_finish, Goto, acceptorVars, peerVars, mainVars
<1>9. ASSUME NEW w \in Workers, NEW c \in Clients, on_response_sent(w, c)
     PROVE  AcceptInv'
  BY <1>9 DEF on_response_sent, In, on_finish, Goto, acceptorVars, peerVars, mainVars
<1>10. ASSUME NEW w \in Workers, NEW c \in Clients, callbackThrows(w, c)
     PROVE  AcceptInv'
  BY <1>10 DEF callbackThrows, acceptorVars, peerVars, opVars, serviceVars, threadVars
<1>11. ASSUME NEW w \in Workers, runReturns(w)
     PROVE  AcceptInv'
  BY <1>11 DEF runReturns, Goto, acceptorVars, peerVars, opVars, serviceVars, mainVars
<1>12. CASE StopAcceptor
  BY <1>12 DEF StopAcceptor, peerVars, opVars, serviceVars, threadVars
<1>13. CASE StopContext
  BY <1>13 DEF StopContext, acceptorVars, peerVars, opVars, serviceVars, threadVars
<1>14. CASE joinAll
  BY <1>14 DEF joinAll, acceptorVars, peerVars, opVars, serviceVars, threadVars
<1>15. ASSUME NEW c \in Clients, AcceptDone(c)
     PROVE  AcceptInv'
  BY <1>15 DEF AcceptDone, PeerStep, opVars, serviceVars, mainVars, threadVars
<1>16. ASSUME NEW c \in Clients, ReadDone(c)
     PROVE  AcceptInv'
  BY <1>16 DEF ReadDone, ReadResult, EndOp, acceptorVars, peerVars, serviceVars, mainVars,
     threadVars
<1>17. ASSUME NEW c \in Clients, WriteDone(c)
     PROVE  AcceptInv'
  BY <1>17 DEF WriteDone, EndOp, acceptorVars, peerVars, serviceVars, mainVars, threadVars
<1>18. ASSUME NEW c \in Clients, OpFails(c)
     PROVE  AcceptInv'
  BY <1>18 DEF OpFails, EndOp, acceptorVars, peerVars, serviceVars, mainVars, threadVars
<1>19. ASSUME NEW c \in Clients, Send(c)
     PROVE  AcceptInv'
  BY <1>19 DEF Send, PeerStep, acceptorVars, opVars, serviceVars, mainVars, threadVars
<1>20. ASSUME NEW c \in Clients, Leave(c)
     PROVE  AcceptInv'
  BY <1>20 DEF Leave, PeerStep, acceptorVars, opVars, serviceVars, mainVars, threadVars
<1>21. ASSUME NEW c \in Clients, Reset(c)
     PROVE  AcceptInv'
  BY <1>21 DEF Reset, PeerStep, acceptorVars, opVars, serviceVars, mainVars, threadVars
<1>22. CASE AcceptFails
  BY <1>22 DEF AcceptFails, peerVars, opVars, serviceVars, mainVars, threadVars
<1>23. CASE UNCHANGED vars
  BY <1>23 DEF vars, acceptorVars, peerVars, opVars, serviceVars, mainVars, threadVars
<1>. QED
  BY <1>1, <1>2, <1>3, <1>4, <1>5, <1>6, <1>7, <1>8, <1>9, <1>10, <1>11, <1>12, <1>13,
     <1>14, <1>15, <1>16, <1>17, <1>18, <1>19, <1>20, <1>21, <1>22, <1>23 DEF Next,
     WorkerStep, Kernel, ClientStep

\* No operation of a Service is changed behind the back of its thread.
LEMMA WorkInvStep ==
  ASSUME TypeOK, AcceptInv, WorkInv, ServiceOwnedOnce, [Next]_vars
  PROVE  WorkInv'
<1>. USE NoneAssumption, SendsAssumption, BoundAssumption, Callbacks DEF TypeOK, AcceptInv,
        WorkInv, ServiceOwnedOnce
<1>1. ASSUME NEW w \in Workers, onAccept(w)
     PROVE  WorkInv'
  BY <1>1 DEF onAccept, Ready, Goto, peerVars, opVars, mainVars
<1>2. ASSUME NEW w \in Workers, onAcceptError(w)
     PROVE  WorkInv'
  BY <1>2 DEF onAcceptError, Ready, Goto, peerVars, opVars, serviceVars, mainVars
<1>3. ASSUME NEW w \in Workers, start_handling(w)
     PROVE  WorkInv'
  BY <1>3 DEF start_handling, Goto, acceptorVars, peerVars, serviceVars, mainVars
<1>4. ASSUME NEW w \in Workers, InitAccept(w)
     PROVE  WorkInv'
  BY <1>4 DEF InitAccept, afterAccept, Goto, peerVars, opVars, serviceVars, mainVars
<1>5. ASSUME NEW w \in Workers, NEW c \in Clients, Take(w, c)
     PROVE  WorkInv'
  BY <1>5 DEF Take, Ready, Goto, acceptorVars, peerVars, serviceVars, mainVars
<1>6. ASSUME NEW w \in Workers, NEW c \in Clients, on_request_line_received(w, c)
     PROVE  WorkInv'
  BY <1>6 DEF on_request_line_received, In, LineStatus, send_response, Begin, Goto,
     acceptorVars, peerVars, serviceVars, mainVars
<1>7. ASSUME NEW w \in Workers, NEW c \in Clients, on_headers_received(w, c)
     PROVE  WorkInv'
  BY <1>7 DEF on_headers_received, In, send_response, Begin, Goto, acceptorVars, peerVars,
     mainVars
<1>8. ASSUME NEW w \in Workers, NEW c \in Clients, readError(w, c)
     PROVE  WorkInv'
  BY <1>8 DEF readError, In, on_finish, Goto, acceptorVars, peerVars, mainVars
<1>9. ASSUME NEW w \in Workers, NEW c \in Clients, on_response_sent(w, c)
     PROVE  WorkInv'
  BY <1>9 DEF on_response_sent, In, on_finish, Goto, acceptorVars, peerVars, mainVars
<1>10. ASSUME NEW w \in Workers, NEW c \in Clients, callbackThrows(w, c)
     PROVE  WorkInv'
  BY <1>10 DEF callbackThrows, acceptorVars, peerVars, opVars, serviceVars, threadVars
<1>11. ASSUME NEW w \in Workers, runReturns(w)
     PROVE  WorkInv'
  BY <1>11 DEF runReturns, Goto, acceptorVars, peerVars, opVars, serviceVars, mainVars
<1>12. CASE StopAcceptor
  BY <1>12 DEF StopAcceptor, peerVars, opVars, serviceVars, threadVars
<1>13. CASE StopContext
  BY <1>13 DEF StopContext, acceptorVars, peerVars, opVars, serviceVars, threadVars
<1>14. CASE joinAll
  BY <1>14 DEF joinAll, acceptorVars, peerVars, opVars, serviceVars, threadVars
<1>15. ASSUME NEW c \in Clients, AcceptDone(c)
     PROVE  WorkInv'
  BY <1>15 DEF AcceptDone, PeerStep, opVars, serviceVars, mainVars, threadVars
<1>16. ASSUME NEW c \in Clients, ReadDone(c)
     PROVE  WorkInv'
  BY <1>16 DEF ReadDone, ReadResult, EndOp, acceptorVars, peerVars, serviceVars, mainVars,
     threadVars
<1>17. ASSUME NEW c \in Clients, WriteDone(c)
     PROVE  WorkInv'
  BY <1>17 DEF WriteDone, EndOp, acceptorVars, peerVars, serviceVars, mainVars, threadVars
<1>18. ASSUME NEW c \in Clients, OpFails(c)
     PROVE  WorkInv'
  BY <1>18 DEF OpFails, EndOp, acceptorVars, peerVars, serviceVars, mainVars, threadVars
<1>19. ASSUME NEW c \in Clients, Send(c)
     PROVE  WorkInv'
  BY <1>19 DEF Send, PeerStep, acceptorVars, opVars, serviceVars, mainVars, threadVars
<1>20. ASSUME NEW c \in Clients, Leave(c)
     PROVE  WorkInv'
  BY <1>20 DEF Leave, PeerStep, acceptorVars, opVars, serviceVars, mainVars, threadVars
<1>21. ASSUME NEW c \in Clients, Reset(c)
     PROVE  WorkInv'
  BY <1>21 DEF Reset, PeerStep, acceptorVars, opVars, serviceVars, mainVars, threadVars
<1>22. CASE AcceptFails
  BY <1>22 DEF AcceptFails, peerVars, opVars, serviceVars, mainVars, threadVars
<1>23. CASE UNCHANGED vars
  BY <1>23 DEF vars, acceptorVars, peerVars, opVars, serviceVars, mainVars, threadVars
<1>. QED
  BY <1>1, <1>2, <1>3, <1>4, <1>5, <1>6, <1>7, <1>8, <1>9, <1>10, <1>11, <1>12, <1>13,
     <1>14, <1>15, <1>16, <1>17, <1>18, <1>19, <1>20, <1>21, <1>22, <1>23 DEF Next,
     WorkerStep, Kernel, ClientStep

\* The callback that is taken, or the Service that is made, is nobody else's.
LEMMA OwnedOnceStep ==
  ASSUME TypeOK, AcceptInv, WorkInv, ServiceOwnedOnce, [Next]_vars
  PROVE  ServiceOwnedOnce'
<1>. USE NoneAssumption, SendsAssumption, BoundAssumption, Callbacks DEF TypeOK, AcceptInv,
        WorkInv, ServiceOwnedOnce
<1>1. ASSUME NEW w \in Workers, onAccept(w)
     PROVE  ServiceOwnedOnce'
  BY <1>1 DEF onAccept, Ready, Goto, peerVars, opVars, mainVars
<1>2. ASSUME NEW w \in Workers, onAcceptError(w)
     PROVE  ServiceOwnedOnce'
  BY <1>2 DEF onAcceptError, Ready, Goto, peerVars, opVars, serviceVars, mainVars
<1>3. ASSUME NEW w \in Workers, start_handling(w)
     PROVE  ServiceOwnedOnce'
  BY <1>3 DEF start_handling, Goto, acceptorVars, peerVars, serviceVars, mainVars
<1>4. ASSUME NEW w \in Workers, InitAccept(w)
     PROVE  ServiceOwnedOnce'
  BY <1>4 DEF InitAccept, afterAccept, Goto, peerVars, opVars, serviceVars, mainVars
<1>5. ASSUME NEW w \in Workers, NEW c \in Clients, Take(w, c)
     PROVE  ServiceOwnedOnce'
  BY <1>5 DEF Take, Ready, Goto, acceptorVars, peerVars, serviceVars, mainVars
<1>6. ASSUME NEW w \in Workers, NEW c \in Clients, on_request_line_received(w, c)
     PROVE  ServiceOwnedOnce'
  BY <1>6 DEF on_request_line_received, In, LineStatus, send_response, Begin, Goto,
     acceptorVars, peerVars, serviceVars, mainVars
<1>7. ASSUME NEW w \in Workers, NEW c \in Clients, on_headers_received(w, c)
     PROVE  ServiceOwnedOnce'
  BY <1>7 DEF on_headers_received, In, send_response, Begin, Goto, acceptorVars, peerVars,
     mainVars
<1>8. ASSUME NEW w \in Workers, NEW c \in Clients, readError(w, c)
     PROVE  ServiceOwnedOnce'
  BY <1>8 DEF readError, In, on_finish, Goto, acceptorVars, peerVars, mainVars
<1>9. ASSUME NEW w \in Workers, NEW c \in Clients, on_response_sent(w, c)
     PROVE  ServiceOwnedOnce'
  BY <1>9 DEF on_response_sent, In, on_finish, Goto, acceptorVars, peerVars, mainVars
<1>10. ASSUME NEW w \in Workers, NEW c \in Clients, callbackThrows(w, c)
     PROVE  ServiceOwnedOnce'
  BY <1>10 DEF callbackThrows, acceptorVars, peerVars, opVars, serviceVars, threadVars
<1>11. ASSUME NEW w \in Workers, runReturns(w)
     PROVE  ServiceOwnedOnce'
  BY <1>11 DEF runReturns, Goto, acceptorVars, peerVars, opVars, serviceVars, mainVars
<1>12. CASE StopAcceptor
  BY <1>12 DEF StopAcceptor, peerVars, opVars, serviceVars, threadVars
<1>13. CASE StopContext
  BY <1>13 DEF StopContext, acceptorVars, peerVars, opVars, serviceVars, threadVars
<1>14. CASE joinAll
  BY <1>14 DEF joinAll, acceptorVars, peerVars, opVars, serviceVars, threadVars
<1>15. ASSUME NEW c \in Clients, AcceptDone(c)
     PROVE  ServiceOwnedOnce'
  BY <1>15 DEF AcceptDone, PeerStep, opVars, serviceVars, mainVars, threadVars
<1>16. ASSUME NEW c \in Clients, ReadDone(c)
     PROVE  ServiceOwnedOnce'
  BY <1>16 DEF ReadDone, ReadResult, EndOp, acceptorVars, peerVars, serviceVars, mainVars,
     threadVars
<1>17. ASSUME NEW c \in Clients, WriteDone(c)
     PROVE  ServiceOwnedOnce'
  BY <1>17 DEF WriteDone, EndOp, acceptorVars, peerVars, serviceVars, mainVars, threadVars
<1>18. ASSUME NEW c \in Clients, OpFails(c)
     PROVE  ServiceOwnedOnce'
  BY <1>18 DEF OpFails, EndOp, acceptorVars, peerVars, serviceVars, mainVars, threadVars
<1>19. ASSUME NEW c \in Clients, Send(c)
     PROVE  ServiceOwnedOnce'
  BY <1>19 DEF Send, PeerStep, acceptorVars, opVars, serviceVars, mainVars, threadVars
<1>20. ASSUME NEW c \in Clients, Leave(c)
     PROVE  ServiceOwnedOnce'
  BY <1>20 DEF Leave, PeerStep, acceptorVars, opVars, serviceVars, mainVars, threadVars
<1>21. ASSUME NEW c \in Clients, Reset(c)
     PROVE  ServiceOwnedOnce'
  BY <1>21 DEF Reset, PeerStep, acceptorVars, opVars, serviceVars, mainVars, threadVars
<1>22. CASE AcceptFails
  BY <1>22 DEF AcceptFails, peerVars, opVars, serviceVars, mainVars, threadVars
<1>23. CASE UNCHANGED vars
  BY <1>23 DEF vars, acceptorVars, peerVars, opVars, serviceVars, mainVars, threadVars
<1>. QED
  BY <1>1, <1>2, <1>3, <1>4, <1>5, <1>6, <1>7, <1>8, <1>9, <1>10, <1>11, <1>12, <1>13,
     <1>14, <1>15, <1>16, <1>17, <1>18, <1>19, <1>20, <1>21, <1>22, <1>23 DEF Next,
     WorkerStep, Kernel, ClientStep

\* What a read found stays true, since a request is sent once.
LEMMA RequestInvStep ==
  ASSUME TypeOK, WorkInv, ServiceOwnedOnce, RequestInv, [Next]_vars
  PROVE  RequestInv'
<1>. USE NoneAssumption, SendsAssumption, BoundAssumption, Callbacks DEF TypeOK, WorkInv,
        ServiceOwnedOnce, RequestInv, Kinds
<1>1. ASSUME NEW w \in Workers, onAccept(w)
     PROVE  RequestInv'
  BY <1>1 DEF onAccept, Ready, Goto, peerVars, opVars, mainVars
<1>2. ASSUME NEW w \in Workers, onAcceptError(w)
     PROVE  RequestInv'
  BY <1>2 DEF onAcceptError, Ready, Goto, peerVars, opVars, serviceVars, mainVars
<1>3. ASSUME NEW w \in Workers, start_handling(w)
     PROVE  RequestInv'
  BY <1>3 DEF start_handling, Goto, acceptorVars, peerVars, serviceVars, mainVars
<1>4. ASSUME NEW w \in Workers, InitAccept(w)
     PROVE  RequestInv'
  BY <1>4 DEF InitAccept, afterAccept, Goto, peerVars, opVars, serviceVars, mainVars
<1>5. ASSUME NEW w \in Workers, NEW c \in Clients, Take(w, c)
     PROVE  RequestInv'
  BY <1>5 DEF Take, Ready, Goto, acceptorVars, peerVars, serviceVars, mainVars
<1>6. ASSUME NEW w \in Workers, NEW c \in Clients, on_request_line_received(w, c)
     PROVE  RequestInv'
  BY <1>6, LineReceived DEF Begin, Goto, peerVars
<1>7. ASSUME NEW w \in Workers, NEW c \in Clients, on_headers_received(w, c)
     PROVE  RequestInv'
  BY <1>7, HeadersReceived DEF Begin, Goto, peerVars
<1>8. ASSUME NEW w \in Workers, NEW c \in Clients, readError(w, c)
     PROVE  RequestInv'
  BY <1>8 DEF readError, In, on_finish, Goto, acceptorVars, peerVars, mainVars
<1>9. ASSUME NEW w \in Workers, NEW c \in Clients, on_response_sent(w, c)
     PROVE  RequestInv'
  BY <1>9 DEF on_response_sent, In, on_finish, Goto, acceptorVars, peerVars, mainVars
<1>10. ASSUME NEW w \in Workers, NEW c \in Clients, callbackThrows(w, c)
     PROVE  RequestInv'
  BY <1>10 DEF callbackThrows, acceptorVars, peerVars, opVars, serviceVars, threadVars
<1>11. ASSUME NEW w \in Workers, runReturns(w)
     PROVE  RequestInv'
  BY <1>11 DEF runReturns, Goto, acceptorVars, peerVars, opVars, serviceVars, mainVars
<1>12. CASE StopAcceptor
  BY <1>12 DEF StopAcceptor, peerVars, opVars, serviceVars, threadVars
<1>13. CASE StopContext
  BY <1>13 DEF StopContext, acceptorVars, peerVars, opVars, serviceVars, threadVars
<1>14. CASE joinAll
  BY <1>14 DEF joinAll, acceptorVars, peerVars, opVars, serviceVars, threadVars
<1>15. ASSUME NEW c \in Clients, AcceptDone(c)
     PROVE  RequestInv'
  BY <1>15 DEF AcceptDone, PeerStep, opVars, serviceVars, mainVars, threadVars
<1>16. ASSUME NEW c \in Clients, ReadDone(c)
     PROVE  RequestInv'
  <2>1. request[c] \in Kinds
    BY <1>16 DEF ReadDone
  <2>. QED
    BY <1>16, <2>1 DEF ReadDone, ReadResult, EndOp, acceptorVars, peerVars, serviceVars,
       mainVars, threadVars
<1>17. ASSUME NEW c \in Clients, WriteDone(c)
     PROVE  RequestInv'
  BY <1>17 DEF WriteDone, EndOp, acceptorVars, peerVars, serviceVars, mainVars, threadVars
<1>18. ASSUME NEW c \in Clients, OpFails(c)
     PROVE  RequestInv'
  BY <1>18 DEF OpFails, EndOp, acceptorVars, peerVars, serviceVars, mainVars, threadVars
<1>19. ASSUME NEW c \in Clients, Send(c)
     PROVE  RequestInv'
  BY <1>19 DEF Send, PeerStep, acceptorVars, opVars, serviceVars, mainVars, threadVars
<1>20. ASSUME NEW c \in Clients, Leave(c)
     PROVE  RequestInv'
  BY <1>20 DEF Leave, PeerStep, acceptorVars, opVars, serviceVars, mainVars, threadVars
<1>21. ASSUME NEW c \in Clients, Reset(c)
     PROVE  RequestInv'
  BY <1>21 DEF Reset, PeerStep, acceptorVars, opVars, serviceVars, mainVars, threadVars
<1>22. CASE AcceptFails
  BY <1>22 DEF AcceptFails, peerVars, opVars, serviceVars, mainVars, threadVars
<1>23. CASE UNCHANGED vars
  BY <1>23 DEF vars, acceptorVars, peerVars, opVars, serviceVars, mainVars, threadVars
<1>. QED
  BY <1>1, <1>2, <1>3, <1>4, <1>5, <1>6, <1>7, <1>8, <1>9, <1>10, <1>11, <1>12, <1>13,
     <1>14, <1>15, <1>16, <1>17, <1>18, <1>19, <1>20, <1>21, <1>22, <1>23 DEF Next,
     WorkerStep, Kernel, ClientStep

\* A response is counted when its write has ended well, and only a client that
\* leaves or resets makes an operation fail.
LEMMA AnswerInvStep ==
  ASSUME TypeOK, AcceptInv, WorkInv, ServiceOwnedOnce, RequestInv, AnswerInv, [Next]_vars
  PROVE  AnswerInv'
<1>. USE NoneAssumption, SendsAssumption, BoundAssumption, Callbacks DEF TypeOK, AcceptInv,
        WorkInv, ServiceOwnedOnce, RequestInv, AnswerInv
<1>1. ASSUME NEW w \in Workers, onAccept(w)
     PROVE  AnswerInv'
  BY <1>1 DEF onAccept, Ready, Goto, peerVars, opVars, mainVars
<1>2. ASSUME NEW w \in Workers, onAcceptError(w)
     PROVE  AnswerInv'
  BY <1>2 DEF onAcceptError, Ready, Goto, peerVars, opVars, serviceVars, mainVars
<1>3. ASSUME NEW w \in Workers, start_handling(w)
     PROVE  AnswerInv'
  BY <1>3 DEF start_handling, Goto, acceptorVars, peerVars, serviceVars, mainVars
<1>4. ASSUME NEW w \in Workers, InitAccept(w)
     PROVE  AnswerInv'
  BY <1>4 DEF InitAccept, afterAccept, Goto, peerVars, opVars, serviceVars, mainVars
<1>5. ASSUME NEW w \in Workers, NEW c \in Clients, Take(w, c)
     PROVE  AnswerInv'
  BY <1>5 DEF Take, Ready, Goto, acceptorVars, peerVars, serviceVars, mainVars
<1>6. ASSUME NEW w \in Workers, NEW c \in Clients, on_request_line_received(w, c)
     PROVE  AnswerInv'
  <2>1. /\ answers[c] = 0 /\ response[c] = None /\ op[c] = "readLine" /\ at[w] = c
        /\ status' = [status EXCEPT ![c] = "pending"]
        /\ result' = [result EXCEPT ![c] = "success"]
        /\ UNCHANGED <<client, request, service, answers>>
    BY <1>6, LineReceived DEF Begin, peerVars
  <2>2. CASE request[c] \in {"longLine", "notGET", "badVersion"}
    <3>1. /\ op' = [op EXCEPT ![c] = "write"]
          /\ request[c] \in Kinds
      BY <1>6, <2>2, LineReceived DEF Kinds
    <3>2. PICK resp \in Expected(request[c]) : response' = [response EXCEPT ![c] = resp]
      BY <1>6, <2>2, LineReceived
    <3>3. resp # None
      BY <3>1, ExpectedResponses
    <3>. QED
      BY <2>1, <3>1, <3>2, <3>3
  <2>3. CASE request[c] \notin {"longLine", "notGET", "badVersion"}
    <3>1. op' = [op EXCEPT ![c] = "readHeaders"] /\ UNCHANGED response
      BY <1>6, <2>3, LineReceived
    <3>. QED
      BY <2>1, <3>1
  <2>. QED
    BY <2>2, <2>3
<1>7. ASSUME NEW w \in Workers, NEW c \in Clients, on_headers_received(w, c)
     PROVE  AnswerInv'
  <2>1. PICK resp \in Expected(request[c]) : response' = [response EXCEPT ![c] = resp]
    BY <1>7, HeadersReceived
  <2>2. resp # None
    BY <1>7, HeadersReceived, ExpectedResponses
  <2>. QED
    BY <1>7, <2>1, <2>2, HeadersReceived DEF Begin, Goto, peerVars
<1>8. ASSUME NEW w \in Workers, NEW c \in Clients, readError(w, c)
     PROVE  AnswerInv'
  BY <1>8 DEF readError, In, on_finish, Goto, acceptorVars, peerVars, mainVars
<1>9. ASSUME NEW w \in Workers, NEW c \in Clients, on_response_sent(w, c)
     PROVE  AnswerInv'
  BY <1>9 DEF on_response_sent, In, on_finish, Goto, acceptorVars, peerVars, mainVars
<1>10. ASSUME NEW w \in Workers, NEW c \in Clients, callbackThrows(w, c)
     PROVE  AnswerInv'
  BY <1>10 DEF callbackThrows, acceptorVars, peerVars, opVars, serviceVars, threadVars
<1>11. ASSUME NEW w \in Workers, runReturns(w)
     PROVE  AnswerInv'
  BY <1>11 DEF runReturns, Goto, acceptorVars, peerVars, opVars, serviceVars, mainVars
<1>12. CASE StopAcceptor
  BY <1>12 DEF StopAcceptor, peerVars, opVars, serviceVars, threadVars
<1>13. CASE StopContext
  BY <1>13 DEF StopContext, acceptorVars, peerVars, opVars, serviceVars, threadVars
<1>14. CASE joinAll
  BY <1>14 DEF joinAll, acceptorVars, peerVars, opVars, serviceVars, threadVars
<1>15. ASSUME NEW c \in Clients, AcceptDone(c)
     PROVE  AnswerInv'
  BY <1>15 DEF AcceptDone, PeerStep, opVars, serviceVars, mainVars, threadVars
<1>16. ASSUME NEW c \in Clients, ReadDone(c)
     PROVE  AnswerInv'
  BY <1>16 DEF ReadDone, ReadResult, EndOp, acceptorVars, peerVars, serviceVars, mainVars,
     threadVars
<1>17. ASSUME NEW c \in Clients, WriteDone(c)
     PROVE  AnswerInv'
  BY <1>17 DEF WriteDone, EndOp, acceptorVars, peerVars, serviceVars, mainVars, threadVars
<1>18. ASSUME NEW c \in Clients, OpFails(c)
     PROVE  AnswerInv'
  BY <1>18 DEF OpFails, EndOp, acceptorVars, peerVars, serviceVars, mainVars, threadVars
<1>19. ASSUME NEW c \in Clients, Send(c)
     PROVE  AnswerInv'
  BY <1>19 DEF Send, PeerStep, acceptorVars, opVars, serviceVars, mainVars, threadVars
<1>20. ASSUME NEW c \in Clients, Leave(c)
     PROVE  AnswerInv'
  BY <1>20 DEF Leave, PeerStep, acceptorVars, opVars, serviceVars, mainVars, threadVars
<1>21. ASSUME NEW c \in Clients, Reset(c)
     PROVE  AnswerInv'
  BY <1>21 DEF Reset, PeerStep, acceptorVars, opVars, serviceVars, mainVars, threadVars
<1>22. CASE AcceptFails
  BY <1>22 DEF AcceptFails, peerVars, opVars, serviceVars, mainVars, threadVars
<1>23. CASE UNCHANGED vars
  BY <1>23 DEF vars, acceptorVars, peerVars, opVars, serviceVars, mainVars, threadVars
<1>. QED
  BY <1>1, <1>2, <1>3, <1>4, <1>5, <1>6, <1>7, <1>8, <1>9, <1>10, <1>11, <1>12, <1>13,
     <1>14, <1>15, <1>16, <1>17, <1>18, <1>19, <1>20, <1>21, <1>22, <1>23 DEF Next,
     WorkerStep, Kernel, ClientStep

\* A response is decided on once, for a request that does not change any more;
\* a Service that answered nothing is deleted only after an error.
LEMMA FitsStep ==
  ASSUME TypeOK, WorkInv, ServiceOwnedOnce, RequestInv, AnswerInv, ResponseFitsRequest,
     [Next]_vars
  PROVE  ResponseFitsRequest'
<1>. USE NoneAssumption, SendsAssumption, BoundAssumption, Callbacks DEF TypeOK, WorkInv,
        ServiceOwnedOnce, RequestInv, AnswerInv, ResponseFitsRequest
<1>1. ASSUME NEW w \in Workers, onAccept(w)
     PROVE  ResponseFitsRequest'
  BY <1>1 DEF onAccept, Ready, Goto, peerVars, opVars, mainVars
<1>2. ASSUME NEW w \in Workers, onAcceptError(w)
     PROVE  ResponseFitsRequest'
  BY <1>2 DEF onAcceptError, Ready, Goto, peerVars, opVars, serviceVars, mainVars
<1>3. ASSUME NEW w \in Workers, start_handling(w)
     PROVE  ResponseFitsRequest'
  BY <1>3 DEF start_handling, Goto, acceptorVars, peerVars, serviceVars, mainVars
<1>4. ASSUME NEW w \in Workers, InitAccept(w)
     PROVE  ResponseFitsRequest'
  BY <1>4 DEF InitAccept, afterAccept, Goto, peerVars, opVars, serviceVars, mainVars
<1>5. ASSUME NEW w \in Workers, NEW c \in Clients, Take(w, c)
     PROVE  ResponseFitsRequest'
  BY <1>5 DEF Take, Ready, Goto, acceptorVars, peerVars, serviceVars, mainVars
<1>6. ASSUME NEW w \in Workers, NEW c \in Clients, on_request_line_received(w, c)
     PROVE  ResponseFitsRequest'
  <2>1. UNCHANGED <<peerVars, service, answers>>
    BY <1>6, LineReceived
  <2>2. CASE UNCHANGED response
    BY <2>1, <2>2 DEF peerVars
  <2>3. CASE \E resp \in Expected(request[c]) : response' = [response EXCEPT ![c] = resp]
    <3>1. PICK resp \in Expected(request[c]) : response' = [response EXCEPT ![c] = resp]
      BY <2>3
    <3>2. request[c] \in Kinds /\ at[w] = c /\ pc[w] = "on_request_line_received"
      BY <1>6, LineReceived DEF Kinds
    <3>. QED
      BY <2>1, <3>1, <3>2 DEF peerVars
  <2>. QED
    BY <1>6, <2>2, <2>3, LineReceived
<1>7. ASSUME NEW w \in Workers, NEW c \in Clients, on_headers_received(w, c)
     PROVE  ResponseFitsRequest'
  <2>1. UNCHANGED <<peerVars, service, answers>>
    BY <1>7, HeadersReceived
  <2>2. PICK resp \in Expected(request[c]) : response' = [response EXCEPT ![c] = resp]
    BY <1>7, HeadersReceived
  <2>. QED
    BY <1>7, <2>1, <2>2, HeadersReceived DEF peerVars
<1>8. ASSUME NEW w \in Workers, NEW c \in Clients, readError(w, c)
     PROVE  ResponseFitsRequest'
  BY <1>8 DEF readError, In, on_finish, Goto, acceptorVars, peerVars, mainVars
<1>9. ASSUME NEW w \in Workers, NEW c \in Clients, on_response_sent(w, c)
     PROVE  ResponseFitsRequest'
  BY <1>9 DEF on_response_sent, In, on_finish, Goto, acceptorVars, peerVars, mainVars
<1>10. ASSUME NEW w \in Workers, NEW c \in Clients, callbackThrows(w, c)
     PROVE  ResponseFitsRequest'
  BY <1>10 DEF callbackThrows, acceptorVars, peerVars, opVars, serviceVars, threadVars
<1>11. ASSUME NEW w \in Workers, runReturns(w)
     PROVE  ResponseFitsRequest'
  BY <1>11 DEF runReturns, Goto, acceptorVars, peerVars, opVars, serviceVars, mainVars
<1>12. CASE StopAcceptor
  BY <1>12 DEF StopAcceptor, peerVars, opVars, serviceVars, threadVars
<1>13. CASE StopContext
  BY <1>13 DEF StopContext, acceptorVars, peerVars, opVars, serviceVars, threadVars
<1>14. CASE joinAll
  BY <1>14 DEF joinAll, acceptorVars, peerVars, opVars, serviceVars, threadVars
<1>15. ASSUME NEW c \in Clients, AcceptDone(c)
     PROVE  ResponseFitsRequest'
  BY <1>15 DEF AcceptDone, PeerStep, opVars, serviceVars, mainVars, threadVars
<1>16. ASSUME NEW c \in Clients, ReadDone(c)
     PROVE  ResponseFitsRequest'
  BY <1>16 DEF ReadDone, ReadResult, EndOp, acceptorVars, peerVars, serviceVars, mainVars,
     threadVars
<1>17. ASSUME NEW c \in Clients, WriteDone(c)
     PROVE  ResponseFitsRequest'
  BY <1>17 DEF WriteDone, EndOp, acceptorVars, peerVars, serviceVars, mainVars, threadVars
<1>18. ASSUME NEW c \in Clients, OpFails(c)
     PROVE  ResponseFitsRequest'
  BY <1>18 DEF OpFails, EndOp, acceptorVars, peerVars, serviceVars, mainVars, threadVars
<1>19. ASSUME NEW c \in Clients, Send(c)
     PROVE  ResponseFitsRequest'
  BY <1>19 DEF Send, PeerStep, acceptorVars, opVars, serviceVars, mainVars, threadVars
<1>20. ASSUME NEW c \in Clients, Leave(c)
     PROVE  ResponseFitsRequest'
  BY <1>20 DEF Leave, PeerStep, acceptorVars, opVars, serviceVars, mainVars, threadVars
<1>21. ASSUME NEW c \in Clients, Reset(c)
     PROVE  ResponseFitsRequest'
  BY <1>21 DEF Reset, PeerStep, acceptorVars, opVars, serviceVars, mainVars, threadVars
<1>22. CASE AcceptFails
  BY <1>22 DEF AcceptFails, peerVars, opVars, serviceVars, mainVars, threadVars
<1>23. CASE UNCHANGED vars
  BY <1>23 DEF vars, acceptorVars, peerVars, opVars, serviceVars, mainVars, threadVars
<1>. QED
  BY <1>1, <1>2, <1>3, <1>4, <1>5, <1>6, <1>7, <1>8, <1>9, <1>10, <1>11, <1>12, <1>13,
     <1>14, <1>15, <1>16, <1>17, <1>18, <1>19, <1>20, <1>21, <1>22, <1>23 DEF Next,
     WorkerStep, Kernel, ClientStep

\* Only a callback for a reset connection, a directory or a bad path ends the
\* program, and neither is taken back.
LEMMA TerminatedStep ==
  ASSUME TypeOK, WorkInv, ServiceOwnedOnce, RequestInv, TerminatedOnlyByClient, [Next]_vars
  PROVE  TerminatedOnlyByClient'
<1>. USE Callbacks DEF TypeOK, TerminatedOnlyByClient
<1>1. ASSUME NEW w \in Workers, onAccept(w)
     PROVE  TerminatedOnlyByClient'
  BY <1>1 DEF onAccept, Ready, Goto, peerVars, opVars, mainVars
<1>2. ASSUME NEW w \in Workers, onAcceptError(w)
     PROVE  TerminatedOnlyByClient'
  BY <1>2 DEF onAcceptError, Ready, Goto, peerVars, opVars, serviceVars, mainVars
<1>3. ASSUME NEW w \in Workers, start_handling(w)
     PROVE  TerminatedOnlyByClient'
  BY <1>3 DEF start_handling, Goto, acceptorVars, peerVars, serviceVars, mainVars
<1>4. ASSUME NEW w \in Workers, InitAccept(w)
     PROVE  TerminatedOnlyByClient'
  BY <1>4 DEF InitAccept, afterAccept, Goto, peerVars, opVars, serviceVars, mainVars
<1>5. ASSUME NEW w \in Workers, NEW c \in Clients, Take(w, c)
     PROVE  TerminatedOnlyByClient'
  BY <1>5 DEF Take, Ready, Goto, acceptorVars, peerVars, serviceVars, mainVars
<1>6. ASSUME NEW w \in Workers, NEW c \in Clients, on_request_line_received(w, c)
     PROVE  TerminatedOnlyByClient'
  <2>1. UNCHANGED <<peerVars, mainVars>>
    BY <1>6, LineReceived
  <2>. QED
    BY <2>1 DEF peerVars, mainVars
<1>7. ASSUME NEW w \in Workers, NEW c \in Clients, on_headers_received(w, c)
     PROVE  TerminatedOnlyByClient'
  <2>1. UNCHANGED <<peerVars, mainVars>>
    BY <1>7, HeadersReceived
  <2>. QED
    BY <2>1 DEF peerVars, mainVars
<1>8. ASSUME NEW w \in Workers, NEW c \in Clients, readError(w, c)
     PROVE  TerminatedOnlyByClient'
  BY <1>8 DEF readError, In, on_finish, Goto, acceptorVars, peerVars, mainVars
<1>9. ASSUME NEW w \in Workers, NEW c \in Clients, on_response_sent(w, c)
     PROVE  TerminatedOnlyByClient'
  BY <1>9 DEF on_response_sent, In, on_finish, Goto, acceptorVars, peerVars, mainVars
<1>10. ASSUME NEW w \in Workers, NEW c \in Clients, callbackThrows(w, c)
     PROVE  TerminatedOnlyByClient'
  BY <1>10 DEF callbackThrows, resourceThrows, acceptorVars, peerVars, opVars, serviceVars, threadVars
<1>11. ASSUME NEW w \in Workers, runReturns(w)
     PROVE  TerminatedOnlyByClient'
  BY <1>11 DEF runReturns, Goto, acceptorVars, peerVars, opVars, serviceVars, mainVars
<1>12. CASE StopAcceptor
  BY <1>12 DEF StopAcceptor, peerVars, opVars, serviceVars, threadVars
<1>13. CASE StopContext
  BY <1>13 DEF StopContext, acceptorVars, peerVars, opVars, serviceVars, threadVars
<1>14. CASE joinAll
  BY <1>14 DEF joinAll, acceptorVars, peerVars, opVars, serviceVars, threadVars
<1>15. ASSUME NEW c \in Clients, AcceptDone(c)
     PROVE  TerminatedOnlyByClient'
  BY <1>15 DEF AcceptDone, PeerStep, opVars, serviceVars, mainVars, threadVars
<1>16. ASSUME NEW c \in Clients, ReadDone(c)
     PROVE  TerminatedOnlyByClient'
  BY <1>16 DEF ReadDone, ReadResult, EndOp, acceptorVars, peerVars, serviceVars, mainVars,
     threadVars
<1>17. ASSUME NEW c \in Clients, WriteDone(c)
     PROVE  TerminatedOnlyByClient'
  BY <1>17 DEF WriteDone, EndOp, acceptorVars, peerVars, serviceVars, mainVars, threadVars
<1>18. ASSUME NEW c \in Clients, OpFails(c)
     PROVE  TerminatedOnlyByClient'
  BY <1>18 DEF OpFails, EndOp, acceptorVars, peerVars, serviceVars, mainVars, threadVars
<1>19. ASSUME NEW c \in Clients, Send(c)
     PROVE  TerminatedOnlyByClient'
  <2>1. request[c] \notin {"directory", "badPath"} /\ client[c] # "reset"
    BY <1>19, NoneAssumption DEF Send, PeerStep, RequestInv, Kinds
  <2>2. /\ \A d \in Clients \ {c} : client'[d] = client[d] /\ request'[d] = request[d]
        /\ UNCHANGED main
    BY <1>19 DEF Send, PeerStep, mainVars
  <2>. QED
    BY <2>1, <2>2
<1>20. ASSUME NEW c \in Clients, Leave(c)
     PROVE  TerminatedOnlyByClient'
  BY <1>20 DEF Leave, PeerStep, acceptorVars, opVars, serviceVars, mainVars, threadVars
<1>21. ASSUME NEW c \in Clients, Reset(c)
     PROVE  TerminatedOnlyByClient'
  BY <1>21 DEF Reset, PeerStep, acceptorVars, opVars, serviceVars, mainVars, threadVars
<1>22. CASE AcceptFails
  BY <1>22 DEF AcceptFails, peerVars, opVars, serviceVars, mainVars, threadVars
<1>23. CASE UNCHANGED vars
  BY <1>23 DEF vars, acceptorVars, peerVars, opVars, serviceVars, mainVars, threadVars
<1>. QED
  BY <1>1, <1>2, <1>3, <1>4, <1>5, <1>6, <1>7, <1>8, <1>9, <1>10, <1>11, <1>12, <1>13,
     <1>14, <1>15, <1>16, <1>17, <1>18, <1>19, <1>20, <1>21, <1>22, <1>23 DEF Next,
     WorkerStep, Kernel, ClientStep

-----------------------------------------------------------------------------
(* The refinement of RequestResponse.                                      *)

\* A callback that sets the status of the response, or leaves it open, is
\* the arrival of the request, or not seen.
LEMMA ReceiveStep ==
  ASSUME TypeOK, NEW c \in Clients, Conn(c) = "open", response[c] = None,
         UNCHANGED <<service, answers>>,
         \/ UNCHANGED response
         \/ /\ request[c] \in Kinds
            /\ \E resp \in Expected(request[c]) : response' = [response EXCEPT ![c] = resp]
  PROVE  [Abstract!Next]_(Abstract!vars)
<1>1. UNCHANGED [d \in Clients |-> Conn(d)]
  BY DEF Conn
<1>2. CASE UNCHANGED response
  BY <1>1, <1>2 DEF Abstract!vars
<1>3. CASE /\ request[c] \in Kinds
           /\ \E resp \in Expected(request[c]) : response' = [response EXCEPT ![c] = resp]
  <2>1. PICK resp \in Expected(request[c]) : response' = [response EXCEPT ![c] = resp]
    BY <1>3
  <2>2. resp # None
    BY <1>3, ExpectedResponses
  <2>3. [d \in Clients |-> response[d] # None]'
          = [[d \in Clients |-> response[d] # None] EXCEPT ![c] = TRUE]
    BY <2>1, <2>2 DEF TypeOK
  <2>4. Abstract!Receive(c)
    BY <1>1, <2>3 DEF Abstract!Receive
  <2>. QED
    BY <2>4 DEF Abstract!Next
<1>. QED
  BY <1>2, <1>3

\* on_finish closes the connection.
LEMMA CloseStep ==
  ASSUME IInv, NEW w \in Workers, NEW c \in Clients, on_finish(w, c),
         \E o \in DOMAIN Callback : In(w, c, o)
  PROVE  [Abstract!Next]_(Abstract!vars)
<1>1. Conn(c) = "open"
  BY Callbacks DEF In, IInv, ServiceOwnedOnce, Conn
<1>2. \A d \in Clients : Conn(d)' = IF d = c THEN "closed" ELSE Conn(d)
  BY DEF on_finish, IInv, TypeOK, Conn
<1>3. [d \in Clients |-> Conn(d)]' = [[d \in Clients |-> Conn(d)] EXCEPT ![c] = "closed"]
  BY <1>2
<1>4. Abstract!Close(c)
  BY <1>1, <1>3 DEF on_finish, Abstract!Close
<1>. QED
  BY <1>4 DEF Abstract!Next

\* Accepting opens, the callback that decides on a status receives, the end of
\* the write answers, on_finish closes; no other step is seen.
LEMMA AbstractStep ==
  ASSUME IInv, [Next]_vars
  PROVE  [Abstract!Next]_(Abstract!vars)
<1>. USE NoneAssumption
<1>1. ASSUME NEW w \in Workers, onAccept(w)
     PROVE  [Abstract!Next]_(Abstract!vars)
  <2>1. accepted \in Clients /\ Conn(accepted) = "none"
    BY <1>1 DEF onAccept, IInv, TypeOK, AcceptInv, Conn
  <2>2. \A c \in Clients : Conn(c)' = IF c = accepted THEN "open" ELSE Conn(c)
    BY <1>1, <2>1 DEF onAccept, IInv, TypeOK, Conn
  <2>3. [c \in Clients |-> Conn(c)]'
          = [[c \in Clients |-> Conn(c)] EXCEPT ![accepted] = "open"]
    BY <2>2
  <2>4. Abstract!Open(accepted)
    BY <1>1, <2>1, <2>3 DEF onAccept, Abstract!Open
  <2>. QED
    BY <2>1, <2>4 DEF Abstract!Next
<1>2. ASSUME NEW w \in Workers, onAcceptError(w)
     PROVE  [Abstract!Next]_(Abstract!vars)
  BY <1>2 DEF onAcceptError, Ready, Goto, peerVars, opVars, serviceVars, mainVars,
     Abstract!vars, Conn
<1>3. ASSUME NEW w \in Workers, start_handling(w)
     PROVE  [Abstract!Next]_(Abstract!vars)
  BY <1>3 DEF start_handling, Goto, acceptorVars, peerVars, serviceVars, mainVars,
     Abstract!vars, Conn
<1>4. ASSUME NEW w \in Workers, InitAccept(w)
     PROVE  [Abstract!Next]_(Abstract!vars)
  BY <1>4 DEF InitAccept, afterAccept, Goto, peerVars, opVars, serviceVars, mainVars, Abstract!vars, Conn
<1>5. ASSUME NEW w \in Workers, NEW c \in Clients, Take(w, c)
     PROVE  [Abstract!Next]_(Abstract!vars)
  BY <1>5 DEF Take, Ready, Goto, acceptorVars, peerVars, serviceVars, mainVars,
     Abstract!vars, Conn
<1>6. ASSUME NEW w \in Workers, NEW c \in Clients, on_request_line_received(w, c)
     PROVE  [Abstract!Next]_(Abstract!vars)
  <2>1. Conn(c) = "open" /\ response[c] = None
    BY <1>6, LineReceived, Callbacks DEF IInv, ServiceOwnedOnce, AnswerInv, Conn
  <2>. QED
    <3>1. \/ UNCHANGED response
          \/ /\ request[c] \in Kinds
             /\ \E resp \in Expected(request[c]) : response' = [response EXCEPT ![c] = resp]
      BY <1>6, LineReceived DEF IInv, Kinds
    <3>2. UNCHANGED <<service, answers>>
      BY <1>6, LineReceived DEF IInv
    <3>. QED
      BY <2>1, <3>1, <3>2, ReceiveStep DEF IInv
<1>7. ASSUME NEW w \in Workers, NEW c \in Clients, on_headers_received(w, c)
     PROVE  [Abstract!Next]_(Abstract!vars)
  <2>1. Conn(c) = "open" /\ response[c] = None
    BY <1>7, HeadersReceived, Callbacks DEF IInv, ServiceOwnedOnce, AnswerInv, Conn
  <2>. QED
    BY <1>7, <2>1, HeadersReceived, ReceiveStep DEF IInv
<1>8. ASSUME NEW w \in Workers, NEW c \in Clients, readError(w, c)
     PROVE  [Abstract!Next]_(Abstract!vars)
  BY <1>8, CloseStep, Callbacks DEF readError
<1>9. ASSUME NEW w \in Workers, NEW c \in Clients, on_response_sent(w, c)
     PROVE  [Abstract!Next]_(Abstract!vars)
  BY <1>9, CloseStep, Callbacks DEF on_response_sent
<1>10. ASSUME NEW w \in Workers, NEW c \in Clients, callbackThrows(w, c)
     PROVE  [Abstract!Next]_(Abstract!vars)
  BY <1>10 DEF callbackThrows, acceptorVars, peerVars, opVars, serviceVars, threadVars,
     Abstract!vars, Conn
<1>11. ASSUME NEW w \in Workers, runReturns(w)
     PROVE  [Abstract!Next]_(Abstract!vars)
  BY <1>11 DEF runReturns, Goto, acceptorVars, peerVars, opVars, serviceVars, mainVars,
     Abstract!vars, Conn
<1>12. CASE StopAcceptor
  BY <1>12 DEF StopAcceptor, peerVars, opVars, serviceVars, threadVars, Abstract!vars, Conn
<1>13. CASE StopContext
  BY <1>13 DEF StopContext, acceptorVars, peerVars, opVars, serviceVars, threadVars,
     Abstract!vars, Conn
<1>14. CASE joinAll
  BY <1>14 DEF joinAll, acceptorVars, peerVars, opVars, serviceVars, threadVars,
     Abstract!vars, Conn
<1>15. ASSUME NEW c \in Clients, AcceptDone(c)
     PROVE  [Abstract!Next]_(Abstract!vars)
  BY <1>15 DEF AcceptDone, PeerStep, opVars, serviceVars, mainVars, threadVars,
     Abstract!vars, Conn
<1>16. ASSUME NEW c \in Clients, ReadDone(c)
     PROVE  [Abstract!Next]_(Abstract!vars)
  BY <1>16 DEF ReadDone, ReadResult, EndOp, acceptorVars, peerVars, serviceVars, mainVars,
     threadVars, Abstract!vars, Conn
<1>17. ASSUME NEW c \in Clients, WriteDone(c)
     PROVE  [Abstract!Next]_(Abstract!vars)
  <2>1. Conn(c) = "open" /\ response[c] # None /\ answers[c] = 0
    BY <1>17 DEF WriteDone, EndOp, IInv, ServiceOwnedOnce, AnswerInv, Conn
  <2>2. answers' = [answers EXCEPT ![c] = 1]
    BY <1>17, <2>1 DEF WriteDone, IInv, TypeOK
  <2>3. UNCHANGED <<[d \in Clients |-> Conn(d)], [d \in Clients |-> response[d] # None]>>
    BY <1>17 DEF WriteDone, EndOp, serviceVars, Conn
  <2>4. Abstract!Answer(c)
    BY <2>1, <2>2, <2>3 DEF Abstract!Answer
  <2>. QED
    BY <2>4 DEF Abstract!Next
<1>18. ASSUME NEW c \in Clients, OpFails(c)
     PROVE  [Abstract!Next]_(Abstract!vars)
  BY <1>18 DEF OpFails, EndOp, acceptorVars, peerVars, serviceVars, mainVars, threadVars,
     Abstract!vars, Conn
<1>19. ASSUME NEW c \in Clients, Send(c)
     PROVE  [Abstract!Next]_(Abstract!vars)
  BY <1>19 DEF Send, PeerStep, acceptorVars, opVars, serviceVars, mainVars, threadVars,
     Abstract!vars, Conn
<1>20. ASSUME NEW c \in Clients, Leave(c)
     PROVE  [Abstract!Next]_(Abstract!vars)
  <2>1. UNCHANGED <<service, response, answers>>
    BY <1>20 DEF Leave, PeerStep, serviceVars
  <2>. QED
    BY <2>1 DEF Abstract!vars, Conn
<1>21. ASSUME NEW c \in Clients, Reset(c)
     PROVE  [Abstract!Next]_(Abstract!vars)
  <2>1. UNCHANGED <<service, response, answers>>
    BY <1>21 DEF Reset, PeerStep, serviceVars
  <2>. QED
    BY <2>1 DEF Abstract!vars, Conn
<1>22. CASE AcceptFails
  BY <1>22 DEF AcceptFails, peerVars, opVars, serviceVars, mainVars, threadVars,
     Abstract!vars, Conn
<1>23. CASE UNCHANGED vars
  BY <1>23 DEF vars, acceptorVars, peerVars, opVars, serviceVars, mainVars, threadVars,
     Abstract!vars, Conn
<1>. QED
  BY <1>1, <1>2, <1>3, <1>4, <1>5, <1>6, <1>7, <1>8, <1>9, <1>10, <1>11, <1>12, <1>13,
     <1>14, <1>15, <1>16, <1>17, <1>18, <1>19, <1>20, <1>21, <1>22, <1>23 DEF Next,
     WorkerStep, Kernel, ClientStep

-----------------------------------------------------------------------------
(* The theorems.                                                           *)

LEMMA IInvStep == IInv /\ [Next]_vars => IInv'
  BY TypeOKStep, AcceptInvStep, WorkInvStep, OwnedOnceStep, RequestInvStep, AnswerInvStep,
     FitsStep, TerminatedStep DEF IInv

\* The inductive invariant holds in every reachable state.
THEOREM IInvInvariant == Spec => []IInv
<1>1. Init => IInv
  BY InitIInv
<1>. QED
  BY <1>1, IInvStep, PTL DEF Spec

\* Type correctness: a worker is at a Service exactly while it uses it, and
\* no status code is missing from the table, where at() would throw.
THEOREM TypeCorrect == Spec => []TypeOK
<1>1. IInv => TypeOK
  BY DEF IInv
<1>. QED
  BY <1>1, IInvInvariant, PTL

\* On every error path a Service is used by one thread or waits for one
\* operation until it is deleted, and by nobody afterwards.
THEOREM OwnedOnce == Spec => []ServiceOwnedOnce
<1>1. IInv => ServiceOwnedOnce
  BY DEF IInv
<1>. QED
  BY <1>1, IInvInvariant, PTL

\* Each response is one that fits its own request, with memory nothing was
\* read into only for a directory, and the Service of a client that stays is
\* not deleted without it.
THEOREM ResponseFits == Spec => []ResponseFitsRequest
<1>1. IInv => ResponseFitsRequest
  BY DEF IInv
<1>. QED
  BY <1>1, IInvInvariant, PTL

\* Only a client that resets its connection, or asks for a directory or for
\* a path that cannot be looked up, terminates the program.
THEOREM TerminatedByClient == Spec => []TerminatedOnlyByClient
<1>1. IInv => TerminatedOnlyByClient
  BY DEF IInv
<1>. QED
  BY <1>1, IInvInvariant, PTL

\* The server implements RequestResponse.
THEOREM RequestResponseImplemented == Spec => ImplementsRequestResponse
<1>1. Init => Abstract!Init
  <2>. SUFFICES ASSUME Init PROVE Abstract!Init
    OBVIOUS
  <2>1. \A c \in Clients : (response[c] # None) = FALSE
    BY DEF Init
  <2>. QED
    BY <2>1 DEF Init, Abstract!Init, Conn
<1>. QED
  BY <1>1, AbstractStep, IInvInvariant, PTL
     DEF Spec, ImplementsRequestResponse, Abstract!Spec
=============================================================================
