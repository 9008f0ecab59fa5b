-------------------------- MODULE HTTPClientProofs --------------------------
(***************************************************************************)
(* Proofs about HTTPClient for every set of requests and every bound.      *)
(***************************************************************************)
EXTENDS HTTPClient, TLAPS

\* Where the io_context and the io thread have a request follows from where
\* the request is in its chain.
ChainInv ==
  \A r \in Requests :
    /\ status[r] = "idle" <=> op[r] \in {"none", "done"}
    /\ status[r] = "running" <=> handling = r
    /\ status[r] = "running" => op[r] # "body"
    /\ op[r] = "connect" /\ status[r] = "between" => endpoints[r] > 0
    /\ op[r] = "resolve" /\ status[r] \in {"queued", "running"} /\ result[r] = "success"
         => endpoints[r] > 0
    /\ status[r] = "running" => result[r] = "success"
    /\ op[r] = "resolve" => status[r] # "between"

\* What has been received, and what the codes mean, at each point of it.
ReceivedInv ==
  \A r \in Requests :
    /\ op[r] = "headers" => "status" \in received[r]
    /\ op[r] = "status" /\ status[r] = "running" => "status" \in received[r]
    /\ op[r] = "body" => {"status", "headers"} \subseteq received[r]
    /\ op[r] = "headers" /\ status[r] = "running" => "headers" \in received[r]

CodeInv ==
  \A r \in Requests :
    /\ reported[r] = <<>> <=> op[r] # "done"
    /\ result[r] = "operation_aborted" => m_was_cancelled[r]
    /\ op[r] = "body" /\ status[r] = "queued" => result[r] # "success"

\* What is left to do once the client is being closed.
CloseInv ==
  /\ m_work_guard <=> main = "running"
  /\ io = "returned" => ~m_work_guard /\ \A r \in Requests : status[r] = "idle"
  /\ main = "closed" => io = "returned"

IInv == TypeOK /\ ChainInv /\ ReceivedInv /\ CodeInv /\ OutcomeHonest /\ CloseInv

-----------------------------------------------------------------------------
(* The invariant holds initially and every step preserves it.              *)

\* Nothing has been executed yet.
LEMMA InitIInv == Init => IInv
<1>. SUFFICES ASSUME Init PROVE IInv
  OBVIOUS
<1>. USE NoneAssumption, BoundsAssumption DEF Init
<1>1. TypeOK
  BY DEF TypeOK, Ops, Transfers, Statuses, Codes
<1>2. ChainInv /\ CloseInv
  BY DEF ChainInv, CloseInv
<1>3. ReceivedInv /\ CodeInv /\ OutcomeHonest
  BY DEF ReceivedInv, CodeInv, OutcomeHonest
<1>. QED
  BY <1>1, <1>2, <1>3 DEF IInv

\* What on_finish does to the request it is called for, and to no other.
LEMMA FinishReports ==
  ASSUME TypeOK, CodeInv, NEW r \in Requests, op[r] # "done", NEW ec, on_finish(r, ec)
  PROVE  /\ reported' = [reported EXCEPT ![r] = <<ec>>]
         /\ op' = [op EXCEPT ![r] = "done"]
         /\ status' = [status EXCEPT ![r] = "idle"]
         /\ UNCHANGED <<result, endpoints, parts>>
<1>1. reported[r] = <<>>
  BY DEF CodeInv
<1>2. Append(<<>>, ec) = <<ec>>
  OBVIOUS
<1>. QED
  BY <1>1, <1>2 DEF TypeOK, on_finish

\* The addresses left to try are counted down only while there are some.
LEMMA TypeOKStep == TypeOK /\ ChainInv /\ [Next]_vars => TypeOK'
<1>. SUFFICES ASSUME TypeOK, ChainInv, [Next]_vars PROVE TypeOK'
  OBVIOUS
<1>. USE NoneAssumption, BoundsAssumption DEF TypeOK, Ops, Transfers, Statuses, Codes
<1>1. ASSUME NEW r \in Requests, execute(r)
     PROVE  TypeOK'
  BY <1>1 DEF execute, Executable, Start, requestVars, opVars, clientVars
<1>2. ASSUME NEW r \in Requests, executeCancelled(r)
     PROVE  TypeOK'
  BY <1>2 DEF executeCancelled, Executable, on_finish, requestVars, opVars, clientVars
<1>3. ASSUME NEW r \in Requests, cancel(r)
     PROVE  TypeOK'
  BY <1>3 DEF cancel, SocketCancel, requestVars, opVars, clientVars
<1>4. ASSUME close
     PROVE  TypeOK'
  BY <1>4 DEF close, requestVars, opVars, clientVars
<1>5. ASSUME join
     PROVE  TypeOK'
  BY <1>5 DEF join, requestVars, opVars, clientVars
<1>6. ASSUME NEW r \in Requests, NEW which \in Ops \ {"body"}, Failed(r, which)
     PROVE  TypeOK'
  BY <1>6 DEF Failed, Completed, on_finish, requestVars, opVars, clientVars
<1>7. ASSUME NEW r \in Requests, on_host_name_resolved(r)
     PROVE  TypeOK'
  BY <1>7 DEF on_host_name_resolved, Succeeded, Completed, requestVars, opVars, clientVars
<1>8. ASSUME NEW r \in Requests, on_connection_established(r)
     PROVE  TypeOK'
  BY <1>8 DEF on_connection_established, Succeeded, Completed, requestVars, opVars,
     clientVars
<1>9. ASSUME NEW r \in Requests, on_request_sent(r)
     PROVE  TypeOK'
  BY <1>9 DEF on_request_sent, Succeeded, Completed, requestVars, opVars, clientVars
<1>10. ASSUME NEW r \in Requests, shutdownThrows(r)
     PROVE  TypeOK'
  BY <1>10 DEF shutdownThrows, requestVars, opVars, clientVars
<1>11. ASSUME NEW r \in Requests, on_status_line_received(r)
     PROVE  TypeOK'
  BY <1>11 DEF on_status_line_received, Succeeded, Completed, requestVars, opVars,
     clientVars
<1>12. ASSUME NEW r \in Requests, invalid_response(r)
     PROVE  TypeOK'
  BY <1>12 DEF invalid_response, Completed, on_finish, requestVars, opVars, clientVars
<1>13. ASSUME NEW r \in Requests, on_headers_received(r)
     PROVE  TypeOK'
  BY <1>13 DEF on_headers_received, Succeeded, Completed, requestVars, opVars, clientVars
<1>14. ASSUME NEW r \in Requests, on_response_body_received(r)
     PROVE  TypeOK'
  BY <1>14 DEF on_response_body_received, BodyCode, Completed, on_finish, requestVars,
     opVars, clientVars
<1>15. ASSUME NEW r \in Requests, cancelledReturn(r)
     PROVE  TypeOK'
  BY <1>15 DEF cancelledReturn, MustStop, Leave, on_finish, requestVars, opVars,
     clientVars
<1>16. ASSUME NEW r \in Requests, startNextOp(r)
     PROVE  TypeOK'
  <2>1. op[r] = "resolve" => endpoints[r] - 1 \in 0 .. MaxEndpoints
    BY <1>16 DEF startNextOp, ChainInv
  <2>2. PICK next \in Transfers \cup {"connect"} : Start(r, next)
    BY <1>16 DEF startNextOp
  <2>3. endpoints' \in [Requests -> 0 .. MaxEndpoints]
    BY <1>16, <2>1 DEF startNextOp
  <2>. QED
    BY <1>16, <2>2, <2>3 DEF startNextOp, Leave, Start, requestVars, opVars, clientVars
<1>17. ASSUME NEW r \in Requests, resume(r)
     PROVE  TypeOK'
  <2>1. op[r] = "connect" => endpoints[r] - 1 \in 0 .. MaxEndpoints
    BY <1>17 DEF resume, ChainInv
  <2>2. endpoints' \in [Requests -> 0 .. MaxEndpoints]
    BY <1>17, <2>1 DEF resume
  <2>. QED
    BY <1>17, <2>2 DEF resume, requestVars, opVars, clientVars
<1>18. ASSUME runReturns
     PROVE  TypeOK'
  BY <1>18 DEF runReturns, requestVars, opVars, clientVars
<1>19. ASSUME NEW r \in Requests, Resolved(r)
     PROVE  TypeOK'
  <2>1. endpoints' \in [Requests -> 0 .. MaxEndpoints]
    <3>1. ASSUME NEW n \in 1 .. MaxEndpoints, endpoints' = [endpoints EXCEPT ![r] = n]
          PROVE  endpoints' \in [Requests -> 0 .. MaxEndpoints]
      <4>1. n \in 0 .. MaxEndpoints
        OBVIOUS
      <4>. QED
        BY <3>1, <4>1
    <3>2. endpoints' = endpoints \/ \E n \in 1 .. MaxEndpoints : endpoints' = [endpoints EXCEPT ![r] = n]
      BY <1>19 DEF Resolved
    <3>. QED
      BY <3>1, <3>2
  <2>2. \E code \in Codes : Outcome(r, "queued", code)
    BY <1>19 DEF Resolved
  <2>. QED
    BY <1>19, <2>1, <2>2 DEF Resolved, Outcome, requestVars, opVars, clientVars
<1>20. ASSUME NEW r \in Requests, ConnectAttempt(r)
     PROVE  TypeOK'
  BY <1>20 DEF ConnectAttempt, Outcome, requestVars, opVars, clientVars
<1>21. ASSUME NEW r \in Requests, Transferred(r)
     PROVE  TypeOK'
  BY <1>21 DEF Transferred, Outcome, requestVars, opVars, clientVars
<1>22. ASSUME NEW r \in Requests, Progress(r)
     PROVE  TypeOK'
  BY <1>22 DEF Progress, Outcome, requestVars, opVars, clientVars
<1>23. ASSUME UNCHANGED vars PROVE TypeOK'
  BY <1>23 DEF vars, requestVars, opVars, clientVars
<1>. QED
  BY <1>1, <1>2, <1>3, <1>4, <1>5, <1>6, <1>7, <1>8, <1>9, <1>10, <1>11, <1>12, <1>13,
     <1>14, <1>15, <1>16, <1>17, <1>18, <1>19, <1>20, <1>21, <1>22, <1>23 DEF Next,
     IoStep, Peer

\* One thing is outstanding for a request: an operation, or its callback.
LEMMA ChainInvStep == TypeOK /\ ChainInv /\ [Next]_vars => ChainInv'
<1>. SUFFICES ASSUME TypeOK, ChainInv, [Next]_vars PROVE ChainInv'
  OBVIOUS
<1>. USE NoneAssumption, BoundsAssumption DEF ChainInv, TypeOK, Ops, Transfers, Statuses, Codes
<1>1. ASSUME NEW r \in Requests, execute(r)
     PROVE  ChainInv'
  BY <1>1 DEF execute, Executable, Start, requestVars, opVars, clientVars
<1>2. ASSUME NEW r \in Requests, executeCancelled(r)
     PROVE  ChainInv'
  BY <1>2 DEF executeCancelled, Executable, on_finish, requestVars, opVars, clientVars
<1>3. ASSUME NEW r \in Requests, cancel(r)
     PROVE  ChainInv'
  BY <1>3 DEF cancel, SocketCancel, requestVars, opVars, clientVars
<1>4. ASSUME close
     PROVE  ChainInv'
  BY <1>4 DEF close, requestVars, opVars, clientVars
<1>5. ASSUME join
     PROVE  ChainInv'
  BY <1>5 DEF join, requestVars, opVars, clientVars
<1>6. ASSUME NEW r \in Requests, NEW which \in Ops \ {"body"}, Failed(r, which)
     PROVE  ChainInv'
  BY <1>6 DEF Failed, Completed, on_finish, requestVars, opVars, clientVars
<1>7. ASSUME NEW r \in Requests, on_host_name_resolved(r)
     PROVE  ChainInv'
  BY <1>7 DEF on_host_name_resolved, Succeeded, Completed, requestVars, opVars, clientVars
<1>8. ASSUME NEW r \in Requests, on_connection_established(r)
     PROVE  ChainInv'
  BY <1>8 DEF on_connection_established, Succeeded, Completed, requestVars, opVars,
     clientVars
<1>9. ASSUME NEW r \in Requests, on_request_sent(r)
     PROVE  ChainInv'
  BY <1>9 DEF on_request_sent, Succeeded, Completed, requestVars, opVars, clientVars
<1>10. ASSUME NEW r \in Requests, shutdownThrows(r)
     PROVE  ChainInv'
  BY <1>10 DEF shutdownThrows, requestVars, opVars, clientVars
<1>11. ASSUME NEW r \in Requests, on_status_line_received(r)
     PROVE  ChainInv'
  BY <1>11 DEF on_status_line_received, Succeeded, Completed, requestVars, opVars,
     clientVars
<1>12. ASSUME NEW r \in Requests, invalid_response(r)
     PROVE  ChainInv'
  BY <1>12 DEF invalid_response, Completed, on_finish, requestVars, opVars, clientVars
<1>13. ASSUME NEW r \in Requests, on_headers_received(r)
     PROVE  ChainInv'
  BY <1>13 DEF on_headers_received, Succeeded, Completed, requestVars, opVars, clientVars
<1>14. ASSUME NEW r \in Requests, on_response_body_received(r)
     PROVE  ChainInv'
  BY <1>14 DEF on_response_body_received, BodyCode, Completed, on_finish, requestVars,
     opVars, clientVars
<1>15. ASSUME NEW r \in Requests, cancelledReturn(r)
     PROVE  ChainInv'
  BY <1>15 DEF cancelledReturn, MustStop, Leave, on_finish, requestVars, opVars,
     clientVars
<1>16. ASSUME NEW r \in Requests, startNextOp(r)
     PROVE  ChainInv'
  BY <1>16 DEF startNextOp, MustStop, Leave, Start, Following, requestVars, opVars,
     clientVars
<1>17. ASSUME NEW r \in Requests, resume(r)
     PROVE  ChainInv'
  BY <1>17 DEF resume, requestVars, opVars, clientVars
<1>18. ASSUME runReturns
     PROVE  ChainInv'
  BY <1>18 DEF runReturns, requestVars, opVars, clientVars
<1>19. ASSUME NEW r \in Requests, Resolved(r)
     PROVE  ChainInv'
  BY <1>19 DEF Resolved, Outcome, requestVars, opVars, clientVars
<1>20. ASSUME NEW r \in Requests, ConnectAttempt(r)
     PROVE  ChainInv'
  BY <1>20 DEF ConnectAttempt, Outcome, requestVars, opVars, clientVars
<1>21. ASSUME NEW r \in Requests, Transferred(r)
     PROVE  ChainInv'
  BY <1>21 DEF Transferred, Outcome, requestVars, opVars, clientVars
<1>22. ASSUME NEW r \in Requests, Progress(r)
     PROVE  ChainInv'
  BY <1>22 DEF Progress, Outcome, requestVars, opVars, clientVars
<1>23. ASSUME UNCHANGED vars PROVE ChainInv'
  BY <1>23 DEF vars, requestVars, opVars, clientVars
<1>. QED
  BY <1>1, <1>2, <1>3, <1>4, <1>5, <1>6, <1>7, <1>8, <1>9, <1>10, <1>11, <1>12, <1>13,
     <1>14, <1>15, <1>16, <1>17, <1>18, <1>19, <1>20, <1>21, <1>22, <1>23 DEF Next,
     IoStep, Peer

\* The response arrives in the order of the chain.
LEMMA ReceivedInvStep == TypeOK /\ ChainInv /\ ReceivedInv /\ [Next]_vars => ReceivedInv'
<1>. SUFFICES ASSUME TypeOK, ChainInv, ReceivedInv, [Next]_vars PROVE ReceivedInv'
  OBVIOUS
<1>. USE NoneAssumption DEF ReceivedInv, ChainInv, TypeOK, Ops, Transfers
<1>1. ASSUME NEW r \in Requests, execute(r)
     PROVE  ReceivedInv'
  BY <1>1 DEF execute, Executable, Start, requestVars, opVars, clientVars
<1>2. ASSUME NEW r \in Requests, executeCancelled(r)
     PROVE  ReceivedInv'
  BY <1>2 DEF executeCancelled, Executable, on_finish, requestVars, opVars, clientVars
<1>3. ASSUME NEW r \in Requests, cancel(r)
     PROVE  ReceivedInv'
  BY <1>3 DEF cancel, SocketCancel, requestVars, opVars, clientVars
<1>4. ASSUME close
     PROVE  ReceivedInv'
  BY <1>4 DEF close, requestVars, opVars, clientVars
<1>5. ASSUME join
     PROVE  ReceivedInv'
  BY <1>5 DEF join, requestVars, opVars, clientVars
<1>6. ASSUME NEW r \in Requests, NEW which \in Ops \ {"body"}, Failed(r, which)
     PROVE  ReceivedInv'
  BY <1>6 DEF Failed, Completed, on_finish, requestVars, opVars, clientVars
<1>7. ASSUME NEW r \in Requests, on_host_name_resolved(r)
     PROVE  ReceivedInv'
  BY <1>7 DEF on_host_name_resolved, Succeeded, Completed, requestVars, opVars, clientVars
<1>8. ASSUME NEW r \in Requests, on_connection_established(r)
     PROVE  ReceivedInv'
  BY <1>8 DEF on_connection_established, Succeeded, Completed, requestVars, opVars,
     clientVars
<1>9. ASSUME NEW r \in Requests, on_request_sent(r)
     PROVE  ReceivedInv'
  BY <1>9 DEF on_request_sent, Succeeded, Completed, requestVars, opVars, clientVars
<1>10. ASSUME NEW r \in Requests, shutdownThrows(r)
     PROVE  ReceivedInv'
  BY <1>10 DEF shutdownThrows, requestVars, opVars, clientVars
<1>11. ASSUME NEW r \in Requests, on_status_line_received(r)
     PROVE  ReceivedInv'
  BY <1>11 DEF on_status_line_received, Succeeded, Completed, requestVars, opVars,
     clientVars
<1>12. ASSUME NEW r \in Requests, invalid_response(r)
     PROVE  ReceivedInv'
  BY <1>12 DEF invalid_response, Completed, on_finish, requestVars, opVars, clientVars
<1>13. ASSUME NEW r \in Requests, on_headers_received(r)
     PROVE  ReceivedInv'
  BY <1>13 DEF on_headers_received, Succeeded, Completed, requestVars, opVars, clientVars
<1>14. ASSUME NEW r \in Requests, on_response_body_received(r)
     PROVE  ReceivedInv'
  BY <1>14 DEF on_response_body_received, BodyCode, Completed, on_finish, requestVars,
     opVars, clientVars
<1>15. ASSUME NEW r \in Requests, cancelledReturn(r)
     PROVE  ReceivedInv'
  BY <1>15 DEF cancelledReturn, MustStop, Leave, on_finish, requestVars, opVars,
     clientVars
<1>16. ASSUME NEW r \in Requests, startNextOp(r)
     PROVE  ReceivedInv'
  BY <1>16 DEF startNextOp, MustStop, Leave, Start, Following, requestVars, opVars,
     clientVars
<1>17. ASSUME NEW r \in Requests, resume(r)
     PROVE  ReceivedInv'
  BY <1>17 DEF resume, requestVars, opVars, clientVars
<1>18. ASSUME runReturns
     PROVE  ReceivedInv'
  BY <1>18 DEF runReturns, requestVars, opVars, clientVars
<1>19. ASSUME NEW r \in Requests, Resolved(r)
     PROVE  ReceivedInv'
  BY <1>19 DEF Resolved, Outcome, requestVars, opVars, clientVars
<1>20. ASSUME NEW r \in Requests, ConnectAttempt(r)
     PROVE  ReceivedInv'
  BY <1>20 DEF ConnectAttempt, Outcome, requestVars, opVars, clientVars
<1>21. ASSUME NEW r \in Requests, Transferred(r)
     PROVE  ReceivedInv'
  BY <1>21 DEF Transferred, Outcome, requestVars, opVars, clientVars
<1>22. ASSUME NEW r \in Requests, Progress(r)
     PROVE  ReceivedInv'
  BY <1>22 DEF Progress, Outcome, requestVars, opVars, clientVars
<1>23. ASSUME UNCHANGED vars PROVE ReceivedInv'
  BY <1>23 DEF vars, requestVars, opVars, clientVars
<1>. QED
  BY <1>1, <1>2, <1>3, <1>4, <1>5, <1>6, <1>7, <1>8, <1>9, <1>10, <1>11, <1>12, <1>13,
     <1>14, <1>15, <1>16, <1>17, <1>18, <1>19, <1>20, <1>21, <1>22, <1>23 DEF Next,
     IoStep, Peer

\* run() returns only without work, and close() only after run().
LEMMA CloseInvStep == TypeOK /\ ChainInv /\ CloseInv /\ [Next]_vars => CloseInv'
<1>. SUFFICES ASSUME TypeOK, ChainInv, CloseInv, [Next]_vars PROVE CloseInv'
  OBVIOUS
<1>. USE NoneAssumption DEF CloseInv, ChainInv, TypeOK, Alive
<1>1. ASSUME NEW r \in Requests, execute(r)
     PROVE  CloseInv'
  BY <1>1 DEF execute, Executable, Start, requestVars, opVars, clientVars
<1>2. ASSUME NEW r \in Requests, executeCancelled(r)
     PROVE  CloseInv'
  BY <1>2 DEF executeCancelled, Executable, on_finish, requestVars, opVars, clientVars
<1>3. ASSUME NEW r \in Requests, cancel(r)
     PROVE  CloseInv'
  BY <1>3 DEF cancel, SocketCancel, requestVars, opVars, clientVars
<1>4. ASSUME close
     PROVE  CloseInv'
  BY <1>4 DEF close, requestVars, opVars, clientVars
<1>5. ASSUME join
     PROVE  CloseInv'
  BY <1>5 DEF join, requestVars, opVars, clientVars
<1>6. ASSUME NEW r \in Requests, NEW which \in Ops \ {"body"}, Failed(r, which)
     PROVE  CloseInv'
  BY <1>6 DEF Failed, Completed, on_finish, requestVars, opVars, clientVars
<1>7. ASSUME NEW r \in Requests, on_host_name_resolved(r)
     PROVE  CloseInv'
  BY <1>7 DEF on_host_name_resolved, Succeeded, Completed, requestVars, opVars, clientVars
<1>8. ASSUME NEW r \in Requests, on_connection_established(r)
     PROVE  CloseInv'
  BY <1>8 DEF on_connection_established, Succeeded, Completed, requestVars, opVars,
     clientVars
<1>9. ASSUME NEW r \in Requests, on_request_sent(r)
     PROVE  CloseInv'
  BY <1>9 DEF on_request_sent, Succeeded, Completed, requestVars, opVars, clientVars
<1>10. ASSUME NEW r \in Requests, shutdownThrows(r)
     PROVE  CloseInv'
  BY <1>10 DEF shutdownThrows, requestVars, opVars, clientVars
<1>11. ASSUME NEW r \in Requests, on_status_line_received(r)
     PROVE  CloseInv'
  BY <1>11 DEF on_status_line_received, Succeeded, Completed, requestVars, opVars,
     clientVars
<1>12. ASSUME NEW r \in Requests, invalid_response(r)
     PROVE  CloseInv'
  BY <1>12 DEF invalid_response, Completed, on_finish, requestVars, opVars, clientVars
<1>13. ASSUME NEW r \in Requests, on_headers_received(r)
     PROVE  CloseInv'
  BY <1>13 DEF on_headers_received, Succeeded, Completed, requestVars, opVars, clientVars
<1>14. ASSUME NEW r \in Requests, on_response_body_received(r)
     PROVE  CloseInv'
  BY <1>14 DEF on_response_body_received, BodyCode, Completed, on_finish, requestVars,
     opVars, clientVars
<1>15. ASSUME NEW r \in Requests, cancelledReturn(r)
     PROVE  CloseInv'
  BY <1>15 DEF cancelledReturn, MustStop, Leave, on_finish, requestVars, opVars,
     clientVars
<1>16. ASSUME NEW r \in Requests, startNextOp(r)
     PROVE  CloseInv'
  BY <1>16 DEF startNextOp, MustStop, Leave, Start, Following, requestVars, opVars,
     clientVars
<1>17. ASSUME NEW r \in Requests, resume(r)
     PROVE  CloseInv'
  BY <1>17 DEF resume, requestVars, opVars, clientVars
<1>18. ASSUME runReturns
     PROVE  CloseInv'
  BY <1>18 DEF runReturns, requestVars, opVars, clientVars
<1>19. ASSUME NEW r \in Requests, Resolved(r)
     PROVE  CloseInv'
  BY <1>19 DEF Resolved, Outcome, requestVars, opVars, clientVars
<1>20. ASSUME NEW r \in Requests, ConnectAttempt(r)
     PROVE  CloseInv'
  BY <1>20 DEF ConnectAttempt, Outcome, requestVars, opVars, clientVars
<1>21. ASSUME NEW r \in Requests, Transferred(r)
     PROVE  CloseInv'
  BY <1>21 DEF Transferred, Outcome, requestVars, opVars, clientVars
<1>22. ASSUME NEW r \in Requests, Progress(r)
     PROVE  CloseInv'
  BY <1>22 DEF Progress, Outcome, requestVars, opVars, clientVars
<1>23. ASSUME UNCHANGED vars PROVE CloseInv'
  BY <1>23 DEF vars, requestVars, opVars, clientVars
<1>. QED
  BY <1>1, <1>2, <1>3, <1>4, <1>5, <1>6, <1>7, <1>8, <1>9, <1>10, <1>11, <1>12, <1>13,
     <1>14, <1>15, <1>16, <1>17, <1>18, <1>19, <1>20, <1>21, <1>22, <1>23 DEF Next,
     IoStep, Peer

\* "operation_aborted" comes only from cancel(), and a body only from eof.
LEMMA CodeInvStep == TypeOK /\ ChainInv /\ CodeInv /\ [Next]_vars => CodeInv'
<1>. SUFFICES ASSUME TypeOK, ChainInv, CodeInv, [Next]_vars PROVE CodeInv'
  OBVIOUS
<1>. USE NoneAssumption DEF CodeInv, ChainInv, TypeOK, Ops, Transfers, Codes
<1>1. ASSUME NEW r \in Requests, execute(r)
     PROVE  CodeInv'
  BY <1>1 DEF execute, Executable, Start, requestVars, opVars, clientVars
<1>2. ASSUME NEW r \in Requests, executeCancelled(r)
     PROVE  CodeInv'
  <2>1. op[r] # "done"
    BY <1>2 DEF executeCancelled, Executable, ChainInv
  <2>2. /\ reported' = [reported EXCEPT ![r] = <<"operation_aborted">>]
        /\ op' = [op EXCEPT ![r] = "done"]
        /\ status' = [status EXCEPT ![r] = "idle"]
        /\ UNCHANGED <<result, endpoints, parts>>
    BY <1>2, <2>1, FinishReports DEF executeCancelled, Executable
  <2>. QED
    BY <1>2, <2>2 DEF executeCancelled, Executable, clientVars
<1>3. ASSUME NEW r \in Requests, cancel(r)
     PROVE  CodeInv'
  BY <1>3 DEF cancel, SocketCancel, requestVars, opVars, clientVars
<1>4. ASSUME close
     PROVE  CodeInv'
  BY <1>4 DEF close, requestVars, opVars, clientVars
<1>5. ASSUME join
     PROVE  CodeInv'
  BY <1>5 DEF join, requestVars, opVars, clientVars
<1>6. ASSUME NEW r \in Requests, NEW which \in Ops \ {"body"}, Failed(r, which)
     PROVE  CodeInv'
  <2>1. op[r] # "done"
    BY <1>6 DEF Failed, Completed, ChainInv
  <2>2. /\ reported' = [reported EXCEPT ![r] = <<result[r]>>]
        /\ op' = [op EXCEPT ![r] = "done"]
        /\ status' = [status EXCEPT ![r] = "idle"]
        /\ UNCHANGED <<result, endpoints, parts>>
    BY <1>6, <2>1, FinishReports DEF Failed, Completed
  <2>. QED
    BY <1>6, <2>2 DEF Failed, Completed, clientVars
<1>7. ASSUME NEW r \in Requests, on_host_name_resolved(r)
     PROVE  CodeInv'
  BY <1>7 DEF on_host_name_resolved, Succeeded, Completed, requestVars, opVars, clientVars
<1>8. ASSUME NEW r \in Requests, on_connection_established(r)
     PROVE  CodeInv'
  BY <1>8 DEF on_connection_established, Succeeded, Completed, requestVars, opVars,
     clientVars
<1>9. ASSUME NEW r \in Requests, on_request_sent(r)
     PROVE  CodeInv'
  BY <1>9 DEF on_request_sent, Succeeded, Completed, requestVars, opVars, clientVars
<1>10. ASSUME NEW r \in Requests, shutdownThrows(r)
     PROVE  CodeInv'
  BY <1>10 DEF shutdownThrows, requestVars, opVars, clientVars
<1>11. ASSUME NEW r \in Requests, on_status_line_received(r)
     PROVE  CodeInv'
  BY <1>11 DEF on_status_line_received, Succeeded, Completed, requestVars, opVars,
     clientVars
<1>12. ASSUME NEW r \in Requests, invalid_response(r)
     PROVE  CodeInv'
  <2>1. op[r] # "done"
    BY <1>12 DEF invalid_response, Completed, ChainInv
  <2>2. /\ reported' = [reported EXCEPT ![r] = <<"failure">>]
        /\ op' = [op EXCEPT ![r] = "done"]
        /\ status' = [status EXCEPT ![r] = "idle"]
        /\ UNCHANGED <<result, endpoints, parts>>
    BY <1>12, <2>1, FinishReports DEF invalid_response, Completed
  <2>. QED
    BY <1>12, <2>2 DEF invalid_response, Completed, clientVars
<1>13. ASSUME NEW r \in Requests, on_headers_received(r)
     PROVE  CodeInv'
  BY <1>13 DEF on_headers_received, Succeeded, Completed, requestVars, opVars, clientVars
<1>14. ASSUME NEW r \in Requests, on_response_body_received(r)
     PROVE  CodeInv'
  <2>1. op[r] # "done"
    BY <1>14 DEF on_response_body_received, Completed, ChainInv
  <2>2. /\ reported' = [reported EXCEPT ![r] = <<BodyCode(result[r])>>]
        /\ op' = [op EXCEPT ![r] = "done"]
        /\ status' = [status EXCEPT ![r] = "idle"]
        /\ UNCHANGED <<result, endpoints, parts>>
    BY <1>14, <2>1, FinishReports DEF on_response_body_received, Completed
  <2>. QED
    BY <1>14, <2>2 DEF on_response_body_received, Completed, BodyCode, ReceivedInv,
       clientVars
<1>15. ASSUME NEW r \in Requests, cancelledReturn(r)
     PROVE  CodeInv'
  <2>1. op[r] # "done"
    BY <1>15 DEF cancelledReturn, ChainInv
  <2>2. /\ reported' = [reported EXCEPT ![r] = <<"operation_aborted">>]
        /\ op' = [op EXCEPT ![r] = "done"]
        /\ status' = [status EXCEPT ![r] = "idle"]
        /\ UNCHANGED <<result, endpoints, parts>>
    BY <1>15, <2>1, FinishReports DEF cancelledReturn
  <2>. QED
    BY <1>15, <2>2 DEF cancelledReturn, MustStop, clientVars, Leave
<1>16. ASSUME NEW r \in Requests, startNextOp(r)
     PROVE  CodeInv'
  BY <1>16 DEF startNextOp, MustStop, Leave, Start, Following, requestVars, opVars,
     clientVars
<1>17. ASSUME NEW r \in Requests, resume(r)
     PROVE  CodeInv'
  BY <1>17 DEF resume, requestVars, opVars, clientVars
<1>18. ASSUME runReturns
     PROVE  CodeInv'
  BY <1>18 DEF runReturns, requestVars, opVars, clientVars
<1>19. ASSUME NEW r \in Requests, Resolved(r)
     PROVE  CodeInv'
  <2>1. PICK code \in {"success", "failure"} : Outcome(r, "queued", code)
    BY <1>19 DEF Resolved
  <2>. QED
    BY <1>19, <2>1 DEF Resolved, Outcome, requestVars, opVars, clientVars
<1>20. ASSUME NEW r \in Requests, ConnectAttempt(r)
     PROVE  CodeInv'
  BY <1>20 DEF ConnectAttempt, Outcome, requestVars, opVars, clientVars
<1>21. ASSUME NEW r \in Requests, Transferred(r)
     PROVE  CodeInv'
  BY <1>21 DEF Transferred, Outcome, requestVars, opVars, clientVars
<1>22. ASSUME NEW r \in Requests, Progress(r)
     PROVE  CodeInv'
  BY <1>22 DEF Progress, Outcome, requestVars, opVars, clientVars
<1>23. ASSUME UNCHANGED vars PROVE CodeInv'
  BY <1>23 DEF vars, requestVars, opVars, clientVars
<1>. QED
  BY <1>1, <1>2, <1>3, <1>4, <1>5, <1>6, <1>7, <1>8, <1>9, <1>10, <1>11, <1>12, <1>13,
     <1>14, <1>15, <1>16, <1>17, <1>18, <1>19, <1>20, <1>21, <1>22, <1>23 DEF Next,
     IoStep, Peer

\* A step that calls no callback leaves what was reported true.
LEMMA OutcomeKept ==
  ASSUME OutcomeHonest, UNCHANGED reported,
         \A r \in Requests : m_was_cancelled[r] => m_was_cancelled'[r],
         \A r \in Requests : reported[r] # <<>> => received'[r] = received[r]
  PROVE  OutcomeHonest'
<1>1. <<"success">> # <<>>
  OBVIOUS
<1>. QED
  BY <1>1 DEF OutcomeHonest

\* A step that calls one keeps it true if the code it hands over is.
LEMMA OutcomeAdded ==
  ASSUME TypeOK, OutcomeHonest, UNCHANGED m_was_cancelled,
         NEW r \in Requests, NEW ec \in Codes,
         reported' = [reported EXCEPT ![r] = <<ec>>],
         \A q \in Requests \ {r} : received'[q] = received[q],
         ec = "operation_aborted" => m_was_cancelled[r],
         ec = "success" => received'[r] = {"status", "headers", "body"}
  PROVE  OutcomeHonest'
<1>1. Len(<<ec>>) = 1
  OBVIOUS
<1>2. \A c \in Codes : <<ec>> = <<c>> => ec = c
  OBVIOUS
<1>3. reported'[r] = <<ec>> /\ \A q \in Requests \ {r} : reported'[q] = reported[q]
  BY DEF TypeOK
<1>4. /\ Len(reported'[r]) <= 1
      /\ reported'[r] = <<"operation_aborted">> => m_was_cancelled'[r]
      /\ reported'[r] = <<"success">> => received'[r] = {"status", "headers", "body"}
  <2>1. "operation_aborted" \in Codes /\ "success" \in Codes
    BY DEF Codes
  <2>2. Len(reported'[r]) <= 1
    BY <1>1, <1>3
  <2>3. reported'[r] = <<"operation_aborted">> => ec = "operation_aborted"
    BY <1>2, <1>3, <2>1
  <2>4. reported'[r] = <<"success">> => ec = "success"
    BY <1>2, <1>3, <2>1
  <2>. QED
    BY <2>2, <2>3, <2>4
<1>5. ASSUME NEW q \in Requests \ {r}
      PROVE  /\ Len(reported'[q]) <= 1
             /\ reported'[q] = <<"operation_aborted">> => m_was_cancelled'[q]
             /\ reported'[q] = <<"success">> => received'[q] = {"status", "headers", "body"}
  BY <1>3, <1>5 DEF OutcomeHonest
<1>. QED
  BY <1>4, <1>5 DEF OutcomeHonest

\* No step makes an outcome untrue; the five that report one are true to it.
LEMMA OutcomeStep ==
  TypeOK /\ ChainInv /\ ReceivedInv /\ CodeInv /\ OutcomeHonest /\ [Next]_vars
    => OutcomeHonest'
<1>. SUFFICES ASSUME TypeOK, ChainInv, ReceivedInv, CodeInv, OutcomeHonest, [Next]_vars PROVE OutcomeHonest'
  OBVIOUS
<1>. USE NoneAssumption
<1>1. ASSUME NEW r \in Requests, execute(r)
     PROVE  OutcomeHonest'
  <2>1. \A q \in Requests : m_was_cancelled[q] => m_was_cancelled'[q]
    BY <1>1 DEF TypeOK, execute, Executable, Start, requestVars
  <2>2. \A q \in Requests : reported[q] # <<>> => received'[q] = received[q]
    BY <1>1 DEF TypeOK, ChainInv, CodeInv, execute, Executable, Start, requestVars
  <2>3. UNCHANGED reported
    BY <1>1 DEF execute, Executable, Start, requestVars
  <2>. QED
    BY <2>1, <2>2, <2>3, OutcomeKept
<1>2. ASSUME NEW r \in Requests, executeCancelled(r)
     PROVE  OutcomeHonest'
  <2>1. op[r] # "done"
    BY <1>2 DEF executeCancelled, Executable, ChainInv
  <2>2. reported' = [reported EXCEPT ![r] = <<"operation_aborted">>]
    BY <1>2, <2>1, FinishReports DEF executeCancelled, Executable
  <2>3. "operation_aborted" \in Codes
    BY DEF TypeOK, Codes
  <2>4. \A q \in Requests \ {r} : received'[q] = received[q]
    BY <1>2 DEF executeCancelled, Executable, TypeOK, requestVars
  <2>5. "operation_aborted" = "operation_aborted" => m_was_cancelled[r]
    BY <1>2 DEF executeCancelled, Executable, CodeInv, TypeOK
  <2>6. "operation_aborted" = "success" => received'[r] = {"status", "headers", "body"}
    BY <1>2 DEF executeCancelled, Executable, CodeInv, ReceivedInv, TypeOK
  <2>7. UNCHANGED m_was_cancelled
    BY <1>2 DEF executeCancelled, Executable
  <2>. QED
    BY <2>2, <2>3, <2>4, <2>5, <2>6, <2>7, OutcomeAdded
<1>3. ASSUME NEW r \in Requests, cancel(r)
     PROVE  OutcomeHonest'
  <2>1. \A q \in Requests : m_was_cancelled[q] => m_was_cancelled'[q]
    BY <1>3 DEF TypeOK, cancel, SocketCancel, requestVars
  <2>2. \A q \in Requests : reported[q] # <<>> => received'[q] = received[q]
    BY <1>3 DEF TypeOK, ChainInv, CodeInv, cancel, SocketCancel, requestVars
  <2>3. UNCHANGED reported
    BY <1>3 DEF cancel, SocketCancel, requestVars
  <2>. QED
    BY <2>1, <2>2, <2>3, OutcomeKept
<1>4. ASSUME close
     PROVE  OutcomeHonest'
  <2>1. \A q \in Requests : m_was_cancelled[q] => m_was_cancelled'[q]
    BY <1>4 DEF TypeOK, close, requestVars
  <2>2. \A q \in Requests : reported[q] # <<>> => received'[q] = received[q]
    BY <1>4 DEF TypeOK, ChainInv, CodeInv, close, requestVars
  <2>3. UNCHANGED reported
    BY <1>4 DEF close, requestVars
  <2>. QED
    BY <2>1, <2>2, <2>3, OutcomeKept
<1>5. ASSUME join
     PROVE  OutcomeHonest'
  <2>1. \A q \in Requests : m_was_cancelled[q] => m_was_cancelled'[q]
    BY <1>5 DEF TypeOK, join, requestVars
  <2>2. \A q \in Requests : reported[q] # <<>> => received'[q] = received[q]
    BY <1>5 DEF TypeOK, ChainInv, CodeInv, join, requestVars
  <2>3. UNCHANGED reported
    BY <1>5 DEF join, requestVars
  <2>. QED
    BY <2>1, <2>2, <2>3, OutcomeKept
<1>6. ASSUME NEW r \in Requests, NEW which \in Ops \ {"body"}, Failed(r, which)
     PROVE  OutcomeHonest'
  <2>1. op[r] # "done"
    BY <1>6 DEF Failed, Completed, ChainInv
  <2>2. reported' = [reported EXCEPT ![r] = <<result[r]>>]
    BY <1>6, <2>1, FinishReports DEF Failed, Completed
  <2>3. result[r] \in Codes
    BY DEF TypeOK, Codes
  <2>4. \A q \in Requests \ {r} : received'[q] = received[q]
    BY <1>6 DEF Failed, Completed, TypeOK, requestVars
  <2>5. result[r] = "operation_aborted" => m_was_cancelled[r]
    BY <1>6 DEF Failed, Completed, CodeInv, TypeOK
  <2>6. result[r] = "success" => received'[r] = {"status", "headers", "body"}
    BY <1>6 DEF Failed, Completed, CodeInv, ReceivedInv, TypeOK
  <2>7. UNCHANGED m_was_cancelled
    BY <1>6 DEF Failed, Completed
  <2>. QED
    BY <2>2, <2>3, <2>4, <2>5, <2>6, <2>7, OutcomeAdded
<1>7. ASSUME NEW r \in Requests, on_host_name_resolved(r)
     PROVE  OutcomeHonest'
  <2>1. \A q \in Requests : m_was_cancelled[q] => m_was_cancelled'[q]
    BY <1>7 DEF TypeOK, on_host_name_resolved, Succeeded, Completed, requestVars
  <2>2. \A q \in Requests : reported[q] # <<>> => received'[q] = received[q]
    BY <1>7 DEF TypeOK, ChainInv, CodeInv, on_host_name_resolved, Succeeded,
       Completed, requestVars
  <2>3. UNCHANGED reported
    BY <1>7 DEF on_host_name_resolved, Succeeded, Completed, requestVars
  <2>. QED
    BY <2>1, <2>2, <2>3, OutcomeKept
<1>8. ASSUME NEW r \in Requests, on_connection_established(r)
     PROVE  OutcomeHonest'
  <2>1. \A q \in Requests : m_was_cancelled[q] => m_was_cancelled'[q]
    BY <1>8 DEF TypeOK, on_connection_established, Succeeded, Completed, requestVars
  <2>2. \A q \in Requests : reported[q] # <<>> => received'[q] = received[q]
    BY <1>8 DEF TypeOK, ChainInv, CodeInv, on_connection_established, Succeeded,
       Completed, requestVars
  <2>3. UNCHANGED reported
    BY <1>8 DEF on_connection_established, Succeeded, Completed, requestVars
  <2>. QED
    BY <2>1, <2>2, <2>3, OutcomeKept
<1>9. ASSUME NEW r \in Requests, on_request_sent(r)
     PROVE  OutcomeHonest'
  <2>1. \A q \in Requests : m_was_cancelled[q] => m_was_cancelled'[q]
    BY <1>9 DEF TypeOK, on_request_sent, Succeeded, Completed, requestVars
  <2>2. \A q \in Requests : reported[q] # <<>> => received'[q] = received[q]
    BY <1>9 DEF TypeOK, ChainInv, CodeInv, on_request_sent, Succeeded, Completed,
       requestVars
  <2>3. UNCHANGED reported
    BY <1>9 DEF on_request_sent, Succeeded, Completed, requestVars
  <2>. QED
    BY <2>1, <2>2, <2>3, OutcomeKept
<1>10. ASSUME NEW r \in Requests, shutdownThrows(r)
     PROVE  OutcomeHonest'
  <2>1. \A q \in Requests : m_was_cancelled[q] => m_was_cancelled'[q]
    BY <1>10 DEF TypeOK, shutdownThrows, requestVars
  <2>2. \A q \in Requests : reported[q] # <<>> => received'[q] = received[q]
    BY <1>10 DEF TypeOK, ChainInv, CodeInv, shutdownThrows, requestVars
  <2>3. UNCHANGED reported
    BY <1>10 DEF shutdownThrows, requestVars
  <2>. QED
    BY <2>1, <2>2, <2>3, OutcomeKept
<1>11. ASSUME NEW r \in Requests, on_status_line_received(r)
     PROVE  OutcomeHonest'
  <2>1. \A q \in Requests : m_was_cancelled[q] => m_was_cancelled'[q]
    BY <1>11 DEF TypeOK, on_status_line_received, Succeeded, Completed, requestVars
  <2>2. \A q \in Requests : reported[q] # <<>> => received'[q] = received[q]
    BY <1>11 DEF TypeOK, ChainInv, CodeInv, on_status_line_received, Succeeded,
       Completed, requestVars
  <2>3. UNCHANGED reported
    BY <1>11 DEF on_status_line_received, Succeeded, Completed, requestVars
  <2>. QED
    BY <2>1, <2>2, <2>3, OutcomeKept
<1>12. ASSUME NEW r \in Requests, invalid_response(r)
     PROVE  OutcomeHonest'
  <2>1. op[r] # "done"
    BY <1>12 DEF invalid_response, Completed, ChainInv
  <2>2. reported' = [reported EXCEPT ![r] = <<"failure">>]
    BY <1>12, <2>1, FinishReports DEF invalid_response, Completed
  <2>3. "failure" \in Codes
    BY DEF TypeOK, Codes
  <2>4. \A q \in Requests \ {r} : received'[q] = received[q]
    BY <1>12 DEF invalid_response, Completed, TypeOK, requestVars
  <2>5. "failure" = "operation_aborted" => m_was_cancelled[r]
    BY <1>12 DEF invalid_response, Completed, CodeInv, TypeOK
  <2>6. "failure" = "success" => received'[r] = {"status", "headers", "body"}
    BY <1>12 DEF invalid_response, Completed, CodeInv, ReceivedInv, TypeOK
  <2>7. UNCHANGED m_was_cancelled
    BY <1>12 DEF invalid_response, Completed
  <2>. QED
    BY <2>2, <2>3, <2>4, <2>5, <2>6, <2>7, OutcomeAdded
<1>13. ASSUME NEW r \in Requests, on_headers_received(r)
     PROVE  OutcomeHonest'
  <2>1. \A q \in Requests : m_was_cancelled[q] => m_was_cancelled'[q]
    BY <1>13 DEF TypeOK, on_headers_received, Succeeded, Completed, requestVars
  <2>2. \A q \in Requests : reported[q] # <<>> => received'[q] = received[q]
    BY <1>13 DEF TypeOK, ChainInv, CodeInv, on_headers_received, Succeeded,
       Completed, requestVars
  <2>3. UNCHANGED reported
    BY <1>13 DEF on_headers_received, Succeeded, Completed, requestVars
  <2>. QED
    BY <2>1, <2>2, <2>3, OutcomeKept
<1>14. ASSUME NEW r \in Requests, on_response_body_received(r)
     PROVE  OutcomeHonest'
  <2>1. op[r] # "done"
    BY <1>14 DEF on_response_body_received, Completed, ChainInv
  <2>2. reported' = [reported EXCEPT ![r] = <<BodyCode(result[r])>>]
    BY <1>14, <2>1, FinishReports DEF on_response_body_received, Completed
  <2>3. BodyCode(result[r]) \in Codes
    BY DEF TypeOK, Codes, BodyCode
  <2>4. \A q \in Requests \ {r} : received'[q] = received[q]
    BY <1>14 DEF on_response_body_received, Completed, TypeOK, requestVars
  <2>5. BodyCode(result[r]) = "operation_aborted" => m_was_cancelled[r]
    BY <1>14 DEF on_response_body_received, Completed, CodeInv, BodyCode, TypeOK
  <2>6. BodyCode(result[r]) = "success" => received'[r] = {"status", "headers", "body"}
    BY <1>14 DEF on_response_body_received, Completed, CodeInv, ReceivedInv,
       BodyCode, TypeOK
  <2>7. UNCHANGED m_was_cancelled
    BY <1>14 DEF on_response_body_received, Completed
  <2>. QED
    BY <2>2, <2>3, <2>4, <2>5, <2>6, <2>7, OutcomeAdded
<1>15. ASSUME NEW r \in Requests, cancelledReturn(r)
     PROVE  OutcomeHonest'
  <2>1. op[r] # "done"
    BY <1>15 DEF cancelledReturn, Leave, ChainInv
  <2>2. reported' = [reported EXCEPT ![r] = <<"operation_aborted">>]
    BY <1>15, <2>1, FinishReports DEF cancelledReturn, Leave
  <2>3. "operation_aborted" \in Codes
    BY DEF TypeOK, Codes
  <2>4. \A q \in Requests \ {r} : received'[q] = received[q]
    BY <1>15 DEF cancelledReturn, Leave, TypeOK, requestVars
  <2>5. "operation_aborted" = "operation_aborted" => m_was_cancelled[r]
    BY <1>15 DEF cancelledReturn, Leave, MustStop, CodeInv, TypeOK
  <2>6. "operation_aborted" = "success" => received'[r] = {"status", "headers", "body"}
    BY <1>15 DEF cancelledReturn, Leave, CodeInv, ReceivedInv, TypeOK
  <2>7. UNCHANGED m_was_cancelled
    BY <1>15 DEF cancelledReturn, Leave
  <2>. QED
    BY <2>2, <2>3, <2>4, <2>5, <2>6, <2>7, OutcomeAdded
<1>16. ASSUME NEW r \in Requests, startNextOp(r)
     PROVE  OutcomeHonest'
  <2>1. \A q \in Requests : m_was_cancelled[q] => m_was_cancelled'[q]
    BY <1>16 DEF TypeOK, startNextOp, MustStop, Leave, Start, Following, requestVars
  <2>2. \A q \in Requests : reported[q] # <<>> => received'[q] = received[q]
    BY <1>16 DEF TypeOK, ChainInv, CodeInv, startNextOp, MustStop, Leave, Start,
       Following, requestVars
  <2>3. UNCHANGED reported
    BY <1>16 DEF startNextOp, MustStop, Leave, Start, Following, requestVars
  <2>. QED
    BY <2>1, <2>2, <2>3, OutcomeKept
<1>17. ASSUME NEW r \in Requests, resume(r)
     PROVE  OutcomeHonest'
  <2>1. \A q \in Requests : m_was_cancelled[q] => m_was_cancelled'[q]
    BY <1>17 DEF TypeOK, resume, requestVars
  <2>2. \A q \in Requests : reported[q] # <<>> => received'[q] = received[q]
    BY <1>17 DEF TypeOK, ChainInv, CodeInv, resume, requestVars
  <2>3. UNCHANGED reported
    BY <1>17 DEF resume, requestVars
  <2>. QED
    BY <2>1, <2>2, <2>3, OutcomeKept
<1>18. ASSUME runReturns
     PROVE  OutcomeHonest'
  <2>1. \A q \in Requests : m_was_cancelled[q] => m_was_cancelled'[q]
    BY <1>18 DEF TypeOK, runReturns, requestVars
  <2>2. \A q \in Requests : reported[q] # <<>> => received'[q] = received[q]
    BY <1>18 DEF TypeOK, ChainInv, CodeInv, runReturns, requestVars
  <2>3. UNCHANGED reported
    BY <1>18 DEF runReturns, requestVars
  <2>. QED
    BY <2>1, <2>2, <2>3, OutcomeKept
<1>19. ASSUME NEW r \in Requests, Resolved(r)
     PROVE  OutcomeHonest'
  <2>1. \A q \in Requests : m_was_cancelled[q] => m_was_cancelled'[q]
    BY <1>19 DEF TypeOK, Resolved, Outcome, requestVars
  <2>2. \A q \in Requests : reported[q] # <<>> => received'[q] = received[q]
    BY <1>19 DEF TypeOK, ChainInv, CodeInv, Resolved, Outcome, requestVars
  <2>3. UNCHANGED reported
    BY <1>19 DEF Resolved, Outcome, requestVars
  <2>. QED
    BY <2>1, <2>2, <2>3, OutcomeKept
<1>20. ASSUME NEW r \in Requests, ConnectAttempt(r)
     PROVE  OutcomeHonest'
  <2>1. \A q \in Requests : m_was_cancelled[q] => m_was_cancelled'[q]
    BY <1>20 DEF TypeOK, ConnectAttempt, Outcome, requestVars
  <2>2. \A q \in Requests : reported[q] # <<>> => received'[q] = received[q]
    BY <1>20 DEF TypeOK, ChainInv, CodeInv, ConnectAttempt, Outcome, requestVars
  <2>3. UNCHANGED reported
    BY <1>20 DEF ConnectAttempt, Outcome, requestVars
  <2>. QED
    BY <2>1, <2>2, <2>3, OutcomeKept
<1>21. ASSUME NEW r \in Requests, Transferred(r)
     PROVE  OutcomeHonest'
  <2>1. \A q \in Requests : m_was_cancelled[q] => m_was_cancelled'[q]
    BY <1>21 DEF TypeOK, Transferred, Outcome, requestVars
  <2>2. \A q \in Requests : reported[q] # <<>> => received'[q] = received[q]
    BY <1>21 DEF TypeOK, ChainInv, CodeInv, Transferred, Outcome, requestVars
  <2>3. UNCHANGED reported
    BY <1>21 DEF Transferred, Outcome, requestVars
  <2>. QED
    BY <2>1, <2>2, <2>3, OutcomeKept
<1>22. ASSUME NEW r \in Requests, Progress(r)
     PROVE  OutcomeHonest'
  <2>1. \A q \in Requests : m_was_cancelled[q] => m_was_cancelled'[q]
    BY <1>22 DEF TypeOK, Progress, Outcome, requestVars
  <2>2. \A q \in Requests : reported[q] # <<>> => received'[q] = received[q]
    BY <1>22 DEF TypeOK, ChainInv, CodeInv, Progress, Outcome, requestVars
  <2>3. UNCHANGED reported
    BY <1>22 DEF Progress, Outcome, requestVars
  <2>. QED
    BY <2>1, <2>2, <2>3, OutcomeKept
<1>23. ASSUME UNCHANGED vars PROVE OutcomeHonest'
  BY <1>23 DEF vars, requestVars, OutcomeHonest
<1>. QED
  BY <1>1, <1>2, <1>3, <1>4, <1>5, <1>6, <1>7, <1>8, <1>9, <1>10, <1>11, <1>12, <1>13,
     <1>14, <1>15, <1>16, <1>17, <1>18, <1>19, <1>20, <1>21, <1>22, <1>23 DEF Next,
     IoStep, Peer

\* The parts together.
LEMMA IInvStep == IInv /\ [Next]_vars => IInv'
  BY TypeOKStep, ChainInvStep, ReceivedInvStep, CodeInvStep, OutcomeStep,
     CloseInvStep DEF IInv

-----------------------------------------------------------------------------
(* The properties of the specification.                                    *)

\* The inductive invariant holds in every reachable state.
THEOREM IInvInvariant == Spec => []IInv
<1>1. Init => IInv
  BY InitIInv
<1>2. IInv /\ [Next]_vars => IInv'
  BY IInvStep
<1>. QED
  BY <1>1, <1>2, PTL DEF Spec

\* Every variable keeps its type; in particular async_connect never runs out
\* of addresses it counts down.
THEOREM TypeCorrect == Spec => []TypeOK
<1>1. IInv => TypeOK
  BY DEF IInv
<1>. QED
  BY <1>1, IInvInvariant, PTL

\* The callback of a request is called at most once, and its code is true:
\* aborted only after cancel(), success only with a whole response.
THEOREM OutcomeIsHonest == Spec => []OutcomeHonest
<1>1. IInv => OutcomeHonest
  BY DEF IInv
<1>. QED
  BY <1>1, IInvInvariant, PTL

\* close() returns only after the callback of every executed request.
THEOREM CloseDropsNone == Spec => []ClosedMeansReported
<1>1. IInv => ClosedMeansReported
  BY DEF IInv, ClosedMeansReported, CloseInv, ChainInv, CodeInv
<1>. QED
  BY <1>1, IInvInvariant, PTL

\* After the flag is set the only change of operation is the end of the request.
LEMMA CancelStopsStep ==
  TypeOK /\ ChainInv /\ [Next]_vars =>
    \A q \in Requests : m_was_cancelled[q] /\ op'[q] # op[q] => op'[q] = "done"
<1>. SUFFICES ASSUME TypeOK, ChainInv, [Next]_vars, NEW q \in Requests, m_was_cancelled[q], op'[q] # op[q]
              PROVE  op'[q] = "done"
  OBVIOUS
<1>. USE DEF TypeOK, ChainInv
<1>1. ASSUME NEW r \in Requests, execute(r)
     PROVE  op'[q] = "done"
  BY <1>1 DEF execute, Start, opVars
<1>2. ASSUME NEW r \in Requests, executeCancelled(r)
     PROVE  op'[q] = "done"
  BY <1>2 DEF executeCancelled, Executable, on_finish, opVars
<1>3. ASSUME NEW r \in Requests, cancel(r)
     PROVE  op'[q] = "done"
  BY <1>3 DEF cancel, SocketCancel, opVars
<1>4. ASSUME close
     PROVE  op'[q] = "done"
  BY <1>4 DEF close, opVars
<1>5. ASSUME join
     PROVE  op'[q] = "done"
  BY <1>5 DEF join, opVars
<1>6. ASSUME NEW r \in Requests, NEW which \in Ops \ {"body"}, Failed(r, which)
     PROVE  op'[q] = "done"
  BY <1>6 DEF Failed, Completed, on_finish, opVars
<1>7. ASSUME NEW r \in Requests, on_host_name_resolved(r)
     PROVE  op'[q] = "done"
  BY <1>7 DEF on_host_name_resolved, Succeeded, Completed, opVars
<1>8. ASSUME NEW r \in Requests, on_connection_established(r)
     PROVE  op'[q] = "done"
  BY <1>8 DEF on_connection_established, Succeeded, Completed, opVars
<1>9. ASSUME NEW r \in Requests, on_request_sent(r)
     PROVE  op'[q] = "done"
  BY <1>9 DEF on_request_sent, Succeeded, Completed, opVars
<1>10. ASSUME NEW r \in Requests, shutdownThrows(r)
     PROVE  op'[q] = "done"
  BY <1>10 DEF shutdownThrows, opVars
<1>11. ASSUME NEW r \in Requests, on_status_line_received(r)
     PROVE  op'[q] = "done"
  BY <1>11 DEF on_status_line_received, Succeeded, Completed, opVars
<1>12. ASSUME NEW r \in Requests, invalid_response(r)
     PROVE  op'[q] = "done"
  BY <1>12 DEF invalid_response, Completed, on_finish, opVars
<1>13. ASSUME NEW r \in Requests, on_headers_received(r)
     PROVE  op'[q] = "done"
  BY <1>13 DEF on_headers_received, Succeeded, Completed, opVars
<1>14. ASSUME NEW r \in Requests, on_response_body_received(r)
     PROVE  op'[q] = "done"
  BY <1>14 DEF on_response_body_received, Completed, on_finish, opVars
<1>15. ASSUME NEW r \in Requests, cancelledReturn(r)
     PROVE  op'[q] = "done"
  BY <1>15 DEF cancelledReturn, MustStop, Leave, on_finish, opVars
<1>16. ASSUME NEW r \in Requests, startNextOp(r)
     PROVE  op'[q] = "done"
  BY <1>16 DEF startNextOp, MustStop, Start, opVars
<1>17. ASSUME NEW r \in Requests, resume(r)
     PROVE  op'[q] = "done"
  BY <1>17 DEF resume, opVars
<1>18. ASSUME runReturns
     PROVE  op'[q] = "done"
  BY <1>18 DEF runReturns, opVars
<1>19. ASSUME NEW r \in Requests, Resolved(r)
     PROVE  op'[q] = "done"
  BY <1>19 DEF Resolved, Outcome, opVars
<1>20. ASSUME NEW r \in Requests, ConnectAttempt(r)
     PROVE  op'[q] = "done"
  BY <1>20 DEF ConnectAttempt, Outcome, opVars
<1>21. ASSUME NEW r \in Requests, Transferred(r)
     PROVE  op'[q] = "done"
  BY <1>21 DEF Transferred, Outcome, opVars
<1>22. ASSUME NEW r \in Requests, Progress(r)
     PROVE  op'[q] = "done"
  BY <1>22 DEF Progress, Outcome, opVars
<1>23. ASSUME UNCHANGED vars PROVE op'[q] = "done"
  BY <1>23 DEF vars, opVars
<1>. QED
  BY <1>1, <1>2, <1>3, <1>4, <1>5, <1>6, <1>7, <1>8, <1>9, <1>10, <1>11, <1>12, <1>13,
     <1>14, <1>15, <1>16, <1>17, <1>18, <1>19, <1>20, <1>21, <1>22, <1>23 DEF Next,
     IoStep, Peer

\* No callback of a request that has been cancelled starts an operation.
THEOREM CancelStops == Spec => CancelStopsChain
<1>1. IInv /\ [Next]_vars =>
        [\A r \in Requests : m_was_cancelled[r] /\ op'[r] # op[r] => op'[r] = "done"]_vars
  BY CancelStopsStep DEF IInv
<1>. QED
  BY <1>1, IInvInvariant, PTL DEF Spec, CancelStopsChain

=============================================================================
