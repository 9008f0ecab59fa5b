------------------------- MODULE SyncServiceProofs -------------------------
(***************************************************************************)
(* Proofs about the blocking servers for every set of peers, of whatever   *)
(* clients and strangers.                                                  *)
(***************************************************************************)
EXTENDS SyncService, FiniteSetTheorems, TLAPS

\* A connection gets to its service once, through the backlog.
BacklogInv ==
  \A p \in Peers :
    /\ client[p] = "connect" => conn[p] = "none"
    /\ conn[p] \in {"none", "backlog"} => service[p] = "none"

\* What a service has done so far is known from the call that it is in.
ServiceInv ==
  \A p \in Peers :
    /\ service[p] = "handshake" => kind = "ssl"
    /\ service[p] \in {"none", "handshake", "read_until"} => ~received[p]
    /\ service[p] \in {"none", "handshake", "read_until", "write"} => answers[p] = 0
    /\ service[p] = "write" => received[p]

\* The thread of an iterative server serves somebody exactly while it is in
\* HandleClient.
CurrentInv == kind # "parallel" => (current # None <=> acceptor = "HandleClient")

\* Once the flag is set the next test of the loop ends it: a peer that is
\* accepted late finds the thread in accept(), nobody late before it.
LateInv ==
  /\ late = {} \/ \E p \in Peers : late = {p}
  /\ ~m_stop \/ acceptor = "accept" => late = {}
  /\ main = "leaving" => acceptor = "returned"

IInv == TypeOK /\ BacklogInv /\ ServiceInv /\ CurrentInv /\ LateInv

-----------------------------------------------------------------------------
(* The calls of HandleClient, spelled out.                                 *)

\* A service begins with the handshake, or with the read.
LEMMA FirstCall ==
  ASSUME kind \in Kinds
  PROVE  Head(Calls) = IF kind = "ssl" THEN "handshake" ELSE "read_until"
BY DEF Kinds, Calls, IterativeCalls, ParallelCalls, SSLCalls

\* Each call is followed by the one that is written after it.
LEMMA NextCall ==
  ASSUME kind \in Kinds
  PROVE  /\ kind = "ssl" => Following("handshake") = "read_until"
         /\ Following("read_until") = "write"
         /\ Following("write") = "return"
<1>1. CASE kind = "ssl"
  <2>1. Calls = <<"handshake", "read_until", "write", "return">>
    BY <1>1 DEF Calls, SSLCalls
  <2>2. /\ (CHOOSE j \in 1 .. Len(Calls) : Calls[j] = "handshake") = 1
        /\ (CHOOSE j \in 1 .. Len(Calls) : Calls[j] = "read_until") = 2
        /\ (CHOOSE j \in 1 .. Len(Calls) : Calls[j] = "write") = 3
    BY <2>1
  <2>. QED
    BY <2>1, <2>2 DEF Following
<1>2. CASE kind # "ssl"
  <2>1. Calls = <<"read_until", "write", "return">>
    BY <1>2 DEF Kinds, Calls, IterativeCalls, ParallelCalls
  <2>2. /\ (CHOOSE j \in 1 .. Len(Calls) : Calls[j] = "read_until") = 1
        /\ (CHOOSE j \in 1 .. Len(Calls) : Calls[j] = "write") = 2
    BY <2>1
  <2>. QED
    BY <1>2, <2>1, <2>2 DEF Following
<1>. QED
  BY <1>1, <1>2

-----------------------------------------------------------------------------
(* The invariant holds initially and every step preserves it.              *)

\* Each step keeps the types, and a service of an iterative server is the
\* one of the connection that the thread serves.
LEMMA TypeOKStep ==
  ASSUME TypeOK, BacklogInv, ServiceInv, CurrentInv, [Next]_vars
  PROVE  TypeOK'
<1>. USE NoneAssumption, FirstCall DEF TypeOK, BacklogInv, CurrentInv, Kinds, Active
<1>1. CASE Listen /\ UNCHANGED client
  BY <1>1 DEF Listen, serviceVars, peerVars
<1>2. CASE Run /\ UNCHANGED client
  BY <1>2 DEF Run, serviceVars, peerVars
<1>3. ASSUME NEW p \in Peers, Accept(p), UNCHANGED client
     PROVE  TypeOK'
  BY <1>3 DEF Accept, Accepted, peerVars
<1>4. ASSUME NEW p \in Peers, StartHandlingClient(p), UNCHANGED client
     PROVE  TypeOK'
  BY <1>4 DEF StartHandlingClient, Accepted, peerVars
<1>5. CASE (AcceptorThrows \/ AcceptThrows) /\ UNCHANGED client
  BY <1>5 DEF AcceptorThrows, AcceptThrows, EndProgram, acceptorVars, peerVars
<1>6. ASSUME NEW p \in Peers, handshake(p), UNCHANGED client
     PROVE  TypeOK'
  <2>1. kind = "ssl"
    BY <1>6 DEF handshake, Returns, ServiceInv
  <2>. QED
    BY <1>6, <2>1, NextCall DEF handshake, Returns, acceptorVars
<1>7. ASSUME NEW p \in Peers, read_until(p), UNCHANGED client
     PROVE  TypeOK'
  BY <1>7, NextCall DEF read_until, Returns, acceptorVars
<1>8. ASSUME NEW p \in Peers, write(p), UNCHANGED client
     PROVE  TypeOK'
  BY <1>8, NextCall DEF write, Returns, acceptorVars
<1>9. ASSUME NEW p \in Peers, ServiceThrows(p), UNCHANGED client
     PROVE  TypeOK'
  BY <1>9 DEF ServiceThrows, acceptorVars, peerVars
<1>10. ASSUME NEW p \in Peers, AcceptReturns(p), UNCHANGED client
     PROVE  TypeOK'
  BY <1>10 DEF AcceptReturns, Finish, peerVars
<1>11. ASSUME NEW p \in Peers, deleteThis(p), UNCHANGED client
     PROVE  TypeOK'
  BY <1>11 DEF deleteThis, Finish, peerVars
<1>12. CASE Stop /\ UNCHANGED client
  BY <1>12 DEF Stop, acceptorVars, serviceVars, peerVars
<1>13. CASE join /\ UNCHANGED client
  BY <1>13 DEF join, acceptorVars, serviceVars, peerVars
<1>14. CASE (Exit \/ OrphanCrashes) /\ UNCHANGED client
  BY <1>14 DEF Exit, OrphanCrashes, EndProgram, acceptorVars, peerVars
<1>15. ASSUME NEW p \in Peers, connect(p)
     PROVE  TypeOK'
  BY <1>15 DEF connect, Connected, Call, acceptorVars, serviceVars, peerVars
<1>16. ASSUME NEW p \in Peers, sslConnect(p)
     PROVE  TypeOK'
  BY <1>16 DEF sslConnect, Connected, Call, acceptorVars, serviceVars, peerVars
<1>17. ASSUME NEW p \in Peers, handshakeReturns(p)
     PROVE  TypeOK'
  BY <1>17 DEF handshakeReturns, Call, acceptorVars, serviceVars, peerVars
<1>18. ASSUME NEW p \in Peers, sendRequest(p)
     PROVE  TypeOK'
  BY <1>18 DEF sendRequest, Call, acceptorVars, serviceVars
<1>19. ASSUME NEW p \in Peers, receiveResponse(p)
     PROVE  TypeOK'
  BY <1>19 DEF receiveResponse, Call, acceptorVars, serviceVars, peerVars
<1>20. ASSUME NEW p \in Peers, close(p)
     PROVE  TypeOK'
  BY <1>20 DEF close, Closes, Call, acceptorVars, serviceVars
<1>21. ASSUME NEW p \in Peers, sslClose(p)
     PROVE  TypeOK'
  BY <1>21 DEF sslClose, Closes, Call, acceptorVars, serviceVars
<1>22. ASSUME NEW p \in Peers, Throws(p)
     PROVE  TypeOK'
  BY <1>22 DEF Throws, Closes, Call, acceptorVars, serviceVars
<1>23. ASSUME NEW p \in Peers, Leave(p)
     PROVE  TypeOK'
  BY <1>23 DEF Leave, Closes, Call, acceptorVars, serviceVars
<1>24. ASSUME NEW p \in Peers, answerHello(p), UNCHANGED client
     PROVE  TypeOK'
  BY <1>24 DEF answerHello, acceptorVars, serviceVars
<1>25. ASSUME NEW p \in Peers, startHandshake(p)
     PROVE  TypeOK'
  BY <1>25 DEF startHandshake, Call, acceptorVars, serviceVars
<1>26. ASSUME NEW p \in Peers, Garble(p)
     PROVE  TypeOK'
  BY <1>26 DEF Garble, acceptorVars, serviceVars
<1>27. CASE UNCHANGED vars
  BY <1>27 DEF vars, serverVars, acceptorVars, serviceVars, peerVars
<1>. QED
  BY <1>1, <1>2, <1>3, <1>4, <1>5, <1>6, <1>7, <1>8, <1>9, <1>10, <1>11, <1>12, <1>13,
     <1>14, <1>15, <1>16, <1>17, <1>18, <1>19, <1>20, <1>21, <1>22, <1>23, <1>24, <1>25, <1>26,
     <1>27 DEF Next, ServerNext, RunStep, ServiceStep, ClientStep, Strangers

\* A peer connects once, and a service begins with the backlog left.
LEMMA BacklogInvStep ==
  ASSUME TypeOK, BacklogInv, [Next]_vars
  PROVE  BacklogInv'
<1>. USE NoneAssumption DEF TypeOK, BacklogInv, Active
<1>1. CASE Listen /\ UNCHANGED client
  BY <1>1 DEF Listen, serviceVars, peerVars
<1>2. CASE Run /\ UNCHANGED client
  BY <1>2 DEF Run, serviceVars, peerVars
<1>3. ASSUME NEW p \in Peers, Accept(p), UNCHANGED client
     PROVE  BacklogInv'
  BY <1>3 DEF Accept, Accepted, peerVars
<1>4. ASSUME NEW p \in Peers, StartHandlingClient(p), UNCHANGED client
     PROVE  BacklogInv'
  BY <1>4 DEF StartHandlingClient, Accepted, peerVars
<1>5. CASE (AcceptorThrows \/ AcceptThrows) /\ UNCHANGED client
  BY <1>5 DEF AcceptorThrows, AcceptThrows, EndProgram, acceptorVars, peerVars
<1>6. ASSUME NEW p \in Peers, handshake(p), UNCHANGED client
     PROVE  BacklogInv'
  BY <1>6 DEF handshake, Returns, acceptorVars
<1>7. ASSUME NEW p \in Peers, read_until(p), UNCHANGED client
     PROVE  BacklogInv'
  BY <1>7 DEF read_until, Returns, acceptorVars
<1>8. ASSUME NEW p \in Peers, write(p), UNCHANGED client
     PROVE  BacklogInv'
  BY <1>8 DEF write, Returns, acceptorVars
<1>9. ASSUME NEW p \in Peers, ServiceThrows(p), UNCHANGED client
     PROVE  BacklogInv'
  BY <1>9 DEF ServiceThrows, acceptorVars, peerVars
<1>10. ASSUME NEW p \in Peers, AcceptReturns(p), UNCHANGED client
     PROVE  BacklogInv'
  BY <1>10 DEF AcceptReturns, Finish, peerVars
<1>11. ASSUME NEW p \in Peers, deleteThis(p), UNCHANGED client
     PROVE  BacklogInv'
  BY <1>11 DEF deleteThis, Finish, peerVars
<1>12. CASE Stop /\ UNCHANGED client
  BY <1>12 DEF Stop, acceptorVars, serviceVars, peerVars
<1>13. CASE join /\ UNCHANGED client
  BY <1>13 DEF join, acceptorVars, serviceVars, peerVars
<1>14. CASE (Exit \/ OrphanCrashes) /\ UNCHANGED client
  BY <1>14 DEF Exit, OrphanCrashes, EndProgram, acceptorVars, peerVars
<1>15. ASSUME NEW p \in Peers, connect(p)
     PROVE  BacklogInv'
  BY <1>15 DEF connect, Connected, Call, acceptorVars, serviceVars, peerVars
<1>16. ASSUME NEW p \in Peers, sslConnect(p)
     PROVE  BacklogInv'
  BY <1>16 DEF sslConnect, Connected, Call, acceptorVars, serviceVars
<1>17. ASSUME NEW p \in Peers, handshakeReturns(p)
     PROVE  BacklogInv'
  BY <1>17 DEF handshakeReturns, Call, acceptorVars, serviceVars, peerVars
<1>18. ASSUME NEW p \in Peers, sendRequest(p)
     PROVE  BacklogInv'
  BY <1>18 DEF sendRequest, Call, acceptorVars, serviceVars
<1>19. ASSUME NEW p \in Peers, receiveResponse(p)
     PROVE  BacklogInv'
  BY <1>19 DEF receiveResponse, Call, acceptorVars, serviceVars, peerVars
<1>20. ASSUME NEW p \in Peers, close(p)
     PROVE  BacklogInv'
  BY <1>20 DEF close, Closes, Call, acceptorVars, serviceVars
<1>21. ASSUME NEW p \in Peers, sslClose(p)
     PROVE  BacklogInv'
  BY <1>21 DEF sslClose, Closes, Call, acceptorVars, serviceVars
<1>22. ASSUME NEW p \in Peers, Throws(p)
     PROVE  BacklogInv'
  BY <1>22 DEF Throws, Closes, Call, acceptorVars, serviceVars
<1>23. ASSUME NEW p \in Peers, Leave(p)
     PROVE  BacklogInv'
  BY <1>23 DEF Leave, Closes, Call, acceptorVars, serviceVars
<1>24. ASSUME NEW p \in Peers, answerHello(p), UNCHANGED client
     PROVE  BacklogInv'
  BY <1>24 DEF answerHello, acceptorVars, serviceVars
<1>25. ASSUME NEW p \in Peers, startHandshake(p)
     PROVE  BacklogInv'
  BY <1>25 DEF startHandshake, Call, acceptorVars, serviceVars
<1>26. ASSUME NEW p \in Peers, Garble(p)
     PROVE  BacklogInv'
  BY <1>26 DEF Garble, acceptorVars, serviceVars
<1>27. CASE UNCHANGED vars
  BY <1>27 DEF vars, serverVars, acceptorVars, serviceVars, peerVars
<1>. QED
  BY <1>1, <1>2, <1>3, <1>4, <1>5, <1>6, <1>7, <1>8, <1>9, <1>10, <1>11, <1>12, <1>13,
     <1>14, <1>15, <1>16, <1>17, <1>18, <1>19, <1>20, <1>21, <1>22, <1>23, <1>24, <1>25, <1>26,
     <1>27 DEF Next, ServerNext, RunStep, ServiceStep, ClientStep, Strangers

\* The calls of a service follow in their order.
LEMMA ServiceInvStep ==
  ASSUME TypeOK, BacklogInv, ServiceInv, [Next]_vars
  PROVE  ServiceInv'
<1>. USE FirstCall DEF TypeOK, BacklogInv, ServiceInv, Active, Kinds
<1>1. CASE Listen /\ UNCHANGED client
  BY <1>1 DEF Listen, serviceVars, peerVars
<1>2. CASE Run /\ UNCHANGED client
  BY <1>2 DEF Run, serviceVars, peerVars
<1>3. ASSUME NEW p \in Peers, Accept(p), UNCHANGED client
     PROVE  ServiceInv'
  BY <1>3 DEF Accept, Accepted, peerVars
<1>4. ASSUME NEW p \in Peers, StartHandlingClient(p), UNCHANGED client
     PROVE  ServiceInv'
  BY <1>4 DEF StartHandlingClient, Accepted, peerVars
<1>5. CASE (AcceptorThrows \/ AcceptThrows) /\ UNCHANGED client
  BY <1>5 DEF AcceptorThrows, AcceptThrows, EndProgram, acceptorVars, peerVars
<1>6. ASSUME NEW p \in Peers, handshake(p), UNCHANGED client
     PROVE  ServiceInv'
  BY <1>6, NextCall DEF handshake, Returns, acceptorVars
<1>7. ASSUME NEW p \in Peers, read_until(p), UNCHANGED client
     PROVE  ServiceInv'
  BY <1>7, NextCall DEF read_until, Returns, acceptorVars
<1>8. ASSUME NEW p \in Peers, write(p), UNCHANGED client
     PROVE  ServiceInv'
  BY <1>8, NextCall DEF write, Returns, acceptorVars
<1>9. ASSUME NEW p \in Peers, ServiceThrows(p), UNCHANGED client
     PROVE  ServiceInv'
  BY <1>9 DEF ServiceThrows, acceptorVars, peerVars
<1>10. ASSUME NEW p \in Peers, AcceptReturns(p), UNCHANGED client
     PROVE  ServiceInv'
  BY <1>10 DEF AcceptReturns, Finish, peerVars
<1>11. ASSUME NEW p \in Peers, deleteThis(p), UNCHANGED client
     PROVE  ServiceInv'
  BY <1>11 DEF deleteThis, Finish, peerVars
<1>12. CASE Stop /\ UNCHANGED client
  BY <1>12 DEF Stop, acceptorVars, serviceVars, peerVars
<1>13. CASE join /\ UNCHANGED client
  BY <1>13 DEF join, acceptorVars, serviceVars, peerVars
<1>14. CASE (Exit \/ OrphanCrashes) /\ UNCHANGED client
  BY <1>14 DEF Exit, OrphanCrashes, EndProgram, acceptorVars, peerVars
<1>15. ASSUME NEW p \in Peers, connect(p)
     PROVE  ServiceInv'
  BY <1>15 DEF connect, Connected, Call, acceptorVars, serviceVars, peerVars
<1>16. ASSUME NEW p \in Peers, sslConnect(p)
     PROVE  ServiceInv'
  BY <1>16 DEF sslConnect, Connected, Call, acceptorVars, serviceVars
<1>17. ASSUME NEW p \in Peers, handshakeReturns(p)
     PROVE  ServiceInv'
  BY <1>17 DEF handshakeReturns, Call, acceptorVars, serviceVars, peerVars
<1>18. ASSUME NEW p \in Peers, sendRequest(p)
     PROVE  ServiceInv'
  BY <1>18 DEF sendRequest, Call, acceptorVars, serviceVars
<1>19. ASSUME NEW p \in Peers, receiveResponse(p)
     PROVE  ServiceInv'
  BY <1>19 DEF receiveResponse, Call, acceptorVars, serviceVars, peerVars
<1>20. ASSUME NEW p \in Peers, close(p)
     PROVE  ServiceInv'
  BY <1>20 DEF close, Closes, Call, acceptorVars, serviceVars
<1>21. ASSUME NEW p \in Peers, sslClose(p)
     PROVE  ServiceInv'
  BY <1>21 DEF sslClose, Closes, Call, acceptorVars, serviceVars
<1>22. ASSUME NEW p \in Peers, Throws(p)
     PROVE  ServiceInv'
  BY <1>22 DEF Throws, Closes, Call, acceptorVars, serviceVars
<1>23. ASSUME NEW p \in Peers, Leave(p)
     PROVE  ServiceInv'
  BY <1>23 DEF Leave, Closes, Call, acceptorVars, serviceVars
<1>24. ASSUME NEW p \in Peers, answerHello(p), UNCHANGED client
     PROVE  ServiceInv'
  BY <1>24 DEF answerHello, acceptorVars, serviceVars
<1>25. ASSUME NEW p \in Peers, startHandshake(p)
     PROVE  ServiceInv'
  BY <1>25 DEF startHandshake, Call, acceptorVars, serviceVars
<1>26. ASSUME NEW p \in Peers, Garble(p)
     PROVE  ServiceInv'
  BY <1>26 DEF Garble, acceptorVars, serviceVars
<1>27. CASE UNCHANGED vars
  BY <1>27 DEF vars, serverVars, acceptorVars, serviceVars, peerVars
<1>. QED
  BY <1>1, <1>2, <1>3, <1>4, <1>5, <1>6, <1>7, <1>8, <1>9, <1>10, <1>11, <1>12, <1>13,
     <1>14, <1>15, <1>16, <1>17, <1>18, <1>19, <1>20, <1>21, <1>22, <1>23, <1>24, <1>25, <1>26,
     <1>27 DEF Next, ServerNext, RunStep, ServiceStep, ClientStep, Strangers

\* Accept takes the thread into HandleClient, its return out of it.
LEMMA CurrentInvStep ==
  ASSUME TypeOK, CurrentInv, [Next]_vars
  PROVE  CurrentInv'
<1>. USE NoneAssumption DEF TypeOK, CurrentInv
<1>1. CASE Listen /\ UNCHANGED client
  BY <1>1 DEF Listen, serviceVars, peerVars
<1>2. CASE Run /\ UNCHANGED client
  BY <1>2 DEF Run, serviceVars, peerVars
<1>3. ASSUME NEW p \in Peers, Accept(p), UNCHANGED client
     PROVE  CurrentInv'
  BY <1>3 DEF Accept, Accepted, peerVars
<1>4. ASSUME NEW p \in Peers, StartHandlingClient(p), UNCHANGED client
     PROVE  CurrentInv'
  BY <1>4 DEF StartHandlingClient, Accepted, peerVars
<1>5. CASE (AcceptorThrows \/ AcceptThrows) /\ UNCHANGED client
  BY <1>5 DEF AcceptorThrows, AcceptThrows, EndProgram, acceptorVars, peerVars
<1>6. ASSUME NEW p \in Peers, handshake(p), UNCHANGED client
     PROVE  CurrentInv'
  BY <1>6 DEF handshake, Returns, acceptorVars
<1>7. ASSUME NEW p \in Peers, read_until(p), UNCHANGED client
     PROVE  CurrentInv'
  BY <1>7 DEF read_until, Returns, acceptorVars
<1>8. ASSUME NEW p \in Peers, write(p), UNCHANGED client
     PROVE  CurrentInv'
  BY <1>8 DEF write, Returns, acceptorVars
<1>9. ASSUME NEW p \in Peers, ServiceThrows(p), UNCHANGED client
     PROVE  CurrentInv'
  BY <1>9 DEF ServiceThrows, acceptorVars, peerVars
<1>10. ASSUME NEW p \in Peers, AcceptReturns(p), UNCHANGED client
     PROVE  CurrentInv'
  BY <1>10 DEF AcceptReturns, Finish, peerVars
<1>11. ASSUME NEW p \in Peers, deleteThis(p), UNCHANGED client
     PROVE  CurrentInv'
  BY <1>11 DEF deleteThis, Finish, peerVars
<1>12. CASE Stop /\ UNCHANGED client
  BY <1>12 DEF Stop, acceptorVars, serviceVars, peerVars
<1>13. CASE join /\ UNCHANGED client
  BY <1>13 DEF join, acceptorVars, serviceVars, peerVars
<1>14. CASE (Exit \/ OrphanCrashes) /\ UNCHANGED client
  BY <1>14 DEF Exit, OrphanCrashes, EndProgram, acceptorVars, peerVars
<1>15. ASSUME NEW p \in Peers, connect(p)
     PROVE  CurrentInv'
  BY <1>15 DEF connect, Connected, Call, acceptorVars, serviceVars, peerVars
<1>16. ASSUME NEW p \in Peers, sslConnect(p)
     PROVE  CurrentInv'
  BY <1>16 DEF sslConnect, Connected, Call, acceptorVars, serviceVars
<1>17. ASSUME NEW p \in Peers, handshakeReturns(p)
     PROVE  CurrentInv'
  BY <1>17 DEF handshakeReturns, Call, acceptorVars, serviceVars, peerVars
<1>18. ASSUME NEW p \in Peers, sendRequest(p)
     PROVE  CurrentInv'
  BY <1>18 DEF sendRequest, Call, acceptorVars, serviceVars
<1>19. ASSUME NEW p \in Peers, receiveResponse(p)
     PROVE  CurrentInv'
  BY <1>19 DEF receiveResponse, Call, acceptorVars, serviceVars, peerVars
<1>20. ASSUME NEW p \in Peers, close(p)
     PROVE  CurrentInv'
  BY <1>20 DEF close, Closes, Call, acceptorVars, serviceVars
<1>21. ASSUME NEW p \in Peers, sslClose(p)
     PROVE  CurrentInv'
  BY <1>21 DEF sslClose, Closes, Call, acceptorVars, serviceVars
<1>22. ASSUME NEW p \in Peers, Throws(p)
     PROVE  CurrentInv'
  BY <1>22 DEF Throws, Closes, Call, acceptorVars, serviceVars
<1>23. ASSUME NEW p \in Peers, Leave(p)
     PROVE  CurrentInv'
  BY <1>23 DEF Leave, Closes, Call, acceptorVars, serviceVars
<1>24. ASSUME NEW p \in Peers, answerHello(p), UNCHANGED client
     PROVE  CurrentInv'
  BY <1>24 DEF answerHello, acceptorVars, serviceVars
<1>25. ASSUME NEW p \in Peers, startHandshake(p)
     PROVE  CurrentInv'
  BY <1>25 DEF startHandshake, Call, acceptorVars, serviceVars
<1>26. ASSUME NEW p \in Peers, Garble(p)
     PROVE  CurrentInv'
  BY <1>26 DEF Garble, acceptorVars, serviceVars
<1>27. CASE UNCHANGED vars
  BY <1>27 DEF vars, serverVars, acceptorVars, serviceVars, peerVars
<1>. QED
  BY <1>1, <1>2, <1>3, <1>4, <1>5, <1>6, <1>7, <1>8, <1>9, <1>10, <1>11, <1>12, <1>13,
     <1>14, <1>15, <1>16, <1>17, <1>18, <1>19, <1>20, <1>21, <1>22, <1>23, <1>24, <1>25, <1>26,
     <1>27 DEF Next, ServerNext, RunStep, ServiceStep, ClientStep, Strangers

\* The late peer is accepted by the accept() that the flag found.
LEMMA LateInvStep ==
  ASSUME TypeOK, CurrentInv, LateInv, [Next]_vars
  PROVE  LateInv'
<1>. USE NoneAssumption DEF TypeOK, LateInv
<1>1. CASE Listen /\ UNCHANGED client
  BY <1>1 DEF Listen, serviceVars, peerVars
<1>2. CASE Run /\ UNCHANGED client
  BY <1>2 DEF Run, serviceVars, peerVars
<1>3. ASSUME NEW p \in Peers, Accept(p), UNCHANGED client
     PROVE  LateInv'
  BY <1>3 DEF Accept, Accepted, peerVars
<1>4. ASSUME NEW p \in Peers, StartHandlingClient(p), UNCHANGED client
     PROVE  LateInv'
  BY <1>4 DEF StartHandlingClient, Accepted, peerVars
<1>5. CASE (AcceptorThrows \/ AcceptThrows) /\ UNCHANGED client
  BY <1>5 DEF AcceptorThrows, AcceptThrows, EndProgram, acceptorVars, peerVars
<1>6. ASSUME NEW p \in Peers, handshake(p), UNCHANGED client
     PROVE  LateInv'
  BY <1>6 DEF handshake, Returns, acceptorVars
<1>7. ASSUME NEW p \in Peers, read_until(p), UNCHANGED client
     PROVE  LateInv'
  BY <1>7 DEF read_until, Returns, acceptorVars
<1>8. ASSUME NEW p \in Peers, write(p), UNCHANGED client
     PROVE  LateInv'
  BY <1>8 DEF write, Returns, acceptorVars
<1>9. ASSUME NEW p \in Peers, ServiceThrows(p), UNCHANGED client
     PROVE  LateInv'
  BY <1>9 DEF ServiceThrows, acceptorVars, peerVars
<1>10. ASSUME NEW p \in Peers, AcceptReturns(p), UNCHANGED client
     PROVE  LateInv'
  <2>1. acceptor = "HandleClient"
    BY <1>10 DEF AcceptReturns, Finish, Active, CurrentInv
  <2>. QED
    BY <1>10, <2>1 DEF AcceptReturns, Finish, peerVars
<1>11. ASSUME NEW p \in Peers, deleteThis(p), UNCHANGED client
     PROVE  LateInv'
  BY <1>11 DEF deleteThis, Finish, peerVars
<1>12. CASE Stop /\ UNCHANGED client
  BY <1>12 DEF Stop, acceptorVars, serviceVars, peerVars
<1>13. CASE join /\ UNCHANGED client
  BY <1>13 DEF join, acceptorVars, serviceVars, peerVars
<1>14. CASE (Exit \/ OrphanCrashes) /\ UNCHANGED client
  BY <1>14 DEF Exit, OrphanCrashes, EndProgram, acceptorVars, peerVars
<1>15. ASSUME NEW p \in Peers, connect(p)
     PROVE  LateInv'
  BY <1>15 DEF connect, Connected, Call, acceptorVars, serviceVars, peerVars
<1>16. ASSUME NEW p \in Peers, sslConnect(p)
     PROVE  LateInv'
  BY <1>16 DEF sslConnect, Connected, Call, acceptorVars, serviceVars
<1>17. ASSUME NEW p \in Peers, handshakeReturns(p)
     PROVE  LateInv'
  BY <1>17 DEF handshakeReturns, Call, acceptorVars, serviceVars, peerVars
<1>18. ASSUME NEW p \in Peers, sendRequest(p)
     PROVE  LateInv'
  BY <1>18 DEF sendRequest, Call, acceptorVars, serviceVars
<1>19. ASSUME NEW p \in Peers, receiveResponse(p)
     PROVE  LateInv'
  BY <1>19 DEF receiveResponse, Call, acceptorVars, serviceVars, peerVars
<1>20. ASSUME NEW p \in Peers, close(p)
     PROVE  LateInv'
  BY <1>20 DEF close, Closes, Call, acceptorVars, serviceVars
<1>21. ASSUME NEW p \in Peers, sslClose(p)
     PROVE  LateInv'
  BY <1>21 DEF sslClose, Closes, Call, acceptorVars, serviceVars
<1>22. ASSUME NEW p \in Peers, Throws(p)
     PROVE  LateInv'
  BY <1>22 DEF Throws, Closes, Call, acceptorVars, serviceVars
<1>23. ASSUME NEW p \in Peers, Leave(p)
     PROVE  LateInv'
  BY <1>23 DEF Leave, Closes, Call, acceptorVars, serviceVars
<1>24. ASSUME NEW p \in Peers, answerHello(p), UNCHANGED client
     PROVE  LateInv'
  BY <1>24 DEF answerHello, acceptorVars, serviceVars
<1>25. ASSUME NEW p \in Peers, startHandshake(p)
     PROVE  LateInv'
  BY <1>25 DEF startHandshake, Call, acceptorVars, serviceVars
<1>26. ASSUME NEW p \in Peers, Garble(p)
     PROVE  LateInv'
  BY <1>26 DEF Garble, acceptorVars, serviceVars
<1>27. CASE UNCHANGED vars
  BY <1>27 DEF vars, serverVars, acceptorVars, serviceVars, peerVars
<1>. QED
  BY <1>1, <1>2, <1>3, <1>4, <1>5, <1>6, <1>7, <1>8, <1>9, <1>10, <1>11, <1>12, <1>13,
     <1>14, <1>15, <1>16, <1>17, <1>18, <1>19, <1>20, <1>21, <1>22, <1>23, <1>24, <1>25, <1>26,
     <1>27 DEF Next, ServerNext, RunStep, ServiceStep, ClientStep, Strangers

-----------------------------------------------------------------------------
(* The refinement of RequestResponse.                                      *)

\* accept() opens the connection.
LEMMA OpenStep ==
  ASSUME IInv, NEW p \in Peers, service[p] = "none", Accepted(p)
  PROVE  [Abstract!Next]_(Abstract!vars)
<1>1. Head(Calls) \in {"handshake", "read_until"}
  BY FirstCall DEF IInv, TypeOK
<1>2. Conn(p) = "none" /\ \A q \in Peers : Conn(q)' = IF q = p THEN "open" ELSE Conn(q)
  BY <1>1 DEF Accepted, IInv, TypeOK, Conn
<1>3. [q \in Peers |-> Conn(q)]' = [[q \in Peers |-> Conn(q)] EXCEPT ![p] = "open"]
  BY <1>2
<1>4. Abstract!Open(p)
  BY <1>2, <1>3 DEF Accepted, Abstract!Open
<1>. QED
  BY <1>4 DEF Abstract!Next

\* A service that goes on to another call keeps its connection open.
LEMMA WorkStep ==
  ASSUME TypeOK, NEW p \in Peers, NEW call \in {"read_until", "write", "return"},
         service[p] \in {"handshake", "read_until", "write"},
         service' = [service EXCEPT ![p] = call],
         UNCHANGED <<received, answers>>
  PROVE  UNCHANGED Abstract!vars
<1>1. \A q \in Peers : Conn(q)' = Conn(q)
  BY DEF TypeOK, Conn
<1>. QED
  BY <1>1 DEF Abstract!vars

\* The end of HandleClient closes it.
LEMMA CloseStep ==
  ASSUME IInv, NEW p \in Peers, Finish(p)
  PROVE  [Abstract!Next]_(Abstract!vars)
<1>1. Conn(p) = "open" /\ \A q \in Peers : Conn(q)' = IF q = p THEN "closed" ELSE Conn(q)
  BY DEF Finish, IInv, TypeOK, Conn
<1>2. [q \in Peers |-> Conn(q)]' = [[q \in Peers |-> Conn(q)] EXCEPT ![p] = "closed"]
  BY <1>1
<1>3. Abstract!Close(p)
  BY <1>1, <1>2 DEF Finish, Abstract!Close
<1>. QED
  BY <1>3 DEF Abstract!Next

\* The services that die with the program have not closed anything.
LEMMA EndStep ==
  ASSUME TypeOK, NEW how, EndProgram(how)
  PROVE  UNCHANGED Abstract!vars
<1>1. \A q \in Peers : Conn(q)' = Conn(q)
  BY DEF EndProgram, TypeOK, Active, Conn
<1>. QED
  BY <1>1 DEF EndProgram, Abstract!vars

\* Accepting opens, the read receives, the write answers, the end of
\* HandleClient closes; no other step is seen, not even the end of the program.
LEMMA AbstractStep ==
  ASSUME IInv, [Next]_vars
  PROVE  [Abstract!Next]_(Abstract!vars)
<1>. USE NoneAssumption
<1>1. CASE Listen /\ UNCHANGED client
  BY <1>1 DEF Listen, serviceVars, peerVars, Abstract!vars, Conn
<1>2. CASE Run /\ UNCHANGED client
  BY <1>2 DEF Run, serviceVars, peerVars, Abstract!vars, Conn
<1>3. ASSUME NEW p \in Peers, Accept(p), UNCHANGED client
     PROVE  [Abstract!Next]_(Abstract!vars)
  BY <1>3, OpenStep DEF Accept, Accepted, IInv, BacklogInv
<1>4. ASSUME NEW p \in Peers, StartHandlingClient(p), UNCHANGED client
     PROVE  [Abstract!Next]_(Abstract!vars)
  BY <1>4, OpenStep DEF StartHandlingClient, Accepted, IInv, BacklogInv
<1>5. CASE (AcceptorThrows \/ AcceptThrows) /\ UNCHANGED client
  BY <1>5, EndStep DEF AcceptorThrows, AcceptThrows, Exit, OrphanCrashes, IInv
<1>6. ASSUME NEW p \in Peers, handshake(p), UNCHANGED client
     PROVE  [Abstract!Next]_(Abstract!vars)
  <2>1. kind = "ssl"
    BY <1>6 DEF handshake, Returns, IInv, ServiceInv
  <2>2. service[p] = "handshake" /\ service' = [service EXCEPT ![p] = "read_until"]
    BY <1>6, <2>1, NextCall DEF handshake, Returns, IInv, TypeOK
  <2>. QED
    BY <1>6, <2>2, WorkStep DEF handshake, IInv
<1>7. ASSUME NEW p \in Peers, read_until(p), UNCHANGED client
     PROVE  [Abstract!Next]_(Abstract!vars)
  <2>1. service[p] = "read_until" /\ service' = [service EXCEPT ![p] = "write"]
    BY <1>7, NextCall DEF read_until, Returns, IInv, TypeOK
  <2>2. UNCHANGED [q \in Peers |-> Conn(q)]
    BY <2>1 DEF IInv, TypeOK, Conn
  <2>3. Conn(p) = "open" /\ ~received[p]
    BY <2>1 DEF IInv, ServiceInv, Conn
  <2>4. Abstract!Receive(p)
    BY <1>7, <2>2, <2>3 DEF read_until, Abstract!Receive
  <2>. QED
    BY <2>4 DEF Abstract!Next
<1>8. ASSUME NEW p \in Peers, write(p), UNCHANGED client
     PROVE  [Abstract!Next]_(Abstract!vars)
  <2>1. service[p] = "write" /\ service' = [service EXCEPT ![p] = "return"]
    BY <1>8, NextCall DEF write, Returns, IInv, TypeOK
  <2>2. UNCHANGED [q \in Peers |-> Conn(q)]
    BY <2>1 DEF IInv, TypeOK, Conn
  <2>3. Conn(p) = "open" /\ received[p] /\ answers[p] = 0
    BY <2>1 DEF IInv, ServiceInv, Conn
  <2>4. answers' = [answers EXCEPT ![p] = 1]
    BY <1>8, <2>3 DEF write, IInv, TypeOK
  <2>5. Abstract!Answer(p)
    BY <1>8, <2>2, <2>3, <2>4 DEF write, Abstract!Answer
  <2>. QED
    BY <2>5 DEF Abstract!Next
<1>9. ASSUME NEW p \in Peers, ServiceThrows(p), UNCHANGED client
     PROVE  [Abstract!Next]_(Abstract!vars)
  BY <1>9, WorkStep DEF ServiceThrows, IInv
<1>10. ASSUME NEW p \in Peers, AcceptReturns(p), UNCHANGED client
     PROVE  [Abstract!Next]_(Abstract!vars)
  BY <1>10, CloseStep DEF AcceptReturns
<1>11. ASSUME NEW p \in Peers, deleteThis(p), UNCHANGED client
     PROVE  [Abstract!Next]_(Abstract!vars)
  BY <1>11, CloseStep DEF deleteThis
<1>12. CASE Stop /\ UNCHANGED client
  BY <1>12 DEF Stop, acceptorVars, serviceVars, peerVars, Abstract!vars, Conn
<1>13. CASE join /\ UNCHANGED client
  BY <1>13 DEF join, acceptorVars, serviceVars, peerVars, Abstract!vars, Conn
<1>14. CASE (Exit \/ OrphanCrashes) /\ UNCHANGED client
  BY <1>14, EndStep DEF AcceptorThrows, AcceptThrows, Exit, OrphanCrashes, IInv
<1>15. ASSUME NEW p \in Peers, connect(p)
     PROVE  [Abstract!Next]_(Abstract!vars)
  BY <1>15 DEF connect, Connected, Call, acceptorVars, serviceVars, peerVars, Abstract!vars,
     Conn
<1>16. ASSUME NEW p \in Peers, sslConnect(p)
     PROVE  [Abstract!Next]_(Abstract!vars)
  BY <1>16 DEF sslConnect, Connected, Call, acceptorVars, serviceVars, Abstract!vars, Conn
<1>17. ASSUME NEW p \in Peers, handshakeReturns(p)
     PROVE  [Abstract!Next]_(Abstract!vars)
  BY <1>17 DEF handshakeReturns, Call, acceptorVars, serviceVars, peerVars, Abstract!vars,
     Conn
<1>18. ASSUME NEW p \in Peers, sendRequest(p)
     PROVE  [Abstract!Next]_(Abstract!vars)
  BY <1>18 DEF sendRequest, Call, acceptorVars, serviceVars, Abstract!vars, Conn
<1>19. ASSUME NEW p \in Peers, receiveResponse(p)
     PROVE  [Abstract!Next]_(Abstract!vars)
  BY <1>19 DEF receiveResponse, Call, acceptorVars, serviceVars, peerVars, Abstract!vars,
     Conn
<1>20. ASSUME NEW p \in Peers, close(p)
     PROVE  [Abstract!Next]_(Abstract!vars)
  BY <1>20 DEF close, Closes, Call, acceptorVars, serviceVars, Abstract!vars, Conn
<1>21. ASSUME NEW p \in Peers, sslClose(p)
     PROVE  [Abstract!Next]_(Abstract!vars)
  BY <1>21 DEF sslClose, Closes, Call, acceptorVars, serviceVars, Abstract!vars, Conn
<1>22. ASSUME NEW p \in Peers, Throws(p)
     PROVE  [Abstract!Next]_(Abstract!vars)
  BY <1>22 DEF Throws, Closes, Call, acceptorVars, serviceVars, Abstract!vars, Conn
<1>23. ASSUME NEW p \in Peers, Leave(p)
     PROVE  [Abstract!Next]_(Abstract!vars)
  BY <1>23 DEF Leave, Closes, Call, acceptorVars, serviceVars, Abstract!vars, Conn
<1>24. ASSUME NEW p \in Peers, answerHello(p), UNCHANGED client
     PROVE  [Abstract!Next]_(Abstract!vars)
  BY <1>24 DEF answerHello, acceptorVars, serviceVars, Abstract!vars, Conn
<1>25. ASSUME NEW p \in Peers, startHandshake(p)
     PROVE  [Abstract!Next]_(Abstract!vars)
  BY <1>25 DEF startHandshake, Call, acceptorVars, serviceVars, Abstract!vars, Conn
<1>26. ASSUME NEW p \in Peers, Garble(p)
     PROVE  [Abstract!Next]_(Abstract!vars)
  BY <1>26 DEF Garble, acceptorVars, serviceVars, Abstract!vars, Conn
<1>27. CASE UNCHANGED vars
  BY <1>27 DEF vars, serverVars, acceptorVars, serviceVars, peerVars, Abstract!vars, Conn
<1>. QED
  BY <1>1, <1>2, <1>3, <1>4, <1>5, <1>6, <1>7, <1>8, <1>9, <1>10, <1>11, <1>12, <1>13,
     <1>14, <1>15, <1>16, <1>17, <1>18, <1>19, <1>20, <1>21, <1>22, <1>23, <1>24, <1>25, <1>26,
     <1>27 DEF Next, ServerNext, RunStep, ServiceStep, ClientStep, Strangers

-----------------------------------------------------------------------------
(* The theorems.                                                           *)

\* The server has been started, nobody has connected.
LEMMA InitIInv == Init => IInv
<1>. SUFFICES ASSUME Init PROVE IInv
  OBVIOUS
<1>. USE NoneAssumption DEF Init, ServerInit
<1>1. TypeOK
  BY DEF TypeOK, Active
<1>2. BacklogInv /\ ServiceInv /\ CurrentInv /\ LateInv
  BY DEF BacklogInv, ServiceInv, CurrentInv, LateInv
<1>. QED
  BY <1>1, <1>2 DEF IInv

LEMMA IInvStep == IInv /\ [Next]_vars => IInv'
  BY TypeOKStep, BacklogInvStep, ServiceInvStep, CurrentInvStep, LateInvStep DEF IInv

\* The inductive invariant holds in every reachable state.
THEOREM IInvInvariant == Spec => []IInv
  BY InitIInv, IInvStep, PTL DEF Spec

\* Type correctness: an iterative server serves one connection at a time.
THEOREM TypeCorrect == Spec => []TypeOK
<1>1. IInv => TypeOK
  BY DEF IInv
<1>. QED
  BY <1>1, IInvInvariant, PTL

\* After m_stop is set one more connection is accepted at most, and the
\* Stop() of an iterative server leaves no service behind.
THEOREM StopLeavesNothing == Spec => []StopIsFinal
<1>1. ASSUME IInv PROVE StopIsFinal
  <2>1. Cardinality(late) <= 1
    <3>1. CASE late = {}
      BY <3>1, FS_EmptySet
    <3>2. CASE \E p \in Peers : late = {p}
      BY <3>2, FS_Singleton
    <3>. QED
      BY <1>1, <3>1, <3>2 DEF IInv, LateInv
  <2>2. ASSUME main = "leaving", kind # "parallel", NEW p \in Peers
        PROVE  ~Active(p)
    <3>1. current = None
      BY <1>1, <2>2 DEF IInv, LateInv, CurrentInv
    <3>. QED
      BY <1>1, <2>2, <3>1, NoneAssumption DEF IInv, TypeOK
  <2>. QED
    BY <2>1, <2>2 DEF StopIsFinal
<1>. QED
  BY <1>1, IInvInvariant, PTL

\* Each of the three servers implements RequestResponse.
THEOREM RequestResponseImplemented == Spec => ImplementsRequestResponse
<1>1. Init => Abstract!Init
  BY DEF Init, ServerInit, Abstract!Init, Conn
<1>. QED
  BY <1>1, AbstractStep, IInvInvariant, PTL
     DEF Spec, ImplementsRequestResponse, Abstract!Spec
=============================================================================
