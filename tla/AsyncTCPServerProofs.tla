------------------------ MODULE AsyncTCPServerProofs ------------------------
(***************************************************************************)
(* Proofs about AsyncTCPServer for every set of clients and every pool.    *)
(***************************************************************************)
EXTENDS AsyncTCPServer, TLAPS

\* One thread at most is in onAccept, and where the accept is determines
\* what exists of the connection it accepted.
AcceptInv ==
  /\ \A w \in Workers :
       pc[w] \in {"StartHandling", "checkStopped", "InitAccept"} => acceptor = "running"
  /\ \A v, w \in Workers :
       /\ pc[v] \in {"StartHandling", "checkStopped", "InitAccept"}
       /\ pc[w] \in {"StartHandling", "checkStopped", "InitAccept"}
       => v = w
  /\ accepted # None => acceptor = "queued" /\ service[accepted] = "none"
  /\ \A c \in Clients :
       client[c] \in {"away", "backlog"} => service[c] = "none" /\ accepted # c

\* A Service has answered only if its write callback is outstanding or
\* finishing it, and writes only what was requested.
AnswerInv ==
  \A c \in Clients :
    /\ service[c] = "none" => ~m_request[c] /\ answers[c] = 0 /\ op[c] = "none"
    /\ op[c] = "read" /\ status[c] # "idle" => ~m_request[c]
    /\ op[c] = "write" => m_request[c]
    /\ answers[c] # 0 => op[c] # "read"
    /\ op[c] = "write" /\ status[c] = "pending" => answers[c] = 0

\* Which operation of the Service a thread that works on it comes from.
WorkInv ==
  /\ \A w \in Workers :
       /\ pc[w] = "StartHandling" => 
            op[at[w]] = "none" /\ ~m_request[at[w]] /\ answers[at[w]] = 0
       /\ pc[w] \in {"ProcessRequest", "respond"} =>
            op[at[w]] = "read" /\ m_request[at[w]] /\ answers[at[w]] = 0
       /\ pc[w] = "respond" => m_response[at[w]]
  /\ \A c \in Clients : status[c] # "idle" => op[c] # "none"

\* A Service that is alive is being worked on or has an operation outstanding.
AliveInv ==
  \A c \in Clients :
    service[c] = "alive" =>
      \/ status[c] # "idle"
      \/ \E w \in Workers : pc[w] \in ServicePcs /\ at[w] = c

StopInv == main = "stopped" => \A w \in Workers : pc[w] = "stopped"

IInv ==
  /\ TypeOK
  /\ AcceptInv
  /\ NoUseAfterDelete
  /\ OneActivity
  /\ AnswerInv
  /\ WorkInv
  /\ AliveInv
  /\ StopInv

-----------------------------------------------------------------------------
(* The invariant holds initially and every step preserves it.              *)

LEMMA InitIInv == Init => IInv
<1>. SUFFICES ASSUME Init PROVE IInv
  OBVIOUS
<1>. USE NoneAssumption, WorkersAssumption, BoundAssumption DEF Init
<1>1. TypeOK
  <2>1. acceptErrors \in 0 .. MaxAcceptErrors
    OBVIOUS
  <2>2. \A w \in Workers : at[w] = None <=> pc[w] \notin ServicePcs
    BY DEF ServicePcs
  <2>. QED
    BY <2>1, <2>2 DEF TypeOK, Pcs
<1>2. AcceptInv /\ NoUseAfterDelete /\ OneActivity
  BY DEF AcceptInv, NoUseAfterDelete, OneActivity, ServicePcs
<1>3. AnswerInv /\ WorkInv /\ AliveInv /\ StopInv
  BY DEF AnswerInv, WorkInv, AliveInv, StopInv
<1>. QED
  BY <1>1, <1>2, <1>3 DEF IInv

LEMMA TypeOKStep == TypeOK /\ [Next]_vars => TypeOK'
<1>. SUFFICES ASSUME TypeOK, [Next]_vars PROVE TypeOK'
  OBVIOUS
<1>. USE NoneAssumption, BoundAssumption DEF TypeOK, Pcs, ServicePcs
<1>1. ASSUME NEW w \in Workers, onAccept(w)
     PROVE  TypeOK'
  BY <1>1 DEF onAccept, Ready, Goto, opVars, mainVars
<1>2. ASSUME NEW w \in Workers, onAcceptError(w)
     PROVE  TypeOK'
  BY <1>2 DEF onAcceptError, Ready, Goto, opVars, serviceVars, mainVars
<1>3. ASSUME NEW w \in Workers, StartHandling(w)
     PROVE  TypeOK'
  BY <1>3 DEF StartHandling, Begin, Goto, acceptorVars, serviceVars, mainVars
<1>4. ASSUME NEW w \in Workers, checkStopped(w)
     PROVE  TypeOK'
  BY <1>4 DEF checkStopped, Goto, acceptorVars, opVars, serviceVars, mainVars
<1>5. ASSUME NEW w \in Workers, InitAccept(w)
     PROVE  TypeOK'
  BY <1>5 DEF InitAccept, Goto, opVars, serviceVars, mainVars
<1>6. ASSUME NEW w \in Workers, closeAcceptor(w)
     PROVE  TypeOK'
  BY <1>6 DEF closeAcceptor, Goto, opVars, serviceVars, mainVars
<1>7. ASSUME NEW w \in Workers, NEW c \in Clients, onRequestReceived(w, c)
     PROVE  TypeOK'
  BY <1>7 DEF onRequestReceived, Take, Ready, Goto, acceptorVars, mainVars
<1>8. ASSUME NEW w \in Workers, NEW c \in Clients, onResponseSent(w, c)
     PROVE  TypeOK'
  BY <1>8 DEF onResponseSent, Take, Ready, Goto, acceptorVars, serviceVars, mainVars
<1>9. ASSUME NEW w \in Workers, ProcessRequest(w)
     PROVE  TypeOK'
  BY <1>9 DEF ProcessRequest, Goto, acceptorVars, opVars, mainVars
<1>10. ASSUME NEW w \in Workers, respond(w)
     PROVE  TypeOK'
  BY <1>10 DEF respond, Begin, Goto, acceptorVars, serviceVars, mainVars
<1>11. ASSUME NEW w \in Workers, onFinish(w)
     PROVE  TypeOK'
  BY <1>11 DEF onFinish, Goto, acceptorVars, mainVars
<1>12. ASSUME NEW w \in Workers, runReturns(w)
     PROVE  TypeOK'
  BY <1>12 DEF runReturns, Goto, acceptorVars, opVars, serviceVars, mainVars
<1>13. CASE StopAcceptor
  BY <1>13 DEF StopAcceptor, opVars, serviceVars, threadVars
<1>14. CASE StopContext
  BY <1>14 DEF StopContext, acceptorVars, opVars, serviceVars, threadVars
<1>15. CASE joinAll
  BY <1>15 DEF joinAll, AllJoined, acceptorVars, opVars, serviceVars, threadVars
<1>16. ASSUME NEW c \in Clients, AcceptDone(c)
     PROVE  TypeOK'
  BY <1>16 DEF AcceptDone, opVars, serviceVars, mainVars, threadVars
<1>17. ASSUME NEW c \in Clients, ReadDone(c)
     PROVE  TypeOK'
  BY <1>17 DEF ReadDone, EndOp, acceptorVars, serviceVars, mainVars, threadVars
<1>18. ASSUME NEW c \in Clients, WriteDone(c)
     PROVE  TypeOK'
  BY <1>18 DEF WriteDone, EndOp, acceptorVars, serviceVars, mainVars, threadVars
<1>19. ASSUME NEW c \in Clients, OpFails(c)
     PROVE  TypeOK'
  BY <1>19 DEF OpFails, EndOp, acceptorVars, serviceVars, mainVars, threadVars
<1>20. ASSUME NEW c \in Clients, Connect(c)
     PROVE  TypeOK'
  BY <1>20 DEF Connect, acceptorVars, opVars, serviceVars, mainVars, threadVars
<1>21. ASSUME NEW c \in Clients, Send(c)
     PROVE  TypeOK'
  BY <1>21 DEF Send, acceptorVars, opVars, serviceVars, mainVars, threadVars
<1>22. ASSUME NEW c \in Clients, Leave(c)
     PROVE  TypeOK'
  BY <1>22 DEF Leave, acceptorVars, opVars, serviceVars, mainVars, threadVars
<1>23. CASE AcceptFails
  BY <1>23 DEF AcceptFails, opVars, serviceVars, mainVars, threadVars
<1>24. CASE UNCHANGED vars
  BY <1>24 DEF vars, acceptorVars, opVars, serviceVars, mainVars, threadVars
<1>. QED
  BY <1>1, <1>2, <1>3, <1>4, <1>5, <1>6, <1>7, <1>8, <1>9, <1>10, <1>11, <1>12,
     <1>13, <1>14, <1>15, <1>16, <1>17, <1>18, <1>19, <1>20, <1>21, <1>22, <1>23, <1>24
     DEF Next, WorkerStep, Kernel, ClientStep

LEMMA AcceptInvStep == TypeOK /\ NoUseAfterDelete /\ AcceptInv /\ [Next]_vars => AcceptInv'
<1>. SUFFICES ASSUME TypeOK, NoUseAfterDelete, AcceptInv, [Next]_vars PROVE AcceptInv'
  OBVIOUS
<1>. USE NoneAssumption DEF TypeOK, ServicePcs, NoUseAfterDelete, AcceptInv
<1>1. ASSUME NEW w \in Workers, onAccept(w)
     PROVE  AcceptInv'
  BY <1>1 DEF onAccept, Ready, Goto, opVars, mainVars
<1>2. ASSUME NEW w \in Workers, onAcceptError(w)
     PROVE  AcceptInv'
  BY <1>2 DEF onAcceptError, Ready, Goto, opVars, serviceVars, mainVars
<1>3. ASSUME NEW w \in Workers, StartHandling(w)
     PROVE  AcceptInv'
  BY <1>3 DEF StartHandling, Begin, Goto, acceptorVars, serviceVars, mainVars
<1>4. ASSUME NEW w \in Workers, checkStopped(w)
     PROVE  AcceptInv'
  BY <1>4 DEF checkStopped, Goto, acceptorVars, opVars, serviceVars, mainVars
<1>5. ASSUME NEW w \in Workers, InitAccept(w)
     PROVE  AcceptInv'
  BY <1>5 DEF InitAccept, Goto, opVars, serviceVars, mainVars
<1>6. ASSUME NEW w \in Workers, closeAcceptor(w)
     PROVE  AcceptInv'
  BY <1>6 DEF closeAcceptor, Goto, opVars, serviceVars, mainVars
<1>7. ASSUME NEW w \in Workers, NEW c \in Clients, onRequestReceived(w, c)
     PROVE  AcceptInv'
  BY <1>7 DEF onRequestReceived, Take, Ready, Goto, acceptorVars, mainVars
<1>8. ASSUME NEW w \in Workers, NEW c \in Clients, onResponseSent(w, c)
     PROVE  AcceptInv'
  BY <1>8 DEF onResponseSent, Take, Ready, Goto, acceptorVars, serviceVars, mainVars
<1>9. ASSUME NEW w \in Workers, ProcessRequest(w)
     PROVE  AcceptInv'
  BY <1>9 DEF ProcessRequest, Goto, acceptorVars, opVars, mainVars
<1>10. ASSUME NEW w \in Workers, respond(w)
     PROVE  AcceptInv'
  BY <1>10 DEF respond, Begin, Goto, acceptorVars, serviceVars, mainVars
<1>11. ASSUME NEW w \in Workers, onFinish(w)
     PROVE  AcceptInv'
  BY <1>11 DEF onFinish, Goto, acceptorVars, mainVars
<1>12. ASSUME NEW w \in Workers, runReturns(w)
     PROVE  AcceptInv'
  BY <1>12 DEF runReturns, Goto, acceptorVars, opVars, serviceVars, mainVars
<1>13. CASE StopAcceptor
  BY <1>13 DEF StopAcceptor, opVars, serviceVars, threadVars
<1>14. CASE StopContext
  BY <1>14 DEF StopContext, acceptorVars, opVars, serviceVars, threadVars
<1>15. CASE joinAll
  BY <1>15 DEF joinAll, AllJoined, acceptorVars, opVars, serviceVars, threadVars
<1>16. ASSUME NEW c \in Clients, AcceptDone(c)
     PROVE  AcceptInv'
  BY <1>16 DEF AcceptDone, opVars, serviceVars, mainVars, threadVars
<1>17. ASSUME NEW c \in Clients, ReadDone(c)
     PROVE  AcceptInv'
  BY <1>17 DEF ReadDone, EndOp, acceptorVars, serviceVars, mainVars, threadVars
<1>18. ASSUME NEW c \in Clients, WriteDone(c)
     PROVE  AcceptInv'
  BY <1>18 DEF WriteDone, EndOp, acceptorVars, serviceVars, mainVars, threadVars
<1>19. ASSUME NEW c \in Clients, OpFails(c)
     PROVE  AcceptInv'
  BY <1>19 DEF OpFails, EndOp, acceptorVars, serviceVars, mainVars, threadVars
<1>20. ASSUME NEW c \in Clients, Connect(c)
     PROVE  AcceptInv'
  BY <1>20 DEF Connect, acceptorVars, opVars, serviceVars, mainVars, threadVars
<1>21. ASSUME NEW c \in Clients, Send(c)
     PROVE  AcceptInv'
  BY <1>21 DEF Send, acceptorVars, opVars, serviceVars, mainVars, threadVars
<1>22. ASSUME NEW c \in Clients, Leave(c)
     PROVE  AcceptInv'
  BY <1>22 DEF Leave, acceptorVars, opVars, serviceVars, mainVars, threadVars
<1>23. CASE AcceptFails
  BY <1>23 DEF AcceptFails, opVars, serviceVars, mainVars, threadVars
<1>24. CASE UNCHANGED vars
  BY <1>24 DEF vars, acceptorVars, opVars, serviceVars, mainVars, threadVars
<1>. QED
  BY <1>1, <1>2, <1>3, <1>4, <1>5, <1>6, <1>7, <1>8, <1>9, <1>10, <1>11, <1>12,
     <1>13, <1>14, <1>15, <1>16, <1>17, <1>18, <1>19, <1>20, <1>21, <1>22, <1>23, <1>24
     DEF Next, WorkerStep, Kernel, ClientStep

LEMMA NoUseStep == TypeOK /\ AcceptInv /\ OneActivity /\ NoUseAfterDelete /\ [Next]_vars => NoUseAfterDelete'
<1>. SUFFICES ASSUME TypeOK, AcceptInv, OneActivity, NoUseAfterDelete, [Next]_vars PROVE NoUseAfterDelete'
  OBVIOUS
<1>. USE NoneAssumption DEF TypeOK, Pcs, ServicePcs, AcceptInv, OneActivity, NoUseAfterDelete
<1>1. ASSUME NEW w \in Workers, onAccept(w)
     PROVE  NoUseAfterDelete'
  BY <1>1 DEF onAccept, Ready, Goto, opVars, mainVars
<1>2. ASSUME NEW w \in Workers, onAcceptError(w)
     PROVE  NoUseAfterDelete'
  BY <1>2 DEF onAcceptError, Ready, Goto, opVars, serviceVars, mainVars
<1>3. ASSUME NEW w \in Workers, StartHandling(w)
     PROVE  NoUseAfterDelete'
  BY <1>3 DEF StartHandling, Begin, Goto, acceptorVars, serviceVars, mainVars
<1>4. ASSUME NEW w \in Workers, checkStopped(w)
     PROVE  NoUseAfterDelete'
  BY <1>4 DEF checkStopped, Goto, acceptorVars, opVars, serviceVars, mainVars
<1>5. ASSUME NEW w \in Workers, InitAccept(w)
     PROVE  NoUseAfterDelete'
  BY <1>5 DEF InitAccept, Goto, opVars, serviceVars, mainVars
<1>6. ASSUME NEW w \in Workers, closeAcceptor(w)
     PROVE  NoUseAfterDelete'
  BY <1>6 DEF closeAcceptor, Goto, opVars, serviceVars, mainVars
<1>7. ASSUME NEW w \in Workers, NEW c \in Clients, onRequestReceived(w, c)
     PROVE  NoUseAfterDelete'
  BY <1>7 DEF onRequestReceived, Take, Ready, Goto, acceptorVars, mainVars
<1>8. ASSUME NEW w \in Workers, NEW c \in Clients, onResponseSent(w, c)
     PROVE  NoUseAfterDelete'
  BY <1>8 DEF onResponseSent, Take, Ready, Goto, acceptorVars, serviceVars, mainVars
<1>9. ASSUME NEW w \in Workers, ProcessRequest(w)
     PROVE  NoUseAfterDelete'
  BY <1>9 DEF ProcessRequest, Goto, acceptorVars, opVars, mainVars
<1>10. ASSUME NEW w \in Workers, respond(w)
     PROVE  NoUseAfterDelete'
  BY <1>10 DEF respond, Begin, Goto, acceptorVars, serviceVars, mainVars
<1>11. ASSUME NEW w \in Workers, onFinish(w)
     PROVE  NoUseAfterDelete'
  BY <1>11 DEF onFinish, Goto, acceptorVars, mainVars
<1>12. ASSUME NEW w \in Workers, runReturns(w)
     PROVE  NoUseAfterDelete'
  BY <1>12 DEF runReturns, Goto, acceptorVars, opVars, serviceVars, mainVars
<1>13. CASE StopAcceptor
  BY <1>13 DEF StopAcceptor, opVars, serviceVars, threadVars
<1>14. CASE StopContext
  BY <1>14 DEF StopContext, acceptorVars, opVars, serviceVars, threadVars
<1>15. CASE joinAll
  BY <1>15 DEF joinAll, AllJoined, acceptorVars, opVars, serviceVars, threadVars
<1>16. ASSUME NEW c \in Clients, AcceptDone(c)
     PROVE  NoUseAfterDelete'
  BY <1>16 DEF AcceptDone, opVars, serviceVars, mainVars, threadVars
<1>17. ASSUME NEW c \in Clients, ReadDone(c)
     PROVE  NoUseAfterDelete'
  BY <1>17 DEF ReadDone, EndOp, acceptorVars, serviceVars, mainVars, threadVars
<1>18. ASSUME NEW c \in Clients, WriteDone(c)
     PROVE  NoUseAfterDelete'
  BY <1>18 DEF WriteDone, EndOp, acceptorVars, serviceVars, mainVars, threadVars
<1>19. ASSUME NEW c \in Clients, OpFails(c)
     PROVE  NoUseAfterDelete'
  BY <1>19 DEF OpFails, EndOp, acceptorVars, serviceVars, mainVars, threadVars
<1>20. ASSUME NEW c \in Clients, Connect(c)
     PROVE  NoUseAfterDelete'
  BY <1>20 DEF Connect, acceptorVars, opVars, serviceVars, mainVars, threadVars
<1>21. ASSUME NEW c \in Clients, Send(c)
     PROVE  NoUseAfterDelete'
  BY <1>21 DEF Send, acceptorVars, opVars, serviceVars, mainVars, threadVars
<1>22. ASSUME NEW c \in Clients, Leave(c)
     PROVE  NoUseAfterDelete'
  BY <1>22 DEF Leave, acceptorVars, opVars, serviceVars, mainVars, threadVars
<1>23. CASE AcceptFails
  BY <1>23 DEF AcceptFails, opVars, serviceVars, mainVars, threadVars
<1>24. CASE UNCHANGED vars
  BY <1>24 DEF vars, acceptorVars, opVars, serviceVars, mainVars, threadVars
<1>. QED
  BY <1>1, <1>2, <1>3, <1>4, <1>5, <1>6, <1>7, <1>8, <1>9, <1>10, <1>11, <1>12,
     <1>13, <1>14, <1>15, <1>16, <1>17, <1>18, <1>19, <1>20, <1>21, <1>22, <1>23, <1>24
     DEF Next, WorkerStep, Kernel, ClientStep

LEMMA OneActivityStep == TypeOK /\ AcceptInv /\ NoUseAfterDelete /\ WorkInv /\ OneActivity /\ [Next]_vars => OneActivity'
<1>. SUFFICES ASSUME TypeOK, AcceptInv, NoUseAfterDelete, WorkInv, OneActivity, [Next]_vars PROVE OneActivity'
  OBVIOUS
<1>. USE NoneAssumption DEF TypeOK, Pcs, ServicePcs, AcceptInv, NoUseAfterDelete, WorkInv, OneActivity
<1>1. ASSUME NEW w \in Workers, onAccept(w)
     PROVE  OneActivity'
  BY <1>1 DEF onAccept, Ready, Goto, opVars, mainVars
<1>2. ASSUME NEW w \in Workers, onAcceptError(w)
     PROVE  OneActivity'
  BY <1>2 DEF onAcceptError, Ready, Goto, opVars, serviceVars, mainVars
<1>3. ASSUME NEW w \in Workers, StartHandling(w)
     PROVE  OneActivity'
  BY <1>3 DEF StartHandling, Begin, Goto, acceptorVars, serviceVars, mainVars
<1>4. ASSUME NEW w \in Workers, checkStopped(w)
     PROVE  OneActivity'
  BY <1>4 DEF checkStopped, Goto, acceptorVars, opVars, serviceVars, mainVars
<1>5. ASSUME NEW w \in Workers, InitAccept(w)
     PROVE  OneActivity'
  BY <1>5 DEF InitAccept, Goto, opVars, serviceVars, mainVars
<1>6. ASSUME NEW w \in Workers, closeAcceptor(w)
     PROVE  OneActivity'
  BY <1>6 DEF closeAcceptor, Goto, opVars, serviceVars, mainVars
<1>7. ASSUME NEW w \in Workers, NEW c \in Clients, onRequestReceived(w, c)
     PROVE  OneActivity'
  BY <1>7 DEF onRequestReceived, Take, Ready, Goto, acceptorVars, mainVars
<1>8. ASSUME NEW w \in Workers, NEW c \in Clients, onResponseSent(w, c)
     PROVE  OneActivity'
  BY <1>8 DEF onResponseSent, Take, Ready, Goto, acceptorVars, serviceVars, mainVars
<1>9. ASSUME NEW w \in Workers, ProcessRequest(w)
     PROVE  OneActivity'
  BY <1>9 DEF ProcessRequest, Goto, acceptorVars, opVars, mainVars
<1>10. ASSUME NEW w \in Workers, respond(w)
     PROVE  OneActivity'
  BY <1>10 DEF respond, Begin, Goto, acceptorVars, serviceVars, mainVars
<1>11. ASSUME NEW w \in Workers, onFinish(w)
     PROVE  OneActivity'
  BY <1>11 DEF onFinish, Goto, acceptorVars, mainVars
<1>12. ASSUME NEW w \in Workers, runReturns(w)
     PROVE  OneActivity'
  BY <1>12 DEF runReturns, Goto, acceptorVars, opVars, serviceVars, mainVars
<1>13. CASE StopAcceptor
  BY <1>13 DEF StopAcceptor, opVars, serviceVars, threadVars
<1>14. CASE StopContext
  BY <1>14 DEF StopContext, acceptorVars, opVars, serviceVars, threadVars
<1>15. CASE joinAll
  BY <1>15 DEF joinAll, AllJoined, acceptorVars, opVars, serviceVars, threadVars
<1>16. ASSUME NEW c \in Clients, AcceptDone(c)
     PROVE  OneActivity'
  BY <1>16 DEF AcceptDone, opVars, serviceVars, mainVars, threadVars
<1>17. ASSUME NEW c \in Clients, ReadDone(c)
     PROVE  OneActivity'
  BY <1>17 DEF ReadDone, EndOp, acceptorVars, serviceVars, mainVars, threadVars
<1>18. ASSUME NEW c \in Clients, WriteDone(c)
     PROVE  OneActivity'
  BY <1>18 DEF WriteDone, EndOp, acceptorVars, serviceVars, mainVars, threadVars
<1>19. ASSUME NEW c \in Clients, OpFails(c)
     PROVE  OneActivity'
  BY <1>19 DEF OpFails, EndOp, acceptorVars, serviceVars, mainVars, threadVars
<1>20. ASSUME NEW c \in Clients, Connect(c)
     PROVE  OneActivity'
  BY <1>20 DEF Connect, acceptorVars, opVars, serviceVars, mainVars, threadVars
<1>21. ASSUME NEW c \in Clients, Send(c)
     PROVE  OneActivity'
  BY <1>21 DEF Send, acceptorVars, opVars, serviceVars, mainVars, threadVars
<1>22. ASSUME NEW c \in Clients, Leave(c)
     PROVE  OneActivity'
  BY <1>22 DEF Leave, acceptorVars, opVars, serviceVars, mainVars, threadVars
<1>23. CASE AcceptFails
  BY <1>23 DEF AcceptFails, opVars, serviceVars, mainVars, threadVars
<1>24. CASE UNCHANGED vars
  BY <1>24 DEF vars, acceptorVars, opVars, serviceVars, mainVars, threadVars
<1>. QED
  BY <1>1, <1>2, <1>3, <1>4, <1>5, <1>6, <1>7, <1>8, <1>9, <1>10, <1>11, <1>12,
     <1>13, <1>14, <1>15, <1>16, <1>17, <1>18, <1>19, <1>20, <1>21, <1>22, <1>23, <1>24
     DEF Next, WorkerStep, Kernel, ClientStep

LEMMA AnswerInvStep == TypeOK /\ NoUseAfterDelete /\ AcceptInv /\ WorkInv /\ AnswerInv /\ [Next]_vars => AnswerInv'
<1>. SUFFICES ASSUME TypeOK, NoUseAfterDelete, AcceptInv, WorkInv, AnswerInv, [Next]_vars PROVE AnswerInv'
  OBVIOUS
<1>. USE NoneAssumption DEF TypeOK, ServicePcs, AcceptInv, NoUseAfterDelete, WorkInv, AnswerInv
<1>1. ASSUME NEW w \in Workers, onAccept(w)
     PROVE  AnswerInv'
  BY <1>1 DEF onAccept, Ready, Goto, opVars, mainVars
<1>2. ASSUME NEW w \in Workers, onAcceptError(w)
     PROVE  AnswerInv'
  BY <1>2 DEF onAcceptError, Ready, Goto, opVars, serviceVars, mainVars
<1>3. ASSUME NEW w \in Workers, StartHandling(w)
     PROVE  AnswerInv'
  BY <1>3 DEF StartHandling, Begin, Goto, acceptorVars, serviceVars, mainVars
<1>4. ASSUME NEW w \in Workers, checkStopped(w)
     PROVE  AnswerInv'
  BY <1>4 DEF checkStopped, Goto, acceptorVars, opVars, serviceVars, mainVars
<1>5. ASSUME NEW w \in Workers, InitAccept(w)
     PROVE  AnswerInv'
  BY <1>5 DEF InitAccept, Goto, opVars, serviceVars, mainVars
<1>6. ASSUME NEW w \in Workers, closeAcceptor(w)
     PROVE  AnswerInv'
  BY <1>6 DEF closeAcceptor, Goto, opVars, serviceVars, mainVars
<1>7. ASSUME NEW w \in Workers, NEW c \in Clients, onRequestReceived(w, c)
     PROVE  AnswerInv'
  BY <1>7 DEF onRequestReceived, Take, Ready, Goto, acceptorVars, mainVars
<1>8. ASSUME NEW w \in Workers, NEW c \in Clients, onResponseSent(w, c)
     PROVE  AnswerInv'
  BY <1>8 DEF onResponseSent, Take, Ready, Goto, acceptorVars, serviceVars, mainVars
<1>9. ASSUME NEW w \in Workers, ProcessRequest(w)
     PROVE  AnswerInv'
  BY <1>9 DEF ProcessRequest, Goto, acceptorVars, opVars, mainVars
<1>10. ASSUME NEW w \in Workers, respond(w)
     PROVE  AnswerInv'
  BY <1>10 DEF respond, Begin, Goto, acceptorVars, serviceVars, mainVars
<1>11. ASSUME NEW w \in Workers, onFinish(w)
     PROVE  AnswerInv'
  BY <1>11 DEF onFinish, Goto, acceptorVars, mainVars
<1>12. ASSUME NEW w \in Workers, runReturns(w)
     PROVE  AnswerInv'
  BY <1>12 DEF runReturns, Goto, acceptorVars, opVars, serviceVars, mainVars
<1>13. CASE StopAcceptor
  BY <1>13 DEF StopAcceptor, opVars, serviceVars, threadVars
<1>14. CASE StopContext
  BY <1>14 DEF StopContext, acceptorVars, opVars, serviceVars, threadVars
<1>15. CASE joinAll
  BY <1>15 DEF joinAll, AllJoined, acceptorVars, opVars, serviceVars, threadVars
<1>16. ASSUME NEW c \in Clients, AcceptDone(c)
     PROVE  AnswerInv'
  BY <1>16 DEF AcceptDone, opVars, serviceVars, mainVars, threadVars
<1>17. ASSUME NEW c \in Clients, ReadDone(c)
     PROVE  AnswerInv'
  BY <1>17 DEF ReadDone, EndOp, acceptorVars, serviceVars, mainVars, threadVars
<1>18. ASSUME NEW c \in Clients, WriteDone(c)
     PROVE  AnswerInv'
  BY <1>18 DEF WriteDone, EndOp, acceptorVars, serviceVars, mainVars, threadVars
<1>19. ASSUME NEW c \in Clients, OpFails(c)
     PROVE  AnswerInv'
  BY <1>19 DEF OpFails, EndOp, acceptorVars, serviceVars, mainVars, threadVars
<1>20. ASSUME NEW c \in Clients, Connect(c)
     PROVE  AnswerInv'
  BY <1>20 DEF Connect, acceptorVars, opVars, serviceVars, mainVars, threadVars
<1>21. ASSUME NEW c \in Clients, Send(c)
     PROVE  AnswerInv'
  BY <1>21 DEF Send, acceptorVars, opVars, serviceVars, mainVars, threadVars
<1>22. ASSUME NEW c \in Clients, Leave(c)
     PROVE  AnswerInv'
  BY <1>22 DEF Leave, acceptorVars, opVars, serviceVars, mainVars, threadVars
<1>23. CASE AcceptFails
  BY <1>23 DEF AcceptFails, opVars, serviceVars, mainVars, threadVars
<1>24. CASE UNCHANGED vars
  BY <1>24 DEF vars, acceptorVars, opVars, serviceVars, mainVars, threadVars
<1>. QED
  BY <1>1, <1>2, <1>3, <1>4, <1>5, <1>6, <1>7, <1>8, <1>9, <1>10, <1>11, <1>12,
     <1>13, <1>14, <1>15, <1>16, <1>17, <1>18, <1>19, <1>20, <1>21, <1>22, <1>23, <1>24
     DEF Next, WorkerStep, Kernel, ClientStep

LEMMA WorkInvStep == TypeOK /\ AcceptInv /\ NoUseAfterDelete /\ OneActivity /\ AnswerInv /\ WorkInv /\ [Next]_vars => WorkInv'
<1>. SUFFICES ASSUME TypeOK, AcceptInv, NoUseAfterDelete, OneActivity, AnswerInv, WorkInv, [Next]_vars PROVE WorkInv'
  OBVIOUS
<1>. USE NoneAssumption DEF TypeOK, Pcs, ServicePcs, AcceptInv, NoUseAfterDelete, OneActivity, AnswerInv, WorkInv
<1>1. ASSUME NEW w \in Workers, onAccept(w)
     PROVE  WorkInv'
  BY <1>1 DEF onAccept, Ready, Goto, opVars, mainVars
<1>2. ASSUME NEW w \in Workers, onAcceptError(w)
     PROVE  WorkInv'
  BY <1>2 DEF onAcceptError, Ready, Goto, opVars, serviceVars, mainVars
<1>3. ASSUME NEW w \in Workers, StartHandling(w)
     PROVE  WorkInv'
  BY <1>3 DEF StartHandling, Begin, Goto, acceptorVars, serviceVars, mainVars
<1>4. ASSUME NEW w \in Workers, checkStopped(w)
     PROVE  WorkInv'
  BY <1>4 DEF checkStopped, Goto, acceptorVars, opVars, serviceVars, mainVars
<1>5. ASSUME NEW w \in Workers, InitAccept(w)
     PROVE  WorkInv'
  BY <1>5 DEF InitAccept, Goto, opVars, serviceVars, mainVars
<1>6. ASSUME NEW w \in Workers, closeAcceptor(w)
     PROVE  WorkInv'
  BY <1>6 DEF closeAcceptor, Goto, opVars, serviceVars, mainVars
<1>7. ASSUME NEW w \in Workers, NEW c \in Clients, onRequestReceived(w, c)
     PROVE  WorkInv'
  BY <1>7 DEF onRequestReceived, Take, Ready, Goto, acceptorVars, mainVars
<1>8. ASSUME NEW w \in Workers, NEW c \in Clients, onResponseSent(w, c)
     PROVE  WorkInv'
  BY <1>8 DEF onResponseSent, Take, Ready, Goto, acceptorVars, serviceVars, mainVars
<1>9. ASSUME NEW w \in Workers, ProcessRequest(w)
     PROVE  WorkInv'
  BY <1>9 DEF ProcessRequest, Goto, acceptorVars, opVars, mainVars
<1>10. ASSUME NEW w \in Workers, respond(w)
     PROVE  WorkInv'
  BY <1>10 DEF respond, Begin, Goto, acceptorVars, serviceVars, mainVars
<1>11. ASSUME NEW w \in Workers, onFinish(w)
     PROVE  WorkInv'
  BY <1>11 DEF onFinish, Goto, acceptorVars, mainVars
<1>12. ASSUME NEW w \in Workers, runReturns(w)
     PROVE  WorkInv'
  BY <1>12 DEF runReturns, Goto, acceptorVars, opVars, serviceVars, mainVars
<1>13. CASE StopAcceptor
  BY <1>13 DEF StopAcceptor, opVars, serviceVars, threadVars
<1>14. CASE StopContext
  BY <1>14 DEF StopContext, acceptorVars, opVars, serviceVars, threadVars
<1>15. CASE joinAll
  BY <1>15 DEF joinAll, AllJoined, acceptorVars, opVars, serviceVars, threadVars
<1>16. ASSUME NEW c \in Clients, AcceptDone(c)
     PROVE  WorkInv'
  BY <1>16 DEF AcceptDone, opVars, serviceVars, mainVars, threadVars
<1>17. ASSUME NEW c \in Clients, ReadDone(c)
     PROVE  WorkInv'
  BY <1>17 DEF ReadDone, EndOp, acceptorVars, serviceVars, mainVars, threadVars
<1>18. ASSUME NEW c \in Clients, WriteDone(c)
     PROVE  WorkInv'
  BY <1>18 DEF WriteDone, EndOp, acceptorVars, serviceVars, mainVars, threadVars
<1>19. ASSUME NEW c \in Clients, OpFails(c)
     PROVE  WorkInv'
  BY <1>19 DEF OpFails, EndOp, acceptorVars, serviceVars, mainVars, threadVars
<1>20. ASSUME NEW c \in Clients, Connect(c)
     PROVE  WorkInv'
  BY <1>20 DEF Connect, acceptorVars, opVars, serviceVars, mainVars, threadVars
<1>21. ASSUME NEW c \in Clients, Send(c)
     PROVE  WorkInv'
  BY <1>21 DEF Send, acceptorVars, opVars, serviceVars, mainVars, threadVars
<1>22. ASSUME NEW c \in Clients, Leave(c)
     PROVE  WorkInv'
  BY <1>22 DEF Leave, acceptorVars, opVars, serviceVars, mainVars, threadVars
<1>23. CASE AcceptFails
  BY <1>23 DEF AcceptFails, opVars, serviceVars, mainVars, threadVars
<1>24. CASE UNCHANGED vars
  BY <1>24 DEF vars, acceptorVars, opVars, serviceVars, mainVars, threadVars
<1>. QED
  BY <1>1, <1>2, <1>3, <1>4, <1>5, <1>6, <1>7, <1>8, <1>9, <1>10, <1>11, <1>12,
     <1>13, <1>14, <1>15, <1>16, <1>17, <1>18, <1>19, <1>20, <1>21, <1>22, <1>23, <1>24
     DEF Next, WorkerStep, Kernel, ClientStep

LEMMA AliveInvStep == TypeOK /\ OneActivity /\ AliveInv /\ [Next]_vars => AliveInv'
<1>. SUFFICES ASSUME TypeOK, OneActivity, AliveInv, [Next]_vars PROVE AliveInv'
  OBVIOUS
<1>. USE NoneAssumption DEF TypeOK, Pcs, ServicePcs, OneActivity, AliveInv
<1>1. ASSUME NEW w \in Workers, onAccept(w)
     PROVE  AliveInv'
  BY <1>1 DEF onAccept, Ready, Goto, opVars, mainVars
<1>2. ASSUME NEW w \in Workers, onAcceptError(w)
     PROVE  AliveInv'
  BY <1>2 DEF onAcceptError, Ready, Goto, opVars, serviceVars, mainVars
<1>3. ASSUME NEW w \in Workers, StartHandling(w)
     PROVE  AliveInv'
  BY <1>3 DEF StartHandling, Begin, Goto, acceptorVars, serviceVars, mainVars
<1>4. ASSUME NEW w \in Workers, checkStopped(w)
     PROVE  AliveInv'
  BY <1>4 DEF checkStopped, Goto, acceptorVars, opVars, serviceVars, mainVars
<1>5. ASSUME NEW w \in Workers, InitAccept(w)
     PROVE  AliveInv'
  BY <1>5 DEF InitAccept, Goto, opVars, serviceVars, mainVars
<1>6. ASSUME NEW w \in Workers, closeAcceptor(w)
     PROVE  AliveInv'
  BY <1>6 DEF closeAcceptor, Goto, opVars, serviceVars, mainVars
<1>7. ASSUME NEW w \in Workers, NEW c \in Clients, onRequestReceived(w, c)
     PROVE  AliveInv'
  BY <1>7 DEF onRequestReceived, Take, Ready, Goto, acceptorVars, mainVars
<1>8. ASSUME NEW w \in Workers, NEW c \in Clients, onResponseSent(w, c)
     PROVE  AliveInv'
  BY <1>8 DEF onResponseSent, Take, Ready, Goto, acceptorVars, serviceVars, mainVars
<1>9. ASSUME NEW w \in Workers, ProcessRequest(w)
     PROVE  AliveInv'
  BY <1>9 DEF ProcessRequest, Goto, acceptorVars, opVars, mainVars
<1>10. ASSUME NEW w \in Workers, respond(w)
     PROVE  AliveInv'
  BY <1>10 DEF respond, Begin, Goto, acceptorVars, serviceVars, mainVars
<1>11. ASSUME NEW w \in Workers, onFinish(w)
     PROVE  AliveInv'
  BY <1>11 DEF onFinish, Goto, acceptorVars, mainVars
<1>12. ASSUME NEW w \in Workers, runReturns(w)
     PROVE  AliveInv'
  BY <1>12 DEF runReturns, Goto, acceptorVars, opVars, serviceVars, mainVars
<1>13. CASE StopAcceptor
  BY <1>13 DEF StopAcceptor, opVars, serviceVars, threadVars
<1>14. CASE StopContext
  BY <1>14 DEF StopContext, acceptorVars, opVars, serviceVars, threadVars
<1>15. CASE joinAll
  BY <1>15 DEF joinAll, AllJoined, acceptorVars, opVars, serviceVars, threadVars
<1>16. ASSUME NEW c \in Clients, AcceptDone(c)
     PROVE  AliveInv'
  BY <1>16 DEF AcceptDone, opVars, serviceVars, mainVars, threadVars
<1>17. ASSUME NEW c \in Clients, ReadDone(c)
     PROVE  AliveInv'
  BY <1>17 DEF ReadDone, EndOp, acceptorVars, serviceVars, mainVars, threadVars
<1>18. ASSUME NEW c \in Clients, WriteDone(c)
     PROVE  AliveInv'
  BY <1>18 DEF WriteDone, EndOp, acceptorVars, serviceVars, mainVars, threadVars
<1>19. ASSUME NEW c \in Clients, OpFails(c)
     PROVE  AliveInv'
  BY <1>19 DEF OpFails, EndOp, acceptorVars, serviceVars, mainVars, threadVars
<1>20. ASSUME NEW c \in Clients, Connect(c)
     PROVE  AliveInv'
  BY <1>20 DEF Connect, acceptorVars, opVars, serviceVars, mainVars, threadVars
<1>21. ASSUME NEW c \in Clients, Send(c)
     PROVE  AliveInv'
  BY <1>21 DEF Send, acceptorVars, opVars, serviceVars, mainVars, threadVars
<1>22. ASSUME NEW c \in Clients, Leave(c)
     PROVE  AliveInv'
  BY <1>22 DEF Leave, acceptorVars, opVars, serviceVars, mainVars, threadVars
<1>23. CASE AcceptFails
  BY <1>23 DEF AcceptFails, opVars, serviceVars, mainVars, threadVars
<1>24. CASE UNCHANGED vars
  BY <1>24 DEF vars, acceptorVars, opVars, serviceVars, mainVars, threadVars
<1>. QED
  BY <1>1, <1>2, <1>3, <1>4, <1>5, <1>6, <1>7, <1>8, <1>9, <1>10, <1>11, <1>12,
     <1>13, <1>14, <1>15, <1>16, <1>17, <1>18, <1>19, <1>20, <1>21, <1>22, <1>23, <1>24
     DEF Next, WorkerStep, Kernel, ClientStep

LEMMA StopInvStep == TypeOK /\ StopInv /\ [Next]_vars => StopInv'
<1>. SUFFICES ASSUME TypeOK, StopInv, [Next]_vars PROVE StopInv'
  OBVIOUS
<1>. USE NoneAssumption DEF TypeOK, Pcs, StopInv
<1>1. ASSUME NEW w \in Workers, onAccept(w)
     PROVE  StopInv'
  BY <1>1 DEF onAccept, Ready, Goto, opVars, mainVars
<1>2. ASSUME NEW w \in Workers, onAcceptError(w)
     PROVE  StopInv'
  BY <1>2 DEF onAcceptError, Ready, Goto, opVars, serviceVars, mainVars
<1>3. ASSUME NEW w \in Workers, StartHandling(w)
     PROVE  StopInv'
  BY <1>3 DEF StartHandling, Begin, Goto, acceptorVars, serviceVars, mainVars
<1>4. ASSUME NEW w \in Workers, checkStopped(w)
     PROVE  StopInv'
  BY <1>4 DEF checkStopped, Goto, acceptorVars, opVars, serviceVars, mainVars
<1>5. ASSUME NEW w \in Workers, InitAccept(w)
     PROVE  StopInv'
  BY <1>5 DEF InitAccept, Goto, opVars, serviceVars, mainVars
<1>6. ASSUME NEW w \in Workers, closeAcceptor(w)
     PROVE  StopInv'
  BY <1>6 DEF closeAcceptor, Goto, opVars, serviceVars, mainVars
<1>7. ASSUME NEW w \in Workers, NEW c \in Clients, onRequestReceived(w, c)
     PROVE  StopInv'
  BY <1>7 DEF onRequestReceived, Take, Ready, Goto, acceptorVars, mainVars
<1>8. ASSUME NEW w \in Workers, NEW c \in Clients, onResponseSent(w, c)
     PROVE  StopInv'
  BY <1>8 DEF onResponseSent, Take, Ready, Goto, acceptorVars, serviceVars, mainVars
<1>9. ASSUME NEW w \in Workers, ProcessRequest(w)
     PROVE  StopInv'
  BY <1>9 DEF ProcessRequest, Goto, acceptorVars, opVars, mainVars
<1>10. ASSUME NEW w \in Workers, respond(w)
     PROVE  StopInv'
  BY <1>10 DEF respond, Begin, Goto, acceptorVars, serviceVars, mainVars
<1>11. ASSUME NEW w \in Workers, onFinish(w)
     PROVE  StopInv'
  BY <1>11 DEF onFinish, Goto, acceptorVars, mainVars
<1>12. ASSUME NEW w \in Workers, runReturns(w)
     PROVE  StopInv'
  BY <1>12 DEF runReturns, Goto, acceptorVars, opVars, serviceVars, mainVars
<1>13. CASE StopAcceptor
  BY <1>13 DEF StopAcceptor, opVars, serviceVars, threadVars
<1>14. CASE StopContext
  BY <1>14 DEF StopContext, acceptorVars, opVars, serviceVars, threadVars
<1>15. CASE joinAll
  BY <1>15 DEF joinAll, AllJoined, acceptorVars, opVars, serviceVars, threadVars
<1>16. ASSUME NEW c \in Clients, AcceptDone(c)
     PROVE  StopInv'
  BY <1>16 DEF AcceptDone, opVars, serviceVars, mainVars, threadVars
<1>17. ASSUME NEW c \in Clients, ReadDone(c)
     PROVE  StopInv'
  BY <1>17 DEF ReadDone, EndOp, acceptorVars, serviceVars, mainVars, threadVars
<1>18. ASSUME NEW c \in Clients, WriteDone(c)
     PROVE  StopInv'
  BY <1>18 DEF WriteDone, EndOp, acceptorVars, serviceVars, mainVars, threadVars
<1>19. ASSUME NEW c \in Clients, OpFails(c)
     PROVE  StopInv'
  BY <1>19 DEF OpFails, EndOp, acceptorVars, serviceVars, mainVars, threadVars
<1>20. ASSUME NEW c \in Clients, Connect(c)
     PROVE  StopInv'
  BY <1>20 DEF Connect, acceptorVars, opVars, serviceVars, mainVars, threadVars
<1>21. ASSUME NEW c \in Clients, Send(c)
     PROVE  StopInv'
  BY <1>21 DEF Send, acceptorVars, opVars, serviceVars, mainVars, threadVars
<1>22. ASSUME NEW c \in Clients, Leave(c)
     PROVE  StopInv'
  BY <1>22 DEF Leave, acceptorVars, opVars, serviceVars, mainVars, threadVars
<1>23. CASE AcceptFails
  BY <1>23 DEF AcceptFails, opVars, serviceVars, mainVars, threadVars
<1>24. CASE UNCHANGED vars
  BY <1>24 DEF vars, acceptorVars, opVars, serviceVars, mainVars, threadVars
<1>. QED
  BY <1>1, <1>2, <1>3, <1>4, <1>5, <1>6, <1>7, <1>8, <1>9, <1>10, <1>11, <1>12,
     <1>13, <1>14, <1>15, <1>16, <1>17, <1>18, <1>19, <1>20, <1>21, <1>22, <1>23, <1>24
     DEF Next, WorkerStep, Kernel, ClientStep

LEMMA AbstractStep == IInv /\ [Next]_vars => [Abstract!Next]_(Abstract!vars)
<1>. SUFFICES ASSUME IInv, [Next]_vars PROVE [Abstract!Next]_(Abstract!vars)
  OBVIOUS
<1>. USE NoneAssumption
<1>1. ASSUME NEW w \in Workers, onAccept(w)
     PROVE  [Abstract!Next]_(Abstract!vars)
  <2>1. accepted \in Clients /\ Conn(accepted) = "none"
    BY <1>1 DEF onAccept, IInv, TypeOK, AcceptInv, Conn
  <2>2. \A c \in Clients : Conn(c)' = IF c = accepted THEN "open" ELSE Conn(c)
    BY <1>1, <2>1 DEF onAccept, IInv, TypeOK, Conn
  <2>3. [c \in Clients |-> Conn(c)]'
          = [[c \in Clients |-> Conn(c)] EXCEPT ![accepted] = "open"]
    BY <2>2
  <2>4. Abstract!Open(accepted)
    BY <1>1, <2>1, <2>3 DEF onAccept, Abstract!Open
  <2>. QED
    BY <2>1, <2>4 DEF Abstract!Next
<1>2. ASSUME NEW w \in Workers, onAcceptError(w)
     PROVE  [Abstract!Next]_(Abstract!vars)
  BY <1>2 DEF onAcceptError, Ready, Goto, opVars, serviceVars, mainVars, Abstract!vars, Conn
<1>3. ASSUME NEW w \in Workers, StartHandling(w)
     PROVE  [Abstract!Next]_(Abstract!vars)
  BY <1>3 DEF StartHandling, Begin, Goto, acceptorVars, serviceVars, mainVars, Abstract!vars, Conn
<1>4. ASSUME NEW w \in Workers, checkStopped(w)
     PROVE  [Abstract!Next]_(Abstract!vars)
  BY <1>4 DEF checkStopped, Goto, acceptorVars, opVars, serviceVars, mainVars, Abstract!vars, Conn
<1>5. ASSUME NEW w \in Workers, InitAccept(w)
     PROVE  [Abstract!Next]_(Abstract!vars)
  BY <1>5 DEF InitAccept, Goto, opVars, serviceVars, mainVars, Abstract!vars, Conn
<1>6. ASSUME NEW w \in Workers, closeAcceptor(w)
     PROVE  [Abstract!Next]_(Abstract!vars)
  BY <1>6 DEF closeAcceptor, Goto, opVars, serviceVars, mainVars, Abstract!vars, Conn
<1>7. ASSUME NEW w \in Workers, NEW c \in Clients, onRequestReceived(w, c)
     PROVE  [Abstract!Next]_(Abstract!vars)
  <2>1. UNCHANGED <<service, answers>>
    BY <1>7 DEF onRequestReceived
  <2>2. CASE result[c] = "success"
    <3>1. Conn(c) = "open" /\ ~m_request[c]
      BY <1>7 DEF onRequestReceived, Take, IInv, NoUseAfterDelete, AnswerInv, Conn
    <3>2. m_request' = [m_request EXCEPT ![c] = TRUE]
      BY <1>7, <2>2 DEF onRequestReceived
    <3>3. UNCHANGED [d \in Clients |-> Conn(d)]
      BY <2>1 DEF Conn
    <3>4. Abstract!Receive(c)
      BY <2>1, <3>1, <3>2, <3>3 DEF Abstract!Receive
    <3>. QED
      BY <3>4 DEF Abstract!Next
  <2>3. CASE result[c] # "success"
    <3>1. m_request' = m_request
      BY <1>7, <2>3 DEF onRequestReceived, IInv, TypeOK
    <3>. QED
      BY <2>1, <3>1 DEF Abstract!vars, Conn
  <2>. QED
    BY <2>2, <2>3
<1>8. ASSUME NEW w \in Workers, NEW c \in Clients, onResponseSent(w, c)
     PROVE  [Abstract!Next]_(Abstract!vars)
  BY <1>8 DEF onResponseSent, Take, Ready, Goto, acceptorVars, serviceVars, mainVars, Abstract!vars, Conn
<1>9. ASSUME NEW w \in Workers, ProcessRequest(w)
     PROVE  [Abstract!Next]_(Abstract!vars)
  BY <1>9 DEF ProcessRequest, Goto, acceptorVars, opVars, mainVars, Abstract!vars, Conn
<1>10. ASSUME NEW w \in Workers, respond(w)
     PROVE  [Abstract!Next]_(Abstract!vars)
  BY <1>10 DEF respond, Begin, Goto, acceptorVars, serviceVars, mainVars, Abstract!vars, Conn
<1>11. ASSUME NEW w \in Workers, onFinish(w)
     PROVE  [Abstract!Next]_(Abstract!vars)
  <2>1. at[w] \in Clients /\ Conn(at[w]) = "open"
    BY <1>11 DEF onFinish, IInv, TypeOK, ServicePcs, NoUseAfterDelete, Conn
  <2>2. \A c \in Clients : Conn(c)' = IF c = at[w] THEN "closed" ELSE Conn(c)
    BY <1>11, <2>1 DEF onFinish, IInv, TypeOK, Conn
  <2>3. [c \in Clients |-> Conn(c)]'
          = [[c \in Clients |-> Conn(c)] EXCEPT ![at[w]] = "closed"]
    BY <2>2
  <2>4. Abstract!Close(at[w])
    BY <1>11, <2>1, <2>3 DEF onFinish, Abstract!Close
  <2>. QED
    BY <2>1, <2>4 DEF Abstract!Next
<1>12. ASSUME NEW w \in Workers, runReturns(w)
     PROVE  [Abstract!Next]_(Abstract!vars)
  BY <1>12 DEF runReturns, Goto, acceptorVars, opVars, serviceVars, mainVars, Abstract!vars, Conn
<1>13. CASE StopAcceptor
  BY <1>13 DEF StopAcceptor, opVars, serviceVars, threadVars, Abstract!vars, Conn
<1>14. CASE StopContext
  BY <1>14 DEF StopContext, acceptorVars, opVars, serviceVars, threadVars, Abstract!vars, Conn
<1>15. CASE joinAll
  BY <1>15 DEF joinAll, AllJoined, acceptorVars, opVars, serviceVars, threadVars, Abstract!vars, Conn
<1>16. ASSUME NEW c \in Clients, AcceptDone(c)
     PROVE  [Abstract!Next]_(Abstract!vars)
  BY <1>16 DEF AcceptDone, opVars, serviceVars, mainVars, threadVars, Abstract!vars, Conn
<1>17. ASSUME NEW c \in Clients, ReadDone(c)
     PROVE  [Abstract!Next]_(Abstract!vars)
  BY <1>17 DEF ReadDone, EndOp, acceptorVars, serviceVars, mainVars, threadVars, Abstract!vars, Conn
<1>18. ASSUME NEW c \in Clients, WriteDone(c)
     PROVE  [Abstract!Next]_(Abstract!vars)
  <2>1. Conn(c) = "open" /\ m_request[c] /\ answers[c] = 0
    BY <1>18 DEF WriteDone, EndOp, IInv, NoUseAfterDelete, AnswerInv, Conn
  <2>2. answers' = [answers EXCEPT ![c] = 1]
    BY <1>18, <2>1 DEF WriteDone, IInv, TypeOK
  <2>3. UNCHANGED <<[d \in Clients |-> Conn(d)], m_request>>
    BY <1>18 DEF WriteDone, EndOp, serviceVars, Conn
  <2>4. Abstract!Answer(c)
    BY <2>1, <2>2, <2>3 DEF Abstract!Answer
  <2>. QED
    BY <2>4 DEF Abstract!Next
<1>19. ASSUME NEW c \in Clients, OpFails(c)
     PROVE  [Abstract!Next]_(Abstract!vars)
  BY <1>19 DEF OpFails, EndOp, acceptorVars, serviceVars, mainVars, threadVars, Abstract!vars, Conn
<1>20. ASSUME NEW c \in Clients, Connect(c)
     PROVE  [Abstract!Next]_(Abstract!vars)
  BY <1>20 DEF Connect, acceptorVars, opVars, serviceVars, mainVars, threadVars, Abstract!vars, Conn
<1>21. ASSUME NEW c \in Clients, Send(c)
     PROVE  [Abstract!Next]_(Abstract!vars)
  BY <1>21 DEF Send, acceptorVars, opVars, serviceVars, mainVars, threadVars, Abstract!vars, Conn
<1>22. ASSUME NEW c \in Clients, Leave(c)
     PROVE  [Abstract!Next]_(Abstract!vars)
  BY <1>22 DEF Leave, acceptorVars, opVars, serviceVars, mainVars, threadVars, Abstract!vars, Conn
<1>23. CASE AcceptFails
  BY <1>23 DEF AcceptFails, opVars, serviceVars, mainVars, threadVars, Abstract!vars, Conn
<1>24. CASE UNCHANGED vars
  BY <1>24 DEF vars, acceptorVars, opVars, serviceVars, mainVars, threadVars, Abstract!vars, Conn
<1>. QED
  BY <1>1, <1>2, <1>3, <1>4, <1>5, <1>6, <1>7, <1>8, <1>9, <1>10, <1>11, <1>12,
     <1>13, <1>14, <1>15, <1>16, <1>17, <1>18, <1>19, <1>20, <1>21, <1>22, <1>23, <1>24
     DEF Next, WorkerStep, Kernel, ClientStep

-----------------------------------------------------------------------------
(* The theorems.                                                           *)

LEMMA IInvStep == IInv /\ [Next]_vars => IInv'
  BY TypeOKStep, AcceptInvStep, NoUseStep, OneActivityStep, AnswerInvStep, WorkInvStep,
     AliveInvStep, StopInvStep DEF IInv

\* The inductive invariant holds in every reachable state.
THEOREM IInvInvariant == Spec => []IInv
<1>1. Init => IInv
  BY InitIInv
<1>. QED
  BY <1>1, IInvStep, PTL DEF Spec

\* Type correctness: a worker is at a Service exactly while it uses it.
THEOREM TypeCorrect == Spec => []TypeOK
<1>1. IInv => TypeOK
  BY DEF IInv
<1>. QED
  BY <1>1, IInvInvariant, PTL

\* No thread and no outstanding callback ever uses a deleted Service.
THEOREM DeleteIsSafe == Spec => []NoUseAfterDelete
<1>1. IInv => NoUseAfterDelete
  BY DEF IInv
<1>. QED
  BY <1>1, IInvInvariant, PTL

\* The members of a Service are never used by two activities at once.
THEOREM ServiceSerialised == Spec => []OneActivity
<1>1. IInv => OneActivity
  BY DEF IInv
<1>. QED
  BY <1>1, IInvInvariant, PTL

\* Stop() interrupts no callback.
THEOREM StopIsClean == Spec => []StopLeavesOnlyOutstanding
<1>1. ASSUME IInv PROVE StopLeavesOnlyOutstanding
  <2>. SUFFICES ASSUME main = "stopped", NEW c \in Clients, service[c] = "alive"
                PROVE  status[c] # "idle"
    BY DEF StopLeavesOnlyOutstanding
  <2>1. \A w \in Workers : pc[w] \notin ServicePcs
    BY <1>1 DEF IInv, StopInv, ServicePcs
  <2>. QED
    BY <1>1, <2>1 DEF IInv, AliveInv
<1>. QED
  BY <1>1, IInvInvariant, PTL

\* The server implements RequestResponse.
THEOREM RequestResponseImplemented == Spec => ImplementsRequestResponse
<1>1. Init => Abstract!Init
  BY DEF Init, Abstract!Init, Conn
<1>. QED
  BY <1>1, AbstractStep, IInvInvariant, PTL
     DEF Spec, ImplementsRequestResponse, Abstract!Spec
=============================================================================
