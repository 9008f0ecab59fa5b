------------------------ MODULE AsyncTCPClientProofs ------------------------
(***************************************************************************)
(* Proofs about AsyncTCPClient for every set of sessions, ids and threads. *)
(* IInv is the inductive invariant; each of its parts says why one kind of *)
(* step cannot go wrong, and the safety properties follow from it.         *)
(***************************************************************************)
EXTENDS AsyncTCPClient, TLAPS

\* Which thread may own which mutex.
LockInv ==
  /\ \A u \in Users : m_active_sessions_guard = u <=> pc[u] = "cancelling"
  /\ \A s \in Sessions, w \in Workers :
       m_cancel_guard[s] = w =>
         at[w] = s /\ pc[w] \in {"unlocking", "completing", "reporting"}

\* A session has one thing outstanding: the call that is about to start its
\* first operation, an operation in the io_context, or one running callback.
CallbackInv ==
  \A w \in Workers :
    pc[w] \in {"checking", "completing", "reporting"} => status[at[w]] = "running"

OpInv ==
  /\ \A s \in Sessions : status[s] = "idle" <=> op[s] \in {"none", "done"}
  /\ \A s \in Sessions : m_id[s] = None => op[s] = "none"

StartInv ==
  /\ \A u \in Users :
       pc[u] = "starting" => op[at[u]] = "none" /\ m_id[at[u]] # None
  /\ \A u, v \in Users :
       pc[u] = "starting" /\ pc[v] = "starting" /\ at[u] = at[v] => u = v

ChainInv == CallbackInv /\ OpInv /\ StartInv /\ HandlersSerialised

\* A session in the map is there under its own id and has not been erased,
\* and the session a cancelRequest has found is still in the map.
MapInv ==
  /\ \A id \in Ids, s \in Sessions :
       m_active_sessions[id] = s =>
         /\ m_id[s] = id
         /\ op[s] # "done"
         /\ \A w \in Workers : ~(pc[w] = "reporting" /\ at[w] = s)
  /\ \A u \in Users :
       pc[u] = "cancelling" =>
         /\ m_id[at[u]] \in Ids
         /\ m_active_sessions[m_id[at[u]]] = at[u]

\* What the error codes and the response say at each point of the chain.
CodeInv ==
  /\ \A s \in Sessions :
       "operation_aborted" \in {m_ec[s], result[s]} => m_was_cancelled[s]
  /\ \A w \in Workers :
       pc[w] \in {"completing", "reporting"} /\ m_ec[at[w]] = "success" =>
         m_was_cancelled[at[w]] \/ m_response[at[w]]
  /\ \A s \in Sessions : op[s] # "done" => reported[s] = <<>>

\* What is left to do once the client is being closed.
CloseInv ==
  /\ ~m_work_guard => \A u \in Users : pc[u] # "starting"
  /\ \A s \in Sessions :
       op[s] = "none" /\ m_id[s] # None =>
         \E u \in Users : pc[u] = "starting" /\ at[u] = s
  /\ \A w \in Workers :
       pc[w] = "stopped" =>
         /\ ~m_work_guard
         /\ \A s \in Sessions : status[s] = "idle"
         /\ \A v \in Workers : at[v] = None
  /\ \A u \in Users : pc[u] = "closed" => \A w \in Workers : pc[w] = "stopped"

\* Requests that are active at once have distinct ids, if callers see to it.
IdInv ==
  /\ UniqueIds =>
       \A r, s \in Sessions : Active(r) /\ Active(s) /\ m_id[r] = m_id[s] => r = s
  /\ LiveIsRegistered

\* A request with the flag set has been cancelled; if another cancelRequest
\* is at it, twice.  A callback completes it with its mutex held only then.
CancelInv ==
  /\ \A s \in Sessions :
       m_was_cancelled[s] => m_id[s] \in Ids /\ cancels[m_id[s]] >= 1
  /\ \A u \in Users :
       pc[u] = "cancelling" =>
         cancels[m_id[at[u]]] >= IF m_was_cancelled[at[u]] THEN 2 ELSE 1
  /\ \A s \in Sessions, w \in Workers :
       m_cancel_guard[s] = w /\ pc[w] = "completing" => m_was_cancelled[s]

IInv ==
  /\ TypeOK
  /\ LockInv
  /\ ChainInv
  /\ MapInv
  /\ CodeInv
  /\ OutcomeHonest

-----------------------------------------------------------------------------
(* The invariant holds initially and every step preserves it.              *)

LEMMA InitIInv == Init => IInv /\ CloseInv /\ IdInv
<1>. SUFFICES ASSUME Init PROVE IInv /\ CloseInv /\ IdInv
  OBVIOUS
<1>. USE ThreadsAssumption, NoneAssumption, BoundsAssumption DEF Init, Threads
<1>1. TypeOK
  BY DEF TypeOK, IdlePcs, UserPcs, WorkerPcs, Ops, Statuses, Codes
<1>2. LockInv /\ ChainInv /\ MapInv
  BY DEF LockInv, ChainInv, CallbackInv, OpInv, StartInv, HandlersSerialised, MapInv
<1>3. CodeInv /\ OutcomeHonest
  BY DEF CodeInv, OutcomeHonest
<1>4. CloseInv /\ IdInv
  BY DEF CloseInv, IdInv, LiveIsRegistered, Active
<1>. QED
  BY <1>1, <1>2, <1>3, <1>4 DEF IInv

LEMMA TypeOKStep == TypeOK /\ [Next]_vars => TypeOK'
<1>. SUFFICES ASSUME TypeOK, [Next]_vars PROVE TypeOK'
  OBVIOUS
<1>. USE ThreadsAssumption, NoneAssumption, BoundsAssumption
     DEF Threads, TypeOK, IdlePcs, UserPcs, WorkerPcs, Ops, Statuses, Codes
<1>1. ASSUME NEW u \in Users, NEW s \in Sessions, NEW id \in Ids, emulateLongComputationOp(u, s, id)
     PROVE  TypeOK'
  BY <1>1 DEF emulateLongComputationOp, Goto, opVars
<1>2. ASSUME NEW u \in Users, asyncConnect(u)
     PROVE  TypeOK'
  BY <1>2 DEF asyncConnect, Goto, Start, sessionVars, clientVars
<1>3. ASSUME NEW u \in Users, NEW id \in Ids, cancelNotFound(u, id)
     PROVE  TypeOK'
  BY <1>3 DEF cancelNotFound, Lookup, sessionVars, opVars, threadVars
<1>4. ASSUME NEW u \in Users, NEW id \in Ids, cancelFound(u, id)
     PROVE  TypeOK'
  BY <1>4 DEF cancelFound, Lookup, Goto, sessionVars, opVars
<1>5. ASSUME NEW u \in Users, setCancelled(u)
     PROVE  TypeOK'
  BY <1>5 DEF setCancelled, Goto, SocketCancel, CancelFlag
<1>6. ASSUME NEW u \in Users, close(u)
     PROVE  TypeOK'
  BY <1>6 DEF close, Goto, sessionVars, opVars
<1>7. ASSUME NEW u \in Users, joinAll(u)
     PROVE  TypeOK'
  BY <1>7 DEF joinAll, Goto, AllJoined, sessionVars, clientVars, opVars
<1>8. ASSUME NEW w \in Workers, NEW s \in Sessions, connectCallback(w, s)
     PROVE  TypeOK'
  BY <1>8 DEF connectCallback, Goto, Dispatch, CheckError, clientVars
<1>9. ASSUME NEW w \in Workers, NEW s \in Sessions, writeCallback(w, s)
     PROVE  TypeOK'
  BY <1>9 DEF writeCallback, Goto, Dispatch, CheckError, clientVars
<1>10. ASSUME NEW w \in Workers, NEW s \in Sessions, readCallback(w, s)
     PROVE  TypeOK'
  BY <1>10 DEF readCallback, Goto, Dispatch, clientVars
<1>11. ASSUME NEW w \in Workers, NEW s \in Sessions, resumeTransfer(w, s)
     PROVE  TypeOK'
  BY <1>11 DEF resumeTransfer, sessionVars, clientVars, threadVars
<1>12. ASSUME NEW w \in Workers, cancelledReturn(w)
     PROVE  TypeOK'
  BY <1>12 DEF cancelledReturn, LockCancelGuard, Goto, MustStop, clientVars, opVars
<1>13. ASSUME NEW w \in Workers, startNextOp(w)
     PROVE  TypeOK'
  BY <1>13 DEF startNextOp, LockCancelGuard, Goto, Start, MustStop, NextOp, clientVars
<1>14. ASSUME NEW w \in Workers, callbackReturn(w)
     PROVE  TypeOK'
  BY <1>14 DEF callbackReturn, Goto, Released, clientVars, opVars
<1>15. ASSUME NEW w \in Workers, onRequestComplete(w)
     PROVE  TypeOK'
  BY <1>15 DEF onRequestComplete, Goto, Erased, sessionVars, opVars
<1>16. ASSUME NEW w \in Workers, callCallback(w)
     PROVE  TypeOK'
  <2>1. at[w] \in Sessions /\ CompletionCode(at[w]) \in Codes
    BY <1>16 DEF callCallback, CompletionCode
  <2>2. reported' \in [Sessions -> Seq(Codes)]
    BY <1>16, <2>1 DEF callCallback
  <2>. QED
    BY <1>16, <2>1, <2>2 DEF callCallback, Goto, Released, clientVars
<1>17. ASSUME NEW w \in Workers, runReturns(w)
     PROVE  TypeOK'
  BY <1>17 DEF runReturns, Goto, sessionVars, clientVars, opVars
<1>18. ASSUME NEW s \in Sessions, Deliver(s)
     PROVE  TypeOK'
  BY <1>18 DEF Deliver, sessionVars, clientVars, threadVars
<1>19. ASSUME NEW s \in Sessions, Progress(s)
     PROVE  TypeOK'
  BY <1>19 DEF Progress, sessionVars, clientVars, threadVars
<1>20. CASE UNCHANGED vars
  BY <1>20 DEF vars, sessionVars, clientVars, opVars, threadVars
<1>. QED
  BY <1>1, <1>2, <1>3, <1>4, <1>5, <1>6, <1>7, <1>8, <1>9, <1>10,
     <1>11, <1>12, <1>13, <1>14, <1>15, <1>16, <1>17, <1>18, <1>19, <1>20
     DEF Next, UserCall, UserReturn, WorkerStep, Network, Finished

LEMMA LockInvStep == TypeOK /\ LockInv /\ [Next]_vars => LockInv'
<1>. SUFFICES ASSUME TypeOK, LockInv, [Next]_vars PROVE LockInv'
  OBVIOUS
<1>. USE ThreadsAssumption, NoneAssumption DEF Threads, TypeOK, IdlePcs, LockInv
<1>1. ASSUME NEW u \in Users, NEW s \in Sessions, NEW id \in Ids, emulateLongComputationOp(u, s, id)
     PROVE  LockInv'
  BY <1>1 DEF emulateLongComputationOp, Goto, opVars
<1>2. ASSUME NEW u \in Users, asyncConnect(u)
     PROVE  LockInv'
  BY <1>2 DEF asyncConnect, Goto, Start, sessionVars, clientVars
<1>3. ASSUME NEW u \in Users, NEW id \in Ids, cancelNotFound(u, id)
     PROVE  LockInv'
  BY <1>3 DEF cancelNotFound, Lookup, sessionVars, opVars, threadVars
<1>4. ASSUME NEW u \in Users, NEW id \in Ids, cancelFound(u, id)
     PROVE  LockInv'
  BY <1>4 DEF cancelFound, Lookup, Goto, sessionVars, opVars
<1>5. ASSUME NEW u \in Users, setCancelled(u)
     PROVE  LockInv'
  BY <1>5 DEF setCancelled, Goto, SocketCancel, CancelFlag
<1>6. ASSUME NEW u \in Users, close(u)
     PROVE  LockInv'
  BY <1>6 DEF close, Goto, sessionVars, opVars
<1>7. ASSUME NEW u \in Users, joinAll(u)
     PROVE  LockInv'
  BY <1>7 DEF joinAll, Goto, AllJoined, sessionVars, clientVars, opVars
<1>8. ASSUME NEW w \in Workers, NEW s \in Sessions, connectCallback(w, s)
     PROVE  LockInv'
  BY <1>8 DEF connectCallback, Goto, Dispatch, CheckError, clientVars
<1>9. ASSUME NEW w \in Workers, NEW s \in Sessions, writeCallback(w, s)
     PROVE  LockInv'
  BY <1>9 DEF writeCallback, Goto, Dispatch, CheckError, clientVars
<1>10. ASSUME NEW w \in Workers, NEW s \in Sessions, readCallback(w, s)
     PROVE  LockInv'
  BY <1>10 DEF readCallback, Goto, Dispatch, clientVars
<1>11. ASSUME NEW w \in Workers, NEW s \in Sessions, resumeTransfer(w, s)
     PROVE  LockInv'
  BY <1>11 DEF resumeTransfer, sessionVars, clientVars, threadVars
<1>12. ASSUME NEW w \in Workers, cancelledReturn(w)
     PROVE  LockInv'
  BY <1>12 DEF cancelledReturn, LockCancelGuard, Goto, MustStop, clientVars, opVars
<1>13. ASSUME NEW w \in Workers, startNextOp(w)
     PROVE  LockInv'
  BY <1>13 DEF startNextOp, LockCancelGuard, Goto, Start, MustStop, NextOp, clientVars
<1>14. ASSUME NEW w \in Workers, callbackReturn(w)
     PROVE  LockInv'
  BY <1>14 DEF callbackReturn, Goto, Released, clientVars, opVars
<1>15. ASSUME NEW w \in Workers, onRequestComplete(w)
     PROVE  LockInv'
  BY <1>15 DEF onRequestComplete, Goto, Erased, sessionVars, opVars
<1>16. ASSUME NEW w \in Workers, callCallback(w)
     PROVE  LockInv'
  BY <1>16 DEF callCallback, Goto, Released, CompletionCode, clientVars
<1>17. ASSUME NEW w \in Workers, runReturns(w)
     PROVE  LockInv'
  BY <1>17 DEF runReturns, Goto, sessionVars, clientVars, opVars
<1>18. ASSUME NEW s \in Sessions, Deliver(s)
     PROVE  LockInv'
  BY <1>18 DEF Deliver, sessionVars, clientVars, threadVars
<1>19. ASSUME NEW s \in Sessions, Progress(s)
     PROVE  LockInv'
  BY <1>19 DEF Progress, sessionVars, clientVars, threadVars
<1>20. CASE UNCHANGED vars
  BY <1>20 DEF vars, sessionVars, clientVars, opVars, threadVars
<1>. QED
  BY <1>1, <1>2, <1>3, <1>4, <1>5, <1>6, <1>7, <1>8, <1>9, <1>10,
     <1>11, <1>12, <1>13, <1>14, <1>15, <1>16, <1>17, <1>18, <1>19, <1>20
     DEF Next, UserCall, UserReturn, WorkerStep, Network, Finished

\* Beside a callback that works on a session, others of that session can only
\* be about to return.
LEMMA OthersUnlock ==
  ASSUME TypeOK, HandlersSerialised,
         NEW w \in Workers, pc[w] \in {"checking", "completing", "reporting"}
  PROVE  \A v \in Workers : v # w /\ at[v] = at[w] => pc[v] = "unlocking"
  BY DEF TypeOK, HandlersSerialised, IdlePcs, Threads

\* So they are, all of them, while the session's operation is not running.
LEMMA NoneRuns ==
  ASSUME TypeOK, CallbackInv, NEW s \in Sessions, status[s] # "running"
  PROVE  \A v \in Workers : at[v] = s => pc[v] = "unlocking"
  BY NoneAssumption DEF TypeOK, CallbackInv, IdlePcs, WorkerPcs, Threads

LEMMA ChainInvStep == TypeOK /\ ChainInv /\ [Next]_vars => ChainInv'
<1>. SUFFICES ASSUME TypeOK, ChainInv, [Next]_vars PROVE ChainInv'
  OBVIOUS
<1>. USE ThreadsAssumption, NoneAssumption
<1>1. ASSUME NEW u \in Users, NEW s \in Sessions, NEW id \in Ids, emulateLongComputationOp(u, s, id)
     PROVE  ChainInv'
  BY <1>1 DEF emulateLongComputationOp, Goto, opVars, Threads, TypeOK, IdlePcs, UserPcs, WorkerPcs,
         ChainInv, CallbackInv, OpInv, StartInv, HandlersSerialised
<1>2. ASSUME NEW u \in Users, asyncConnect(u)
     PROVE  ChainInv'
  BY <1>2 DEF asyncConnect, Goto, Start, sessionVars, clientVars, Threads, TypeOK, IdlePcs, UserPcs, WorkerPcs,
         ChainInv, CallbackInv, OpInv, StartInv, HandlersSerialised
<1>3. ASSUME NEW u \in Users, NEW id \in Ids, cancelNotFound(u, id)
     PROVE  ChainInv'
  BY <1>3 DEF cancelNotFound, Lookup, sessionVars, opVars, threadVars, Threads, TypeOK, IdlePcs, UserPcs, WorkerPcs,
         ChainInv, CallbackInv, OpInv, StartInv, HandlersSerialised
<1>4. ASSUME NEW u \in Users, NEW id \in Ids, cancelFound(u, id)
     PROVE  ChainInv'
  BY <1>4 DEF cancelFound, Lookup, Goto, sessionVars, opVars, Threads, TypeOK, IdlePcs, UserPcs, WorkerPcs,
         ChainInv, CallbackInv, OpInv, StartInv, HandlersSerialised
<1>5. ASSUME NEW u \in Users, setCancelled(u)
     PROVE  ChainInv'
  BY <1>5 DEF setCancelled, Goto, SocketCancel, CancelFlag, Threads, TypeOK, IdlePcs, UserPcs, WorkerPcs,
         ChainInv, CallbackInv, OpInv, StartInv, HandlersSerialised
<1>6. ASSUME NEW u \in Users, close(u)
     PROVE  ChainInv'
  BY <1>6 DEF close, Goto, sessionVars, opVars, Threads, TypeOK, IdlePcs, UserPcs, WorkerPcs,
         ChainInv, CallbackInv, OpInv, StartInv, HandlersSerialised
<1>7. ASSUME NEW u \in Users, joinAll(u)
     PROVE  ChainInv'
  BY <1>7 DEF joinAll, Goto, AllJoined, sessionVars, clientVars, opVars, Threads, TypeOK, IdlePcs, UserPcs, WorkerPcs,
         ChainInv, CallbackInv, OpInv, StartInv, HandlersSerialised
<1>8. ASSUME NEW w \in Workers, NEW s \in Sessions, connectCallback(w, s)
     PROVE  ChainInv'
  <2>1. \A v \in Workers : at[v] = s => pc[v] = "unlocking"
    BY <1>8, NoneRuns DEF connectCallback, Dispatch, ChainInv
  <2>2. CallbackInv'
    BY <1>8 DEF connectCallback, Goto, Dispatch, CheckError, clientVars, Threads, TypeOK, IdlePcs, UserPcs, WorkerPcs,
         ChainInv, CallbackInv, OpInv, StartInv, HandlersSerialised
  <2>3. OpInv' /\ StartInv'
    BY <1>8 DEF connectCallback, Goto, Dispatch, CheckError, clientVars, Threads, TypeOK, IdlePcs, UserPcs, WorkerPcs,
         ChainInv, CallbackInv, OpInv, StartInv, HandlersSerialised
  <2>4. HandlersSerialised'
    <3>1. \A v \in Workers : v # w => pc'[v] = pc[v] /\ at'[v] = at[v]
      BY <1>8 DEF connectCallback, Goto, Dispatch, CheckError, clientVars, Threads, TypeOK, IdlePcs, UserPcs, WorkerPcs
    <3>2. at'[w] = s
      BY <1>8 DEF connectCallback, Goto, Dispatch, CheckError, clientVars, Threads, TypeOK, IdlePcs, UserPcs, WorkerPcs
    <3>. QED
      BY <2>1, <3>1, <3>2 DEF HandlersSerialised, ChainInv
  <2>. QED
    BY <2>2, <2>3, <2>4 DEF ChainInv
<1>9. ASSUME NEW w \in Workers, NEW s \in Sessions, writeCallback(w, s)
     PROVE  ChainInv'
  <2>1. \A v \in Workers : at[v] = s => pc[v] = "unlocking"
    BY <1>9, NoneRuns DEF writeCallback, Dispatch, ChainInv
  <2>2. CallbackInv'
    BY <1>9 DEF writeCallback, Goto, Dispatch, CheckError, clientVars, Threads, TypeOK, IdlePcs, UserPcs, WorkerPcs,
         ChainInv, CallbackInv, OpInv, StartInv, HandlersSerialised
  <2>3. OpInv' /\ StartInv'
    BY <1>9 DEF writeCallback, Goto, Dispatch, CheckError, clientVars, Threads, TypeOK, IdlePcs, UserPcs, WorkerPcs,
         ChainInv, CallbackInv, OpInv, StartInv, HandlersSerialised
  <2>4. HandlersSerialised'
    <3>1. \A v \in Workers : v # w => pc'[v] = pc[v] /\ at'[v] = at[v]
      BY <1>9 DEF writeCallback, Goto, Dispatch, CheckError, clientVars, Threads, TypeOK, IdlePcs, UserPcs, WorkerPcs
    <3>2. at'[w] = s
      BY <1>9 DEF writeCallback, Goto, Dispatch, CheckError, clientVars, Threads, TypeOK, IdlePcs, UserPcs, WorkerPcs
    <3>. QED
      BY <2>1, <3>1, <3>2 DEF HandlersSerialised, ChainInv
  <2>. QED
    BY <2>2, <2>3, <2>4 DEF ChainInv
<1>10. ASSUME NEW w \in Workers, NEW s \in Sessions, readCallback(w, s)
     PROVE  ChainInv'
  <2>1. \A v \in Workers : at[v] = s => pc[v] = "unlocking"
    BY <1>10, NoneRuns DEF readCallback, Dispatch, ChainInv
  <2>2. CallbackInv'
    BY <1>10 DEF readCallback, Goto, Dispatch, clientVars, Threads, TypeOK, IdlePcs, UserPcs, WorkerPcs,
         ChainInv, CallbackInv, OpInv, StartInv, HandlersSerialised
  <2>3. OpInv' /\ StartInv'
    BY <1>10 DEF readCallback, Goto, Dispatch, clientVars, Threads, TypeOK, IdlePcs, UserPcs, WorkerPcs,
         ChainInv, CallbackInv, OpInv, StartInv, HandlersSerialised
  <2>4. HandlersSerialised'
    <3>1. \A v \in Workers : v # w => pc'[v] = pc[v] /\ at'[v] = at[v]
      BY <1>10 DEF readCallback, Goto, Dispatch, clientVars, Threads, TypeOK, IdlePcs, UserPcs, WorkerPcs
    <3>2. at'[w] = s
      BY <1>10 DEF readCallback, Goto, Dispatch, clientVars, Threads, TypeOK, IdlePcs, UserPcs, WorkerPcs
    <3>. QED
      BY <2>1, <3>1, <3>2 DEF HandlersSerialised, ChainInv
  <2>. QED
    BY <2>2, <2>3, <2>4 DEF ChainInv
<1>11. ASSUME NEW w \in Workers, NEW s \in Sessions, resumeTransfer(w, s)
     PROVE  ChainInv'
  BY <1>11 DEF resumeTransfer, sessionVars, clientVars, threadVars, Threads, TypeOK, IdlePcs, UserPcs, WorkerPcs,
         ChainInv, CallbackInv, OpInv, StartInv, HandlersSerialised
<1>12. ASSUME NEW w \in Workers, cancelledReturn(w)
     PROVE  ChainInv'
  BY <1>12 DEF cancelledReturn, LockCancelGuard, Goto, MustStop, clientVars, opVars, Threads, TypeOK, IdlePcs, UserPcs, WorkerPcs,
         ChainInv, CallbackInv, OpInv, StartInv, HandlersSerialised
<1>13. ASSUME NEW w \in Workers, startNextOp(w)
     PROVE  ChainInv'
  <2>1. \A v \in Workers : v # w /\ at[v] = at[w] => pc[v] = "unlocking"
    BY <1>13, OthersUnlock DEF startNextOp, LockCancelGuard, ChainInv
  <2>2. CallbackInv'
    BY <1>13, <2>1 DEF startNextOp, LockCancelGuard, Goto, Start, MustStop, NextOp, clientVars, Threads, TypeOK, IdlePcs, UserPcs, WorkerPcs,
         ChainInv, CallbackInv, OpInv, StartInv, HandlersSerialised
  <2>3. OpInv' /\ StartInv'
    BY <1>13 DEF startNextOp, LockCancelGuard, Goto, Start, MustStop, NextOp, clientVars, Threads, TypeOK, IdlePcs, UserPcs, WorkerPcs,
         ChainInv, CallbackInv, OpInv, StartInv, HandlersSerialised
  <2>4. HandlersSerialised'
    BY <1>13 DEF startNextOp, LockCancelGuard, Goto, Start, MustStop, NextOp, clientVars, Threads, TypeOK, IdlePcs, UserPcs, WorkerPcs,
         ChainInv, CallbackInv, OpInv, StartInv, HandlersSerialised
  <2>. QED
    BY <2>2, <2>3, <2>4 DEF ChainInv
<1>14. ASSUME NEW w \in Workers, callbackReturn(w)
     PROVE  ChainInv'
  BY <1>14 DEF callbackReturn, Goto, Released, clientVars, opVars, Threads, TypeOK, IdlePcs, UserPcs, WorkerPcs,
         ChainInv, CallbackInv, OpInv, StartInv, HandlersSerialised
<1>15. ASSUME NEW w \in Workers, onRequestComplete(w)
     PROVE  ChainInv'
  BY <1>15 DEF onRequestComplete, Goto, Erased, sessionVars, opVars, Threads, TypeOK, IdlePcs, UserPcs, WorkerPcs,
         ChainInv, CallbackInv, OpInv, StartInv, HandlersSerialised
<1>16. ASSUME NEW w \in Workers, callCallback(w)
     PROVE  ChainInv'
  <2>1. \A v \in Workers : v # w /\ at[v] = at[w] => pc[v] = "unlocking"
    BY <1>16, OthersUnlock DEF callCallback, ChainInv
  <2>2. CallbackInv'
    BY <1>16, <2>1 DEF callCallback, Goto, Released, CompletionCode, clientVars, Threads, TypeOK, IdlePcs, UserPcs, WorkerPcs,
         ChainInv, CallbackInv, OpInv, StartInv, HandlersSerialised
  <2>3. OpInv' /\ StartInv'
    BY <1>16 DEF callCallback, Goto, Released, CompletionCode, clientVars, Threads, TypeOK, IdlePcs, UserPcs, WorkerPcs,
         ChainInv, CallbackInv, OpInv, StartInv, HandlersSerialised
  <2>4. HandlersSerialised'
    BY <1>16 DEF callCallback, Goto, Released, CompletionCode, clientVars, Threads, TypeOK, IdlePcs, UserPcs, WorkerPcs,
         ChainInv, CallbackInv, OpInv, StartInv, HandlersSerialised
  <2>. QED
    BY <2>2, <2>3, <2>4 DEF ChainInv
<1>17. ASSUME NEW w \in Workers, runReturns(w)
     PROVE  ChainInv'
  BY <1>17 DEF runReturns, Goto, sessionVars, clientVars, opVars, Threads, TypeOK, IdlePcs, UserPcs, WorkerPcs,
         ChainInv, CallbackInv, OpInv, StartInv, HandlersSerialised
<1>18. ASSUME NEW s \in Sessions, Deliver(s)
     PROVE  ChainInv'
  BY <1>18 DEF Deliver, sessionVars, clientVars, threadVars, Threads, TypeOK, IdlePcs, UserPcs, WorkerPcs,
         ChainInv, CallbackInv, OpInv, StartInv, HandlersSerialised
<1>19. ASSUME NEW s \in Sessions, Progress(s)
     PROVE  ChainInv'
  BY <1>19 DEF Progress, sessionVars, clientVars, threadVars, Threads, TypeOK, IdlePcs, UserPcs, WorkerPcs,
         ChainInv, CallbackInv, OpInv, StartInv, HandlersSerialised
<1>20. CASE UNCHANGED vars
  BY <1>20 DEF vars, sessionVars, clientVars, opVars, threadVars, Threads, TypeOK, IdlePcs, UserPcs, WorkerPcs,
         ChainInv, CallbackInv, OpInv, StartInv, HandlersSerialised
<1>. QED
  BY <1>1, <1>2, <1>3, <1>4, <1>5, <1>6, <1>7, <1>8, <1>9, <1>10,
     <1>11, <1>12, <1>13, <1>14, <1>15, <1>16, <1>17, <1>18, <1>19, <1>20
     DEF Next, UserCall, UserReturn, WorkerStep, Network, Finished

\* A callback that has not returned works on an active request.
LEMMA WorkingIsActive ==
  ASSUME TypeOK, ChainInv,
         NEW w \in Workers, pc[w] \in {"checking", "completing", "reporting"}
  PROVE  at[w] \in Sessions /\ Active(at[w])
<1>1. at[w] \in Sessions /\ status[at[w]] = "running"
  BY DEF TypeOK, IdlePcs, Threads, ChainInv, CallbackInv
<1>. QED
  BY <1>1 DEF TypeOK, ChainInv, OpInv, Active

\* What cancelRequest has found is active.
LEMMA CancellingIsActive ==
  ASSUME TypeOK, MapInv, NEW u \in Users, pc[u] = "cancelling"
  PROVE  at[u] \in Sessions /\ Active(at[u])
<1>1. at[u] \in Sessions
  BY DEF TypeOK, IdlePcs, Threads
<1>. QED
  BY <1>1, NoneAssumption DEF MapInv, Active

LEMMA MapInvStep ==
  TypeOK /\ LockInv /\ ChainInv /\ MapInv /\ [Next]_vars => MapInv'
<1>. SUFFICES ASSUME TypeOK, LockInv, ChainInv, MapInv, [Next]_vars PROVE MapInv'
  OBVIOUS
<1>. USE ThreadsAssumption, NoneAssumption
     DEF Threads, TypeOK, IdlePcs, LockInv, ChainInv, CallbackInv, OpInv, MapInv
<1>1. ASSUME NEW u \in Users, NEW s \in Sessions, NEW id \in Ids, emulateLongComputationOp(u, s, id)
     PROVE  MapInv'
  BY <1>1 DEF emulateLongComputationOp, Goto, opVars
<1>2. ASSUME NEW u \in Users, asyncConnect(u)
     PROVE  MapInv'
  BY <1>2 DEF asyncConnect, Goto, Start, sessionVars, clientVars
<1>3. ASSUME NEW u \in Users, NEW id \in Ids, cancelNotFound(u, id)
     PROVE  MapInv'
  BY <1>3 DEF cancelNotFound, Lookup, sessionVars, opVars, threadVars
<1>4. ASSUME NEW u \in Users, NEW id \in Ids, cancelFound(u, id)
     PROVE  MapInv'
  BY <1>4 DEF cancelFound, Lookup, Goto, sessionVars, opVars
<1>5. ASSUME NEW u \in Users, setCancelled(u)
     PROVE  MapInv'
  BY <1>5 DEF setCancelled, Goto, SocketCancel, CancelFlag
<1>6. ASSUME NEW u \in Users, close(u)
     PROVE  MapInv'
  BY <1>6 DEF close, Goto, sessionVars, opVars
<1>7. ASSUME NEW u \in Users, joinAll(u)
     PROVE  MapInv'
  BY <1>7 DEF joinAll, Goto, AllJoined, sessionVars, clientVars, opVars
<1>8. ASSUME NEW w \in Workers, NEW s \in Sessions, connectCallback(w, s)
     PROVE  MapInv'
  BY <1>8 DEF connectCallback, Goto, Dispatch, CheckError, clientVars
<1>9. ASSUME NEW w \in Workers, NEW s \in Sessions, writeCallback(w, s)
     PROVE  MapInv'
  BY <1>9 DEF writeCallback, Goto, Dispatch, CheckError, clientVars
<1>10. ASSUME NEW w \in Workers, NEW s \in Sessions, readCallback(w, s)
     PROVE  MapInv'
  BY <1>10 DEF readCallback, Goto, Dispatch, clientVars
<1>11. ASSUME NEW w \in Workers, NEW s \in Sessions, resumeTransfer(w, s)
     PROVE  MapInv'
  BY <1>11 DEF resumeTransfer, sessionVars, clientVars, threadVars
<1>12. ASSUME NEW w \in Workers, cancelledReturn(w)
     PROVE  MapInv'
  BY <1>12 DEF cancelledReturn, LockCancelGuard, Goto, MustStop, clientVars, opVars
<1>13. ASSUME NEW w \in Workers, startNextOp(w)
     PROVE  MapInv'
  BY <1>13 DEF startNextOp, LockCancelGuard, Goto, Start, MustStop, NextOp, clientVars
<1>14. ASSUME NEW w \in Workers, callbackReturn(w)
     PROVE  MapInv'
  BY <1>14 DEF callbackReturn, Goto, Released, clientVars, opVars
<1>15. ASSUME NEW w \in Workers, onRequestComplete(w)
     PROVE  MapInv'
  BY <1>15 DEF onRequestComplete, Goto, Erased, sessionVars, opVars
<1>16. ASSUME NEW w \in Workers, callCallback(w)
     PROVE  MapInv'
  BY <1>16 DEF callCallback, Goto, Released, CompletionCode, clientVars
<1>17. ASSUME NEW w \in Workers, runReturns(w)
     PROVE  MapInv'
  BY <1>17 DEF runReturns, Goto, sessionVars, clientVars, opVars
<1>18. ASSUME NEW s \in Sessions, Deliver(s)
     PROVE  MapInv'
  BY <1>18 DEF Deliver, sessionVars, clientVars, threadVars
<1>19. ASSUME NEW s \in Sessions, Progress(s)
     PROVE  MapInv'
  BY <1>19 DEF Progress, sessionVars, clientVars, threadVars
<1>20. CASE UNCHANGED vars
  BY <1>20 DEF vars, sessionVars, clientVars, opVars, threadVars
<1>. QED
  BY <1>1, <1>2, <1>3, <1>4, <1>5, <1>6, <1>7, <1>8, <1>9, <1>10,
     <1>11, <1>12, <1>13, <1>14, <1>15, <1>16, <1>17, <1>18, <1>19, <1>20
     DEF Next, UserCall, UserReturn, WorkerStep, Network, Finished

LEMMA CodeInvStep ==
  TypeOK /\ ChainInv /\ CodeInv /\ [Next]_vars => CodeInv'
<1>. SUFFICES ASSUME TypeOK, ChainInv, CodeInv, [Next]_vars PROVE CodeInv'
  OBVIOUS
<1>. USE ThreadsAssumption, NoneAssumption
     DEF Threads, TypeOK, IdlePcs, ChainInv, CallbackInv, OpInv, StartInv,
         CodeInv
<1>1. ASSUME NEW u \in Users, NEW s \in Sessions, NEW id \in Ids, emulateLongComputationOp(u, s, id)
     PROVE  CodeInv'
  BY <1>1 DEF emulateLongComputationOp, Goto, opVars
<1>2. ASSUME NEW u \in Users, asyncConnect(u)
     PROVE  CodeInv'
  BY <1>2 DEF asyncConnect, Goto, Start, sessionVars, clientVars
<1>3. ASSUME NEW u \in Users, NEW id \in Ids, cancelNotFound(u, id)
     PROVE  CodeInv'
  BY <1>3 DEF cancelNotFound, Lookup, sessionVars, opVars, threadVars
<1>4. ASSUME NEW u \in Users, NEW id \in Ids, cancelFound(u, id)
     PROVE  CodeInv'
  BY <1>4 DEF cancelFound, Lookup, Goto, sessionVars, opVars
<1>5. ASSUME NEW u \in Users, setCancelled(u)
     PROVE  CodeInv'
  BY <1>5 DEF setCancelled, Goto, SocketCancel, CancelFlag
<1>6. ASSUME NEW u \in Users, close(u)
     PROVE  CodeInv'
  BY <1>6 DEF close, Goto, sessionVars, opVars
<1>7. ASSUME NEW u \in Users, joinAll(u)
     PROVE  CodeInv'
  BY <1>7 DEF joinAll, Goto, AllJoined, sessionVars, clientVars, opVars
<1>8. ASSUME NEW w \in Workers, NEW s \in Sessions, connectCallback(w, s)
     PROVE  CodeInv'
  BY <1>8 DEF connectCallback, Goto, Dispatch, CheckError, clientVars
<1>9. ASSUME NEW w \in Workers, NEW s \in Sessions, writeCallback(w, s)
     PROVE  CodeInv'
  BY <1>9 DEF writeCallback, Goto, Dispatch, CheckError, clientVars
<1>10. ASSUME NEW w \in Workers, NEW s \in Sessions, readCallback(w, s)
     PROVE  CodeInv'
  BY <1>10 DEF readCallback, Goto, Dispatch, clientVars
<1>11. ASSUME NEW w \in Workers, NEW s \in Sessions, resumeTransfer(w, s)
     PROVE  CodeInv'
  BY <1>11 DEF resumeTransfer, sessionVars, clientVars, threadVars
<1>12. ASSUME NEW w \in Workers, cancelledReturn(w)
     PROVE  CodeInv'
  BY <1>12 DEF cancelledReturn, LockCancelGuard, Goto, MustStop, clientVars, opVars
<1>13. ASSUME NEW w \in Workers, startNextOp(w)
     PROVE  CodeInv'
  BY <1>13 DEF startNextOp, LockCancelGuard, Goto, Start, MustStop, NextOp, clientVars
<1>14. ASSUME NEW w \in Workers, callbackReturn(w)
     PROVE  CodeInv'
  BY <1>14 DEF callbackReturn, Goto, Released, clientVars, opVars
<1>15. ASSUME NEW w \in Workers, onRequestComplete(w)
     PROVE  CodeInv'
  BY <1>15 DEF onRequestComplete, Goto, Erased, sessionVars, opVars
<1>16. ASSUME NEW w \in Workers, callCallback(w)
     PROVE  CodeInv'
  BY <1>16 DEF callCallback, Goto, Released, CompletionCode, clientVars
<1>17. ASSUME NEW w \in Workers, runReturns(w)
     PROVE  CodeInv'
  BY <1>17 DEF runReturns, Goto, sessionVars, clientVars, opVars
<1>18. ASSUME NEW s \in Sessions, Deliver(s)
     PROVE  CodeInv'
  BY <1>18 DEF Deliver, sessionVars, clientVars, threadVars
<1>19. ASSUME NEW s \in Sessions, Progress(s)
     PROVE  CodeInv'
  BY <1>19 DEF Progress, sessionVars, clientVars, threadVars
<1>20. CASE UNCHANGED vars
  BY <1>20 DEF vars, sessionVars, clientVars, opVars, threadVars
<1>. QED
  BY <1>1, <1>2, <1>3, <1>4, <1>5, <1>6, <1>7, <1>8, <1>9, <1>10,
     <1>11, <1>12, <1>13, <1>14, <1>15, <1>16, <1>17, <1>18, <1>19, <1>20
     DEF Next, UserCall, UserReturn, WorkerStep, Network, Finished

LEMMA OutcomeStep ==
  IInv /\ [Next]_vars => OutcomeHonest'
<1>. SUFFICES ASSUME IInv, [Next]_vars PROVE OutcomeHonest'
  OBVIOUS
<1>. USE ThreadsAssumption, NoneAssumption
     DEF Threads, TypeOK, IdlePcs, IInv, MapInv, CodeInv, OutcomeHonest
<1>1. ASSUME NEW u \in Users, NEW s \in Sessions, NEW id \in Ids, emulateLongComputationOp(u, s, id)
     PROVE  OutcomeHonest'
  BY <1>1 DEF emulateLongComputationOp, Goto, opVars
<1>2. ASSUME NEW u \in Users, asyncConnect(u)
     PROVE  OutcomeHonest'
  BY <1>2 DEF asyncConnect, Goto, Start, sessionVars, clientVars
<1>3. ASSUME NEW u \in Users, NEW id \in Ids, cancelNotFound(u, id)
     PROVE  OutcomeHonest'
  BY <1>3 DEF cancelNotFound, Lookup, sessionVars, opVars, threadVars
<1>4. ASSUME NEW u \in Users, NEW id \in Ids, cancelFound(u, id)
     PROVE  OutcomeHonest'
  BY <1>4 DEF cancelFound, Lookup, Goto, sessionVars, opVars
<1>5. ASSUME NEW u \in Users, setCancelled(u)
     PROVE  OutcomeHonest'
  BY <1>5 DEF setCancelled, Goto, SocketCancel, CancelFlag
<1>6. ASSUME NEW u \in Users, close(u)
     PROVE  OutcomeHonest'
  BY <1>6 DEF close, Goto, sessionVars, opVars
<1>7. ASSUME NEW u \in Users, joinAll(u)
     PROVE  OutcomeHonest'
  BY <1>7 DEF joinAll, Goto, AllJoined, sessionVars, clientVars, opVars
<1>8. ASSUME NEW w \in Workers, NEW s \in Sessions, connectCallback(w, s)
     PROVE  OutcomeHonest'
  BY <1>8 DEF connectCallback, Goto, Dispatch, CheckError, clientVars
<1>9. ASSUME NEW w \in Workers, NEW s \in Sessions, writeCallback(w, s)
     PROVE  OutcomeHonest'
  BY <1>9 DEF writeCallback, Goto, Dispatch, CheckError, clientVars
<1>10. ASSUME NEW w \in Workers, NEW s \in Sessions, readCallback(w, s)
     PROVE  OutcomeHonest'
  BY <1>10 DEF readCallback, Goto, Dispatch, clientVars
<1>11. ASSUME NEW w \in Workers, NEW s \in Sessions, resumeTransfer(w, s)
     PROVE  OutcomeHonest'
  BY <1>11 DEF resumeTransfer, sessionVars, clientVars, threadVars
<1>12. ASSUME NEW w \in Workers, cancelledReturn(w)
     PROVE  OutcomeHonest'
  BY <1>12 DEF cancelledReturn, LockCancelGuard, Goto, MustStop, clientVars, opVars
<1>13. ASSUME NEW w \in Workers, startNextOp(w)
     PROVE  OutcomeHonest'
  BY <1>13 DEF startNextOp, LockCancelGuard, Goto, Start, MustStop, NextOp, clientVars
<1>14. ASSUME NEW w \in Workers, callbackReturn(w)
     PROVE  OutcomeHonest'
  BY <1>14 DEF callbackReturn, Goto, Released, clientVars, opVars
<1>15. ASSUME NEW w \in Workers, onRequestComplete(w)
     PROVE  OutcomeHonest'
  BY <1>15 DEF onRequestComplete, Goto, Erased, sessionVars, opVars
<1>16. ASSUME NEW w \in Workers, callCallback(w)
     PROVE  OutcomeHonest'
  BY <1>16 DEF callCallback, Goto, Released, CompletionCode, clientVars
<1>17. ASSUME NEW w \in Workers, runReturns(w)
     PROVE  OutcomeHonest'
  BY <1>17 DEF runReturns, Goto, sessionVars, clientVars, opVars
<1>18. ASSUME NEW s \in Sessions, Deliver(s)
     PROVE  OutcomeHonest'
  BY <1>18 DEF Deliver, sessionVars, clientVars, threadVars
<1>19. ASSUME NEW s \in Sessions, Progress(s)
     PROVE  OutcomeHonest'
  BY <1>19 DEF Progress, sessionVars, clientVars, threadVars
<1>20. CASE UNCHANGED vars
  BY <1>20 DEF vars, sessionVars, clientVars, opVars, threadVars
<1>. QED
  BY <1>1, <1>2, <1>3, <1>4, <1>5, <1>6, <1>7, <1>8, <1>9, <1>10,
     <1>11, <1>12, <1>13, <1>14, <1>15, <1>16, <1>17, <1>18, <1>19, <1>20
     DEF Next, UserCall, UserReturn, WorkerStep, Network, Finished

LEMMA CloseInvStep ==
  IInv /\ CloseInv /\ [Next]_vars => CloseInv'
<1>. SUFFICES ASSUME IInv, CloseInv, [Next]_vars PROVE CloseInv'
  OBVIOUS
<1>. USE ThreadsAssumption, NoneAssumption
     DEF Threads, TypeOK, IdlePcs, IInv, ChainInv, CallbackInv, OpInv, StartInv, CloseInv
<1>1. ASSUME NEW u \in Users, NEW s \in Sessions, NEW id \in Ids, emulateLongComputationOp(u, s, id)
     PROVE  CloseInv'
  BY <1>1 DEF emulateLongComputationOp, Goto, opVars
<1>2. ASSUME NEW u \in Users, asyncConnect(u)
     PROVE  CloseInv'
  BY <1>2 DEF asyncConnect, Goto, Start, sessionVars, clientVars
<1>3. ASSUME NEW u \in Users, NEW id \in Ids, cancelNotFound(u, id)
     PROVE  CloseInv'
  BY <1>3 DEF cancelNotFound, Lookup, sessionVars, opVars, threadVars
<1>4. ASSUME NEW u \in Users, NEW id \in Ids, cancelFound(u, id)
     PROVE  CloseInv'
  BY <1>4 DEF cancelFound, Lookup, Goto, sessionVars, opVars
<1>5. ASSUME NEW u \in Users, setCancelled(u)
     PROVE  CloseInv'
  BY <1>5 DEF setCancelled, Goto, SocketCancel, CancelFlag
<1>6. ASSUME NEW u \in Users, close(u)
     PROVE  CloseInv'
  BY <1>6 DEF close, Goto, sessionVars, opVars
<1>7. ASSUME NEW u \in Users, joinAll(u)
     PROVE  CloseInv'
  BY <1>7 DEF joinAll, Goto, AllJoined, sessionVars, clientVars, opVars
<1>8. ASSUME NEW w \in Workers, NEW s \in Sessions, connectCallback(w, s)
     PROVE  CloseInv'
  BY <1>8 DEF connectCallback, Goto, Dispatch, CheckError, clientVars
<1>9. ASSUME NEW w \in Workers, NEW s \in Sessions, writeCallback(w, s)
     PROVE  CloseInv'
  BY <1>9 DEF writeCallback, Goto, Dispatch, CheckError, clientVars
<1>10. ASSUME NEW w \in Workers, NEW s \in Sessions, readCallback(w, s)
     PROVE  CloseInv'
  BY <1>10 DEF readCallback, Goto, Dispatch, clientVars
<1>11. ASSUME NEW w \in Workers, NEW s \in Sessions, resumeTransfer(w, s)
     PROVE  CloseInv'
  BY <1>11 DEF resumeTransfer, sessionVars, clientVars, threadVars
<1>12. ASSUME NEW w \in Workers, cancelledReturn(w)
     PROVE  CloseInv'
  BY <1>12 DEF cancelledReturn, LockCancelGuard, Goto, MustStop, clientVars, opVars
<1>13. ASSUME NEW w \in Workers, startNextOp(w)
     PROVE  CloseInv'
  BY <1>13 DEF startNextOp, LockCancelGuard, Goto, Start, MustStop, NextOp, clientVars
<1>14. ASSUME NEW w \in Workers, callbackReturn(w)
     PROVE  CloseInv'
  BY <1>14 DEF callbackReturn, Goto, Released, clientVars, opVars
<1>15. ASSUME NEW w \in Workers, onRequestComplete(w)
     PROVE  CloseInv'
  BY <1>15 DEF onRequestComplete, Goto, Erased, sessionVars, opVars
<1>16. ASSUME NEW w \in Workers, callCallback(w)
     PROVE  CloseInv'
  BY <1>16 DEF callCallback, Goto, Released, CompletionCode, clientVars
<1>17. ASSUME NEW w \in Workers, runReturns(w)
     PROVE  CloseInv'
  BY <1>17 DEF runReturns, Goto, sessionVars, clientVars, opVars
<1>18. ASSUME NEW s \in Sessions, Deliver(s)
     PROVE  CloseInv'
  BY <1>18 DEF Deliver, sessionVars, clientVars, threadVars
<1>19. ASSUME NEW s \in Sessions, Progress(s)
     PROVE  CloseInv'
  BY <1>19 DEF Progress, sessionVars, clientVars, threadVars
<1>20. CASE UNCHANGED vars
  BY <1>20 DEF vars, sessionVars, clientVars, opVars, threadVars
<1>. QED
  BY <1>1, <1>2, <1>3, <1>4, <1>5, <1>6, <1>7, <1>8, <1>9, <1>10,
     <1>11, <1>12, <1>13, <1>14, <1>15, <1>16, <1>17, <1>18, <1>19, <1>20
     DEF Next, UserCall, UserReturn, WorkerStep, Network, Finished

\* CancelInv is preserved.
LEMMA CancelInvStep ==
  IInv /\ CancelInv /\ [Next]_vars => CancelInv'
<1>. SUFFICES ASSUME IInv, CancelInv, [Next]_vars PROVE CancelInv'
  OBVIOUS
<1>. USE ThreadsAssumption, NoneAssumption
     DEF Threads, TypeOK, IdlePcs, IInv, LockInv, MapInv, CancelInv
<1>1. ASSUME NEW u \in Users, NEW s \in Sessions, NEW id \in Ids, emulateLongComputationOp(u, s, id)
     PROVE  CancelInv'
  BY <1>1 DEF emulateLongComputationOp, Goto, opVars
<1>2. ASSUME NEW u \in Users, asyncConnect(u)
     PROVE  CancelInv'
  BY <1>2 DEF asyncConnect, Goto, Start, sessionVars, clientVars
<1>3. ASSUME NEW u \in Users, NEW id \in Ids, cancelNotFound(u, id)
     PROVE  CancelInv'
  BY <1>3 DEF cancelNotFound, Lookup, sessionVars, opVars, threadVars
<1>4. ASSUME NEW u \in Users, NEW id \in Ids, cancelFound(u, id)
     PROVE  CancelInv'
  BY <1>4 DEF cancelFound, Lookup, Goto, sessionVars, opVars
<1>5. ASSUME NEW u \in Users, setCancelled(u)
     PROVE  CancelInv'
  BY <1>5 DEF setCancelled, Goto, SocketCancel, CancelFlag
<1>6. ASSUME NEW u \in Users, close(u)
     PROVE  CancelInv'
  BY <1>6 DEF close, Goto, sessionVars, opVars
<1>7. ASSUME NEW u \in Users, joinAll(u)
     PROVE  CancelInv'
  BY <1>7 DEF joinAll, Goto, AllJoined, sessionVars, clientVars, opVars
<1>8. ASSUME NEW w \in Workers, NEW s \in Sessions, connectCallback(w, s)
     PROVE  CancelInv'
  BY <1>8 DEF connectCallback, Goto, Dispatch, CheckError, clientVars
<1>9. ASSUME NEW w \in Workers, NEW s \in Sessions, writeCallback(w, s)
     PROVE  CancelInv'
  BY <1>9 DEF writeCallback, Goto, Dispatch, CheckError, clientVars
<1>10. ASSUME NEW w \in Workers, NEW s \in Sessions, readCallback(w, s)
     PROVE  CancelInv'
  BY <1>10 DEF readCallback, Goto, Dispatch, clientVars
<1>11. ASSUME NEW w \in Workers, NEW s \in Sessions, resumeTransfer(w, s)
     PROVE  CancelInv'
  BY <1>11 DEF resumeTransfer, sessionVars, clientVars, threadVars
<1>12. ASSUME NEW w \in Workers, cancelledReturn(w)
     PROVE  CancelInv'
  BY <1>12 DEF cancelledReturn, LockCancelGuard, Goto, MustStop, clientVars, opVars
<1>13. ASSUME NEW w \in Workers, startNextOp(w)
     PROVE  CancelInv'
  BY <1>13 DEF startNextOp, LockCancelGuard, Goto, Start, MustStop, NextOp, clientVars
<1>14. ASSUME NEW w \in Workers, callbackReturn(w)
     PROVE  CancelInv'
  BY <1>14 DEF callbackReturn, Goto, Released, clientVars, opVars
<1>15. ASSUME NEW w \in Workers, onRequestComplete(w)
     PROVE  CancelInv'
  BY <1>15 DEF onRequestComplete, Goto, Erased, sessionVars, opVars
<1>16. ASSUME NEW w \in Workers, callCallback(w)
     PROVE  CancelInv'
  BY <1>16 DEF callCallback, Goto, Released, CompletionCode, clientVars
<1>17. ASSUME NEW w \in Workers, runReturns(w)
     PROVE  CancelInv'
  BY <1>17 DEF runReturns, Goto, sessionVars, clientVars, opVars
<1>18. ASSUME NEW s \in Sessions, Deliver(s)
     PROVE  CancelInv'
  BY <1>18 DEF Deliver, sessionVars, clientVars, threadVars
<1>19. ASSUME NEW s \in Sessions, Progress(s)
     PROVE  CancelInv'
  BY <1>19 DEF Progress, sessionVars, clientVars, threadVars
<1>20. CASE UNCHANGED vars
  BY <1>20 DEF vars, sessionVars, clientVars, opVars, threadVars
<1>. QED
  BY <1>1, <1>2, <1>3, <1>4, <1>5, <1>6, <1>7, <1>8, <1>9, <1>10,
     <1>11, <1>12, <1>13, <1>14, <1>15, <1>16, <1>17, <1>18, <1>19, <1>20
     DEF Next, UserCall, UserReturn, WorkerStep, Network, Finished

LEMMA IdInvStep ==
  IInv /\ IdInv /\ [Next]_vars => IdInv'
<1>. SUFFICES ASSUME IInv, IdInv, [Next]_vars PROVE IdInv'
  OBVIOUS
<1>. USE ThreadsAssumption, NoneAssumption
<1>1. ASSUME NEW u \in Users, NEW s \in Sessions, NEW id \in Ids, emulateLongComputationOp(u, s, id)
     PROVE  IdInv'
  BY <1>1 DEF emulateLongComputationOp, Goto, opVars, Threads, TypeOK, IdlePcs, IInv,
         ChainInv, CallbackInv, OpInv, StartInv, MapInv, IdInv, LiveIsRegistered, Active
<1>2. ASSUME NEW u \in Users, asyncConnect(u)
     PROVE  IdInv'
  BY <1>2 DEF asyncConnect, Goto, Start, sessionVars, clientVars, Threads, TypeOK, IdlePcs, IInv,
         ChainInv, CallbackInv, OpInv, StartInv, MapInv, IdInv, LiveIsRegistered, Active
<1>3. ASSUME NEW u \in Users, NEW id \in Ids, cancelNotFound(u, id)
     PROVE  IdInv'
  BY <1>3 DEF cancelNotFound, Lookup, sessionVars, opVars, threadVars, Threads, TypeOK, IdlePcs, IInv,
         ChainInv, CallbackInv, OpInv, StartInv, MapInv, IdInv, LiveIsRegistered, Active
<1>4. ASSUME NEW u \in Users, NEW id \in Ids, cancelFound(u, id)
     PROVE  IdInv'
  BY <1>4 DEF cancelFound, Lookup, Goto, sessionVars, opVars, Threads, TypeOK, IdlePcs, IInv,
         ChainInv, CallbackInv, OpInv, StartInv, MapInv, IdInv, LiveIsRegistered, Active
<1>5. ASSUME NEW u \in Users, setCancelled(u)
     PROVE  IdInv'
  BY <1>5 DEF setCancelled, Goto, SocketCancel, CancelFlag, Threads, TypeOK, IdlePcs, IInv,
         ChainInv, CallbackInv, OpInv, StartInv, MapInv, IdInv, LiveIsRegistered, Active
<1>6. ASSUME NEW u \in Users, close(u)
     PROVE  IdInv'
  BY <1>6 DEF close, Goto, sessionVars, opVars, Threads, TypeOK, IdlePcs, IInv,
         ChainInv, CallbackInv, OpInv, StartInv, MapInv, IdInv, LiveIsRegistered, Active
<1>7. ASSUME NEW u \in Users, joinAll(u)
     PROVE  IdInv'
  BY <1>7 DEF joinAll, Goto, AllJoined, sessionVars, clientVars, opVars, Threads, TypeOK, IdlePcs, IInv,
         ChainInv, CallbackInv, OpInv, StartInv, MapInv, IdInv, LiveIsRegistered, Active
<1>8. ASSUME NEW w \in Workers, NEW s \in Sessions, connectCallback(w, s)
     PROVE  IdInv'
  BY <1>8 DEF connectCallback, Goto, Dispatch, CheckError, clientVars, Threads, TypeOK, IdlePcs, IInv,
         ChainInv, CallbackInv, OpInv, StartInv, MapInv, IdInv, LiveIsRegistered, Active
<1>9. ASSUME NEW w \in Workers, NEW s \in Sessions, writeCallback(w, s)
     PROVE  IdInv'
  BY <1>9 DEF writeCallback, Goto, Dispatch, CheckError, clientVars, Threads, TypeOK, IdlePcs, IInv,
         ChainInv, CallbackInv, OpInv, StartInv, MapInv, IdInv, LiveIsRegistered, Active
<1>10. ASSUME NEW w \in Workers, NEW s \in Sessions, readCallback(w, s)
     PROVE  IdInv'
  BY <1>10 DEF readCallback, Goto, Dispatch, clientVars, Threads, TypeOK, IdlePcs, IInv,
         ChainInv, CallbackInv, OpInv, StartInv, MapInv, IdInv, LiveIsRegistered, Active
<1>11. ASSUME NEW w \in Workers, NEW s \in Sessions, resumeTransfer(w, s)
     PROVE  IdInv'
  BY <1>11 DEF resumeTransfer, sessionVars, clientVars, threadVars, Threads, TypeOK, IdlePcs, IInv,
         ChainInv, CallbackInv, OpInv, StartInv, MapInv, IdInv, LiveIsRegistered, Active
<1>12. ASSUME NEW w \in Workers, cancelledReturn(w)
     PROVE  IdInv'
  BY <1>12 DEF cancelledReturn, LockCancelGuard, Goto, MustStop, clientVars, opVars, Threads, TypeOK, IdlePcs, IInv,
         ChainInv, CallbackInv, OpInv, StartInv, MapInv, IdInv, LiveIsRegistered, Active
<1>13. ASSUME NEW w \in Workers, startNextOp(w)
     PROVE  IdInv'
  BY <1>13 DEF startNextOp, LockCancelGuard, Goto, Start, MustStop, NextOp, clientVars, Threads, TypeOK, IdlePcs, IInv,
         ChainInv, CallbackInv, OpInv, StartInv, MapInv, IdInv, LiveIsRegistered, Active
<1>14. ASSUME NEW w \in Workers, callbackReturn(w)
     PROVE  IdInv'
  BY <1>14 DEF callbackReturn, Goto, Released, clientVars, opVars, Threads, TypeOK, IdlePcs, IInv,
         ChainInv, CallbackInv, OpInv, StartInv, MapInv, IdInv, LiveIsRegistered, Active
<1>15. ASSUME NEW w \in Workers, onRequestComplete(w)
     PROVE  IdInv'
  <2>1. at[w] \in Sessions /\ Active(at[w])
    BY <1>15, WorkingIsActive DEF onRequestComplete, IInv
  <2>2. UNCHANGED <<m_id, op>>
    BY <1>15 DEF onRequestComplete, sessionVars, opVars
  <2>3. ASSUME UniqueIds, NEW s \in Sessions, Active(s),
               \A v \in Workers : ~(pc'[v] = "reporting" /\ at'[v] = s)
        PROVE  m_active_sessions'[m_id[s]] = s
    <3>1. s # at[w] /\ \A v \in Workers : ~(pc[v] = "reporting" /\ at[v] = s)
      BY <1>15, <2>3 DEF onRequestComplete, Goto, IInv, TypeOK, Threads
    <3>2. m_id[s] # m_id[at[w]] /\ m_active_sessions[m_id[s]] = s
      BY <2>1, <2>3, <3>1 DEF IdInv, LiveIsRegistered
    <3>3. m_id[s] \in Ids
      BY <2>3 DEF Active, IInv, TypeOK
    <3>. QED
      BY <1>15, <3>2, <3>3 DEF onRequestComplete, Erased, IInv, TypeOK
  <2>. QED
    BY <2>2, <2>3 DEF IdInv, LiveIsRegistered, Active
<1>16. ASSUME NEW w \in Workers, callCallback(w)
     PROVE  IdInv'
  BY <1>16 DEF callCallback, Goto, Released, CompletionCode, clientVars, Threads, TypeOK, IdlePcs, IInv,
         ChainInv, CallbackInv, OpInv, StartInv, MapInv, IdInv, LiveIsRegistered, Active
<1>17. ASSUME NEW w \in Workers, runReturns(w)
     PROVE  IdInv'
  BY <1>17 DEF runReturns, Goto, sessionVars, clientVars, opVars, Threads, TypeOK, IdlePcs, IInv,
         ChainInv, CallbackInv, OpInv, StartInv, MapInv, IdInv, LiveIsRegistered, Active
<1>18. ASSUME NEW s \in Sessions, Deliver(s)
     PROVE  IdInv'
  BY <1>18 DEF Deliver, sessionVars, clientVars, threadVars, Threads, TypeOK, IdlePcs, IInv,
         ChainInv, CallbackInv, OpInv, StartInv, MapInv, IdInv, LiveIsRegistered, Active
<1>19. ASSUME NEW s \in Sessions, Progress(s)
     PROVE  IdInv'
  BY <1>19 DEF Progress, sessionVars, clientVars, threadVars, Threads, TypeOK, IdlePcs, IInv,
         ChainInv, CallbackInv, OpInv, StartInv, MapInv, IdInv, LiveIsRegistered, Active
<1>20. CASE UNCHANGED vars
  BY <1>20 DEF vars, sessionVars, clientVars, opVars, threadVars, Threads, TypeOK, IdlePcs, IInv,
         ChainInv, CallbackInv, OpInv, StartInv, MapInv, IdInv, LiveIsRegistered, Active
<1>. QED
  BY <1>1, <1>2, <1>3, <1>4, <1>5, <1>6, <1>7, <1>8, <1>9, <1>10,
     <1>11, <1>12, <1>13, <1>14, <1>15, <1>16, <1>17, <1>18, <1>19, <1>20
     DEF Next, UserCall, UserReturn, WorkerStep, Network, Finished

LEMMA NoNewOpStep ==
  ASSUME IInv, Next
  PROVE  \A s \in Sessions :
           m_was_cancelled[s] /\ op'[s] # op[s] => op'[s] \in {"connect", "done"}
<1>. DEFINE P == \A s \in Sessions :
           m_was_cancelled[s] /\ op'[s] # op[s] => op'[s] \in {"connect", "done"}
<1>. USE ThreadsAssumption, NoneAssumption
     DEF Threads, TypeOK, IdlePcs, IInv
<1>1. ASSUME NEW u \in Users, NEW s \in Sessions, NEW id \in Ids, emulateLongComputationOp(u, s, id)
     PROVE  P
  BY <1>1 DEF emulateLongComputationOp, Goto, opVars
<1>2. ASSUME NEW u \in Users, asyncConnect(u)
     PROVE  P
  BY <1>2 DEF asyncConnect, Goto, Start, sessionVars, clientVars
<1>3. ASSUME NEW u \in Users, NEW id \in Ids, cancelNotFound(u, id)
     PROVE  P
  BY <1>3 DEF cancelNotFound, Lookup, sessionVars, opVars, threadVars
<1>4. ASSUME NEW u \in Users, NEW id \in Ids, cancelFound(u, id)
     PROVE  P
  BY <1>4 DEF cancelFound, Lookup, Goto, sessionVars, opVars
<1>5. ASSUME NEW u \in Users, setCancelled(u)
     PROVE  P
  BY <1>5 DEF setCancelled, Goto, SocketCancel, CancelFlag
<1>6. ASSUME NEW u \in Users, close(u)
     PROVE  P
  BY <1>6 DEF close, Goto, sessionVars, opVars
<1>7. ASSUME NEW u \in Users, joinAll(u)
     PROVE  P
  BY <1>7 DEF joinAll, Goto, AllJoined, sessionVars, clientVars, opVars
<1>8. ASSUME NEW w \in Workers, NEW s \in Sessions, connectCallback(w, s)
     PROVE  P
  BY <1>8 DEF connectCallback, Goto, Dispatch, CheckError, clientVars
<1>9. ASSUME NEW w \in Workers, NEW s \in Sessions, writeCallback(w, s)
     PROVE  P
  BY <1>9 DEF writeCallback, Goto, Dispatch, CheckError, clientVars
<1>10. ASSUME NEW w \in Workers, NEW s \in Sessions, readCallback(w, s)
     PROVE  P
  BY <1>10 DEF readCallback, Goto, Dispatch, clientVars
<1>11. ASSUME NEW w \in Workers, NEW s \in Sessions, resumeTransfer(w, s)
     PROVE  P
  BY <1>11 DEF resumeTransfer, sessionVars, clientVars, threadVars
<1>12. ASSUME NEW w \in Workers, cancelledReturn(w)
     PROVE  P
  BY <1>12 DEF cancelledReturn, LockCancelGuard, Goto, MustStop, clientVars, opVars
<1>13. ASSUME NEW w \in Workers, startNextOp(w)
     PROVE  P
  BY <1>13 DEF startNextOp, LockCancelGuard, Goto, Start, MustStop, NextOp, clientVars
<1>14. ASSUME NEW w \in Workers, callbackReturn(w)
     PROVE  P
  BY <1>14 DEF callbackReturn, Goto, Released, clientVars, opVars
<1>15. ASSUME NEW w \in Workers, onRequestComplete(w)
     PROVE  P
  BY <1>15 DEF onRequestComplete, Goto, Erased, sessionVars, opVars
<1>16. ASSUME NEW w \in Workers, callCallback(w)
     PROVE  P
  BY <1>16 DEF callCallback, Goto, Released, CompletionCode, clientVars
<1>17. ASSUME NEW w \in Workers, runReturns(w)
     PROVE  P
  BY <1>17 DEF runReturns, Goto, sessionVars, clientVars, opVars
<1>18. ASSUME NEW s \in Sessions, Deliver(s)
     PROVE  P
  BY <1>18 DEF Deliver, sessionVars, clientVars, threadVars
<1>19. ASSUME NEW s \in Sessions, Progress(s)
     PROVE  P
  BY <1>19 DEF Progress, sessionVars, clientVars, threadVars
<1>20. CASE UNCHANGED vars
  BY <1>20 DEF vars, sessionVars, clientVars, opVars, threadVars
<1>. QED
  BY <1>1, <1>2, <1>3, <1>4, <1>5, <1>6, <1>7, <1>8, <1>9, <1>10,
     <1>11, <1>12, <1>13, <1>14, <1>15, <1>16, <1>17, <1>18, <1>19, <1>20
     DEF Next, UserCall, UserReturn, WorkerStep, Network, Finished

LEMMA LifecycleStep == IInv /\ [Next]_vars => [Lifecycle!Next]_(Lifecycle!vars)
<1>. SUFFICES ASSUME IInv, [Next]_vars PROVE [Lifecycle!Next]_(Lifecycle!vars)
  OBVIOUS
<1>. USE ThreadsAssumption, NoneAssumption
<1>1. ASSUME NEW u \in Users, NEW s \in Sessions, NEW id \in Ids, emulateLongComputationOp(u, s, id)
     PROVE  [Lifecycle!Next]_(Lifecycle!vars)
  <2>1. Phase(s) = "new"
    BY <1>1 DEF emulateLongComputationOp, Phase, Active
  <2>2. \A r \in Sessions : Phase(r)' = IF r = s THEN "active" ELSE Phase(r)
    BY <1>1 DEF emulateLongComputationOp, opVars, Phase, Active, IInv, TypeOK, ChainInv, OpInv
  <2>3. [r \in Sessions |-> Phase(r)]' = [[r \in Sessions |-> Phase(r)] EXCEPT ![s] = "active"]
    BY <2>2
  <2>4. Lifecycle!Issue(s)
    BY <1>1, <2>1, <2>3 DEF emulateLongComputationOp, Lifecycle!Issue
  <2>. QED
    BY <2>4 DEF Lifecycle!Next
<1>2. ASSUME NEW u \in Users, asyncConnect(u)
     PROVE  [Lifecycle!Next]_(Lifecycle!vars)
  <2>1. \A r \in Sessions : Phase(r)' = Phase(r)
    BY <1>2 DEF asyncConnect, Start, sessionVars, Phase, Active, IInv, TypeOK, Threads, IdlePcs,
                ChainInv, StartInv
  <2>. QED
    BY <1>2, <2>1 DEF asyncConnect, sessionVars, Lifecycle!vars
<1>3. ASSUME NEW u \in Users, NEW id \in Ids, cancelNotFound(u, id)
     PROVE  [Lifecycle!Next]_(Lifecycle!vars)
  BY <1>3 DEF cancelNotFound, Lookup, sessionVars, opVars, threadVars, Lifecycle!vars, Phase, Active
<1>4. ASSUME NEW u \in Users, NEW id \in Ids, cancelFound(u, id)
     PROVE  [Lifecycle!Next]_(Lifecycle!vars)
  BY <1>4 DEF cancelFound, Lookup, Goto, sessionVars, opVars, Lifecycle!vars, Phase, Active
<1>5. ASSUME NEW u \in Users, setCancelled(u)
     PROVE  [Lifecycle!Next]_(Lifecycle!vars)
  <2>1. at[u] \in Sessions /\ Phase(at[u]) = "active"
    BY <1>5, CancellingIsActive DEF setCancelled, IInv, Phase, Active
  <2>2. Lifecycle!Cancel(at[u])
    BY <1>5, <2>1 DEF setCancelled, CancelFlag, SocketCancel, Lifecycle!Cancel, Phase, Active
  <2>. QED
    BY <2>1, <2>2 DEF Lifecycle!Next
<1>6. ASSUME NEW u \in Users, close(u)
     PROVE  [Lifecycle!Next]_(Lifecycle!vars)
  BY <1>6 DEF close, Goto, sessionVars, opVars, Lifecycle!vars, Phase, Active
<1>7. ASSUME NEW u \in Users, joinAll(u)
     PROVE  [Lifecycle!Next]_(Lifecycle!vars)
  BY <1>7 DEF joinAll, Goto, AllJoined, sessionVars, clientVars, opVars, Lifecycle!vars, Phase, Active
<1>8. ASSUME NEW w \in Workers, NEW s \in Sessions, connectCallback(w, s)
     PROVE  [Lifecycle!Next]_(Lifecycle!vars)
  BY <1>8 DEF connectCallback, Goto, Dispatch, CheckError, clientVars, Lifecycle!vars, Phase, Active
<1>9. ASSUME NEW w \in Workers, NEW s \in Sessions, writeCallback(w, s)
     PROVE  [Lifecycle!Next]_(Lifecycle!vars)
  BY <1>9 DEF writeCallback, Goto, Dispatch, CheckError, clientVars, Lifecycle!vars, Phase, Active
<1>10. ASSUME NEW w \in Workers, NEW s \in Sessions, readCallback(w, s)
     PROVE  [Lifecycle!Next]_(Lifecycle!vars)
  BY <1>10 DEF readCallback, Goto, Dispatch, clientVars, Lifecycle!vars, Phase, Active
<1>11. ASSUME NEW w \in Workers, NEW s \in Sessions, resumeTransfer(w, s)
     PROVE  [Lifecycle!Next]_(Lifecycle!vars)
  BY <1>11 DEF resumeTransfer, sessionVars, clientVars, threadVars, Lifecycle!vars, Phase, Active
<1>12. ASSUME NEW w \in Workers, cancelledReturn(w)
     PROVE  [Lifecycle!Next]_(Lifecycle!vars)
  BY <1>12 DEF cancelledReturn, LockCancelGuard, Goto, MustStop, clientVars, opVars, Lifecycle!vars, Phase, Active
<1>13. ASSUME NEW w \in Workers, startNextOp(w)
     PROVE  [Lifecycle!Next]_(Lifecycle!vars)
  <2>1. at[w] \in Sessions /\ Active(at[w])
    BY <1>13, WorkingIsActive DEF startNextOp, LockCancelGuard, IInv
  <2>2. \A r \in Sessions : Phase(r)' = Phase(r)
    BY <1>13, <2>1 DEF startNextOp, Start, NextOp, Phase, Active, IInv, TypeOK
  <2>. QED
    BY <1>13, <2>2 DEF startNextOp, Lifecycle!vars
<1>14. ASSUME NEW w \in Workers, callbackReturn(w)
     PROVE  [Lifecycle!Next]_(Lifecycle!vars)
  BY <1>14 DEF callbackReturn, Goto, Released, clientVars, opVars, Lifecycle!vars, Phase, Active
<1>15. ASSUME NEW w \in Workers, onRequestComplete(w)
     PROVE  [Lifecycle!Next]_(Lifecycle!vars)
  BY <1>15 DEF onRequestComplete, Goto, Erased, sessionVars, opVars, Lifecycle!vars, Phase, Active
<1>16. ASSUME NEW w \in Workers, callCallback(w)
     PROVE  [Lifecycle!Next]_(Lifecycle!vars)
  <2>1. at[w] \in Sessions /\ Active(at[w]) /\ Phase(at[w]) = "active"
    BY <1>16, WorkingIsActive DEF callCallback, IInv, Phase, Active
  <2>2. \A r \in Sessions : Phase(r)' = IF r = at[w] THEN "done" ELSE Phase(r)
    BY <1>16, <2>1 DEF callCallback, Phase, Active, IInv, TypeOK
  <2>3. [r \in Sessions |-> Phase(r)]'
          = [[r \in Sessions |-> Phase(r)] EXCEPT ![at[w]] = "done"]
    BY <2>2
  <2>4. /\ CompletionCode(at[w]) \in Lifecycle!Codes
        /\ CompletionCode(at[w]) = "success" => ~m_was_cancelled[at[w]]
        /\ CompletionCode(at[w]) = "operation_aborted" => m_was_cancelled[at[w]]
    BY <2>1 DEF CompletionCode, Codes, Lifecycle!Codes, IInv, TypeOK, CodeInv
  <2>5. Lifecycle!Complete(at[w], CompletionCode(at[w]))
    BY <1>16, <2>1, <2>3, <2>4 DEF callCallback, Lifecycle!Complete
  <2>. QED
    BY <2>1, <2>4, <2>5 DEF Lifecycle!Next
<1>17. ASSUME NEW w \in Workers, runReturns(w)
     PROVE  [Lifecycle!Next]_(Lifecycle!vars)
  BY <1>17 DEF runReturns, Goto, sessionVars, clientVars, opVars, Lifecycle!vars, Phase, Active
<1>18. ASSUME NEW s \in Sessions, Deliver(s)
     PROVE  [Lifecycle!Next]_(Lifecycle!vars)
  BY <1>18 DEF Deliver, sessionVars, clientVars, threadVars, Lifecycle!vars, Phase, Active
<1>19. ASSUME NEW s \in Sessions, Progress(s)
     PROVE  [Lifecycle!Next]_(Lifecycle!vars)
  BY <1>19 DEF Progress, sessionVars, clientVars, threadVars, Lifecycle!vars, Phase, Active
<1>20. CASE UNCHANGED vars
  BY <1>20 DEF vars, sessionVars, clientVars, opVars, threadVars, Lifecycle!vars, Phase, Active
<1>. QED
  BY <1>1, <1>2, <1>3, <1>4, <1>5, <1>6, <1>7, <1>8, <1>9, <1>10,
     <1>11, <1>12, <1>13, <1>14, <1>15, <1>16, <1>17, <1>18, <1>19, <1>20
     DEF Next, UserCall, UserReturn, WorkerStep, Network, Finished

-----------------------------------------------------------------------------
(* The theorems.                                                           *)

LEMMA IInvStep == IInv /\ [Next]_vars => IInv'
  BY TypeOKStep, LockInvStep, ChainInvStep, MapInvStep, CodeInvStep, OutcomeStep DEF IInv

\* The inductive invariant holds in every reachable state.
THEOREM IInvInvariant == Spec => []IInv
<1>1. Init => IInv
  BY InitIInv
<1>. QED
  BY <1>1, IInvStep, PTL DEF Spec

\* Type correctness: no thread is ever at a session it does not work on.
THEOREM TypeCorrect == Spec => []TypeOK
<1>1. IInv => TypeOK
  BY DEF IInv
<1>. QED
  BY <1>1, IInvInvariant, PTL

\* The callbacks of one session never work at the same time, so the data
\* they use without a mutex is not raced.
THEOREM CallbacksSerialised == Spec => []HandlersSerialised
<1>1. IInv => HandlersSerialised
  BY DEF IInv, ChainInv
<1>. QED
  BY <1>1, IInvInvariant, PTL

\* onRequestComplete reads m_was_cancelled when no cancelRequest can write it.
THEOREM FlagNotRaced == Spec => []CancelFlagNotRaced
<1>1. ASSUME IInv PROVE CancelFlagNotRaced
  <2>. SUFFICES ASSUME NEW u \in Users, NEW w \in Workers,
                       pc[u] = "cancelling", pc[w] = "reporting", at[u] = at[w]
                PROVE  FALSE
    BY DEF CancelFlagNotRaced
  <2>1. at[u] \in Sessions
    BY <1>1, CancellingIsActive DEF IInv
  <2>. QED
    BY <1>1, <2>1 DEF IInv, MapInv
<1>. QED
  BY <1>1, IInvInvariant, PTL

\* The code a request is reported with agrees with its cancellation, and a
\* request reported as completed has its response.
THEOREM OutcomeIsHonest == Spec => []OutcomeHonest
<1>1. IInv => OutcomeHonest
  BY DEF IInv
<1>. QED
  BY <1>1, IInvInvariant, PTL

\* After the cancellation the chain of operations goes no further.
THEOREM CancelStopsChain == Spec => NoNewOpAfterCancel
<1>1. IInv /\ [Next]_vars =>
        [\A s \in Sessions :
           m_was_cancelled[s] /\ op'[s] # op[s] => op'[s] \in {"connect", "done"}]_vars
  BY NoNewOpStep
<1>. QED
  BY <1>1, IInvInvariant, PTL DEF Spec, NoNewOpAfterCancel

\* Active requests can be found by their ids, if callers keep those distinct.
THEOREM LiveRegistered == Spec => []LiveIsRegistered
<1>1. Init => IInv /\ IdInv
  BY InitIInv
<1>2. (IInv /\ IdInv) /\ [Next]_vars => (IInv /\ IdInv)'
  BY IInvStep, IdInvStep
<1>3. IdInv => LiveIsRegistered
  BY DEF IdInv
<1>. QED
  BY <1>1, <1>2, <1>3, PTL DEF Spec

\* close() returns to its caller only when every request was reported.
THEOREM CloseDropsNone == Spec => []ClosedMeansReported
<1>1. Init => IInv /\ CloseInv
  BY InitIInv
<1>2. (IInv /\ CloseInv) /\ [Next]_vars => (IInv /\ CloseInv)'
  BY IInvStep, CloseInvStep
<1>3. ASSUME IInv, CloseInv PROVE ClosedMeansReported
  <2>. SUFFICES ASSUME NEW u \in Users, pc[u] = "closed", NEW s \in Sessions, Active(s)
                PROVE  FALSE
    BY DEF ClosedMeansReported
  <2>1. status[s] = "idle" /\ ~m_work_guard
    BY <1>3, WorkersAssumption DEF CloseInv
  <2>2. op[s] = "none" /\ m_id[s] # None
    BY <1>3, <2>1 DEF IInv, ChainInv, OpInv, Active
  <2>. QED
    BY <1>3, <2>1, <2>2 DEF CloseInv
<1>. QED
  BY <1>1, <1>2, <1>3, PTL DEF Spec

\* Thread u in cancelRequest and thread w in a callback wait for each other, ...
LockCycle(u, w) ==
  /\ m_active_sessions_guard = u /\ pc[u] = "cancelling"
  /\ m_cancel_guard[at[u]] = w /\ pc[w] = "completing"

\* ... only when the request has been cancelled before.
CycleIsSecondCancel ==
  \A u \in Users, w \in Workers :
    LockCycle(u, w) => m_was_cancelled[at[u]] /\ cancels[m_id[at[u]]] \in 2 .. MaxCancels

\* The deadlock of cancelRequest and a callback has one cause: the request
\* has been cancelled and, still active, is being cancelled again.
THEOREM LockCycleNeedsSecondCancel == Spec => []CycleIsSecondCancel
<1>1. Init => IInv /\ CancelInv
  <2>1. ASSUME Init PROVE CancelInv
    BY <2>1, ThreadsAssumption, NoneAssumption DEF Init, CancelInv, Threads
  <2>. QED
    BY <2>1, InitIInv
<1>2. (IInv /\ CancelInv) /\ [Next]_vars => (IInv /\ CancelInv)'
  BY IInvStep, CancelInvStep
<1>3. IInv /\ CancelInv => CycleIsSecondCancel
  <2>. SUFFICES ASSUME IInv, CancelInv, NEW u \in Users, NEW w \in Workers, LockCycle(u, w)
                PROVE  m_was_cancelled[at[u]] /\ cancels[m_id[at[u]]] \in 2 .. MaxCancels
    BY DEF CycleIsSecondCancel
  <2>1. at[u] \in Sessions /\ m_id[at[u]] \in Ids
    BY CancellingIsActive DEF IInv, MapInv, LockCycle
  <2>2. m_was_cancelled[at[u]]
    BY <2>1 DEF CancelInv, LockCycle
  <2>3. cancels[m_id[at[u]]] >= 2
    BY <2>2 DEF CancelInv, LockCycle
  <2>4. cancels[m_id[at[u]]] \in 0 .. MaxCancels
    BY <2>1 DEF IInv, TypeOK
  <2>. QED
    BY <2>2, <2>3, <2>4, BoundsAssumption
<1>. QED
  BY <1>1, <1>2, <1>3, PTL DEF Spec

\* So if no id is cancelled twice, no number of threads and requests leads
\* to two threads that wait for each other's mutex.
THEOREM OneCancelNeverBlocks ==
  ASSUME MaxCancels <= 1
  PROVE  Spec => []NoLockCycle
<1>1. CycleIsSecondCancel => NoLockCycle
  BY BoundsAssumption DEF CycleIsSecondCancel, NoLockCycle, LockCycle
<1>. QED
  BY <1>1, LockCycleNeedsSecondCancel, PTL

\* The client implements RequestLifecycle.
THEOREM LifecycleImplemented == Spec => ImplementsLifecycle
<1>1. Init => Lifecycle!Init
  BY DEF Init, Lifecycle!Init, Phase, Active
<1>. QED
  BY <1>1, LifecycleStep, IInvInvariant, PTL DEF Spec, ImplementsLifecycle, Lifecycle!Spec
=============================================================================
