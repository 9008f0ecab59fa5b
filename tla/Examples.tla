------------------------------ MODULE Examples ------------------------------
(***************************************************************************)
(* The example programs of Chapter02, Chapter06 and the appendices, side   *)
(* by side: a behaviour of this specification is a behaviour of one group  *)
(* of them, chosen at the start, while the others have not been started.   *)
(***************************************************************************)
EXTENDS Transfer, HalfClose, ConnectCancel, Timers, ThreadPool

VARIABLE chosen   \* the group whose program runs

Groups == {"transfer", "half_close", "connect_cancel", "timers", "thread_pool"}

vars == <<chosen, transferVars, halfCloseVars, connectCancelVars, timerVars, poolVars>>

\* Which program of a group that is not chosen has not been started does
\* not matter.
Init ==
  /\ chosen \in Groups
  /\ TransferInit /\ (chosen # "transfer" => program = "read")
  /\ HalfCloseInit
  /\ ConnectCancelInit
  /\ TimersInit /\ (chosen # "timers" => example = "async")
  /\ PoolInit

InTransfer(step) ==
  /\ chosen = "transfer"
  /\ step
  /\ UNCHANGED <<chosen, halfCloseVars, connectCancelVars, timerVars, poolVars>>

InHalfClose(step) ==
  /\ chosen = "half_close"
  /\ step
  /\ UNCHANGED <<chosen, transferVars, connectCancelVars, timerVars, poolVars>>

InConnectCancel(step) ==
  /\ chosen = "connect_cancel"
  /\ step
  /\ UNCHANGED <<chosen, transferVars, halfCloseVars, timerVars, poolVars>>

InTimers(step) ==
  /\ chosen = "timers"
  /\ step
  /\ UNCHANGED <<chosen, transferVars, halfCloseVars, connectCancelVars, poolVars>>

InThreadPool(step) ==
  /\ chosen = "thread_pool"
  /\ step
  /\ UNCHANGED <<chosen, transferVars, halfCloseVars, connectCancelVars, timerVars>>

Next ==
  \/ InTransfer(TransferNext)
  \/ InHalfClose(HalfCloseNext)
  \/ InConnectCancel(ConnectCancelNext)
  \/ InTimers(TimersNext)
  \/ InThreadPool(PoolNext)

Spec == Init /\ [][Next]_vars

\* The fairness of each module, for the group that was chosen.
Fairness ==
  /\ WF_vars(InTransfer(TransferStep)) /\ WF_vars(InTransfer(TransferKernel))
  /\ \A e \in Ends : WF_vars(InHalfClose(EndStep(e)))
  /\ WF_vars(InConnectCancel(Cancel \/ Join))
  /\ WF_vars(InConnectCancel(WakeUp \/ ConnectHandler \/ RunReturns))
  /\ \A t \in Timers : WF_vars(InTimers(Expire(t)))
  /\ \A w \in Threads : WF_vars(InTimers(ThreadStep(w)))
  /\ WF_vars(InTimers(joinThread))
  /\ WF_vars(InThreadPool(joinPool))
  /\ \A w \in PoolThreads : WF_vars(InThreadPool(PoolThreadStep(w)))

FairSpec == Spec /\ Fairness

-----------------------------------------------------------------------------
(* Properties.                                                             *)

TypesOK ==
  /\ TransferTypeOK
  /\ HalfCloseTypeOK
  /\ ConnectCancelTypeOK
  /\ TimersTypeOK
  /\ PoolTypeOK

\* Every variable has its type, and what the programs say at their end is
\* true: each end of a half-closed connection has the whole message, a
\* connect or a timer is reported once and as what happened to it, and the
\* pool has performed every task.
OutcomesTrue ==
  /\ TypesOK
  /\ HalfCloseComplete
  /\ CancelReported
  /\ TimersReported
  /\ JoinedMeansDone

\* Every program ends: a transfer when it is done or has failed, both ends
\* of a half-closed connection (a server that nobody connects to waits), a
\* cancelled connect, the last timer, and a pool that was told to.
EveryExampleEnds ==
  /\ chosen = "transfer" ~>
       transfer \in {"thrown", "logged"} \/ (transfer = "done" /\ program # "write_some")
  /\ chosen = "half_close" ~>
       \/ \A e \in Ends : call[e] \in {"done", "failed"}
       \/ call = [client |-> "failed", server |-> "accept"]
  /\ chosen = "connect_cancel" ~> canceller = "returned"
  /\ chosen = "timers" ~> thread["main"] = <<"done">>
  /\ reader = "join" ~> reader = "done"
=============================================================================
