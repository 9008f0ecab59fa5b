--------------------------- MODULE ConnectCancel ---------------------------
(***************************************************************************)
(* The cancellation example of Chapter02: main() starts async_connect and  *)
(* a worker thread that sleeps before it runs the io_context, and cancels  *)
(* the socket at once.  Nothing but the scheduler makes the cancel come    *)
(* before the worker.                                                      *)
(***************************************************************************)
EXTENDS Sequences

VARIABLES
  connecting,  \* where the io_context has the async_connect
  connectCode, \* the error code for its callback
  cancelled,   \* has sock->cancel() been called?
  worker,      \* the thread that runs the io_context
  canceller,   \* main()
  found      \* what the callback found, in order

connectCancelVars == <<connecting, connectCode, cancelled, worker, canceller, found>>

ConnectCancelInit ==
  /\ connecting = "pending"
  /\ connectCode = "success"
  /\ cancelled = FALSE
  /\ worker = "sleeping"
  /\ canceller = "cancel"
  /\ found = <<>>

Queue(code) ==
  /\ connecting = "pending"
  /\ connecting' = "queued"
  /\ connectCode' = code

\* It may end at once or while the worker is in run(), unless it is
\* cancelled before.
ConnectEnds ==
  /\ \E code \in {"success", "refused"} : Queue(code)
  /\ UNCHANGED <<cancelled, worker, canceller, found>>

\* sock->cancel() aborts the connect if it is still pending.
Cancel ==
  /\ canceller = "cancel"
  /\ canceller' = "join"
  /\ cancelled' = TRUE
  /\ IF connecting = "pending" THEN Queue("operation_aborted")
     ELSE UNCHANGED <<connecting, connectCode>>
  /\ UNCHANGED <<worker, found>>

WakeUp ==
  /\ worker = "sleeping"
  /\ worker' = "running"
  /\ UNCHANGED <<connecting, connectCode, cancelled, canceller, found>>

ConnectHandler ==
  /\ worker = "running"
  /\ connecting = "queued"
  /\ connecting' = "none"
  /\ found' = Append(found, connectCode)
  /\ UNCHANGED <<connectCode, cancelled, worker, canceller>>

\* run() returns when nothing is left to wait for.
RunReturns ==
  /\ worker = "running"
  /\ connecting = "none"
  /\ worker' = "returned"
  /\ UNCHANGED <<connecting, connectCode, cancelled, canceller, found>>

Join ==
  /\ canceller = "join"
  /\ worker = "returned"
  /\ canceller' = "returned"
  /\ UNCHANGED <<connecting, connectCode, cancelled, worker, found>>

ConnectCancelNext == ConnectEnds \/ Cancel \/ WakeUp \/ ConnectHandler \/ RunReturns \/ Join

\* Both threads run; a connect need not end, since it is cancelled.
ConnectCancelFairness ==
  WF_connectCancelVars(Cancel \/ Join) /\ WF_connectCancelVars(WakeUp \/ ConnectHandler \/ RunReturns)

ConnectCancelSpec == ConnectCancelInit /\ [][ConnectCancelNext]_connectCancelVars

-----------------------------------------------------------------------------
(* Properties.                                                             *)

ConnectCancelTypeOK ==
  /\ connecting \in {"pending", "queued", "none"}
  /\ connectCode \in {"success", "refused", "operation_aborted"}
  /\ cancelled \in BOOLEAN
  /\ worker \in {"sleeping", "running", "returned"}
  /\ canceller \in {"cancel", "join", "returned"}
  /\ found \in Seq({"success", "refused", "operation_aborted"})

\* Whichever of cancel, connect and worker comes first, the callback has
\* run once when main() returns, and says "Operation cancelled!" only if
\* the socket was cancelled.
CancelReported ==
  /\ canceller = "returned" => \E code \in {"success", "refused", "operation_aborted"} : found = <<code>>
  /\ found = <<"operation_aborted">> => cancelled
=============================================================================
