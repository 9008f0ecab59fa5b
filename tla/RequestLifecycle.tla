-------------------------- MODULE RequestLifecycle --------------------------
(***************************************************************************)
(* What an asynchronous client of this repository promises the caller that *)
(* issues requests through it: a request that was issued calls its         *)
(* callback at most once, it can be cancelled while it is active, and the  *)
(* code handed to the callback never contradicts the cancellation.         *)
(* AsyncTCPClient is shown to implement this module.                       *)
(***************************************************************************)
EXTENDS Sequences

CONSTANT Requests

VARIABLES
  phase,      \* "new", "active" from the call that issues it, "done" once called back
  cancelled,  \* did a cancel request find it
  callbacks   \* the codes its callback was invoked with, in order

vars == <<phase, cancelled, callbacks>>

\* The codes the sample handler tells apart: completed, cancelled by the
\* user, failed with some other code.
Codes == {"success", "operation_aborted", "failure"}

Init ==
  /\ phase = [r \in Requests |-> "new"]
  /\ cancelled = [r \in Requests |-> FALSE]
  /\ callbacks = [r \in Requests |-> <<>>]

Issue(r) ==
  /\ phase[r] = "new"
  /\ phase' = [phase EXCEPT ![r] = "active"]
  /\ UNCHANGED <<cancelled, callbacks>>

Cancel(r) ==
  /\ phase[r] = "active"
  /\ cancelled' = [cancelled EXCEPT ![r] = TRUE]
  /\ UNCHANGED <<phase, callbacks>>

\* A cancelled request may still fail for a reason of its own, but it is
\* never reported as a success, and only a cancelled one as aborted.
Complete(r, code) ==
  /\ phase[r] = "active"
  /\ code = "success" => ~cancelled[r]
  /\ code = "operation_aborted" => cancelled[r]
  /\ phase' = [phase EXCEPT ![r] = "done"]
  /\ callbacks' = [callbacks EXCEPT ![r] = Append(@, code)]
  /\ UNCHANGED cancelled

Next ==
  \E r \in Requests :
    \/ Issue(r)
    \/ Cancel(r)
    \/ \E code \in Codes : Complete(r, code)

Spec == Init /\ [][Next]_vars

=============================================================================
