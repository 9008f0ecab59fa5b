-------------------------- MODULE RequestResponse ---------------------------
(***************************************************************************)
(* What every request-response server of this repository promises the      *)
(* other end of a connection: one response at most, never before the       *)
(* request has arrived, and none once the connection is closed.            *)
(***************************************************************************)
EXTENDS Naturals

CONSTANT Connections

VARIABLES
  conn,       \* "none", "open" once accepted, "closed" by the server
  requested,  \* has the whole request been received?
  answers     \* responses written

vars == <<conn, requested, answers>>

Init ==
  /\ conn = [c \in Connections |-> "none"]
  /\ requested = [c \in Connections |-> FALSE]
  /\ answers = [c \in Connections |-> 0]

Open(c) ==
  /\ conn[c] = "none"
  /\ conn' = [conn EXCEPT ![c] = "open"]
  /\ UNCHANGED <<requested, answers>>

Receive(c) ==
  /\ conn[c] = "open"
  /\ ~requested[c]
  /\ requested' = [requested EXCEPT ![c] = TRUE]
  /\ UNCHANGED <<conn, answers>>

Answer(c) ==
  /\ conn[c] = "open"
  /\ requested[c]
  /\ answers[c] = 0
  /\ answers' = [answers EXCEPT ![c] = 1]
  /\ UNCHANGED <<conn, requested>>

Close(c) ==
  /\ conn[c] = "open"
  /\ conn' = [conn EXCEPT ![c] = "closed"]
  /\ UNCHANGED <<requested, answers>>

Next == \E c \in Connections : Open(c) \/ Receive(c) \/ Answer(c) \/ Close(c)

Spec == Init /\ [][Next]_vars
=============================================================================
