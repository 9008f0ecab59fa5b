----------------------------- MODULE UDPClient -----------------------------
(***************************************************************************)
(* The UDP client of Chapter03 and its main(), which asks two servers one  *)
(* after the other.  Datagrams are lost, duplicated and reordered, and the *)
(* port of the client is open to everybody.                                *)
(***************************************************************************)
EXTENDS Naturals

CONSTANTS
  Others,         \* endpoints that belong to neither server
  MaxDuplicates   \* bound: datagrams delivered twice

ServerIds == {1, 2}
server_address == <<"127.0.0.1", "172.17.233.14">>
server_port_num == <<3333, 3334>>

Server(k) == <<server_address[k], server_port_num[k]>>

Senders == {Server(k) : k \in ServerIds} \cup Others

\* The endpoint that main() passes for server k: the second call has the
\* address of server 2 and the port of server 1.
Destination(k) == <<server_address[k], server_port_num[1]>>

VARIABLES
  main,        \* where main() is, or how it ended
  turn,        \* the server that it is asking
  ep,          \* the endpoint: where to send, then who answered
  requests,    \* where requests are on their way to
  responses,   \* who has sent the datagrams on their way to the client
  duplicates,  \* datagrams that the network has duplicated
  answeredBy   \* per server: who sent what main() printed as its response

vars == <<main, turn, ep, requests, responses, duplicates, answeredBy>>

Init ==
  /\ main = "emulateLongComputationOp"
  /\ turn = 1
  /\ ep = Destination(1)
  /\ requests = {}
  /\ responses = {}
  /\ duplicates = 0
  /\ answeredBy = [k \in {} |-> <<>>]

emulateLongComputationOp ==
  /\ main = "emulateLongComputationOp"
  /\ main' = "sendRequest"
  /\ ep' = Destination(turn)
  /\ UNCHANGED <<turn, requests, responses, duplicates, answeredBy>>

sendRequest ==
  /\ main = "sendRequest"
  /\ main' = "receiveResponse"
  /\ requests' = requests \cup {ep}
  /\ UNCHANGED <<turn, ep, responses, duplicates, answeredBy>>

\* receive_from takes the datagram of any sender and overwrites ep.  main()
\* prints it as the response of the server it has asked.
receiveResponse(s) ==
  /\ main = "receiveResponse"
  /\ s \in responses
  /\ \/ responses' = responses \ {s} /\ UNCHANGED duplicates
     \/ duplicates < MaxDuplicates /\ duplicates' = duplicates + 1 /\ UNCHANGED responses
  /\ ep' = s
  /\ answeredBy' = [k \in DOMAIN answeredBy \cup {turn} |-> IF k = turn THEN s ELSE answeredBy[k]]
  /\ turn' = 2
  /\ main' = IF turn = 1 THEN "emulateLongComputationOp" ELSE "done"
  /\ UNCHANGED requests

\* The constructor or a call throws; main() prints the error and returns
\* its code.
Throws ==
  /\ main \in {"sendRequest", "receiveResponse"} \/ (main = "emulateLongComputationOp" /\ turn = 1)
  /\ main' = "failed"
  /\ UNCHANGED <<turn, ep, requests, responses, duplicates, answeredBy>>

\* A server that gets a request answers from the endpoint it listens at.
Answer(k) ==
  /\ Server(k) \in requests
  /\ requests' = requests \ {Server(k)}
  /\ responses' = responses \cup {Server(k)}
  /\ UNCHANGED <<main, turn, ep, duplicates, answeredBy>>

\* A datagram nobody asked for.
Stray(s) ==
  /\ s \in Others
  /\ main = "receiveResponse"
  /\ responses' = responses \cup {s}
  /\ UNCHANGED <<main, turn, ep, requests, duplicates, answeredBy>>

Lose ==
  /\ \/ \E d \in requests : requests' = requests \ {d} /\ UNCHANGED responses
     \/ \E s \in responses : responses' = responses \ {s} /\ UNCHANGED requests
  /\ UNCHANGED <<main, turn, ep, duplicates, answeredBy>>

Next ==
  \/ emulateLongComputationOp
  \/ sendRequest
  \/ \E s \in Senders : receiveResponse(s) \/ Stray(s)
  \/ Throws
  \/ \E k \in ServerIds : Answer(k)
  \/ Lose

Spec == Init /\ [][Next]_vars

-----------------------------------------------------------------------------
(* Properties.                                                             *)

\* What main() prints as the response from the server #2 was sent by
\* server 2.  The code does not ensure it: the request goes to the port of
\* server 1, and a datagram of anybody is taken for the response.
SecondIsFromServer2 == 2 \in DOMAIN answeredBy => answeredBy[2] = Server(2)
=============================================================================
