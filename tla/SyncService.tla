---------------------------- MODULE SyncService ----------------------------
(***************************************************************************)
(* The blocking servers with their clients: the TCP client of Chapter03,   *)
(* or the SSL client of Chapter05 when the server is the SSL one, and      *)
(* strangers, who connect and then do as they like.  Both sides meet in    *)
(* the variables of SyncTCPServer that stand for a connection.             *)
(***************************************************************************)
EXTENDS SyncTCPServer

CONSTANT Clients   \* those of the peers that run a client of this repository

ASSUME ClientsAssumption == Clients \subseteq Peers

VARIABLE client    \* per peer: the blocking call its main() is in

vars == <<serverVars, client>>

Strangers == Peers \ Clients

Init == ServerInit /\ client = [p \in Peers |-> "connect"]

\* A call of a peer returns; what it does to the connection is said apart.
Call(p, from, to) ==
  /\ client[p] = from
  /\ client' = [client EXCEPT ![p] = to]
  /\ UNCHANGED <<kind, m_stop, acceptorVars, serviceVars, main>>

\* connect() returns as soon as the connection is in the backlog.
Connected(p, to) ==
  /\ Listening
  /\ Call(p, "connect", to)
  /\ conn' = [conn EXCEPT ![p] = "backlog"]

connect(p) ==
  /\ kind # "ssl"
  /\ Connected(p, "sendRequest")
  /\ UNCHANGED peerVars

sslConnect(p) ==
  /\ kind = "ssl"
  /\ Connected(p, "hello")
  /\ UNCHANGED peerVars

\* handshake() sends the hello and waits for the answer of the server ...
startHandshake(p) ==
  /\ conn[p] \in {"backlog", "open"}
  /\ tls[p] = "none"
  /\ Call(p, "hello", "handshake")
  /\ tls' = [tls EXCEPT ![p] = "hello"]
  /\ UNCHANGED <<conn, sent, left>>

\* ... accepts its certificate, whatever it is, and returns once it has sent
\* the last message.
handshakeReturns(p) ==
  /\ tls[p] = "answered"
  /\ Call(p, "handshake", "sendRequest")
  /\ tls' = [tls EXCEPT ![p] = "finished"]
  /\ UNCHANGED <<conn, sent, left>>

sendRequest(p) ==
  /\ conn[p] \in {"backlog", "open"}
  /\ tls[p] # "broken"
  /\ Call(p, "sendRequest", "receiveResponse")
  /\ sent' = [sent EXCEPT ![p] = TRUE]
  /\ UNCHANGED <<conn, tls, left>>

receiveResponse(p) ==
  /\ answers[p] > 0
  /\ Call(p, "receiveResponse", "close")
  /\ UNCHANGED <<conn, peerVars>>

Closes(p, from, to) ==
  /\ Call(p, from, to)
  /\ left' = [left EXCEPT ![p] = TRUE]
  /\ UNCHANGED <<conn, tls, sent>>

close(p) == kind # "ssl" /\ Closes(p, "close", "done")

\* The shutdown of the SSL stream waits for the server to end the session.
sslClose(p) ==
  /\ kind = "ssl"
  /\ conn[p] = "closed"
  /\ Closes(p, "close", "done")

\* A call throws: nobody listens, or the connection was closed or reset
\* before it could return; even the shutdown in close() may.  main() prints
\* the error and returns.
Throws(p) ==
  \/ ~Listening /\ Closes(p, "connect", "failed")
  \/ /\ conn[p] = "closed"
     /\ \/ \E from \in {"hello", "handshake", "sendRequest"} : Closes(p, from, "failed")
        \/ answers[p] = 0 /\ Closes(p, "receiveResponse", "failed")
        \/ kind # "ssl" /\ Closes(p, "close", "failed")

\* A stranger sends what is not TLS, at any point of the session ...
Garble(p) ==
  /\ kind = "ssl"
  /\ conn[p] \in {"backlog", "open"}
  /\ ~left[p]
  /\ tls[p] # "broken"
  /\ tls' = [tls EXCEPT ![p] = "broken"]
  /\ UNCHANGED <<kind, m_stop, acceptorVars, serviceVars, main, conn, sent, left, client>>

\* ... and leaves whenever it wants to.
Leave(p) ==
  /\ conn[p] # "none"
  /\ \E from \in {"hello", "handshake", "sendRequest", "receiveResponse", "close"} :
       Closes(p, from, "done")

ClientStep(p) ==
  \/ connect(p)
  \/ sslConnect(p)
  \/ startHandshake(p)
  \/ handshakeReturns(p)
  \/ sendRequest(p)
  \/ receiveResponse(p)
  \/ close(p)
  \/ sslClose(p)
  \/ Throws(p)

Next ==
  \/ ServerNext /\ UNCHANGED client
  \/ \E p \in Peers : ClientStep(p)
  \/ \E p \in Strangers : Garble(p) \/ Leave(p)

Spec == Init /\ [][Next]_vars

\* Threads that can go on do, and clients run their program.  Nobody has to
\* call Stop, and a stranger need not do anything.
Fairness ==
  /\ WF_vars(Running /\ RunStep /\ UNCHANGED client)
  /\ \A p \in Peers : WF_vars(Running /\ ServiceStep(p) /\ UNCHANGED client)
  /\ WF_vars(Running /\ join /\ UNCHANGED client)
  /\ WF_vars(Running /\ Exit /\ UNCHANGED client)
  /\ \A p \in Clients : WF_vars(ClientStep(p))

FairSpec == Spec /\ Fairness

-----------------------------------------------------------------------------
(* Properties.                                                             *)

\* Every variable has its type, and the thread of an iterative server is in
\* HandleClient exactly for the one connection that is being served.
TypeOK ==
  /\ kind \in Kinds
  /\ m_stop \in BOOLEAN
  /\ acceptor \in {"Acceptor", "test", "accept", "HandleClient", "returned"}
  /\ current \in Peers \cup {None}
  /\ late \subseteq Peers
  /\ service \in [Peers -> {"none", "handshake", "read_until", "write", "return", "done", "killed"}]
  /\ received \in [Peers -> BOOLEAN]
  /\ answers \in [Peers -> Nat]
  /\ main \in {"serving", "joining", "leaving", "exited", "terminated"}
  /\ conn \in [Peers -> {"none", "backlog", "open", "closed"}]
  /\ tls \in [Peers -> {"none", "hello", "answered", "finished", "broken"}]
  /\ sent \in [Peers -> BOOLEAN]
  /\ left \in [Peers -> BOOLEAN]
  /\ client \in [Peers -> {"connect", "hello", "handshake", "sendRequest", "receiveResponse",
                           "close", "done", "failed"}]
  /\ kind # "parallel" => \A p \in Peers : Active(p) => p = current

\* Whatever the program is doing when m_stop is set, one more connection
\* is accepted at most; and when Stop() has returned no service of an
\* iterative server is left that would use the destroyed io_context.
\* (Detached services of the parallel server can be: see OrphanCrashes.)
StopIsFinal ==
  /\ Cardinality(late) <= 1
  /\ main = "leaving" /\ kind # "parallel" => \A p \in Peers : ~Active(p)

Conn(p) == CASE service[p] = "none" -> "none"
             [] service[p] = "done" -> "closed"
             [] OTHER -> "open"

\* Towards each peer the server keeps the promise of RequestResponse.  The
\* connection of a service that dies with the program is never closed by it.
Abstract == INSTANCE RequestResponse WITH
  Connections <- Peers,
  conn <- [p \in Peers |-> Conn(p)],
  requested <- received

ImplementsRequestResponse == Abstract!Spec

\* The only thread of an iterative server waits for a message that it is
\* up to a stranger to send.
Stalled ==
  /\ kind # "parallel"
  /\ \E p \in Strangers :
       /\ ~left[p]
       /\ \/ service[p] = "handshake" /\ tls[p] \in {"none", "answered"}
          \/ service[p] = "read_until" /\ ~sent[p] /\ tls[p] # "broken"

\* Only a stranger who stays silent for ever, at an iterative server, can
\* hold up anybody for ever: every client that has connected ends, with its
\* response or an exception, even behind strangers who are slow, break the
\* session or leave, and even when the server is stopped or dies; and
\* Stop(), which waits for a blocking accept, returns once there is a
\* connection to be accepted.
OnlyStrangersStall ==
  /\ \A p \in Clients : conn[p] = "backlog" ~> (client[p] \in {"done", "failed"} \/ []Stalled)
  /\ (main = "joining" /\ \E p \in Peers : conn[p] = "backlog")
       ~> (main # "joining" \/ []Stalled)
=============================================================================
