--------------------------- MODULE SyncTCPServer ---------------------------
(***************************************************************************)
(* The three servers that make blocking calls: the iterative one and the   *)
(* one with a thread per connection of Chapter04, and the iterative SSL    *)
(* server of Chapter05.  One thread accepts, in Server::Run; another one,  *)
(* main, calls Server::Stop and leaves the program.  What the peers do is  *)
(* in SyncService, which extends this module.                              *)
(***************************************************************************)
EXTENDS FiniteSets, Sequences, Naturals

CONSTANTS
  Peers,   \* one connection each
  None     \* no peer

ASSUME NoneAssumption == None \notin Peers

Kinds == {"iterative", "parallel", "ssl"}

VARIABLES
  kind,      \* which of the servers runs
  m_stop,    \* the atomic flag
  acceptor,  \* where the thread of Server::Run is
  current,   \* whom that thread serves, None if nobody
  late,      \* peers accepted since m_stop was set
  service,   \* per peer: the blocking call its HandleClient is in
  received,  \* has it read the request?
  answers,   \* responses it has written
  main,      \* the thread that calls Server::Stop
  conn,      \* the connection as the kernel has it
  tls,       \* the last message of its handshake, or "broken"
  sent,      \* has the peer sent its request?
  left       \* has the peer closed its end?

acceptorVars == <<acceptor, current, late>>
serviceVars == <<service, received, answers>>
peerVars == <<tls, sent, left>>
serverVars == <<kind, m_stop, acceptorVars, serviceVars, main, conn, peerVars>>

\* The blocking calls that HandleClient makes, one after the other.
IterativeCalls == <<"read_until", "write", "return">>
ParallelCalls == <<"read_until", "write", "return">>
SSLCalls == <<"handshake", "read_until", "write", "return">>

Calls == CASE kind = "iterative" -> IterativeCalls
           [] kind = "parallel" -> ParallelCalls
           [] kind = "ssl" -> SSLCalls

ServerInit ==
  /\ kind \in Kinds
  /\ m_stop = FALSE
  /\ acceptor = "Acceptor"     \* Server::Start has started Run
  /\ current = None
  /\ late = {}
  /\ service = [p \in Peers |-> "none"]
  /\ received = [p \in Peers |-> FALSE]
  /\ answers = [p \in Peers |-> 0]
  /\ main = "serving"
  /\ conn = [p \in Peers |-> "none"]
  /\ tls = [p \in Peers |-> "none"]
  /\ sent = [p \in Peers |-> FALSE]
  /\ left = [p \in Peers |-> FALSE]

Running == main \notin {"exited", "terminated"}
Listening == Running /\ acceptor \notin {"Acceptor", "returned"}
Active(p) == service[p] \notin {"none", "done", "killed"}

\* The program ends: its threads with it, and the kernel closes what is open.
EndProgram(how) ==
  /\ main' = how
  /\ conn' = [p \in Peers |-> IF conn[p] = "none" THEN "none" ELSE "closed"]
  /\ service' = [p \in Peers |-> IF Active(p) THEN "killed" ELSE service[p]]
  /\ UNCHANGED <<kind, m_stop, acceptorVars, received, answers, peerVars>>

-----------------------------------------------------------------------------
(* Server::Run and the Acceptor.                                           *)

\* The constructor of Acceptor binds the port and listens ...
Listen ==
  /\ acceptor = "Acceptor"
  /\ acceptor' = "test"
  /\ UNCHANGED <<kind, m_stop, current, late, serviceVars, main, conn, peerVars>>

\* ... or throws: the port is taken, a certificate file is missing.  Nothing
\* catches in that thread.
AcceptorThrows == acceptor = "Acceptor" /\ EndProgram("terminated")

\* Slip: the loop never ends.
Run_Forever ==
  /\ acceptor = "test"
  /\ acceptor' = "accept"
  /\ UNCHANGED <<kind, m_stop, current, late, serviceVars, main, conn, peerVars>>

\* The test of the loop; when Run returns the listening socket is closed
\* and whoever waits in its backlog is reset.
Run ==
  /\ acceptor = "test"
  /\ acceptor' = IF m_stop THEN "returned" ELSE "accept"
  /\ conn' = [p \in Peers |-> IF m_stop /\ conn[p] = "backlog" THEN "closed" ELSE conn[p]]
  /\ UNCHANGED <<kind, m_stop, current, late, serviceVars, main, peerVars>>

\* accept() returns with a connection and its service begins.
Accepted(p) ==
  /\ acceptor = "accept"
  /\ conn[p] = "backlog"
  /\ conn' = [conn EXCEPT ![p] = "open"]
  /\ service' = [service EXCEPT ![p] = Head(Calls)]
  /\ late' = IF m_stop THEN late \cup {p} ELSE late
  /\ UNCHANGED <<kind, m_stop, received, answers, main, peerVars>>

\* Slip: the loop does not wait for the service.
Accept_NoWait(p) ==
  /\ kind # "parallel"
  /\ Accepted(p)
  /\ acceptor' = "test"
  /\ current' = p

\* The iterative servers serve it on the same thread.
Accept(p) ==
  /\ kind # "parallel"
  /\ Accepted(p)
  /\ acceptor' = "HandleClient"
  /\ current' = p

\* The parallel one starts a thread, detaches it and goes on.
StartHandlingClient(p) ==
  /\ kind = "parallel"
  /\ Accepted(p)
  /\ acceptor' = "test"
  /\ UNCHANGED current

\* accept(), or the constructor of the thread, throws; nothing catches.
AcceptThrows == acceptor = "accept" /\ EndProgram("terminated")

-----------------------------------------------------------------------------
(* Service::HandleClient.                                                  *)

Following(call) ==
  LET i == CHOOSE j \in 1 .. Len(Calls) : Calls[j] = call IN Calls[i + 1]

\* One blocking call returns.
Returns(p, call) ==
  /\ service[p] = call
  /\ service' = [service EXCEPT ![p] = Following(call)]
  /\ UNCHANGED <<kind, m_stop, acceptorVars, main, conn, sent, left>>

\* handshake() answers the hello of the peer, if that ever comes ...
answerHello(p) ==
  /\ service[p] = "handshake"
  /\ tls[p] = "hello"
  /\ tls' = [tls EXCEPT ![p] = "answered"]
  /\ UNCHANGED <<kind, m_stop, acceptorVars, serviceVars, main, conn, sent, left>>

\* ... and returns with the peer's last message.
handshake(p) ==
  /\ tls[p] = "finished"
  /\ Returns(p, "handshake")
  /\ UNCHANGED <<received, answers, tls>>

read_until(p) ==
  /\ sent[p]
  /\ Returns(p, "read_until")
  /\ received' = [received EXCEPT ![p] = TRUE]
  /\ UNCHANGED <<answers, tls>>

\* Slip: the write is repeated.
write_Again(p) ==
  /\ service[p] = "write"
  /\ answers' = [answers EXCEPT ![p] = @ + 1]
  /\ UNCHANGED <<kind, m_stop, acceptorVars, service, received, main, conn, peerVars>>

write(p) ==
  /\ Returns(p, "write")
  /\ answers' = [answers EXCEPT ![p] = @ + 1]
  /\ UNCHANGED <<received, tls>>

\* A call throws once the peer has closed its end, or if what it reads is
\* not TLS; a read only if the request is not there.  HandleClient catches.
ServiceThrows(p) ==
  /\ \/ left[p] /\ service[p] \in {"handshake", "read_until", "write"}
     \/ tls[p] = "broken" /\ service[p] \in {"handshake", "read_until"}
  /\ service[p] = "read_until" => ~sent[p]
  /\ service' = [service EXCEPT ![p] = "return"]
  /\ UNCHANGED <<kind, m_stop, acceptorVars, received, answers, main, conn, peerVars>>

\* HandleClient returns, the socket is destroyed with it.
Finish(p) ==
  /\ service[p] = "return"
  /\ service' = [service EXCEPT ![p] = "done"]
  /\ conn' = [conn EXCEPT ![p] = "closed"]
  /\ UNCHANGED <<kind, m_stop, late, received, answers, main, peerVars>>

AcceptReturns(p) ==
  /\ kind # "parallel"
  /\ Finish(p)
  /\ current' = None
  /\ acceptor' = "test"

deleteThis(p) ==
  /\ kind = "parallel"
  /\ Finish(p)
  /\ UNCHANGED <<acceptor, current>>

-----------------------------------------------------------------------------
(* The thread that calls Stop.                                             *)

\* Slip: the flag is not set.
Stop_NoFlag ==
  /\ main = "serving"
  /\ main' = "joining"
  /\ UNCHANGED <<kind, m_stop, acceptorVars, serviceVars, conn, peerVars>>

Stop ==
  /\ main = "serving"
  /\ main' = "joining"
  /\ m_stop' = TRUE
  /\ UNCHANGED <<kind, acceptorVars, serviceVars, conn, peerVars>>

\* Stop() returns and the Server is destroyed, with the io_context that the
\* sockets of detached threads belong to.
join ==
  /\ main = "joining"
  /\ acceptor = "returned"
  /\ main' = "leaving"
  /\ UNCHANGED <<kind, m_stop, acceptorVars, serviceVars, conn, peerVars>>

\* main() returns.
Exit == main = "leaving" /\ EndProgram("exited")

\* Until then a detached thread uses a socket without its io_context, which
\* is undefined: its calls may work as before, or end the program.
OrphanCrashes ==
  /\ main = "leaving"
  /\ \E p \in Peers : Active(p)
  /\ EndProgram("terminated")

-----------------------------------------------------------------------------
RunStep ==
  \/ Listen
  \/ Run
  \/ \E p \in Peers : Accept(p) \/ StartHandlingClient(p)

ServiceStep(p) ==
  \/ answerHello(p)
  \/ handshake(p)
  \/ read_until(p)
  \/ write(p)
  \/ ServiceThrows(p)
  \/ AcceptReturns(p)
  \/ deleteThis(p)

ServerNext ==
  /\ Running
  /\ \/ RunStep
     \/ AcceptorThrows
     \/ AcceptThrows
     \/ \E p \in Peers : ServiceStep(p)
     \/ Stop
     \/ join
     \/ Exit
     \/ OrphanCrashes
=============================================================================
