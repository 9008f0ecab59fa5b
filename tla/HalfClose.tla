----------------------------- MODULE HalfClose -----------------------------
(***************************************************************************)
(* The two programs of Chapter02 that mark the end of a message by closing *)
(* one direction of the connection: the client sends its request and       *)
(* shuts down sending, the server reads to the end of the stream before it *)
(* answers and does the same.  Each end makes blocking calls.              *)
(***************************************************************************)
EXTENDS Naturals

CONSTANTS RequestSize, ResponseSize   \* bytes

ASSUME SizesAssumption == RequestSize \in Nat /\ ResponseSize \in Nat

Ends == {"client", "server"}
Peer(e) == IF e = "client" THEN "server" ELSE "client"
SizeOf(e) == IF e = "client" THEN RequestSize ELSE ResponseSize

VARIABLES
  call,     \* per end: the blocking call it is in, or how it ended
  written,  \* bytes it has written
  fin,      \* has it closed its direction?
  got,      \* bytes it has read
  reset     \* was the connection reset?

halfCloseVars == <<call, written, fin, got, reset>>

HalfCloseInit ==
  /\ call = [client |-> "connect", server |-> "accept"]
  /\ written = [e \in Ends |-> 0]
  /\ fin = [e \in Ends |-> FALSE]
  /\ got = [e \in Ends |-> 0]
  /\ reset = FALSE

\* The call that follows in communicate() and in processRequest().
communicate(from) ==
  CASE from = "connect" -> "write" [] from = "write" -> "shutdown"
    [] from = "shutdown" -> "read" [] from = "read" -> "done"

processRequest(from) ==
  CASE from = "accept" -> "read" [] from = "read" -> "write"
    [] from = "write" -> "shutdown" [] from = "shutdown" -> "done"

After(e, from) == IF e = "client" THEN communicate(from) ELSE processRequest(from)

Goes(e, from) == call[e] = from /\ call' = [call EXCEPT ![e] = After(e, from)]

\* connect() and accept() meet.
Meet ==
  /\ call["client"] = "connect"
  /\ call["server"] = "accept"
  /\ call' = [client |-> communicate("connect"), server |-> processRequest("accept")]
  /\ UNCHANGED <<written, fin, got, reset>>

\* connect() throws when nobody listens, accept() when the kernel refuses.
ConnectThrows(e) ==
  /\ e = "client"
  /\ call[e] = "connect"
  /\ call' = [call EXCEPT ![e] = "failed"]
  /\ UNCHANGED <<written, fin, got, reset>>

AcceptThrows ==
  /\ call["server"] = "accept"
  /\ call' = [call EXCEPT !["server"] = "failed"]
  /\ UNCHANGED <<written, fin, got, reset>>

\* asio::write goes on until all is written.
WriteSome(e) ==
  /\ ~reset
  /\ call[e] = "write"
  /\ written[e] < SizeOf(e)
  /\ written' = [written EXCEPT ![e] = @ + 1]
  /\ UNCHANGED <<call, fin, got, reset>>

WriteReturns(e) ==
  /\ ~reset
  /\ written[e] = SizeOf(e)
  /\ Goes(e, "write")
  /\ UNCHANGED <<written, fin, got, reset>>

\* Slip: the direction is not closed.
ShutdownSend_Not(e) ==
  /\ ~reset
  /\ Goes(e, "shutdown")
  /\ UNCHANGED <<written, fin, got, reset>>

ShutdownSend(e) ==
  /\ ~reset
  /\ Goes(e, "shutdown")
  /\ fin' = [fin EXCEPT ![e] = TRUE]
  /\ UNCHANGED <<written, got, reset>>

\* asio::read goes on until the end of the stream.
ReadSome(e) ==
  /\ call[e] = "read"
  /\ got[e] < written[Peer(e)]
  /\ ~reset
  /\ got' = [got EXCEPT ![e] = @ + 1]
  /\ UNCHANGED <<call, written, fin, reset>>

\* Slip: the read ends when nothing has come for a while.
ReadEof_Idle(e) ==
  /\ ~reset
  /\ got[e] = written[Peer(e)]
  /\ Goes(e, "read")
  /\ UNCHANGED <<written, fin, got, reset>>

ReadEof(e) ==
  /\ ~reset
  /\ fin[Peer(e)]
  /\ got[e] = written[Peer(e)]
  /\ Goes(e, "read")
  /\ UNCHANGED <<written, fin, got, reset>>

\* The connection breaks; every later call throws and main() returns.
Reset ==
  /\ ~reset
  /\ {"connect", "accept"} \cap {call[e] : e \in Ends} = {}
  /\ reset' = TRUE
  /\ UNCHANGED <<call, written, fin, got>>

CallThrows(e) ==
  /\ reset
  /\ call[e] \in {"write", "shutdown", "read"}
  /\ call' = [call EXCEPT ![e] = "failed"]
  /\ UNCHANGED <<written, fin, got, reset>>

EndStep(e) ==
  \/ ConnectThrows(e) \/ CallThrows(e)
  \/ WriteSome(e) \/ WriteReturns(e) \/ ShutdownSend(e)
  \/ ReadSome(e) \/ ReadEof(e)

HalfCloseNext == Meet \/ AcceptThrows \/ (\E e \in Ends : EndStep(e)) \/ Reset

\* Both programs run; accept() waits for as long as nobody connects.
HalfCloseFairness == \A e \in Ends : WF_halfCloseVars(EndStep(e))

HalfCloseSpec == HalfCloseInit /\ [][HalfCloseNext]_halfCloseVars

-----------------------------------------------------------------------------
(* Properties.                                                             *)

HalfCloseTypeOK ==
  /\ call \in [Ends -> {"connect", "accept", "write", "shutdown", "read", "done", "failed"}]
  /\ written \in [Ends -> Nat]
  /\ fin \in [Ends -> BOOLEAN]
  /\ got \in [Ends -> Nat]
  /\ reset \in BOOLEAN

\* The server writes nothing before it has the whole request, and an end
\* that finishes without an error has the whole message of the other.
HalfCloseComplete ==
  /\ written["server"] > 0 => got["server"] = RequestSize
  /\ call["client"] = "done" => got["client"] = ResponseSize
  /\ call["server"] = "done" => got["server"] = RequestSize
=============================================================================
