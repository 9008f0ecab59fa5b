--------------------------- MODULE ExamplesProofs ---------------------------
(***************************************************************************)
(* What the example programs say at their end is true, for any sizes, any  *)
(* number of tasks and any number of threads of the pool.  TransferProofs  *)
(* and TimersProofs cover two of the five groups, this module the others   *)
(* and all of them together.                                               *)
(***************************************************************************)
EXTENDS Examples, TransferProofs, TimersProofs

-----------------------------------------------------------------------------
(* The half-closed connection.                                             *)

\* The calls that each end makes.
CallsOf(e) ==
  IF e = "client" THEN {"connect", "write", "shutdown", "read", "done", "failed"}
  ELSE {"accept", "read", "write", "shutdown", "done", "failed"}

\* An end closes its direction only behind its whole message, reads no more
\* than was written, and goes on from its read only with all of it.
HalfCloseIInv ==
  /\ HalfCloseTypeOK
  /\ \A e \in Ends :
       /\ call[e] \in CallsOf(e)
       /\ got[e] <= written[Peer(e)] /\ written[e] <= SizeOf(e)
       /\ fin[e] \/ call[e] = "shutdown" => written[e] = SizeOf(e)
  /\ call["client"] = "done" => got["client"] = ResponseSize
  /\ call["server"] \in {"write", "shutdown", "done"} => got["server"] = RequestSize
  /\ written["server"] > 0 => got["server"] = RequestSize

\* The two ends.
LEMMA EndFacts ==
  /\ \A e \in Ends : Peer(e) \in Ends /\ Peer(Peer(e)) = e /\ Peer(e) # e /\ SizeOf(e) \in Nat
  /\ Peer("client") = "server" /\ Peer("server") = "client"
  /\ SizeOf("client") = RequestSize /\ SizeOf("server") = ResponseSize
  /\ "client" \in Ends /\ "server" \in Ends
BY SizesAssumption DEF Ends, Peer, SizeOf

\* HalfCloseIInv holds when the programs start and each call keeps it.
LEMMA HalfCloseInitIInv == HalfCloseInit => HalfCloseIInv
<1> SUFFICES ASSUME HalfCloseInit PROVE HalfCloseIInv
  OBVIOUS
<1>1. /\ DOMAIN call = Ends /\ call["client"] = "connect" /\ call["server"] = "accept"
      /\ \A e \in Ends : written[e] = 0 /\ got[e] = 0 /\ fin[e] = FALSE
  BY DEF HalfCloseInit, Ends
<1>2. \A e \in Ends : call[e] \in CallsOf(e) /\ call[e] # "shutdown"
  BY <1>1 DEF CallsOf, Ends
<1>3. HalfCloseTypeOK
  <2>1. call \in [Ends -> {"connect", "accept", "write", "shutdown", "read", "done", "failed"}]
    BY <1>1 DEF HalfCloseInit, Ends
  <2>. QED
    BY <2>1 DEF HalfCloseInit, HalfCloseTypeOK
<1>. QED
  BY <1>1, <1>2, <1>3, EndFacts DEF HalfCloseIInv

LEMMA HalfCloseNextIInv ==
  ASSUME HalfCloseIInv, [HalfCloseNext]_halfCloseVars
  PROVE  HalfCloseIInv'
<1>. USE EndFacts DEF HalfCloseIInv, HalfCloseTypeOK, CallsOf
<1>1. CASE Meet
  BY <1>1 DEF Meet, communicate, processRequest, Ends
<1>2. CASE AcceptThrows
  BY <1>2 DEF AcceptThrows
<1>3. CASE Reset
  BY <1>3 DEF Reset
<1>4. ASSUME NEW e \in Ends, ConnectThrows(e) \/ CallThrows(e)
      PROVE  HalfCloseIInv'
  BY <1>4 DEF ConnectThrows, CallThrows, Ends
<1>5. ASSUME NEW e \in Ends, WriteSome(e)
      PROVE  HalfCloseIInv'
  BY <1>5 DEF WriteSome, Ends
<1>6. ASSUME NEW e \in Ends, WriteReturns(e)
      PROVE  HalfCloseIInv'
  BY <1>6 DEF WriteReturns, Goes, After, communicate, processRequest, Ends
<1>7. ASSUME NEW e \in Ends, ShutdownSend(e)
      PROVE  HalfCloseIInv'
  BY <1>7 DEF ShutdownSend, Goes, After, communicate, processRequest, Ends
<1>8. ASSUME NEW e \in Ends, ReadSome(e)
      PROVE  HalfCloseIInv'
  <2>1. got[e] + 1 <= written[Peer(e)] /\ call[e] = "read"
    BY <1>8 DEF ReadSome
  <2>2. e = "server" => written["server"] = 0 \/ got["server"] = RequestSize
    OBVIOUS
  <2>3. e = "server" => got["server"] < RequestSize
    <3>1. \A d \in Ends : written[d] <= SizeOf(d)
      OBVIOUS
    <3>. QED
      BY <2>1, <3>1
  <2>. QED
    BY <1>8, <2>1, <2>2, <2>3 DEF ReadSome, Ends
<1>9. ASSUME NEW e \in Ends, ReadEof(e)
      PROVE  HalfCloseIInv'
  BY <1>9 DEF ReadEof, Goes, After, communicate, processRequest, Ends
<1>10. CASE UNCHANGED halfCloseVars
  BY <1>10 DEF halfCloseVars
<1>. QED
  BY <1>1, <1>2, <1>3, <1>4, <1>5, <1>6, <1>7, <1>8, <1>9, <1>10 DEF HalfCloseNext, EndStep

LEMMA HalfCloseIInvInvariant == HalfCloseSpec => []HalfCloseIInv
BY HalfCloseInitIInv, HalfCloseNextIInv, PTL DEF HalfCloseSpec

\* Whatever the sizes, no end finishes with less than the whole message.
THEOREM HalfCloseAlwaysComplete == HalfCloseSpec => []HalfCloseComplete
<1>1. HalfCloseIInv => HalfCloseComplete
  BY DEF HalfCloseIInv, HalfCloseComplete
<1>. QED
  BY HalfCloseIInvInvariant, <1>1, PTL

-----------------------------------------------------------------------------
(* The cancelled connect.                                                  *)

\* The callback runs once, with the code of the connect, before run() and
\* then main() return; the code is an abort only after cancel().
ConnectCancelIInv ==
  /\ ConnectCancelTypeOK
  /\ IF connecting = "none" THEN found = <<connectCode>> ELSE found = <<>>
  /\ connectCode = "operation_aborted" => cancelled
  /\ worker = "returned" => connecting = "none"
  /\ canceller = "returned" => worker = "returned"

LEMMA ConnectCancelInitIInv == ConnectCancelInit => ConnectCancelIInv
<1> SUFFICES ASSUME ConnectCancelInit PROVE ConnectCancelIInv
  OBVIOUS
<1>1. found = <<>> /\ found \in Seq({"success", "refused", "operation_aborted"})
  BY DEF ConnectCancelInit
<1>. QED
  BY <1>1 DEF ConnectCancelInit, ConnectCancelIInv, ConnectCancelTypeOK

LEMMA ConnectCancelNextIInv ==
  ASSUME ConnectCancelIInv, [ConnectCancelNext]_connectCancelVars
  PROVE  ConnectCancelIInv'
<1>. USE DEF ConnectCancelIInv, ConnectCancelTypeOK
<1>1. CASE ConnectEnds
  BY <1>1 DEF ConnectEnds, Queue
<1>2. CASE Cancel
  BY <1>2 DEF Cancel, Queue
<1>3. CASE WakeUp
  BY <1>3 DEF WakeUp
<1>4. CASE ConnectHandler
  BY <1>4 DEF ConnectHandler
<1>5. CASE RunReturns
  BY <1>5 DEF RunReturns
<1>6. CASE Join
  BY <1>6 DEF Join
<1>7. CASE UNCHANGED connectCancelVars
  BY <1>7 DEF connectCancelVars
<1>. QED
  BY <1>1, <1>2, <1>3, <1>4, <1>5, <1>6, <1>7 DEF ConnectCancelNext

LEMMA ConnectCancelIInvInvariant == ConnectCancelSpec => []ConnectCancelIInv
BY ConnectCancelInitIInv, ConnectCancelNextIInv, PTL DEF ConnectCancelSpec

\* Whichever of cancel, connect and worker comes first.
THEOREM CancelAlwaysReported == ConnectCancelSpec => []CancelReported
<1>1. ConnectCancelIInv => CancelReported
  BY DEF ConnectCancelIInv, ConnectCancelTypeOK, CancelReported
<1>. QED
  BY ConnectCancelIInvInvariant, <1>1, PTL

-----------------------------------------------------------------------------
(* The thread pool.                                                        *)

\* Does a thread perform task k?
Running(k) == \E w \in PoolThreads : running[w] = k

\* A task that was posted waits, or one thread performs it, or it has been
\* performed, once; and a thread leaves the pool only when nothing is left.
PoolIInv ==
  /\ PoolTypeOK
  /\ waitingTasks \subseteq 1 .. posted
  /\ \A w \in PoolThreads :
       running[w] # NoTask =>
         running[w] \in 1 .. posted /\ running[w] \notin waitingTasks /\ performed[running[w]] = 0
  /\ \A v, w \in PoolThreads : running[v] = running[w] /\ running[w] # NoTask => v = w
  /\ \A k \in waitingTasks : performed[k] = 0
  /\ \A k \in 1 .. MaxTasks : performed[k] <= 1
  /\ \A k \in 1 .. posted : k \in waitingTasks \/ Running(k) \/ performed[k] = 1
  /\ \A k \in 1 .. MaxTasks : k > posted => performed[k] = 0
  /\ ended # {} =>
       /\ reader # "reading"
       /\ waitingTasks = {}
       /\ \A w \in PoolThreads : running[w] = NoTask
  /\ reader = "done" => ended = PoolThreads

LEMMA PoolInitIInv == PoolInit => PoolIInv
BY PoolAssumption DEF PoolInit, PoolIInv, PoolTypeOK, Running

LEMMA PoolNextIInv ==
  ASSUME PoolIInv, [PoolNext]_poolVars
  PROVE  PoolIInv'
<1>. USE PoolAssumption DEF PoolIInv, PoolTypeOK, Running
<1>1. CASE post
  BY <1>1 DEF post
<1>2. CASE cancelCommand
  BY <1>2 DEF cancelCommand
<1>3. ASSUME NEW w \in PoolThreads, TakeTask(w)
      PROVE  PoolIInv'
  BY <1>3 DEF TakeTask
<1>4. ASSUME NEW w \in PoolThreads, my_task(w)
      PROVE  PoolIInv'
  BY <1>4 DEF my_task
<1>5. ASSUME NEW w \in PoolThreads, LeavePool(w)
      PROVE  PoolIInv'
  BY <1>5 DEF LeavePool
<1>6. CASE joinPool
  BY <1>6 DEF joinPool
<1>7. CASE UNCHANGED poolVars
  BY <1>7 DEF poolVars
<1>. QED
  BY <1>1, <1>2, <1>3, <1>4, <1>5, <1>6, <1>7 DEF PoolNext, PoolThreadStep

LEMMA PoolIInvInvariant == PoolSpec => []PoolIInv
BY PoolInitIInv, PoolNextIInv, PTL DEF PoolSpec

\* However many threads and tasks: none is performed twice, and join()
\* returns only when all have been.
THEOREM JoinAlwaysMeansDone == PoolSpec => []JoinedMeansDone
<1>1. PoolIInv => JoinedMeansDone
  BY PoolAssumption DEF PoolIInv, PoolTypeOK, JoinedMeansDone, Running
<1>. QED
  BY PoolIInvInvariant, <1>1, PTL

-----------------------------------------------------------------------------
(* All of them.                                                            *)

\* A step of the chosen program is a step of its own module and leaves the
\* variables of the others alone.
LEMMA ExamplesRunEach ==
  Spec => TransferSpec /\ HalfCloseSpec /\ ConnectCancelSpec /\ TimersSpec /\ PoolSpec
<1>1. Init => TransferInit /\ HalfCloseInit /\ ConnectCancelInit /\ TimersInit /\ PoolInit
  BY DEF Init
<1>2. ASSUME [Next]_vars
      PROVE  /\ [TransferNext]_transferVars
             /\ [HalfCloseNext]_halfCloseVars
             /\ [ConnectCancelNext]_connectCancelVars
             /\ [TimersNext]_timerVars
             /\ [PoolNext]_poolVars
  BY <1>2
  DEF Next, vars, InTransfer, InHalfClose, InConnectCancel, InTimers, InThreadPool
<1>. QED
  BY <1>1, <1>2, PTL DEF Spec, TransferSpec, HalfCloseSpec, ConnectCancelSpec, TimersSpec, PoolSpec

\* Every transfer is exact and every count is, in the composed specification.
THEOREM ExamplesExact == Spec => []TransferExact /\ []CountExact
BY ExamplesRunEach, EveryTransferExact, EveryCountExact

\* What each program says at its end is true.
THEOREM ExamplesOutcomesTrue == Spec => []OutcomesTrue
<1>1. TransferIInv /\ HalfCloseIInv /\ ConnectCancelIInv /\ TimersIInv /\ PoolIInv => OutcomesTrue
  <2>1. TransferIInv => TransferTypeOK
    BY DEF TransferIInv
  <2>2. HalfCloseIInv => HalfCloseTypeOK /\ HalfCloseComplete
    BY DEF HalfCloseIInv, HalfCloseComplete
  <2>3. ConnectCancelIInv => ConnectCancelTypeOK /\ CancelReported
    BY DEF ConnectCancelIInv, ConnectCancelTypeOK, CancelReported
  <2>4. TimersIInv => TimersTypeOK /\ TimersReported
    BY ReportedAtEnd DEF TimersIInv
  <2>5. PoolIInv => PoolTypeOK /\ JoinedMeansDone
    BY PoolAssumption DEF PoolIInv, PoolTypeOK, JoinedMeansDone, Running
  <2>. QED
    BY <2>1, <2>2, <2>3, <2>4, <2>5 DEF OutcomesTrue, TypesOK
<1>2. TransferSpec => []TransferIInv
  BY TransferInitIInv, TransferNextIInv, PTL DEF TransferSpec
<1>. QED
  BY ExamplesRunEach, <1>1, <1>2, HalfCloseIInvInvariant, ConnectCancelIInvInvariant,
     TimersIInvInvariant, PoolIInvInvariant, PTL
=============================================================================
