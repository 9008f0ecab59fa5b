--------------------------- MODULE TransferProofs ---------------------------
(***************************************************************************)
(* Every transfer of Transfer is exact, for messages of any length.        *)
(***************************************************************************)
EXTENDS Transfer, TLAPS

\* What a loop or a composed call knows between two transfers: what passed
\* the socket is what it has counted and what it is about to count, and a
\* call is complete only with enough bytes.
Counted ==
  /\ count = total + bytes_transferred
  /\ transfer \in {"connect", "connected"} => count = 0
  /\ transfer = "complete" => Enough(bytes_transferred)
  /\ transfer = "done" => bytes_transferred = 0
  /\ program \in Composed \cup AsyncComposed /\ transfer # "done" => total = 0

TransferIInv == TransferTypeOK /\ TransferExact /\ Counted

USE MessageSizeAssumption, DelimiterAssumption
USE DEF Programs, FirstCalls, Loops, AsyncLoops, Composed, AsyncComposed, Asynchronous

\* The invariant holds before the first call.
LEMMA TransferInitIInv == TransferInit => TransferIInv
BY DEF TransferInit, TransferIInv, TransferTypeOK, TransferExact, Counted

\* Actions that only go on to another place keep the bytes as they are.
LEMMA AdvanceIInv ==
  ASSUME NEW from \in {"connect", "connected", "pending", "broken"},
         NEW to \in {"connected", "pending", "broken", "thrown", "logged"},
         to = "connected" => from = "connect",
         TransferIInv, Advance(from, to)
  PROVE TransferIInv'
BY DEF Advance, TransferIInv, TransferTypeOK, TransferExact, Counted, Enough

\* A transfer of n bytes at the offset goes on exactly behind the last.
LEMMA MoveIInv ==
  ASSUME NEW n \in 1 .. MessageSize, TransferIInv, Move(n)
  PROVE TransferIInv'
<1>1. /\ Offset + bytes_transferred = count
      /\ n \in 1 .. MessageSize - count
      /\ count' = count + n
      /\ count' \in 1 .. MessageSize
      /\ bytes_transferred' = bytes_transferred + n
      /\ bytes_transferred' \in 1 .. MessageSize
      /\ UNCHANGED <<program, total, returned>>
      /\ transfer' \in {"pending", "complete"}
  BY DEF Move, Offset, TransferIInv, TransferTypeOK, Counted
<1>2. moved' = {<<i, i>> : i \in 1 .. count'}
  <2>1. moved' = {<<i, i>> : i \in 1 .. count} \cup {<<count + i, count + i>> : i \in 1 .. n}
    BY <1>1 DEF Move, TransferIInv, TransferExact
  <2>2. count \in Nat /\ n \in Nat
    BY DEF TransferIInv, TransferTypeOK
  <2>3. ASSUME NEW k \in 1 .. count + n PROVE k \in 1 .. count \/ \E i \in 1 .. n : k = count + i
    <3>1. CASE k <= count
      BY <3>1, <2>2
    <3>2. CASE k > count
      <4>1. k - count \in 1 .. n /\ k = count + (k - count)
        BY <3>2, <2>2
      <4> QED BY <4>1
    <3> QED BY <3>1, <3>2, <2>2
  <2>4. ASSUME NEW i \in 1 .. n PROVE count + i \in 1 .. count + n
    BY <2>2
  <2>5. ASSUME NEW i \in 1 .. count PROVE i \in 1 .. count + n
    BY <2>2
  <2> QED BY <2>1, <2>3, <2>4, <2>5, <1>1
<1>3. moved' \subseteq (1 .. MessageSize) \X (1 .. MessageSize)
  BY <1>1, <1>2 DEF TransferIInv, TransferTypeOK
<1>4. TransferTypeOK'
  BY <1>1, <1>3 DEF TransferIInv, TransferTypeOK
<1>5. TransferExact'
  BY <1>1, <1>2 DEF TransferExact
<1>6. Counted'
  BY <1>1 DEF Move, TransferIInv, TransferTypeOK, Counted, Enough
<1> QED BY <1>4, <1>5, <1>6 DEF TransferIInv

\* A loop ends only when all has passed.
LEMMA RoundIInv ==
  ASSUME NEW which \in Loops \cup AsyncLoops, TransferIInv, Round(which)
  PROVE TransferIInv'
BY DEF Round, TransferIInv, TransferTypeOK, TransferExact, Counted, Enough

\* A composed call returns only with enough bytes.
LEMMA ReturnsIInv ==
  ASSUME NEW which \in Composed \cup AsyncComposed, NEW bytes,
         bytes = IF which = "read_until" THEN {b \in 1 .. bytes_transferred : b < Delimiter}
                                         ELSE 1 .. MessageSize,
         TransferIInv, Returns(which, bytes)
  PROVE TransferIInv'
<1>1. /\ total = 0 /\ count = bytes_transferred
      /\ IF which = "read_until" THEN count >= Delimiter ELSE count = MessageSize
  BY DEF Returns, TransferIInv, TransferTypeOK, Counted, Enough
<1>2. bytes = IF which = "read_until" THEN 1 .. Delimiter - 1 ELSE 1 .. MessageSize
  <2>1. bytes_transferred \in Nat
    BY DEF TransferIInv, TransferTypeOK
  <2>2. CASE which = "read_until"
    <3>1. \A b : b \in 1 .. bytes_transferred /\ b < Delimiter <=> b \in 1 .. Delimiter - 1
      BY <1>1, <2>1, <2>2
    <3>2. {b \in 1 .. bytes_transferred : b < Delimiter} = 1 .. Delimiter - 1
      BY <3>1
    <3> QED BY <2>2, <3>2
  <2>3. CASE which # "read_until"
    BY <2>3
  <2> QED BY <2>2, <2>3
<1> QED BY <1>1, <1>2 DEF Returns, TransferIInv, TransferTypeOK, TransferExact, Counted, Enough

\* The second message of the first program starts anew.
LEMMA NextMessageIInv ==
  ASSUME TransferIInv, NextMessage
  PROVE TransferIInv'
BY DEF NextMessage, TransferIInv, TransferTypeOK, TransferExact, Counted, Enough

\* TransferIInv is inductive.
LEMMA TransferNextIInv == TransferIInv /\ [TransferNext]_transferVars => TransferIInv'
<1> SUFFICES ASSUME TransferIInv, [TransferNext]_transferVars PROVE TransferIInv'
  OBVIOUS
<1>1. CASE Connect \/ ConnectCallback
  BY <1>1, AdvanceIInv DEF Connect, ConnectCallback
<1>2. CASE StartSync \/ StartWriteSome \/ StartReadSome \/ StartWrite \/ StartRead
  BY <1>2, AdvanceIInv DEF StartSync, StartWriteSome, StartReadSome, StartWrite, StartRead, Start
<1>3. CASE writeToSocket \/ readFromSocket \/ WriteCallback \/ ReadCallback
  BY <1>3, RoundIInv DEF writeToSocket, readFromSocket, WriteCallback, ReadCallback
<1>4. CASE NextMessage
  BY <1>4, NextMessageIInv
<1>5. CASE \/ writeToSocketEnhanced \/ readFromSocketEnhanced \/ readFromSocketDelim
           \/ AsyncWriteCallback \/ AsyncReadCallback
  BY <1>5, ReturnsIInv
  DEF writeToSocketEnhanced, readFromSocketEnhanced, readFromSocketDelim, AsyncWriteCallback,
      AsyncReadCallback
<1>6. CASE Throws \/ Logs \/ Break
  BY <1>6, AdvanceIInv DEF Throws, Logs, Break
<1>7. CASE \E n \in 1 .. MessageSize : Move(n)
  BY <1>7, MoveIInv
<1>8. CASE UNCHANGED transferVars
  BY <1>8 DEF transferVars, TransferIInv, TransferTypeOK, TransferExact, Counted, Enough
<1> QED
  BY <1>1, <1>2, <1>3, <1>4, <1>5, <1>6, <1>7, <1>8 DEF TransferNext, TransferStep, TransferKernel

\* However a message of any length is cut into partial transfers, each
\* loop and each composed call moves every byte to its own place, none
\* twice, and ends without an error only with all of them.
THEOREM EveryTransferExact == TransferSpec => []TransferExact
<1>1. TransferIInv => TransferExact
  BY DEF TransferIInv
<1> QED BY TransferInitIInv, TransferNextIInv, <1>1, PTL DEF TransferSpec
=============================================================================
