------------------------------ MODULE Transfer ------------------------------
(***************************************************************************)
(* The programs of Chapter02 that move one message through a connected     *)
(* socket, each named after the call it makes: loops around write_some and *)
(* read_some, the same with callbacks, and the composed calls.  A transfer *)
(* may be partial; a loop must go on exactly where the last one ended.     *)
(* main() of the first program sends a second message with asio::write.    *)
(***************************************************************************)
EXTENDS Naturals

CONSTANTS
  MessageSize,  \* bytes of the message, and of the buffer
  Delimiter     \* the position of '\n' in it

ASSUME MessageSizeAssumption == MessageSize \in Nat \ {0}
ASSUME DelimiterAssumption == Delimiter \in 1 .. MessageSize

Loops == {"write_some", "read_some"}
AsyncLoops == {"async_write_some", "async_read_some"}
Composed == {"write", "read", "read_until"}
AsyncComposed == {"async_write", "async_read"}
Asynchronous == AsyncLoops \cup AsyncComposed
Programs == Loops \cup AsyncLoops \cup Composed \cup AsyncComposed
FirstCalls == Programs \ {"write"}

VARIABLES
  program,            \* the call that the program is making
  transfer,           \* where it is, or how it ended
  total,              \* total_bytes_written, total_bytes_read
  bytes_transferred,  \* by the operation under way
  count,              \* bytes of the message that have passed the socket
  moved,              \* which: <<place in the stream, place in the buffer>>
  returned            \* places of the buffer handed to the caller

transferVars == <<program, transfer, total, bytes_transferred, count, moved, returned>>

TransferInit ==
  /\ program \in FirstCalls
  /\ transfer = "connect"
  /\ total = 0
  /\ bytes_transferred = 0
  /\ count = 0
  /\ moved = {}
  /\ returned = {}

Advance(from, to) ==
  /\ transfer = from
  /\ transfer' = to
  /\ UNCHANGED <<program, total, bytes_transferred, count, moved, returned>>

\* main(): all but one connect with a blocking call, which may throw.
Connect ==
  program # "async_write_some" /\ (Advance("connect", "connected") \/ Advance("connect", "thrown"))

\* The callback of async_connect.
ConnectCallback ==
  program = "async_write_some" /\ (Advance("connect", "connected") \/ Advance("connect", "logged"))

\* Starting the first operation, with the whole buffer.
Start(which) == program \in which /\ Advance("connected", "pending")

StartSync == Start(Loops \cup Composed)
StartWriteSome == Start({"async_write_some"})
StartReadSome == Start({"async_read_some"})
StartWrite == Start({"async_write"})
StartRead == Start({"async_read"})

\* Slip: the buffer is not advanced.
Offset_Start == 0

\* Where in the buffer the operation begins: buf + total_bytes_written.
Offset == total

\* The kernel moves n bytes, as many as the operation has room for.  The
\* library goes on with a composed call until it has what was asked for.
Enough(n) ==
  \/ program \in Loops \cup AsyncLoops
  \/ program = "read_until" /\ n >= Delimiter
  \/ n = MessageSize

Move(n) ==
  LET offset == Offset + bytes_transferred IN
  /\ transfer = "pending"
  /\ n \in 1 .. MessageSize - offset
  /\ moved' = moved \cup {<<count + i, offset + i>> : i \in 1 .. n}
  /\ count' = count + n
  /\ bytes_transferred' = bytes_transferred + n
  /\ transfer' = IF Enough(bytes_transferred') THEN "complete" ELSE "pending"
  /\ UNCHANGED <<program, total, returned>>

\* The peer closes or resets the connection.
Break == Advance("pending", "broken")

\* One round of a loop: count what was moved, go on unless that is all.
Round(which) ==
  /\ program = which
  /\ transfer = "complete"
  /\ total' = total + bytes_transferred
  /\ bytes_transferred' = 0
  /\ transfer' = IF total' = MessageSize THEN "done" ELSE "pending"
  /\ returned' = IF total' = MessageSize THEN 1 .. MessageSize ELSE returned
  /\ UNCHANGED <<program, count, moved>>

writeToSocket == Round("write_some")

\* main() goes on with the second message.
NextMessage ==
  /\ program = "write_some"
  /\ transfer = "done"
  /\ program' = "write"
  /\ transfer' = "pending"
  /\ total' = 0
  /\ bytes_transferred' = 0
  /\ count' = 0
  /\ moved' = {}
  /\ returned' = {}

readFromSocket == Round("read_some")
WriteCallback == Round("async_write_some")
ReadCallback == Round("async_read_some")

\* The end of a composed call, with the bytes that its caller gets.
Returns(which, bytes) ==
  /\ program = which
  /\ transfer = "complete"
  /\ transfer' = "done"
  /\ total' = total + bytes_transferred
  /\ bytes_transferred' = 0
  /\ returned' = bytes
  /\ UNCHANGED <<program, count, moved>>

writeToSocketEnhanced == Returns("write", 1 .. MessageSize)
readFromSocketEnhanced == Returns("read", 1 .. MessageSize)
AsyncWriteCallback == Returns("async_write", 1 .. MessageSize)
AsyncReadCallback == Returns("async_read", 1 .. MessageSize)

\* read_until may have read on; getline extracts, of the bytes that are in the
\* buffer, those before the delimiter.
readFromSocketDelim == Returns("read_until", {b \in 1 .. bytes_transferred : b < Delimiter})

\* A blocking call throws and main() returns the code; a callback logs the
\* error and returns, and main() returns 0.
Throws == program \notin Asynchronous /\ Advance("broken", "thrown")
Logs == program \in Asynchronous /\ Advance("broken", "logged")

TransferStep ==
  \/ Connect \/ ConnectCallback
  \/ StartSync \/ StartWriteSome \/ StartReadSome \/ StartWrite \/ StartRead
  \/ writeToSocket \/ NextMessage \/ readFromSocket
  \/ WriteCallback \/ ReadCallback
  \/ writeToSocketEnhanced \/ readFromSocketEnhanced \/ readFromSocketDelim
  \/ AsyncWriteCallback \/ AsyncReadCallback
  \/ Throws \/ Logs

TransferKernel == (\E n \in 1 .. MessageSize : Move(n)) \/ Break

TransferNext == TransferStep \/ TransferKernel

\* The program goes on, and the peer reads, writes or closes in the end.
TransferFairness == WF_transferVars(TransferStep) /\ WF_transferVars(TransferKernel)

TransferSpec == TransferInit /\ [][TransferNext]_transferVars

-----------------------------------------------------------------------------
(* Properties.                                                             *)

TransferTypeOK ==
  /\ program \in Programs
  /\ transfer \in {"connect", "connected", "pending", "complete", "broken", "done", "thrown",
                   "logged"}
  /\ total \in 0 .. MessageSize
  /\ bytes_transferred \in 0 .. MessageSize
  /\ count \in 0 .. MessageSize
  /\ moved \subseteq (1 .. MessageSize) \X (1 .. MessageSize)
  /\ returned \subseteq 1 .. MessageSize

\* However the message is cut into partial transfers, every byte goes to
\* its own place, none twice and none left out before a later one; and a
\* program that ends without an error has moved all of them, or, reading a
\* line, hands on exactly the bytes before the delimiter.
TransferExact ==
  /\ moved = {<<i, i>> : i \in 1 .. count}
  /\ transfer = "done" =>
       /\ total = count
       /\ IF program = "read_until"
            THEN count >= Delimiter /\ returned = 1 .. Delimiter - 1
            ELSE count = MessageSize /\ returned = 1 .. MessageSize
=============================================================================
