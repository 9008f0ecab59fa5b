# Boost.Asio cookbook: models, checks and proofs

TLA+ modules of the programs under `src/Cookbook`, the TLC configurations that
check them on small instances, and theorems about them that TLAPS checks for
every value of the constants.  Paths below are relative to `src/Cookbook`.

## 1. Inventory

The repository is a set of separate programs; the ones with state worth
modelling are clients and servers that talk to each other over sockets.

| component | state | operations | hard behaviour | correct when |
|---|---|---|---|---|
| Async TCP client (`Chapter03/04`, one-thread twin `Chapter03/03`) | map of active sessions and its mutex; per session a cancel flag and its mutex, error, response; work guard; thread pool | `emulateLongComputationOp`, `cancelRequest`, `close`; connect, write and read callbacks; `onRequestComplete` | callers and io threads interleave; two mutexes; cancel races answer, next operation, completion | one callback per request with an honest code; a cancel stops the chain; no data race, no deadlock; `close` returns after the last callback |
| Async TCP server (`Chapter04/03`) | acceptor flag; per connection a Service that deletes itself; thread pool | `onAccept`, `InitAccept`, `StartHandling`, `onRequestReceived`, `onResponseSent`, `onFinish`, `Stop` | callbacks with raw pointers on several threads; failed accepts; stop while serving | no use after delete; at most one answer, after the request; everyone accepted and answered until `Stop`, which returns |
| Sync TCP servers (`Chapter04/01`, `Chapter04/02`), sync SSL server (`Chapter05/04`) | stop flag, acceptor thread, a thread per connection in the second | `Accept`, `HandleClient`, `Stop` | blocking calls, detached threads | answers; whom a silent client may delay; when `Stop` returns |
| HTTP client (`Chapter05/01`) | per request a cancel flag and its mutex, request buffer, response | `execute`, `cancel`, six callbacks, `close` | as the async client, throwing calls in callbacks | one callback per `execute`, honest code |
| HTTP server (`Chapter05/02`) | as the async server; status code, headers, resource | parse, `process_request`, `send_response`, `on_finish` | error paths, limited buffer, throwing `shutdown` and allocation | one response with the right status; Service deleted once |
| Sync clients (`Chapter03/01`, `Chapter03/02`, `Chapter05/03`) | socket, buffer | `connect`, send, receive, `close` | lost or foreign datagrams | the answer belongs to the request; a call returns or throws |
| I/O examples (`Chapter02`) | transfer counters, socket | read and write loops, `cancel`, `shutdown` | partial transfers; cancel against connect; half-close | everything transferred once; both ends terminate |
| Timers, thread pool (`Appendix_01`, `Appendix_02`, `Chapter06/03`) | shared count, strand | two timer callbacks, `post`, `join` | callbacks on two threads | the count is exact |
| Basics (`Chapter01`, rest of `Chapter06`), helpers, test scripts, books | none | straight-line library calls | none | not modelled |

Clients and servers meet only over a connection; inside a program threads share
the objects above and hand each other work through the `io_context`.  The library
is modelled from how the code uses it: a pending operation completes at any time,
its callback is queued, and any thread inside `run()` may take it.

## 2. Plan

In the order in which they were written:

1. `RequestLifecycle`, `AsyncTCPClient`, `MCAsyncTCPClient`, `AsyncTCPClientProofs`
2. `RequestResponse`, `AsyncTCPServer`, `AsyncTCPServerProofs`
3. `HTTPClient`, `HTTPClientProofs`
4. `HTTPServer`, `MCHTTPServer`: the Service of `Chapter05/02` under the acceptor of
   `AsyncTCPServer`; refines `RequestResponse`
5. `SyncTCPServer`, the three blocking servers, and `SyncService`, which extends it with
   their clients; refines `RequestResponse`
6. `Transfer`, `HalfClose`, `ConnectCancel`, `Timers`, `ThreadPool`, and `Examples`, which
   puts them side by side
7. `UDPClient`

8. `TransferProofs`, `HTTPServerProofs`, `SyncServiceProofs`, `TimersProofs`,
   `ExamplesProofs`

Every safety invariant, safety action property and refinement that a run checks is now
also a theorem. What is left to TLC is listed at the end of section 5.

## 3. Modules

### RequestLifecycle, RequestResponse

Abstract specifications. `RequestLifecycle`: a request is issued, may be
cancelled while active, and is called back once, with "success" only if it was not
cancelled and "operation_aborted" only if it was. `RequestResponse`: a connection is
opened, its request arrives, one answer goes out, it is closed, in that order.

### AsyncTCPClient (`Chapter03/04_async_tcp_client_mt`)

| code | model |
|---|---|
| `m_active_sessions`, `m_active_sessions_guard` | function from ids to sessions; owner of the mutex |
| `Session::m_id`, `m_was_cancelled`, `m_cancel_guard`, `m_ec`, `m_response` | functions on `Sessions` with these names |
| operation the session has in the `io_context` | `op`, `status`, `result`, `parts` |
| calls of `m_callback` | `reported`, the codes in order |
| position of a thread | `pc`, `at` |

`emulateLongComputationOp` is two steps, since the session can be found and
cancelled between unlocking the map and `async_connect`. `cancelRequest` is two
steps, since it waits for the second mutex with the first one held. A callback is
up to four: taking it, testing the flag and starting the next operation under
`m_cancel_guard` (or not), `onRequestComplete` up to the unlock, and the callback
of the user. `m_cancel_guard` stays locked through `onRequestComplete` where the
code calls it with the `unique_lock` in scope. A lock that is taken and released
within one step is not stored.

`async_write` and `async_read_until` are composed: status `partial` says that
bytes have moved and the internal handler is waiting to ask for the rest.

Assumed of callers: `close` is called once and no request is issued
concurrently with it or after it; callbacks do not call the client back.
`UniqueIds` says whether ids of active requests are kept distinct. Errors of
`socket::open` (line 25), which throw before anything is shared, are left out.
For code the two copies share, the map in `PROJECT.json` names the lines of either.

### AsyncTCPServer (`Chapter04/03_async_parallel_tcp_server`)

| code | model |
|---|---|
| `Acceptor::m_isStopped` and its `async_accept` | `m_isStopped`, `acceptor`, `accepted` |
| a `Service` and its lifetime | `service`: none, alive, deleted |
| its operation and buffers | `op`, `status`, `result`, `m_request`, `m_response` |
| `Server::Stop` in the main thread | `main`, `ioStopped` |
| threads of the pool | `pc`, `at` |

Each client connects once and may send its request, stay silent or leave. After it
leaves an operation ends with an error, or well if the request was sent before.
Two steps of one handler are separated wherever another thread can interfere:
after `StartHandling` the new Service may be run and deleted by another thread while
`onAccept` goes on, and the flag may change after it has been tested.

### HTTPClient (`Chapter05/01_http_client`)

| code | model |
|---|---|
| `m_was_cancelled`, the parts of `m_response` | `m_was_cancelled`, `received` |
| the operation of the request, addresses left to `async_connect` | `op`, `status`, `result`, `endpoints`, `parts` |
| calls of `m_callback` | `reported` |
| the io thread | `io`, `handling` |
| `m_work_guard`, the thread in `close` | `m_work_guard`, `main` |

`m_cancel_mux` guards only critical sections that wait for nothing else, so each is a step
and the mutex is not stored. A callback is two steps, before and in its critical
section, so that a cancel can come between. A request cancelled before `execute`
is reported on the caller's thread. `async_connect` over a list of addresses goes on
after a failed attempt, and a cancel is a failed attempt to it. The throwing
`shutdown` in `on_request_sent` may end the program (`io = "died"`); `PeersReset` allows it.

This client does not implement `RequestLifecycle`: `on_response_body_received` does
not test the flag, so a request cancelled between two parts of its body, or after the last,
is reported as a success. `CancelStopsChain` says what remains true: a cancel
before the body read starts is always respected.

Assumed of callers: a request is executed once, not while the client is being
closed, and kept until its callback has run.

### HTTPServer (`Chapter05/02_http_server`)

The acceptor, the pool and `Server::Stop` have the variables of `AsyncTCPServer`; so has
the operation of a Service, which is now one of three.

| code | model |
|---|---|
| what the callbacks tell apart in a request: length, method, version, headers, resource | `request`, one of eleven `Kinds` |
| `m_response_status_code` and the body, when `send_response` runs: none, the file, or memory nothing was read into | `response` |
| responses written to the socket | `answers` |
| an exception that leaves `run()`, and so `std::terminate` | `main = "terminated"`, after which nothing happens |

A callback is two steps, taking it and running it. Errors have two ways out: `not_found`
(4096 bytes without the delimiter) is answered with 413, any other error deletes the
Service. `shutdown` throws in `send_response` and `on_response_sent` once the client has
reset the connection, and `process_request` may throw (`resourceThrows`): for a path that
`exists` cannot look up (`badPath`), and for a directory, which opens like a file but of which
`tellg` gives what the file system makes of it. If that is -1 or huge the allocation throws;
if it is small (xfs, btrfs) the read fails, which nothing tests, and the 200 carries the
uninitialised buffer (body `memory`), or nothing if it is 0. The model allows all three, and
`ResponseFitsRequest` claims no more of a directory than that. An empty line right
after the request line is kind `noHeaders`: its first `\r\n` has been consumed with the
line, so the second read waits for a delimiter that never comes. Nothing is claimed of whether
such a request should be answered; should it be, the property wants the file.

### SyncTCPServer and SyncService (`Chapter04/01`, `Chapter04/02`, `Chapter05/04`, `Chapter03/01`, `Chapter05/03`)

| code | model |
|---|---|
| which of the three programs runs | `kind` |
| the thread in `Server::Run` and `Acceptor::Accept`, the connection it serves | `acceptor`, `current` |
| the blocking call `HandleClient` is in | `service`, `received`, `answers` |
| `m_stop`, the thread in `Server::Stop` and `main` | `m_stop`, `main` |
| the connection in the kernel, its TLS handshake, what the peer has sent or closed | `conn`, `tls`, `sent`, `left` |
| the call in which the `main` of a client is | `client` |

`IterativeCalls`, `ParallelCalls` and `SSLCalls` are the sequences of blocking calls of the
three `HandleClient`s. Peers in `Clients` run the clients of the repository, the others
(strangers) connect and do any of the same calls or none, so that one may stop before, within
or after the TLS handshake; they may also leave at any point, and send to the SSL server
what is not TLS (`Garble`), at which its handshake or read throws. The handshake is that of TLS
1.3: hello, answer, and the client's last message, with which its own `handshake` returns; each
step of `tls` is one message. A thread that throws outside `HandleClient`
ends the program; `EndProgram` closes every connection. In the parallel server `Stop`
may return while detached threads still use sockets of the destroyed `io_context`:
this is undefined, and `OrphanCrashes` lets it end the program or do nothing.

### Transfer, HalfClose, ConnectCancel, Timers, ThreadPool, Examples

| module | code | model |
|---|---|---|
| `Transfer` | `Chapter02/04` to `09` | `program`: the call being made; `total`, `bytes_transferred` as in the code; `moved`: which place of the stream went with which place of the buffer |
| `HalfClose` | `Chapter02/11`, `12` | `call`: the blocking call of each end; `written`, `got`, `fin`: the two directions of the connection |
| `ConnectCancel` | `Chapter02/10` | `connecting`: the operation; `worker` and `canceller`: the two threads; `found`: what the callback was told |
| `Timers` | `Appendix_01/02` to `05`, `Chapter06/03` | `example`: the program; `expiry`, `waiting`, `queue`: its timers; `thread`, `seen`: the callback in two steps around the increment of `count_` |
| `ThreadPool` | `Appendix_02` | `posted`, `waitingTasks`, `running`, `performed`: the tasks, numbered |

`Transfer` has one action for each function of the programs; the loops share `Round`, the
composed calls `Returns`. Of `Timers` no clock is modelled: any number of timers may have expired
when a thread looks, and the library takes the earliest. `Examples` extends the five
modules; `chosen` says which of them moves, so the run explores each alone.

### UDPClient (`Chapter03/02_sync_udp_client`)

`main` with the two calls of `emulateLongComputationOp`; `requests` and `responses` are the
datagrams under way, told apart by the endpoint they go to or come from. The network
loses, duplicates and reorders them, and `Others` may send to the client's port.

## 4. Runs

| run | instance | shows |
|---|---|---|
| `client_safety` | 2 sessions, 2 ids (possibly the same), 2 callers, 2 io threads, 2 cancels per id, 1 partial transfer per session; symmetric | types, serialised callbacks, no race on the flag, honest codes, no operation after a cancel, refinement of `RequestLifecycle` |
| `client_liveness` | 2 sessions, distinct ids, 1 cancel per id, 2 callers, 2 io threads; deadlock checked | every request is reported, `close` returns and drops none, no lock cycle |
| `client_cancel_deadlock` | 1 request, 2 callers, 2 cancels | violated: see findings |
| `client_cancel_lost` | 1 request, 1 cancel, 1 partial transfer, silent peer | violated: see findings |
| `async_server` | 2 clients, 2 threads, 1 failed accept, `Stop` at any time | safe deletion, one activity per Service, clean stop, refinement of `RequestResponse`, everybody accepted, answered, freed |
| `http_client` | 2 requests, 2 addresses, 1 partial transfer each, resets, `close` at any time | one honest outcome, no step after a cancel, every request reported and `close` returns while the program lives |
| `http_client_cancel` | 1 request, 2 addresses | violated: see findings |
| `http_client_reset` | 1 request, a peer that resets | violated: see findings |
| `http_server` | 1 client that sends any kind of request, 1 that sends none, both may leave or reset; 2 threads, 1 failed accept, `Stop` at any time | each Service deleted once and by its owner on every path, a fitting response for each kind, the program ended only by a reset, a directory or a bad path, refinement of `RequestResponse`, no Service leaked while the program lives |
| `sync_service` | each of the 3 servers, 2 clients, 1 stranger, `Stop` at any time | one response per request (refinement of `RequestResponse`), at most one connection accepted after `Stop`, a client or `Stop` waits for ever only behind a stranger who is silent for ever, in its handshake or before its request |
| `examples` | messages of 9, 4 and 4 bytes, limits 5 and 10 as in the code, 4 pool threads, 6 tasks | every byte in its place, counts exact, outcomes reported truly, every program ends |
| `udp_second_server` | 2 servers, 1 duplicated datagram | violated: see findings |

Bounds. Two threads of a kind suffice to interleave any two of them; a third adds
no pair of accesses. Two sessions suffice because sessions interact only through
the map, and the map does so through one entry. Two cancels reach the second one
that meets a completing callback. One partial transfer reaches the moment without a
pending operation. One failed accept reaches the error branch before, between and
after good ones. The theorems do not depend on these numbers.

Two HTTP requests share only the io thread and `close`, so a third adds nothing; two
addresses give an attempt that is not the last.

In `http_server` Services share nothing but the pool and the acceptor; one client that may
send each kind and one that only occupies the server make every pair of paths meet without
the product of all kinds with themselves. In `sync_service` two clients and a stranger are the
least with which one client waits behind another while the stranger is served. In
`examples` 9 bytes allow every cut of the message into up to nine partial transfers;
the limits of the timers are those of the code, the pool has its four threads.

Only `client_liveness` checks deadlock. In `client_safety` and `client_cancel_deadlock`
the program can really block (the finding), in `client_cancel_lost` the peer may be silent, a server with no client
left to serve stops, and so does an HTTP client that is closed or has been terminated. The other programs
end, or wait for a client.

Fairness. `LocalFairness`: a thread that can move moves, which the scheduler of
the operating system provides; `run()` is a loop over whatever is queued, hence one
weak fairness condition per worker; no one needs strong fairness since a mutex here
is never held by others again and again. `FairSpec` of the client adds that
the peer, or the time-out of TCP, ends every operation; that is needed for the two
liveness properties and stated there ("if peers answer"). The HTTP client has one io
thread, hence one condition for all its steps; a name look-up is ended by the resolver's own
time-out, a connect or a transfer by the peer or by TCP, and no run assumes less. In the servers the
kernel completes what it can; strangers, and clients of the asynchronous servers, are never
assumed to act. `SyncService` assumes of the clients of the repository that they run, and
not that anybody calls `Stop`. In `HTTPServer` fairness ends with the program. `Examples` has one condition
per thread, one per timer (time passes), and one for the peer of a transfer, which
moves bytes or breaks the connection in the end; without that a transfer may wait for ever.

### Findings

- `client_cancel_deadlock`: `cancelRequest` locks `m_active_sessions_guard`, then
  `m_cancel_guard` (`AsyncTCPClient.cpp:96,101`); a callback that finds its session
  cancelled calls `onRequestComplete` with `m_cancel_guard` locked (lines 44-48,
  66-70), which locks `m_active_sessions_guard` (line 121). If a request is
  cancelled twice the two wait for each other and the request is never reported.
- `client_cancel_lost`: `m_sock.cancel()` (line 103) between two partial transfers of
  a composed operation aborts nothing; the operation goes on, and if the peer is
  silent from then on the cancelled request is never reported.
- `http_client_cancel`: `m_sock.cancel()` (`HttpTools.cpp:177`) fails one connect attempt;
  `async_connect` (line 198) goes on with the next address. If that is refused or times out,
  lines 209-212 report its code without a look at `m_was_cancelled`, and the handler
  prints "failed!" for a request that its user has cancelled.
- `http_client_reset`: `shutdown` (`HttpTools.cpp:246`) throws after a reset; nothing on the io
  thread catches it and the program ends.
- `udp_second_server`: `main.cpp:26` asks the address of server 2 at the port of server 1
  (`server2_port_num` is never used), so server 2 gets no request, and `receive_from`
  takes any datagram; a duplicate of the first response is printed as the second.

In the first four the handler of the sample does not print what it has for the case
(`Chapter03/04_async_tcp_client_mt/main.cpp:16`, `Chapter05/01_http_client/main.cpp:57,61`).

## 5. Proofs

Eight modules, each named after the module whose specification it is about; `ExamplesProofs`
covers `HalfClose`, `ConnectCancel`, `ThreadPool` and the composition `Examples`. The
assumptions are the named `ASSUME`s on the constants (disjoint threads, at least one worker,
`None` distinct, bounds natural), nothing else; `OneCancelNeverBlocks` has one more and says so.
Every invariant was checked by TLC on the run's instance before it was proved.

**Client.** The inductive invariant is `IInv /\ CloseInv /\ IdInv`. `IInv` is `TypeOK` with, for the mutexes, who may own them and at which
position of its code; for the chain, that a session has one thread working on it
or one operation outstanding, except that the thread which started the
next operation still holds `m_cancel_guard` (this makes the serialisation of callbacks
inductive); for the map, that an entry belongs to an active session and
that a caller about to cancel holds the map's guard, so the session it found cannot be
erased; for the codes, that "operation_aborted" arises only from a cancel; for the
response, that the read callback is the only way to the end without an error or a cancel;
`CloseInv` says that workers stop only when no session is active, and `IdInv`, for distinct
ids, that an active session is the one under its id. Each part has its own step lemma, one
step per action. From `IInv`: `TypeCorrect`, `CallbacksSerialised`, `FlagNotRaced`,
`OutcomeIsHonest`, `LiveRegistered`, `CloseDropsNone`, the action
property `CancelStopsChain`, and `LifecycleImplemented`, the refinement of
`RequestLifecycle`.

`CancelInv` counts cancellations: a request whose flag is set has been cancelled once, one
that a second `cancelRequest` is at, twice, and a callback completes a request with
`m_cancel_guard` locked only if the flag is set. So the lock cycle of the finding above has
exactly one cause, a second cancel of an active request (`LockCycleNeedsSecondCancel`), and
without one `NoLockCycle` holds for any number of threads and requests (`OneCancelNeverBlocks`,
under `MaxCancels <= 1`, as in the run).

**Server.** `IInv` says that the acceptor has one token (its operation or the
thread in `onAccept`), that a Service is alive exactly while a thread works on it or an
operation of it is outstanding, never both, and that stages follow in order. From it:
`TypeCorrect`, `DeleteIsSafe`, `ServiceSerialised`, `StopIsClean`,
`RequestResponseImplemented`.

**HTTP client.** `IInv` adds to the types where the io thread and the `io_context` have a request
at each operation (with addresses left when another attempt is due), what has been
received by then, that "operation_aborted" comes only from `cancel` and the end of the body
only from `eof`, and that `run` returns only without work. Five actions report an outcome;
`OutcomeAdded` says what each must show, `OutcomeKept` what all others must. From it:
`TypeCorrect`, `OutcomeIsHonest`, `CloseDropsNone`, `CancelStops`.

**HTTP server.** `ServiceOwnedOnce` says who owns a Service, but not that a step leads
to the right owner. `IInv` adds that the acceptor has one token (`AcceptInv`), that the code a
thread is in is the callback of the operation that ended (`WorkInv`), what the operation says
about the request: the second read exists only for kinds that passed the first line, and each
result is the one of its kind (`RequestInv`), and that an answer is on the wire exactly when
the write has ended well (`AnswerInv`). `LineReceived` and `HeadersReceived` give the outcomes
of the two callbacks that branch; all other steps are short. From it: `TypeCorrect`,
`OwnedOnce`, `ResponseFits`, `TerminatedByClient` and `RequestResponseImplemented`.

**Blocking servers.** `IInv` adds to the types that a connection goes through the backlog once
(`BacklogInv`), what a service has done by the call it is in (`ServiceInv`, over the three
sequences of calls), that the thread of an iterative server serves somebody exactly while it is in
`HandleClient` (`CurrentInv`), and that nobody was accepted late while the thread is still in
`accept` (`LateInv`: one call that had begun before the flag was set accepts at most one
peer). From it: `TypeCorrect`, `StopLeavesNothing`, `RequestResponseImplemented`.

**Transfers.** `TransferIInv` adds to the types and to `TransferExact` what a loop knows between
two transfers (`Counted`): the bytes that passed the socket are those it has added to its
total and those it is about to add, so the next offset is exactly behind the last. With it a
step that moves n bytes extends the exact range by n. From it: `EveryTransferExact`,
for messages of every length.

**Timers.** An exact count is not inductive: it needs that one callback runs at a time
and that between its two steps it holds the count everybody sees (`StrandInv`), and, for the
final count, that work is left until the limit is reached (`ProgressInv`). For the reports,
that no timer is lost on its way (`ReportInv`), that entries of the queue are in the order of
their deadlines (`OrderInv`, which is about positions in the queue), and that an abort is
queued by the callback of timer 1 (`AbortInv`). One lemma per action says what it does
(`TakeCallbackEffect`, ...); the step lemmas cite these. `RemoveAtFacts` says what removing an
element leaves of a sequence. From it: `TimersTypeCorrect`, `EveryCountExact`,
`EveryTimerReported`.

**Other examples.** `HalfCloseIInv`: an end closes its direction only behind its whole message and
reads no more than was written, so the end of the stream means that all has been read.
`ConnectCancelIInv`: the callback has run exactly when the connect is over. `PoolIInv`: a task
waits, runs on one thread or has been performed once, and a thread leaves the pool only when
nothing is left. A step of `Examples` is a step of the chosen module (`ExamplesRunEach`), so
`ExamplesExact` and `ExamplesOutcomesTrue` follow from the theorems on the parts.

Only model-checked: the liveness properties (`EveryRequestReported`, `CloseReturns`,
`EveryoneAccepted`, `EveryRequestAnswered`, `ServiceFreed`, `StopReturns`, `ServiceEnds`,
`OnlyStrangersStall`, `EveryExampleEnds`): liveness under fairness is out of the prover's reach.
So are, by their nature, the five runs that expect a violation, all of `UDPClient` among them.

## 6. Not modelled

The components marked so in section 1: the straight-line programs of `Chapter01`,
the buffers of `Chapter02/01` to `03` and the rest of `Chapter06` make one library call
after another, with nothing to interleave or to lose; `Appendix_01/01` waits for one timer.
The helpers show features of the language, and the test scripts start Python's own server.

In the modelled ones: logging, the text of requests and responses, socket options, TLS
certificates (`on_peer_verify` accepts every one), and the data race
between `shutdown` (`AsyncTCPClient.cpp:119`) and `cancel` (line 103) on one socket object,
whose outcomes lie inside the library. Of the HTTP client a second `execute` of one
request is left out: the sample never does it, and its callers are assumed not to. In
`ThreadPool` the loop that spins when the input has ended changes no state.
