# TLA+ specifications of the wolfSSL examples

The repository is a collection of example programs around the wolfSSL library.
Most are straight-line: create a context, connect, exchange a message, free.
A few are real servers, with threads, event loops, timers and lists of their
own. These specifications are about those few.

Source paths below are relative to the repository.

## 1. Inventory

| Component | State it keeps | Operations | What is hard |
|---|---|---|---|
| `tls/server-tls-epoll-threaded.c`: multi-threaded epoll server | per thread: listening socket, epoll instance, active and free list of `SSLConn`, `cnt`, `accepting`, context; shared: `numConnections`, `totalReadBytes`, `totalWriteBytes` | `ThreadHandler`, `SSLConn_Accept`, `SSLConn_ReadWrite`, `SSLConn_Close`, `SSLConn_FreeSSLConn`, `SSLConn_Free`, `SSL_Accept/Read/Write` | interleaving of threads on the counters, stale event pointers, capacity, errors in the middle of a batch of events, ending |
| `tls/server-tls-poll-perf.c`: one-thread poll server | array of `pollfd` with one slot per connection and one for the listener, `events_data`, the two lists, `cnt`, `accepting`, `numConnections` | the loop of `main` over the slots, `allocate_event_slot`, `SSLConn_*` | a slot outlives its connection: stale pointers, descriptor numbers that are used again, slots that run out |
| `dtls/server-dtls-demux.c`: one UDP socket, many DTLS peers | `connList`, ordered list of timeouts, listening object, connection IDs | the poll loop, `findConn`, `dispatch*Connection`, `registerTimeout`, `handleTimeout`, `freeConn` | timeouts racing messages, order of the timeout list, dangling list entries, reuse of connection IDs |
| `dtls/server-dtls-rw-threads.c`: reader, writer and encryption threads per connection | mutexes, condition variables, cleanup flag | encryption thread, reader, writer, accept loop | lost wake-up, lock order, cleanup |
| `dtls/server-dtls13-event.c`: libevent server | the listening object `pendingSSL`, stack `active` of `conn_ctx`, one libevent event per connection, `waitingOnData` | callbacks `newConn`, `chGoodCb`, `dataReady`, the SIGINT handler with `free_resources` | an object that changes hands in the middle of a call, failure of each call of several, a signal between two of them |
| `embedded/tls-threaded.c`: TLS between two threads | two bounded memory buffers, each with its size and mutex | send and receive callbacks, the client's and the server's loop, `join_thread` | partial reads and writes at a full buffer, retried everywhere but in `wolfssl_send`; each thread waiting for the other |
| `staticmemory/memory-bucket-optimizer`: optimizer and tester | the log; in the tester the free blocks of each bucket and the pointers of the log's events | counting of sizes, choice of buckets and of their blocks, replay | rounding, more sizes than buckets, peaks that do not add up; whether the second tool can run what the first one printed |
| `pq/stateful_hash_sig` | private key file | write and read callback, sign | crash between using and storing a one-time key |
| `pq/pqc_proxy` | two connections, select loop | relay in both directions | data buffered inside wolfSSL |
| everything else (see `components` in PROJECT.json) | inside wolfSSL or a device | a sequence of library calls | nothing of its own |

The programs do not interact with one another. Inside one, components interact
by calls (loop to list code), shared state (the counters of the epoll server),
and the kernel (epoll, UDP socket). wolfSSL, the kernel and the peers are not in
the repository: each of their answers that the code tells apart is a
nondeterministic choice, and what the code relies on is listed in section 5.

What makes the modelled programs correct:

* epoll server: no event is handled for a connection that is closed or freed;
  the lists and `cnt` agree after any mix of accepts, closes and errors; a thread
  never exceeds `-N` and always offers the room it has; every connection is
  counted once, because the count ends the run; the byte limit is kept; a
  finished run ends.
* poll server: the pointer and the descriptor number in a slot are never those
  of another or of a freed connection; slots do not run out; lists, room and
  counting as above.
* demultiplexing server: every connection has one timer and no timer outlives
  its connection; looking at the first timer only is enough; connection IDs are
  unique; a silent peer is dropped; a handshake is bounded.

* libevent server: each object and `conn_ctx` is freed once and none is lost,
  whatever fails; a SIGINT breaks this in few and known places only; a connection
  keeps one event; the object that listens is no connection's; a silent peer is
  dropped.
* two threads: each buffer is a reliable stream of bytes; a message that fits is
  not refused; the exchange ends.
* bucket optimizer: every allocation of the log has a block, of the bucket it was
  counted in, when the log is replayed. (It has not, see `buckets_fit`; what does
  hold is stated as `AgreeingReplayPasses`.)

`hazards` in PROJECT.json lists, line by line, what could go wrong and which
property would notice.

## 2. Modules

| Module | Models |
|---|---|
| `EpollServer` | `tls/server-tls-epoll-threaded.c` with the kernel's epoll and clients |
| `EpollServerProofs` | TLAPS proofs about `EpollServer` |
| `MCEpollServer` | symmetry set for TLC |
| `PollServer`, `PollServerProofs`, `MCPollServer` | `tls/server-tls-poll-perf.c` with the kernel's descriptors and clients; TLAPS proofs; TLC |
| `DtlsConnTable` | abstract: what a server with one socket and many timers promises |
| `DtlsDemux` | `dtls/server-dtls-demux.c`; implements `DtlsConnTable` |
| `DtlsDemuxLive` | `DtlsDemux` with fairness and a history variable, for liveness |
| `DtlsDemuxProofs` | TLAPS proofs about `DtlsDemux`, the refinement included |
| `MCDtlsDemux` | instances for TLC |
| `DtlsEventServer`, `DtlsEventServerProofs`, `MCDtlsEventServer` | `dtls/server-dtls13-event.c`; TLAPS proofs; TLC |
| `ListLemmas` | lemmas on lists as sequences and on loops as recursive functions, and the induction they need |
| `ByteChannel` | abstract: a reliable bounded stream of bytes in one direction |
| `TlsThreaded`, `TlsThreadedProofs`, `MCTlsThreaded` | `embedded/tls-threaded.c`; implements two `ByteChannel`s; TLAPS proofs; TLC |
| `BucketOptimizer` | the optimizer's functions as operators on a log |
| `BucketTester`, `MCBucketTester` | the tester's replay of that log with the optimizer's result: composes the two tools |
| `BucketOptimizerProofs`, `BucketTesterProofs` | TLAPS proofs about the optimizer's functions, and about the two tools together |

An operator whose name has an underscore and a suffix that says what is wrong
with it (`SSLConn_Close_KeepsCnt`, `InsertionPoint_AtEnd`) is a mutant: a
plausible bug that a property is shown to detect when it takes the place of the
definition it follows in name. No specification uses one. `map` in PROJECT.json
relates every other definition to source lines.

### EpollServer

A client, its `SSLConn` object and its descriptor are one constant; so are a
thread and its listening socket. Variables carry the names of the code's
fields. `pc` is the place in `ThreadHandler`:

    init -> loop -> wait -> events -> ... -> loop -> done
                              |  ^
                              v  |
          accept | readLen -> read -> writeLen -> write

`events` is the `for` over the returned events, taken in any order because
epoll promises none. The third line is `SSLConn_ReadWrite`. `readLen` and
`writeLen` are the unprotected reads of a byte total (lines 640 and 661 of the
source); `read` and `write` are the wolfSSL call with the update of the total
under the mutex. This is the only shared state read and used later without the
lock, so it is where a step is cut; everything else between two system calls
touches the thread's own data or one counter under the mutex.

* Listener: level-triggered, reported while its backlog is not empty.
* Clients: edge-triggered, `edge` holds input not yet reported.
* `EPOLLERR` or `EPOLLHUP` without `EPOLLIN` is an `errEvents` entry.
* `epoll_wait` returns up to `EPOLL_NUM_EVENTS` events, or none after 1 ms.
* `epoll_ctl` fails on a closed descriptor, on ADD of a registered one and on
  DEL of an unregistered one. Where the code calls `exit(EXIT_FAILURE)`,
  `process` says why.
* `WolfSSLCtx_Init` failing does not stop a thread (the caller compares the
  result with -1), so `ctx` may be NULL in a running thread.

### DtlsDemux and DtlsConnTable

The server has one thread; a step is one turn of its loop, that is one `poll`
with everything that follows it: `findConn`, dispatch, `newConn` and `newSSL`,
`registerTimeout` or `freeConn`. `timeouts` is the list with the time left until
each deadline instead of the absolute time, `Tick` lets a unit of time pass.
`findConn` takes the first connection that has the ID or the address of the
message; a message may carry any ID or none. `freeTimeouts` is written as the loop
it is, a recursive function of how far the loop has come; `freeConn` and
`registerTimeout` stop at one place of their list (`RemoveFirst`, `InsertAt`).

`DtlsConnTable` knows no list and no identifier: each connection is free, in
handshake or established and has its own deadline, which time may not pass
while it is due. `DeadlinesKept` says that `DtlsDemux`, which only looks at the
head of its list, implements this. It fails as soon as the list is not ordered,
a timer is lost or doubled, or a timer belongs to the wrong connection.

`DtlsDemuxLive` adds `heard`, the connection the last step was a message for. A
message and a retransmission can lead to the same state (both register a new
timeout), so without it a peer that is silent could not be told from one that is
not. It also carries the fairness; `DtlsDemux` itself is safety only.

### PollServer

A step is one call of `poll`, or the handling of one slot: the branches of the
loop body are `ListenerErrorEvent`, `ClientErrorEvent`, `AcceptEvent` (with
`AcceptFails`, `AcceptListFull`) and `ReadWriteEvent` (with `ReadWriteFails`).
`EndOfSlots` is what follows the loop, `SSLConn_FreeSSLConn` and the re-arming
of the listener.

What this server has and the epoll server has not: a connection that
`SSLConn_ReadWrite` closes leaves its number and its pointer in the slot, and the
object is freed. The slot is given back when the next `poll` reports that the
number is not open (`POLLNVAL`, an error event). So descriptors are numbers
here, and `accept` gives out the lowest number that is not in use, which may be
one closed just before. The order of the slots matters too: the listener's is handled last, after
every dead slot of the same `poll`.

### DtlsEventServer

An object of wolfSSL also names the `conn_ctx` it gets. `main` installs its SIGINT
handler with `signal`, so it runs between any two instructions, and it frees what the
*global* variables lead to. Everything that moves a pointer is therefore cut (`pc`)
after each move:

    newConn:         loop -> pushed -> armed -> made -> promoted -> accepting -> loop
    conn_ctx_free:   unlink -> unlinked -> sslFreed -> (back to the caller)
    free_resources:  freeing -> pendingFreed -> handles <-> handleFreed -> end

`made` is `newPendingSSL` with an object that only its local variable has, `promoted`
is between `pendingSSL = ssl` and `connCtx->ssl = ssl`, `freeing` is the loop over the
stack, `handles` the release of `ctx`, `listenfd`, `newConnEvent` and `base`, each of
which is released (`handleFreed`) and then set to NULL. `connCtx`, `newSSL` and
`ret` are what a procedure has in its frame. A callback of `dataReady` is one step up to the
`conn_ctx_free` it may end in: it moves no pointer. Each call of `chGoodCb` may fail.

`sig_handler` is enabled in every one of these states and is one step, all of
`free_resources` on the globals as they are: `signal` blocks SIGINT while the handler
runs, and it does not return. What it does in the middle of a move is in the
properties, as the exceptions they name and no others:

* `FreedOnce`: between `wolfSSL_free(pendingSSL)` and `pendingSSL = NULL` in the
  `free_resources` of `newConn` or `main`, a SIGINT frees the object twice; likewise
  for each handle. One object or handle, and twice, not more (`OneTwice`).
* `NoneLost`: an object that only a local variable leads to (`Held`) is not freed. This
  is so in `newPendingSSL` until it sets `pendingSSL`, in `chGoodCb` until it sets
  `connCtx->ssl`, in `conn_ctx_free` from the unlinking to `wolfSSL_free`, and in
  `free_resources` from the pop to the same.

`freed`, `ctxFreed` and `handleFrees` count calls of the freeing functions, so that a
double free is a value and not an impossible step. Each pending event has a timeout;
how long it is, is left out.

### TlsThreaded and ByteChannel

A callback is two steps, with the mutex held between them: the bytes are copied,
then the buffer and its size are brought up to date and the mutex is given back.
What wolfSSL does between callbacks is a script per side: how many bytes of
which flight it sends or waits for, then `wolfSSL_write` or `wolfSSL_read`. A
byte is its number in its stream. `WANT_READ` and `WANT_WRITE` lead to the same
call again, except in `wolfssl_send` (`WriteFails`).

`ByteChannel` has only the bytes put in and the bytes taken out.
`BuffersAreChannels` is the refinement, once for each direction.

### BucketOptimizer and BucketTester

The log is written line by line (`LogLine`), so that TLC has every log within
the bounds. The optimizer's passes over it (`AllocSizes`, `Buckets`,
`Distribution`) are operators whose result is assigned in one step, `Optimize`.
A loop is a recursive function of how far it has come (`AllocSizeLists`, `Rounds`,
`SortSteps`, `Uses`). The code sorts its buckets by swapping neighbours; the model
inserts one after the other, which for an array of numbers ends with the same.
The tester then loads the buckets, or ends because it cannot
(`LoadStaticMemoryFails`), and replays the log event by event.

wolfSSL's allocator is not in the repository. `XMALLOC` takes a block of the first
bucket that is large enough and not empty, and large enough is `size <= bucket`
(`HasBlock`): `staticmemory/size-calculation.c` allocates exactly the size of each
bucket, and the check in `staticmemory/Makefile` requires that the largest succeeds.
The padding comes on top of a bucket. The optimizer takes it out of the bucket
(`Fits`, `size <= bucket - Padding`). `FitsAgree` says that the two tests agree on the
sizes of a log; `buckets_fit` shows what happens when they do not.

## 3. Runs

| Run | Instance | Shows |
|---|---|---|
| `epoll_conns` | `-n 2`, 2 threads, 2 clients, `-N 1` | lists, events, capacity, counting and the end of the run (`DoneEnds`) |
| `epoll_bytes` | `-B 2`, 1 thread, 3 clients, `-N 2`, batches of 2 | one thread keeps the byte limit; events and capacity with several connections per thread and batches smaller than the ready set; connections still open at the end are counted and freed by `main` |
| `epoll_bytes_race` | `-B 2`, 2 threads | expected violation of `ByteBudget` |
| `epoll_rearm` | 1 thread, 2 clients, `-N 1` | expected violation of `KeepsHandlingClients` |
| `demux_conns` | 2 connections, 2 addresses, 3 IDs | timers, unique IDs, refinement of `DtlsConnTable`, `SilentPeerDropped` |
| `demux_hs_limit` | 1 connection | expected violation of `HandshakeBounded` |
| `poll_slots` | `-n 2` (2 slots), `-N 2` and `-N 3`, 3 clients, 3 descriptors | slots and descriptor numbers across closes and accepts, lists, capacity, counting; a closed connection's slot comes back (`SlotReclaimed`) |
| `poll_bytes` | `-B 2` | expected violation of `KeepsHandlingClients` |
| `event_conns` | 4 objects, 1 retransmission | freeing, events and loss of objects with failures, and a SIGINT after every move of a pointer; `SilentConnDropped` |
| `threaded_pipes` | buffers of 3 bytes, a flight of 5, responses of 2 and 3 | exact buffers, refinement of `ByteChannel`, refused writes, the end of the exchange |
| `buckets_replay` | 5 sizes, 3 buckets, logs of 5 lines | sizes, buckets and distribution against the log, and the replay where the fit tests agree |
| `buckets_fit` | 3 sizes, logs of 4 lines | expected violation of `ReplayPasses` |

Expected violations are disagreements between the code and what it says of
itself:

* **`epoll_rearm`** The handler of an error event adds the listener back without
  setting `accepting`. If the thread was full, the call succeeds, and the re-arming
  at the end of the same batch adds it a second time, gets `EEXIST` and ends the
  process.
* **`epoll_bytes_race`** Two threads compute the length of a call from the same
  total. Afterwards the total is over the limit, and `min` on `word32` caps
  nothing any more.
* **`demux_hs_limit`** `MAX_HS_TIME` is compared only when a timeout is handled.
  Each message registers a new timeout, so a handshake whose peer keeps sending
  has no limit.
* **`poll_bytes`** The array has `maxConns` slots for clients, and `-B` sets
  `maxConns` to 0. The first client that is accepted finds the list full and ends
  the process.
* **`buckets_fit`** A size in the last padding bytes of a bucket is counted in the next
  larger bucket and given a block of this one. With alignment 2 and padding 1 the log
  alloc 7, alloc 5, free 7, alloc 8 leads to the buckets 7 and 9 with one block each:
  7 takes the block counted for 5, 5 takes the one counted for 8, and 8 finds
  none. In a real build (alignment 16 and more of padding) every size has such
  neighbours.

### Bounds

* Two threads are the fewest that share counters. They interact through these
  only, and the proofs of section 4 cover any number.
* `NumConns` 1 makes a thread full with one client, so that the listener leaves
  and comes back with two clients. `NumConns` 2 with 3 clients has a batch with
  two connections and the listener, of which `EpollNumEvents` 2 holds back one.
* `MaxSends` 2: a client's input in one connection state and in the next. It is
  the only bound that cuts behaviour; clients that stop sending are allowed
  anyway. Sends are edges, not bytes.
* `MaxBytes`, `BufferLen` and `ReplyLen` 2: short reads and writes, the exact
  limit and a remainder of 0.
* In `epoll_conns` the run is over when both clients are closed. `epoll_bytes` has
  runs that end while connections are open, so that `SSLConn_Free` has work.
* Two connections in `demux_conns`: a new timer belongs before or after the other.
  One between two others needs three connections, which with the history
  variable and liveness is too much for TLC; `ListsAgree` and `DeadlinesImplemented`
  of section 4 have any number. Three connection IDs leave one fresh for the
  listening object at all times.
* `HsTimeouts` {1, 2}, `AppDataWait` 3, `MaxHsTime` 1: handshake timeouts that
  differ (wolfSSL doubles them), are shorter than the wait for data, and
  reach beyond the limit of a handshake. `AgeCap` stops the clock of a
  handshake above every value the code or a property compares it with.
* `poll_slots`: two slots and three clients, so a slot and a number are used
  again; with `-N 3` more connections are allowed than there are slots, the one
  case in which `SlotsSuffice` lets the list be full. Three
  numbers: no accept fails for want of one.
* `event_conns`: three connections on the stack, in the middle of which one can be
  freed. The fourth object listens. One retransmission succeeds, the next
  timeout ends the handshake.
* `threaded_pipes`: the server's flight needs two fillings of the buffer; a response
  of 2 fits behind the tickets, one of 3 does not and may be refused. Section 4
  has all sizes.
* `buckets_replay`: 1, 4, 5, 7, 8 with alignment 2 and padding 1 give sizes that
  round to the same and to different buckets, and more of them than the three
  buckets. The logs without 5 next to 4 and without 7 next to 5 are those on which the fit
  tests agree, among them some with four sizes, and some whose 4 has no bucket of its own. Five
  lines hold two allocations freed in either order and one that stays. One free
  without allocation is allowed (`MaxUnmatched`).

### Fairness

* `EpollServer`: weak fairness of each thread and of `main` after the join. The
  threads are scheduled by the system, block only in `epoll_wait`, which returns
  after 1 ms, and hold the mutex for a few assignments. Nothing is assumed of
  clients.
* `DtlsDemuxLive`: weak fairness of `QuietTick` (time passes) and of `QuietTimeout` (when a
  timer is due, the socket is not readable without end). The second is an
  assumption on the network: `poll` prefers data, so a flood of datagrams keeps
  every timer from being handled. It is listed as a hazard.

* `PollServer`: weak fairness of the server, but in `poll` only when it must return:
  an error event is there, or the run is over. Clients may be silent for ever.
* `DtlsEventServer`: weak fairness of each connection's timeout (libevent fires a
  timer of a pending event, and a timer is re-armed by input) and of a `newConn`
  that has begun. Nothing of clients.
* `TlsThreaded`: strong fairness of each thread, weak of `main`. A thread that calls
  again and again for a mutex that is free again and again gets it; the system's
  mutexes do not starve one of two threads.

Deadlock is checked in the runs of `EpollServer`, `DtlsDemux` and
`DtlsEventServer`, where a process that has ended stutters in `Stopped`. The poll
server waits for ever when no client comes, a side of `TlsThreaded` waits for ever
when the other has failed, and the bucket tools end: these runs do not check it.

## 4. Proofs

`EpollServerProofs` holds for any finite sets of threads and clients and any
options (`ServerAssumption`: what the option parsing of `main` lets through;
`-n` and `-B` exclude each other).

| Theorem | States |
|---|---|
| `TypeCorrect` | `Spec => []TypeOK` |
| `Invariance` | `Spec => []IInv` |
| `ListsAreExact` | `Spec => []ConnListsExact` |
| `NoDanglingEvents` | `Spec => []EventsAreActive` |
| `CapacityRespected` | `Spec => []WithinCapacity` |
| `RoomAlwaysOffered` | `Spec => []RoomIsOffered` |
| `EveryConnCountedOnce` | `Spec => []CountedOnce` |
| `OneThreadByteBudget` | with one thread, `Spec => []ByteBudget` |

None of the properties is inductive. The argument, in the order of the module:

1. `TypeInv` adds to the types that `cur` is a client inside
   `SSLConn_ReadWrite`; `SSLConn_Close` is applied to it there.
2. `ListInv` is `ConnListsExact` in parts, plus what ties clients to threads
   before they are accepted (a client is in the backlog of at most one thread),
   plus `EventsInv`: registered descriptors are in one of the thread's lists, at
   `wait` only in the active one, because the free list was emptied on the way;
   the entries of a batch and `cur` are different active connections, so
   closing one does not make another entry stale.
3. `ListenerInv` relates the listener's registration, `accepting` and `cnt`: a
   listener event in a batch means it is still registered, and registered
   means there is room; whenever the thread is about to wait it is accepting or
   full. The converse does not hold: an error event registers the listener
   while `accepting` is still 0, which `epoll_rearm` turns into an exit of the
   process.
4. `CountInv` needs 1 and 2: `SSLConn_Close` is only applied to a connection not
   counted before, so its early return for `CLOSED` is never taken.
5. `ByteInv`: with one thread, total plus the pending length is within the limit.
   With two threads this is exactly what fails.

`PollServerProofs` holds for any finite set of clients, any number of slots and
descriptors and any options (`PollAssumption`).

| Theorem | States |
|---|---|
| `TypeCorrect`, `ListsAreExact` | `Spec => []TypeOK`, `Spec => []ConnListsExact` |
| `PollInvariant` | `Spec => [](TypeOK /\ PollInv)` |
| `NoSlotAliased` | `Spec => []SlotOwnsFd` |
| `NoStaleInput` | `Spec => []InputIsActive` |
| `RoomAlwaysOffered` | `Spec => []RoomIsOffered` |
| `EveryConnCountedOnce` | `Spec => []CountedOnce` |
| `SlotsAlwaysSuffice` | `Spec => []SlotsSuffice` |

1. `PollInv` is `ConnListsExact` in parts with what a slot may hold. A slot is dead
   when its connection is closed or freed. A dead slot has no input event: it is
   without an event in the `poll` in which it died, and `poll` gives it an error
   event after that.
2. Why the number of a dead slot is not in the meantime given to another client:
   `accept` happens in the listener's slot, which is handled last. A connection closed
   in this round still has its socket then (objects are freed after the loop), and
   the slot of one closed earlier had an error event and is disabled by now.
3. `SlotsSuffice` needs a count: when the listener is handled every slot in use
   belongs to a connection of the active list or to one closed in this round, and
   a connection has one slot. With fewer connections than slots, one is free
   (`RoundInv` and the pigeonhole principle).
4. `CountedOnce` covers the connections that lost their slot to an error event: they
   stay in the active list and are counted when `main` ends.

`TlsThreadedProofs` holds for buffers, flights and messages of any size
(`ThreadedAssumption`).

| Theorem | States |
|---|---|
| `TypeCorrect` | `Spec => []TypeOK` |
| `StreamInvariant` | `Spec => [](TypeOK /\ Inv)` |
| `BuffersExact` | `Spec => []BufferExact` |
| `BuffersImplementChannels` | `Spec => BuffersAreChannels`, the refinement |
| `SendsNeverFail` | `Spec => []NoSendFails` |

1. `Inv` says who holds a mutex (`MutexInv`: exactly the side in a callback on that
   buffer) and what a buffer holds at any time (`Holds`): the bytes sent and not
   received, plus those a send in progress has copied and `size` does not show,
   behind those a receive in progress has copied and `size` still shows.
   `BufferExact` alone is silent while a mutex is held and is not inductive.
2. Each half of a callback is a lemma about sequences and functions alone
   (`CopiedIn`, `PutInCounted`, `CopiedOut`, `MovedUp`), applied to the buffer.
3. A copy is a step of one `ByteChannel`, everything else a stutter of both.
4. For `SendsNeverFail`, `Progress` computes from a side's place in its script how many
   bytes it has sent and received. A client that writes its request has the server's
   flight, so the server has taken the hello out of the buffer; what can still be
   there is the client's last flight and the request. Likewise for the server.

`DtlsEventServerProofs` holds for any set of objects and any number of
retransmissions (`EventAssumption`).

| Theorem | States |
|---|---|
| `TypeCorrect` | `Spec => []TypeOK` |
| `NoDoubleFree` | `Spec => []FreedOnce` |
| `ListenerApart` | `Spec => []PendingIsApart` |
| `EveryConnHasEvent` | `Spec => []EventsOwned` |
| `NoObjectLost` | `Spec => []NoneLost` |

1. `RunInv` says who owns an object at each `pc` while the server runs: it is
   pendingSSL's, or in the stack, or in the local variable of the procedure at work, or
   freed (`OwnedInv`, with `CtxInv` and `NewInv` for the two local variables). The object
   that listens and those not made yet are as new (`FreshInv`). A `conn_ctx` that
   `chGoodCb` is building (`Building`) holds no object; every other one holds the
   object it is named by and has an event (`ConnInv`).
2. `pendingSSL` is in the stack exactly between the push and the promotion
   (`StackInv`). It is not freed twice by a signal there, because the `conn_ctx` does
   not hold it yet.
3. What the handler leaves (`SignalStep`) is computed from `RunInv`: all that the
   stack and `pendingSSL` own is freed once more. Only at `pendingFreed` and `handleFreed`
   had that been freed before, and only `Held` is what neither leads to. `EndInv` says
   this of an ended process.
4. `conn_ctx_free` stops at the first match, so that it takes all of a connection
   away because the stack holds it once (`Unlink` of `ListLemmas`).

`DtlsDemuxProofs` holds for any connections, addresses and IDs and timeouts of any
length (`DemuxAssumption`).

| Theorem | States |
|---|---|
| `TypeCorrect` | `Spec => []TypeOK` |
| `ListsAgree` | `Spec => []TimerPerConn` |
| `CidsAreUnique` | `Spec => []CidUnique` |
| `DeadlinesImplemented` | `Spec => DeadlinesKept`, the refinement of `DtlsConnTable` |

1. A good list of timeouts (`GoodList`) is in the order of its deadlines and has one
   timeout per connection. `freeTimeouts` keeps a list good and drops exactly the
   connection's timeout, `registerTimeout` keeps it good and replaces that timeout
   by the new one, `Tick` keeps it good.
2. `freeTimeouts` is a loop. That its recursive function exists (`KeptExists`), and what
   it has kept after each turn (`Keeps`), are shown by induction on the turns. The
   induction is `InductionUpTo`: the numbers for which a claim holds are a *set*,
   the least number outside it leads to a contradiction. Stated so it needs no
   operator parameter.
3. `DemuxInv` is the types, `ConnListInv` (connList holds each connection in memory
   once), `TimeoutsInv` (the timeouts are a good list, of the same connections) and
   `CidInv`. `TimerPerConn` does not have the order, which is what makes a new
   timeout's place right.
4. For the refinement, `Left` is what a list leaves of a connection's deadline. Each
   operation on a good list changes it for one connection at most; `Tick` is a tick
   of the table because the first timeout is not due, hence none is.

`BucketTesterProofs`, with `BucketOptimizerProofs`, holds for logs of any length,
any sizes, alignment and padding, and any number of buckets from two on
(`OptimizerAssumption`; `MAX_UNIQUE_BUCKETS` is 9 in the source, and with one bucket
the half for the largest sizes would be empty).

| Theorem | States |
|---|---|
| `TesterInvariant` | `Spec => []TesterInv` |
| `TypeCorrect` | `Spec => []TypeOK` |
| `SizesAreExact` | `Spec => []SizesExact` |
| `EverySizeHasBucket` | `Spec => []EverySizeFits` |
| `AgreeingReplayNeverFails` | `Spec => []AgreeingReplayPasses` |
| `BlocksArePlanned` | `Spec => []BlocksAsPlanned` |

1. That the recursive function of each loop exists is `RecursionExists` of `ListLemmas`,
   whose parameters are a set and a function, not operators. With it a lemma says
   of each loop what its first value and its turns are (`UsesRun`, `SortRun`,
   `AllocSizesRun`, `RoundsRun`), and `InductionUpTo` does the rest.
2. The list of sizes: after n events a node has exactly what the first n lines say of
   its size (`NodeExact`), a peak being a value that is reached and not exceeded.
   It is sorted because a new node goes before the first smaller one.
3. A bucket for every size: the largest size of the log is the first in the list, its
   bucket is chosen first, later rounds and the sort only add and move
   (`ChosenBuckets`, `SortSorts`), and `get_bucket_size` holds its size and the padding.
   As the buckets ascend, the first that fits is the smallest that fits
   (`FirstFitIsBest`).
4. Enough blocks: `set_distributions` takes the peak, so at every event no more of a
   bucket is in use than `dist` has (`PeakIsCovered`).
5. The replay: `PlannedInv` says that the blocks in use are, bucket by bucket, the
   optimizer's `current_use` after the same event, and, size by size, the allocations
   not freed. The first gives the next allocation a free block in the bucket
   it was counted in (`PlannedBlockIsFree`); the second gives a free an
   allocation to be of (`FreeHasAllocation`), without which the block would not come back and
   the first would be lost. The first also needs that the allocator takes no smaller
   bucket than the one counted, which is `FitsAgree`; both need the log to be
   well-formed (`Agreeing` is the two together). For other logs what holds is
   `ReplayInv`, that no block is lost or made.

Every invariant that a passing run checks is proved, and so are both refinements.
Left to TLC are `DoneEnds`, `SilentPeerDropped`, `SlotReclaimed`,
`SilentConnDropped` and `ExchangeEnds`: liveness under fairness is beyond the
prover.

## 5. What the models assume and leave out

Assumed of the environment:

* epoll may report an error or hang-up without `EPOLLIN`, as its interface allows.
* A positive result of `wolfSSL_read` leaves no error in the object.
* `min` is the one of wolfSSL's headers, with `word32` arguments.
* The clock is read often enough that `poll` returns when a timer is due, and
  `time` and `CLOCK_MONOTONIC` advance together.
* `malloc` may reuse the address of a freed connection.
* wolfSSL takes the address of a message as the peer's, or does not.
* `poll` may report an error without `POLLIN`, as its interface allows, and does not
  fail: `server-tls-poll-perf.c` ignores its result (line 1010) and after a failure
  would go through the slots with the `revents` of the call before. A connection in
  the backlog stays there until it is accepted.
* libevent calls the callback of an event that was added once, for input or for
  its timeout, and never one that was deleted.
* A SIGINT comes between calls of libraries, never within one: what a signal inside
  `malloc`, libevent or wolfSSL does, from a handler that calls them again, is not
  decided by the program.
* wolfSSL's static memory fits a request in the first bucket with `size <= bucket` that has a
  free block, and a load that succeeds has all the blocks of `WOLFMEM_DIST`.
* wolfSSL asks its receive callback for any number of bytes up to what it still
  needs, and repeats a call that returned `WANT_READ` or `WANT_WRITE`.

Left out of the modelled programs: times and statistics, the count of resumed
sessions, `WOLFSSL_ASYNC_CRYPT`, builds without `WOLFSSL_DTLS_CID`, the
arithmetic of `struct timespec` and the parsing of a message. The bytes in a
socket are not counted, so an edge that is never followed by another because
data was left unread is not seen: a hazard without a property yet.

Left out of the others: bytes in the poll server (no client has a slot when they
count), in the libevent server the length of timeouts, `main` before
`event_base_dispatch` and memory other than objects (a `conn_ctx` of which the stack does
not know yet when a SIGINT comes), text and reports of the bucket tools and the size
of the tester's buffer.

### Not modelled

Each part is in `components` with its reason; these are the kinds.

* Programs that are a sequence of library calls: by far most of the repository.
  The control they have is "return on error", and what could go wrong lies in
  wolfSSL, which is not here. A model of them would be their text again.
* Code for boards, operating systems, enclaves and secure elements, whose state is
  in a device or in a system that is not in the repository, with headers of
  generated test vectors and tables.
* `dtls/server-dtls-rw-threads.c`: when its threads have work, and who holds which
  mutex when the signal is sent, is decided by wolfSSL's threaded encryption. The
  hazards of the visible part are listed without a property.
* `tls/server-tls-epoll-perf.c`: the multi-threaded server with one thread.
* Scripts, build files and certificates.

The mapped lines are therefore a small part of all lines, and would be if every
program with state of its own were modelled: there are a few thousand lines of
such programs among some 150,000.

## 6. Plan

Done: all modules of section 2, with proofs of every invariant of the passing runs
and of both refinements.

Left, if they earn it:

1. Sockets that count bytes in `EpollServer`, so that input left behind by an edge
   can be seen.
2. The length of timeouts in `DtlsEventServer` against the comment on
   `waitingOnData`.
