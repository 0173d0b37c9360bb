------------------------------ MODULE EpollServer ------------------------------
(******************************************************************************)
(* The threaded, non-blocking TLS server of tls/server-tls-epoll-threaded.c.  *)
(*                                                                            *)
(* Every thread runs ThreadHandler: it owns a listening socket (all of them   *)
(* bound to the same port with SO_REUSEPORT), an epoll instance and the lists *)
(* of its SSLConn objects.  The threads share the counters of SSLConn_CTX,    *)
(* which decide when the run is over.  main waits for all threads and frees   *)
(* what they left.                                                            *)
(*                                                                            *)
(* A step is what a thread does between two accesses to the shared counters   *)
(* or two system calls another party can see.  In particular the two places   *)
(* that read a byte counter without the mutex (readLen, writeLen) are steps   *)
(* of their own.  Times, statistics, the resumed-session count and the        *)
(* WOLFSSL_ASYNC_CRYPT build are left out.                                    *)
(******************************************************************************)
EXTENDS Integers, FiniteSets

CONSTANTS
  Threads,         \* the ThreadData entries; a thread also names its socketfd
  Conns,           \* TCP clients; a client also names its SSLConn and sockfd
  NumConns,        \* -N: connections a thread handles at a time
  MaxConnections,  \* -n: connections to handle in the run
  MaxBytes,        \* -B: bytes to read, and bytes to write, in the run
  BufferLen,       \* -R: bytes asked for by one read
  ReplyLen,        \* -W: bytes of one reply
  EpollNumEvents,  \* EPOLL_NUM_EVENTS
  MaxSends         \* bound: how many times a client sends (or closes)

(* What main's option parsing lets through: -n clears maxBytes and -B clears *)
(* maxConns; without either, maxConns = 100 and maxBytes = -1.               *)
ParsedOptions ==
  /\ NumConns \in Nat
  /\ MaxConnections \in Nat
  /\ MaxBytes \in Nat \cup {-1}
  /\ MaxConnections = 0 \/ MaxBytes <= 0
  /\ BufferLen \in Nat \ {0}
  /\ ReplyLen \in Nat \ {0}

ASSUME ServerAssumption ==
  /\ IsFiniteSet(Threads) /\ IsFiniteSet(Conns)
  /\ Threads \cap Conns = {}
  /\ ParsedOptions
  /\ EpollNumEvents \in Nat \ {0}
  /\ MaxSends \in Nat

FDs == Threads \cup Conns

Live == {"ACCEPT", "READ", "WRITE"}

VARIABLES
  \* The server: per connection, per thread, and shared by the threads.
  state,           \* SSLConn.state, and what the client is before and after it
  sslConn,         \* the list of active connections of a thread
  freeSSLConn,     \* the list of closed connections not yet freed
  cnt,             \* ThreadData.cnt
  accepting,       \* ThreadData.accepting
  ctx,             \* is ThreadData.ctx a WOLFSSL_CTX (TRUE) or NULL
  socketfd,        \* is the listening socket open
  pc,              \* where ThreadHandler is
  cur,             \* the connection of SSLConn_ReadWrite; the thread: none
  len,             \* the local variable len of SSLConn_ReadWrite
  inEvents,        \* unprocessed entries of events[] with EPOLLIN
  errEvents,       \* unprocessed entries of events[] without EPOLLIN
  numConnections, totalReadBytes, totalWriteBytes,
  process,         \* "running", or how the process ended
  \* The kernel and the clients.
  epoll,           \* the descriptors registered with a thread's epoll instance
  backlog,         \* completed TCP connections a listening socket holds
  edge,            \* descriptors with input that epoll has not reported yet
  err,             \* descriptors with an error that epoll has not reported yet
  sends            \* how many times a client has sent

lists    == <<sslConn, freeSSLConn, cnt>>
thread   == <<accepting, ctx, socketfd>>
batch    == <<inEvents, errEvents>>
locals   == <<cur, len>>
counters == <<numConnections, totalReadBytes, totalWriteBytes>>
kernel   == <<epoll, backlog, edge, err, sends>>
vars     == <<state, lists, thread, pc, batch, locals, counters, process, kernel>>

TypeOK ==
  /\ state \in [Conns -> Live \cup {"new", "backlog", "refused", "CLOSED", "freed"}]
  /\ sslConn \in [Threads -> SUBSET Conns]
  /\ freeSSLConn \in [Threads -> SUBSET Conns]
  /\ cnt \in [Threads -> Int]
  /\ accepting \in [Threads -> BOOLEAN]
  /\ ctx \in [Threads -> BOOLEAN]
  /\ socketfd \in [Threads -> BOOLEAN]
  /\ pc \in [Threads -> {"init", "loop", "wait", "events", "accept", "readLen",
                         "read", "writeLen", "write", "done"}]
  /\ cur \in [Threads -> FDs]
  /\ len \in [Threads -> Nat]
  /\ inEvents \in [Threads -> SUBSET FDs]
  /\ errEvents \in [Threads -> SUBSET FDs]
  /\ numConnections \in Nat /\ totalReadBytes \in Nat /\ totalWriteBytes \in Nat
  /\ process \in {"running", "exited", "setupFailed", "connAddFailed",
                  "listenerDelFailed", "listenerAddFailed"}
  /\ epoll \in [Threads -> SUBSET FDs]
  /\ backlog \in [Threads -> SUBSET Conns]
  /\ edge \subseteq Conns
  /\ err \subseteq FDs
  /\ sends \in [Conns -> 0..MaxSends]

(* SSLConn_New, and main up to the creation of the threads. *)
Init ==
  /\ state = [c \in Conns |-> "new"]
  /\ sslConn = [t \in Threads |-> {}]
  /\ freeSSLConn = [t \in Threads |-> {}]
  /\ cnt = [t \in Threads |-> 0]
  /\ accepting = [t \in Threads |-> FALSE]
  /\ ctx = [t \in Threads |-> FALSE]
  /\ socketfd = [t \in Threads |-> FALSE]
  /\ pc = [t \in Threads |-> "init"]
  /\ cur = [t \in Threads |-> t]
  /\ len = [t \in Threads |-> 0]
  /\ inEvents = [t \in Threads |-> {}]
  /\ errEvents = [t \in Threads |-> {}]
  /\ numConnections = 0 /\ totalReadBytes = 0 /\ totalWriteBytes = 0
  /\ process = "running"
  /\ epoll = [t \in Threads |-> {}]
  /\ backlog = [t \in Threads |-> {}]
  /\ edge = {} /\ err = {}
  /\ sends = [c \in Conns |-> 0]

--------------------------------------------------------------------------------
(* Helpers of the code. *)

SSLConn_Done ==
  IF MaxConnections > 0
    THEN numConnections >= MaxConnections
    ELSE totalWriteBytes >= MaxBytes /\ totalReadBytes >= MaxBytes

(* Mutant of CappedLen: what was used of the limit is forgotten. *)
CappedLen_IgnoresTotal(n, total) ==
  IF MaxBytes > 0 /\ MaxBytes < n THEN MaxBytes ELSE n

(* min(n, maxBytes - total) with the min of wolfSSL's headers, whose arguments *)
(* are word32: when total is over maxBytes the difference is a huge number.   *)
CappedLen(n, total) ==
  IF MaxBytes > 0 /\ total <= MaxBytes /\ MaxBytes - total < n
    THEN MaxBytes - total
    ELSE n

Goto(t, label) == pc' = [pc EXCEPT ![t] = label]

(* The process ends in exit(EXIT_FAILURE): nothing else matters any more. *)
Exit(how) ==
  /\ process' = how
  /\ UNCHANGED <<state, lists, thread, pc, batch, locals, counters, kernel>>

(* Mutants of SSLConn_Close: cnt is not brought down; the wrong counter is. *)
SSLConn_Close_KeepsCnt(t, c) ==
  /\ state' = [state EXCEPT ![c] = "CLOSED"]
  /\ sslConn' = [sslConn EXCEPT ![t] = @ \ {c}]
  /\ freeSSLConn' = [freeSSLConn EXCEPT ![t] = @ \cup {c}]
  /\ numConnections' = numConnections + 1
  /\ UNCHANGED cnt

SSLConn_Close_CountsDown(t, c) ==
  /\ state' = [state EXCEPT ![c] = "CLOSED"]
  /\ sslConn' = [sslConn EXCEPT ![t] = @ \ {c}]
  /\ freeSSLConn' = [freeSSLConn EXCEPT ![t] = @ \cup {c}]
  /\ cnt' = [cnt EXCEPT ![t] = @ - 1]
  /\ numConnections' = numConnections - 1

(* Out of the active list, onto the free list, and counted. *)
SSLConn_Close(t, c) ==
  /\ state' = [state EXCEPT ![c] = "CLOSED"]
  /\ sslConn' = [sslConn EXCEPT ![t] = @ \ {c}]
  /\ freeSSLConn' = [freeSSLConn EXCEPT ![t] = @ \cup {c}]
  /\ cnt' = [cnt EXCEPT ![t] = @ - 1]
  /\ numConnections' = numConnections + 1

(* The descriptors left in an epoll instance when the sockets in closed are   *)
(* closed: the kernel drops a closed descriptor from the interest list.       *)
EpollAfterClose(t, closed) == [epoll EXCEPT ![t] = @ \ closed]

(* Mutant of SSLConn_FreeSSLConn: the object is freed, its socket not closed. *)
SSLConn_FreeSSLConn_NoClose(t) ==
  /\ state' = [c \in Conns |-> IF c \in freeSSLConn[t] THEN "freed" ELSE state[c]]
  /\ freeSSLConn' = [freeSSLConn EXCEPT ![t] = {}]
  /\ UNCHANGED <<epoll, edge, err>>

(* wolfSSL_free, close and free of every connection in the free list. *)
SSLConn_FreeSSLConn(t) ==
  /\ state' = [c \in Conns |-> IF c \in freeSSLConn[t] THEN "freed" ELSE state[c]]
  /\ epoll' = EpollAfterClose(t, freeSSLConn[t])
  /\ edge' = edge \ freeSSLConn[t]
  /\ err' = err \ freeSSLConn[t]
  /\ freeSSLConn' = [freeSSLConn EXCEPT ![t] = {}]

(* close(socketfd): the kernel resets the connections nobody accepted. *)
CloseListener(t) ==
  /\ state' = [c \in Conns |-> IF c \in backlog[t] THEN "refused" ELSE state[c]]
  /\ socketfd' = [socketfd EXCEPT ![t] = FALSE]
  /\ backlog' = [backlog EXCEPT ![t] = {}]
  /\ epoll' = EpollAfterClose(t, {t})
  /\ edge' = edge \ backlog[t]
  /\ err' = err \ {t}

--------------------------------------------------------------------------------
(* ThreadHandler: set-up and the head of the loop. *)

(* A context, or NULL when the method, the certificates or the ciphers fail. *)
WolfSSLCtx_Init(t) == \E ok \in BOOLEAN : ctx' = [ctx EXCEPT ![t] = ok]

(* WolfSSLCtx_Init reports failure with EXIT_FAILURE while its caller tests for *)
(* -1, so a thread without a context goes on.                                 *)
ThreadInit(t) ==
  /\ pc[t] = "init"
  /\ WolfSSLCtx_Init(t)
  /\ socketfd' = [socketfd EXCEPT ![t] = TRUE]
  /\ epoll' = [epoll EXCEPT ![t] = {t}]
  /\ accepting' = [accepting EXCEPT ![t] = TRUE]
  /\ Goto(t, "loop")
  /\ UNCHANGED <<state, lists, batch, locals, counters, process, backlog, edge,
                 err, sends>>

(* malloc, CreateSocketListen, epoll_create1 or the first epoll_ctl fails. *)
ThreadInitFails(t) ==
  /\ pc[t] = "init"
  /\ Exit("setupFailed")

LoopAgain(t) ==
  /\ pc[t] = "loop"
  /\ ~SSLConn_Done
  /\ SSLConn_FreeSSLConn(t)
  /\ Goto(t, "wait")
  /\ UNCHANGED <<sslConn, cnt, thread, batch, locals, counters, process,
                 backlog, sends>>

LoopEnd(t) ==
  /\ pc[t] = "loop"
  /\ SSLConn_Done
  /\ CloseListener(t)
  /\ Goto(t, "done")
  /\ UNCHANGED <<lists, accepting, ctx, batch, locals, counters, process, sends>>

--------------------------------------------------------------------------------
(* epoll_wait.  Clients are registered edge-triggered: an edge is reported    *)
(* once.  The listener is level-triggered: it is reported while its backlog   *)
(* is not empty.  With nothing to report the call returns after 1 ms.         *)

HasInput(t, fd) == fd \in edge \/ (fd = t /\ backlog[t] # {})

Ready(t) == {fd \in epoll[t] : HasInput(t, fd) \/ fd \in err}

(* Mutant of EpollWait: a timeout of -1, the call returns only with events. *)
EpollWait_NoTimeout(t) ==
  /\ pc[t] = "wait"
  /\ Ready(t) # {}
  /\ inEvents' = [inEvents EXCEPT ![t] = {fd \in Ready(t) : HasInput(t, fd)}]
  /\ errEvents' = [errEvents EXCEPT ![t] = {fd \in Ready(t) : ~HasInput(t, fd)}]
  /\ edge' = edge \ Ready(t)
  /\ err' = err \ (Ready(t) \ {t})
  /\ Goto(t, "events")
  /\ UNCHANGED <<state, lists, thread, locals, counters, process, epoll, backlog,
                 sends>>

EpollWait(t) ==
  /\ pc[t] = "wait"
  /\ \E got \in SUBSET Ready(t) :
       /\ Cardinality(got) <= EpollNumEvents
       /\ got = Ready(t) \/ Cardinality(got) = EpollNumEvents
       /\ inEvents' = [inEvents EXCEPT ![t] = {fd \in got : HasInput(t, fd)}]
       /\ errEvents' = [errEvents EXCEPT ![t] = {fd \in got : ~HasInput(t, fd)}]
       /\ edge' = edge \ got
       /\ err' = err \ (got \ {t})
  /\ Goto(t, "events")
  /\ UNCHANGED <<state, lists, thread, locals, counters, process, epoll, backlog,
                 sends>>

--------------------------------------------------------------------------------
(* Processing of the returned events, in any order. *)

ListenerErrorEvent(t) ==
  /\ pc[t] = "events"
  /\ t \in errEvents[t]
  /\ errEvents' = [errEvents EXCEPT ![t] = @ \ {t}]
  /\ CloseListener(t)
  /\ UNCHANGED <<lists, accepting, ctx, pc, inEvents, locals, counters, process,
                 sends>>

(* The result of the epoll_ctl that adds the listener again is ignored. *)
ClientErrorEvent(t, c) ==
  /\ pc[t] = "events"
  /\ c \in errEvents[t]
  /\ errEvents' = [errEvents EXCEPT ![t] = @ \ {c}]
  /\ SSLConn_Close(t, c)
  /\ epoll' = [epoll EXCEPT ![t] = IF socketfd[t] THEN @ \cup {t} ELSE @]
  /\ UNCHANGED <<thread, pc, inEvents, locals, totalReadBytes, totalWriteBytes,
                 process, backlog, edge, err, sends>>

(* Mutant of CapacityCheck: the listener is taken out one connection late. *)
CapacityCheck_OneLate(t, n, registered) ==
  /\ epoll' = [epoll EXCEPT ![t] = IF n > NumConns THEN registered \ {t} ELSE registered]
  /\ accepting' = [accepting EXCEPT ![t] = @ /\ n <= NumConns]
  /\ UNCHANGED process

(* What follows SSLConn_Accept, with n connections and the given descriptors  *)
(* registered: at numConns the listener is taken out of the epoll instance.   *)
CapacityCheck(t, n, registered) ==
  /\ epoll' = [epoll EXCEPT ![t] = IF n = NumConns THEN registered \ {t} ELSE registered]
  /\ accepting' = [accepting EXCEPT ![t] = @ /\ n # NumConns]
  /\ process' = IF n = NumConns /\ t \notin registered
                  THEN "listenerDelFailed" ELSE process

AcceptEvent(t, c) ==
  /\ pc[t] = "events"
  /\ t \in inEvents[t]
  /\ inEvents' = [inEvents EXCEPT ![t] = @ \ {t}]
  /\ ctx[t]
  /\ c \in backlog[t]
  /\ backlog' = [backlog EXCEPT ![t] = @ \ {c}]
  /\ state' = [state EXCEPT ![c] = "ACCEPT"]
  /\ sslConn' = [sslConn EXCEPT ![t] = @ \cup {c}]
  /\ cnt' = [cnt EXCEPT ![t] = @ + 1]
  /\ CapacityCheck(t, cnt[t] + 1, epoll[t] \cup {c})
  /\ UNCHANGED <<freeSSLConn, ctx, socketfd, pc, errEvents, locals, counters,
                 edge, err, sends>>

(* The epoll_ctl for the accepted connection fails. *)
AcceptAddFails(t) ==
  /\ pc[t] = "events"
  /\ t \in inEvents[t]
  /\ ctx[t]
  /\ Exit("connAddFailed")

(* malloc or accept fails and the client stays in the backlog, or wolfSSL_new *)
(* fails (always, without a context) and the client's socket is closed.       *)
AcceptFails(t, gone) ==
  /\ pc[t] = "events"
  /\ t \in inEvents[t]
  /\ inEvents' = [inEvents EXCEPT ![t] = @ \ {t}]
  /\ gone \subseteq backlog[t]
  /\ Cardinality(gone) <= 1
  /\ backlog' = [backlog EXCEPT ![t] = @ \ gone]
  /\ state' = [c \in Conns |-> IF c \in gone THEN "refused" ELSE state[c]]
  /\ edge' = edge \ gone
  /\ CapacityCheck(t, cnt[t], epoll[t])
  /\ UNCHANGED <<lists, ctx, socketfd, pc, errEvents, locals, counters, err, sends>>

(* The switch of SSLConn_ReadWrite.  CLOSED is not a case of the model: see   *)
(* EventsAreActive.                                                           *)
ReadWriteEvent(t, c) ==
  /\ pc[t] = "events"
  /\ c \in inEvents[t]
  /\ inEvents' = [inEvents EXCEPT ![t] = @ \ {c}]
  /\ cur' = [cur EXCEPT ![t] = c]
  /\ \/ state[c] = "ACCEPT" /\ Goto(t, "accept")
     \/ state[c] = "READ" /\ Goto(t, "readLen")
     \/ state[c] = "WRITE" /\ Goto(t, "writeLen")
  /\ UNCHANGED <<state, lists, thread, errEvents, len, counters, process, kernel>>

(* SSLConn_ReadWrite returns to the loop over the events. *)
Return(t) ==
  /\ Goto(t, "events")
  /\ cur' = [cur EXCEPT ![t] = t]
  /\ len' = [len EXCEPT ![t] = 0]

(* Fatal outcome of the wolfSSL call: the connection is closed.  The bytes of *)
(* a write that was short before it failed are counted.                       *)
CallFails(t) ==
  /\ pc[t] \in {"accept", "read", "write"}
  /\ \E n \in IF pc[t] = "write" THEN 0..(len[t] - 1) ELSE {0} :
       totalWriteBytes' = totalWriteBytes + n
  /\ SSLConn_Close(t, cur[t])
  /\ Return(t)
  /\ UNCHANGED <<thread, batch, totalReadBytes, process, kernel>>

(* WANT_READ or WANT_WRITE: the connection keeps its state. *)
CallWants(t) ==
  /\ pc[t] \in {"accept", "read", "write"}
  /\ Return(t)
  /\ UNCHANGED <<state, lists, thread, batch, counters, process, kernel>>

SSL_Accept(t) ==
  /\ pc[t] = "accept"
  /\ state' = [state EXCEPT ![cur[t]] = "READ"]
  /\ Return(t)
  /\ UNCHANGED <<lists, thread, batch, counters, process, kernel>>

ReadLen(t) ==
  /\ pc[t] = "readLen"
  /\ LET n == CappedLen(BufferLen, totalReadBytes) IN
       \/ n = 0 /\ Return(t)
       \/ n > 0 /\ len' = [len EXCEPT ![t] = n] /\ Goto(t, "read") /\ UNCHANGED cur
  /\ UNCHANGED <<state, lists, thread, batch, counters, process, kernel>>

SSL_Read(t) ==
  /\ pc[t] = "read"
  /\ \E n \in 1..len[t] : totalReadBytes' = totalReadBytes + n
  /\ state' = [state EXCEPT ![cur[t]] = "WRITE"]
  /\ len' = [len EXCEPT ![t] = 0]
  /\ Goto(t, "writeLen")
  /\ UNCHANGED <<lists, thread, batch, cur, numConnections, totalWriteBytes,
                 process, kernel>>

WriteLen(t) ==
  /\ pc[t] = "writeLen"
  /\ LET n == CappedLen(ReplyLen, totalWriteBytes) IN
       \/ n = 0 /\ Return(t)
       \/ n > 0 /\ len' = [len EXCEPT ![t] = n] /\ Goto(t, "write") /\ UNCHANGED cur
  /\ UNCHANGED <<state, lists, thread, batch, counters, process, kernel>>

(* A short write counts its bytes and leaves the state when it wants more. *)
SSL_Write(t) ==
  /\ pc[t] = "write"
  /\ \E n \in 1..len[t] :
       /\ totalWriteBytes' = totalWriteBytes + n
       /\ \/ state' = [state EXCEPT ![cur[t]] = "READ"]
          \/ n < len[t] /\ UNCHANGED state
  /\ Return(t)
  /\ UNCHANGED <<lists, thread, batch, numConnections, totalReadBytes, process,
                 kernel>>

(* Mutant of WantsRearm: off by one, a thread needs room for two. *)
WantsRearm_RoomForTwo(t) == ~accepting[t] /\ cnt[t] + 1 < NumConns

(* After the last event: accept again when there is room. *)
WantsRearm(t) == ~accepting[t] /\ cnt[t] < NumConns

EndOfEvents(t) ==
  /\ pc[t] = "events"
  /\ inEvents[t] = {} /\ errEvents[t] = {}
  /\ Goto(t, "loop")
  /\ \/ ~WantsRearm(t) /\ UNCHANGED <<epoll, accepting>>
     \/ /\ WantsRearm(t)
        /\ socketfd[t] /\ t \notin epoll[t]
        /\ epoll' = [epoll EXCEPT ![t] = @ \cup {t}]
        /\ accepting' = [accepting EXCEPT ![t] = TRUE]
  /\ UNCHANGED <<state, lists, ctx, socketfd, batch, locals, counters, process,
                 backlog, edge, err, sends>>

(* epoll_ctl refuses a closed descriptor and one that is already registered. *)
RearmFails(t) ==
  /\ pc[t] = "events"
  /\ inEvents[t] = {} /\ errEvents[t] = {}
  /\ WantsRearm(t)
  /\ ~socketfd[t] \/ t \in epoll[t]
  /\ Exit("listenerAddFailed")

--------------------------------------------------------------------------------
(* main after pthread_join: SSLConn_Free closes and frees what is left. *)

Remaining == UNION {sslConn[t] : t \in Threads}

(* Mutant of SSLConn_Free: only the free lists are freed. *)
SSLConn_Free_FreeListOnly ==
  /\ \A t \in Threads : pc[t] = "done"
  /\ state' = [c \in Conns |-> IF state[c] = "CLOSED" THEN "freed" ELSE state[c]]
  /\ freeSSLConn' = [t \in Threads |-> {}]
  /\ process' = "exited"
  /\ UNCHANGED <<sslConn, cnt, thread, pc, batch, locals, counters, kernel>>

SSLConn_Free ==
  /\ \A t \in Threads : pc[t] = "done"
  /\ numConnections' = numConnections + Cardinality(Remaining)
  /\ state' = [c \in Conns |-> IF state[c] \in Live \cup {"CLOSED"}
                                 THEN "freed" ELSE state[c]]
  /\ sslConn' = [t \in Threads |-> {}]
  /\ freeSSLConn' = [t \in Threads |-> {}]
  /\ cnt' = [t \in Threads |-> cnt[t] - Cardinality(sslConn[t])]
  /\ ctx' = [t \in Threads |-> FALSE]
  /\ epoll' = [t \in Threads |-> epoll[t] \ (sslConn[t] \cup freeSSLConn[t])]
  /\ edge' = {} /\ err' = {}
  /\ process' = "exited"
  /\ UNCHANGED <<accepting, socketfd, pc, batch, locals, totalReadBytes,
                 totalWriteBytes, backlog, sends>>

--------------------------------------------------------------------------------
(* The clients and the network.  What a client sends, and whether it closes,  *)
(* is the outcome of the wolfSSL call that the event leads to.                *)

ClientConnect(t, c) ==
  /\ state[c] = "new"
  /\ socketfd[t]
  /\ state' = [state EXCEPT ![c] = "backlog"]
  /\ backlog' = [backlog EXCEPT ![t] = @ \cup {c}]
  /\ UNCHANGED <<lists, thread, pc, batch, locals, counters, process, epoll,
                 edge, err, sends>>

ClientSend(c) ==
  /\ state[c] \in Live \cup {"backlog"}
  /\ sends[c] < MaxSends
  /\ sends' = [sends EXCEPT ![c] = @ + 1]
  /\ edge' = edge \cup {c}
  /\ UNCHANGED <<state, lists, thread, pc, batch, locals, counters, process,
                 epoll, backlog, err>>

(* EPOLLERR or EPOLLHUP on a socket of the server. *)
SocketError(fd) ==
  /\ fd \notin err
  /\ \/ fd \in Conns /\ state[fd] \in Live
     \/ fd \in Threads /\ socketfd[fd]
  /\ err' = err \cup {fd}
  /\ UNCHANGED <<state, lists, thread, pc, batch, locals, counters, process,
                 epoll, backlog, edge, sends>>

--------------------------------------------------------------------------------

ThreadStep(t) ==
  \/ ThreadInit(t) \/ ThreadInitFails(t)
  \/ LoopAgain(t) \/ LoopEnd(t)
  \/ EpollWait(t)
  \/ ListenerErrorEvent(t)
  \/ \E c \in Conns : ClientErrorEvent(t, c) \/ AcceptEvent(t, c) \/ ReadWriteEvent(t, c)
  \/ AcceptAddFails(t)
  \/ \E gone \in SUBSET backlog[t] : AcceptFails(t, gone)
  \/ CallFails(t) \/ CallWants(t)
  \/ SSL_Accept(t) \/ ReadLen(t) \/ SSL_Read(t) \/ WriteLen(t) \/ SSL_Write(t)
  \/ EndOfEvents(t) \/ RearmFails(t)

Environment ==
  \/ \E t \in Threads, c \in Conns : ClientConnect(t, c)
  \/ \E c \in Conns : ClientSend(c)
  \/ \E fd \in FDs : SocketError(fd)

Running ==
  /\ process = "running"
  /\ (\E t \in Threads : ThreadStep(t)) \/ SSLConn_Free \/ Environment

(* The process has ended. *)
Stopped == process # "running" /\ UNCHANGED vars

Next == Running \/ Stopped

(* The threads are scheduled and main is joined; nothing is assumed of clients. *)
Fairness ==
  /\ \A t \in Threads : WF_vars(process = "running" /\ ThreadStep(t))
  /\ WF_vars(process = "running" /\ SSLConn_Free)

Spec == Init /\ [][Next]_vars /\ Fairness

--------------------------------------------------------------------------------
(* Properties. *)

(* The two lists of a thread hold exactly the connections it accepted and has *)
(* not freed, no connection is in two lists or two threads, and cnt, which    *)
(* SSLConn_Accept and SSLConn_Close move by hand, is the length of the active *)
(* list.                                                                      *)
ConnListsExact ==
  /\ \A t \in Threads :
       /\ cnt[t] = Cardinality(sslConn[t])
       /\ \A c \in sslConn[t] : state[c] \in Live
       /\ \A c \in freeSSLConn[t] : state[c] = "CLOSED"
  /\ \A t, u \in Threads : t # u =>
       (sslConn[t] \cup freeSSLConn[t]) \cap (sslConn[u] \cup freeSSLConn[u]) = {}
  /\ \A c \in Conns : state[c] \in Live \cup {"CLOSED"} =>
       \E t \in Threads : c \in sslConn[t] \cup freeSSLConn[t]

(* epoll hands back the SSLConn pointer it was given, so a pending event, and *)
(* the object SSLConn_ReadWrite works on, must be of a connection that is in  *)
(* the thread's active list: never freed memory, never one closed already.    *)
(* This makes the CLOSED case of SSLConn_ReadWrite, and the early return of   *)
(* SSLConn_Close, dead code in this build.                                    *)
EventsAreActive ==
  \A t \in Threads :
    /\ (inEvents[t] \cup errEvents[t]) \ {t} \subseteq sslConn[t]
    /\ pc[t] \in {"accept", "readLen", "read", "writeLen", "write"}
         => cur[t] \in sslConn[t]
    /\ epoll[t] \ {t} \subseteq sslConn[t] \cup freeSSLConn[t]
    /\ pc[t] = "wait" => epoll[t] \ {t} \subseteq sslConn[t]

(* A thread never holds more than numConns connections (-N, when it is not 0), *)
(* and the listener is never watched by a thread that is full: what the DEL   *)
(* after accept and the re-arming at the end of the loop are for.             *)
WithinCapacity ==
  NumConns > 0 =>
    \A t \in Threads :
      /\ cnt[t] <= NumConns
      /\ t \in epoll[t] => cnt[t] < NumConns

(* A thread that has room and whose listening socket is open watches the      *)
(* socket whenever it waits for events: no client is left in the backlog by   *)
(* a listener that nobody re-armed.                                           *)
RoomIsOffered ==
  \A t \in Threads :
    pc[t] = "wait" /\ socketfd[t] /\ cnt[t] < NumConns => t \in epoll[t]

(* Every accepted connection is counted exactly once, by whichever of the     *)
(* four callers of SSLConn_Close closes it, and none is left when the process *)
(* ends in main.                                                              *)
CountedOnce ==
  /\ numConnections = Cardinality({c \in Conns : state[c] \in {"CLOSED", "freed"}})
  /\ process = "exited" =>
       \A c \in Conns : state[c] \notin Live \cup {"CLOSED"}

(* With a byte limit, neither total goes over it.  True of one thread only:   *)
(* the length of a call is computed from a total read without the mutex.      *)
ByteBudget ==
  MaxBytes > 0 => totalReadBytes <= MaxBytes /\ totalWriteBytes <= MaxBytes

(* Once the run is done every thread leaves its loop, whatever the clients    *)
(* do, and the process ends: epoll_wait returns without events after 1 ms.    *)
DoneEnds == SSLConn_Done ~> process # "running"

(* "Keep handling clients until done": the process does not exit because it   *)
(* could not add the listener again, while the listening socket is fine.      *)
KeepsHandlingClients ==
  process = "listenerAddFailed" => \E t \in Threads : ~socketfd[t]

================================================================================
