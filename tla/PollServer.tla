------------------------------ MODULE PollServer -------------------------------
(******************************************************************************)
(* The single-threaded TLS server of tls/server-tls-poll-perf.c.              *)
(*                                                                            *)
(* main keeps an array of pollfd: one slot per connection of the run (-n) and *)
(* a last one for the listening socket.  events_data[i] is the SSLConn whose  *)
(* socket slot i watches.  A connection that SSLConn_ReadWrite closes keeps   *)
(* its slot, with a pointer to an object that is freed after the loop over    *)
(* the slots: the slot is given back only when the next poll finds that its   *)
(* descriptor is not open (POLLNVAL).  Descriptors are therefore numbers that *)
(* the kernel uses again, lowest first.                                       *)
(*                                                                            *)
(* A step is one call of poll, or the handling of one slot.  Bytes, times and *)
(* statistics are left out: without -n there is no slot for a client, so the  *)
(* byte totals that SSLConn_Done compares with maxBytes stay 0.               *)
(******************************************************************************)
EXTENDS Integers, FiniteSets

CONSTANTS
  Conns,           \* TCP clients; a client also names its SSLConn
  NumConnsOptions, \* -N: the choices for the connections handled at a time
  MaxConnections,  \* -n: connections to handle in the run, and client slots
  MaxBytes,        \* -B: bytes to write in the run
  NofileLimit,     \* the highest descriptor a client's socket can have
  NULL             \* the null pointer

(* What main's option parsing lets through: -n clears maxBytes and -B clears *)
(* maxConns; without either, maxConns = 100 and maxBytes = -1.               *)
ParsedOptions ==
  /\ NumConnsOptions \subseteq Nat
  /\ MaxConnections \in Nat
  /\ MaxBytes \in Nat \cup {-1}
  /\ MaxConnections = 0 \/ MaxBytes <= 0

ASSUME PollAssumption ==
  /\ IsFiniteSet(Conns)
  /\ NULL \notin Conns
  /\ ParsedOptions
  /\ NofileLimit \in Nat

DISABLED_EVENT_SLOT_FD == -1

(* The number of the listening socket; those of the clients are above it. *)
ListenFd == 0
ClientFds == 1..NofileLimit

LISTENER_EVENT_SLOT_ID == MaxConnections
ClientSlots == 0..(MaxConnections - 1)
Slots == 0..MaxConnections

Live == {"ACCEPT", "READ", "WRITE"}

VARIABLES
  state,           \* SSLConn.state, and what the client is before and after it
  sockfd,          \* SSLConn.sockfd
  sslConn,         \* the list of active connections
  freeSSLConn,     \* the list of closed connections not yet freed
  numConns, cnt, accepting, numConnections,
  ctx,             \* is the WOLFSSL_CTX there (TRUE) or NULL
  socketfd,        \* the listening socket, -1 once it is closed
  events,          \* events[i].fd
  revents,         \* events[i].revents, until slot i has been handled
  eventsData,      \* events_data[i]
  pc,              \* in poll or at the loop over the slots
  process          \* "running", or how the process ended

lists == <<sslConn, freeSSLConn, cnt>>
setup == <<numConns, ctx>>
slots == <<events, eventsData>>
vars  == <<state, sockfd, lists, setup, accepting, numConnections, socketfd,
           revents, slots, pc, process>>

TypeOK ==
  /\ state \in [Conns -> Live \cup {"new", "backlog", "refused", "CLOSED", "freed"}]
  /\ sockfd \in [Conns -> ClientFds \cup {-1}]
  /\ sslConn \subseteq Conns /\ freeSSLConn \subseteq Conns
  /\ numConns \in NumConnsOptions
  /\ cnt \in Int /\ numConnections \in Nat
  /\ accepting \in BOOLEAN /\ ctx \in BOOLEAN
  /\ socketfd \in {ListenFd, -1}
  /\ events \in [Slots -> ClientFds \cup {ListenFd, -1}]
  /\ revents \in [Slots -> {"none", "in", "error"}]
  /\ eventsData \in [Slots -> Conns \cup {NULL}]
  /\ pc \in {"poll", "slots"}
  /\ process \in {"running", "listFull", "exited"}

(* SSLConn_New, and main up to the loop.  WolfSSLCtx_Init reports failure     *)
(* with EXIT_FAILURE while main tests for -1, so the server goes on without a *)
(* context.                                                                   *)
Init ==
  /\ state = [c \in Conns |-> "new"]
  /\ sockfd = [c \in Conns |-> -1]
  /\ sslConn = {} /\ freeSSLConn = {} /\ cnt = 0
  /\ numConns \in NumConnsOptions
  /\ accepting = TRUE
  /\ numConnections = 0
  /\ ctx \in BOOLEAN
  /\ socketfd = ListenFd
  /\ events = [i \in Slots |-> IF i = LISTENER_EVENT_SLOT_ID
                                 THEN ListenFd ELSE DISABLED_EVENT_SLOT_FD]
  /\ revents = [i \in Slots |-> "none"]
  /\ eventsData = [i \in Slots |-> NULL]
  /\ pc = "poll"
  /\ process = "running"

--------------------------------------------------------------------------------
(* Helpers of the code. *)

SSLConn_Done ==
  IF MaxConnections > 0 THEN numConnections >= MaxConnections ELSE 0 >= MaxBytes

Backlog == {c \in Conns : state[c] = "backlog"}

(* The connections whose socket is open. *)
Open == sslConn \cup freeSSLConn

(* Mutants of SSLConn_Close: cnt is not brought down; the wrong counter is. *)
SSLConn_Close_KeepsCnt(c) ==
  /\ state' = [state EXCEPT ![c] = "CLOSED"]
  /\ sslConn' = sslConn \ {c}
  /\ freeSSLConn' = freeSSLConn \cup {c}
  /\ numConnections' = numConnections + 1
  /\ UNCHANGED cnt

SSLConn_Close_CountsDown(c) ==
  /\ state' = [state EXCEPT ![c] = "CLOSED"]
  /\ sslConn' = sslConn \ {c}
  /\ freeSSLConn' = freeSSLConn \cup {c}
  /\ cnt' = cnt - 1
  /\ numConnections' = numConnections - 1

(* Out of the active list, onto the free list, and counted. *)
SSLConn_Close(c) ==
  /\ state' = [state EXCEPT ![c] = "CLOSED"]
  /\ sslConn' = sslConn \ {c}
  /\ freeSSLConn' = freeSSLConn \cup {c}
  /\ cnt' = cnt - 1
  /\ numConnections' = numConnections + 1

(* Mutant of SSLConn_FreeSSLConn: the object is freed, its socket not closed. *)
SSLConn_FreeSSLConn_NoClose ==
  /\ state' = [c \in Conns |-> IF c \in freeSSLConn THEN "freed" ELSE state[c]]
  /\ UNCHANGED <<sockfd, freeSSLConn>>

(* wolfSSL_free, close and free of every connection in the free list. *)
SSLConn_FreeSSLConn ==
  /\ state' = [c \in Conns |-> IF c \in freeSSLConn THEN "freed" ELSE state[c]]
  /\ sockfd' = [c \in Conns |-> IF c \in freeSSLConn THEN -1 ELSE sockfd[c]]
  /\ freeSSLConn' = {}

(* The descriptor the kernel gives a new socket: the lowest that is not open. *)
IsLowestFree(n) ==
  LET used == {sockfd[c] : c \in Open} IN
    n \notin used /\ \A m \in ClientFds : m < n => m \in used

FreeSlots == {i \in ClientSlots : events[i] = DISABLED_EVENT_SLOT_FD}

(* The first free slot. *)
allocate_event_slot(i) == i \in FreeSlots /\ \A j \in FreeSlots : i <= j

--------------------------------------------------------------------------------
(* poll with no timeout. *)

(* What poll can find for a slot: nothing when it is disabled, POLLNVAL (an   *)
(* event without POLLIN) when its descriptor is not open.  The input and the  *)
(* errors of a client are its own affair.                                     *)
CanReturn(i) ==
  IF events[i] = DISABLED_EVENT_SLOT_FD THEN {"none"}
  ELSE IF events[i] = ListenFd THEN IF Backlog # {} THEN {"in"} ELSE {"none", "error"}
  ELSE IF \E c \in Open : sockfd[c] = events[i] THEN {"none", "in", "error"}
  ELSE {"error"}

(* poll does not block: some slot has an event whatever the clients do. *)
MustReturn == \E i \in Slots : "none" \notin CanReturn(i)

Poll ==
  /\ pc = "poll"
  /\ ~SSLConn_Done
  /\ revents' \in [Slots -> {"none", "in", "error"}]
  /\ \A i \in Slots : revents'[i] \in CanReturn(i)
  /\ \E i \in Slots : revents'[i] # "none"
  /\ pc' = "slots"
  /\ UNCHANGED <<state, sockfd, lists, accepting, numConnections, setup, socketfd,
                 slots, process>>

--------------------------------------------------------------------------------
(* The loop over the slots. *)

(* Mutant of AtSlot: the slots are handled from the last to the first. *)
AtSlot_FromLast(i) ==
  /\ pc = "slots"
  /\ revents[i] # "none"
  /\ \A j \in Slots : j > i => revents[j] = "none"

(* i is the next slot with an event. *)
AtSlot(i) ==
  /\ pc = "slots"
  /\ revents[i] # "none"
  /\ \A j \in Slots : j < i => revents[j] = "none"

Handled(i) == revents' = [revents EXCEPT ![i] = "none"]

(* close(socketfd): the kernel resets the connections nobody accepted. *)
ListenerErrorEvent(i) ==
  /\ AtSlot(i)
  /\ revents[i] = "error" /\ eventsData[i] = NULL
  /\ state' = [c \in Conns |-> IF c \in Backlog THEN "refused" ELSE state[c]]
  /\ socketfd' = -1
  /\ events' = [events EXCEPT ![LISTENER_EVENT_SLOT_ID] = DISABLED_EVENT_SLOT_FD]
  /\ Handled(i)
  /\ UNCHANGED <<sockfd, lists, accepting, numConnections, setup, eventsData, pc,
                 process>>

(* Mutant of ClientErrorEvent: the slot is released, its pointer stays. *)
ClientErrorEvent_KeepsData(i) ==
  /\ AtSlot(i)
  /\ revents[i] = "error" /\ eventsData[i] # NULL
  /\ events' = [events EXCEPT ![i] = DISABLED_EVENT_SLOT_FD,
                              ![LISTENER_EVENT_SLOT_ID] = socketfd]
  /\ Handled(i)
  /\ UNCHANGED <<state, sockfd, lists, accepting, numConnections, setup, socketfd,
                 eventsData, pc, process>>

(* The slot is given back.  SSLConn_Close is not called: a connection that    *)
(* was not closed before stays in the active list, with no slot to watch it.  *)
ClientErrorEvent(i) ==
  /\ AtSlot(i)
  /\ revents[i] = "error" /\ eventsData[i] # NULL
  /\ eventsData' = [eventsData EXCEPT ![i] = NULL]
  /\ events' = [events EXCEPT ![i] = DISABLED_EVENT_SLOT_FD,
                              ![LISTENER_EVENT_SLOT_ID] = socketfd]
  /\ Handled(i)
  /\ UNCHANGED <<state, sockfd, lists, accepting, numConnections, setup, socketfd,
                 pc, process>>

(* What follows SSLConn_Accept, with n connections and the given slots. *)
CapacityCheck(n, watched) ==
  /\ events' = [watched EXCEPT ![LISTENER_EVENT_SLOT_ID] =
                  IF n = numConns THEN DISABLED_EVENT_SLOT_FD ELSE @]
  /\ accepting' = (accepting /\ n # numConns)

(* SSLConn_Accept succeeds, and the connection gets a slot. *)
AcceptEvent(i, c, n, slot) ==
  /\ AtSlot(i)
  /\ revents[i] = "in" /\ eventsData[i] = NULL
  /\ cnt # numConns /\ ctx
  /\ c \in Backlog
  /\ IsLowestFree(n)
  /\ allocate_event_slot(slot)
  /\ state' = [state EXCEPT ![c] = "ACCEPT"]
  /\ sockfd' = [sockfd EXCEPT ![c] = n]
  /\ sslConn' = sslConn \cup {c}
  /\ cnt' = cnt + 1
  /\ eventsData' = [eventsData EXCEPT ![slot] = c]
  /\ CapacityCheck(cnt + 1, [events EXCEPT ![slot] = n])
  /\ Handled(i)
  /\ UNCHANGED <<freeSSLConn, numConnections, setup, socketfd, pc, process>>

(* SSLConn_Accept succeeds with every slot taken: exit(EXIT_FAILURE). *)
AcceptListFull(i) ==
  /\ AtSlot(i)
  /\ revents[i] = "in" /\ eventsData[i] = NULL
  /\ cnt # numConns /\ ctx /\ Backlog # {}
  /\ FreeSlots = {}
  /\ process' = "listFull"
  /\ UNCHANGED <<state, sockfd, lists, accepting, numConnections, setup, socketfd,
                 revents, slots, pc>>

(* Too many connections, or malloc or accept fails, and the client stays in   *)
(* the backlog; or wolfSSL_new fails (always, without a context) and the      *)
(* client's socket is closed.                                                 *)
AcceptFails(i, gone) ==
  /\ AtSlot(i)
  /\ revents[i] = "in" /\ eventsData[i] = NULL
  /\ gone \subseteq Backlog /\ Cardinality(gone) <= 1
  /\ cnt = numConns => gone = {}
  /\ state' = [c \in Conns |-> IF c \in gone THEN "refused" ELSE state[c]]
  /\ CapacityCheck(cnt, events)
  /\ Handled(i)
  /\ UNCHANGED <<sockfd, lists, numConnections, setup, socketfd, eventsData, pc,
                 process>>

(* The states SSL_Accept, SSL_Read and SSL_Write can leave a connection in; a *)
(* read that succeeds falls through to the write.                             *)
AfterCall(s) == IF s = "ACCEPT" THEN {"ACCEPT", "READ"} ELSE {"READ", "WRITE"}

(* SSLConn_ReadWrite when the calls succeed or want more. *)
ReadWriteEvent(i) ==
  /\ AtSlot(i)
  /\ revents[i] = "in" /\ eventsData[i] # NULL
  /\ LET c == eventsData[i] IN
       /\ state[c] \in Live
       /\ \E s \in AfterCall(state[c]) : state' = [state EXCEPT ![c] = s]
  /\ Handled(i)
  /\ UNCHANGED <<sockfd, lists, accepting, numConnections, setup, socketfd, slots,
                 pc, process>>

(* SSLConn_ReadWrite when a call fails: the connection is closed, its slot    *)
(* stays.                                                                     *)
ReadWriteFails(i) ==
  /\ AtSlot(i)
  /\ revents[i] = "in" /\ eventsData[i] # NULL
  /\ state[eventsData[i]] \in Live
  /\ SSLConn_Close(eventsData[i])
  /\ Handled(i)
  /\ UNCHANGED <<sockfd, accepting, setup, socketfd, slots, pc, process>>

(* Mutant of Rearm: the listener is watched again with room for two. *)
Rearm_RoomForTwo ==
  IF ~accepting /\ cnt + 1 < numConns
    THEN /\ events' = [events EXCEPT ![LISTENER_EVENT_SLOT_ID] = socketfd]
         /\ accepting' = TRUE
    ELSE UNCHANGED <<events, accepting>>

(* Accept more connections again up to the maximum concurrent. *)
Rearm ==
  IF ~accepting /\ cnt < numConns
    THEN /\ events' = [events EXCEPT ![LISTENER_EVENT_SLOT_ID] = socketfd]
         /\ accepting' = TRUE
    ELSE UNCHANGED <<events, accepting>>

(* After the last slot. *)
EndOfSlots ==
  /\ pc = "slots"
  /\ \A i \in Slots : revents[i] = "none"
  /\ SSLConn_FreeSSLConn
  /\ Rearm
  /\ pc' = "poll"
  /\ UNCHANGED <<sslConn, cnt, numConnections, setup, socketfd, revents, eventsData,
                 process>>

(* Mutant of SSLConn_Free: only the free list is freed. *)
SSLConn_Free_FreeListOnly ==
  /\ state' = [c \in Conns |-> IF c \in freeSSLConn THEN "freed" ELSE state[c]]
  /\ freeSSLConn' = {}
  /\ UNCHANGED <<sslConn, cnt, numConnections>>

(* What is left is closed and freed. *)
SSLConn_Free ==
  /\ state' = [c \in Conns |-> IF c \in Open THEN "freed"
                              ELSE IF c \in Backlog THEN "refused" ELSE state[c]]
  /\ numConnections' = numConnections + Cardinality(sslConn)
  /\ cnt' = cnt - Cardinality(sslConn)
  /\ sslConn' = {} /\ freeSSLConn' = {}

(* The end of main. *)
Finish ==
  /\ pc = "poll"
  /\ SSLConn_Done
  /\ SSLConn_Free
  /\ sockfd' = [c \in Conns |-> -1]
  /\ socketfd' = -1
  /\ process' = "exited"
  /\ UNCHANGED <<accepting, setup, revents, slots, pc>>

--------------------------------------------------------------------------------

ClientConnect(c) ==
  /\ state[c] = "new"
  /\ socketfd = ListenFd
  /\ state' = [state EXCEPT ![c] = "backlog"]
  /\ UNCHANGED <<sockfd, lists, accepting, numConnections, setup, socketfd, revents,
                 slots, pc, process>>

HandleSlot(i) ==
  \/ ListenerErrorEvent(i) \/ ClientErrorEvent(i)
  \/ \E c \in Conns, n \in ClientFds, slot \in ClientSlots : AcceptEvent(i, c, n, slot)
  \/ AcceptListFull(i)
  \/ \E gone \in SUBSET Conns : AcceptFails(i, gone)
  \/ ReadWriteEvent(i) \/ ReadWriteFails(i)

Server == Poll \/ (\E i \in Slots : HandleSlot(i)) \/ EndOfSlots \/ Finish

Running ==
  /\ process = "running"
  /\ Server \/ \E c \in Conns : ClientConnect(c)

(* The process has ended. *)
Stopped == process # "running" /\ UNCHANGED vars

Next == Running \/ Stopped

(* The process is scheduled.  poll returns when it must; nothing is assumed   *)
(* of clients, so it may block for ever otherwise.                            *)
Fairness ==
  /\ WF_vars(process = "running" /\ (pc = "poll" => SSLConn_Done \/ MustReturn) /\ Server)

Spec == Init /\ [][Next]_vars /\ Fairness

--------------------------------------------------------------------------------
(* Properties. *)

(* The slots of the listener and of the clients never change roles; a slot is *)
(* disabled exactly when it has no connection, and its descriptor number is   *)
(* the one of its connection or is not open: the kernel gives the number of a *)
(* closed connection to another client only after the slot is given back.     *)
SlotOwnsFd ==
  process # "exited" =>
    /\ eventsData[LISTENER_EVENT_SLOT_ID] = NULL
    /\ events[LISTENER_EVENT_SLOT_ID] \in {socketfd, DISABLED_EVENT_SLOT_FD}
    /\ \A i \in ClientSlots :
         /\ events[i] = DISABLED_EVENT_SLOT_FD <=> eventsData[i] = NULL
         /\ \A c \in Open : events[i] = sockfd[c] => eventsData[i] = c

(* The pointer of a slot with input, which is passed to SSLConn_ReadWrite, is *)
(* a connection of the active list: not one closed before, and never one that *)
(* SSLConn_FreeSSLConn has freed.                                             *)
InputIsActive ==
  \A i \in Slots :
    revents[i] = "in" /\ eventsData[i] # NULL => eventsData[i] \in sslConn

(* The lists hold exactly the connections accepted and not freed, no two of   *)
(* them with the same descriptor, and cnt, moved by hand, is the length of    *)
(* the active list and at most numConns.                                      *)
ConnListsExact ==
  /\ cnt = Cardinality(sslConn) /\ cnt <= numConns
  /\ \A c \in Conns : c \in sslConn <=> state[c] \in Live
  /\ \A c \in Conns : c \in freeSSLConn <=> state[c] = "CLOSED"
  /\ \A c, d \in Open : sockfd[c] = sockfd[d] => c = d

(* "the list is full" ends the process only when more connections at a time   *)
(* (-N) are allowed than the run has connections (-n): although a closed      *)
(* connection keeps its slot until the next poll, there is always one left.   *)
SlotsSuffice == process = "listFull" => numConns > MaxConnections

(* Whenever the server waits and has room, the listener is watched. *)
RoomIsOffered ==
  pc = "poll" /\ process = "running" /\ cnt < numConns
    => events[LISTENER_EVENT_SLOT_ID] = socketfd

(* Every accepted connection is counted exactly once, the ones that lost      *)
(* their slot to an error event when main ends.                               *)
CountedOnce ==
  /\ numConnections = Cardinality({c \in Conns : state[c] \in {"CLOSED", "freed"}})
  /\ process = "exited" => \A c \in Conns : state[c] \notin Live \cup {"CLOSED"}

(* A connection that SSLConn_ReadWrite closes gives its slot back, by way of  *)
(* POLLNVAL, however silent the other clients are.                            *)
SlotReclaimed ==
  \A i \in ClientSlots :
    eventsData[i] # NULL /\ eventsData[i] \notin sslConn
      ~> eventsData[i] = NULL \/ process # "running"

(* "Benchmark <num> written bytes" (-B): the server serves its clients until  *)
(* the bytes are written, it does not exit for want of a slot.                *)
KeepsHandlingClients == process # "listFull"

================================================================================
