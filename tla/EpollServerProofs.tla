--------------------------- MODULE EpollServerProofs ---------------------------
(******************************************************************************)
(* Proofs about EpollServer, for any number of threads and clients and any    *)
(* options main accepts.                                                      *)
(******************************************************************************)
EXTENDS EpollServer, FiniteSetTheorems, TLAPS

(* What the shorthands for tuples of variables and for labels stand for, and  *)
(* the part of ServerAssumption that is about the options.                    *)
USE DEF lists, thread, batch, locals, counters, kernel, Goto, ParsedOptions

(* Every set of clients is finite. *)
LEMMA ConnsFinite ==
  ASSUME NEW S \in SUBSET Conns
  PROVE  IsFiniteSet(S) /\ Cardinality(S) \in Nat
BY FS_Subset, FS_CardinalityType, ServerAssumption

(* What the cardinality of such a set does when a client joins or leaves it. *)
LEMMA CardinalityMoves ==
  ASSUME NEW S \in SUBSET Conns, NEW c
  PROVE  /\ c \in S => Cardinality(S \ {c}) = Cardinality(S) - 1
         /\ c \notin S => Cardinality(S \cup {c}) = Cardinality(S) + 1
BY ConnsFinite, FS_AddElement, FS_RemoveElement

(* The length given to a wolfSSL call is never negative nor more than asked. *)
LEMMA CappedLenType ==
  ASSUME NEW n \in Nat, NEW total \in Nat
  PROVE  CappedLen(n, total) \in 0..n
BY ServerAssumption DEF CappedLen

(* The labels inside SSLConn_ReadWrite. *)
InReadWrite == {"accept", "readLen", "read", "writeLen", "write"}

(* TypeOK is not inductive: SSLConn_Close is called on cur, which is a client *)
(* only inside SSLConn_ReadWrite.                                             *)
TypeInv ==
  /\ TypeOK
  /\ \A t \in Threads : pc[t] \in InReadWrite => cur[t] \in Conns

(* A thread step respects the types. *)
LEMMA ThreadStepType ==
  ASSUME TypeInv, NEW t \in Threads, ThreadStep(t)
  PROVE  TypeInv'
<1> USE DEF TypeInv, TypeOK, InReadWrite, FDs, Live
<1>1. CASE ThreadInit(t)
  BY <1>1 DEF ThreadInit, WolfSSLCtx_Init
<1>2. CASE ThreadInitFails(t)
  BY <1>2 DEF ThreadInitFails, Exit
<1>3. CASE LoopAgain(t)
  BY <1>3 DEF LoopAgain, SSLConn_FreeSSLConn, EpollAfterClose
<1>4. CASE LoopEnd(t)
  BY <1>4 DEF LoopEnd, CloseListener, EpollAfterClose
<1>5. CASE EpollWait(t)
  <2>1. PICK got \in SUBSET Ready(t) :
          /\ inEvents' = [inEvents EXCEPT ![t] = {fd \in got : HasInput(t, fd)}]
          /\ errEvents' = [errEvents EXCEPT ![t] = {fd \in got : ~HasInput(t, fd)}]
          /\ edge' = edge \ got
          /\ err' = err \ (got \ {t})
    BY <1>5 DEF EpollWait
  <2>2. got \in SUBSET FDs
    BY DEF Ready
  <2>3. QED
    BY <1>5, <2>1, <2>2 DEF EpollWait
<1>6. CASE ListenerErrorEvent(t)
  BY <1>6 DEF ListenerErrorEvent, CloseListener, EpollAfterClose
<1>7. ASSUME NEW c \in Conns, ClientErrorEvent(t, c)
      PROVE  TypeInv'
  BY <1>7 DEF ClientErrorEvent, SSLConn_Close
<1>8. ASSUME NEW c \in Conns, AcceptEvent(t, c)
      PROVE  TypeInv'
  BY <1>8 DEF AcceptEvent, CapacityCheck
<1>9. ASSUME NEW c \in Conns, ReadWriteEvent(t, c)
      PROVE  TypeInv'
  BY <1>9 DEF ReadWriteEvent
<1>10. CASE AcceptAddFails(t)
  BY <1>10 DEF AcceptAddFails, Exit
<1>11. ASSUME NEW gone \in SUBSET backlog[t], AcceptFails(t, gone)
       PROVE  TypeInv'
  BY <1>11 DEF AcceptFails, CapacityCheck
<1>12. CASE CallFails(t)
  BY <1>12 DEF CallFails, SSLConn_Close, Return
<1>13. CASE CallWants(t)
  BY <1>13 DEF CallWants, Return
<1>14. CASE SSL_Accept(t)
  BY <1>14 DEF SSL_Accept, Return
<1>15. CASE ReadLen(t)
  <2>1. CappedLen(BufferLen, totalReadBytes) \in Nat
    BY CappedLenType, ServerAssumption
  <2>2. QED
    BY <1>15, <2>1 DEF ReadLen, Return
<1>16. CASE SSL_Read(t)
  BY <1>16 DEF SSL_Read
<1>17. CASE WriteLen(t)
  <2>1. CappedLen(ReplyLen, totalWriteBytes) \in Nat
    BY CappedLenType, ServerAssumption
  <2>2. QED
    BY <1>17, <2>1 DEF WriteLen, Return
<1>18. CASE SSL_Write(t)
  BY <1>18 DEF SSL_Write, Return
<1>19. CASE EndOfEvents(t)
  <2>1. CASE UNCHANGED <<epoll, accepting>>
    BY <1>19, <2>1 DEF EndOfEvents
  <2>2. CASE /\ epoll' = [epoll EXCEPT ![t] = @ \cup {t}]
             /\ accepting' = [accepting EXCEPT ![t] = TRUE]
    BY <1>19, <2>2 DEF EndOfEvents
  <2>3. QED
    BY <1>19, <2>1, <2>2 DEF EndOfEvents
<1>20. CASE RearmFails(t)
  BY <1>20 DEF RearmFails, Exit
<1>21. QED
  BY <1>1, <1>2, <1>3, <1>4, <1>5, <1>6, <1>7, <1>8, <1>9, <1>10, <1>11, <1>12,
     <1>13, <1>14, <1>15, <1>16, <1>17, <1>18, <1>19, <1>20
  DEF ThreadStep

(* So does every other step. *)
LEMMA OtherStepType ==
  ASSUME TypeInv, SSLConn_Free \/ Environment \/ UNCHANGED vars
  PROVE  TypeInv'
<1> USE DEF TypeInv, TypeOK, InReadWrite, FDs, Live
<1>1. CASE SSLConn_Free
  <2>1. Cardinality(Remaining) \in Nat
    BY ConnsFinite DEF Remaining
  <2>2. \A t \in Threads : Cardinality(sslConn[t]) \in Nat
    BY ConnsFinite
  <2>3. QED
    BY <1>1, <2>1, <2>2 DEF SSLConn_Free
<1>2. ASSUME NEW t \in Threads, NEW c \in Conns, ClientConnect(t, c)
      PROVE  TypeInv'
  BY <1>2 DEF ClientConnect
<1>3. ASSUME NEW c \in Conns, ClientSend(c)
      PROVE  TypeInv'
  <2>1. sends[c] + 1 \in 0..MaxSends
    BY <1>3, ServerAssumption DEF ClientSend
  <2>2. QED
    BY <1>3, <2>1 DEF ClientSend
<1>4. ASSUME NEW fd \in FDs, SocketError(fd)
      PROVE  TypeInv'
  BY <1>4 DEF SocketError
<1>5. CASE UNCHANGED vars
  BY <1>5 DEF vars
<1>6. QED
  BY <1>1, <1>2, <1>3, <1>4, <1>5 DEF Environment

LEMMA TypeInit == Init => TypeInv
BY ServerAssumption DEF Init, TypeInv, TypeOK, InReadWrite, FDs

LEMMA TypeStep == TypeInv /\ [Next]_vars => TypeInv'
BY ThreadStepType, OtherStepType DEF Next, Running, Stopped

(* The variables keep their types, whatever the threads and clients do. *)
THEOREM TypeCorrect == Spec => []TypeOK
<1>1. TypeInv => TypeOK
  BY DEF TypeInv
<1>2. QED
  BY TypeInit, TypeStep, <1>1, PTL DEF Spec

--------------------------------------------------------------------------------
(* The inductive invariant behind the safety properties. *)

CntExact == \A t \in Threads : cnt[t] = Cardinality(sslConn[t])

ListStates ==
  \A t \in Threads :
    /\ \A c \in sslConn[t] : state[c] \in Live
    /\ \A c \in freeSSLConn[t] : state[c] = "CLOSED"
    /\ \A c \in backlog[t] : state[c] = "backlog"

ListsDisjoint ==
  \A t, u \in Threads : t # u =>
    /\ (sslConn[t] \cup freeSSLConn[t]) \cap (sslConn[u] \cup freeSSLConn[u]) = {}
    /\ backlog[t] \cap backlog[u] = {}

ListsComplete ==
  \A c \in Conns : state[c] \in Live \cup {"CLOSED"} =>
    \E t \in Threads : c \in sslConn[t] \cup freeSSLConn[t]

(* No descriptor has two entries in a batch, the one being processed has none *)
(* left, and there is no batch outside the loop over the events.              *)
EventsInv ==
  \A t \in Threads :
    /\ (inEvents[t] \cup errEvents[t]) \ {t} \subseteq sslConn[t]
    /\ inEvents[t] \cap errEvents[t] = {}
    /\ pc[t] \in InReadWrite =>
         cur[t] \in sslConn[t] /\ cur[t] \notin inEvents[t] \cup errEvents[t]
    /\ epoll[t] \ {t} \subseteq sslConn[t] \cup freeSSLConn[t]
    /\ pc[t] = "wait" => epoll[t] \ {t} \subseteq sslConn[t]
    /\ pc[t] \notin InReadWrite \cup {"events"} =>
         inEvents[t] = {} /\ errEvents[t] = {}

ListInv == CntExact /\ ListStates /\ ListsDisjoint /\ ListsComplete /\ EventsInv

(* SSLConn_Close of an active connection keeps the lists right. *)
LEMMA CloseKeepsLists ==
  ASSUME TypeInv, ListInv, NEW t \in Threads, NEW c \in sslConn[t],
         SSLConn_Close(t, c), UNCHANGED backlog
  PROVE  CntExact' /\ ListStates' /\ ListsDisjoint' /\ ListsComplete'
<1> USE DEF TypeInv, TypeOK, ListInv, SSLConn_Close
<1>0. c \in Conns
  OBVIOUS
<1>1. CntExact'
  <2>1. Cardinality(sslConn[t] \ {c}) = Cardinality(sslConn[t]) - 1
    BY CardinalityMoves
  <2>2. QED
    BY <2>1 DEF CntExact
<1>2. ListStates'
  BY <1>0, SMTT(40) DEF ListStates, ListsDisjoint, Live
<1>3. ListsDisjoint'
  BY DEF ListsDisjoint
<1>4. ListsComplete'
  BY <1>0 DEF ListsComplete
<1>5. QED
  BY <1>1, <1>2, <1>3, <1>4

(* A thread step keeps the lists and the batch right. *)
LEMMA ThreadStepLists ==
  ASSUME TypeInv, ListInv, NEW t \in Threads, ThreadStep(t)
  PROVE  ListInv'
<1> USE ServerAssumption DEF TypeInv, TypeOK, FDs, InReadWrite
<1>0. /\ t \notin Conns
      /\ \A u \in Threads : sslConn[u] \subseteq Conns /\ freeSSLConn[u] \subseteq Conns
  OBVIOUS
<1>same. ASSUME UNCHANGED <<state, lists, backlog>>, EventsInv'
         PROVE  ListInv'
  BY <1>same DEF ListInv, CntExact, ListStates, ListsDisjoint, ListsComplete
<1>1. CASE ThreadInit(t)
  BY <1>0, <1>1, <1>same DEF ThreadInit, WolfSSLCtx_Init, ListInv, EventsInv
<1>2. CASE ThreadInitFails(t)
  BY <1>2, <1>same DEF ThreadInitFails, Exit, ListInv, EventsInv
<1>3. CASE LoopAgain(t)
  <2> USE <1>3 DEF LoopAgain, SSLConn_FreeSSLConn, EpollAfterClose, ListInv
  <2>1. CntExact'
    BY DEF CntExact
  <2>2. ListStates'
    BY DEF ListStates, ListsDisjoint, Live
  <2>3. ListsDisjoint'
    BY DEF ListsDisjoint
  <2>4. ListsComplete'
    BY DEF ListsComplete, Live
  <2>5. EventsInv'
    BY <1>0 DEF EventsInv
  <2>6. QED
    BY <2>1, <2>2, <2>3, <2>4, <2>5
<1>listener. ASSUME CloseListener(t), UNCHANGED lists
             PROVE  CntExact' /\ ListStates' /\ ListsDisjoint' /\ ListsComplete'
  <2> USE <1>listener DEF CloseListener, ListInv
  <2>1. CntExact' /\ ListsDisjoint'
    BY DEF CntExact, ListsDisjoint
  <2>2. ListStates'
    BY DEF ListStates, ListsDisjoint, Live
  <2>3. ListsComplete'
    BY DEF ListsComplete, Live
  <2>4. QED
    BY <2>1, <2>2, <2>3
<1>4. CASE LoopEnd(t)
  <2>1. EventsInv'
    BY <1>0, <1>4 DEF LoopEnd, CloseListener, EpollAfterClose, ListInv, EventsInv
  <2>2. QED
    BY <1>4, <1>listener, <2>1 DEF LoopEnd, ListInv
<1>5. CASE EpollWait(t)
  <2>1. PICK got \in SUBSET Ready(t) :
          /\ inEvents' = [inEvents EXCEPT ![t] = {fd \in got : HasInput(t, fd)}]
          /\ errEvents' = [errEvents EXCEPT ![t] = {fd \in got : ~HasInput(t, fd)}]
    BY <1>5 DEF EpollWait
  <2>2. got \subseteq epoll[t]
    BY DEF Ready
  <2>3. EventsInv'
    BY <1>5, <2>1, <2>2 DEF EpollWait, ListInv, EventsInv
  <2>4. QED
    BY <1>5, <1>same, <2>3 DEF EpollWait
<1>6. CASE ListenerErrorEvent(t)
  <2>1. EventsInv'
    BY <1>0, <1>6
    DEF ListenerErrorEvent, CloseListener, EpollAfterClose, ListInv, EventsInv
  <2>2. QED
    BY <1>6, <1>listener, <2>1 DEF ListenerErrorEvent, ListInv
<1>7. ASSUME NEW c \in Conns, ClientErrorEvent(t, c)
      PROVE  ListInv'
  <2>1. c \in sslConn[t]
    BY <1>0, <1>7 DEF ClientErrorEvent, ListInv, EventsInv
  <2>2. EventsInv'
    BY <1>0, <1>7, <2>1
    DEF ClientErrorEvent, SSLConn_Close, ListInv, EventsInv
  <2>3. QED
    BY <1>7, <2>1, <2>2, CloseKeepsLists DEF ClientErrorEvent, ListInv
<1>8. ASSUME NEW c \in Conns, AcceptEvent(t, c)
      PROVE  ListInv'
  <2> USE <1>8 DEF AcceptEvent, ListInv
  <2>1. \A u \in Threads : c \notin sslConn[u] \cup freeSSLConn[u]
    BY DEF ListStates, Live
  <2>2. CntExact'
    <3>1. Cardinality(sslConn[t] \cup {c}) = Cardinality(sslConn[t]) + 1
      BY <2>1, CardinalityMoves
    <3>2. QED
      BY <3>1 DEF CntExact
  <2>3. ListStates'
    BY <2>1 DEF ListStates, ListsDisjoint, Live
  <2>4. ListsDisjoint'
    BY <2>1 DEF ListsDisjoint
  <2>5. ListsComplete'
    BY DEF ListsComplete, Live
  <2>6. EventsInv'
    BY <1>0, <2>1 DEF CapacityCheck, EventsInv
  <2>7. QED
    BY <2>2, <2>3, <2>4, <2>5, <2>6
<1>9. ASSUME NEW c \in Conns, ReadWriteEvent(t, c)
      PROVE  ListInv'
  <2>1. EventsInv'
    BY <1>0, <1>9 DEF ReadWriteEvent, ListInv, EventsInv
  <2>2. QED
    BY <1>9, <1>same, <2>1 DEF ReadWriteEvent
<1>10. CASE AcceptAddFails(t)
  BY <1>10, <1>same DEF AcceptAddFails, Exit, ListInv, EventsInv
<1>11. ASSUME NEW gone \in SUBSET backlog[t], AcceptFails(t, gone)
       PROVE  ListInv'
  <2> USE <1>11 DEF AcceptFails, ListInv
  <2>1. CntExact' /\ ListsDisjoint'
    BY DEF CntExact, ListsDisjoint
  <2>2. ListStates'
    BY DEF ListStates, ListsDisjoint, Live
  <2>3. ListsComplete'
    BY DEF ListsComplete, Live
  <2>4. EventsInv'
    BY <1>0 DEF CapacityCheck, EventsInv
  <2>5. QED
    BY <2>1, <2>2, <2>3, <2>4
<1>12. CASE CallFails(t)
  <2>1. cur[t] \in sslConn[t]
    BY <1>12 DEF CallFails, ListInv, EventsInv
  <2>2. EventsInv'
    BY <1>0, <1>12, <2>1 DEF CallFails, SSLConn_Close, Return, ListInv, EventsInv
  <2>3. QED
    BY <1>12, <2>1, <2>2, CloseKeepsLists DEF CallFails, ListInv
<1>13. CASE CallWants(t)
  BY <1>13, <1>same DEF CallWants, Return, ListInv, EventsInv
<1>call. ASSUME NEW s \in Live, state' = [state EXCEPT ![cur[t]] = s],
                cur[t] \in sslConn[t], UNCHANGED <<lists, backlog>>
         PROVE  CntExact' /\ ListStates' /\ ListsDisjoint' /\ ListsComplete'
  <2> USE <1>call DEF ListInv
  <2>1. CntExact' /\ ListsDisjoint'
    BY DEF CntExact, ListsDisjoint
  <2>2. ListStates'
    BY DEF ListStates, ListsDisjoint, Live
  <2>3. ListsComplete'
    BY DEF ListsComplete
  <2>4. QED
    BY <2>1, <2>2, <2>3
<1>14. CASE SSL_Accept(t)
  <2>1. EventsInv'
    BY <1>14 DEF SSL_Accept, Return, ListInv, EventsInv
  <2>2. cur[t] \in sslConn[t]
    BY <1>14 DEF SSL_Accept, ListInv, EventsInv
  <2>3. QED
    BY <1>14, <1>call, <2>1, <2>2 DEF SSL_Accept, ListInv, Live
<1>15. CASE ReadLen(t)
  <2>1. EventsInv'
    BY <1>15 DEF ReadLen, Return, ListInv, EventsInv
  <2>2. QED
    BY <1>15, <1>same, <2>1 DEF ReadLen
<1>16. CASE SSL_Read(t)
  <2>1. EventsInv'
    BY <1>16 DEF SSL_Read, ListInv, EventsInv
  <2>2. cur[t] \in sslConn[t]
    BY <1>16 DEF SSL_Read, ListInv, EventsInv
  <2>3. QED
    BY <1>16, <1>call, <2>1, <2>2 DEF SSL_Read, ListInv, Live
<1>17. CASE WriteLen(t)
  <2>1. EventsInv'
    BY <1>17 DEF WriteLen, Return, ListInv, EventsInv
  <2>2. QED
    BY <1>17, <1>same, <2>1 DEF WriteLen
<1>18. CASE SSL_Write(t)
  <2>1. EventsInv'
    BY <1>18 DEF SSL_Write, Return, ListInv, EventsInv
  <2>2. cur[t] \in sslConn[t]
    BY <1>18 DEF SSL_Write, ListInv, EventsInv
  <2>3. CASE state' = [state EXCEPT ![cur[t]] = "READ"]
    BY <1>18, <1>call, <2>1, <2>2, <2>3 DEF SSL_Write, ListInv, Live
  <2>4. CASE UNCHANGED state
    BY <1>18, <1>same, <2>1, <2>4 DEF SSL_Write
  <2>5. QED
    BY <1>18, <2>3, <2>4 DEF SSL_Write
<1>19. CASE EndOfEvents(t)
  <2>1. epoll'[t] \subseteq epoll[t] \cup {t} /\ \A u \in Threads \ {t} : epoll'[u] = epoll[u]
    BY <1>19 DEF EndOfEvents
  <2>2. EventsInv'
    BY <1>19, <2>1 DEF EndOfEvents, ListInv, EventsInv
  <2>3. QED
    BY <1>19, <1>same, <2>2 DEF EndOfEvents
<1>20. CASE RearmFails(t)
  BY <1>20, <1>same DEF RearmFails, Exit, ListInv, EventsInv
<1>21. QED
  BY <1>1, <1>2, <1>3, <1>4, <1>5, <1>6, <1>7, <1>8, <1>9, <1>10, <1>11, <1>12,
     <1>13, <1>14, <1>15, <1>16, <1>17, <1>18, <1>19, <1>20
  DEF ThreadStep

(* So does every other step. *)
LEMMA OtherStepLists ==
  ASSUME TypeInv, ListInv, SSLConn_Free \/ Environment \/ UNCHANGED vars
  PROVE  ListInv'
<1> USE ServerAssumption DEF TypeInv, TypeOK, FDs, InReadWrite
<1>same. ASSUME UNCHANGED <<lists, pc, batch, cur, epoll>>
         PROVE  CntExact' /\ EventsInv'
  BY <1>same DEF ListInv, CntExact, EventsInv
<1>1. CASE SSLConn_Free
  <2> USE <1>1 DEF SSLConn_Free, ListInv
  <2>1. CntExact'
    <3>1. \A t \in Threads : Cardinality(sslConn[t]) \in Nat
      BY ConnsFinite
    <3>2. QED
      BY <3>1, FS_EmptySet DEF CntExact
  <2>2. ListStates'
    BY DEF ListStates, Live
  <2>3. ListsDisjoint'
    BY DEF ListsDisjoint
  <2>4. ListsComplete'
    BY DEF ListsComplete, Live
  <2>5. EventsInv'
    BY DEF EventsInv
  <2>6. QED
    BY <2>1, <2>2, <2>3, <2>4, <2>5
<1>2. ASSUME NEW t \in Threads, NEW c \in Conns, ClientConnect(t, c)
      PROVE  ListInv'
  <2> USE <1>2 DEF ClientConnect, ListInv
  <2>1. ListStates'
    BY DEF ListStates, Live
  <2>2. ListsDisjoint'
    BY DEF ListsDisjoint, ListStates
  <2>3. ListsComplete'
    BY DEF ListsComplete, Live
  <2>4. QED
    BY <1>same, <2>1, <2>2, <2>3
<1>3. ASSUME UNCHANGED <<state, lists, pc, batch, cur, epoll, backlog>>
      PROVE  ListInv'
  BY <1>3, <1>same DEF ListInv, ListStates, ListsDisjoint, ListsComplete
<1>4. QED
  BY <1>1, <1>2, <1>3 DEF Environment, ClientSend, SocketError, vars

--------------------------------------------------------------------------------
(* The listening socket: when it is registered, and why it never is at        *)
(* capacity.                                                                  *)
ListenerInv ==
  \A t \in Threads :
    /\ NumConns > 0 => cnt[t] <= NumConns
    /\ NumConns > 0 /\ t \in epoll[t] => cnt[t] < NumConns
    /\ t \in inEvents[t] => t \in epoll[t]
    /\ socketfd[t] /\ accepting[t] => t \in epoll[t]
    /\ pc[t] = "init" => cnt[t] = 0 /\ ~socketfd[t]
    /\ pc[t] \in {"loop", "wait"} => accepting[t] \/ cnt[t] >= NumConns

(* A thread step keeps the registration of the listener right. *)
LEMMA ThreadStepListener ==
  ASSUME TypeInv, ListInv, ListenerInv, NEW t \in Threads, ThreadStep(t)
  PROVE  ListenerInv'
<1> USE ServerAssumption DEF TypeInv, TypeOK, FDs, InReadWrite, ListenerInv
<1>0. /\ t \notin Conns /\ inEvents[t] \cap errEvents[t] = {}
      /\ \A u \in Threads : freeSSLConn[u] \subseteq Conns
  BY DEF ListInv, EventsInv
<1>same. ASSUME UNCHANGED <<cnt, epoll, inEvents, socketfd, accepting>>,
                pc' \in {[pc EXCEPT ![t] = l] : l \in InReadWrite \cup {"events"}}
                          \cup {pc}
         PROVE  ListenerInv'
  BY <1>same
<1>1. CASE ThreadInit(t)
  BY <1>1 DEF ThreadInit, WolfSSLCtx_Init, ListInv, EventsInv
<1>2. CASE ThreadInitFails(t)
  BY <1>2 DEF ThreadInitFails, Exit
<1>3. CASE LoopAgain(t)
  BY <1>0, <1>3 DEF LoopAgain, SSLConn_FreeSSLConn, EpollAfterClose
<1>4. CASE LoopEnd(t)
  BY <1>4, SMTT(40) DEF LoopEnd, CloseListener, EpollAfterClose, ListInv, EventsInv
<1>5. CASE EpollWait(t)
  <2>1. inEvents'[t] \subseteq epoll[t] /\ \A u \in Threads \ {t} : inEvents'[u] = inEvents[u]
    BY <1>5 DEF EpollWait, Ready
  <2>2. QED
    BY <1>5, <2>1 DEF EpollWait
<1>6. CASE ListenerErrorEvent(t)
  BY <1>0, <1>6 DEF ListenerErrorEvent, CloseListener, EpollAfterClose
<1>7. ASSUME NEW c \in Conns, ClientErrorEvent(t, c)
      PROVE  ListenerInv'
  BY <1>0, <1>7 DEF ClientErrorEvent, SSLConn_Close
<1>8. ASSUME NEW c \in Conns, AcceptEvent(t, c)
      PROVE  ListenerInv'
  <2>1. t \in epoll[t] /\ t \notin inEvents'[t] /\ pc' = pc /\ socketfd' = socketfd
    BY <1>8 DEF AcceptEvent
  <2>2. \A u \in Threads \ {t} :
          /\ cnt'[u] = cnt[u] /\ epoll'[u] = epoll[u]
          /\ inEvents'[u] = inEvents[u] /\ accepting'[u] = accepting[u]
    BY <1>8 DEF AcceptEvent, CapacityCheck
  <2>3. cnt'[t] = cnt[t] + 1 /\ (t \in epoll'[t] <=> cnt[t] + 1 # NumConns)
    BY <1>0, <1>8, <2>1 DEF AcceptEvent, CapacityCheck
  <2>4. accepting'[t] => cnt[t] + 1 # NumConns
    BY <1>8, ZenonT(40) DEF AcceptEvent, CapacityCheck
  <2>5. pc[t] = "events"
    BY <1>8 DEF AcceptEvent
  <2>6. QED
    BY <2>1, <2>2, <2>3, <2>4, <2>5, SMTT(40)
<1>9. ASSUME NEW c \in Conns, ReadWriteEvent(t, c)
      PROVE  ListenerInv'
  BY <1>9 DEF ReadWriteEvent
<1>10. CASE AcceptAddFails(t)
  BY <1>10 DEF AcceptAddFails, Exit
<1>11. ASSUME NEW gone \in SUBSET backlog[t], AcceptFails(t, gone)
       PROVE  ListenerInv'
  <2>1. t \in epoll[t] /\ t \notin inEvents'[t] /\ pc' = pc /\ socketfd' = socketfd
    BY <1>11 DEF AcceptFails
  <2>2. \A u \in Threads \ {t} :
          /\ cnt'[u] = cnt[u] /\ epoll'[u] = epoll[u]
          /\ inEvents'[u] = inEvents[u] /\ accepting'[u] = accepting[u]
    BY <1>11 DEF AcceptFails, CapacityCheck
  <2>3. cnt'[t] = cnt[t] /\ (t \in epoll'[t] <=> cnt[t] # NumConns)
    BY <1>0, <1>11, <2>1 DEF AcceptFails, CapacityCheck
  <2>4. accepting'[t] => cnt[t] # NumConns
    BY <1>11 DEF AcceptFails, CapacityCheck
  <2>5. pc[t] = "events"
    BY <1>11 DEF AcceptFails
  <2>6. QED
    BY <2>1, <2>2, <2>3, <2>4, <2>5
<1>12. CASE CallFails(t)
  BY <1>12 DEF CallFails, SSLConn_Close, Return
<1>13. CASE CallWants(t)
  BY <1>13, <1>same DEF CallWants, Return
<1>14. CASE SSL_Accept(t)
  BY <1>14, <1>same DEF SSL_Accept, Return
<1>15. CASE ReadLen(t)
  BY <1>15, <1>same DEF ReadLen, Return
<1>16. CASE SSL_Read(t)
  BY <1>16, <1>same DEF SSL_Read
<1>17. CASE WriteLen(t)
  BY <1>17, <1>same DEF WriteLen, Return
<1>18. CASE SSL_Write(t)
  BY <1>18, <1>same DEF SSL_Write, Return
<1>19. CASE EndOfEvents(t)
  <2>1. CASE ~WantsRearm(t) /\ UNCHANGED <<epoll, accepting>>
    BY <1>19, <2>1 DEF EndOfEvents, WantsRearm
  <2>2. CASE /\ WantsRearm(t)
             /\ epoll' = [epoll EXCEPT ![t] = @ \cup {t}]
             /\ accepting' = [accepting EXCEPT ![t] = TRUE]
    BY <1>19, <2>2 DEF EndOfEvents, WantsRearm
  <2>3. QED
    BY <1>19, <2>1, <2>2 DEF EndOfEvents
<1>20. CASE RearmFails(t)
  BY <1>20 DEF RearmFails, Exit
<1>21. QED
  BY <1>1, <1>2, <1>3, <1>4, <1>5, <1>6, <1>7, <1>8, <1>9, <1>10, <1>11, <1>12,
     <1>13, <1>14, <1>15, <1>16, <1>17, <1>18, <1>19, <1>20
  DEF ThreadStep

(* So does every other step. *)
LEMMA OtherStepListener ==
  ASSUME TypeInv, ListInv, ListenerInv, SSLConn_Free \/ Environment \/ UNCHANGED vars
  PROVE  ListenerInv'
<1> USE ServerAssumption DEF TypeInv, TypeOK, FDs, ListenerInv
<1>1. CASE SSLConn_Free
  <2>1. \A t \in Threads : sslConn[t] \subseteq Conns /\ freeSSLConn[t] \subseteq Conns
    OBVIOUS
  <2>2. \A t \in Threads : cnt'[t] = 0
    <3>1. \A t \in Threads : Cardinality(sslConn[t]) \in Nat
      BY ConnsFinite
    <3>2. QED
      BY <1>1, <3>1 DEF SSLConn_Free, ListInv, CntExact
  <2>3. \A t \in Threads : inEvents[t] = {} /\ (t \in epoll'[t] <=> t \in epoll[t])
    BY <1>1, <2>1 DEF SSLConn_Free, ListInv, EventsInv, InReadWrite
  <2>4. QED
    BY <1>1, <2>2, <2>3 DEF SSLConn_Free
<1>2. ASSUME UNCHANGED <<cnt, epoll, inEvents, socketfd, accepting, pc>>
      PROVE  ListenerInv'
  BY <1>2
<1>3. QED
  BY <1>1, <1>2 DEF Environment, ClientConnect, ClientSend, SocketError, vars

--------------------------------------------------------------------------------
(* The inductive invariant. *)
IInv == TypeInv /\ ListInv /\ ListenerInv

LEMMA IInvInit == Init => IInv
<1> SUFFICES ASSUME Init PROVE IInv
  OBVIOUS
<1>1. TypeInv
  BY TypeInit
<1>2. ListInv
  BY FS_EmptySet
  DEF Init, ListInv, CntExact, ListStates, ListsDisjoint, ListsComplete, EventsInv,
      InReadWrite, Live
<1>3. ListenerInv
  BY ServerAssumption DEF Init, ListenerInv
<1>4. QED
  BY <1>1, <1>2, <1>3 DEF IInv

LEMMA IInvStep == IInv /\ [Next]_vars => IInv'
<1> SUFFICES ASSUME IInv, [Next]_vars PROVE IInv'
  OBVIOUS
<1>1. CASE \E t \in Threads : ThreadStep(t)
  BY <1>1, ThreadStepType, ThreadStepLists, ThreadStepListener DEF IInv
<1>2. CASE SSLConn_Free \/ Environment \/ UNCHANGED vars
  BY <1>2, OtherStepType, OtherStepLists, OtherStepListener DEF IInv
<1>3. QED
  BY <1>1, <1>2 DEF Next, Running, Stopped

(* The invariant holds throughout a run of the server. *)
THEOREM Invariance == Spec => []IInv
BY IInvInit, IInvStep, PTL DEF Spec

(* The lists of SSLConn objects and cnt always agree with one another and with *)
(* the states of the connections.                                             *)
THEOREM ListsAreExact == Spec => []ConnListsExact
<1>1. IInv => ConnListsExact
  BY DEF IInv, ListInv, CntExact, ListStates, ListsDisjoint, ListsComplete,
         ConnListsExact
<1>2. QED
  BY Invariance, <1>1, PTL

(* An event never refers to a freed or a closed connection. *)
THEOREM NoDanglingEvents == Spec => []EventsAreActive
<1>1. IInv => EventsAreActive
  BY DEF IInv, ListInv, EventsInv, EventsAreActive, InReadWrite
<1>2. QED
  BY Invariance, <1>1, PTL

(* No thread holds more than numConns connections. *)
THEOREM CapacityRespected == Spec => []WithinCapacity
<1>1. IInv => WithinCapacity
  BY DEF IInv, ListenerInv, WithinCapacity
<1>2. QED
  BY Invariance, <1>1, PTL

(* A thread with room and an open listening socket waits with the socket in   *)
(* its epoll instance.                                                        *)
THEOREM RoomAlwaysOffered == Spec => []RoomIsOffered
<1>1. IInv => RoomIsOffered
  BY ServerAssumption DEF IInv, TypeInv, TypeOK, ListenerInv, RoomIsOffered
<1>2. QED
  BY Invariance, <1>1, PTL

--------------------------------------------------------------------------------
(* Counting the connections. *)
ClosedConns == {c \in Conns : state[c] \in {"CLOSED", "freed"}}

CountInv ==
  /\ numConnections = Cardinality(ClosedConns)
  /\ process = "exited" => \A c \in Conns : state[c] \notin Live \cup {"CLOSED"}

(* SSLConn_Close of an active connection counts it. *)
LEMMA CloseCounts ==
  ASSUME IInv, CountInv, NEW t \in Threads, NEW c \in sslConn[t], SSLConn_Close(t, c)
  PROVE  numConnections' = Cardinality(ClosedConns')
<1>1. c \in Conns /\ c \notin ClosedConns
  BY DEF IInv, TypeInv, TypeOK, ListInv, ListStates, ClosedConns, Live
<1>2. ClosedConns' = ClosedConns \cup {c}
  BY <1>1 DEF SSLConn_Close, ClosedConns, IInv, TypeInv, TypeOK
<1>3. ClosedConns \in SUBSET Conns
  BY DEF ClosedConns
<1>4. QED
  BY <1>1, <1>2, <1>3, CardinalityMoves DEF SSLConn_Close, CountInv

(* A thread step keeps the count right. *)
LEMMA ThreadStepCount ==
  ASSUME IInv, CountInv, process = "running", NEW t \in Threads, ThreadStep(t)
  PROVE  CountInv'
<1> USE DEF IInv, TypeInv, TypeOK, FDs, Live
<1>same. ASSUME process' # "exited", ClosedConns' = ClosedConns, UNCHANGED numConnections
         PROVE  CountInv'
  BY <1>same DEF CountInv
<1>state. ASSUME process' # "exited", UNCHANGED <<state, numConnections>>
          PROVE  CountInv'
  BY <1>state, <1>same DEF ClosedConns
<1>1. CASE ThreadInit(t)
  BY <1>1, <1>state DEF ThreadInit, WolfSSLCtx_Init
<1>2. CASE ThreadInitFails(t)
  BY <1>2, <1>state DEF ThreadInitFails, Exit
<1>3. CASE LoopAgain(t)
  <2>1. ClosedConns' = ClosedConns
    BY <1>3 DEF LoopAgain, SSLConn_FreeSSLConn, ClosedConns, ListInv, ListStates
  <2>2. QED
    BY <1>3, <1>same, <2>1 DEF LoopAgain
<1>listener. ASSUME CloseListener(t)
             PROVE  ClosedConns' = ClosedConns
  BY <1>listener DEF CloseListener, ClosedConns, ListInv, ListStates
<1>4. CASE LoopEnd(t)
  BY <1>4, <1>listener, <1>same DEF LoopEnd
<1>5. CASE EpollWait(t)
  BY <1>5, <1>state DEF EpollWait
<1>6. CASE ListenerErrorEvent(t)
  BY <1>6, <1>listener, <1>same DEF ListenerErrorEvent
<1>7. ASSUME NEW c \in Conns, ClientErrorEvent(t, c)
      PROVE  CountInv'
  <2>1. c \in sslConn[t]
    BY <1>7, ServerAssumption DEF ClientErrorEvent, ListInv, EventsInv
  <2>2. QED
    BY <1>7, <2>1, CloseCounts DEF ClientErrorEvent, CountInv
<1>8. ASSUME NEW c \in Conns, AcceptEvent(t, c)
      PROVE  CountInv'
  <2>1. ClosedConns' = ClosedConns
    BY <1>8 DEF AcceptEvent, ClosedConns, ListInv, ListStates
  <2>2. QED
    BY <1>8, <1>same, <2>1 DEF AcceptEvent, CapacityCheck
<1>9. ASSUME NEW c \in Conns, ReadWriteEvent(t, c)
      PROVE  CountInv'
  BY <1>9, <1>state DEF ReadWriteEvent
<1>10. CASE AcceptAddFails(t)
  BY <1>10, <1>state DEF AcceptAddFails, Exit
<1>11. ASSUME NEW gone \in SUBSET backlog[t], AcceptFails(t, gone)
       PROVE  CountInv'
  <2>1. ClosedConns' = ClosedConns
    BY <1>11 DEF AcceptFails, ClosedConns, ListInv, ListStates
  <2>2. QED
    BY <1>11, <1>same, <2>1 DEF AcceptFails, CapacityCheck
<1>12. CASE CallFails(t)
  <2>1. cur[t] \in sslConn[t]
    BY <1>12 DEF CallFails, ListInv, EventsInv, InReadWrite
  <2>2. QED
    BY <1>12, <2>1, CloseCounts DEF CallFails, CountInv
<1>13. CASE CallWants(t)
  BY <1>13, <1>state DEF CallWants
<1>call. ASSUME pc[t] \in InReadWrite, NEW s \in Live, state' = [state EXCEPT ![cur[t]] = s]
         PROVE  ClosedConns' = ClosedConns
  BY <1>call DEF ClosedConns, ListInv, ListStates, EventsInv
<1>14. CASE SSL_Accept(t)
  BY <1>14, <1>call, <1>same DEF SSL_Accept, InReadWrite
<1>15. CASE ReadLen(t)
  BY <1>15, <1>state DEF ReadLen
<1>16. CASE SSL_Read(t)
  BY <1>16, <1>call, <1>same DEF SSL_Read, InReadWrite
<1>17. CASE WriteLen(t)
  BY <1>17, <1>state DEF WriteLen
<1>18. CASE SSL_Write(t)
  <2>1. CASE state' = [state EXCEPT ![cur[t]] = "READ"]
    BY <1>18, <1>call, <1>same, <2>1 DEF SSL_Write, InReadWrite
  <2>2. CASE UNCHANGED state
    BY <1>18, <1>state, <2>2 DEF SSL_Write
  <2>3. QED
    BY <1>18, <2>1, <2>2 DEF SSL_Write
<1>19. CASE EndOfEvents(t)
  BY <1>19, <1>state DEF EndOfEvents
<1>20. CASE RearmFails(t)
  BY <1>20, <1>state DEF RearmFails, Exit
<1>21. QED
  BY <1>1, <1>2, <1>3, <1>4, <1>5, <1>6, <1>7, <1>8, <1>9, <1>10, <1>11, <1>12,
     <1>13, <1>14, <1>15, <1>16, <1>17, <1>18, <1>19, <1>20
  DEF ThreadStep

(* SSLConn_Free counts the connections that were still active. *)
LEMMA FreeCounts ==
  ASSUME IInv, CountInv, SSLConn_Free
  PROVE  CountInv'
<1> USE DEF IInv, TypeInv, TypeOK
<1>1. Remaining \in SUBSET Conns /\ ClosedConns \in SUBSET Conns
  BY DEF Remaining, ClosedConns
<1>2. Remaining \cap ClosedConns = {}
  BY DEF Remaining, ClosedConns, ListInv, ListStates, Live
<1>3. Remaining = {c \in Conns : state[c] \in Live}
  BY DEF Remaining, ListInv, ListStates, ListsComplete, Live
<1>4. ClosedConns' = Remaining \cup ClosedConns
  BY <1>3 DEF SSLConn_Free, ClosedConns, Live
<1>5. Cardinality(Remaining \cup ClosedConns)
        = Cardinality(Remaining) + Cardinality(ClosedConns)
  <2>1. /\ IsFiniteSet(Remaining) /\ Cardinality(Remaining) \in Nat
        /\ IsFiniteSet(ClosedConns) /\ Cardinality(ClosedConns) \in Nat
    BY <1>1, ConnsFinite
  <2>2. Cardinality(Remaining \cup ClosedConns)
          = Cardinality(Remaining) + Cardinality(ClosedConns) - Cardinality({})
    BY <1>2, <2>1, FS_Union
  <2>3. QED
    BY <2>1, <2>2, FS_EmptySet
<1>6. \A c \in Conns : state'[c] \notin Live \cup {"CLOSED"}
  BY DEF SSLConn_Free, Live
<1>7. QED
  BY <1>1, <1>4, <1>5, <1>6, ConnsFinite DEF SSLConn_Free, CountInv

(* Each accepted connection is counted once, and main leaves none behind. *)
THEOREM EveryConnCountedOnce == Spec => []CountedOnce
<1>1. Init => CountInv
  BY FS_EmptySet DEF Init, CountInv, ClosedConns, Live
<1>2. IInv /\ CountInv /\ [Next]_vars => CountInv'
  <2> SUFFICES ASSUME IInv, CountInv, [Next]_vars PROVE CountInv'
    OBVIOUS
  <2>1. CASE process = "running" /\ \E t \in Threads : ThreadStep(t)
    BY <2>1, ThreadStepCount
  <2>2. CASE SSLConn_Free
    BY <2>2, FreeCounts
  <2>3. CASE process = "running" /\ Environment
    <3>1. ClosedConns' = ClosedConns /\ UNCHANGED <<process, numConnections>>
      BY <2>3 DEF Environment, ClientConnect, ClientSend, SocketError, ClosedConns,
                  IInv, TypeInv, TypeOK
    <3>2. QED
      BY <2>3, <3>1 DEF CountInv
  <2>4. CASE UNCHANGED vars
    BY <2>4 DEF vars, CountInv, ClosedConns
  <2>5. QED
    BY <2>1, <2>2, <2>3, <2>4 DEF Next, Running, Stopped
<1>3. CountInv => CountedOnce
  BY DEF CountInv, CountedOnce, ClosedConns
<1>4. QED
  BY Invariance, <1>1, <1>2, <1>3, PTL DEF Spec

--------------------------------------------------------------------------------
(* The byte limit, with one thread: between the unlocked read of a total and  *)
(* the call that uses the length, nobody else moves the total.                *)
ByteInv ==
  MaxBytes > 0 =>
    /\ totalReadBytes <= MaxBytes /\ totalWriteBytes <= MaxBytes
    /\ \A t \in Threads :
         /\ pc[t] = "read" => totalReadBytes + len[t] <= MaxBytes
         /\ pc[t] = "write" => totalWriteBytes + len[t] <= MaxBytes

(* A step of the only thread keeps the totals under the limit. *)
LEMMA ThreadStepBytes ==
  ASSUME NEW t, Threads = {t}, TypeInv, ByteInv, ThreadStep(t)
  PROVE  ByteInv'
<1> USE ServerAssumption DEF TypeInv, TypeOK, ByteInv
<1>1. CASE pc[t] = "readLen"
  <2>1. ReadLen(t)
    BY <1>1 DEF ThreadStep, ThreadInit, ThreadInitFails, LoopAgain, LoopEnd, EpollWait,
                ListenerErrorEvent, ClientErrorEvent, AcceptEvent, ReadWriteEvent,
                AcceptAddFails, AcceptFails, CallFails, CallWants, SSL_Accept, SSL_Read,
                WriteLen, SSL_Write, EndOfEvents, RearmFails
  <2>2. QED
    BY <1>1, <2>1 DEF ReadLen, Return, CappedLen
<1>2. CASE pc[t] = "read"
  <2>1. SSL_Read(t) \/ CallFails(t) \/ CallWants(t)
    BY <1>2 DEF ThreadStep, ThreadInit, ThreadInitFails, LoopAgain, LoopEnd, EpollWait,
                ListenerErrorEvent, ClientErrorEvent, AcceptEvent, ReadWriteEvent,
                AcceptAddFails, AcceptFails, SSL_Accept, ReadLen,
                WriteLen, SSL_Write, EndOfEvents, RearmFails
  <2>2. QED
    BY <1>2, <2>1 DEF SSL_Read, CallFails, CallWants, SSLConn_Close, Return
<1>3. CASE pc[t] = "writeLen"
  <2>1. WriteLen(t)
    BY <1>3 DEF ThreadStep, ThreadInit, ThreadInitFails, LoopAgain, LoopEnd, EpollWait,
                ListenerErrorEvent, ClientErrorEvent, AcceptEvent, ReadWriteEvent,
                AcceptAddFails, AcceptFails, CallFails, CallWants, SSL_Accept, ReadLen,
                SSL_Read, SSL_Write, EndOfEvents, RearmFails
  <2>2. QED
    BY <1>3, <2>1 DEF WriteLen, Return, CappedLen
<1>4. CASE pc[t] = "write"
  <2>1. SSL_Write(t) \/ CallFails(t) \/ CallWants(t)
    BY <1>4 DEF ThreadStep, ThreadInit, ThreadInitFails, LoopAgain, LoopEnd, EpollWait,
                ListenerErrorEvent, ClientErrorEvent, AcceptEvent, ReadWriteEvent,
                AcceptAddFails, AcceptFails, SSL_Accept, ReadLen, SSL_Read,
                WriteLen, EndOfEvents, RearmFails
  <2>2. QED
    BY <1>4, <2>1 DEF SSL_Write, CallFails, CallWants, SSLConn_Close, Return
<1>5. CASE pc[t] \notin {"readLen", "read", "writeLen", "write"}
  <2>1. ASSUME CallFails(t)
        PROVE  pc'[t] \notin {"read", "write"} /\ UNCHANGED <<totalReadBytes, totalWriteBytes>>
    BY <1>5, <2>1, SMT DEF CallFails, Return
  <2>2. ASSUME ~CallFails(t)
        PROVE  pc'[t] \notin {"read", "write"} /\ UNCHANGED <<totalReadBytes, totalWriteBytes>>
    BY <1>5, <2>2, ZenonT(40)
      DEF ThreadStep, ThreadInit, ThreadInitFails, LoopAgain, LoopEnd, EpollWait,
          ListenerErrorEvent, ClientErrorEvent, AcceptEvent, ReadWriteEvent,
          AcceptAddFails, AcceptFails, CallWants, SSL_Accept, ReadLen,
          SSL_Read, WriteLen, SSL_Write, EndOfEvents, RearmFails, Return, Exit
  <2>3. QED
    BY <2>1, <2>2
<1>6. QED
  BY <1>1, <1>2, <1>3, <1>4, <1>5

(* A server with one thread reads and writes at most maxBytes bytes. *)
THEOREM OneThreadByteBudget ==
  ASSUME NEW t, Threads = {t}
  PROVE  Spec => []ByteBudget
<1>1. Init => ByteInv
  BY ServerAssumption DEF Init, ByteInv
<1>2. IInv /\ ByteInv /\ [Next]_vars => ByteInv'
  <2> SUFFICES ASSUME IInv, ByteInv, [Next]_vars PROVE ByteInv'
    OBVIOUS
  <2>1. CASE \E u \in Threads : ThreadStep(u)
    <3>1. ThreadStep(t)
      BY <2>1
    <3>2. QED
      BY <3>1, ThreadStepBytes DEF IInv
  <2>2. CASE SSLConn_Free \/ Environment \/ UNCHANGED vars
    BY <2>2 DEF SSLConn_Free, Environment, ClientConnect, ClientSend, SocketError, vars,
                ByteInv
  <2>3. QED
    BY <2>1, <2>2 DEF Next, Running, Stopped
<1>3. ByteInv => ByteBudget
  BY DEF ByteInv, ByteBudget
<1>4. QED
  BY Invariance, <1>1, <1>2, <1>3, PTL DEF Spec

================================================================================
