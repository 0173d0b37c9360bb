--------------------------- MODULE PollServerProofs ----------------------------
(******************************************************************************)
(* Proofs about PollServer, for any number of clients and slots and any       *)
(* options main accepts.                                                      *)
(******************************************************************************)
EXTENDS PollServer, FiniteSetTheorems, TLAPS

(* What the shorthands for tuples of variables stand for, and the part of     *)
(* PollAssumption that is about the options.                                  *)
USE DEF lists, setup, slots, ParsedOptions

(* Every set of clients is finite. *)
LEMMA ConnsFinite ==
  ASSUME NEW S \in SUBSET Conns
  PROVE  IsFiniteSet(S) /\ Cardinality(S) \in Nat
BY FS_Subset, FS_CardinalityType, PollAssumption

(* What the cardinality of such a set does when a client joins or leaves it. *)
LEMMA CardinalityMoves ==
  ASSUME NEW S \in SUBSET Conns, NEW c
  PROVE  /\ c \in S => Cardinality(S \ {c}) = Cardinality(S) - 1
         /\ c \notin S => Cardinality(S \cup {c}) = Cardinality(S) + 1
BY ConnsFinite, FS_AddElement, FS_RemoveElement

(* The constants that stand for descriptors and slots are apart. *)
LEMMA Constants ==
  /\ LISTENER_EVENT_SLOT_ID \in Slots
  /\ LISTENER_EVENT_SLOT_ID \notin ClientSlots
  /\ Slots = ClientSlots \cup {LISTENER_EVENT_SLOT_ID}
  /\ \A i \in ClientSlots : i < LISTENER_EVENT_SLOT_ID
  /\ DISABLED_EVENT_SLOT_FD \notin ClientFds
  /\ ListenFd \notin ClientFds /\ ListenFd # DISABLED_EVENT_SLOT_FD
  /\ ClientFds \subseteq Int /\ Slots \subseteq Int
BY PollAssumption DEF LISTENER_EVENT_SLOT_ID, Slots, ClientSlots, ClientFds, ListenFd,
   DISABLED_EVENT_SLOT_FD

--------------------------------------------------------------------------------
(* Types. *)

(* The handling of a slot respects the types. *)
LEMMA HandleSlotType ==
  ASSUME TypeOK, NEW i \in Slots, HandleSlot(i)
  PROVE  TypeOK'
<1> USE Constants DEF TypeOK, Live, Handled, DISABLED_EVENT_SLOT_FD
<1>1. CASE ListenerErrorEvent(i)
  BY <1>1 DEF ListenerErrorEvent
<1>2. CASE ClientErrorEvent(i)
  BY <1>2 DEF ClientErrorEvent
<1>3. ASSUME NEW c \in Conns, NEW n \in ClientFds, NEW slot \in ClientSlots,
             AcceptEvent(i, c, n, slot)
      PROVE  TypeOK'
  BY <1>3 DEF AcceptEvent, CapacityCheck
<1>4. CASE AcceptListFull(i)
  BY <1>4 DEF AcceptListFull
<1>5. ASSUME NEW gone \in SUBSET Conns, AcceptFails(i, gone)
      PROVE  TypeOK'
  BY <1>5 DEF AcceptFails, CapacityCheck
<1>6. CASE ReadWriteEvent(i)
  BY <1>6 DEF ReadWriteEvent, AfterCall
<1>7. CASE ReadWriteFails(i)
  BY <1>7 DEF ReadWriteFails, SSLConn_Close
<1>8. QED
  BY <1>1, <1>2, <1>3, <1>4, <1>5, <1>6, <1>7 DEF HandleSlot

LEMMA TypeInit == Init => TypeOK
BY Constants, PollAssumption DEF Init, TypeOK, DISABLED_EVENT_SLOT_FD

(* So does every step. *)
LEMMA TypeStep == TypeOK /\ [Next]_vars => TypeOK'
<1> SUFFICES ASSUME TypeOK, [Next]_vars
             PROVE  TypeOK'
  OBVIOUS
<1> USE Constants DEF TypeOK, Live
<1>1. CASE Poll
  BY <1>1 DEF Poll
<1>2. ASSUME NEW i \in Slots, HandleSlot(i)
      PROVE  TypeOK'
  BY <1>2, HandleSlotType
<1>3. CASE EndOfSlots
  <2>1. /\ events' \in [Slots -> ClientFds \cup {ListenFd, -1}]
        /\ accepting' \in BOOLEAN
    BY <1>3 DEF EndOfSlots, Rearm
  <2>2. QED
    BY <1>3, <2>1 DEF EndOfSlots, SSLConn_FreeSSLConn
<1>4. CASE Finish
  <2>1. Cardinality(sslConn) \in Nat
    BY ConnsFinite
  <2>2. state' \in [Conns -> Live \cup {"new", "backlog", "refused", "CLOSED", "freed"}]
    BY <1>4 DEF Finish, SSLConn_Free
  <2>3. QED
    BY <1>4, <2>1, <2>2 DEF Finish, SSLConn_Free
<1>5. ASSUME NEW c \in Conns, ClientConnect(c)
      PROVE  TypeOK'
  BY <1>5 DEF ClientConnect
<1>6. CASE UNCHANGED vars
  BY <1>6 DEF vars
<1>7. QED
  BY <1>1, <1>2, <1>3, <1>4, <1>5, <1>6 DEF Next, Running, Server, Stopped

(* The variables keep their types, whatever the clients do. *)
THEOREM TypeCorrect == Spec => []TypeOK
BY TypeInit, TypeStep, PTL DEF Spec

--------------------------------------------------------------------------------
(* The inductive invariant behind the safety properties. *)

(* An open connection has a descriptor of its own. *)
FdsOpen == \A c \in Open : sockfd[c] \in ClientFds

(* Between the loops there is nothing to free and no event to handle. *)
PollClean ==
  pc = "poll" => freeSSLConn = {} /\ \A i \in Slots : revents[i] = "none"

(* A slot with a connection, and no two with the same. *)
SlotConn(i) ==
  /\ events[i] \in ClientFds \cup {DISABLED_EVENT_SLOT_FD}
  /\ events[i] = DISABLED_EVENT_SLOT_FD <=> eventsData[i] = NULL
  /\ eventsData[i] # NULL => state[eventsData[i]] \in Live \cup {"CLOSED", "freed"}
  /\ \A c \in Open : events[i] = sockfd[c] => eventsData[i] = c

SlotsApart ==
  \A i, j \in ClientSlots : eventsData[i] = eventsData[j] /\ eventsData[i] # NULL => i = j

(* An event is for a slot with a connection, input for an active one, and a   *)
(* slot whose descriptor is not open has an error event until it is handled:  *)
(* this is what keeps accept from reusing the number of a slot in use.        *)
SlotEvent(i) ==
  /\ revents[i] # "none" => eventsData[i] # NULL
  /\ revents[i] = "in" => eventsData[i] \in sslConn
  /\ pc = "slots" /\ eventsData[i] # NULL /\ revents[i] # "error"
       => \E c \in Open : sockfd[c] = events[i]

ListenerSlot ==
  /\ eventsData[LISTENER_EVENT_SLOT_ID] = NULL
  /\ events[LISTENER_EVENT_SLOT_ID] \in {socketfd, DISABLED_EVENT_SLOT_FD}

SlotInv ==
  process # "exited" =>
    /\ ListenerSlot
    /\ SlotsApart
    /\ \A i \in ClientSlots : SlotConn(i) /\ SlotEvent(i)

ListInv == ConnListsExact /\ FdsOpen /\ PollClean

(* main ends between the loops. *)
EndsAtPoll == process = "exited" => pc = "poll"

PollInv == ListInv /\ SlotInv /\ EndsAtPoll

(* The lists and the descriptors stay right when a slot is handled. *)
LEMMA HandleSlotLists ==
  ASSUME TypeOK, ListInv, NEW i \in Slots, HandleSlot(i)
  PROVE  ListInv'
<1> USE Constants DEF TypeOK, ListInv, ConnListsExact, FdsOpen, PollClean, Live, Open
<1>0. HandleSlot(i) => pc' = "slots"
  BY DEF HandleSlot, AtSlot, ListenerErrorEvent, ClientErrorEvent, AcceptEvent,
         AcceptListFull, AcceptFails, ReadWriteEvent, ReadWriteFails
<1>1. CASE ListenerErrorEvent(i)
  BY <1>0, <1>1 DEF ListenerErrorEvent, Backlog
<1>2. CASE ClientErrorEvent(i)
  BY <1>0, <1>2 DEF ClientErrorEvent
<1>3. ASSUME NEW c \in Conns, NEW n \in ClientFds, NEW slot \in ClientSlots,
             AcceptEvent(i, c, n, slot)
      PROVE  ListInv'
  <2> USE <1>3 DEF AcceptEvent
  <2>1. c \notin Open /\ state[c] = "backlog"
    BY DEF Backlog
  <2>2. Cardinality(sslConn \cup {c}) = Cardinality(sslConn) + 1
    BY <2>1, CardinalityMoves
  <2>3. (cnt = Cardinality(sslConn) /\ cnt <= numConns)'
    BY <2>2, PollAssumption
  <2>4. /\ \A d \in Conns : d \in sslConn' <=> state'[d] \in Live
        /\ \A d \in Conns : d \in freeSSLConn' <=> state'[d] = "CLOSED"
    BY <2>1
  <2>5. \A d \in Open : sockfd[d] # n
    BY DEF IsLowestFree
  <2>6. Open' = Open \cup {c} /\ sockfd'[c] = n /\ \A d \in Open : sockfd'[d] = sockfd[d]
    BY <2>1
  <2>7. FdsOpen' /\ \A d, e \in Open' : sockfd'[d] = sockfd'[e] => d = e
    <3> HIDE DEF Open
    <3> QED  BY <2>5, <2>6
  <2>8. QED
    BY <1>0, <2>3, <2>4, <2>7
<1>4. CASE AcceptListFull(i)
  BY <1>0, <1>4 DEF AcceptListFull
<1>5. ASSUME NEW gone \in SUBSET Conns, AcceptFails(i, gone)
      PROVE  ListInv'
  BY <1>0, <1>5 DEF AcceptFails, Backlog
<1>6. CASE ReadWriteEvent(i)
  <2>1. PICK s \in {"ACCEPT", "READ", "WRITE"} :
          /\ state' = [state EXCEPT ![eventsData[i]] = s]
          /\ eventsData[i] \in sslConn
    BY <1>6 DEF ReadWriteEvent, AfterCall
  <2>2. QED
    BY <1>0, <1>6, <2>1 DEF ReadWriteEvent
<1>7. CASE ReadWriteFails(i)
  <2> DEFINE c == eventsData[i]
  <2> USE <1>7 DEF ReadWriteFails, SSLConn_Close
  <2>1. c \in Conns /\ c \in sslConn
    OBVIOUS
  <2>2. Cardinality(sslConn \ {c}) = Cardinality(sslConn) - 1
    BY <2>1, CardinalityMoves
  <2>3. (cnt = Cardinality(sslConn) /\ cnt <= numConns)'
    BY <2>2, PollAssumption
  <2>4. Open' = Open
    BY <2>1
  <2>5. QED
    BY <1>0, <2>1, <2>3, <2>4
<1>8. QED
  BY <1>1, <1>2, <1>3, <1>4, <1>5, <1>6, <1>7 DEF HandleSlot

(* And in every other step. *)
LEMMA ListStep ==
  ASSUME TypeOK, ListInv, [Next]_vars
  PROVE  ListInv'
<1> USE Constants DEF TypeOK, ListInv, ConnListsExact, FdsOpen, PollClean, Live, Open
<1>1. CASE Poll
  BY <1>1 DEF Poll
<1>2. ASSUME NEW i \in Slots, HandleSlot(i)
      PROVE  ListInv'
  BY <1>2, HandleSlotLists
<1>3. CASE EndOfSlots
  BY <1>3 DEF EndOfSlots, SSLConn_FreeSSLConn
<1>4. CASE Finish
  <2>1. cnt' = 0 /\ sslConn' = {} /\ freeSSLConn' = {} /\ Cardinality(sslConn') = 0
    BY <1>4, FS_EmptySet, ConnsFinite DEF Finish, SSLConn_Free
  <2>2. \A c \in Conns : state'[c] \notin Live \cup {"CLOSED"}
    BY <1>4 DEF Finish, SSLConn_Free, Backlog
  <2>3. numConns' \in Nat /\ pc' = "poll" /\ revents' = revents
    BY <1>4, PollAssumption DEF Finish
  <2>4. QED
    BY <1>4, <2>1, <2>2, <2>3 DEF Finish
<1>5. ASSUME NEW c \in Conns, ClientConnect(c)
      PROVE  ListInv'
  BY <1>5 DEF ClientConnect
<1>6. CASE UNCHANGED vars
  BY <1>6 DEF vars
<1>7. QED
  BY <1>1, <1>2, <1>3, <1>4, <1>5, <1>6 DEF Next, Running, Server, Stopped

LEMMA ListInit == Init => ListInv
<1> SUFFICES ASSUME Init
             PROVE  ListInv
  OBVIOUS
<1>1. cnt = Cardinality(sslConn) /\ cnt <= numConns
  BY FS_EmptySet, PollAssumption DEF Init
<1>2. QED
  BY <1>1 DEF Init, ListInv, ConnListsExact, FdsOpen, PollClean, Live, Open

(* The lists, cnt and the states agree, cnt stays within numConns, and no two *)
(* open connections share a descriptor.                                       *)
THEOREM ListsAreExact == Spec => []ConnListsExact
<1>1. TypeOK /\ ListInv /\ [Next]_vars => (TypeOK /\ ListInv)'
  BY TypeStep, ListStep
<1>2. ListInv => ConnListsExact
  BY DEF ListInv
<1>3. QED
  BY TypeInit, ListInit, <1>1, <1>2, PTL DEF Spec

--------------------------------------------------------------------------------
(* The slots. *)

(* A slot with an event and no connection is the listener's, and it is        *)
(* handled when no slot is left whose descriptor is not open.                 *)
LEMMA ListenerLast ==
  ASSUME TypeOK, PollInv, process = "running",
         NEW i \in Slots, AtSlot(i), eventsData[i] = NULL
  PROVE  /\ i = LISTENER_EVENT_SLOT_ID
         /\ \A j \in ClientSlots : revents[j] = "none"
         /\ \A j \in ClientSlots : eventsData[j] # NULL => \E c \in Open : sockfd[c] = events[j]
<1>1. i = LISTENER_EVENT_SLOT_ID
  BY Constants DEF AtSlot, PollInv, SlotInv, SlotEvent
<1>2. \A j \in ClientSlots : revents[j] = "none"
  BY <1>1, Constants DEF AtSlot
<1>3. QED
  BY <1>1, <1>2 DEF AtSlot, PollInv, SlotInv, SlotEvent

(* The handling of a slot keeps the slots right. *)
LEMMA HandleSlotSlots ==
  ASSUME TypeOK, PollInv, process = "running", NEW i \in Slots, HandleSlot(i)
  PROVE  SlotInv'
<1> USE Constants, PollAssumption DEF TypeOK, Handled
<1>0. /\ ListInv /\ ListInv'
      /\ ListenerSlot /\ SlotsApart /\ \A j \in ClientSlots : SlotConn(j) /\ SlotEvent(j)
  BY HandleSlotLists DEF PollInv, SlotInv
<1>1. CASE ListenerErrorEvent(i)
  <2> USE <1>1 DEF ListenerErrorEvent
  <2>1. i = LISTENER_EVENT_SLOT_ID
    BY ListenerLast
  <2>2. ListenerSlot' /\ SlotsApart'
    BY <1>0, <2>1 DEF ListenerSlot, SlotsApart, DISABLED_EVENT_SLOT_FD
  <2>3. ASSUME NEW j \in ClientSlots
        PROVE  SlotConn(j)' /\ SlotEvent(j)'
    <3>1. events'[j] = events[j] /\ revents'[j] = revents[j]
      BY <2>1
    <3>2. eventsData[j] # NULL => state'[eventsData[j]] = state[eventsData[j]]
      BY <1>0 DEF SlotConn, Backlog, Live
    <3>3. QED
      BY <1>0, <3>1, <3>2 DEF SlotConn, SlotEvent, Open
  <2>4. QED
    BY <2>2, <2>3 DEF SlotInv
<1>2. CASE ClientErrorEvent(i)
  <2> USE <1>2 DEF ClientErrorEvent
  <2>1. i \in ClientSlots
    BY <1>0 DEF ListenerSlot
  <2>2. ListenerSlot' /\ SlotsApart'
    BY <1>0, <2>1 DEF ListenerSlot, SlotsApart
  <2>3. ASSUME NEW j \in ClientSlots
        PROVE  SlotConn(j)' /\ SlotEvent(j)'
    <3>1. CASE j = i
      <4>1. events'[j] = DISABLED_EVENT_SLOT_FD /\ eventsData'[j] = NULL /\ revents'[j] = "none"
        BY <2>1, <3>1
      <4>2. QED
        BY <1>0, <4>1 DEF SlotConn, SlotEvent, ListInv, FdsOpen, Open
    <3>2. CASE j # i
      <4>1. events'[j] = events[j] /\ eventsData'[j] = eventsData[j] /\ revents'[j] = revents[j]
        BY <3>2
      <4>2. QED
        BY <1>0, <4>1 DEF SlotConn, SlotEvent, Open
    <3>3. QED
      BY <3>1, <3>2
  <2>4. QED
    BY <2>2, <2>3 DEF SlotInv
<1>3. ASSUME NEW c \in Conns, NEW n \in ClientFds, NEW slot \in ClientSlots,
             AcceptEvent(i, c, n, slot)
      PROVE  SlotInv'
  <2> USE <1>3 DEF AcceptEvent
  <2>1. /\ i = LISTENER_EVENT_SLOT_ID
        /\ \A j \in ClientSlots : revents[j] = "none"
        /\ \A j \in ClientSlots : eventsData[j] # NULL => \E d \in Open : sockfd[d] = events[j]
    BY ListenerLast
  <2>2. state[c] = "backlog" /\ \A j \in ClientSlots : eventsData[j] # c
    BY <1>0 DEF Backlog, SlotConn, Live
  <2>3. \A j \in ClientSlots : events[j] # n
    BY <1>0, <2>1 DEF IsLowestFree, SlotConn
  <2>4. /\ events'[slot] = n /\ eventsData'[slot] = c
        /\ \A j \in ClientSlots \ {slot} : events'[j] = events[j] /\ eventsData'[j] = eventsData[j]
        /\ \A j \in ClientSlots : revents'[j] = "none"
    BY <2>1 DEF CapacityCheck
  <2>5. /\ Open' = Open \cup {c} /\ c \notin Open
        /\ sockfd'[c] = n /\ \A d \in Open : sockfd'[d] = sockfd[d]
    BY <1>0, <2>2 DEF Open, ListInv, ConnListsExact, Live
  <2>6. ListenerSlot' /\ SlotsApart'
    BY <1>0, <2>2, <2>4 DEF ListenerSlot, SlotsApart, CapacityCheck
  <2>7. ASSUME NEW j \in ClientSlots
        PROVE  SlotConn(j)' /\ SlotEvent(j)'
    <3>1. CASE j = slot
      <4>1. \A d \in Open : sockfd[d] # n
        BY DEF IsLowestFree
      <4>2. SlotConn(j)'
        BY <2>4, <2>5, <3>1, <4>1 DEF SlotConn, Live
      <4>3. SlotEvent(j)'
        BY <2>4, <2>5, <3>1 DEF SlotEvent
      <4>4. QED
        BY <4>2, <4>3
    <3>2. CASE j # slot
      <4>1. eventsData[j] # NULL => state'[eventsData[j]] = state[eventsData[j]]
        BY <2>2
      <4>2. SlotConn(j)'
        BY <1>0, <2>3, <2>4, <2>5, <3>2, <4>1 DEF SlotConn
      <4>3. SlotEvent(j)'
        BY <2>1, <2>4, <2>5, <3>2 DEF SlotEvent
      <4>4. QED
        BY <4>2, <4>3
    <3>3. QED
      BY <3>1, <3>2
  <2>8. QED
    BY <2>6, <2>7 DEF SlotInv
<1>4. CASE AcceptListFull(i)
  BY <1>0, <1>4 DEF AcceptListFull, SlotInv, ListenerSlot, SlotsApart, SlotConn, SlotEvent, Open
<1>5. ASSUME NEW gone \in SUBSET Conns, AcceptFails(i, gone)
      PROVE  SlotInv'
  <2> USE <1>5 DEF AcceptFails
  <2>1. i = LISTENER_EVENT_SLOT_ID
    BY ListenerLast
  <2>2. ListenerSlot' /\ SlotsApart'
    BY <1>0 DEF ListenerSlot, SlotsApart, CapacityCheck
  <2>3. ASSUME NEW j \in ClientSlots
        PROVE  SlotConn(j)' /\ SlotEvent(j)'
    <3>1. events'[j] = events[j] /\ revents'[j] = revents[j]
      BY <2>1 DEF CapacityCheck
    <3>2. eventsData[j] # NULL => state'[eventsData[j]] = state[eventsData[j]]
      BY <1>0 DEF SlotConn, Backlog, Live
    <3>3. QED
      BY <1>0, <3>1, <3>2 DEF SlotConn, SlotEvent, Open
  <2>4. QED
    BY <2>2, <2>3 DEF SlotInv
<1>6. CASE ReadWriteEvent(i)
  <2> USE <1>6 DEF ReadWriteEvent
  <2>1. PICK s \in Live : state' = [state EXCEPT ![eventsData[i]] = s]
    BY DEF AfterCall, Live
  <2>2. ListenerSlot' /\ SlotsApart'
    BY <1>0 DEF ListenerSlot, SlotsApart
  <2>3. ASSUME NEW j \in ClientSlots
        PROVE  SlotConn(j)' /\ SlotEvent(j)'
    BY <1>0, <2>1 DEF SlotConn, SlotEvent, Open
  <2>4. QED
    BY <2>2, <2>3 DEF SlotInv
<1>7. CASE ReadWriteFails(i)
  <2> USE <1>7 DEF ReadWriteFails, SSLConn_Close
  <2>1. i \in ClientSlots
    BY <1>0 DEF ListenerSlot
  <2>2. Open' = Open
    BY <1>0 DEF ListInv, ConnListsExact, Open
  <2>3. ListenerSlot' /\ SlotsApart'
    BY <1>0 DEF ListenerSlot, SlotsApart
  <2>4. ASSUME NEW j \in ClientSlots
        PROVE  SlotConn(j)' /\ SlotEvent(j)'
    <3>1. SlotConn(j)'
      BY <1>0, <2>2 DEF SlotConn
    <3>2. SlotEvent(j)'
      BY <1>0, <2>1, <2>2 DEF SlotEvent, SlotsApart
    <3>3. QED
      BY <3>1, <3>2
  <2>5. QED
    BY <2>3, <2>4 DEF SlotInv
<1>8. QED
  BY <1>1, <1>2, <1>3, <1>4, <1>5, <1>6, <1>7 DEF HandleSlot

(* poll finds input only for an active connection, and an error for every     *)
(* slot whose descriptor is not open.                                         *)
LEMMA PollSlots ==
  ASSUME TypeOK, PollInv, process = "running", Poll
  PROVE  SlotInv'
<1> USE Constants, PollAssumption DEF TypeOK
<1>0. /\ ListInv
      /\ ListenerSlot /\ SlotsApart /\ \A j \in ClientSlots : SlotConn(j) /\ SlotEvent(j)
  BY DEF PollInv, SlotInv
<1>1. ListenerSlot' /\ SlotsApart'
  BY <1>0 DEF Poll, ListenerSlot, SlotsApart
<1>2. ASSUME NEW j \in ClientSlots
      PROVE  SlotConn(j)' /\ SlotEvent(j)'
  <2>1. SlotConn(j)'
    BY <1>0 DEF Poll, SlotConn, Open
  <2>2. revents'[j] \in CanReturn(j) /\ freeSSLConn = {}
    BY <1>0 DEF Poll, ListInv, PollClean
  <2>3. SlotEvent(j)'
    BY <1>0, <2>2 DEF Poll, CanReturn, SlotConn, SlotEvent, Open
  <2>4. QED
    BY <2>1, <2>3
<1>3. QED
  BY <1>1, <1>2 DEF SlotInv

(* After the last slot the closed connections are freed and their sockets     *)
(* closed; their slots stay.                                                  *)
LEMMA EndOfSlotsSlots ==
  ASSUME TypeOK, PollInv, process = "running", EndOfSlots
  PROVE  SlotInv'
<1> USE Constants, PollAssumption DEF TypeOK, EndOfSlots, SSLConn_FreeSSLConn
<1>0. /\ ListInv
      /\ ListenerSlot /\ SlotsApart /\ \A j \in ClientSlots : SlotConn(j) /\ SlotEvent(j)
  BY DEF PollInv, SlotInv
<1>1. /\ \A j \in ClientSlots : events'[j] = events[j]
      /\ events'[LISTENER_EVENT_SLOT_ID] \in {events[LISTENER_EVENT_SLOT_ID], socketfd}
  BY DEF Rearm
<1>2. ListenerSlot' /\ SlotsApart'
  BY <1>0, <1>1 DEF ListenerSlot, SlotsApart
<1>3. ASSUME NEW j \in ClientSlots
      PROVE  SlotConn(j)' /\ SlotEvent(j)'
  <2>1. Open' = sslConn /\ \A c \in sslConn : c \notin freeSSLConn
    BY <1>0 DEF ListInv, ConnListsExact, Open, Live
  <2>2. SlotConn(j)'
    BY <1>0, <1>1, <2>1 DEF SlotConn, Live, Open
  <2>3. SlotEvent(j)'
    BY DEF SlotEvent
  <2>4. QED
    BY <2>2, <2>3
<1>4. QED
  BY <1>2, <1>3 DEF SlotInv

LEMMA PollInvStep ==
  ASSUME TypeOK, PollInv, [Next]_vars
  PROVE  PollInv'
<1>0. ListInv' /\ EndsAtPoll'
  <2>1. EndsAtPoll'
    BY ZenonT(40) DEF PollInv, EndsAtPoll, Next, Running, Server, Stopped, vars, Poll, HandleSlot,
       EndOfSlots, Finish, ClientConnect, ListenerErrorEvent, ClientErrorEvent, AcceptEvent,
       AcceptListFull, AcceptFails, ReadWriteEvent, ReadWriteFails
  <2>2. QED
    BY <2>1, ListStep DEF PollInv
<1>1. CASE process = "running" /\ Poll
  BY <1>0, <1>1, PollSlots DEF PollInv
<1>2. ASSUME process = "running", NEW i \in Slots, HandleSlot(i)
      PROVE  PollInv'
  BY <1>0, <1>2, HandleSlotSlots DEF PollInv
<1>3. CASE process = "running" /\ EndOfSlots
  BY <1>0, <1>3, EndOfSlotsSlots DEF PollInv
<1>4. CASE Finish
  BY <1>0, <1>4 DEF Finish, PollInv, SlotInv
<1>5. ASSUME NEW c \in Conns, ClientConnect(c)
      PROVE  PollInv'
  <2>1. SlotInv'
    BY <1>5, PollAssumption DEF ClientConnect, PollInv, SlotInv, ListenerSlot, SlotsApart,
       SlotConn, SlotEvent, Open, Live, TypeOK
  <2>2. QED
    BY <1>0, <2>1 DEF PollInv
<1>6. CASE UNCHANGED vars
  <2>1. SlotInv'
    BY <1>6 DEF vars, PollInv, SlotInv, ListenerSlot, SlotsApart, SlotConn, SlotEvent, Open
  <2>2. QED
    BY <1>0, <2>1 DEF PollInv
<1>7. QED
  BY <1>1, <1>2, <1>3, <1>4, <1>5, <1>6 DEF Next, Running, Server, Stopped

LEMMA PollInvInit == Init => PollInv
<1> SUFFICES ASSUME Init
             PROVE  PollInv
  OBVIOUS
<1>1. SlotInv
  BY Constants DEF Init, SlotInv, ListenerSlot, SlotsApart, SlotConn, SlotEvent, Open
<1>2. QED
  BY <1>1, ListInit DEF Init, PollInv, EndsAtPoll

(* PollInv is an inductive invariant. *)
THEOREM PollInvariant == Spec => [](TypeOK /\ PollInv)
<1>1. TypeOK /\ PollInv /\ [Next]_vars => (TypeOK /\ PollInv)'
  BY TypeStep, PollInvStep
<1>2. QED
  BY TypeInit, PollInvInit, <1>1, PTL DEF Spec

(* The descriptor number of a slot is never that of another connection: the   *)
(* kernel gives the number of a closed connection to a new client only after  *)
(* its slot was given back.                                                   *)
THEOREM NoSlotAliased == Spec => []SlotOwnsFd
<1>1. PollInv => SlotOwnsFd
  BY DEF PollInv, SlotInv, ListenerSlot, SlotConn, SlotOwnsFd
<1>2. QED
  BY PollInvariant, <1>1, PTL

(* SSLConn_ReadWrite is called on active connections only, never on one that  *)
(* was closed or freed while its pointer stayed in the slot.                  *)
THEOREM NoStaleInput == Spec => []InputIsActive
<1>1. TypeOK /\ PollInv => InputIsActive
  <2> SUFFICES ASSUME TypeOK, PollInv, NEW i \in Slots,
                      revents[i] = "in", eventsData[i] # NULL
               PROVE  eventsData[i] \in sslConn
    BY DEF InputIsActive
  <2>1. CASE process = "exited"
    BY <2>1 DEF PollInv, EndsAtPoll, ListInv, PollClean
  <2>2. CASE process # "exited"
    BY <2>2, Constants DEF PollInv, SlotInv, SlotEvent, ListenerSlot
  <2>3. QED
    BY <2>1, <2>2
<1>2. QED
  BY PollInvariant, <1>1, PTL

--------------------------------------------------------------------------------
(* Room and counts. *)

(* accepting is FALSE only when the listener's slot may be disabled, and      *)
(* between the loops only when there is no room.                              *)
RoomInv ==
  process = "running" =>
    /\ accepting => events[LISTENER_EVENT_SLOT_ID] = socketfd
    /\ pc = "poll" /\ cnt < numConns => accepting

LEMMA RoomInit == Init => RoomInv
BY Constants DEF Init, RoomInv

LEMMA RoomStep ==
  ASSUME TypeOK, PollInv, RoomInv, [Next]_vars
  PROVE  RoomInv'
<1> USE Constants DEF TypeOK, RoomInv
<1>1. CASE process = "running" /\ Poll
  BY <1>1 DEF Poll
<1>2. ASSUME process = "running", NEW i \in Slots, HandleSlot(i)
      PROVE  RoomInv'
  <2>1. pc = "slots" /\ pc' = "slots"
    BY <1>2 DEF HandleSlot, AtSlot, ListenerErrorEvent, ClientErrorEvent, AcceptEvent,
       AcceptListFull, AcceptFails, ReadWriteEvent, ReadWriteFails
  <2>2. CASE ListenerErrorEvent(i)
    BY <1>2, <2>1, <2>2 DEF ListenerErrorEvent, DISABLED_EVENT_SLOT_FD
  <2>3. CASE ClientErrorEvent(i)
    BY <1>2, <2>1, <2>3 DEF ClientErrorEvent
  <2>4. ASSUME NEW c \in Conns, NEW n \in ClientFds, NEW slot \in ClientSlots,
               AcceptEvent(i, c, n, slot)
        PROVE  RoomInv'
    BY <1>2, <2>1, <2>4 DEF AcceptEvent, CapacityCheck
  <2>5. CASE AcceptListFull(i)
    BY <2>5 DEF AcceptListFull
  <2>6. ASSUME NEW gone \in SUBSET Conns, AcceptFails(i, gone)
        PROVE  RoomInv'
    BY <1>2, <2>1, <2>6 DEF AcceptFails, CapacityCheck
  <2>7. CASE ReadWriteEvent(i) \/ ReadWriteFails(i)
    BY <1>2, <2>1, <2>7 DEF ReadWriteEvent, ReadWriteFails
  <2>8. QED
    BY <1>2, <2>2, <2>3, <2>4, <2>5, <2>6, <2>7 DEF HandleSlot
<1>3. CASE process = "running" /\ EndOfSlots
  BY <1>3 DEF EndOfSlots, Rearm
<1>4. CASE Finish
  BY <1>4 DEF Finish
<1>5. ASSUME NEW c \in Conns, ClientConnect(c)
      PROVE  RoomInv'
  BY <1>5 DEF ClientConnect
<1>6. CASE UNCHANGED vars
  BY <1>6 DEF vars
<1>7. QED
  BY <1>1, <1>2, <1>3, <1>4, <1>5, <1>6 DEF Next, Running, Server, Stopped

(* Whenever the server waits and has room, the listener is watched. *)
THEOREM RoomAlwaysOffered == Spec => []RoomIsOffered
<1>1. TypeOK /\ PollInv /\ RoomInv /\ [Next]_vars => RoomInv'
  BY RoomStep
<1>2. RoomInv => RoomIsOffered
  BY DEF RoomInv, RoomIsOffered
<1>3. QED
  BY PollInvariant, RoomInit, <1>1, <1>2, PTL DEF Spec

(* The connections that have been counted. *)
Counted == {c \in Conns : state[c] \in {"CLOSED", "freed"}}

LEMMA CountInit == Init => CountedOnce
<1> SUFFICES ASSUME Init
             PROVE  CountedOnce
  OBVIOUS
<1>1. Counted = {}
  BY DEF Init, Counted
<1>2. QED
  BY <1>1, FS_EmptySet DEF Init, CountedOnce, Counted

LEMMA CountStep ==
  ASSUME TypeOK, PollInv, CountedOnce, [Next]_vars
  PROVE  CountedOnce'
<1> USE DEF TypeOK, CountedOnce
<1>0. numConnections = Cardinality(Counted)
  BY DEF Counted
<1>same. ASSUME Counted' = Counted, numConnections' = numConnections, process' # "exited"
         PROVE  CountedOnce'
  BY <1>0, <1>same DEF Counted
<1>1. CASE process = "running" /\ Poll
  BY <1>1, <1>same DEF Poll, Counted
<1>2. ASSUME process = "running", NEW i \in Slots, HandleSlot(i)
      PROVE  CountedOnce'
  <2>1. CASE ListenerErrorEvent(i)
    BY <1>2, <1>same, <2>1 DEF ListenerErrorEvent, Counted, Backlog
  <2>2. CASE ClientErrorEvent(i)
    BY <1>2, <1>same, <2>2 DEF ClientErrorEvent, Counted
  <2>3. ASSUME NEW c \in Conns, NEW n \in ClientFds, NEW slot \in ClientSlots,
               AcceptEvent(i, c, n, slot)
        PROVE  CountedOnce'
    BY <1>2, <1>same, <2>3 DEF AcceptEvent, Counted, Backlog
  <2>4. CASE AcceptListFull(i)
    BY <1>2, <1>same, <2>4 DEF AcceptListFull, Counted
  <2>5. ASSUME NEW gone \in SUBSET Conns, AcceptFails(i, gone)
        PROVE  CountedOnce'
    BY <1>2, <1>same, <2>5 DEF AcceptFails, Counted, Backlog
  <2>6. CASE ReadWriteEvent(i)
    BY <1>2, <1>same, <2>6 DEF ReadWriteEvent, AfterCall, Counted, Live
  <2>7. CASE ReadWriteFails(i)
    <3> DEFINE c == eventsData[i]
    <3>1. c \in Conns /\ c \notin Counted /\ Counted' = Counted \cup {c}
      BY <2>7 DEF ReadWriteFails, SSLConn_Close, Counted, Live
    <3>2. Cardinality(Counted') = Cardinality(Counted) + 1
      <4>1. Counted \in SUBSET Conns
        BY DEF Counted
      <4>2. Cardinality(Counted \cup {c}) = Cardinality(Counted) + 1
        BY <3>1, <4>1, CardinalityMoves
      <4>3. QED
        BY <3>1, <4>2
    <3>3. numConnections' = numConnections + 1 /\ process' = process
      BY <2>7 DEF ReadWriteFails, SSLConn_Close
    <3>4. QED
      BY <1>0, <1>2, <3>2, <3>3 DEF Counted
  <2>8. QED
    BY <1>2, <2>1, <2>2, <2>3, <2>4, <2>5, <2>6, <2>7 DEF HandleSlot
<1>3. CASE process = "running" /\ EndOfSlots
  <2>1. Counted' = Counted
    BY <1>3 DEF EndOfSlots, SSLConn_FreeSSLConn, Counted, PollInv, ListInv, ConnListsExact
  <2>2. QED
    BY <1>3, <1>same, <2>1 DEF EndOfSlots
<1>4. CASE Finish
  <2>1. /\ Counted' = Counted \cup sslConn /\ Counted \cap sslConn = {}
        /\ \A c \in Conns : state'[c] \notin Live \cup {"CLOSED"}
    BY <1>4
    DEF Finish, SSLConn_Free, Counted, PollInv, ListInv, ConnListsExact, Open, Live, Backlog
  <2>2. Cardinality(Counted') = Cardinality(Counted) + Cardinality(sslConn)
    <3>1. IsFiniteSet(Counted) /\ IsFiniteSet(sslConn)
      BY ConnsFinite DEF Counted
    <3>2. Cardinality(Counted) \in Nat /\ Cardinality(sslConn) \in Nat
      BY ConnsFinite DEF Counted
    <3>3. QED
      BY <2>1, <3>1, <3>2, FS_Union, FS_EmptySet
  <2>3. numConnections' = numConnections + Cardinality(sslConn)
    BY <1>4 DEF Finish, SSLConn_Free
  <2>4. QED
    BY <1>0, <2>1, <2>2, <2>3 DEF Counted
<1>5. ASSUME process = "running", NEW c \in Conns, ClientConnect(c)
      PROVE  CountedOnce'
  BY <1>5, <1>same DEF ClientConnect, Counted
<1>6. CASE UNCHANGED vars
  BY <1>6 DEF vars
<1>7. QED
  BY <1>1, <1>2, <1>3, <1>4, <1>5, <1>6 DEF Next, Running, Server, Stopped

(* Every accepted connection is counted exactly once, also one that lost its  *)
(* slot to an error event, and main leaves none unfreed.                      *)
THEOREM EveryConnCountedOnce == Spec => []CountedOnce
<1>1. TypeOK /\ PollInv /\ CountedOnce /\ [Next]_vars => CountedOnce'
  BY CountStep
<1>2. QED
  BY PollInvariant, CountInit, <1>1, PTL DEF Spec

--------------------------------------------------------------------------------
(* Slots suffice. *)

HasNoSlot(c) == \A j \in ClientSlots : eventsData[j] # c

ListenerHasEvent == pc = "slots" /\ revents[LISTENER_EVENT_SLOT_ID] # "none"

(* Until the listener is handled no connection joins those of the start of    *)
(* the round.  With exactly numConns client slots the listener is watched     *)
(* only when there is room or when a connection has lost its slot.            *)
AtMostNumConns == ListenerHasEvent => Cardinality(Open) <= numConns

AllSlotsUsable == numConns = MaxConnections /\ numConns > 0

WatchedWithRoom ==
  AllSlotsUsable /\ events[LISTENER_EVENT_SLOT_ID] # DISABLED_EVENT_SLOT_FD
    => cnt < numConns \/ \E c \in sslConn : HasNoSlot(c)

EventWithRoom ==
  AllSlotsUsable /\ ListenerHasEvent
    => Cardinality(Open) < numConns \/ \E c \in Open : HasNoSlot(c)

RoundInv ==
  process = "running" => AtMostNumConns /\ WatchedWithRoom /\ EventWithRoom

(* The number of client slots. *)
LEMMA ClientSlotsFinite == IsFiniteSet(ClientSlots) /\ Cardinality(ClientSlots) = MaxConnections
BY FS_Interval, PollAssumption DEF ClientSlots

(* More connections than the slots but one, each with a slot: all are used.   *)
LEMMA EverySlotNeeded ==
  ASSUME TypeOK, NEW S \in SUBSET Conns, Cardinality(S) = MaxConnections,
         NEW i \in ClientSlots,
         \A c \in S : \E j \in ClientSlots \ {i} : eventsData[j] = c
  PROVE  FALSE
<1> DEFINE f == [c \in S |-> CHOOSE j \in ClientSlots \ {i} : eventsData[j] = c]
<1>1. \A c \in S : f[c] \in ClientSlots \ {i} /\ eventsData[f[c]] = c
  OBVIOUS
<1>2. IsFiniteSet(ClientSlots \ {i}) /\ Cardinality(ClientSlots \ {i}) = MaxConnections - 1
  BY ClientSlotsFinite, FS_RemoveElement
<1>3. Cardinality(ClientSlots \ {i}) < Cardinality(S)
  BY <1>2, PollAssumption
<1>4. f \in [S -> ClientSlots \ {i}] /\ IsFiniteSet(S)
  BY <1>1, ConnsFinite
<1>5. \E x, y \in S : x # y /\ f[x] = f[y]
  <2> HIDE DEF f
  <2> QED  BY <1>2, <1>3, <1>4, FS_PigeonHole
<1>6. QED
  <2> HIDE DEF f
  <2> QED  BY <1>1, <1>5

(* Fewer connections than slots cannot fill the slots. *)
LEMMA SlotsNotFilled ==
  ASSUME TypeOK, SlotsApart, NEW S \in SUBSET Conns, Cardinality(S) < MaxConnections,
         \A j \in ClientSlots : eventsData[j] \in S
  PROVE  FALSE
<1> DEFINE f == [j \in ClientSlots |-> eventsData[j]]
<1>1. f \in [ClientSlots -> S] /\ IsFiniteSet(S)
  BY ConnsFinite
<1>2. \E x, y \in ClientSlots : x # y /\ f[x] = f[y]
  <2> HIDE DEF f
  <2> QED  BY <1>1, ClientSlotsFinite, FS_PigeonHole
<1>3. QED
  BY <1>2, PollAssumption DEF SlotsApart

(* When the listener has an event and there are at least numConns slots, one  *)
(* is free.                                                                   *)
LEMMA FreeSlotThere ==
  ASSUME TypeOK, PollInv, RoundInv, process = "running",
         NEW i \in Slots, AcceptListFull(i), numConns <= MaxConnections
  PROVE  FALSE
<1> USE PollAssumption DEF TypeOK
<1>1. /\ i = LISTENER_EVENT_SLOT_ID /\ pc = "slots"
      /\ \A j \in ClientSlots : eventsData[j] # NULL => \E c \in Open : sockfd[c] = events[j]
  BY ListenerLast DEF AcceptListFull, AtSlot
<1>2. \A j \in ClientSlots : eventsData[j] \in Open
  BY <1>1 DEF AcceptListFull, FreeSlots, PollInv, SlotInv, SlotConn
<1>3. Open \in SUBSET Conns /\ Cardinality(Open) \in Nat /\ numConns \in Nat
  BY ConnsFinite DEF Open
<1>4. Cardinality(Open) <= numConns
  BY <1>1 DEF RoundInv, AtMostNumConns, ListenerHasEvent, AcceptListFull
<1>5. SlotsApart
  BY DEF PollInv, SlotInv
<1>6. Cardinality(Open) = MaxConnections /\ AllSlotsUsable
  <2>1. Cardinality(Open) = MaxConnections /\ numConns = MaxConnections
    BY <1>2, <1>3, <1>4, <1>5, SlotsNotFilled
  <2>2. cnt \in Nat /\ cnt <= numConns /\ cnt # numConns
    BY ConnsFinite DEF AcceptListFull, PollInv, ListInv, ConnListsExact
  <2>3. QED
    BY <1>3, <2>1, <2>2 DEF AllSlotsUsable
<1>7. PICK c \in Open : HasNoSlot(c)
  BY <1>1, <1>6 DEF RoundInv, EventWithRoom, ListenerHasEvent, AcceptListFull
<1>8. Cardinality(Open \ {c}) = Cardinality(Open) - 1
  BY <1>3, CardinalityMoves
<1>9. \A j \in ClientSlots : eventsData[j] \in Open \ {c}
  BY <1>2, <1>7 DEF HasNoSlot
<1>10. QED
  BY <1>3, <1>5, <1>6, <1>8, <1>9, SlotsNotFilled

(* The handling of a slot keeps RoundInv. *)
LEMMA HandleSlotRound ==
  ASSUME TypeOK, PollInv, RoundInv, process = "running", NEW i \in Slots, HandleSlot(i)
  PROVE  RoundInv'
<1> USE Constants, PollAssumption
    DEF TypeOK, Handled, RoundInv, AtMostNumConns, WatchedWithRoom, EventWithRoom,
        ListenerHasEvent, AllSlotsUsable
<1>0. /\ cnt <= numConns /\ cnt \in Int /\ numConns \in Nat
      /\ SlotsApart /\ ListenerSlot
  BY DEF PollInv, ListInv, ConnListsExact, SlotInv
<1>1. CASE ListenerErrorEvent(i)
  <2>1. i = LISTENER_EVENT_SLOT_ID
    BY <1>1, ListenerLast DEF ListenerErrorEvent
  <2>2. QED
    BY <1>1, <2>1 DEF ListenerErrorEvent
<1>2. CASE ClientErrorEvent(i)
  <2> USE <1>2 DEF ClientErrorEvent
  <2>1. i \in ClientSlots
    BY <1>0 DEF ListenerSlot
  <2>2. Open' = Open /\ \A c \in Conns : HasNoSlot(c) => HasNoSlot(c)'
    BY DEF Open, HasNoSlot
  <2>3. AtMostNumConns' /\ EventWithRoom'
    BY <2>1, <2>2 DEF Open
  <2>4. WatchedWithRoom'
    <3> SUFFICES ASSUME numConns = MaxConnections, cnt = numConns,
                        \A c \in sslConn : ~HasNoSlot(c)'
                 PROVE  FALSE
      BY <1>0
    <3>1. \A c \in sslConn : \E j \in ClientSlots \ {i} : eventsData[j] = c
      BY DEF HasNoSlot
    <3>2. Cardinality(sslConn) = MaxConnections
      BY DEF PollInv, ListInv, ConnListsExact
    <3>3. QED
      BY <2>1, <3>1, <3>2, EverySlotNeeded
  <2>5. QED
    BY <2>3, <2>4
<1>3. ASSUME NEW c \in Conns, NEW n \in ClientFds, NEW slot \in ClientSlots,
             AcceptEvent(i, c, n, slot)
      PROVE  RoundInv'
  <2>1. i = LISTENER_EVENT_SLOT_ID
    BY <1>3, ListenerLast DEF AcceptEvent
  <2>2. revents'[LISTENER_EVENT_SLOT_ID] = "none"
    BY <1>3, <2>1 DEF AcceptEvent
  <2>3. events'[LISTENER_EVENT_SLOT_ID] # DISABLED_EVENT_SLOT_FD => cnt' < numConns'
    BY <1>0, <1>3 DEF AcceptEvent, CapacityCheck
  <2>4. QED
    BY <2>2, <2>3
<1>4. CASE AcceptListFull(i)
  BY <1>4 DEF AcceptListFull
<1>5. ASSUME NEW gone \in SUBSET Conns, AcceptFails(i, gone)
      PROVE  RoundInv'
  <2>1. i = LISTENER_EVENT_SLOT_ID
    BY <1>5, ListenerLast DEF AcceptFails
  <2>2. revents'[LISTENER_EVENT_SLOT_ID] = "none"
    BY <1>5, <2>1 DEF AcceptFails
  <2>3. events'[LISTENER_EVENT_SLOT_ID] # DISABLED_EVENT_SLOT_FD => cnt' < numConns'
    BY <1>0, <1>5 DEF AcceptFails, CapacityCheck
  <2>4. QED
    BY <2>2, <2>3
<1>6. CASE ReadWriteEvent(i)
  <2>1. i \in ClientSlots
    BY <1>0, <1>6 DEF ReadWriteEvent, ListenerSlot
  <2>2. QED
    BY <1>6, <2>1 DEF ReadWriteEvent, Open, HasNoSlot
<1>7. CASE ReadWriteFails(i)
  <2> USE <1>7 DEF ReadWriteFails, SSLConn_Close
  <2>1. i \in ClientSlots
    BY <1>0 DEF ListenerSlot
  <2>2. Open' = Open
    BY DEF PollInv, ListInv, ConnListsExact, Open
  <2>3. AtMostNumConns' /\ EventWithRoom'
    BY <2>1, <2>2 DEF HasNoSlot
  <2>4. cnt' < numConns'
    BY <1>0
  <2>5. QED
    BY <2>3, <2>4
<1>8. QED
  BY <1>1, <1>2, <1>3, <1>4, <1>5, <1>6, <1>7 DEF HandleSlot

LEMMA RoundStep ==
  ASSUME TypeOK, PollInv, RoundInv, [Next]_vars
  PROVE  RoundInv'
<1> USE Constants, PollAssumption
    DEF TypeOK, RoundInv, AtMostNumConns, WatchedWithRoom, EventWithRoom, ListenerHasEvent,
        AllSlotsUsable
<1>1. CASE process = "running" /\ Poll
  <2>1. Open' = sslConn /\ Cardinality(sslConn) = cnt /\ cnt <= numConns
    BY <1>1 DEF Poll, PollInv, ListInv, PollClean, ConnListsExact, Open
  <2>2. revents'[LISTENER_EVENT_SLOT_ID] # "none"
          => events[LISTENER_EVENT_SLOT_ID] # DISABLED_EVENT_SLOT_FD
    BY <1>1 DEF Poll, CanReturn
  <2>3. AtMostNumConns'
    BY <1>1, <2>1 DEF Poll
  <2>4. WatchedWithRoom' /\ EventWithRoom'
    BY <1>1, <2>1, <2>2 DEF Poll, HasNoSlot
  <2>5. QED
    BY <2>3, <2>4
<1>2. ASSUME process = "running", NEW i \in Slots, HandleSlot(i)
      PROVE  RoundInv'
  BY <1>2, HandleSlotRound
<1>3. CASE process = "running" /\ EndOfSlots
  <2>1. pc' = "poll" /\ cnt' = cnt /\ numConns' = numConns /\ sslConn' = sslConn
    BY <1>3 DEF EndOfSlots
  <2>2. CASE events' = events
    BY <1>3, <2>1, <2>2 DEF EndOfSlots, HasNoSlot
  <2>3. CASE cnt < numConns
    BY <2>1, <2>3
  <2>4. QED
    BY <1>3, <2>2, <2>3 DEF EndOfSlots, Rearm
<1>4. CASE Finish
  BY <1>4 DEF Finish
<1>5. ASSUME NEW c \in Conns, ClientConnect(c)
      PROVE  RoundInv'
  BY <1>5 DEF ClientConnect, Open, HasNoSlot
<1>6. CASE UNCHANGED vars
  BY <1>6 DEF vars, Open, HasNoSlot
<1>7. QED
  BY <1>1, <1>2, <1>3, <1>4, <1>5, <1>6 DEF Next, Running, Server, Stopped

LEMMA RoundInit == Init => RoundInv
BY Constants DEF Init, RoundInv, AtMostNumConns, WatchedWithRoom, EventWithRoom,
   ListenerHasEvent, AllSlotsUsable

(* What a step may do to process. *)
LEMMA FullStep ==
  ASSUME TypeOK, PollInv, RoundInv, SlotsSuffice, [Next]_vars
  PROVE  SlotsSuffice'
<1> USE DEF SlotsSuffice
<1>1. CASE process = "running" /\ \E i \in Slots : AcceptListFull(i)
  <2>1. PICK i \in Slots : AcceptListFull(i)
    BY <1>1
  <2>2. ~(numConns <= MaxConnections)
    BY <1>1, <2>1, FreeSlotThere
  <2>3. numConns' = numConns /\ numConns \in Int /\ MaxConnections \in Int
    BY <2>1, PollAssumption DEF AcceptListFull, TypeOK
  <2>4. QED
    BY <2>2, <2>3
<1>2. CASE ~(process = "running" /\ \E i \in Slots : AcceptListFull(i))
  <2>1. process' # "listFull" \/ (process' = process /\ numConns' = numConns)
    BY <1>2, ZenonT(40) DEF Next, Running, Server, Stopped, vars, Poll, HandleSlot, EndOfSlots,
       Finish, ClientConnect, ListenerErrorEvent, ClientErrorEvent, AcceptEvent, AcceptFails,
       ReadWriteEvent, ReadWriteFails
  <2>2. QED
    BY <2>1
<1>3. QED
  BY <1>1, <1>2

(* "the list is full" ends the process only when more connections at a time   *)
(* are allowed than there are slots: a closed connection keeps its slot until *)
(* the next poll, and still there is one left for every client accepted.      *)
THEOREM SlotsAlwaysSuffice == Spec => []SlotsSuffice
<1>1. TypeOK /\ PollInv /\ RoundInv /\ SlotsSuffice /\ [Next]_vars
        => RoundInv' /\ SlotsSuffice'
  BY RoundStep, FullStep
<1>2. Init => RoundInv /\ SlotsSuffice
  <2>1. Init => SlotsSuffice
    BY DEF Init, SlotsSuffice
  <2>2. QED
    BY <2>1, RoundInit
<1>3. QED
  BY PollInvariant, <1>1, <1>2, PTL DEF Spec

================================================================================
