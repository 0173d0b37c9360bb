------------------------------- MODULE DtlsDemux -------------------------------
(******************************************************************************)
(* The DTLS server of dtls/server-dtls-demux.c: one UDP socket, a list of     *)
(* connections searched by connection ID or peer address, an ordered list of  *)
(* timeouts, and one listening WOLFSSL object that answers unknown peers      *)
(* without keeping state and becomes a connection when a cookie comes back.   *)
(*                                                                            *)
(* The server is one thread around poll; a step is one turn of its loop.      *)
(* Times are kept as what is left of them, in units of Tick, and Tick waits   *)
(* while the first timeout is due: poll is assumed to return in time.  The    *)
(* results of wolfSSL's calls are chosen freely.                              *)
(******************************************************************************)
EXTENDS Naturals, FiniteSets, Sequences, SequencesExt

CONSTANTS
  Conns,        \* addresses malloc may give a struct ConnList
  Addrs,        \* peer addresses
  Cids,         \* connection IDs
  NoCid,        \* a message without connection ID
  HsTimeouts,   \* what wolfSSL may ask for while a handshake is going on
  AppDataWait,  \* APP_DATA_WAIT
  MaxHsTime,    \* MAX_HS_TIME
  AgeCap        \* bound: the age of a handshake is counted up to here

ASSUME DemuxAssumption ==
  /\ NoCid \notin Cids
  /\ IsFiniteSet(Conns) /\ IsFiniteSet(Cids)
  /\ Cardinality(Cids) > Cardinality(Conns)
  /\ HsTimeouts \subseteq Nat \ {0} /\ HsTimeouts # {}
  /\ AppDataWait \in Nat \ {0}
  /\ MaxHsTime \in Nat
  /\ AgeCap \in Nat /\ AgeCap > MaxHsTime

VARIABLES
  conn,        \* the allocated ConnList objects: peer, cid, finished, age
  connList,    \* the order of connList, the newest connection first
  timeouts,    \* the list of DtlsTimeout: conn and the time left
  listenSSL,   \* the connection ID of the listening object
  main         \* "setup", "loop" or "done"

vars == <<conn, connList, timeouts, listenSSL, main>>

TypeOK ==
  /\ DOMAIN conn \subseteq Conns
  /\ conn \in [DOMAIN conn -> [peer : Addrs, cid : Cids, finished : BOOLEAN,
                               age : 0..AgeCap]]
  /\ connList \in Seq(Conns)
  /\ timeouts \in Seq([conn : Conns, left : Nat])
  /\ listenSSL \in Cids
  /\ main \in {"setup", "loop", "done"}

Init ==
  /\ conn = <<>>
  /\ connList = <<>>
  /\ timeouts = <<>>
  /\ listenSSL \in Cids
  /\ main = "setup"

--------------------------------------------------------------------------------
(* The two lists. *)

(* All timeouts of the connection go; the others keep their order.            *)
freeTimeouts(ts, c) ==
  LET kept[i \in 0..Len(ts)] ==
        IF i = 0 THEN <<>>
        ELSE IF ts[i].conn = c THEN kept[i - 1]
        ELSE Append(kept[i - 1], ts[i])
  IN  kept[Len(ts)]

(* Mutant of InsertionPoint: timeouts in the order of their registration. *)
InsertionPoint_AtEnd(ts, left) == Len(ts) + 1

(* The first place whose timeout is later than left; the end if there is none. *)
InsertionPoint(ts, left) ==
  Min({i \in DOMAIN ts : left < ts[i].left} \cup {Len(ts) + 1})

(* Mutant of registerTimeout: existing timeouts are not cleared. *)
registerTimeout_KeepsOld(ts, c, left) ==
  InsertAt(ts, InsertionPoint(ts, left), [conn |-> c, left |-> left])

(* The old timeout of the connection goes, the new one is put in order. *)
registerTimeout(ts, c, left) ==
  LET rest == freeTimeouts(ts, c)
  IN  InsertAt(rest, InsertionPoint(rest, left), [conn |-> c, left |-> left])

(* addTimeSpec: how long to wait for the peer. *)
Waits(finished) == IF finished THEN {AppDataWait} ELSE HsTimeouts

(* The first connection with the connection ID or the address of the message. *)
Matches(msg) ==
  {i \in DOMAIN connList :
     conn[connList[i]].cid = msg.cid \/ conn[connList[i]].peer = msg.addr}

findConn(msg) == connList[Min(Matches(msg))]

(* Mutant of FreshCids: the check that the CID is not in use is dropped. *)
FreshCids_NoCheck(cs) == Cids

(* newSSL: a random connection ID that no connection of the list uses. *)
FreshCids(cs) == Cids \ {cs[c].cid : c \in DOMAIN cs}

(* The listening object with connection ID i becomes the newest connection. *)
newConn(c, i, addr) ==
  /\ conn' = [d \in DOMAIN conn \cup {c} |->
                IF d = c THEN [peer |-> addr, cid |-> i, finished |-> FALSE, age |-> 0]
                         ELSE conn[d]]
  /\ connList' = <<c>> \o connList

freeConn(c) ==
  /\ timeouts' = freeTimeouts(timeouts, c)
  /\ connList' = RemoveFirst(connList, c)
  /\ conn' = [d \in DOMAIN conn \ {c} |-> conn[d]]

--------------------------------------------------------------------------------
(* Random number generator, socket, context and the first listening object. *)

Setup == main = "setup" /\ main' = "loop" /\ UNCHANGED <<conn, connList, timeouts, listenSSL>>

SetupFails == main = "setup" /\ main' = "done" /\ UNCHANGED <<conn, connList, timeouts, listenSSL>>

--------------------------------------------------------------------------------
(* The turns of the loop. *)

(* poll times out: the first timeout triggers handleTimeout on its connection. *)
Due(c) == main = "loop" /\ timeouts # <<>> /\ Head(timeouts) = [conn |-> c, left |-> 0]

(* Mutant of HandshakeTooOld: t_started is never looked at. *)
HandshakeTooOld_Never(c) == FALSE

HandshakeTooOld(c) == conn[c].age > MaxHsTime

(* wolfSSL_dtls_got_timeout sends the last flight again. *)
TimeoutRetransmit(c) ==
  /\ Due(c)
  /\ ~conn[c].finished /\ ~HandshakeTooOld(c)
  /\ \E left \in Waits(FALSE) : timeouts' = registerTimeout(timeouts, c, left)
  /\ UNCHANGED <<conn, connList, listenSSL, main>>

(* The handshake is too old or wolfSSL gives it up, or no data came in time. *)
TimeoutFree(c) ==
  /\ Due(c)
  /\ freeConn(c)
  /\ UNCHANGED <<listenSSL, main>>

(* dispatchExistingConnection succeeds: the handshake may complete, and the   *)
(* address of an authentic message may become the peer.                       *)
DispatchKeeps(msg, c) ==
  /\ main = "loop"
  /\ Matches(msg) # {} /\ c = findConn(msg)
  /\ \E fin \in {conn[c].finished, TRUE}, peer \in {conn[c].peer, msg.addr} :
       /\ conn' = [conn EXCEPT ![c].finished = fin, ![c].peer = peer]
       /\ \E left \in Waits(fin) : timeouts' = registerTimeout(timeouts, c, left)
  /\ UNCHANGED <<connList, listenSSL, main>>

(* A fatal result of inject, accept, read or write. *)
DispatchFrees(msg, c) ==
  /\ main = "loop"
  /\ Matches(msg) # {} /\ c = findConn(msg)
  /\ freeConn(c)
  /\ UNCHANGED <<listenSSL, main>>

(* Mutant of DispatchNew: the connection gets the connection ID of the        *)
(* message instead of the one the listening object announced.                 *)
DispatchNew_MessageCid(msg, c) ==
  /\ main = "loop"
  /\ Matches(msg) = {}
  /\ c \in Conns \ DOMAIN conn
  /\ newConn(c, msg.cid, msg.addr)
  /\ listenSSL' \in FreshCids(conn')
  /\ \E left \in Waits(FALSE) : timeouts' = registerTimeout(timeouts, c, left)
  /\ UNCHANGED main

(* A valid cookie: the listening object becomes connection c, and a new one   *)
(* takes its place.                                                           *)
DispatchNew(msg, c) ==
  /\ main = "loop"
  /\ Matches(msg) = {}
  /\ c \in Conns \ DOMAIN conn
  /\ newConn(c, listenSSL, msg.addr)
  /\ listenSSL' \in FreshCids(conn')
  /\ \E left \in Waits(FALSE) : timeouts' = registerTimeout(timeouts, c, left)
  /\ UNCHANGED main

(* A fatal error of the listening object: it is replaced.                     *)
DispatchFatal(msg) ==
  /\ main = "loop"
  /\ Matches(msg) = {}
  /\ listenSSL' \in FreshCids(conn)
  /\ UNCHANGED <<conn, connList, timeouts, main>>

(* No valid cookie: a stateless answer, nothing is kept. *)
DispatchStateless(msg) ==
  /\ main = "loop"
  /\ Matches(msg) = {}
  /\ UNCHANGED vars

(* SIGINT, an error of poll or recvfrom, or of malloc or wolfSSL in newConn,  *)
(* newSSL or registerTimeout: everything is freed and main returns.           *)
Cleanup ==
  /\ main = "loop"
  /\ main' = "done"
  /\ conn' = <<>> /\ connList' = <<>> /\ timeouts' = <<>>
  /\ UNCHANGED listenSSL

(* Time passes while no timeout is due. *)
Tick ==
  /\ main = "loop"
  /\ timeouts # <<>>
  /\ Head(timeouts).left > 0
  /\ timeouts' = [i \in DOMAIN timeouts |-> [timeouts[i] EXCEPT !.left = IF @ > 0 THEN @ - 1 ELSE 0]]
  /\ conn' = [c \in DOMAIN conn |->
                [conn[c] EXCEPT !.age = IF @ < AgeCap /\ ~conn[c].finished THEN @ + 1 ELSE @]]
  /\ UNCHANGED <<connList, listenSSL, main>>

Messages == [cid : Cids \cup {NoCid}, addr : Addrs]

Hear(c) == \E msg \in Messages : DispatchKeeps(msg, c) \/ DispatchFrees(msg, c)

Timeout == \E c \in Conns : TimeoutRetransmit(c) \/ TimeoutFree(c)

Stopped == main = "done" /\ UNCHANGED vars

(* A turn of the loop that is about no known connection, and time. *)
Other ==
  \/ Setup \/ SetupFails
  \/ \E msg \in Messages :
       \/ \E c \in Conns : DispatchNew(msg, c)
       \/ DispatchFatal(msg)
       \/ DispatchStateless(msg)
  \/ Tick
  \/ Cleanup
  \/ Stopped

Next == Timeout \/ (\E c \in Conns : Hear(c)) \/ Other

Spec == Init /\ [][Next]_vars

--------------------------------------------------------------------------------
(* Properties. *)

(* Every connection in memory is in connList exactly once and has exactly one *)
(* timeout, and there is no other: handleTimeout and freeConn are never given *)
(* a freed connection, and no connection is kept that nothing will time out.  *)
TimerPerConn ==
  /\ ToSet(connList) = DOMAIN conn /\ IsInjective(connList)
  /\ {timeouts[i].conn : i \in DOMAIN timeouts} = DOMAIN conn
  /\ Len(timeouts) = Cardinality(DOMAIN conn)

(* No two WOLFSSL objects, the listening one included, have the same          *)
(* connection ID.  (findConn also goes by the address, so that a message with *)
(* the ID of one connection may still be given to another.)                   *)
CidUnique ==
  main = "loop" =>
    /\ \A c, d \in DOMAIN conn : conn[c].cid = conn[d].cid => c = d
    /\ \A c \in DOMAIN conn : conn[c].cid # listenSSL

(* The ordered list does what the table of deadlines promises: looking only   *)
(* at its first element, the server notices every deadline when it is due.    *)
TimerOf(c) == CHOOSE i \in DOMAIN timeouts : timeouts[i].conn = c

Table == INSTANCE DtlsConnTable WITH
  phase <- [c \in Conns |-> IF c \notin DOMAIN conn THEN "free"
                            ELSE IF conn[c].finished THEN "established" ELSE "handshake"],
  deadline <- [c \in Conns |-> IF c \in DOMAIN conn THEN timeouts[TimerOf(c)].left ELSE 0]

DeadlinesKept == Table!Spec

(* "Maximum time we allow a connection to be in the handshake phase": an      *)
(* unfinished handshake is gone by MAX_HS_TIME and the timeout that was       *)
(* running then.                                                              *)
HandshakeBounded ==
  \A c \in DOMAIN conn : ~conn[c].finished => conn[c].age <= MaxHsTime + Max(HsTimeouts)

================================================================================
