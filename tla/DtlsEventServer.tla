---------------------------- MODULE DtlsEventServer ----------------------------
(******************************************************************************)
(* The libevent DTLS 1.3 server of dtls/server-dtls13-event.c.                *)
(*                                                                            *)
(* One WOLFSSL object, pendingSSL, listens.  When a client has shown a valid  *)
(* cookie wolfSSL calls chGoodCb in the middle of wolfSSL_accept: the object  *)
(* becomes a connection with a socket and events of its own, and a new object *)
(* listens.  Every event of a connection calls dataReady, once per event_add. *)
(*                                                                            *)
(* main installs the SIGINT handler with signal, outside libevent: it may run *)
(* between any two instructions, frees what the global variables point to and *)
(* exits.  chGoodCb with newPendingSSL, conn_ctx_free and free_resources are  *)
(* therefore cut wherever a pointer has moved, between the globals and their  *)
(* local variables or to freed memory; the rest of a callback is one step.  A *)
(* call of a library is never cut: what a signal within malloc, libevent or   *)
(* wolfSSL does is not decided by this program.                               *)
(*                                                                            *)
(* The cookie exchange before chGoodCb is stateless and changes nothing here. *)
(* Ciphers, certificates, message contents and the length of timeouts are     *)
(* left out; what is kept of a timer is that a pending event has one.         *)
(******************************************************************************)
EXTENDS Naturals, Sequences, SequencesExt

CONSTANTS
  SSLs,          \* WOLFSSL objects; one also names the conn_ctx it gets
  NULL,          \* the null pointer
  MaxRetransmits \* timeouts of a handshake until wolfSSL gives it up

ASSUME EventAssumption ==
  /\ SSLs # {}
  /\ NULL \notin SSLs
  /\ MaxRetransmits \in Nat

VARIABLES
  freed,          \* how often wolfSSL_free was called on an object
  created,        \* the objects wolfSSL_new has returned
  ctxFreed,       \* how often a conn_ctx was given to free
  pendingSSL,
  active,         \* the stack of conn_ctx
  nulled,         \* how many of Handles are NULL
  handleFrees,    \* how often each of Handles was released
  ssl,            \* conn_ctx.ssl
  pendingEv,      \* which event of a conn_ctx is added: readEv, writeEv or none
  waitingOnData,
  initFinished,   \* wolfSSL_is_init_finished
  retransmits,    \* timeouts of the handshake so far
  newSSL,         \* local to newPendingSSL: the object it has made
  connCtx,        \* local to chGoodCb, or the argument of conn_ctx_free
  ret,            \* where conn_ctx_free returns to
  pc,             \* in the event loop, or how far a procedure is
  process

heap == <<freed, created, ctxFreed>>
roots == <<pendingSSL, active, nulled, handleFrees>>
wolf == <<initFinished, retransmits>>
locals == <<newSSL, connCtx, ret>>
vars == <<heap, roots, ssl, pendingEv, waitingOnData, wolf, locals, pc, process>>

(* What free_resources releases after pendingSSL, in its order: each is freed *)
(* and then set to NULL (INVALID_SOCKET).                                     *)
Handles == <<"ctx", "listenfd", "newConnEvent", "base">>

(* In conn_ctx_free: before and after the unlinking, after wolfSSL_free. *)
CtxFree == {"unlink", "unlinked", "sslFreed"}

TypeOK ==
  /\ freed \in [SSLs -> Nat] /\ ctxFreed \in [SSLs -> Nat]
  /\ created \subseteq SSLs
  /\ pendingSSL \in SSLs \cup {NULL}
  /\ active \in Seq(SSLs)
  /\ nulled \in 0..Len(Handles)
  /\ handleFrees \in [DOMAIN Handles -> Nat]
  /\ ssl \in [SSLs -> SSLs \cup {NULL}]
  /\ pendingEv \in [SSLs -> {"none", "read", "write"}]
  /\ waitingOnData \in [SSLs -> BOOLEAN]
  /\ initFinished \in [SSLs -> BOOLEAN]
  /\ retransmits \in [SSLs -> 0..MaxRetransmits]
  /\ newSSL \in SSLs \cup {NULL} /\ connCtx \in SSLs \cup {NULL}
  /\ ret \in {"loop", "refused", "freeing"}
  /\ pc \in {"loop", "pushed", "armed", "made", "promoted", "refused", "accepting",
             "freeing", "pendingFreed", "handles", "handleFreed"} \cup CtxFree
  /\ process \in {"running", "failed", "interrupted"}

(* An object that has not been used yet; it does not matter which. *)
wolfSSL_new(used) == CHOOSE s \in SSLs : s \notin used

(* main up to event_base_dispatch: newFD, newPendingSSL, newConnEvent. *)
Init ==
  /\ pendingSSL = wolfSSL_new({})
  /\ created = {pendingSSL}
  /\ freed = [s \in SSLs |-> 0] /\ ctxFreed = [s \in SSLs |-> 0]
  /\ active = <<>>
  /\ nulled = 0 /\ handleFrees = [h \in DOMAIN Handles |-> 0]
  /\ ssl = [s \in SSLs |-> NULL]
  /\ pendingEv = [s \in SSLs |-> "none"]
  /\ waitingOnData = [s \in SSLs |-> FALSE]
  /\ initFinished = [s \in SSLs |-> FALSE]
  /\ retransmits = [s \in SSLs |-> 0]
  /\ newSSL = NULL /\ connCtx = NULL /\ ret = "loop"
  /\ pc = "loop"
  /\ process = "running"

IsActive(c) == \E i \in DOMAIN active : active[i] = c

--------------------------------------------------------------------------------
(* conn_ctx_free. *)

wolfSSL_free(s) == freed' = [freed EXCEPT ![s] = @ + 1]

(* conn_ctx_free(c) is called. *)
CallConnCtxFree(c, r) == connCtx' = c /\ ret' = r /\ pc' = "unlink"

(* Mutant of CtxUnlink: the conn_ctx stays in the stack. *)
CtxUnlink_KeepsInStack ==
  /\ pc = "unlink"
  /\ pc' = "unlinked"
  /\ UNCHANGED <<heap, roots, ssl, pendingEv, waitingOnData, wolf, locals, process>>

(* Out of the stack, if it is there. *)
CtxUnlink ==
  /\ pc = "unlink"
  /\ active' = RemoveFirst(active, connCtx)
  /\ pc' = "unlinked"
  /\ UNCHANGED <<heap, pendingSSL, nulled, handleFrees, ssl, pendingEv,
                 waitingOnData, wolf, locals, process>>

CtxFreeSSL ==
  /\ pc = "unlinked"
  /\ IF ssl[connCtx] = NULL THEN UNCHANGED freed ELSE wolfSSL_free(ssl[connCtx])
  /\ pc' = "sslFreed"
  /\ UNCHANGED <<created, ctxFreed, roots, ssl, pendingEv, waitingOnData, wolf,
                 locals, process>>

(* Mutant of CtxFreeRest: the events are not removed from the base. *)
CtxFreeRest_KeepsEvents ==
  /\ pc = "sslFreed"
  /\ ctxFreed' = [ctxFreed EXCEPT ![connCtx] = @ + 1]
  /\ pc' = ret
  /\ UNCHANGED <<freed, created, roots, ssl, pendingEv, waitingOnData, wolf, locals,
                 process>>

(* Its events and itself. *)
CtxFreeRest ==
  /\ pc = "sslFreed"
  /\ pendingEv' = [pendingEv EXCEPT ![connCtx] = "none"]
  /\ ctxFreed' = [ctxFreed EXCEPT ![connCtx] = @ + 1]
  /\ pc' = ret
  /\ UNCHANGED <<freed, created, roots, ssl, waitingOnData, wolf, locals, process>>

conn_ctx_free == CtxUnlink \/ CtxFreeSSL \/ CtxFreeRest

--------------------------------------------------------------------------------
(* free_resources, called by newConn or main. *)

(* The next connection of the stack. *)
FreePop ==
  /\ pc = "freeing"
  /\ active # <<>>
  /\ active' = Tail(active)
  /\ CallConnCtxFree(Head(active), "freeing")
  /\ UNCHANGED <<heap, pendingSSL, nulled, handleFrees, ssl, pendingEv,
                 waitingOnData, wolf, newSSL, process>>

(* Mutant of FreePending: pendingSSL is forgotten. *)
FreePending_Forgets ==
  /\ pc = "freeing"
  /\ active = <<>>
  /\ pc' = "pendingFreed"
  /\ UNCHANGED <<heap, roots, ssl, pendingEv, waitingOnData, wolf, locals, process>>

FreePending ==
  /\ pc = "freeing"
  /\ active = <<>>
  /\ wolfSSL_free(pendingSSL)
  /\ pc' = "pendingFreed"
  /\ UNCHANGED <<created, ctxFreed, roots, ssl, pendingEv, waitingOnData, wolf,
                 locals, process>>

NullPending ==
  /\ pc = "pendingFreed"
  /\ pendingSSL' = NULL
  /\ pc' = "handles"
  /\ UNCHANGED <<heap, active, nulled, handleFrees, ssl, pendingEv, waitingOnData,
                 wolf, locals, process>>

FreeHandle ==
  /\ pc = "handles"
  /\ nulled < Len(Handles)
  /\ handleFrees' = [handleFrees EXCEPT ![nulled + 1] = @ + 1]
  /\ pc' = "handleFreed"
  /\ UNCHANGED <<heap, pendingSSL, active, nulled, ssl, pendingEv, waitingOnData,
                 wolf, locals, process>>

NullHandle ==
  /\ pc = "handleFreed"
  /\ nulled' = nulled + 1
  /\ pc' = "handles"
  /\ UNCHANGED <<heap, pendingSSL, active, handleFrees, ssl, pendingEv,
                 waitingOnData, wolf, locals, process>>

(* Everything is freed: the process ends. *)
FreeEnds ==
  /\ pc = "handles"
  /\ nulled = Len(Handles)
  /\ process' = "failed"
  /\ UNCHANGED <<heap, roots, ssl, pendingEv, waitingOnData, wolf, locals, pc>>

free_resources ==
  FreePop \/ FreePending \/ NullPending \/ FreeHandle \/ NullHandle \/ FreeEnds

--------------------------------------------------------------------------------
(* newConn, with input on the listening socket, and chGoodCb.  A conn_ctx is  *)
(* named by the object it is made for, the pendingSSL of that moment.         *)

(* calloc, and the push onto the stack. *)
ChGoodPush ==
  /\ pc = "loop"
  /\ active' = <<pendingSSL>> \o active
  /\ connCtx' = pendingSSL
  /\ pc' = "pushed"
  /\ UNCHANGED <<heap, pendingSSL, nulled, handleFrees, ssl, pendingEv,
                 waitingOnData, wolf, newSSL, ret, process>>

(* The connected socket, the two events, and readEv added. *)
ChGoodArm ==
  /\ pc = "pushed"
  /\ pendingEv' = [pendingEv EXCEPT ![connCtx] = "read"]
  /\ pc' = "armed"
  /\ UNCHANGED <<heap, roots, ssl, waitingOnData, wolf, locals, process>>

(* newPendingSSL has an object, which only it knows of. *)
ChGoodNew ==
  /\ pc = "armed"
  /\ created # SSLs
  /\ newSSL' = wolfSSL_new(created)
  /\ created' = created \cup {newSSL'}
  /\ pc' = "made"
  /\ UNCHANGED <<freed, ctxFreed, roots, ssl, pendingEv, waitingOnData, wolf,
                 connCtx, ret, process>>

(* Mutant of ChGoodPromote: the object that listens is not replaced. *)
ChGoodPromote_KeepsOld ==
  /\ pc = "made"
  /\ newSSL' = NULL
  /\ pc' = "promoted"
  /\ UNCHANGED <<heap, roots, ssl, pendingEv, waitingOnData, wolf, connCtx, ret,
                 process>>

(* pendingSSL = ssl, and newPendingSSL returns. *)
ChGoodPromote ==
  /\ pc = "made"
  /\ pendingSSL' = newSSL
  /\ newSSL' = NULL
  /\ pc' = "promoted"
  /\ UNCHANGED <<heap, active, nulled, handleFrees, ssl, pendingEv, waitingOnData,
                 wolf, connCtx, ret, process>>

(* connCtx->ssl = ssl, and back in wolfSSL_accept. *)
ChGoodLink ==
  /\ pc = "promoted"
  /\ ssl' = [ssl EXCEPT ![connCtx] = connCtx]
  /\ pc' = "accepting"
  /\ UNCHANGED <<heap, roots, pendingEv, waitingOnData, wolf, locals, process>>

(* A call fails, those of newPendingSSL the last of them, which then frees    *)
(* the object it has made: connCtx->ssl = NULL, and connCtx is freed.         *)
ChGoodFails ==
  /\ pc \in {"pushed", "armed", "made"}
  /\ IF pc = "made" THEN wolfSSL_free(newSSL) ELSE UNCHANGED freed
  /\ newSSL' = NULL
  /\ ssl' = [ssl EXCEPT ![connCtx] = NULL]
  /\ CallConnCtxFree(connCtx, "refused")
  /\ UNCHANGED <<created, ctxFreed, roots, pendingEv, waitingOnData, wolf, process>>

(* wolfSSL_accept wants to read: newConn returns.  Without chGoodCb having    *)
(* been called nothing has changed.                                           *)
NewConnWantsRead ==
  /\ pc = "accepting"
  /\ pc' = "loop"
  /\ UNCHANGED <<heap, roots, ssl, pendingEv, waitingOnData, wolf, locals, process>>

(* wolfSSL_accept fails otherwise, before, in (CHGOODCB_E; calloc is the      *)
(* first of its failures) or after chGoodCb, and newConn calls                *)
(* free_resources; or event_base_dispatch fails, and main does.               *)
NewConnFails ==
  /\ pc \in {"loop", "refused", "accepting"}
  /\ pc' = "freeing"
  /\ UNCHANGED <<heap, roots, ssl, pendingEv, waitingOnData, wolf, locals, process>>

--------------------------------------------------------------------------------
(* dataReady.  The event was taken out of the base when it fired. *)

Fires(c) == pc = "loop" /\ pendingEv[c] # "none"

(* event_add of readEv or writeEv, with a timeout. *)
event_add(c, ev) == pendingEv' = [pendingEv EXCEPT ![c] = ev]

(* dataReady ends in an error: the connection is freed. *)
DataReadyCloses(c) ==
  /\ pendingEv' = [pendingEv EXCEPT ![c] = "none"]
  /\ CallConnCtxFree(c, "loop")
  /\ UNCHANGED newSSL

(* Mutant of TimeoutRetransmits: wolfSSL never gives a handshake up. *)
TimeoutRetransmits_NoLimit(c) ==
  /\ Fires(c)
  /\ ~initFinished[c]
  /\ retransmits' = [retransmits EXCEPT ![c] = @ + 1]
  /\ event_add(c, "read")
  /\ UNCHANGED <<heap, roots, ssl, waitingOnData, initFinished, locals, pc, process>>

(* Timeout in the handshake: wolfSSL sends its last flight again. *)
TimeoutRetransmits(c) ==
  /\ Fires(c)
  /\ ~initFinished[c]
  /\ retransmits[c] < MaxRetransmits
  /\ retransmits' = [retransmits EXCEPT ![c] = @ + 1]
  /\ event_add(c, "read")
  /\ UNCHANGED <<heap, roots, ssl, waitingOnData, initFinished, locals, pc, process>>

(* Timeout after the handshake, before any data: wait CONN_TIMEOUT. *)
TimeoutWaits(c) ==
  /\ Fires(c)
  /\ initFinished[c] /\ ~waitingOnData[c]
  /\ waitingOnData' = [waitingOnData EXCEPT ![c] = TRUE]
  /\ event_add(c, "read")
  /\ UNCHANGED <<heap, roots, ssl, wolf, locals, pc, process>>

(* Mutant of TimeoutCloses: the connection waits again, and again. *)
TimeoutCloses_WaitsAgain(c) ==
  /\ Fires(c)
  /\ initFinished[c] => waitingOnData[c]
  /\ IF initFinished[c]
       THEN event_add(c, "read") /\ UNCHANGED <<locals, pc>>
       ELSE DataReadyCloses(c)
  /\ UNCHANGED <<heap, roots, ssl, waitingOnData, wolf, process>>

(* wolfSSL_dtls_got_timeout gives the handshake up, or too long without peer  *)
(* data: the connection is freed and its socket closed.                       *)
TimeoutCloses(c) ==
  /\ Fires(c)
  /\ initFinished[c] => waitingOnData[c]
  /\ DataReadyCloses(c)
  /\ UNCHANGED <<heap, roots, ssl, waitingOnData, wolf, process>>

(* A message is read and answered. *)
ReadAndAnswer(c) ==
  /\ Fires(c)
  /\ initFinished' = [initFinished EXCEPT ![c] = TRUE]
  /\ waitingOnData' = [waitingOnData EXCEPT ![c] = TRUE]
  /\ event_add(c, "read")
  /\ UNCHANGED <<heap, roots, ssl, retransmits, locals, pc, process>>

(* wolfSSL_read or wolfSSL_write wants more.  The handshake may have ended in *)
(* it, and a flight that arrives starts the retransmissions anew.             *)
ReadWants(c) ==
  /\ Fires(c)
  /\ \E done \in {initFinished[c], TRUE}, n \in {0, retransmits[c]} :
       /\ initFinished' = [initFinished EXCEPT ![c] = done]
       /\ retransmits' = [retransmits EXCEPT ![c] = n]
  /\ \E ev \in {"read", "write"} : event_add(c, ev)
  /\ UNCHANGED <<heap, roots, ssl, waitingOnData, locals, pc, process>>

(* The peer closed, a call failed, or event_add did. *)
ReadCloses(c) ==
  /\ Fires(c)
  /\ DataReadyCloses(c)
  /\ UNCHANGED <<heap, roots, ssl, waitingOnData, wolf, process>>

--------------------------------------------------------------------------------
(* SIGINT, between any two steps.  The handler runs free_resources from       *)
(* beginning to end, on the global variables as it finds them: SIGINT is      *)
(* blocked while it runs, and it does not return.                             *)

Linked == {ssl[c] : c \in ToSet(active)} \ {NULL}

sig_handler ==
  /\ active' = <<>> /\ pendingSSL' = NULL /\ nulled' = Len(Handles)
  /\ freed' = [s \in SSLs |-> IF s \in Linked \cup {pendingSSL} THEN freed[s] + 1 ELSE freed[s]]
  /\ ctxFreed' = [c \in SSLs |-> IF IsActive(c) THEN ctxFreed[c] + 1 ELSE ctxFreed[c]]
  /\ handleFrees' = [h \in DOMAIN Handles |->
                       IF h > nulled THEN handleFrees[h] + 1 ELSE handleFrees[h]]
  /\ pendingEv' = [c \in SSLs |-> "none"]
  /\ process' = "interrupted"
  /\ UNCHANGED <<created, ssl, waitingOnData, wolf, locals, pc>>

DataReadyTimeout(c) == TimeoutRetransmits(c) \/ TimeoutWaits(c) \/ TimeoutCloses(c)

DataReadyIO(c) == ReadAndAnswer(c) \/ ReadWants(c) \/ ReadCloses(c)

NewConn ==
  \/ ChGoodPush \/ ChGoodArm \/ ChGoodNew \/ ChGoodPromote \/ ChGoodLink
  \/ ChGoodFails \/ NewConnWantsRead \/ NewConnFails

Procedures == NewConn \/ conn_ctx_free \/ free_resources

Running ==
  /\ process = "running"
  /\ \/ Procedures
     \/ \E c \in SSLs : DataReadyTimeout(c) \/ DataReadyIO(c)
     \/ sig_handler

(* The process has ended. *)
Stopped == process # "running" /\ UNCHANGED vars

Next == Running \/ Stopped

(* libevent calls back when a timeout has passed, and a callback that has     *)
(* begun comes to its end.  Nothing is assumed of clients and their messages. *)
Fairness ==
  /\ \A c \in SSLs : WF_vars(process = "running" /\ DataReadyTimeout(c))
  /\ WF_vars(process = "running" /\ pc # "loop" /\ Procedures)

Spec == Init /\ [][Next]_vars /\ Fairness

--------------------------------------------------------------------------------
(* Properties. *)

(* At most one is released more than once, and it twice. *)
OneTwice(count) ==
  /\ \A x \in DOMAIN count : count[x] <= 2
  /\ \A x, y \in DOMAIN count : count[x] > 1 /\ count[y] > 1 => x = y

(* No WOLFSSL object, no conn_ctx and no global handle is released twice, by  *)
(* conn_ctx_free, free_resources and the SIGINT handler together, and nothing *)
(* reachable has been freed.  The exceptions are the windows in               *)
(* free_resources between a release and the assignment of NULL: a SIGINT      *)
(* there releases pendingSSL, or that handle, a second time.                  *)
FreedOnce ==
  /\ \A s \in SSLs :
       /\ freed[s] <= 1 \/ (process = "interrupted" /\ pc = "pendingFreed")
       /\ ctxFreed[s] <= 1
  /\ \A h \in DOMAIN Handles :
       handleFrees[h] <= 1 \/ (process = "interrupted" /\ pc = "handleFreed")
  /\ OneTwice(freed) /\ OneTwice(handleFrees)
  /\ \A s \in Linked : freed[s] = 0
  /\ \A c \in ToSet(active) : ctxFreed[c] = 0
  /\ pendingSSL # NULL => freed[pendingSSL] = IF pc = "pendingFreed" THEN 1 ELSE 0

(* The object that listens is never that of a connection, so that a datagram  *)
(* on the listening socket cannot reach a connection's object, and a stack    *)
(* holds a connection once.                                                   *)
PendingIsApart ==
  /\ process = "running" /\ pc \notin {"handles", "handleFreed"} => pendingSSL \in created
  /\ pendingSSL \notin Linked
  /\ IsInjective(active)

(* While the server is in its event loop every connection of the stack has    *)
(* exactly one event added, so that it can still time out, and an event of a  *)
(* freed conn_ctx never fires: outside the stack only the conn_ctx that       *)
(* conn_ctx_free is at work on has one.                                       *)
EventsOwned ==
  /\ \A c \in SSLs : pendingEv[c] # "none" =>
       IsActive(c) \/ (process = "running" /\ pc \in CtxFree /\ c = connCtx)
  /\ pc = "loop" /\ process = "running" => \A c \in ToSet(active) : pendingEv[c] # "none"

(* The object that only a local variable leads to: in newPendingSSL until it  *)
(* listens, in chGoodCb until connCtx->ssl is set, and in conn_ctx_free       *)
(* (called by free_resources: from the start) until wolfSSL_free.             *)
Held ==
  IF pc = "made" THEN {newSSL}
  ELSE IF pc = "promoted" THEN {connCtx}
  ELSE IF pc = "unlinked" \/ (pc = "unlink" /\ ret = "freeing") THEN {ssl[connCtx]}
  ELSE {}

(* No object is lost: while the server runs it listens, belongs to a          *)
(* connection, is held by the procedure at work or has been freed, and when   *)
(* the process ends all have been freed, except what a SIGINT finds held.     *)
NoneLost ==
  \A s \in created :
    \/ freed[s] > 0
    \/ process = "running" /\ s \in {pendingSSL} \cup Linked \cup Held
    \/ process = "interrupted" /\ s \in Held

(* A connection whose peer is silent from some time on is freed: "Too long    *)
(* waiting for peer data. Shutdown the connection."                           *)
SilentConnDropped ==
  \A c \in SSLs :
    <>[][~DataReadyIO(c)]_vars => (IsActive(c) ~> ~IsActive(c))

================================================================================
