------------------------- MODULE DtlsEventServerProofs -------------------------
(******************************************************************************)
(* Proofs about DtlsEventServer, for any number of WOLFSSL objects and any    *)
(* limit of retransmissions: who owns an object at every point of chGoodCb,   *)
(* conn_ctx_free and free_resources, and so what a SIGINT at that point frees *)
(* and what it does not.                                                      *)
(******************************************************************************)
EXTENDS DtlsEventServer, ListLemmas

(* The two ways to say that a conn_ctx is in the stack. *)
LEMMA ActiveIsInStack == \A c : IsActive(c) <=> c \in ToSet(active)
BY DEF IsActive, ToSet

(* wolfSSL_new returns an object that was not used before. *)
LEMMA NewIsFresh ==
  ASSUME NEW used \in SUBSET SSLs, used # SSLs
  PROVE  wolfSSL_new(used) \in SSLs \ used
BY DEF wolfSSL_new

(* The handles are numbered. *)
LEMMA HandleNumbers == Len(Handles) = 4 /\ DOMAIN Handles = 1..4
BY DEF Handles

--------------------------------------------------------------------------------
(* The types. *)

(* chGoodCb has pushed its conn_ctx, and has not put the object in it yet. *)
Making == {"pushed", "armed", "made"}

(* TypeOK is not inductive: the procedures use pendingSSL and their local     *)
(* variables, which are not NULL where they do.                               *)
TypeInv ==
  /\ TypeOK
  /\ process = "running" /\ pc \notin {"handles", "handleFreed"} => pendingSSL \in SSLs
  /\ pc \in Making \cup CtxFree \cup {"promoted"} => connCtx \in SSLs
  /\ pc = "made" => newSSL \in SSLs
  /\ process = "running" /\ pc = "handleFreed" => nulled < Len(Handles)

(* A count that goes up is a count. *)
LEMMA CountUp ==
  ASSUME NEW S, NEW f \in [S -> Nat], NEW s
  PROVE  [f EXCEPT ![s] = @ + 1] \in [S -> Nat]
<1>1. CASE s \in S
  <2>1. f[s] + 1 \in Nat
    BY <1>1
  <2> QED
    BY <2>1
<1>2. CASE s \notin S
  BY <1>2
<1> QED
  BY <1>1, <1>2

(* wolfSSL_free leaves the types alone. *)
LEMMA FreeType ==
  ASSUME TypeOK, NEW s, wolfSSL_free(s)
  PROVE  freed' \in [SSLs -> Nat]
<1>1. freed \in [SSLs -> Nat]
  BY DEF TypeOK
<1> QED
  BY <1>1, CountUp DEF wolfSSL_free

(* Every step of newConn and chGoodCb respects the types. *)
LEMMA NewConnType ==
  ASSUME TypeInv, process = "running", NewConn
  PROVE  TypeInv'
<1> USE EventAssumption DEF TypeInv, wolf, heap, roots, locals, Making, CtxFree
<1>1. CASE ChGoodPush
  <2>1. active \in Seq(SSLs) /\ pendingSSL \in SSLs
    BY <1>1 DEF TypeOK, ChGoodPush
  <2>2. <<pendingSSL>> \o active \in Seq(SSLs)
    BY <2>1, PushFront
  <2> QED
    BY <1>1, <2>1, <2>2 DEF ChGoodPush, TypeOK
<1>2. CASE ChGoodArm
  BY <1>2 DEF ChGoodArm, TypeOK
<1>3. CASE ChGoodNew
  <2>1. created \in SUBSET SSLs /\ created # SSLs
    BY <1>3 DEF ChGoodNew, TypeOK
  <2>2. wolfSSL_new(created) \in SSLs
    BY <2>1, NewIsFresh
  <2> QED
    BY <1>3, <2>2 DEF ChGoodNew, TypeOK
<1>4. CASE ChGoodPromote
  BY <1>4 DEF ChGoodPromote, TypeOK
<1>5. CASE ChGoodLink
  BY <1>5 DEF ChGoodLink, TypeOK
<1>6. CASE ChGoodFails
  <2>1. freed' \in [SSLs -> Nat]
    BY <1>6, FreeType DEF ChGoodFails, TypeOK
  <2> QED
    BY <1>6, <2>1 DEF ChGoodFails, CallConnCtxFree, TypeOK
<1>7. CASE NewConnWantsRead
  BY <1>7 DEF NewConnWantsRead, TypeOK
<1>8. CASE NewConnFails
  BY <1>8 DEF NewConnFails, TypeOK
<1> QED
  BY <1>1, <1>2, <1>3, <1>4, <1>5, <1>6, <1>7, <1>8 DEF NewConn

(* So does every step of conn_ctx_free ... *)
LEMMA CtxFreeType ==
  ASSUME TypeInv, process = "running", conn_ctx_free
  PROVE  TypeInv'
<1> USE EventAssumption DEF TypeInv, wolf, heap, roots, locals, Making, CtxFree
<1>1. CASE CtxUnlink
  <2>1. active \in Seq(SSLs)
    BY DEF TypeOK
  <2>2. RemoveFirst(active, connCtx) \in Seq(SSLs)
    BY <2>1, RemoveFirstType
  <2> QED
    BY <1>1, <2>2 DEF CtxUnlink, TypeOK
<1>2. CASE CtxFreeSSL
  <2>1. freed' \in [SSLs -> Nat]
    BY <1>2, FreeType DEF CtxFreeSSL, TypeOK
  <2> QED
    BY <1>2, <2>1 DEF CtxFreeSSL, TypeOK
<1>3. CASE CtxFreeRest
  <2>1. ctxFreed \in [SSLs -> Nat]
    BY DEF TypeOK
  <2>2. ctxFreed' \in [SSLs -> Nat]
    BY <1>3, <2>1, CountUp DEF CtxFreeRest
  <2> QED
    BY <1>3, <2>2 DEF CtxFreeRest, TypeOK
<1> QED
  BY <1>1, <1>2, <1>3 DEF conn_ctx_free

(* ... and of free_resources. *)
LEMMA FreeResourcesType ==
  ASSUME TypeInv, process = "running", free_resources
  PROVE  TypeInv'
<1> USE EventAssumption, HandleNumbers
        DEF TypeInv, wolf, heap, roots, locals, Making, CtxFree
<1>1. CASE FreePop
  <2>1. active \in Seq(SSLs) /\ active # <<>>
    BY <1>1 DEF TypeOK, FreePop
  <2>2. Tail(active) \in Seq(SSLs) /\ Head(active) \in SSLs
    BY <2>1
  <2> QED
    BY <1>1, <2>2 DEF FreePop, CallConnCtxFree, TypeOK
<1>2. CASE FreePending
  <2>1. freed' \in [SSLs -> Nat]
    BY <1>2, FreeType DEF FreePending
  <2> QED
    BY <1>2, <2>1 DEF FreePending, TypeOK
<1>3. CASE NullPending
  BY <1>3 DEF NullPending, TypeOK
<1>4. CASE FreeHandle
  <2>1. handleFrees \in [DOMAIN Handles -> Nat]
    BY DEF TypeOK
  <2>2. handleFrees' \in [DOMAIN Handles -> Nat]
    BY <1>4, <2>1, CountUp DEF FreeHandle
  <2>3. nulled' \in 0..Len(Handles) /\ nulled' < Len(Handles)
    BY <1>4 DEF FreeHandle, TypeOK
  <2> QED
    BY <1>4, <2>2, <2>3 DEF FreeHandle, TypeOK
<1>5. CASE NullHandle
  <2>1. nulled \in 0..Len(Handles) /\ nulled < Len(Handles)
    BY <1>5 DEF NullHandle, TypeOK
  <2>2. nulled + 1 \in 0..Len(Handles)
    <3> HIDE DEF TypeInv
    <3> QED
      BY <2>1
  <2> QED
    BY <1>5, <2>2 DEF NullHandle, TypeOK
<1>6. CASE FreeEnds
  BY <1>6 DEF FreeEnds, TypeOK
<1> QED
  BY <1>1, <1>2, <1>3, <1>4, <1>5, <1>6 DEF free_resources

(* Every step respects the types. *)
LEMMA TypeStep ==
  ASSUME TypeInv, [Next]_vars
  PROVE  TypeInv'
<1>1. CASE Stopped \/ UNCHANGED vars
  <2>1. UNCHANGED vars
    BY <1>1 DEF Stopped
  <2>2. /\ UNCHANGED <<freed, created, ctxFreed, pendingSSL, active, nulled, handleFrees>>
        /\ UNCHANGED <<ssl, pendingEv, waitingOnData, initFinished, retransmits>>
        /\ UNCHANGED <<newSSL, connCtx, ret, pc, process>>
    BY <2>1 DEF vars, heap, roots, wolf, locals
  <2>3. TypeOK'
    BY <2>2, Zenon DEF TypeInv, TypeOK
  <2> QED
    BY <2>2, <2>3, Zenon DEF TypeInv
<1> USE EventAssumption, HandleNumbers DEF wolf, heap, roots, locals, Making, CtxFree
<1>2. ASSUME process = "running", NEW c \in SSLs, DataReadyTimeout(c)
      PROVE  TypeInv'
  <2> USE DEF TypeInv
  <2>1. CASE TimeoutRetransmits(c)
    <3>1. retransmits[c] + 1 \in 0..MaxRetransmits
      <4>1. retransmits[c] \in 0..MaxRetransmits
        BY DEF TypeOK
      <4>2. retransmits[c] < MaxRetransmits
        BY <2>1 DEF TimeoutRetransmits
      <4> HIDE DEF TypeInv
      <4> QED
        BY <4>1, <4>2
    <3>2. retransmits' \in [SSLs -> 0..MaxRetransmits]
      BY <2>1, <3>1 DEF TimeoutRetransmits, TypeOK
    <3> QED
      BY <1>2, <2>1, <3>2 DEF TimeoutRetransmits, event_add, Fires, TypeOK
  <2>2. CASE TimeoutWaits(c)
    BY <1>2, <2>2 DEF TimeoutWaits, event_add, Fires, TypeOK
  <2>3. CASE TimeoutCloses(c)
    BY <1>2, <2>3 DEF TimeoutCloses, DataReadyCloses, CallConnCtxFree, Fires, TypeOK
  <2> QED
    BY <1>2, <2>1, <2>2, <2>3 DEF DataReadyTimeout
<1>3. ASSUME process = "running", NEW c \in SSLs, DataReadyIO(c)
      PROVE  TypeInv'
  <2> USE DEF TypeInv
  <2>1. CASE ReadAndAnswer(c)
    BY <1>3, <2>1 DEF ReadAndAnswer, event_add, Fires, TypeOK
  <2>2. CASE ReadWants(c)
    <3>1. PICK done \in {initFinished[c], TRUE}, n \in {0, retransmits[c]} :
            /\ initFinished' = [initFinished EXCEPT ![c] = done]
            /\ retransmits' = [retransmits EXCEPT ![c] = n]
      BY <2>2 DEF ReadWants
    <3>2. PICK ev \in {"read", "write"} : event_add(c, ev)
      BY <2>2 DEF ReadWants
    <3>3. done \in BOOLEAN
      BY Zenon DEF TypeOK
    <3>4. initFinished' \in [SSLs -> BOOLEAN]
      BY <3>1, <3>3, Zenon DEF TypeOK
    <3>5. retransmits' \in [SSLs -> 0..MaxRetransmits]
      <4>1. retransmits[c] \in 0..MaxRetransmits /\ 0 \in 0..MaxRetransmits
        BY DEF TypeOK
      <4>2. n \in 0..MaxRetransmits
        BY <4>1
      <4> QED
        BY <3>1, <4>2, Zenon DEF TypeOK
    <3> QED
      BY <1>3, <2>2, <3>2, <3>4, <3>5 DEF ReadWants, event_add, Fires, TypeOK
  <2>3. CASE ReadCloses(c)
    BY <1>3, <2>3 DEF ReadCloses, DataReadyCloses, CallConnCtxFree, Fires, TypeOK
  <2> QED
    BY <1>3, <2>1, <2>2, <2>3 DEF DataReadyIO
<1>4. ASSUME process = "running", Procedures
      PROVE  TypeInv'
  BY <1>4, NewConnType, CtxFreeType, FreeResourcesType DEF Procedures
<1>5. ASSUME process = "running", sig_handler
      PROVE  TypeInv'
  <2> USE DEF TypeInv
  <2>1. /\ freed \in [SSLs -> Nat] /\ ctxFreed \in [SSLs -> Nat]
        /\ handleFrees \in [1..4 -> Nat]
    BY DEF TypeOK
  <2> HIDE DEF TypeInv
  <2>2. freed' \in [SSLs -> Nat]
    <3>1. freed' = [s \in SSLs |-> IF s \in Linked \cup {pendingSSL} THEN freed[s] + 1 ELSE freed[s]]
      BY <1>5 DEF sig_handler
    <3>2. \A s \in SSLs : freed[s] \in Nat /\ freed[s] + 1 \in Nat
      BY <2>1
    <3> QED
      BY <3>1, <3>2
  <2>3. ctxFreed' \in [SSLs -> Nat] /\ pendingEv' \in [SSLs -> {"none", "read", "write"}]
    BY <1>5, <2>1 DEF sig_handler
  <2>4. handleFrees' \in [DOMAIN Handles -> Nat] /\ nulled' \in 0..Len(Handles)
    <3>1. \A h \in 1..4 : handleFrees[h] + 1 \in Nat /\ handleFrees[h] \in Nat
      BY <2>1
    <3> QED
      BY <1>5, <3>1 DEF sig_handler
  <2>5. active' \in Seq(SSLs) /\ pendingSSL' = NULL
    BY <1>5 DEF sig_handler
  <2> QED
    BY <1>5, <2>2, <2>3, <2>4, <2>5 DEF sig_handler, TypeInv, TypeOK
<1> QED
  BY <1>1, <1>2, <1>3, <1>4, <1>5 DEF Next, Running

(* The types hold at the start. *)
LEMMA TypeInit == Init => TypeInv
<1>1. {} \in SUBSET SSLs /\ {} # SSLs
  BY EventAssumption
<1>2. wolfSSL_new({}) \in SSLs
  BY <1>1, NewIsFresh
<1>3. ASSUME Init PROVE TypeInv
  <2>1. 0 \in 0..MaxRetransmits /\ 0 \in 0..Len(Handles)
    BY EventAssumption, HandleNumbers
  <2>2. handleFrees \in [DOMAIN Handles -> Nat]
    BY <1>3 DEF Init
  <2> QED
    BY <1>2, <1>3, <2>1, <2>2, EventAssumption
       DEF Init, TypeInv, TypeOK, Making, CtxFree
<1> QED
  BY <1>3

(* The variables of the server keep their types: no callback uses a null      *)
(* pendingSSL or an empty stack.                                              *)
THEOREM TypeCorrect == Spec => []TypeOK
<1>1. Spec => []TypeInv
  BY TypeInit, TypeStep, PTL DEF Spec
<1> QED
  BY <1>1, PTL DEF TypeInv
--------------------------------------------------------------------------------
(* Ownership. *)

(* The conn_ctx of the stack that has no object: chGoodCb is building it, or  *)
(* has given it up.                                                           *)
Building(c) ==
  /\ c = connCtx
  /\ pc \in Making \cup {"promoted"} \/ (pc = "unlink" /\ ret = "refused")

(* The stack holds a conn_ctx once, and that of pendingSSL exactly while it   *)
(* is being built and not promoted.  free_resources leaves neither of them.   *)
StackInv ==
  /\ IsInjective(active)
  /\ pc \in {"pendingFreed", "handles", "handleFreed"} => active = <<>>
  /\ IF pc \in {"handles", "handleFreed"} THEN pendingSSL = NULL ELSE pendingSSL \in created
  /\ pendingSSL \in ToSet(active) <=> pc \in Making \/ (pc = "unlink" /\ ret = "refused")

(* What the local variables lead to: a conn_ctx inside or outside the stack,  *)
(* which conn_ctx_free has not freed yet, ...                                 *)
CtxInv ==
  /\ pc \in Making \/ (pc \in CtxFree /\ ret = "refused") => connCtx = pendingSSL
  /\ pc = "promoted" => connCtx \in ToSet(active)
  /\ pc \in CtxFree /\ ret # "refused" => connCtx \in created /\ connCtx # pendingSSL
  /\ pc = "unlink" => (connCtx \in ToSet(active) <=> ret # "freeing")
  /\ pc \in {"unlinked", "sslFreed"} => connCtx \notin ToSet(active)
  /\ pc \in CtxFree =>
       /\ ctxFreed[connCtx] = 0
       /\ ssl[connCtx] = IF ret = "refused" THEN NULL ELSE connCtx
       /\ freed[connCtx] = IF pc = "sslFreed" /\ ret # "refused" THEN 1 ELSE 0

(* ... and an object that is not used for anything yet. *)
NewInv ==
  pc = "made" =>
    /\ newSSL \in created /\ newSSL # pendingSSL /\ newSSL \notin ToSet(active)
    /\ freed[newSSL] = 0 /\ ssl[newSSL] = NULL /\ ctxFreed[newSSL] = 0

(* A conn_ctx of the stack is not freed and, once chGoodCb is done with it,   *)
(* holds the object it is named by and has an event.                          *)
ConnInv ==
  \A c \in ToSet(active) :
    /\ c \in created /\ freed[c] = 0 /\ ctxFreed[c] = 0
    /\ ssl[c] = IF Building(c) THEN NULL ELSE c
    /\ pendingEv[c] # "none" \/ (c = connCtx /\ pc \in {"pushed", "unlink"})

(* The object that listens, and those that do not exist yet, are as new; the  *)
(* former until free_resources frees it, and without a conn_ctx of its own    *)
(* unless chGoodCb has failed.                                                *)
FreshInv ==
  \A s \in SSLs :
    /\ s = pendingSSL \/ s \notin created =>
         /\ ssl[s] = NULL
         /\ freed[s] = IF s = pendingSSL /\ pc = "pendingFreed" THEN 1 ELSE 0
    /\ s \notin created => ctxFreed[s] = 0
    /\ s = pendingSSL
         /\ (pc \in {"loop", "promoted", "accepting"} \/ (pc \in CtxFree /\ ret = "loop"))
         => ctxFreed[s] = 0

(* No count exceeds one, and an event belongs to a conn_ctx of the stack or   *)
(* to the one that conn_ctx_free is at work on.                               *)
CountInv ==
  \A s \in SSLs :
    /\ freed[s] \in {0, 1} /\ ctxFreed[s] \in {0, 1}
    /\ pendingEv[s] # "none" => s \in ToSet(active) \/ (s = connCtx /\ pc \in CtxFree)

(* An object that nobody owns has been freed. *)
OwnedInv ==
  \A s \in created :
    \/ s = pendingSSL \/ s \in ToSet(active) \/ freed[s] = 1
    \/ s = newSSL /\ pc = "made"
    \/ s = connCtx /\ pc \in {"unlink", "unlinked"}

(* The handles are released one after the other, once. *)
HandleInv ==
  \A h \in 1..4 :
    handleFrees[h] = IF h <= nulled \/ (h = nulled + 1 /\ pc = "handleFreed") THEN 1 ELSE 0

(* What is left when the process has ended. *)
EndInv ==
  /\ active = <<>> /\ pendingSSL = NULL
  /\ \A s \in SSLs :
       /\ freed[s] <= 1 \/ (process = "interrupted" /\ pc = "pendingFreed")
       /\ ctxFreed[s] <= 1 /\ pendingEv[s] = "none"
  /\ \A h \in 1..4 :
       handleFrees[h] <= 1 \/ (process = "interrupted" /\ pc = "handleFreed")
  /\ OneTwice(freed) /\ OneTwice(handleFrees)
  /\ \A s \in created : freed[s] > 0 \/ (process = "interrupted" /\ s \in Held)

RunInv ==
  /\ StackInv /\ CtxInv /\ NewInv /\ ConnInv /\ FreshInv /\ CountInv /\ OwnedInv
  /\ HandleInv

EventInv ==
  /\ process = "running" => RunInv
  /\ process # "running" => EndInv

(* A step of newConn or chGoodCb keeps the invariant. *)
LEMMA NewConnStep ==
  ASSUME TypeInv, RunInv, process = "running", NewConn
  PROVE  RunInv' /\ process' = "running"
<1> USE EventAssumption
        DEF RunInv, TypeInv, TypeOK, wolf, heap, roots, locals, Making, CtxFree
<1>1. CASE ChGoodPush
  <2> USE DEF ChGoodPush
  <2>1. active \in Seq(SSLs) /\ pendingSSL \in SSLs /\ IsInjective(active)
        /\ pendingSSL \notin ToSet(active)
    BY <1>1 DEF StackInv
  <2>2. ToSet(active') = ToSet(active) \cup {pendingSSL} /\ IsInjective(active')
    <3>1. active' = <<pendingSSL>> \o active
      BY <1>1
    <3> HIDE DEF RunInv, TypeInv, TypeOK, ChGoodPush
    <3> QED
      BY <2>1, <3>1, PushFront
  <2>3. StackInv' /\ CtxInv' /\ NewInv'
    BY <1>1, <2>2 DEF StackInv, CtxInv, NewInv
  <2>4. CountInv' /\ OwnedInv' /\ HandleInv'
    BY <1>1, <2>2 DEF CountInv, OwnedInv, HandleInv
  <2>5. FreshInv'
    BY <1>1 DEF FreshInv
  <2>6. ConnInv'
    <3>1. /\ pendingSSL \in created /\ freed[pendingSSL] = 0 /\ ctxFreed[pendingSSL] = 0
          /\ ssl[pendingSSL] = NULL
      BY <1>1, <2>1 DEF FreshInv, StackInv
    <3>2. \A c \in ToSet(active) :
            /\ c \in created /\ freed[c] = 0 /\ ctxFreed[c] = 0 /\ ssl[c] = c
            /\ pendingEv[c] # "none" /\ c # pendingSSL
      BY <1>1, <2>1 DEF ConnInv, Building
    <3>3. /\ connCtx' = pendingSSL /\ pc' = "pushed"
          /\ UNCHANGED <<created, freed, ctxFreed, ssl, pendingEv>>
      BY <1>1
    <3> HIDE DEF RunInv, TypeInv, TypeOK, ChGoodPush
    <3> QED
      BY <2>2, <3>1, <3>2, <3>3 DEF ConnInv, Building
  <2> QED
    BY <1>1, <2>3, <2>4, <2>5, <2>6
<1>2. CASE ChGoodArm
  <2> USE DEF ChGoodArm
  <2>1. StackInv' /\ CtxInv' /\ NewInv'
    BY <1>2 DEF StackInv, CtxInv, NewInv
  <2>2. CountInv' /\ OwnedInv' /\ HandleInv'
    BY <1>2 DEF CountInv, OwnedInv, HandleInv, StackInv, CtxInv
  <2>3. FreshInv'
    BY <1>2 DEF FreshInv
  <2>4. ConnInv'
    BY <1>2 DEF ConnInv, Building
  <2> QED
    BY <1>2, <2>1, <2>2, <2>3, <2>4
<1>3. CASE ChGoodNew
  <2> USE DEF ChGoodNew
  <2>1. created \in SUBSET SSLs /\ created # SSLs
    BY <1>3
  <2>2. newSSL' \in SSLs \ created /\ created' = created \cup {newSSL'}
    BY <1>3, <2>1, NewIsFresh
  <2>3. StackInv' /\ CtxInv'
    BY <1>3, <2>2 DEF StackInv, CtxInv
  <2>4. NewInv'
    BY <1>3, <2>2 DEF NewInv, FreshInv, StackInv, ConnInv
  <2>5. CountInv' /\ OwnedInv' /\ HandleInv'
    BY <1>3, <2>2 DEF CountInv, OwnedInv, HandleInv
  <2>6. FreshInv'
    BY <1>3, <2>2 DEF FreshInv
  <2>7. ConnInv'
    BY <1>3, <2>2 DEF ConnInv, Building
  <2> QED
    BY <1>3, <2>3, <2>4, <2>5, <2>6, <2>7
<1>4. CASE ChGoodPromote
  <2> USE DEF ChGoodPromote
  <2>1. StackInv' /\ CtxInv' /\ NewInv'
    BY <1>4 DEF StackInv, CtxInv, NewInv
  <2>2. CountInv' /\ OwnedInv' /\ HandleInv'
    BY <1>4 DEF CountInv, OwnedInv, HandleInv, StackInv
  <2>3. FreshInv'
    BY <1>4 DEF FreshInv, NewInv
  <2>4. ConnInv'
    BY <1>4 DEF ConnInv, Building
  <2> QED
    BY <1>4, <2>1, <2>2, <2>3, <2>4
<1>5. CASE ChGoodLink
  <2> USE DEF ChGoodLink
  <2>1. StackInv' /\ CtxInv' /\ NewInv'
    BY <1>5 DEF StackInv, CtxInv, NewInv
  <2>2. CountInv' /\ OwnedInv' /\ HandleInv'
    BY <1>5 DEF CountInv, OwnedInv, HandleInv
  <2>3. FreshInv'
    BY <1>5 DEF FreshInv, ConnInv, StackInv, CtxInv
  <2>4. ConnInv'
    BY <1>5 DEF ConnInv, Building
  <2> QED
    BY <1>5, <2>1, <2>2, <2>3, <2>4
<1>6. CASE ChGoodFails
  <2> USE DEF ChGoodFails, CallConnCtxFree
  <2>1. connCtx = pendingSSL /\ connCtx \in ToSet(active) /\ ssl[connCtx] = NULL
        /\ connCtx \in SSLs /\ freed[connCtx] = 0 /\ ctxFreed[connCtx] = 0
    BY <1>6 DEF StackInv, CtxInv, ConnInv, FreshInv
  <2>2. ssl' = ssl
    BY <1>6, <2>1
  <2>3. \A s \in SSLs : freed'[s] = IF pc = "made" /\ s = newSSL THEN 1 ELSE freed[s]
    <3>1. freed \in [SSLs -> Nat] /\ (pc = "made" => newSSL \in SSLs /\ freed[newSSL] = 0)
      BY DEF NewInv
    <3>2. IF pc = "made" THEN freed' = [freed EXCEPT ![newSSL] = @ + 1] ELSE freed' = freed
      BY <1>6 DEF wolfSSL_free
    <3> HIDE DEF RunInv, TypeInv, TypeOK, ChGoodFails
    <3> QED
      BY <3>1, <3>2
  <2>4. pc = "made" => newSSL # pendingSSL /\ newSSL \in created /\ newSSL \notin ToSet(active)
    BY DEF NewInv
  <2>5. StackInv' /\ NewInv' /\ HandleInv'
    BY <1>6 DEF StackInv, NewInv, HandleInv
  <2>6. CtxInv'
    BY <1>6, <2>1, <2>2, <2>3, <2>4 DEF CtxInv
  <2>7. CountInv' /\ OwnedInv'
    BY <1>6, <2>3 DEF CountInv, OwnedInv
  <2>8. FreshInv'
    BY <1>6, <2>2, <2>3, <2>4 DEF FreshInv
  <2>9. ConnInv'
    <3>1. \A c \in ToSet(active) : c \in SSLs
      BY DEF ToSet
    <3> QED
      BY <1>6, <2>1, <2>2, <2>3, <2>4, <3>1 DEF ConnInv, Building
  <2> QED
    BY <1>6, <2>5, <2>6, <2>7, <2>8, <2>9
<1>7. CASE NewConnWantsRead \/ NewConnFails
  <2> USE DEF NewConnWantsRead, NewConnFails
  <2>1. StackInv' /\ CtxInv' /\ NewInv'
    BY <1>7 DEF StackInv, CtxInv, NewInv
  <2>2. CountInv' /\ OwnedInv' /\ HandleInv'
    BY <1>7 DEF CountInv, OwnedInv, HandleInv
  <2>3. FreshInv' /\ ConnInv'
    BY <1>7 DEF FreshInv, ConnInv, Building
  <2> QED
    BY <1>7, <2>1, <2>2, <2>3
<1> QED
  BY <1>1, <1>2, <1>3, <1>4, <1>5, <1>6, <1>7 DEF NewConn
(* A step of conn_ctx_free keeps the invariant. *)
LEMMA CtxFreeStep ==
  ASSUME TypeInv, RunInv, process = "running", conn_ctx_free
  PROVE  RunInv' /\ process' = "running"
<1> USE EventAssumption
        DEF RunInv, TypeInv, TypeOK, wolf, heap, roots, locals, Making, CtxFree
<1>1. CASE CtxUnlink
  <2> USE DEF CtxUnlink
  <2>1. active \in Seq(SSLs) /\ IsInjective(active)
    BY DEF StackInv
  <2>2. ToSet(active') = ToSet(active) \ {connCtx} /\ IsInjective(active')
    BY <1>1, <2>1, Unlink
  <2>3. StackInv'
    BY <1>1, <2>2 DEF StackInv, CtxInv
  <2>4. CtxInv' /\ NewInv' /\ HandleInv'
    BY <1>1, <2>2 DEF CtxInv, NewInv, HandleInv
  <2>5. CountInv' /\ OwnedInv'
    BY <1>1, <2>2 DEF CountInv, OwnedInv
  <2>6. FreshInv' /\ ConnInv'
    BY <1>1, <2>2 DEF FreshInv, ConnInv, Building
  <2> QED
    BY <1>1, <2>3, <2>4, <2>5, <2>6
<1>2. CASE CtxFreeSSL
  <2> USE DEF CtxFreeSSL
  <2>1. connCtx \in SSLs /\ connCtx \notin ToSet(active) /\ freed[connCtx] = 0
        /\ ssl[connCtx] = (IF ret = "refused" THEN NULL ELSE connCtx)
    BY <1>2 DEF CtxInv
  <2>2. \A s \in SSLs : freed'[s] = IF s = connCtx /\ ret # "refused" THEN 1 ELSE freed[s]
    BY <1>2, <2>1 DEF wolfSSL_free
  <2>3. StackInv' /\ NewInv' /\ HandleInv'
    BY <1>2 DEF StackInv, NewInv, HandleInv
  <2>4. CtxInv'
    BY <1>2, <2>1, <2>2 DEF CtxInv
  <2>5. CountInv'
    BY <1>2, <2>2 DEF CountInv
  <2>6. OwnedInv'
    BY <1>2, <2>2 DEF OwnedInv, CtxInv
  <2>7. FreshInv'
    BY <1>2, <2>2 DEF FreshInv, CtxInv
  <2>8. ConnInv'
    <3>1. \A c \in ToSet(active) : c \in SSLs
      BY DEF ToSet
    <3> QED
      BY <1>2, <2>1, <2>2, <3>1 DEF ConnInv, Building
  <2> QED
    BY <1>2, <2>3, <2>4, <2>5, <2>6, <2>7, <2>8
<1>3. CASE CtxFreeRest
  <2> USE DEF CtxFreeRest
  <2>1. connCtx \in SSLs /\ connCtx \notin ToSet(active) /\ ctxFreed[connCtx] = 0
    BY <1>3 DEF CtxInv
  <2>2. \A s \in SSLs : /\ ctxFreed'[s] = IF s = connCtx THEN 1 ELSE ctxFreed[s]
                        /\ pendingEv'[s] = IF s = connCtx THEN "none" ELSE pendingEv[s]
    BY <1>3, <2>1
  <2>3. pc' \in {"loop", "refused", "freeing"}
    BY <1>3
  <2>4. StackInv'
    BY <1>3, <2>3 DEF StackInv
  <2>5. CtxInv' /\ NewInv' /\ HandleInv'
    BY <1>3, <2>3 DEF CtxInv, NewInv, HandleInv
  <2>6. CountInv'
    BY <1>3, <2>2, <2>3 DEF CountInv
  <2>7. OwnedInv'
    BY <1>3, <2>3 DEF OwnedInv
  <2>8. FreshInv'
    <3>1. pc' = ret /\ pc = "sslFreed" /\ (ret = "loop" => connCtx # pendingSSL)
      BY <1>3 DEF CtxInv
    <3>2. connCtx \in created
      BY <1>3 DEF CtxInv, StackInv
    <3>3. \A s \in SSLs : s = pendingSSL \/ s \notin created => ssl[s] = NULL /\ freed[s] = 0
      BY <3>1 DEF FreshInv
    <3>4. \A s \in SSLs : /\ s \notin created => ctxFreed[s] = 0
                          /\ s = pendingSSL /\ ret = "loop" => ctxFreed[s] = 0
      BY <3>1 DEF FreshInv
    <3>5. UNCHANGED <<pendingSSL, created, ssl, freed>>
      BY <1>3
    <3>6. pc' # "pendingFreed" /\ pc' # "promoted" /\ pc' # "accepting" /\ pc' \notin CtxFree
      BY <2>3
    <3> HIDE DEF RunInv, TypeInv, TypeOK, CtxFreeRest
    <3> QED
      BY <2>2, <3>1, <3>2, <3>3, <3>4, <3>5, <3>6 DEF FreshInv
  <2>9. ConnInv'
    <3>1. \A c \in ToSet(active) : c \in SSLs
      BY DEF ToSet
    <3> QED
      BY <1>3, <2>1, <2>2, <2>3, <3>1 DEF ConnInv, Building
  <2> QED
    BY <1>3, <2>4, <2>5, <2>6, <2>7, <2>8, <2>9
<1> QED
  BY <1>1, <1>2, <1>3 DEF conn_ctx_free

(* Counts of at most one, and counts of which one is two. *)
LEMMA NoneTwice ==
  ASSUME NEW S, NEW f \in [S -> Nat], \A x \in S : f[x] <= 1
  PROVE  OneTwice(f)
BY DEF OneTwice

LEMMA JustOneTwice ==
  ASSUME NEW S, NEW f \in [S -> Nat], NEW z, \A x \in S : f[x] <= IF x = z THEN 2 ELSE 1
  PROVE  OneTwice(f)
BY DEF OneTwice

(* free_resources has come to its end. *)
LEMMA EndStep ==
  ASSUME TypeInv, RunInv, process = "running", FreeEnds
  PROVE  EndInv' /\ process' = "failed"
<1> USE EventAssumption, HandleNumbers
        DEF RunInv, TypeInv, TypeOK, wolf, heap, roots, locals, Making, CtxFree, FreeEnds
<1>1. active = <<>> /\ pendingSSL = NULL /\ ToSet(active) = {}
  BY DEF StackInv, ToSet
<1>2. \A s \in SSLs : freed[s] <= 1 /\ ctxFreed[s] <= 1 /\ pendingEv[s] = "none"
  <2>1. \A s \in SSLs : freed[s] \in {0, 1} /\ ctxFreed[s] \in {0, 1} /\ pendingEv[s] = "none"
    BY <1>1 DEF CountInv
  <2> HIDE DEF RunInv, TypeInv, TypeOK, FreeEnds
  <2> QED
    BY <2>1
<1>3. \A s \in created : freed[s] > 0
  <2>1. \A s \in created : s # NULL /\ (s = pendingSSL \/ freed[s] = 1)
    BY <1>1 DEF OwnedInv
  <2> HIDE DEF RunInv, TypeInv, TypeOK, FreeEnds
  <2> QED
    BY <1>1, <2>1
<1>4. \A h \in 1..4 : handleFrees[h] <= 1
  <2>1. \A h \in 1..4 : handleFrees[h] \in {0, 1}
    BY DEF HandleInv
  <2> HIDE DEF RunInv, TypeInv, TypeOK, FreeEnds
  <2> QED
    BY <2>1
<1>5. OneTwice(freed) /\ OneTwice(handleFrees)
  <2>1. freed \in [SSLs -> Nat] /\ handleFrees \in [1..4 -> Nat]
    OBVIOUS
  <2> QED
    BY <1>2, <1>4, <2>1, NoneTwice
<1>6. freed' = freed /\ handleFrees' = handleFrees
  OBVIOUS
<1>7. OneTwice(freed)' /\ OneTwice(handleFrees)'
  BY <1>5, <1>6 DEF OneTwice
<1> QED
  BY <1>1, <1>2, <1>3, <1>4, <1>7 DEF EndInv

(* A step of free_resources keeps the invariant, or is the last. *)
LEMMA FreeResourcesStep ==
  ASSUME TypeInv, RunInv, process = "running", free_resources
  PROVE  EventInv'
<1> USE EventAssumption, HandleNumbers
        DEF RunInv, TypeInv, TypeOK, wolf, heap, roots, locals, Making, CtxFree
<1>1. CASE FreePop
  <2> USE DEF FreePop, CallConnCtxFree
  <2>1. active \in Seq(SSLs) /\ IsInjective(active) /\ active # <<>>
    BY <1>1 DEF StackInv
  <2>2. /\ ToSet(active') = ToSet(active) \ {Head(active)} /\ IsInjective(active')
        /\ Head(active) \in ToSet(active)
    BY <1>1, <2>1, PopFront
  <2>3. connCtx' = Head(active) /\ connCtx' \in SSLs
    BY <1>1, <2>1
  <2>4. StackInv'
    BY <1>1, <2>2 DEF StackInv
  <2>5. CtxInv'
    <3>1. /\ Head(active) \in created /\ Head(active) # pendingSSL
          /\ freed[Head(active)] = 0 /\ ctxFreed[Head(active)] = 0
          /\ ssl[Head(active)] = Head(active)
      BY <1>1, <2>2 DEF ConnInv, StackInv, Building
    <3>2. /\ pc' = "unlink" /\ ret' = "freeing"
          /\ UNCHANGED <<created, freed, ctxFreed, ssl, pendingSSL>>
      BY <1>1
    <3> HIDE DEF RunInv, TypeInv, TypeOK, FreePop, CallConnCtxFree
    <3> QED
      BY <2>2, <2>3, <3>1, <3>2 DEF CtxInv
  <2>6. CountInv' /\ OwnedInv'
    BY <1>1, <2>2, <2>3 DEF CountInv, OwnedInv
  <2>7. FreshInv' /\ ConnInv'
    BY <1>1, <2>2, <2>3 DEF FreshInv, ConnInv, Building
  <2>8. NewInv' /\ HandleInv'
    BY <1>1 DEF NewInv, HandleInv
  <2> QED
    BY <1>1, <2>4, <2>5, <2>6, <2>7, <2>8 DEF EventInv
<1>2. CASE FreePending
  <2> USE DEF FreePending
  <2>1. pendingSSL \in SSLs /\ pendingSSL \in created /\ ToSet(active) = {}
        /\ freed[pendingSSL] = 0
    BY <1>2 DEF StackInv, FreshInv, ToSet
  <2>2. \A s \in SSLs : freed'[s] = IF s = pendingSSL THEN 1 ELSE freed[s]
    BY <1>2, <2>1 DEF wolfSSL_free
  <2>3. StackInv' /\ CtxInv' /\ NewInv' /\ HandleInv'
    BY <1>2 DEF StackInv, CtxInv, NewInv, HandleInv
  <2>4. CountInv' /\ OwnedInv'
    BY <1>2, <2>2 DEF CountInv, OwnedInv
  <2>5. FreshInv' /\ ConnInv'
    BY <1>2, <2>1, <2>2 DEF FreshInv, ConnInv
  <2> QED
    BY <1>2, <2>3, <2>4, <2>5 DEF EventInv
<1>3. CASE NullPending
  <2> USE DEF NullPending
  <2>1. ToSet(active) = {} /\ pendingSSL \in SSLs /\ freed[pendingSSL] = 1
        /\ pendingSSL \in created
    BY <1>3 DEF StackInv, FreshInv, ToSet
  <2>2. StackInv' /\ CtxInv' /\ NewInv' /\ HandleInv'
    BY <1>3, <2>1 DEF StackInv, CtxInv, NewInv, HandleInv
  <2>3. CountInv' /\ OwnedInv'
    BY <1>3, <2>1 DEF CountInv, OwnedInv
  <2>4. FreshInv'
    <3>1. \A s \in SSLs : s \notin created => s # pendingSSL /\ ssl[s] = NULL /\ freed[s] = 0
                                            /\ ctxFreed[s] = 0
      BY <1>3, <2>1 DEF FreshInv
    <3>2. /\ pendingSSL' = NULL /\ pc' = "handles"
          /\ UNCHANGED <<created, freed, ctxFreed, ssl>>
      BY <1>3
    <3> HIDE DEF RunInv, TypeInv, TypeOK, NullPending
    <3> QED
      BY <3>1, <3>2 DEF FreshInv
  <2>5. ConnInv'
    BY <1>3, <2>1 DEF ConnInv
  <2> QED
    BY <1>3, <2>2, <2>3, <2>4, <2>5 DEF EventInv
<1>4. CASE FreeHandle \/ NullHandle
  <2> USE DEF FreeHandle, NullHandle
  <2>1. ToSet(active) = {}
    BY <1>4 DEF StackInv, ToSet
  <2>2. HandleInv'
    <3>1. nulled \in 0..4 /\ handleFrees \in [1..4 -> Nat]
      OBVIOUS
    <3>2. /\ pc = "handleFreed" => nulled' = nulled + 1 /\ pc' = "handles"
          /\ pc = "handles" => nulled' = nulled /\ pc' = "handleFreed" /\ nulled < 4
          /\ pc \in {"handles", "handleFreed"}
      BY <1>4
    <3>3. \A h \in 1..4 : handleFrees'[h] =
            IF pc = "handles" /\ h = nulled + 1 THEN handleFrees[h] + 1 ELSE handleFrees[h]
      BY <1>4
    <3> HIDE DEF RunInv, TypeInv, TypeOK, FreeHandle, NullHandle
    <3> QED
      BY <3>1, <3>2, <3>3 DEF HandleInv, RunInv
  <2>3. StackInv' /\ CtxInv' /\ NewInv'
    BY <1>4, <2>1 DEF StackInv, CtxInv, NewInv
  <2>4. CountInv' /\ OwnedInv'
    BY <1>4, <2>1 DEF CountInv, OwnedInv
  <2>5. FreshInv' /\ ConnInv'
    BY <1>4, <2>1 DEF FreshInv, ConnInv, StackInv
  <2> QED
    BY <1>4, <2>2, <2>3, <2>4, <2>5 DEF EventInv
<1>5. CASE FreeEnds
  BY <1>5, EndStep DEF EventInv
<1> QED
  BY <1>1, <1>2, <1>3, <1>4, <1>5 DEF free_resources
(* An event of a connection that stays: it is added again. *)
LEMMA KeepStep ==
  ASSUME TypeInv, RunInv, process = "running", NEW c \in SSLs, Fires(c),
         NEW ev \in {"read", "write"}, event_add(c, ev),
         UNCHANGED <<heap, roots, ssl, locals, pc, process>>
  PROVE  EventInv'
<1> USE DEF RunInv, event_add, Fires, TypeInv, TypeOK, heap, roots, locals, Making, CtxFree
<1>1. CountInv'
  BY DEF CountInv
<1>2. StackInv' /\ CtxInv' /\ NewInv' /\ HandleInv'
  BY DEF StackInv, CtxInv, NewInv, HandleInv
<1>3. FreshInv' /\ OwnedInv'
  BY DEF FreshInv, OwnedInv
<1>4. ConnInv'
  BY DEF ConnInv, Building
<1> QED
  BY <1>1, <1>2, <1>3, <1>4 DEF EventInv

(* A connection that is to be closed: dataReady calls conn_ctx_free. *)
LEMMA CloseStep ==
  ASSUME TypeInv, RunInv, process = "running", NEW c \in SSLs, Fires(c),
         DataReadyCloses(c), UNCHANGED <<heap, roots, ssl, process>>
  PROVE  EventInv'
<1> USE EventAssumption DEF RunInv, Fires, TypeInv, TypeOK, heap, roots, Making,
        CtxFree, DataReadyCloses, CallConnCtxFree
<1>1. c \in ToSet(active)
  BY DEF CountInv
<1>2. /\ freed[c] = 0 /\ ctxFreed[c] = 0 /\ ssl[c] = c
      /\ c # pendingSSL /\ c \in created
  BY <1>1 DEF ConnInv, StackInv, Building
<1>3. CountInv'
  BY <1>1 DEF CountInv
<1>4. StackInv' /\ NewInv' /\ HandleInv'
  BY DEF StackInv, NewInv, HandleInv
<1>5. CtxInv'
  BY <1>1, <1>2 DEF CtxInv
<1>6. FreshInv' /\ OwnedInv'
  BY DEF FreshInv, OwnedInv
<1>7. ConnInv'
  BY DEF ConnInv, Building
<1> QED
  BY <1>3, <1>4, <1>5, <1>6, <1>7 DEF EventInv

(* The objects the stack is linked to. *)
LEMMA LinkedInStack ==
  ASSUME TypeInv, RunInv
  PROVE  Linked = {c \in ToSet(active) : ~Building(c)}
<1>1. \A c \in ToSet(active) : c \in SSLs
  BY DEF ToSet, TypeInv, TypeOK
<1>2. \A c \in ToSet(active) : ssl[c] = IF Building(c) THEN NULL ELSE c
  BY DEF RunInv, ConnInv
<1> QED
  BY <1>1, <1>2, EventAssumption DEF Linked

(* The handler frees all that the stack and pendingSSL own; what only a local *)
(* variable leads to is not among it.                                         *)
LEMMA SignalStep ==
  ASSUME TypeInv, RunInv, process = "running", sig_handler
  PROVE  EndInv' /\ process' = "interrupted"
<1> USE EventAssumption, HandleNumbers
        DEF RunInv, TypeInv, TypeOK, wolf, heap, roots, locals, Making, CtxFree
<1>1. \A s \in SSLs :
        freed'[s] = IF s = pendingSSL \/ (s \in ToSet(active) /\ ~Building(s))
                      THEN freed[s] + 1 ELSE freed[s]
  <2>1. Linked = {c \in ToSet(active) : ~Building(c)}
    BY LinkedInStack
  <2>2. freed' = [s \in SSLs |-> IF s \in Linked \cup {pendingSSL} THEN freed[s] + 1 ELSE freed[s]]
    BY DEF sig_handler
  <2> HIDE DEF RunInv, TypeInv, TypeOK
  <2> QED
    BY <2>1, <2>2
<1>2. /\ \A s \in SSLs : s \in ToSet(active) => freed[s] = 0 /\ ctxFreed[s] = 0
      /\ \A s \in SSLs : s = pendingSSL => freed[s] = IF pc = "pendingFreed" THEN 1 ELSE 0
      /\ pc = "pendingFreed" => ToSet(active) = {}
      /\ \A s \in SSLs : freed[s] \in {0, 1} /\ ctxFreed[s] \in {0, 1}
  <2>1. \A s \in SSLs : s \in ToSet(active) => freed[s] = 0 /\ ctxFreed[s] = 0
    BY DEF ConnInv
  <2>2. \A s \in SSLs : s = pendingSSL => freed[s] = IF pc = "pendingFreed" THEN 1 ELSE 0
    BY DEF FreshInv
  <2>3. pc = "pendingFreed" => ToSet(active) = {}
    BY DEF StackInv, ToSet
  <2>4. \A s \in SSLs : freed[s] \in {0, 1} /\ ctxFreed[s] \in {0, 1}
    BY DEF CountInv
  <2> QED
    BY <2>1, <2>2, <2>3, <2>4
<1>3. /\ \A s \in SSLs : ctxFreed'[s] = IF s \in ToSet(active) THEN ctxFreed[s] + 1 ELSE ctxFreed[s]
      /\ \A s \in SSLs : pendingEv'[s] = "none"
      /\ active' = <<>> /\ pendingSSL' = NULL
      /\ process' = "interrupted" /\ pc' = pc /\ created' = created
      /\ newSSL' = newSSL /\ connCtx' = connCtx /\ ret' = ret /\ ssl' = ssl
  BY ActiveIsInStack DEF sig_handler
<1>4. \A s \in SSLs : /\ freed'[s] <= 1 \/ pc = "pendingFreed"
                      /\ ctxFreed'[s] <= 1
  <2> HIDE DEF RunInv, TypeInv, TypeOK
  <2> QED
    BY <1>1, <1>2, <1>3
<1>5. \A h \in 1..4 : handleFrees'[h] <= 1 \/ pc = "handleFreed"
  <2>1. nulled \in 0..4 /\ handleFrees \in [1..4 -> Nat]
    OBVIOUS
  <2>2. \A h \in 1..4 : handleFrees'[h] = IF h > nulled THEN handleFrees[h] + 1 ELSE handleFrees[h]
    BY DEF sig_handler
  <2>3. \A h \in 1..4 : handleFrees[h] =
          IF h <= nulled \/ (h = nulled + 1 /\ pc = "handleFreed") THEN 1 ELSE 0
    BY DEF HandleInv
  <2> HIDE DEF RunInv, TypeInv, TypeOK
  <2> QED
    BY <2>1, <2>2, <2>3
<1>6. ASSUME NEW s \in created
      PROVE  freed'[s] > 0 \/ s \in Held
  <2>1. s \in SSLs /\ freed[s] \in {0, 1}
    BY <1>2
  <2>2. CASE s = pendingSSL \/ (s \in ToSet(active) /\ ~Building(s)) \/ freed[s] = 1
    <3> HIDE DEF RunInv, TypeInv, TypeOK
    <3> QED
      BY <1>1, <2>1, <2>2
  <2>3. CASE s # pendingSSL /\ s \in ToSet(active) /\ Building(s)
    BY <2>3 DEF Building, CtxInv, Held
  <2>4. CASE s = newSSL /\ pc = "made"
    BY <2>4 DEF Held
  <2>5. CASE s # pendingSSL /\ s \notin ToSet(active) /\ s = connCtx /\ pc \in {"unlink", "unlinked"}
    <3>1. ret # "refused" /\ (pc = "unlink" => ret = "freeing") /\ ssl[connCtx] = s
      BY <2>5 DEF CtxInv
    <3> QED
      BY <2>5, <3>1 DEF Held
  <2> QED
    BY <2>2, <2>3, <2>4, <2>5 DEF OwnedInv
<1>7. Held' = Held
  BY <1>3 DEF Held
<1>8. OneTwice(freed)'
  <2>1. freed' \in [SSLs -> Nat]
    <3>1. freed \in [SSLs -> Nat]
      OBVIOUS
    <3>2. freed' = [s \in SSLs |-> IF s \in Linked \cup {pendingSSL} THEN freed[s] + 1 ELSE freed[s]]
      BY DEF sig_handler
    <3> HIDE DEF RunInv, TypeInv, TypeOK
    <3> QED
      BY <3>1, <3>2
  <2>2. \A s \in SSLs : freed'[s] <= IF s = pendingSSL THEN 2 ELSE 1
    <3> HIDE DEF RunInv, TypeInv, TypeOK
    <3> QED
      BY <1>1, <1>2
  <2> QED
    BY <2>1, <2>2, JustOneTwice
<1>9. OneTwice(handleFrees)'
  <2>1. nulled \in 0..4 /\ handleFrees \in [1..4 -> Nat]
    OBVIOUS
  <2>2. handleFrees' = [h \in 1..4 |-> IF h > nulled THEN handleFrees[h] + 1 ELSE handleFrees[h]]
    BY DEF sig_handler
  <2>3. \A h \in 1..4 : handleFrees[h] =
          IF h <= nulled \/ (h = nulled + 1 /\ pc = "handleFreed") THEN 1 ELSE 0
    BY DEF HandleInv
  <2> HIDE DEF RunInv, TypeInv, TypeOK
  <2>4. handleFrees' \in [1..4 -> Nat]
    BY <2>1, <2>2
  <2>5. \A h \in 1..4 : handleFrees'[h] <= IF h = nulled + 1 THEN 2 ELSE 1
    BY <2>1, <2>2, <2>3
  <2> QED
    BY <2>4, <2>5, JustOneTwice
<1> HIDE DEF RunInv, TypeInv, TypeOK
<1> QED
  BY <1>3, <1>4, <1>5, <1>6, <1>7, <1>8, <1>9 DEF EndInv

(* Every step keeps the invariant. *)
LEMMA EventStep ==
  ASSUME TypeInv, EventInv, [Next]_vars
  PROVE  EventInv'
<1>1. CASE Stopped \/ UNCHANGED vars
  <2>1. UNCHANGED vars
    BY <1>1 DEF Stopped
  <2>2. CASE process = "running"
    BY <2>1, <2>2 DEF vars, heap, roots, locals, EventInv, RunInv, CountInv, StackInv,
       CtxInv, NewInv, OwnedInv, FreshInv, ConnInv, Building, HandleInv
  <2>3. CASE process # "running"
    BY <2>1, <2>3 DEF vars, heap, roots, locals, EventInv, EndInv, Held
  <2> QED
    BY <2>2, <2>3
<1>2. process = "running" => RunInv
  BY DEF EventInv
<1>3. ASSUME process = "running", NEW c \in SSLs, DataReadyTimeout(c)
      PROVE  EventInv'
  <2>1. CASE TimeoutRetransmits(c)
    BY <1>2, <1>3, <2>1, KeepStep DEF TimeoutRetransmits
  <2>2. CASE TimeoutWaits(c)
    BY <1>2, <1>3, <2>2, KeepStep DEF TimeoutWaits
  <2>3. CASE TimeoutCloses(c)
    BY <1>2, <1>3, <2>3, CloseStep DEF TimeoutCloses
  <2> QED
    BY <1>3, <2>1, <2>2, <2>3 DEF DataReadyTimeout
<1>4. ASSUME process = "running", NEW c \in SSLs, DataReadyIO(c)
      PROVE  EventInv'
  <2>1. CASE ReadAndAnswer(c)
    BY <1>2, <1>4, <2>1, KeepStep DEF ReadAndAnswer
  <2>2. CASE ReadWants(c)
    <3>1. PICK ev \in {"read", "write"} : event_add(c, ev)
      BY <2>2 DEF ReadWants
    <3> QED
      BY <1>2, <1>4, <2>2, <3>1, KeepStep DEF ReadWants
  <2>3. CASE ReadCloses(c)
    BY <1>2, <1>4, <2>3, CloseStep DEF ReadCloses
  <2> QED
    BY <1>4, <2>1, <2>2, <2>3 DEF DataReadyIO
<1>5. ASSUME process = "running", Procedures
      PROVE  EventInv'
  BY <1>2, <1>5, NewConnStep, CtxFreeStep, FreeResourcesStep DEF Procedures, EventInv
<1>6. ASSUME process = "running", sig_handler
      PROVE  EventInv'
  BY <1>2, <1>6, SignalStep DEF EventInv
<1> QED
  BY <1>1, <1>3, <1>4, <1>5, <1>6 DEF Next, Running

(* The invariant holds at the start. *)
LEMMA EventStart == Init => EventInv
<1> SUFFICES ASSUME Init PROVE EventInv
  OBVIOUS
<1>1. {} \in SUBSET SSLs /\ {} # SSLs
  BY EventAssumption
<1>2. pendingSSL \in SSLs
  BY <1>1, NewIsFresh DEF Init
<1>3. ToSet(active) = {} /\ IsInjective(active)
  BY DEF Init, ToSet, IsInjective
<1>4. HandleInv
  BY HandleNumbers DEF Init, HandleInv
<1>5. StackInv /\ CtxInv /\ NewInv /\ ConnInv
  BY <1>2, <1>3 DEF Init, StackInv, CtxInv, NewInv, ConnInv, Making, CtxFree
<1>6. FreshInv /\ CountInv /\ OwnedInv
  BY <1>2, <1>3 DEF Init, FreshInv, CountInv, OwnedInv
<1> QED
  BY <1>4, <1>5, <1>6 DEF Init, EventInv, RunInv

(* What the theorems below rest on. *)
LEMMA EventInvariant == Spec => [](TypeInv /\ EventInv)
BY TypeInit, TypeStep, EventStart, EventStep, PTL DEF Spec

(* Nothing is linked when the process has ended. *)
LEMMA NothingLinked ==
  ASSUME EventInv, process # "running"
  PROVE  Linked = {} /\ ToSet(active) = {} /\ pendingSSL = NULL /\ IsInjective(active)
BY DEF EventInv, EndInv, Linked, ToSet, IsInjective

(* No object, no conn_ctx and no handle is released twice, and none that can  *)
(* still be reached has been freed, whatever the order of timeouts, messages  *)
(* and failed calls and wherever in chGoodCb, conn_ctx_free and               *)
(* free_resources a SIGINT comes, but for the windows that FreedOnce names.   *)
THEOREM NoDoubleFree == Spec => []FreedOnce
<1>1. TypeInv /\ EventInv => FreedOnce
  <2> SUFFICES ASSUME TypeInv, EventInv PROVE FreedOnce
    OBVIOUS
  <2>1. CASE process = "running"
    <3>1. RunInv
      BY <2>1 DEF EventInv
    <3>2. \A c \in ToSet(active) : c \in SSLs
      BY DEF ToSet, TypeInv, TypeOK
    <3>3. \A s \in SSLs : freed[s] \in {0, 1} /\ ctxFreed[s] \in {0, 1}
      BY <3>1 DEF RunInv, CountInv
    <3>4. \A s \in SSLs : freed[s] <= 1 /\ ctxFreed[s] <= 1
      BY <3>3
    <3>5. \A h \in 1..4 : handleFrees[h] \in {0, 1}
      BY <3>1 DEF RunInv, HandleInv
    <3>6. \A h \in DOMAIN Handles : handleFrees[h] <= 1
      BY <3>5, HandleNumbers
    <3>7. \A c \in ToSet(active) : freed[c] = 0 /\ ctxFreed[c] = 0
      BY <3>1 DEF RunInv, ConnInv
    <3>8. \A s \in Linked : freed[s] = 0
      BY <3>1, <3>7, LinkedInStack
    <3>9. pendingSSL # NULL => freed[pendingSSL] = IF pc = "pendingFreed" THEN 1 ELSE 0
      BY <3>1 DEF RunInv, FreshInv, TypeInv, TypeOK
    <3>10. freed \in [SSLs -> Nat] /\ handleFrees \in [DOMAIN Handles -> Nat]
      BY DEF TypeInv, TypeOK
    <3>11. OneTwice(freed) /\ OneTwice(handleFrees)
      BY <3>4, <3>6, <3>10, NoneTwice
    <3> QED
      BY <3>4, <3>6, <3>7, <3>8, <3>9, <3>11 DEF FreedOnce
  <2>2. CASE process # "running"
    BY <2>2, NothingLinked, HandleNumbers DEF FreedOnce, EventInv, EndInv
  <2> QED
    BY <2>1, <2>2
<1> QED
  BY <1>1, EventInvariant, PTL

(* A connection never shares its object with the listening socket, and the    *)
(* stack never holds a connection twice.                                      *)
THEOREM ListenerApart == Spec => []PendingIsApart
<1>1. TypeInv /\ EventInv => PendingIsApart
  <2> SUFFICES ASSUME TypeInv, EventInv PROVE PendingIsApart
    OBVIOUS
  <2>1. CASE process = "running"
    <3>1. RunInv
      BY <2>1 DEF EventInv
    <3>2. pendingSSL \notin Linked
      BY <3>1, LinkedInStack DEF RunInv, StackInv, CtxInv, Building, CtxFree
    <3> QED
      BY <3>1, <3>2 DEF PendingIsApart, RunInv, StackInv
  <2>2. CASE process # "running"
    BY <2>2, NothingLinked DEF PendingIsApart
  <2> QED
    BY <2>1, <2>2
<1> QED
  BY <1>1, EventInvariant, PTL

(* In the event loop every connection has its event, with its timeout, and no *)
(* event of a freed conn_ctx is left in the base.                             *)
THEOREM EveryConnHasEvent == Spec => []EventsOwned
<1>1. TypeInv /\ EventInv => EventsOwned
  <2> SUFFICES ASSUME TypeInv, EventInv PROVE EventsOwned
    OBVIOUS
  <2>1. CASE process = "running"
    <3>1. RunInv
      BY <2>1 DEF EventInv
    <3> QED
      BY <2>1, <3>1, ActiveIsInStack DEF EventsOwned, RunInv, CountInv, ConnInv
  <2>2. CASE process # "running"
    BY <2>2 DEF EventsOwned, EventInv, EndInv
  <2> QED
    BY <2>1, <2>2
<1> QED
  BY <1>1, EventInvariant, PTL

(* No object is lost while the server runs, and all are freed when it ends,   *)
(* but for one that only a local variable led to when a SIGINT came.          *)
THEOREM NoObjectLost == Spec => []NoneLost
<1>1. TypeInv /\ EventInv => NoneLost
  <2> SUFFICES ASSUME TypeInv, EventInv PROVE NoneLost
    OBVIOUS
  <2>1. CASE process = "running"
    <3>1. RunInv
      BY <2>1 DEF EventInv
    <3>2. Linked = {c \in ToSet(active) : ~Building(c)}
      BY <3>1, LinkedInStack
    <3>3. ASSUME NEW s \in created, freed[s] # 1
          PROVE  s \in {pendingSSL} \cup Linked \cup Held
      <4>1. CASE s = pendingSSL \/ (s \in ToSet(active) /\ ~Building(s))
        BY <3>2, <4>1
      <4>2. CASE s # pendingSSL /\ s \in ToSet(active) /\ Building(s)
        BY <3>1, <4>2 DEF RunInv, Building, CtxInv, Held, CtxFree
      <4>3. CASE s = newSSL /\ pc = "made"
        BY <4>3 DEF Held
      <4>4. CASE s # pendingSSL /\ s \notin ToSet(active) /\ s = connCtx
                 /\ pc \in {"unlink", "unlinked"}
        <5>1. ret # "refused" /\ (pc = "unlink" => ret = "freeing") /\ ssl[connCtx] = s
          BY <3>1, <4>4 DEF RunInv, CtxInv, CtxFree
        <5> QED
          BY <4>4, <5>1 DEF Held
      <4> QED
        BY <3>1, <3>3, <4>1, <4>2, <4>3, <4>4 DEF RunInv, OwnedInv
    <3> QED
      BY <2>1, <3>3 DEF NoneLost
  <2>2. CASE process # "running"
    BY <2>2 DEF NoneLost, EventInv, EndInv
  <2> QED
    BY <2>1, <2>2
<1> QED
  BY <1>1, EventInvariant, PTL

================================================================================
