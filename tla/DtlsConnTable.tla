----------------------------- MODULE DtlsConnTable -----------------------------
(******************************************************************************)
(* What a single-socket DTLS server promises about the connections it keeps:  *)
(* every connection has a deadline, hearing from the peer moves it, and time  *)
(* does not pass while a deadline is due, so that no connection outlives its  *)
(* deadline unnoticed.  An established connection is dropped at its deadline. *)
(* A handshake may be given another deadline.  The lists, identifiers and     *)
(* addresses the server finds connections by are not part of the promise.     *)
(******************************************************************************)
EXTENDS Naturals

CONSTANTS Conns, HsTimeouts, AppDataWait

VARIABLES
  phase,      \* "free", "handshake" or "established"
  deadline    \* how long until the deadline; 0 for a connection that is free

tableVars == <<phase, deadline>>

Open == {c \in Conns : phase[c] # "free"}

(* How long a connection in the given phase may be silent. *)
Patience(p) == IF p = "established" THEN {AppDataWait} ELSE HsTimeouts

Init ==
  /\ phase = [c \in Conns |-> "free"]
  /\ deadline = [c \in Conns |-> 0]

(* The connection is in phase p and is given a new deadline. *)
Keep(c, p) ==
  /\ phase' = [phase EXCEPT ![c] = p]
  /\ \E d \in Patience(p) : deadline' = [deadline EXCEPT ![c] = d]

(* A new connection is a handshake. *)
Begin(c) == phase[c] = "free" /\ Keep(c, "handshake")

(* The peer is heard of; this may complete the handshake. *)
Hear(c) ==
  \/ phase[c] = "handshake" /\ Keep(c, "handshake")
  \/ phase[c] \in {"handshake", "established"} /\ Keep(c, "established")

Drop(c) ==
  /\ phase[c] # "free"
  /\ phase' = [phase EXCEPT ![c] = "free"]
  /\ deadline' = [deadline EXCEPT ![c] = 0]

(* Only a handshake outlives its deadline, and with a new one. *)
Retry(c) == phase[c] = "handshake" /\ deadline[c] = 0 /\ Keep(c, "handshake")

Tick ==
  /\ \A c \in Open : deadline[c] > 0
  /\ deadline' = [c \in Conns |-> IF c \in Open THEN deadline[c] - 1 ELSE 0]
  /\ UNCHANGED phase

Shutdown ==
  /\ phase' = [c \in Conns |-> "free"]
  /\ deadline' = [c \in Conns |-> 0]

Next ==
  \/ \E c \in Conns : Begin(c) \/ Hear(c) \/ Drop(c) \/ Retry(c)
  \/ Tick
  \/ Shutdown

Spec == Init /\ [][Next]_tableVars

================================================================================
