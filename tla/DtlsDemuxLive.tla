----------------------------- MODULE DtlsDemuxLive -----------------------------
(******************************************************************************)
(* DtlsDemux with fairness, and with a history variable that tells a message  *)
(* of a peer from a retransmission: both give a connection a new timeout, and *)
(* can lead to the same state.                                                *)
(******************************************************************************)
EXTENDS DtlsDemux

VARIABLE heard    \* the connection the last step was a message for, if any

liveVars == <<vars, heard>>

LiveInit == Init /\ heard = {}

(* Time passes, and a due timeout is handled. *)
QuietTick == Tick /\ heard' = {}

QuietTimeout == Timeout /\ heard' = {}

LiveNext ==
  \/ QuietTimeout
  \/ \E c \in Conns : Hear(c) /\ heard' = {c}
  \/ Other /\ heard' = {}

(* Messages do not keep poll from ever timing out. *)
LiveSpec ==
  LiveInit /\ [][LiveNext]_liveVars
    /\ WF_liveVars(QuietTick) /\ WF_liveVars(QuietTimeout)

(* A peer that falls silent is dropped: every connection either hears from    *)
(* its peer again and again, or is freed.  Retransmissions do not keep a      *)
(* handshake alive, because handleTimeout looks at t_started, and an          *)
(* established connection is closed by its first timeout.                     *)
SilentPeerDropped ==
  \A c \in Conns : []<>(c \in heard) \/ []<>(c \notin DOMAIN conn)

================================================================================
