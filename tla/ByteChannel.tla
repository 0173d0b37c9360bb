------------------------------ MODULE ByteChannel ------------------------------
(******************************************************************************)
(* What wolfSSL expects of a pair of I/O callbacks in one direction: a        *)
(* reliable stream of bytes.  Each call moves some bytes, at most Capacity    *)
(* are on the way, and what arrives is what was sent, in order, once.         *)
(******************************************************************************)
EXTENDS Naturals, Sequences

CONSTANT Capacity

VARIABLES
  sent,  \* the bytes given to the channel
  rcvd   \* the bytes taken from it

Init == sent = <<>> /\ rcvd = <<>>

Put ==
  /\ Len(sent') > Len(sent)
  /\ Len(sent') <= Len(rcvd) + Capacity
  /\ SubSeq(sent', 1, Len(sent)) = sent
  /\ UNCHANGED rcvd

Take ==
  /\ Len(rcvd') > Len(rcvd)
  /\ Len(rcvd') <= Len(sent)
  /\ rcvd' = SubSeq(sent, 1, Len(rcvd'))
  /\ UNCHANGED sent

Next == Put \/ Take

Spec == Init /\ [][Next]_<<sent, rcvd>>

================================================================================
