------------------------------ MODULE MCPollServer -----------------------------
(* Instances of PollServer for TLC. *)
EXTENDS PollServer, TLC

ConnSymmetry == Permutations(Conns)

================================================================================
