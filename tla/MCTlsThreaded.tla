----------------------------- MODULE MCTlsThreaded -----------------------------
(* Instances of TlsThreaded for TLC. *)
EXTENDS TlsThreaded, TLC

================================================================================
