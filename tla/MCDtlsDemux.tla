------------------------------ MODULE MCDtlsDemux ------------------------------
(* Instances of DtlsDemux for TLC. *)
EXTENDS DtlsDemux

================================================================================
