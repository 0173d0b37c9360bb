--------------------------- MODULE MCDtlsEventServer ---------------------------
(* Instances of DtlsEventServer for TLC. *)
EXTENDS DtlsEventServer, TLC

================================================================================
