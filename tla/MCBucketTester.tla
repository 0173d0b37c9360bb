----------------------------- MODULE MCBucketTester ----------------------------
(* Instances of BucketTester for TLC. *)
EXTENDS BucketTester

================================================================================
