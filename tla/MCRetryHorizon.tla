---------------------------- MODULE MCRetryHorizon ----------------------------
(* Instances of RetryHorizon for TLC. *)
EXTENDS RetryHorizon
=============================================================================
