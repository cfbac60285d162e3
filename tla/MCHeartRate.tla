----------------------------- MODULE MCHeartRate -----------------------------
(* Bounded instances of HeartRate for TLC. *)
EXTENDS HeartRate
==============================================================================
