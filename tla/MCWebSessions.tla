---------------------------- MODULE MCWebSessions ----------------------------
(* Bounded instances of WebSessions for TLC. *)
EXTENDS WebSessions, TLC

Symmetric == Permutations(Subjects) \cup Permutations(Browsers)
                 \cup Permutations(Requests) \cup Permutations(Sessions)
==============================================================================
