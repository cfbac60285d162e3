--------------------------- MODULE SessionLifecycle ---------------------------
(***************************************************************************)
(* What the token store promises about the sessions of the subjects.  A    *)
(* session is the subject's that signed in for it, and only a sign-in      *)
(* brings a new one.  A refresh that is under way may bring back the       *)
(* session it began with, and nothing else does: once the subject is       *)
(* signed out and no refresh is left, it stays out until it signs in.      *)
(***************************************************************************)
CONSTANTS Subjects, Sessions, None

VARIABLES opened,     \* the sessions of all sign-ins
          current,    \* the session of each subject, or None
          carried     \* the sessions that refreshes of a subject began with

vars == <<opened, current, carried>>

Init ==
    /\ opened = {}
    /\ current = [u \in Subjects |-> None]
    /\ carried = [u \in Subjects |-> {}]

SignIn(u, s) ==
    /\ s \notin opened
    /\ opened' = opened \cup {s}
    /\ current' = [current EXCEPT ![u] = s]
    /\ UNCHANGED carried

SignOut(u) ==
    /\ current' = [current EXCEPT ![u] = None]
    /\ UNCHANGED <<opened, carried>>

BeginRefresh(u) ==
    /\ current[u] # None
    /\ carried' = [carried EXCEPT ![u] = @ \cup {current[u]}]
    /\ UNCHANGED <<opened, current>>

\* A refresh ends without an answer.
Abandon(u, s) ==
    /\ carried' = [carried EXCEPT ![u] = @ \ {s}]
    /\ UNCHANGED <<opened, current>>

\* A refresh ends and stores; another one of the same session may go on.
Store(u, s) ==
    /\ s \in carried[u]
    /\ current' = [current EXCEPT ![u] = s]
    /\ carried' \in {carried, [carried EXCEPT ![u] = @ \ {s}]}
    /\ UNCHANGED opened

\* Sessions survive at Keycloak, but nobody here knows them any more.
Restart ==
    /\ current' = [u \in Subjects |-> None]
    /\ carried' = [u \in Subjects |-> {}]
    /\ UNCHANGED opened

Next ==
    \/ \E u \in Subjects, s \in Sessions : SignIn(u, s) \/ Abandon(u, s) \/ Store(u, s)
    \/ \E u \in Subjects : SignOut(u) \/ BeginRefresh(u)
    \/ Restart

Spec == Init /\ [][Next]_vars

\* The sessions that may yet be in the store under a subject, now or later,
\* unless it signs in.
Within(u) == carried[u] \cup ({current[u]} \ {None})

\* No two subjects hold, or may come to hold, the same session.
OneHolder ==
    /\ \A u \in Subjects : Within(u) \subseteq opened
    /\ \A u, v \in Subjects : u # v => Within(u) \cap Within(v) = {}
===============================================================================
