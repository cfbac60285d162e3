-------------------------- MODULE ScriptLifecycle --------------------------
(***************************************************************************)
(* What the page-script element promises to the pages of the web           *)
(* application: a script runs only while the page that names it is shown,  *)
(* it is started once, it goes on running when the next page names it too, *)
(* and it is stopped when the next page does not.  A script that could not *)
(* be imported is tried again only after its page was left.                *)
(***************************************************************************)
CONSTANT Srcs

VARIABLES shown,     \* the scripts that the page on screen names
          running,   \* the scripts that were loaded and not disposed of
          broken     \* the scripts on screen whose import has failed

vars == <<shown, running, broken>>

Init == shown = {} /\ running = {} /\ broken = {}

Navigate(p) == shown' = p /\ running' = running \cap p /\ broken' = broken \cap p
Reload(p) == shown' = p /\ running' = {} /\ broken' = {}

\* The scripts on screen that are still to be started.
Awaited == shown \ (running \cup broken)

Load(s) == s \in Awaited /\ running' = running \cup {s} /\ UNCHANGED <<shown, broken>>
Fail(s) == s \in Awaited /\ broken' = broken \cup {s} /\ UNCHANGED <<shown, running>>

Next == (\E p \in SUBSET Srcs : Navigate(p) \/ Reload(p)) \/ (\E s \in Srcs : Load(s) \/ Fail(s))

Spec == Init /\ [][Next]_vars

\* A script that stays on screen, and whose import does not fail, is started.
FairSpec == Spec /\ \A s \in Srcs : WF_vars(Load(s))
==============================================================================
