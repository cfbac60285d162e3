---------------------------- MODULE TodoLifecycle ----------------------------
(***************************************************************************)
(* What the Todos module promises of its todos, whoever asks and whatever  *)
(* fails: a todo is created open, becomes done once, and only then is the  *)
(* rest of the monolith told of it, once.  One transaction may create and  *)
(* finish several todos.                                                   *)
(***************************************************************************)
EXTENDS Naturals

CONSTANT TodoIds

VARIABLES phase,      \* "absent", "open" or "done"
          announced   \* times the other modules were told that it is done

vars == <<phase, announced>>

Init == /\ phase \in [TodoIds -> {"absent", "open"}]
        /\ announced = [t \in TodoIds |-> 0]

\* One commit: the todos of new are created, those of finished become done.
Commit(new, finished) ==
    /\ \A t \in new : phase[t] = "absent"
    /\ \A t \in finished : phase[t] = "open"
    /\ phase' = [t \in TodoIds |-> IF t \in new THEN "open"
                                   ELSE IF t \in finished THEN "done" ELSE phase[t]]
    /\ UNCHANGED announced

Announce(t) ==
    /\ phase[t] = "done" /\ announced[t] = 0
    /\ announced' = [announced EXCEPT ![t] = 1]
    /\ UNCHANGED phase

Next == \/ \E new, finished \in SUBSET TodoIds : Commit(new, finished)
        \/ \E t \in TodoIds : Announce(t)

Spec == Init /\ [][Next]_vars

\* Nothing is lost: what is done is announced.
FairSpec == Spec /\ \A t \in TodoIds : WF_vars(Announce(t))
==============================================================================
