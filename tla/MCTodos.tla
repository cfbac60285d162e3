------------------------------- MODULE MCTodos -------------------------------
(* Bounded instances of Todos for TLC. *)
EXTENDS Todos, TLC

CONSTANTS a, b       \* two organizations

\* A caller of each organization with the claims of the realm's users, and a
\* client-credentials token, which has neither organization nor email.
AnyToken == {[tenant |-> a, email |-> TRUE], [tenant |-> b, email |-> TRUE],
             [tenant |-> NoTenant, email |-> FALSE]}

\* One organization only, where isolation is not the question.
OneMember == {[tenant |-> a, email |-> TRUE]}

\* The same with a user who has no email, whose changes violate NOT NULL.
WithoutEmail == OneMember \cup {[tenant |-> a, email |-> FALSE]}

Symmetric == Permutations(Requests) \cup Permutations(TodoIds)
==============================================================================
