---------------------------- MODULE MCMigrations ----------------------------
(* A bounded instance of Migrations for TLC: the two hosts of the latest    *)
(* build, and a host each of the two earlier ones.                          *)
EXTENDS Migrations

CONSTANTS api, graphql, older, oldest

Builds == [h \in Hosts |-> IF h = oldest THEN 1 ELSE IF h = older THEN 2 ELSE 3]
==============================================================================
