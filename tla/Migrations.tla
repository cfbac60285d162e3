----------------------------- MODULE Migrations -----------------------------
(***************************************************************************)
(* Migrations at startup: every host that contains the Todos module        *)
(* migrates the shared database before it serves, while hosts of other     *)
(* builds may be serving.                                                  *)
(*                                                                         *)
(* MigrateAsync is external: it holds the migration lock of the database   *)
(* from reading the history to the last migration, and applies each        *)
(* missing migration in a transaction of its own.                          *)
(***************************************************************************)
EXTENDS Naturals, FiniteSets

CONSTANTS
    Hosts,      \* processes that contain the module
    Build,      \* how many of the migrations the build of each host knows
    TodoIds,
    Nobody

Latest == 3     \* Initial, DoneField, TenantId

ASSUME MigrationsAssumption ==
    /\ Build \in [Hosts -> 1..Latest]
    /\ Nobody \notin Hosts

VARIABLES
    version,    \* migrations in the history table, which are always the first ones
    rows,       \* the todos in the table
    owned,      \* of these, the ones that were inserted with a tenant
    lock,       \* the host that holds the migration lock
    status      \* where each host stands

table == <<rows, owned>>
vars == <<version, rows, owned, lock, status>>

-----------------------------------------------------------------------------
Init ==
    /\ version = 0 /\ rows = {} /\ owned = {} /\ lock = Nobody
    /\ status = [h \in Hosts |-> "down"]

\* Mutant: TenantId may be null.
NullableTenants(m) == TRUE

\* Whether a migration can be applied to a table that holds rows: Done is
\* added NOT NULL with a default, TenantId NOT NULL without one.
KeepsRows(m) == m # 3

\* The host starts: its hosted service asks for the migration lock.
StartAsync(h) ==
    /\ status[h] = "down"
    /\ status' = [status EXCEPT ![h] = "starting"]
    /\ UNCHANGED <<version, table, lock>>

MigrateAsync(h) ==
    /\ status[h] = "starting" /\ lock = Nobody
    /\ lock' = h
    /\ status' = [status EXCEPT ![h] = "migrating"]
    /\ UNCHANGED <<version, table>>

\* Up of the next migration that the history lacks.
Up(h) ==
    /\ status[h] = "migrating" /\ version < Build[h]
    /\ KeepsRows(version + 1) \/ rows = {}
    /\ version' = version + 1
    /\ UNCHANGED <<table, lock, status>>

\* Mutant: the exception of a failed migration is swallowed.
UpIgnored(h) ==
    /\ status[h] = "migrating" /\ version < Build[h]
    /\ ~KeepsRows(version + 1) /\ rows # {}
    /\ lock' = Nobody
    /\ status' = [status EXCEPT ![h] = "serving"]
    /\ UNCHANGED <<version, table>>

\* Up throws, as it would add TenantId to rows that have none: its transaction
\* is rolled back and the host does not start.
UpFails(h) ==
    /\ status[h] = "migrating" /\ version < Build[h]
    /\ ~KeepsRows(version + 1) /\ rows # {}
    /\ lock' = Nobody
    /\ status' = [status EXCEPT ![h] = "failed"]
    /\ UNCHANGED <<version, table>>

\* MigrateAsync throws for another reason: the database cannot be reached, the
\* lock or a command is waited for too long, the start is cancelled.  What was
\* applied stays applied, and the lock goes with the connection.
StartThrows(h) ==
    /\ status[h] \in {"starting", "migrating"}
    /\ lock' = IF lock = h THEN Nobody ELSE lock
    /\ status' = [status EXCEPT ![h] = "failed"]
    /\ UNCHANGED <<version, table>>

\* Mutant: the lock is kept for as long as the host serves.
ServesLocked(h) ==
    /\ status[h] = "migrating" /\ version >= Build[h]
    /\ status' = [status EXCEPT ![h] = "serving"]
    /\ UNCHANGED <<version, table, lock>>

\* Nothing is left to apply, also if a newer build has migrated further.
Serve(h) ==
    /\ status[h] = "migrating" /\ version >= Build[h]
    /\ lock' = Nobody
    /\ status' = [status EXCEPT ![h] = "serving"]
    /\ UNCHANGED <<version, table>>

\* A host inserts a todo with the columns of its build, a tenant among them if
\* it is the latest; the database refuses it if the table has a column since
\* that must not be null.
Insert(h, t) ==
    /\ status[h] = "serving" /\ t \notin rows
    /\ \A m \in (Build[h] + 1)..version : KeepsRows(m)
    /\ rows' = rows \cup {t}
    /\ owned' = IF Build[h] = Latest THEN owned \cup {t} ELSE owned
    /\ UNCHANGED <<version, lock, status>>

\* A host is stopped or crashes, and may be started again; its connection gives
\* up the lock.
Stop(h) ==
    /\ status[h] # "down"
    /\ status' = [status EXCEPT ![h] = "down"]
    /\ lock' = IF lock = h THEN Nobody ELSE lock
    /\ UNCHANGED <<version, table>>

-----------------------------------------------------------------------------
Startup(h) == MigrateAsync(h) \/ Up(h) \/ UpFails(h) \/ Serve(h)

Next ==
    \E h \in Hosts :
        \/ StartAsync(h) \/ Startup(h) \/ StartThrows(h) \/ Stop(h)
        \/ \E t \in TodoIds : Insert(h, t)

Spec == Init /\ [][Next]_vars

\* A host that starts gets the lock at some time, and goes on.
FairSpec == Spec /\ \A h \in Hosts : SF_vars(MigrateAsync(h)) /\ WF_vars(Startup(h))

-----------------------------------------------------------------------------
(* Properties *)

\* Every variable keeps its shape, and the lock is held by the host that migrates.
TypeOK ==
    /\ version \in 0..Latest
    /\ rows \in SUBSET TodoIds /\ owned \in SUBSET rows
    /\ status \in [Hosts -> {"down", "starting", "migrating", "serving", "failed"}]
    /\ lock \in Hosts \cup {Nobody}
    /\ \A h \in Hosts : status[h] = "migrating" <=> lock = h

\* Whichever hosts of whichever builds start, fail and stop in between, a host
\* that serves finds every column its build reads and writes.
SchemaServesHost ==
    \A h \in Hosts : status[h] = "serving" => version >= Build[h]

\* Once the column TenantId is there, every todo has a tenant, although hosts of
\* builds that know of no tenants go on serving and inserting while the schema
\* is migrated under them.  A todo without one would be out of reach of them all.
TodosHaveTenants == version = Latest => owned = rows

\* A host that starts ends up serving or failed, or is stopped, and no other
\* host keeps it waiting for ever.
StartEnds ==
    \A h \in Hosts : status[h] = "starting" ~> status[h] \in {"serving", "failed", "down"}

\* Once a build without tenants has left a row behind, the schema is stuck: no
\* host of a build with tenants serves any more, however often it is started.
OldRowsBlock ==
    (version = 2 /\ rows # {}) ~> [](\A h \in Hosts : status[h] = "serving" => Build[h] < Latest)
==============================================================================
