-------------------------- MODULE MigrationsProofs --------------------------
(***************************************************************************)
(* Proofs about Migrations, for any number of hosts and any builds.        *)
(***************************************************************************)
EXTENDS Migrations, TLAPS

\* The inductive invariant: the properties themselves.
MInv == TypeOK /\ SchemaServesHost /\ TodosHaveTenants

\* The initial state satisfies the invariant.
LEMMA InitMInv == Init => MInv
BY MigrationsAssumption
DEF Init, MInv, TypeOK, SchemaServesHost, TodosHaveTenants, Latest

\* The steps of a host that starts keep the invariant.
LEMMA StartMInv ==
    ASSUME MInv, NEW h \in Hosts, StartAsync(h) \/ MigrateAsync(h) \/ Serve(h)
    PROVE  MInv'
<1>1. CASE StartAsync(h)
  BY <1>1 DEF StartAsync, table, MInv, TypeOK, SchemaServesHost, TodosHaveTenants
<1>2. CASE MigrateAsync(h)
  BY <1>2, MigrationsAssumption
  DEF MigrateAsync, table, MInv, TypeOK, SchemaServesHost, TodosHaveTenants
<1>3. CASE Serve(h)
  BY <1>3, MigrationsAssumption
  DEF Serve, table, MInv, TypeOK, SchemaServesHost, TodosHaveTenants
<1> QED BY <1>1, <1>2, <1>3

\* A migration that is applied moves the schema on, for the hosts that serve
\* too, and finds no todo if it is TenantId; a start that fails changes nothing.
LEMMA UpMInv ==
    ASSUME MInv, NEW h \in Hosts, Up(h) \/ UpFails(h) \/ StartThrows(h)
    PROVE  MInv'
<1>1. version \in 0..3 /\ Build[h] \in 1..3 /\ \A g \in Hosts : Build[g] \in 1..3
  BY MigrationsAssumption DEF MInv, TypeOK, Latest
<1>2. CASE Up(h)
  <2>1. TypeOK'
    BY <1>1, <1>2 DEF Up, table, MInv, TypeOK, Latest
  <2>2. SchemaServesHost'
    BY <1>1, <1>2 DEF Up, MInv, SchemaServesHost
  <2>3. TodosHaveTenants'
    <3>1. version' = 3 => rows = {}
      BY <1>1, <1>2 DEF Up, KeepsRows
    <3>2. owned \in SUBSET rows /\ rows' = rows /\ owned' = owned
      BY <1>2 DEF Up, table, MInv, TypeOK
    <3> QED BY <3>1, <3>2 DEF TodosHaveTenants, Latest
  <2> QED BY <2>1, <2>2, <2>3 DEF MInv
<1>3. CASE UpFails(h) \/ StartThrows(h)
  <2>1. UNCHANGED <<version, rows, owned>> /\ status' = [status EXCEPT ![h] = "failed"]
    BY <1>3 DEF UpFails, StartThrows, table
  <2>2. lock' = IF lock = h THEN Nobody ELSE lock
    BY <1>3 DEF UpFails, StartThrows, MInv, TypeOK
  <2>3. TypeOK'
    BY <2>1, <2>2, MigrationsAssumption DEF MInv, TypeOK
  <2>4. SchemaServesHost' /\ TodosHaveTenants'
    BY <2>1 DEF MInv, TypeOK, SchemaServesHost, TodosHaveTenants
  <2> QED BY <2>3, <2>4 DEF MInv
<1> QED BY <1>2, <1>3

\* Rows that are inserted and hosts that stop keep the invariant.
LEMMA OtherMInv ==
    ASSUME MInv, NEW h \in Hosts, Stop(h) \/ (\E t \in TodoIds : Insert(h, t))
    PROVE  MInv'
<1>1. CASE Stop(h)
  BY <1>1, MigrationsAssumption DEF Stop, table, MInv, TypeOK, SchemaServesHost, TodosHaveTenants
<1>2. ASSUME NEW t \in TodoIds, Insert(h, t) PROVE MInv'
  <2>1. TypeOK' /\ SchemaServesHost'
    BY <1>2 DEF Insert, MInv, TypeOK, SchemaServesHost
  <2>2. ASSUME version = Latest PROVE Build[h] = Latest
    <3>1. Build[h] \in 1..3
      BY MigrationsAssumption DEF Latest
    <3> QED BY <1>2, <2>2, <3>1 DEF Insert, KeepsRows, Latest
  <2>3. TodosHaveTenants'
    BY <1>2, <2>2 DEF Insert, MInv, TodosHaveTenants
  <2> QED BY <2>1, <2>3 DEF MInv
<1> QED BY <1>1, <1>2

-----------------------------------------------------------------------------
\* Whatever builds are started, stopped and started again beside one another,
\* MInv holds throughout.
THEOREM Invariant == Spec => []MInv
<1>1. Init => MInv
  BY InitMInv
<1>2. MInv /\ [Next]_vars => MInv'
  <2> SUFFICES ASSUME MInv, [Next]_vars PROVE MInv'
    OBVIOUS
  <2>1. ASSUME NEW h \in Hosts,
               StartAsync(h) \/ Startup(h) \/ StartThrows(h) \/ Stop(h) \/ (\E t \in TodoIds : Insert(h, t))
        PROVE  MInv'
    BY <2>1, StartMInv, UpMInv, OtherMInv DEF Startup
  <2>2. CASE UNCHANGED vars
    BY <2>2 DEF vars, table, MInv, TypeOK, SchemaServesHost, TodosHaveTenants
  <2> QED BY <2>1, <2>2 DEF Next
<1> QED BY <1>1, <1>2, PTL DEF Spec

\* A host that serves finds all the columns of its build.
THEOREM SchemaIsComplete == Spec => []SchemaServesHost
<1>1. MInv => SchemaServesHost
  BY DEF MInv
<1> QED BY <1>1, Invariant, PTL

\* Every variable keeps its shape, the version of the schema within its migrations.
THEOREM TypeCorrect == Spec => []TypeOK
<1>1. MInv => TypeOK
  BY DEF MInv
<1> QED BY <1>1, Invariant, PTL

\* However hosts of builds with and without tenants overlap while the schema is
\* migrated, no todo is without a tenant once the schema has the column.
THEOREM TenantsAreComplete == Spec => []TodosHaveTenants
<1>1. MInv => TodosHaveTenants
  BY DEF MInv
<1> QED BY <1>1, Invariant, PTL

-----------------------------------------------------------------------------
(* The schema that is stuck.  OldRowsBlock is a leads-to, but what it promises *)
(* holds at once: the premise is never left and excludes what it excludes,   *)
(* so that the proof needs no fairness.                                      *)

Stuck == version = 2 /\ rows # {}

\* No step leads out of a schema that is stuck: TenantId, the only migration
\* that is missing, cannot be applied to rows, and rows are never removed.
LEMMA StuckStays ==
    ASSUME MInv, Stuck, [Next]_vars
    PROVE  Stuck'
<1>1. ASSUME NEW h \in Hosts, Up(h) PROVE FALSE
  <2>1. Build[h] \in 1..3
    BY MigrationsAssumption DEF Latest
  <2> QED BY <1>1, <2>1 DEF Up, KeepsRows, Stuck
<1>2. ASSUME NEW h \in Hosts, NEW t \in TodoIds, Insert(h, t) PROVE Stuck'
  BY <1>2 DEF Insert, Stuck
<1>3. ASSUME NEW h \in Hosts,
             \/ StartAsync(h) \/ MigrateAsync(h) \/ UpFails(h) \/ StartThrows(h)
             \/ Serve(h) \/ Stop(h)
      PROVE  Stuck'
  BY <1>3 DEF StartAsync, MigrateAsync, UpFails, StartThrows, Serve, Stop, table, Stuck
<1>4. CASE UNCHANGED vars
  BY <1>4 DEF vars, table, Stuck
<1> QED BY <1>1, <1>2, <1>3, <1>4 DEF Next, Startup

\* While it is stuck, what serves is of a build without tenants.
LEMMA StuckServes ==
    ASSUME MInv, Stuck
    PROVE  \A h \in Hosts : status[h] = "serving" => Build[h] < Latest
<1>1. \A h \in Hosts : Build[h] \in 1..3
  BY MigrationsAssumption DEF Latest
<1> QED BY <1>1 DEF MInv, SchemaServesHost, Stuck, Latest

\* Once a build without tenants has left a row behind, no host of a build with
\* tenants serves any more, whatever is started and stopped.
THEOREM OldRowsBlockUpgrades == Spec => OldRowsBlock
<1> DEFINE Older == \A h \in Hosts : status[h] = "serving" => Build[h] < Latest
<1>1. MInv /\ Stuck /\ [Next]_vars => Stuck'
  BY StuckStays
<1>2. MInv /\ Stuck => Older
  BY StuckServes
<1>3. OldRowsBlock <=> (Stuck ~> []Older)
  BY DEF OldRowsBlock, Stuck
<1> HIDE DEF Older
<1> QED BY <1>1, <1>2, <1>3, Invariant, PTL DEF Spec
==============================================================================
