-------------------------------- MODULE Todos --------------------------------
(***************************************************************************)
(* The Todos module of the monolith, with the two hosts that serve it (the *)
(* REST ApiService and the GraphQLService), its PostgreSQL schema and the  *)
(* Heart module that listens to its integration event.                     *)
(*                                                                         *)
(* A request owns one dependency-injection scope, hence one TodosDbContext: *)
(* a change tracker whose content survives a save that failed.  A REST     *)
(* request runs one command; a GraphQL request runs its mutation fields    *)
(* one after the other in the same scope.  Each command is cut at the      *)
(* points where other requests, a fault or a crash can come between:       *)
(* handle (the read and the change in memory), save (one database          *)
(* transaction), dispatch (one step per entity with events), return.       *)
(***************************************************************************)
EXTENDS Naturals, Sequences

CONSTANTS
    Requests,               \* HTTP requests, on any host
    TodoIds,                \* TodoId values (version 7 GUIDs)
    Tenants,                \* values of the "organization" claim
    NoTenant, Nobody, NoTodo, \* the nulls
    Hosts,                  \* the hosts that run, of "Api" and "GraphQL"
    Principals,             \* the claims a caller may carry
    MaxFields,              \* bound: mutation fields of one GraphQL request
    MaxFaults,              \* bound: failed saves, lost answers, aborts, crashes
    UnhandledPublishThrows  \* Mediator on a notification nobody handles

ASSUME ConstantsAssumption ==
    /\ Hosts \subseteq {"Api", "GraphQL"}
    /\ Principals \subseteq [tenant : Tenants \cup {NoTenant}, email : BOOLEAN]
    /\ NoTenant \notin Tenants
    /\ Nobody \notin Requests
    /\ NoTodo \notin TodoIds
    /\ MaxFields \in Nat \ {0}
    /\ MaxFaults \in Nat
    /\ UnhandledPublishThrows \in BOOLEAN

VARIABLES
    rows,       \* table Todos: one row, or NoRow, per id
    trail,      \* table AuditTrails: number of entries per id and kind
    issued,     \* the ids NewTodoId has returned so far
    published,  \* TodoIsDoneIntegrationEvents published, per id
    heard,      \* of these, the ones LogTodoIsDoneHandler received
    pc,         \* where each request stands
    caller,     \* its host and the claims of its principal
    script,     \* the commands it asks for
    answers,    \* the outcome of each command executed so far
    entries,    \* its change tracker: the todos its TodosDbContext tracks
    audits,     \* ... and the audit entries added there but not saved yet
    queue,      \* entitiesWithEvents still to dispatch
    target,     \* the entity its current command returns
    faults      \* faults so far, for the bound MaxFaults

database == <<rows, trail, issued>>
events   == <<published, heard>>
scope    == <<entries, audits, queue, target>>
vars == <<rows, trail, issued, published, heard, pc, caller, script, answers,
          entries, audits, queue, target, faults>>

-----------------------------------------------------------------------------
(* Data *)

\* A row: its tenant, Done, and the pair ModifiedBy, ModifiedAt taken as one
\* stamp, the request that wrote it (Nobody stands for the initial nulls).
Row == [exists : BOOLEAN, tenant : Tenants \cup {NoTenant}, done : BOOLEAN,
        stamp : Requests \cup {Nobody}]

NoRow == [exists |-> FALSE, tenant |-> NoTenant, done |-> FALSE, stamp |-> Nobody]
OpenRow(tn) == [exists |-> TRUE, tenant |-> tn, done |-> FALSE, stamp |-> Nobody]

\* ETrailType; nothing deletes a todo, so "Delete" is never written.
TrailTypes == {"Create", "Edit", "Undefined"}
NoAudits == [t \in TodoIds |-> [k \in TrailTypes |-> 0]]

\* A tracked entity: its state, Done in memory, the stamp it was loaded with
\* (the original value of the concurrency tokens), and whether its list of
\* domain events holds a TodoIsDoneEvent.
Entry == [state : {"Detached", "Added", "Unchanged", "Modified"},
          done : BOOLEAN, original : Requests \cup {Nobody}, event : BOOLEAN]

Untracked == [state |-> "Detached", done |-> FALSE, original |-> Nobody, event |-> FALSE]
Loaded(t) == [state |-> "Unchanged", done |-> rows[t].done,
              original |-> rows[t].stamp, event |-> FALSE]
NewEntity == [state |-> "Added", done |-> FALSE, original |-> Nobody, event |-> FALSE]

\* Mutant: the change of Done goes undetected, so nothing is written.
FinishedUndetected(e) == [state |-> "Unchanged", done |-> TRUE, original |-> e.original,
                          event |-> TRUE]

\* TodoEntity.SetDone on an entity that is not done, as DetectChanges sees it:
\* never one it has Added, whose id the request could not name on arrival.
Finished(e) == [state |-> "Modified", done |-> TRUE, original |-> e.original, event |-> TRUE]

EmptyTracker == [t \in TodoIds |-> Untracked]

Command == [op : {"Create", "GetAll"}, id : {NoTodo}] \cup [op : {"SetDone", "Get"}, id : TodoIds]
Answer == [command : Command, ids : SUBSET TodoIds,
           result : {"Ok", "Invalid", "NotFound", "Conflict", "Forbidden", "Error"}]

\* What a client may ask for: ids it can have been told, those of rows.
KnownIds == {t \in TodoIds : rows[t].exists}
Mutations == {[op |-> "Create", id |-> NoTodo]} \cup [op : {"SetDone"}, id : KnownIds]
Queries == {[op |-> "GetAll", id |-> NoTodo]} \cup [op : {"Get"}, id : KnownIds]

\* A query is a request of its own on both hosts: the fields of a GraphQL
\* query get a scope each.
Scripts(h) == {<<q>> : q \in Queries} \cup
              UNION {[1..n -> Mutations] : n \in 1..(IF h = "Api" THEN 1 ELSE MaxFields)}

Current(r) == script[r][Len(answers[r]) + 1]

\* Mutant: a TodosDbContext without its query filter.
VisibleToAll(r, t) == rows[t].exists

\* The query filter of TodosDbContext; a null tenant equals no TenantId.
Visible(r, t) == rows[t].exists /\ rows[t].tenant = caller[r].tenant

-----------------------------------------------------------------------------
(* Both hosts share the database; the model starts on any migrated database *)
(* that holds open todos.                                                   *)
Init ==
    /\ rows \in [TodoIds -> {NoRow} \cup {OpenRow(tn) : tn \in Tenants}]
    /\ trail = [t \in TodoIds |-> [k \in TrailTypes |->
                    IF rows[t].exists /\ k = "Create" THEN 1 ELSE 0]]
    /\ issued = {t \in TodoIds : rows[t].exists}
    /\ published = [t \in TodoIds |-> 0]
    /\ heard = [t \in TodoIds |-> 0]
    /\ pc = [r \in Requests |-> "idle"]
    /\ caller = [r \in Requests |-> [host |-> "Api", tenant |-> NoTenant, email |-> FALSE]]
    /\ script = [r \in Requests |-> <<>>]
    /\ answers = [r \in Requests |-> <<>>]
    /\ entries = [r \in Requests |-> EmptyTracker]
    /\ audits = [r \in Requests |-> NoAudits]
    /\ queue = [r \in Requests |-> {}]
    /\ target = [r \in Requests |-> NoTodo]
    /\ faults = 0

\* RequireTenant on the v1/todos group; GraphQL fields carry [Authorize] only.
Authorized(h, p) == h = "Api" => p.tenant # NoTenant

\* A caller that is authorized gets a scope; the api answers 403 to another.
Admit(r, h, p) ==
    /\ Authorized(h, p)
    /\ pc' = [pc EXCEPT ![r] = "handle"]
    /\ UNCHANGED answers

Forbid(r, h, p, s) ==
    /\ ~Authorized(h, p)
    /\ pc' = [pc EXCEPT ![r] = "over"]
    /\ answers' = [answers EXCEPT ![r] =
            <<[command |-> s[1], ids |-> {}, result |-> "Forbidden"]>>]

Arrival(r, h, p, s) ==
    /\ caller' = [caller EXCEPT ![r] = [host |-> h, tenant |-> p.tenant, email |-> p.email]]
    /\ script' = [script EXCEPT ![r] = s]
    /\ Admit(r, h, p) \/ Forbid(r, h, p, s)

Arrive(r) ==
    /\ pc[r] = "idle"
    /\ \E h \in Hosts, p \in Principals : \E s \in Scripts(h) : Arrival(r, h, p, s)
    /\ UNCHANGED <<database, events, scope, faults>>

\* The current command ends with a result and leaves the tracker es and the
\* unsaved audit entries as in the scope.  The next mutation field finds them
\* there; the scope goes with the request.  GraphQL may give up the remaining
\* fields once one of them threw.  Even if it does not, the payloads are not
\* null, so that a client may be shown the error alone: answers has those of
\* every field, and what is said of them covers the ones that are delivered.
Reply(r, result, ids, es, as) ==
    /\ answers' = [answers EXCEPT ![r] =
            Append(@, [command |-> Current(r), ids |-> ids, result |-> result])]
    /\ target' = [target EXCEPT ![r] = NoTodo]
    /\ \/ /\ Len(answers[r]) + 1 < Len(script[r])
          /\ pc' = [pc EXCEPT ![r] = "handle"]
          /\ entries' = [entries EXCEPT ![r] = es]
          /\ audits' = [audits EXCEPT ![r] = as]
       \/ /\ Len(answers[r]) + 1 = Len(script[r]) \/ result = "Error"
          /\ pc' = [pc EXCEPT ![r] = "over"]
          /\ entries' = [entries EXCEPT ![r] = EmptyTracker]
          /\ audits' = [audits EXCEPT ![r] = NoAudits]
    /\ UNCHANGED <<caller, script>>

\* Mutant: the handler forgets which entity it returns.
StageUnnamed(r, t, e) ==
    /\ entries' = [entries EXCEPT ![r] = [entries[r] EXCEPT ![t] = e]]
    /\ pc' = [pc EXCEPT ![r] = "save"]
    /\ UNCHANGED <<caller, script, answers, audits, target>>

\* Go on to SaveChangesAsync with entity t in state e.
Stage(r, t, e) ==
    /\ entries' = [entries EXCEPT ![r] = [entries[r] EXCEPT ![t] = e]]
    /\ target' = [target EXCEPT ![r] = t]
    /\ pc' = [pc EXCEPT ![r] = "save"]
    /\ UNCHANGED <<caller, script, answers, audits>>

Create(r) ==
    /\ pc[r] = "handle" /\ Current(r).op = "Create"
    /\ \/ /\ Reply(r, "Invalid", {}, entries[r], audits[r])        \* a blank name
          /\ UNCHANGED issued
       \/ \E t \in TodoIds \ issued :
          /\ issued' = issued \cup {t}
          /\ Stage(r, t, NewEntity)
    /\ UNCHANGED <<rows, trail, events, queue, faults>>

\* The query always goes to the database, but an entity that is already
\* tracked is returned as the tracker holds it.
SetDone(r) ==
    LET t == Current(r).id
        e == IF entries[r][t].state = "Detached" THEN Loaded(t) ELSE entries[r][t]
    IN  /\ pc[r] = "handle" /\ Current(r).op = "SetDone"
        /\ \/ /\ ~Visible(r, t)
              /\ Reply(r, "NotFound", {}, entries[r], audits[r])
           \/ /\ Visible(r, t) /\ e.done
              /\ Reply(r, "Conflict", {}, [entries[r] EXCEPT ![t] = e], audits[r])
           \/ /\ Visible(r, t) /\ ~e.done
              /\ Stage(r, t, Finished(e))
        /\ UNCHANGED <<database, events, queue, faults>>

Get(r) ==
    LET t == Current(r).id
    IN  /\ pc[r] = "handle" /\ Current(r).op = "Get"
        /\ IF Visible(r, t) THEN Reply(r, "Ok", {t}, entries[r], audits[r])
                            ELSE Reply(r, "NotFound", {}, entries[r], audits[r])
        /\ UNCHANGED <<database, events, queue, faults>>

GetAll(r) ==
    /\ pc[r] = "handle" /\ Current(r).op = "GetAll"
    /\ Reply(r, "Ok", {t \in TodoIds : Visible(r, t)}, entries[r], audits[r])
    /\ UNCHANGED <<database, events, queue, faults>>

-----------------------------------------------------------------------------
(* SaveChangesAsync *)

AuditKind(state) == IF state = "Added" THEN "Create"
                    ELSE IF state = "Modified" THEN "Edit" ELSE "Undefined"

\* UpdateAuditableEntitiesInterceptor: one more audit entry for every tracked
\* entity, whatever its state.  It works on the tracker before the transaction,
\* so a failed save keeps the entries it added.
Intercepted(r) ==
    [t \in TodoIds |-> [k \in TrailTypes |->
        IF entries[r][t].state # "Detached" /\ k = AuditKind(entries[r][t].state)
        THEN audits[r][t][k] + 1 ELSE audits[r][t][k]]]

InState(r, s) == {t \in TodoIds : entries[r][t].state = s}

\* Mutant: ModifiedBy and ModifiedAt are no concurrency tokens.
CommitsBlindly(r) ==
    /\ caller[r].email
    /\ \A t \in InState(r, "Added") : caller[r].tenant # NoTenant /\ ~rows[t].exists
    /\ \A t \in InState(r, "Modified") : rows[t].exists

\* What the transaction checks: UserIdentifier, CreatedBy and TenantId are NOT
\* NULL, Id is the primary key, and an UPDATE finds the original stamp.
CanCommit(r) ==
    /\ caller[r].email
    /\ \A t \in InState(r, "Added") : caller[r].tenant # NoTenant /\ ~rows[t].exists
    /\ \A t \in InState(r, "Modified") :
            rows[t].exists /\ rows[t].stamp = entries[r][t].original

\* SetTenantIdInterceptor gives inserted rows the tenant of the caller.
Inserted(r, t) == [exists |-> TRUE, tenant |-> caller[r].tenant,
                   done |-> entries[r][t].done, stamp |-> Nobody]
Updated(r, t) == [exists |-> TRUE, tenant |-> rows[t].tenant,
                  done |-> entries[r][t].done, stamp |-> r]

Write(r) ==
    /\ rows' = [t \in TodoIds |-> IF t \in InState(r, "Added") THEN Inserted(r, t)
                                  ELSE IF t \in InState(r, "Modified") THEN Updated(r, t)
                                  ELSE rows[t]]
    /\ trail' = [t \in TodoIds |-> [k \in TrailTypes |-> trail[t][k] + Intercepted(r)[t][k]]]

\* AcceptAllChanges: everything tracked is now as the database has it.
Accepted(r) ==
    [t \in TodoIds |->
        IF t \in InState(r, "Detached") THEN entries[r][t]
        ELSE [state |-> "Unchanged", done |-> entries[r][t].done, event |-> entries[r][t].event,
              original |-> IF t \in InState(r, "Modified") THEN r ELSE entries[r][t].original]]

\* Mutant: the dispatcher is registered on the Api only.
SavesUndispatched(r) ==
    /\ pc[r] = "save" /\ CanCommit(r)
    /\ Write(r)
    /\ entries' = [entries EXCEPT ![r] = Accepted(r)]
    /\ audits' = [audits EXCEPT ![r] = NoAudits]
    /\ queue' = [queue EXCEPT ![r] =
            {t \in TodoIds : caller[r].host = "Api" /\ entries[r][t].event}]
    /\ pc' = [pc EXCEPT ![r] = "dispatch"]
    /\ UNCHANGED <<issued, events, caller, script, answers, target, faults>>

Save(r) ==
    /\ pc[r] = "save" /\ CanCommit(r)
    /\ Write(r)
    /\ entries' = [entries EXCEPT ![r] = Accepted(r)]
    /\ audits' = [audits EXCEPT ![r] = NoAudits]
    /\ queue' = [queue EXCEPT ![r] = {t \in TodoIds : entries[r][t].event}]
    /\ pc' = [pc EXCEPT ![r] = "dispatch"]
    /\ UNCHANGED <<issued, events, caller, script, answers, target, faults>>

\* Mutant: the audit entries are saved even if the transaction is rejected.
AuditsRejected(r) ==
    /\ pc[r] = "save" /\ ~CanCommit(r)
    /\ trail' = [t \in TodoIds |-> [k \in TrailTypes |-> trail[t][k] + Intercepted(r)[t][k]]]
    /\ Reply(r, "Error", {}, entries[r], NoAudits)
    /\ UNCHANGED <<rows, issued, events, queue, faults>>

\* Mutant: a rejected save is tried again as it is.
RetriesRejected(r) ==
    pc[r] = "save" /\ ~CanCommit(r) /\ UNCHANGED vars

\* DbUpdateException or DbUpdateConcurrencyException.
SaveRejected(r) ==
    /\ pc[r] = "save" /\ ~CanCommit(r)
    /\ Reply(r, "Error", {}, entries[r], Intercepted(r))
    /\ UNCHANGED <<database, events, queue, faults>>

\* Mutant: the audit entries are saved before the transaction that fails.
AuditsFailed(r) ==
    /\ pc[r] = "save" /\ faults < MaxFaults
    /\ faults' = faults + 1
    /\ trail' = [t \in TodoIds |-> [k \in TrailTypes |-> trail[t][k] + Intercepted(r)[t][k]]]
    /\ Reply(r, "Error", {}, entries[r], NoAudits)
    /\ UNCHANGED <<rows, issued, events, queue>>

\* Mutant: a failed save is reported as a conflict.
ConflictsOnFailure(r) ==
    /\ pc[r] = "save" /\ faults < MaxFaults
    /\ faults' = faults + 1
    /\ Reply(r, "Conflict", {}, entries[r], Intercepted(r))
    /\ UNCHANGED <<database, events, queue>>

\* Mutant: the events are dispatched even if the save fails.
DispatchesOnFailure(r) ==
    /\ pc[r] = "save" /\ faults < MaxFaults
    /\ faults' = faults + 1
    /\ queue' = [queue EXCEPT ![r] = {t \in TodoIds : entries[r][t].event}]
    /\ pc' = [pc EXCEPT ![r] = "dispatch"]
    /\ UNCHANGED <<database, events, caller, script, answers, entries, audits, target>>

\* The database cannot be reached, or the token of an aborted GraphQL request
\* cancels the command.
SaveFails(r) ==
    /\ pc[r] = "save" /\ faults < MaxFaults
    /\ faults' = faults + 1
    /\ Reply(r, "Error", {}, entries[r], Intercepted(r))
    /\ UNCHANGED <<database, events, queue>>

\* Mutant: a retry that meets its own commit is taken for a success, and the
\* dispatch does not follow.
SavesUnannounced(r) ==
    /\ pc[r] = "save" /\ CanCommit(r) /\ faults < MaxFaults
    /\ faults' = faults + 1
    /\ Write(r)
    /\ Reply(r, "Ok", {target[r]}, Accepted(r), NoAudits)
    /\ UNCHANGED <<issued, events, queue>>

\* The transaction commits but its acknowledgement is lost: either SaveChanges
\* throws, or the execution strategy retries and meets its own first commit.
SaveUnacknowledged(r) ==
    /\ pc[r] = "save" /\ CanCommit(r) /\ faults < MaxFaults
    /\ faults' = faults + 1
    /\ Write(r)
    /\ Reply(r, "Error", {}, entries[r], Intercepted(r))
    /\ UNCHANGED <<issued, events, queue>>

-----------------------------------------------------------------------------
(* DispatchAndClearEventsAsync: the events of an entity are cleared, then    *)
(* published; the domain event handler publishes the integration event.      *)

\* Mutant: Heart is among the assemblies of no host.
HandledNowhere(h) == FALSE

Handled(h) == h = "Api"        \* Heart is among the assemblies of the Api only

\* Mutant: the events stay on the entity.
Uncleared(r, t) == entries[r]

Cleared(r, t) ==
    LET e == entries[r][t]
    IN  [entries[r] EXCEPT ![t] = [state |-> e.state, done |-> e.done,
                                   original |-> e.original, event |-> FALSE]]

Publish(r, t) ==
    /\ pc[r] = "dispatch" /\ t \in queue[r]
    /\ Handled(caller[r].host) \/ ~UnhandledPublishThrows
    /\ published' = [published EXCEPT ![t] = @ + 1]
    /\ heard' = [heard EXCEPT ![t] = @ + IF Handled(caller[r].host) THEN 1 ELSE 0]
    /\ entries' = [entries EXCEPT ![r] = Cleared(r, t)]
    /\ queue' = [queue EXCEPT ![r] = @ \ {t}]
    /\ UNCHANGED <<database, pc, caller, script, answers, audits, target, faults>>

\* The exception leaves the loop: this entity's events are gone, those of the
\* other entities stay on them until a later save.
PublishThrows(r, t) ==
    /\ pc[r] = "dispatch" /\ t \in queue[r]
    /\ ~Handled(caller[r].host) /\ UnhandledPublishThrows
    /\ queue' = [queue EXCEPT ![r] = {}]
    /\ Reply(r, "Error", {}, Cleared(r, t), audits[r])
    /\ UNCHANGED <<database, events, faults>>

Return(r) ==
    /\ pc[r] = "dispatch" /\ queue[r] = {}
    /\ Reply(r, "Ok", {target[r]}, entries[r], audits[r])
    /\ UNCHANGED <<database, events, queue, faults>>

-----------------------------------------------------------------------------
InProgress(r) == pc[r] \in {"handle", "save", "dispatch"}

\* A client leaves between two mutation fields.  The REST endpoints pass no
\* token, so a client that leaves changes nothing there.
Abort(r) ==
    /\ pc[r] = "handle" /\ caller[r].host = "GraphQL" /\ faults < MaxFaults
    /\ faults' = faults + 1
    /\ pc' = [pc EXCEPT ![r] = "over"]
    /\ entries' = [entries EXCEPT ![r] = EmptyTracker]
    /\ audits' = [audits EXCEPT ![r] = NoAudits]
    /\ UNCHANGED <<database, events, caller, script, answers, queue, target>>

\* A host stops (a crash, or fly.io stopping the machine): its requests are
\* lost with their scopes, and nothing resumes them after the restart.
Crash(h) ==
    LET lost == {r \in Requests : InProgress(r) /\ caller[r].host = h}
    IN  /\ lost # {} /\ faults < MaxFaults
        /\ faults' = faults + 1
        /\ pc' = [r \in Requests |-> IF r \in lost THEN "over" ELSE pc[r]]
        /\ entries' = [r \in Requests |-> IF r \in lost THEN EmptyTracker ELSE entries[r]]
        /\ audits' = [r \in Requests |-> IF r \in lost THEN NoAudits ELSE audits[r]]
        /\ queue' = [r \in Requests |-> IF r \in lost THEN {} ELSE queue[r]]
        /\ target' = [r \in Requests |-> IF r \in lost THEN NoTodo ELSE target[r]]
        /\ UNCHANGED <<database, events, caller, script, answers>>

Handle(r) == Create(r) \/ SetDone(r) \/ Get(r) \/ GetAll(r)
Dispatch(r) == (\E t \in TodoIds : Publish(r, t) \/ PublishThrows(r, t)) \/ Return(r)

\* The steps of the code itself; the others are arrivals and faults.
Progress(r) == Handle(r) \/ Save(r) \/ SaveRejected(r) \/ Dispatch(r)

Next ==
    \/ \E r \in Requests : Arrive(r) \/ Progress(r) \/ SaveFails(r)
                            \/ SaveUnacknowledged(r) \/ Abort(r)
    \/ \E h \in Hosts : Crash(h)

Spec == Init /\ [][Next]_vars
FairSpec == Spec /\ \A r \in Requests : WF_vars(Progress(r))

-----------------------------------------------------------------------------
(* Properties *)

\* Every variable keeps its shape.
TypeOK ==
    /\ rows \in [TodoIds -> Row]
    /\ trail \in [TodoIds -> [TrailTypes -> Nat]]
    /\ issued \in SUBSET TodoIds
    /\ published \in [TodoIds -> Nat]
    /\ heard \in [TodoIds -> Nat]
    /\ pc \in [Requests -> {"idle", "handle", "save", "dispatch", "over"}]
    /\ caller \in [Requests -> [host : {"Api", "GraphQL"}, tenant : Tenants \cup {NoTenant},
                                email : BOOLEAN]]
    /\ script \in [Requests -> Seq(Command)]
    /\ answers \in [Requests -> Seq(Answer)]
    /\ entries \in [Requests -> [TodoIds -> Entry]]
    /\ audits \in [Requests -> [TodoIds -> [TrailTypes -> Nat]]]
    /\ queue \in [Requests -> SUBSET TodoIds]
    /\ target \in [Requests -> TodoIds \cup {NoTodo}]
    /\ faults \in Nat

\* However many requests, hosts and mutation fields finish the same todo, and
\* whichever of their saves fail or are retried, its integration event goes out
\* at most once, and never before the row is committed as done.
EventAtMostOnce ==
    \A t \in TodoIds : published[t] <= 1 /\ (published[t] = 1 => rows[t].done)

AnswersOf(r) == {answers[r][i] : i \in 1..Len(answers[r])}

\* Of all the commands, in any request, that ask to finish one todo, at most
\* one is told that it did: the concurrency tokens let one save through.
OneWinner ==
    \A r1, r2 \in Requests : \A i \in DOMAIN answers[r1], j \in DOMAIN answers[r2] :
        /\ answers[r1][i].command.op = "SetDone" /\ answers[r1][i].result = "Ok"
        /\ answers[r2][j].command = answers[r1][i].command /\ answers[r2][j].result = "Ok"
        => r1 = r2 /\ i = j

\* What a client was told stays true: a todo it was given exists, a todo it was
\* told it finished is done, and a todo it was told does not exist is not of
\* its tenant.  No later request, failed save or crash takes that back.
AnswersHold ==
    \A r \in Requests : \A a \in AnswersOf(r) :
        /\ \A t \in a.ids : rows[t].exists
        /\ a.command.op = "SetDone" /\ a.result = "Ok" => rows[a.command.id].done
        /\ a.result = "NotFound" => rows[a.command.id].tenant # caller[r].tenant

\* No request is shown, keeps in its tracker or modifies a row of a tenant that
\* is not its caller's, on either host.
TenantIsolation ==
    \A r \in Requests, t \in TodoIds :
        \/ \E a \in AnswersOf(r) : t \in a.ids
        \/ rows[t].stamp = r
        \/ rows[t].exists /\ entries[r][t].state # "Detached"
        => rows[t].tenant = caller[r].tenant

\* The audit tables tell the story of the rows: an entry "Create" exactly for
\* the rows that exist, an entry "Edit" exactly for those that are done, even
\* when a scope saves again what an earlier field of the request left behind.
AuditsMatchRows ==
    \A t \in TodoIds :
        /\ trail[t]["Create"] > 0 <=> rows[t].exists
        /\ trail[t]["Edit"] > 0 <=> rows[t].done

\* With one command per scope there is exactly one entry per change, and none
\* for an entity that did not change.
AuditsExactlyOnce ==
    \A t \in TodoIds :
        /\ trail[t]["Create"] = IF rows[t].exists THEN 1 ELSE 0
        /\ trail[t]["Edit"] = IF rows[t].done THEN 1 ELSE 0
        /\ trail[t]["Undefined"] = 0

\* A command is refused with "This todo is already in Done state" only when
\* the todo is done.
ConflictIsTrue ==
    \A r \in Requests : \A a \in AnswersOf(r) :
        a.result = "Conflict" => rows[a.command.id].done

\* A client that is told it finished a todo is told so after the rest of the
\* monolith: the event is out, and the Heart module has it if the todo was
\* finished through the Api.
AnnouncedBeforeAnswer ==
    \A r \in Requests : \A a \in AnswersOf(r) :
        a.command.op = "SetDone" /\ a.result = "Ok" =>
            /\ published[a.command.id] = 1
            /\ caller[r].host = "Api" => heard[a.command.id] = 1

\* Request r may not vouch for what it wrote: a command of it failed, or it
\* ended without an answer to all of them.
Doubtful(r) ==
    \/ \E a \in AnswersOf(r) : a.result = "Error"
    \/ pc[r] = "over" /\ Len(answers[r]) < Len(script[r])

\* An event is not lost in silence: when a todo is done and its event is not
\* out, the request that finished it is about to dispatch it, or its client
\* has seen it fail or never had its answer.
LossIsNoticed ==
    \A t \in TodoIds, r \in Requests :
        rows[t].stamp = r /\ published[t] = 0 => t \in queue[r] \/ Doubtful(r)

\* A conflict is told of a todo that is done or, in a scope that outlives a
\* failed save, of one that an earlier command of the request failed to finish.
ConflictHasCause ==
    \A r \in Requests : \A i \in DOMAIN answers[r] :
        answers[r][i].result = "Conflict" =>
            \/ rows[answers[r][i].command.id].done
            \/ \E j \in 1..(i - 1) : answers[r][j].command = answers[r][i].command
                                     /\ answers[r][j].result = "Error"

\* A row never disappears, changes tenant or goes back to open, and once a
\* request has modified it no other request overwrites it.
RowsOnlyAdvance ==
    [][\A t \in TodoIds : rows[t].exists =>
          /\ rows'[t].exists /\ rows'[t].tenant = rows[t].tenant
          /\ rows[t].done => rows'[t] = rows[t]]_vars

Phase(t) == IF ~rows[t].exists THEN "absent" ELSE IF rows[t].done THEN "done" ELSE "open"

Lifecycle == INSTANCE TodoLifecycle WITH phase <- [t \in TodoIds |-> Phase(t)],
                                         announced <- published

\* The change tracker, the interceptors and the dispatcher together implement
\* the lifecycle: a todo is created open, finished once and announced once.
ImplementsLifecycle == Lifecycle!Spec

\* While nothing fails they also announce every todo that is done.
ImplementsFairLifecycle == Lifecycle!FairSpec

\* Every request that arrived is over at some time: no save is retried for ever.
EveryRequestEnds ==
    \A r \in Requests : pc[r] # "idle" ~> pc[r] = "over"

\* While nothing fails, the Heart module hears of every todo that a request of
\* the Api finished, whatever the GraphQL host does with it at the same time.
ApiDoneReachesHeart ==
    \A r \in Requests, t \in TodoIds :
        rows[t].done /\ rows[t].stamp = r /\ caller[r].host = "Api" ~> heard[t] = 1

\* While nothing fails, the Heart module hears of every todo that is done.
DoneReachesHeart ==
    \A t \in TodoIds : rows[t].done ~> heard[t] = 1
==============================================================================
