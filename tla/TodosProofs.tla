----------------------------- MODULE TodosProofs -----------------------------
(* Theorems of Todos, for every set of requests, todos and tenants, every    *)
(* length of a GraphQL request and any number of faults.                     *)
EXTENDS Todos, TLAPS

-----------------------------------------------------------------------------
(* The inductive invariant *)

\* A request that has not arrived has no answers; one in progress has a command
\* to execute; one that saves or dispatches has the entity it answers with.
Positioned ==
    /\ \A r \in Requests : pc[r] = "idle" => answers[r] = <<>>
    /\ \A r \in Requests : InProgress(r) => Len(answers[r]) < Len(script[r])
    /\ \A r \in Requests : pc[r] \in {"save", "dispatch"} => target[r] \in TodoIds

TypeInv == TypeOK /\ Positioned

\* A row carries a stamp exactly when it is done, and only issued ids have rows.
RowsInv ==
    \A t \in TodoIds :
        /\ rows[t].done <=> rows[t].stamp # Nobody
        /\ rows[t].done => rows[t].exists
        /\ rows[t].exists => t \in issued

\* What request r may hold as its entry e for a todo with this row, id issued or
\* not, and number of published events: nothing modified but towards done, from a
\* row that had no stamp; an event on an unchanged entity only at the one request
\* that stamped the row, as long as the event has not been published.
Sound(e, r, row, known, events_out) ==
    /\ e.state = "Detached" => ~e.event
    /\ e.state = "Added" => ~e.event /\ ~e.done /\ known
    /\ e.state = "Modified" => e.done /\ e.original = Nobody /\ row.exists
    /\ e.state = "Unchanged" /\ e.event => row.stamp = r /\ events_out = 0
    /\ ~e.done => e.original = Nobody

TrackerInv ==
    \A r \in Requests, t \in TodoIds :
        Sound(entries[r][t], r, rows[t], t \in issued, published[t])

\* Only a dispatching request has a queue, of entities saved with their event.
QueueInv ==
    \A r \in Requests :
        /\ pc[r] # "dispatch" => queue[r] = {}
        /\ \A t \in queue[r] : /\ entries[r][t].event
                               /\ entries[r][t].state = "Unchanged"

IInv == TypeInv /\ RowsInv /\ TrackerInv /\ QueueInv /\ EventAtMostOnce

-----------------------------------------------------------------------------
(* Types of the operators *)

\* The constants have the types the steps below use.
LEMMA NullsDiffer == Nobody \notin Requests /\ NoTodo \notin TodoIds /\ NoTenant \notin Tenants
  BY ConstantsAssumption DEF ConstantsAssumption

AuditCounts == [TodoIds -> [TrailTypes -> Nat]]

\* A scope starts with a well-formed, empty tracker.
LEMMA EmptyScopeType == EmptyTracker \in [TodoIds -> Entry] /\ NoAudits \in AuditCounts
  BY DEF EmptyTracker, Entry, Untracked, NoAudits, AuditCounts

\* The states an entity goes through are well-formed.
LEMMA EntryTypes ==
  ASSUME TypeOK, NEW t \in TodoIds, NEW e \in Entry
  PROVE  Loaded(t) \in Entry /\ NewEntity \in Entry /\ Finished(e) \in Entry
  BY DEF TypeOK, Row, Loaded, NewEntity, Finished, Entry

\* The interceptor only adds audit entries.
LEMMA InterceptedType ==
  ASSUME TypeOK, NEW r \in Requests
  PROVE  Intercepted(r) \in AuditCounts
  <1>1. audits[r] \in [TodoIds -> [TrailTypes -> Nat]]
    BY DEF TypeOK
  <1> QED BY <1>1 DEF Intercepted, AuditCounts

\* Whatever a client asks for is a non-empty sequence of commands.
LEMMA ScriptsType ==
  ASSUME TypeOK, NEW h, NEW s \in Scripts(h)
  PROVE  s \in Seq(Command) /\ Len(s) \in Nat /\ Len(s) > 0 /\ s[1] \in Command
  <1>1. Mutations \subseteq Command /\ Queries \subseteq Command
    BY DEF Mutations, Queries, Command, KnownIds
  <1>2. CASE s \in {<<q>> : q \in Queries}
    <2>1. PICK q \in Queries : s = <<q>>
      BY <1>2
    <2> QED BY <1>1, <2>1
  <1>3. CASE \E n \in 1..(IF h = "Api" THEN 1 ELSE MaxFields) : s \in [1..n -> Mutations]
    <2>1. PICK n \in 1..(IF h = "Api" THEN 1 ELSE MaxFields) : s \in [1..n -> Mutations]
      BY <1>3
    <2>2. n \in Nat /\ n > 0
      BY <2>1, ConstantsAssumption DEF ConstantsAssumption
    <2>3. s \in [1..n -> Command] /\ s[1] \in Command
      BY <1>1, <2>1, <2>2
    <2>4. s \in Seq(Command) /\ Len(s) = n
      BY <2>2, <2>3
    <2> QED BY <2>2, <2>3, <2>4
  <1> QED BY <1>2, <1>3 DEF Scripts

\* A request in progress stands at one of its commands.
LEMMA CurrentType ==
  ASSUME TypeInv, NEW r \in Requests, InProgress(r)
  PROVE  /\ Current(r) \in Command
         /\ Len(answers[r]) \in Nat /\ Len(script[r]) \in Nat
         /\ Len(answers[r]) < Len(script[r])
  <1>1. script[r] \in Seq(Command) /\ answers[r] \in Seq(Answer)
    BY DEF TypeInv, TypeOK
  <1>2. Len(answers[r]) < Len(script[r])
    BY DEF TypeInv, Positioned
  <1>3. Len(answers[r]) \in Nat /\ Len(script[r]) \in Nat
    BY <1>1
  <1>4. Len(answers[r]) + 1 \in 1..Len(script[r])
    BY <1>2, <1>3
  <1> QED BY <1>1, <1>2, <1>3, <1>4 DEF Current

\* The part of TypeInv that the operators Reply and Stage decide.
RequestType ==
    /\ pc \in [Requests -> {"idle", "handle", "save", "dispatch", "over"}]
    /\ caller \in [Requests -> [host : {"Api", "GraphQL"}, tenant : Tenants \cup {NoTenant},
                                email : BOOLEAN]]
    /\ script \in [Requests -> Seq(Command)]
    /\ answers \in [Requests -> Seq(Answer)]
    /\ entries \in [Requests -> [TodoIds -> Entry]]
    /\ audits \in [Requests -> AuditCounts]
    /\ target \in [Requests -> TodoIds \cup {NoTodo}]
    /\ Positioned

\* The rest of it: tables, events, queues and the fault count.
SharedType ==
    /\ rows \in [TodoIds -> Row]
    /\ trail \in [TodoIds -> [TrailTypes -> Nat]]
    /\ issued \in SUBSET TodoIds
    /\ published \in [TodoIds -> Nat]
    /\ heard \in [TodoIds -> Nat]
    /\ queue \in [Requests -> SUBSET TodoIds]
    /\ faults \in Nat

\* The two parts make the whole, before and after a step.
LEMMA TypeParts == /\ TypeInv <=> RequestType /\ SharedType
                   /\ TypeInv' <=> RequestType' /\ SharedType'
  BY DEF TypeInv, TypeOK, RequestType, SharedType, AuditCounts

\* A reply keeps the request well-formed.
LEMMA ReplyType ==
  ASSUME TypeInv, NEW r \in Requests, InProgress(r),
         NEW result \in {"Ok", "Invalid", "NotFound", "Conflict", "Error"},
         NEW ids \in SUBSET TodoIds, NEW es \in [TodoIds -> Entry],
         NEW as \in AuditCounts, Reply(r, result, ids, es, as)
  PROVE  RequestType'
  <1> DEFINE a == [command |-> Current(r), ids |-> ids, result |-> result]
  <1>1. /\ Current(r) \in Command
        /\ Len(answers[r]) \in Nat /\ Len(script[r]) \in Nat
        /\ Len(answers[r]) < Len(script[r])
    BY CurrentType
  <1>2. a \in Answer
    BY <1>1 DEF Answer
  <1>3. answers \in [Requests -> Seq(Answer)] /\ answers[r] \in Seq(Answer)
    BY DEF TypeInv, TypeOK
  <1>4. answers' = [answers EXCEPT ![r] = Append(answers[r], a)]
    BY DEF Reply
  <1> HIDE DEF a
  <1>5. Append(answers[r], a) \in Seq(Answer) /\ Len(Append(answers[r], a)) = Len(answers[r]) + 1
    BY <1>2, <1>3
  <1>6. answers' \in [Requests -> Seq(Answer)]
    BY <1>3, <1>4, <1>5
  <1>7. caller' = caller /\ script' = script
    BY DEF Reply
  <1>8. target' = [target EXCEPT ![r] = NoTodo]
    BY DEF Reply
  <1>9. \/ pc' = [pc EXCEPT ![r] = "handle"] /\ entries' = [entries EXCEPT ![r] = es]
           /\ audits' = [audits EXCEPT ![r] = as]
           /\ Len(answers[r]) + 1 < Len(script[r])
        \/ pc' = [pc EXCEPT ![r] = "over"] /\ entries' = [entries EXCEPT ![r] = EmptyTracker]
           /\ audits' = [audits EXCEPT ![r] = NoAudits]
    BY DEF Reply
  <1>10. /\ pc \in [Requests -> {"idle", "handle", "save", "dispatch", "over"}]
         /\ entries \in [Requests -> [TodoIds -> Entry]]
         /\ audits \in [Requests -> AuditCounts]
         /\ target \in [Requests -> TodoIds \cup {NoTodo}]
    BY DEF TypeInv, TypeOK, AuditCounts
  <1>11. /\ pc' \in [Requests -> {"idle", "handle", "save", "dispatch", "over"}]
         /\ entries' \in [Requests -> [TodoIds -> Entry]]
         /\ audits' \in [Requests -> AuditCounts]
         /\ target' \in [Requests -> TodoIds \cup {NoTodo}]
    <2>1. target' \in [Requests -> TodoIds \cup {NoTodo}]
      BY <1>8, <1>10
    <2>2. pc' \in [Requests -> {"idle", "handle", "save", "dispatch", "over"}]
      BY <1>9, <1>10
    <2>3. entries' \in [Requests -> [TodoIds -> Entry]]
      BY <1>9, <1>10, EmptyScopeType
    <2>4. audits' \in [Requests -> AuditCounts]
      BY <1>9, <1>10, EmptyScopeType
    <2> QED BY <2>1, <2>2, <2>3, <2>4
  <1>12. Positioned'
    <2>1. ASSUME NEW q \in Requests, InProgress(q)'
          PROVE  Len(answers[q])' < Len(script[q])'
      <3>1. CASE q = r
        <4>1. Len(answers'[r]) = Len(answers[r]) + 1
          BY <1>3, <1>4, <1>5
        <4>2. pc'[r] \in {"handle", "over"}
          BY <1>9, <1>10
        <4> QED BY <2>1, <3>1, <4>1, <4>2, <1>7, <1>9, <1>10 DEF InProgress
      <3>2. CASE q # r
        <4>1. pc'[q] = pc[q] /\ answers'[q] = answers[q]
          BY <3>2, <1>3, <1>4, <1>9, <1>10
        <4> QED BY <2>1, <4>1, <1>7 DEF InProgress, TypeInv, Positioned
      <3> QED BY <3>1, <3>2
    <2>2. ASSUME NEW q \in Requests, pc'[q] \in {"save", "dispatch"}
          PROVE  target'[q] \in TodoIds
      <3>1. q # r /\ pc'[q] = pc[q] /\ target'[q] = target[q]
        BY <2>2, <1>8, <1>9, <1>10
      <3> QED BY <2>2, <3>1 DEF TypeInv, Positioned
    <2>3. ASSUME NEW q \in Requests, pc'[q] = "idle"
          PROVE  answers'[q] = <<>>
      <3>1. q # r /\ pc'[q] = pc[q] /\ answers'[q] = answers[q]
        BY <2>3, <1>3, <1>4, <1>9, <1>10
      <3> QED BY <2>3, <3>1 DEF TypeInv, Positioned
    <2> QED BY <2>1, <2>2, <2>3 DEF Positioned
  <1> QED BY <1>6, <1>7, <1>11, <1>12 DEF RequestType, TypeInv, TypeOK

\* Going on to the save keeps the request well-formed.
LEMMA StageType ==
  ASSUME TypeInv, NEW r \in Requests, InProgress(r),
         NEW t \in TodoIds, NEW e \in Entry, Stage(r, t, e)
  PROVE  RequestType'
  <1>1. /\ entries' = [entries EXCEPT ![r] = [entries[r] EXCEPT ![t] = e]]
        /\ target' = [target EXCEPT ![r] = t]
        /\ pc' = [pc EXCEPT ![r] = "save"]
        /\ UNCHANGED <<caller, script, answers, audits>>
    BY DEF Stage
  <1>2. entries' \in [Requests -> [TodoIds -> Entry]]
    BY <1>1 DEF TypeInv, TypeOK
  <1>3. Positioned'
    BY <1>1, CurrentType DEF TypeInv, TypeOK, Positioned, InProgress
  <1> QED BY <1>1, <1>2, <1>3 DEF RequestType, TypeInv, TypeOK, AuditCounts

\* A transaction writes well-formed rows and audit entries.
LEMMA WriteType ==
  ASSUME TypeInv, NEW r \in Requests, Write(r)
  PROVE  rows' \in [TodoIds -> Row] /\ trail' \in AuditCounts
  <1>1. /\ rows \in [TodoIds -> Row]
        /\ entries[r] \in [TodoIds -> Entry]
        /\ trail \in [TodoIds -> [TrailTypes -> Nat]]
        /\ caller[r].tenant \in Tenants \cup {NoTenant}
    BY DEF TypeInv, TypeOK
  <1>2. Intercepted(r) \in [TodoIds -> [TrailTypes -> Nat]]
    BY InterceptedType DEF AuditCounts, TypeInv
  <1>3. ASSUME NEW t \in TodoIds
        PROVE  Inserted(r, t) \in Row /\ Updated(r, t) \in Row /\ rows[t] \in Row
    BY <1>1 DEF Row, Entry, Inserted, Updated
  <1>4. rows' \in [TodoIds -> Row]
    BY <1>3 DEF Write
  <1>5. trail' \in AuditCounts
    BY <1>1, <1>2 DEF Write, AuditCounts
  <1> QED BY <1>4, <1>5

\* Accepting the changes, or clearing the event of an entity, leaves a
\* well-formed tracker.
LEMMA TrackerTypes ==
  ASSUME TypeOK, NEW r \in Requests, NEW t \in TodoIds
  PROVE  Accepted(r) \in [TodoIds -> Entry] /\ Cleared(r, t) \in [TodoIds -> Entry]
  BY DEF TypeOK, Entry, Accepted, Cleared

-----------------------------------------------------------------------------
(* Type correctness: one lemma per action *)

(* The initial state has the types of TypeInv: no row, empty trackers, nothing counted. *)
LEMMA InitType == Init => TypeInv
  <1> SUFFICES ASSUME Init PROVE TypeInv
    OBVIOUS
  <1>1. rows \in [TodoIds -> Row]
    <2>1. NoRow \in Row /\ \A tn \in Tenants : OpenRow(tn) \in Row
      BY DEF Row, NoRow, OpenRow
    <2>2. {NoRow} \cup {OpenRow(tn) : tn \in Tenants} \subseteq Row
      BY <2>1
    <2> QED BY <2>2 DEF Init
  <1>2. trail \in [TodoIds -> [TrailTypes -> Nat]]
    BY DEF Init
  <1>3. entries \in [Requests -> [TodoIds -> Entry]] /\ audits \in [Requests -> AuditCounts]
    BY EmptyScopeType DEF Init
  <1>4. <<>> \in Seq(Command) /\ <<>> \in Seq(Answer)
    OBVIOUS
  <1>5. Positioned
    BY DEF Init, Positioned, InProgress
  <1> QED BY <1>1, <1>2, <1>3, <1>4, <1>5 DEF Init, TypeInv, TypeOK, AuditCounts

(* A request that is admitted, or refused at the door, keeps the types. *)
LEMMA ArriveType ==
  ASSUME TypeInv, NEW r \in Requests, Arrive(r)
  PROVE  TypeInv'
  <1>1. PICK h \in Hosts, p \in Principals : \E s \in Scripts(h) : Arrival(r, h, p, s)
    BY DEF Arrive
  <1>2. PICK s \in Scripts(h) :
        /\ caller' = [caller EXCEPT ![r] = [host |-> h, tenant |-> p.tenant, email |-> p.email]]
        /\ script' = [script EXCEPT ![r] = s]
        /\ \/ /\ pc' = [pc EXCEPT ![r] = "handle"]
              /\ UNCHANGED answers
           \/ /\ pc' = [pc EXCEPT ![r] = "over"]
              /\ answers' = [answers EXCEPT ![r] =
                    <<[command |-> s[1], ids |-> {}, result |-> "Forbidden"]>>]
    BY <1>1 DEF Arrival, Admit, Forbid
  <1>3. s \in Seq(Command) /\ Len(s) \in Nat /\ Len(s) > 0 /\ s[1] \in Command
    BY ScriptsType DEF TypeInv
  <1>4. /\ h \in {"Api", "GraphQL"}
        /\ p.tenant \in Tenants \cup {NoTenant} /\ p.email \in BOOLEAN
    BY ConstantsAssumption DEF ConstantsAssumption
  <1>5. <<[command |-> s[1], ids |-> {}, result |-> "Forbidden"]>> \in Seq(Answer)
    BY <1>3 DEF Answer
  <1>6. UNCHANGED <<rows, trail, issued, published, heard, entries, audits, queue, target, faults>>
    BY DEF Arrive, database, events, scope
  <1>7. Positioned'
    <2>1. answers[r] = <<>>
      BY DEF Arrive, TypeInv, Positioned
    <2>2. ASSUME NEW q \in Requests, InProgress(q)'
          PROVE  Len(answers[q])' < Len(script[q])'
      <3>1. CASE q = r
        <4>1. pc'[r] = "handle" /\ answers' = answers /\ script'[r] = s
          BY <2>2, <3>1, <1>2 DEF InProgress, TypeInv, TypeOK
        <4> QED BY <3>1, <4>1, <2>1, <1>3
      <3>2. CASE q # r
        <4>1. pc'[q] = pc[q] /\ answers'[q] = answers[q] /\ script'[q] = script[q]
          BY <3>2, <1>2 DEF TypeInv, TypeOK
        <4> QED BY <2>2, <4>1 DEF InProgress, TypeInv, Positioned
      <3> QED BY <3>1, <3>2
    <2>3. ASSUME NEW q \in Requests, pc'[q] \in {"save", "dispatch"}
          PROVE  target'[q] \in TodoIds
      <3>1. q # r /\ pc'[q] = pc[q]
        BY <2>3, <1>2 DEF TypeInv, TypeOK
      <3> QED BY <2>3, <3>1, <1>6 DEF TypeInv, Positioned
    <2>4. ASSUME NEW q \in Requests, pc'[q] = "idle"
          PROVE  answers'[q] = <<>>
      <3>1. q # r /\ pc'[q] = pc[q] /\ answers'[q] = answers[q]
        BY <2>4, <1>2 DEF TypeInv, TypeOK
      <3> QED BY <2>4, <3>1 DEF TypeInv, Positioned
    <2> QED BY <2>2, <2>3, <2>4 DEF Positioned
  <1>8. /\ pc' \in [Requests -> {"idle", "handle", "save", "dispatch", "over"}]
        /\ answers' \in [Requests -> Seq(Answer)]
    <2> DEFINE denial == <<[command |-> s[1], ids |-> {}, result |-> "Forbidden"]>>
    <2>1. denial \in Seq(Answer)
      BY <1>5
    <2>2. \/ pc' = [pc EXCEPT ![r] = "handle"] /\ answers' = answers
          \/ pc' = [pc EXCEPT ![r] = "over"] /\ answers' = [answers EXCEPT ![r] = denial]
      BY <1>2
    <2> HIDE DEF denial
    <2>3. answers \in [Requests -> Seq(Answer)]
      BY DEF TypeInv, TypeOK
    <2>4. answers' \in [Requests -> Seq(Answer)]
      BY <2>1, <2>2, <2>3
    <2>5. pc' \in [Requests -> {"idle", "handle", "save", "dispatch", "over"}]
      BY <1>2 DEF TypeInv, TypeOK
    <2> QED BY <2>4, <2>5
  <1>9. caller' \in [Requests -> [host : {"Api", "GraphQL"}, tenant : Tenants \cup {NoTenant},
                                 email : BOOLEAN]]
    BY <1>2, <1>4 DEF TypeInv, TypeOK
  <1>10. script' \in [Requests -> Seq(Command)]
    BY <1>2, <1>3 DEF TypeInv, TypeOK
  <1> QED BY <1>6, <1>7, <1>8, <1>9, <1>10 DEF TypeInv, TypeOK

(* A handler that stages, answers or refuses a command keeps the types. *)
LEMMA HandleType ==
  ASSUME TypeInv, NEW r \in Requests, Handle(r)
  PROVE  TypeInv'
  <1>1. InProgress(r) /\ Current(r) \in Command
    <2>1. InProgress(r)
      BY DEF Handle, Create, SetDone, Get, GetAll, InProgress
    <2> QED BY <2>1, CurrentType
  <1>2. entries[r] \in [TodoIds -> Entry] /\ audits[r] \in AuditCounts
    BY DEF TypeInv, TypeOK, AuditCounts
  <1>3. ASSUME Create(r) PROVE TypeInv'
    <2>1. CASE Reply(r, "Invalid", {}, entries[r], audits[r]) /\ UNCHANGED issued
      <3>1. RequestType'
        BY <2>1, <1>1, <1>2, ReplyType
      <3> QED BY <1>3, <2>1, <3>1, TypeParts DEF Create, SharedType, events
    <2>2. CASE \E t \in TodoIds \ issued :
                 issued' = issued \cup {t} /\ Stage(r, t, NewEntity)
      <3>1. PICK t \in TodoIds \ issued : issued' = issued \cup {t} /\ Stage(r, t, NewEntity)
        BY <2>2
      <3>2. NewEntity \in Entry
        BY DEF NewEntity, Entry
      <3>3. RequestType'
        BY <1>1, <3>1, <3>2, StageType
      <3> QED BY <1>3, <3>1, <3>3, TypeParts DEF Create, SharedType, events
    <2> QED BY <1>3, <2>1, <2>2 DEF Create
  <1>4. ASSUME SetDone(r) PROVE TypeInv'
    <2> DEFINE t == Current(r).id
               e == IF entries[r][t].state = "Detached" THEN Loaded(t) ELSE entries[r][t]
    <2>1. t \in TodoIds
      BY <1>1, <1>4 DEF SetDone, Command
    <2>2. e \in Entry /\ Finished(e) \in Entry
      BY <1>2, <2>1, EntryTypes DEF TypeInv
    <2>3. \/ Reply(r, "NotFound", {}, entries[r], audits[r])
          \/ Reply(r, "Conflict", {}, [entries[r] EXCEPT ![t] = e], audits[r])
          \/ Stage(r, t, Finished(e))
      BY <1>4 DEF SetDone
    <2>4. [entries[r] EXCEPT ![t] = e] \in [TodoIds -> Entry]
      BY <1>2, <2>1, <2>2
    <2> HIDE DEF t, e
    <2>5. RequestType'
      BY <2>1, <2>2, <2>3, <2>4, <1>1, <1>2, ReplyType, StageType
    <2> QED BY <1>4, <2>5, TypeParts DEF SetDone, SharedType, database, events
  <1>5. ASSUME Get(r) PROVE TypeInv'
    <2>1. {Current(r).id} \in SUBSET TodoIds
      BY <1>1, <1>5 DEF Get, Command
    <2>2. \/ Reply(r, "Ok", {Current(r).id}, entries[r], audits[r])
          \/ Reply(r, "NotFound", {}, entries[r], audits[r])
      BY <1>5 DEF Get
    <2>3. RequestType'
      BY <2>1, <2>2, <1>1, <1>2, ReplyType
    <2> QED BY <1>5, <2>3, TypeParts DEF Get, SharedType, database, events
  <1>6. ASSUME GetAll(r) PROVE TypeInv'
    <2>1. RequestType'
      <3>1. {t \in TodoIds : Visible(r, t)} \in SUBSET TodoIds
        OBVIOUS
      <3> QED BY <1>6, <3>1, <1>1, <1>2, ReplyType DEF GetAll
    <2> QED BY <1>6, <2>1, TypeParts DEF GetAll, SharedType, database, events
  <1> QED BY <1>3, <1>4, <1>5, <1>6 DEF Handle

(* The four ends of SaveChangesAsync keep the types: committed, rejected by
   the concurrency token, failed, and committed without acknowledgement. *)
LEMMA SaveType ==
  ASSUME TypeInv, NEW r \in Requests,
         Save(r) \/ SaveRejected(r) \/ SaveFails(r) \/ SaveUnacknowledged(r)
  PROVE  TypeInv'
  <1>1. InProgress(r) /\ pc[r] = "save" /\ target[r] \in TodoIds
    BY DEF Save, SaveRejected, SaveFails, SaveUnacknowledged, InProgress, TypeInv, Positioned
  <1>2. entries[r] \in [TodoIds -> Entry] /\ Intercepted(r) \in AuditCounts
    BY InterceptedType DEF TypeInv, TypeOK
  <1>3. ASSUME Save(r) PROVE TypeInv'
    <2>1. rows' \in [TodoIds -> Row] /\ trail' \in AuditCounts
      BY <1>3, WriteType DEF Save
    <2>2. /\ entries' = [entries EXCEPT ![r] = Accepted(r)]
          /\ audits' = [audits EXCEPT ![r] = NoAudits]
          /\ queue' = [queue EXCEPT ![r] = {t \in TodoIds : entries[r][t].event}]
          /\ pc' = [pc EXCEPT ![r] = "dispatch"]
          /\ UNCHANGED <<issued, published, heard, caller, script, answers, target, faults>>
      BY <1>3 DEF Save, events
    <2>3. Accepted(r) \in [TodoIds -> Entry] /\ NoAudits \in AuditCounts
      BY <1>1, TrackerTypes, EmptyScopeType DEF TypeInv
    <2>4. Positioned'
      BY <1>1, <2>2 DEF TypeInv, TypeOK, Positioned, InProgress
    <2> QED BY <2>1, <2>2, <2>3, <2>4 DEF TypeInv, TypeOK, AuditCounts
  <1>4. ASSUME SaveRejected(r) \/ SaveFails(r) PROVE TypeInv'
    <2>1. RequestType'
      BY <1>1, <1>2, <1>4, ReplyType DEF SaveRejected, SaveFails
    <2>2. SharedType'
      BY <1>4, TypeParts DEF SaveRejected, SaveFails, SharedType, database, events
    <2> QED BY <2>1, <2>2, TypeParts
  <1>5. ASSUME SaveUnacknowledged(r) PROVE TypeInv'
    <2>1. RequestType'
      BY <1>1, <1>2, <1>5, ReplyType DEF SaveUnacknowledged
    <2>2. rows' \in [TodoIds -> Row] /\ trail' \in AuditCounts
      BY <1>5, WriteType DEF SaveUnacknowledged
    <2>3. SharedType'
      BY <1>5, <2>2, TypeParts DEF SaveUnacknowledged, SharedType, events, AuditCounts
    <2> QED BY <2>1, <2>3, TypeParts
  <1> QED BY <1>3, <1>4, <1>5

(* The loop of the dispatcher, with or without a publish that throws, keeps the types. *)
LEMMA DispatchType ==
  ASSUME TypeInv, NEW r \in Requests, Dispatch(r)
  PROVE  TypeInv'
  <1>1. InProgress(r) /\ pc[r] = "dispatch" /\ target[r] \in TodoIds
    BY DEF Dispatch, Publish, PublishThrows, Return, InProgress, TypeInv, Positioned
  <1>2. entries[r] \in [TodoIds -> Entry] /\ audits[r] \in AuditCounts
    BY DEF TypeInv, TypeOK, AuditCounts
  <1>3. ASSUME NEW t \in TodoIds, Publish(r, t) PROVE TypeInv'
    <2>1. /\ published' = [published EXCEPT ![t] = published[t] + 1]
          /\ heard' = [heard EXCEPT ![t] =
                        heard[t] + IF Handled(caller[r].host) THEN 1 ELSE 0]
          /\ entries' = [entries EXCEPT ![r] = Cleared(r, t)]
          /\ queue' = [queue EXCEPT ![r] = queue[r] \ {t}]
          /\ UNCHANGED <<rows, trail, issued, pc, caller, script, answers, audits, target, faults>>
      BY <1>3 DEF Publish, database
    <2>2. Cleared(r, t) \in [TodoIds -> Entry]
      BY TrackerTypes DEF TypeInv
    <2>3. Positioned'
      BY <2>1 DEF TypeInv, Positioned, InProgress
    <2>4. published' \in [TodoIds -> Nat] /\ heard' \in [TodoIds -> Nat]
      BY <2>1 DEF TypeInv, TypeOK
    <2>5. queue' \in [Requests -> SUBSET TodoIds] /\ entries' \in [Requests -> [TodoIds -> Entry]]
      BY <2>1, <2>2 DEF TypeInv, TypeOK
    <2> QED BY <2>1, <2>3, <2>4, <2>5 DEF TypeInv, TypeOK
  <1>4. ASSUME NEW t \in TodoIds, PublishThrows(r, t) PROVE TypeInv'
    <2>1. Cleared(r, t) \in [TodoIds -> Entry]
      BY TrackerTypes DEF TypeInv
    <2>2. RequestType'
      BY <1>1, <1>2, <1>4, <2>1, ReplyType DEF PublishThrows
    <2> QED BY <1>4, <2>2, TypeParts DEF PublishThrows, SharedType, database, events
  <1>5. ASSUME Return(r) PROVE TypeInv'
    <2>1. RequestType'
      BY <1>1, <1>2, <1>5, ReplyType DEF Return
    <2> QED BY <1>5, <2>1, TypeParts DEF Return, SharedType, database, events
  <1> QED BY <1>3, <1>4, <1>5 DEF Dispatch

(* A request that is aborted, or lost with its process, keeps the types. *)
LEMMA LostType ==
  ASSUME TypeInv,
         \/ \E r \in Requests : Abort(r)
         \/ \E h \in Hosts : Crash(h)
  PROVE  TypeInv'
  <1>1. ASSUME NEW r \in Requests, Abort(r) PROVE TypeInv'
    <2>1. /\ faults' = faults + 1
          /\ pc' = [pc EXCEPT ![r] = "over"]
          /\ entries' = [entries EXCEPT ![r] = EmptyTracker]
          /\ audits' = [audits EXCEPT ![r] = NoAudits]
          /\ UNCHANGED <<rows, trail, issued, published, heard, caller, script, answers, queue, target>>
      BY <1>1 DEF Abort, database, events
    <2>2. Positioned'
      BY <2>1 DEF TypeInv, TypeOK, Positioned, InProgress
    <2>3. entries' \in [Requests -> [TodoIds -> Entry]] /\ audits' \in [Requests -> AuditCounts]
      BY <2>1, EmptyScopeType DEF TypeInv, TypeOK, AuditCounts
    <2> QED BY <2>1, <2>2, <2>3 DEF TypeInv, TypeOK, AuditCounts
  <1>2. ASSUME NEW h \in Hosts, Crash(h) PROVE TypeInv'
    <2> DEFINE lost == {r \in Requests : InProgress(r) /\ caller[r].host = h}
    <2>1. /\ faults' = faults + 1
          /\ pc' = [r \in Requests |-> IF r \in lost THEN "over" ELSE pc[r]]
          /\ entries' = [r \in Requests |-> IF r \in lost THEN EmptyTracker ELSE entries[r]]
          /\ audits' = [r \in Requests |-> IF r \in lost THEN NoAudits ELSE audits[r]]
          /\ queue' = [r \in Requests |-> IF r \in lost THEN {} ELSE queue[r]]
          /\ target' = [r \in Requests |-> IF r \in lost THEN NoTodo ELSE target[r]]
          /\ UNCHANGED <<rows, trail, issued, published, heard, caller, script, answers>>
      BY <1>2 DEF Crash, database, events
    <2> HIDE DEF lost
    <2>2. Positioned'
      BY <2>1 DEF TypeInv, TypeOK, Positioned, InProgress
    <2>3. entries' \in [Requests -> [TodoIds -> Entry]] /\ audits' \in [Requests -> AuditCounts]
      BY <2>1, EmptyScopeType DEF TypeInv, TypeOK, AuditCounts
    <2> QED BY <2>1, <2>2, <2>3 DEF TypeInv, TypeOK, AuditCounts
  <1> QED BY <1>1, <1>2

\* A stuttering step changes nothing.
LEMMA StutterType ==
  ASSUME TypeInv, UNCHANGED vars
  PROVE  TypeInv'
  BY DEF vars, TypeInv, TypeOK, Positioned, InProgress

\* In every behaviour every variable keeps its shape, and every request in
\* progress stands at one of the commands it asked for.
THEOREM TypeCorrect == Spec => [](TypeOK /\ Positioned)
  <1>1. TypeInv /\ [Next]_vars => TypeInv'
    BY ArriveType, HandleType, SaveType, DispatchType, LostType, StutterType
    DEF Next, Progress
  <1> QED BY <1>1, InitType, PTL DEF Spec, TypeInv

-----------------------------------------------------------------------------
(* Safety: what a transaction does to the rows *)

\* A committing request leaves the row of t alone, inserts it open, or turns it
\* from open and never modified into done with its own stamp.
Kept(r, t) == entries[r][t].state \notin {"Added", "Modified"} /\ rows'[t] = rows[t]
Born(r, t) ==
    /\ entries[r][t].state = "Added" /\ ~rows[t].exists
    /\ rows'[t].exists /\ ~rows'[t].done /\ rows'[t].stamp = Nobody
Closed(r, t) ==
    /\ entries[r][t].state = "Modified"
    /\ rows[t].exists /\ ~rows[t].done /\ rows[t].stamp = Nobody
    /\ rows'[t].exists /\ rows'[t].done /\ rows'[t].stamp = r
    /\ rows'[t].tenant = rows[t].tenant

(* What a commit does to one row, whatever the tracker of the request holds:
   nothing, its birth, or its closing.  The tokens of the tracker being those of
   the row (CanCommit) and the soundness of the tracker leave no other case. *)
LEMMA WriteRows ==
  ASSUME IInv, NEW r \in Requests, CanCommit(r), Write(r), NEW t \in TodoIds
  PROVE  Kept(r, t) \/ Born(r, t) \/ Closed(r, t)
  <1>1. /\ Sound(entries[r][t], r, rows[t], t \in issued, published[t])
        /\ rows[t].done <=> rows[t].stamp # Nobody
    BY DEF IInv, TrackerInv, RowsInv
  <1>2. /\ rows[t] \in Row /\ entries[r][t] \in Entry
        /\ rows'[t] = IF t \in InState(r, "Added") THEN Inserted(r, t)
                      ELSE IF t \in InState(r, "Modified") THEN Updated(r, t)
                      ELSE rows[t]
    BY DEF IInv, TypeInv, TypeOK, Write
  <1>3. CASE entries[r][t].state = "Added"
    BY <1>1, <1>2, <1>3 DEF CanCommit, InState, Inserted, Sound, Born
  <1>4. CASE entries[r][t].state = "Modified"
    <2>1. rows[t].exists /\ rows[t].stamp = Nobody
      BY <1>1, <1>4 DEF CanCommit, InState, Sound
    <2>2. rows'[t] = Updated(r, t) /\ entries[r][t].done
      BY <1>1, <1>2, <1>4 DEF InState, Sound
    <2>3. rows[t].done = FALSE
      BY <1>1, <1>2, <2>1 DEF Row
    <2> QED BY <1>4, <2>1, <2>2, <2>3 DEF Updated, Closed
  <1>5. CASE entries[r][t].state \notin {"Added", "Modified"}
    BY <1>2, <1>5 DEF InState, Kept
  <1> QED BY <1>3, <1>4, <1>5

\* A transaction keeps the facts about rows and about published events.
LEMMA WriteInv ==
  ASSUME IInv, NEW r \in Requests, CanCommit(r), Write(r),
         UNCHANGED <<issued, published>>
  PROVE  RowsInv' /\ EventAtMostOnce'
  <1>1. ASSUME NEW t \in TodoIds
        PROVE  /\ rows'[t].done <=> rows'[t].stamp # Nobody
               /\ rows'[t].done => rows'[t].exists
               /\ rows'[t].exists => t \in issued'
               /\ published'[t] <= 1 /\ (published'[t] = 1 => rows'[t].done)
    <2>1. Sound(entries[r][t], r, rows[t], t \in issued, published[t])
      BY DEF IInv, TrackerInv
    <2>2. /\ rows[t].done <=> rows[t].stamp # Nobody
          /\ rows[t].done => rows[t].exists
          /\ rows[t].exists => t \in issued
          /\ published[t] <= 1 /\ (published[t] = 1 => rows[t].done)
      BY DEF IInv, RowsInv, EventAtMostOnce
    <2>3. Kept(r, t) \/ Born(r, t) \/ Closed(r, t)
      BY WriteRows
    <2> QED BY <2>1, <2>2, <2>3, NullsDiffer DEF Kept, Born, Closed, Sound
  <1> QED BY <1>1 DEF RowsInv, EventAtMostOnce

\* It keeps what any request holds in its tracker sound, except that the
\* committing request must still accept its changes.
LEMMA WriteTrackers ==
  ASSUME IInv, NEW r \in Requests, CanCommit(r), Write(r),
         UNCHANGED <<issued, published>>,
         NEW q \in Requests, NEW t \in TodoIds
  PROVE  Sound(entries[q][t], q, rows'[t], t \in issued', published'[t])
  <1>1. Sound(entries[q][t], q, rows[t], t \in issued, published[t])
    BY DEF IInv, TrackerInv
  <1>2. rows[t].done <=> rows[t].stamp # Nobody
    BY DEF IInv, RowsInv
  <1>3. rows[t].done => rows[t].exists
    BY DEF IInv, RowsInv
  <1>4. Kept(r, t) \/ Born(r, t) \/ Closed(r, t)
    BY WriteRows
  <1> QED BY <1>1, <1>2, <1>3, <1>4, NullsDiffer DEF Kept, Born, Closed, Sound

-----------------------------------------------------------------------------
(* Safety: one lemma per kind of step *)

(* The inductive invariant holds before the first request. *)
LEMMA InitInv == Init => IInv
  <1> SUFFICES ASSUME Init PROVE IInv
    OBVIOUS
  <1>1. \A t \in TodoIds : rows[t] = NoRow \/ \E tn \in Tenants : rows[t] = OpenRow(tn)
    BY DEF Init
  <1>2. RowsInv
    BY <1>1 DEF RowsInv, NoRow, OpenRow, Init
  <1>3. TrackerInv
    BY DEF Init, TrackerInv, EmptyTracker, Untracked, Sound
  <1>4. QueueInv /\ EventAtMostOnce
    BY DEF Init, QueueInv, EventAtMostOnce
  <1> QED BY <1>2, <1>3, <1>4, InitType DEF IInv

\* A step of one request that leaves rows and published events alone, leaves the
\* request outside its dispatch loop and gives it a sound tracker.
LEMMA LocalStep ==
  ASSUME IInv, TypeInv', NEW r \in Requests, NEW es \in [TodoIds -> Entry],
         UNCHANGED <<rows, published>>, issued \subseteq issued',
         \A t \in TodoIds : Sound(es[t], r, rows[t], t \in issued', published[t]),
         entries'[r] = es \/ entries'[r] = EmptyTracker,
         pc'[r] # "dispatch", queue'[r] = {},
         \A q \in Requests \ {r} :
             entries'[q] = entries[q] /\ pc'[q] = pc[q] /\ queue'[q] = queue[q]
  PROVE  IInv'
  <1>1. RowsInv' /\ EventAtMostOnce'
    BY DEF IInv, RowsInv, EventAtMostOnce
  <1>2. ASSUME NEW q \in Requests, NEW t \in TodoIds
        PROVE  Sound(entries'[q][t], q, rows'[t], t \in issued', published'[t])
    <2>1. CASE q = r
      BY <2>1 DEF EmptyTracker, Untracked, Sound
    <2>2. CASE q # r
      <3>1. Sound(entries[q][t], q, rows[t], t \in issued, published[t])
        BY DEF IInv, TrackerInv
      <3> QED BY <2>2, <3>1 DEF Sound
    <2> QED BY <2>1, <2>2
  <1>3. QueueInv'
    BY DEF IInv, QueueInv
  <1> QED BY <1>1, <1>2, <1>3 DEF IInv, TrackerInv

\* What Reply and Stage do to the requests.
LEMMA ReplyEffect ==
  ASSUME TypeInv, NEW r \in Requests, NEW result, NEW ids, NEW es, NEW as,
         Reply(r, result, ids, es, as)
  PROVE  /\ entries'[r] = es \/ entries'[r] = EmptyTracker
         /\ pc'[r] # "dispatch"
         /\ \A q \in Requests \ {r} : entries'[q] = entries[q] /\ pc'[q] = pc[q]
  BY DEF TypeInv, TypeOK, Reply

(* Staging touches the tracker entry of one todo of one request, and no other request. *)
LEMMA StageEffect ==
  ASSUME TypeInv, NEW r \in Requests, NEW t, NEW e, Stage(r, t, e)
  PROVE  /\ entries'[r] = [entries[r] EXCEPT ![t] = e]
         /\ pc'[r] # "dispatch"
         /\ \A q \in Requests \ {r} : entries'[q] = entries[q] /\ pc'[q] = pc[q]
  BY DEF TypeInv, TypeOK, Stage

(* A handler keeps the inductive invariant: what it puts in the tracker is
   what it read, or a todo with an id not issued before. *)
LEMMA HandleInv ==
  ASSUME IInv, NEW r \in Requests, Handle(r)
  PROVE  IInv'
  <1>1. TypeInv /\ TypeInv'
    BY HandleType DEF IInv
  <1>2. /\ pc[r] = "handle" /\ UNCHANGED <<rows, published, queue>>
        /\ issued \subseteq issued' /\ issued \subseteq TodoIds
    BY <1>1 DEF Handle, Create, SetDone, Get, GetAll, database, events, TypeInv, TypeOK
  <1>3. /\ queue'[r] = {} /\ \A q \in Requests : queue'[q] = queue[q]
        /\ entries[r] \in [TodoIds -> Entry]
    BY <1>1, <1>2 DEF IInv, QueueInv, TypeInv, TypeOK
  <1>4. \A t \in TodoIds : Sound(entries[r][t], r, rows[t], t \in issued, published[t])
    BY DEF IInv, TrackerInv
  <1>5. \A t \in TodoIds : Sound(entries[r][t], r, rows[t], t \in issued', published[t])
    BY <1>2, <1>4 DEF Sound
  <1>6. ASSUME NEW result, NEW ids, Reply(r, result, ids, entries[r], audits[r]) PROVE IInv'
    BY <1>1, <1>2, <1>3, <1>5, <1>6, ReplyEffect, LocalStep
  <1>7. ASSUME Create(r) PROVE IInv'
    <2>1. CASE Reply(r, "Invalid", {}, entries[r], audits[r])
      BY <1>6, <2>1
    <2>2. CASE \E t \in TodoIds \ issued :
                 issued' = issued \cup {t} /\ Stage(r, t, NewEntity)
      <3>1. PICK t \in TodoIds \ issued : issued' = issued \cup {t} /\ Stage(r, t, NewEntity)
        BY <2>2
      <3> DEFINE es == [entries[r] EXCEPT ![t] = NewEntity]
      <3>2. es \in [TodoIds -> Entry]
        BY <1>3 DEF NewEntity, Entry
      <3>3. ASSUME NEW u \in TodoIds
            PROVE  Sound(es[u], r, rows[u], u \in issued', published[u])
        <4>1. CASE u = t
          BY <1>3, <3>1, <4>1 DEF NewEntity, Sound
        <4>2. CASE u # t
          BY <1>3, <1>5, <4>2
        <4> QED BY <4>1, <4>2
      <3>4. /\ entries'[r] = es /\ pc'[r] # "dispatch"
            /\ \A q \in Requests \ {r} : entries'[q] = entries[q] /\ pc'[q] = pc[q]
        <4>1. Stage(r, t, NewEntity)
          BY <3>1
        <4>2. entries'[r] = [entries[r] EXCEPT ![t] = NewEntity]
          BY <1>1, <4>1 DEF Stage, TypeInv, TypeOK
        <4>3. /\ pc'[r] # "dispatch"
              /\ \A q \in Requests \ {r} : entries'[q] = entries[q] /\ pc'[q] = pc[q]
          BY <1>1, <4>1 DEF Stage, TypeInv, TypeOK
        <4> QED BY <4>2, <4>3
      <3> HIDE DEF es
      <3> QED BY <1>1, <1>2, <1>3, <3>2, <3>3, <3>4, LocalStep
    <2> QED BY <1>7, <2>1, <2>2 DEF Create
  <1>8. ASSUME SetDone(r) PROVE IInv'
    <2> DEFINE t == Current(r).id
               e == IF entries[r][t].state = "Detached" THEN Loaded(t) ELSE entries[r][t]
    <2>1. t \in TodoIds
      BY <1>1, <1>8, CurrentType DEF SetDone, Command, InProgress
    <2>2. e \in Entry /\ Finished(e) \in Entry
      BY <1>1, <1>3, <2>1, EntryTypes DEF TypeInv
    <2>3. Sound(e, r, rows[t], t \in issued', published[t])
      <3>1. CASE entries[r][t].state = "Detached"
        <4>1. rows[t].done <=> rows[t].stamp # Nobody
          BY <2>1 DEF IInv, RowsInv
        <4> QED BY <3>1, <4>1 DEF Loaded, Sound
      <3>2. CASE entries[r][t].state # "Detached"
        BY <1>5, <2>1, <3>2
      <3> QED BY <3>1, <3>2
    <2>4. \/ Reply(r, "NotFound", {}, entries[r], audits[r])
          \/ Reply(r, "Conflict", {}, [entries[r] EXCEPT ![t] = e], audits[r])
          \/ rows[t].exists /\ ~e.done /\ Stage(r, t, Finished(e))
      BY <1>8 DEF SetDone, Visible
    <2> HIDE DEF t, e
    <2>5. ASSUME NEW f \in Entry, Sound(f, r, rows[t], t \in issued', published[t])
          PROVE  /\ [entries[r] EXCEPT ![t] = f] \in [TodoIds -> Entry]
                 /\ \A u \in TodoIds : Sound([entries[r] EXCEPT ![t] = f][u], r, rows[u],
                                              u \in issued', published[u])
      <3>1. [entries[r] EXCEPT ![t] = f] \in [TodoIds -> Entry]
        BY <1>3, <2>1
      <3>2. ASSUME NEW u \in TodoIds
            PROVE  Sound([entries[r] EXCEPT ![t] = f][u], r, rows[u], u \in issued', published[u])
        <4>1. CASE u = t
          <5>1. [entries[r] EXCEPT ![t] = f][u] = f
            BY <1>3, <2>1, <4>1
          <5> QED BY <2>5, <4>1, <5>1
        <4>2. CASE u # t
          <5>1. [entries[r] EXCEPT ![t] = f][u] = entries[r][u]
            BY <1>3, <2>1, <4>2
          <5> QED BY <1>5, <5>1
        <4> QED BY <4>1, <4>2
      <3> QED BY <3>1, <3>2
    <2>6. CASE Reply(r, "NotFound", {}, entries[r], audits[r])
      BY <1>6, <2>6
    <2>7. CASE Reply(r, "Conflict", {}, [entries[r] EXCEPT ![t] = e], audits[r])
      <3> DEFINE es == [entries[r] EXCEPT ![t] = e]
      <3>1. /\ es \in [TodoIds -> Entry]
            /\ \A u \in TodoIds : Sound(es[u], r, rows[u], u \in issued', published[u])
        BY <2>2, <2>3, <2>5
      <3>2. /\ entries'[r] = es \/ entries'[r] = EmptyTracker
            /\ pc'[r] # "dispatch"
            /\ \A q \in Requests \ {r} : entries'[q] = entries[q] /\ pc'[q] = pc[q]
        BY <1>1, <2>7, ReplyEffect
      <3> HIDE DEF es
      <3> QED BY <1>1, <1>2, <1>3, <3>1, <3>2, LocalStep
    <2>8. CASE rows[t].exists /\ ~e.done /\ Stage(r, t, Finished(e))
      <3> DEFINE es == [entries[r] EXCEPT ![t] = Finished(e)]
      <3>1. Sound(Finished(e), r, rows[t], t \in issued', published[t])
        BY <2>3, <2>8 DEF Sound, Finished
      <3>2. /\ es \in [TodoIds -> Entry]
            /\ \A u \in TodoIds : Sound(es[u], r, rows[u], u \in issued', published[u])
        BY <2>2, <3>1, <2>5
      <3>3. /\ entries'[r] = es
            /\ pc'[r] # "dispatch"
            /\ \A q \in Requests \ {r} : entries'[q] = entries[q] /\ pc'[q] = pc[q]
        BY <1>1, <2>8, StageEffect
      <3> HIDE DEF es
      <3> QED BY <1>1, <1>2, <1>3, <3>2, <3>3, LocalStep
    <2> QED BY <2>4, <2>6, <2>7, <2>8
  <1>9. ASSUME Get(r) \/ GetAll(r) PROVE IInv'
    BY <1>6, <1>9 DEF Get, GetAll
  <1> QED BY <1>7, <1>8, <1>9 DEF Handle

\* Arrivals and losses leave every remaining tracker as it is.
LEMMA ArriveInv ==
  ASSUME IInv, NEW r \in Requests, Arrive(r)
  PROVE  IInv'
  <1>1. TypeInv /\ TypeInv'
    BY ArriveType DEF IInv
  <1>2. /\ pc[r] = "idle"
        /\ UNCHANGED <<rows, issued, published, entries, queue>>
        /\ pc' = [pc EXCEPT ![r] = "handle"] \/ pc' = [pc EXCEPT ![r] = "over"]
    BY DEF Arrive, Arrival, Admit, Forbid, database, events, scope
  <1>3. \A t \in TodoIds : Sound(entries[r][t], r, rows[t], t \in issued', published[t])
    BY <1>2 DEF IInv, TrackerInv
  <1>4. queue'[r] = {} /\ entries[r] \in [TodoIds -> Entry]
    BY <1>1, <1>2 DEF IInv, QueueInv, TypeInv, TypeOK
  <1>5. /\ pc'[r] # "dispatch"
        /\ \A q \in Requests \ {r} : pc'[q] = pc[q]
    BY <1>1, <1>2 DEF TypeInv, TypeOK
  <1> QED BY <1>1, <1>2, <1>3, <1>4, <1>5, LocalStep

(* A request that ends abruptly keeps the invariant: what it held is gone, and
   the rows it wrote need nothing from it. *)
LEMMA LostInv ==
  ASSUME IInv,
         \/ \E r \in Requests : Abort(r)
         \/ \E h \in Hosts : Crash(h)
  PROVE  IInv'
  <1>1. TypeInv /\ TypeInv'
    BY LostType DEF IInv
  <1>2. ASSUME NEW r \in Requests, Abort(r) PROVE IInv'
    <2>1. /\ pc[r] = "handle"
          /\ pc' = [pc EXCEPT ![r] = "over"]
          /\ entries' = [entries EXCEPT ![r] = EmptyTracker]
          /\ UNCHANGED <<rows, issued, published, queue>>
      BY <1>2 DEF Abort, database, events
    <2>2. queue[r] = {}
      BY <2>1 DEF IInv, QueueInv
    <2>3. /\ EmptyTracker \in [TodoIds -> Entry]
          /\ \A t \in TodoIds : Sound(EmptyTracker[t], r, rows[t], t \in issued', published[t])
      BY EmptyScopeType DEF EmptyTracker, Untracked, Sound
    <2>4. /\ pc'[r] # "dispatch" /\ entries'[r] = EmptyTracker
          /\ \A q \in Requests \ {r} : pc'[q] = pc[q] /\ entries'[q] = entries[q]
      BY <1>1, <2>1 DEF TypeInv, TypeOK
    <2> QED BY <1>1, <2>1, <2>2, <2>3, <2>4, LocalStep
  <1>3. ASSUME NEW h \in Hosts, Crash(h) PROVE IInv'
    <2> DEFINE lost == {r \in Requests : InProgress(r) /\ caller[r].host = h}
    <2>1. /\ pc' = [r \in Requests |-> IF r \in lost THEN "over" ELSE pc[r]]
          /\ entries' = [r \in Requests |-> IF r \in lost THEN EmptyTracker ELSE entries[r]]
          /\ queue' = [r \in Requests |-> IF r \in lost THEN {} ELSE queue[r]]
          /\ UNCHANGED <<rows, issued, published>>
      BY <1>3 DEF Crash, database, events
    <2> HIDE DEF lost
    <2>2. RowsInv' /\ EventAtMostOnce'
      BY <2>1 DEF IInv, RowsInv, EventAtMostOnce
    <2>3. ASSUME NEW q \in Requests, NEW t \in TodoIds
          PROVE  Sound(entries'[q][t], q, rows'[t], t \in issued', published'[t])
      <3>1. Sound(entries[q][t], q, rows[t], t \in issued, published[t])
        BY DEF IInv, TrackerInv
      <3> QED BY <2>1, <3>1 DEF EmptyTracker, Untracked, Sound
    <2>4. QueueInv'
      BY <2>1 DEF IInv, QueueInv
    <2> QED BY <1>1, <2>2, <2>3, <2>4 DEF IInv, TrackerInv
  <1> QED BY <1>2, <1>3

(* The save keeps the inductive invariant; the case of a commit rests on WriteRows. *)
LEMMA SaveInv ==
  ASSUME IInv, NEW r \in Requests,
         Save(r) \/ SaveRejected(r) \/ SaveFails(r) \/ SaveUnacknowledged(r)
  PROVE  IInv'
  <1>1. TypeInv /\ TypeInv'
    BY SaveType DEF IInv
  <1>2. pc[r] = "save" /\ queue[r] = {} /\ entries[r] \in [TodoIds -> Entry]
    BY <1>1 DEF Save, SaveRejected, SaveFails, SaveUnacknowledged, IInv, QueueInv, TypeInv, TypeOK
  <1>3. ASSUME SaveRejected(r) \/ SaveFails(r) PROVE IInv'
    <2>1. /\ Reply(r, "Error", {}, entries[r], Intercepted(r))
          /\ UNCHANGED <<rows, issued, published, queue>>
      BY <1>3 DEF SaveRejected, SaveFails, database, events
    <2>2. \A t \in TodoIds : Sound(entries[r][t], r, rows[t], t \in issued', published[t])
      BY <2>1 DEF IInv, TrackerInv
    <2> QED BY <1>1, <1>2, <2>1, <2>2, ReplyEffect, LocalStep
  <1>4. ASSUME SaveUnacknowledged(r) PROVE IInv'
    <2>1. /\ Reply(r, "Error", {}, entries[r], Intercepted(r))
          /\ CanCommit(r) /\ Write(r)
          /\ UNCHANGED <<issued, published, queue>>
      BY <1>4 DEF SaveUnacknowledged, events
    <2>2. /\ entries'[r] = entries[r] \/ entries'[r] = EmptyTracker
          /\ pc'[r] # "dispatch"
          /\ \A q \in Requests \ {r} : entries'[q] = entries[q] /\ pc'[q] = pc[q]
      BY <1>1, <2>1, ReplyEffect
    <2>3. ASSUME NEW q \in Requests, NEW t \in TodoIds
          PROVE  Sound(entries'[q][t], q, rows'[t], t \in issued', published'[t])
      <3>1. Sound(entries[q][t], q, rows'[t], t \in issued', published'[t])
        BY <2>1, WriteTrackers
      <3>2. entries'[q] = entries[q] \/ entries'[q] = EmptyTracker
        BY <2>2
      <3> QED BY <3>1, <3>2 DEF EmptyTracker, Untracked, Sound
    <2>4. QueueInv'
      BY <1>2, <2>1, <2>2 DEF IInv, QueueInv
    <2>5. RowsInv' /\ EventAtMostOnce'
      BY <2>1, WriteInv
    <2> QED BY <1>1, <2>3, <2>4, <2>5 DEF IInv, TrackerInv
  <1>5. ASSUME Save(r) PROVE IInv'
    <2>1. /\ CanCommit(r) /\ Write(r)
          /\ entries' = [entries EXCEPT ![r] = Accepted(r)]
          /\ queue' = [queue EXCEPT ![r] = {t \in TodoIds : entries[r][t].event}]
          /\ pc' = [pc EXCEPT ![r] = "dispatch"]
          /\ UNCHANGED <<issued, published>>
      BY <1>5 DEF Save, events
    <2>2. RowsInv' /\ EventAtMostOnce'
      BY <2>1, WriteInv
    <2>3. ASSUME NEW t \in TodoIds
          PROVE  /\ Sound(entries'[r][t], r, rows'[t], t \in issued', published'[t])
                 /\ t \in queue'[r] => entries'[r][t].event /\ entries'[r][t].state = "Unchanged"
      <3>1. /\ Sound(entries[r][t], r, rows[t], t \in issued, published[t])
            /\ published[t] <= 1 /\ (published[t] = 1 => rows[t].done)
            /\ published[t] \in Nat /\ entries[r][t] \in Entry
        BY <1>1 DEF IInv, TrackerInv, EventAtMostOnce, TypeInv, TypeOK
      <3>2. Kept(r, t) \/ Born(r, t) \/ Closed(r, t)
        BY <2>1, WriteRows
      <3>3. entries'[r][t] =
              IF entries[r][t].state = "Detached" THEN entries[r][t]
              ELSE [state |-> "Unchanged", done |-> entries[r][t].done,
                    event |-> entries[r][t].event,
                    original |-> IF entries[r][t].state = "Modified" THEN r
                                 ELSE entries[r][t].original]
        BY <1>1, <2>1 DEF Accepted, InState, TypeInv, TypeOK
      <3>4. t \in queue'[r] => entries[r][t].event
        BY <1>1, <2>1 DEF TypeInv, TypeOK
      <3>5. CASE entries[r][t].state = "Detached"
        BY <3>1, <3>2, <3>3, <3>4, <3>5, <2>1 DEF Sound, Kept, Born, Closed
      <3>6. CASE entries[r][t].state # "Detached"
        <4>1. /\ entries'[r][t].state = "Unchanged"
              /\ entries'[r][t].event = entries[r][t].event
              /\ entries'[r][t].done = entries[r][t].done
              /\ entries[r][t].state # "Modified" =>
                    entries'[r][t].original = entries[r][t].original
          BY <3>3, <3>6
        <4>2. entries[r][t].event => rows'[t].stamp = r /\ published[t] = 0
          BY <3>1, <3>2, <3>6 DEF Sound, Kept, Born, Closed, Entry
        <4>3. ~entries[r][t].done => entries'[r][t].original = Nobody
          BY <3>1, <4>1 DEF Sound
        <4> QED BY <2>1, <3>4, <4>1, <4>2, <4>3 DEF Sound
      <3> QED BY <3>5, <3>6
    <2>4. ASSUME NEW q \in Requests, NEW t \in TodoIds
          PROVE  Sound(entries'[q][t], q, rows'[t], t \in issued', published'[t])
      <3>1. CASE q = r
        BY <2>3, <3>1
      <3>2. CASE q # r
        <4>1. entries'[q] = entries[q]
          BY <1>1, <2>1, <3>2 DEF TypeInv, TypeOK
        <4> QED BY <2>1, <4>1, WriteTrackers
      <3> QED BY <3>1, <3>2
    <2>5. QueueInv'
      <3>1. ASSUME NEW q \in Requests
            PROVE  /\ pc'[q] # "dispatch" => queue'[q] = {}
                   /\ \A t \in queue'[q] : entries'[q][t].event /\ entries'[q][t].state = "Unchanged"
        <4>1. CASE q = r
          <5>1. pc'[r] = "dispatch" /\ queue'[r] \subseteq TodoIds
            BY <1>1, <2>1 DEF TypeInv, TypeOK
          <5> QED BY <2>3, <4>1, <5>1
        <4>2. CASE q # r
          <5>1. pc'[q] = pc[q] /\ queue'[q] = queue[q] /\ entries'[q] = entries[q]
            BY <1>1, <2>1, <4>2 DEF TypeInv, TypeOK
          <5> QED BY <5>1 DEF IInv, QueueInv
        <4> QED BY <4>1, <4>2
      <3> QED BY <3>1 DEF QueueInv
    <2> QED BY <1>1, <2>2, <2>4, <2>5 DEF IInv, TrackerInv
  <1> QED BY <1>3, <1>4, <1>5

(* The dispatch keeps the invariant: a queued todo was closed by this very
   request and is not announced yet, and its event is cleared before it is published. *)
LEMMA DispatchInv ==
  ASSUME IInv, NEW r \in Requests, Dispatch(r)
  PROVE  IInv'
  <1>1. TypeInv /\ TypeInv'
    BY DispatchType DEF IInv
  <1>2. entries[r] \in [TodoIds -> Entry]
    BY <1>1 DEF TypeInv, TypeOK
  <1>3. ASSUME NEW t \in TodoIds, t \in queue[r]
        PROVE  /\ rows[t].stamp = r /\ rows[t].done /\ published[t] = 0
               /\ Cleared(r, t) \in [TodoIds -> Entry]
               /\ ~Cleared(r, t)[t].event /\ Cleared(r, t)[t].state = "Unchanged"
               /\ ~Cleared(r, t)[t].done => Cleared(r, t)[t].original = Nobody
               /\ \A u \in TodoIds \ {t} : Cleared(r, t)[u] = entries[r][u]
    <2>1. /\ entries[r][t].event /\ entries[r][t].state = "Unchanged"
          /\ Sound(entries[r][t], r, rows[t], t \in issued, published[t])
          /\ rows[t].done <=> rows[t].stamp # Nobody
      BY <1>3 DEF IInv, QueueInv, TrackerInv, RowsInv
    <2>2. rows[t].stamp = r /\ rows[t].done /\ published[t] = 0
      BY <2>1, NullsDiffer DEF Sound
    <2>3. Cleared(r, t) \in [TodoIds -> Entry]
      BY <1>1, TrackerTypes DEF TypeInv
    <2>4. /\ ~Cleared(r, t)[t].event /\ Cleared(r, t)[t].state = "Unchanged"
          /\ Cleared(r, t)[t].done = entries[r][t].done
          /\ Cleared(r, t)[t].original = entries[r][t].original
          /\ \A u \in TodoIds \ {t} : Cleared(r, t)[u] = entries[r][u]
      BY <1>2, <2>1 DEF Cleared
    <2> QED BY <2>1, <2>2, <2>3, <2>4 DEF Sound
  <1>4. ASSUME NEW t \in TodoIds, Publish(r, t) PROVE IInv'
    <2>1. /\ t \in queue[r] /\ pc[r] = "dispatch"
          /\ published' = [published EXCEPT ![t] = published[t] + 1]
          /\ entries' = [entries EXCEPT ![r] = Cleared(r, t)]
          /\ queue' = [queue EXCEPT ![r] = queue[r] \ {t}]
          /\ UNCHANGED <<rows, issued, pc>>
      BY <1>4 DEF Publish, database
    <2>2. /\ published'[t] = 1
          /\ \A u \in TodoIds \ {t} : published'[u] = published[u]
      BY <1>1, <1>3, <2>1 DEF TypeInv, TypeOK
    <2>3. /\ entries'[r] = Cleared(r, t)
          /\ \A q \in Requests \ {r} : entries'[q] = entries[q] /\ queue'[q] = queue[q]
          /\ queue'[r] = queue[r] \ {t} /\ queue[r] \subseteq TodoIds
      BY <1>1, <2>1 DEF TypeInv, TypeOK
    <2>4. RowsInv' /\ EventAtMostOnce'
      BY <1>3, <2>1, <2>2 DEF IInv, RowsInv, EventAtMostOnce
    <2>5. ASSUME NEW q \in Requests, NEW u \in TodoIds
          PROVE  Sound(entries'[q][u], q, rows'[u], u \in issued', published'[u])
      <3>1. Sound(entries[q][u], q, rows[u], u \in issued, published[u])
        BY DEF IInv, TrackerInv
      <3>2. CASE u # t
        <4>1. entries'[q][u] = entries[q][u]
          BY <1>3, <2>1, <2>3, <3>2
        <4> QED BY <2>1, <2>2, <3>1, <3>2, <4>1
      <3>3. CASE u = t /\ q = r
        BY <1>3, <2>1, <2>3, <3>3 DEF Sound
      <3>4. CASE u = t /\ q # r
        BY <1>3, <2>1, <2>3, <3>1, <3>4 DEF Sound
      <3> QED BY <3>2, <3>3, <3>4
    <2>6. QueueInv'
      <3>1. ASSUME NEW q \in Requests
            PROVE  /\ pc'[q] # "dispatch" => queue'[q] = {}
                   /\ \A u \in queue'[q] : entries'[q][u].event /\ entries'[q][u].state = "Unchanged"
        <4>1. CASE q = r
          <5>1. \A u \in queue'[r] : u # t /\ u \in queue[r] /\ entries'[r][u] = entries[r][u]
            BY <1>3, <2>1, <2>3
          <5> QED BY <2>1, <4>1, <5>1 DEF IInv, QueueInv
        <4>2. CASE q # r
          BY <2>1, <2>3, <4>2 DEF IInv, QueueInv
        <4> QED BY <4>1, <4>2
      <3> QED BY <3>1 DEF QueueInv
    <2> QED BY <1>1, <2>4, <2>5, <2>6 DEF IInv, TrackerInv
  <1>5. ASSUME NEW t \in TodoIds, PublishThrows(r, t) PROVE IInv'
    <2> DEFINE es == Cleared(r, t)
    <2>1. /\ t \in queue[r]
          /\ queue' = [queue EXCEPT ![r] = {}]
          /\ Reply(r, "Error", {}, es, audits[r])
          /\ UNCHANGED <<rows, issued, published>>
      BY <1>5 DEF PublishThrows, database, events
    <2>2. es \in [TodoIds -> Entry]
      BY <1>3, <2>1
    <2>3. ASSUME NEW u \in TodoIds
          PROVE  Sound(es[u], r, rows[u], u \in issued', published[u])
      <3>1. Sound(entries[r][u], r, rows[u], u \in issued', published[u])
        BY <2>1 DEF IInv, TrackerInv
      <3>2. CASE u = t
        BY <1>3, <2>1, <3>2 DEF Sound
      <3>3. CASE u # t
        BY <1>3, <2>1, <3>1, <3>3
      <3> QED BY <3>2, <3>3
    <2> HIDE DEF es
    <2>4. /\ entries'[r] = es \/ entries'[r] = EmptyTracker
          /\ pc'[r] # "dispatch"
          /\ \A q \in Requests \ {r} : entries'[q] = entries[q] /\ pc'[q] = pc[q]
      BY <1>1, <2>1, ReplyEffect
    <2>5. queue'[r] = {} /\ \A q \in Requests \ {r} : queue'[q] = queue[q]
      BY <1>1, <2>1 DEF TypeInv, TypeOK
    <2> QED BY <1>1, <2>1, <2>2, <2>3, <2>4, <2>5, LocalStep
  <1>6. ASSUME Return(r) PROVE IInv'
    <2>1. /\ queue[r] = {} /\ UNCHANGED <<rows, issued, published, queue>>
          /\ Reply(r, "Ok", {target[r]}, entries[r], audits[r])
      BY <1>6 DEF Return, database, events
    <2>2. \A t \in TodoIds : Sound(entries[r][t], r, rows[t], t \in issued', published[t])
      BY <2>1 DEF IInv, TrackerInv
    <2> QED BY <1>1, <1>2, <2>1, <2>2, ReplyEffect, LocalStep
  <1> QED BY <1>4, <1>5, <1>6 DEF Dispatch

(* A step that changes nothing keeps the inductive invariant. *)
LEMMA StutterInv ==
  ASSUME IInv, UNCHANGED vars
  PROVE  IInv'
  <1>1. TypeInv'
    BY StutterType DEF IInv
  <1> QED BY <1>1 DEF IInv, vars, RowsInv, TrackerInv, QueueInv, EventAtMostOnce

\* Every step keeps the inductive invariant.
LEMMA NextInv == IInv /\ [Next]_vars => IInv'
  BY ArriveInv, HandleInv, SaveInv, DispatchInv, LostInv, StutterInv DEF Next, Progress

\* In every behaviour the inductive invariant holds.
THEOREM Invariant == Spec => []IInv
  BY InitInv, NextInv, PTL DEF Spec

\* However many requests, fields and hosts finish one todo, and whatever fails,
\* its integration event is published at most once, and only for a committed row.
THEOREM PublishedOnce == Spec => []EventAtMostOnce
  <1>1. IInv => EventAtMostOnce
    BY DEF IInv
  <1> QED BY <1>1, Invariant, PTL

-----------------------------------------------------------------------------
(* Action properties and refinement *)

\* The steps that change rows are the two commits; only Create issues ids.
LEMMA RowSteps ==
  ASSUME [Next]_vars
  PROVE  \/ UNCHANGED rows
         \/ \E r \in Requests : CanCommit(r) /\ Write(r) /\ UNCHANGED published
  <1>1. ASSUME NEW r \in Requests, Save(r) \/ SaveUnacknowledged(r)
        PROVE  CanCommit(r) /\ Write(r) /\ UNCHANGED published
    BY <1>1 DEF Save, SaveUnacknowledged, events
  <1>2. ASSUME NEW r \in Requests, Arrive(r) \/ Handle(r) \/ SaveRejected(r) \/ Dispatch(r)
                                   \/ SaveFails(r) \/ Abort(r)
        PROVE  UNCHANGED rows
    BY <1>2 DEF Arrive, Handle, Create, SetDone, Get, GetAll, SaveRejected, Dispatch, Publish,
                PublishThrows, Return, SaveFails, Abort, database
  <1>3. ASSUME NEW h \in Hosts, Crash(h) PROVE UNCHANGED rows
    BY <1>3 DEF Crash, database
  <1>4. UNCHANGED vars => UNCHANGED rows
    BY DEF vars
  <1> QED BY <1>1, <1>2, <1>3, <1>4 DEF Next, Progress

\* In every behaviour a row stays, keeps its tenant, never goes back to open and
\* is never overwritten once it is done.
THEOREM RowsAdvance == Spec => RowsOnlyAdvance
  <1>1. ASSUME IInv, [Next]_vars, NEW t \in TodoIds, rows[t].exists
        PROVE  /\ rows'[t].exists /\ rows'[t].tenant = rows[t].tenant
               /\ rows[t].done => rows'[t] = rows[t]
    <2>1. CASE UNCHANGED rows
      BY <1>1, <2>1
    <2>2. ASSUME NEW r \in Requests, CanCommit(r), Write(r)
          PROVE  /\ rows'[t].exists /\ rows'[t].tenant = rows[t].tenant
                 /\ rows[t].done => rows'[t] = rows[t]
      <3>1. Kept(r, t) \/ Born(r, t) \/ Closed(r, t)
        BY <1>1, <2>2, WriteRows
      <3> QED BY <1>1, <3>1 DEF Kept, Born, Closed
    <2> QED BY <1>1, <2>1, <2>2, RowSteps
  <1>2. IInv /\ [Next]_vars =>
          [\A t \in TodoIds : rows[t].exists =>
              /\ rows'[t].exists /\ rows'[t].tenant = rows[t].tenant
              /\ rows[t].done => rows'[t] = rows[t]]_vars
    BY <1>1
  <1> QED BY <1>2, Invariant, PTL DEF Spec, RowsOnlyAdvance

\* The steps that publish: one event of a row that is done, for the first time.
LEMMA PublishSteps ==
  ASSUME IInv, [Next]_vars
  PROVE  \/ UNCHANGED published
         \/ \E t \in TodoIds : /\ rows[t].exists /\ rows[t].done /\ published[t] = 0
                              /\ published' = [published EXCEPT ![t] = 1]
                              /\ UNCHANGED rows
  <1>1. ASSUME NEW r \in Requests, NEW t \in TodoIds, Publish(r, t)
        PROVE  /\ rows[t].exists /\ rows[t].done /\ published[t] = 0
               /\ published' = [published EXCEPT ![t] = 1]
               /\ UNCHANGED rows
    <2>1. /\ t \in queue[r] /\ UNCHANGED rows
          /\ published' = [published EXCEPT ![t] = published[t] + 1]
      BY <1>1 DEF Publish, database
    <2>2. /\ entries[r][t].event /\ entries[r][t].state = "Unchanged"
          /\ Sound(entries[r][t], r, rows[t], t \in issued, published[t])
          /\ rows[t].done <=> rows[t].stamp # Nobody
          /\ rows[t].done => rows[t].exists
      BY <2>1 DEF IInv, QueueInv, TrackerInv, RowsInv
    <2>3. rows[t].exists /\ rows[t].done /\ published[t] = 0
      BY <2>2, NullsDiffer DEF Sound
    <2> QED BY <2>1, <2>3
  <1>2. ASSUME NEW r \in Requests,
               \/ Arrive(r) \/ Handle(r) \/ Save(r) \/ SaveRejected(r) \/ SaveFails(r)
               \/ SaveUnacknowledged(r) \/ Abort(r) \/ Return(r)
               \/ \E t \in TodoIds : PublishThrows(r, t)
        PROVE  UNCHANGED published
    BY <1>2 DEF Arrive, Handle, Create, SetDone, Get, GetAll, Save, SaveRejected, SaveFails,
                SaveUnacknowledged, Abort, Return, PublishThrows, events
  <1>3. ASSUME NEW h \in Hosts, Crash(h) PROVE UNCHANGED published
    BY <1>3 DEF Crash, events
  <1>4. UNCHANGED vars => UNCHANGED published
    BY DEF vars
  <1> QED BY <1>1, <1>2, <1>3, <1>4 DEF Next, Progress, Dispatch

\* A commit is a commit of the lifecycle.
LEMMA WriteRefines ==
  ASSUME IInv, NEW r \in Requests, CanCommit(r), Write(r), UNCHANGED published
  PROVE  Lifecycle!Next
  <1> DEFINE new == {t \in TodoIds : Born(r, t)}
             finished == {t \in TodoIds : Closed(r, t)}
  <1>1. ASSUME NEW t \in TodoIds
        PROVE  /\ t \in new => Phase(t) = "absent"
               /\ t \in finished => Phase(t) = "open"
               /\ Phase(t)' = IF t \in new THEN "open"
                              ELSE IF t \in finished THEN "done" ELSE Phase(t)
    <2>1. Kept(r, t) \/ Born(r, t) \/ Closed(r, t)
      BY WriteRows
    <2> QED BY <2>1 DEF Kept, Born, Closed, Phase
  <1>2. new \in SUBSET TodoIds /\ finished \in SUBSET TodoIds
    OBVIOUS
  <1> HIDE DEF new, finished
  <1>3. [t \in TodoIds |-> Phase(t)]' =
          [t \in TodoIds |-> IF t \in new THEN "open"
                             ELSE IF t \in finished THEN "done"
                             ELSE [u \in TodoIds |-> Phase(u)][t]]
    BY <1>1
  <1>4. Lifecycle!Commit(new, finished)
    BY <1>1, <1>2, <1>3 DEF Lifecycle!Commit
  <1> QED BY <1>2, <1>4 DEF Lifecycle!Next

\* In every behaviour the module implements the lifecycle of its todos: created
\* open, finished once, announced once and only when finished.
THEOREM Refinement == Spec => ImplementsLifecycle
  <1>1. Init => Lifecycle!Init
    <2> SUFFICES ASSUME Init PROVE Lifecycle!Init
      OBVIOUS
    <2>1. \A t \in TodoIds : rows[t] = NoRow \/ \E tn \in Tenants : rows[t] = OpenRow(tn)
      BY DEF Init
    <2>2. \A t \in TodoIds : Phase(t) \in {"absent", "open"}
      <3>1. ASSUME NEW t \in TodoIds PROVE ~rows[t].done
        <4>1. CASE rows[t] = NoRow
          BY <4>1 DEF NoRow
        <4>2. CASE \E tn \in Tenants : rows[t] = OpenRow(tn)
          BY <4>2 DEF OpenRow
        <4> QED BY <2>1, <4>1, <4>2
      <3> QED BY <3>1 DEF Phase
    <2>3. published = [t \in TodoIds |-> 0]
      BY DEF Init
    <2> QED BY <2>2, <2>3 DEF Lifecycle!Init
  <1>2. IInv /\ [Next]_vars => [Lifecycle!Next]_(Lifecycle!vars)
    <2> SUFFICES ASSUME IInv, [Next]_vars
                 PROVE  Lifecycle!Next \/ UNCHANGED Lifecycle!vars
      OBVIOUS
    <2>1. CASE \E r \in Requests : CanCommit(r) /\ Write(r) /\ UNCHANGED published
      BY <2>1, WriteRefines
    <2>2. CASE UNCHANGED rows /\ UNCHANGED published
      BY <2>2 DEF Lifecycle!vars, Phase
    <2>3. ASSUME NEW t \in TodoIds,
                 rows[t].exists, rows[t].done, published[t] = 0,
                 published' = [published EXCEPT ![t] = 1], UNCHANGED rows
          PROVE  Lifecycle!Next
      <3>1. [u \in TodoIds |-> Phase(u)][t] = "done"
        BY <2>3 DEF Phase
      <3>2. [u \in TodoIds |-> Phase(u)]' = [u \in TodoIds |-> Phase(u)]
        BY <2>3 DEF Phase
      <3>3. Lifecycle!Announce(t)
        BY <2>3, <3>1, <3>2 DEF Lifecycle!Announce
      <3> QED BY <3>3 DEF Lifecycle!Next
    <2> QED BY <2>1, <2>2, <2>3, RowSteps, PublishSteps
  <1> QED BY <1>1, <1>2, Invariant, PTL DEF Spec, ImplementsLifecycle, Lifecycle!Spec

-----------------------------------------------------------------------------
(* No step is taken twice: what EveryRequestEnds says of steps.  Positioned  *)
(* says that a request in progress has a command to execute.                 *)

local(r) == <<pc[r], caller[r], script[r], answers[r], entries[r], audits[r], queue[r], target[r]>>

\* Request r arrives, is over, begins its next command with one more answer, or
\* takes its command from the handler to the save, from there to the dispatch,
\* or has one entity less to dispatch.
Advances(r) ==
    \/ pc[r] = "idle" /\ pc'[r] \in {"handle", "over"}
    \/ InProgress(r) /\ pc'[r] = "over"
    \/ InProgress(r) /\ pc'[r] = "handle" /\ Len(answers'[r]) = Len(answers[r]) + 1
    \/ pc[r] = "handle" /\ pc'[r] = "save" /\ answers'[r] = answers[r]
    \/ pc[r] = "save" /\ pc'[r] = "dispatch" /\ answers'[r] = answers[r]
    \/ /\ pc[r] = "dispatch" /\ pc'[r] = "dispatch" /\ answers'[r] = answers[r]
       /\ \E t \in queue[r] : queue'[r] = queue[r] \ {t}

\* A command that ends gives one more answer.
LEMMA ReplyAdvances ==
  ASSUME TypeOK, NEW r \in Requests, InProgress(r), NEW result, NEW ids, NEW es, NEW as,
         Reply(r, result, ids, es, as)
  PROVE  Advances(r)
  <1>1. /\ pc \in [Requests -> {"idle", "handle", "save", "dispatch", "over"}]
        /\ answers \in [Requests -> Seq(Answer)]
    BY DEF TypeOK
  <1>2. pc'[r] \in {"handle", "over"}
    BY <1>1 DEF Reply
  <1> DEFINE a == [command |-> Current(r), ids |-> ids, result |-> result]
  <1>3. answers'[r] = Append(answers[r], a)
    BY <1>1 DEF Reply
  <1> HIDE DEF a
  <1>4. Len(answers'[r]) = Len(answers[r]) + 1
    <2>1. answers[r] \in Seq(Answer)
      BY <1>1
    <2>2. Len(Append(answers[r], a)) = Len(answers[r]) + 1
      BY <2>1
    <2> QED BY <1>3, <2>2
  <1> QED BY <1>2, <1>4 DEF Advances

\* Every step of a request advances it.
LEMMA StepAdvances ==
  ASSUME TypeOK, NEW r \in Requests,
         Arrive(r) \/ Progress(r) \/ SaveFails(r) \/ SaveUnacknowledged(r) \/ Abort(r)
  PROVE  Advances(r)
  <1>1. /\ pc \in [Requests -> {"idle", "handle", "save", "dispatch", "over"}]
        /\ queue \in [Requests -> SUBSET TodoIds]
    BY DEF TypeOK
  <1>2. CASE Arrive(r)
    BY <1>1, <1>2 DEF Arrive, Arrival, Admit, Forbid, Advances
  <1>3. CASE Abort(r)
    BY <1>1, <1>3 DEF Abort, Advances, InProgress
  <1>4. ASSUME NEW t, NEW e, pc[r] = "handle", Stage(r, t, e) PROVE Advances(r)
    BY <1>1, <1>4 DEF Stage, Advances
  <1>5. ASSUME Handle(r) PROVE Advances(r)
    <2>1. pc[r] = "handle" /\ InProgress(r)
      BY <1>5 DEF Handle, Create, SetDone, Get, GetAll, InProgress
    <2>2. CASE Create(r)
      BY <1>4, <2>1, <2>2, ReplyAdvances DEF Create
    <2>3. CASE SetDone(r)
      BY <1>4, <2>1, <2>3, ReplyAdvances DEF SetDone
    <2>4. CASE Get(r) \/ GetAll(r)
      BY <2>1, <2>4, ReplyAdvances DEF Get, GetAll
    <2> QED BY <1>5, <2>2, <2>3, <2>4 DEF Handle
  <1>6. CASE Save(r)
    BY <1>1, <1>6 DEF Save, Advances
  <1>7. CASE SaveRejected(r) \/ SaveFails(r) \/ SaveUnacknowledged(r)
    <2>1. InProgress(r)
      BY <1>7 DEF SaveRejected, SaveFails, SaveUnacknowledged, InProgress
    <2> QED BY <1>7, <2>1, ReplyAdvances DEF SaveRejected, SaveFails, SaveUnacknowledged
  <1>8. ASSUME NEW t \in TodoIds, Publish(r, t) PROVE Advances(r)
    BY <1>1, <1>8 DEF Publish, Advances
  <1>9. ASSUME NEW t \in TodoIds, PublishThrows(r, t) PROVE Advances(r)
    BY <1>9, ReplyAdvances DEF PublishThrows, InProgress
  <1>10. CASE Return(r)
    BY <1>10, ReplyAdvances DEF Return, InProgress
  <1> QED BY <1>2, <1>3, <1>5, <1>6, <1>7, <1>8, <1>9, <1>10 DEF Progress, Dispatch

\* A step of a request leaves what every other request has in its scope.
LEMMA StepIsLocal ==
  ASSUME TypeOK, NEW r \in Requests, NEW q \in Requests \ {r},
         Arrive(r) \/ Progress(r) \/ SaveFails(r) \/ SaveUnacknowledged(r) \/ Abort(r)
  PROVE  UNCHANGED local(q)
  <1> USE DEF local
  <1>1. /\ pc = [x \in Requests |-> pc[x]] /\ caller = [x \in Requests |-> caller[x]]
        /\ script = [x \in Requests |-> script[x]] /\ answers = [x \in Requests |-> answers[x]]
        /\ entries = [x \in Requests |-> entries[x]] /\ audits = [x \in Requests |-> audits[x]]
        /\ queue = [x \in Requests |-> queue[x]] /\ target = [x \in Requests |-> target[x]]
    BY DEF TypeOK
  <1>2. ASSUME NEW result, NEW ids, NEW es, NEW as, Reply(r, result, ids, es, as)
        PROVE  /\ pc'[q] = pc[q] /\ caller'[q] = caller[q] /\ script'[q] = script[q]
               /\ answers'[q] = answers[q] /\ entries'[q] = entries[q]
               /\ audits'[q] = audits[q] /\ target'[q] = target[q]
    BY <1>1, <1>2 DEF Reply
  <1>3. ASSUME NEW t, NEW e, Stage(r, t, e)
        PROVE  /\ pc'[q] = pc[q] /\ caller'[q] = caller[q] /\ script'[q] = script[q]
               /\ answers'[q] = answers[q] /\ entries'[q] = entries[q]
               /\ audits'[q] = audits[q] /\ target'[q] = target[q]
    BY <1>1, <1>3 DEF Stage
  <1>4. CASE Arrive(r)
    BY <1>1, <1>4 DEF Arrive, Arrival, Admit, Forbid, scope
  <1>5. CASE Abort(r) \/ Save(r)
    BY <1>1, <1>5 DEF Abort, Save
  <1>6. CASE Create(r) \/ SetDone(r)
    BY <1>2, <1>3, <1>6 DEF Create, SetDone
  <1>7. CASE Get(r) \/ GetAll(r) \/ SaveRejected(r) \/ SaveFails(r) \/ SaveUnacknowledged(r)
             \/ Return(r)
    BY <1>2, <1>7 DEF Get, GetAll, SaveRejected, SaveFails, SaveUnacknowledged, Return
  <1>8. ASSUME NEW t \in TodoIds, Publish(r, t) \/ PublishThrows(r, t) PROVE UNCHANGED local(q)
    <2>1. queue'[q] = queue[q]
      BY <1>1, <1>8 DEF Publish, PublishThrows
    <2>2. CASE Publish(r, t)
      BY <1>1, <2>1, <2>2 DEF Publish
    <2>3. CASE PublishThrows(r, t)
      BY <1>2, <2>1, <2>3 DEF PublishThrows
    <2> QED BY <1>8, <2>2, <2>3
  <1> QED BY <1>4, <1>5, <1>6, <1>7, <1>8 DEF Progress, Handle, Dispatch

\* A host that stops ends its requests and leaves those of the other host.
LEMMA CrashAdvances ==
  ASSUME TypeOK, NEW h \in Hosts, Crash(h)
  PROVE  /\ \E r \in Requests : Advances(r)
         /\ \A r \in Requests : Advances(r) \/ UNCHANGED local(r)
  <1> DEFINE lost == {r \in Requests : InProgress(r) /\ caller[r].host = h}
  <1>1. \A r \in lost : pc'[r] = "over" /\ InProgress(r)
    BY DEF Crash
  <1>2. \A r \in lost : Advances(r)
    BY <1>1 DEF Advances
  <1>3. ASSUME NEW r \in Requests \ lost PROVE UNCHANGED local(r)
    BY <1>3 DEF Crash, local
  <1>4. lost # {}
    BY DEF Crash
  <1> QED BY <1>2, <1>3, <1>4

\* Every step of the system advances a request, and none puts one back, repeats
\* a step of it or touches a request that is over: with the number of commands
\* that Positioned bounds, a request takes as many steps as its commands and
\* their events ask for.  No save is retried for ever, whatever others do.
THEOREM RequestsAdvance ==
  Spec => [][/\ \E r \in Requests : Advances(r)
             /\ \A r \in Requests : Advances(r) \/ UNCHANGED local(r)]_vars
  <1> DEFINE A == /\ \E r \in Requests : Advances(r)
                  /\ \A r \in Requests : Advances(r) \/ UNCHANGED local(r)
  <1>1. ASSUME TypeOK, Next PROVE A
    <2>1. ASSUME NEW r \in Requests,
                 Arrive(r) \/ Progress(r) \/ SaveFails(r) \/ SaveUnacknowledged(r) \/ Abort(r)
          PROVE  A
      <3>1. Advances(r)
        BY <1>1, <2>1, StepAdvances
      <3>2. \A q \in Requests \ {r} : UNCHANGED local(q)
        BY <1>1, <2>1, StepIsLocal
      <3> QED BY <3>1, <3>2
    <2>2. ASSUME NEW h \in Hosts, Crash(h) PROVE A
      BY <1>1, <2>2, CrashAdvances
    <2> QED BY <1>1, <2>1, <2>2 DEF Next
  <1>2. TypeOK /\ [Next]_vars => [A]_vars
    BY <1>1
  <1> HIDE DEF A
  <1>3. Spec => [][A]_vars
    BY <1>2, TypeCorrect, PTL DEF Spec
  <1> QED BY <1>3 DEF A
==============================================================================
