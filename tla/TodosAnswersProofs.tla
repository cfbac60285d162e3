-------------------------- MODULE TodosAnswersProofs --------------------------
(***************************************************************************)
(* What clients and auditors of Todos may rely on, for every set of        *)
(* requests, todos and tenants, every length of a GraphQL request and any  *)
(* number of faults: answers that stay true, one winner per todo, rows that *)
(* stay with their tenant, and audit entries that match the rows.          *)
(*                                                                         *)
(* None of this is inductive by itself.  CInv says of each request what it *)
(* may hold for a todo, given the row (Fits), what the answers it has given *)
(* oblige it to (Wins, Tells, Once), and what the command under way will   *)
(* answer (Aims); an id is added by one request only (AddedOnce).  A step  *)
(* is then a matter of the request that takes it, and of the bystanders    *)
(* that see a row appear or close.                                         *)
(***************************************************************************)
EXTENDS TodosProofs

\* The commands of a request name a todo; it was told that it finished one.
Names(r, t) ==
    \E i \in DOMAIN script[r] : script[r][i].op \in {"SetDone", "Get"} /\ script[r][i].id = t

Finishes(a, t) == a.command.op = "SetDone" /\ a.command.id = t /\ a.result = "Ok"

Won(r, t) == \E i \in DOMAIN answers[r] : Finishes(answers[r][i], t)

\* What request r may hold for todo t, with entry e and unsaved audit counts c.
Fits(e, c, r, t, row) ==
    /\ e.state \in {"Unchanged", "Modified"} => row.exists
    /\ row.exists /\ e.state # "Detached" => row.tenant = caller[r].tenant
    /\ row.stamp = r => row.tenant = caller[r].tenant
    /\ Names(r, t) => row.exists /\ e.state # "Added"
    /\ c["Create"] > 0 => e.state = "Added"
    /\ c["Edit"] > 0 => e.state = "Modified"

\* A request that has not arrived has left no trace.
Rests(r) ==
    pc[r] = "idle" => \A t \in TodoIds : entries[r][t].state = "Detached" /\ rows[t].stamp # r

\* A todo that r was told it finished carries its stamp, and is tracked as done
\* as long as the scope lives.
Wins(r) ==
    \A t \in TodoIds : Won(r, t) =>
        /\ rows[t].stamp = r
        /\ InProgress(r) => entries[r][t].state # "Detached" /\ entries[r][t].done

\* The answer that the command under way is heading for.
Aims(r) ==
    pc[r] \in {"save", "dispatch"} =>
        LET t == target[r]
        IN  /\ Current(r).op \in {"Create", "SetDone"}
            /\ Current(r).op = "SetDone" =>
                  t = Current(r).id /\ ~Won(r, t) /\ entries[r][t].done
            /\ pc[r] = "save" =>
                  entries[r][t].state = IF Current(r).op = "Create" THEN "Added" ELSE "Modified"
            /\ pc[r] = "dispatch" =>
                  /\ rows[t].exists /\ rows[t].tenant = caller[r].tenant
                  /\ entries[r][t].state # "Detached"
                  /\ Current(r).op = "SetDone" => rows[t].stamp = r

\* An answer to a caller of tenant tn is true of a table.
Holds(a, tn, table) ==
    /\ \A t \in a.ids : table[t].exists /\ table[t].tenant = tn
    /\ a.result = "NotFound" =>
          /\ a.command.id \in TodoIds /\ table[a.command.id].exists
          /\ table[a.command.id].tenant # tn

\* The answers that r has given are true.
Tells(r) == \A i \in DOMAIN answers[r] : Holds(answers[r][i], caller[r].tenant, rows)

Once(r) ==
    \A t \in TodoIds : \A i, j \in DOMAIN answers[r] :
        Finishes(answers[r][i], t) /\ Finishes(answers[r][j], t) => i = j

LocalInv(r) ==
    /\ \A t \in TodoIds : Fits(entries[r][t], audits[r][t], r, t, rows[t])
    /\ Rests(r) /\ Wins(r) /\ Aims(r) /\ Tells(r) /\ Once(r)

\* No two requests add the same id.
AddedOnce ==
    \A q, r \in Requests, t \in TodoIds :
        entries[q][t].state = "Added" /\ entries[r][t].state = "Added" => q = r

\* The inductive invariant, next to IInv.
CInv == (\A r \in Requests : LocalInv(r)) /\ AddedOnce /\ AuditsMatchRows

-----------------------------------------------------------------------------
(* Steps of a request, seen from itself and from the others *)

\* A step in which r has no part.
Apart(r) ==
    /\ pc'[r] = pc[r] /\ caller'[r] = caller[r] /\ script'[r] = script[r]
    /\ answers'[r] = answers[r] /\ entries'[r] = entries[r] /\ audits'[r] = audits[r]
    /\ target'[r] = target[r]

\* What r keeps or establishes in a step.
Keeps(r) ==
    /\ LocalInv(r)'
    /\ \A t \in TodoIds : entries'[r][t].state = "Added" =>
            entries[r][t].state = "Added" \/ t \notin issued

\* What a step may do to a row that exists.
RowsStay == \A t \in TodoIds : rows[t].exists =>
                /\ rows'[t].exists /\ rows'[t].tenant = rows[t].tenant
                /\ rows[t].stamp # Nobody => rows'[t] = rows[t]

\* A commit of w lets existing rows stay, adds those it has added, with its
\* tenant, and stamps those it has modified.
LEMMA CommitFate ==
  ASSUME IInv, NEW w \in Requests, CanCommit(w), Write(w)
  PROVE  /\ RowsStay
         /\ \A t \in TodoIds :
              /\ entries[w][t].state = "Added" =>
                    /\ ~rows[t].exists /\ rows'[t].exists /\ rows'[t].stamp = Nobody
                    /\ rows'[t].tenant = caller[w].tenant
              /\ entries[w][t].state = "Modified" => rows[t].exists /\ rows'[t].stamp = w
              /\ entries[w][t].state \notin {"Added", "Modified"} => rows'[t] = rows[t]
  <1> SUFFICES ASSUME NEW t \in TodoIds
               PROVE  /\ rows[t].exists =>
                            /\ rows'[t].exists /\ rows'[t].tenant = rows[t].tenant
                            /\ rows[t].stamp # Nobody => rows'[t] = rows[t]
                      /\ entries[w][t].state = "Added" =>
                            /\ ~rows[t].exists /\ rows'[t].exists /\ rows'[t].stamp = Nobody
                            /\ rows'[t].tenant = caller[w].tenant
                      /\ entries[w][t].state = "Modified" => rows[t].exists /\ rows'[t].stamp = w
                      /\ entries[w][t].state \notin {"Added", "Modified"} => rows'[t] = rows[t]
    BY DEF RowsStay
  <1>1. Kept(w, t) \/ Born(w, t) \/ Closed(w, t)
    BY WriteRows
  <1>2. entries[w][t].state = "Added" => rows'[t].tenant = caller[w].tenant
    BY DEF Write, InState, Inserted
  <1> QED BY <1>1, <1>2 DEF Kept, Born, Closed

\* The operators of the invariant depend on the request's own variables only.
LEMMA OwnViews ==
  ASSUME NEW r \in Requests, caller'[r] = caller[r], script'[r] = script[r]
  PROVE  /\ \A t \in TodoIds : Names(r, t)' <=> Names(r, t)
         /\ answers'[r] = answers[r] =>
               /\ \A t \in TodoIds : Won(r, t)' <=> Won(r, t)
               /\ Current(r)' = Current(r)
BY DEF Names, Won, Finishes, Current

\* What is true of rows that stay remains true.
LEMMA ToldStays ==
  ASSUME RowsStay, NEW tn, NEW a \in Answer, Holds(a, tn, rows)
  PROVE  Holds(a, tn, rows')
BY DEF RowsStay, Holds, Answer

\* A request that has no part in a step keeps all it holds: rows that others
\* add are not among those it tracks, and rows that others close are not its own.
LEMMA Bystander ==
  ASSUME IInv, CInv, NEW r \in Requests, Apart(r),
         \/ UNCHANGED rows
         \/ \E w \in Requests \ {r} : CanCommit(w) /\ Write(w)
  PROVE  Keeps(r)
  <1>1. /\ LocalInv(r) /\ TypeInv /\ RowsInv
        /\ \A t \in TodoIds : rows[t] \in Row /\ entries[r][t] \in Entry
    BY DEF CInv, IInv, TypeInv, TypeOK
  <1>2. /\ RowsStay
        /\ \A t \in TodoIds :
              /\ rows'[t].stamp = r => rows'[t] = rows[t]
              /\ ~rows[t].exists /\ rows'[t].exists =>
                    entries[r][t].state # "Added" /\ rows'[t].stamp # r
    <2>1. CASE UNCHANGED rows
      BY <2>1 DEF RowsStay
    <2>2. ASSUME NEW w \in Requests, w # r, CanCommit(w), Write(w)
          PROVE  /\ RowsStay
                 /\ \A t \in TodoIds :
                      /\ rows'[t].stamp = r => rows'[t] = rows[t]
                      /\ ~rows[t].exists /\ rows'[t].exists =>
                            entries[r][t].state # "Added" /\ rows'[t].stamp # r
      <3>1. \A t \in TodoIds : entries[w][t].state = "Added" => entries[r][t].state # "Added"
        BY <2>2 DEF CInv, AddedOnce
      <3> QED BY <2>2, <3>1, CommitFate, NullsDiffer
    <2> QED BY <2>1, <2>2
  <1>3. \A t \in TodoIds : Names(r, t)' <=> Names(r, t)
    BY OwnViews DEF Apart
  <1>4. (\A t \in TodoIds : Won(r, t)' <=> Won(r, t)) /\ Current(r)' = Current(r)
    BY OwnViews DEF Apart
  <1>5. \A t \in TodoIds : Fits(entries[r][t], audits[r][t], r, t, rows[t])'
    <2> SUFFICES ASSUME NEW t \in TodoIds
                 PROVE  Fits(entries[r][t], audits[r][t], r, t, rows[t])'
      OBVIOUS
    <2>1. Fits(entries[r][t], audits[r][t], r, t, rows[t])
      BY <1>1 DEF LocalInv
    <2>2. \/ rows[t].exists /\ rows'[t].exists /\ rows'[t].tenant = rows[t].tenant
          \/ ~rows[t].exists
      BY <1>2 DEF RowsStay
    <2>3. rows'[t].stamp = r => rows'[t] = rows[t]
      BY <1>2
    <2>4. ~rows[t].exists /\ rows'[t].exists => entries[r][t].state # "Added"
      BY <1>2
    <2>5. entries[r][t].state \in {"Detached", "Added", "Unchanged", "Modified"}
      BY <1>1 DEF Entry
    <2> QED BY <1>3, <2>1, <2>2, <2>3, <2>4, <2>5 DEF Fits, Apart
  <1>6. Rests(r)'
    BY <1>1, <1>2 DEF LocalInv, Rests, Apart
  <1>7. \A t \in TodoIds : rows[t].stamp = r => rows'[t].stamp = r
    BY <1>1, <1>2, NullsDiffer DEF RowsInv, RowsStay
  <1>8. Wins(r)'
    BY <1>1, <1>4, <1>7 DEF LocalInv, Wins, Apart, InProgress
  <1>9. Aims(r)'
    <2> SUFFICES ASSUME pc'[r] \in {"save", "dispatch"} PROVE Aims(r)'
      BY DEF Aims
    <2>1. target[r] \in TodoIds /\ Aims(r)
      BY <1>1 DEF TypeInv, Positioned, Apart, LocalInv
    <2> QED BY <1>2, <1>4, <1>7, <2>1 DEF Aims, Apart, RowsStay
  <1>10. Tells(r)' /\ Once(r)'
    <2>1. answers[r] \in Seq(Answer)
      BY <1>1 DEF TypeInv, TypeOK
    <2>2. \A i \in DOMAIN answers[r] : answers[r][i] \in Answer
      BY <2>1
    <2>3. Tells(r)'
      BY <1>1, <1>2, <2>2, ToldStays DEF Tells, Apart, LocalInv
    <2>4. Once(r)'
      BY <1>1 DEF LocalInv, Once, Apart, Finishes
    <2> QED BY <2>3, <2>4
  <1> QED BY <1>5, <1>6, <1>8, <1>9, <1>10 DEF Keeps, LocalInv, Apart

-----------------------------------------------------------------------------
(* The request that takes a step *)

\* The answers of a request after one more.
LEMMA OneMore ==
  ASSUME TypeInv, NEW r \in Requests, NEW a,
         answers'[r] = Append(answers[r], a)
  PROVE  /\ \A i \in DOMAIN answers'[r] :
               \/ i \in DOMAIN answers[r] /\ answers'[r][i] = answers[r][i]
               \/ i = Len(answers[r]) + 1 /\ answers'[r][i] = a
         /\ \A t \in TodoIds : Won(r, t)' => Won(r, t) \/ Finishes(a, t)
  <1>1. answers[r] \in Seq(Answer)
    BY DEF TypeInv, TypeOK
  <1>2. \A i \in DOMAIN answers'[r] :
               \/ i \in DOMAIN answers[r] /\ answers'[r][i] = answers[r][i]
               \/ i = Len(answers[r]) + 1 /\ answers'[r][i] = a
    BY <1>1
  <1> QED BY <1>2 DEF Won, Finishes

\* An entry that the scope drops fits as well.
LEMMA FitsBlank ==
  ASSUME NEW r \in Requests, NEW t \in TodoIds, NEW e, NEW c, NEW row, Fits(e, c, r, t, row)
  PROVE  Fits(EmptyTracker[t], NoAudits[t], r, t, row)
  <1>1. /\ EmptyTracker[t].state = "Detached"
        /\ NoAudits[t]["Create"] = 0 /\ NoAudits[t]["Edit"] = 0
    BY DEF EmptyTracker, Untracked, NoAudits, TrailTypes
  <1> QED BY <1>1 DEF Fits

\* What a reply leaves of the request.
LEMMA ReplyOwn ==
  ASSUME TypeInv, NEW r \in Requests, NEW result, NEW ids, NEW es, NEW as,
         Reply(r, result, ids, es, as)
  PROVE  /\ caller' = caller /\ script' = script
         /\ \/ pc'[r] = "handle" /\ entries'[r] = es /\ audits'[r] = as
            \/ pc'[r] = "over" /\ entries'[r] = EmptyTracker /\ audits'[r] = NoAudits
  BY DEF TypeInv, TypeOK, Reply

\* A reply, where the row of each todo fits what the command leaves in the
\* scope, and the answer is true.
LEMMA ReplyKeeps ==
  ASSUME IInv, CInv, NEW r \in Requests, InProgress(r),
         NEW result \in {"Ok", "Invalid", "NotFound", "Conflict", "Error"},
         NEW ids \in SUBSET TodoIds, NEW es \in [TodoIds -> Entry], NEW as \in AuditCounts,
         Reply(r, result, ids, es, as), RowsStay,
         \A t \in TodoIds : Fits(es[t], as[t], r, t, rows'[t]),
         \A t \in TodoIds : Won(r, t) => es[t].state # "Detached" /\ es[t].done,
         \A t \in ids : rows'[t].exists /\ rows'[t].tenant = caller[r].tenant,
         result = "NotFound" => /\ Current(r).id \in TodoIds /\ rows'[Current(r).id].exists
                                /\ rows'[Current(r).id].tenant # caller[r].tenant,
         result = "Ok" /\ Current(r).op = "SetDone" =>
             LET t == Current(r).id
             IN  /\ ~Won(r, t) /\ rows'[t].stamp = r
                 /\ es[t].state # "Detached" /\ es[t].done,
         \A t \in TodoIds : es[t].state = "Added" => entries[r][t].state = "Added"
  PROVE  Keeps(r)
  <1> DEFINE a == [command |-> Current(r), ids |-> ids, result |-> result]
  <1>1. /\ TypeInv /\ RowsInv /\ LocalInv(r)
        /\ pc \in [Requests -> {"idle", "handle", "save", "dispatch", "over"}]
        /\ entries \in [Requests -> [TodoIds -> Entry]]
        /\ audits \in [Requests -> AuditCounts]
        /\ answers \in [Requests -> Seq(Answer)]
    BY DEF CInv, IInv, TypeInv, TypeOK, AuditCounts
  <1>2. /\ caller' = caller /\ script' = script
        /\ \/ pc'[r] = "handle" /\ entries'[r] = es /\ audits'[r] = as
           \/ pc'[r] = "over" /\ entries'[r] = EmptyTracker /\ audits'[r] = NoAudits
    BY <1>1, ReplyOwn
  <1>3. answers'[r] = Append(answers[r], a)
    <2>1. answers' = [answers EXCEPT ![r] = Append(answers[r], a)]
      BY DEF Reply
    <2> HIDE DEF a
    <2> QED BY <1>1, <2>1
  <1>4. /\ a.command = Current(r) /\ a.ids = ids /\ a.result = result
    OBVIOUS
  <1> HIDE DEF a
  <1>5. \A t \in TodoIds : Names(r, t)' <=> Names(r, t)
    BY <1>2, OwnViews
  <1>6. \A i \in DOMAIN answers'[r] :
               \/ i \in DOMAIN answers[r] /\ answers'[r][i] = answers[r][i]
               \/ i = Len(answers[r]) + 1 /\ answers'[r][i] = a
    BY <1>1, <1>3, OneMore
  <1>7. \A t \in TodoIds : Won(r, t)' => Won(r, t) \/ Finishes(a, t)
    BY <1>1, <1>3, OneMore
  <1>8. \A t \in TodoIds : Fits(entries[r][t], audits[r][t], r, t, rows[t])'
    <2> SUFFICES ASSUME NEW t \in TodoIds
                 PROVE  Fits(entries[r][t], audits[r][t], r, t, rows[t])'
      OBVIOUS
    <2>1. Fits(entries'[r][t], audits'[r][t], r, t, rows'[t])
      BY <1>2, FitsBlank
    <2> QED BY <1>2, <1>5, <2>1 DEF Fits
  <1>9. Rests(r)' /\ Aims(r)'
    BY <1>2 DEF Rests, Aims
  <1>10. \A t \in TodoIds : rows[t].stamp = r => rows'[t].stamp = r
    BY <1>1, NullsDiffer DEF RowsInv, RowsStay
  <1>11. Wins(r)'
    <2> SUFFICES ASSUME NEW t \in TodoIds, Won(r, t)'
                 PROVE  /\ rows'[t].stamp = r
                        /\ pc'[r] # "over" => entries'[r][t].state # "Detached" /\ entries'[r][t].done
      BY DEF Wins, InProgress
    <2>1. CASE Won(r, t)
      BY <1>1, <1>2, <1>10, <2>1 DEF LocalInv, Wins
    <2>2. CASE Finishes(a, t)
      BY <1>2, <1>4, <2>2 DEF Finishes
    <2> QED BY <1>7, <2>1, <2>2
  <1>12. Tells(r)'
    <2> SUFFICES ASSUME NEW i \in DOMAIN answers'[r]
                 PROVE  Holds(answers'[r][i], caller[r].tenant, rows')
      BY <1>2 DEF Tells
    <2>1. CASE i \in DOMAIN answers[r] /\ answers'[r][i] = answers[r][i]
      <3>1. answers[r][i] \in Answer /\ Holds(answers[r][i], caller[r].tenant, rows)
        BY <1>1, <2>1 DEF LocalInv, Tells
      <3> QED BY <2>1, <3>1, ToldStays
    <2>2. CASE answers'[r][i] = a
      BY <1>4, <2>2 DEF Holds
    <2> QED BY <1>6, <2>1, <2>2
  <1>13. Once(r)'
    <2> SUFFICES ASSUME NEW t \in TodoIds, NEW i \in DOMAIN answers'[r], NEW j \in DOMAIN answers'[r],
                        Finishes(answers'[r][i], t), Finishes(answers'[r][j], t)
                 PROVE  i = j
      BY DEF Once, Finishes
    <2>1. Finishes(a, t) => ~Won(r, t)
      BY <1>4 DEF Finishes
    <2>2. \A k \in DOMAIN answers[r] : Finishes(answers[r][k], t) => Won(r, t)
      BY DEF Won
    <2> QED BY <1>1, <1>6, <2>1, <2>2 DEF LocalInv, Once
  <1>14. \A t \in TodoIds : entries'[r][t].state = "Added" => entries[r][t].state = "Added"
    <2>1. \A t \in TodoIds : EmptyTracker[t].state = "Detached"
      BY DEF EmptyTracker, Untracked
    <2> QED BY <1>2, <2>1
  <1> QED BY <1>8, <1>9, <1>11, <1>12, <1>13, <1>14 DEF Keeps, LocalInv

\* A request that goes without a further answer leaves its scope behind.
LEMMA GoneKeeps ==
  ASSUME IInv, CInv, NEW r \in Requests, pc'[r] = "over", UNCHANGED rows,
         entries'[r] = EmptyTracker, audits'[r] = NoAudits,
         caller'[r] = caller[r], script'[r] = script[r], answers'[r] = answers[r]
  PROVE  Keeps(r)
  <1>1. LocalInv(r)
    BY DEF CInv
  <1>2. \A t \in TodoIds : Names(r, t)' <=> Names(r, t)
    BY OwnViews
  <1>3. \A t \in TodoIds : Won(r, t)' <=> Won(r, t)
    BY OwnViews
  <1>4. \A t \in TodoIds : Fits(entries[r][t], audits[r][t], r, t, rows[t])'
    <2> SUFFICES ASSUME NEW t \in TodoIds
                 PROVE  Fits(entries[r][t], audits[r][t], r, t, rows[t])'
      OBVIOUS
    <2>1. Fits(EmptyTracker[t], NoAudits[t], r, t, rows[t])
      BY <1>1, FitsBlank DEF LocalInv
    <2> QED BY <1>2, <2>1 DEF Fits
  <1>5. Rests(r)' /\ Wins(r)' /\ Aims(r)'
    BY <1>1, <1>3 DEF LocalInv, Rests, Wins, Aims, InProgress
  <1>6. Tells(r)' /\ Once(r)'
    BY <1>1 DEF LocalInv, Tells, Once, Finishes
  <1>7. \A t \in TodoIds : entries'[r][t].state # "Added"
    BY DEF EmptyTracker, Untracked
  <1> QED BY <1>4, <1>5, <1>6, <1>7 DEF Keeps, LocalInv

\* A client names only todos it can have been told of.
LEMMA ScriptsKnow ==
  ASSUME NEW h, NEW s \in Scripts(h), NEW i \in DOMAIN s, s[i].op \in {"SetDone", "Get"}
  PROVE  s[i].id \in TodoIds /\ rows[s[i].id].exists
  <1>1. ASSUME NEW c \in Mutations \cup Queries, c.op \in {"SetDone", "Get"}
        PROVE  c.id \in TodoIds /\ rows[c.id].exists
    BY <1>1 DEF Mutations, Queries, KnownIds
  <1>2. s[i] \in Mutations \cup Queries
    <2>1. CASE s \in {<<q>> : q \in Queries}
      <3>1. PICK q \in Queries : s = <<q>>
        BY <2>1
      <3> QED BY <3>1
    <2>2. CASE \E n \in 1..(IF h = "Api" THEN 1 ELSE MaxFields) : s \in [1..n -> Mutations]
      BY <2>2
    <2> QED BY <2>1, <2>2 DEF Scripts
  <1> QED BY <1>1, <1>2

\* A request arrives with a blank scope, and names rows that exist.
LEMMA ArriveKeeps ==
  ASSUME IInv, CInv, NEW r \in Requests, Arrive(r)
  PROVE  Keeps(r)
  <1>1. /\ LocalInv(r) /\ TypeInv /\ pc[r] = "idle" /\ answers[r] = <<>>
        /\ UNCHANGED <<rows, entries, audits>>
    BY DEF CInv, IInv, TypeInv, Positioned, Arrive, database, scope
  <1>2. PICK h \in Hosts, p \in Principals : \E s \in Scripts(h) : Arrival(r, h, p, s)
    BY DEF Arrive
  <1>3. PICK s \in Scripts(h) : Arrival(r, h, p, s)
    BY <1>2
  <1> DEFINE denial == [command |-> s[1], ids |-> {}, result |-> "Forbidden"]
  <1>4. /\ script' = [script EXCEPT ![r] = s]
        /\ \/ pc' = [pc EXCEPT ![r] = "handle"] /\ answers' = answers
           \/ pc' = [pc EXCEPT ![r] = "over"] /\ answers' = [answers EXCEPT ![r] = <<denial>>]
    BY <1>3 DEF Arrival, Admit, Forbid
  <1>5. script'[r] = s /\ pc'[r] \in {"handle", "over"}
    BY <1>1, <1>4 DEF TypeInv, TypeOK
  <1>6. denial.ids = {} /\ denial.result = "Forbidden"
    OBVIOUS
  <1>7. \A i \in DOMAIN answers'[r] : answers'[r][i] = denial /\ i = 1
    <2> HIDE DEF denial
    <2>1. answers'[r] = <<>> \/ answers'[r] = <<denial>>
      BY <1>1, <1>4 DEF TypeInv, TypeOK
    <2> QED BY <2>1
  <1> HIDE DEF denial
  <1>8. \A t \in TodoIds : ~Won(r, t)'
    BY <1>6, <1>7 DEF Won, Finishes
  <1>9. \A t \in TodoIds : Names(r, t)' => rows[t].exists
    BY <1>5, ScriptsKnow DEF Names
  <1>10. \A t \in TodoIds : Fits(entries[r][t], audits[r][t], r, t, rows[t])'
    <2> SUFFICES ASSUME NEW t \in TodoIds
                 PROVE  Fits(entries[r][t], audits[r][t], r, t, rows[t])'
      OBVIOUS
    <2>1. /\ Fits(entries[r][t], audits[r][t], r, t, rows[t])
          /\ entries[r][t].state = "Detached" /\ rows[t].stamp # r
      BY <1>1 DEF LocalInv, Rests
    <2> QED BY <1>1, <1>9, <2>1 DEF Fits
  <1>11. Rests(r)' /\ Wins(r)' /\ Aims(r)'
    BY <1>5, <1>8 DEF Rests, Wins, Aims
  <1>12. Tells(r)' /\ Once(r)'
    BY <1>6, <1>7 DEF Tells, Holds, Once
  <1> QED BY <1>1, <1>10, <1>11, <1>12 DEF Keeps, LocalInv

\* A command that goes on to the save, with an entity that fits.
LEMMA StageKeeps ==
  ASSUME IInv, CInv, NEW r \in Requests, pc[r] = "handle", UNCHANGED rows,
         NEW t \in TodoIds, NEW e \in Entry, Stage(r, t, e),
         Fits(e, audits[r][t], r, t, rows[t]), ~Won(r, t),
         \/ Current(r).op = "Create" /\ e.state = "Added" /\ t \notin issued
         \/ /\ Current(r).op = "SetDone" /\ t = Current(r).id
            /\ e.state = "Modified" /\ e.done
  PROVE  Keeps(r)
  <1>1. /\ LocalInv(r) /\ TypeInv
        /\ entries \in [Requests -> [TodoIds -> Entry]]
    BY DEF CInv, IInv, TypeInv, TypeOK
  <1>2. /\ caller' = caller /\ script' = script /\ answers' = answers /\ audits' = audits
        /\ pc'[r] = "save" /\ target'[r] = t
        /\ entries'[r] = [entries[r] EXCEPT ![t] = e]
    BY <1>1 DEF Stage, TypeInv, TypeOK
  <1>3. entries'[r][t] = e /\ \A u \in TodoIds \ {t} : entries'[r][u] = entries[r][u]
    BY <1>1, <1>2
  <1>4. \A u \in TodoIds : Names(r, u)' <=> Names(r, u)
    BY <1>2, OwnViews
  <1>5. (\A u \in TodoIds : Won(r, u)' <=> Won(r, u)) /\ Current(r)' = Current(r)
    BY <1>2, OwnViews
  <1>6. \A u \in TodoIds : Fits(entries[r][u], audits[r][u], r, u, rows[u])'
    <2> SUFFICES ASSUME NEW u \in TodoIds
                 PROVE  Fits(entries[r][u], audits[r][u], r, u, rows[u])'
      OBVIOUS
    <2>1. Fits(entries'[r][u], audits[r][u], r, u, rows[u])
      BY <1>1, <1>3 DEF LocalInv
    <2> QED BY <1>2, <1>4, <2>1 DEF Fits
  <1>7. Rests(r)'
    BY <1>2 DEF Rests
  <1>8. Wins(r)'
    BY <1>1, <1>2, <1>3, <1>5 DEF LocalInv, Wins, InProgress
  <1>9. Aims(r)'
    BY <1>2, <1>3, <1>5 DEF Aims
  <1>10. Tells(r)' /\ Once(r)'
    BY <1>1, <1>2 DEF LocalInv, Tells, Once, Finishes
  <1>11. \A u \in TodoIds : entries'[r][u].state = "Added" =>
             entries[r][u].state = "Added" \/ u \notin issued
    BY <1>3
  <1> QED BY <1>6, <1>7, <1>8, <1>9, <1>10, <1>11 DEF Keeps, LocalInv

\* A handler reads rows of its caller's tenant, and answers what it sees.
LEMMA HandleKeeps ==
  ASSUME IInv, CInv, NEW r \in Requests, Handle(r)
  PROVE  Keeps(r)
  <1>1. /\ pc[r] = "handle" /\ InProgress(r) /\ UNCHANGED rows /\ RowsStay
        /\ LocalInv(r) /\ TypeInv /\ RowsInv
    BY DEF Handle, Create, SetDone, Get, GetAll, database, InProgress, RowsStay, CInv, IInv
  <1>2. /\ entries[r] \in [TodoIds -> Entry] /\ audits[r] \in AuditCounts
        /\ rows \in [TodoIds -> Row]
    BY <1>1 DEF TypeInv, TypeOK, AuditCounts
  <1>3. Current(r) \in Command
    BY <1>1, CurrentType
  <1>4. /\ \A t \in TodoIds : Fits(entries[r][t], audits[r][t], r, t, rows'[t])
        /\ \A t \in TodoIds : Won(r, t) => entries[r][t].state # "Detached" /\ entries[r][t].done
    BY <1>1 DEF LocalInv, Wins
  <1>5. Current(r).op \in {"SetDone", "Get"} =>
            /\ Current(r).id \in TodoIds /\ Names(r, Current(r).id)
            /\ rows[Current(r).id].exists
    <2>1. Len(answers[r]) + 1 \in DOMAIN script[r]
      BY <1>1, CurrentType DEF TypeInv, TypeOK
    <2>2. Current(r).op \in {"SetDone", "Get"} => Names(r, Current(r).id) /\ Current(r).id \in TodoIds
      BY <1>3, <2>1 DEF Names, Current, Command
    <2> QED BY <1>1, <2>2 DEF LocalInv, Fits
  <1>6. CASE Create(r)
    <2>1. CASE Reply(r, "Invalid", {}, entries[r], audits[r])
      <3>1. Current(r).op = "Create"
        BY <1>6 DEF Create
      <3> QED BY <1>1, <1>2, <1>4, <2>1, <3>1, ReplyKeeps
    <2>2. ASSUME NEW t \in TodoIds \ issued, Stage(r, t, NewEntity) PROVE Keeps(r)
      <3>1. ~rows[t].exists /\ ~rows[t].done /\ rows[t].stamp = Nobody
        BY <1>1, <1>2 DEF RowsInv, Row
      <3>2. /\ NewEntity \in Entry /\ NewEntity.state = "Added"
        BY DEF NewEntity, Entry
      <3>3. ~Won(r, t)
        BY <1>1, <3>1, NullsDiffer DEF LocalInv, Wins
      <3>4. Fits(NewEntity, audits[r][t], r, t, rows[t])
        <4>1. Fits(entries[r][t], audits[r][t], r, t, rows[t])
          BY <1>1 DEF LocalInv
        <4>2. ~(audits[r][t]["Edit"] > 0)
          BY <3>1, <4>1 DEF Fits
        <4> QED BY <3>1, <3>2, <4>1, <4>2 DEF Fits
      <3>5. Current(r).op = "Create"
        BY <1>6 DEF Create
      <3> QED BY <1>1, <2>2, <3>2, <3>3, <3>4, <3>5, StageKeeps
    <2> QED BY <1>6, <2>1, <2>2 DEF Create
  <1>7. CASE SetDone(r)
    <2> DEFINE t == Current(r).id
               e == IF entries[r][t].state = "Detached" THEN Loaded(t) ELSE entries[r][t]
               es == [entries[r] EXCEPT ![t] = e]
    <2>1. Current(r).op = "SetDone" /\ t \in TodoIds /\ Names(r, t) /\ rows[t].exists
      BY <1>5, <1>7 DEF SetDone
    <2>2. e \in Entry /\ Finished(e) \in Entry
      BY <1>1, <1>2, <2>1, EntryTypes DEF TypeInv
    <2>3. Fits(entries[r][t], audits[r][t], r, t, rows[t]) /\ entries[r][t].state # "Added"
      BY <1>1, <2>1 DEF LocalInv, Fits
    <2>4. /\ e.state \in {"Unchanged", "Modified"}
          /\ e.state = "Modified" => entries[r][t].state = "Modified"
          /\ entries[r][t].state # "Detached" => e = entries[r][t]
      BY <1>2, <2>1, <2>3 DEF Loaded, Entry
    <2>5. Finished(e).state = "Modified" /\ Finished(e).done
      BY DEF Finished
    <2>6. audits[r][t]["Edit"] > 0 => e.state = "Modified"
      BY <2>3, <2>4 DEF Fits
    <2>7. /\ ~Visible(r, t) => rows[t].tenant # caller[r].tenant
          /\ Visible(r, t) => rows[t].tenant = caller[r].tenant
      BY <2>1 DEF Visible
    <2>8. \/ ~Visible(r, t) /\ Reply(r, "NotFound", {}, entries[r], audits[r])
          \/ Visible(r, t) /\ e.done /\ Reply(r, "Conflict", {}, es, audits[r])
          \/ Visible(r, t) /\ ~e.done /\ Stage(r, t, Finished(e))
      BY <1>7 DEF SetDone
    <2>9. es \in [TodoIds -> Entry] /\ es[t] = e /\ \A u \in TodoIds \ {t} : es[u] = entries[r][u]
      BY <1>2, <2>1, <2>2
    <2> HIDE DEF e, es
    <2>10. CASE ~Visible(r, t) /\ Reply(r, "NotFound", {}, entries[r], audits[r])
      BY <1>1, <1>2, <1>4, <2>1, <2>7, <2>10, ReplyKeeps
    <2>11. CASE Visible(r, t) /\ Reply(r, "Conflict", {}, es, audits[r])
      <3>1. \A u \in TodoIds : Fits(es[u], audits[r][u], r, u, rows'[u])
        BY <1>1, <1>4, <2>1, <2>3, <2>4, <2>6, <2>7, <2>9, <2>11 DEF Fits
      <3>2. \A u \in TodoIds : Won(r, u) => es[u].state # "Detached" /\ es[u].done
        BY <1>4, <2>4, <2>9
      <3>3. \A u \in TodoIds : es[u].state = "Added" => entries[r][u].state = "Added"
        BY <2>4, <2>9
      <3> QED BY <1>1, <1>2, <2>9, <2>11, <3>1, <3>2, <3>3, ReplyKeeps
    <2>12. CASE Visible(r, t) /\ ~e.done /\ Stage(r, t, Finished(e))
      <3>1. ~Won(r, t)
        BY <1>4, <2>1, <2>4, <2>12
      <3>2. Fits(Finished(e), audits[r][t], r, t, rows[t])
        BY <2>1, <2>3, <2>5, <2>7, <2>12 DEF Fits
      <3> QED BY <1>1, <2>1, <2>2, <2>5, <2>12, <3>1, <3>2, StageKeeps
    <2> QED BY <2>8, <2>10, <2>11, <2>12
  <1>8. CASE Get(r)
    <2>1. Current(r).op = "Get" /\ Current(r).id \in TodoIds /\ rows[Current(r).id].exists
      BY <1>5, <1>8 DEF Get
    <2>2. \/ Visible(r, Current(r).id) /\ Reply(r, "Ok", {Current(r).id}, entries[r], audits[r])
          \/ ~Visible(r, Current(r).id) /\ Reply(r, "NotFound", {}, entries[r], audits[r])
      BY <1>8 DEF Get
    <2>3. CASE Visible(r, Current(r).id) /\ Reply(r, "Ok", {Current(r).id}, entries[r], audits[r])
      <3>1. {Current(r).id} \in SUBSET TodoIds /\ rows'[Current(r).id].tenant = caller[r].tenant
        BY <1>1, <2>1, <2>3 DEF Visible
      <3> QED BY <1>1, <1>2, <1>4, <2>1, <2>3, <3>1, ReplyKeeps
    <2>4. CASE ~Visible(r, Current(r).id) /\ Reply(r, "NotFound", {}, entries[r], audits[r])
      <3>1. rows'[Current(r).id].tenant # caller[r].tenant
        BY <1>1, <2>1, <2>4 DEF Visible
      <3> QED BY <1>1, <1>2, <1>4, <2>1, <2>4, <3>1, ReplyKeeps
    <2> QED BY <2>2, <2>3, <2>4
  <1>9. CASE GetAll(r)
    <2> DEFINE ids == {t \in TodoIds : Visible(r, t)}
    <2>1. /\ ids \in SUBSET TodoIds
          /\ \A t \in ids : rows'[t].exists /\ rows'[t].tenant = caller[r].tenant
      BY <1>1 DEF Visible
    <2>2. Current(r).op = "GetAll" /\ Reply(r, "Ok", ids, entries[r], audits[r])
      BY <1>9 DEF GetAll
    <2> HIDE DEF ids
    <2> QED BY <1>1, <1>2, <1>4, <2>1, <2>2, ReplyKeeps
  <1> QED BY <1>6, <1>7, <1>8, <1>9 DEF Handle

\* The interceptor counts a creation for an added entity, an edit for a modified
\* one, and neither for another.
LEMMA InterceptedCounts ==
  ASSUME TypeInv, NEW r \in Requests, NEW t \in TodoIds
  PROVE  /\ Intercepted(r)[t]["Create"] =
               audits[r][t]["Create"] + (IF entries[r][t].state = "Added" THEN 1 ELSE 0)
         /\ Intercepted(r)[t]["Edit"] =
               audits[r][t]["Edit"] + (IF entries[r][t].state = "Modified" THEN 1 ELSE 0)
         /\ audits[r][t]["Create"] \in Nat /\ audits[r][t]["Edit"] \in Nat
  <1>1. /\ entries[r][t].state \in {"Detached", "Added", "Unchanged", "Modified"}
        /\ audits[r][t]["Create"] \in Nat /\ audits[r][t]["Edit"] \in Nat
    BY DEF TypeInv, TypeOK, Entry, TrailTypes
  <1>2. "Create" \in TrailTypes /\ "Edit" \in TrailTypes
    BY DEF TrailTypes
  <1>3. \A k \in TrailTypes : Intercepted(r)[t][k] =
            IF entries[r][t].state # "Detached" /\ k = AuditKind(entries[r][t].state)
            THEN audits[r][t][k] + 1 ELSE audits[r][t][k]
    BY DEF Intercepted
  <1> QED BY <1>1, <1>2, <1>3 DEF AuditKind

\* What the interceptor leaves in the tracker fits what was there.
LEMMA InterceptedFits ==
  ASSUME TypeInv, NEW r \in Requests, NEW t \in TodoIds, NEW row,
         Fits(entries[r][t], audits[r][t], r, t, row)
  PROVE  Fits(entries[r][t], Intercepted(r)[t], r, t, row)
  <1>1. /\ Intercepted(r)[t]["Create"] > 0 => entries[r][t].state = "Added"
        /\ Intercepted(r)[t]["Edit"] > 0 => entries[r][t].state = "Modified"
    BY InterceptedCounts DEF Fits
  <1> QED BY <1>1 DEF Fits

\* A save ends the command with an error, or goes on to the dispatch with the
\* rows it has written.
LEMMA SaveKeeps ==
  ASSUME IInv, CInv, NEW r \in Requests,
         Save(r) \/ SaveRejected(r) \/ SaveFails(r) \/ SaveUnacknowledged(r)
  PROVE  Keeps(r)
  <1>1. /\ pc[r] = "save" /\ InProgress(r) /\ LocalInv(r) /\ TypeInv /\ RowsInv
        /\ target[r] \in TodoIds
    BY DEF Save, SaveRejected, SaveFails, SaveUnacknowledged, InProgress, CInv, IInv,
           TypeInv, Positioned
  <1>2. /\ entries[r] \in [TodoIds -> Entry] /\ Intercepted(r) \in AuditCounts
        /\ rows \in [TodoIds -> Row]
    BY <1>1, InterceptedType DEF TypeInv, TypeOK
  <1>3. \A t \in TodoIds : Won(r, t) => entries[r][t].state # "Detached" /\ entries[r][t].done
    BY <1>1 DEF LocalInv, Wins
  <1>4. CASE SaveRejected(r) \/ SaveFails(r)
    <2>1. /\ UNCHANGED rows /\ RowsStay /\ Reply(r, "Error", {}, entries[r], Intercepted(r))
      BY <1>4 DEF SaveRejected, SaveFails, database, RowsStay
    <2>2. \A t \in TodoIds : Fits(entries[r][t], Intercepted(r)[t], r, t, rows'[t])
      BY <1>1, <2>1, InterceptedFits DEF LocalInv
    <2> QED BY <1>1, <1>2, <1>3, <2>1, <2>2, ReplyKeeps
  <1>5. ASSUME CanCommit(r), Write(r)
        PROVE  /\ RowsStay
               /\ \A t \in TodoIds : Fits(entries[r][t], audits[r][t], r, t, rows'[t])
               /\ \A t \in TodoIds : entries[r][t].state # "Detached" =>
                     rows'[t].exists /\ rows'[t].tenant = caller[r].tenant
    <2>1. RowsStay
      BY <1>5, CommitFate
    <2>2. ASSUME NEW t \in TodoIds
          PROVE  /\ Fits(entries[r][t], audits[r][t], r, t, rows'[t])
                 /\ entries[r][t].state # "Detached" =>
                     rows'[t].exists /\ rows'[t].tenant = caller[r].tenant
      <3>1. Fits(entries[r][t], audits[r][t], r, t, rows[t])
        BY <1>1 DEF LocalInv
      <3>2. /\ entries[r][t].state = "Added" =>
                  /\ ~rows[t].exists /\ rows'[t].exists /\ rows'[t].stamp = Nobody
                  /\ rows'[t].tenant = caller[r].tenant
            /\ entries[r][t].state = "Modified" => rows[t].exists /\ rows'[t].stamp = r
            /\ entries[r][t].state \notin {"Added", "Modified"} => rows'[t] = rows[t]
        BY <1>5, CommitFate
      <3>3. rows[t].exists => rows'[t].exists /\ rows'[t].tenant = rows[t].tenant
        BY <2>1 DEF RowsStay
      <3>4. entries[r][t].state \in {"Detached", "Added", "Unchanged", "Modified"}
        BY <1>2 DEF Entry
      <3> QED BY <3>1, <3>2, <3>3, <3>4, NullsDiffer DEF Fits
    <2> QED BY <2>1, <2>2
  <1>6. CASE SaveUnacknowledged(r)
    <2>1. CanCommit(r) /\ Write(r) /\ Reply(r, "Error", {}, entries[r], Intercepted(r))
      BY <1>6 DEF SaveUnacknowledged
    <2>2. \A t \in TodoIds : Fits(entries[r][t], Intercepted(r)[t], r, t, rows'[t])
      BY <1>1, <1>5, <2>1, InterceptedFits
    <2> QED BY <1>1, <1>2, <1>3, <1>5, <2>1, <2>2, ReplyKeeps
  <1>7. CASE Save(r)
    <2>1. CanCommit(r) /\ Write(r)
      BY <1>7 DEF Save
    <2>2. /\ pc'[r] = "dispatch" /\ entries'[r] = Accepted(r) /\ audits'[r] = NoAudits
          /\ caller' = caller /\ script' = script /\ answers' = answers /\ target' = target
      BY <1>1, <1>7 DEF Save, TypeInv, TypeOK
    <2>3. \A t \in TodoIds :
            /\ entries[r][t].state = "Detached" => entries'[r][t] = entries[r][t]
            /\ entries[r][t].state # "Detached" =>
                  entries'[r][t].state = "Unchanged" /\ entries'[r][t].done = entries[r][t].done
      BY <2>2 DEF Accepted, InState
    <2>4. \A t \in TodoIds : Names(r, t)' <=> Names(r, t)
      BY <2>2, OwnViews
    <2>5. (\A t \in TodoIds : Won(r, t)' <=> Won(r, t)) /\ Current(r)' = Current(r)
      BY <2>2, OwnViews
    <2>6. \A t \in TodoIds : Fits(entries[r][t], audits[r][t], r, t, rows[t])'
      <3> SUFFICES ASSUME NEW t \in TodoIds
                   PROVE  Fits(entries[r][t], audits[r][t], r, t, rows[t])'
        OBVIOUS
      <3>1. Fits(entries[r][t], audits[r][t], r, t, rows'[t])
        BY <1>5, <2>1
      <3>2. entries[r][t].state # "Detached" =>
                     rows'[t].exists /\ rows'[t].tenant = caller[r].tenant
        BY <1>5, <2>1
      <3>3. audits'[r][t]["Create"] = 0 /\ audits'[r][t]["Edit"] = 0
        BY <2>2 DEF NoAudits, TrailTypes
      <3> QED BY <2>2, <2>3, <2>4, <3>1, <3>2, <3>3 DEF Fits
    <2>7. RowsStay
      BY <1>5, <2>1
    <2>8. \A t \in TodoIds : rows[t].stamp = r => rows'[t].stamp = r
      BY <1>1, <2>7, NullsDiffer DEF RowsInv, RowsStay
    <2>9. Rests(r)' /\ Wins(r)'
      BY <1>1, <1>3, <2>2, <2>3, <2>5, <2>8 DEF LocalInv, Rests, Wins
    <2>10. Aims(r)'
      <3>1. /\ entries[r][target[r]].state =
                  IF Current(r).op = "Create" THEN "Added" ELSE "Modified"
            /\ Current(r).op \in {"Create", "SetDone"}
            /\ Current(r).op = "SetDone" => /\ target[r] = Current(r).id /\ ~Won(r, target[r])
                                            /\ entries[r][target[r]].done
        BY <1>1 DEF LocalInv, Aims
      <3>2. rows'[target[r]].exists /\ rows'[target[r]].tenant = caller[r].tenant
        BY <1>1, <1>5, <2>1, <3>1
      <3>3. Current(r).op = "SetDone" => rows'[target[r]].stamp = r
        BY <1>1, <2>1, <3>1, CommitFate
      <3> QED BY <1>1, <2>2, <2>3, <2>5, <3>1, <3>2, <3>3 DEF Aims
    <2>11. Tells(r)' /\ Once(r)'
      <3>1. \A i \in DOMAIN answers[r] : answers[r][i] \in Answer
        BY <1>1 DEF TypeInv, TypeOK
      <3>2. Tells(r)'
        BY <1>1, <2>2, <2>7, <3>1, ToldStays DEF LocalInv, Tells
      <3>3. Once(r)'
        BY <1>1, <2>2 DEF LocalInv, Once, Finishes
      <3> QED BY <3>2, <3>3
    <2>12. \A t \in TodoIds : entries'[r][t].state = "Added" => entries[r][t].state = "Added"
      BY <2>3
    <2> QED BY <2>6, <2>9, <2>10, <2>11, <2>12 DEF Keeps, LocalInv
  <1> QED BY <1>4, <1>6, <1>7

\* The dispatcher touches events only, and the answer names a row that the
\* request has written.
LEMMA DispatchKeeps ==
  ASSUME IInv, CInv, NEW r \in Requests, Dispatch(r)
  PROVE  Keeps(r)
  <1>1. /\ pc[r] = "dispatch" /\ InProgress(r) /\ LocalInv(r) /\ TypeInv /\ target[r] \in TodoIds
        /\ UNCHANGED rows /\ RowsStay
    BY DEF Dispatch, Publish, PublishThrows, Return, InProgress, CInv, IInv, TypeInv, Positioned,
           database, RowsStay
  <1>2. entries[r] \in [TodoIds -> Entry] /\ audits[r] \in AuditCounts
    BY <1>1 DEF TypeInv, TypeOK, AuditCounts
  <1>3. \A t \in TodoIds : Won(r, t) => entries[r][t].state # "Detached" /\ entries[r][t].done
    BY <1>1 DEF LocalInv, Wins
  <1>4. ASSUME NEW t \in TodoIds
        PROVE  /\ Cleared(r, t) \in [TodoIds -> Entry]
               /\ \A u \in TodoIds : /\ Cleared(r, t)[u].state = entries[r][u].state
                                     /\ Cleared(r, t)[u].done = entries[r][u].done
    <2>1. Cleared(r, t) \in [TodoIds -> Entry]
      BY <1>1, TrackerTypes DEF TypeInv
    <2>2. \A u \in TodoIds : /\ Cleared(r, t)[u].state = entries[r][u].state
                             /\ Cleared(r, t)[u].done = entries[r][u].done
      BY <1>2 DEF Cleared
    <2> QED BY <2>1, <2>2
  <1>5. ASSUME NEW t \in TodoIds, Publish(r, t) PROVE Keeps(r)
    <2>1. /\ caller' = caller /\ script' = script /\ answers' = answers /\ target' = target
          /\ pc' = pc /\ audits' = audits /\ entries'[r] = Cleared(r, t)
      BY <1>1, <1>5 DEF Publish, TypeInv, TypeOK
    <2>2. \A u \in TodoIds : Names(r, u)' <=> Names(r, u)
      BY <2>1, OwnViews
    <2>3. (\A u \in TodoIds : Won(r, u)' <=> Won(r, u)) /\ Current(r)' = Current(r)
      BY <2>1, OwnViews
    <2>4. \A u \in TodoIds : Fits(entries[r][u], audits[r][u], r, u, rows[u])'
      <3> SUFFICES ASSUME NEW u \in TodoIds
                   PROVE  Fits(entries[r][u], audits[r][u], r, u, rows[u])'
        OBVIOUS
      <3>1. Fits(entries[r][u], audits[r][u], r, u, rows[u])
        BY <1>1 DEF LocalInv
      <3>2. entries'[r][u].state = entries[r][u].state
        BY <1>4, <2>1
      <3> QED BY <1>1, <2>1, <2>2, <3>1, <3>2 DEF Fits
    <2>5. /\ rows' = rows
          /\ \A u \in TodoIds : /\ entries'[r][u].state = entries[r][u].state
                                /\ entries'[r][u].done = entries[r][u].done
      BY <1>1, <1>4, <2>1
    <2>6. Rests(r)'
      BY <1>1, <2>1 DEF Rests
    <2>7. Wins(r)'
      <3>1. \A u \in TodoIds : Won(r, u) => rows[u].stamp = r
        BY <1>1 DEF LocalInv, Wins
      <3> QED BY <1>3, <2>3, <2>5, <3>1 DEF Wins
    <2>8. Aims(r)'
      BY <1>1, <1>4, <2>1, <2>3 DEF LocalInv, Aims
    <2>9. Tells(r)' /\ Once(r)'
      BY <1>1, <2>1 DEF LocalInv, Tells, Once, Finishes
    <2> QED BY <2>4, <2>5, <2>6, <2>7, <2>8, <2>9 DEF Keeps, LocalInv
  <1>6. ASSUME NEW t \in TodoIds, PublishThrows(r, t) PROVE Keeps(r)
    <2> DEFINE es == Cleared(r, t)
    <2>1. Reply(r, "Error", {}, es, audits[r])
      BY <1>6 DEF PublishThrows
    <2>2. /\ es \in [TodoIds -> Entry]
          /\ \A u \in TodoIds : es[u].state = entries[r][u].state /\ es[u].done = entries[r][u].done
      BY <1>4
    <2> HIDE DEF es
    <2>3. \A u \in TodoIds : Fits(es[u], audits[r][u], r, u, rows'[u])
      <3> SUFFICES ASSUME NEW u \in TodoIds PROVE Fits(es[u], audits[r][u], r, u, rows'[u])
        OBVIOUS
      <3>1. Fits(entries[r][u], audits[r][u], r, u, rows[u])
        BY <1>1 DEF LocalInv
      <3> QED BY <1>1, <2>2, <3>1 DEF Fits
    <2>4. \A u \in TodoIds : Won(r, u) => es[u].state # "Detached" /\ es[u].done
      BY <1>3, <2>2
    <2> QED BY <1>1, <1>2, <2>1, <2>2, <2>3, <2>4, ReplyKeeps
  <1>7. CASE Return(r)
    <2>1. Reply(r, "Ok", {target[r]}, entries[r], audits[r])
      BY <1>7 DEF Return
    <2>2. \A u \in TodoIds : Fits(entries[r][u], audits[r][u], r, u, rows'[u])
      BY <1>1 DEF LocalInv
    <2>3. /\ {target[r]} \in SUBSET TodoIds
          /\ rows'[target[r]].exists /\ rows'[target[r]].tenant = caller[r].tenant
          /\ entries[r][target[r]].state # "Detached"
          /\ Current(r).op = "SetDone" =>
                /\ target[r] = Current(r).id /\ ~Won(r, target[r])
                /\ rows'[target[r]].stamp = r /\ entries[r][target[r]].done
      BY <1>1 DEF LocalInv, Aims
    <2> QED BY <1>1, <1>2, <1>3, <2>1, <2>2, <2>3, ReplyKeeps
  <1> QED BY <1>5, <1>6, <1>7 DEF Dispatch

-----------------------------------------------------------------------------
(* The invariant *)

Acts(w) == \/ Arrive(w) \/ Handle(w) \/ Save(w) \/ SaveRejected(w) \/ SaveFails(w)
           \/ SaveUnacknowledged(w) \/ Dispatch(w) \/ Abort(w)

\* A request acts alone, and rows and audit tables change in its commits only.
LEMMA ActsAlone ==
  ASSUME TypeInv, NEW w \in Requests, Acts(w)
  PROVE  /\ \A r \in Requests \ {w} : Apart(r)
         /\ \/ UNCHANGED <<rows, trail>>
            \/ pc[w] = "save" /\ CanCommit(w) /\ Write(w)
  <1>1. ASSUME NEW r \in Requests \ {w} PROVE Apart(r)
    <2>1. ASSUME NEW result, NEW ids, NEW es, NEW as, Reply(w, result, ids, es, as)
          PROVE  Apart(r)
      BY <2>1 DEF TypeInv, TypeOK, Reply, Apart
    <2>2. ASSUME NEW t, NEW e, Stage(w, t, e) PROVE Apart(r)
      BY <2>2 DEF TypeInv, TypeOK, Stage, Apart
    <2>3. CASE Arrive(w)
      BY <2>3 DEF TypeInv, TypeOK, Arrive, Arrival, Admit, Forbid, scope, Apart
    <2>4. CASE Handle(w)
      BY <2>1, <2>2, <2>4 DEF Handle, Create, SetDone, Get, GetAll
    <2>5. CASE Save(w)
      BY <2>5 DEF TypeInv, TypeOK, Save, Apart
    <2>6. CASE SaveRejected(w) \/ SaveFails(w) \/ SaveUnacknowledged(w)
      BY <2>1, <2>6 DEF SaveRejected, SaveFails, SaveUnacknowledged
    <2>7. ASSUME NEW t \in TodoIds, Publish(w, t) PROVE Apart(r)
      BY <2>7 DEF TypeInv, TypeOK, Publish, Apart
    <2>8. CASE (\E t \in TodoIds : PublishThrows(w, t)) \/ Return(w)
      BY <2>1, <2>8 DEF PublishThrows, Return
    <2>9. CASE Abort(w)
      BY <2>9 DEF TypeInv, TypeOK, Abort, Apart
    <2> QED BY <2>3, <2>4, <2>5, <2>6, <2>7, <2>8, <2>9 DEF Acts, Dispatch
  <1>2. CASE Save(w) \/ SaveUnacknowledged(w)
    <2>1. pc[w] = "save" /\ CanCommit(w) /\ Write(w)
      BY <1>2 DEF Save, SaveUnacknowledged
    <2> QED BY <1>1, <2>1
  <1>3. CASE ~(Save(w) \/ SaveUnacknowledged(w))
    <2>1. UNCHANGED <<rows, trail>>
      BY <1>3 DEF Acts, Arrive, Handle, Create, SetDone, Get, GetAll, SaveRejected,
                  SaveFails, Dispatch, Publish, PublishThrows, Return, Abort, database
    <2> QED BY <1>1, <2>1
  <1> QED BY <1>2, <1>3

\* A commit writes an entry "Create" for each row it adds, "Edit" for each row
\* it closes, and none of either kind for another row.
LEMMA WriteAudits ==
  ASSUME IInv, CInv, NEW w \in Requests, CanCommit(w), Write(w)
  PROVE  AuditsMatchRows'
  <1> SUFFICES ASSUME NEW t \in TodoIds
               PROVE  /\ trail'[t]["Create"] > 0 <=> rows'[t].exists
                      /\ trail'[t]["Edit"] > 0 <=> rows'[t].done
    BY DEF AuditsMatchRows
  <1>1. /\ TypeInv /\ Fits(entries[w][t], audits[w][t], w, t, rows[t])
        /\ trail[t]["Create"] > 0 <=> rows[t].exists
        /\ trail[t]["Edit"] > 0 <=> rows[t].done
    BY DEF CInv, LocalInv, AuditsMatchRows, IInv
  <1>2. /\ trail'[t]["Create"] = trail[t]["Create"] + Intercepted(w)[t]["Create"]
        /\ trail'[t]["Edit"] = trail[t]["Edit"] + Intercepted(w)[t]["Edit"]
        /\ trail[t]["Create"] \in Nat /\ trail[t]["Edit"] \in Nat
    BY <1>1 DEF Write, TrailTypes, TypeInv, TypeOK
  <1>3. /\ Intercepted(w)[t]["Create"] =
               audits[w][t]["Create"] + (IF entries[w][t].state = "Added" THEN 1 ELSE 0)
        /\ Intercepted(w)[t]["Edit"] =
               audits[w][t]["Edit"] + (IF entries[w][t].state = "Modified" THEN 1 ELSE 0)
        /\ audits[w][t]["Create"] \in Nat /\ audits[w][t]["Edit"] \in Nat
    BY <1>1, InterceptedCounts
  <1>4. /\ audits[w][t]["Create"] > 0 => entries[w][t].state = "Added"
        /\ audits[w][t]["Edit"] > 0 => entries[w][t].state = "Modified"
    BY <1>1 DEF Fits
  <1>5. CASE Kept(w, t)
    BY <1>1, <1>2, <1>3, <1>4, <1>5 DEF Kept
  <1>6. CASE Born(w, t)
    <2>1. ~rows[t].done
      BY <1>6 DEF Born, IInv, RowsInv
    <2> QED BY <1>1, <1>2, <1>3, <1>4, <1>6, <2>1 DEF Born
  <1>7. CASE Closed(w, t)
    BY <1>1, <1>2, <1>3, <1>4, <1>7 DEF Closed
  <1> QED BY <1>5, <1>6, <1>7, WriteRows

\* Every step keeps the invariant.
LEMMA NextCInv ==
  ASSUME IInv, CInv, [Next]_vars
  PROVE  CInv'
  <1>1. TypeInv
    BY DEF IInv
  <1>2. ASSUME NEW w \in Requests, Acts(w) PROVE CInv'
    <2>1. /\ \A r \in Requests \ {w} : Apart(r)
          /\ \/ UNCHANGED <<rows, trail>>
             \/ CanCommit(w) /\ Write(w)
      BY <1>1, <1>2, ActsAlone
    <2>2. Keeps(w)
      <3>1. CASE Abort(w)
        BY <1>1, <3>1, GoneKeeps DEF Abort, database, TypeInv, TypeOK
      <3> QED BY <1>2, <3>1, ArriveKeeps, HandleKeeps, SaveKeeps, DispatchKeeps DEF Acts
    <2>3. \A r \in Requests \ {w} : Keeps(r)
      BY <2>1, Bystander
    <2>4. \A r \in Requests : LocalInv(r)'
      BY <2>2, <2>3 DEF Keeps
    <2>5. AddedOnce'
      <3> SUFFICES ASSUME NEW q \in Requests, NEW r \in Requests, NEW t \in TodoIds,
                          entries'[q][t].state = "Added", entries'[r][t].state = "Added", q # r
                   PROVE  FALSE
        BY DEF AddedOnce
      <3>1. /\ q # w => entries[q][t].state = "Added"
            /\ r # w => entries[r][t].state = "Added"
        BY <2>1 DEF Apart
      <3>2. \A v \in Requests : entries[v][t].state = "Added" => t \in issued
        BY DEF IInv, TrackerInv, Sound
      <3>3. entries[q][t].state = "Added" /\ entries[r][t].state = "Added"
        BY <2>2, <3>1, <3>2 DEF Keeps
      <3> QED BY <3>3 DEF CInv, AddedOnce
    <2>6. AuditsMatchRows'
      BY <2>1, WriteAudits DEF CInv, AuditsMatchRows
    <2> QED BY <2>4, <2>5, <2>6 DEF CInv
  <1>3. ASSUME NEW h \in Hosts, Crash(h) PROVE CInv'
    <2>1. /\ UNCHANGED <<rows, trail>>
          /\ \A r \in Requests :
               \/ Apart(r)
               \/ /\ pc'[r] = "over" /\ entries'[r] = EmptyTracker /\ audits'[r] = NoAudits
                  /\ caller'[r] = caller[r] /\ script'[r] = script[r] /\ answers'[r] = answers[r]
      BY <1>3 DEF Crash, database, Apart
    <2>2. \A r \in Requests : Keeps(r)
      BY <2>1, Bystander, GoneKeeps
    <2>3. \A r \in Requests, t \in TodoIds :
              entries'[r][t].state = "Added" => entries[r][t].state = "Added"
      <3>1. \A t \in TodoIds : EmptyTracker[t].state = "Detached"
        BY DEF EmptyTracker, Untracked
      <3> QED BY <2>1, <3>1 DEF Apart
    <2>4. AddedOnce' /\ AuditsMatchRows'
      BY <2>1, <2>3 DEF CInv, AddedOnce, AuditsMatchRows
    <2> QED BY <2>2, <2>4 DEF CInv, Keeps
  <1>4. CASE UNCHANGED vars
    <2>1. \A r \in Requests : Apart(r) /\ UNCHANGED <<rows, trail>>
      BY <1>4 DEF vars, Apart
    <2>2. \A r \in Requests : Keeps(r)
      BY <2>1, Bystander
    <2>3. AddedOnce' /\ AuditsMatchRows'
      BY <1>4 DEF vars, CInv, AddedOnce, AuditsMatchRows
    <2> QED BY <2>2, <2>3 DEF CInv, Keeps
  <1> QED BY <1>2, <1>3, <1>4 DEF Next, Progress, Acts

\* The rows are open before the first request.
LEMMA InitRows ==
  ASSUME Init, NEW t \in TodoIds
  PROVE  rows[t].stamp = Nobody /\ ~rows[t].done /\ rows[t].exists \in BOOLEAN
  <1>1. rows \in [TodoIds -> {NoRow} \cup {OpenRow(tn) : tn \in Tenants}]
    BY DEF Init
  <1>2. rows[t] = NoRow \/ \E tn \in Tenants : rows[t] = OpenRow(tn)
    BY <1>1, Zenon
  <1>3. CASE rows[t] = NoRow
    BY <1>3 DEF NoRow
  <1>4. ASSUME NEW tn \in Tenants, rows[t] = OpenRow(tn)
        PROVE  rows[t].stamp = Nobody /\ ~rows[t].done /\ rows[t].exists \in BOOLEAN
    BY <1>4 DEF OpenRow
  <1> QED BY <1>2, <1>3, <1>4

\* It holds before the first request.
LEMMA InitCInv == Init => CInv
  <1> SUFFICES ASSUME Init PROVE CInv
    OBVIOUS
  <1>1. \A t \in TodoIds : /\ rows[t].stamp = Nobody /\ ~rows[t].done
                           /\ rows[t].exists \in BOOLEAN
    BY InitRows
  <1>2. \A r \in Requests, t \in TodoIds :
          /\ entries[r][t].state = "Detached"
          /\ audits[r][t]["Create"] = 0 /\ audits[r][t]["Edit"] = 0
    BY DEF Init, EmptyTracker, Untracked, NoAudits, TrailTypes
  <1>3. \A r \in Requests : pc[r] = "idle" /\ DOMAIN script[r] = {} /\ DOMAIN answers[r] = {}
    <2>1. \A r \in Requests : pc[r] = "idle" /\ script[r] = <<>> /\ answers[r] = <<>>
      BY DEF Init
    <2>2. DOMAIN <<>> = {}
      OBVIOUS
    <2> QED BY <2>1, <2>2, Zenon
  <1>4. ASSUME NEW r \in Requests PROVE LocalInv(r)
    <2>1. \A t \in TodoIds : Fits(entries[r][t], audits[r][t], r, t, rows[t])
      BY <1>1, <1>2, <1>3, NullsDiffer DEF Fits, Names
    <2>2. Rests(r) /\ Wins(r) /\ Aims(r) /\ Tells(r) /\ Once(r)
      BY <1>1, <1>2, <1>3, NullsDiffer DEF Rests, Wins, Won, Aims, Tells, Once
    <2> QED BY <2>1, <2>2 DEF LocalInv
  <1>5. AddedOnce
    BY <1>2 DEF AddedOnce
  <1>6. AuditsMatchRows
    BY <1>1 DEF Init, AuditsMatchRows, TrailTypes
  <1> QED BY <1>4, <1>5, <1>6 DEF CInv

\* Every behaviour keeps what clients and auditors rely on.
THEOREM ClientsInvariant == Spec => []CInv
  <1>1. Init => CInv
    BY InitCInv
  <1>2. IInv /\ CInv /\ [Next]_vars => CInv'
    BY NextCInv
  <1> QED BY <1>1, <1>2, Invariant, PTL DEF Spec

-----------------------------------------------------------------------------
(* What follows from it *)

\* An answer of a request, seen as one of its sequence or of its set.
LEMMA AnswerAt ==
  ASSUME TypeInv, NEW r \in Requests, NEW a \in AnswersOf(r)
  PROVE  \E i \in DOMAIN answers[r] : a = answers[r][i] /\ answers[r][i] \in Answer
  <1>1. answers[r] \in Seq(Answer)
    BY DEF TypeInv, TypeOK
  <1>2. PICK i \in 1..Len(answers[r]) : a = answers[r][i]
    BY DEF AnswersOf
  <1> QED BY <1>1, <1>2

\* Of all the commands that ask to finish one todo, in any number of requests on
\* both hosts, at most one is told that it did.
THEOREM WinnersAreUnique == Spec => []OneWinner
  <1>1. IInv /\ CInv => OneWinner
    <2> SUFFICES ASSUME IInv, CInv, NEW q \in Requests, NEW r \in Requests,
                        NEW i \in DOMAIN answers[q], NEW j \in DOMAIN answers[r],
                        answers[q][i].command.op = "SetDone", answers[q][i].result = "Ok",
                        answers[r][j].command = answers[q][i].command,
                        answers[r][j].result = "Ok"
                 PROVE  q = r /\ i = j
      BY DEF OneWinner
    <2> DEFINE t == answers[q][i].command.id
    <2>1. answers[q] \in Seq(Answer)
      BY DEF IInv, TypeInv, TypeOK
    <2>2. answers[q][i].command \in Command
      <3>1. answers[q][i] \in Answer
        BY <2>1
      <3> QED BY <3>1 DEF Answer
    <2>3. t \in TodoIds
      BY <2>2 DEF Command
    <2>4. Finishes(answers[q][i], t) /\ Finishes(answers[r][j], t)
      BY DEF Finishes
    <2> HIDE DEF t
    <2>5. Won(q, t) /\ Won(r, t)
      BY <2>4 DEF Won
    <2>6. rows[t].stamp = q /\ rows[t].stamp = r
      BY <2>3, <2>5 DEF CInv, LocalInv, Wins
    <2> QED BY <2>3, <2>4, <2>6 DEF CInv, LocalInv, Once
  <1> QED BY <1>1, Invariant, ClientsInvariant, PTL

\* What a client was told stays true: no later request, failed save or crash
\* takes back a todo it was given or one it finished.
THEOREM AnswersAreTrue == Spec => []AnswersHold
  <1>1. IInv /\ CInv => AnswersHold
    <2> SUFFICES ASSUME IInv, CInv, NEW r \in Requests, NEW a \in AnswersOf(r)
                 PROVE  /\ \A t \in a.ids : rows[t].exists
                        /\ a.command.op = "SetDone" /\ a.result = "Ok" => rows[a.command.id].done
                        /\ a.result = "NotFound" => rows[a.command.id].tenant # caller[r].tenant
      BY DEF AnswersHold
    <2>1. TypeInv /\ RowsInv /\ LocalInv(r)
      BY DEF IInv, CInv
    <2>2. PICK i \in DOMAIN answers[r] : a = answers[r][i] /\ answers[r][i] \in Answer
      BY <2>1, AnswerAt
    <2>3. Holds(a, caller[r].tenant, rows)
      BY <2>1, <2>2 DEF LocalInv, Tells
    <2>4. a.command.op = "SetDone" /\ a.result = "Ok" => rows[a.command.id].done
      <3> SUFFICES ASSUME a.command.op = "SetDone", a.result = "Ok"
                   PROVE  rows[a.command.id].done
        OBVIOUS
      <3>1. a.command.id \in TodoIds
        BY <2>2 DEF Answer, Command
      <3>2. Won(r, a.command.id)
        BY <2>2 DEF Won, Finishes
      <3> QED BY <2>1, <3>1, <3>2, NullsDiffer DEF LocalInv, Wins, RowsInv
    <2> QED BY <2>3, <2>4 DEF Holds
  <1> QED BY <1>1, Invariant, ClientsInvariant, PTL

\* On neither host is a request shown, or does it keep or modify, a row of
\* another tenant than its caller's.
THEOREM TenantsAreIsolated == Spec => []TenantIsolation
  <1>1. IInv /\ CInv => TenantIsolation
    <2> SUFFICES ASSUME IInv, CInv, NEW r \in Requests, NEW t \in TodoIds,
                        \/ \E a \in AnswersOf(r) : t \in a.ids
                        \/ rows[t].stamp = r
                        \/ rows[t].exists /\ entries[r][t].state # "Detached"
                 PROVE  rows[t].tenant = caller[r].tenant
      BY DEF TenantIsolation
    <2>1. TypeInv /\ LocalInv(r)
      BY DEF IInv, CInv
    <2>2. ASSUME NEW a \in AnswersOf(r), t \in a.ids PROVE rows[t].tenant = caller[r].tenant
      <3>1. PICK i \in DOMAIN answers[r] : a = answers[r][i]
        BY <2>1, <2>2, AnswerAt
      <3> QED BY <2>1, <2>2, <3>1 DEF LocalInv, Tells, Holds
    <2> QED BY <2>1, <2>2 DEF LocalInv, Fits
  <1> QED BY <1>1, Invariant, ClientsInvariant, PTL

\* The audit tables tell the story of the rows, whatever a scope saves again.
THEOREM AuditsAreOfRows == Spec => []AuditsMatchRows
  <1>1. CInv => AuditsMatchRows
    BY DEF CInv
  <1> QED BY <1>1, ClientsInvariant, PTL

-----------------------------------------------------------------------------
(* One command per scope *)

\* With one command per scope, nothing is left of an earlier command when a
\* command begins, and what it saves is what it has changed.
Single(r) ==
    /\ Len(script[r]) <= 1
    /\ pc[r] \in {"idle", "handle"} => \A t \in TodoIds : entries[r][t].state = "Detached"
    /\ pc[r] = "save" => \A t \in TodoIds : entries[r][t].state # "Unchanged"
    /\ pc[r] \in {"idle", "handle", "save"} =>
          \A t \in TodoIds, k \in TrailTypes : audits[r][t][k] = 0

\* The todos that r was told are done already are done.
Refusals(r) ==
    \A i \in DOMAIN answers[r] : answers[r][i].result = "Conflict" =>
        answers[r][i].command.id \in TodoIds /\ rows[answers[r][i].command.id].done

SInv == (\A r \in Requests : Single(r) /\ Refusals(r)) /\ AuditsExactlyOnce

\* The command that replies is the last of its scope.
LEMMA ReplyEnds ==
  ASSUME TypeInv, NEW r \in Requests, InProgress(r), Single(r),
         NEW result, NEW ids, NEW es, NEW as, Reply(r, result, ids, es, as)
  PROVE  Single(r)'
  <1>1. Len(answers[r]) \in Nat /\ Len(script[r]) \in Nat
    BY CurrentType
  <1>2. ~(Len(answers[r]) + 1 < Len(script[r]))
    BY <1>1 DEF Single
  <1>3. script' = script /\ pc'[r] = "over"
    BY <1>2 DEF Reply, TypeInv, TypeOK
  <1> QED BY <1>3 DEF Single

\* A reply that refuses a todo only when it is done.
LEMMA ReplyRefuses ==
  ASSUME TypeInv, RowsInv, NEW r \in Requests, InProgress(r), Refusals(r), RowsStay,
         NEW result, NEW ids, NEW es, NEW as, Reply(r, result, ids, es, as),
         result = "Conflict" => Current(r).id \in TodoIds /\ rows'[Current(r).id].done
  PROVE  Refusals(r)'
  <1> DEFINE a == [command |-> Current(r), ids |-> ids, result |-> result]
  <1>1. answers'[r] = Append(answers[r], a)
    <2>1. answers' = [answers EXCEPT ![r] = Append(answers[r], a)]
      BY DEF Reply
    <2> HIDE DEF a
    <2> QED BY <2>1 DEF TypeInv, TypeOK
  <1>2. a.command = Current(r) /\ a.result = result
    OBVIOUS
  <1> HIDE DEF a
  <1>3. \A i \in DOMAIN answers'[r] :
               \/ i \in DOMAIN answers[r] /\ answers'[r][i] = answers[r][i]
               \/ answers'[r][i] = a
    BY <1>1, OneMore
  <1>4. \A t \in TodoIds : rows[t].done => rows'[t].done
    BY DEF RowsInv, RowsStay
  <1> QED BY <1>2, <1>3, <1>4 DEF Refusals

\* A request whose answers and commands stay as they are.
LEMMA RefusalsStay ==
  ASSUME RowsInv, NEW r \in Requests, Refusals(r), RowsStay, answers'[r] = answers[r]
  PROVE  Refusals(r)'
  <1>1. \A t \in TodoIds : rows[t].done => rows'[t].done
    BY DEF RowsInv, RowsStay
  <1> QED BY <1>1 DEF Refusals

\* A client asks for one command.
LEMMA OneCommand ==
  ASSUME MaxFields = 1, TypeOK, NEW h, NEW s \in Scripts(h)
  PROVE  Len(s) = 1
  <1>1. CASE s \in {<<q>> : q \in Queries}
    <2>1. PICK q \in Queries : s = <<q>>
      BY <1>1
    <2> QED BY <2>1
  <1>2. CASE \E n \in 1..(IF h = "Api" THEN 1 ELSE MaxFields) : s \in [1..n -> Mutations]
    <2>1. PICK n \in 1..(IF h = "Api" THEN 1 ELSE MaxFields) : s \in [1..n -> Mutations]
      BY <1>2
    <2>2. n = 1
      BY <2>1
    <2>3. s \in Seq(Command)
      BY ScriptsType
    <2> QED BY <2>1, <2>2, <2>3
  <1> QED BY <1>1, <1>2 DEF Scripts

\* A request arrives with one command, and is told nothing about a todo.
LEMMA ArriveSingle ==
  ASSUME MaxFields = 1, TypeInv, NEW r \in Requests, Single(r), Arrive(r)
  PROVE  Single(r)' /\ Refusals(r)'
  <1>1. PICK h \in Hosts, p \in Principals : \E s \in Scripts(h) : Arrival(r, h, p, s)
    BY DEF Arrive
  <1>2. PICK s \in Scripts(h) : Arrival(r, h, p, s)
    BY <1>1
  <1> DEFINE denial == [command |-> s[1], ids |-> {}, result |-> "Forbidden"]
  <1>3. /\ script' = [script EXCEPT ![r] = s] /\ pc[r] = "idle"
        /\ UNCHANGED <<entries, audits>>
        /\ \/ pc' = [pc EXCEPT ![r] = "handle"] /\ answers' = answers
           \/ pc' = [pc EXCEPT ![r] = "over"] /\ answers' = [answers EXCEPT ![r] = <<denial>>]
    BY <1>2 DEF Arrive, Arrival, Admit, Forbid, scope
  <1>4. script'[r] = s /\ pc'[r] \in {"handle", "over"}
    BY <1>3 DEF TypeInv, TypeOK
  <1>5. Len(s) = 1
    BY OneCommand DEF TypeInv
  <1>6. Single(r)'
    <2>1. Len(script'[r]) <= 1
      BY <1>4, <1>5
    <2>2. /\ \A t \in TodoIds : entries'[r][t].state = "Detached"
          /\ \A t \in TodoIds, k \in TrailTypes : audits'[r][t][k] = 0
      BY <1>3 DEF Single
    <2> QED BY <1>4, <2>1, <2>2 DEF Single
  <1>7. denial.result = "Forbidden"
    OBVIOUS
  <1>8. \A i \in DOMAIN answers'[r] : answers'[r][i] = denial
    <2> HIDE DEF denial
    <2>1. answers'[r] = <<>> \/ answers'[r] = <<denial>>
      BY <1>3 DEF TypeInv, TypeOK, Positioned
    <2> QED BY <2>1
  <1> HIDE DEF denial
  <1> QED BY <1>6, <1>7, <1>8 DEF Refusals

\* A handler finds an empty tracker, hence refuses what the row says is done,
\* and goes on with the one entity it has changed.
LEMMA HandleSingle ==
  ASSUME IInv, CInv, NEW r \in Requests, Single(r), Refusals(r), Handle(r)
  PROVE  Single(r)' /\ Refusals(r)'
  <1>1. /\ TypeInv /\ RowsInv /\ InProgress(r) /\ pc[r] = "handle" /\ UNCHANGED rows /\ RowsStay
        /\ entries \in [Requests -> [TodoIds -> Entry]]
    BY DEF IInv, TypeInv, TypeOK, Handle, Create, SetDone, Get, GetAll, database, InProgress, RowsStay
  <1>2. ASSUME NEW result \in {"Ok", "Invalid", "NotFound"}, NEW ids, NEW es, NEW as,
               Reply(r, result, ids, es, as)
        PROVE  Single(r)' /\ Refusals(r)'
    BY <1>1, <1>2, ReplyEnds, ReplyRefuses
  <1>3. ASSUME NEW t \in TodoIds, NEW e \in Entry, Stage(r, t, e), e.state # "Unchanged"
        PROVE  Single(r)' /\ Refusals(r)'
    <2>1. /\ script' = script /\ answers' = answers /\ audits' = audits /\ pc'[r] = "save"
          /\ entries'[r] = [entries[r] EXCEPT ![t] = e]
      BY <1>1, <1>3 DEF Stage, TypeInv, TypeOK
    <2>2. \A u \in TodoIds : entries'[r][u] = IF u = t THEN e ELSE entries[r][u]
      BY <1>1, <2>1
    <2>3. Single(r)'
      BY <1>1, <1>3, <2>1, <2>2 DEF Single
    <2> QED BY <1>1, <2>1, <2>3, RefusalsStay
  <1>4. CASE Create(r)
    <2>1. ASSUME NEW t \in TodoIds, Stage(r, t, NewEntity) PROVE Single(r)' /\ Refusals(r)'
      <3>1. NewEntity \in Entry /\ NewEntity.state = "Added"
        BY DEF NewEntity, Entry
      <3> QED BY <1>3, <2>1, <3>1
    <2> QED BY <1>2, <1>4, <2>1 DEF Create
  <1>5. CASE SetDone(r)
    <2> DEFINE t == Current(r).id
               e == IF entries[r][t].state = "Detached" THEN Loaded(t) ELSE entries[r][t]
    <2>1. t \in TodoIds
      BY <1>1, <1>5, CurrentType DEF SetDone, Command
    <2>2. e = Loaded(t) /\ Loaded(t) \in Entry
      <3>1. Loaded(t) \in Entry
        BY <1>1, <2>1, EntryTypes, EmptyScopeType DEF TypeInv
      <3> QED BY <1>1, <2>1, <3>1 DEF Single
    <2>3. e.done = rows[t].done
      BY <2>2 DEF Loaded
    <2>4. \/ Reply(r, "NotFound", {}, entries[r], audits[r])
          \/ e.done /\ Reply(r, "Conflict", {}, [entries[r] EXCEPT ![t] = e], audits[r])
          \/ Stage(r, t, Finished(e))
      BY <1>5 DEF SetDone
    <2> HIDE DEF e
    <2>5. CASE e.done /\ Reply(r, "Conflict", {}, [entries[r] EXCEPT ![t] = e], audits[r])
      BY <1>1, <2>1, <2>3, <2>5, ReplyEnds, ReplyRefuses
    <2>6. CASE Stage(r, t, Finished(e))
      <3>1. Finished(e) \in Entry /\ Finished(e).state # "Unchanged"
        BY <2>2 DEF Entry, Finished
      <3> QED BY <1>3, <2>1, <2>6, <3>1
    <2> QED BY <1>2, <2>4, <2>5, <2>6
  <1>6. CASE Get(r) \/ GetAll(r)
    BY <1>2, <1>6 DEF Get, GetAll
  <1> QED BY <1>4, <1>5, <1>6 DEF Handle

\* Every step of a request keeps it to its one command.
LEMMA ActsSingle ==
  ASSUME MaxFields = 1, IInv, CInv, NEW r \in Requests, Single(r), Refusals(r), Acts(r), RowsStay
  PROVE  Single(r)' /\ Refusals(r)'
  <1>1. TypeInv /\ RowsInv
    BY DEF IInv
  <1>2. ASSUME NEW result \in {"Ok", "Error"}, NEW ids, NEW es, NEW as,
               pc[r] \in {"save", "dispatch"}, Reply(r, result, ids, es, as)
        PROVE  Single(r)' /\ Refusals(r)'
    <2>1. InProgress(r)
      BY <1>2 DEF InProgress
    <2> QED BY <1>1, <1>2, <2>1, ReplyEnds, ReplyRefuses
  <1>3. CASE Save(r)
    <2>1. script' = script /\ answers' = answers /\ pc'[r] = "dispatch"
      BY <1>1, <1>3 DEF Save, TypeInv, TypeOK
    <2>2. Single(r)'
      BY <2>1 DEF Single
    <2> QED BY <1>1, <2>1, <2>2, RefusalsStay
  <1>4. CASE SaveRejected(r) \/ SaveFails(r) \/ SaveUnacknowledged(r)
    BY <1>2, <1>4 DEF SaveRejected, SaveFails, SaveUnacknowledged
  <1>5. ASSUME NEW t \in TodoIds, Publish(r, t) PROVE Single(r)' /\ Refusals(r)'
    <2>1. script' = script /\ answers' = answers /\ pc' = pc /\ pc[r] = "dispatch"
      BY <1>5 DEF Publish
    <2>2. Single(r)'
      BY <2>1 DEF Single
    <2> QED BY <1>1, <2>1, <2>2, RefusalsStay
  <1>6. CASE (\E t \in TodoIds : PublishThrows(r, t)) \/ Return(r)
    BY <1>2, <1>6 DEF PublishThrows, Return
  <1>7. CASE Abort(r)
    <2>1. script' = script /\ answers' = answers /\ pc'[r] = "over"
      BY <1>1, <1>7 DEF Abort, TypeInv, TypeOK
    <2>2. Single(r)'
      BY <2>1 DEF Single
    <2> QED BY <1>1, <2>1, <2>2, RefusalsStay
  <1>8. CASE Arrive(r) \/ Handle(r)
    BY <1>1, <1>8, ArriveSingle, HandleSingle
  <1> QED BY <1>3, <1>4, <1>5, <1>6, <1>7, <1>8 DEF Acts, Dispatch

\* A commit of one change writes the one entry of that change.
LEMMA WriteOneAudit ==
  ASSUME IInv, CInv, AuditsExactlyOnce,
         NEW w \in Requests, pc[w] = "save", Single(w), CanCommit(w), Write(w)
  PROVE  AuditsExactlyOnce'
  <1> SUFFICES ASSUME NEW t \in TodoIds
               PROVE  /\ trail'[t]["Create"] = IF rows'[t].exists THEN 1 ELSE 0
                      /\ trail'[t]["Edit"] = IF rows'[t].done THEN 1 ELSE 0
                      /\ trail'[t]["Undefined"] = 0
    BY DEF AuditsExactlyOnce
  <1>1. /\ TypeInv
        /\ trail[t]["Create"] = IF rows[t].exists THEN 1 ELSE 0
        /\ trail[t]["Edit"] = IF rows[t].done THEN 1 ELSE 0
        /\ trail[t]["Undefined"] = 0
    BY DEF AuditsExactlyOnce, IInv
  <1>2. /\ entries[w][t].state \in {"Detached", "Added", "Modified"}
        /\ \A k \in TrailTypes : audits[w][t][k] = 0
    <2>1. entries[w][t] \in Entry
      BY <1>1 DEF TypeInv, TypeOK
    <2> QED BY <2>1 DEF Single, Entry
  <1>3. \A k \in TrailTypes : trail'[t][k] = trail[t][k] + Intercepted(w)[t][k]
    BY DEF Write
  <1>4. /\ Intercepted(w)[t]["Create"] = IF entries[w][t].state = "Added" THEN 1 ELSE 0
        /\ Intercepted(w)[t]["Edit"] = IF entries[w][t].state = "Modified" THEN 1 ELSE 0
        /\ Intercepted(w)[t]["Undefined"] = 0
    BY <1>2 DEF Intercepted, AuditKind, TrailTypes
  <1>5. /\ trail'[t]["Create"] = trail[t]["Create"] + Intercepted(w)[t]["Create"]
        /\ trail'[t]["Edit"] = trail[t]["Edit"] + Intercepted(w)[t]["Edit"]
        /\ trail'[t]["Undefined"] = trail[t]["Undefined"] + Intercepted(w)[t]["Undefined"]
    BY <1>3 DEF TrailTypes
  <1>6. CASE Kept(w, t)
    BY <1>1, <1>4, <1>5, <1>6 DEF Kept
  <1>7. CASE Born(w, t)
    <2>1. ~rows[t].done
      BY <1>7 DEF Born, IInv, RowsInv
    <2> QED BY <1>1, <1>4, <1>5, <1>7, <2>1 DEF Born
  <1>8. CASE Closed(w, t)
    <2>1. ~rows[t].done
      BY <1>8, NullsDiffer DEF Closed, IInv, RowsInv
    <2> QED BY <1>1, <1>4, <1>5, <1>8, <2>1 DEF Closed
  <1> QED BY <1>6, <1>7, <1>8, WriteRows

\* Every step keeps every request to its one command.
LEMMA NextSInv ==
  ASSUME MaxFields = 1, IInv, CInv, SInv, [Next]_vars
  PROVE  SInv'
  <1>1. TypeInv /\ RowsInv
    BY DEF IInv
  <1>2. ASSUME NEW r \in Requests, Apart(r), RowsStay PROVE Single(r)' /\ Refusals(r)'
    <2>1. Single(r)'
      BY <1>2 DEF SInv, Single, Apart
    <2> QED BY <1>1, <1>2, <2>1, RefusalsStay DEF SInv, Apart
  <1>3. UNCHANGED <<rows, trail>> => RowsStay /\ AuditsExactlyOnce'
    BY DEF RowsStay, SInv, AuditsExactlyOnce
  <1>4. ASSUME NEW w \in Requests, Acts(w) PROVE SInv'
    <2>1. /\ \A r \in Requests \ {w} : Apart(r)
          /\ \/ UNCHANGED <<rows, trail>>
             \/ pc[w] = "save" /\ CanCommit(w) /\ Write(w)
      BY <1>1, <1>4, ActsAlone
    <2>2. RowsStay /\ AuditsExactlyOnce'
      BY <1>3, <2>1, CommitFate, WriteOneAudit DEF SInv
    <2>3. Single(w)' /\ Refusals(w)'
      BY <1>4, <2>2, ActsSingle DEF SInv
    <2> QED BY <1>2, <2>1, <2>2, <2>3 DEF SInv
  <1>5. ASSUME NEW h \in Hosts, Crash(h) PROVE SInv'
    <2>1. /\ UNCHANGED <<rows, trail>>
          /\ \A r \in Requests :
               \/ Apart(r)
               \/ pc'[r] = "over" /\ script'[r] = script[r] /\ answers'[r] = answers[r]
      BY <1>5 DEF Crash, database, Apart
    <2>2. ASSUME NEW r \in Requests, pc'[r] = "over", script'[r] = script[r],
                 answers'[r] = answers[r]
          PROVE  Single(r)' /\ Refusals(r)'
      <3>1. Single(r)'
        BY <2>2 DEF SInv, Single
      <3> QED BY <1>1, <1>3, <2>1, <2>2, <3>1, RefusalsStay DEF SInv
    <2> QED BY <1>2, <1>3, <2>1, <2>2 DEF SInv
  <1>6. CASE UNCHANGED vars
    <2>1. \A r \in Requests : Apart(r) /\ UNCHANGED <<rows, trail>>
      BY <1>6 DEF vars, Apart
    <2>2. RowsStay /\ AuditsExactlyOnce'
      BY <1>6 DEF vars, RowsStay, SInv, AuditsExactlyOnce
    <2> QED BY <1>2, <2>1, <2>2 DEF SInv
  <1> QED BY <1>4, <1>5, <1>6 DEF Next, Progress, Acts

\* It holds before the first request.
LEMMA InitSInv == Init => SInv
  <1> SUFFICES ASSUME Init PROVE SInv
    OBVIOUS
  <1>1. \A t \in TodoIds : ~rows[t].done
    BY InitRows
  <1>2. \A r \in Requests, t \in TodoIds :
          /\ entries[r][t].state = "Detached"
          /\ \A k \in TrailTypes : audits[r][t][k] = 0
    BY DEF Init, EmptyTracker, Untracked, NoAudits
  <1>3. \A r \in Requests : Len(script[r]) = 0 /\ DOMAIN answers[r] = {} /\ pc[r] = "idle"
    <2>1. \A r \in Requests : pc[r] = "idle" /\ script[r] = <<>> /\ answers[r] = <<>>
      BY DEF Init
    <2>2. DOMAIN <<>> = {} /\ Len(<<>>) = 0
      OBVIOUS
    <2> QED BY <2>1, <2>2, Zenon
  <1>4. ASSUME NEW r \in Requests PROVE Single(r) /\ Refusals(r)
    <2>1. Single(r)
      BY <1>2, <1>3 DEF Single
    <2>2. Refusals(r)
      BY <1>3 DEF Refusals
    <2> QED BY <2>1, <2>2
  <1>5. AuditsExactlyOnce
    BY <1>1 DEF Init, AuditsExactlyOnce, TrailTypes
  <1> QED BY <1>4, <1>5 DEF SInv

\* With one command per scope, each change of a row has exactly one audit entry,
\* and nothing else has one.
THEOREM AuditsOnce ==
  ASSUME MaxFields = 1
  PROVE  Spec => []AuditsExactlyOnce
  <1>1. IInv /\ CInv /\ SInv /\ [Next]_vars => SInv'
    BY NextSInv
  <1>2. SInv => AuditsExactlyOnce
    BY DEF SInv
  <1> QED BY <1>1, <1>2, InitSInv, Invariant, ClientsInvariant, PTL DEF Spec

\* With one command per scope, a caller is told that a todo is done already only
\* when it is.
THEOREM ConflictsAreTrue ==
  ASSUME MaxFields = 1
  PROVE  Spec => []ConflictIsTrue
  <1>1. IInv /\ CInv /\ SInv /\ [Next]_vars => SInv'
    BY NextSInv
  <1>2. IInv /\ SInv => ConflictIsTrue
    <2> SUFFICES ASSUME IInv, SInv, NEW r \in Requests, NEW a \in AnswersOf(r),
                        a.result = "Conflict"
                 PROVE  rows[a.command.id].done
      BY DEF ConflictIsTrue
    <2>1. PICK i \in DOMAIN answers[r] : a = answers[r][i]
      BY AnswerAt DEF IInv
    <2> QED BY <2>1 DEF SInv, Refusals
  <1> QED BY <1>1, <1>2, InitSInv, Invariant, ClientsInvariant, PTL DEF Spec
==============================================================================
