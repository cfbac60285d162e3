--------------------------- MODULE TodosEventsProofs ---------------------------
(***************************************************************************)
(* What the answers of Todos say about its events and about its refusals,  *)
(* for every set of requests, todos and tenants, every length of a GraphQL *)
(* request and any number of faults.                                       *)
(*                                                                         *)
(* An answer is given, an event published and a row closed by different    *)
(* steps of one request, between which it may fail.  EInv follows the three *)
(* through a scope: what is modified in memory has its event (Changes), so *)
(* a commit puts it in the queue, where it stays until it is published or  *)
(* the client learns that something failed (Losses, Announces); and what   *)
(* is modified in memory longer than its own save failed there (Changes),  *)
(* which is the one way to a refusal that the row does not justify.        *)
(***************************************************************************)
EXTENDS TodosAnswersProofs

-----------------------------------------------------------------------------
(* The inductive invariant, next to IInv and CInv *)

\* A command that asked to finish t ended with an error; r has had such an answer.
Attempt(a, t) ==
    a.command.op = "SetDone" /\ a.command.id = t /\ a.result = "Error"

Failed(r, t) == \E i \in DOMAIN answers[r] : Attempt(answers[r][i], t)

\* Request r has answered a command with an error.
Stumbled(r) == \E i \in DOMAIN answers[r] : answers[r][i].result = "Error"

\* What the tracker of r holds for t, as entry e: a modified entity has its
\* event, and is the one that r is saving or one that it failed to save; an
\* unchanged one is done only if the row is.
Change(e, r, t, row) ==
    /\ e.state = "Modified" =>
          /\ e.event
          /\ Failed(r, t) \/ (pc[r] = "save" /\ target[r] = t /\ Current(r).op = "SetDone")
    /\ e.state = "Unchanged" /\ e.done => row.done

Changes(r) == \A t \in TodoIds : Change(entries[r][t], r, t, rows[t])

\* What r has finished and not announced waits in its queue, or r has stumbled,
\* or it ended before all its answers.
Losses(r) ==
    \A t \in TodoIds : rows[t].stamp = r /\ published[t] = 0 =>
        \/ t \in queue[r]
        \/ Stumbled(r)
        \/ pc[r] = "over" /\ Len(answers[r]) < Len(script[r])

\* What r was told it finished is announced; what it is about to be told it
\* finished is announced or in its queue.
Announces(r) ==
    /\ \A t \in TodoIds : Won(r, t) => published[t] = 1
    /\ pc[r] = "dispatch" /\ Current(r).op = "SetDone" =>
          target[r] \in queue[r] \/ published[target[r]] = 1

\* The Heart module has what the Api announced.
Hears(r) ==
    caller[r].host = "Api" =>
        \A t \in TodoIds : rows[t].stamp = r => heard[t] = published[t]

\* Every refusal has its cause.
Causes(r) ==
    \A i \in DOMAIN answers[r] : answers[r][i].result = "Conflict" =>
        /\ answers[r][i].command.op = "SetDone" /\ answers[r][i].command.id \in TodoIds
        /\ \/ rows[answers[r][i].command.id].done
           \/ \E j \in 1..(i - 1) : Attempt(answers[r][j], answers[r][i].command.id)

EventsInv(r) == Changes(r) /\ Losses(r) /\ Announces(r) /\ Hears(r) /\ Causes(r)

\* Nothing is heard that was not published.
HeardInv == \A t \in TodoIds : heard[t] <= published[t]

EInv == (\A r \in Requests : EventsInv(r)) /\ HeardInv

-----------------------------------------------------------------------------
(* Steps, seen from a request *)

\* A row that exists does not go back from done to open.
LEMMA DoneStays ==
  ASSUME IInv, RowsStay, NEW t \in TodoIds, rows[t].done
  PROVE  rows'[t].done
  BY DEF IInv, RowsInv, RowsStay

\* The answers of a request after one more: the old ones where they were, and
\* the new one last.
LEMMA Answered ==
  ASSUME TypeInv, NEW r \in Requests, InProgress(r),
         NEW result, NEW ids, NEW es, NEW as, Reply(r, result, ids, es, as)
  PROVE  LET n == Len(answers[r]) + 1
         IN  /\ n \in DOMAIN answers'[r] /\ n \notin DOMAIN answers[r]
             /\ \A i \in DOMAIN answers'[r] : i \in DOMAIN answers[r] \/ i = n
             /\ \A i \in DOMAIN answers[r] :
                   i \in DOMAIN answers'[r] /\ answers'[r][i] = answers[r][i] /\ i \in 1..(n - 1)
             /\ \A i \in 1..(n - 1) : i \in DOMAIN answers[r]
             /\ answers'[r][n].command = Current(r) /\ answers'[r][n].result = result
  <1> DEFINE a == [command |-> Current(r), ids |-> ids, result |-> result]
  <1>1. answers'[r] = Append(answers[r], a)
    <2>1. answers' = [answers EXCEPT ![r] = Append(answers[r], a)]
      BY DEF Reply
    <2> HIDE DEF a
    <2> QED BY <2>1 DEF TypeInv, TypeOK
  <1>2. a.command = Current(r) /\ a.result = result
    OBVIOUS
  <1> HIDE DEF a
  <1>3. answers[r] \in Seq(Answer)
    BY DEF TypeInv, TypeOK
  <1>4. Len(answers[r]) \in Nat /\ DOMAIN answers[r] = 1..Len(answers[r])
    BY <1>3
  <1>5. /\ DOMAIN answers'[r] = 1..(Len(answers[r]) + 1)
        /\ answers'[r][Len(answers[r]) + 1] = a
        /\ \A i \in 1..Len(answers[r]) : answers'[r][i] = answers[r][i]
    BY <1>1, <1>3
  <1> QED BY <1>2, <1>4, <1>5

\* So what the answers say of a failure is kept, and the new one adds its own.
LEMMA Recorded ==
  ASSUME TypeInv, NEW r \in Requests, InProgress(r),
         NEW result, NEW ids, NEW es, NEW as, Reply(r, result, ids, es, as)
  PROVE  /\ \A t \in TodoIds : Failed(r, t) => Failed(r, t)'
         /\ Stumbled(r) => Stumbled(r)'
         /\ result = "Error" => Stumbled(r)'
         /\ \A t \in TodoIds : result = "Error" /\ Current(r).op = "SetDone" /\ Current(r).id = t =>
               Failed(r, t)'
         /\ \A t \in TodoIds : Won(r, t)' =>
               Won(r, t) \/ (Current(r).op = "SetDone" /\ Current(r).id = t /\ result = "Ok")
  <1> DEFINE n == Len(answers[r]) + 1
  <1>1. /\ n \in DOMAIN answers'[r]
        /\ \A i \in DOMAIN answers'[r] : i \in DOMAIN answers[r] \/ i = n
        /\ \A i \in DOMAIN answers[r] : i \in DOMAIN answers'[r] /\ answers'[r][i] = answers[r][i]
        /\ answers'[r][n].command = Current(r) /\ answers'[r][n].result = result
    BY Answered
  <1> HIDE DEF n
  <1>2. /\ \A t \in TodoIds : Failed(r, t) => Failed(r, t)'
        /\ \A t \in TodoIds : result = "Error" /\ Current(r).op = "SetDone" /\ Current(r).id = t =>
               Failed(r, t)'
    BY <1>1 DEF Failed, Attempt
  <1>3. Stumbled(r) \/ result = "Error" => Stumbled(r)'
    BY <1>1 DEF Stumbled
  <1>4. \A t \in TodoIds : Won(r, t)' =>
            Won(r, t) \/ (Current(r).op = "SetDone" /\ Current(r).id = t /\ result = "Ok")
    BY <1>1 DEF Won, Finishes
  <1> QED BY <1>2, <1>3, <1>4

\* A reply keeps every refusal justified, given that the new one is.
LEMMA ReplyCauses ==
  ASSUME IInv, RowsStay, NEW r \in Requests, InProgress(r), Causes(r),
         NEW result, NEW ids, NEW es, NEW as, Reply(r, result, ids, es, as),
         result = "Conflict" =>
            /\ Current(r).op = "SetDone" /\ Current(r).id \in TodoIds
            /\ rows'[Current(r).id].done \/ Failed(r, Current(r).id)
  PROVE  Causes(r)'
  <1> DEFINE n == Len(answers[r]) + 1
  <1>1. /\ n \in DOMAIN answers'[r]
        /\ \A i \in DOMAIN answers'[r] : i \in DOMAIN answers[r] \/ i = n
        /\ \A i \in DOMAIN answers[r] :
              i \in DOMAIN answers'[r] /\ answers'[r][i] = answers[r][i] /\ i \in 1..(n - 1)
        /\ answers'[r][n].command = Current(r) /\ answers'[r][n].result = result
    BY Answered DEF IInv
  <1>2. \A t \in TodoIds : rows[t].done => rows'[t].done
    BY DoneStays
  <1>3. \A i \in DOMAIN answers[r] : \A j \in 1..(i - 1) :
            j \in DOMAIN answers[r] /\ answers'[r][j] = answers[r][j]
    <2>1. \A i \in 1..Len(answers[r]) : \A j \in 1..(i - 1) : j \in 1..Len(answers[r])
      <3>1. Len(answers[r]) \in Nat
        BY CurrentType DEF IInv
      <3> QED BY <3>1
    <2>2. answers[r] \in Seq(Answer)
      BY DEF IInv, TypeInv, TypeOK
    <2>3. DOMAIN answers[r] = 1..Len(answers[r])
      BY <2>2
    <2> QED BY <1>1, <2>1, <2>3
  <1> HIDE DEF n
  <1> SUFFICES ASSUME NEW i \in DOMAIN answers'[r], answers'[r][i].result = "Conflict"
               PROVE  /\ answers'[r][i].command.op = "SetDone" /\ answers'[r][i].command.id \in TodoIds
                      /\ \/ rows'[answers'[r][i].command.id].done
                         \/ \E j \in 1..(i - 1) : Attempt(answers'[r][j], answers'[r][i].command.id)
    BY DEF Causes
  <1>4. CASE i = n
    <2>1. CASE rows'[Current(r).id].done
      BY <1>1, <1>4, <2>1
    <2>2. CASE Failed(r, Current(r).id)
      <3>1. PICK j \in DOMAIN answers[r] : Attempt(answers[r][j], Current(r).id)
        BY <2>2 DEF Failed
      <3>2. j \in 1..(n - 1) /\ answers'[r][j] = answers[r][j]
        BY <1>1
      <3> QED BY <1>1, <1>4, <3>1, <3>2
    <2> QED BY <1>1, <1>4, <2>1, <2>2
  <1>5. CASE i \in DOMAIN answers[r]
    <2>1. /\ answers[r][i].command.op = "SetDone" /\ answers[r][i].command.id \in TodoIds
          /\ \/ rows[answers[r][i].command.id].done
             \/ \E j \in 1..(i - 1) : Attempt(answers[r][j], answers[r][i].command.id)
          /\ answers'[r][i] = answers[r][i]
      BY <1>1, <1>5 DEF Causes
    <2> QED BY <1>2, <1>3, <1>5, <2>1
  <1> QED BY <1>1, <1>4, <1>5

\* A reply keeps the invariant of its request, given that the tracker it leaves
\* is justified, that the answer is true of the events, and that what is still
\* to be announced of the rows is told to have failed.
LEMMA ReplyEvents ==
  ASSUME IInv, RowsStay, NEW r \in Requests, InProgress(r), EventsInv(r),
         UNCHANGED events, queue'[r] = {},
         NEW result, NEW ids, NEW es, NEW as, Reply(r, result, ids, es, as),
         \A t \in TodoIds :
            /\ es[t].state = "Modified" =>
                  /\ es[t].event
                  /\ Failed(r, t) \/
                     (result = "Error" /\ Current(r).op = "SetDone" /\ Current(r).id = t)
            /\ es[t].state = "Unchanged" /\ es[t].done => rows'[t].done,
         \A t \in TodoIds : rows'[t].stamp = r =>
            /\ published[t] = 0 => Stumbled(r) \/ result = "Error"
            /\ caller[r].host = "Api" => heard[t] = published[t],
         \A t \in TodoIds :
            Current(r).op = "SetDone" /\ Current(r).id = t /\ result = "Ok" => published[t] = 1,
         result = "Conflict" =>
            /\ Current(r).op = "SetDone" /\ Current(r).id \in TodoIds
            /\ rows'[Current(r).id].done \/ Failed(r, Current(r).id)
  PROVE  EventsInv(r)'
  <1>1. TypeInv
    BY DEF IInv
  <1>2. /\ caller' = caller /\ script' = script /\ published' = published /\ heard' = heard
        /\ \/ pc'[r] = "handle" /\ entries'[r] = es
           \/ pc'[r] = "over" /\ entries'[r] = EmptyTracker
    <2>1. published' = published /\ heard' = heard
      BY DEF events
    <2>2. caller' = caller /\ script' = script
      BY <1>1, ReplyOwn
    <2>3. \/ pc'[r] = "handle" /\ entries'[r] = es
          \/ pc'[r] = "over" /\ entries'[r] = EmptyTracker
      BY <1>1 DEF Reply, TypeInv, TypeOK
    <2> QED BY <2>1, <2>2, <2>3
  <1>3. /\ \A t \in TodoIds : Failed(r, t) => Failed(r, t)'
        /\ \A t \in TodoIds : result = "Error" /\ Current(r).op = "SetDone" /\ Current(r).id = t =>
              Failed(r, t)'
        /\ Stumbled(r) \/ result = "Error" => Stumbled(r)'
        /\ \A t \in TodoIds : Won(r, t)' =>
              Won(r, t) \/ (Current(r).op = "SetDone" /\ Current(r).id = t /\ result = "Ok")
    BY <1>1, Recorded
  <1>4. Changes(r)'
    <2> SUFFICES ASSUME NEW t \in TodoIds
                 PROVE  Change(entries[r][t], r, t, rows[t])'
      BY DEF Changes
    <2>1. CASE entries'[r] = EmptyTracker
      BY <2>1 DEF EmptyTracker, Untracked, Change
    <2>2. CASE entries'[r] = es
      BY <1>3, <2>2 DEF Change
    <2> QED BY <1>2, <2>1, <2>2
  <1>5. Losses(r)'
    BY <1>2, <1>3 DEF Losses
  <1>6. Announces(r)'
    BY <1>2, <1>3 DEF EventsInv, Announces
  <1>7. Hears(r)'
    BY <1>2 DEF Hears
  <1>8. Causes(r)'
    BY ReplyCauses DEF EventsInv
  <1> QED BY <1>4, <1>5, <1>6, <1>7, <1>8 DEF EventsInv

\* The answers of a request that it does not add to mean what they meant.
LEMMA SameAnswers ==
  ASSUME NEW r \in Requests, answers'[r] = answers[r]
  PROVE  /\ \A t \in TodoIds : Failed(r, t)' <=> Failed(r, t)
         /\ Stumbled(r)' <=> Stumbled(r)
         /\ \A t \in TodoIds : Won(r, t)' <=> Won(r, t)
         /\ script'[r] = script[r] => Current(r)' = Current(r)
  BY DEF Failed, Attempt, Stumbled, Won, Finishes, Current

\* Nor do they need other causes, as long as no row is opened again.
LEMMA CausesStay ==
  ASSUME NEW r \in Requests, answers'[r] = answers[r], Causes(r),
         \A t \in TodoIds : rows[t].done => rows'[t].done
  PROVE  Causes(r)'
  BY DEF Causes, Attempt

\* A request that has no part in a step keeps its invariant, if the step changes
\* no row and no event count of a todo that it has finished.
LEMMA EventsBystander ==
  ASSUME IInv, CInv, NEW r \in Requests, Apart(r), queue'[r] = queue[r], EventsInv(r), RowsStay,
         \A t \in TodoIds : rows'[t].stamp = r => rows'[t] = rows[t],
         \A t \in TodoIds : rows[t].stamp = r => published'[t] = published[t] /\ heard'[t] = heard[t]
  PROVE  EventsInv(r)'
  <1>1. /\ pc'[r] = pc[r] /\ caller'[r] = caller[r] /\ script'[r] = script[r]
        /\ answers'[r] = answers[r] /\ entries'[r] = entries[r] /\ target'[r] = target[r]
    BY DEF Apart
  <1>2. /\ \A t \in TodoIds : Failed(r, t)' <=> Failed(r, t)
        /\ Stumbled(r)' <=> Stumbled(r)
        /\ \A t \in TodoIds : Won(r, t)' <=> Won(r, t)
        /\ Current(r)' = Current(r)
    BY <1>1, SameAnswers
  <1>3. \A t \in TodoIds : rows[t].done => rows'[t].done
    BY DoneStays
  <1>4. Changes(r)'
    BY <1>1, <1>2, <1>3 DEF EventsInv, Changes, Change
  <1>5. Losses(r)'
    BY <1>1, <1>2 DEF EventsInv, Losses
  <1>6. Announces(r)'
    <2>1. \A t \in TodoIds : Won(r, t) => rows[t].stamp = r
      BY DEF CInv, LocalInv, Wins
    <2>2. pc[r] = "dispatch" /\ Current(r).op = "SetDone" =>
              target[r] \in TodoIds /\ rows[target[r]].stamp = r
      BY DEF CInv, LocalInv, Aims, IInv, TypeInv, Positioned
    <2> QED BY <1>1, <1>2, <2>1, <2>2 DEF EventsInv, Announces
  <1>7. Hears(r)'
    BY <1>1 DEF EventsInv, Hears
  <1>8. Causes(r)'
    BY <1>1, <1>3, CausesStay DEF EventsInv
  <1> QED BY <1>4, <1>5, <1>6, <1>7, <1>8 DEF EventsInv

\* A request that goes without a further answer leaves some of them out.
LEMMA EventsGone ==
  ASSUME IInv, NEW r \in Requests, InProgress(r), EventsInv(r),
         pc'[r] = "over", entries'[r] = EmptyTracker, UNCHANGED <<rows, published, heard>>,
         caller'[r] = caller[r], script'[r] = script[r], answers'[r] = answers[r]
  PROVE  EventsInv(r)'
  <1>1. /\ \A t \in TodoIds : Won(r, t)' <=> Won(r, t)
    BY SameAnswers
  <1>2. Len(answers[r]) < Len(script[r])
    BY DEF IInv, TypeInv, Positioned
  <1>3. Changes(r)'
    BY DEF Changes, Change, EmptyTracker, Untracked
  <1>4. Losses(r)'
    BY <1>2 DEF Losses
  <1>5. Announces(r)'
    BY <1>1 DEF EventsInv, Announces
  <1>6. Hears(r)'
    BY DEF EventsInv, Hears
  <1>7. Causes(r)'
    BY CausesStay DEF EventsInv
  <1> QED BY <1>3, <1>4, <1>5, <1>6, <1>7 DEF EventsInv

-----------------------------------------------------------------------------
(* The request that takes a step *)

\* A request arrives without a trace, and is told at most that it is forbidden.
LEMMA EventsArrive ==
  ASSUME IInv, CInv, NEW r \in Requests, Arrive(r)
  PROVE  EventsInv(r)'
  <1>1. PICK h \in Hosts, p \in Principals : \E s \in Scripts(h) : Arrival(r, h, p, s)
    BY DEF Arrive
  <1>2. PICK s \in Scripts(h) : Arrival(r, h, p, s)
    BY <1>1
  <1> DEFINE denial == [command |-> s[1], ids |-> {}, result |-> "Forbidden"]
  <1>3. /\ pc[r] = "idle" /\ UNCHANGED <<rows, published, heard, entries, queue>>
        /\ \/ pc' = [pc EXCEPT ![r] = "handle"] /\ answers' = answers
           \/ pc' = [pc EXCEPT ![r] = "over"] /\ answers' = [answers EXCEPT ![r] = <<denial>>]
    BY <1>2 DEF Arrive, Arrival, Admit, Forbid, scope, database, events
  <1>4. denial.result = "Forbidden"
    OBVIOUS
  <1> HIDE DEF denial
  <1>5. pc'[r] \in {"handle", "over"}
    BY <1>3 DEF IInv, TypeInv, TypeOK
  <1>6. \A i \in DOMAIN answers'[r] : answers'[r][i].result = "Forbidden"
    <2>1. answers'[r] = <<>> \/ answers'[r] = <<denial>>
      BY <1>3 DEF IInv, TypeInv, TypeOK, Positioned
    <2> QED BY <1>4, <2>1
  <1>7. \A t \in TodoIds : entries'[r][t].state = "Detached" /\ rows'[t].stamp # r
    BY <1>3 DEF CInv, LocalInv, Rests
  <1>8. \A t \in TodoIds : ~Won(r, t)'
    BY <1>6 DEF Won, Finishes
  <1>9. Changes(r)'
    BY <1>7 DEF Changes, Change
  <1>10. Losses(r)' /\ Hears(r)'
    BY <1>7 DEF Losses, Hears
  <1>11. Announces(r)'
    BY <1>5, <1>8 DEF Announces
  <1>12. Causes(r)'
    BY <1>6 DEF Causes
  <1> QED BY <1>9, <1>10, <1>11, <1>12 DEF EventsInv

\* A handler that goes on to the save has either a new entity or one that it has
\* modified, with its event.
LEMMA EventsStage ==
  ASSUME IInv, NEW r \in Requests, pc[r] = "handle", EventsInv(r),
         UNCHANGED <<rows, published, heard, queue>>,
         NEW t \in TodoIds, NEW e \in Entry, Stage(r, t, e),
         \/ e.state = "Added"
         \/ e.state = "Modified" /\ e.event /\ Current(r).op = "SetDone"
  PROVE  EventsInv(r)'
  <1>1. entries \in [Requests -> [TodoIds -> Entry]]
    BY DEF IInv, TypeInv, TypeOK
  <1>2. /\ caller' = caller /\ script' = script /\ answers' = answers
        /\ pc'[r] = "save" /\ target'[r] = t
        /\ entries'[r] = [entries[r] EXCEPT ![t] = e]
    BY <1>1 DEF Stage, IInv, TypeInv, TypeOK
  <1>3. entries'[r][t] = e /\ \A u \in TodoIds \ {t} : entries'[r][u] = entries[r][u]
    BY <1>1, <1>2
  <1>4. /\ \A u \in TodoIds : Failed(r, u)' <=> Failed(r, u)
        /\ Stumbled(r)' <=> Stumbled(r)
        /\ \A u \in TodoIds : Won(r, u)' <=> Won(r, u)
        /\ Current(r)' = Current(r)
    BY <1>2, SameAnswers
  <1>5. Changes(r)'
    BY <1>2, <1>3, <1>4 DEF EventsInv, Changes, Change
  <1>6. Losses(r)'
    BY <1>2, <1>4 DEF EventsInv, Losses
  <1>7. Announces(r)'
    BY <1>2, <1>4 DEF EventsInv, Announces
  <1>8. Hears(r)'
    BY <1>2 DEF EventsInv, Hears
  <1>9. Causes(r)'
    BY <1>2, CausesStay DEF EventsInv
  <1> QED BY <1>5, <1>6, <1>7, <1>8, <1>9 DEF EventsInv

\* A handler refuses a todo that is done, or one that it failed to save as done.
LEMMA EventsHandle ==
  ASSUME IInv, CInv, NEW r \in Requests, EventsInv(r), Handle(r)
  PROVE  EventsInv(r)'
  <1>1. /\ pc[r] = "handle" /\ InProgress(r) /\ TypeInv
        /\ UNCHANGED rows /\ UNCHANGED queue /\ UNCHANGED events /\ RowsStay
    BY DEF Handle, Create, SetDone, Get, GetAll, database, InProgress, RowsStay, IInv
  <1>2. queue'[r] = {} /\ published' = published /\ heard' = heard
    BY <1>1 DEF IInv, QueueInv, events
  <1>3. entries[r] \in [TodoIds -> Entry]
    BY <1>1 DEF TypeInv, TypeOK
  <1>4. Current(r) \in Command
    BY <1>1, CurrentType
  <1>5. \A t \in TodoIds :
            /\ entries[r][t].state = "Modified" => entries[r][t].event /\ Failed(r, t)
            /\ entries[r][t].state = "Unchanged" /\ entries[r][t].done => rows'[t].done
    BY <1>1 DEF EventsInv, Changes, Change
  <1>6. \A t \in TodoIds : rows'[t].stamp = r =>
            /\ published[t] = 0 => Stumbled(r)
            /\ caller[r].host = "Api" => heard[t] = published[t]
    BY <1>1, <1>2 DEF EventsInv, Losses, Hears
  <1>7. ASSUME NEW result \in {"Ok", "Invalid", "NotFound"}, NEW ids, NEW as,
               result = "Ok" => Current(r).op # "SetDone",
               Reply(r, result, ids, entries[r], as)
        PROVE  EventsInv(r)'
    BY <1>1, <1>2, <1>5, <1>6, <1>7, ReplyEvents
  <1>8. CASE Create(r)
    <2>1. ASSUME NEW t \in TodoIds, Stage(r, t, NewEntity) PROVE EventsInv(r)'
      <3>1. NewEntity \in Entry /\ NewEntity.state = "Added"
        BY DEF NewEntity, Entry
      <3> QED BY <1>1, <1>2, <2>1, <3>1, EventsStage
    <2> QED BY <1>7, <1>8, <2>1 DEF Create
  <1>9. CASE SetDone(r)
    <2> DEFINE t == Current(r).id
               e == IF entries[r][t].state = "Detached" THEN Loaded(t) ELSE entries[r][t]
    <2>1. t \in TodoIds /\ Current(r).op = "SetDone"
      BY <1>4, <1>9 DEF SetDone, Command
    <2>2. /\ e \in Entry /\ Loaded(t).state = "Unchanged" /\ Loaded(t).done = rows[t].done
          /\ Loaded(t) \in Entry
      <3>1. Loaded(t) \in Entry
        BY <1>1, <1>3, <2>1, EntryTypes DEF TypeInv
      <3> QED BY <1>3, <2>1, <3>1 DEF Loaded
    <2>3. \/ Reply(r, "NotFound", {}, entries[r], audits[r])
          \/ e.done /\ Reply(r, "Conflict", {}, [entries[r] EXCEPT ![t] = e], audits[r])
          \/ Stage(r, t, Finished(e))
      BY <1>9 DEF SetDone
    <2>4. /\ e.state = "Modified" => e.event /\ Failed(r, t)
          /\ e.state = "Unchanged" /\ e.done => rows'[t].done
          /\ e.done => rows'[t].done \/ Failed(r, t)
      <3>1. Sound(entries[r][t], r, rows[t], t \in issued, published[t])
        BY <2>1 DEF IInv, TrackerInv
      <3>2. entries[r][t].state \in {"Detached", "Added", "Unchanged", "Modified"}
        BY <1>3, <2>1 DEF Entry
      <3> QED BY <1>1, <1>5, <2>1, <2>2, <3>1, <3>2 DEF Sound
    <2> HIDE DEF e
    <2>5. CASE e.done /\ Reply(r, "Conflict", {}, [entries[r] EXCEPT ![t] = e], audits[r])
      <3> DEFINE es == [entries[r] EXCEPT ![t] = e]
      <3>1. \A u \in TodoIds :
              /\ es[u].state = "Modified" => es[u].event /\ Failed(r, u)
              /\ es[u].state = "Unchanged" /\ es[u].done => rows'[u].done
        <4>1. \A u \in TodoIds : es[u] = IF u = t THEN e ELSE entries[r][u]
          BY <1>3, <2>1
        <4> HIDE DEF es
        <4> QED BY <1>5, <2>4, <4>1
      <3>2. Reply(r, "Conflict", {}, es, audits[r])
        BY <2>5
      <3> HIDE DEF es
      <3> QED BY <1>1, <1>2, <1>6, <2>1, <2>4, <2>5, <3>1, <3>2, ReplyEvents
    <2>6. CASE Stage(r, t, Finished(e))
      <3>1. /\ Finished(e) \in Entry /\ Finished(e).state = "Modified" /\ Finished(e).event
        BY <2>2 DEF Entry, Finished
      <3> QED BY <1>1, <1>2, <2>1, <2>6, <3>1, EventsStage
    <2> QED BY <1>7, <2>3, <2>5, <2>6
  <1>10. CASE Get(r) \/ GetAll(r)
    BY <1>7, <1>10 DEF Get, GetAll
  <1> QED BY <1>8, <1>9, <1>10 DEF Handle

\* A commit closes rows that nothing was published or heard of.
LEMMA CommitEvents ==
  ASSUME IInv, HeardInv, NEW r \in Requests, EventsInv(r), CanCommit(r), Write(r)
  PROVE  /\ RowsStay
         /\ \A t \in TodoIds : entries[r][t].state = "Modified" => rows'[t].done
         /\ \A t \in TodoIds : rows'[t].stamp = r =>
               /\ rows[t].stamp = r \/ (entries[r][t].state = "Modified" /\ entries[r][t].event)
               /\ caller[r].host = "Api" => heard[t] = published[t]
         /\ \A q \in Requests \ {r}, t \in TodoIds : rows'[t].stamp = q => rows'[t] = rows[t]
  <1>1. RowsStay
    BY CommitFate
  <1>2. ASSUME NEW t \in TodoIds
        PROVE  /\ entries[r][t].state = "Modified" => rows'[t].done
               /\ rows'[t].stamp = r =>
                     /\ rows[t].stamp = r \/ (entries[r][t].state = "Modified" /\ entries[r][t].event)
                     /\ caller[r].host = "Api" => heard[t] = published[t]
               /\ \A q \in Requests \ {r} : rows'[t].stamp = q => rows'[t] = rows[t]
    <2>1. Kept(r, t) \/ Born(r, t) \/ Closed(r, t)
      BY WriteRows
    <2>2. /\ entries[r][t].state = "Modified" => entries[r][t].event
          /\ rows[t].stamp = r /\ caller[r].host = "Api" => heard[t] = published[t]
      BY DEF EventsInv, Changes, Change, Hears
    <2>3. /\ heard[t] <= published[t] /\ heard[t] \in Nat /\ published[t] \in Nat
          /\ published[t] <= 1 /\ (published[t] = 1 => rows[t].done)
          /\ rows[t].done <=> rows[t].stamp # Nobody
      BY DEF HeardInv, IInv, EventAtMostOnce, RowsInv, TypeInv, TypeOK
    <2>4. CASE Kept(r, t)
      BY <2>2, <2>4 DEF Kept
    <2>5. CASE Born(r, t)
      BY <2>5, NullsDiffer DEF Born
    <2>6. CASE Closed(r, t)
      <3>1. ~rows[t].done /\ rows'[t].done /\ rows'[t].stamp = r /\ entries[r][t].state = "Modified"
        BY <2>3, <2>6 DEF Closed
      <3>2. heard[t] = 0 /\ published[t] = 0
        BY <2>3, <3>1
      <3> QED BY <2>2, <3>1, <3>2
    <2> QED BY <2>1, <2>4, <2>5, <2>6
  <1> QED BY <1>1, <1>2

\* A save that is answered at once is answered with an error; one that is not
\* has put every event it owes in the queue.
LEMMA EventsSave ==
  ASSUME IInv, CInv, HeardInv, NEW r \in Requests, EventsInv(r),
         Save(r) \/ SaveRejected(r) \/ SaveFails(r) \/ SaveUnacknowledged(r)
  PROVE  EventsInv(r)'
  <1>1. /\ pc[r] = "save" /\ InProgress(r) /\ TypeInv /\ target[r] \in TodoIds
        /\ published' = published /\ heard' = heard /\ UNCHANGED events
    BY DEF Save, SaveRejected, SaveFails, SaveUnacknowledged, InProgress, IInv, TypeInv,
           Positioned, events
  <1>2. entries[r] \in [TodoIds -> Entry] /\ queue[r] = {}
    BY <1>1 DEF IInv, QueueInv, TypeInv, TypeOK
  <1>3. Current(r).op = "SetDone" => target[r] = Current(r).id
    BY <1>1 DEF CInv, LocalInv, Aims
  <1>4. \A t \in TodoIds :
            /\ entries[r][t].state = "Modified" =>
                  /\ entries[r][t].event
                  /\ Failed(r, t) \/ (Current(r).op = "SetDone" /\ Current(r).id = t)
            /\ entries[r][t].state = "Unchanged" /\ entries[r][t].done => rows[t].done
    BY <1>3 DEF EventsInv, Changes, Change
  <1>5. CASE SaveRejected(r) \/ SaveFails(r)
    <2>1. /\ UNCHANGED rows /\ RowsStay /\ queue'[r] = {}
          /\ Reply(r, "Error", {}, entries[r], Intercepted(r))
      BY <1>2, <1>5 DEF SaveRejected, SaveFails, database, RowsStay
    <2>2. \A t \in TodoIds : rows'[t].stamp = r /\ caller[r].host = "Api" => heard[t] = published[t]
      BY <2>1 DEF EventsInv, Hears
    <2> QED BY <1>1, <1>4, <2>1, <2>2, ReplyEvents
  <1>6. CASE SaveUnacknowledged(r)
    <2>1. /\ CanCommit(r) /\ Write(r) /\ queue'[r] = {}
          /\ Reply(r, "Error", {}, entries[r], Intercepted(r))
      BY <1>2, <1>6 DEF SaveUnacknowledged
    <2>2. /\ RowsStay
          /\ \A t \in TodoIds : rows'[t].stamp = r /\ caller[r].host = "Api" =>
                heard[t] = published[t]
      BY <2>1, CommitEvents
    <2>3. \A t \in TodoIds : rows[t].done => rows'[t].done
      BY <2>2, DoneStays
    <2> QED BY <1>1, <1>4, <2>1, <2>2, <2>3, ReplyEvents
  <1>7. CASE Save(r)
    <2>1. CanCommit(r) /\ Write(r)
      BY <1>7 DEF Save
    <2>2. /\ pc'[r] = "dispatch" /\ entries'[r] = Accepted(r)
          /\ queue'[r] = {t \in TodoIds : entries[r][t].event}
          /\ caller' = caller /\ script' = script /\ answers' = answers /\ target' = target
      BY <1>1, <1>7 DEF Save, TypeInv, TypeOK
    <2>3. /\ RowsStay
          /\ \A t \in TodoIds : entries[r][t].state = "Modified" => rows'[t].done
          /\ \A t \in TodoIds : rows'[t].stamp = r =>
                /\ rows[t].stamp = r \/ (entries[r][t].state = "Modified" /\ entries[r][t].event)
                /\ caller[r].host = "Api" => heard[t] = published[t]
      BY <2>1, CommitEvents
    <2>4. \A t \in TodoIds : rows[t].done => rows'[t].done
      BY <2>3, DoneStays
    <2>5. /\ Stumbled(r)' <=> Stumbled(r)
          /\ \A t \in TodoIds : Won(r, t)' <=> Won(r, t)
          /\ Current(r)' = Current(r)
      BY <2>2, SameAnswers
    <2>6. Changes(r)'
      <3> SUFFICES ASSUME NEW t \in TodoIds PROVE Change(entries[r][t], r, t, rows[t])'
        BY DEF Changes
      <3>1. /\ entries[r][t].state = "Detached" => entries'[r][t].state = "Detached"
            /\ entries[r][t].state # "Detached" =>
                  entries'[r][t].state = "Unchanged" /\ entries'[r][t].done = entries[r][t].done
        BY <2>2 DEF Accepted, InState
      <3>2. entries[r][t].state = "Added" => ~entries[r][t].done
        BY DEF IInv, TrackerInv, Sound
      <3>3. entries[r][t].state \in {"Detached", "Added", "Unchanged", "Modified"}
        BY <1>2 DEF Entry
      <3> QED BY <1>4, <2>3, <2>4, <3>1, <3>2, <3>3 DEF Change
    <2>7. Losses(r)'
      <3>1. \A t \in TodoIds : rows[t].stamp = r /\ published[t] = 0 => Stumbled(r)
        BY <1>1, <1>2 DEF EventsInv, Losses
      <3> QED BY <1>1, <2>2, <2>3, <2>5, <3>1 DEF Losses
    <2>8. Announces(r)'
      <3>1. Current(r).op = "SetDone" => target[r] \in queue'[r]
        <4>1. Current(r).op = "SetDone" => entries[r][target[r]].state = "Modified"
          BY <1>1 DEF CInv, LocalInv, Aims
        <4> QED BY <1>1, <1>4, <2>2, <4>1
      <3> QED BY <1>1, <2>2, <2>5, <3>1 DEF EventsInv, Announces
    <2>9. Hears(r)'
      BY <1>1, <2>2, <2>3 DEF Hears
    <2>10. Causes(r)'
      BY <2>2, <2>4, CausesStay DEF EventsInv
    <2> QED BY <2>6, <2>7, <2>8, <2>9, <2>10 DEF EventsInv
  <1> QED BY <1>5, <1>6, <1>7

\* Only the request that finished a todo publishes its event, once.
LEMMA PublishOwn ==
  ASSUME IInv, NEW r \in Requests, NEW t \in TodoIds, Publish(r, t)
  PROVE  /\ rows[t].stamp = r /\ published[t] = 0 /\ published'[t] = 1
         /\ heard'[t] = heard[t] + (IF caller[r].host = "Api" THEN 1 ELSE 0)
         /\ \A u \in TodoIds \ {t} : published'[u] = published[u] /\ heard'[u] = heard[u]
  <1>1. /\ entries[r][t].event /\ entries[r][t].state = "Unchanged"
        /\ Sound(entries[r][t], r, rows[t], t \in issued, published[t])
    BY DEF Publish, IInv, QueueInv, TrackerInv
  <1>2. published \in [TodoIds -> Nat] /\ heard \in [TodoIds -> Nat]
    BY DEF IInv, TypeInv, TypeOK
  <1> QED BY <1>1, <1>2 DEF Publish, Handled, Sound

\* What the dispatcher clears of a tracker: the event of an entity that is saved.
LEMMA ClearedKeeps ==
  ASSUME IInv, NEW r \in Requests, NEW t \in TodoIds, t \in queue[r]
  PROVE  \A u \in TodoIds :
            /\ Cleared(r, t)[u].state = entries[r][u].state
            /\ Cleared(r, t)[u].done = entries[r][u].done
            /\ entries[r][u].state = "Modified" => Cleared(r, t)[u].event = entries[r][u].event
  <1>1. entries[r] \in [TodoIds -> Entry] /\ entries[r][t].state = "Unchanged"
    BY DEF IInv, QueueInv, TypeInv, TypeOK
  <1> QED BY <1>1 DEF Cleared

\* The dispatcher answers when every event it owes is out, or with an error.
LEMMA EventsDispatch ==
  ASSUME IInv, CInv, NEW r \in Requests, EventsInv(r), Dispatch(r)
  PROVE  EventsInv(r)'
  <1>1. /\ pc[r] = "dispatch" /\ InProgress(r) /\ TypeInv /\ target[r] \in TodoIds
        /\ UNCHANGED rows /\ RowsStay
    BY DEF Dispatch, Publish, PublishThrows, Return, InProgress, IInv, TypeInv, Positioned,
           database, RowsStay
  <1>2. /\ \A t \in TodoIds : entries[r][t].state = "Modified" =>
               entries[r][t].event /\ Failed(r, t)
        /\ \A t \in TodoIds : entries[r][t].state = "Unchanged" /\ entries[r][t].done => rows'[t].done
        /\ \A t \in TodoIds : rows'[t].stamp = r =>
              /\ published[t] = 0 => t \in queue[r] \/ Stumbled(r)
              /\ caller[r].host = "Api" => heard[t] = published[t]
    BY <1>1 DEF EventsInv, Changes, Change, Losses, Hears
  <1>3. ASSUME NEW t \in TodoIds, Publish(r, t) PROVE EventsInv(r)'
    <2>1. /\ caller' = caller /\ script' = script /\ answers' = answers /\ target' = target
          /\ pc' = pc /\ entries'[r] = Cleared(r, t) /\ queue'[r] = queue[r] \ {t}
          /\ t \in queue[r]
      BY <1>1, <1>3 DEF Publish, TypeInv, TypeOK
    <2>2. /\ rows[t].stamp = r /\ published[t] = 0 /\ published'[t] = 1
          /\ heard'[t] = heard[t] + (IF caller[r].host = "Api" THEN 1 ELSE 0)
          /\ \A u \in TodoIds \ {t} : published'[u] = published[u] /\ heard'[u] = heard[u]
      BY <1>3, PublishOwn
    <2>3. /\ \A u \in TodoIds : Failed(r, u)' <=> Failed(r, u)
          /\ Stumbled(r)' <=> Stumbled(r)
          /\ \A u \in TodoIds : Won(r, u)' <=> Won(r, u)
          /\ Current(r)' = Current(r)
      BY <2>1, SameAnswers
    <2>4. Changes(r)'
      <3>1. \A u \in TodoIds :
              /\ entries'[r][u].state = entries[r][u].state
              /\ entries'[r][u].done = entries[r][u].done
              /\ entries[r][u].state = "Modified" => entries'[r][u].event = entries[r][u].event
        BY <2>1, ClearedKeeps
      <3> QED BY <1>2, <2>3, <3>1 DEF Changes, Change
    <2>5. Losses(r)'
      BY <1>1, <1>2, <2>1, <2>2, <2>3 DEF Losses
    <2>6. Announces(r)'
      BY <1>1, <2>1, <2>2, <2>3 DEF EventsInv, Announces
    <2>7. Hears(r)'
      <3>1. caller[r].host = "Api" => heard[t] = published[t]
        BY <1>1, <1>2, <2>2
      <3>2. caller[r].host = "Api" => heard'[t] = published'[t]
        BY <2>2, <3>1
      <3> QED BY <1>1, <1>2, <2>1, <2>2, <3>2 DEF Hears
    <2>8. Causes(r)'
      BY <1>1, <2>1, CausesStay DEF EventsInv
    <2> QED BY <2>4, <2>5, <2>6, <2>7, <2>8 DEF EventsInv
  <1>4. ASSUME NEW t \in TodoIds, PublishThrows(r, t) PROVE EventsInv(r)'
    <2> DEFINE es == Cleared(r, t)
    <2>1. /\ Reply(r, "Error", {}, es, audits[r]) /\ queue'[r] = {} /\ t \in queue[r]
          /\ UNCHANGED events
      BY <1>1, <1>4 DEF PublishThrows, TypeInv, TypeOK
    <2>2. \A u \in TodoIds :
            /\ es[u].state = entries[r][u].state /\ es[u].done = entries[r][u].done
            /\ entries[r][u].state = "Modified" => es[u].event = entries[r][u].event
      BY <2>1, ClearedKeeps
    <2> HIDE DEF es
    <2>3. \A u \in TodoIds :
            /\ es[u].state = "Modified" => es[u].event /\ Failed(r, u)
            /\ es[u].state = "Unchanged" /\ es[u].done => rows'[u].done
      BY <1>2, <2>2
    <2> QED BY <1>1, <1>2, <2>1, <2>3, ReplyEvents
  <1>5. CASE Return(r)
    <2>1. /\ Reply(r, "Ok", {target[r]}, entries[r], audits[r]) /\ queue[r] = {} /\ queue'[r] = {}
          /\ UNCHANGED events
      BY <1>5 DEF Return
    <2>2. Current(r).op = "SetDone" => target[r] = Current(r).id /\ published[target[r]] = 1
      BY <1>1, <2>1 DEF EventsInv, Announces, CInv, LocalInv, Aims
    <2> QED BY <1>1, <1>2, <2>1, <2>2, ReplyEvents
  <1> QED BY <1>3, <1>4, <1>5 DEF Dispatch

-----------------------------------------------------------------------------
(* The invariant *)

\* A step of one request changes no queue but its own, and no event count but
\* those of todos that it has finished.
LEMMA EventsAlone ==
  ASSUME IInv, NEW w \in Requests, Acts(w)
  PROVE  /\ \A r \in Requests \ {w} : queue'[r] = queue[r]
         /\ \/ UNCHANGED <<published, heard>>
            \/ \E t \in TodoIds : Publish(w, t)
  <1>1. queue \in [Requests -> SUBSET TodoIds]
    BY DEF IInv, TypeInv, TypeOK
  <1>2. ASSUME NEW t \in TodoIds, Publish(w, t)
        PROVE  \A r \in Requests \ {w} : queue'[r] = queue[r]
    BY <1>1, <1>2 DEF Publish
  <1>3. ASSUME NEW t \in TodoIds, PublishThrows(w, t)
        PROVE  /\ \A r \in Requests \ {w} : queue'[r] = queue[r]
               /\ UNCHANGED <<published, heard>>
    BY <1>1, <1>3 DEF PublishThrows, events
  <1>4. CASE Save(w)
    BY <1>1, <1>4 DEF Save, events
  <1>5. CASE Arrive(w) \/ Handle(w) \/ SaveRejected(w) \/ SaveFails(w) \/ SaveUnacknowledged(w)
             \/ Return(w) \/ Abort(w)
    <2>1. UNCHANGED queue /\ UNCHANGED <<published, heard>>
      BY <1>5 DEF Arrive, Handle, Create, SetDone, Get, GetAll, SaveRejected, SaveFails,
                  SaveUnacknowledged, Return, Abort, scope, events
    <2> QED BY <2>1
  <1> QED BY <1>2, <1>3, <1>4, <1>5 DEF Acts, Dispatch

\* Every step keeps the invariant.
LEMMA NextEInv ==
  ASSUME IInv, CInv, EInv, [Next]_vars
  PROVE  EInv'
  <1>1. TypeInv /\ HeardInv /\ \A r \in Requests : EventsInv(r)
    BY DEF IInv, EInv
  <1>2. ASSUME NEW w \in Requests, Acts(w) PROVE EInv'
    <2>1. /\ \A r \in Requests \ {w} : Apart(r) /\ queue'[r] = queue[r]
          /\ UNCHANGED rows \/ (CanCommit(w) /\ Write(w))
      BY <1>1, <1>2, ActsAlone, EventsAlone
    <2>2. /\ RowsStay
          /\ \A r \in Requests \ {w}, t \in TodoIds : rows'[t].stamp = r => rows'[t] = rows[t]
      BY <1>1, <2>1, CommitEvents DEF RowsStay
    <2>3. /\ HeardInv'
          /\ \A r \in Requests \ {w}, t \in TodoIds : rows[t].stamp = r =>
                published'[t] = published[t] /\ heard'[t] = heard[t]
      <3>1. CASE UNCHANGED <<published, heard>>
        BY <1>1, <3>1 DEF HeardInv
      <3>2. ASSUME NEW t \in TodoIds, Publish(w, t)
            PROVE  /\ HeardInv'
                   /\ \A r \in Requests \ {w}, u \in TodoIds : rows[u].stamp = r =>
                         published'[u] = published[u] /\ heard'[u] = heard[u]
        <4>1. /\ rows[t].stamp = w /\ published[t] = 0 /\ published'[t] = 1
              /\ heard'[t] = heard[t] + (IF caller[w].host = "Api" THEN 1 ELSE 0)
              /\ \A u \in TodoIds \ {t} : published'[u] = published[u] /\ heard'[u] = heard[u]
          BY <3>2, PublishOwn
        <4>2. heard[t] \in Nat /\ heard[t] <= published[t]
          BY <1>1 DEF HeardInv, TypeInv, TypeOK
        <4>3. heard'[t] <= published'[t]
          BY <4>1, <4>2
        <4> QED BY <1>1, <4>1, <4>3 DEF HeardInv
      <3> QED BY <1>2, <3>1, <3>2, EventsAlone
    <2>4. EventsInv(w)'
      <3>1. CASE Abort(w)
        <4>1. /\ InProgress(w) /\ pc'[w] = "over" /\ entries'[w] = EmptyTracker
              /\ UNCHANGED <<rows, published, heard>>
              /\ caller'[w] = caller[w] /\ script'[w] = script[w] /\ answers'[w] = answers[w]
          BY <1>1, <3>1 DEF Abort, InProgress, database, events, TypeInv, TypeOK
        <4> QED BY <1>1, <4>1, EventsGone
      <3> QED BY <1>1, <1>2, <3>1, EventsArrive, EventsHandle, EventsSave, EventsDispatch DEF Acts
    <2>5. ASSUME NEW r \in Requests \ {w} PROVE EventsInv(r)'
      BY <1>1, <2>1, <2>2, <2>3, EventsBystander
    <2> QED BY <2>3, <2>4, <2>5 DEF EInv
  <1>3. UNCHANGED <<rows, published, heard>> =>
            /\ HeardInv' /\ RowsStay
            /\ \A r \in Requests : Apart(r) /\ queue'[r] = queue[r] => EventsInv(r)'
    BY <1>1, EventsBystander DEF HeardInv, RowsStay
  <1>4. ASSUME NEW h \in Hosts, Crash(h) PROVE EInv'
    <2>1. /\ UNCHANGED <<rows, published, heard>>
          /\ \A r \in Requests :
               \/ Apart(r) /\ queue'[r] = queue[r]
               \/ /\ InProgress(r) /\ pc'[r] = "over" /\ entries'[r] = EmptyTracker
                  /\ caller'[r] = caller[r] /\ script'[r] = script[r] /\ answers'[r] = answers[r]
      BY <1>4 DEF Crash, database, events, Apart
    <2> QED BY <1>1, <1>3, <2>1, EventsGone DEF EInv
  <1>5. CASE UNCHANGED vars
    <2>1. /\ UNCHANGED <<rows, published, heard>>
          /\ \A r \in Requests : Apart(r) /\ queue'[r] = queue[r]
      BY <1>5 DEF vars, Apart
    <2> QED BY <1>3, <2>1 DEF EInv
  <1> QED BY <1>2, <1>4, <1>5 DEF Next, Progress, Acts

\* It holds before the first request.
LEMMA InitEInv == Init => EInv
  <1> SUFFICES ASSUME Init PROVE EInv
    OBVIOUS
  <1>1. \A t \in TodoIds : rows[t].stamp = Nobody
    BY InitRows
  <1>2. \A r \in Requests, t \in TodoIds : entries[r][t].state = "Detached"
    BY DEF Init, EmptyTracker, Untracked
  <1>3. \A r \in Requests : pc[r] = "idle" /\ DOMAIN answers[r] = {}
    <2>1. \A r \in Requests : pc[r] = "idle" /\ answers[r] = <<>>
      BY DEF Init
    <2>2. DOMAIN <<>> = {}
      OBVIOUS
    <2> QED BY <2>1, <2>2, Zenon
  <1>4. ASSUME NEW r \in Requests PROVE EventsInv(r)
    <2>1. Changes(r)
      BY <1>2 DEF Changes, Change
    <2>2. Losses(r) /\ Hears(r)
      BY <1>1, NullsDiffer DEF Losses, Hears
    <2>3. Announces(r) /\ Causes(r)
      BY <1>3 DEF Announces, Won, Causes
    <2> QED BY <2>1, <2>2, <2>3 DEF EventsInv
  <1>5. HeardInv
    BY DEF Init, HeardInv
  <1> QED BY <1>4, <1>5 DEF EInv

\* Every behaviour keeps rows, events, trackers and answers in step.
THEOREM EventsInvariant == Spec => []EInv
  <1>1. IInv /\ CInv /\ EInv /\ [Next]_vars => EInv'
    BY NextEInv
  <1> QED BY <1>1, InitEInv, Invariant, ClientsInvariant, PTL DEF Spec

\* A client that is told it finished a todo is told so after the event is out
\* and, on the Api, after the Heart module has it.
THEOREM AnnouncementsComeFirst == Spec => []AnnouncedBeforeAnswer
  <1>1. IInv /\ CInv /\ EInv => AnnouncedBeforeAnswer
    <2> SUFFICES ASSUME IInv, CInv, EInv, NEW r \in Requests, NEW a \in AnswersOf(r),
                        a.command.op = "SetDone", a.result = "Ok"
                 PROVE  /\ published[a.command.id] = 1
                        /\ caller[r].host = "Api" => heard[a.command.id] = 1
      BY DEF AnnouncedBeforeAnswer
    <2>1. PICK i \in DOMAIN answers[r] : answers[r][i] = a /\ a \in Answer
      BY AnswerAt DEF IInv
    <2>2. a.command.id \in TodoIds
      BY <2>1 DEF Answer, Command
    <2>3. Won(r, a.command.id)
      BY <2>1 DEF Won, Finishes
    <2>4. rows[a.command.id].stamp = r
      BY <2>2, <2>3 DEF CInv, LocalInv, Wins
    <2> QED BY <2>2, <2>3, <2>4 DEF EInv, EventsInv, Announces, Hears
  <1> QED BY <1>1, Invariant, ClientsInvariant, EventsInvariant, PTL

\* The event of a todo that is done waits in the queue of the request that
\* finished it, is out, or is lost with an error or an answer that never came.
THEOREM LossesAreNoticed == Spec => []LossIsNoticed
  <1>1. IInv /\ EInv => LossIsNoticed
    <2> SUFFICES ASSUME IInv, EInv, NEW t \in TodoIds, NEW r \in Requests,
                        rows[t].stamp = r, published[t] = 0
                 PROVE  t \in queue[r] \/ Doubtful(r)
      BY DEF LossIsNoticed
    <2>1. Stumbled(r) => \E a \in AnswersOf(r) : a.result = "Error"
      <3>1. answers[r] \in Seq(Answer)
        BY DEF IInv, TypeInv, TypeOK
      <3>2. DOMAIN answers[r] = 1..Len(answers[r])
        BY <3>1
      <3> QED BY <3>2 DEF Stumbled, AnswersOf
    <2> QED BY <2>1 DEF EInv, EventsInv, Losses, Doubtful
  <1> QED BY <1>1, Invariant, EventsInvariant, PTL

\* A todo is refused as done only if it is, or if an earlier command of the same
\* request failed to finish it.
THEOREM ConflictsAreCaused == Spec => []ConflictHasCause
  <1>1. IInv /\ EInv => ConflictHasCause
    <2> SUFFICES ASSUME IInv, EInv, NEW r \in Requests, NEW i \in DOMAIN answers[r],
                        answers[r][i].result = "Conflict", ~rows[answers[r][i].command.id].done
                 PROVE  \E j \in 1..(i - 1) : /\ answers[r][j].command = answers[r][i].command
                                              /\ answers[r][j].result = "Error"
      BY DEF ConflictHasCause
    <2>1. answers[r] \in Seq(Answer) /\ DOMAIN answers[r] = 1..Len(answers[r])
      <3>1. answers[r] \in Seq(Answer)
        BY DEF IInv, TypeInv, TypeOK
      <3> QED BY <3>1
    <2>2. answers[r][i].command.op = "SetDone"
      BY DEF EInv, EventsInv, Causes
    <2>3. PICK j \in 1..(i - 1) : Attempt(answers[r][j], answers[r][i].command.id)
      BY DEF EInv, EventsInv, Causes
    <2>4. j \in DOMAIN answers[r]
      BY <2>1
    <2>5. answers[r][j].command \in Command /\ answers[r][i].command \in Command
      <3>1. answers[r][j] \in Answer /\ answers[r][i] \in Answer
        BY <2>1, <2>4
      <3> QED BY <3>1 DEF Answer
    <2>6. answers[r][j].command = answers[r][i].command
      BY <2>2, <2>3, <2>5 DEF Attempt, Command
    <2> QED BY <2>3, <2>6 DEF Attempt
  <1> QED BY <1>1, Invariant, EventsInvariant, PTL
==============================================================================
