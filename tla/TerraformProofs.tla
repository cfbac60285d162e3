--------------------------- MODULE TerraformProofs ---------------------------
(***************************************************************************)
(* Theorems of Terraform, for any number of calls that overlap, any size   *)
(* of a pipe and any output.                                               *)
(*                                                                         *)
(* What a call reports is right because of where it stands: PlaceInv says  *)
(* what a call knows at each place, and that a process that has exited     *)
(* writes no more, so that an empty pipe stays empty.                      *)
(***************************************************************************)
EXTENDS Terraform, TLAPS

\* Before its process starts there is nothing to read, while it reads the
\* process has exited, and only a call that has read everything has an outcome.
PlaceInv ==
    \A c \in Calls :
        /\ pc[c] \in {"idle", "start"} => process[c] = "none" /\ buffered[c] = None
        /\ pc[c] = "wait" => process[c] # "none"
        /\ pc[c] = "read" => Exited(c)
        /\ pc[c] \in {"idle", "start", "wait", "read"} => outcome[c] = "none"
        /\ process[c] # "running" => unwritten[c] = None

TInv == TypeOK /\ PlaceInv /\ StateHasCause /\ OutcomeIsExit

-----------------------------------------------------------------------------
(* Each step keeps the invariant *)

\* Nothing has run yet.
LEMMA InitTInv == Init => TInv
  BY TerraformAssumption
  DEF Init, TInv, TypeOK, PlaceInv, StateHasCause, OutcomeIsExit, None, Exited, Executing,
      TerraformAssumption

\* A command that starts, be there a program or not.
LEMMA StartTInv ==
  ASSUME TInv, NEW c \in Calls, Execute(c) \/ Start(c) \/ StartThrows(c)
  PROVE  TInv'
  <1>1. CASE Execute(c)
    <2>1. TypeOK'
      BY <1>1 DEF Execute, TInv, TypeOK
    <2>2. PlaceInv' /\ OutcomeIsExit'
      BY <1>1 DEF Execute, TInv, TypeOK, PlaceInv, OutcomeIsExit, Exited
    <2>3. StateHasCause'
      <3>1. pc'[c] = "start" /\ state' = "Running"
        BY <1>1 DEF Execute, TInv, TypeOK
      <3> QED BY <3>1 DEF StateHasCause, Executing
    <2> QED BY <2>1, <2>2, <2>3 DEF TInv
  <1>2. CASE Start(c)
    <2>1. PICK output \in [Streams -> 0..MaxOutput] :
              unwritten' = [unwritten EXCEPT ![c] = output]
      BY <1>2 DEF Start
    <2>2. TypeOK'
      BY <1>2, <2>1 DEF Start, TInv, TypeOK
    <2>3. PlaceInv' /\ OutcomeIsExit'
      BY <1>2, <2>1 DEF Start, TInv, TypeOK, PlaceInv, OutcomeIsExit, Exited
    <2>4. StateHasCause'
      BY <1>2 DEF Start, TInv, TypeOK, StateHasCause, Executing
    <2> QED BY <2>2, <2>3, <2>4 DEF TInv
  <1>3. CASE StartThrows(c)
    <2>1. TypeOK'
      BY <1>3, TerraformAssumption DEF StartThrows, TInv, TypeOK, TerraformAssumption
    <2>2. PlaceInv' /\ OutcomeIsExit'
      BY <1>3 DEF StartThrows, TInv, TypeOK, PlaceInv, OutcomeIsExit, Exited
    <2>3. StateHasCause'
      BY <1>3 DEF StartThrows, TInv, TypeOK, StateHasCause, Executing
    <2> QED BY <2>1, <2>2, <2>3 DEF TInv
  <1> QED BY <1>1, <1>2, <1>3

\* A call that goes on, or is cancelled, while it waits for its process.
LEMMA WaitTInv ==
  ASSUME TInv, NEW c \in Calls, Waited(c) \/ Cancelled(c)
  PROVE  TInv'
  <1>1. CASE Waited(c)
    <2>1. TypeOK'
      BY <1>1 DEF Waited, TInv, TypeOK
    <2>2. PlaceInv' /\ OutcomeIsExit'
      BY <1>1 DEF Waited, TInv, TypeOK, PlaceInv, OutcomeIsExit, Exited
    <2>3. StateHasCause'
      BY <1>1 DEF Waited, TInv, TypeOK, StateHasCause, Executing
    <2> QED BY <2>1, <2>2, <2>3 DEF TInv
  <1>2. CASE Cancelled(c)
    <2>1. TypeOK'
      BY <1>2, TerraformAssumption DEF Cancelled, TInv, TypeOK, TerraformAssumption
    <2>2. PlaceInv' /\ OutcomeIsExit'
      BY <1>2 DEF Cancelled, TInv, TypeOK, PlaceInv, OutcomeIsExit, Exited
    <2>3. StateHasCause'
      BY <1>2 DEF Cancelled, TInv, TypeOK, StateHasCause, Executing
    <2> QED BY <2>1, <2>2, <2>3 DEF TInv
  <1> QED BY <1>1, <1>2

\* A call that has read everything, and the end of a call.
LEMMA EndTInv ==
  ASSUME TInv, NEW c \in Calls, Report(c) \/ Finally(c)
  PROVE  TInv'
  <1>1. CASE Report(c)
    <2>1. TypeOK'
      BY <1>1 DEF Report, TInv, TypeOK
    <2>2. Exited(c) /\ unwritten[c] = None /\ buffered[c] = None
      BY <1>1 DEF Report, TInv, PlaceInv, Exited
    <2>3. PlaceInv' /\ OutcomeIsExit'
      BY <1>1, <2>2 DEF Report, TInv, TypeOK, PlaceInv, OutcomeIsExit, Exited
    <2>4. StateHasCause'
      BY <1>1 DEF Report, TInv, TypeOK, StateHasCause, Executing
    <2> QED BY <2>1, <2>3, <2>4 DEF TInv
  <1>2. CASE Finally(c)
    <2>1. TypeOK'
      BY <1>2 DEF Finally, TInv, TypeOK
    <2>2. PlaceInv' /\ OutcomeIsExit'
      BY <1>2 DEF Finally, TInv, TypeOK, PlaceInv, OutcomeIsExit, Exited
    <2>3. StateHasCause'
      <3>1. ASSUME NEW d \in Calls, Executing(d)' PROVE d \in overtaken'
        BY <1>2, <3>1 DEF Finally, TInv, TypeOK, Executing
      <3>2. state' = "Finished"
        BY <1>2 DEF Finally
      <3> QED BY <3>1, <3>2 DEF StateHasCause
    <2> QED BY <2>1, <2>2, <2>3 DEF TInv
  <1> QED BY <1>1, <1>2

\* A program that writes or exits, and a read.
LEMMA ProcessTInv ==
  ASSUME TInv, NEW c \in Calls,
         Exit(c) \/ \E s \in Streams : Write(c, s) \/ Read(c, s)
  PROVE  TInv'
  <1>1. CASE Exit(c)
    <2>1. TypeOK'
      BY <1>1 DEF Exit, TInv, TypeOK
    <2>2. PlaceInv' /\ OutcomeIsExit'
      BY <1>1 DEF Exit, TInv, TypeOK, PlaceInv, OutcomeIsExit, Exited
    <2>3. StateHasCause'
      BY <1>1 DEF Exit, TInv, StateHasCause, Executing
    <2> QED BY <2>1, <2>2, <2>3 DEF TInv
  <1>2. ASSUME NEW s \in Streams, Write(c, s) PROVE TInv'
    <2>1. TypeOK'
      BY <1>2, TerraformAssumption DEF Write, TInv, TypeOK, TerraformAssumption
    <2>2. PlaceInv' /\ OutcomeIsExit'
      <3>1. /\ process' = process /\ pc' = pc /\ outcome' = outcome
            /\ \A d \in Calls \ {c} : unwritten'[d] = unwritten[d] /\ buffered'[d] = buffered[d]
            /\ process[c] = "running"
        BY <1>2 DEF Write, TInv, TypeOK
      <3> QED BY <3>1 DEF TInv, PlaceInv, OutcomeIsExit, Exited
    <2>3. StateHasCause'
      BY <1>2 DEF Write, TInv, StateHasCause, Executing
    <2> QED BY <2>1, <2>2, <2>3 DEF TInv
  <1>3. ASSUME NEW s \in Streams, Read(c, s) PROVE TInv'
    <2>1. TypeOK'
      BY <1>3, TerraformAssumption DEF Read, TInv, TypeOK, TerraformAssumption
    <2>2. PlaceInv' /\ OutcomeIsExit'
      <3>1. /\ UNCHANGED <<process, pc, outcome, unwritten>>
            /\ \A d \in Calls \ {c} : buffered'[d] = buffered[d]
        BY <1>3 DEF Read, TInv, TypeOK
      <3>2. buffered[c] # None
        BY <1>3 DEF Read, None
      <3> QED BY <3>1, <3>2 DEF TInv, PlaceInv, OutcomeIsExit, Exited
    <2>3. StateHasCause'
      BY <1>3 DEF Read, TInv, StateHasCause, Executing
    <2> QED BY <2>1, <2>2, <2>3 DEF TInv
  <1> QED BY <1>1, <1>2, <1>3

-----------------------------------------------------------------------------
(* Theorems *)

\* However many calls overlap, fail or are cancelled, TInv holds throughout.
THEOREM Invariant == Spec => []TInv
  <1>1. TInv /\ UNCHANGED vars => TInv'
    BY DEF vars, TInv, TypeOK, PlaceInv, StateHasCause, OutcomeIsExit, Exited, Executing
  <1>2. TInv /\ [Next]_vars => TInv'
    BY <1>1, StartTInv, WaitTInv, EndTInv, ProcessTInv DEF Next, Call
  <1> QED BY <1>2, InitTInv, PTL DEF Spec

\* Every variable keeps its shape; no pipe holds more than it can.
THEOREM TypeCorrect == Spec => []TypeOK
  <1>1. TInv => TypeOK
    BY DEF TInv
  <1> QED BY <1>1, Invariant, PTL

\* The resource is not left running, and is shown as anything else while a call
\* executes only because another one ended meanwhile.
THEOREM StateIsExplained == Spec => []StateHasCause
  <1>1. TInv => StateHasCause
    BY DEF TInv
  <1> QED BY <1>1, Invariant, PTL

\* What a command reports is what its process did, with all of its output read.
THEOREM OutcomesAreTrue == Spec => []OutcomeIsExit
  <1>1. TInv => OutcomeIsExit
    BY DEF TInv
  <1> QED BY <1>1, Invariant, PTL

-----------------------------------------------------------------------------
(* Nobody waits on everybody.  CallsEnd and ProcessesEnd are liveness, but   *)
(* what makes them true can be said of states and steps: there is a step to  *)
(* take until everything is over, and only so many steps can be taken.       *)

Places == [idle |-> 5, start |-> 4, wait |-> 3, read |-> 2, finally |-> 1, over |-> 0]
Both(f) == f["stdout"] + f["stderr"]

\* What the program and the reads have to do: each unit is written, then read.
Work(c) ==
    IF pc[c] \in {"idle", "start"} THEN 1 + 4 * MaxOutput
    ELSE (IF process[c] = "running" THEN 1 ELSE 0)
             + (2 * Both(unwritten[c]) + Both(buffered[c]))

\* A bound of the steps that a call, its process and its reads still take.
StepsLeft(c) == Places[pc[c]] + Work(c)

\* Call c need not wait: it can go on itself, or its process or its reads can.
CanGo(c) ==
    \/ pc[c] \in {"idle", "start", "finally"}
    \/ pc[c] = "wait" /\ Exited(c)
    \/ pc[c] = "read" /\ buffered[c] = None
    \/ process[c] = "running" /\ unwritten[c] = None
    \/ \E s \in Streams :
        \/ process[c] = "running" /\ unwritten[c][s] > 0 /\ buffered[c][s] < Capacity
        \/ buffered[c][s] > 0

\* The bound is a number, and it is used up when the call is over, the process
\* has ended and all of its output is read.
LEMMA StepsLeftIsNat ==
  ASSUME TInv, NEW c \in Calls
  PROVE  /\ StepsLeft(c) \in Nat
         /\ StepsLeft(c) = 0 <=> pc[c] = "over" /\ process[c] # "running" /\ buffered[c] = None
  <1>1. /\ unwritten[c] \in [Streams -> Nat] /\ buffered[c] \in [Streams -> Nat]
        /\ pc[c] \in {"idle", "start", "wait", "read", "finally", "over"}
        /\ MaxOutput \in Nat
    BY TerraformAssumption DEF TInv, TypeOK
  <1>2. Places[pc[c]] \in Nat /\ (Places[pc[c]] = 0 <=> pc[c] = "over")
    BY <1>1 DEF Places
  <1>3. Both(unwritten[c]) \in Nat /\ Both(buffered[c]) \in Nat
    BY <1>1 DEF Both, Streams
  <1>4. Both(buffered[c]) = 0 <=> buffered[c] = None
    BY <1>1 DEF Both, Streams, None
  <1>5. process[c] # "running" => Both(unwritten[c]) = 0
    BY DEF TInv, PlaceInv, Both, Streams, None
  <1>6. Work(c) \in Nat
    BY <1>1, <1>3 DEF Work
  <1>7. pc[c] = "over" =>
            (Work(c) = 0 <=> process[c] # "running" /\ buffered[c] = None)
    BY <1>3, <1>4, <1>5 DEF Work
  <1> QED BY <1>2, <1>6, <1>7 DEF StepsLeft

\* A call that is not over can go on: what it waits for is its process, which
\* waits for nothing but a read, and a read waits for nothing.
LEMMA NotOverCanGo ==
  ASSUME TInv, NEW c \in Calls, StepsLeft(c) # 0
  PROVE  CanGo(c)
  <1>1. pc[c] # "over" \/ process[c] = "running" \/ buffered[c] # None
    BY StepsLeftIsNat
  <1>2. /\ unwritten[c] \in [Streams -> Nat] /\ buffered[c] \in [Streams -> Nat]
        /\ pc[c] \in {"idle", "start", "wait", "read", "finally", "over"}
        /\ process[c] \in {"none", "running", "zero", "nonzero"}
        /\ Capacity \in Nat \ {0}
    BY TerraformAssumption DEF TInv, TypeOK
  <1>3. CASE buffered[c] # None
    <2>1. PICK s \in Streams : buffered[c][s] # 0
      BY <1>2, <1>3 DEF None
    <2> QED BY <1>2, <2>1 DEF CanGo
  <1>4. CASE buffered[c] = None /\ process[c] = "running"
    <2>1. CASE unwritten[c] = None
      BY <1>4, <2>1 DEF CanGo
    <2>2. CASE unwritten[c] # None
      <3>1. PICK s \in Streams : unwritten[c][s] # 0
        BY <1>2, <2>2 DEF None
      <3>2. buffered[c][s] = 0
        BY <1>4 DEF None
      <3>3. unwritten[c][s] > 0 /\ buffered[c][s] < Capacity
        BY <1>2, <3>1, <3>2
      <3> QED BY <1>4, <3>3 DEF CanGo
    <2> QED BY <2>1, <2>2
  <1>5. CASE buffered[c] = None /\ process[c] # "running" /\ pc[c] # "over"
    BY <1>2, <1>5 DEF CanGo, Exited, TInv, PlaceInv
  <1> QED BY <1>1, <1>3, <1>4, <1>5

\* A step that is not about a call leaves the bound of that call alone.
LEMMA OthersKeepSteps ==
  ASSUME NEW d \in Calls, pc'[d] = pc[d], process'[d] = process[d],
         unwritten'[d] = unwritten[d], buffered'[d] = buffered[d]
  PROVE  StepsLeft(d)' = StepsLeft(d)
  BY DEF StepsLeft, Work

\* A call that takes a step comes nearer to its end, be it cancelled or not.
LEMMA CallUsesStep ==
  ASSUME TInv, NEW c \in Calls, Execute(c) \/ Call(c) \/ StartThrows(c) \/ Cancelled(c)
  PROVE  StepsLeft(c)' < StepsLeft(c)
  <1>1. /\ unwritten[c] \in [Streams -> Nat] /\ buffered[c] \in [Streams -> Nat]
        /\ MaxOutput \in Nat
    BY TerraformAssumption DEF TInv, TypeOK
  <1>2. Both(unwritten[c]) \in Nat /\ Both(buffered[c]) \in Nat
    BY <1>1 DEF Both, Streams
  <1>3. Work(c) \in Nat
    BY <1>1, <1>2 DEF Work
  <1>4. CASE Execute(c)
    <2>1. pc[c] = "idle" /\ pc'[c] = "start"
      BY <1>4 DEF Execute, TInv, TypeOK
    <2>2. Work(c)' = Work(c)
      BY <2>1 DEF Work
    <2> QED BY <1>3, <2>1, <2>2 DEF StepsLeft, Places
  <1>5. CASE Start(c)
    <2>1. PICK output \in [Streams -> 0..MaxOutput] :
              unwritten' = [unwritten EXCEPT ![c] = output]
      BY <1>5 DEF Start
    <2>2. /\ pc[c] = "start" /\ pc'[c] = "wait" /\ process'[c] = "running"
          /\ unwritten'[c] = output /\ buffered'[c] = None
      BY <1>5, <2>1 DEF Start, TInv, TypeOK, PlaceInv
    <2>3. Both(output) \in Nat /\ Both(output) <= 2 * MaxOutput
      BY <1>1 DEF Both, Streams
    <2>4. Both(None) = 0
      BY DEF Both, None, Streams
    <2>5. Work(c) = 1 + 4 * MaxOutput /\ Work(c)' = 1 + (2 * Both(output) + 0)
      BY <2>2, <2>4 DEF Work
    <2>6. Places[pc[c]] = 4 /\ Places[pc'[c]] = 3
      BY <2>2 DEF Places
    <2> QED BY <1>1, <2>3, <2>5, <2>6 DEF StepsLeft
  <1>6. CASE StartThrows(c)
    <2>1. /\ pc[c] = "start" /\ pc'[c] = "finally" /\ process'[c] = "none"
          /\ unwritten'[c] = None /\ buffered'[c] = None
      BY <1>6 DEF StartThrows, TInv, TypeOK, PlaceInv
    <2>2. Both(None) = 0
      BY DEF Both, None, Streams
    <2>3. Work(c) = 1 + 4 * MaxOutput /\ Work(c)' = 0
      BY <2>1, <2>2 DEF Work
    <2>4. Places[pc[c]] = 4 /\ Places[pc'[c]] = 1
      BY <2>1 DEF Places
    <2> QED BY <1>1, <2>3, <2>4 DEF StepsLeft
  <1>7. CASE Waited(c) \/ Cancelled(c) \/ Report(c) \/ Finally(c)
    <2>1. /\ pc[c] \in {"wait", "read", "finally"} /\ pc'[c] \in {"read", "finally", "over"}
          /\ Places[pc'[c]] < Places[pc[c]]
          /\ UNCHANGED <<process, unwritten, buffered>>
      BY <1>7 DEF Waited, Cancelled, Report, Finally, TInv, TypeOK, Places
    <2>2. Work(c)' = Work(c)
      BY <2>1 DEF Work
    <2>3. Places[pc[c]] \in Nat /\ Places[pc'[c]] \in Nat
      BY <2>1 DEF Places
    <2> QED BY <1>3, <2>1, <2>2, <2>3 DEF StepsLeft
  <1> QED BY <1>4, <1>5, <1>6, <1>7 DEF Call

\* So does a program that writes or exits, and a read.
LEMMA ProcessUsesStep ==
  ASSUME TInv, NEW c \in Calls,
         Exit(c) \/ \E s \in Streams : Write(c, s) \/ Read(c, s)
  PROVE  StepsLeft(c)' < StepsLeft(c)
  <1>1. /\ unwritten[c] \in [Streams -> Nat] /\ buffered[c] \in [Streams -> Nat]
        /\ pc[c] \in {"idle", "start", "wait", "read", "finally", "over"}
    BY TerraformAssumption DEF TInv, TypeOK
  <1>2. Both(unwritten[c]) \in Nat /\ Both(buffered[c]) \in Nat /\ Places[pc[c]] \in Nat
    BY <1>1 DEF Both, Streams, Places
  <1>3. pc' = pc
    BY DEF Exit, Write, Read
  <1>4. CASE Exit(c)
    <2>1. /\ process[c] = "running" /\ process'[c] # "running"
          /\ UNCHANGED <<unwritten, buffered>>
      BY <1>4 DEF Exit, TInv, TypeOK
    <2>2. pc[c] \notin {"idle", "start"}
      BY <2>1 DEF TInv, PlaceInv
    <2> QED BY <1>2, <1>3, <2>1, <2>2 DEF StepsLeft, Work
  <1>5. ASSUME NEW s \in Streams, Write(c, s) PROVE StepsLeft(c)' < StepsLeft(c)
    <2>1. /\ process[c] = "running" /\ process' = process
          /\ unwritten'[c] = [unwritten[c] EXCEPT ![s] = @ - 1]
          /\ buffered'[c] = [buffered[c] EXCEPT ![s] = @ + 1]
      BY <1>5 DEF Write, TInv, TypeOK
    <2>2. pc[c] \notin {"idle", "start"}
      BY <2>1 DEF TInv, PlaceInv
    <2>3. Both(unwritten'[c]) = Both(unwritten[c]) - 1 /\ Both(buffered'[c]) = Both(buffered[c]) + 1
      BY <1>1, <2>1 DEF Both, Streams
    <2> QED BY <1>2, <1>3, <2>1, <2>2, <2>3 DEF StepsLeft, Work
  <1>6. ASSUME NEW s \in Streams, Read(c, s) PROVE StepsLeft(c)' < StepsLeft(c)
    <2>1. /\ buffered[c][s] > 0 /\ UNCHANGED <<process, unwritten>>
          /\ buffered'[c] = [buffered[c] EXCEPT ![s] = @ - 1]
      BY <1>6 DEF Read, TInv, TypeOK
    <2>2. pc[c] \notin {"idle", "start"}
      BY <2>1 DEF TInv, PlaceInv, None
    <2>3. Both(buffered'[c]) = Both(buffered[c]) - 1
      BY <1>1, <2>1 DEF Both, Streams
    <2> QED BY <1>2, <1>3, <2>1, <2>2, <2>3 DEF StepsLeft, Work
  <1> QED BY <1>4, <1>5, <1>6

\* Nobody waits for ever because everybody waits: as long as a call executes,
\* its process runs or its output is unread, there is a step of theirs to take,
\* whatever the other calls do and however little a pipe holds.
THEOREM NobodyIsStuck ==
  Spec => [](\A c \in Calls :
                pc[c] # "over" \/ process[c] = "running" \/ buffered[c] # None => CanGo(c))
  <1> DEFINE P == \A c \in Calls :
                      pc[c] # "over" \/ process[c] = "running" \/ buffered[c] # None => CanGo(c)
  <1>1. TInv => P
    BY NotOverCanGo, StepsLeftIsNat
  <1> HIDE DEF P
  <1>2. Spec => []P
    BY <1>1, Invariant, PTL
  <1> QED BY <1>2 DEF P

\* Only so many steps can be taken: every step brings one call nearer to its
\* end and sends none back, and so none takes more than 4 * MaxOutput + 6.
THEOREM StepsAreBounded ==
  Spec => /\ [](\A c \in Calls : StepsLeft(c) \in Nat)
          /\ [][\E c \in Calls : /\ StepsLeft(c)' < StepsLeft(c)
                                 /\ \A d \in Calls \ {c} : StepsLeft(d)' = StepsLeft(d)]_vars
  <1> DEFINE N == \A c \in Calls : StepsLeft(c) \in Nat
  <1> DEFINE A == \E c \in Calls : /\ StepsLeft(c)' < StepsLeft(c)
                                   /\ \A d \in Calls \ {c} : StepsLeft(d)' = StepsLeft(d)
  <1>1. ASSUME TInv, Next PROVE A
    <2>1. PICK c \in Calls :
              \/ Execute(c) \/ Call(c) \/ StartThrows(c) \/ Cancelled(c)
              \/ Exit(c) \/ \E s \in Streams : Write(c, s) \/ Read(c, s)
      BY <1>1 DEF Next
    <2>2. StepsLeft(c)' < StepsLeft(c)
      BY <1>1, <2>1, CallUsesStep, ProcessUsesStep
    <2>3. ASSUME NEW d \in Calls \ {c}
          PROVE  /\ pc'[d] = pc[d] /\ process'[d] = process[d]
                 /\ unwritten'[d] = unwritten[d] /\ buffered'[d] = buffered[d]
      BY <1>1, <2>1 DEF Execute, Call, StartThrows, Cancelled, Start, Waited, Report, Finally,
                        Exit, Write, Read, TInv, TypeOK
    <2>4. \A d \in Calls \ {c} : StepsLeft(d)' = StepsLeft(d)
      BY <2>3, OthersKeepSteps
    <2> QED BY <2>2, <2>4
  <1>2. TInv /\ [Next]_vars => [A]_vars
    BY <1>1
  <1>3. TInv => N
    BY StepsLeftIsNat
  <1> HIDE DEF A, N
  <1>4. Spec => []N /\ [][A]_vars
    BY <1>2, <1>3, Invariant, PTL DEF Spec
  <1> QED BY <1>4 DEF A, N
==============================================================================
