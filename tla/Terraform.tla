------------------------------ MODULE Terraform ------------------------------
(***************************************************************************)
(* The Terraform resource of the AppHost: its commands (init, plan, apply,  *)
(* destroy) each run the terraform program, read what it writes, and report *)
(* the state of the one resource they share.                               *)
(*                                                                         *)
(* Nothing keeps two commands from running at once.  The program writes to *)
(* two pipes, which hold little, and waits while the one it writes to is   *)
(* full.                                                                   *)
(***************************************************************************)
EXTENDS Naturals

CONSTANTS
    Calls,       \* executions of a command
    Capacity,    \* bound: what a pipe holds
    MaxOutput,   \* bound: what a program writes to one pipe
    MaxFaults    \* bound: calls that are cancelled or cannot start the program

ASSUME TerraformAssumption ==
    Capacity \in Nat \ {0} /\ MaxOutput \in Nat /\ MaxFaults \in Nat

Streams == {"stdout", "stderr"}
None == [s \in Streams |-> 0]

VARIABLES
    state,      \* State of the resource, as the dashboard shows it
    pc,         \* where each execution of ExecuteAsync stands
    process,    \* its process: none yet, running, or its exit code
    unwritten,  \* what the program has still to write, per stream
    buffered,   \* what it wrote and nobody read yet
    outcome,    \* what ExecuteAsync returns or throws
    overtaken,  \* history: calls during which another call has ended
    faults

vars == <<state, pc, process, unwritten, buffered, outcome, overtaken, faults>>

Exited(c) == process[c] \in {"zero", "nonzero"}
Executing(c) == pc[c] \in {"start", "wait", "read", "finally"}

-----------------------------------------------------------------------------
Init ==
    /\ state = "NotStarted"
    /\ pc = [c \in Calls |-> "idle"]
    /\ process = [c \in Calls |-> "none"]
    /\ unwritten = [c \in Calls |-> None]
    /\ buffered = [c \in Calls |-> None]
    /\ outcome = [c \in Calls |-> "none"]
    /\ overtaken = {}
    /\ faults = 0

(* ExecuteAsync *)

\* The user runs a command: the resource is published as running.
Execute(c) ==
    /\ pc[c] = "idle"
    /\ pc' = [pc EXCEPT ![c] = "start"]
    /\ state' = "Running"
    /\ UNCHANGED <<process, unwritten, buffered, outcome, overtaken, faults>>

\* process.Start, and both ReadToEndAsync begin.
Start(c) ==
    /\ pc[c] = "start"
    /\ pc' = [pc EXCEPT ![c] = "wait"]
    /\ process' = [process EXCEPT ![c] = "running"]
    /\ \E output \in [Streams -> 0..MaxOutput] : unwritten' = [unwritten EXCEPT ![c] = output]
    /\ UNCHANGED <<state, buffered, outcome, overtaken, faults>>

\* Mutant: process.Start is outside of the try.
EscapesFinally(c) ==
    /\ pc[c] = "start" /\ faults < MaxFaults
    /\ faults' = faults + 1
    /\ pc' = [pc EXCEPT ![c] = "over"]
    /\ outcome' = [outcome EXCEPT ![c] = "thrown"]
    /\ UNCHANGED <<state, process, unwritten, buffered, overtaken>>

\* process.Start throws: there is no terraform.
StartThrows(c) ==
    /\ pc[c] = "start" /\ faults < MaxFaults
    /\ faults' = faults + 1
    /\ pc' = [pc EXCEPT ![c] = "finally"]
    /\ outcome' = [outcome EXCEPT ![c] = "thrown"]
    /\ UNCHANGED <<state, process, unwritten, buffered, overtaken>>

\* WaitForExitAsync returns.
Waited(c) ==
    /\ pc[c] = "wait" /\ Exited(c)
    /\ pc' = [pc EXCEPT ![c] = "read"]
    /\ UNCHANGED <<state, process, unwritten, buffered, outcome, overtaken, faults>>

\* The call is cancelled: WaitForExitAsync throws.  Nothing stops the process,
\* and nothing stops the two reads.
Cancelled(c) ==
    /\ pc[c] = "wait" /\ faults < MaxFaults
    /\ faults' = faults + 1
    /\ pc' = [pc EXCEPT ![c] = "finally"]
    /\ outcome' = [outcome EXCEPT ![c] = "thrown"]
    /\ UNCHANGED <<state, process, unwritten, buffered, overtaken>>

\* Mutant: what the reads return is not awaited.
Unawaited(c) ==
    /\ pc[c] = "read"
    /\ pc' = [pc EXCEPT ![c] = "finally"]
    /\ outcome' = [outcome EXCEPT ![c] = IF process[c] = "zero" THEN "success" ELSE "failure"]
    /\ UNCHANGED <<state, process, unwritten, buffered, overtaken, faults>>

\* Both reads have come to the end; the exit code decides.
Report(c) ==
    /\ pc[c] = "read" /\ buffered[c] = None
    /\ pc' = [pc EXCEPT ![c] = "finally"]
    /\ outcome' = [outcome EXCEPT ![c] = IF process[c] = "zero" THEN "success" ELSE "failure"]
    /\ UNCHANGED <<state, process, unwritten, buffered, overtaken, faults>>

\* Mutant: the resource ends in the outcome of its last command.
EndsAsOutcome(c) ==
    /\ pc[c] = "finally"
    /\ pc' = [pc EXCEPT ![c] = "over"]
    /\ state' = outcome[c]
    /\ overtaken' = {d \in Calls \ {c} : Executing(d)}
    /\ UNCHANGED <<process, unwritten, buffered, outcome, faults>>

\* The finally block: the resource is published as finished.
Finally(c) ==
    /\ pc[c] = "finally"
    /\ pc' = [pc EXCEPT ![c] = "over"]
    /\ state' = "Finished"
    /\ overtaken' = {d \in Calls \ {c} : Executing(d)}
    /\ UNCHANGED <<process, unwritten, buffered, outcome, faults>>

(* The terraform program and the reads of its output *)

Write(c, s) ==
    /\ process[c] = "running" /\ unwritten[c][s] > 0 /\ buffered[c][s] < Capacity
    /\ unwritten' = [unwritten EXCEPT ![c][s] = @ - 1]
    /\ buffered' = [buffered EXCEPT ![c][s] = @ + 1]
    /\ UNCHANGED <<state, pc, process, outcome, overtaken, faults>>

Exit(c) ==
    /\ process[c] = "running" /\ unwritten[c] = None
    /\ \E code \in {"zero", "nonzero"} : process' = [process EXCEPT ![c] = code]
    /\ UNCHANGED <<state, pc, unwritten, buffered, outcome, overtaken, faults>>

\* Mutants: the reads begin after the wait; a cancelled call reads no more.
ReadsLate(c, s) ==
    /\ buffered[c][s] > 0 /\ pc[c] = "read"
    /\ buffered' = [buffered EXCEPT ![c][s] = @ - 1]
    /\ UNCHANGED <<state, pc, process, unwritten, outcome, overtaken, faults>>
ReadsWhileWaiting(c, s) ==
    /\ buffered[c][s] > 0 /\ pc[c] \in {"wait", "read"}
    /\ buffered' = [buffered EXCEPT ![c][s] = @ - 1]
    /\ UNCHANGED <<state, pc, process, unwritten, outcome, overtaken, faults>>

\* ReadToEndAsync of one stream, from the start of the process on.
Read(c, s) ==
    /\ buffered[c][s] > 0
    /\ buffered' = [buffered EXCEPT ![c][s] = @ - 1]
    /\ UNCHANGED <<state, pc, process, unwritten, outcome, overtaken, faults>>

-----------------------------------------------------------------------------
Call(c) == Start(c) \/ Waited(c) \/ Report(c) \/ Finally(c)

Next ==
    \E c \in Calls :
        \/ Execute(c) \/ Call(c) \/ Exit(c)
        \/ \E s \in Streams : Write(c, s) \/ Read(c, s)
        \/ StartThrows(c) \/ Cancelled(c)

Spec == Init /\ [][Next]_vars

\* ExecuteAsync and its reads run on; terraform goes on where it can write, and
\* exits when it has written everything.
FairSpec ==
    /\ Spec
    /\ \A c \in Calls :
        /\ WF_vars(Call(c)) /\ WF_vars(Exit(c))
        /\ \A s \in Streams : WF_vars(Write(c, s)) /\ WF_vars(Read(c, s))

-----------------------------------------------------------------------------
(* Properties *)

\* Every variable keeps its shape.
TypeOK ==
    /\ state \in {"NotStarted", "Running", "Finished"}
    /\ pc \in [Calls -> {"idle", "start", "wait", "read", "finally", "over"}]
    /\ process \in [Calls -> {"none", "running", "zero", "nonzero"}]
    /\ unwritten \in [Calls -> [Streams -> 0..MaxOutput]]
    /\ buffered \in [Calls -> [Streams -> 0..Capacity]]
    /\ outcome \in [Calls -> {"none", "success", "failure", "thrown"}]
    /\ overtaken \in SUBSET Calls
    /\ faults \in 0..MaxFaults

\* However calls overlap, fail or are cancelled, the resource is shown as
\* running only while a call executes: none leaves it running behind.  A call
\* that executes while it is not shown so has been overtaken by the end of
\* another, since the last command to start or end decides.
StateHasCause ==
    /\ state = "Running" => \E c \in Calls : Executing(c)
    /\ \A c \in Calls : Executing(c) /\ state # "Running" => c \in overtaken

\* A call reports what its process did, and only after it has all the output:
\* success for exit code zero, failure for another one.
OutcomeIsExit ==
    \A c \in Calls : outcome[c] \in {"success", "failure"} =>
        /\ outcome[c] = "success" <=> process[c] = "zero"
        /\ Exited(c) /\ unwritten[c] = None /\ buffered[c] = None

\* Every call ends, however much its process writes to either pipe before it
\* exits: nobody waits for a process that waits for somebody to read.
CallsEnd == \A c \in Calls : Executing(c) ~> pc[c] = "over"

\* So does every process, even one whose call was cancelled: its output is
\* still read.
ProcessesEnd == \A c \in Calls : process[c] = "running" ~> Exited(c)
==============================================================================
