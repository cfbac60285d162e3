------------------------------ MODULE HeartRate ------------------------------
(***************************************************************************)
(* The heart-rate stream: the generator of the Heart module in the api, the *)
(* proxy endpoint of the web application, and the EventSource that the     *)
(* script of the Home page opens in the browser.                           *)
(*                                                                         *)
(* The page scripts come in through their abstract specification: when the *)
(* script of Home is loaded and stopped is what ScriptLifecycle says.      *)
(***************************************************************************)
EXTENDS Naturals

CONSTANTS
    Conns,           \* HTTP requests for the stream that are alive at once
    NoConn,
    MaxBuffered,     \* bound: events between the generator and the browser
    MaxFaults        \* bound: machines that stop, calls that fail

ASSUME HeartRateAssumption ==
    /\ NoConn \notin Conns
    /\ MaxBuffered \in Nat \ {0} /\ MaxFaults \in Nat

VARIABLES
    shown, running, broken,  \* of ScriptLifecycle, with Home the only page script
    source,          \* source of Home.razor.js: null, or its readyState
    conn,            \* the request its EventSource is connected by
    web,             \* the handler of each request in the web application
    api,             \* the generator that the handler's own request started
    buffered,        \* events generated and not yet shown
    faults

page == <<shown, running, broken>>
vars == <<shown, running, broken, source, conn, web, api, buffered, faults>>

Home == "Home"
Scripts == INSTANCE ScriptLifecycle WITH Srcs <- {Home}

-----------------------------------------------------------------------------
Init ==
    /\ Scripts!Init
    /\ source = "null" /\ conn = NoConn
    /\ web = [c \in Conns |-> "none"]
    /\ api = [c \in Conns |-> "none"]
    /\ buffered = [c \in Conns |-> 0]
    /\ faults = 0

(* Browser *)

\* source = new EventSource, after closing the one it may hold.
onLoad ==
    /\ Scripts!Load(Home)
    /\ source' = "connecting" /\ conn' = NoConn
    /\ UNCHANGED <<web, api, buffered, faults>>

\* The script of Home cannot be imported.
ImportFails ==
    /\ Scripts!Fail(Home)
    /\ UNCHANGED <<source, conn, web, api, buffered, faults>>

\* Mutants: onDispose does nothing; it closes the source but does not clear it.
Forgets == UNCHANGED <<source, conn>>
ClosesOnly == source' = "closed" /\ conn' = NoConn

onDispose == source' = "null" /\ conn' = NoConn

\* Enhanced navigation stops the script of a page that goes.
Navigate(p) ==
    /\ Scripts!Navigate(p)
    /\ IF Home \in running \ p THEN onDispose ELSE UNCHANGED <<source, conn>>
    /\ UNCHANGED <<web, api, buffered, faults>>

\* A full load takes the document and its EventSource away.
Reload(p) ==
    /\ Scripts!Reload(p)
    /\ source' = "null" /\ conn' = NoConn
    /\ UNCHANGED <<web, api, buffered, faults>>

Fresh(c) == conn # c /\ web[c] = "none" /\ api[c] = "none"

\* The EventSource asks for the stream, the first time or again.
Connect(c) ==
    /\ source = "connecting" /\ conn = NoConn /\ Fresh(c)
    /\ conn' = c
    /\ web' = [web EXCEPT ![c] = "calling"]
    /\ UNCHANGED <<page, source, api, buffered, faults>>

\* What the EventSource does about a connection that is over: it asks again,
\* but not after an answer that is no stream.
Lost(c, status) ==
    IF conn = c
    THEN /\ conn' = NoConn
         /\ source' = IF status THEN "failed" ELSE "connecting"
    ELSE UNCHANGED <<conn, source>>

\* The answer on a connection ends.  As long as the browser has seen nothing of
\* it, an error status may tell so, of the web application or, for a machine
\* that went away, of the proxy of fly.io; afterwards it is broken off.
Ends(c) == \E status \in {FALSE, source = "connecting"} : Lost(c, status)

(* The web application: MapGet heart-rate and SubscribeHeartRateAsync *)

\* GetStreamAsync: the api answers, and its generator starts, be it for a
\* browser whose leaving has not been noticed yet.
Subscribe(c) ==
    /\ web[c] = "calling"
    /\ web' = [web EXCEPT ![c] = "relaying"]
    /\ api' = [api EXCEPT ![c] = "beating"]
    /\ UNCHANGED <<page, source, conn, buffered, faults>>

\* GetStreamAsync throws, before anything of an answer was written.
SubscribeFails(c) ==
    /\ web[c] = "calling" /\ faults < MaxFaults
    /\ faults' = faults + 1
    /\ web' = [web EXCEPT ![c] = "none"]
    /\ Ends(c)
    /\ UNCHANGED <<page, api, buffered>>

\* One event goes through the parser and on to the browser, which shows it.
Relay(c) ==
    /\ web[c] = "relaying" /\ conn = c /\ buffered[c] > 0
    /\ buffered' = [buffered EXCEPT ![c] = @ - 1]
    /\ source' = "open"
    /\ UNCHANGED <<page, conn, web, api, faults>>

\* The browser has left: the cancellation token of the request ends the call
\* or the enumeration, which disposes of the stream.
WebCancelled(c) ==
    /\ web[c] # "none" /\ conn # c
    /\ web' = [web EXCEPT ![c] = "none"]
    /\ UNCHANGED <<page, source, conn, api, buffered, faults>>

\* Mutant: the web application goes on waiting for the next event.
Hangs(c) == FALSE /\ UNCHANGED vars

\* The stream of the api is over, so is the one to the browser.
StreamEnds(c) ==
    /\ web[c] = "relaying" /\ api[c] = "none"
    /\ web' = [web EXCEPT ![c] = "none"]
    /\ Ends(c)
    /\ UNCHANGED <<page, api, buffered, faults>>

(* The api: GetDataAsync of the Heart endpoints *)

Beat(c) ==
    /\ api[c] = "beating" /\ web[c] = "relaying" /\ buffered[c] < MaxBuffered
    /\ buffered' = [buffered EXCEPT ![c] = @ + 1]
    /\ UNCHANGED <<page, source, conn, web, api, faults>>

\* Mutant: a generator that does not look at its token.
NeverCancelled(c) == FALSE /\ UNCHANGED vars

\* The token is cancelled, which the loop or Task.Delay notices.
BeatsCancelled(c) ==
    /\ api[c] = "beating" /\ web[c] = "none"
    /\ api' = [api EXCEPT ![c] = "none"]
    /\ buffered' = [buffered EXCEPT ![c] = 0]
    /\ UNCHANGED <<page, source, conn, web, faults>>

(* Machines that stop; fly.io starts them again with the next request. *)

ApiStops ==
    /\ faults < MaxFaults /\ \E c \in Conns : api[c] # "none"
    /\ faults' = faults + 1
    /\ api' = [c \in Conns |-> "none"]
    /\ buffered' = [c \in Conns |-> 0]
    /\ UNCHANGED <<page, source, conn, web>>

WebStops ==
    /\ faults < MaxFaults /\ \E c \in Conns : web[c] # "none"
    /\ faults' = faults + 1
    /\ web' = [c \in Conns |-> "none"]
    /\ IF conn # NoConn THEN Ends(conn) ELSE UNCHANGED <<conn, source>>
    /\ UNCHANGED <<page, api, buffered>>

\* While the web application is away, the proxy of fly.io answers for it.
Unavailable ==
    /\ source = "connecting" /\ conn = NoConn /\ faults < MaxFaults
    /\ faults' = faults + 1
    /\ source' = "failed"
    /\ UNCHANGED <<page, conn, web, api, buffered>>

-----------------------------------------------------------------------------
Chain(c) == Subscribe(c) \/ Relay(c) \/ WebCancelled(c) \/ StreamEnds(c)
                \/ Beat(c) \/ BeatsCancelled(c)

Next ==
    \/ onLoad \/ ImportFails
    \/ \E p \in SUBSET {Home} : Navigate(p) \/ Reload(p)
    \/ \E c \in Conns : Connect(c) \/ Chain(c) \/ SubscribeFails(c)
    \/ ApiStops \/ WebStops \/ Unavailable

Spec == Init /\ [][Next]_vars

\* The script is loaded as PageScripts promises, an EventSource asks again
\* after its delay, and every process of the chain runs on.
FairSpec ==
    /\ Spec
    /\ WF_vars(onLoad)
    /\ WF_vars(\E c \in Conns : Connect(c))
    /\ \A c \in Conns : WF_vars(Subscribe(c)) /\ WF_vars(Relay(c)) /\ WF_vars(WebCancelled(c))
                        /\ WF_vars(StreamEnds(c)) /\ WF_vars(Beat(c))
                        /\ WF_vars(BeatsCancelled(c))

-----------------------------------------------------------------------------
(* Properties *)

\* Every variable keeps its shape.
TypeOK ==
    /\ shown \in SUBSET {Home} /\ running \in SUBSET {Home} /\ broken \in SUBSET {Home}
    /\ source \in {"null", "connecting", "open", "failed"}
    /\ conn \in Conns \cup {NoConn}
    /\ web \in [Conns -> {"none", "calling", "relaying"}]
    /\ api \in [Conns -> {"none", "beating"}]
    /\ buffered \in [Conns -> 0..MaxBuffered]
    /\ faults \in 0..MaxFaults

\* However the user moves between pages, reloads and loses connections, the
\* browser holds a connection only while the script of Home runs, and a
\* generator feeds it only through a handler of the web application that
\* relays: nobody is fed by a stream of an earlier visit.
StreamFollowsPage ==
    /\ source # "null" <=> Home \in running
    /\ conn # NoConn => source \in {"connecting", "open"} /\ web[conn] # "none"
    /\ \A c \in Conns : web[c] = "calling" => api[c] = "none" /\ buffered[c] = 0

\* Once the browser has left a stream, both processes behind it let it go.
StreamsEnd ==
    \A c \in Conns : conn # c ~> (web[c] = "none" /\ api[c] = "none")

\* As long as the user stays on Home, and no answer was an error status, rates
\* keep coming: lost connections and stopped machines are survived.
BeatsResume ==
    <>[](Home \in running /\ source # "failed") => []<><<\E c \in Conns : Relay(c)>>_vars

\* After onerror, "o browser vai tentar reconectar": it does, or Home is left.
ReconnectsAfterError ==
    source \in {"connecting", "failed"} ~> source \in {"open", "null"}
==============================================================================
