---------------------------- MODULE PageScripts ----------------------------
(***************************************************************************)
(* The page-script custom element of the web application: the scripts of   *)
(* the pages that Blazor's enhanced navigation merges into one document.   *)
(*                                                                         *)
(* JavaScript runs to completion: while Blazor merges a page into the      *)
(* document, the callbacks of the elements run one after the other, then   *)
(* onEnhancedLoad runs, and no import can resolve before the merge is over. *)
(***************************************************************************)
EXTENDS Integers, FiniteSets

CONSTANTS
    Srcs,           \* page scripts, by their src
    Slots,          \* places of a page where a page-script element may be
    Infos,          \* bound: pageScriptInfo objects that are alive at once
    NoSrc, NoInfo

ASSUME PageScriptsAssumption ==
    /\ NoSrc \notin Srcs /\ NoInfo \notin Infos
    /\ IsFiniteSet(Slots)

VARIABLES
    turn,      \* "idle", or the document is being loaded ("start") or merged
    page,      \* the page on screen: the src at each place, or NoSrc
    next,      \* the page that is being merged
    dom,       \* the document: where each place stands between the two
    bySrc,     \* pageScriptInfoBySrc
    count,     \* referenceCount of each pageScriptInfo
    module,    \* whether its module is set
    pending,   \* the import its initializePageScriptModule awaits
    running    \* per script, its calls of onLoad less its calls of onDispose

vars == <<turn, page, next, dom, bySrc, count, module, pending, running>>

Pages == [Slots -> Srcs \cup {NoSrc}]
Blank == [x \in Slots |-> NoSrc]

SrcsOf(p) == {p[x] : x \in Slots} \ {NoSrc}
Holders(s) == {x \in Slots : dom[x] = s}
Registered == {s \in Srcs : bySrc[s] # NoInfo}

\* Objects that nothing refers to: a new pageScriptInfo may be any of them.
Free == {i \in Infos : pending[i] = NoSrc /\ \A s \in Srcs : bySrc[s] # i}

Merging == turn \in {"start", "merge"}

-----------------------------------------------------------------------------
\* A document is loaded; afterWebStarted defines the element and so upgrades
\* those of its first page.
Init ==
    /\ turn = "start" /\ next \in Pages /\ page = Blank /\ dom = Blank
    /\ bySrc = [s \in Srcs |-> NoInfo]
    /\ count = [i \in Infos |-> 0]
    /\ module = [i \in Infos |-> FALSE]
    /\ pending = [i \in Infos |-> NoSrc]
    /\ running = [s \in Srcs |-> 0]

\* Mutant: attributeChangedCallback and disconnectedCallback forget the old src.
StillRegistered(s) == count

\* unregisterPageScriptElement leaves these counts.
Unregistered(s) ==
    IF s \in Registered THEN [count EXCEPT ![bySrc[s]] = @ - 1] ELSE count

\* Mutant: a new pageScriptInfo has no referenceCount.
RegisterUncounted(s, c) ==
    \E i \in Free :
        /\ bySrc' = [bySrc EXCEPT ![s] = i]
        /\ count' = [c EXCEPT ![i] = NoInfo]
        /\ module' = [module EXCEPT ![i] = FALSE]
        /\ pending' = [pending EXCEPT ![i] = s]

\* registerPageScriptElement, with the counts c.
Register(s, c) ==
    IF s \in Registered
    THEN /\ count' = [c EXCEPT ![bySrc[s]] = @ + 1]
         /\ UNCHANGED <<bySrc, module, pending>>
    ELSE \E i \in Free :
         /\ bySrc' = [bySrc EXCEPT ![s] = i]
         /\ count' = [c EXCEPT ![i] = 1]
         /\ module' = [module EXCEPT ![i] = FALSE]
         /\ pending' = [pending EXCEPT ![i] = s]

\* attributeChangedCallback on a new element, or on one that Blazor keeps.
AttributeChanged(x) ==
    /\ Merging /\ dom[x] # next[x] /\ next[x] # NoSrc
    /\ dom' = [dom EXCEPT ![x] = next[x]]
    /\ Register(next[x], Unregistered(dom[x]))
    /\ UNCHANGED <<turn, page, next, running>>

\* disconnectedCallback on an element that the next page does not have, or
\* has with another src; an element whose src becomes empty does the same.
Disconnected(x) ==
    /\ Merging /\ dom[x] # next[x] /\ dom[x] # NoSrc
    /\ dom' = [dom EXCEPT ![x] = NoSrc]
    /\ count' = Unregistered(dom[x])
    /\ UNCHANGED <<turn, page, next, bySrc, module, pending, running>>

Started ==
    /\ turn = "start" /\ dom = next
    /\ turn' = "idle" /\ page' = next
    /\ UNCHANGED <<next, dom, bySrc, count, module, pending, running>>

\* Mutant: one element too many is taken for none.
Rare == {s \in Registered : count[bySrc[s]] <= 1}

\* The registered scripts that no element refers to any more.
Unreferenced == {s \in Registered : count[bySrc[s]] <= 0}

\* Mutant: only scripts whose module is set are removed from the map.
KeepsUnloaded ==
    LET gone == {s \in Unreferenced : module[bySrc[s]]}
    IN  /\ turn = "merge" /\ dom = next
        /\ turn' = "idle" /\ page' = next
        /\ bySrc' = [s \in Srcs |-> IF s \in gone THEN NoInfo ELSE bySrc[s]]
        /\ running' = [s \in Srcs |-> IF s \in gone THEN running[s] - 1 ELSE running[s]]
        /\ UNCHANGED <<next, dom, count, module, pending>>

EnhancedLoad ==
    /\ turn = "merge" /\ dom = next
    /\ turn' = "idle" /\ page' = next
    /\ bySrc' = [s \in Srcs |-> IF s \in Unreferenced THEN NoInfo ELSE bySrc[s]]
    /\ running' = [s \in Srcs |-> IF s \in Unreferenced /\ module[bySrc[s]]
                                  THEN running[s] - 1 ELSE running[s]]
    /\ UNCHANGED <<next, dom, count, module, pending>>

\* Mutant: initializePageScriptModule does not look at the count again.
ResolvesUnchecked(i) ==
    /\ turn = "idle" /\ pending[i] # NoSrc
    /\ pending' = [pending EXCEPT ![i] = NoSrc]
    /\ module' = [module EXCEPT ![i] = TRUE]
    /\ running' = [running EXCEPT ![pending[i]] = @ + 1]
    /\ UNCHANGED <<turn, page, next, dom, bySrc, count>>

\* The rest of initializePageScriptModule, once the import has resolved.
Resolve(i) ==
    LET s == pending[i]
    IN  /\ turn = "idle" /\ s # NoSrc
        /\ pending' = [pending EXCEPT ![i] = NoSrc]
        /\ \/ /\ count[i] <= 0
              /\ UNCHANGED <<module, running>>
           \/ /\ count[i] > 0
              /\ module' = [module EXCEPT ![i] = TRUE]
              /\ running' = [running EXCEPT ![s] = @ + 1]
        /\ UNCHANGED <<turn, page, next, dom, bySrc, count>>

\* The import is rejected: initializePageScriptModule ends there, and the
\* object stays in the map without a module.
Reject(i) ==
    /\ turn = "idle" /\ pending[i] # NoSrc
    /\ pending' = [pending EXCEPT ![i] = NoSrc]
    /\ UNCHANGED <<turn, page, next, dom, bySrc, count, module, running>>

-----------------------------------------------------------------------------
\* Blazor follows a link, submits a form or receives a part of a streamed
\* page: it merges a page into the document.
Navigate(p) ==
    /\ turn = "idle"
    /\ Cardinality(SrcsOf(p) \ Registered) <= Cardinality(Free)
    /\ turn' = "merge" /\ next' = p
    /\ UNCHANGED <<page, dom, bySrc, count, module, pending, running>>

\* A full load, as the login makes it: the document and its scripts are gone.
Reload(p) ==
    /\ turn = "idle"
    /\ turn' = "start" /\ next' = p /\ page' = Blank /\ dom' = Blank
    /\ bySrc' = [s \in Srcs |-> NoInfo]
    /\ count' = [i \in Infos |-> 0]
    /\ module' = [i \in Infos |-> FALSE]
    /\ pending' = [i \in Infos |-> NoSrc]
    /\ running' = [s \in Srcs |-> 0]

Merge == (\E x \in Slots : AttributeChanged(x) \/ Disconnected(x)) \/ Started \/ EnhancedLoad

Next ==
    \/ Merge
    \/ \E i \in Infos : Resolve(i) \/ Reject(i)
    \/ \E p \in Pages : Navigate(p) \/ Reload(p)

Spec == Init /\ [][Next]_vars

\* A turn of the event loop ends; an import is answered some time, and its
\* continuation runs in the next turn, however often the user navigates.
FairSpec == Spec /\ WF_vars(Merge) /\ \A i \in Infos : SF_vars(Resolve(i))

-----------------------------------------------------------------------------
(* Properties *)

\* Every variable keeps its shape.
TypeOK ==
    /\ turn \in {"idle", "start", "merge"}
    /\ page \in Pages /\ next \in Pages /\ dom \in Pages
    /\ bySrc \in [Srcs -> Infos \cup {NoInfo}]
    /\ count \in [Infos -> Int]
    /\ module \in [Infos -> BOOLEAN]
    /\ pending \in [Infos -> Srcs \cup {NoSrc}]
    /\ running \in [Srcs -> Int]

\* In whatever order the elements of two pages come and go, the reference
\* count of a script is the number of elements of the document that name it,
\* and a script that an element names is in the map.
CountsElements ==
    \A s \in Srcs :
        IF s \in Registered THEN count[bySrc[s]] = Cardinality(Holders(s)) ELSE Holders(s) = {}

\* Between two turns no script runs twice, and none runs that the page on
\* screen does not name, although its import may resolve after its page was
\* left, or left and entered again.
RunsOnItsPage ==
    turn = "idle" =>
        \A s \in Srcs : running[s] \in {0, 1} /\ (running[s] = 1 => s \in SrcsOf(page))

\* The scripts in the map that no import will ever start.
Stuck == {s \in Registered : ~module[bySrc[s]] /\ pending[bySrc[s]] = NoSrc}

Lifecycle == INSTANCE ScriptLifecycle WITH
    shown <- SrcsOf(page), running <- {s \in Srcs : running[s] = 1}, broken <- Stuck

\* The reference counts, the map and the imports implement the lifecycle of a
\* script: started on its page, kept over a page that names it too, stopped.
ImplementsLifecycle == Lifecycle!Spec

\* A script whose page stays on screen is started, unless its import fails, even
\* if it was left and entered again with the first import still under way, or
\* if an earlier import has failed.
ImplementsFairLifecycle == Lifecycle!FairSpec
==============================================================================
