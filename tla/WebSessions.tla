----------------------------- MODULE WebSessions -----------------------------
(***************************************************************************)
(* The sessions of the web application: a cookie in each browser, and the  *)
(* tokens of each subject in ServerSideTokenStore, which is in memory and  *)
(* shared by all browsers of that subject.                                 *)
(*                                                                         *)
(* The cookie and OIDC handlers, the access token manager and Keycloak are *)
(* external: they appear as the code of the web application uses them, cut *)
(* where they wait for Keycloak or the api.                                *)
(***************************************************************************)
EXTENDS Naturals

CONSTANTS
    Subjects,   \* values of the sub claim
    Browsers,
    Requests,   \* requests of browsers to the web application
    Sessions,   \* bound: sessions that Keycloak opens, one per login
    NoSubject, NoToken, NoBrowser,
    MaxFaults   \* bound: restarts, calls to Keycloak and the api that fail,
                \* sessions that Keycloak ends

ASSUME WebSessionsAssumption ==
    /\ NoSubject \notin Subjects /\ NoBrowser \notin Browsers
    /\ NoToken \notin [owner : Subjects, session : Sessions, fresh : BOOLEAN] \cup Sessions
    /\ MaxFaults \in Nat

VARIABLES
    cookie,     \* the subject of each browser's cookie, or NoSubject
    tokens,     \* _tokens: the token of each subject, or NoToken
    opened,     \* sessions opened at Keycloak
    ended,      \* sessions whose refresh token Keycloak takes no longer
    phase,      \* where each request stands
    browser,    \* the browser it comes from
    subject,    \* the sub claim of its principal
    held,       \* the token it has in hand
    faults,
    disturbed,  \* history: a sign-out or a fault came between its steps
    settled     \* history: the subject signed out while no refresh was under way

keycloak == <<opened, ended>>
history == <<disturbed, settled>>
vars == <<cookie, tokens, opened, ended, phase, browser, subject, held, faults,
          disturbed, settled>>

Token == [owner : Subjects, session : Sessions, fresh : BOOLEAN]

WithFresh(token, f) == [owner |-> token.owner, session |-> token.session, fresh |-> f]

Pages == {"call", "refresh", "store", "send"}
SignOuts == {"signout", "revoke", "clear"}
Answers == {"ok", "challenge", "error", "dropped", "signedout"}

\* The api has refused a call: a page that shows todos fails, and the create
\* form, which does not look at the status, goes on without its todo.
Refused == {"error", "dropped"}

\* What a user asks for: a page that calls the api, or a sign-out.
Asked == {"call", "signout"}

InProgress(r) == phase[r] \in Pages \cup SignOuts

\* The requests of a subject that may still store a token for it.
Refreshing(u) == {r \in Requests : subject[r] = u /\ phase[r] \in {"refresh", "store"}}

-----------------------------------------------------------------------------
Init ==
    /\ cookie = [b \in Browsers |-> NoSubject]
    /\ tokens = [u \in Subjects |-> NoToken]
    /\ opened = {} /\ ended = {}
    /\ phase = [r \in Requests |-> "idle"]
    /\ browser = [r \in Requests |-> NoBrowser]
    /\ subject = [r \in Requests |-> NoSubject]
    /\ held = [r \in Requests |-> NoToken]
    /\ faults = 0
    /\ disturbed = [r \in Requests |-> FALSE]
    /\ settled = [u \in Subjects |-> FALSE]

(* ServerSideTokenStore *)

\* Mutant: the key is not the subject of the principal.
StoredForAll(u, token) == [v \in Subjects |-> token]

Stored(u, token) == [tokens EXCEPT ![u] = token]

\* Mutants: the store is emptied; the store keeps the token.
ClearedForAll(u) == [v \in Subjects |-> NoToken]
KeptInStore(u) == tokens

Cleared(u) == [tokens EXCEPT ![u] = NoToken]

(* Sign-in *)

\* The callback of Keycloak: TokenValidated stores the token of the new
\* session, whatever the store holds, and the cookie is issued.
TokenValidated(b, u, s) ==
    /\ s \notin opened
    /\ opened' = opened \cup {s}
    /\ tokens' = Stored(u, [owner |-> u, session |-> s, fresh |-> TRUE])
    /\ cookie' = [cookie EXCEPT ![b] = u]
    /\ settled' = [settled EXCEPT ![u] = FALSE]
    /\ UNCHANGED <<ended, phase, browser, subject, held, faults, disturbed>>

(* A page that calls the api *)

\* A request with a cookie arrives; ValidatePrincipal rejects its principal if
\* the store has no token, and the request is anonymous then: a page that
\* requires a user sends it to sign in, a sign-out fails.
ValidatePrincipal(r, b) ==
    /\ phase[r] = "idle" /\ cookie[b] # NoSubject
    /\ browser' = [browser EXCEPT ![r] = b]
    /\ subject' = [subject EXCEPT ![r] = cookie[b]]
    /\ \/ /\ tokens[cookie[b]] = NoToken
          /\ \E answer \in {"challenge", "error"} : phase' = [phase EXCEPT ![r] = answer]
          /\ disturbed' = [disturbed EXCEPT ![r] = TRUE]
       \/ /\ tokens[cookie[b]] # NoToken
          /\ \E first \in Asked : phase' = [phase EXCEPT ![r] = first]
          /\ UNCHANGED disturbed
    /\ UNCHANGED <<cookie, tokens, keycloak, held, faults, settled>>

\* The access token handler asks the store for the token again.  Without one
\* the api is called without, and answers 401.
GetToken(r) ==
    LET token == tokens[subject[r]]
    IN  /\ phase[r] = "call"
        /\ \/ /\ token = NoToken
              /\ \E answer \in Refused : phase' = [phase EXCEPT ![r] = answer]
              /\ UNCHANGED held
           \/ /\ token # NoToken
              /\ held' = [held EXCEPT ![r] = token]
              /\ phase' = [phase EXCEPT ![r] = IF token.fresh THEN "send" ELSE "refresh"]
        /\ UNCHANGED <<cookie, tokens, keycloak, browser, subject, faults, history>>

\* Keycloak answers the refresh; without a new token the api answers 401.
Refresh(r) ==
    /\ phase[r] = "refresh"
    /\ \/ /\ held[r].session \in ended
          /\ \E answer \in Refused : phase' = [phase EXCEPT ![r] = answer]
          /\ UNCHANGED held
       \/ /\ held[r].session \notin ended
          /\ phase' = [phase EXCEPT ![r] = "store"]
          /\ held' = [held EXCEPT ![r] = WithFresh(held[r], TRUE)]
    /\ UNCHANGED <<cookie, tokens, keycloak, browser, subject, faults, history>>

\* Mutant: the refreshed token is stored when the api has answered.
StoresWhenSent(r) ==
    /\ phase[r] = "send"
    /\ phase' = [phase EXCEPT ![r] = "ok"]
    /\ tokens' = Stored(subject[r], held[r])
    /\ UNCHANGED <<cookie, keycloak, browser, subject, held, faults, history>>

\* The refreshed token is stored, whatever the store holds by now.
StoreToken(r) ==
    /\ phase[r] = "store"
    /\ tokens' = Stored(subject[r], held[r])
    /\ phase' = [phase EXCEPT ![r] = "send"]
    /\ UNCHANGED <<cookie, keycloak, browser, subject, held, faults, history>>

\* The api takes an access token that has not expired.
Send(r) ==
    /\ phase[r] = "send"
    /\ phase' = [phase EXCEPT ![r] = "ok"]
    /\ UNCHANGED <<cookie, tokens, keycloak, browser, subject, held, faults, history>>

(* Sign-out: SigningOut of CookieEvents, which revokes the refresh token *)

\* Mutant: a token that the store no longer has is revoked.
RevokesAnyway(r) ==
    /\ phase[r] = "signout"
    /\ held' = [held EXCEPT ![r] = tokens[subject[r]]]
    /\ phase' = [phase EXCEPT ![r] = "revoke"]
    /\ UNCHANGED <<cookie, tokens, keycloak, browser, subject, faults, history>>

\* The token to revoke is read from the store; without one the cookie goes.
SigningOut(r) ==
    /\ phase[r] = "signout"
    /\ held' = [held EXCEPT ![r] = tokens[subject[r]]]
    /\ phase' = [phase EXCEPT ![r] = IF tokens[subject[r]] = NoToken THEN "signedout" ELSE "revoke"]
    /\ cookie' = IF tokens[subject[r]] = NoToken
                 THEN [cookie EXCEPT ![browser[r]] = NoSubject] ELSE cookie
    /\ UNCHANGED <<tokens, keycloak, browser, subject, faults, history>>

\* Keycloak ends the session; if it cannot be reached, the sign-out goes on.
Revoke(r) ==
    /\ phase[r] = "revoke"
    /\ phase' = [phase EXCEPT ![r] = "clear"]
    /\ \/ /\ ended' = ended \cup {held[r].session}
          /\ UNCHANGED faults
       \/ /\ faults < MaxFaults /\ faults' = faults + 1
          /\ UNCHANGED ended
    /\ UNCHANGED <<cookie, tokens, opened, browser, subject, held, history>>

\* The store forgets the subject, and the answer takes the cookie away.
ClearToken(r) ==
    LET u == subject[r]
    IN  /\ phase[r] = "clear"
        /\ tokens' = Cleared(u)
        /\ cookie' = [cookie EXCEPT ![browser[r]] = NoSubject]
        /\ phase' = [phase EXCEPT ![r] = "signedout"]
        /\ disturbed' = [q \in Requests |-> disturbed[q] \/ (subject[q] = u /\ InProgress(q))]
        /\ settled' = [settled EXCEPT ![u] = Refreshing(u) = {}]
        /\ UNCHANGED <<keycloak, browser, subject, held, faults>>

(* The environment *)

\* The access token of a subject is about to expire.
Expire(u) ==
    /\ tokens[u] # NoToken /\ tokens[u].fresh
    /\ tokens' = [tokens EXCEPT ![u] = WithFresh(tokens[u], FALSE)]
    /\ UNCHANGED <<cookie, keycloak, phase, browser, subject, held, faults, history>>

\* Keycloak ends a session by itself.
SessionEnds(s) ==
    /\ s \in opened \ ended /\ faults < MaxFaults
    /\ faults' = faults + 1
    /\ ended' = ended \cup {s}
    /\ UNCHANGED <<cookie, tokens, opened, phase, browser, subject, held, history>>

\* Keycloak cannot be reached for a refresh.
RefreshFails(r) ==
    /\ phase[r] = "refresh" /\ faults < MaxFaults
    /\ faults' = faults + 1
    /\ \E answer \in Refused : phase' = [phase EXCEPT ![r] = answer]
    /\ disturbed' = [disturbed EXCEPT ![r] = TRUE]
    /\ UNCHANGED <<cookie, tokens, keycloak, browser, subject, held, settled>>

\* The api cannot be reached, or fails for a reason of its own.
ApiFails(r) ==
    /\ phase[r] = "send" /\ faults < MaxFaults
    /\ faults' = faults + 1
    /\ \E answer \in Refused : phase' = [phase EXCEPT ![r] = answer]
    /\ disturbed' = [disturbed EXCEPT ![r] = TRUE]
    /\ UNCHANGED <<cookie, tokens, keycloak, browser, subject, held, settled>>

\* The machine stops and starts again: the store is empty, requests are lost.
Restart ==
    /\ faults < MaxFaults
    /\ faults' = faults + 1
    /\ tokens' = [u \in Subjects |-> NoToken]
    /\ phase' = [r \in Requests |-> IF InProgress(r) THEN "error" ELSE phase[r]]
    /\ disturbed' = [r \in Requests |-> disturbed[r] \/ InProgress(r)]
    /\ UNCHANGED <<cookie, keycloak, browser, subject, held, settled>>

-----------------------------------------------------------------------------
Page(r) == GetToken(r) \/ Refresh(r) \/ StoreToken(r) \/ Send(r)
SignOut(r) == SigningOut(r) \/ Revoke(r) \/ ClearToken(r)

Next ==
    \/ \E b \in Browsers, u \in Subjects, s \in Sessions : TokenValidated(b, u, s)
    \/ \E r \in Requests, b \in Browsers : ValidatePrincipal(r, b)
    \/ \E r \in Requests : Page(r) \/ SignOut(r) \/ RefreshFails(r) \/ ApiFails(r)
    \/ \E u \in Subjects : Expire(u)
    \/ \E s \in Sessions : SessionEnds(s)
    \/ Restart

Spec == Init /\ [][Next]_vars

-----------------------------------------------------------------------------
(* Properties *)

\* Every variable keeps its shape.
TypeOK ==
    /\ cookie \in [Browsers -> Subjects \cup {NoSubject}]
    /\ tokens \in [Subjects -> Token \cup {NoToken}]
    /\ opened \in SUBSET Sessions /\ ended \in SUBSET Sessions
    /\ phase \in [Requests -> {"idle"} \cup Pages \cup SignOuts \cup Answers]
    /\ browser \in [Requests -> Browsers \cup {NoBrowser}]
    /\ subject \in [Requests -> Subjects \cup {NoSubject}]
    /\ \A r \in Requests : InProgress(r) => subject[r] \in Subjects /\ browser[r] \in Browsers
    /\ held \in [Requests -> Token \cup {NoToken}]
    /\ \A r \in Requests :
            phase[r] \in {"refresh", "store", "send", "revoke", "clear"} => held[r] # NoToken
    /\ faults \in 0..MaxFaults
    /\ disturbed \in [Requests -> BOOLEAN]
    /\ settled \in [Subjects -> BOOLEAN]

\* Whatever sign-ins, refreshes and sign-outs overlap, the store keeps under a
\* subject, and a request carries to the api, only a token of that subject.
OwnToken ==
    /\ \A u \in Subjects : tokens[u] # NoToken => tokens[u].owner = u
    /\ \A r \in Requests : held[r] # NoToken => held[r].owner = subject[r]

\* A request whose cookie was accepted fails only if, between its steps, its
\* subject signed out in some browser or a fault came, or if Keycloak has ended
\* the session of the token it found: never because of another subject, of a
\* sign-in elsewhere, or of a refresh that ran at the same time.  Nor does the
\* create form lose a todo for any other reason.
ErrorsHaveCause ==
    \A r \in Requests :
        phase[r] \in Refused /\ ~disturbed[r] => held[r] # NoToken /\ held[r].session \in ended

\* A sign-out that meets no refresh under way signs the subject out of every
\* browser until it signs in again: nothing puts a token back into the store.
SignOutReachesAll ==
    \A u \in Subjects : settled[u] => tokens[u] = NoToken

\* The sessions of SessionLifecycle: the one in the store, and those of the
\* tokens that requests are refreshing.
Current == [u \in Subjects |-> IF tokens[u] = NoToken THEN NoToken ELSE tokens[u].session]
Carried == [u \in Subjects |-> {held[r].session : r \in Refreshing(u)}]

Lifecycle == INSTANCE SessionLifecycle
                 WITH None <- NoToken, current <- Current, carried <- Carried

\* Under all interleavings of requests, the store keeps what SessionLifecycle
\* promises: a session never moves to another subject, and one that is signed
\* out comes back at most through a refresh that had begun before.
ImplementsLifecycle == Lifecycle!Spec
==============================================================================
