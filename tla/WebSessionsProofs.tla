-------------------------- MODULE WebSessionsProofs --------------------------
(***************************************************************************)
(* Proofs about WebSessions, for any number of subjects, browsers,         *)
(* requests and faults.                                                    *)
(*                                                                         *)
(* OwnToken is kept by every step.  SignOutReachesAll needs that no refresh *)
(* is under way for a subject that has settled, and ErrorsHaveCause that a *)
(* request which has not asked for its token yet will find one unless it   *)
(* was disturbed: SInv adds both.                                          *)
(***************************************************************************)
EXTENDS WebSessions, TLAPS

\* Nobody refreshes for a subject that has settled.
NoneRefreshing ==
    \A u \in Subjects, r \in Requests :
        settled[u] /\ subject[r] = u => phase[r] \notin {"refresh", "store"}

\* An undisturbed request that is to ask for its token will find it.
TokenAwaits ==
    \A r \in Requests : phase[r] = "call" /\ ~disturbed[r] => tokens[subject[r]] # NoToken

\* A request slot that is idle holds nothing.
IdleIsBlank == \A r \in Requests : phase[r] = "idle" => held[r] = NoToken /\ ~disturbed[r]

\* The inductive invariant.
SInv == /\ TypeOK /\ OwnToken /\ SignOutReachesAll /\ ErrorsHaveCause
        /\ NoneRefreshing /\ TokenAwaits /\ IdleIsBlank

\* A record of Token is not the null.
LEMMA TokenShape ==
    ASSUME NEW token \in Token, NEW f \in BOOLEAN
    PROVE  /\ WithFresh(token, f) \in Token
           /\ WithFresh(token, f).owner = token.owner
           /\ WithFresh(token, f).session = token.session
BY DEF Token, WithFresh

\* The phases of requests, which the steps below move along.
LEMMA Phases ==
    ASSUME SInv, NEW r \in Requests
    PROVE  /\ InProgress(r) => subject[r] \in Subjects /\ browser[r] \in Browsers
           /\ phase[r] \in {"refresh", "store", "send", "revoke", "clear"} => held[r] \in Token
BY DEF SInv, TypeOK

-----------------------------------------------------------------------------
\* The initial state satisfies the invariant.
LEMMA InitSInv == Init => SInv
BY WebSessionsAssumption
DEF Init, SInv, TypeOK, OwnToken, SignOutReachesAll, NoneRefreshing, TokenAwaits, IdleIsBlank,
    ErrorsHaveCause, Refused, InProgress, Pages, SignOuts, Answers

\* A sign-in puts a token of the subject into the store and unsettles it.
LEMMA SignInInv ==
    ASSUME SInv, NEW b \in Browsers, NEW u \in Subjects, NEW s \in Sessions,
           TokenValidated(b, u, s)
    PROVE  SInv'
<1> DEFINE token == [owner |-> u, session |-> s, fresh |-> TRUE]
<1>1. token \in Token /\ token.owner = u
  BY DEF Token
<1>2. token # NoToken
  BY <1>1, WebSessionsAssumption DEF Token
<1>3. tokens' = [tokens EXCEPT ![u] = token]
  BY DEF TokenValidated, Stored
<1> HIDE DEF token
<1>4. TypeOK'
  BY <1>1, <1>3 DEF TokenValidated, SInv, TypeOK, InProgress
<1>5. OwnToken'
  BY <1>1, <1>3 DEF TokenValidated, SInv, TypeOK, OwnToken
<1>6. SignOutReachesAll' /\ NoneRefreshing'
  BY <1>1, <1>3 DEF TokenValidated, SInv, TypeOK, SignOutReachesAll, NoneRefreshing
<1>7. TokenAwaits'
  <2> SUFFICES ASSUME NEW r \in Requests, phase[r] = "call", ~disturbed[r]
               PROVE  tokens'[subject[r]] # NoToken
    BY DEF TokenValidated, TokenAwaits
  <2>1. subject[r] \in Subjects /\ tokens[subject[r]] # NoToken
    BY Phases DEF SInv, TokenAwaits, InProgress, Pages
  <2> QED BY <1>2, <1>3, <2>1 DEF SInv, TypeOK
<1>8. ErrorsHaveCause' /\ IdleIsBlank'
  BY DEF TokenValidated, SInv, ErrorsHaveCause, Refused, IdleIsBlank
<1> QED BY <1>4, <1>5, <1>6, <1>7, <1>8 DEF SInv

\* A request that arrives has a token in the store, or is rejected.
LEMMA ArrivalInv ==
    ASSUME SInv, NEW r \in Requests, NEW b \in Browsers, ValidatePrincipal(r, b)
    PROVE  SInv'
<1>1. cookie[b] \in Subjects /\ held[r] = NoToken
  BY DEF ValidatePrincipal, Asked, SInv, TypeOK, IdleIsBlank
<1>2. /\ phase' = [phase EXCEPT ![r] = phase'[r]]
      /\ phase'[r] \in {"challenge", "error", "call", "signout"}
      /\ disturbed' = [disturbed EXCEPT ![r] = disturbed'[r]] /\ disturbed'[r] \in BOOLEAN
      /\ phase'[r] \in {"challenge", "error"} => disturbed'[r]
      /\ phase'[r] \in {"call", "signout"} => tokens[cookie[b]] # NoToken
  BY DEF ValidatePrincipal, Asked, SInv, TypeOK
<1>3. TypeOK'
  BY <1>1, <1>2 DEF ValidatePrincipal, Asked, keycloak, SInv, TypeOK, InProgress, Pages, SignOuts, Answers, Refused
<1>4. OwnToken'
  BY <1>1, <1>2 DEF ValidatePrincipal, Asked, SInv, TypeOK, OwnToken
<1>5. SignOutReachesAll' /\ NoneRefreshing'
  BY <1>1, <1>2 DEF ValidatePrincipal, Asked, SInv, TypeOK, SignOutReachesAll, NoneRefreshing
<1>6. TokenAwaits'
  BY <1>1, <1>2 DEF ValidatePrincipal, Asked, SInv, TypeOK, TokenAwaits
<1>7. ErrorsHaveCause' /\ IdleIsBlank'
  BY <1>1, <1>2 DEF ValidatePrincipal, Asked, keycloak, SInv, TypeOK, ErrorsHaveCause, Refused, IdleIsBlank
<1> QED BY <1>3, <1>4, <1>5, <1>6, <1>7 DEF SInv

\* The steps of a page that read or refresh a token.
LEMMA PageReadInv ==
    ASSUME SInv, NEW r \in Requests, GetToken(r) \/ Refresh(r) \/ RefreshFails(r) \/ ApiFails(r)
    PROVE  SInv'
<1>1. subject[r] \in Subjects
  BY Phases DEF GetToken, Refresh, RefreshFails, ApiFails, InProgress, Pages
<1>2. CASE GetToken(r)
  <2>1. CASE tokens[subject[r]] = NoToken
    <3>1. disturbed[r]
      BY <1>2, <2>1 DEF GetToken, SInv, TokenAwaits
    <3>2. TypeOK' /\ OwnToken'
      BY <1>2, <2>1 DEF GetToken, keycloak, history, SInv, TypeOK, OwnToken, InProgress,
                        Pages, SignOuts, Answers, Refused
    <3> QED
      BY <1>2, <2>1, <3>1, <3>2
      DEF GetToken, keycloak, history, SInv, TypeOK, SignOutReachesAll, NoneRefreshing,
          TokenAwaits, IdleIsBlank, ErrorsHaveCause, Refused
  <2>2. CASE tokens[subject[r]] # NoToken
    <3> DEFINE token == tokens[subject[r]]
    <3>1. token \in Token /\ token # NoToken /\ token.owner = subject[r] /\ ~settled[subject[r]]
      BY <1>1, <2>2 DEF SInv, TypeOK, OwnToken, SignOutReachesAll
    <3>2. /\ held' = [held EXCEPT ![r] = token]
          /\ phase' = [phase EXCEPT ![r] = phase'[r]] /\ phase'[r] \in {"send", "refresh"}
          /\ phase[r] = "call"
          /\ UNCHANGED <<cookie, tokens, opened, ended, browser, subject, faults, disturbed, settled>>
      BY <1>2, <2>2 DEF GetToken, keycloak, history, SInv, TypeOK
    <3> HIDE DEF token
    <3>3. TypeOK'
      BY <3>1, <3>2 DEF SInv, TypeOK, InProgress, Pages, SignOuts, Answers, Refused
    <3>4. OwnToken'
      BY <3>1, <3>2 DEF SInv, TypeOK, OwnToken
    <3>5. SignOutReachesAll' /\ NoneRefreshing'
      BY <3>1, <3>2 DEF SInv, TypeOK, SignOutReachesAll, NoneRefreshing
    <3>6. TokenAwaits' /\ IdleIsBlank' /\ ErrorsHaveCause'
      BY <3>1, <3>2 DEF SInv, TypeOK, TokenAwaits, IdleIsBlank, ErrorsHaveCause, Refused
    <3> QED BY <3>3, <3>4, <3>5, <3>6 DEF SInv
  <2> QED BY <2>1, <2>2
<1>3. CASE Refresh(r)
  <2>1. held[r] \in Token
    BY <1>3, Phases DEF Refresh
  <2>2. CASE held[r].session \in ended
    <3>1. held[r] # NoToken
      BY <2>1, WebSessionsAssumption DEF Token
    <3>2. TypeOK' /\ OwnToken'
      BY <1>3, <2>2 DEF Refresh, keycloak, history, SInv, TypeOK, OwnToken, InProgress,
                        Pages, SignOuts, Answers, Refused
    <3> QED
      BY <1>3, <2>2, <3>1, <3>2
      DEF Refresh, keycloak, history, SInv, TypeOK, SignOutReachesAll, NoneRefreshing,
          TokenAwaits, IdleIsBlank, ErrorsHaveCause, Refused
  <2>3. CASE held[r].session \notin ended
    <3> DEFINE token == WithFresh(held[r], TRUE)
    <3>1. token \in Token /\ token.owner = subject[r]
      BY <2>1, TokenShape, WebSessionsAssumption DEF SInv, OwnToken, Token
    <3>2. token # NoToken
      BY <3>1, WebSessionsAssumption DEF Token
    <3>3. /\ held' = [held EXCEPT ![r] = token]
          /\ phase' = [phase EXCEPT ![r] = "store"] /\ phase[r] = "refresh"
          /\ UNCHANGED <<cookie, tokens, opened, ended, browser, subject, faults, disturbed, settled>>
      BY <1>3, <2>3 DEF Refresh, keycloak, history
    <3> HIDE DEF token
    <3>4. TypeOK'
      BY <3>1, <3>2, <3>3 DEF SInv, TypeOK, InProgress, Pages, SignOuts, Answers, Refused
    <3>5. OwnToken'
      BY <3>1, <3>3 DEF SInv, TypeOK, OwnToken
    <3>6. SignOutReachesAll' /\ NoneRefreshing'
      BY <3>3 DEF SInv, TypeOK, SignOutReachesAll, NoneRefreshing
    <3>7. TokenAwaits' /\ IdleIsBlank' /\ ErrorsHaveCause'
      BY <3>3 DEF SInv, TypeOK, TokenAwaits, IdleIsBlank, ErrorsHaveCause, Refused
    <3> QED BY <3>4, <3>5, <3>6, <3>7 DEF SInv
  <2> QED BY <2>2, <2>3
<1>4. CASE RefreshFails(r) \/ ApiFails(r)
  <2>1. /\ phase[r] \in {"refresh", "send"}
        /\ phase' = [phase EXCEPT ![r] = phase'[r]] /\ phase'[r] \in Refused
        /\ disturbed' = [disturbed EXCEPT ![r] = TRUE]
        /\ faults' \in 0..MaxFaults
        /\ UNCHANGED <<cookie, tokens, opened, ended, browser, subject, held, settled>>
    BY <1>4, WebSessionsAssumption DEF RefreshFails, ApiFails, keycloak, SInv, TypeOK
  <2>2. TypeOK' /\ OwnToken'
    BY <2>1 DEF SInv, TypeOK, OwnToken, InProgress, Pages, SignOuts, Answers, Refused
  <2> QED
    BY <2>1, <2>2
    DEF SInv, TypeOK, SignOutReachesAll, NoneRefreshing, TokenAwaits, IdleIsBlank,
        ErrorsHaveCause, Refused
<1> QED BY <1>2, <1>3, <1>4

\* The steps of a page that store a token or call the api with it.
LEMMA PageWriteInv ==
    ASSUME SInv, NEW r \in Requests, StoreToken(r) \/ Send(r)
    PROVE  SInv'
<1>1. CASE StoreToken(r)
  <2>1. subject[r] \in Subjects /\ held[r] \in Token
    BY <1>1, Phases DEF StoreToken, InProgress, Pages
  <2>2. held[r] # NoToken /\ held[r].owner = subject[r]
    BY <2>1, WebSessionsAssumption DEF SInv, OwnToken, Token
  <2>3. ~settled[subject[r]]
    BY <1>1, <2>1 DEF StoreToken, SInv, NoneRefreshing
  <2>4. tokens' = [tokens EXCEPT ![subject[r]] = held[r]]
    BY <1>1 DEF StoreToken, Stored
  <2>5. TypeOK'
    BY <1>1, <2>1, <2>4 DEF StoreToken, keycloak, history, SInv, TypeOK, InProgress, Pages,
                            SignOuts, Answers, Refused
  <2>6. OwnToken'
    BY <1>1, <2>2, <2>4 DEF StoreToken, SInv, TypeOK, OwnToken
  <2>7. SignOutReachesAll' /\ NoneRefreshing'
    BY <1>1, <2>1, <2>3, <2>4
    DEF StoreToken, history, SInv, TypeOK, SignOutReachesAll, NoneRefreshing
  <2>8. TokenAwaits'
    <3> SUFFICES ASSUME NEW q \in Requests, phase'[q] = "call", ~disturbed[q]
                 PROVE  tokens'[subject[q]] # NoToken
      BY <1>1 DEF StoreToken, history, TokenAwaits
    <3>1. phase[q] = "call"
      BY <1>1 DEF StoreToken, SInv, TypeOK
    <3>2. subject[q] \in Subjects /\ tokens[subject[q]] # NoToken
      BY <3>1, Phases DEF SInv, TokenAwaits, InProgress, Pages
    <3> QED BY <2>2, <2>4, <3>2 DEF SInv, TypeOK
  <2>9. IdleIsBlank' /\ ErrorsHaveCause'
    BY <1>1 DEF StoreToken, keycloak, history, SInv, TypeOK, IdleIsBlank, ErrorsHaveCause, Refused
  <2> QED BY <2>5, <2>6, <2>7, <2>8, <2>9 DEF SInv
<1>2. CASE Send(r)
  <2>1. TypeOK' /\ OwnToken'
    BY <1>2 DEF Send, keycloak, history, SInv, TypeOK, OwnToken, InProgress, Pages, SignOuts, Answers, Refused
  <2> QED
    BY <1>2, <2>1
    DEF Send, keycloak, history, SInv, TypeOK, SignOutReachesAll, NoneRefreshing, TokenAwaits,
        IdleIsBlank, ErrorsHaveCause, Refused
<1> QED BY <1>1, <1>2

\* The steps of a sign-out.  SigningOut holds a token of its subject, and
\* ClearToken settles the subject only if nobody refreshes for it.
LEMMA SignOutInv ==
    ASSUME SInv, NEW r \in Requests, SigningOut(r) \/ Revoke(r) \/ ClearToken(r)
    PROVE  SInv'
<1>1. subject[r] \in Subjects /\ browser[r] \in Browsers
  BY Phases DEF SigningOut, Revoke, ClearToken, InProgress, SignOuts
<1>2. CASE SigningOut(r)
  <2>1. /\ phase[r] = "signout" /\ phase' = [phase EXCEPT ![r] = phase'[r]]
        /\ phase'[r] \in {"signedout", "revoke"}
        /\ phase'[r] = "revoke" => tokens[subject[r]] # NoToken
        /\ held' = [held EXCEPT ![r] = tokens[subject[r]]]
        /\ cookie' \in [Browsers -> Subjects \cup {NoSubject}]
        /\ UNCHANGED <<tokens, opened, ended, browser, subject, faults, disturbed, settled>>
    BY <1>1, <1>2 DEF SigningOut, keycloak, history, SInv, TypeOK
  <2>2. TypeOK'
    BY <1>1, <2>1 DEF SInv, TypeOK, InProgress, Pages, SignOuts, Answers, Refused
  <2>3. OwnToken'
    BY <1>1, <2>1 DEF SInv, TypeOK, OwnToken
  <2>4. SignOutReachesAll' /\ NoneRefreshing'
    BY <2>1 DEF SInv, TypeOK, SignOutReachesAll, NoneRefreshing
  <2>5. TokenAwaits' /\ IdleIsBlank' /\ ErrorsHaveCause'
    BY <2>1 DEF SInv, TypeOK, TokenAwaits, IdleIsBlank, ErrorsHaveCause, Refused
  <2> QED BY <2>2, <2>3, <2>4, <2>5 DEF SInv
<1>3. CASE Revoke(r)
  <2>1. held[r] \in Token
    BY <1>3, Phases DEF Revoke
  <2>2. /\ ended \subseteq ended' /\ ended' \in SUBSET Sessions
        /\ faults' \in 0..MaxFaults
    BY <1>3, <2>1, WebSessionsAssumption DEF Revoke, SInv, TypeOK, Token
  <2>3. TypeOK' /\ OwnToken'
    BY <1>3, <2>2 DEF Revoke, history, SInv, TypeOK, OwnToken, InProgress, Pages, SignOuts, Answers, Refused
  <2> QED
    BY <1>3, <2>2, <2>3
    DEF Revoke, history, SInv, TypeOK, SignOutReachesAll, NoneRefreshing, TokenAwaits,
        IdleIsBlank, ErrorsHaveCause, Refused
<1>4. CASE ClearToken(r)
  <2> DEFINE u == subject[r]
  <2>1. /\ phase[r] = "clear" /\ phase' = [phase EXCEPT ![r] = "signedout"]
        /\ tokens' = [tokens EXCEPT ![u] = NoToken]
        /\ cookie' = [cookie EXCEPT ![browser[r]] = NoSubject]
        /\ disturbed' = [q \in Requests |-> disturbed[q] \/ (subject[q] = u /\ InProgress(q))]
        /\ settled' = [settled EXCEPT ![u] = Refreshing(u) = {}]
        /\ UNCHANGED <<opened, ended, browser, subject, held, faults>>
    BY <1>4 DEF ClearToken, Cleared, keycloak
  <2>2. \A q \in Requests : disturbed'[q] \in BOOLEAN /\ (disturbed[q] => disturbed'[q])
    BY <2>1 DEF SInv, TypeOK
  <2>3. TypeOK'
    <3>1. disturbed' \in [Requests -> BOOLEAN]
      BY <2>1, <2>2
    <3>2. settled' \in [Subjects -> BOOLEAN]
      BY <2>1 DEF SInv, TypeOK
    <3>3. /\ cookie' \in [Browsers -> Subjects \cup {NoSubject}]
          /\ tokens' \in [Subjects -> Token \cup {NoToken}]
      BY <2>1 DEF SInv, TypeOK
    <3> QED
      BY <2>1, <3>1, <3>2, <3>3 DEF SInv, TypeOK, InProgress, Pages, SignOuts, Answers, Refused
  <2>4. OwnToken'
    BY <2>1 DEF SInv, TypeOK, OwnToken
  <2>5. SignOutReachesAll'
    <3> SUFFICES ASSUME NEW v \in Subjects, settled'[v] PROVE tokens'[v] = NoToken
      BY DEF SignOutReachesAll
    <3>1. CASE v = u
      BY <2>1, <3>1 DEF SInv, TypeOK
    <3>2. CASE v # u
      BY <2>1, <3>2 DEF SInv, TypeOK, SignOutReachesAll
    <3> QED BY <3>1, <3>2
  <2>6. NoneRefreshing'
    <3> SUFFICES ASSUME NEW v \in Subjects, NEW q \in Requests, settled'[v], subject[q] = v
                 PROVE  phase'[q] \notin {"refresh", "store"}
      BY <2>1 DEF NoneRefreshing
    <3>1. phase[q] \notin {"refresh", "store"}
      <4>1. CASE v = u
        BY <1>1, <2>1, <4>1 DEF Refreshing, SInv, TypeOK
      <4>2. CASE v # u
        BY <2>1, <4>2 DEF SInv, TypeOK, NoneRefreshing
      <4> QED BY <4>1, <4>2
    <3> QED BY <2>1, <3>1 DEF SInv, TypeOK
  <2>7. TokenAwaits'
    <3> SUFFICES ASSUME NEW q \in Requests, phase'[q] = "call", ~disturbed'[q]
                 PROVE  tokens'[subject[q]] # NoToken
      BY <2>1 DEF TokenAwaits
    <3>1. phase[q] = "call" /\ ~disturbed[q]
      BY <2>1, <2>2 DEF SInv, TypeOK
    <3>2. subject[q] # u
      BY <2>1, <3>1 DEF InProgress, Pages
    <3>3. subject[q] \in Subjects /\ tokens[subject[q]] # NoToken
      BY <3>1, Phases DEF SInv, TokenAwaits, InProgress, Pages
    <3> QED BY <2>1, <3>2, <3>3 DEF SInv, TypeOK
  <2>8. IdleIsBlank'
    BY <2>1 DEF SInv, TypeOK, IdleIsBlank, InProgress, Pages, SignOuts
  <2>9. ErrorsHaveCause'
    BY <2>1, <2>2 DEF SInv, TypeOK, ErrorsHaveCause, Refused
  <2> QED BY <2>3, <2>4, <2>5, <2>6, <2>7, <2>8, <2>9 DEF SInv
<1> QED BY <1>2, <1>3, <1>4

\* The steps of the environment.
LEMMA EnvironmentInv ==
    ASSUME SInv,
           (\E u \in Subjects : Expire(u)) \/ (\E s \in Sessions : SessionEnds(s)) \/ Restart
    PROVE  SInv'
<1>1. ASSUME NEW u \in Subjects, Expire(u) PROVE SInv'
  <2> DEFINE token == WithFresh(tokens[u], FALSE)
  <2>1. tokens[u] \in Token
    BY <1>1 DEF Expire, SInv, TypeOK
  <2>2. token \in Token /\ token.owner = tokens[u].owner
    BY <2>1, TokenShape
  <2>3. token # NoToken
    BY <2>2, WebSessionsAssumption DEF Token
  <2>4. /\ tokens' = [tokens EXCEPT ![u] = token] /\ tokens[u] # NoToken
        /\ UNCHANGED <<cookie, opened, ended, phase, browser, subject, held, faults,
                       disturbed, settled>>
    BY <1>1 DEF Expire, keycloak, history
  <2> HIDE DEF token
  <2>5. TypeOK'
    BY <2>2, <2>4 DEF SInv, TypeOK, InProgress
  <2>6. OwnToken'
    BY <2>2, <2>4 DEF SInv, TypeOK, OwnToken
  <2>7. SignOutReachesAll' /\ NoneRefreshing'
    BY <2>4 DEF SInv, TypeOK, SignOutReachesAll, NoneRefreshing
  <2>8. TokenAwaits'
    <3> SUFFICES ASSUME NEW q \in Requests, phase[q] = "call", ~disturbed[q]
                 PROVE  tokens'[subject[q]] # NoToken
      BY <2>4 DEF TokenAwaits
    <3>1. subject[q] \in Subjects /\ tokens[subject[q]] # NoToken
      BY Phases DEF SInv, TokenAwaits, InProgress, Pages
    <3> QED BY <2>3, <2>4, <3>1 DEF SInv, TypeOK
  <2>9. IdleIsBlank' /\ ErrorsHaveCause'
    BY <2>4 DEF SInv, IdleIsBlank, ErrorsHaveCause, Refused
  <2> QED BY <2>5, <2>6, <2>7, <2>8, <2>9 DEF SInv
<1>2. ASSUME NEW s \in Sessions, SessionEnds(s) PROVE SInv'
  <2>1. TypeOK'
    BY <1>2, WebSessionsAssumption DEF SessionEnds, history, SInv, TypeOK, InProgress
  <2> QED
    BY <1>2, <2>1
    DEF SessionEnds, history, SInv, OwnToken, SignOutReachesAll, NoneRefreshing, TokenAwaits,
        IdleIsBlank, ErrorsHaveCause, Refused
<1>3. CASE Restart
  <2>1. \A r \in Requests :
           /\ phase'[r] = IF InProgress(r) THEN "error" ELSE phase[r]
           /\ disturbed'[r] = (disturbed[r] \/ InProgress(r))
    BY <1>3 DEF Restart
  <2>2. TypeOK' /\ OwnToken'
    <3>1. phase' \in [Requests -> {"idle"} \cup Pages \cup SignOuts \cup Answers]
      BY <1>3 DEF Restart, SInv, TypeOK, Answers, Refused
    <3>2. disturbed' \in [Requests -> BOOLEAN]
      BY <1>3 DEF Restart, SInv, TypeOK
    <3>3. \A r \in Requests : phase'[r] \notin Pages \cup SignOuts
      BY <2>1 DEF InProgress, Pages, SignOuts
    <3>4. tokens' \in [Subjects -> Token \cup {NoToken}] /\ faults' \in 0..MaxFaults
      BY <1>3, WebSessionsAssumption DEF Restart, SInv, TypeOK
    <3>5. TypeOK'
      BY <1>3, <3>1, <3>2, <3>3, <3>4
      DEF Restart, keycloak, SInv, TypeOK, InProgress, Pages, SignOuts
    <3> QED BY <1>3, <3>5 DEF Restart, SInv, OwnToken
  <2>3. SignOutReachesAll' /\ NoneRefreshing'
    BY <1>3, <2>1 DEF Restart, SInv, SignOutReachesAll, NoneRefreshing
  <2>4. TokenAwaits' /\ IdleIsBlank'
    BY <1>3, <2>1 DEF Restart, SInv, TokenAwaits, IdleIsBlank, InProgress, Pages, SignOuts
  <2>5. ErrorsHaveCause'
    BY <1>3, <2>1 DEF Restart, keycloak, SInv, ErrorsHaveCause, Refused
  <2> QED BY <2>2, <2>3, <2>4, <2>5 DEF SInv
<1> QED BY <1>1, <1>2, <1>3

-----------------------------------------------------------------------------
\* However many requests, sign-ins, sign-outs and faults overlap, SInv holds.
THEOREM Invariant == Spec => []SInv
<1>1. Init => SInv
  BY InitSInv
<1>2. SInv /\ [Next]_vars => SInv'
  <2> SUFFICES ASSUME SInv, [Next]_vars PROVE SInv'
    OBVIOUS
  <2>1. CASE UNCHANGED vars
    BY <2>1
    DEF vars, SInv, TypeOK, OwnToken, SignOutReachesAll, NoneRefreshing, TokenAwaits,
        IdleIsBlank, ErrorsHaveCause, Refused, InProgress
  <2>2. ASSUME NEW b \in Browsers, NEW u \in Subjects, NEW s \in Sessions,
               TokenValidated(b, u, s)
        PROVE  SInv'
    BY <2>2, SignInInv
  <2>3. ASSUME NEW r \in Requests, NEW b \in Browsers, ValidatePrincipal(r, b) PROVE SInv'
    BY <2>3, ArrivalInv
  <2>4. ASSUME NEW r \in Requests, Page(r) \/ SignOut(r) \/ RefreshFails(r) \/ ApiFails(r)
        PROVE  SInv'
    BY <2>4, PageReadInv, PageWriteInv, SignOutInv DEF Page, SignOut
  <2>5. CASE (\E u \in Subjects : Expire(u)) \/ (\E s \in Sessions : SessionEnds(s)) \/ Restart
    BY <2>5, EnvironmentInv
  <2> QED BY <2>1, <2>2, <2>3, <2>4, <2>5 DEF Next
<1> QED BY <1>1, <1>2, PTL DEF Spec

\* Stores and requests hold tokens of their own subject only.
THEOREM TokensAreOwn == Spec => []OwnToken
<1>1. SInv => OwnToken
  BY DEF SInv
<1> QED BY <1>1, Invariant, PTL

\* A request fails only for a sign-out, a fault or an ended session.
THEOREM ErrorsAreExplained == Spec => []ErrorsHaveCause
<1>1. SInv => ErrorsHaveCause
  BY DEF SInv
<1> QED BY <1>1, Invariant, PTL

\* A sign-out that meets no refresh reaches all browsers of the subject.
THEOREM SignOutsSettle == Spec => []SignOutReachesAll
<1>1. SInv => SignOutReachesAll
  BY DEF SInv
<1> QED BY <1>1, Invariant, PTL

\* Every variable keeps its shape.
THEOREM TypeCorrect == Spec => []TypeOK
<1>1. SInv => TypeOK
  BY DEF SInv
<1> QED BY <1>1, Invariant, PTL

-----------------------------------------------------------------------------
(* The refinement of SessionLifecycle. *)

\* Sessions that SessionLifecycle sees are sessions of tokens.
LEMMA Mapped ==
    ASSUME SInv, NEW u \in Subjects
    PROVE  /\ tokens[u] # NoToken => tokens[u] \in Token /\ tokens[u].session \in Sessions
           /\ \A r \in Refreshing(u) :
                 /\ r \in Requests /\ subject[r] = u /\ phase[r] \in {"refresh", "store"}
                 /\ held[r] \in Token /\ held[r].session \in Sessions
BY DEF SInv, TypeOK, Token, Refreshing

\* A step that moves no refresh leaves what refreshes carry.
LEMMA CarriedStays ==
    ASSUME SInv,
           \A q \in Requests :
               \/ phase[q] \notin {"refresh", "store"} /\ phase'[q] \notin {"refresh", "store"}
               \/ /\ phase[q] \in {"refresh", "store"} /\ phase'[q] \in {"refresh", "store"}
                  /\ subject'[q] = subject[q] /\ held'[q].session = held[q].session
    PROVE  Carried' = Carried
<1>1. ASSUME NEW u \in Subjects
      PROVE  {held'[q].session : q \in Refreshing(u)'} = {held[q].session : q \in Refreshing(u)}
  <2>1. Refreshing(u)' = Refreshing(u)
    BY DEF Refreshing
  <2>2. \A q \in Refreshing(u) : held'[q].session = held[q].session
    BY DEF Refreshing
  <2> QED BY <2>1, <2>2
<1> QED BY <1>1 DEF Carried

\* What refreshes carry once one of them has ended: its session may be gone.
LEMMA RefreshLeaves ==
    ASSUME SInv, NEW r \in Requests,
           phase[r] \in {"refresh", "store"}, phase'[r] \notin {"refresh", "store"},
           phase' = [phase EXCEPT ![r] = phase'[r]], UNCHANGED <<subject, held>>
    PROVE  /\ subject[r] \in Subjects /\ held[r].session \in Carried[subject[r]]
           /\ held[r].session \in Sessions
           /\ Carried' \in {Carried, [Carried EXCEPT ![subject[r]] = @ \ {held[r].session}]}
<1> DEFINE u == subject[r]
           s == held[r].session
<1>1. u \in Subjects /\ r \in Refreshing(u) /\ s \in Sessions
  BY Phases, Mapped DEF Refreshing, InProgress, Pages
<1>2. Refreshing(u)' = Refreshing(u) \ {r}
  BY DEF SInv, TypeOK, Refreshing
<1>3. ASSUME NEW v \in Subjects, v # u PROVE Refreshing(v)' = Refreshing(v)
  BY <1>3 DEF SInv, TypeOK, Refreshing
<1>4. \A v \in Subjects : Carried[v] = {held[q].session : q \in Refreshing(v)}
  BY DEF Carried
<1>5. Carried' = [v \in Subjects |-> {held[q].session : q \in Refreshing(v)'}]
  BY DEF Carried
<1>6. {held[q].session : q \in Refreshing(u) \ {r}} \in {Carried[u], Carried[u] \ {s}}
  <2>1. CASE \E q \in Refreshing(u) \ {r} : held[q].session = s
    BY <1>1, <1>4, <2>1
  <2>2. CASE ~\E q \in Refreshing(u) \ {r} : held[q].session = s
    BY <1>1, <1>4, <2>2
  <2> QED BY <2>1, <2>2
<1>7. \A v \in Subjects : v # u => Carried'[v] = Carried[v]
  BY <1>3, <1>4, <1>5
<1>8. Carried'[u] \in {Carried[u], Carried[u] \ {s}}
  BY <1>1, <1>2, <1>5, <1>6
<1>9. Carried = [v \in Subjects |-> Carried[v]] /\ Carried' = [v \in Subjects |-> Carried'[v]]
  BY DEF Carried
<1> HIDE DEF u, s
<1>10. Carried' \in {Carried, [Carried EXCEPT ![u] = @ \ {s}]}
  BY <1>1, <1>7, <1>8, <1>9
<1>11. s \in Carried[u]
  BY <1>1, <1>4 DEF s
<1> QED BY <1>1, <1>10, <1>11 DEF u, s

\* A step that leaves the store's sessions, and all refreshes, is a stutter.
LEMMA Stutter ==
    ASSUME SInv, UNCHANGED <<opened, tokens>>,
           \A q \in Requests :
               \/ phase[q] \notin {"refresh", "store"} /\ phase'[q] \notin {"refresh", "store"}
               \/ /\ phase[q] \in {"refresh", "store"} /\ phase'[q] \in {"refresh", "store"}
                  /\ subject'[q] = subject[q] /\ held'[q].session = held[q].session
    PROVE  UNCHANGED Lifecycle!vars
<1>1. Carried' = Carried
  BY CarriedStays
<1>2. Current' = Current
  BY DEF Current
<1> QED BY <1>1, <1>2 DEF Lifecycle!vars

\* A request that is refused while it refreshes gives its session up.
LEMMA RefusedAbandons ==
    ASSUME SInv, NEW r \in Requests, phase[r] = "refresh", phase'[r] \in Refused,
           phase' = [phase EXCEPT ![r] = phase'[r]],
           UNCHANGED <<opened, tokens, subject, held>>
    PROVE  [Lifecycle!Next]_Lifecycle!vars
<1> DEFINE u == subject[r]
           s == held[r].session
<1>1. /\ u \in Subjects /\ s \in Sessions
      /\ Carried' \in {Carried, [Carried EXCEPT ![u] = @ \ {s}]}
  BY RefreshLeaves DEF Refused
<1>2. Current' = Current
  BY DEF Current
<1> HIDE DEF u, s
<1>3. CASE Carried' = Carried
  BY <1>2, <1>3 DEF Lifecycle!vars
<1>4. CASE Carried' = [Carried EXCEPT ![u] = @ \ {s}]
  BY <1>1, <1>2, <1>4 DEF Lifecycle!Next, Lifecycle!Abandon
<1> QED BY <1>1, <1>3, <1>4

\* Every step of the web application is a step of SessionLifecycle, or none.
LEMMA StepRefines ==
    ASSUME SInv, [Next]_vars
    PROVE  [Lifecycle!Next]_Lifecycle!vars
<1>1. CASE UNCHANGED vars
  <2>1. Carried' = Carried /\ Current' = Current
    BY <1>1 DEF vars, Carried, Current, Refreshing
  <2> QED BY <1>1, <2>1 DEF vars, Lifecycle!vars
<1>2. ASSUME NEW b \in Browsers, NEW u \in Subjects, NEW s \in Sessions, TokenValidated(b, u, s)
      PROVE  [Lifecycle!Next]_Lifecycle!vars
  <2> DEFINE token == [owner |-> u, session |-> s, fresh |-> TRUE]
  <2>1. token # NoToken /\ token.session = s
    <3>1. token \in Token
      BY DEF Token
    <3> QED BY <3>1, WebSessionsAssumption DEF Token
  <2>2. tokens' = [tokens EXCEPT ![u] = token] /\ UNCHANGED <<phase, subject, held>>
    BY <1>2 DEF TokenValidated, Stored
  <2> HIDE DEF token
  <2>3. Current' = [Current EXCEPT ![u] = s]
    BY <2>1, <2>2 DEF Current, SInv, TypeOK
  <2>4. Carried' = Carried
    BY <2>2, CarriedStays
  <2> QED BY <1>2, <2>3, <2>4 DEF TokenValidated, Lifecycle!Next, Lifecycle!SignIn
<1>3. ASSUME NEW r \in Requests, NEW b \in Browsers, ValidatePrincipal(r, b)
      PROVE  [Lifecycle!Next]_Lifecycle!vars
  BY <1>3, Stutter DEF ValidatePrincipal, keycloak, Asked, SInv, TypeOK
<1>4. ASSUME NEW r \in Requests, GetToken(r)
      PROVE  [Lifecycle!Next]_Lifecycle!vars
  <2> DEFINE u == subject[r]
             token == tokens[u]
  <2>1. u \in Subjects /\ phase[r] = "call" /\ UNCHANGED <<opened, tokens, subject>>
    BY <1>4, Phases DEF GetToken, keycloak, InProgress, Pages
  <2>2. CASE phase'[r] # "refresh"
    BY <1>4, <2>2, Stutter DEF GetToken, keycloak, Refused, SInv, TypeOK
  <2>3. CASE phase'[r] = "refresh"
    <3>1. /\ token # NoToken /\ held' = [held EXCEPT ![r] = token]
          /\ phase' = [phase EXCEPT ![r] = "refresh"]
      BY <1>4, <2>3 DEF GetToken, Refused, SInv, TypeOK
    <3>2. Refreshing(u)' = Refreshing(u) \cup {r}
      BY <2>1, <3>1 DEF Refreshing, SInv, TypeOK
    <3>3. \A v \in Subjects : v # u => Refreshing(v)' = Refreshing(v)
      BY <2>1, <3>1 DEF Refreshing, SInv, TypeOK
    <3>4. \A v \in Subjects : r \notin Refreshing(v)
      BY <2>1 DEF Refreshing
    <3>5. \A v \in Subjects : \A q \in Refreshing(v) : held'[q] = held[q]
      BY <3>1, <3>4, Mapped DEF SInv, TypeOK
    <3>6. held'[r].session = token.session
      BY <3>1 DEF SInv, TypeOK
    <3>7. ASSUME NEW v \in Subjects, v # u
          PROVE  {held'[q].session : q \in Refreshing(v)'} = {held[q].session : q \in Refreshing(v)}
      BY <3>3, <3>5, <3>7
    <3>8. {held'[q].session : q \in Refreshing(u)'}
             = {held[q].session : q \in Refreshing(u)} \cup {token.session}
      BY <2>1, <3>2, <3>5, <3>6
    <3>9. Carried' = [Carried EXCEPT ![u] = @ \cup {token.session}]
      BY <2>1, <3>7, <3>8 DEF Carried
    <3>10. Current' = Current /\ Current[u] = token.session /\ token.session # NoToken
      BY <2>1, <3>1, Mapped, WebSessionsAssumption DEF Current
    <3> QED
      BY <2>1, <3>9, <3>10 DEF Lifecycle!Next, Lifecycle!BeginRefresh
  <2> QED BY <2>2, <2>3
<1>5. ASSUME NEW r \in Requests, Refresh(r) \/ RefreshFails(r)
      PROVE  [Lifecycle!Next]_Lifecycle!vars
  <2>1. CASE phase'[r] \in Refused
    <3>1. /\ phase[r] = "refresh" /\ phase' = [phase EXCEPT ![r] = phase'[r]]
          /\ UNCHANGED <<opened, tokens, subject, held>>
      BY <1>5, <2>1 DEF Refresh, RefreshFails, keycloak, Refused, SInv, TypeOK
    <3> QED BY <2>1, <3>1, RefusedAbandons
  <2>2. CASE phase'[r] \notin Refused
    <3>1. /\ phase[r] = "refresh" /\ phase' = [phase EXCEPT ![r] = "store"]
          /\ held' = [held EXCEPT ![r] = WithFresh(held[r], TRUE)]
          /\ UNCHANGED <<opened, tokens, subject>>
      BY <1>5, <2>2 DEF Refresh, RefreshFails, keycloak, SInv, TypeOK
    <3>2. held'[r].session = held[r].session
      BY <3>1, Phases, TokenShape DEF SInv, TypeOK
    <3> QED BY <3>1, <3>2, Stutter DEF SInv, TypeOK
  <2> QED BY <2>1, <2>2
<1>6. ASSUME NEW r \in Requests, StoreToken(r)
      PROVE  [Lifecycle!Next]_Lifecycle!vars
  <2> DEFINE u == subject[r]
             s == held[r].session
  <2>1. /\ u \in Subjects /\ s \in Sessions /\ s \in Carried[u]
        /\ Carried' \in {Carried, [Carried EXCEPT ![u] = @ \ {s}]}
    BY <1>6, RefreshLeaves DEF StoreToken, SInv, TypeOK
  <2>2. held[r] # NoToken
    BY <1>6 DEF StoreToken, SInv, TypeOK
  <2>3. Current' = [Current EXCEPT ![u] = s]
    BY <1>6, <2>1, <2>2 DEF StoreToken, Stored, Current, SInv, TypeOK
  <2>4. opened' = opened
    BY <1>6 DEF StoreToken, keycloak
  <2> HIDE DEF u, s
  <2> QED BY <2>1, <2>3, <2>4 DEF Lifecycle!Next, Lifecycle!Store
<1>7. ASSUME NEW r \in Requests, Send(r) \/ ApiFails(r) \/ SigningOut(r) \/ Revoke(r)
      PROVE  [Lifecycle!Next]_Lifecycle!vars
  <2>1. /\ phase[r] \notin {"refresh", "store"} /\ phase'[r] \notin {"refresh", "store"}
        /\ phase' = [phase EXCEPT ![r] = phase'[r]] /\ held' = [held EXCEPT ![r] = held'[r]]
        /\ UNCHANGED <<opened, tokens, subject>>
    BY <1>7 DEF Send, ApiFails, SigningOut, Revoke, keycloak, Refused, SInv, TypeOK
  <2> QED BY <2>1, Stutter DEF SInv, TypeOK
<1>8. ASSUME NEW r \in Requests, ClearToken(r)
      PROVE  [Lifecycle!Next]_Lifecycle!vars
  <2>1. /\ subject[r] \in Subjects /\ phase[r] = "clear"
        /\ phase' = [phase EXCEPT ![r] = "signedout"]
        /\ tokens' = [tokens EXCEPT ![subject[r]] = NoToken]
        /\ UNCHANGED <<opened, subject, held>>
    BY <1>8, Phases DEF ClearToken, Cleared, keycloak, InProgress, SignOuts
  <2>2. Carried' = Carried
    BY <2>1, CarriedStays DEF SInv, TypeOK
  <2>3. Current' = [Current EXCEPT ![subject[r]] = NoToken]
    BY <2>1 DEF Current, SInv, TypeOK
  <2> QED BY <2>1, <2>2, <2>3 DEF Lifecycle!Next, Lifecycle!SignOut
<1>9. ASSUME NEW u \in Subjects, Expire(u)
      PROVE  [Lifecycle!Next]_Lifecycle!vars
  <2> DEFINE token == WithFresh(tokens[u], FALSE)
  <2>1. tokens[u] \in Token /\ tokens[u] # NoToken
    BY <1>9 DEF Expire, SInv, TypeOK
  <2>2. token.session = tokens[u].session /\ token # NoToken
    BY <2>1, TokenShape, WebSessionsAssumption DEF Token
  <2>3. /\ tokens' = [tokens EXCEPT ![u] = token]
        /\ UNCHANGED <<opened, phase, subject, held>>
    BY <1>9 DEF Expire, keycloak
  <2> HIDE DEF token
  <2>4. Current' = Current
    BY <2>1, <2>2, <2>3 DEF Current, SInv, TypeOK
  <2>5. Carried' = Carried
    BY <2>3, CarriedStays
  <2> QED BY <2>3, <2>4, <2>5 DEF Lifecycle!vars
<1>10. ASSUME NEW s \in Sessions, SessionEnds(s)
       PROVE  [Lifecycle!Next]_Lifecycle!vars
  BY <1>10, Stutter DEF SessionEnds
<1>11. CASE Restart
  <2>1. \A q \in Requests : phase'[q] \notin {"refresh", "store"}
    BY <1>11 DEF Restart, InProgress, Pages
  <2>2. \A v \in Subjects : Refreshing(v)' = {}
    BY <2>1 DEF Refreshing
  <2>3. Carried' = [v \in Subjects |-> {}]
    BY <2>2 DEF Carried
  <2>4. Current' = [v \in Subjects |-> NoToken]
    BY <1>11 DEF Restart, Current
  <2> QED
    BY <1>11, <2>3, <2>4 DEF Restart, keycloak, Lifecycle!Next, Lifecycle!Restart
<1> QED
  BY <1>1, <1>2, <1>3, <1>4, <1>5, <1>6, <1>7, <1>8, <1>9, <1>10, <1>11
  DEF Next, Page, SignOut

\* The token store implements SessionLifecycle.
THEOREM Refinement == Spec => ImplementsLifecycle
<1>1. Init => Lifecycle!Init
  <2> SUFFICES ASSUME Init PROVE Lifecycle!Init
    OBVIOUS
  <2>1. Current = [u \in Subjects |-> NoToken]
    BY DEF Init, Current
  <2>2. \A u \in Subjects : Refreshing(u) = {}
    BY DEF Init, Refreshing
  <2>3. Carried = [u \in Subjects |-> {}]
    BY <2>2 DEF Carried
  <2> QED BY <2>1, <2>3 DEF Init, Lifecycle!Init
<1>2. SInv /\ [Next]_vars => [Lifecycle!Next]_Lifecycle!vars
  BY StepRefines
<1> QED BY <1>1, <1>2, Invariant, PTL DEF Spec, ImplementsLifecycle, Lifecycle!Spec

\* A step of SessionLifecycle gives no session to a second subject.
LEMMA HolderStep ==
    ASSUME Lifecycle!OneHolder, [Lifecycle!Next]_Lifecycle!vars, WebSessionsAssumption,
           Current \in [Subjects -> Sessions \cup {NoToken}],
           Carried \in [Subjects -> SUBSET Sessions],
           opened \in SUBSET Sessions
    PROVE  Lifecycle!OneHolder'
<1> USE DEF Lifecycle!OneHolder, Lifecycle!Within
<1>1. CASE UNCHANGED Lifecycle!vars
  BY <1>1 DEF Lifecycle!vars
<1>2. ASSUME NEW u \in Subjects, NEW s \in Sessions, Lifecycle!SignIn(u, s)
      PROVE  Lifecycle!OneHolder'
  BY <1>2 DEF Lifecycle!SignIn
<1>3. ASSUME NEW u \in Subjects, NEW s \in Sessions, Lifecycle!Abandon(u, s)
      PROVE  Lifecycle!OneHolder'
  BY <1>3 DEF Lifecycle!Abandon
<1>4. ASSUME NEW u \in Subjects, NEW s \in Sessions, Lifecycle!Store(u, s)
      PROVE  Lifecycle!OneHolder'
  BY <1>4 DEF Lifecycle!Store
<1>5. ASSUME NEW u \in Subjects, Lifecycle!SignOut(u) \/ Lifecycle!BeginRefresh(u)
      PROVE  Lifecycle!OneHolder'
  BY <1>5 DEF Lifecycle!SignOut, Lifecycle!BeginRefresh
<1>6. CASE Lifecycle!Restart
  BY <1>6 DEF Lifecycle!Restart
<1> QED BY <1>1, <1>2, <1>3, <1>4, <1>5, <1>6 DEF Lifecycle!Next

\* A session is kept, or refreshed, for one subject only.
THEOREM SessionsAreOwn == Spec => []Lifecycle!OneHolder
<1>1. Init => Lifecycle!OneHolder
  BY DEF Init, Lifecycle!OneHolder, Lifecycle!Within, Current, Carried, Refreshing
<1>2. SInv /\ Lifecycle!OneHolder /\ [Next]_vars => Lifecycle!OneHolder'
  <2> SUFFICES ASSUME SInv, Lifecycle!OneHolder, [Next]_vars PROVE Lifecycle!OneHolder'
    OBVIOUS
  <2>1. Current \in [Subjects -> Sessions \cup {NoToken}]
    BY Mapped DEF Current
  <2>2. Carried \in [Subjects -> SUBSET Sessions]
    BY Mapped DEF Carried
  <2>3. opened \in SUBSET Sessions
    BY DEF SInv, TypeOK
  <2> QED BY <2>1, <2>2, <2>3, StepRefines, HolderStep, WebSessionsAssumption
<1> QED BY <1>1, <1>2, Invariant, PTL DEF Spec
==============================================================================
