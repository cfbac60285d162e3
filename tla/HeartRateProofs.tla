--------------------------- MODULE HeartRateProofs ---------------------------
(***************************************************************************)
(* Proofs about HeartRate, for any number of requests, faults and events.  *)
(*                                                                         *)
(* StreamFollowsPage is not inductive alone: a request that is used again  *)
(* must not find events of its last use, so HInv adds that nothing is      *)
(* buffered where no generator runs.                                       *)
(***************************************************************************)
EXTENDS HeartRate, TLAPS

\* The inductive invariant.
HInv ==
    /\ TypeOK
    /\ StreamFollowsPage
    /\ \A c \in Conns : api[c] = "none" => buffered[c] = 0

-----------------------------------------------------------------------------
\* The initial state satisfies the invariant.
LEMMA InitHInv == Init => HInv
BY HeartRateAssumption DEF Init, HInv, TypeOK, StreamFollowsPage, Scripts!Init

\* The steps of the browser and its pages keep the invariant.
LEMMA PageHInv ==
    ASSUME HInv, NEW p \in SUBSET {Home}, onLoad \/ ImportFails \/ Navigate(p) \/ Reload(p)
    PROVE  HInv'
<1>1. CASE onLoad
  <2>1. TypeOK'
    BY <1>1 DEF onLoad, Scripts!Load, Scripts!Awaited, HInv, TypeOK
  <2>2. StreamFollowsPage'
    BY <1>1 DEF onLoad, Scripts!Load, Scripts!Awaited, HInv, TypeOK, StreamFollowsPage
  <2> QED BY <1>1, <2>1, <2>2 DEF onLoad, HInv
<1>2. CASE Navigate(p)
  <2>1. CASE Home \in running \ p
    BY <1>2, <2>1 DEF Navigate, onDispose, Scripts!Navigate, HInv, TypeOK, StreamFollowsPage
  <2>2. CASE Home \notin running \ p
    BY <1>2, <2>2 DEF Navigate, Scripts!Navigate, HInv, TypeOK, StreamFollowsPage
  <2> QED BY <2>1, <2>2
<1>3. CASE Reload(p)
  BY <1>3 DEF Reload, Scripts!Reload, HInv, TypeOK, StreamFollowsPage
<1>4. CASE ImportFails
  BY <1>4 DEF ImportFails, Scripts!Fail, Scripts!Awaited, HInv, TypeOK, StreamFollowsPage
<1> QED BY <1>1, <1>2, <1>3, <1>4

\* What Lost leaves behind, as long as a connection has a source.
LEMMA LostSource ==
    ASSUME HInv, NEW c \in Conns, NEW status \in BOOLEAN, Lost(c, status)
    PROVE  /\ source' \in {"null", "connecting", "open", "failed"}
           /\ conn' \in Conns \cup {NoConn} /\ conn' # c
           /\ source' # "null" <=> source # "null"
           /\ conn' # NoConn => conn' = conn /\ source' = source
BY HeartRateAssumption DEF Lost, HInv, TypeOK, StreamFollowsPage

\* The steps of the web application keep the invariant.
LEMMA WebHInv ==
    ASSUME HInv, NEW c \in Conns,
           Connect(c) \/ Subscribe(c) \/ SubscribeFails(c) \/ Relay(c) \/ WebCancelled(c)
               \/ StreamEnds(c)
    PROVE  HInv'
<1>1. CASE Connect(c)
  BY <1>1, HeartRateAssumption DEF Connect, Fresh, page, HInv, TypeOK, StreamFollowsPage
<1>2. CASE Subscribe(c)
  BY <1>2 DEF Subscribe, page, HInv, TypeOK, StreamFollowsPage
<1>3. CASE SubscribeFails(c)
  <2>1. PICK status \in BOOLEAN : Lost(c, status)
    BY <1>3 DEF SubscribeFails, Ends
  <2>2. /\ source' \in {"null", "connecting", "open", "failed"}
        /\ conn' \in Conns \cup {NoConn} /\ conn' # c
        /\ source' # "null" <=> source # "null"
        /\ conn' # NoConn => conn' = conn /\ source' = source
    BY <2>1, LostSource
  <2>3. TypeOK'
    BY <1>3, <2>2, HeartRateAssumption DEF SubscribeFails, page, HInv, TypeOK
  <2>4. StreamFollowsPage'
    BY <1>3, <2>2 DEF SubscribeFails, page, HInv, TypeOK, StreamFollowsPage
  <2> QED BY <1>3, <2>3, <2>4 DEF SubscribeFails, HInv
<1>4. CASE Relay(c)
  <2>1. TypeOK'
    BY <1>4, HeartRateAssumption DEF Relay, page, HInv, TypeOK
  <2>2. StreamFollowsPage'
    BY <1>4, HeartRateAssumption DEF Relay, page, HInv, TypeOK, StreamFollowsPage
  <2>3. api[c] # "none"
    BY <1>4 DEF Relay, HInv, TypeOK
  <2> QED BY <1>4, <2>1, <2>2, <2>3 DEF Relay, HInv, TypeOK
<1>5. CASE WebCancelled(c)
  BY <1>5 DEF WebCancelled, page, HInv, TypeOK, StreamFollowsPage
<1>6. CASE StreamEnds(c)
  <2>1. /\ source' \in {"null", "connecting", "open", "failed"}
        /\ conn' \in Conns \cup {NoConn} /\ conn' # c
        /\ source' # "null" <=> source # "null"
        /\ conn' # NoConn => conn' = conn /\ source' = source
    <3>1. PICK status \in BOOLEAN : Lost(c, status)
      BY <1>6 DEF StreamEnds, Ends
    <3> QED BY <3>1, LostSource
  <2>2. TypeOK'
    BY <1>6, <2>1 DEF StreamEnds, page, HInv, TypeOK
  <2>3. StreamFollowsPage'
    BY <1>6, <2>1 DEF StreamEnds, page, HInv, TypeOK, StreamFollowsPage
  <2> QED BY <1>6, <2>2, <2>3 DEF StreamEnds, HInv
<1> QED BY <1>1, <1>2, <1>3, <1>4, <1>5, <1>6

\* The steps of the generators, and the machines that stop, keep it too.
LEMMA ApiHInv ==
    ASSUME HInv, NEW c \in Conns, Beat(c) \/ BeatsCancelled(c) \/ ApiStops
    PROVE  HInv'
<1>1. CASE Beat(c)
  BY <1>1, HeartRateAssumption DEF Beat, page, HInv, TypeOK, StreamFollowsPage
<1>2. CASE BeatsCancelled(c)
  BY <1>2, HeartRateAssumption DEF BeatsCancelled, page, HInv, TypeOK, StreamFollowsPage
<1>3. CASE ApiStops
  BY <1>3, HeartRateAssumption DEF ApiStops, page, HInv, TypeOK, StreamFollowsPage
<1> QED BY <1>1, <1>2, <1>3

(* A machine of the web application that stops, and an answer with an error
   status, keep the inductive invariant: the browser is left without a stream. *)
LEMMA StopHInv ==
    ASSUME HInv, WebStops \/ Unavailable
    PROVE  HInv'
<1>1. CASE WebStops
  <2>1. /\ source' \in {"null", "connecting", "open", "failed"}
        /\ conn' = NoConn
        /\ source' # "null" <=> source # "null"
    <3>1. CASE conn = NoConn
      BY <1>1, <3>1 DEF WebStops, HInv, TypeOK
    <3>2. CASE conn # NoConn
      BY <1>1, <3>2 DEF WebStops, Ends, Lost, HInv, TypeOK, StreamFollowsPage
    <3> QED BY <3>1, <3>2
  <2>2. TypeOK'
    BY <1>1, <2>1, HeartRateAssumption DEF WebStops, page, HInv, TypeOK
  <2>3. StreamFollowsPage'
    BY <1>1, <2>1 DEF WebStops, page, HInv, TypeOK, StreamFollowsPage
  <2> QED BY <1>1, <2>2, <2>3 DEF WebStops, HInv
<1>2. CASE Unavailable
  BY <1>2, HeartRateAssumption DEF Unavailable, page, HInv, TypeOK, StreamFollowsPage
<1> QED BY <1>1, <1>2

\* Every step keeps the invariant.
LEMMA NextHInv == HInv /\ [Next]_vars => HInv'
<1> SUFFICES ASSUME HInv, [Next]_vars PROVE HInv'
  OBVIOUS
<1>1. CASE onLoad \/ ImportFails
  BY <1>1, PageHInv
<1>2. ASSUME NEW p \in SUBSET {Home}, Navigate(p) \/ Reload(p) PROVE HInv'
  BY <1>2, PageHInv
<1>3. ASSUME NEW c \in Conns, Connect(c) \/ Chain(c) \/ SubscribeFails(c) PROVE HInv'
  BY <1>3, WebHInv, ApiHInv DEF Chain
<1>4. CASE ApiStops
  <2>1. PICK c \in Conns : api[c] # "none"
    BY <1>4 DEF ApiStops
  <2> QED BY <1>4, <2>1, ApiHInv
<1>5. CASE WebStops \/ Unavailable
  BY <1>5, StopHInv
<1>6. CASE UNCHANGED vars
  BY <1>6 DEF vars, HInv, TypeOK, StreamFollowsPage
<1> QED BY <1>1, <1>2, <1>3, <1>4, <1>5, <1>6 DEF Next

-----------------------------------------------------------------------------
\* However many requests, events and faults there are, HInv holds throughout.
THEOREM Invariant == Spec => []HInv
<1>1. Init => HInv
  BY InitHInv
<1>2. HInv /\ [Next]_vars => HInv'
  BY NextHInv
<1> QED BY <1>1, <1>2, PTL DEF Spec

\* Connections and buffers keep their shape, however often the page reconnects.
THEOREM TypeCorrect == Spec => []TypeOK
<1>1. HInv => TypeOK
  BY DEF HInv
<1> QED BY <1>1, Invariant, PTL

\* The browser is connected only while the script of Home runs, through a
\* handler that is alive, and a request starts without events of an earlier one.
THEOREM StreamIsOfThePage == Spec => []StreamFollowsPage
<1>1. HInv => StreamFollowsPage
  BY DEF HInv
<1> QED BY <1>1, Invariant, PTL

-----------------------------------------------------------------------------
(* The error status, after which onerror says that the browser reconnects.  *)

\* An EventSource that has given up asks for nothing any more.
LEMMA FailedStaysFailed ==
    ASSUME HInv, [Next]_vars, source = "failed", source' # "failed"
    PROVE  source' = "null" /\ Home \notin running'
<1>1. conn = NoConn /\ Home \in running
  BY DEF HInv, StreamFollowsPage
<1>2. ASSUME NEW c \in Conns, Connect(c) \/ Relay(c) PROVE FALSE
  BY <1>1, <1>2, HeartRateAssumption DEF Connect, Relay
<1>3. ASSUME NEW c \in Conns,
             SubscribeFails(c) \/ StreamEnds(c) \/ Subscribe(c) \/ WebCancelled(c) \/ Beat(c)
                 \/ BeatsCancelled(c)
      PROVE  FALSE
  BY <1>1, <1>3, HeartRateAssumption
  DEF SubscribeFails, StreamEnds, Subscribe, WebCancelled, Beat, BeatsCancelled, Ends, Lost
<1>4. ~onLoad
  BY <1>1 DEF onLoad, Scripts!Load, Scripts!Awaited
<1>5. ASSUME NEW p \in SUBSET {Home}, Navigate(p) \/ Reload(p)
      PROVE  source' = "null" /\ Home \notin running'
  BY <1>5 DEF Navigate, onDispose, Reload, Scripts!Navigate, Scripts!Reload
<1>6. ~ImportFails /\ ~ApiStops /\ ~WebStops /\ ~Unavailable /\ ~UNCHANGED vars
  BY <1>1 DEF ImportFails, ApiStops, WebStops, Unavailable, vars
<1> QED BY <1>2, <1>3, <1>4, <1>5, <1>6 DEF Next, Chain

\* After an answer with an error status the browser does not try again, as long
\* as the script of Home runs: whatever the machines do, the stream that onerror
\* announces comes only after the page was left, and then it is a new one.
THEOREM ErrorStatusIsFinal ==
    Spec => [][source = "failed" /\ Home \in running' => source' = "failed"]_vars
<1>1. HInv /\ [Next]_vars => [source = "failed" /\ Home \in running' => source' = "failed"]_vars
  BY FailedStaysFailed
<1> QED BY <1>1, Invariant, PTL DEF Spec

-----------------------------------------------------------------------------
(* Streams that the browser has left: what StreamsEnd says of steps.         *)

\* The steps that are still needed before nothing of the stream is left.
Remaining(c) ==
    (IF web[c] = "calling" THEN 3 ELSE IF web[c] = "relaying" THEN 1 ELSE 0)
        + (IF api[c] = "beating" THEN 1 ELSE 0)

\* A step of the browser takes up no request that is still alive.
LEMMA BrowserLeavesIt ==
    ASSUME HInv, NEW c \in Conns, conn # c, Remaining(c) # 0, NEW p \in SUBSET {Home},
           \/ onLoad \/ ImportFails \/ Navigate(p) \/ Reload(p) \/ Unavailable
           \/ \E d \in Conns : Connect(d)
    PROVE  conn' # c /\ web'[c] = web[c] /\ api'[c] = api[c]
<1>1. CASE \E d \in Conns : Connect(d)
  <2>1. PICK d \in Conns : Connect(d)
    BY <1>1
  <2>2. c # d
    BY <2>1 DEF Connect, Fresh, Remaining
  <2> QED BY <2>1, <2>2 DEF Connect, HInv, TypeOK
<1>2. CASE onLoad \/ ImportFails \/ Navigate(p) \/ Reload(p) \/ Unavailable
  BY <1>2, HeartRateAssumption DEF onLoad, ImportFails, Navigate, onDispose, Reload, Unavailable
<1> QED BY <1>1, <1>2

\* A step of a stream that is not a beat brings it nearer to its end.
LEMMA StreamStepShrinks ==
    ASSUME HInv, NEW c \in Conns,
           Subscribe(c) \/ SubscribeFails(c) \/ WebCancelled(c) \/ StreamEnds(c)
               \/ BeatsCancelled(c)
    PROVE  Remaining(c)' < Remaining(c)
<1>1. /\ web \in [Conns -> {"none", "calling", "relaying"}]
      /\ api \in [Conns -> {"none", "beating"}]
      /\ web[c] = "calling" => api[c] = "none"
  BY DEF HInv, TypeOK, StreamFollowsPage
<1>2. CASE Subscribe(c)
  BY <1>1, <1>2 DEF Subscribe, Remaining
<1>3. CASE SubscribeFails(c)
  BY <1>1, <1>3 DEF SubscribeFails, Remaining
<1>4. CASE WebCancelled(c)
  BY <1>1, <1>4 DEF WebCancelled, Remaining
<1>5. CASE StreamEnds(c)
  BY <1>1, <1>5 DEF StreamEnds, Remaining
<1>6. CASE BeatsCancelled(c)
  BY <1>1, <1>6 DEF BeatsCancelled, Remaining
<1> QED BY <1>2, <1>3, <1>4, <1>5, <1>6

\* No step of a stream or of a machine makes another one last longer.
LEMMA LeftStreamShrinks ==
    ASSUME HInv, NEW c \in Conns, conn # c, NEW d \in Conns,
           Chain(d) \/ SubscribeFails(d) \/ ApiStops \/ WebStops
    PROVE  conn' # c /\ Remaining(c)' <= Remaining(c)
<1>1. /\ web \in [Conns -> {"none", "calling", "relaying"}]
      /\ api \in [Conns -> {"none", "beating"}]
  BY DEF HInv, TypeOK
<1>2. Remaining(c) \in Nat
  BY DEF Remaining
<1>3. ASSUME NEW e \in Conns, NEW status, Lost(e, status) PROVE conn' # c
  BY <1>3, HeartRateAssumption DEF Lost
<1>4. CASE Subscribe(d) \/ SubscribeFails(d) \/ WebCancelled(d) \/ StreamEnds(d)
               \/ BeatsCancelled(d)
  <2>1. conn' # c
    BY <1>3, <1>4 DEF Subscribe, SubscribeFails, WebCancelled, StreamEnds, BeatsCancelled, Ends
  <2>2. CASE d = c
    <3>1. Remaining(c)' < Remaining(c)
      BY <1>4, <2>2, StreamStepShrinks
    <3>2. Remaining(c)' \in Nat
      BY DEF Remaining
    <3> QED BY <1>2, <2>1, <3>1, <3>2
  <2>3. CASE d # c
    <3>1. web'[c] = web[c] /\ api'[c] = api[c]
      BY <1>1, <1>4, <2>3
      DEF Subscribe, SubscribeFails, WebCancelled, StreamEnds, BeatsCancelled
    <3>2. Remaining(c)' = Remaining(c)
      BY <3>1 DEF Remaining
    <3> QED BY <1>2, <2>1, <3>2
  <2> QED BY <2>2, <2>3
<1>5. CASE Relay(d) \/ Beat(d)
  BY <1>2, <1>5 DEF Relay, Beat, Remaining
<1>6. CASE ApiStops
  BY <1>6 DEF ApiStops, Remaining
<1>7. CASE WebStops
  <2>1. conn' # c
    <3>1. CASE conn = NoConn
      BY <1>7, <3>1 DEF WebStops
    <3>2. CASE conn # NoConn
      <4>1. conn \in Conns /\ \E status \in BOOLEAN : Lost(conn, status)
        BY <1>7, <3>2 DEF WebStops, Ends, HInv, TypeOK
      <4> QED BY <4>1, HeartRateAssumption DEF Lost
    <3> QED BY <3>1, <3>2
  <2>2. web'[c] = "none" /\ api' = api
    BY <1>7 DEF WebStops
  <2> QED BY <2>1, <2>2 DEF Remaining
<1> QED BY <1>4, <1>5, <1>6, <1>7 DEF Chain

\* A stream that the browser has left is never picked up again, be it by the
\* next visit to Home, and only comes nearer to its end: a call that was under
\* way may still start a generator, but what was cancelled does not start again.
THEOREM LeftStreamsWindDown ==
    Spec => [][\A c \in Conns : conn # c /\ Remaining(c) # 0 =>
                  /\ conn' # c /\ Remaining(c)' <= Remaining(c)
                  /\ Subscribe(c) \/ SubscribeFails(c) \/ WebCancelled(c) \/ StreamEnds(c)
                         \/ BeatsCancelled(c) => Remaining(c)' < Remaining(c)]_vars
<1> DEFINE A == \A c \in Conns : conn # c /\ Remaining(c) # 0 =>
                  /\ conn' # c /\ Remaining(c)' <= Remaining(c)
                  /\ Subscribe(c) \/ SubscribeFails(c) \/ WebCancelled(c) \/ StreamEnds(c)
                         \/ BeatsCancelled(c) => Remaining(c)' < Remaining(c)
<1>1. ASSUME HInv, Next, NEW c \in Conns, conn # c, Remaining(c) # 0
      PROVE  /\ conn' # c /\ Remaining(c)' <= Remaining(c)
             /\ Subscribe(c) \/ SubscribeFails(c) \/ WebCancelled(c) \/ StreamEnds(c)
                    \/ BeatsCancelled(c) => Remaining(c)' < Remaining(c)
  <2>1. Subscribe(c) \/ SubscribeFails(c) \/ WebCancelled(c) \/ StreamEnds(c)
            \/ BeatsCancelled(c) => Remaining(c)' < Remaining(c)
    BY <1>1, StreamStepShrinks
  <2>2. CASE \E d \in Conns : Chain(d) \/ SubscribeFails(d) \/ ApiStops \/ WebStops
    BY <1>1, <2>1, <2>2, LeftStreamShrinks
  <2>3. CASE \/ onLoad \/ ImportFails \/ Unavailable
             \/ \E p \in SUBSET {Home} : Navigate(p) \/ Reload(p)
             \/ \E d \in Conns : Connect(d)
    <3>1. conn' # c /\ web'[c] = web[c] /\ api'[c] = api[c]
      BY <1>1, <2>3, BrowserLeavesIt
    <3>2. Remaining(c)' = Remaining(c) /\ Remaining(c) \in Nat
      BY <3>1 DEF Remaining
    <3> QED BY <2>1, <3>1, <3>2
  <2> QED BY <1>1, <2>2, <2>3 DEF Next
<1>2. HInv /\ [Next]_vars => [A]_vars
  BY <1>1
<1> HIDE DEF A
<1>3. Spec => [][A]_vars
  BY <1>2, Invariant, PTL DEF Spec
<1> QED BY <1>3 DEF A
==============================================================================
