-------------------------- MODULE PageScriptsProofs --------------------------
(* Theorems of PageScripts, for any number of scripts, places of a page and  *)
(* imports under way.                                                        *)
EXTENDS PageScripts, FiniteSetTheorems, TLAPS

-----------------------------------------------------------------------------
(* The inductive invariant *)

\* Scripts do not share an object; an object in the map awaits the import of
\* its own script, and only until its module is set; an object that has left
\* the map with its import under way has no references.
MapInv ==
    /\ \A s, u \in Srcs : bySrc[s] # NoInfo /\ bySrc[s] = bySrc[u] => s = u
    /\ \A s \in Srcs : s \in Registered =>
          /\ pending[bySrc[s]] \in {s, NoSrc}
          /\ pending[bySrc[s]] = s => ~module[bySrc[s]]
    /\ \A i \in Infos :
          pending[i] # NoSrc /\ (\A s \in Srcs : bySrc[s] # i) => count[i] <= 0

\* A script runs exactly if the object in the map has its module.
RunInv ==
    \A s \in Srcs :
        running[s] = IF s \in Registered /\ module[bySrc[s]] THEN 1 ELSE 0

\* While the first page is upgraded nothing runs and no element goes; between
\* two turns the document is the page, and every script in the map is named.
TurnInv ==
    /\ turn = "start" =>
          /\ page = Blank
          /\ \A x \in Slots : dom[x] \in {NoSrc, next[x]}
          /\ \A s \in Srcs : running[s] = 0
    /\ turn \in {"start", "idle"} => \A s \in Registered : Holders(s) # {}
    /\ turn = "idle" => dom = page

PInv == TypeOK /\ MapInv /\ CountsElements /\ RunInv /\ TurnInv

-----------------------------------------------------------------------------
(* Counting elements *)

\* The elements that name a script can be counted, and none is counted as 0.
LEMMA HoldersFinite ==
  ASSUME NEW s
  PROVE  /\ IsFiniteSet(Holders(s)) /\ Cardinality(Holders(s)) \in Nat
         /\ Cardinality(Holders(s)) = 0 <=> Holders(s) = {}
  <1>1. IsFiniteSet(Slots) /\ Holders(s) \in SUBSET Slots
    BY PageScriptsAssumption DEF PageScriptsAssumption, Holders
  <1>2. IsFiniteSet(Holders(s))
    BY <1>1, FS_Subset
  <1> QED BY <1>2, FS_CardinalityType, FS_EmptySet

\* Setting one place of the document moves one element between two counts.
LEMMA HoldersMove ==
  ASSUME TypeOK, NEW x \in Slots, NEW v, v # dom[x], dom' = [dom EXCEPT ![x] = v], NEW s
  PROVE  /\ Holders(s)' = IF s = v THEN Holders(s) \cup {x}
                          ELSE IF s = dom[x] THEN Holders(s) \ {x} ELSE Holders(s)
         /\ Cardinality(Holders(s)') =
              Cardinality(Holders(s)) + (IF s = v THEN 1 ELSE 0)
                                      - (IF s = dom[x] THEN 1 ELSE 0)
  <1>1. dom \in [Slots -> Srcs \cup {NoSrc}]
    BY DEF TypeOK, Pages
  <1>2. Holders(s)' = IF s = v THEN Holders(s) \cup {x}
                      ELSE IF s = dom[x] THEN Holders(s) \ {x} ELSE Holders(s)
    BY <1>1 DEF Holders
  <1>3. /\ s = v => x \notin Holders(s)
        /\ s = dom[x] => x \in Holders(s)
    BY DEF Holders
  <1>4. IsFiniteSet(Holders(s)) /\ Cardinality(Holders(s)) \in Nat
    BY HoldersFinite
  <1>5. CASE s = v
    <2>1. Cardinality(Holders(s) \cup {x}) = Cardinality(Holders(s)) + 1
      BY <1>3, <1>4, <1>5, FS_AddElement
    <2>2. Holders(s)' = Holders(s) \cup {x}
      BY <1>2, <1>5
    <2>3. s # dom[x]
      BY <1>5
    <2> QED BY <1>2, <1>4, <1>5, <2>1, <2>2, <2>3
  <1>6. CASE s = dom[x]
    <2>1. Cardinality(Holders(s) \ {x}) = Cardinality(Holders(s)) - 1
      BY <1>3, <1>4, <1>6, FS_RemoveElement
    <2>2. Holders(s)' = Holders(s) \ {x}
      BY <1>2, <1>6
    <2>3. s # v
      BY <1>6
    <2> QED BY <1>2, <1>4, <1>6, <2>1, <2>2, <2>3
  <1>7. CASE s # v /\ s # dom[x]
    BY <1>2, <1>4, <1>7
  <1> QED BY <1>2, <1>5, <1>6, <1>7

\* A count speaks of elements, even of a script that is not in the map.
LEMMA CountMeansHeld ==
  ASSUME PInv, NEW s \in Srcs
  PROVE  Holders(s) # {} <=> s \in Registered /\ count[bySrc[s]] > 0
  <1>1. Cardinality(Holders(s)) \in Nat /\ (Cardinality(Holders(s)) = 0 <=> Holders(s) = {})
    BY HoldersFinite
  <1>2. IF s \in Registered THEN count[bySrc[s]] = Cardinality(Holders(s)) ELSE Holders(s) = {}
    BY DEF PInv, CountsElements
  <1> QED BY <1>1, <1>2

-----------------------------------------------------------------------------
(* Each step preserves the invariant *)

\* A document starts with an empty map and no element upgraded.
LEMMA InitInv == Init => PInv
  <1> SUFFICES ASSUME Init PROVE PInv
    OBVIOUS
  <1>1. Registered = {}
    BY DEF Init, Registered
  <1>2. TypeOK
    BY DEF Init, TypeOK, Pages, Blank
  <1>3. CountsElements
    BY <1>1, PageScriptsAssumption
    DEF Init, CountsElements, Holders, Blank, PageScriptsAssumption
  <1>4. MapInv /\ RunInv
    BY <1>1 DEF Init, MapInv, RunInv
  <1>5. TurnInv
    BY <1>1 DEF Init, TurnInv, Blank
  <1> QED BY <1>2, <1>3, <1>4, <1>5 DEF PInv

\* Losing an element changes the count of its own script only.
LEMMA UnregisteredCounts ==
  ASSUME PInv, NEW o \in Srcs \cup {NoSrc}
  PROVE  /\ Unregistered(o) \in [Infos -> Int]
         /\ \A s \in Registered : Unregistered(o)[bySrc[s]] =
                count[bySrc[s]] - IF s = o THEN 1 ELSE 0
         /\ \A i \in Infos : (\A s \in Srcs : bySrc[s] # i) => Unregistered(o)[i] = count[i]
  <1>1. count \in [Infos -> Int] /\ bySrc \in [Srcs -> Infos \cup {NoInfo}]
    BY DEF PInv, TypeOK
  <1>2. \A s, u \in Srcs : bySrc[s] # NoInfo /\ bySrc[s] = bySrc[u] => s = u
    BY DEF PInv, MapInv
  <1> QED BY <1>1, <1>2 DEF Unregistered, Registered

\* An element names a script that is in the map already.
LEMMA ReferenceInv ==
  ASSUME PInv, NEW x \in Slots, AttributeChanged(x), next[x] \in Registered
  PROVE  PInv'
  <1> DEFINE o == dom[x]
             v == next[x]
             U == Unregistered(o)
  <1>1. /\ v \in Srcs /\ o \in Srcs \cup {NoSrc} /\ o # v
        /\ dom' = [dom EXCEPT ![x] = v] /\ count' = [U EXCEPT ![bySrc[v]] = @ + 1]
        /\ UNCHANGED <<turn, page, next, running, bySrc, module, pending>>
        /\ turn \in {"start", "merge"}
    BY DEF PInv, TypeOK, Pages, AttributeChanged, Register, Merging, Registered
  <1>2. /\ bySrc \in [Srcs -> Infos \cup {NoInfo}]
        /\ \A s, u \in Srcs : bySrc[s] # NoInfo /\ bySrc[s] = bySrc[u] => s = u
    BY DEF PInv, TypeOK, MapInv
  <1>3. /\ U \in [Infos -> Int]
        /\ \A s \in Registered : U[bySrc[s]] = count[bySrc[s]] - IF s = o THEN 1 ELSE 0
        /\ \A i \in Infos : (\A s \in Srcs : bySrc[s] # i) => U[i] = count[i]
    BY <1>1, UnregisteredCounts
  <1>4. Registered' = Registered
    BY <1>1 DEF Registered
  <1> HIDE DEF U
  <1>5. TypeOK'
    BY <1>1, <1>2, <1>3 DEF PInv, TypeOK, Pages, Registered
  <1>6. MapInv'
    BY <1>1, <1>2, <1>3, <1>4 DEF PInv, MapInv, Registered
  <1>7. CountsElements'
    <2> SUFFICES ASSUME NEW s \in Srcs
                 PROVE  IF s \in Registered
                        THEN count'[bySrc[s]] = Cardinality(Holders(s)')
                        ELSE Holders(s)' = {}
      BY <1>1, <1>4 DEF CountsElements
    <2>1. IF s \in Registered THEN count[bySrc[s]] = Cardinality(Holders(s)) ELSE Holders(s) = {}
      BY DEF PInv, CountsElements
    <2>2. /\ Holders(s)' = IF s = v THEN Holders(s) \cup {x}
                           ELSE IF s = o THEN Holders(s) \ {x} ELSE Holders(s)
          /\ Cardinality(Holders(s)') = Cardinality(Holders(s)) + (IF s = v THEN 1 ELSE 0)
                                                               - (IF s = o THEN 1 ELSE 0)
      BY <1>1, HoldersMove DEF PInv
    <2>3. Cardinality(Holders(s)) \in Nat
      BY HoldersFinite
    <2>4. CASE s \notin Registered
      BY <2>1, <2>2, <2>4
    <2>5. CASE s \in Registered
      <3>1. count'[bySrc[s]] = U[bySrc[s]] + IF s = v THEN 1 ELSE 0
        BY <1>1, <1>2, <1>3, <2>5 DEF Registered
      <3>2. U[bySrc[s]] = count[bySrc[s]] - IF s = o THEN 1 ELSE 0
        BY <1>3, <2>5
      <3> QED BY <1>1, <2>1, <2>2, <2>3, <2>5, <3>1, <3>2
    <2> QED BY <2>4, <2>5
  <1>8. RunInv'
    BY <1>1, <1>4 DEF PInv, RunInv
  <1>9. TurnInv'
    <2>1. turn = "start" => \A y \in Slots : dom'[y] \in {NoSrc, next[y]}
      BY <1>1 DEF PInv, TypeOK, Pages, TurnInv
    <2>2. ASSUME turn = "start", NEW s \in Registered PROVE Holders(s)' # {}
      <3>1. o = NoSrc /\ Holders(s) # {}
        BY <1>1, <2>2 DEF PInv, TurnInv
      <3>2. s \in Srcs /\ s # o
        BY <3>1, PageScriptsAssumption DEF Registered, PageScriptsAssumption
      <3>3. Holders(s)' = IF s = v THEN Holders(s) \cup {x} ELSE Holders(s)
        BY <1>1, <3>2, HoldersMove DEF PInv
      <3> QED BY <3>1, <3>3
    <2> QED BY <1>1, <1>4, <2>1, <2>2 DEF PInv, TurnInv, Blank
  <1> QED BY <1>5, <1>6, <1>7, <1>8, <1>9 DEF PInv

\* An element names a script that is not in the map: its import starts.
LEMMA RegisterInv ==
  ASSUME PInv, NEW x \in Slots, AttributeChanged(x), next[x] \notin Registered
  PROVE  PInv'
  <1> DEFINE o == dom[x]
             v == next[x]
             U == Unregistered(o)
  <1>1. PICK i \in Free :
          /\ bySrc' = [bySrc EXCEPT ![v] = i] /\ count' = [U EXCEPT ![i] = 1]
          /\ module' = [module EXCEPT ![i] = FALSE] /\ pending' = [pending EXCEPT ![i] = v]
    BY DEF AttributeChanged, Register
  <1>2. /\ v \in Srcs /\ o \in Srcs \cup {NoSrc} /\ o # v
        /\ dom' = [dom EXCEPT ![x] = v]
        /\ UNCHANGED <<turn, page, next, running>> /\ turn \in {"start", "merge"}
    BY DEF PInv, TypeOK, Pages, AttributeChanged, Merging
  <1>3. /\ bySrc \in [Srcs -> Infos \cup {NoInfo}] /\ module \in [Infos -> BOOLEAN]
        /\ pending \in [Infos -> Srcs \cup {NoSrc}]
        /\ \A s, u \in Srcs : bySrc[s] # NoInfo /\ bySrc[s] = bySrc[u] => s = u
    BY DEF PInv, TypeOK, MapInv
  <1>4. /\ U \in [Infos -> Int]
        /\ \A s \in Registered : U[bySrc[s]] = count[bySrc[s]] - IF s = o THEN 1 ELSE 0
        /\ \A j \in Infos : (\A s \in Srcs : bySrc[s] # j) => U[j] = count[j]
    BY <1>2, UnregisteredCounts
  <1>5. /\ i \in Infos /\ i # NoInfo /\ v # NoSrc /\ pending[i] = NoSrc
        /\ \A s \in Srcs : bySrc[s] # i
    BY <1>1, <1>2, PageScriptsAssumption DEF Free, PageScriptsAssumption
  <1>6. Registered' = Registered \cup {v}
    BY <1>1, <1>2, <1>3, <1>5 DEF Registered
  <1>7. v \notin Registered
    OBVIOUS
  <1> HIDE DEF U
  <1>8. TypeOK'
    BY <1>1, <1>2, <1>3, <1>4, <1>5 DEF PInv, TypeOK, Pages
  <1>9. MapInv'
    <2>1. ASSUME NEW s \in Srcs, NEW u \in Srcs, bySrc'[s] # NoInfo, bySrc'[s] = bySrc'[u]
          PROVE  s = u
      BY <1>1, <1>2, <1>3, <1>5, <2>1
    <2>2. ASSUME NEW s \in Srcs, s \in Registered'
          PROVE  /\ pending'[bySrc'[s]] \in {s, NoSrc}
                 /\ pending'[bySrc'[s]] = s => ~module'[bySrc'[s]]
      <3>1. CASE s = v
        BY <1>1, <1>2, <1>3, <1>5, <3>1
      <3>2. CASE s # v
        <4>1. s \in Registered /\ bySrc'[s] = bySrc[s] /\ bySrc[s] # i /\ bySrc[s] \in Infos
          BY <1>1, <1>3, <1>5, <1>6, <2>2, <3>2 DEF Registered
        <4>2. /\ pending[bySrc[s]] \in {s, NoSrc}
              /\ pending[bySrc[s]] = s => ~module[bySrc[s]]
          BY <4>1 DEF PInv, MapInv
        <4> QED BY <1>1, <1>3, <4>1, <4>2
      <3> QED BY <3>1, <3>2
    <2>3. ASSUME NEW j \in Infos, pending'[j] # NoSrc, \A s \in Srcs : bySrc'[s] # j
          PROVE  count'[j] <= 0
      <3>0. bySrc[v] = NoInfo /\ j # NoInfo
        BY <1>2, <1>7, PageScriptsAssumption DEF Registered, PageScriptsAssumption
      <3>1. j # i /\ \A s \in Srcs : bySrc[s] # j
        BY <1>1, <1>2, <1>3, <2>3, <3>0
      <3>2. count[j] <= 0
        BY <1>1, <1>3, <2>3, <3>1 DEF PInv, MapInv
      <3> QED BY <1>1, <1>4, <3>1, <3>2
    <2> QED BY <2>1, <2>2, <2>3 DEF MapInv
  <1>10. CountsElements'
    <2> SUFFICES ASSUME NEW s \in Srcs
                 PROVE  IF s \in Registered'
                        THEN count'[bySrc'[s]] = Cardinality(Holders(s)')
                        ELSE Holders(s)' = {}
      BY DEF CountsElements
    <2>1. IF s \in Registered THEN count[bySrc[s]] = Cardinality(Holders(s)) ELSE Holders(s) = {}
      BY DEF PInv, CountsElements
    <2>2. /\ Holders(s)' = IF s = v THEN Holders(s) \cup {x}
                           ELSE IF s = o THEN Holders(s) \ {x} ELSE Holders(s)
          /\ Cardinality(Holders(s)') = Cardinality(Holders(s)) + (IF s = v THEN 1 ELSE 0)
                                                               - (IF s = o THEN 1 ELSE 0)
      BY <1>2, HoldersMove DEF PInv
    <2>3. Cardinality(Holders(s)) \in Nat /\ (Cardinality(Holders(s)) = 0 <=> Holders(s) = {})
      BY HoldersFinite
    <2>4. CASE s = v
      <3>1. Cardinality(Holders(s)) = 0
        BY <1>7, <2>1, <2>3, <2>4
      <3>2. count'[bySrc'[s]] = 1
        BY <1>1, <1>2, <1>3, <1>4, <1>5, <2>4
      <3> QED BY <1>2, <1>6, <2>2, <2>4, <3>1, <3>2
    <2>5. CASE s # v /\ s \in Registered
      <3>1. bySrc'[s] = bySrc[s] /\ bySrc[s] # i /\ bySrc[s] \in Infos
        BY <1>1, <1>3, <1>5, <2>5 DEF Registered
      <3>2. count'[bySrc'[s]] = U[bySrc[s]]
        BY <1>1, <1>4, <3>1
      <3>3. U[bySrc[s]] = count[bySrc[s]] - IF s = o THEN 1 ELSE 0
        BY <1>4, <2>5
      <3> QED BY <1>6, <2>1, <2>2, <2>3, <2>5, <3>2, <3>3
    <2>6. CASE s # v /\ s \notin Registered
      BY <1>6, <2>1, <2>2, <2>6
    <2> QED BY <2>4, <2>5, <2>6
  <1>11. RunInv'
    <2> SUFFICES ASSUME NEW s \in Srcs
                 PROVE  running'[s] = IF s \in Registered' /\ module'[bySrc'[s]] THEN 1 ELSE 0
      BY DEF RunInv
    <2>1. running'[s] = IF s \in Registered /\ module[bySrc[s]] THEN 1 ELSE 0
      BY <1>2 DEF PInv, RunInv
    <2>2. CASE s = v
      BY <1>1, <1>2, <1>3, <1>5, <1>7, <2>1, <2>2
    <2>3. CASE s # v /\ s \in Registered
      <3>1. bySrc'[s] = bySrc[s] /\ bySrc[s] # i /\ bySrc[s] \in Infos
        BY <1>1, <1>3, <1>5, <2>3 DEF Registered
      <3> QED BY <1>1, <1>3, <1>6, <2>1, <2>3, <3>1
    <2>4. CASE s # v /\ s \notin Registered
      BY <1>6, <2>1, <2>4
    <2> QED BY <2>2, <2>3, <2>4
  <1>12. TurnInv'
    <2>1. turn = "start" => \A y \in Slots : dom'[y] \in {NoSrc, next[y]}
      BY <1>2 DEF PInv, TypeOK, Pages, TurnInv
    <2>2. ASSUME turn = "start", NEW s \in Registered' PROVE Holders(s)' # {}
      <3>1. o = NoSrc /\ s \in Srcs /\ s # o
        BY <1>2, <2>2, PageScriptsAssumption
        DEF PInv, TurnInv, Registered, PageScriptsAssumption
      <3>2. Holders(s)' = IF s = v THEN Holders(s) \cup {x} ELSE Holders(s)
        BY <1>2, <3>1, HoldersMove DEF PInv
      <3>3. s # v => Holders(s) # {}
        BY <1>6, <2>2 DEF PInv, TurnInv
      <3> QED BY <3>2, <3>3
    <2> QED BY <1>2, <2>1, <2>2 DEF PInv, TurnInv, Blank
  <1> QED BY <1>8, <1>9, <1>10, <1>11, <1>12 DEF PInv

\* An element goes.
LEMMA DisconnectedInv ==
  ASSUME PInv, NEW x \in Slots, Disconnected(x)
  PROVE  PInv'
  <1> DEFINE o == dom[x]
  <1>1. /\ o \in Srcs /\ o # NoSrc /\ next[x] # o /\ dom' = [dom EXCEPT ![x] = NoSrc]
        /\ count' = Unregistered(o)
        /\ UNCHANGED <<turn, page, next, bySrc, module, pending, running>>
        /\ turn \in {"start", "merge"}
    BY DEF PInv, TypeOK, Pages, Disconnected, Merging
  <1>2. turn = "merge"
    BY <1>1 DEF PInv, TurnInv
  <1>3. bySrc \in [Srcs -> Infos \cup {NoInfo}]
    BY DEF PInv, TypeOK
  <1>4. /\ count' \in [Infos -> Int]
        /\ \A s \in Registered : count'[bySrc[s]] = count[bySrc[s]] - IF s = o THEN 1 ELSE 0
        /\ \A j \in Infos : (\A s \in Srcs : bySrc[s] # j) => count'[j] = count[j]
    BY <1>1, UnregisteredCounts
  <1>5. Registered' = Registered
    BY <1>1 DEF Registered
  <1>6. TypeOK'
    BY <1>1, <1>4 DEF PInv, TypeOK, Pages
  <1>7. MapInv'
    BY <1>1, <1>4, <1>5 DEF PInv, MapInv
  <1>8. CountsElements'
    <2> SUFFICES ASSUME NEW s \in Srcs
                 PROVE  IF s \in Registered
                        THEN count'[bySrc[s]] = Cardinality(Holders(s)')
                        ELSE Holders(s)' = {}
      BY <1>1, <1>5 DEF CountsElements
    <2>1. IF s \in Registered THEN count[bySrc[s]] = Cardinality(Holders(s)) ELSE Holders(s) = {}
      BY DEF PInv, CountsElements
    <2>2. s # NoSrc
      BY PageScriptsAssumption DEF PageScriptsAssumption
    <2>3. /\ Holders(s)' = IF s = o THEN Holders(s) \ {x} ELSE Holders(s)
          /\ Cardinality(Holders(s)') = Cardinality(Holders(s)) + 0 - (IF s = o THEN 1 ELSE 0)
      BY <1>1, <2>2, HoldersMove DEF PInv
    <2>4. Cardinality(Holders(s)) \in Nat
      BY HoldersFinite
    <2> QED BY <1>4, <2>1, <2>3, <2>4
  <1>9. RunInv'
    BY <1>1, <1>5 DEF PInv, RunInv
  <1>10. TurnInv'
    BY <1>1, <1>2 DEF TurnInv
  <1> QED BY <1>6, <1>7, <1>8, <1>9, <1>10 DEF PInv

\* The first page is complete.
LEMMA StartedInv ==
  ASSUME PInv, Started
  PROVE  PInv'
  <1>1. /\ turn = "start" /\ dom = next /\ turn' = "idle" /\ page' = next
        /\ UNCHANGED <<next, dom, bySrc, count, module, pending, running>>
    BY DEF Started
  <1>2. Registered' = Registered /\ \A s : Holders(s)' = Holders(s)
    BY <1>1 DEF Registered, Holders
  <1>3. TypeOK' /\ MapInv' /\ RunInv'
    BY <1>1, <1>2 DEF PInv, TypeOK, MapInv, RunInv
  <1>4. CountsElements'
    BY <1>1, <1>2 DEF PInv, CountsElements
  <1>5. TurnInv'
    BY <1>1, <1>2 DEF PInv, TurnInv
  <1> QED BY <1>3, <1>4, <1>5 DEF PInv

\* What onEnhancedLoad keeps in the map is what the new page names.
LEMMA KeptScripts ==
  ASSUME PInv, EnhancedLoad
  PROVE  /\ Registered' = {s \in Srcs : Holders(s) # {}}
         /\ Registered' \subseteq Registered
         /\ \A s \in Registered' : bySrc'[s] = bySrc[s]
         /\ Unreferenced = {s \in Registered : Holders(s) = {}}
  <1>1. bySrc' = [s \in Srcs |-> IF s \in Unreferenced THEN NoInfo ELSE bySrc[s]]
    BY DEF EnhancedLoad
  <1>2. \A s \in Srcs : Holders(s) # {} <=> s \in Registered /\ count[bySrc[s]] > 0
    BY CountMeansHeld
  <1>3. \A s \in Registered : s \in Srcs /\ bySrc[s] \in Infos /\ count[bySrc[s]] \in Int
    BY DEF PInv, TypeOK, Registered
  <1>4. Unreferenced = {s \in Registered : Holders(s) = {}}
    BY <1>2, <1>3 DEF Unreferenced
  <1> QED BY <1>1, <1>2, <1>4 DEF Registered

\* onEnhancedLoad at the end of a merge.
LEMMA EnhancedLoadInv ==
  ASSUME PInv, EnhancedLoad
  PROVE  PInv'
  <1>1. /\ turn = "merge" /\ dom = next /\ turn' = "idle" /\ page' = next
        /\ running' = [s \in Srcs |-> IF s \in Unreferenced /\ module[bySrc[s]]
                                      THEN running[s] - 1 ELSE running[s]]
        /\ bySrc' = [s \in Srcs |-> IF s \in Unreferenced THEN NoInfo ELSE bySrc[s]]
        /\ UNCHANGED <<next, dom, count, module, pending>>
    BY DEF EnhancedLoad
  <1>2. /\ Registered' = {s \in Srcs : Holders(s) # {}} /\ Registered' \subseteq Registered
        /\ \A s \in Registered' : bySrc'[s] = bySrc[s]
        /\ Unreferenced = {s \in Registered : Holders(s) = {}}
    BY KeptScripts
  <1>3. \A s : Holders(s)' = Holders(s)
    BY <1>1 DEF Holders
  <1>4. TypeOK'
    BY <1>1 DEF PInv, TypeOK
  <1>5. MapInv'
    <2>1. ASSUME NEW s \in Srcs, NEW u \in Srcs, bySrc'[s] # NoInfo, bySrc'[s] = bySrc'[u]
          PROVE  s = u
      <3>1. bySrc'[s] = bySrc[s] /\ bySrc'[u] = bySrc[u]
        BY <1>1, <2>1
      <3> QED BY <2>1, <3>1 DEF PInv, MapInv
    <2>2. ASSUME NEW s \in Srcs, s \in Registered'
          PROVE  /\ pending'[bySrc'[s]] \in {s, NoSrc}
                 /\ pending'[bySrc'[s]] = s => ~module'[bySrc'[s]]
      <3>1. s \in Registered /\ bySrc'[s] = bySrc[s]
        BY <1>2, <2>2
      <3>2. pending' = pending /\ module' = module
        BY <1>1
      <3> QED BY <3>1, <3>2 DEF PInv, MapInv
    <2>3. ASSUME NEW i \in Infos, pending'[i] # NoSrc, \A s \in Srcs : bySrc'[s] # i
          PROVE  count'[i] <= 0
      <3>1. CASE \A s \in Srcs : bySrc[s] # i
        BY <1>1, <2>3, <3>1 DEF PInv, MapInv
      <3>2. CASE \E s \in Srcs : bySrc[s] = i
        <4>1. PICK s \in Srcs : bySrc[s] = i
          BY <3>2
        <4>2. s \in Unreferenced
          BY <1>1, <2>3, <4>1
        <4> QED BY <1>1, <4>1, <4>2 DEF Unreferenced
      <3> QED BY <3>1, <3>2
    <2> QED BY <2>1, <2>2, <2>3 DEF MapInv
  <1>6. CountsElements'
    <2> SUFFICES ASSUME NEW s \in Srcs
                 PROVE  IF s \in Registered'
                        THEN count'[bySrc'[s]] = Cardinality(Holders(s)')
                        ELSE Holders(s)' = {}
      BY DEF CountsElements
    <2>1. s \in Registered' => s \in Registered /\ bySrc'[s] = bySrc[s]
      BY <1>2
    <2>2. s \in Registered => count[bySrc[s]] = Cardinality(Holders(s))
      BY DEF PInv, CountsElements
    <2>3. count' = count /\ Holders(s)' = Holders(s)
      BY <1>1, <1>3
    <2>4. s \notin Registered' => Holders(s) = {}
      BY <1>2
    <2> QED BY <2>1, <2>2, <2>3, <2>4
  <1>7. RunInv'
    <2> SUFFICES ASSUME NEW s \in Srcs
                 PROVE  running'[s] = IF s \in Registered' /\ module'[bySrc'[s]] THEN 1 ELSE 0
      BY DEF RunInv
    <2>1. running[s] = IF s \in Registered /\ module[bySrc[s]] THEN 1 ELSE 0
      BY DEF PInv, RunInv
    <2>2. running'[s] = IF s \in Unreferenced /\ module[bySrc[s]] THEN running[s] - 1 ELSE running[s]
      BY <1>1
    <2>3. /\ s \in Registered' => s \in Registered /\ bySrc'[s] = bySrc[s] /\ s \notin Unreferenced
          /\ s \in Registered /\ s \notin Registered' => s \in Unreferenced
      BY <1>2
    <2>4. s \in Unreferenced => s \in Registered /\ s \notin Registered'
      BY <1>2
    <2> QED BY <1>1, <2>1, <2>2, <2>3, <2>4
  <1>8. TurnInv'
    BY <1>1, <1>2, <1>3 DEF TurnInv
  <1> QED BY <1>4, <1>5, <1>6, <1>7, <1>8 DEF PInv

\* An import that resolves to an object with references is that of a script on
\* the page, in the map, and not running.
LEMMA ResolvesToPage ==
  ASSUME PInv, NEW i \in Infos, turn = "idle", pending[i] # NoSrc, count[i] > 0
  PROVE  /\ pending[i] \in Registered /\ bySrc[pending[i]] = i /\ running[pending[i]] = 0
         /\ pending[i] \in SrcsOf(page)
  <1>1. PICK s \in Srcs : bySrc[s] = i
    BY DEF PInv, TypeOK, MapInv
  <1>2. s \in Registered
    BY <1>1, PageScriptsAssumption DEF Registered, PageScriptsAssumption
  <1>3. pending[i] = s /\ ~module[i]
    BY <1>1, <1>2 DEF PInv, MapInv
  <1>4. running[s] = 0
    BY <1>1, <1>3 DEF PInv, RunInv
  <1>5. Holders(s) # {} /\ dom = page
    BY <1>2 DEF PInv, TurnInv
  <1>6. s \in SrcsOf(page)
    BY <1>5, PageScriptsAssumption DEF Holders, SrcsOf, PageScriptsAssumption
  <1> QED BY <1>1, <1>2, <1>3, <1>4, <1>6

\* An import resolves.
LEMMA ResolveInv ==
  ASSUME PInv, NEW i \in Infos, Resolve(i)
  PROVE  PInv'
  <1>1. /\ turn = "idle" /\ pending[i] # NoSrc /\ pending' = [pending EXCEPT ![i] = NoSrc]
        /\ UNCHANGED <<turn, page, next, dom, bySrc, count>>
    BY DEF Resolve
  <1>2. Registered' = Registered /\ \A s : Holders(s)' = Holders(s)
    BY <1>1 DEF Registered, Holders
  <1>3. CountsElements'
    BY <1>1, <1>2 DEF PInv, CountsElements
  <1>4. pending \in [Infos -> Srcs \cup {NoSrc}] /\ module \in [Infos -> BOOLEAN]
    BY DEF PInv, TypeOK
  <1>5. CASE UNCHANGED <<module, running>>
    <2>1. TypeOK'
      BY <1>1, <1>4, <1>5 DEF PInv, TypeOK
    <2>2. MapInv'
      BY <1>1, <1>2, <1>4, <1>5, PageScriptsAssumption
      DEF PInv, MapInv, Registered, TypeOK, PageScriptsAssumption
    <2>3. RunInv'
      BY <1>1, <1>2, <1>5 DEF PInv, RunInv
    <2>4. TurnInv'
      BY <1>1, <1>2 DEF PInv, TurnInv
    <2> QED BY <1>3, <2>1, <2>2, <2>3, <2>4 DEF PInv
  <1>6. CASE /\ count[i] > 0
             /\ module' = [module EXCEPT ![i] = TRUE]
             /\ running' = [running EXCEPT ![pending[i]] = @ + 1]
    <2>1. /\ pending[i] \in Registered /\ bySrc[pending[i]] = i /\ running[pending[i]] = 0
      BY <1>1, <1>6, ResolvesToPage
    <2>2. TypeOK'
      BY <1>1, <1>4, <1>6 DEF PInv, TypeOK
    <2>3. MapInv'
      BY <1>1, <1>2, <1>4, <1>6, PageScriptsAssumption
      DEF PInv, MapInv, Registered, TypeOK, PageScriptsAssumption
    <2>4. RunInv'
      <3> SUFFICES ASSUME NEW s \in Srcs
                   PROVE  running'[s] = IF s \in Registered /\ module'[bySrc[s]] THEN 1 ELSE 0
        BY <1>1, <1>2 DEF RunInv
      <3>1. running[s] = IF s \in Registered /\ module[bySrc[s]] THEN 1 ELSE 0
        BY DEF PInv, RunInv
      <3>2. CASE s = pending[i]
        BY <1>4, <1>6, <2>1, <3>2 DEF PInv, TypeOK
      <3>3. CASE s # pending[i]
        <4>1. s \in Registered => bySrc[s] # i /\ bySrc[s] \in Infos
          BY <2>1, <3>3 DEF PInv, TypeOK, MapInv, Registered
        <4> QED BY <1>4, <1>6, <3>1, <3>3, <4>1 DEF PInv, TypeOK
      <3> QED BY <3>2, <3>3
    <2>5. TurnInv'
      BY <1>1, <1>2 DEF PInv, TurnInv
    <2> QED BY <1>3, <2>2, <2>3, <2>4, <2>5 DEF PInv
  <1> QED BY <1>5, <1>6 DEF Resolve

\* An import is rejected.
LEMMA RejectInv ==
  ASSUME PInv, NEW i \in Infos, Reject(i)
  PROVE  PInv'
  <1>1. /\ pending' = [pending EXCEPT ![i] = NoSrc]
        /\ UNCHANGED <<turn, page, next, dom, bySrc, count, module, running>>
    BY DEF Reject
  <1>2. Registered' = Registered /\ \A s : Holders(s)' = Holders(s)
    BY <1>1 DEF Registered, Holders
  <1>3. TypeOK'
    BY <1>1 DEF PInv, TypeOK
  <1>4. MapInv'
    BY <1>1, <1>2, PageScriptsAssumption
    DEF PInv, MapInv, Registered, TypeOK, PageScriptsAssumption
  <1>5. CountsElements' /\ RunInv'
    BY <1>1, <1>2 DEF PInv, CountsElements, RunInv
  <1>6. TurnInv'
    BY <1>1, <1>2 DEF PInv, TurnInv
  <1> QED BY <1>3, <1>4, <1>5, <1>6 DEF PInv

\* A merge begins.
LEMMA NavigateInv ==
  ASSUME PInv, NEW p \in Pages, Navigate(p)
  PROVE  PInv'
  <1>1. /\ turn' = "merge" /\ next' = p
        /\ UNCHANGED <<page, dom, bySrc, count, module, pending, running>>
    BY DEF Navigate
  <1>2. Registered' = Registered /\ \A s : Holders(s)' = Holders(s)
    BY <1>1 DEF Registered, Holders
  <1>3. TypeOK' /\ MapInv' /\ RunInv'
    BY <1>1, <1>2 DEF PInv, TypeOK, MapInv, RunInv
  <1>4. CountsElements'
    BY <1>1, <1>2 DEF PInv, CountsElements
  <1>5. TurnInv'
    BY <1>1 DEF TurnInv
  <1> QED BY <1>3, <1>4, <1>5 DEF PInv

\* A new document.
LEMMA ReloadInv ==
  ASSUME PInv, NEW p \in Pages, Reload(p)
  PROVE  PInv'
  <1>1. Registered' = {}
    BY DEF Reload, Registered
  <1>2. TypeOK'
    BY DEF Reload, TypeOK, Pages, Blank
  <1>3. CountsElements'
    BY <1>1, PageScriptsAssumption
    DEF Reload, CountsElements, Holders, Blank, PageScriptsAssumption
  <1>4. MapInv' /\ RunInv'
    BY <1>1 DEF Reload, MapInv, RunInv
  <1>5. TurnInv'
    BY <1>1 DEF Reload, TurnInv, Blank
  <1> QED BY <1>2, <1>3, <1>4, <1>5 DEF PInv

\* No step at all.
LEMMA StutterInv ==
  ASSUME PInv, UNCHANGED vars
  PROVE  PInv'
  <1>1. Registered' = Registered /\ \A s : Holders(s)' = Holders(s)
    BY DEF vars, Registered, Holders
  <1> QED BY <1>1 DEF vars, PInv, TypeOK, MapInv, CountsElements, RunInv, TurnInv

-----------------------------------------------------------------------------
(* Theorems *)

\* The inductive invariant holds in every state of every behaviour.
THEOREM Invariant == Spec => []PInv
  <1>1. PInv /\ [Next]_vars => PInv'
    <2> SUFFICES ASSUME PInv, [Next]_vars PROVE PInv'
      OBVIOUS
    <2>1. ASSUME NEW x \in Slots, AttributeChanged(x) PROVE PInv'
      BY <2>1, ReferenceInv, RegisterInv
    <2>2. ASSUME NEW x \in Slots, Disconnected(x) PROVE PInv'
      BY <2>2, DisconnectedInv
    <2>3. CASE Started
      BY <2>3, StartedInv
    <2>4. CASE EnhancedLoad
      BY <2>4, EnhancedLoadInv
    <2>5. ASSUME NEW i \in Infos, Resolve(i) PROVE PInv'
      BY <2>5, ResolveInv
    <2>6. ASSUME NEW i \in Infos, Reject(i) PROVE PInv'
      BY <2>6, RejectInv
    <2>7. ASSUME NEW p \in Pages, Navigate(p) PROVE PInv'
      BY <2>7, NavigateInv
    <2>8. ASSUME NEW p \in Pages, Reload(p) PROVE PInv'
      BY <2>8, ReloadInv
    <2>9. CASE UNCHANGED vars
      BY <2>9, StutterInv
    <2> QED BY <2>1, <2>2, <2>3, <2>4, <2>5, <2>6, <2>7, <2>8, <2>9 DEF Next, Merge
  <1> QED BY <1>1, InitInv, PTL DEF Spec

\* Reference counts are numbers of elements, whatever the pages and the order
\* of the callbacks.
THEOREM CountsAreExact == Spec => []CountsElements
  <1>1. PInv => CountsElements
    BY DEF PInv
  <1> QED BY <1>1, Invariant, PTL

\* The bookkeeping of the module keeps its shape, with elements that come and go.
THEOREM TypeCorrect == Spec => []TypeOK
  <1>1. PInv => TypeOK
    BY DEF PInv
  <1> QED BY <1>1, Invariant, PTL

\* No script runs twice or after its page has gone, however late its import.
THEOREM NoScriptLeaks == Spec => []RunsOnItsPage
  <1>1. PInv => RunsOnItsPage
    <2> SUFFICES ASSUME PInv, turn = "idle", NEW s \in Srcs
                 PROVE  running[s] \in {0, 1} /\ (running[s] = 1 => s \in SrcsOf(page))
      BY DEF RunsOnItsPage
    <2>1. running[s] = IF s \in Registered /\ module[bySrc[s]] THEN 1 ELSE 0
      BY DEF PInv, RunInv
    <2>2. s \in Registered => Holders(s) # {} /\ dom = page
      BY DEF PInv, TurnInv
    <2>3. s \in Registered => s \in SrcsOf(page)
      BY <2>2, PageScriptsAssumption DEF Holders, SrcsOf, PageScriptsAssumption
    <2> QED BY <2>1, <2>3
  <1> QED BY <1>1, Invariant, PTL

-----------------------------------------------------------------------------
(* Refinement: what the steps do to the scripts whose import has failed *)

\* Between two turns the map holds what the page names, with a positive count.
LEMMA IdleMap ==
  ASSUME PInv, turn = "idle", NEW s \in Registered
  PROVE  s \in Srcs /\ bySrc[s] \in Infos /\ count[bySrc[s]] > 0 /\ s \in SrcsOf(page)
  <1>1. s \in Srcs /\ bySrc[s] \in Infos
    BY DEF PInv, TypeOK, Registered
  <1>2. Holders(s) # {} /\ dom = page
    BY DEF PInv, TurnInv
  <1>3. s \in SrcsOf(page)
    BY <1>1, <1>2, PageScriptsAssumption DEF Holders, SrcsOf, PageScriptsAssumption
  <1> QED BY <1>1, <1>2, <1>3, CountMeansHeld

\* Elements that come and go strand no script and free none.
LEMMA MergeKeepsStuck ==
  ASSUME PInv, NEW x \in Slots, AttributeChanged(x) \/ Disconnected(x)
  PROVE  Stuck' = Stuck
  <1>1. CASE UNCHANGED <<bySrc, module, pending>>
    BY <1>1 DEF Stuck, Registered
  <1>2. ASSUME NEW i \in Free, next[x] \in Srcs \ Registered,
               bySrc' = [bySrc EXCEPT ![next[x]] = i],
               module' = [module EXCEPT ![i] = FALSE],
               pending' = [pending EXCEPT ![i] = next[x]]
        PROVE  Stuck' = Stuck
    <2>1. /\ bySrc \in [Srcs -> Infos \cup {NoInfo}] /\ module \in [Infos -> BOOLEAN]
          /\ pending \in [Infos -> Srcs \cup {NoSrc}] /\ i \in Infos
          /\ \A s \in Srcs : bySrc[s] # i
      BY DEF PInv, TypeOK, Free
    <2>2. ASSUME NEW s \in Srcs PROVE s \in Stuck' <=> s \in Stuck
      <3>1. CASE s = next[x]
        BY <1>2, <2>1, <3>1, PageScriptsAssumption DEF Stuck, Registered, PageScriptsAssumption
      <3>2. CASE s # next[x]
        BY <1>2, <2>1, <3>2 DEF Stuck, Registered
      <3> QED BY <3>1, <3>2
    <2> QED BY <2>2 DEF Stuck, Registered
  <1>3. next[x] \in Srcs \cup {NoSrc}
    BY DEF PInv, TypeOK, Pages
  <1> QED BY <1>1, <1>2, <1>3 DEF AttributeChanged, Disconnected, Register

\* A merge that ends gives a script whose import failed another chance only if
\* the new page does not name it.
LEMMA LoadKeepsStuck ==
  ASSUME PInv, EnhancedLoad
  PROVE  Stuck' = Stuck \cap SrcsOf(page)'
  <1>1. /\ Registered' = {s \in Srcs : Holders(s) # {}}
        /\ Registered' \subseteq Registered
        /\ \A s \in Registered' : bySrc'[s] = bySrc[s]
    BY KeptScripts
  <1>2. \A s \in Srcs : s \in SrcsOf(page)' <=> Holders(s) # {}
    BY PageScriptsAssumption DEF EnhancedLoad, SrcsOf, Holders, PageScriptsAssumption
  <1>3. UNCHANGED <<module, pending>>
    BY DEF EnhancedLoad
  <1>4. Registered \subseteq Srcs
    BY DEF Registered
  <1> QED BY <1>1, <1>2, <1>3, <1>4 DEF Stuck

\* An import that ends with the module set, or after its page has gone,
\* strands nobody.
LEMMA ResolveKeepsStuck ==
  ASSUME PInv, NEW i \in Infos, Resolve(i)
  PROVE  Stuck' = Stuck /\ (pending[i] \notin Stuck \/ UNCHANGED running)
  <1>1. /\ turn = "idle" /\ pending[i] # NoSrc /\ pending' = [pending EXCEPT ![i] = NoSrc]
        /\ bySrc' = bySrc
    BY DEF Resolve
  <1>2. Registered' = Registered /\ Registered \subseteq Srcs
    BY <1>1 DEF Registered
  <1>3. pending \in [Infos -> Srcs \cup {NoSrc}] /\ module \in [Infos -> BOOLEAN]
    BY DEF PInv, TypeOK
  <1>4. CASE count[i] <= 0 /\ UNCHANGED <<module, running>>
    <2>1. \A s \in Registered : bySrc[s] \in Infos /\ bySrc[s] # i
      <3>1. count[i] \in Int
        BY DEF PInv, TypeOK
      <3> QED BY <1>1, <1>4, <3>1, IdleMap
    <2> QED BY <1>1, <1>2, <1>3, <1>4, <2>1 DEF Stuck
  <1>5. CASE count[i] > 0 /\ module' = [module EXCEPT ![i] = TRUE]
    <2>1. pending[i] \in Registered /\ bySrc[pending[i]] = i
      BY <1>1, <1>5, ResolvesToPage
    <2>2. \A s \in Registered : bySrc[s] \in Infos /\ (s # pending[i] => bySrc[s] # i)
      BY <1>1, <1>2, <2>1, IdleMap DEF PInv, MapInv, Registered
    <2>3. pending[i] \notin Stuck /\ pending[i] \notin Stuck'
      BY <1>1, <1>3, <1>5, <2>1 DEF Stuck
    <2>4. \A s \in Registered : s # pending[i] =>
              module'[bySrc[s]] = module[bySrc[s]] /\ pending'[bySrc[s]] = pending[bySrc[s]]
      BY <1>1, <1>3, <1>5, <2>2
    <2>5. \A s \in Registered : s # pending[i] => (s \in Stuck' <=> s \in Stuck)
      BY <1>1, <1>2, <2>4 DEF Stuck
    <2>6. Stuck \subseteq Registered /\ Stuck' \subseteq Registered
      BY <1>2 DEF Stuck
    <2> QED BY <2>3, <2>5, <2>6
  <1> QED BY <1>4, <1>5 DEF Resolve

\* An import that fails strands the script that waits for it, or nobody if its
\* page has gone.
LEMMA RejectStrands ==
  ASSUME PInv, NEW i \in Infos, Reject(i)
  PROVE  \/ Stuck' = Stuck
         \/ /\ pending[i] \in SrcsOf(page) /\ pending[i] \in Srcs
            /\ running[pending[i]] = 0 /\ pending[i] \notin Stuck
            /\ Stuck' = Stuck \cup {pending[i]}
  <1>1. /\ turn = "idle" /\ pending[i] # NoSrc /\ pending' = [pending EXCEPT ![i] = NoSrc]
        /\ bySrc' = bySrc /\ module' = module
    BY DEF Reject
  <1>2. Registered' = Registered /\ Registered \subseteq Srcs
    BY <1>1 DEF Registered
  <1>3. pending \in [Infos -> Srcs \cup {NoSrc}]
    BY DEF PInv, TypeOK
  <1>4. CASE \A s \in Registered : bySrc[s] # i
    <2>1. \A s \in Registered : bySrc[s] \in Infos
      BY <1>1, IdleMap
    <2> QED BY <1>1, <1>2, <1>3, <1>4, <2>1 DEF Stuck
  <1>5. ASSUME NEW s \in Registered, bySrc[s] = i
        PROVE  /\ pending[i] \in SrcsOf(page) /\ pending[i] \in Srcs
               /\ running[pending[i]] = 0 /\ pending[i] \notin Stuck
               /\ Stuck' = Stuck \cup {pending[i]}
    <2>1. count[i] > 0
      BY <1>1, <1>5, IdleMap
    <2>2. /\ pending[i] \in Registered /\ bySrc[pending[i]] = i
          /\ running[pending[i]] = 0 /\ pending[i] \in SrcsOf(page)
      BY <1>1, <2>1, ResolvesToPage
    <2>3. ~module[i]
      <3>1. pending[bySrc[pending[i]]] = pending[i] /\ pending[i] \in Srcs
        BY <1>2, <2>2
      <3> QED BY <2>2, <3>1 DEF PInv, MapInv
    <2>4. \A u \in Registered : bySrc[u] \in Infos /\ (u # pending[i] => bySrc[u] # i)
      BY <1>1, <1>2, <2>2, IdleMap DEF PInv, MapInv, Registered
    <2>5. pending[i] \notin Stuck /\ pending[i] \in Stuck'
      BY <1>1, <1>2, <1>3, <2>2, <2>3 DEF Stuck
    <2>6. \A u \in Registered : u # pending[i] => pending'[bySrc[u]] = pending[bySrc[u]]
      BY <1>1, <1>3, <2>4
    <2>7. \A u \in Registered : u # pending[i] => (u \in Stuck' <=> u \in Stuck)
      BY <1>1, <1>2, <2>6 DEF Stuck
    <2>8. Stuck \subseteq Registered /\ Stuck' \subseteq Registered
      BY <1>2 DEF Stuck
    <2> QED BY <1>2, <2>2, <2>5, <2>7, <2>8
  <1> QED BY <1>4, <1>5

\* In every behaviour the element implements the lifecycle of the scripts.
THEOREM Refinement == Spec => ImplementsLifecycle
  <1>1. Init => Lifecycle!Init
    BY DEF Init, Lifecycle!Init, SrcsOf, Blank, Stuck, Registered
  <1>2. PInv /\ PInv' /\ [Next]_vars => [Lifecycle!Next]_(Lifecycle!vars)
    <2> SUFFICES ASSUME PInv, PInv', [Next]_vars
                 PROVE  Lifecycle!Next \/ UNCHANGED Lifecycle!vars
      OBVIOUS
    <2> DEFINE up == {s \in Srcs : running[s] = 1}
    <2>1. SrcsOf(page)' \in SUBSET Srcs
      BY DEF PInv, TypeOK, Pages, SrcsOf
    <2>2. CASE UNCHANGED <<page, running>> /\ Stuck' = Stuck
      BY <2>2 DEF Lifecycle!vars, SrcsOf
    <2>3. CASE Started
      <3>1. \A s \in Srcs : running[s] = 0
        BY <2>3 DEF PInv, TurnInv, Started
      <3>2. running' = running
        BY <2>3 DEF Started
      <3>3. up = {} /\ up' = {}
        BY <3>1, <3>2
      <3>4. Stuck' = Stuck /\ Stuck' \subseteq SrcsOf(page)'
        <4>1. turn' = "idle" /\ Stuck' = Stuck
          BY <2>3 DEF Started, Stuck, Registered
        <4>2. \A s \in Registered' : Holders(s)' # {} /\ dom' = page'
          BY <4>1 DEF PInv, TurnInv
        <4>3. \A s \in Srcs : Holders(s)' # {} /\ dom' = page' => s \in SrcsOf(page)'
          BY PageScriptsAssumption DEF Holders, SrcsOf, PageScriptsAssumption
        <4> QED BY <4>1, <4>2, <4>3 DEF Stuck, Registered
      <3>5. \E p \in SUBSET Srcs : Lifecycle!Navigate(p)
        BY <2>1, <3>3, <3>4 DEF Lifecycle!Navigate
      <3> QED BY <3>5 DEF Lifecycle!Next
    <2>4. CASE EnhancedLoad
      <3>1. \A s \in Srcs : running'[s] = 1 <=> running[s] = 1 /\ s \in SrcsOf(page)'
        <4> SUFFICES ASSUME NEW s \in Srcs
                     PROVE  running'[s] = 1 <=> running[s] = 1 /\ s \in SrcsOf(page)'
          OBVIOUS
        <4>1. running' = [u \in Srcs |-> IF u \in Unreferenced /\ module[bySrc[u]]
                                        THEN running[u] - 1 ELSE running[u]]
          BY <2>4 DEF EnhancedLoad
        <4>2. running[s] = IF s \in Registered /\ module[bySrc[s]] THEN 1 ELSE 0
          BY DEF PInv, RunInv
        <4>3. Unreferenced = {u \in Registered : Holders(u) = {}}
          BY <2>4, KeptScripts
        <4>4. s \in SrcsOf(page)' <=> Holders(s) # {}
          BY <2>4, PageScriptsAssumption
          DEF EnhancedLoad, SrcsOf, Holders, PageScriptsAssumption
        <4>5. Holders(s) # {} => s \in Registered
          BY CountMeansHeld
        <4> QED BY <4>1, <4>2, <4>3, <4>4, <4>5
      <3>2. up' = up \cap SrcsOf(page)'
        BY <3>1
      <3>3. \E p \in SUBSET Srcs : Lifecycle!Navigate(p)
        BY <2>1, <2>4, <3>2, LoadKeepsStuck DEF Lifecycle!Navigate
      <3> QED BY <3>3 DEF Lifecycle!Next
    <2>5. ASSUME NEW i \in Infos, Resolve(i)
          PROVE  Lifecycle!Next \/ UNCHANGED Lifecycle!vars
      <3>1. page' = page /\ Stuck' = Stuck
        BY <2>5, ResolveKeepsStuck DEF Resolve
      <3>2. CASE UNCHANGED running
        BY <2>2, <3>1, <3>2
      <3>3. CASE count[i] > 0 /\ running' = [running EXCEPT ![pending[i]] = @ + 1]
        <4>1. /\ pending[i] \in SrcsOf(page) /\ running[pending[i]] = 0
              /\ pending[i] \in Srcs
          BY <2>5, <3>3, ResolvesToPage DEF Resolve, Registered
        <4>2. up' = up \cup {pending[i]} /\ pending[i] \notin up
          BY <3>3, <4>1 DEF PInv, TypeOK
        <4>3. pending[i] \notin Stuck
          BY <2>5, <3>3, <4>1, ResolveKeepsStuck DEF PInv, TypeOK
        <4>4. \E s \in Srcs : Lifecycle!Load(s)
          BY <3>1, <4>1, <4>2, <4>3 DEF Lifecycle!Load, Lifecycle!Awaited, SrcsOf
        <4> QED BY <4>4 DEF Lifecycle!Next
      <3> QED BY <2>5, <3>2, <3>3 DEF Resolve
    <2>6. ASSUME NEW p \in Pages, Reload(p)
          PROVE  Lifecycle!Next
      <3>1. up' = {}
        BY <2>6 DEF Reload
      <3>2. Stuck' = {}
        BY <2>6 DEF Reload, Stuck, Registered
      <3>3. \E q \in SUBSET Srcs : Lifecycle!Reload(q)
        BY <2>1, <3>1, <3>2 DEF Lifecycle!Reload
      <3> QED BY <3>3 DEF Lifecycle!Next
    <2>7. ASSUME NEW x \in Slots, AttributeChanged(x) \/ Disconnected(x)
          PROVE  UNCHANGED <<page, running>> /\ Stuck' = Stuck
      BY <2>7, MergeKeepsStuck DEF AttributeChanged, Disconnected
    <2>8. ASSUME NEW i \in Infos, Reject(i)
          PROVE  Lifecycle!Next \/ UNCHANGED Lifecycle!vars
      <3>1. UNCHANGED <<page, running>>
        BY <2>8 DEF Reject
      <3>2. ASSUME pending[i] \in SrcsOf(page), pending[i] \in Srcs, running[pending[i]] = 0,
                   pending[i] \notin Stuck, Stuck' = Stuck \cup {pending[i]}
            PROVE  Lifecycle!Next
        <4>1. pending[i] \notin up
          BY <3>2
        <4>2. Lifecycle!Fail(pending[i])
          BY <3>1, <3>2, <4>1 DEF Lifecycle!Fail, Lifecycle!Awaited, SrcsOf
        <4> QED BY <3>2, <4>2 DEF Lifecycle!Next
      <3> QED BY <2>2, <2>8, <3>1, <3>2, RejectStrands
    <2>9. ASSUME NEW p \in Pages, Navigate(p)
          PROVE  UNCHANGED <<page, running>> /\ Stuck' = Stuck
      BY <2>9 DEF Navigate, Stuck, Registered
    <2>10. CASE UNCHANGED vars
      BY <2>2, <2>10 DEF vars, Stuck, Registered
    <2> HIDE DEF up
    <2> QED BY <2>2, <2>3, <2>4, <2>5, <2>6, <2>7, <2>8, <2>9, <2>10 DEF Next, Merge
  <1> QED BY <1>1, <1>2, Invariant, PTL DEF Spec, ImplementsLifecycle, Lifecycle!Spec

-----------------------------------------------------------------------------
(* No script is forgotten: what ImplementsFairLifecycle says of states and   *)
(* steps.  Fairness has only to see to it that imports are answered.         *)

\* The script will be started by the import that its object awaits.
Coming(s) == s \in Registered /\ pending[bySrc[s]] = s /\ count[bySrc[s]] > 0

\* Between two turns a script that the page names is in the map with a count,
\* and either its module is set, or its import is under way or was rejected.
LEMMA NamedIsComing ==
  ASSUME PInv, turn = "idle", NEW s \in SrcsOf(page)
  PROVE  s \in Srcs /\ (running[s] = 1 \/ s \in Stuck \/ Coming(s))
  <1>1. s \in Srcs
    BY DEF PInv, TypeOK, Pages, SrcsOf
  <1>2. Holders(s) # {}
    BY DEF PInv, TurnInv, SrcsOf, Holders
  <1>3. s \in Registered /\ count[bySrc[s]] > 0
    BY <1>1, <1>2, CountMeansHeld
  <1>4. pending[bySrc[s]] \in {s, NoSrc}
    BY <1>1, <1>3 DEF PInv, MapInv
  <1>5. module[bySrc[s]] => running[s] = 1
    BY <1>1, <1>3 DEF PInv, RunInv
  <1> QED BY <1>1, <1>3, <1>4, <1>5 DEF Stuck, Coming

\* However the user moved between pages while imports were under way, each
\* script that the page on screen names runs, or its import was rejected, or
\* the object in the map awaits its import and is still referenced; and the
\* answer to that import, when it comes, starts the script.
THEOREM NoScriptIsForgotten ==
  Spec => /\ [](turn = "idle" =>
                  \A s \in SrcsOf(page) : running[s] = 1 \/ s \in Stuck \/ Coming(s))
          /\ [][\A s \in Srcs : Coming(s) /\ Resolve(bySrc[s]) => running'[s] = 1]_vars
  <1> DEFINE P == turn = "idle" =>
                    \A s \in SrcsOf(page) : running[s] = 1 \/ s \in Stuck \/ Coming(s)
             A == \A s \in Srcs : Coming(s) /\ Resolve(bySrc[s]) => running'[s] = 1
  <1>1. PInv => P
    BY NamedIsComing
  <1>2. PInv => A
    <2> SUFFICES ASSUME PInv, NEW s \in Srcs, Coming(s), Resolve(bySrc[s])
                 PROVE  running'[s] = 1
      OBVIOUS
    <2>1. bySrc[s] \in Infos /\ count[bySrc[s]] \in Int /\ running \in [Srcs -> Int]
      BY DEF PInv, TypeOK, Coming, Registered
    <2>2. running[s] = 0
      BY DEF PInv, MapInv, RunInv, Coming
    <2>3. running' = [running EXCEPT ![s] = @ + 1]
      BY <2>1 DEF Resolve, Coming
    <2> QED BY <2>1, <2>2, <2>3
  <1> HIDE DEF P, A
  <1>3. Spec => []P /\ [][A]_vars
    BY <1>1, <1>2, Invariant, PTL DEF Spec
  <1> QED BY <1>3 DEF P, A
==============================================================================
