---------------------------- MODULE RouteProofs -----------------------------
(***************************************************************************)
(* Proofs about Route, for processor and link lists of any length over any *)
(* ids.                                                                    *)
(***************************************************************************)
EXTENDS Route, FiniteSetTheorems, WellFoundedInduction, TLAPS

-----------------------------------------------------------------------------
(* The last entry of a list with some property.                            *)

\* A set of naturals has a smallest element, one of positions a largest.
LEMMA Smallest ==
  ASSUME NEW S, S \subseteq Nat, S # {} PROVE \E x \in S : \A y \in S : x <= y
<1>1. PICK x \in S : \A y \in S : ~ (<<y, x>> \in OpToRel(<, Nat))
  BY NatLessThanWellFounded, WFMin
<1>2. \A y \in Nat, z \in Nat : <<y, z>> \in OpToRel(<, Nat) <=> y < z
  BY DEF OpToRel
<1>3. \A y \in S : ~ (y < x)
  BY <1>1, <1>2
<1>4. \A y \in S : x <= y
  BY <1>3
<1>5. QED
  BY <1>4

LEMMA MaxIsLast ==
  ASSUME NEW n \in Nat, NEW S, S \subseteq 1..n, S # {} PROVE Max(S) \in S
<1> DEFINE T == {n - x : x \in S}
<1>1. T \subseteq Nat
  OBVIOUS
<1>2. T # {}
  OBVIOUS
<1> HIDE DEF T
<1>3. PICK t \in T : \A y \in T : t <= y
  BY <1>1, <1>2, Smallest
<1> USE DEF T
<1>4. PICK x \in S : t = n - x
  BY <1>3
<1>5. \A y \in S : n - x <= n - y
  BY <1>3, <1>4
<1>6. \A y \in S : x >= y
  BY <1>5
<1>7. QED
  BY <1>6 DEF Max

Lists == procs \in Seq(Ids \cup {NoId}) /\ links \in Seq([from : Ids \cup {NoId}, to : Ids \cup {NoId}])

\* byID gives a processor with the id, if there is one.
LEMMA ByIdFinds ==
  ASSUME Lists, NEW id
  PROVE  \/ ById(id) = 0 /\ \A p \in Positions : procs[p] # id
         \/ ById(id) \in Positions /\ procs[ById(id)] = id
<1> DEFINE P == {p \in Positions : procs[p] = id}
<1>1. Len(procs) \in Nat
  BY DEF Lists
<1>2. P \subseteq 1..Len(procs)
  BY DEF Positions
<1>3. CASE P = {}
  BY <1>3 DEF ById
<1>4. CASE P # {}
  <2>1. Max(P) \in P
    BY <1>1, <1>2, <1>4, MaxIsLast
  <2>2. ById(id) = Max(P)
    BY <1>4 DEF ById
  <2>3. QED
    BY <2>1, <2>2
<1>5. QED
  BY <1>3, <1>4

\* nextID gives the target of a link from the id, if there is one.
LEMMA NextIdFinds ==
  ASSUME Lists, NEW id
  PROVE  \/ NextId(id) = NoId /\ \A l \in 1..Len(links) : links[l].from # id
         \/ \E l \in 1..Len(links) : links[l].from = id /\ links[l].to = NextId(id)
<1> DEFINE L == {l \in 1..Len(links) : links[l].from = id}
<1>1. Len(links) \in Nat
  BY DEF Lists
<1>2. L \subseteq 1..Len(links)
  OBVIOUS
<1>3. CASE L = {}
  BY <1>3 DEF NextId
<1>4. CASE L # {}
  <2>1. Max(L) \in L
    BY <1>1, <1>2, <1>4, MaxIsLast
  <2>2. NextId(id) = links[Max(L)].to
    BY <1>4 DEF NextId
  <2>3. QED
    BY <2>1, <2>2
<1>5. QED
  BY <1>3, <1>4

LEMMA NextIdTyped ==
  ASSUME Lists, NEW id PROVE NextId(id) \in Ids \cup {NoId}
<1>1. \A l \in 1..Len(links) : links[l].to \in Ids \cup {NoId}
  <2> DEFINE Link == [from : Ids \cup {NoId}, to : Ids \cup {NoId}]
  <2>1. \A x \in Link : x.to \in Ids \cup {NoId}
    OBVIOUS
  <2>2. links \in Seq(Link)
    BY DEF Lists
  <2> HIDE DEF Link
  <2>3. \A l \in 1..Len(links) : links[l] \in Link
    BY <2>2
  <2>4. QED
    BY <2>1, <2>3
<1>2. QED
  BY <1>1, NextIdFinds

\* A step leaves the configuration alone.
LEMMA SameLists ==
  ASSUME [Next]_vars
  PROVE  UNCHANGED <<procs, links>>
BY DEF Next, vars, InitRoute, Execute, Process, ProcessFails, NotFound, Return, NextMessage
-----------------------------------------------------------------------------
(* Type correctness.                                                       *)

LEMMA TypedStep ==
  ASSUME TypeOK, [Next]_vars PROVE TypeOK'
<1> USE DEF TypeOK, Phases, Positions
<1>1. Lists
  BY RouteAssumption DEF Lists
<1>2. UNCHANGED <<procs, links>>
  BY SameLists
<1>3. Len(procs) \in Nat
  BY <1>1 DEF Lists
<1>4. CASE InitRoute
  <2> DEFINE head == CHOOSE p \in Heads : TRUE
  <2>1. Heads # {} => head \in 1..Len(procs)
    BY DEF Heads
  <2>2. \/ phase' = "rejected" /\ first' = first
        \/ phase' = "ready" /\ first' = IF Heads = {} THEN 0 ELSE head
    BY <1>4 DEF InitRoute
  <2> HIDE DEF head
  <2>3. first' \in 0..Len(procs) /\ phase' \in {"ready", "rejected"}
    BY <1>3, <2>1, <2>2
  <2>4. UNCHANGED <<current, ran>>
    BY <1>4 DEF InitRoute
  <2>5. QED
    BY <1>2, <2>3, <2>4
<1>5. CASE Execute
  <2>1. \A p \in Positions : procs[p] \in Ids \cup {NoId}
    BY <1>1 DEF Lists
  <2>2. QED
    BY <1>3, <1>5, <2>1 DEF Execute
<1>6. CASE Process
  <2>1. ran' \in [Positions -> 0..2]
    <3>1. ran' = [ran EXCEPT ![ById(current)] = IF @ < 2 THEN @ + 1 ELSE @]
      BY <1>6 DEF Process, Run
    <3>2. \A n \in 0..2 : (IF n < 2 THEN n + 1 ELSE n) \in 0..2
      OBVIOUS
    <3>3. QED
      BY <3>1, <3>2
  <2>2. current' \in Ids \cup {NoId}
    BY <1>1, <1>6, NextIdTyped DEF Process
  <2>3. phase = "running" /\ UNCHANGED <<phase, first>>
    BY <1>6 DEF Process
  <2>4. QED
    BY <1>2, <2>1, <2>2, <2>3
<1>7. CASE ProcessFails
  BY <1>7 DEF ProcessFails
<1>8. CASE NotFound
  BY <1>8 DEF NotFound
<1>9. CASE Return
  BY <1>9 DEF Return
<1>10. CASE NextMessage
  BY <1>10 DEF NextMessage
<1>11. CASE UNCHANGED vars
  BY <1>11 DEF vars
<1>12. QED
  BY <1>4, <1>5, <1>6, <1>7, <1>8, <1>9, <1>10, <1>11 DEF Next

\* Every variable has its type, and Execute succeeds only at the end of a
\* chain, whatever the links say.
THEOREM TypeCorrect == Spec => []TypeOK
<1>1. Init => TypeOK
  <2> SUFFICES ASSUME Init PROVE TypeOK
    OBVIOUS
  <2>1. Len(procs) \in Nat
    BY RouteAssumption DEF Init
  <2>2. QED
    BY <2>1 DEF Init, TypeOK, Phases
<1>2. QED
  BY <1>1, TypedStep, PTL DEF Spec

-----------------------------------------------------------------------------
(* The order of the links.                                                 *)

\* The first processor is the only one without an incoming link.
FirstInv ==
  /\ phase = "new" => first = 0
  /\ first # 0 => first \in Heads
  /\ phase \notin {"new", "rejected"} => Heads \subseteq {first}

\* What runs next is the first processor, or one a link from a processor that
\* has run leads to.
OrderInv ==
  /\ phase \in {"new", "ready", "rejected"} => \A p \in Positions : ran[p] = 0
  /\ phase = "running" /\ current # NoId =>
       \/ first # 0 /\ current = procs[first]
       \/ \E p \in Positions : ran[p] > 0 /\ <<procs[p], current>> \in LinkRel

LEMMA FirstStep ==
  ASSUME TypeOK, FirstInv, [Next]_vars PROVE FirstInv'
<1> USE DEF FirstInv
<1>1. Heads' = Heads
  BY SameLists DEF Heads, Positions, ToIds
<1>2. CASE InitRoute
  <2> DEFINE head == CHOOSE p \in Heads : TRUE
  <2>1. \/ phase' = "rejected" /\ first' = first
        \/ phase' = "ready" /\ Cardinality(Heads) <= 1 /\ first' = IF Heads = {} THEN 0 ELSE head
    BY <1>2 DEF InitRoute
  <2>2. Heads # {} => head \in Heads
    OBVIOUS
  <2> HIDE DEF head
  <2>3. IsFiniteSet(Heads)
    <3>1. IsFiniteSet(1..Len(procs))
      BY RouteAssumption, FS_Interval DEF TypeOK
    <3>2. QED
      BY <3>1, FS_Subset DEF Heads, Positions
  <2>4. ASSUME Cardinality(Heads) <= 1, Heads # {} PROVE Heads \subseteq {head}
    <3>1. Cardinality(Heads) = 1
      BY <2>3, <2>4, FS_CardinalityType, FS_EmptySet
    <3>2. QED
      BY <2>2, <2>3, <2>4, <3>1, FS_Singleton
  <2>5. QED
    BY <1>1, <1>2, <2>1, <2>2, <2>4 DEF InitRoute
<1>3. CASE ~InitRoute
  BY <1>1, <1>3 DEF Next, vars, Execute, Process, ProcessFails, NotFound, Return, NextMessage
<1>4. QED
  BY <1>2, <1>3

LEMMA OrderStep ==
  ASSUME TypeOK, FirstInv, OrderInv, [Next]_vars PROVE OrderInv'
<1> USE DEF TypeOK, OrderInv
<1>1. Lists
  BY RouteAssumption DEF Lists
<1>2. Positions' = Positions /\ LinkRel' = LinkRel /\ UNCHANGED <<procs, links>>
  BY SameLists DEF Positions, LinkRel
<1>3. CASE InitRoute
  BY <1>2, <1>3 DEF InitRoute
<1>4. CASE Execute
  BY <1>2, <1>4 DEF Execute
<1>5. CASE Process
  <2>1. ById(current) \in Positions /\ procs[ById(current)] = current
    BY <1>1, <1>5, ByIdFinds DEF Process
  <2>2. ran' = [ran EXCEPT ![ById(current)] = IF @ < 2 THEN @ + 1 ELSE @]
    BY <1>5 DEF Process, Run
  <2>3. ran'[ById(current)] > 0
    BY <2>1, <2>2
  <2>4. NextId(current) # NoId => <<current, NextId(current)>> \in LinkRel
    BY <1>1, NextIdFinds DEF LinkRel
  <2>5. current' = NextId(current) /\ phase' = "running"
    BY <1>5 DEF Process
  <2>6. QED
    BY <1>2, <2>1, <2>3, <2>4, <2>5
<1>6. CASE ProcessFails
  BY <1>2, <1>6 DEF ProcessFails
<1>7. CASE NotFound
  BY <1>2, <1>7 DEF NotFound
<1>8. CASE Return
  BY <1>2, <1>8 DEF Return
<1>9. CASE NextMessage
  BY <1>2, <1>9 DEF NextMessage
<1>10. CASE UNCHANGED vars
  BY <1>2, <1>10 DEF vars
<1>11. QED
  BY <1>3, <1>4, <1>5, <1>6, <1>7, <1>8, <1>9, <1>10 DEF Next

LEMMA AlwaysOrdered == Spec => [](TypeOK /\ FirstInv /\ OrderInv)
<1>1. Init => FirstInv /\ OrderInv
  BY DEF Init, FirstInv, OrderInv
<1>2. QED
  BY <1>1, TypeCorrect, FirstStep, OrderStep, PTL DEF Spec

\* A processor runs only as the first one or after one that links to it.
LEMMA LinkOrderStep ==
  ASSUME TypeOK, FirstInv, OrderInv, LinkOrder, [Next]_vars PROVE LinkOrder'
<1> USE DEF TypeOK, LinkOrder
<1>1. Lists
  BY RouteAssumption DEF Lists
<1>2. Positions' = Positions /\ LinkRel' = LinkRel /\ UNCHANGED <<procs, links>>
  BY SameLists DEF Positions, LinkRel
<1>3. CASE InitRoute
  BY <1>2, <1>3 DEF InitRoute, OrderInv
<1>4. CASE Process
  <2> DEFINE p == ById(current)
  <2>1. p \in Positions /\ procs[p] = current
    BY <1>1, <1>4, ByIdFinds DEF Process
  <2>2. ran' = [ran EXCEPT ![p] = IF @ < 2 THEN @ + 1 ELSE @]
    BY <1>4 DEF Process, Run
  <2>3. phase = "running" /\ current # NoId /\ first' = first
    BY <1>4 DEF Process
  <2> HIDE DEF p
  <2>4. \A q \in Positions : ran[q] > 0 => ran'[q] > 0
    BY <2>1, <2>2
  <2>5. p = first \/ \E q \in Positions : ran[q] > 0 /\ <<procs[q], procs[p]>> \in LinkRel
    <3>1. CASE first # 0 /\ current = procs[first]
      <4>1. first \in Heads /\ Heads \subseteq {first}
        BY <2>3, <3>1 DEF FirstInv
      <4>2. p \in Heads
        BY <2>1, <3>1, <4>1 DEF Heads
      <4>3. QED
        BY <4>1, <4>2
    <3>2. QED
      BY <2>1, <2>3, <3>1 DEF OrderInv
  <2>6. ASSUME NEW q \in Positions, ran'[q] > 0 PROVE q = p \/ ran[q] > 0
    BY <2>1, <2>2, <2>6
  <2>7. QED
    BY <1>2, <2>3, <2>4, <2>5, <2>6
<1>5. CASE Execute \/ ProcessFails \/ NotFound \/ Return \/ UNCHANGED vars
  BY <1>2, <1>5 DEF Execute, ProcessFails, NotFound, Return, vars
<1>6. CASE NextMessage
  BY <1>2, <1>6 DEF NextMessage
<1>7. QED
  BY <1>3, <1>4, <1>5, <1>6 DEF Next

\* A processor runs only after one that links to it, or as the first one: for
\* any lists, also with repeated ids, ids left out and links to nowhere.
THEOREM FollowsLinks == Spec => []LinkOrder
<1>1. Init => LinkOrder
  BY DEF Init, LinkOrder
<1>2. QED
  BY <1>1, AlwaysOrdered, LinkOrderStep, PTL DEF Spec

\* In a well formed configuration Execute finds every processor its links lead
\* to: the lookup that ends with "processor not found" never does.
THEOREM FindsProcessors == Spec => [][WellFormed => ~NotFound]_vars
<1>1. ASSUME TypeOK, FirstInv, OrderInv, WellFormed, NotFound PROVE FALSE
  <2>1. Lists
    BY <1>1, RouteAssumption DEF Lists, TypeOK
  <2>2. phase = "running" /\ current # NoId /\ ById(current) = 0
    BY <1>1 DEF NotFound
  <2>3. CASE first # 0 /\ current = procs[first]
    <3>1. first \in Positions /\ 0 \notin Positions
      BY <1>1, <2>3 DEF FirstInv, Heads, Positions
    <3>2. QED
      BY <2>1, <2>2, <2>3, <3>1, ByIdFinds
  <2>4. CASE \E p \in Positions : <<procs[p], current>> \in LinkRel
    BY <1>1, <2>2, <2>4 DEF LinkRel, WellFormed
  <2>5. QED
    BY <1>1, <2>2, <2>3, <2>4 DEF OrderInv
<1>2. QED
  BY <1>1, AlwaysOrdered, PTL
-----------------------------------------------------------------------------
(* No processor twice, without cycles.                                     *)

\* Every processor that has run has its id, and the id its links lead on to is
\* the current one, or that of one that has run.
Trail ==
  /\ \A p \in Positions : ran[p] <= 1
  /\ \A p \in Positions : ran[p] > 0 =>
       /\ procs[p] # NoId
       /\ \/ NextId(procs[p]) = current
          \/ \E q \in Positions : ran[q] > 0 /\ procs[q] = NextId(procs[p])

TrailInv == Acyclic => Trail

\* A set of processors each of which has its successor in the set is a cycle.
LEMMA NoRound ==
  ASSUME TypeOK, Acyclic, NEW S, S \subseteq Positions, S # {},
         \A p \in S : procs[p] # NoId
  PROVE  \E p \in S : \A q \in S : <<procs[p], procs[q]>> \notin LinkRel
<1>1. \A p \in S : procs[p] \in Ids
  BY RouteAssumption DEF TypeOK, Positions
<1> DEFINE T == {procs[p] : p \in S}
<1>2. T \subseteq Ids /\ T # {}
  BY <1>1
<1>3. ~ \A x \in T : \E y \in T : <<x, y>> \in LinkRel
  BY <1>2 DEF Acyclic
<1>4. QED
  BY <1>3

\* nextID follows a link.
LEMMA NextIdLinked ==
  ASSUME Lists, NEW id, NextId(id) # NoId PROVE <<id, NextId(id)>> \in LinkRel
BY NextIdFinds DEF LinkRel

\* No processor is reached twice: what has run would lead round.
LEMMA NotTwice ==
  ASSUME TypeOK, Acyclic, Trail, current # NoId, NEW p \in Positions, procs[p] = current
  PROVE  ran[p] = 0
<1> SUFFICES ASSUME ran[p] # 0 PROVE FALSE
  OBVIOUS
<1>1. Lists
  BY RouteAssumption DEF Lists, TypeOK
<1> DEFINE S == {q \in Positions : ran[q] > 0}
<1>2. p \in S
  BY DEF TypeOK
<1>3. ASSUME NEW q \in S
      PROVE  procs[q] # NoId /\ \E r \in S : <<procs[q], procs[r]>> \in LinkRel
  <2>1. procs[q] # NoId
    BY DEF Trail
  <2>2. PICK r \in S : procs[r] = NextId(procs[q])
    BY <1>2, <1>3 DEF Trail
  <2>3. procs[r] # NoId
    BY <2>2 DEF Trail
  <2>4. QED
    BY <1>1, <2>1, <2>2, <2>3, NextIdLinked
<1>4. S \subseteq Positions /\ S # {}
  BY <1>2
<1> HIDE DEF S
<1>5. QED
  BY <1>3, <1>4, NoRound

\* One round of the loop runs one processor, for the first time.
LEMMA ProcessOne ==
  ASSUME TypeOK, Acyclic, Trail, Process
  PROVE  \E p \in Positions :
           /\ procs[p] = current /\ current # NoId /\ ran[p] = 0
           /\ ran' = [ran EXCEPT ![p] = 1]
           /\ current' = NextId(procs[p])
           /\ phase = "running" /\ UNCHANGED <<procs, links, phase, first>>
<1> DEFINE p == ById(current)
<1>1. Lists
  BY RouteAssumption DEF Lists, TypeOK
<1>2. p \in Positions /\ procs[p] = current
  BY <1>1, ByIdFinds DEF Process
<1>3. /\ ran' = [ran EXCEPT ![p] = IF @ < 2 THEN @ + 1 ELSE @]
      /\ current # NoId /\ current' = NextId(current)
      /\ phase = "running" /\ UNCHANGED <<procs, links, phase, first>>
  BY DEF Process, Run
<1> HIDE DEF p
<1>4. ran[p] = 0
  BY <1>2, <1>3, NotTwice
<1>5. ran' = [ran EXCEPT ![p] = 1]
  BY <1>2, <1>3, <1>4 DEF TypeOK
<1>6. QED
  BY <1>2, <1>3, <1>4, <1>5

LEMMA TrailStep ==
  ASSUME TypeOK, OrderInv, TrailInv, [Next]_vars PROVE TrailInv'
<1> USE DEF TypeOK
<1>1. Positions' = Positions /\ LinkRel' = LinkRel /\ UNCHANGED <<procs, links>>
  BY SameLists DEF Positions, LinkRel
<1>2. \A id : NextId(id)' = NextId(id)
  BY <1>1 DEF NextId
<1>3. SUFFICES ASSUME Acyclic PROVE Trail'
  BY <1>1 DEF TrailInv, Acyclic
<1>4. Trail
  BY <1>3 DEF TrailInv
<1>5. (\A p \in Positions : ran'[p] = 0) => Trail'
  BY <1>1 DEF Trail
<1>6. UNCHANGED <<current, ran>> => Trail'
  BY <1>1, <1>2, <1>4 DEF Trail
<1>7. CASE Execute
  BY <1>5, <1>7 DEF Execute, OrderInv
<1>8. CASE Process
  <2>1. PICK p \in Positions :
          /\ procs[p] = current /\ current # NoId /\ ran[p] = 0
          /\ ran' = [ran EXCEPT ![p] = 1]
          /\ current' = NextId(procs[p])
    BY <1>3, <1>4, <1>8, ProcessOne
  <2>2. ran'[p] = 1 /\ \A q \in Positions : q # p => ran'[q] = ran[q]
    BY <2>1
  <2>3. \A q \in Positions : ran'[q] <= 1
    BY <1>4, <2>2 DEF Trail
  <2>4. ASSUME NEW q \in Positions, ran'[q] > 0
        PROVE  /\ procs[q] # NoId
               /\ \/ NextId(procs[q]) = current'
                  \/ \E r \in Positions : ran'[r] > 0 /\ procs[r] = NextId(procs[q])
    <3>1. CASE q = p
      BY <2>1, <3>1
    <3>2. CASE q # p
      <4>1. ran[q] > 0
        BY <2>2, <2>4, <3>2
      <4>2. procs[q] # NoId
        BY <1>4, <4>1 DEF Trail
      <4>3. CASE NextId(procs[q]) = current
        BY <2>1, <2>2, <4>2, <4>3
      <4>4. CASE \E r \in Positions : ran[r] > 0 /\ procs[r] = NextId(procs[q])
        BY <2>2, <4>2, <4>4
      <4>5. QED
        BY <1>4, <4>1, <4>3, <4>4 DEF Trail
    <3>3. QED
      BY <3>1, <3>2
  <2>5. QED
    BY <1>1, <1>2, <2>3, <2>4 DEF Trail
<1>9. CASE NextMessage
  BY <1>1, <1>5, <1>9 DEF NextMessage
<1>10. CASE InitRoute \/ ProcessFails \/ NotFound \/ Return \/ UNCHANGED vars
  BY <1>6, <1>10 DEF InitRoute, ProcessFails, NotFound, Return, vars
<1>11. QED
  BY <1>7, <1>8, <1>9, <1>10 DEF Next

LEMMA AlwaysTrail == Spec => [](TypeOK /\ FirstInv /\ OrderInv /\ TrailInv)
<1>1. Init => TrailInv
  BY DEF Init, TrailInv, Trail
<1>2. QED
  BY <1>1, AlwaysOrdered, TrailStep, PTL DEF Spec

\* The processors a message has still not met.
Left == {p \in Positions : ran[p] = 0}

\* A round of Execute without cycles leaves fewer processors to meet.
FewerLeft == Acyclic /\ Process => Cardinality(Left') < Cardinality(Left)

\* Execute comes to an end: for lists of any length and whatever is wrong with
\* the links but a cycle, each round of its loop meets a processor that the
\* message has not met, so that there are no more rounds than processors.
THEOREM RoundsRunOut == Spec => [][FewerLeft]_vars
<1>1. ASSUME TypeOK, TrailInv, [Next]_vars PROVE [FewerLeft]_vars
  <2> SUFFICES ASSUME Acyclic, Process PROVE Cardinality(Left') < Cardinality(Left)
    BY DEF FewerLeft
  <2>1. Trail
    BY <1>1 DEF TrailInv
  <2>2. PICK p \in Positions :
          /\ ran[p] = 0 /\ ran' = [ran EXCEPT ![p] = 1] /\ UNCHANGED procs
    BY <1>1, <2>1, ProcessOne
  <2>3. p \in Left
    BY <2>2 DEF Left
  <2>4. Left' = Left \ {p}
    BY <1>1, <2>2 DEF Left, TypeOK, Positions
  <2>5. IsFiniteSet(Left)
    <3>1. IsFiniteSet(1..Len(procs))
      BY <1>1, RouteAssumption, FS_Interval DEF TypeOK
    <3>2. QED
      BY <3>1, FS_Subset DEF Left, Positions
  <2>6. Cardinality(Left') = Cardinality(Left) - 1
    BY <2>3, <2>4, <2>5, FS_RemoveElement
  <2>7. Cardinality(Left) \in Nat
    BY <2>5, FS_CardinalityType
  <2>8. QED
    BY <2>6, <2>7
<1>2. QED
  BY <1>1, AlwaysTrail, PTL DEF Spec
-----------------------------------------------------------------------------
(* Every processor once.                                                   *)

\* The chain starts at the first processor.
FirstRan == WellFormed /\ Acyclic /\ phase \in {"running", "done"} =>
  (first # 0 => ran[first] > 0 \/ current = procs[first])

\* Where a link from an id is the only one, nextID leads where it leads.
LEMMA OnlyLink ==
  ASSUME TypeOK, WellFormed, NEW p \in Positions, NEW q \in Positions,
         <<procs[p], procs[q]>> \in LinkRel
  PROVE  NextId(procs[p]) = procs[q]
<1>1. Lists
  BY RouteAssumption DEF Lists, TypeOK
<1>2. PICK l \in 1..Len(links) : links[l].from = procs[p] /\ links[l].to = procs[q]
  BY DEF LinkRel
<1>3. PICK k \in 1..Len(links) : links[k].from = procs[p] /\ links[k].to = NextId(procs[p])
  BY <1>1, <1>2, NextIdFinds
<1>4. QED
  BY <1>2, <1>3 DEF WellFormed

LEMMA FirstRanStep ==
  ASSUME TypeOK, FirstInv, TrailInv, FirstRan, [Next]_vars PROVE FirstRan'
<1> USE DEF TypeOK
<1>1. Positions' = Positions /\ LinkRel' = LinkRel /\ UNCHANGED <<procs, links>>
  BY SameLists DEF Positions, LinkRel
<1>2. \A id : ById(id)' = ById(id)
  BY <1>1 DEF ById
<1>3. (WellFormed' => WellFormed) /\ (Acyclic' => Acyclic)
  BY <1>1, <1>2 DEF WellFormed, Acyclic
<1>4. CASE InitRoute \/ ProcessFails \/ NotFound \/ NextMessage
  BY <1>4 DEF InitRoute, ProcessFails, NotFound, NextMessage, FirstRan
<1>5. CASE Execute
  BY <1>1, <1>5 DEF Execute, FirstRan
<1>6. ASSUME Process, WellFormed, Acyclic, first # 0
      PROVE  ran'[first] > 0 \/ current' = procs[first]
  <2>1. Trail
    BY <1>6 DEF TrailInv
  <2>2. PICK p \in Positions :
          /\ procs[p] = current /\ ran' = [ran EXCEPT ![p] = 1] /\ phase = "running"
    BY <1>6, <2>1, ProcessOne
  <2>3. first \in Positions
    BY <1>6 DEF FirstInv, Heads
  <2>4. ran[first] > 0 \/ first = p
    BY <1>6, <2>2, <2>3 DEF FirstRan, WellFormed
  <2>5. QED
    BY <2>2, <2>3, <2>4
<1>7. Process => FirstRan'
  BY <1>1, <1>3, <1>6 DEF FirstRan, Process
<1>8. CASE Return
  BY <1>1, <1>3, <1>8 DEF Return, FirstRan
<1>9. CASE UNCHANGED vars
  BY <1>1, <1>3, <1>9 DEF vars, FirstRan
<1>10. QED
  BY <1>4, <1>5, <1>7, <1>8, <1>9 DEF Next

\* At the end of a chain nothing is left out: what is left out would have a
\* predecessor that is left out, and, there being finitely many, lead round.
LEMMA NothingLeft ==
  ASSUME TypeOK, FirstInv, WellFormed, Acyclic, Trail, FirstRan, phase = "done",
         NEW p \in Positions
  PROVE  ran[p] > 0
<1> DEFINE U == {q \in Positions : ran[q] = 0}
<1> SUFFICES ASSUME U # {} PROVE FALSE
  BY DEF TypeOK
<1>1. IsFiniteSet(U)
  <2>1. IsFiniteSet(1..Len(procs))
    BY RouteAssumption, FS_Interval DEF TypeOK
  <2>2. QED
    BY <2>1, FS_Subset DEF Positions
<1>2. ASSUME NEW q \in U PROVE \E r \in U : <<procs[r], procs[q]>> \in LinkRel
  <2>1. procs[q] # NoId /\ current = NoId
    BY DEF WellFormed, TypeOK
  <2>2. q \notin Heads
    <3>1. first # 0 => ran[first] > 0
      <4>1. first # 0 => procs[first] # NoId
        BY DEF FirstInv, Heads, WellFormed
      <4>2. QED
        BY <2>1, <4>1 DEF FirstRan
    <3>2. Heads \subseteq {first}
      BY DEF FirstInv
    <3>3. Positions \subseteq Nat \ {0}
      BY DEF Positions
    <3>4. QED
      BY <3>1, <3>2, <3>3
  <2>3. PICK l \in 1..Len(links) : links[l].to = procs[q]
    BY <2>2 DEF Heads, ToIds
  <2>4. PICK r \in Positions : procs[r] = links[l].from
    <3>1. ById(links[l].from) # 0
      BY DEF WellFormed
    <3>2. QED
      BY <3>1, RouteAssumption, ByIdFinds DEF Lists, TypeOK
  <2>5. <<procs[r], procs[q]>> \in LinkRel
    BY <2>3, <2>4 DEF LinkRel
  <2>6. ran[r] = 0
    <3> SUFFICES ASSUME ran[r] > 0 PROVE FALSE
      BY DEF TypeOK
    <3>1. NextId(procs[r]) = procs[q]
      BY <2>5, OnlyLink
    <3>2. PICK o \in Positions : ran[o] > 0 /\ procs[o] = procs[q]
      BY <2>1, <3>1 DEF Trail
    <3>3. o = q
      BY <3>2 DEF WellFormed
    <3>4. QED
      BY <3>2, <3>3
  <2>7. QED
    BY <2>5, <2>6
<1> DEFINE before == [q \in U |-> CHOOSE r \in U : <<procs[r], procs[q]>> \in LinkRel]
<1>3. ASSUME NEW q \in U PROVE before[q] \in U /\ <<procs[before[q]], procs[q]>> \in LinkRel
  BY <1>2
<1>4. before \in [U -> U]
  BY <1>3
<1> HIDE DEF before
<1>5. ASSUME NEW q \in U, NEW r \in U, before[q] = before[r] PROVE q = r
  <2>1. procs[q] = procs[r]
    BY <1>3, <1>5, OnlyLink
  <2>2. QED
    BY <2>1 DEF WellFormed
<1>6. before \in Injection(U, U)
  BY <1>4, <1>5 DEF Injection, IsInjective
<1>7. before \in Surjection(U, U)
  BY <1>1, <1>6, FS_Injection
<1>8. \A r \in U : \E q \in U : before[q] = r
  BY <1>7 DEF Surjection
<1>9. \A r \in U : \E q \in U : <<procs[r], procs[q]>> \in LinkRel
  BY <1>3, <1>8
<1>10. U \subseteq Positions /\ \A q \in U : procs[q] # NoId
  BY DEF WellFormed
<1> HIDE DEF U
<1>11. QED
  BY <1>9, <1>10, NoRound

\* Without a cycle in the links no message meets a processor twice; and what
\* Init accepts, Execute does completely: with any number of processors, a
\* message that comes through a well formed chain has been processed by each of
\* them once, although Init looks at the heads only.
THEOREM RunsEveryProcessorOnce == Spec => []ChainRunsAll
<1>1. Init => FirstRan
  BY DEF Init, FirstRan
<1>2. TypeOK /\ FirstInv /\ TrailInv /\ FirstRan => ChainRunsAll
  <2> SUFFICES ASSUME TypeOK, FirstInv, TrailInv, FirstRan, Acyclic, NEW p \in Positions
               PROVE  /\ ran[p] <= 1
                      /\ WellFormed /\ phase = "done" => ran[p] = 1
    BY DEF ChainRunsAll
  <2>1. Trail
    BY DEF TrailInv
  <2>2. WellFormed /\ phase = "done" => ran[p] > 0
    BY <2>1, NothingLeft
  <2>3. QED
    BY <2>1, <2>2 DEF Trail, TypeOK
<1>3. QED
  BY <1>1, <1>2, FirstRanStep, AlwaysTrail, PTL DEF Spec
=============================================================================
