------------------------- MODULE AppLifecycleProofs --------------------------
(***************************************************************************)
(* Proofs about the life of a bridge process and about the key store, for  *)
(* any number of processes, configurations, keys and messages.             *)
(***************************************************************************)
EXTENDS AppLifecycle, FiniteSetTheorems, TLAPS

-----------------------------------------------------------------------------
(* The key store.                                                          *)

\* Keys of different values do not share their first eight digits.
PrefixesDiffer == \A v, w \in Values : Prefix(v) = Prefix(w) => v = w

Procs == Bridges \cup Tools
Places == {"start", "insert", "ready", "failed", "ended"}

\* The instance counts as the module does.
LEMMA SameCount == KS!Cardinality(keys) = Cardinality(keys)
BY DEF KS!Cardinality, Cardinality

\* The rows of the table.  Their ids count them, so that AddKey finds one
\* that is free; the seed, row 1, is always among them.
KeysInv ==
  /\ IsFiniteSet(keys)
  /\ keys \subseteq [id : Nat \ {0}, value : Values]
  /\ \A k, l \in keys : k.id = l.id \/ k.value = l.value => k = l
  /\ \A k \in keys : k.id <= Cardinality(keys)
  /\ keys # {} => \E k \in keys : k.id = 1

\* Whoever is past the seeding found or made a key, and what was printed was
\* encrypted with one that is still there.
StoreInv ==
  /\ KeysInv
  /\ at \in [Procs -> Places]
  /\ \A p \in Procs : at[p] \in {"ready", "ended"} => keys # {}
  /\ \A c \in printed : \E k \in keys : c = [prefix |-> Prefix(k.value), key |-> k.value]

\* A new row with the next id.
LEMMA AddRow ==
  ASSUME KeysInv, NEW v \in Values, v \notin KS!Used,
         keys' = keys \cup {KS!Key(Cardinality(keys) + 1, v)}
  PROVE  KeysInv' /\ keys \subseteq keys' /\ keys' # {}
<1> DEFINE n == Cardinality(keys)
           k == KS!Key(n + 1, v)
<1>1. n \in Nat
  BY FS_CardinalityType DEF KeysInv
<1>2. k \in [id : Nat \ {0}, value : Values] /\ k.id = n + 1 /\ k.value = v
  BY <1>1 DEF KS!Key
<1>3. keys' = keys \cup {k}
  OBVIOUS
<1>4. \A l \in keys : l.id \in Nat /\ l.id <= n /\ l.value # v
  BY DEF KeysInv, KS!Used
<1> HIDE DEF k
<1>5. k \notin keys
  BY <1>1, <1>2, <1>4
<1>6. IsFiniteSet(keys') /\ Cardinality(keys') = n + 1
  BY <1>3, <1>5, FS_AddElement DEF KeysInv
<1>7. \E l \in keys' : l.id = 1
  <2>1. CASE keys = {}
    <3>1. n = 0
      BY <2>1, FS_EmptySet
    <3>2. QED
      BY <1>2, <1>3, <3>1
  <2>2. CASE keys # {}
    BY <1>3, <2>2 DEF KeysInv
  <2>3. QED
    BY <2>1, <2>2
<1> HIDE DEF n
<1>8. \A l \in keys' : l.id <= n + 1
  BY <1>1, <1>2, <1>3, <1>4
<1>9. \A l, m \in keys' : l.id = m.id \/ l.value = m.value => l = m
  BY <1>1, <1>2, <1>3, <1>4 DEF KeysInv
<1>10. keys' \subseteq [id : Nat \ {0}, value : Values]
  BY <1>2, <1>3 DEF KeysInv
<1>11. \A l \in keys' : l.id <= Cardinality(keys')
  BY <1>6, <1>8
<1>12. KeysInv'
  BY <1>6, <1>7, <1>9, <1>10, <1>11 DEF KeysInv
<1>13. QED
  BY <1>3, <1>12

\* The primary key lets a seed in only when the table is empty.
LEMMA InsertSeeds ==
  ASSUME StoreInv, NEW p \in Procs, KS!Insert(p)
  PROVE  \/ keys' = keys
         \/ KeysInv' /\ keys \subseteq keys' /\ keys' # {}
<1>1. CASE 1 \notin KS!Ids
  <2>1. keys = {}
    BY <1>1 DEF StoreInv, KeysInv, KS!Ids
  <2>2. Cardinality(keys) + 1 = 1
    BY <2>1, FS_EmptySet
  <2>3. PICK v \in Values \ KS!Used : keys' = keys \cup {KS!Key(1, v)}
    BY <1>1 DEF KS!Insert
  <2>4. QED
    BY <2>2, <2>3, AddRow DEF StoreInv
<1>2. CASE 1 \in KS!Ids
  <2>1. keys' = keys
    BY <1>2 DEF KS!Insert
  <2>2. QED
    BY <2>1
<1>3. QED
  BY <1>1, <1>2

\* Every step of a process leaves the store in order.
LEMMA StoreSteps ==
  ASSUME StoreInv, NEW p \in Procs,
         KS!Count(p) \/ KS!Insert(p) \/ KS!Fails(p) \/ KS!Encrypt(p)
  PROVE  StoreInv' /\ keys \subseteq keys'
<1> USE DEF StoreInv, Places, KS!Go
<1>1. CASE KS!Count(p)
  <2>1. UNCHANGED <<keys, printed>>
    BY <1>1 DEF KS!Count
  <2>2. KeysInv'
    BY <2>1 DEF KeysInv
  <2>3. QED
    BY <1>1, <2>1, <2>2 DEF KS!Count
<1>2. CASE KS!Insert(p)
  <2>1. KeysInv' /\ keys \subseteq keys'
    BY <1>2, InsertSeeds DEF KeysInv
  <2>2. at' \in [Procs -> Places] /\ printed' = printed
    BY <1>2 DEF KS!Insert
  <2>3. \A q \in Procs : at'[q] \in {"ready", "ended"} => keys' # {}
    BY <1>2, <2>1 DEF KS!Insert
  <2>4. QED
    BY <2>1, <2>2, <2>3
<1>3. CASE KS!Fails(p)
  <2>1. UNCHANGED <<keys, printed>>
    BY <1>3 DEF KS!Fails
  <2>2. KeysInv'
    BY <2>1 DEF KeysInv
  <2>3. QED
    BY <1>3, <2>1, <2>2 DEF KS!Fails
<1>4. CASE KS!Encrypt(p)
  <2>1. UNCHANGED keys
    BY <1>4 DEF KS!Encrypt
  <2>2. KeysInv'
    BY <2>1 DEF KeysInv
  <2>3. QED
    BY <1>4, <2>1, <2>2 DEF KS!Encrypt, KS!Cipher
<1>5. QED
  BY <1>1, <1>2, <1>3, <1>4
-----------------------------------------------------------------------------
(* The phases of a bridge.                                                 *)

\* What a bridge has connected and started, by its phase.  Between "connect"
\* and "listen" pos tells how far Init is: started holds the starters before it.
Before(p) ==
  {x \in AllStarters : x[1] < pos[p][1] \/ (x[1] = pos[p][1] /\ x[2] < pos[p][2])}

Initialising(p) ==
  /\ started[p] = Before(p)
  /\ pos[p][1] = Len(cfg.routes) + 1 => pos[p][2] = 0
  /\ \A r \in Routes : r = pos[p][1] => pos[p][2] <= Len(cfg.routes[r].starters)
  /\ \A r \in Routes : r = pos[p][1] /\ pos[p][2] > 0 => cfg.routes[r].oneHead

InPhase(p) ==
  /\ pc[p] \in {"seed", "load", "exited"} => conns[p] = {}
  /\ pc[p] \in {"seed", "load", "connect", "exited"} => started[p] = {}
  /\ pc[p] \in {"connect", "init", "listen", "serving"} => Creatable
  /\ pc[p] \in {"init", "listen", "serving"} => conns[p] = EmsComps
  /\ pc[p] = "init" => Initialising(p)
  /\ pc[p] \in {"listen", "serving"} => started[p] = AllStarters
  /\ \A x \in started[p] : cfg.routes[x[1]].oneHead

Bridging ==
  /\ cfg \in Configs
  /\ pc \in [Bridges -> Phases]
  /\ conns \in [Bridges -> SUBSET EmsComps]
  /\ pos \in [Bridges -> (1..(Len(cfg.routes) + 1)) \X Nat]
  /\ started \in [Bridges -> SUBSET AllStarters]
  /\ \A p \in Bridges : InPhase(p)

\* The lists of the configuration.
LEMMA ConfigLists ==
  ASSUME cfg \in Configs
  PROVE  /\ Len(cfg.routes) \in Nat /\ Routes = 1..Len(cfg.routes)
         /\ \A r \in Routes : /\ Len(cfg.routes[r].starters) \in Nat
                              /\ Starters(r) = 1..Len(cfg.routes[r].starters)
         /\ \A x : x \in AllStarters <=>
              \E r \in Routes : \E s \in Starters(r) : x = <<r, s>>
         /\ EmsComps \subseteq Comps
<1>1. cfg.routes \in Seq([sends : SUBSET Names, oneHead : BOOLEAN, starters : Seq(Starter)])
  BY LifecycleAssumption
<1>2. Len(cfg.routes) \in Nat /\ Routes = 1..Len(cfg.routes)
  BY <1>1 DEF Routes
<1>3. ASSUME NEW r \in Routes
      PROVE  Len(cfg.routes[r].starters) \in Nat /\ Starters(r) = 1..Len(cfg.routes[r].starters)
  <2> DEFINE Routing == [sends : SUBSET Names, oneHead : BOOLEAN, starters : Seq(Starter)]
  <2>1. cfg.routes[r] \in Routing
    <3>1. cfg.routes \in Seq(Routing)
      BY <1>1
    <3> HIDE DEF Routing
    <3>2. QED
      BY <1>2, <3>1
  <2>2. cfg.routes[r].starters \in Seq(Starter)
    BY <2>1
  <2>3. QED
    BY <2>2 DEF Starters
<1>4. QED
  BY <1>2, <1>3 DEF AllStarters, EmsComps

\* The configuration does not change.
LEMMA ConfigStays ==
  ASSUME [Next]_vars PROVE cfg' = cfg
BY Zenon DEF Next, vars, Run, Seed, Load, Connect, InitRoute, Listen, Take, Finish, GiveBack,
             Crash, Restart, RunTool, Edit

\* Starters and their routes are numbered from one.
LEMMA StarterNumbers ==
  ASSUME cfg \in Configs, NEW x \in AllStarters
  PROVE  /\ x = <<x[1], x[2]>> /\ x[1] \in Routes
         /\ x[1] \in 1..Len(cfg.routes) /\ x[2] \in 1..Len(cfg.routes[x[1]].starters)
         /\ x[1] \in Nat \ {0} /\ x[2] \in Nat \ {0}
<1>1. PICK r \in Routes : \E s \in Starters(r) : x = <<r, s>>
  BY ConfigLists
<1>2. PICK s \in Starters(r) : x = <<r, s>>
  BY <1>1
<1>3. /\ r \in 1..Len(cfg.routes) /\ Len(cfg.routes) \in Nat
      /\ s \in 1..Len(cfg.routes[r].starters) /\ Len(cfg.routes[r].starters) \in Nat
  BY <1>2, ConfigLists
<1>4. QED
  BY <1>2, <1>3

LEMMA ConfigDerived ==
  ASSUME cfg' = cfg
  PROVE  /\ Routes' = Routes /\ AllStarters' = AllStarters /\ EmsComps' = EmsComps
         /\ Creatable' = Creatable
BY DEF Routes, Starters, AllStarters, EmsComps, Comps, Creatable, Refs, Lookup

\* A bridge whose part of the state stays is in the same phase.
LEMMA PhaseStays ==
  ASSUME cfg' = cfg, NEW p, InPhase(p), pc'[p] = pc[p], conns'[p] = conns[p],
         pos'[p] = pos[p], started'[p] = started[p]
  PROVE  InPhase(p)'
<1>1. Before(p)' = Before(p)
  BY ConfigDerived DEF Before
<1>2. Initialising(p)' = Initialising(p)
  BY <1>1, ConfigDerived DEF Initialising
<1>3. QED
  BY <1>2, ConfigDerived DEF InPhase

\* The end of the process, for whatever reason.
LEMMA ExitBridges ==
  ASSUME Bridging, cfg' = cfg, NEW p \in Bridges, Exit(p) PROVE Bridging'
<1> USE DEF Bridging, Exit, Step
<1>1. ASSUME NEW q \in Bridges PROVE InPhase(q)'
  <2>1. CASE q = p
    BY <2>1 DEF InPhase
  <2>2. CASE q # p
    <3>1. /\ pc'[q] = pc[q] /\ conns'[q] = conns[q]
          /\ pos'[q] = pos[q] /\ started'[q] = started[q]
      BY <2>2
    <3>2. QED
      BY <3>1, PhaseStays
  <2>3. QED
    BY <2>1, <2>2
<1>2. QED
  BY <1>1, ConfigDerived DEF Phases

\* A step of one bridge; the phases of the others stay.
LEMMA OneMoves ==
  ASSUME Bridging, cfg' = cfg, NEW p \in Bridges, NEW phase \in Phases, NEW C \in SUBSET EmsComps,
         NEW at1 \in (1..(Len(cfg.routes) + 1)) \X Nat, NEW S \in SUBSET AllStarters,
         pc' = [pc EXCEPT ![p] = phase], conns' = [conns EXCEPT ![p] = C],
         pos' = [pos EXCEPT ![p] = at1], started' = [started EXCEPT ![p] = S],
         InPhase(p)'
  PROVE  Bridging'
<1> USE DEF Bridging
<1>1. ASSUME NEW q \in Bridges PROVE InPhase(q)'
  <2>1. CASE q = p
    BY <2>1
  <2>2. CASE q # p
    <3>1. /\ pc'[q] = pc[q] /\ conns'[q] = conns[q]
          /\ pos'[q] = pos[q] /\ started'[q] = started[q]
      BY <2>2
    <3>2. QED
      BY <3>1, PhaseStays
  <2>3. QED
    BY <2>1, <2>2
<1>2. QED
  BY <1>1, ConfigDerived

\* A step that no bridge takes part in.
LEMMA NoneMoves ==
  ASSUME Bridging, cfg' = cfg, UNCHANGED app PROVE Bridging'
BY PhaseStays, ConfigDerived DEF Bridging, app

\* A step to another phase only.
LEMMA PhaseMoves ==
  ASSUME Bridging, cfg' = cfg, NEW p \in Bridges, NEW phase \in Phases, Step(p, phase),
         UNCHANGED <<conns, pos, started>>, InPhase(p)'
  PROVE  Bridging'
<1>1. /\ conns' = [conns EXCEPT ![p] = conns[p]] /\ pos' = [pos EXCEPT ![p] = pos[p]]
      /\ started' = [started EXCEPT ![p] = started[p]]
  BY DEF Bridging
<1>2. conns[p] \in SUBSET EmsComps /\ started[p] \in SUBSET AllStarters
      /\ pos[p] \in (1..(Len(cfg.routes) + 1)) \X Nat
  BY DEF Bridging
<1>3. QED
  BY <1>1, <1>2, OneMoves DEF Step

LEMMA SeedBridges ==
  ASSUME Bridging, cfg' = cfg, NEW p \in Bridges, Seed(p) PROVE Bridging'
<1>1. CASE Step(p, "load") /\ UNCHANGED <<conns, pos, started, queue>>
  <2>1. InPhase(p)'
    BY <1>1 DEF Seed, Bridging, InPhase, Step
  <2>2. QED
    BY <1>1, <2>1, PhaseMoves DEF Phases
<1>2. CASE Exit(p)
  BY <1>2, ExitBridges
<1>3. CASE UNCHANGED <<app, queue>>
  BY <1>3, NoneMoves
<1>4. QED
  BY <1>1, <1>2, <1>3, Zenon DEF Seed

LEMMA LoadBridges ==
  ASSUME Bridging, cfg' = cfg, NEW p \in Bridges, Load(p) PROVE Bridging'
<1>1. CASE /\ \E k \in Found : LoadOK(k)
           /\ Step(p, "connect")
           /\ UNCHANGED <<conns, pos, started, queue>>
  <2>1. Creatable
    BY <1>1 DEF LoadOK
  <2>2. InPhase(p)'
    BY <1>1, <2>1, ConfigDerived DEF Load, Bridging, InPhase, Step
  <2>3. QED
    BY <1>1, <2>2, PhaseMoves DEF Phases
<1>2. CASE Exit(p)
  BY <1>2, ExitBridges
<1>3. QED
  BY <1>1, <1>2, Zenon DEF Load

\* Routes are initialised from the first on, when nothing is left to connect.
LEMMA ConnectBridges ==
  ASSUME Bridging, cfg' = cfg, NEW p \in Bridges, Connect(p) PROVE Bridging'
<1> DEFINE left == EmsComps \ conns[p]
<1>1. left = {c \in Comps : cfg.comps[c].ems} \ conns[p]
  BY DEF EmsComps
<1>2. pc[p] = "connect" /\ started[p] = {} /\ Creatable /\ conns[p] \subseteq EmsComps
      /\ pos[p] \in (1..(Len(cfg.routes) + 1)) \X Nat
  BY DEF Connect, Bridging, InPhase
<1>3. pc \in [Bridges -> Phases] /\ conns \in [Bridges -> SUBSET EmsComps]
      /\ pos \in [Bridges -> (1..(Len(cfg.routes) + 1)) \X Nat]
      /\ started \in [Bridges -> SUBSET AllStarters]
  BY DEF Bridging
<1>4. CASE /\ left = {} /\ Step(p, "init") /\ pos' = [pos EXCEPT ![p] = <<1, 0>>]
           /\ UNCHANGED <<conns, started>>
  <2>1. <<1, 0>> \in (1..(Len(cfg.routes) + 1)) \X Nat
    BY ConfigLists DEF Bridging
  <2>2. pc'[p] = "init" /\ pos'[p] = <<1, 0>> /\ conns'[p] = EmsComps /\ started'[p] = {}
    BY <1>2, <1>3, <1>4 DEF Step
  <2>3. Before(p)' = {}
    <3>1. \A x \in AllStarters : x[1] \in Nat \ {0} /\ x[2] \in Nat \ {0}
      BY StarterNumbers DEF Bridging
    <3>2. QED
      BY <2>2, <3>1, ConfigDerived DEF Before
  <2>4. Initialising(p)'
    <3>1. \A r \in Routes : Len(cfg.routes[r].starters) \in Nat
      BY ConfigLists DEF Bridging
    <3>2. QED
      BY <2>2, <2>3, <3>1, ConfigDerived DEF Initialising
  <2>5. InPhase(p)'
    BY <1>2, <2>2, <2>4, ConfigDerived DEF InPhase
  <2>6. conns' = [conns EXCEPT ![p] = conns[p]] /\ started' = [started EXCEPT ![p] = started[p]]
    BY <1>3, <1>4
  <2>7. QED
    BY <1>2, <1>4, <2>1, <2>5, <2>6, OneMoves DEF Step, Phases
<1>5. CASE /\ \E c \in left : conns' = [conns EXCEPT ![p] = @ \cup {c}]
           /\ UNCHANGED <<pc, pos, started>>
  <2>1. PICK c \in left : conns' = [conns EXCEPT ![p] = conns[p] \cup {c}]
    BY <1>5
  <2>2. pc'[p] = "connect" /\ started'[p] = {}
    BY <1>2, <1>5
  <2>3. InPhase(p)'
    BY <1>2, <2>2, ConfigDerived DEF InPhase
  <2>4. /\ pc' = [pc EXCEPT ![p] = pc[p]] /\ pos' = [pos EXCEPT ![p] = pos[p]]
        /\ started' = [started EXCEPT ![p] = started[p]] /\ pc[p] \in Phases
    BY <1>3, <1>5
  <2>5. conns[p] \cup {c} \in SUBSET EmsComps
    BY <1>2
  <2>6. QED
    BY <1>2, <2>1, <2>3, <2>4, <2>5, OneMoves
<1>6. CASE Exit(p)
  BY <1>6, ExitBridges
<1>7. QED
  <2> HIDE DEF left
  <2>1. Connect(p) /\ ~Exit(p) =>
          \/ /\ left = {} /\ Step(p, "init") /\ pos' = [pos EXCEPT ![p] = <<1, 0>>]
             /\ UNCHANGED <<conns, started>>
          \/ /\ \E c \in left : conns' = [conns EXCEPT ![p] = @ \cup {c}]
             /\ UNCHANGED <<pc, pos, started>>
    BY <1>1 DEF Connect
  <2>2. QED
    BY <1>4, <1>5, <1>6, <2>1

LEMMA ListenBridges ==
  ASSUME Bridging, cfg' = cfg, NEW p \in Bridges, Listen(p) PROVE Bridging'
<1>1. CASE Step(p, "serving") /\ UNCHANGED <<conns, pos, started, queue>>
  <2>1. InPhase(p)'
    BY <1>1, ConfigDerived DEF Listen, Bridging, InPhase, Step
  <2>2. QED
    BY <1>1, <2>1, PhaseMoves DEF Phases
<1>2. CASE Exit(p)
  BY <1>2, ExitBridges
<1>3. QED
  BY <1>1, <1>2, Zenon DEF Listen

LEMMA RestartBridges ==
  ASSUME Bridging, cfg' = cfg, NEW p \in Bridges, Restart(p) PROVE Bridging'
<1>1. InPhase(p)'
  BY ConfigDerived DEF Restart, Bridging, InPhase, Step
<1>2. QED
  BY <1>1, PhaseMoves DEF Restart, Phases

\* Init goes through the starters in order, and leaves none out.
LEMMA InitBridges ==
  ASSUME Bridging, cfg' = cfg, NEW p \in Bridges, InitRoute(p) PROVE Bridging'
<1> DEFINE r == pos[p][1]
           s == pos[p][2]
           next == IF s < Len(cfg.routes[r].starters) THEN <<r, s + 1>> ELSE <<r + 1, 0>>
           more == IF s = 0 THEN started[p] ELSE started[p] \cup {<<r, s>>}
<1>1. pc \in [Bridges -> Phases] /\ conns \in [Bridges -> SUBSET EmsComps]
      /\ pos \in [Bridges -> (1..(Len(cfg.routes) + 1)) \X Nat]
      /\ started \in [Bridges -> SUBSET AllStarters] /\ cfg \in Configs
  BY DEF Bridging
<1>2. /\ pc[p] = "init" /\ conns[p] = EmsComps /\ Creatable /\ Initialising(p)
      /\ \A x \in started[p] : cfg.routes[x[1]].oneHead
  BY DEF InitRoute, Bridging, InPhase
<1>3. Len(cfg.routes) \in Nat /\ r \in 1..(Len(cfg.routes) + 1) /\ s \in Nat
  BY <1>1, ConfigLists
<1>4. CASE r > Len(cfg.routes)
  <2>1. Step(p, "listen") /\ UNCHANGED <<conns, pos, started>>
    BY <1>4 DEF InitRoute
  <2>2. \A x \in AllStarters : x[1] < r
    BY <1>1, <1>3, <1>4, StarterNumbers
  <2>3. started[p] = AllStarters
    BY <1>2, <2>2 DEF Initialising, Before
  <2>4. InPhase(p)'
    BY <1>1, <1>2, <2>1, <2>3, ConfigDerived DEF InPhase, Step
  <2>5. QED
    BY <2>1, <2>4, PhaseMoves DEF Phases
<1>5. CASE /\ r <= Len(cfg.routes)
           /\ IF s = 0 THEN cfg.routes[r].oneHead ELSE StartsOK(p, <<r, s>>)
           /\ started' = [started EXCEPT ![p] = more]
           /\ pos' = [pos EXCEPT ![p] = next]
           /\ UNCHANGED <<pc, conns>>
  <2>1. r \in Routes /\ Len(cfg.routes[r].starters) \in Nat /\ s <= Len(cfg.routes[r].starters)
        /\ Starters(r) = 1..Len(cfg.routes[r].starters)
    BY <1>1, <1>2, <1>3, <1>5, ConfigLists DEF Initialising
  <2>2. cfg.routes[r].oneHead
    BY <1>2, <1>3, <1>5, <2>1 DEF Initialising
  <2>3. s # 0 => <<r, s>> \in AllStarters
    BY <1>1, <1>3, <2>1, ConfigLists
  <2>4. next \in (1..(Len(cfg.routes) + 1)) \X Nat
    BY <1>3, <1>5, <2>1
  <2>5. more \in SUBSET AllStarters /\ \A x \in more : cfg.routes[x[1]].oneHead
    <3>1. more \in SUBSET AllStarters
      BY <1>1, <2>3
    <3>2. ASSUME NEW x \in more PROVE cfg.routes[x[1]].oneHead
      <4>1. x \in started[p] \/ x[1] = r
        BY <3>2
      <4>2. QED
        BY <1>2, <2>2, <4>1
    <3>3. QED
      BY <3>1, <3>2
  <2>6. /\ pos'[p] = next /\ started'[p] = more /\ pc'[p] = "init" /\ conns'[p] = EmsComps
    BY <1>1, <1>2, <1>5
  <2>7. more = {x \in AllStarters : x[1] < next[1] \/ (x[1] = next[1] /\ x[2] < next[2])}
    <3> SUFFICES ASSUME NEW x \in AllStarters
                 PROVE  x \in more <=> x[1] < next[1] \/ (x[1] = next[1] /\ x[2] < next[2])
      BY <2>5
    <3>1. x \in started[p] <=> x[1] < r \/ (x[1] = r /\ x[2] < s)
      BY <1>2 DEF Initialising, Before
    <3>2. /\ x = <<x[1], x[2]>> /\ x[1] \in Nat \ {0} /\ x[2] \in Nat \ {0}
          /\ x[1] = r => x[2] <= Len(cfg.routes[r].starters)
      BY <1>1, StarterNumbers, <2>1
    <3>3. x = <<r, s>> <=> x[1] = r /\ x[2] = s
      BY <3>2
    <3>4. CASE s < Len(cfg.routes[r].starters)
      BY <1>3, <2>1, <3>1, <3>2, <3>3, <3>4
    <3>5. CASE s = Len(cfg.routes[r].starters)
      <4>1. next[1] = r + 1 /\ next[2] = 0
        <5>1. ~(s < Len(cfg.routes[r].starters))
          <6> DEFINE n == Len(cfg.routes[r].starters)
          <6>1. s \in Nat /\ n \in Nat /\ s = n
            BY <1>3, <2>1, <3>5
          <6> HIDE DEF s, n
          <6>2. ~(s < n)
            BY <6>1
          <6>3. QED
            BY <6>2 DEF n
        <5>2. QED
          BY <5>1
      <4>2. x \in more <=> x \in started[p] \/ (s # 0 /\ x = <<r, s>>)
        OBVIOUS
      <4> HIDE DEF next, more
      <4>3. QED
        BY <1>3, <3>1, <3>2, <3>3, <3>5, <4>1, <4>2
    <3>6. QED
      BY <1>3, <2>1, <3>4, <3>5
  <2>8. Initialising(p)'
    <3>1. Before(p)' = more
      BY <2>6, <2>7, ConfigDerived DEF Before
    <3>2. next[1] = Len(cfg.routes) + 1 => next[2] = 0
      BY <1>3, <1>5, <2>1
    <3>3. \A q \in Routes : q = next[1] =>
            /\ Len(cfg.routes[q].starters) \in Nat
            /\ next[2] <= Len(cfg.routes[q].starters)
            /\ next[2] > 0 => cfg.routes[q].oneHead
      BY <1>1, <1>3, <2>1, <2>2, ConfigLists
    <3> HIDE DEF next, more
    <3>4. QED
      BY <2>6, <3>1, <3>2, <3>3, ConfigDerived DEF Initialising
  <2> HIDE DEF next, more
  <2>9. InPhase(p)'
    BY <1>2, <2>5, <2>6, <2>8, ConfigDerived DEF InPhase
  <2>10. pc' = [pc EXCEPT ![p] = pc[p]] /\ conns' = [conns EXCEPT ![p] = conns[p]]
         /\ pc[p] \in Phases /\ conns[p] \in SUBSET EmsComps
    BY <1>1, <1>5
  <2>11. QED
    BY <1>5, <2>4, <2>5, <2>9, <2>10, OneMoves
<1>6. CASE Exit(p)
  BY <1>6, ExitBridges
<1>7. QED
  <2>1. ~Exit(p) /\ ~(r > Len(cfg.routes)) =>
           /\ IF s = 0 THEN cfg.routes[r].oneHead ELSE StartsOK(p, <<r, s>>)
           /\ IF s = 0 THEN UNCHANGED started
              ELSE started' = [started EXCEPT ![p] = @ \cup {<<r, s>>}]
           /\ pos' = [pos EXCEPT ![p] = next]
           /\ UNCHANGED <<pc, conns>>
    BY DEF InitRoute
  <2>2. s = 0 /\ UNCHANGED started => started' = [started EXCEPT ![p] = more]
    BY <1>1
  <2>3. QED
    BY <1>3, <1>4, <1>5, <1>6, <2>1, <2>2

\* The queue and the store leave the phases alone.
LEMMA BridgingStep ==
  ASSUME Bridging, [Next]_vars PROVE Bridging'
<1>0. cfg' = cfg
  BY ConfigStays
<1>1. ASSUME NEW p \in Bridges, Run(p) PROVE Bridging'
  BY <1>0, <1>1, SeedBridges, LoadBridges, ConnectBridges, InitBridges, ListenBridges DEF Run
<1>2. ASSUME NEW p \in Bridges, Crash(p) \/ Restart(p) PROVE Bridging'
  BY <1>0, <1>2, ExitBridges, RestartBridges DEF Crash
<1>3. ASSUME NEW p \in Bridges, NEW x, NEW m,
             Take(p, x, m) \/ Finish(p, x) \/ GiveBack(p, x)
      PROVE  Bridging'
  BY <1>0, <1>3, NoneMoves DEF Take, Finish, GiveBack
<1>4. ASSUME NEW p \in Tools, RunTool(p) PROVE Bridging'
  BY <1>0, <1>4, NoneMoves DEF RunTool
<1>5. CASE Edit
  BY <1>0, <1>5, NoneMoves DEF Edit
<1>6. CASE UNCHANGED vars
  BY <1>0, <1>6, NoneMoves DEF vars
<1>7. QED
  BY <1>1, <1>2, <1>3, <1>4, <1>5, <1>6, Zenon DEF Next
-----------------------------------------------------------------------------
(* The queue.                                                              *)

\* A starter that works on a message has been started, and the message is
\* nowhere else.
Queueing ==
  /\ waiting \subseteq Msgs
  /\ work \subseteq Bridges \X AllStarters \X Msgs
  /\ ended \in [Bridges -> SUBSET AllStarters]
  /\ \A v, w \in work : v[3] = w[3] => v = w
  /\ \A w \in work : w[3] \notin waiting /\ w[2] \in started[w[1]]

\* What the process worked on is taken back, and nothing else.
LEMMA ExitQueues ==
  ASSUME Bridging, Queueing, cfg' = cfg, NEW p \in Bridges, Exit(p) PROVE Queueing'
<1>1. AllStarters' = AllStarters
  BY ConfigDerived
<1>2. work' = {w \in work : w[1] # p}
      /\ waiting' = waiting \cup {w[3] : w \in {x \in work : x[1] = p}}
      /\ ended' = [ended EXCEPT ![p] = {}] /\ started' = [started EXCEPT ![p] = {}]
  BY DEF Exit
<1>3. \A w \in work' : w \in work /\ started'[w[1]] = started[w[1]]
  BY <1>2 DEF Bridging, Queueing
<1>4. \A w \in work' : w[3] \notin waiting'
  BY <1>2 DEF Queueing
<1>5. waiting' \subseteq Msgs /\ ended' \in [Bridges -> SUBSET AllStarters]
  BY <1>2 DEF Queueing
<1>6. QED
  BY <1>1, <1>2, <1>3, <1>4, <1>5 DEF Queueing

\* More starters are no harm.
LEMMA QueueStays ==
  ASSUME Queueing, cfg' = cfg, UNCHANGED queue,
         \A p \in Bridges : started[p] \subseteq started'[p]
  PROVE  Queueing'
BY ConfigDerived DEF Queueing, queue

LEMMA QueueingStep ==
  ASSUME Bridging, Queueing, [Next]_vars PROVE Queueing'
<1>0. cfg' = cfg
  BY ConfigStays
<1>1. ASSUME NEW p \in Bridges, Run(p) PROVE Queueing'
  <2>1. Exit(p) \/ (UNCHANGED queue /\ \A q \in Bridges : started[q] \subseteq started'[q])
    <3>1. CASE Seed(p)
      BY <3>1 DEF Seed, app
    <3>2. CASE Load(p)
      BY <3>2 DEF Load
    <3>3. CASE Connect(p)
      BY <3>3 DEF Connect
    <3>4. CASE InitRoute(p)
      <4>1. started \in [Bridges -> SUBSET AllStarters]
        BY DEF Bridging
      <4>2. CASE UNCHANGED <<started, queue>>
        BY <4>2
      <4>3. ASSUME NEW x, started' = [started EXCEPT ![p] = @ \cup {x}], UNCHANGED queue
            PROVE  UNCHANGED queue /\ \A q \in Bridges : started[q] \subseteq started'[q]
        BY <4>1, <4>3
      <4>4. QED
        BY <3>4, <4>2, <4>3 DEF InitRoute
    <3>5. CASE Listen(p)
      BY <3>5 DEF Listen
    <3>6. QED
      BY <1>1, <3>1, <3>2, <3>3, <3>4, <3>5 DEF Run
  <2>2. QED
    BY <1>0, <2>1, ExitQueues, QueueStays
<1>2. ASSUME NEW p \in Bridges, Crash(p) PROVE Queueing'
  BY <1>0, <1>2, ExitQueues DEF Crash
<1>3. ASSUME NEW p \in Bridges, NEW x \in AllStarters, NEW m \in Msgs, Take(p, x, m)
      PROVE  Queueing'
  BY <1>0, <1>3, ConfigDerived DEF Take, Queueing, app
<1>4. ASSUME NEW p \in Bridges, NEW w \in work, Finish(p, w) \/ GiveBack(p, w)
      PROVE  Queueing'
  <2>1. CASE Finish(p, w)
    BY <1>0, <2>1, ConfigDerived DEF Finish, Queueing, app
  <2>2. CASE GiveBack(p, w)
    BY <1>0, <2>2, ConfigDerived DEF GiveBack, Queueing, app
  <2>3. QED
    BY <1>4, <2>1, <2>2
<1>5. CASE UNCHANGED <<started, queue>>
  BY <1>0, <1>5, QueueStays
<1>6. QED
  BY <1>1, <1>2, <1>3, <1>4, <1>5, Zenon
     DEF Next, Restart, RunTool, Edit, vars, app
-----------------------------------------------------------------------------
(* Everything together.                                                    *)

\* A password in the configuration was printed by the tool.
Secrets == secret \in printed \cup {NoSecret}

Safe == StoreInv /\ Secrets /\ Bridging /\ Queueing /\ faults \in 0..MaxFaults

LEMMA StoreStep ==
  ASSUME StoreInv, Secrets, [Next]_vars PROVE StoreInv' /\ Secrets'
<1>1. ASSUME UNCHANGED <<keys, printed>>, at' = at \/ \E p \in Procs : at' = [at EXCEPT ![p] = "start"]
      PROVE  StoreInv'
  <2>1. KeysInv'
    BY <1>1 DEF StoreInv, KeysInv
  <2>2. at' \in [Procs -> Places] /\ \A p \in Procs : at'[p] \in {at[p], "start"}
    BY <1>1 DEF StoreInv, Places
  <2>3. QED
    BY <1>1, <2>1, <2>2 DEF StoreInv
<1>2. ASSUME NEW p \in Bridges, Seed(p) PROVE StoreInv' /\ Secrets'
  <2>1. KS!Count(p) \/ KS!Insert(p) \/ KS!Fails(p)
    BY <1>2 DEF Seed
  <2>2. printed' = printed /\ secret' = secret
    BY <1>2, <2>1 DEF Seed, KS!Count, KS!Insert, KS!Fails
  <2>3. QED
    BY <2>1, <2>2, StoreSteps DEF Procs, Secrets
<1>3. ASSUME NEW p \in Bridges, Load(p) \/ Connect(p) \/ InitRoute(p) \/ Listen(p) \/ Crash(p)
      PROVE  UNCHANGED <<store, secret>>
  BY <1>3, Zenon DEF Load, Connect, InitRoute, Listen, Crash
<1>4. ASSUME NEW p \in Bridges, Restart(p) PROVE StoreInv' /\ Secrets'
  BY <1>1, <1>4 DEF Restart, Procs, Secrets
<1>5. ASSUME NEW p \in Bridges, NEW x, NEW m, Take(p, x, m) \/ Finish(p, x) \/ GiveBack(p, x)
      PROVE  UNCHANGED <<store, secret>>
  BY <1>5, Zenon DEF Take, Finish, GiveBack
<1>6. ASSUME NEW p \in Tools, RunTool(p) PROVE StoreInv' /\ Secrets'
  <2>1. KS!Count(p) \/ KS!Insert(p) \/ KS!Fails(p) \/ KS!Encrypt(p)
    BY <1>6 DEF RunTool
  <2>2. printed \subseteq printed' /\ secret' = secret
    BY <1>6, <2>1 DEF RunTool, KS!Count, KS!Insert, KS!Fails, KS!Encrypt
  <2>3. QED
    BY <2>1, <2>2, StoreSteps DEF Procs, Secrets
<1>7. CASE Edit
  <2>1. CASE (\E c \in printed : secret' = c) /\ UNCHANGED store
    BY <1>1, <2>1 DEF store, Secrets
  <2>2. ASSUME NEW v \in Values, KS!AddKey(v), UNCHANGED secret PROVE StoreInv' /\ Secrets'
    <3>1. KeysInv' /\ keys \subseteq keys' /\ keys' # {}
      BY <2>2, SameCount, AddRow DEF KS!AddKey, StoreInv
    <3>2. UNCHANGED <<at, printed>>
      BY <2>2 DEF KS!AddKey
    <3>3. QED
      BY <2>2, <3>1, <3>2 DEF StoreInv, Secrets
  <2>3. QED
    BY <1>7, <2>1, <2>2 DEF Edit
<1>8. CASE UNCHANGED <<store, secret>>
  BY <1>1, <1>8 DEF store, Secrets
<1>9. QED
  BY <1>2, <1>3, <1>4, <1>5, <1>6, <1>7, <1>8, Zenon DEF Next, Run, vars

LEMMA FaultsStep ==
  ASSUME faults \in 0..MaxFaults, [Next]_vars PROVE faults' \in 0..MaxFaults
<1>1. faults' = faults \/ (faults < MaxFaults /\ faults' = faults + 1)
  <2>1. ASSUME NEW p \in Bridges, Run(p) \/ Crash(p) \/ Restart(p) PROVE NoFault \/ Fault
    BY <2>1, Zenon DEF Run, Seed, Load, Connect, InitRoute, Listen, Crash, Restart, NoFault
  <2>2. ASSUME NEW p, NEW x, NEW m, Take(p, x, m) \/ Finish(p, x) \/ GiveBack(p, x)
        PROVE  NoFault \/ Fault
    BY <2>2, Zenon DEF Take, Finish, GiveBack, NoFault
  <2>3. ASSUME NEW p \in Tools, RunTool(p) PROVE NoFault \/ Fault
    BY <2>3, Zenon DEF RunTool
  <2>4. Edit \/ UNCHANGED vars => NoFault
    BY DEF Edit, vars, NoFault
  <2>5. NoFault \/ Fault
    BY <2>1, <2>2, <2>3, <2>4, Zenon DEF Next
  <2>6. QED
    BY <2>5 DEF NoFault, Fault
<1>2. QED
  BY <1>1, LifecycleAssumption

LEMMA InitSafe == Init => Safe
<1> SUFFICES ASSUME Init PROVE Safe
  OBVIOUS
<1> USE DEF Init
<1>1. StoreInv /\ Secrets
  <2>1. keys = {} /\ printed = {} /\ at = [p \in Procs |-> "start"] /\ secret = NoSecret
    BY DEF KS!Init, Procs
  <2>2. KeysInv
    BY <2>1, FS_EmptySet DEF KeysInv
  <2>3. QED
    BY <2>1, <2>2 DEF StoreInv, Secrets, Places
<1>2. Bridging
  <2>1. 1 \in 1..(Len(cfg.routes) + 1)
    BY ConfigLists
  <2>2. QED
    BY <2>1 DEF Bridging, InPhase, Phases
<1>3. Queueing
  BY DEF Queueing
<1>4. QED
  BY <1>1, <1>2, <1>3, LifecycleAssumption DEF Safe

LEMMA AlwaysSafe == Spec => []Safe
<1>1. Safe /\ [Next]_vars => Safe'
  BY StoreStep, BridgingStep, QueueingStep, FaultsStep DEF Safe
<1>2. QED
  BY <1>1, InitSafe, PTL DEF Spec

\* Every variable keeps its type, ids and values of keys stay unique, and a
\* message is in one place at a time (AppLifecycle and KeyStore).
THEOREM TypeCorrect == Spec => []TypeOK
<1>1. Safe => TypeOK
  <2> SUFFICES ASSUME Safe PROVE TypeOK
    OBVIOUS
  <2>1. KS!StoreTypeOK
    <3>1. printed \subseteq [prefix : {Prefix(v) : v \in Values}, key : Values]
      BY DEF Safe, StoreInv, KeysInv
    <3>2. QED
      BY <3>1 DEF KS!StoreTypeOK, Safe, StoreInv, KeysInv, Places, Procs
  <2>2. conns \in [Bridges -> SUBSET Comps]
    BY ConfigLists DEF Safe, Bridging
  <2>3. \A p \in Bridges : pos[p][1] \in 1..(Len(cfg.routes) + 1) /\ pos[p][2] \in Nat
    BY DEF Safe, Bridging
  <2>4. QED
    BY <2>1, <2>2, <2>3 DEF TypeOK, Safe, Bridging, Queueing, Secrets
<1>2. QED
  BY <1>1, AlwaysSafe, PTL

\* What the encr tool has printed can be decrypted for good, whoever wins the
\* race to seed the table, if no two keys share their first eight digits: a
\* LIKE that finds several rows may return the wrong one (encr.go:51).
THEOREM SecretsStayReadable ==
  ASSUME PrefixesDiffer PROVE Spec => []SecretsReadable
<1>1. Safe => SecretsReadable
  <2> SUFFICES ASSUME Safe, NEW c \in printed
               PROVE  /\ KS!Rows(c.prefix) # {}
                      /\ \A k \in KS!Rows(c.prefix) : KS!Opens(c, k)
    BY DEF SecretsReadable, KS!SecretsReadable
  <2>1. PICK l \in keys : c = [prefix |-> Prefix(l.value), key |-> l.value]
    BY DEF Safe, StoreInv
  <2>2. l \in KS!Rows(c.prefix)
    BY <2>1 DEF KS!Rows
  <2>3. ASSUME NEW k \in KS!Rows(c.prefix) PROVE k.value = c.key
    <3>1. k \in keys /\ Prefix(k.value) = Prefix(l.value)
      BY <2>1, <2>3 DEF KS!Rows
    <3>2. k.value \in Values /\ l.value \in Values
      BY <2>1, <3>1 DEF Safe, StoreInv, KeysInv
    <3>3. QED
      BY <2>1, <3>1, <3>2 DEF PrefixesDiffer
  <2>4. QED
    BY <2>2, <2>3 DEF KS!Opens
<1>2. QED
  BY <1>1, AlwaysSafe, PTL

\* Starters run before Start has returned, and still their routes find what
\* they need: the route's own Init is done, and all components are connected.
THEOREM WorksOnlyWhenReady == Spec => []WorkOnlyWhenReady
<1>1. Safe => WorkOnlyWhenReady
  <2> SUFFICES ASSUME Safe, NEW w \in work
               PROVE  cfg.routes[w[2][1]].oneHead /\ conns[w[1]] = EmsComps
    BY DEF WorkOnlyWhenReady
  <2>1. w[1] \in Bridges /\ w[2] \in started[w[1]]
    BY DEF Safe, Queueing
  <2>2. InPhase(w[1]) /\ pc[w[1]] \in Phases
    BY <2>1 DEF Safe, Bridging
  <2>3. QED
    BY <2>1, <2>2 DEF InPhase, Phases
<1>2. QED
  BY <1>1, AlwaysSafe, PTL

\* Whoever serves has connected and started all there is: no error exit of
\* Start is passed over, and Init leaves out no starter.
THEOREM HealthyIsComplete == Spec => []HealthyMeansComplete
<1>1. Safe => HealthyMeansComplete
  BY DEF Safe, Bridging, InPhase, HealthyMeansComplete
<1>2. QED
  BY <1>1, AlwaysSafe, PTL
-----------------------------------------------------------------------------
(* What races between processes can do, and what they cannot.              *)

LEMMA StoreGrows ==
  ASSUME StoreInv, [Next]_vars PROVE keys \subseteq keys' /\ printed \subseteq printed'
<1>1. ASSUME NEW p \in Procs, KS!Count(p) \/ KS!Insert(p) \/ KS!Fails(p) \/ KS!Encrypt(p)
      PROVE  keys \subseteq keys' /\ printed \subseteq printed'
  <2>1. printed \subseteq printed'
    BY <1>1 DEF KS!Count, KS!Insert, KS!Fails, KS!Encrypt
  <2>2. QED
    BY <1>1, <2>1, StoreSteps
<1>2. ASSUME NEW p \in Bridges, Run(p) \/ Crash(p) \/ Restart(p)
      PROVE  keys \subseteq keys' /\ printed \subseteq printed'
  <2>1. \/ KS!Count(p) \/ KS!Insert(p) \/ KS!Fails(p)
        \/ keys' = keys /\ printed' = printed
    BY <1>2, Zenon DEF Run, Seed, Load, Connect, InitRoute, Listen, Crash, Restart, store
  <2>2. QED
    BY <1>1, <2>1 DEF Procs
<1>3. ASSUME NEW p \in Bridges, NEW x, NEW m, Take(p, x, m) \/ Finish(p, x) \/ GiveBack(p, x)
      PROVE  keys' = keys /\ printed' = printed
  BY <1>3, Zenon DEF Take, Finish, GiveBack, store
<1>4. ASSUME NEW p \in Tools, RunTool(p) PROVE keys \subseteq keys' /\ printed \subseteq printed'
  BY <1>1, <1>4 DEF RunTool, Procs
<1>5. Edit => keys \subseteq keys' /\ printed \subseteq printed'
  BY DEF Edit, store, KS!AddKey
<1>6. UNCHANGED vars => keys' = keys /\ printed' = printed
  BY DEF vars, store
<1>7. QED
  BY <1>2, <1>3, <1>4, <1>5, <1>6, Zenon DEF Next

KeysStay == keys \subseteq keys' /\ printed \subseteq printed'

\* Whatever processes race to seed the table, which of them fail, and whatever
\* keys the operator adds, no key is ever removed or replaced: a process that
\* has read a key, or a ciphertext that was pasted, stays good (sqlite/db.go).
THEOREM KeysAreForGood == Spec => [][KeysStay]_vars
<1>1. Safe /\ [Next]_vars => [KeysStay]_vars
  BY StoreGrows DEF Safe, KeysStay
<1>2. QED
  BY <1>1, AlwaysSafe, PTL DEF Spec

\* Whoever loads or is beyond it has found or made a key.
Keyed == \A p \in Bridges : pc[p] \notin {"seed", "exited"} => keys # {}

LEMMA AlwaysKeyed == Spec => []Keyed
<1>1. Init => Keyed
  BY DEF Init, Keyed
<1>2. ASSUME Safe, Safe', Keyed, [Next]_vars PROVE Keyed'
  <2>1. keys \subseteq keys'
    BY <1>2, StoreGrows DEF Safe
  <2>2. SUFFICES ASSUME keys = {}, NEW p \in Bridges, pc'[p] \notin {"seed", "exited"}
                 PROVE  keys' # {}
    BY <2>1 DEF Keyed
  <2>3. pc \in [Bridges -> Phases] /\ \A q \in Bridges : pc[q] \in {"seed", "exited"}
    BY <1>2, <2>2 DEF Safe, Bridging, Keyed
  <2>4. ASSUME NEW q \in Bridges, Seed(q) PROVE keys' # {}
    <3>1. CASE at'[q] = "ready"
      BY <1>2, <3>1 DEF Safe, StoreInv, Procs
    <3>2. CASE Exit(q)
      BY <2>2, <2>3, <3>2 DEF Exit, Step
    <3>3. CASE UNCHANGED app
      BY <2>2, <2>3, <3>3 DEF app
    <3>4. QED
      BY <2>4, <3>1, <3>2, <3>3, Zenon DEF Seed
  <2>5. \A q \in Bridges : ~(Load(q) \/ Connect(q) \/ InitRoute(q) \/ Listen(q))
    BY <2>3 DEF Load, Connect, InitRoute, Listen
  <2>6. ASSUME NEW q \in Bridges, Crash(q) \/ Restart(q) PROVE FALSE
    BY <2>2, <2>3, <2>6 DEF Crash, Restart, Exit, Step
  <2>7. pc' # pc
    BY <2>2, <2>3
  <2>8. ~Edit /\ ~(UNCHANGED vars) /\ \A q \in Tools : ~RunTool(q)
    BY <2>7, Zenon DEF Edit, vars, app, RunTool
  <2>9. ASSUME NEW q \in Bridges, NEW x, NEW m, Take(q, x, m) \/ Finish(q, x) \/ GiveBack(q, x)
        PROVE  FALSE
    BY <2>7, <2>9, Zenon DEF Take, Finish, GiveBack, app
  <2>10. QED
    BY <1>2, <2>4, <2>5, <2>6, <2>8, <2>9, Zenon DEF Next, Run
<1>3. QED
  BY <1>1, <1>2, AlwaysSafe, PTL DEF Spec

OneAtThePort ==
  \A p, q \in Bridges : pc[p] = "serving" /\ pc[q] = "serving" => p = q

\* Of the bridges of a host at most one listens, however their starts and ends
\* overlap: the others find the port taken and exit (app.go).
THEOREM OneServes == Spec => []OneAtThePort
<1>1. Init => OneAtThePort
  BY DEF Init, OneAtThePort
<1>2. ASSUME Safe, OneAtThePort, [Next]_vars PROVE OneAtThePort'
  <2>1. pc \in [Bridges -> Phases]
    BY <1>2 DEF Safe, Bridging
  <2>2. ASSUME NEW p \in Bridges, NEW phase, Step(p, phase), phase # "serving"
        PROVE  OneAtThePort'
    BY <1>2, <2>1, <2>2 DEF Step, OneAtThePort
  <2>3. ASSUME NEW p \in Bridges, Step(p, "serving"), ~ \E q \in Bridges : pc[q] = "serving"
        PROVE  OneAtThePort'
    BY <2>1, <2>3 DEF Step, OneAtThePort
  <2>4. CASE pc' = pc
    BY <1>2, <2>4 DEF OneAtThePort
  <2>5. ASSUME NEW p \in Bridges, Run(p) \/ Crash(p) \/ Restart(p) PROVE OneAtThePort'
    <3>1. \/ Step(p, "load") \/ Step(p, "connect") \/ Step(p, "init") \/ Step(p, "listen")
          \/ Step(p, "exited") \/ Step(p, "seed") \/ pc' = pc
          \/ Step(p, "serving") /\ ~ \E q \in Bridges : pc[q] = "serving"
      BY <2>5, Zenon DEF Run, Seed, Load, Connect, InitRoute, Listen, Crash, Restart, Exit, app
    <3>2. QED
      BY <2>2, <2>3, <2>4, <3>1
  <2>6. ASSUME NEW p \in Bridges, NEW x, NEW m, Take(p, x, m) \/ Finish(p, x) \/ GiveBack(p, x)
        PROVE  pc' = pc
    BY <2>6, Zenon DEF Take, Finish, GiveBack, app
  <2>7. (\E p \in Tools : RunTool(p)) \/ Edit \/ UNCHANGED vars => pc' = pc
    BY Zenon DEF RunTool, Edit, vars, app
  <2>8. QED
    BY <1>2, <2>4, <2>5, <2>6, <2>7, Zenon DEF Next
<1>3. QED
  BY <1>1, <1>2, AlwaysSafe, PTL DEF Spec
-----------------------------------------------------------------------------
(* What a good configuration comes to.                                     *)

\* The password of a configuration that can be decrypted at all opens with
\* every key Decrypt may find.
LEMMA LoadWorks ==
  ASSUME PrefixesDiffer, Safe, keys # {}
  PROVE  Found # {} /\ \A k \in Found : Opens(k)
<1>1. CASE secret = NoSecret
  BY <1>1 DEF Found, Opens
<1>2. CASE secret # NoSecret
  <2>1. secret \in printed
    BY <1>2 DEF Safe, Secrets
  <2>2. PICK l \in keys : secret = [prefix |-> Prefix(l.value), key |-> l.value]
    BY <2>1 DEF Safe, StoreInv
  <2>3. l \in KS!Rows(secret.prefix)
    BY <2>2 DEF KS!Rows
  <2>4. \A k \in KS!Rows(secret.prefix) : k.value = secret.key
    BY <2>2 DEF KS!Rows, PrefixesDiffer, Safe, StoreInv, KeysInv
  <2>5. QED
    BY <1>2, <2>3, <2>4 DEF Found, Opens, KS!Opens
<1>3. QED
  BY <1>1, <1>2

\* Nothing keeps the starter that Init has come to from starting.
LEMMA StartWorks ==
  ASSUME Good, Safe, NEW p \in Bridges, pc[p] = "init", pos[p][1] \in Routes, pos[p][2] # 0
  PROVE  StartsOK(p, <<pos[p][1], pos[p][2]>>)
<1> DEFINE r == pos[p][1]
           s == pos[p][2]
           x == <<r, s>>
           st == cfg.routes[r].starters[s]
<1>1. cfg \in Configs /\ s \in Nat /\ Initialising(p) /\ conns[p] = EmsComps
  BY DEF Safe, Bridging, InPhase
<1>2. s \in Starters(r)
  BY <1>1, ConfigLists DEF Initialising
<1>3. x \in AllStarters
  BY <1>1, <1>2, ConfigLists
<1>4. x \notin started[p]
  <2>1. r \in Nat /\ s \in Nat /\ x[1] = r /\ x[2] = s
    BY <1>1, ConfigLists
  <2> HIDE DEF r, s, x
  <2>2. ~(r < r) /\ ~(s < s)
    BY <2>1
  <2>3. started[p] = {y \in AllStarters : y[1] < r \/ (y[1] = r /\ y[2] < s)}
    BY <1>1 DEF Initialising, Before, r, s
  <2>4. QED
    BY <2>1, <2>2, <2>3
<1>5. CASE st.kind = "queue"
  <2>1. st.ref \in Refs(r)
    BY <1>2, <1>5 DEF Refs
  <2>2. Lookup(st.ref) \in EmsComps
    BY <2>1 DEF Good
  <2>3. QED
    BY <1>1, <1>5, <2>2 DEF StartsOK
<1>6. CASE st.kind = "rest"
  <2>1. IsRest(x) /\ Uri(x) = st.uri
    BY <1>6 DEF IsRest, Uri
  <2>2. /\ ~Refused(st.uri, "/health")
        /\ \A y \in AllStarters : IsRest(y) /\ Refused(st.uri, Uri(y)) => y = x
    BY <1>3, <2>1 DEF Good
  <2>3. \A y \in started[p] : IsRest(y) => ~Refused(st.uri, Uri(y))
    BY <1>4, <2>2 DEF Safe, Bridging
  <2>4. QED
    BY <1>6, <2>2, <2>3 DEF StartsOK
<1>7. CASE st.kind = "file"
  BY <1>7 DEF StartsOK
<1>8. st.kind \in {"queue", "rest", "file"}
  <2>1. cfg.routes \in Seq([sends : SUBSET Names, oneHead : BOOLEAN, starters : Seq(Starter)])
    BY <1>1, LifecycleAssumption
  <2>2. cfg.routes[r].starters \in Seq(Starter)
    <3> DEFINE Routing == [sends : SUBSET Names, oneHead : BOOLEAN, starters : Seq(Starter)]
    <3>1. cfg.routes \in Seq(Routing) /\ r \in DOMAIN cfg.routes
      BY <2>1 DEF Routes
    <3>2. cfg.routes[r] \in Routing
      <4> HIDE DEF Routing, r
      <4>1. QED
        BY <3>1
    <3> HIDE DEF r
    <3>3. QED
      BY <3>2
  <2>3. st \in Starter
    <3> HIDE DEF r, s
    <3>1. QED
      BY <1>2, <2>2 DEF Starters, st
  <2>4. QED
    BY <2>3 DEF Starter
<1>9. QED
  BY <1>5, <1>6, <1>7, <1>8

\* A failure outside; a lost race to seed the table; a port that is taken.
Excused(p) ==
  \/ faults' > faults
  \/ pc[p] = "seed" /\ at[p] = "insert" /\ keys # {}
  \/ pc[p] = "listen" /\ \E q \in Bridges : q # p /\ pc[q] = "serving"

ExitsExcused ==
  Good => \A p \in Bridges : pc[p] # "exited" /\ pc'[p] = "exited" => Excused(p)

\* A bridge whose configuration is good exits for no other reason than these:
\* no interleaving of starts, of key changes and of the encr tool makes it
\* fail to decrypt, to connect in time, or to initialise its routes.  With
\* OneServes, this is what SomeoneServes needs of the steps.
THEOREM OnlyExcusedExits ==
  ASSUME PrefixesDiffer PROVE Spec => [][ExitsExcused]_vars
<1>1. ASSUME Safe, Keyed, [Next]_vars PROVE ExitsExcused
  <2> SUFFICES ASSUME Good, NEW p \in Bridges, pc[p] # "exited", pc'[p] = "exited"
               PROVE  Excused(p)
    BY DEF ExitsExcused
  <2>1. pc \in [Bridges -> Phases] /\ faults \in Nat
    BY <1>1, LifecycleAssumption DEF Safe, Bridging
  <2>2. Fault => Excused(p)
    BY <2>1 DEF Fault, Excused
  <2>3. CASE Seed(p)
    <3>1. CASE KS!Count(p) \/ KS!Insert(p)
      <4>1. at'[p] = "failed"
        BY <2>1, <2>3, <3>1 DEF Seed, Step, app
      <4>2. at \in [Procs -> Places] /\ p \in Procs
        BY <1>1 DEF Safe, StoreInv, Procs
      <4>3. ~KS!Count(p)
        BY <4>1, <4>2 DEF KS!Count, KS!Go
      <4>4. at[p] = "insert" /\ 1 \in KS!Ids
        BY <3>1, <4>1, <4>2, <4>3 DEF KS!Insert, KS!Go
      <4>5. QED
        BY <2>3, <4>4 DEF Seed, Excused, KS!Ids
    <3>2. QED
      BY <2>2, <2>3, <3>1 DEF Seed
  <2>4. CASE Load(p)
    <3>1. keys # {}
      BY <1>1, <2>4 DEF Keyed, Load
    <3>2. Found # {} /\ \A k \in Found : LoadOK(k)
      BY <1>1, <3>1, LoadWorks DEF LoadOK, Good
    <3>3. ~Step(p, "connect")
      BY <2>1 DEF Step
    <3>4. QED
      BY <2>2, <2>4, <3>2, <3>3, Zenon DEF Load
  <2>5. CASE Connect(p)
    <3>1. ~Step(p, "init") /\ pc' # pc
      BY <2>1 DEF Step
    <3>2. QED
      BY <2>2, <2>5, <3>1 DEF Connect
  <2>6. CASE InitRoute(p)
    <3>1. ~Step(p, "listen") /\ pc' # pc
      BY <2>1 DEF Step
    <3>2. /\ ~(pos[p][1] > Len(cfg.routes))
          /\ IF pos[p][2] = 0 THEN ~cfg.routes[pos[p][1]].oneHead
                              ELSE ~StartsOK(p, <<pos[p][1], pos[p][2]>>)
      BY <2>6, <3>1 DEF InitRoute
    <3>3. pos[p][1] \in Routes
      <4>1. pos[p][1] \in 1..(Len(cfg.routes) + 1) /\ Len(cfg.routes) \in Nat
            /\ Routes = 1..Len(cfg.routes)
        BY <1>1, ConfigLists DEF Safe, Bridging
      <4>2. QED
        BY <3>2, <4>1
    <3>4. cfg.routes[pos[p][1]].oneHead
      BY <3>3 DEF Good
    <3>5. pc[p] = "init"
      BY <2>6 DEF InitRoute
    <3>6. QED
      BY <1>1, <3>2, <3>3, <3>4, <3>5, StartWorks
  <2>7. CASE Listen(p)
    <3>1. pc[p] = "listen" /\ ~Step(p, "serving")
      BY <2>1, <2>7 DEF Listen, Step
    <3>2. Fault \/ \E q \in Bridges : pc[q] = "serving"
      BY <2>7, <3>1 DEF Listen
    <3>3. QED
      BY <2>2, <3>1, <3>2 DEF Excused
  <2>8. ASSUME NEW q \in Bridges, Crash(q) PROVE Excused(p)
    BY <2>2, <2>8 DEF Crash
  <2>9. ASSUME NEW q \in Bridges, Restart(q) PROVE FALSE
    BY <2>1, <2>9 DEF Restart, Step
  <2>10. ASSUME NEW q \in Bridges, q # p, Run(q) PROVE FALSE
    <3>1. ASSUME NEW phase, Step(q, phase) PROVE FALSE
      BY <2>1, <2>10, <3>1 DEF Step
    <3>2. pc' # pc
      OBVIOUS
    <3>3. QED
      BY <2>10, <3>1, <3>2, Zenon
         DEF Run, Seed, Load, Connect, InitRoute, Listen, Exit, app
  <2>11. pc' # pc
    OBVIOUS
  <2>12. ASSUME NEW q \in Bridges, NEW x, NEW m, Take(q, x, m) \/ Finish(q, x) \/ GiveBack(q, x)
         PROVE  FALSE
    BY <2>11, <2>12, Zenon DEF Take, Finish, GiveBack, app
  <2>13. ~Edit /\ ~(UNCHANGED vars) /\ \A q \in Tools : ~RunTool(q)
    BY <2>11, Zenon DEF Edit, vars, app, RunTool
  <2>14. ASSUME NEW q \in Bridges, Run(q) PROVE Excused(p)
    BY <2>3, <2>4, <2>5, <2>6, <2>7, <2>10, <2>14 DEF Run
  <2>15. QED
    BY <1>1, <2>8, <2>9, <2>12, <2>13, <2>14, Zenon DEF Next
<1>2. QED
  BY <1>1, AlwaysSafe, AlwaysKeyed, PTL DEF Spec
-----------------------------------------------------------------------------
(* Where messages go.                                                      *)

\* The messages that got through.
Done == {m \in Msgs : m \notin waiting /\ \A w \in work : w[3] # m}

\* No message is done in vain: it does not return to the queue.  A message
\* that leaves the queue is worked on.  With a good configuration, work ends
\* with the message done, with the process, or by a failure that ends the
\* consumer.
MovesOn ==
  /\ Done \subseteq Done'
  /\ \A m \in waiting \ waiting' : \E w \in work' : w[3] = m
  /\ Good => \A w \in work \ work' : \/ w[3] \in Done'
                                     \/ pc'[w[1]] = "exited"
                                     \/ faults' > faults /\ w[2] \in ended'[w[1]]

\* A queue that nothing happens to.
LEMMA QueueRests ==
  ASSUME UNCHANGED queue PROVE MovesOn
BY DEF queue, MovesOn, Done

\* What an exit gives back was being worked on.
LEMMA ExitMoves ==
  ASSUME Safe, NEW p \in Bridges, Exit(p) PROVE MovesOn
<1>1. /\ waiting' = waiting \cup {w[3] : w \in {x \in work : x[1] = p}}
      /\ work' = {w \in work : w[1] # p} /\ pc' = [pc EXCEPT ![p] = "exited"]
      /\ pc \in [Bridges -> Phases]
  BY DEF Exit, Step, Safe, Bridging
<1>2. Done \subseteq Done'
  BY <1>1 DEF Done
<1>3. \A w \in work \ work' : pc'[w[1]] = "exited"
  BY <1>1
<1>4. QED
  BY <1>1, <1>2, <1>3 DEF MovesOn

\* A route of a good configuration finds its components connected.
LEMMA GoodSends ==
  ASSUME Safe, Good, NEW w \in work PROVE Sendable(w[1], w[2])
<1>1. w[1] \in Bridges /\ w[2] \in started[w[1]]
  BY DEF Safe, Queueing
<1>2. conns[w[1]] = EmsComps /\ w[2] \in AllStarters
  <2>1. InPhase(w[1]) /\ pc[w[1]] \in Phases /\ started[w[1]] \subseteq AllStarters
    BY <1>1 DEF Safe, Bridging
  <2>2. QED
    BY <1>1, <2>1 DEF InPhase, Phases
<1>3. w[2][1] \in Routes
  BY <1>2, StarterNumbers DEF Safe, Bridging
<1>4. \A n \in cfg.routes[w[2][1]].sends : Lookup(n) \in EmsComps
  BY <1>3 DEF Good, Refs
<1>5. QED
  BY <1>2, <1>4 DEF Sendable

\* A message that got through has done so for good, and the only way back
\* into the queue is a failed route or an ended process.  The routes of a good
\* configuration do not fail for want of a component: there each time round
\* takes the end of a process, or a failure that ends the consumer (what
\* MessagesGetThrough needs of the steps; TLC checks that it comes to an end).
THEOREM MessagesMoveOn == Spec => [][MovesOn]_vars
<1>1. ASSUME Safe, [Next]_vars PROVE MovesOn
  <2>1. ASSUME NEW p \in Bridges, Run(p) \/ Crash(p) \/ Restart(p) PROVE MovesOn
    <3>1. Exit(p) \/ UNCHANGED queue
      BY <2>1, Zenon DEF Run, Seed, Load, Connect, InitRoute, Listen, Crash, Restart
    <3>2. QED
      BY <1>1, <3>1, ExitMoves, QueueRests
  <2>2. ASSUME NEW p \in Bridges, NEW x \in AllStarters, NEW m \in Msgs, Take(p, x, m)
        PROVE  MovesOn
    <3>1. waiting' = waiting \ {m} /\ work' = work \cup {<<p, x, m>>} /\ m \in waiting
      BY <2>2 DEF Take
    <3>2. <<p, x, m>>[3] = m /\ <<p, x, m>> \in work'
      BY <3>1
    <3>3. Done \subseteq Done'
      BY <3>1, <3>2 DEF Done
    <3>4. QED
      BY <3>1, <3>2, <3>3 DEF MovesOn
  <2>3. ASSUME NEW p \in Bridges, NEW w \in work, Finish(p, w) PROVE MovesOn
    <3>1. work' = work \ {w} /\ waiting' = waiting
      BY <2>3 DEF Finish
    <3>2. w[3] \in Done'
      BY <1>1, <3>1 DEF Done, Safe, Queueing
    <3>3. Done \subseteq Done'
      BY <3>1 DEF Done
    <3>4. QED
      BY <3>1, <3>2, <3>3 DEF MovesOn
  <2>4. ASSUME NEW p \in Bridges, NEW w \in work, GiveBack(p, w) PROVE MovesOn
    <3>1. /\ work' = work \ {w} /\ waiting' = waiting \cup {w[3]}
          /\ ended' = [ended EXCEPT ![p] = @ \cup {w[2]}] /\ w[1] = p
          /\ Sendable(w[1], w[2]) => faults' = faults + 1
      BY <2>4 DEF GiveBack, Fault
    <3>2. Good => faults' = faults + 1
      BY <1>1, <3>1, GoodSends
    <3>3. w[2] \in ended'[w[1]] /\ faults \in Nat
      BY <1>1, <3>1, LifecycleAssumption DEF Safe, Queueing
    <3>4. Done \subseteq Done'
      BY <3>1 DEF Done
    <3>5. QED
      BY <3>1, <3>2, <3>3, <3>4 DEF MovesOn
  <2>5. (\E p \in Tools : RunTool(p)) \/ Edit \/ UNCHANGED vars => UNCHANGED queue
    BY Zenon DEF RunTool, Edit, vars
  <2>6. QED
    BY <1>1, <2>1, <2>2, <2>3, <2>4, <2>5, QueueRests, Zenon DEF Next
<1>2. QED
  BY <1>1, AlwaysSafe, PTL DEF Spec
=============================================================================
