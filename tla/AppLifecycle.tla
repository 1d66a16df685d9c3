---------------------------- MODULE AppLifecycle -----------------------------
(***************************************************************************)
(* The life of a bridge process (src/main.go, src/config.go, src/app.go):  *)
(* it opens and seeds the key store, loads the configuration and decrypts  *)
(* its component properties, creates components and routes, connects the   *)
(* components, initialises the routes one by one, whose starters run at    *)
(* once, and listens last.  Any error ends the process, and what it was    *)
(* working on goes back to its queue (CLIENT mode).  Several bridges with  *)
(* one configuration, and the encr tool, share the key store, the queue    *)
(* and the port.  Routes are those of all apps together.                   *)
(***************************************************************************)
EXTENDS Naturals, Sequences, FiniteSets

CONSTANTS
  Bridges, Tools,     \* processes of the bridge and of the encr tool
  Values, Prefix(_),  \* see KeyStore
  Names,              \* component names
  Configs,            \* the configurations considered
  Conflicts(_, _),    \* the mux refuses pattern u once v, another, is registered
  Msgs,               \* messages of the queue that queue starters consume
  NoSecret,           \* the password is not encrypted
  MaxFaults           \* bound on the failures of a behaviour

\* valid: the files parse, and types and properties are what New expects;
\* comps: names, and whether the provider is tibems; routes: the components
\* their processors name, whether at most one processor has no incoming link,
\* and their starters, with the component or the uri these name.
Starter == [kind : {"queue", "file"}, ref : Names] \cup [kind : {"rest"}, uri : STRING]

ASSUME LifecycleAssumption ==
  /\ \A cfg \in Configs :
       /\ cfg.valid \in BOOLEAN
       /\ cfg.comps \in Seq([name : Names, ems : BOOLEAN])
       /\ cfg.routes \in Seq([sends : SUBSET Names, oneHead : BOOLEAN,
                              starters : Seq(Starter)])
  /\ MaxFaults \in Nat

VARIABLES
  keys, at, printed,  \* KeyStore
  cfg,      \* the configuration file and the app files
  secret,   \* the ciphertext in place of a component's password
  pc,       \* the phase of each bridge
  conns,    \* components each bridge has connected, by position
  pos,      \* the route a bridge initialises, and its next starter
  started,  \* starters of each bridge that have been started
  waiting,  \* messages in the queue
  work,     \* <<p, x, m>>: starter x of p has m, and its route is at work
  ended,    \* queue starters of each bridge whose consumer has ended
  faults

store == <<keys, at, printed>>
app   == <<pc, conns, pos, started>>
queue == <<waiting, work, ended>>
vars  == <<store, cfg, secret, app, queue, faults>>

KS == INSTANCE KeyStore WITH Procs <- Bridges \cup Tools

Phases == {"seed", "load", "connect", "init", "listen", "serving", "exited"}
Fault   == faults < MaxFaults /\ faults' = faults + 1
NoFault == UNCHANGED faults

Comps  == DOMAIN cfg.comps
Routes == DOMAIN cfg.routes
Starters(r) == DOMAIN cfg.routes[r].starters
AllStarters == UNION {{r} \X Starters(r) : r \in Routes}
Step(p, phase) == pc' = [pc EXCEPT ![p] = phase]

\* The registry: the last component with a name, of whatever app; 0 for none.
Lookup(n) == LET C == {c \in Comps : cfg.comps[c].name = n}
             IN  IF C = {} THEN 0 ELSE CHOOSE c \in C : \A d \in C : d <= c

\* The names a route refers to, which New resolves.
Refs(r) == cfg.routes[r].sends \cup
           {cfg.routes[r].starters[s].ref :
              s \in {t \in Starters(r) : cfg.routes[r].starters[t].kind = "queue"}}

\* What NewApplication checks.
Creatable == cfg.valid /\ \A r \in Routes : \A n \in Refs(r) : Lookup(n) # 0

Uri(x) == cfg.routes[x[1]].starters[x[2]].uri
IsRest(x) == cfg.routes[x[1]].starters[x[2]].kind = "rest"
-----------------------------------------------------------------------------
Init ==
  /\ KS!Init
  /\ cfg \in Configs
  /\ secret = NoSecret
  /\ pc = [p \in Bridges |-> "seed"]
  /\ conns = [p \in Bridges |-> {}]
  /\ pos = [p \in Bridges |-> <<1, 0>>]
  /\ started = [p \in Bridges |-> {}]
  /\ waiting = Msgs /\ work = {} /\ ended = [p \in Bridges |-> {}]
  /\ faults = 0

\* The process ends: the broker closes its connections and takes back what
\* it was working on.
Exit(p) ==
  /\ Step(p, "exited")
  /\ conns' = [conns EXCEPT ![p] = {}]
  /\ started' = [started EXCEPT ![p] = {}]
  /\ waiting' = waiting \cup {w[3] : w \in {x \in work : x[1] = p}}
  /\ work' = {w \in work : w[1] # p}
  /\ ended' = [ended EXCEPT ![p] = {}]
  /\ UNCHANGED pos

Seed(p) ==
  /\ pc[p] = "seed"
  /\ \/ NoFault /\ (KS!Count(p) \/ KS!Insert(p))
     \/ Fault /\ KS!Fails(p)
  /\ CASE at'[p] = "ready"  -> Step(p, "load") /\ UNCHANGED <<conns, pos, started, queue>>
       [] at'[p] = "failed" -> Exit(p)
       [] OTHER -> UNCHANGED <<app, queue>>
  /\ UNCHANGED <<cfg, secret>>

\* The rows Decrypt may find for the password, any when it is plain text.
Found == IF secret = NoSecret THEN keys ELSE KS!Rows(secret.prefix)
Opens(k) == IF secret = NoSecret THEN TRUE ELSE KS!Opens(secret, k)

LoadOK(k) == Opens(k) /\ Creatable

\* LoadConfig reads the files and decrypts, then NewApplication creates all
\* components and routes; one step, as neither connects nor starts anything.
Load(p) ==
  /\ pc[p] = "load"
  /\ \/ /\ \E k \in Found : LoadOK(k)
        /\ NoFault
        /\ Step(p, "connect")
        /\ UNCHANGED <<conns, pos, started, queue>>
     \/ /\ \/ NoFault /\ (Found = {} \/ \E k \in Found : ~LoadOK(k))
           \/ Fault
        /\ Exit(p)
  /\ UNCHANGED <<store, cfg, secret>>

\* Mutant: routes are initialised as soon as a component is connected.
ConnectFirst(p) ==
  /\ pc[p] = "connect" /\ NoFault
  /\ IF conns[p] # {}
       THEN Step(p, "init") /\ pos' = [pos EXCEPT ![p] = <<1, 0>>] /\ UNCHANGED conns
       ELSE /\ conns' = [conns EXCEPT ![p] = @ \cup {1}]
            /\ UNCHANGED <<pc, pos>>
  /\ UNCHANGED <<store, cfg, secret, started, queue>>

\* Start connects the components in order; other providers do nothing.
Connect(p) ==
  /\ pc[p] = "connect"
  /\ \/ /\ NoFault
        /\ LET left == {c \in Comps : cfg.comps[c].ems} \ conns[p] IN
           IF left = {}
             THEN Step(p, "init") /\ pos' = [pos EXCEPT ![p] = <<1, 0>>] /\ UNCHANGED conns
             ELSE /\ \E c \in left : /\ \A d \in left : c <= d
                                     /\ conns' = [conns EXCEPT ![p] = @ \cup {c}]
                  /\ UNCHANGED <<pc, pos>>
        /\ UNCHANGED <<started, queue>>
     \/ Fault /\ Exit(p)
  /\ UNCHANGED <<store, cfg, secret>>

\* The mux panics on a pattern that is registered or in conflict with one; a
\* malformed one is in conflict with /health, which is registered first.
Refused(u, v) == u = v \/ Conflicts(u, v)

\* A starter that Init starts: a consumer needs the connection of its
\* component, a REST starter a pattern of its own.
StartsOK(p, x) ==
  LET s == cfg.routes[x[1]].starters[x[2]] IN
  CASE s.kind = "queue" -> Lookup(s.ref) \in conns[p]
    [] s.kind = "rest"  -> /\ ~Refused(s.uri, "/health")
                           /\ \A y \in started[p] : IsRest(y) => ~Refused(s.uri, Uri(y))
    [] s.kind = "file"  -> TRUE

\* Mutant: an error of Init is logged, and the next route initialised.
InitRouteIgnoring(p) ==
  /\ pc[p] = "init" /\ NoFault
  /\ LET r == pos[p][1]  s == pos[p][2] IN
     IF r > Len(cfg.routes)
       THEN Step(p, "listen") /\ UNCHANGED <<conns, pos, started, queue>>
     ELSE /\ IF s = 0 THEN UNCHANGED started
             ELSE started' = [started EXCEPT ![p] =
                    IF StartsOK(p, <<r, s>>) THEN @ \cup {<<r, s>>} ELSE @]
          /\ pos' = [pos EXCEPT ![p] =
               IF s < Len(cfg.routes[r].starters) /\ cfg.routes[r].oneHead
                 THEN <<r, s + 1>> ELSE <<r + 1, 0>>]
          /\ UNCHANGED <<pc, conns, queue>>
  /\ UNCHANGED <<store, cfg, secret>>

\* Init of route r: first the check of its links (s = 0), then its starters.
InitRoute(p) ==
  /\ pc[p] = "init" /\ NoFault
  /\ LET r == pos[p][1]  s == pos[p][2] IN
     IF r > Len(cfg.routes)
       THEN Step(p, "listen") /\ UNCHANGED <<conns, pos, started, queue>>
     ELSE IF IF s = 0 THEN ~cfg.routes[r].oneHead ELSE ~StartsOK(p, <<r, s>>)
       THEN Exit(p)
     ELSE /\ IF s = 0 THEN UNCHANGED started
             ELSE started' = [started EXCEPT ![p] = @ \cup {<<r, s>>}]
          /\ pos' = [pos EXCEPT ![p] =
               IF s < Len(cfg.routes[r].starters) THEN <<r, s + 1>> ELSE <<r + 1, 0>>]
          /\ UNCHANGED <<pc, conns, queue>>
  /\ UNCHANGED <<store, cfg, secret>>

\* Serve: the port may be taken, by another bridge of the same host too.
Listen(p) ==
  /\ pc[p] = "listen"
  /\ \/ /\ NoFault
        /\ IF \E q \in Bridges : pc[q] = "serving"
             THEN Exit(p)
             ELSE Step(p, "serving") /\ UNCHANGED <<conns, pos, started, queue>>
     \/ Fault /\ Exit(p)
  /\ UNCHANGED <<store, cfg, secret>>
-----------------------------------------------------------------------------
IsQueue(x) == cfg.routes[x[1]].starters[x[2]].kind = "queue"

\* Mutant: the message stays in the queue while the route works on it.
TakeCopy(p, x, m) ==
  /\ x \in started[p] \ ended[p] /\ IsQueue(x)
  /\ \A w \in work : <<w[1], w[2]>> # <<p, x>>
  /\ m \in waiting
  /\ work' = work \cup {<<p, x, m>>}
  /\ UNCHANGED <<store, cfg, secret, app, waiting, ended, faults>>

\* The one consumer of a queue starter takes a message.
Take(p, x, m) ==
  /\ x \in started[p] \ ended[p] /\ IsQueue(x)
  /\ \A w \in work : <<w[1], w[2]>> # <<p, x>>
  /\ m \in waiting
  /\ waiting' = waiting \ {m}
  /\ work' = work \cup {<<p, x, m>>}
  /\ UNCHANGED <<store, cfg, secret, app, ended, faults>>

\* jms_send works on a component that is connected only.
Sendable(p, x) == \A n \in cfg.routes[x[1]].sends : Lookup(n) \in conns[p]

\* Mutant: what the route has done with is not acknowledged.
FinishUnsettled(p, w) ==
  /\ w \in work /\ w[1] = p /\ Sendable(p, w[2])
  /\ work' = work \ {w} /\ waiting' = waiting \cup {w[3]}
  /\ UNCHANGED <<store, cfg, secret, app, ended, faults>>

\* The route, and the reply if one is due, succeeds; the message is settled.
Finish(p, w) ==
  /\ w \in work /\ w[1] = p /\ Sendable(p, w[2])
  /\ work' = work \ {w}
  /\ UNCHANGED <<store, cfg, secret, app, waiting, ended, faults>>

\* The route fails, as it does when it cannot send, or the reply does: the
\* message goes back, and the consumer ends for as long as the process lives.
GiveBack(p, w) ==
  /\ w \in work /\ w[1] = p
  /\ (Sendable(p, w[2]) /\ Fault) \/ (~Sendable(p, w[2]) /\ NoFault)
  /\ work' = work \ {w} /\ waiting' = waiting \cup {w[3]}
  /\ ended' = [ended EXCEPT ![p] = @ \cup {w[2]}]
  /\ UNCHANGED <<store, cfg, secret, app>>

Crash(p) ==
  /\ pc[p] # "exited" /\ Fault /\ Exit(p)
  /\ UNCHANGED <<store, cfg, secret>>

\* Somebody starts the process again.
Restart(p) ==
  /\ pc[p] = "exited"
  /\ at' = [at EXCEPT ![p] = "start"]
  /\ Step(p, "seed")
  /\ UNCHANGED <<keys, printed, cfg, secret, conns, pos, started, queue, faults>>

\* The encr tool, once per process, and the operator who uses its output.
RunTool(p) ==
  /\ \/ NoFault /\ (KS!Count(p) \/ KS!Insert(p) \/ KS!Encrypt(p))
     \/ Fault /\ KS!Fails(p)
  /\ UNCHANGED <<cfg, secret, app, queue>>

Edit ==
  /\ \/ \E c \in printed : secret' = c /\ UNCHANGED store
     \/ (\E v \in Values : KS!AddKey(v)) /\ UNCHANGED secret
  /\ UNCHANGED <<cfg, app, queue, faults>>
-----------------------------------------------------------------------------
Run(p) == Seed(p) \/ Load(p) \/ Connect(p) \/ InitRoute(p) \/ Listen(p)

Next ==
  \/ \E p \in Bridges :
       \/ Run(p) \/ Crash(p) \/ Restart(p)
       \/ \E x \in AllStarters, m \in Msgs : Take(p, x, m)
       \/ \E w \in work : Finish(p, w) \/ GiveBack(p, w)
  \/ \E p \in Tools : RunTool(p)
  \/ Edit

Spec == Init /\ [][Next]_vars

\* Processes and their routes run; the broker passes over no process that
\* keeps asking for a message.  Nobody need run the tool, edit or restart.
FairSpec ==
  /\ Spec
  /\ \A p \in Bridges :
       /\ WF_vars(Run(p)) /\ WF_vars(\E w \in work : Finish(p, w) \/ GiveBack(p, w))
       /\ \A m \in Msgs : SF_vars(\E x \in AllStarters : Take(p, x, m))
-----------------------------------------------------------------------------
(* What starting a bridge should guarantee.                                *)

EmsComps == {c \in Comps : cfg.comps[c].ems}

\* Every variable has its type, and a message is in the queue, or with one
\* consumer, or done.
TypeOK ==
  /\ KS!StoreTypeOK
  /\ cfg \in Configs /\ secret \in printed \cup {NoSecret}
  /\ pc \in [Bridges -> Phases]
  /\ conns \in [Bridges -> SUBSET Comps]
  /\ started \in [Bridges -> SUBSET AllStarters]
  /\ \A p \in Bridges : pos[p][1] \in 1..(Len(cfg.routes) + 1) /\ pos[p][2] \in Nat
  /\ waiting \subseteq Msgs
  /\ work \subseteq Bridges \X AllStarters \X Msgs
  /\ ended \in [Bridges -> SUBSET AllStarters]
  /\ \A v, w \in work : v[3] = w[3] => v = w
  /\ \A w \in work : w[3] \notin waiting
  /\ faults \in 0..MaxFaults

\* See KeyStore.
SecretsReadable == KS!SecretsReadable

\* A route works on a message only when its first processor is known and the
\* process has connected every component, although starters of one route run
\* while later routes are still initialised.
WorkOnlyWhenReady ==
  \A w \in work : /\ cfg.routes[w[2][1]].oneHead
                  /\ conns[w[1]] = EmsComps

\* A bridge that answers /health has connected all components and started
\* all starters of all routes.
HealthyMeansComplete ==
  \A p \in Bridges : pc[p] = "serving" =>
    conns[p] = EmsComps /\ started[p] = AllStarters

\* A configuration that only failures outside can keep from starting.
Good ==
  /\ Creatable
  /\ \A r \in Routes : cfg.routes[r].oneHead /\ \A n \in Refs(r) : Lookup(n) \in EmsComps
  /\ \A x \in AllStarters :
       IsRest(x) => /\ ~Refused(Uri(x), "/health")
                    /\ \A y \in AllStarters : (IsRest(y) /\ Refused(Uri(x), Uri(y))) => x = y

Restarted == \A p \in Bridges : []<>(pc[p] # "exited")

\* Processes that race to seed the database and for the port do not keep
\* each other from starting: if whoever exits is started again, one bridge
\* serves for good.
SomeoneServes == Good /\ Restarted => <>[](\E p \in Bridges : pc[p] = "serving")

\* A failed route ends its consumer for good, so that a bridge may serve
\* and consume no more: not here.
ConsumersLeft ==
  \A p \in Bridges : pc[p] = "serving" => \E x \in AllStarters \ ended[p] : IsQueue(x)

\* Messages that starts took which then failed, for want of the port too,
\* are not taken and given back for ever, if in the end the bridge that
\* serves has a consumer left.
MessagesGetThrough ==
  Good /\ Restarted /\ <>[]ConsumersLeft =>
    \A m \in Msgs : <>(m \notin waiting /\ \A w \in work : w[3] # m)
=============================================================================
