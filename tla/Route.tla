------------------------------- MODULE Route --------------------------------
(***************************************************************************)
(* A route (src/routes/route.go): New instantiates the processors and      *)
(* links of its configuration, Init resolves the first processor, and      *)
(* Execute runs a message through the chain the links describe.  Every     *)
(* configuration of the given lists is an initial state, well formed or    *)
(* not: New checks neither ids nor links.                                  *)
(***************************************************************************)
EXTENDS Naturals, Sequences, FiniteSetsExt

CONSTANTS
  Ids,        \* processor ids, and ids that only links mention
  NoId,       \* the empty string: an id left out, or no next processor
  ProcLists,  \* the processor id lists considered
  LinkLists   \* the link lists considered

ASSUME RouteAssumption ==
  /\ NoId \notin Ids
  /\ ProcLists \subseteq Seq(Ids \cup {NoId})
  /\ LinkLists \subseteq Seq([from : Ids \cup {NoId}, to : Ids \cup {NoId}])

VARIABLES
  procs,    \* processorIDs, parallel to Processors
  links,    \* Links
  phase,    \* what has been called, and how it ended
  first,    \* index of FirstProcessor, 0 for nil
  current,  \* currentID of Execute
  ran       \* how often each processor has run, 2 for twice or more

vars == <<procs, links, phase, first, current, ran>>

Positions == 1..Len(procs)
Phases == {"new", "ready", "rejected", "running", "done", "failed"}

\* The map byID: the last processor with an id wins; 0 when there is none.
ById(id) == LET P == {p \in Positions : procs[p] = id}
            IN  IF P = {} THEN 0 ELSE Max(P)

\* The map nextID: the last link from an id wins.
NextId(id) == LET L == {l \in 1..Len(links) : links[l].from = id}
              IN  IF L = {} THEN NoId ELSE links[Max(L)].to

ToIds == {links[l].to : l \in 1..Len(links)}
Heads == {p \in Positions : procs[p] \notin ToIds}
-----------------------------------------------------------------------------
Init ==
  /\ procs \in ProcLists
  /\ links \in LinkLists
  /\ phase = "new"
  /\ first = 0
  /\ current = NoId
  /\ ran = [p \in Positions |-> 0]

\* Mutant: the first processor is the one listed first.
InitFirstListed ==
  /\ phase = "new"
  /\ phase' = "ready"
  /\ first' = IF procs = <<>> THEN 0 ELSE 1
  /\ UNCHANGED <<procs, links, current, ran>>

\* Init: no processor, or exactly one, that no link leads to.
InitRoute ==
  /\ phase = "new"
  /\ \/ /\ Cardinality(Heads) > 1
        /\ phase' = "rejected"
        /\ UNCHANGED first
     \/ /\ Cardinality(Heads) <= 1
        /\ phase' = "ready"
        /\ first' = IF Heads = {} THEN 0 ELSE CHOOSE p \in Heads : TRUE
  /\ UNCHANGED <<procs, links, current, ran>>

\* A starter calls Execute; without a first processor currentID stays "".
Execute ==
  /\ phase = "ready"
  /\ phase' = "running"
  /\ current' = IF first = 0 THEN NoId ELSE procs[first]
  /\ UNCHANGED <<procs, links, first, ran>>

Run(p) == ran' = [ran EXCEPT ![p] = IF @ < 2 THEN @ + 1 ELSE @]

\* Mutant: the chain goes on with the next processor of the list.
ProcessListed ==
  LET p == ById(current) IN
  /\ phase = "running" /\ current # NoId /\ p # 0
  /\ Run(p)
  /\ current' = IF p < Len(procs) THEN procs[p + 1] ELSE NoId
  /\ UNCHANGED <<procs, links, phase, first>>

\* Mutant: the last processor of the chain is its own successor.
ProcessStaying ==
  LET p == ById(current) IN
  /\ phase = "running" /\ current # NoId /\ p # 0
  /\ Run(p)
  /\ current' = IF NextId(current) = NoId THEN current ELSE NextId(current)
  /\ UNCHANGED <<procs, links, phase, first>>

\* One round of the loop of Execute: the processor succeeds,
Process ==
  LET p == ById(current) IN
  /\ phase = "running" /\ current # NoId /\ p # 0
  /\ Run(p)
  /\ current' = NextId(current)
  /\ UNCHANGED <<procs, links, phase, first>>

\* or fails, and Execute returns its error.
ProcessFails ==
  /\ phase = "running" /\ current # NoId /\ ById(current) # 0
  /\ phase' = "failed"
  /\ UNCHANGED <<procs, links, first, current, ran>>

\* Mutant: an id without a processor ends the chain.
NotFoundIsEnd ==
  /\ phase = "running" /\ current # NoId /\ ById(current) = 0
  /\ phase' = "done"
  /\ UNCHANGED <<procs, links, first, current, ran>>

\* A link leads to an id that no processor has.
NotFound ==
  /\ phase = "running" /\ current # NoId /\ ById(current) = 0
  /\ phase' = "failed"
  /\ UNCHANGED <<procs, links, first, current, ran>>

Return ==
  /\ phase = "running" /\ current = NoId
  /\ phase' = "done"
  /\ UNCHANGED <<procs, links, first, current, ran>>

\* The next message; Execute keeps nothing between two calls.
NextMessage ==
  /\ phase \in {"done", "failed"}
  /\ phase' = "ready"
  /\ current' = NoId
  /\ ran' = [p \in Positions |-> 0]
  /\ UNCHANGED <<procs, links, first>>

Next ==
  \/ InitRoute \/ Execute \/ Process \/ ProcessFails \/ NotFound \/ Return
  \/ NextMessage

Spec == Init /\ [][Next]_vars

\* Every processor call returns; none is obliged to fail.
FairSpec == Spec /\ WF_vars(Process \/ NotFound \/ Return)
-----------------------------------------------------------------------------
(* What a route should guarantee.                                          *)

LinkRel == {<<links[l].from, links[l].to>> : l \in 1..Len(links)}

\* No set of ids whose links lead round in it.
Acyclic == ~ \E S \in SUBSET Ids :
               /\ S # {}
               /\ \A x \in S : \E y \in S : <<x, y>> \in LinkRel

\* The configurations the README describes: distinct ids, links between
\* processors, at most one link from each.
WellFormed ==
  /\ \A p \in Positions : procs[p] # NoId
  /\ \A p, q \in Positions : procs[p] = procs[q] => p = q
  /\ \A l \in 1..Len(links) : ById(links[l].from) # 0 /\ ById(links[l].to) # 0
  /\ \A k, l \in 1..Len(links) : links[k].from = links[l].from => links[k].to = links[l].to

\* Every variable has its type, and Execute succeeds only at the end of a
\* chain, not at an id it does not know.
TypeOK ==
  /\ procs \in ProcLists /\ links \in LinkLists
  /\ phase \in Phases
  /\ first \in 0..Len(procs)
  /\ current \in Ids \cup {NoId}
  /\ ran \in [Positions -> 0..2]
  /\ phase = "done" => current = NoId

\* Without cycles no message meets a processor twice, whatever else is wrong
\* with the links.  And Init rejects what Execute could not do completely: when
\* a well formed configuration without cycles is accepted, a message that comes
\* through has been processed by every processor, although Init looks at
\* nothing but the processors without an incoming link.
ChainRunsAll ==
  Acyclic => \A p \in Positions : /\ ran[p] <= 1
                                 /\ WellFormed /\ phase = "done" => ran[p] = 1

\* A processor runs only after one that links to it, or as the first one.
LinkOrder ==
  \A q \in Positions : ran[q] > 0 =>
    \/ q = first
    \/ \E p \in Positions : ran[p] > 0 /\ <<procs[p], procs[q]>> \in LinkRel

\* Without cycles Execute returns, whatever else is wrong with the links.
ExecuteReturns == Acyclic /\ phase = "running" ~> phase # "running"
=============================================================================
