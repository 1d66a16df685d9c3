--------------------------- MODULE MCAppLifecycle ----------------------------
(* Two bridges and one encr tool; a configuration that starts, one with a  *)
(* reference to no component, one that does not parse, and five whose      *)
(* errors are found late: two first processors, a uri used twice, two that *)
(* overlap, two apps that give the same name to components, so that a      *)
(* route gets the wrong one, and a route that sends through a component of *)
(* another provider.                                                       *)
EXTENDS AppLifecycle

CONSTANTS p1, p2, t1, v1, v2, m1

MCBridges == {p1, p2}
MCTools   == {t1}
MCValues  == {v1, v2}
MCMsgs    == {m1}
MCNames   == {"a", "b"}
MCPrefix(v) == <<v>>
MCConflicts(u, v) == {u, v} = {"/x/{id}", "/{a}/y"}

Comp(n, ems) == [name |-> n, ems |-> ems]
Queue(n) == [kind |-> "queue", ref |-> n]
Web(u)   == [kind |-> "rest", uri |-> u]
Route(heads, sends, starters) ==
  [oneHead |-> heads, sends |-> sends, starters |-> starters]
Config(comps, routes) == [valid |-> TRUE, comps |-> comps, routes |-> routes]

One == <<Comp("a", TRUE)>>
First == Route(TRUE, {"a"}, <<Queue("a")>>)

MCConfigs ==
  { Config(One, <<First, Route(TRUE, {}, <<Web("/x"), [kind |-> "file", ref |-> "a"]>>)>>),
    Config(One, <<First, Route(TRUE, {"b"}, <<Web("/x")>>)>>),
    Config(One, <<First, Route(FALSE, {}, <<Web("/x")>>)>>),
    Config(One, <<First, Route(TRUE, {}, <<Web("/x"), Web("/x")>>)>>),
    Config(One, <<First, Route(TRUE, {}, <<Web("/x/{id}"), Web("/{a}/y")>>)>>),
    [Config(One, <<First>>) EXCEPT !.valid = FALSE],
    Config(One \o <<Comp("b", TRUE), Comp("b", FALSE)>>,
           <<First, Route(TRUE, {}, <<Queue("b")>>)>>),
    Config(One \o <<Comp("b", FALSE)>>, <<Route(TRUE, {"b"}, <<Queue("a")>>)>>) }
=============================================================================
