------------------------------ MODULE SshTopology ------------------------------
(*****************************************************************************)
(* Host discovery in topology mode: the routes of the SSH aliases are        *)
(* resolved in batches, each by a pool of workers that answer in any order,  *)
(* and projected into the tree that the dashboard draws.  An alias is a      *)
(* number, in the order of its name; a proxy that is no alias is negative.   *)
(* The parsing of ssh -G's answer and the labels of the links are left out.  *)
(*****************************************************************************)
EXTENDS ConfigDocument, FiniteSets, SequencesExt

CONSTANTS
  Known,         \* aliases of the SSH configuration, from 1
  Fleet(_),      \* the numbered fleet of an alias, 0 when it has none
  Setups,        \* [explicit, excluded, code, local, auto]
  Ways,          \* alias -> [kind, options, hops]: what ssh -G says of it
  MaxLinks,      \* TOPOLOGY_MAX_LINKS
  MaxFailures    \* bound: queries that fail

VARIABLES
  setup, ways,   \* the configuration of the dashboard, and that of SSH
  stage,         \* idle, resolving, done
  batch,         \* aliases of the running batch that did not answer yet
  waiting,       \* pending: those of the next one
  routes,        \* alias -> hops, of those that answered
  failed,        \* aliases whose route could not be resolved
  asked,         \* alias -> how often it was asked
  chart          \* [hosts, links, groups, cut]: the snapshot

ASSUME AliasesAssumption == Known \subseteq Nat \ {0} /\ IsFiniteSet(Known)
ASSUME SetupsAssumption ==
  \A c \in Setups : c.explicit \subseteq Nat /\ IsFiniteSet(c.explicit) /\ c.local \in Nat
ASSUME WaysAssumption ==
  \A w \in Ways, a \in Known :
    /\ w[a].kind \in {"direct", "jump", "command"} /\ w[a].hops \in Seq(Int)
    /\ w[a].options \in Seq(Range(w[a].options))
    /\ \A i \in DOMAIN w[a].options : w[a].options[i].hops \in Seq(Int)
ASSUME LinksAssumption == MaxLinks \in Nat

topologyVars == <<setup, ways, stage, batch, waiting, routes, failed, asked, chart>>

Nowhere == 0                 \* the dashboard's own name, no alias
Unknown == -1                \* a destination that is no alias
Synthetic(target, index) == -(10 * target + index)

NoChart == [hosts |-> {}, links |-> {}, groups |-> <<>>, cut |-> FALSE]
InOrder(S) == [i \in 1..Cardinality(S) |->
                 CHOOSE x \in S : Cardinality({y \in S : y < x}) = i - 1]

-------------------------------------------------------------------------------
(* The route of one alias *)

\* the function with another value, of an argument that may be new
With(f, a, value) == [x \in DOMAIN f \cup {a} |-> IF x = a THEN value ELSE f[x]]

\* the elements in order, once each, but for those of E
Distinct(s, E) ==
  LET first == {i \in DOMAIN s : s[i] \notin E /\ \A j \in 1..(i - 1) : s[j] # s[i]}
  IN [i \in 1..Cardinality(first) |-> s[InOrder(first)[i]]]

\* every hop counts, under a name of its own when it is no alias
JumpHops(target, hops) ==
  Distinct([i \in 1..Len(hops) |->
              IF hops[i] = Unknown THEN Synthetic(target, i - 1) ELSE hops[i]], {target})

\* what -J and -o leave of a proxy inside a ProxyCommand: the first setting holds,
\* and ssh rejects a -J after another
ProxyOptions(options) ==
  [rejected |-> \E i \in DOMAIN options \ {1} : options[i].by = "J",
   jumps |-> IF options = <<>> THEN <<>> ELSE options[1].hops]

\* the aliases of the command; a command that names none is one opaque proxy
CommandHops(target, options, destination) ==
  LET o == ProxyOptions(options)
      named == IF o.rejected THEN <<>> ELSE Distinct(o.jumps \o destination, {target, Unknown})
  IN IF named = <<>> THEN <<Synthetic(target, 0)>> ELSE named

HopsOf(a) ==
  CASE ways[a].kind = "direct" -> <<>>
    [] ways[a].kind = "jump" -> JumpHops(a, ways[a].hops)
    [] ways[a].kind = "command" -> CommandHops(a, ways[a].options, ways[a].hops)

-------------------------------------------------------------------------------
(* The projection into a tree *)

\* expanded_hops: along the first hops from an alias, until one is not resolved,
\* direct, known from another walk, or was met before
FirstHops(cache, a) ==
  LET Walk[n \in 0..Cardinality(DOMAIN routes)] ==
        IF n = 0 THEN <<a>>
        ELSE LET met == Walk[n - 1]
                 next == Head(routes[Last(met)])
             IN IF /\ next \in DOMAIN routes \ (DOMAIN cache \cup Range(met))
                   /\ routes[next] # <<>>
                THEN Append(met, next) ELSE met
  IN Walk[Cardinality(DOMAIN routes)]

\* the chains of the aliases on a walk, the deepest first: the chain before it and
\* its own hops, without itself and the root
Unwound(cache, root, stack, before) ==
  LET Back[n \in 0..Len(stack)] ==
        IF n = 0 THEN [prefix |-> before, cache |-> cache]
        ELSE LET deeper == Back[n - 1]
                 a == stack[Len(stack) + 1 - n]
                 chain == Distinct(deeper.prefix \o routes[a], {root, a})
             IN [prefix |-> chain, cache |-> With(deeper.cache, a, chain)]
  IN Back[Len(stack)].cache

\* the chain of an alias and of what is met on the way, as the cache keeps them
Chains(cache, root, a) ==
  IF a \in DOMAIN cache THEN cache
  ELSE IF a \notin DOMAIN routes THEN With(cache, a, <<>>)
  ELSE IF routes[a] = <<>> THEN With(cache, a, <<>>)
  ELSE LET stack == FirstHops(cache, a)
           last == Head(routes[Last(stack)])
       IN Unwound(cache, root, stack, IF last \in DOMAIN cache THEN cache[last] ELSE <<>>)

Parents(links, n) == {l[1] : l \in {k \in links : k[2] = n}}

\* Broken: a second parent is linked, too.
LinkedTwice(links, l) ==
  IF l[1] = l[2] THEN links ELSE links \cup {l}
\* the first parent of a node is the one that counts
Linked(links, l) ==
  IF l[1] = l[2] \/ Parents(links, l[2]) \ {l[1]} # {} THEN links ELSE links \cup {l}

\* the links of a path, one after the other
LinkedAlong(links, path) ==
  LET Along[n \in 0..(Len(path) - 1)] ==
        IF n = 0 THEN links ELSE Linked(Along[n - 1], <<path[n], path[n + 1]>>)
  IN Along[Len(path) - 1]

\* links and chains of the hosts in order
Projection(root, hosts) ==
  LET order == InOrder(hosts \ {root})
      Drawn[n \in 0..Len(order)] ==
        IF n = 0 THEN [cache |-> <<>>, links |-> {}]
        ELSE LET earlier == Drawn[n - 1]
                 h == order[n]
                 cache == Chains(earlier.cache, root, h)
             IN [cache |-> cache,
                 links |-> LinkedAlong(earlier.links, <<root>> \o cache[h] \o <<h>>)]
  IN Drawn[Len(order)]

\* breadth first from the root, while there is room: each step takes a node
Retained(root, links) ==
  LET Taken[n \in 0..(Cardinality(links) + 1)] ==
        IF n = 0 THEN [queue |-> <<root>>, kept |-> {}]
        ELSE LET t == Taken[n - 1]
                 room == MaxLinks - Cardinality(t.kept)
                 below == {l \in links : l[1] = Head(t.queue)}
                 drawn == {l \in below : Cardinality({k \in below : k[2] < l[2]}) < room}
             IN IF t.queue = <<>> \/ room <= 0 THEN t
                ELSE [queue |-> Tail(t.queue) \o InOrder({l[2] : l \in drawn}),
                      kept |-> t.kept \cup drawn]
  IN Taken[Cardinality(links) + 1].kept

Truncated(root, links) ==
  IF Cardinality(links) > MaxLinks THEN Retained(root, links) ELSE links

\* the last known hop, or the numbered fleet when two direct hosts share it
HostGroups(hosts, chains) ==
  LET hops(h) == SelectSeq(chains[h], LAMBDA x : x \in Known)
      direct == {h \in hosts : hops(h) = <<>> /\ Fleet(h) # 0}
      paired == {h \in direct : \E k \in direct \ {h} : Fleet(k) = Fleet(h)}
  IN [h \in {k \in hosts : hops(k) # <<>>} \cup paired |->
        IF h \in paired THEN <<Fleet(h)>> ELSE <<Last(hops(h))>>]

-------------------------------------------------------------------------------
(* Discovery *)

EligibleAliases == Known \ (setup.excluded \cup setup.code)
ExplicitHosts == setup.explicit \ setup.excluded
Root == IF setup.local # Nowhere THEN setup.local ELSE Nowhere

TopologyInit ==
  /\ setup \in Setups /\ ways \in Ways
  /\ stage = "idle" /\ batch = {} /\ waiting = {}
  /\ routes = <<>> /\ failed = {} /\ asked = [a \in Known |-> 0] /\ chart = NoChart

\* a discovery that the cache does not answer
Discover ==
  /\ stage = "idle" /\ stage' = "resolving"
  /\ waiting' = ((EligibleAliases \cup ExplicitHosts) \cap Known) \ {setup.local}
  /\ UNCHANGED <<setup, ways, batch, routes, failed, asked, chart>>

\* the pool of the last batch is done
NextBatch ==
  /\ stage = "resolving" /\ batch = {} /\ waiting # {}
  /\ batch' = waiting /\ waiting' = {}
  /\ asked' = [a \in Known |-> asked[a] + IF a \in waiting THEN 1 ELSE 0]
  /\ UNCHANGED <<setup, ways, stage, routes, failed, chart>>

\* hops worth asking, a member of the running batch that did not answer included
Unresolved(answers) == Known \ (DOMAIN answers \cup failed \cup {setup.local})

RouteFound(a) ==
  LET answers == With(routes, a, HopsOf(a))
  IN /\ a \in batch /\ batch' = batch \ {a} /\ routes' = answers
     /\ waiting' = waiting \cup (Range(HopsOf(a)) \cap Unresolved(answers))
     /\ UNCHANGED <<setup, ways, stage, failed, asked, chart>>

\* ssh -G fails, times out, is cancelled or answers too much; this may happen to an
\* alias that answered in the batch before
RouteFails(a) ==
  /\ a \in batch /\ batch' = batch \ {a} /\ failed' = failed \cup {a}
  /\ Cardinality(failed) < MaxFailures
  /\ UNCHANGED <<setup, ways, stage, waiting, routes, asked, chart>>

\* what is monitored, and the tree of it
PublishTopology ==
  LET infrastructure == UNION {Range(routes[a]) : a \in DOMAIN routes}
      auto == IF setup.auto THEN EligibleAliases \ (infrastructure \cup failed) ELSE {}
      hosts == ExplicitHosts \cup auto
      drawn == Projection(Root, hosts)
  IN /\ stage = "resolving" /\ batch = {} /\ waiting = {} /\ stage' = "done"
     /\ chart' = [hosts |-> hosts, links |-> Truncated(Root, drawn.links),
                  groups |-> HostGroups(hosts \ {Root}, drawn.cache),
                  cut |-> Cardinality(drawn.links) > MaxLinks]
     /\ UNCHANGED <<setup, ways, batch, waiting, routes, failed, asked>>

TopologyNext ==
  \/ Discover \/ NextBatch \/ PublishTopology
  \/ \E a \in Known : RouteFound(a) \/ RouteFails(a)

TopologySpec == TopologyInit /\ [][TopologyNext]_topologyVars

-------------------------------------------------------------------------------
(* Properties *)

\* Whatever the SSH configuration says, proxies in a cycle and hosts behind two
\* chains included, and whichever routes could not be resolved, the projection is a
\* tree that the loader accepts, and every monitored host hangs in it unless it was
\* cut (SshTopologyPlanner.project).
DrawnAsTree ==
  stage = "done" =>
    /\ IsTree([root |-> Root, links |-> chart.links])
    /\ chart.cut \/ chart.hosts \ {Root} \subseteq {l[2] : l \in chart.links}

\* Resolution ends: an alias is asked at most once more, when it became a hop while
\* its own answer was on the way (SshTopologyPlanner.resolve).
AskedTwiceAtMost == \A a \in Known : asked[a] <= 2

\* Discovery asks no alias without end, and what it shows is a tree that holds every
\* monitored host (SshTopologyPlanner.resolve, project).
DiscoverySound == DrawnAsTree /\ AskedTwiceAtMost
===============================================================================
