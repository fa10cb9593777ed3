----------------------------- MODULE ConfigDocument -----------------------------
(*****************************************************************************)
(* The operator's configuration as a document whose sections refer to each   *)
(* other by host alias and by group, what the loader accepts, and the edits  *)
(* that the dashboard and the migration make.  A document is a record:       *)
(*   hosts, excluded   aliases listed and excluded                           *)
(*   auto              discovered aliases are monitored, too                 *)
(*   local             the local alias, or NoAlias                           *)
(*   counts, overrides aliases with a GPU count, with a host override        *)
(*   windows           aliases with a maintenance window                     *)
(*   groups            alias -> group                                        *)
(*   hostScopes, groupScopes   aliases and groups with incident overrides    *)
(*   actions           <<alias, condition>> acknowledged or silenced         *)
(*   tree              [root, links], or NoTree                              *)
(*   interval, timeout, connect   collector settings                         *)
(* What one value of a section may be and how many there may be is left out, *)
(* and so is their spelling.                                                 *)
(*****************************************************************************)
EXTENDS Integers, Functions

NoAlias == "no alias"
NoTree == [root |-> NoAlias, links |-> {}]

Sections ==
  {"hosts", "excluded", "auto", "local", "counts", "overrides", "windows", "groups",
   "hostScopes", "groupScopes", "actions", "tree", "interval", "timeout", "connect"}

\* what the checks of the single sections leave of a file
WellFormed(d) ==
  /\ d = [s \in Sections |-> d[s]]
  /\ d.auto \in BOOLEAN
  /\ d.groups = [h \in DOMAIN d.groups |-> d.groups[h]]
  /\ d.tree = [root |-> d.tree.root, links |-> d.tree.links]

\* the aliases that a section may name
Explicit(d) == d.hosts \ d.excluded

-------------------------------------------------------------------------------
(* What the loader accepts *)

Endpoints(links) == {l[1] : l \in links} \cup {l[2] : l \in links}

\* the nodes that links lead to from one, itself included: those in every set that
\* has the root and that no link leaves
ReachedFrom(root, links) ==
  LET nodes == {root} \cup Endpoints(links)
      closed == {S \in SUBSET nodes :
                   root \in S /\ \A l \in links : l[1] \in S => l[2] \in S}
  IN {n \in nodes : \A S \in closed : n \in S}

\* connection_topology: one tree, from its root
IsTree(tree) ==
  /\ \A l \in tree.links : l[1] # l[2] /\ l[2] # tree.root
  /\ \A k, l \in tree.links : k[2] = l[2] => k = l
  /\ Endpoints(tree.links) \subseteq ReachedFrom(tree.root, tree.links)

LocalAccepted(d) == d.local = NoAlias \/ d.local \in Explicit(d)
CountsAccepted(d) == d.counts \subseteq Explicit(d)
OverridesAccepted(d) == d.overrides \subseteq Explicit(d)
WindowsAccepted(d) == d.windows \subseteq Explicit(d)
\* discovered aliases may have a group before they are listed
GroupsAccepted(d) ==
  /\ DOMAIN d.groups \cap d.excluded = {}
  /\ d.auto \/ DOMAIN d.groups \subseteq d.hosts
ScopesAccepted(d) ==
  /\ d.hostScopes \subseteq Explicit(d)
  /\ d.groupScopes \subseteq Range(d.groups)
ActionsAccepted(d) == \A a \in d.actions : a[1] \in Explicit(d)
TimeoutAccepted(d) == d.timeout > d.connect

\* load_config
Accepted(d) ==
  /\ LocalAccepted(d) /\ IsTree(d.tree) /\ TimeoutAccepted(d)
  /\ CountsAccepted(d) /\ OverridesAccepted(d) /\ WindowsAccepted(d)
  /\ GroupsAccepted(d) /\ ScopesAccepted(d) /\ ActionsAccepted(d)

-------------------------------------------------------------------------------
(* What the dashboard writes *)

\* _prune_incident_overrides
Pruned(d) ==
  [d EXCEPT !.hostScopes = @ \cap Explicit(d),
            !.groupScopes = @ \cap {d.groups[h] : h \in DOMAIN d.groups \cap Explicit(d)}]

\* Broken: only the links of the alias itself go.
TreeWithoutLinks(tree, h) ==
  IF tree.root = h THEN NoTree
  ELSE [tree EXCEPT !.links = {l \in @ : h \notin {l[1], l[2]}}]
\* _remove_topology_host: what hung below the alias goes, too
TreeWithout(tree, h) ==
  IF tree.root = h THEN NoTree
  ELSE LET left == {l \in tree.links : h \notin {l[1], l[2]}}
       IN [tree EXCEPT !.links = {l \in left : l[1] \in ReachedFrom(tree.root, left)}]

GroupsWithout(d, h) == Restrict(d.groups, DOMAIN d.groups \ {h})

Added(d, h) == Pruned([d EXCEPT !.hosts = @ \cup {h}])

\* c is the configuration as it was loaded, d the document read after it
Removed(d, c, h) ==
  Pruned([d EXCEPT !.hosts = c.hosts \ {h},
                   !.excluded = IF c.auto THEN @ \cup {h} ELSE @,
                   !.local = IF @ = h THEN NoAlias ELSE @,
                   !.counts = @ \ {h}, !.overrides = @ \ {h}, !.windows = @ \ {h},
                   !.groups = GroupsWithout(d, h),
                   !.actions = {a \in @ : a[1] # h},
                   !.tree = TreeWithout(@, h)])

\* an empty group clears the alias's group
Regrouped(d, h, g) ==
  Pruned([d EXCEPT !.groups =
            [k \in (DOMAIN @ \ {h}) \cup (IF g = NoAlias THEN {} ELSE {h}) |->
               IF k = h THEN g ELSE @[k]]])

\* update_maintenance with a duration, or without one
Maintained(d, h, on) ==
  [d EXCEPT !.windows = IF on THEN @ \cup {h} ELSE @ \ {h}]

\* update_incident_action; the actions that expired meanwhile go, too
Acted(d, live, h, k, on) ==
  [d EXCEPT !.actions = (live \ {<<h, k>>}) \cup (IF on THEN {<<h, k>>} ELSE {})]

-------------------------------------------------------------------------------
(* What the migration to another machine writes *)

Named(d, h) == d.tree.root = h \/ h \in Endpoints(d.tree.links)

\* Broken: the tree is not looked at.
RefusedForHosts(d, new) ==
  /\ new # NoAlias
  /\ (new # d.local /\ new \in d.hosts) \/ new \in d.excluded
\* migrate_config refuses to give the new local alias a second meaning
Refused(d, new) ==
  /\ new # NoAlias
  /\ \/ (new # d.local /\ new \in d.hosts) \/ new \in d.excluded
     \/ d.local \notin {NoAlias, new} /\ Named(d, new)

\* the old alias under its new name, where nobody names it
Renamed(S, old, new) ==
  (S \ {old}) \cup (IF old \in S /\ new # NoAlias THEN {new} ELSE {})

RenamedTree(tree, old, new) ==
  LET name(n) == IF n = old THEN new ELSE n
  IN [root |-> name(tree.root),
      links |-> {<<name(l[1]), name(l[2])>> : l \in tree.links}]

\* the group follows the alias unless the new one has a group already
RenamedGroups(d, new) ==
  IF d.local \in DOMAIN d.groups /\ new # NoAlias
  THEN [k \in (DOMAIN d.groups \ {d.local}) \cup {new} |->
          IF k = new /\ (k = d.local \/ k \notin DOMAIN d.groups)
          THEN d.groups[d.local] ELSE d.groups[k]]
  ELSE GroupsWithout(d, d.local)

Rebound(d, new) ==
  [d EXCEPT !.hosts = Renamed(@, d.local, new), !.local = new,
            !.counts = @ \ {d.local}, !.overrides = @ \ {d.local},
            !.windows = @ \ {d.local}, !.hostScopes = @ \ {d.local},
            !.actions = {a \in @ : a[1] # d.local},
            !.groups = RenamedGroups(d, new),
            !.tree = IF new # NoAlias THEN RenamedTree(@, d.local, new)
                     ELSE IF Named(d, d.local) THEN NoTree ELSE @]

\* named: a display name is asked for, which becomes a host override
Migrated(d, new, auto, named) ==
  LET local == IF d.local # NoAlias THEN Rebound(d, new)
               ELSE IF new = NoAlias THEN d
               ELSE [d EXCEPT !.hosts = @ \cup {new}, !.local = new]
  IN [local EXCEPT !.auto = auto,
                   !.overrides = IF named THEN @ \cup {new} ELSE @,
                   !.groupScopes = @ \cap Range(local.groups)]

\* an alias that is discovered only has a group, which the loader accepts as long as
\* discovery is on; the new local alias is listed afterwards
GroupUnlisted(d, new) == \E h \in DOMAIN d.groups \ d.hosts : new = NoAlias \/ h # new

\* what still names an alias, but for the exclusions
Mentions(d, h) ==
  \/ h \in d.hosts \cup d.counts \cup d.overrides \cup d.windows
            \cup d.hostScopes \cup DOMAIN d.groups
  \/ h = d.local \/ Named(d, h) \/ \E a \in d.actions : a[1] = h
===============================================================================
