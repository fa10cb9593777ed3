----------------------------- MODULE ConfigProofs ------------------------------
(*****************************************************************************)
(* Proofs that the dashboard loses no change, and that what it makes of an   *)
(* accepted file is accepted, the migration to another machine included: for *)
(* any number of handlers and any requests, whatever documents, faults and   *)
(* edits there are, and whatever tree the connections form; and that the     *)
(* discovery of hosts asks no alias more than twice and draws such a tree of *)
(* any SSH configuration.                                                    *)
(*****************************************************************************)
EXTENDS ConfigInventory, SshTopology, SequenceTheorems, FiniteSetTheorems, TLAPS

Inside == {"load", "read", "write", "apply"}

\* A request between Enter and Leave holds the lock, and unless the operator edits
\* meanwhile, what it has loaded and read is what the file still is.
LockInv ==
  /\ edits \in Nat /\ since \in [Handlers -> 0..edits]
  /\ DOMAIN progress = Handlers /\ DOMAIN loaded = Handlers /\ DOMAIN data = Handlers
  /\ \A h \in Handlers : progress[h] \in Inside => lockedBy = h
  /\ \A h \in Handlers : since[h] = edits =>
       /\ progress[h] = "read" => loaded[h] = file
       /\ progress[h] = "write" => loaded[h] = file /\ data[h] = file

\* Nobody has asked for anything at the start.
LEMMA LockInvInit == ConfigInit => LockInv
BY DEF ConfigInit, Untouched, LockInv, Inside

\* A request that ends leaves the lock, and is in no step that needs it.
LEMMA LeaveEnds ==
  ASSUME NEW h \in Handlers, NEW answered, LockInv, Leave(h, answered),
         progress[h] \in Inside, edits' = edits, file' = file
  PROVE  LockInv' /\ progress'[h] \notin Inside
BY DEF LockInv, Inside, Leave, Proceed

\* Every step keeps the invariant.
LEMMA LockInvNext == LockInv /\ [ConfigNext]_configVars => LockInv'
<1> SUFFICES ASSUME LockInv, [ConfigNext]_configVars PROVE LockInv'
  OBVIOUS
<1>1. ASSUME NEW d \in Documents, Edit(d) PROVE LockInv'
  BY <1>1 DEF Edit, LockInv
<1>2. ASSUME NEW h \in Handlers, NEW r \in Requests, Enter(h, r) PROVE LockInv'
  BY <1>2, HandlersAssumption DEF Enter, MayEnter, Proceed, LockInv, Inside
<1>3. ASSUME NEW h \in Handlers, Load(h) PROVE LockInv'
  <2>1. progress[h] \in Inside /\ edits' = edits /\ file' = file
    BY <1>3 DEF Load, Inside
  <2> DEFINE valid == Accepted(file) /\ Allowed(request[h], file)
  <2>2. CASE valid /\ ~Unneeded(request[h], file)
    BY <1>3, <2>1, <2>2 DEF Load, Proceed, LockInv, Inside
  <2>3. CASE ~(valid /\ ~Unneeded(request[h], file))
    <3>1. Leave(h, valid)
      BY <1>3, <2>3 DEF Load
    <3> QED BY <2>1, <3>1, LeaveEnds
  <2> QED BY <2>2, <2>3
<1>4. ASSUME NEW h \in Handlers, Read(h) PROVE LockInv'
  BY <1>4 DEF Read, Proceed, LockInv, Inside
<1>5. ASSUME NEW h \in Handlers, Replace(h) PROVE LockInv'
  BY <1>5 DEF Replace, Proceed, LockInv, Inside
<1>6. ASSUME NEW h \in Handlers, WriteFails(h) PROVE LockInv'
  BY <1>6, LeaveEnds DEF WriteFails, Inside
<1>7. ASSUME NEW h \in Handlers, ApplyFails(h) PROVE LockInv'
  BY <1>7, LeaveEnds DEF ApplyFails, Inside
<1>8. ASSUME NEW h \in Handlers, UpdateConfig(h) PROVE LockInv'
  BY <1>8, LeaveEnds DEF UpdateConfig, Inside
<1>9. ASSUME NEW h \in Handlers, Pace(h) PROVE LockInv'
  BY <1>9 DEF Pace, Proceed, LockInv, Inside
<1>10. CASE UNCHANGED configVars
  BY <1>10 DEF configVars, LockInv
<1> QED
  BY <1>1, <1>2, <1>3, <1>4, <1>5, <1>6, <1>7, <1>8, <1>9, <1>10 DEF ConfigNext

\* Only the replacement of the file leads from "write" to "apply".
LEMMA OnlyReplaceWrites ==
  ASSUME LockInv, ConfigNext, NEW h \in Handlers,
         progress[h] = "write", progress'[h] = "apply"
  PROVE  Replace(h)
<1>1. ASSUME NEW d \in Documents, Edit(d) PROVE FALSE
  BY <1>1 DEF Edit
<1>2. PICK g \in Handlers :
         \/ \E r \in Requests : Enter(g, r)
         \/ Load(g) \/ Read(g) \/ Replace(g) \/ WriteFails(g)
         \/ ApplyFails(g) \/ UpdateConfig(g) \/ Pace(g)
  BY <1>1 DEF ConfigNext
<1>3. g = h
  BY <1>2 DEF LockInv, Enter, Load, Read, Replace, WriteFails, ApplyFails, UpdateConfig,
              Pace, Leave, Proceed
<1>4. CASE WriteFails(h)
  BY <1>4, LeaveEnds DEF WriteFails, Inside
<1> QED
  BY <1>2, <1>3, <1>4 DEF LockInv, Enter, Load, Read, ApplyFails, UpdateConfig, Pace

\* What a request writes is its change applied to what the file is at that moment,
\* unless the operator's editor came in after it was loaded (ConfigInventory.change
\* under _mutation_lock).
THEOREM ChangesAreKept == ConfigSpec => NoChangeLost
<1>1. LockInv /\ [ConfigNext]_configVars =>
        [\A h \in Handlers : progress[h] = "write" /\ progress'[h] = "apply" =>
           edits # since[h] \/ file' \in Changed(request[h], file, file)]_configVars
  <2> SUFFICES ASSUME LockInv, ConfigNext, NEW h \in Handlers,
                      progress[h] = "write", progress'[h] = "apply", edits = since[h]
               PROVE  file' \in Changed(request[h], file, file)
    OBVIOUS
  <2>1. Replace(h)
    BY OnlyReplaceWrites
  <2>2. loaded[h] = file /\ data[h] = file
    BY DEF LockInv
  <2> QED BY <2>1, <2>2 DEF Replace
<1> QED BY <1>1, LockInvInit, LockInvNext, PTL DEF ConfigSpec, NoChangeLost

-------------------------------------------------------------------------------
(* The tree of connections: what is reached from the root                    *)

\* The root is reached, and so is what a link from a reached node leads to
\* (connection_topology's search).
LEMMA ReachIsClosed ==
  ASSUME NEW root, NEW links
  PROVE  /\ root \in ReachedFrom(root, links)
         /\ \A l \in links :
              l[1] \in ReachedFrom(root, links) => l[2] \in ReachedFrom(root, links)
BY DEF ReachedFrom, Endpoints

\* Nothing else is reached: a set of nodes that has the root and that no link leaves
\* has it all.
LEMMA ReachIsLeast ==
  ASSUME NEW root, NEW links, NEW S, root \in S,
         \A l \in links : l[1] \in S => l[2] \in S
  PROVE  ReachedFrom(root, links) \subseteq S
<1> DEFINE nodes == {root} \cup Endpoints(links)
           T == S \cap nodes
<1>1. T \in SUBSET nodes /\ root \in T
  OBVIOUS
<1>2. \A l \in links : l[1] \in T => l[2] \in T
  BY DEF Endpoints
<1> QED BY <1>1, <1>2 DEF ReachedFrom

\* When a host leaves the tree, what hung below it goes, too, and a tree is left
\* (_remove_topology_host).
LEMMA CutIsTree ==
  ASSUME NEW tree, NEW h, tree = [root |-> tree.root, links |-> tree.links],
         IsTree(tree)
  PROVE  IsTree(TreeWithout(tree, h))
<1>1. CASE tree.root = h
  BY <1>1 DEF TreeWithout, NoTree, IsTree, Endpoints
<1>2. CASE tree.root # h
  <2> DEFINE left == {l \in tree.links : h \notin {l[1], l[2]}}
             kept == {l \in left : l[1] \in ReachedFrom(tree.root, left)}
  <2>1. TreeWithout(tree, h) = [root |-> tree.root, links |-> kept]
    BY <1>2 DEF TreeWithout
  <2>2. /\ kept \subseteq tree.links /\ kept \subseteq left
        /\ \A l \in kept : l[1] \in ReachedFrom(tree.root, left)
    OBVIOUS
  <2>3. \A l \in left : l[1] \in ReachedFrom(tree.root, left) => l \in kept
    OBVIOUS
  <2> HIDE DEF left, kept
  <2>4. ReachedFrom(tree.root, left) \subseteq ReachedFrom(tree.root, kept)
    <3> DEFINE S == ReachedFrom(tree.root, left) \cap ReachedFrom(tree.root, kept)
    <3>1. tree.root \in S
      BY ReachIsClosed
    <3>2. \A l \in left : l[1] \in S => l[2] \in S
      BY <2>3, ReachIsClosed
    <3>3. ReachedFrom(tree.root, left) \subseteq S
      <4> HIDE DEF S
      <4> QED BY <3>1, <3>2, ReachIsLeast
    <3> QED BY <3>3
  <2>5. Endpoints(kept) \subseteq ReachedFrom(tree.root, left)
    BY <2>2, ReachIsClosed DEF Endpoints
  <2> QED BY <2>1, <2>2, <2>4, <2>5 DEF IsTree
<1> QED BY <1>1, <1>2

-------------------------------------------------------------------------------
(* Edits keep the shape of a document                                        *)

\* What the pruning of the scoped overrides leaves as it was, and what it leaves of
\* the overrides (_prune_incident_overrides).
LEMMA PrunedFields ==
  ASSUME NEW d, WellFormed(d)
  PROVE  /\ WellFormed(Pruned(d))
         /\ Pruned(d).hosts = d.hosts /\ Pruned(d).excluded = d.excluded
         /\ Pruned(d).auto = d.auto /\ Pruned(d).local = d.local
         /\ Pruned(d).counts = d.counts /\ Pruned(d).overrides = d.overrides
         /\ Pruned(d).windows = d.windows /\ Pruned(d).groups = d.groups
         /\ Pruned(d).hostScopes = d.hostScopes \cap Explicit(d)
         /\ Pruned(d).groupScopes =
              d.groupScopes \cap {d.groups[h] : h \in DOMAIN d.groups \cap Explicit(d)}
         /\ Pruned(d).actions = d.actions /\ Pruned(d).tree = d.tree
         /\ Pruned(d).interval = d.interval /\ Pruned(d).timeout = d.timeout
         /\ Pruned(d).connect = d.connect
BY DEF WellFormed, Sections, Pruned

\* A document whose sections but for the scoped overrides are accepted is accepted
\* once these are pruned (_prune_incident_overrides).
LEMMA PrunedIsAccepted ==
  ASSUME NEW d, WellFormed(d), LocalAccepted(d), IsTree(d.tree), TimeoutAccepted(d),
         CountsAccepted(d), OverridesAccepted(d), WindowsAccepted(d),
         GroupsAccepted(d), ActionsAccepted(d)
  PROVE  WellFormed(Pruned(d)) /\ Accepted(Pruned(d))
<1> DEFINE p == Pruned(d)
<1>1. /\ WellFormed(p) /\ p.hosts = d.hosts /\ p.excluded = d.excluded
      /\ p.auto = d.auto /\ p.local = d.local /\ p.counts = d.counts
      /\ p.overrides = d.overrides /\ p.windows = d.windows /\ p.groups = d.groups
      /\ p.hostScopes = d.hostScopes \cap Explicit(d)
      /\ p.groupScopes =
           d.groupScopes \cap {d.groups[h] : h \in DOMAIN d.groups \cap Explicit(d)}
      /\ p.actions = d.actions /\ p.tree = d.tree /\ p.timeout = d.timeout
      /\ p.connect = d.connect
  BY PrunedFields
<1> HIDE DEF p
<1>2. p.groupScopes \subseteq Range(p.groups)
  BY <1>1 DEF Range
<1>3. ScopesAccepted(p)
  BY <1>1, <1>2 DEF ScopesAccepted, Explicit
<1>4. LocalAccepted(p) /\ IsTree(p.tree) /\ TimeoutAccepted(p) /\ CountsAccepted(p)
  BY <1>1 DEF LocalAccepted, TimeoutAccepted, CountsAccepted, Explicit
<1>5. OverridesAccepted(p) /\ WindowsAccepted(p) /\ GroupsAccepted(p) /\ ActionsAccepted(p)
  BY <1>1 DEF OverridesAccepted, WindowsAccepted, GroupsAccepted, ActionsAccepted, Explicit
<1> QED BY <1>1, <1>3, <1>4, <1>5 DEF Accepted, p

-------------------------------------------------------------------------------
(* Each request of the dashboard makes a document that is accepted           *)

\* Adding a host that is not excluded; the sections gain an alias they may name
\* (ConfigInventory.change).
LEMMA AddIsAccepted ==
  ASSUME NEW d, NEW h, WellFormed(d), Accepted(d), h \notin d.excluded
  PROVE  Accepted(Added([d EXCEPT !.hosts = d.hosts], h))
<1> DEFINE u == [[d EXCEPT !.hosts = d.hosts] EXCEPT !.hosts = @ \cup {h}]
<1>1. /\ WellFormed(u) /\ u.hosts = d.hosts \cup {h} /\ u.excluded = d.excluded
      /\ u.auto = d.auto /\ u.local = d.local /\ u.counts = d.counts
      /\ u.overrides = d.overrides /\ u.windows = d.windows /\ u.groups = d.groups
      /\ u.actions = d.actions /\ u.tree = d.tree /\ u.timeout = d.timeout
      /\ u.connect = d.connect
  BY DEF WellFormed, Sections
<1>2. Added([d EXCEPT !.hosts = d.hosts], h) = Pruned(u)
  BY DEF Added
<1> HIDE DEF u
<1>3. Explicit(d) \subseteq Explicit(u)
  BY <1>1 DEF Explicit
<1>4. LocalAccepted(u) /\ CountsAccepted(u) /\ OverridesAccepted(u) /\ WindowsAccepted(u)
  BY <1>1, <1>3 DEF Accepted, LocalAccepted, CountsAccepted, OverridesAccepted,
                   WindowsAccepted
<1>5. IsTree(u.tree) /\ TimeoutAccepted(u) /\ GroupsAccepted(u) /\ ActionsAccepted(u)
  BY <1>1, <1>3 DEF Accepted, TimeoutAccepted, GroupsAccepted, ActionsAccepted
<1> QED BY <1>1, <1>2, <1>4, <1>5, PrunedIsAccepted

\* Removing a host takes it out of every section that names it, and from the tree
\* what hung below it; a discovered one is excluded (ConfigInventory.change,
\* _remove_topology_host).
LEMMA RemoveIsAccepted ==
  ASSUME NEW d, NEW h, WellFormed(d), Accepted(d)
  PROVE  Accepted(Removed(d, d, h))
<1> DEFINE u == [d EXCEPT !.hosts = d.hosts \ {h},
                          !.excluded = IF d.auto THEN @ \cup {h} ELSE @,
                          !.local = IF @ = h THEN NoAlias ELSE @,
                          !.counts = @ \ {h}, !.overrides = @ \ {h},
                          !.windows = @ \ {h}, !.groups = GroupsWithout(d, h),
                          !.actions = {a \in @ : a[1] # h},
                          !.tree = TreeWithout(@, h)]
<1>1. /\ u = [s \in Sections |-> u[s]] /\ u.hosts = d.hosts \ {h}
      /\ u.excluded = (IF d.auto THEN d.excluded \cup {h} ELSE d.excluded)
      /\ u.auto = d.auto /\ u.local = (IF d.local = h THEN NoAlias ELSE d.local)
      /\ u.counts = d.counts \ {h} /\ u.overrides = d.overrides \ {h}
      /\ u.windows = d.windows \ {h} /\ u.groups = GroupsWithout(d, h)
      /\ u.actions = {a \in d.actions : a[1] # h} /\ u.tree = TreeWithout(d.tree, h)
      /\ u.timeout = d.timeout /\ u.connect = d.connect
  BY DEF WellFormed, Sections
<1>2. Removed(d, d, h) = Pruned(u)
  BY DEF Removed
<1> HIDE DEF u
<1>3. WellFormed(u)
  <2>1. u.auto \in BOOLEAN
    BY <1>1 DEF WellFormed
  <2>2. u.groups = [k \in DOMAIN u.groups |-> u.groups[k]]
    BY <1>1 DEF GroupsWithout, Restrict
  <2>3. u.tree = [root |-> u.tree.root, links |-> u.tree.links]
    BY <1>1 DEF TreeWithout, NoTree, WellFormed
  <2> QED BY <1>1, <2>1, <2>2, <2>3 DEF WellFormed
<1>4. Explicit(u) = Explicit(d) \ {h}
  BY <1>1 DEF Explicit
<1>5. LocalAccepted(u)
  BY <1>1, <1>4 DEF Accepted, LocalAccepted
<1>6. CountsAccepted(u) /\ OverridesAccepted(u) /\ WindowsAccepted(u) /\ ActionsAccepted(u)
  BY <1>1, <1>4 DEF Accepted, CountsAccepted, OverridesAccepted, WindowsAccepted,
                   ActionsAccepted
<1>7. IsTree(u.tree) /\ TimeoutAccepted(u)
  BY <1>1, CutIsTree DEF Accepted, WellFormed, TimeoutAccepted
<1>8. DOMAIN u.groups = DOMAIN d.groups \ {h}
  BY <1>1 DEF GroupsWithout, Restrict
<1>9. GroupsAccepted(u)
  BY <1>1, <1>8 DEF Accepted, GroupsAccepted
<1> QED BY <1>2, <1>3, <1>5, <1>6, <1>7, <1>9, PrunedIsAccepted

\* Grouping an alias of the list, or clearing its group: a group that nobody is in
\* any more loses its overrides (update_host_group, _prune_incident_overrides).
LEMMA RegroupIsAccepted ==
  ASSUME NEW d, NEW h, NEW g, WellFormed(d), Accepted(d), h \in Explicit(d)
  PROVE  Accepted(Regrouped(d, h, g))
<1> DEFINE named == (DOMAIN d.groups \ {h}) \cup (IF g = NoAlias THEN {} ELSE {h})
           u == [d EXCEPT !.groups = [k \in named |-> IF k = h THEN g ELSE @[k]]]
<1>1. /\ u = [s \in Sections |-> u[s]] /\ u.hosts = d.hosts /\ u.excluded = d.excluded
      /\ u.auto = d.auto /\ u.local = d.local /\ u.counts = d.counts
      /\ u.overrides = d.overrides /\ u.windows = d.windows
      /\ u.groups = [k \in named |-> IF k = h THEN g ELSE d.groups[k]]
      /\ u.actions = d.actions /\ u.tree = d.tree /\ u.timeout = d.timeout
      /\ u.connect = d.connect
  BY DEF WellFormed, Sections
<1>2. Regrouped(d, h, g) = Pruned(u)
  BY DEF Regrouped
<1>3. named \subseteq DOMAIN d.groups \cup {h}
  OBVIOUS
<1> HIDE DEF named, u
<1>4. DOMAIN u.groups = named
  BY <1>1
<1>5. WellFormed(u)
  BY <1>1, <1>4 DEF WellFormed
<1>6. Explicit(u) = Explicit(d)
  BY <1>1 DEF Explicit
<1>7. LocalAccepted(u) /\ CountsAccepted(u) /\ OverridesAccepted(u) /\ WindowsAccepted(u)
  BY <1>1, <1>6 DEF Accepted, LocalAccepted, CountsAccepted, OverridesAccepted,
                   WindowsAccepted
<1>8. IsTree(u.tree) /\ TimeoutAccepted(u) /\ ActionsAccepted(u)
  BY <1>1, <1>6 DEF Accepted, TimeoutAccepted, ActionsAccepted
<1>9. GroupsAccepted(u)
  BY <1>1, <1>3, <1>4 DEF Accepted, GroupsAccepted, Explicit
<1> QED BY <1>2, <1>5, <1>7, <1>8, <1>9, PrunedIsAccepted

\* A maintenance window, an acknowledgement, new settings: each touches a section of
\* its own (update_maintenance, update_incident_action, update_collector_settings).
LEMMA RestIsAccepted ==
  ASSUME NEW d, WellFormed(d), Accepted(d)
  PROVE  /\ \A h \in Explicit(d) : \A on \in BOOLEAN : Accepted(Maintained(d, h, on))
         /\ \A h \in Explicit(d) : \A live \in SUBSET d.actions : \A k : \A on \in BOOLEAN :
              Accepted(Acted(d, live, h, k, on))
         /\ \A i, t : t > d.connect =>
              Accepted([d EXCEPT !.interval = i, !.timeout = t])
<1>1. ASSUME NEW h \in Explicit(d), NEW on \in BOOLEAN PROVE Accepted(Maintained(d, h, on))
  <2> DEFINE u == Maintained(d, h, on)
  <2>1. /\ u.hosts = d.hosts /\ u.excluded = d.excluded /\ u.auto = d.auto
        /\ u.local = d.local /\ u.counts = d.counts /\ u.overrides = d.overrides
        /\ u.windows \subseteq d.windows \cup {h} /\ u.groups = d.groups
        /\ u.hostScopes = d.hostScopes /\ u.groupScopes = d.groupScopes
        /\ u.actions = d.actions /\ u.tree = d.tree /\ u.timeout = d.timeout
        /\ u.connect = d.connect
    BY DEF Maintained, WellFormed, Sections
  <2> HIDE DEF u
  <2>2. Accepted(u)
    BY <2>1 DEF Accepted, LocalAccepted, CountsAccepted, OverridesAccepted,
            WindowsAccepted, TimeoutAccepted, GroupsAccepted, ScopesAccepted,
            ActionsAccepted, Explicit
  <2> QED BY <2>2 DEF u
<1>2. ASSUME NEW h \in Explicit(d), NEW live \in SUBSET d.actions, NEW k, NEW on \in BOOLEAN
      PROVE  Accepted(Acted(d, live, h, k, on))
  <2> DEFINE u == Acted(d, live, h, k, on)
  <2>1. /\ u.hosts = d.hosts /\ u.excluded = d.excluded /\ u.auto = d.auto
        /\ u.local = d.local /\ u.counts = d.counts /\ u.overrides = d.overrides
        /\ u.windows = d.windows /\ u.groups = d.groups
        /\ u.hostScopes = d.hostScopes /\ u.groupScopes = d.groupScopes
        /\ u.actions \subseteq d.actions \cup {<<h, k>>} /\ u.tree = d.tree
        /\ u.timeout = d.timeout /\ u.connect = d.connect
    BY DEF Acted, WellFormed, Sections
  <2> HIDE DEF u
  <2>2. Accepted(u)
    BY <2>1 DEF Accepted, LocalAccepted, CountsAccepted, OverridesAccepted,
            WindowsAccepted, TimeoutAccepted, GroupsAccepted, ScopesAccepted,
            ActionsAccepted, Explicit
  <2> QED BY <2>2 DEF u
<1>3. ASSUME NEW i, NEW t, t > d.connect
      PROVE  Accepted([d EXCEPT !.interval = i, !.timeout = t])
  <2> DEFINE u == [d EXCEPT !.interval = i, !.timeout = t]
  <2>1. /\ u.hosts = d.hosts /\ u.excluded = d.excluded /\ u.auto = d.auto
        /\ u.local = d.local /\ u.counts = d.counts /\ u.overrides = d.overrides
        /\ u.windows = d.windows /\ u.groups = d.groups
        /\ u.hostScopes = d.hostScopes /\ u.groupScopes = d.groupScopes
        /\ u.actions = d.actions /\ u.tree = d.tree /\ u.timeout = t
        /\ u.connect = d.connect
    BY DEF WellFormed, Sections
  <2> HIDE DEF u
  <2>2. Accepted(u)
    BY <1>3, <2>1 DEF Accepted, LocalAccepted, CountsAccepted, OverridesAccepted,
            WindowsAccepted, TimeoutAccepted, GroupsAccepted, ScopesAccepted,
            ActionsAccepted, Explicit
  <2> QED BY <2>2 DEF u
<1> QED BY <1>1, <1>2, <1>3

\* What a request of the controller makes of an accepted document that allows it.
LEMMA ChangeIsAccepted ==
  ASSUME NEW r \in Requests, NEW d, WellFormed(d), Accepted(d), Allowed(r, d),
         NEW e \in Changed(r, d, d)
  PROVE  Accepted(e)
<1>1. CASE r.op = "add"
  <2>1. r.host \notin d.excluded /\ e = Added([d EXCEPT !.hosts = d.hosts], r.host)
    BY <1>1 DEF Allowed, Eligible, Changed
  <2> QED BY <2>1, AddIsAccepted
<1>2. CASE r.op = "remove"
  <2>1. e = Removed(d, d, r.host)
    BY <1>2 DEF Changed
  <2> QED BY <2>1, RemoveIsAccepted
<1>3. CASE r.op = "group"
  <2>1. r.host \in Explicit(d) /\ e = Regrouped(d, r.host, r.group)
    BY <1>3 DEF Allowed, Changed
  <2> QED BY <2>1, RegroupIsAccepted
<1>4. CASE r.op = "window"
  <2>1. r.host \in Explicit(d) /\ e = Maintained(d, r.host, r.on)
    BY <1>4 DEF Allowed, Changed
  <2> QED BY <1>4, <2>1, RestIsAccepted, RequestsAssumption
<1>5. CASE r.op = "action"
  <2>1. r.host \in Explicit(d)
    BY <1>5 DEF Allowed
  <2>2. PICK live \in SUBSET d.actions : e = Acted(d, live, r.host, r.key, r.on)
    BY <1>5 DEF Changed
  <2> QED BY <1>5, <2>1, <2>2, RestIsAccepted, RequestsAssumption
<1>6. CASE r.op = "settings"
  <2>1. r.timeout > d.connect /\ e = [d EXCEPT !.interval = r.interval, !.timeout = r.timeout]
    BY <1>6 DEF Allowed, Changed
  <2> QED BY <2>1, RestIsAccepted
<1> QED BY <1>1, <1>2, <1>3, <1>4, <1>5, <1>6, RequestsAssumption

\* Whatever document is read after the configuration was loaded, a change leaves a
\* document (_commit takes what _read_object gave).
LEMMA ChangeIsWellFormed ==
  ASSUME NEW r \in Requests, NEW c, NEW d, WellFormed(d), NEW e \in Changed(r, c, d)
  PROVE  WellFormed(e)
<1>1. CASE r.op = "add"
  <2> DEFINE u == [[d EXCEPT !.hosts = c.hosts] EXCEPT !.hosts = @ \cup {r.host}]
  <2>1. WellFormed(u)
    BY DEF WellFormed, Sections
  <2>2. e = Pruned(u)
    BY <1>1 DEF Changed, Added
  <2> HIDE DEF u
  <2> QED BY <2>1, <2>2, PrunedFields
<1>2. CASE r.op = "remove"
  <2> DEFINE h == r.host
             u == [d EXCEPT !.hosts = c.hosts \ {h},
                            !.excluded = IF c.auto THEN @ \cup {h} ELSE @,
                            !.local = IF @ = h THEN NoAlias ELSE @,
                            !.counts = @ \ {h}, !.overrides = @ \ {h},
                            !.windows = @ \ {h}, !.groups = GroupsWithout(d, h),
                            !.actions = {a \in @ : a[1] # h},
                            !.tree = TreeWithout(@, h)]
  <2>1. /\ u = [s \in Sections |-> u[s]] /\ u.auto = d.auto
        /\ u.groups = GroupsWithout(d, h) /\ u.tree = TreeWithout(d.tree, h)
    BY DEF WellFormed, Sections
  <2>2. e = Pruned(u)
    BY <1>2 DEF Changed, Removed
  <2> HIDE DEF u, h
  <2>3. u.groups = [k \in DOMAIN u.groups |-> u.groups[k]]
    BY <2>1 DEF GroupsWithout, Restrict
  <2>4. u.tree = [root |-> u.tree.root, links |-> u.tree.links]
    BY <2>1 DEF TreeWithout, NoTree, WellFormed
  <2>5. WellFormed(u)
    BY <2>1, <2>3, <2>4 DEF WellFormed
  <2> QED BY <2>2, <2>5, PrunedFields
<1>3. CASE r.op = "group"
  <2> DEFINE h == r.host
             g == r.group
             named == (DOMAIN d.groups \ {h}) \cup (IF g = NoAlias THEN {} ELSE {h})
             u == [d EXCEPT !.groups = [k \in named |-> IF k = h THEN g ELSE @[k]]]
  <2>1. /\ u = [s \in Sections |-> u[s]] /\ u.auto = d.auto /\ u.tree = d.tree
        /\ u.groups = [k \in named |-> IF k = h THEN g ELSE d.groups[k]]
    BY DEF WellFormed, Sections
  <2>2. e = Pruned(u)
    BY <1>3 DEF Changed, Regrouped
  <2> HIDE DEF u, named, h, g
  <2>3. WellFormed(u)
    BY <2>1 DEF WellFormed
  <2> QED BY <2>2, <2>3, PrunedFields
<1>4. CASE r.op = "window"
  BY <1>4 DEF Changed, Maintained, WellFormed, Sections
<1>5. CASE r.op = "action"
  BY <1>5 DEF Changed, Acted, WellFormed, Sections
<1>6. CASE r.op = "settings"
  BY <1>6 DEF Changed, WellFormed, Sections
<1> QED BY <1>1, <1>2, <1>3, <1>4, <1>5, <1>6, RequestsAssumption

-------------------------------------------------------------------------------
(* What a handler has loaded is still accepted, and allows its request       *)

\* The checks that a request has passed when its handler reads the file again.
Checked(r, d) == WellFormed(d) /\ Accepted(d) /\ Allowed(r, d)

\* A handler under way is asked something that the controller knows; what it has
\* loaded has passed the checks; the file, and what it read of it, is a document.
DocumentInv ==
  /\ DOMAIN progress = Handlers /\ DOMAIN request = Handlers
  /\ DOMAIN loaded = Handlers /\ DOMAIN data = Handlers
  /\ WellFormed(file)
  /\ \A h \in Handlers :
       /\ progress[h] \in {"load", "read", "write"} => request[h] \in Requests
       /\ progress[h] \in {"read", "write"} => Checked(request[h], loaded[h])
       /\ progress[h] = "write" => WellFormed(data[h])

\* The file is one of the operator's documents at the start.
LEMMA DocumentInvInit == ConfigInit => DocumentInv
BY DocumentsAssumption DEF ConfigInit, Untouched, DocumentInv

\* A request that ends is none any more.
LEMMA LeaveForgets ==
  ASSUME NEW h \in Handlers, NEW answered, DocumentInv, Leave(h, answered), file' = file
  PROVE  DocumentInv'
BY DEF DocumentInv, Leave, Proceed

\* Every step keeps the invariant.
LEMMA DocumentInvNext == DocumentInv /\ [ConfigNext]_configVars => DocumentInv'
<1> SUFFICES ASSUME DocumentInv, [ConfigNext]_configVars PROVE DocumentInv'
  OBVIOUS
<1>1. ASSUME NEW d \in Documents, Edit(d) PROVE DocumentInv'
  BY <1>1, DocumentsAssumption DEF Edit, DocumentInv
<1>2. ASSUME NEW h \in Handlers, NEW r \in Requests, Enter(h, r) PROVE DocumentInv'
  BY <1>2 DEF Enter, Proceed, DocumentInv
<1>3. ASSUME NEW h \in Handlers, Load(h) PROVE DocumentInv'
  <2> DEFINE valid == Accepted(file) /\ Allowed(request[h], file)
  <2>1. CASE valid /\ ~Unneeded(request[h], file)
    <3>1. /\ progress[h] = "load" /\ Proceed(h, "read") /\ file' = file
          /\ loaded' = [loaded EXCEPT ![h] = file] /\ UNCHANGED <<request, data>>
      BY <1>3, <2>1 DEF Load
    <3>2. Checked(request[h], file)
      BY <2>1 DEF Checked, DocumentInv
    <3> QED BY <3>1, <3>2 DEF DocumentInv, Proceed
  <2>2. CASE ~(valid /\ ~Unneeded(request[h], file))
    <3>1. Leave(h, valid) /\ file' = file
      BY <1>3, <2>2 DEF Load
    <3> QED BY <3>1, LeaveForgets
  <2> QED BY <2>1, <2>2
<1>4. ASSUME NEW h \in Handlers, Read(h) PROVE DocumentInv'
  BY <1>4 DEF Read, Proceed, DocumentInv
<1>5. ASSUME NEW h \in Handlers, Replace(h) PROVE DocumentInv'
  <2>1. PICK d \in Changed(request[h], loaded[h], data[h]) :
          file' = d /\ data' = [data EXCEPT ![h] = d]
    BY <1>5 DEF Replace
  <2>2. WellFormed(d)
    BY <1>5, ChangeIsWellFormed DEF Replace, DocumentInv
  <2> QED BY <1>5, <2>1, <2>2 DEF Replace, Proceed, DocumentInv
<1>6. ASSUME NEW h \in Handlers, WriteFails(h) PROVE DocumentInv'
  BY <1>6, LeaveForgets DEF WriteFails
<1>7. ASSUME NEW h \in Handlers, ApplyFails(h) PROVE DocumentInv'
  BY <1>7, LeaveForgets DEF ApplyFails
<1>8. ASSUME NEW h \in Handlers, UpdateConfig(h) PROVE DocumentInv'
  BY <1>8, LeaveForgets DEF UpdateConfig
<1>9. ASSUME NEW h \in Handlers, Pace(h) PROVE DocumentInv'
  BY <1>9 DEF Pace, Proceed, DocumentInv
<1>10. CASE UNCHANGED configVars
  BY <1>10 DEF configVars, DocumentInv
<1> QED
  BY <1>1, <1>2, <1>3, <1>4, <1>5, <1>6, <1>7, <1>8, <1>9, <1>10 DEF ConfigNext

\* A change that the controller allows makes a document that the loader accepts,
\* unless the operator's editor came in between (ConfigInventory.change and the
\* updates beside it).
THEOREM EditsAreAccepted == ConfigSpec => []ChangesAccepted
<1>1. DocumentInv => ChangesAccepted
  BY ChangeIsAccepted DEF DocumentInv, Checked, ChangesAccepted
<1> QED BY <1>1, DocumentInvInit, DocumentInvNext, PTL DEF ConfigSpec

-------------------------------------------------------------------------------
(* The migration to another machine                                          *)

\* A node of a tree under a name that nothing else in it has leaves a tree
\* (_replace_topology_alias, with migrate_config's refusal before it).
LEMMA RenamedIsTree ==
  ASSUME NEW tree, NEW old, NEW new, IsTree(tree),
         new = old \/ (tree.root # new /\ new \notin Endpoints(tree.links))
  PROVE  IsTree(RenamedTree(tree, old, new))
<1> DEFINE name(n) == IF n = old THEN new ELSE n
           links == {<<name(l[1]), name(l[2])>> : l \in tree.links}
           nodes == {tree.root} \cup Endpoints(tree.links)
<1>1. RenamedTree(tree, old, new) = [root |-> name(tree.root), links |-> links]
  BY DEF RenamedTree
<1>2. \A m, n \in nodes : name(m) = name(n) => m = n
  OBVIOUS
<1>3. \A l \in links : \E k \in tree.links :
        /\ k[1] \in nodes /\ k[2] \in nodes
        /\ l = <<name(k[1]), name(k[2])>> /\ l[1] = name(k[1]) /\ l[2] = name(k[2])
  BY DEF Endpoints
<1>4. \A k \in tree.links : <<name(k[1]), name(k[2])>> \in links
  OBVIOUS
<1>5. tree.root \in nodes
  OBVIOUS
<1> HIDE DEF name, links, nodes
<1>6. \A l \in links : l[1] # l[2] /\ l[2] # name(tree.root)
  BY <1>2, <1>3, <1>5 DEF IsTree
<1>7. \A k, l \in links : k[2] = l[2] => k = l
  BY <1>2, <1>3 DEF IsTree
<1>8. Endpoints(links) \subseteq ReachedFrom(name(tree.root), links)
  <2> DEFINE R == ReachedFrom(name(tree.root), links)
             S == {n \in nodes : name(n) \in R}
  <2>1. tree.root \in S
    BY <1>5, ReachIsClosed
  <2>2. ASSUME NEW k \in tree.links, k[1] \in S PROVE k[2] \in S
    <3>1. <<name(k[1]), name(k[2])>> \in links /\ name(k[1]) \in R
      BY <1>4, <2>2
    <3>2. name(k[2]) \in R
      BY <3>1, ReachIsClosed
    <3>3. k[2] \in nodes
      BY DEF nodes, Endpoints
    <3> QED BY <3>2, <3>3
  <2>3. Endpoints(tree.links) \subseteq S
    <3> HIDE DEF S
    <3>1. ReachedFrom(tree.root, tree.links) \subseteq S
      BY <2>1, <2>2, ReachIsLeast
    <3> QED BY <3>1 DEF IsTree
  <2>4. \A k \in tree.links : name(k[1]) \in R /\ name(k[2]) \in R
    BY <2>3 DEF Endpoints
  <2> HIDE DEF R
  <2>5. Endpoints(links) \subseteq R
    BY <1>3, <2>4 DEF Endpoints
  <2> QED BY <2>5 DEF R
<1> QED BY <1>1, <1>6, <1>7, <1>8 DEF IsTree

\* The local alias of a document, and what a section of it may name: all that the
\* loader asks, but for the groups that have incident overrides.
Bound(u, new) ==
  /\ u = [s \in Sections |-> u[s]]
  /\ u.local = new /\ (new # NoAlias => new \in Explicit(u))
  /\ CountsAccepted(u) /\ OverridesAccepted(u) /\ WindowsAccepted(u)
  /\ u.hostScopes \subseteq Explicit(u) /\ ActionsAccepted(u)
  /\ GroupsAccepted(u) /\ IsTree(u.tree) /\ TimeoutAccepted(u)

\* The old local alias under the new name, or gone: the other sections lose it
\* (migrate_config).
LEMMA ReboundIsBound ==
  ASSUME NEW d, NEW new, WellFormed(d), Accepted(d), ~Refused(d, new),
         d.local # NoAlias
  PROVE  LET u == Rebound(d, new)
         IN /\ Bound(u, new)
            /\ DOMAIN u.groups \subseteq u.hosts <=> ~GroupUnlisted(d, new)
            /\ new # d.local => ~Mentions(u, d.local)
<1> DEFINE old == d.local
           u == Rebound(d, new)
           tree == IF new # NoAlias THEN RenamedTree(d.tree, old, new)
                   ELSE IF Named(d, old) THEN NoTree ELSE d.tree
<1>1. /\ u = [s \in Sections |-> u[s]] /\ u.hosts = Renamed(d.hosts, old, new)
      /\ u.local = new /\ u.counts = d.counts \ {old}
      /\ u.overrides = d.overrides \ {old} /\ u.windows = d.windows \ {old}
      /\ u.hostScopes = d.hostScopes \ {old}
      /\ u.actions = {a \in d.actions : a[1] # old}
      /\ u.groups = RenamedGroups(d, new) /\ u.tree = tree
      /\ u.excluded = d.excluded /\ u.auto = d.auto /\ u.timeout = d.timeout
      /\ u.connect = d.connect
  BY DEF Rebound, WellFormed, Sections
<1> HIDE DEF u, tree
<1>2. old \in Explicit(d)
  BY DEF Accepted, LocalAccepted
<1>3. new # NoAlias => new \in Explicit(u)
  BY <1>1, <1>2 DEF Renamed, Explicit, Refused
<1>4. Explicit(d) \ {old} \subseteq Explicit(u)
  BY <1>1 DEF Renamed, Explicit
<1>5. CountsAccepted(u) /\ OverridesAccepted(u) /\ WindowsAccepted(u) /\ ActionsAccepted(u)
  BY <1>1, <1>4 DEF Accepted, CountsAccepted, OverridesAccepted, WindowsAccepted,
                   ActionsAccepted
<1>6. u.hostScopes \subseteq Explicit(u) /\ TimeoutAccepted(u)
  BY <1>1, <1>4 DEF Accepted, ScopesAccepted, TimeoutAccepted
<1>7. /\ DOMAIN u.groups \subseteq (DOMAIN d.groups \ {old}) \cup
                                   (IF new # NoAlias THEN {new} ELSE {})
      /\ new # NoAlias \/ old \notin DOMAIN u.groups
  BY <1>1 DEF RenamedGroups, GroupsWithout, Restrict
<1>8. GroupsAccepted(u)
  <2>1. DOMAIN d.groups \cap d.excluded = {} /\ (d.auto \/ DOMAIN d.groups \subseteq d.hosts)
    BY DEF Accepted, GroupsAccepted
  <2>2. new # NoAlias => new \in u.hosts /\ new \notin d.excluded
    BY <1>1, <1>3 DEF Explicit
  <2>3. d.hosts \ {old} \subseteq u.hosts
    BY <1>1 DEF Renamed
  <2> QED BY <1>1, <1>7, <2>1, <2>2, <2>3 DEF GroupsAccepted
<1>9. IsTree(u.tree)
  <2>1. CASE new # NoAlias
    <3>1. new = old \/ (d.tree.root # new /\ new \notin Endpoints(d.tree.links))
      BY <2>1 DEF Refused, Named
    <3> QED BY <1>1, <2>1, <3>1, RenamedIsTree DEF Accepted, tree
  <2>2. CASE new = NoAlias
    BY <1>1, <2>2 DEF Accepted, tree, NoTree, IsTree, Endpoints
  <2> QED BY <2>1, <2>2
<1>10. ASSUME new # old PROVE ~Mentions(u, old)
  <2>1. old \notin u.hosts /\ old \notin DOMAIN u.groups
    BY <1>1, <1>7, <1>10 DEF Renamed
  <2>2. ~Named(u, old)
    <3>1. CASE new # NoAlias
      BY <1>1, <1>10, <3>1 DEF tree, RenamedTree, Named, Endpoints
    <3>2. CASE new = NoAlias
      BY <1>1, <3>2 DEF tree, NoTree, Named, Endpoints
    <3> QED BY <3>1, <3>2
  <2> QED BY <1>1, <1>10, <2>1, <2>2 DEF Mentions
<1>11. DOMAIN u.groups \subseteq u.hosts <=> ~GroupUnlisted(d, new)
  <2>1. /\ old \in d.hosts
        /\ u.hosts = (d.hosts \ {old}) \cup (IF new # NoAlias THEN {new} ELSE {})
    BY <1>1, <1>2 DEF Renamed, Explicit
  <2>2. DOMAIN d.groups \ {old} \subseteq DOMAIN u.groups
    BY <1>1 DEF RenamedGroups, GroupsWithout, Restrict
  <2> QED BY <1>7, <2>1, <2>2 DEF GroupUnlisted
<1> QED BY <1>1, <1>3, <1>5, <1>6, <1>8, <1>9, <1>10, <1>11 DEF Bound, u

\* A machine without a local alias gets one, or stays as it is (migrate_config).
LEMMA LocalIsBound ==
  ASSUME NEW d, NEW new, WellFormed(d), Accepted(d), ~Refused(d, new),
         d.local = NoAlias
  PROVE  LET u == IF new = NoAlias THEN d
                  ELSE [d EXCEPT !.hosts = @ \cup {new}, !.local = new]
         IN Bound(u, new) /\ (DOMAIN u.groups \subseteq u.hosts <=> ~GroupUnlisted(d, new))
<1>1. CASE new = NoAlias
  BY <1>1 DEF Bound, WellFormed, Accepted, ScopesAccepted, GroupUnlisted
<1>2. CASE new # NoAlias
  <2> DEFINE u == [d EXCEPT !.hosts = @ \cup {new}, !.local = new]
  <2>1. /\ u = [s \in Sections |-> u[s]] /\ u.hosts = d.hosts \cup {new}
        /\ u.excluded = d.excluded /\ u.auto = d.auto /\ u.local = new
        /\ u.counts = d.counts /\ u.overrides = d.overrides /\ u.windows = d.windows
        /\ u.groups = d.groups /\ u.hostScopes = d.hostScopes
        /\ u.actions = d.actions /\ u.tree = d.tree /\ u.timeout = d.timeout
        /\ u.connect = d.connect
    BY DEF WellFormed, Sections
  <2> HIDE DEF u
  <2>2. Explicit(d) \subseteq Explicit(u) /\ new \in Explicit(u)
    BY <1>2, <2>1 DEF Explicit, Refused
  <2>3. Bound(u, new)
    BY <2>1, <2>2 DEF Bound, Accepted, CountsAccepted, OverridesAccepted,
         WindowsAccepted, ScopesAccepted, ActionsAccepted, GroupsAccepted, TimeoutAccepted
  <2>4. DOMAIN u.groups \subseteq u.hosts <=> ~GroupUnlisted(d, new)
    BY <1>2, <2>1 DEF GroupUnlisted
  <2> QED BY <1>2, <2>3, <2>4 DEF u
<1> QED BY <1>1, <1>2

\* The rest of the migration: discovery is on or off as asked, the display name becomes
\* an override of the new alias, and the groups that nobody is in lose theirs
\* (migrate_config).
LEMMA BoundIsAccepted ==
  ASSUME NEW u, NEW new, Bound(u, new), NEW auto \in BOOLEAN, NEW named \in BOOLEAN,
         named => new # NoAlias
  PROVE  LET e == [u EXCEPT !.auto = auto,
                            !.overrides = IF named THEN @ \cup {new} ELSE @,
                            !.groupScopes = @ \cap Range(u.groups)]
         IN /\ Accepted(e) <=> (auto \/ DOMAIN u.groups \subseteq u.hosts)
            /\ \A h : h # new /\ Mentions(e, h) => Mentions(u, h)
<1> DEFINE e == [u EXCEPT !.auto = auto,
                          !.overrides = IF named THEN @ \cup {new} ELSE @,
                          !.groupScopes = @ \cap Range(u.groups)]
<1>1. /\ e.hosts = u.hosts /\ e.excluded = u.excluded /\ e.auto = auto
      /\ e.local = u.local /\ e.counts = u.counts
      /\ e.overrides = (IF named THEN u.overrides \cup {new} ELSE u.overrides)
      /\ e.windows = u.windows /\ e.groups = u.groups /\ e.hostScopes = u.hostScopes
      /\ e.groupScopes = u.groupScopes \cap Range(u.groups)
      /\ e.actions = u.actions /\ e.tree = u.tree /\ e.timeout = u.timeout
      /\ e.connect = u.connect
  BY DEF Bound, Sections
<1> HIDE DEF e
<1>2. Explicit(e) = Explicit(u)
  BY <1>1 DEF Explicit
<1>3. LocalAccepted(e) /\ OverridesAccepted(e)
  BY <1>1, <1>2 DEF Bound, LocalAccepted, OverridesAccepted
<1>4. CountsAccepted(e) /\ WindowsAccepted(e) /\ ActionsAccepted(e) /\ ScopesAccepted(e)
  BY <1>1, <1>2 DEF Bound, CountsAccepted, WindowsAccepted, ActionsAccepted,
                   ScopesAccepted
<1>5. IsTree(e.tree) /\ TimeoutAccepted(e)
  BY <1>1 DEF Bound, TimeoutAccepted
<1>6. GroupsAccepted(e) <=> (auto \/ DOMAIN u.groups \subseteq u.hosts)
  BY <1>1 DEF Bound, GroupsAccepted
<1>7. \A h : h # new /\ Mentions(e, h) => Mentions(u, h)
  BY <1>1 DEF Mentions, Named
<1> QED BY <1>3, <1>4, <1>5, <1>6, <1>7 DEF Accepted, e

\* A migration of whatever the dashboard and the operator have made of the file, with any
\* options: unless the aliases are refused, the document that it writes is rid of the
\* old alias, and the loader accepts it if and only if discovery stays on or no group
\* depends on it (migrate_config, _write_private_target).
THEOREM MigrationsAreAccepted == ConfigSpec => []MigrationAccepted
<1>1. ASSUME DocumentInv PROVE MigrationAccepted
  <2> SUFFICES ASSUME Accepted(file), NEW new \in Scanned \cup {NoAlias},
                      NEW auto \in BOOLEAN, NEW named \in BOOLEAN,
                      ~Refused(file, new), named => new # NoAlias
               PROVE  LET e == Migrated(file, new, auto, named)
                      IN /\ Accepted(e) <=> (auto \/ ~GroupUnlisted(file, new))
                         /\ file.local \notin {NoAlias, new} => ~Mentions(e, file.local)
    BY DEF MigrationAccepted
  <2> DEFINE u == IF file.local # NoAlias THEN Rebound(file, new)
                  ELSE IF new = NoAlias THEN file
                  ELSE [file EXCEPT !.hosts = @ \cup {new}, !.local = new]
             e == Migrated(file, new, auto, named)
  <2>1. WellFormed(file)
    BY <1>1 DEF DocumentInv
  <2>2. Bound(u, new) /\ (DOMAIN u.groups \subseteq u.hosts <=> ~GroupUnlisted(file, new))
    <3>1. CASE file.local # NoAlias
      BY <2>1, <3>1, ReboundIsBound
    <3>2. CASE file.local = NoAlias
      BY <2>1, <3>2, LocalIsBound
    <3> QED BY <3>1, <3>2
  <2>3. file.local \notin {NoAlias, new} => ~Mentions(u, file.local)
    BY <2>1, ReboundIsBound
  <2>4. e = [u EXCEPT !.auto = auto,
                      !.overrides = IF named THEN @ \cup {new} ELSE @,
                      !.groupScopes = @ \cap Range(u.groups)]
    BY DEF Migrated
  <2> HIDE DEF u, e
  <2>5. /\ Accepted(e) <=> (auto \/ DOMAIN u.groups \subseteq u.hosts)
        /\ \A h : h # new /\ Mentions(e, h) => Mentions(u, h)
    <3>1. Bound(u, new)
      BY <2>2
    <3> QED BY <2>4, <3>1, BoundIsAccepted
  <2>6. file.local \notin {NoAlias, new} => ~Mentions(e, file.local)
    BY <2>3, <2>5
  <2> QED BY <2>2, <2>5, <2>6 DEF e
<1> QED BY <1>1, DocumentInvInit, DocumentInvNext, PTL DEF ConfigSpec

-------------------------------------------------------------------------------
(* Results of steps *)

\* Induction over the natural numbers, for a set of them: one that holds m and not m + 1
\* would map one to one into itself without 0.
LEMMA NatSet ==
  ASSUME NEW S \in SUBSET Nat, 0 \in S, \A n \in S : n + 1 \in S
  PROVE  S = Nat
<1> SUFFICES ASSUME NEW m \in Nat, m \notin S PROVE FALSE
  OBVIOUS
<1> DEFINE A == {k \in 0..m : k \in S}
           B == A \ {0}
           f == [k \in A |-> k + 1]
<1>1. IsFiniteSet(A) /\ 0 \in A
  <2>1. IsFiniteSet(0..m) /\ A \subseteq 0..m
    BY FS_Interval
  <2> HIDE DEF A
  <2>2. IsFiniteSet(A)
    BY <2>1, FS_Subset
  <2> QED BY <2>2 DEF A
<1>2. \A k \in A : k + 1 \in A /\ k + 1 # 0
  OBVIOUS
<1>3. f \in Injection(A, B)
  BY <1>2 DEF Injection, IsInjective
<1>4. IsFiniteSet(B) /\ Cardinality(B) = Cardinality(A) - 1
  <2> HIDE DEF A
  <2> QED BY <1>1, FS_RemoveElement
<1>5. Cardinality(A) \in Nat
  <2> HIDE DEF A
  <2> QED BY <1>1, FS_CardinalityType
<1>6. Cardinality(A) <= Cardinality(B)
  <2> HIDE DEF A, B, f
  <2> QED BY <1>3, <1>4, FS_Injection
<1> QED BY <1>4, <1>5, <1>6

\* the results of N steps, from a base on
Steps(f, N, X, base, step) ==
  /\ f \in [0..N -> X] /\ f[0] = base
  /\ \A n \in 1..N : f[n] = step[n][f[n - 1]]

\* Steps that do not leave a set have their results.
LEMMA StepsExist ==
  ASSUME NEW N \in Nat, NEW X, NEW base \in X, NEW step,
         \A n \in 1..N : \A x \in X : step[n][x] \in X
  PROVE  \E f : Steps(f, N, X, base, step)
<1> DEFINE Upto(n, f) == f[0] = base /\ \A i \in 1..n : f[i] = step[i][f[i - 1]]
           S == {n \in Nat : n <= N => \E f \in [0..n -> X] : Upto(n, f)}
<1>1. 0 \in S
  <2> DEFINE f == [i \in 0..0 |-> base]
  <2>1. f \in [0..0 -> X] /\ Upto(0, f)
    OBVIOUS
  <2> QED BY <2>1
<1>2. ASSUME NEW n \in S PROVE n + 1 \in S
  <2> SUFFICES ASSUME n + 1 <= N PROVE \E f \in [0..(n + 1) -> X] : Upto(n + 1, f)
    OBVIOUS
  <2>1. PICK f \in [0..n -> X] : Upto(n, f)
    OBVIOUS
  <2> DEFINE last == step[n + 1][f[n]]
             g == [i \in 0..(n + 1) |-> IF i = n + 1 THEN last ELSE f[i]]
  <2>2. last \in X
    <3>1. n + 1 \in 1..N /\ n \in 0..n
      OBVIOUS
    <3>2. f[n] \in X
      BY <3>1
    <3> QED BY <3>1, <3>2
  <2> HIDE DEF last
  <2>3. g \in [0..(n + 1) -> X]
    BY <2>2
  <2>4. \A i \in 0..n : g[i] = f[i]
    OBVIOUS
  <2>5. g[n + 1] = last
    OBVIOUS
  <2> HIDE DEF g
  <2>6. ASSUME NEW i \in 1..(n + 1) PROVE g[i] = step[i][g[i - 1]]
    <3>1. i - 1 \in 0..n
      OBVIOUS
    <3>2. g[i - 1] = f[i - 1]
      BY <2>4, <3>1
    <3>3. CASE i = n + 1
      BY <2>5, <3>2, <3>3 DEF last
    <3>4. CASE i # n + 1
      <4>1. i \in 1..n /\ i \in 0..n
        BY <3>4
      <4> QED BY <2>1, <2>4, <3>2, <4>1
    <3> QED BY <3>3, <3>4
  <2>7. g[0] = base
    BY <2>1, <2>4
  <2> QED BY <2>3, <2>6, <2>7
<1>3. S = Nat
  <2>1. S \in SUBSET Nat
    OBVIOUS
  <2> HIDE DEF S
  <2> QED BY <1>1, <1>2, <2>1, NatSet
<1>4. N \in S
  <2> HIDE DEF S
  <2> QED BY <1>3
<1> QED BY <1>4 DEF Steps

\* What holds at the start and is kept by every step holds at the end.
LEMMA StepsKeep ==
  ASSUME NEW N \in Nat, NEW f, NEW good, f[0] \in good[0],
         \A n \in 1..N : f[n - 1] \in good[n - 1] => f[n] \in good[n]
  PROVE  \A n \in 0..N : f[n] \in good[n]
<1> DEFINE S == {n \in Nat : n <= N => f[n] \in good[n]}
<1>1. 0 \in S
  OBVIOUS
<1>2. ASSUME NEW n \in S PROVE n + 1 \in S
  <2> SUFFICES ASSUME n + 1 <= N PROVE f[n + 1] \in good[n + 1]
    OBVIOUS
  <2>1. n + 1 \in 1..N /\ (n + 1) - 1 = n /\ f[n] \in good[n]
    OBVIOUS
  <2> QED BY <2>1
<1>3. S = Nat
  <2>1. S \in SUBSET Nat
    OBVIOUS
  <2> HIDE DEF S
  <2> QED BY <1>1, <1>2, <2>1, NatSet
<1> QED BY <1>3

-------------------------------------------------------------------------------
(* The order of aliases *)

Lower(S, x) == {y \in S : y < x}

\* The elements of a finite set in their order are its elements.
LEMMA InOrderIsAll ==
  ASSUME NEW S \in SUBSET Int, IsFiniteSet(S)
  PROVE  /\ Cardinality(S) \in Nat
         /\ InOrder(S) \in Seq(S) /\ Len(InOrder(S)) = Cardinality(S)
         /\ Range(InOrder(S)) = S
<1> DEFINE n == Cardinality(S)
           rank == [x \in S |-> Cardinality(Lower(S, x))]
<1>1. n \in Nat
  BY FS_CardinalityType
<1>2. ASSUME NEW x \in S
      PROVE  /\ IsFiniteSet(Lower(S, x)) /\ Cardinality(Lower(S, x)) \in Nat
             /\ Cardinality(Lower(S, x) \cup {x}) = Cardinality(Lower(S, x)) + 1
  <2>1. Lower(S, x) \in SUBSET S /\ x \notin Lower(S, x)
    BY DEF Lower
  <2>2. IsFiniteSet(Lower(S, x)) /\ Cardinality(Lower(S, x)) \in Nat
    BY <2>1, FS_Subset, FS_CardinalityType
  <2> QED BY <2>1, <2>2, FS_AddElement
<1>3. ASSUME NEW x \in S, NEW T \in SUBSET S, Lower(S, x) \cup {x} \subseteq T
      PROVE  Cardinality(Lower(S, x)) < Cardinality(T)
  <2>1. IsFiniteSet(T) /\ Cardinality(T) \in Nat
    BY FS_Subset, FS_CardinalityType
  <2>2. Cardinality(Lower(S, x) \cup {x}) <= Cardinality(T)
    BY <1>3, <2>1, FS_Subset
  <2> QED BY <1>2, <2>1, <2>2
<1>4. rank \in Injection(S, 0..(n - 1))
  <2>1. rank \in [S -> 0..(n - 1)]
    <3>1. ASSUME NEW x \in S PROVE rank[x] \in 0..(n - 1)
      <4>1. Lower(S, x) \cup {x} \subseteq S
        BY DEF Lower
      <4>2. Cardinality(Lower(S, x)) < n /\ Cardinality(Lower(S, x)) \in Nat
        BY <1>2, <1>3, <4>1
      <4> HIDE DEF n
      <4> QED BY <1>1, <4>2
    <3> HIDE DEF n
    <3> QED BY <3>1
  <2>2. ASSUME NEW x \in S, NEW y \in S, x < y PROVE rank[x] # rank[y]
    <3>1. \A z \in S : z < x => z < y
      BY <2>2
    <3>2. Lower(S, x) \cup {x} \subseteq Lower(S, y) /\ Lower(S, y) \in SUBSET S
      BY <2>2, <3>1 DEF Lower
    <3>3. Cardinality(Lower(S, x)) < Cardinality(Lower(S, y))
      BY <1>3, <3>2
    <3>4. rank[x] = Cardinality(Lower(S, x)) /\ rank[y] = Cardinality(Lower(S, y))
      OBVIOUS
    <3>5. Cardinality(Lower(S, x)) \in Nat /\ Cardinality(Lower(S, y)) \in Nat
      BY <1>2
    <3> QED BY ONLY <3>3, <3>4, <3>5
  <2>3. ASSUME NEW x \in S, NEW y \in S, rank[x] = rank[y] PROVE x = y
    <3>1. ~(x < y) /\ ~(y < x)
      BY <2>2, <2>3
    <3> QED BY <3>1
  <2> HIDE DEF rank
  <2> QED BY <2>1, <2>3 DEF Injection, IsInjective
<1>5. rank \in Surjection(S, 0..(n - 1))
  <2>1. IsFiniteSet(0..(n - 1)) /\ Cardinality(0..(n - 1)) = n
    <3> HIDE DEF n
    <3>1. 0 \in Int /\ n - 1 \in Int
      BY <1>1
    <3> QED BY <1>1, <3>1, FS_Interval
  <2> HIDE DEF rank
  <2> QED BY <1>4, <2>1, FS_Injection
<1>6. ASSUME NEW i \in 1..n
      PROVE  InOrder(S)[i] \in S /\ rank[InOrder(S)[i]] = i - 1
  <2>1. i - 1 \in 0..(n - 1)
    BY <1>1
  <2>2. \E x \in S : rank[x] = i - 1
    <3> HIDE DEF rank
    <3> QED BY <1>5, <2>1 DEF Surjection
  <2>3. InOrder(S)[i] = CHOOSE x \in S : Cardinality({y \in S : y < x}) = i - 1
    BY DEF InOrder
  <2> QED BY <2>2, <2>3 DEF Lower
<1>7. InOrder(S) = [i \in 1..n |-> InOrder(S)[i]]
  <2> DEFINE at(i) == CHOOSE x \in S : Cardinality({y \in S : y < x}) = i - 1
  <2>1. InOrder(S) = [i \in 1..n |-> at(i)]
    BY DEF InOrder
  <2> HIDE DEF at, n
  <2> QED BY <2>1
<1>8. InOrder(S) \in Seq(S) /\ Len(InOrder(S)) = n /\ DOMAIN InOrder(S) = 1..n
  <2> HIDE DEF n, rank
  <2> QED BY <1>1, <1>6, <1>7
<1>9. ASSUME NEW x \in S PROVE \E i \in 1..n : InOrder(S)[i] = x
  <2>1. rank[x] \in 0..(n - 1) /\ rank[x] + 1 \in 1..n
    <3> HIDE DEF rank, n
    <3> QED BY <1>1, <1>4 DEF Injection
  <2>2. rank[InOrder(S)[rank[x] + 1]] = rank[x] /\ InOrder(S)[rank[x] + 1] \in S
    <3> HIDE DEF rank
    <3> QED BY <1>6, <2>1
  <2>3. InOrder(S)[rank[x] + 1] = x
    <3> HIDE DEF rank
    <3> QED BY <1>4, <2>2 DEF Injection, IsInjective
  <2> QED BY <2>1, <2>3
<1> QED BY <1>1, <1>6, <1>8, <1>9 DEF Range

\* What is left of the elements is left of them, and none of those excepted.
LEMMA DistinctIsWithin ==
  ASSUME NEW s \in Seq(Int), NEW E
  PROVE  Distinct(s, E) \in Seq(Int \ E)
<1> DEFINE first == {i \in DOMAIN s : s[i] \notin E /\ \A j \in 1..(i - 1) : s[j] # s[i]}
           n == Cardinality(first)
<1>1. first \in SUBSET Int /\ IsFiniteSet(first)
  <2>1. IsFiniteSet(1..Len(s)) /\ DOMAIN s = 1..Len(s)
    BY FS_Interval
  <2>2. first \subseteq DOMAIN s
    OBVIOUS
  <2> HIDE DEF first
  <2> QED BY <2>1, <2>2, FS_Subset
<1>2. n \in Nat /\ \A i \in 1..n : InOrder(first)[i] \in first
  <2> HIDE DEF first
  <2>1. InOrder(first) \in Seq(first) /\ Len(InOrder(first)) = n /\ n \in Nat
    BY <1>1, InOrderIsAll
  <2> QED BY <2>1
<1>3. \A i \in 1..n : s[InOrder(first)[i]] \in Int \ E
  BY <1>2
<1>4. Distinct(s, E) = [i \in 1..n |-> s[InOrder(first)[i]]]
  BY DEF Distinct
<1> HIDE DEF first, n
<1> QED BY <1>2, <1>3, <1>4

-------------------------------------------------------------------------------
(* Chains of hops *)

Routed == DOMAIN routes \subseteq Known /\ routes \in [DOMAIN routes -> Seq(Int)]

\* some aliases with a chain each, which is without the root
Chained(root) == UNION {[D -> Seq(Int \ {root})] : D \in SUBSET Int}

\* one step of FirstHops, after the steps f
Further(f, cache, a, n) ==
  IF n = 0 THEN <<a>>
  ELSE LET met == f[n - 1]
           next == Head(routes[Last(met)])
       IN IF /\ next \in DOMAIN routes \ (DOMAIN cache \cup Range(met))
             /\ routes[next] # <<>>
          THEN Append(met, next) ELSE met

\* A walk begins with the alias, and stays among the resolved.
LEMMA WalkFromAlias ==
  ASSUME Routed, NEW cache, NEW a \in DOMAIN routes
  PROVE  /\ FirstHops(cache, a) \in Seq(DOMAIN routes)
         /\ Len(FirstHops(cache, a)) >= 1 /\ FirstHops(cache, a)[1] = a
<1> DEFINE N == Cardinality(DOMAIN routes)
           X == {s \in Seq(DOMAIN routes) : Len(s) >= 1 /\ s[1] = a}
           after(met) == LET next == Head(routes[Last(met)])
                         IN IF /\ next \in DOMAIN routes \ (DOMAIN cache \cup Range(met))
                               /\ routes[next] # <<>>
                            THEN Append(met, next) ELSE met
           step == [n \in 1..N |-> [met \in X |-> after(met)]]
<1>1. N \in Nat
  BY AliasesAssumption, FS_Subset, FS_CardinalityType DEF Routed
<1>2. <<a>> \in X
  OBVIOUS
<1>3. ASSUME NEW met \in X PROVE after(met) \in X
  <2>1. ASSUME NEW next \in DOMAIN routes PROVE Append(met, next) \in X
    <3>1. met \in Seq(DOMAIN routes) /\ Len(met) >= 1 /\ met[1] = a
      OBVIOUS
    <3> DEFINE longer == Append(met, next)
    <3>2. longer \in Seq(DOMAIN routes) /\ Len(longer) = Len(met) + 1 /\ longer[1] = met[1]
      BY <3>1
    <3> HIDE DEF longer
    <3>3. longer \in X
      BY <3>1, <3>2
    <3> QED BY <3>3 DEF longer
  <2>2. after(met) = met \/ \E next \in DOMAIN routes : after(met) = Append(met, next)
    <3> HIDE DEF X
    <3> QED OBVIOUS
  <2> HIDE DEF X, after
  <2> QED BY <2>1, <2>2
<1>4. \A n \in 1..N : \A met \in X : step[n][met] = after(met)
  <2> HIDE DEF X, after, N
  <2> QED OBVIOUS
<1>5. PICK f : Steps(f, N, X, <<a>>, step)
  <2> HIDE DEF step, X, N, after
  <2> QED BY <1>1, <1>2, <1>3, <1>4, StepsExist
<1>6. \A n \in 0..N : f[n] = Further(f, cache, a, n)
  <2>1. f[0] = Further(f, cache, a, 0)
    BY <1>5 DEF Further, Steps
  <2>2. ASSUME NEW n \in 1..N PROVE f[n] = Further(f, cache, a, n)
    <3>1. n - 1 \in 0..N /\ n # 0
      BY <1>1
    <3>2. f[n - 1] \in X /\ f[n] = step[n][f[n - 1]]
      <4> HIDE DEF X, N, step
      <4> QED BY <1>5, <3>1 DEF Steps
    <3>3. f[n] = after(f[n - 1])
      <4> HIDE DEF X, after, N, step
      <4> QED BY <1>4, <3>2
    <3> HIDE DEF X
    <3> QED BY <3>1, <3>3 DEF Further
  <2> HIDE DEF N, X
  <2> QED BY <1>1, <2>1, <2>2
<1>7. f = [n \in 0..N |-> Further(f, cache, a, n)]
  <2> HIDE DEF N, X, step
  <2> QED BY <1>5, <1>6 DEF Steps
<1> DEFINE W == CHOOSE w : w = [n \in 0..N |-> Further(w, cache, a, n)]
<1>8. W = [n \in 0..N |-> Further(W, cache, a, n)]
  <2> HIDE DEF N
  <2> QED BY <1>7
<1>9. FirstHops(cache, a) = W[N]
  BY DEF FirstHops, Further
<1>10. W[N] \in X
  <2> HIDE DEF W
  <2> DEFINE good == [n \in 0..N |-> X]
  <2>1. \A n \in 0..N : W[n] = Further(W, cache, a, n)
    <3> HIDE DEF N
    <3> QED BY <1>8
  <2>2. W[0] \in good[0]
    <3>1. 0 \in 0..N
      <4> HIDE DEF N
      <4> QED BY <1>1
    <3>2. W[0] = <<a>>
      BY <2>1, <3>1 DEF Further
    <3> HIDE DEF X, N
    <3> QED BY <1>2, <3>1, <3>2
  <2>3. ASSUME NEW n \in 1..N, W[n - 1] \in good[n - 1] PROVE W[n] \in good[n]
    <3>1. n \in 0..N /\ n - 1 \in 0..N /\ n # 0
      <4> HIDE DEF N
      <4> QED BY <1>1
    <3>2. W[n] = after(W[n - 1])
      <4> HIDE DEF X, N
      <4> QED BY <2>1, <3>1 DEF Further
    <3>3. W[n - 1] \in X
      <4> HIDE DEF X, N
      <4> QED BY <2>3, <3>1
    <3>4. after(W[n - 1]) \in X
      <4> HIDE DEF X, N, after
      <4> QED BY <1>3, <3>3
    <3> HIDE DEF X, N, after
    <3> QED BY <3>1, <3>2, <3>4
  <2>4. N \in 0..N
    <3> HIDE DEF N
    <3> QED BY <1>1
  <2>5. \A n \in 0..N : W[n] \in good[n]
    <3> HIDE DEF good, N
    <3> QED BY <1>1, <2>2, <2>3, StepsKeep
  <2> HIDE DEF X, N
  <2> QED BY <2>4, <2>5
<1> HIDE DEF W, N
<1> QED BY <1>9, <1>10

\* One more chain in the cache.
LEMMA ChainAdded ==
  ASSUME NEW root, NEW cache \in Chained(root), NEW a \in Int, NEW chain \in Seq(Int \ {root})
  PROVE  With(cache, a, chain) \in Chained(root) /\ a \in DOMAIN With(cache, a, chain)
<1> DEFINE D == DOMAIN cache \cup {a}
           Set == Seq(Int \ {root})
<1>1. D \in SUBSET Int /\ \A x \in DOMAIN cache : cache[x] \in Set
  BY DEF Chained
<1>2. chain \in Set
  OBVIOUS
<1> HIDE DEF Set
<1>3. With(cache, a, chain) \in [D -> Set]
  BY <1>1, <1>2 DEF With
<1> HIDE DEF D
<1> QED BY <1>1, <1>3 DEF Chained, Set, With, D

\* one step of Unwound, after the steps f
Deepest(f, cache, root, stack, before, n) ==
  IF n = 0 THEN [prefix |-> before, cache |-> cache]
  ELSE LET deeper == f[n - 1]
           a == stack[Len(stack) + 1 - n]
           chain == Distinct(deeper.prefix \o routes[a], {root, a})
       IN [prefix |-> chain, cache |-> With(deeper.cache, a, chain)]

\* Unwinding a walk leaves chains, one of them that of where the walk began.
LEMMA UnwoundIsChained ==
  ASSUME Routed, NEW root \in Int, NEW cache \in Chained(root),
         NEW stack \in Seq(DOMAIN routes), Len(stack) >= 1,
         NEW before \in Seq(Int \ {root})
  PROVE  /\ Unwound(cache, root, stack, before) \in Chained(root)
         /\ stack[1] \in DOMAIN Unwound(cache, root, stack, before)
<1> DEFINE N == Len(stack)
           Set == Seq(Int \ {root})
           X == [prefix : Set, cache : Chained(root)]
           base == [prefix |-> before, cache |-> cache]
           chain(deeper, n) == Distinct(deeper.prefix \o routes[stack[N + 1 - n]],
                                        {root, stack[N + 1 - n]})
           after(deeper, n) == [prefix |-> chain(deeper, n),
                                cache |-> With(deeper.cache, stack[N + 1 - n], chain(deeper, n))]
           step == [n \in 1..N |-> [deeper \in X |-> after(deeper, n)]]
<1>1. N \in Nat /\ N \in 1..N /\ base \in X
  OBVIOUS
<1>2. ASSUME NEW n \in 1..N, NEW deeper \in X
      PROVE  after(deeper, n) \in X /\ stack[N + 1 - n] \in DOMAIN after(deeper, n).cache
  <2> DEFINE a == stack[N + 1 - n]
  <2>1. N + 1 - n \in 1..N
    OBVIOUS
  <2>2. a \in DOMAIN routes /\ a \in Int /\ routes[a] \in Seq(Int)
    <3>1. a \in DOMAIN routes
      BY <2>1
    <3> HIDE DEF a
    <3> QED BY <3>1, AliasesAssumption DEF Routed
  <2> HIDE DEF a
  <2>3. deeper.prefix \in Set /\ deeper.cache \in Chained(root)
    <3> HIDE DEF Set
    <3> QED OBVIOUS
  <2>4. deeper.prefix \o routes[a] \in Seq(Int)
    BY <2>2, <2>3
  <2>5. chain(deeper, n) \in Seq(Int \ {root, a})
    <3>1. Distinct(deeper.prefix \o routes[a], {root, a}) \in Seq(Int \ {root, a})
      BY <2>4, DistinctIsWithin
    <3> QED BY <3>1 DEF a
  <2>6. chain(deeper, n) \in Set
    <3> HIDE DEF chain
    <3> QED BY <2>5
  <2>7. /\ With(deeper.cache, a, chain(deeper, n)) \in Chained(root)
        /\ a \in DOMAIN With(deeper.cache, a, chain(deeper, n))
    <3> HIDE DEF chain
    <3> QED BY <2>2, <2>3, <2>6, ChainAdded
  <2> HIDE DEF chain, Set
  <2> QED BY <2>6, <2>7 DEF a
<1>3. \A n \in 1..N : \A deeper \in X : step[n][deeper] = after(deeper, n)
  <2> HIDE DEF X, after, N
  <2> QED OBVIOUS
<1>4. PICK f : Steps(f, N, X, base, step)
  <2> HIDE DEF step, X, N, after, base
  <2> QED BY <1>1, <1>2, <1>3, StepsExist
<1>5. \A n \in 0..N : f[n] = Deepest(f, cache, root, stack, before, n)
  <2>1. f[0] = Deepest(f, cache, root, stack, before, 0)
    <3> HIDE DEF X, N, step
    <3> QED BY <1>4 DEF Deepest, Steps
  <2>2. ASSUME NEW n \in 1..N PROVE f[n] = Deepest(f, cache, root, stack, before, n)
    <3>1. n - 1 \in 0..N /\ n # 0
      BY <1>1
    <3>2. f[n - 1] \in X /\ f[n] = step[n][f[n - 1]]
      <4> HIDE DEF X, N, step, base
      <4> QED BY <1>4, <3>1 DEF Steps
    <3>3. f[n] = after(f[n - 1], n)
      <4> HIDE DEF X, after, N, step
      <4> QED BY <1>3, <3>2
    <3> HIDE DEF X
    <3> QED BY <3>1, <3>3 DEF Deepest
  <2> HIDE DEF N, X
  <2> QED BY <1>1, <2>1, <2>2
<1>6. f = [n \in 0..N |-> Deepest(f, cache, root, stack, before, n)]
  <2> HIDE DEF N, X, step, base
  <2> QED BY <1>4, <1>5 DEF Steps
<1> DEFINE W == CHOOSE w : w = [n \in 0..N |-> Deepest(w, cache, root, stack, before, n)]
<1>7. W = [n \in 0..N |-> Deepest(W, cache, root, stack, before, n)]
  <2> HIDE DEF N
  <2> QED BY <1>6
<1>8. Unwound(cache, root, stack, before) = W[N].cache
  BY DEF Unwound, Deepest
<1> HIDE DEF W
<1>9. W[0] = base /\ \A n \in 1..N : W[n] = after(W[n - 1], n)
  <2>1. \A n \in 0..N : W[n] = Deepest(W, cache, root, stack, before, n)
    <3> HIDE DEF N
    <3> QED BY <1>7
  <2>2. ASSUME NEW n \in 1..N PROVE n \in 0..N /\ n # 0
    <3> HIDE DEF N
    <3> QED BY <1>1
  <2>3. 0 \in 0..N
    <3> HIDE DEF N
    <3> QED BY <1>1
  <2> QED BY <2>1, <2>2, <2>3 DEF Deepest
<1>10. \A n \in 0..N : W[n] \in X
  <2> DEFINE good == [n \in 0..N |-> X]
  <2>1. \A n \in 0..N : good[n] = X
    OBVIOUS
  <2>2. \A n \in 1..N : n \in 0..N /\ n - 1 \in 0..N
    <3> HIDE DEF N
    <3> QED BY <1>1
  <2>3. 0 \in 0..N
    <3> HIDE DEF N
    <3> QED BY <1>1
  <2> HIDE DEF good, X, N, after, base
  <2>4. W[0] \in good[0]
    BY <1>1, <1>9, <2>1, <2>3
  <2>5. \A n \in 1..N : W[n - 1] \in good[n - 1] => W[n] \in good[n]
    BY <1>2, <1>9, <2>1, <2>2
  <2>6. \A n \in 0..N : W[n] \in good[n]
    BY <1>1, <2>4, <2>5, StepsKeep
  <2> QED BY <2>1, <2>6
<1>11. N \in 0..N /\ N - 1 \in 0..N
  <2> HIDE DEF N
  <2> QED BY <1>1
<1>12. W[N] \in X /\ W[N - 1] \in X /\ W[N] = after(W[N - 1], N)
  <2> HIDE DEF X, after, N
  <2> QED BY <1>1, <1>9, <1>10, <1>11
<1>13. W[N].cache \in Chained(root)
  <2> HIDE DEF Set, N
  <2> QED BY <1>12
<1>14. stack[N + 1 - N] \in DOMAIN W[N].cache
  <2> HIDE DEF X, after, N
  <2> QED BY <1>1, <1>2, <1>12
<1>15. N + 1 - N = 1
  <2> HIDE DEF N
  <2> QED BY <1>1
<1> HIDE DEF N
<1> QED BY <1>8, <1>13, <1>14, <1>15

\* The cache has a chain of the alias that was asked for.
LEMMA ChainsAreChained ==
  ASSUME Routed, NEW root \in Int, NEW cache \in Chained(root), NEW a \in Int
  PROVE  /\ Chains(cache, root, a) \in Chained(root)
         /\ a \in DOMAIN Chains(cache, root, a)
<1>1. CASE a \in DOMAIN cache
  BY <1>1 DEF Chains
<1>2. CASE a \notin DOMAIN cache /\ (a \notin DOMAIN routes \/ routes[a] = <<>>)
  <2>1. Chains(cache, root, a) = With(cache, a, <<>>)
    BY <1>2 DEF Chains
  <2>2. <<>> \in Seq(Int \ {root})
    OBVIOUS
  <2> QED BY <2>1, <2>2, ChainAdded
<1>3. CASE a \notin DOMAIN cache /\ a \in DOMAIN routes /\ routes[a] # <<>>
  <2> DEFINE stack == FirstHops(cache, a)
             last == Head(routes[Last(stack)])
             before == IF last \in DOMAIN cache THEN cache[last] ELSE <<>>
  <2>1. stack \in Seq(DOMAIN routes) /\ Len(stack) >= 1 /\ stack[1] = a
    BY <1>3, WalkFromAlias
  <2> HIDE DEF last
  <2>2. before \in Seq(Int \ {root})
    BY DEF Chained
  <2>3. Chains(cache, root, a) = Unwound(cache, root, stack, before)
    BY <1>3 DEF Chains, last
  <2> HIDE DEF stack, before
  <2>4. /\ Unwound(cache, root, stack, before) \in Chained(root)
        /\ stack[1] \in DOMAIN Unwound(cache, root, stack, before)
    BY <2>1, <2>2, UnwoundIsChained
  <2> QED BY <2>1, <2>3, <2>4
<1> QED BY <1>1, <1>2, <1>3

-------------------------------------------------------------------------------
(* The links of a path *)

Targets(links) == {l[2] : l \in links}

\* finite trees of numbers
Trees(root) ==
  {links \in SUBSET (Int \X Int) :
     IsFiniteSet(links) /\ IsTree([root |-> root, links |-> links])}

\* A tree with more links from nodes that it has is a tree, unless they lead back
\* to it.
LEMMA TreeGrows ==
  ASSUME NEW root, NEW links, IsTree([root |-> root, links |-> links]), NEW more,
         \A l \in more : /\ l[1] \in {root} \cup Targets(links)
                         /\ l[1] # l[2] /\ l[2] # root,
         \A k, l \in links \cup more : k[2] = l[2] => k = l
  PROVE  IsTree([root |-> root, links |-> links \cup more])
<1> DEFINE all == links \cup more
           R == ReachedFrom(root, all)
<1>1. root \in R /\ \A l \in all : l[1] \in R => l[2] \in R
  BY ReachIsClosed
<1>2. ReachedFrom(root, links) \subseteq R
  <2>1. \A l \in links : l[1] \in R => l[2] \in R
    BY <1>1
  <2> HIDE DEF R
  <2> QED BY <1>1, <2>1, ReachIsLeast
<1>3. /\ \A l \in links : l[1] # l[2] /\ l[2] # root
      /\ Endpoints(links) \subseteq ReachedFrom(root, links)
  BY DEF IsTree
<1> HIDE DEF R
<1>4. \A l \in more : l[1] \in R
  BY <1>1, <1>2, <1>3 DEF Targets, Endpoints
<1>5. \A l \in more : l[2] \in R
  BY <1>1, <1>4
<1>6. Endpoints(all) \subseteq R
  BY <1>2, <1>3, <1>4, <1>5 DEF Endpoints
<1>7. \A l \in all : l[1] # l[2] /\ l[2] # root
  BY <1>3
<1> QED BY <1>6, <1>7 DEF IsTree, R

\* One link keeps the tree, and what it leads to is in it then, by this link or by
\* another (project: the first parent counts).
LEMMA LinkedIsTree ==
  ASSUME NEW root, NEW links \in Trees(root), NEW l \in Int \X Int,
         l[1] \in {root} \cup Targets(links), l[2] # root
  PROVE  /\ Linked(links, l) \in Trees(root)
         /\ links \subseteq Linked(links, l)
         /\ l[2] \in Targets(Linked(links, l))
<1> DEFINE from == l[1]
           to == l[2]
<1>1. /\ links \in SUBSET (Int \X Int) /\ IsFiniteSet(links)
      /\ IsTree([root |-> root, links |-> links])
  BY DEF Trees
<1>2. l \in Int \X Int /\ l[1] = from /\ l[2] = to
  OBVIOUS
<1>3. CASE from = to
  <2>1. Linked(links, l) = links
    BY <1>2, <1>3 DEF Linked
  <2> QED BY <1>3, <2>1
<1>4. CASE Parents(links, to) \ {from} # {}
  <2>1. Linked(links, l) = links
    BY <1>2, <1>4 DEF Linked
  <2>2. to \in Targets(links)
    BY <1>4 DEF Parents, Targets
  <2> QED BY <2>1, <2>2
<1>5. CASE from # to /\ Parents(links, to) \ {from} = {}
  <2>1. Linked(links, l) = links \cup {l}
    BY <1>2, <1>5 DEF Linked
  <2>2. \A k \in links : k[2] = to => k = l
    <3> SUFFICES ASSUME NEW k \in links, k[2] = to PROVE k = l
      OBVIOUS
    <3>1. k[1] = from
      BY <1>5 DEF Parents
    <3>2. k \in Int \X Int
      BY <1>1
    <3> QED BY <3>1, <3>2
  <2>3. \A j, k \in links : j[2] = k[2] => j = k
    BY <1>1 DEF IsTree
  <2>4. \A j, k \in links \cup {l} : j[2] = k[2] => j = k
    BY <1>2, <2>2, <2>3
  <2>5. \A k \in {l} : k[1] \in {root} \cup Targets(links) /\ k[1] # k[2] /\ k[2] # root
    BY <1>2, <1>5
  <2>6. IsTree([root |-> root, links |-> links \cup {l}])
    BY <1>1, <2>4, <2>5, TreeGrows
  <2>7. IsFiniteSet(links \cup {l})
    BY <1>1, FS_AddElement
  <2>8. links \cup {l} \in SUBSET (Int \X Int)
    BY <1>1, <1>2
  <2>9. to \in Targets(links \cup {l})
    BY <1>2 DEF Targets
  <2> QED BY <2>1, <2>6, <2>7, <2>8, <2>9 DEF Trees
<1> QED BY <1>3, <1>4, <1>5

\* one step of LinkedAlong, after the steps f
Stepped(f, links, path, n) ==
  IF n = 0 THEN links ELSE Linked(f[n - 1], <<path[n], path[n + 1]>>)

\* A path from the root keeps the tree, and its end is in it then.
LEMMA LinkedAlongIsTree ==
  ASSUME NEW root, NEW links \in Trees(root), NEW path \in Seq(Int),
         Len(path) >= 2, path[1] = root, \A i \in 2..Len(path) : path[i] # root
  PROVE  /\ LinkedAlong(links, path) \in Trees(root)
         /\ links \subseteq LinkedAlong(links, path)
         /\ path[Len(path)] \in Targets(LinkedAlong(links, path))
<1> DEFINE N == Len(path) - 1
           X == SUBSET (Int \X Int)
           after(L, n) == Linked(L, <<path[n], path[n + 1]>>)
           step == [n \in 1..N |-> [L \in X |-> after(L, n)]]
<1>1. /\ N \in Nat /\ N >= 1 /\ N + 1 = Len(path)
      /\ \A n \in 1..N : n \in 1..Len(path) /\ n + 1 \in 2..Len(path) /\ n + 1 \in 1..Len(path)
      /\ \A n \in 1..N : n \in 0..N /\ n - 1 \in 0..N /\ n # 0
      /\ 0 \in 0..N /\ N \in 0..N
  OBVIOUS
<1>2. \A i \in 1..Len(path) : path[i] \in Int
  OBVIOUS
<1> HIDE DEF N
<1>3. ASSUME NEW n \in 1..N, NEW L \in X PROVE after(L, n) \in X
  <2>1. <<path[n], path[n + 1]>> \in Int \X Int
    BY <1>1, <1>2
  <2> QED BY <2>1 DEF Linked
<1>4. \A n \in 1..N : \A L \in X : step[n][L] = after(L, n)
  <2> HIDE DEF X, after
  <2> QED OBVIOUS
<1>5. links \in X
  BY DEF Trees
<1>6. PICK f : Steps(f, N, X, links, step)
  <2> HIDE DEF step, X, after
  <2> QED BY <1>1, <1>3, <1>4, <1>5, StepsExist
<1>7. \A n \in 0..N : f[n] = Stepped(f, links, path, n)
  <2>1. f[0] = Stepped(f, links, path, 0)
    <3> HIDE DEF X, step
    <3> QED BY <1>6 DEF Stepped, Steps
  <2>2. ASSUME NEW n \in 1..N PROVE f[n] = Stepped(f, links, path, n)
    <3>1. f[n - 1] \in X /\ f[n] = step[n][f[n - 1]]
      <4> HIDE DEF X, step
      <4> QED BY <1>6, <1>1 DEF Steps
    <3>2. f[n] = after(f[n - 1], n)
      <4> HIDE DEF X, after, step
      <4> QED BY <1>4, <3>1
    <3> HIDE DEF X
    <3> QED BY <1>1, <3>2 DEF Stepped
  <2> HIDE DEF X
  <2> QED BY <1>1, <2>1, <2>2
<1>8. f = [n \in 0..N |-> Stepped(f, links, path, n)]
  <2> HIDE DEF X, step
  <2> QED BY <1>6, <1>7 DEF Steps
<1> DEFINE W == CHOOSE w : w = [n \in 0..N |-> Stepped(w, links, path, n)]
<1>9. W = [n \in 0..N |-> Stepped(W, links, path, n)]
  BY <1>8
<1>10. LinkedAlong(links, path) = W[N]
  BY DEF LinkedAlong, Stepped, N
<1> HIDE DEF W
<1>11. W[0] = links /\ \A n \in 1..N : W[n] = after(W[n - 1], n)
  <2>1. \A n \in 0..N : W[n] = Stepped(W, links, path, n)
    BY <1>9
  <2> QED BY <2>1, <1>1 DEF Stepped
<1> DEFINE Good(n) == {L \in Trees(root) : /\ links \subseteq L
                                           /\ n # 0 => path[n + 1] \in Targets(L)}
           good == [n \in 0..N |-> Good(n)]
<1>12. \A n \in 0..N : good[n] = Good(n)
  OBVIOUS
<1>13. ASSUME NEW n \in 1..N, W[n - 1] \in Good(n - 1) PROVE W[n] \in Good(n)
  <2> DEFINE L == W[n - 1]
  <2>1. L \in Trees(root) /\ links \subseteq L /\ (n - 1 # 0 => path[(n - 1) + 1] \in Targets(L))
    BY <1>13
  <2>2. (n - 1) + 1 = n /\ (n - 1 = 0 => n = 1)
    OBVIOUS
  <2>3. path[n] \in {root} \cup Targets(L)
    BY <2>1, <2>2
  <2>4. path[n] \in Int /\ path[n + 1] \in Int /\ path[n + 1] # root
    BY <1>1, <1>2
  <2>5. W[n] = Linked(L, <<path[n], path[n + 1]>>)
    BY <1>11
  <2> HIDE DEF L
  <2> DEFINE l == <<path[n], path[n + 1]>>
             wider == Linked(L, l)
  <2>6. l \in Int \X Int /\ l[1] = path[n] /\ l[2] = path[n + 1]
    BY <2>4
  <2>7. W[n] = wider
    BY <2>5
  <2> HIDE DEF l
  <2>8. wider \in Trees(root) /\ L \subseteq wider /\ l[2] \in Targets(wider)
    <3>1. l \in Int \X Int /\ l[1] \in {root} \cup Targets(L) /\ l[2] # root
      BY <2>3, <2>4, <2>6
    <3> QED BY <2>1, <3>1, LinkedIsTree
  <2> HIDE DEF wider
  <2> QED BY <2>1, <2>6, <2>7, <2>8
<1>14. links \in Good(0)
  OBVIOUS
<1>15. \A n \in 0..N : W[n] \in good[n]
  <2> HIDE DEF Good, good, after
  <2>1. W[0] \in good[0]
    BY <1>1, <1>11, <1>12, <1>14
  <2>2. \A n \in 1..N : W[n - 1] \in good[n - 1] => W[n] \in good[n]
    BY <1>1, <1>12, <1>13
  <2> QED BY <1>1, <2>1, <2>2, StepsKeep
<1>16. W[N] \in Good(N) /\ N # 0
  <2> HIDE DEF Good, good, after
  <2>1. N \in 0..N /\ N # 0
    BY <1>1
  <2> QED BY ONLY <1>12, <1>15, <2>1
<1> QED BY <1>1, <1>10, <1>16

-------------------------------------------------------------------------------
(* The projection *)

\* one step of Projection, after the steps f
Drawing(f, order, root, n) ==
  IF n = 0 THEN [cache |-> <<>>, links |-> {}]
  ELSE LET earlier == f[n - 1]
           h == order[n]
           cache == Chains(earlier.cache, root, h)
       IN [cache |-> cache,
           links |-> LinkedAlong(earlier.links, <<root>> \o cache[h] \o <<h>>)]

\* Every host hangs in the tree that is drawn of them (project).
LEMMA ProjectionIsTree ==
  ASSUME Routed, NEW root \in Int, NEW hosts \in SUBSET Int, IsFiniteSet(hosts)
  PROVE  /\ Projection(root, hosts).links \in Trees(root)
         /\ hosts \ {root} \subseteq Targets(Projection(root, hosts).links)
<1> DEFINE order == InOrder(hosts \ {root})
           N == Len(order)
           X == [cache : Chained(root), links : Trees(root)]
           base == [cache |-> <<>>, links |-> {}]
           cacheAt(t, n) == Chains(t.cache, root, order[n])
           pathAt(t, n) == <<root>> \o cacheAt(t, n)[order[n]] \o <<order[n]>>
           after(t, n) == [cache |-> cacheAt(t, n),
                           links |-> LinkedAlong(t.links, pathAt(t, n))]
           step == [n \in 1..N |-> [t \in X |-> after(t, n)]]
<1>1. order \in Seq(hosts \ {root}) /\ Range(order) = hosts \ {root} /\ DOMAIN order = 1..N
  <2>1. hosts \ {root} \in SUBSET Int /\ IsFiniteSet(hosts \ {root})
    BY FS_Subset
  <2>2. InOrder(hosts \ {root}) \in Seq(hosts \ {root})
        /\ Range(InOrder(hosts \ {root})) = hosts \ {root}
    BY <2>1, InOrderIsAll
  <2>3. DOMAIN order = 1..Len(order)
    BY <2>2
  <2> QED BY <2>2, <2>3
<1> HIDE DEF order
<1>2. /\ N \in Nat
      /\ \A n \in 1..N : n \in 0..N /\ n - 1 \in 0..N /\ n # 0
      /\ 0 \in 0..N /\ N \in 0..N
      /\ \A n \in 1..N : order[n] \in hosts /\ order[n] # root /\ order[n] \in Int
  <2>1. N \in Nat /\ \A n \in 1..N : order[n] \in hosts \ {root}
    BY <1>1
  <2> HIDE DEF N
  <2>2. \A n \in 1..N : n \in 0..N /\ n - 1 \in 0..N /\ n # 0
    BY <2>1
  <2>3. \A n \in 1..N : order[n] \in hosts /\ order[n] # root /\ order[n] \in Int
    BY <2>1
  <2>4. 0 \in 0..N /\ N \in 0..N
    BY <2>1
  <2> QED BY <2>1, <2>2, <2>3, <2>4
<1> HIDE DEF N
<1>3. base \in X
  <2>1. <<>> \in Chained(root)
    <3>1. <<>> = [n \in {} |-> <<>>]
      OBVIOUS
    <3>2. [n \in {} |-> <<>>] \in [{} -> Seq(Int \ {root})]
      OBVIOUS
    <3> QED BY <3>1, <3>2 DEF Chained
  <2>2. {} \in Trees(root)
    <3>1. IsFiniteSet({})
      BY FS_EmptySet
    <3> QED BY <3>1 DEF Trees, IsTree, Endpoints
  <2> QED BY <2>1, <2>2
<1>4. ASSUME NEW n \in 1..N, NEW t \in X
      PROVE  /\ after(t, n) \in X /\ t.links \subseteq after(t, n).links
             /\ order[n] \in Targets(after(t, n).links)
  <2> DEFINE h == order[n]
             cache == cacheAt(t, n)
             path == pathAt(t, n)
  <2>1. h \in Int /\ h # root
    BY <1>2
  <2>2. t.cache \in Chained(root) /\ t.links \in Trees(root)
    OBVIOUS
  <2>3. cache \in Chained(root) /\ h \in DOMAIN cache
    <3> HIDE DEF h
    <3>1. Chains(t.cache, root, h) \in Chained(root) /\ h \in DOMAIN Chains(t.cache, root, h)
      BY <2>1, <2>2, ChainsAreChained
    <3> QED BY <3>1 DEF h
  <2> DEFINE chain == cache[h]
  <2>4. chain \in Seq(Int \ {root})
    <3> HIDE DEF cache, h
    <3> QED BY <2>3 DEF Chained
  <2>5. path = <<root>> \o chain \o <<h>>
    OBVIOUS
  <2> HIDE DEF path, chain, h
  <2>6. /\ path \in Seq(Int) /\ Len(path) = Len(chain) + 2 /\ Len(chain) \in Nat
        /\ path[1] = root /\ path[Len(path)] = h
        /\ \A i \in 2..Len(path) : path[i] # root
    <3>1. <<root>> \o chain \in Seq(Int) /\ Len(<<root>> \o chain) = Len(chain) + 1
          /\ Len(chain) \in Nat
      BY <2>4
    <3>2. /\ (<<root>> \o chain)[1] = root
          /\ \A i \in 2..(Len(chain) + 1) : (<<root>> \o chain)[i] = chain[i - 1]
      BY <2>4
    <3> DEFINE first == <<root>> \o chain
    <3> HIDE DEF first
    <3>3. /\ first \in Seq(Int) /\ Len(first) = Len(chain) + 1 /\ Len(chain) \in Nat
          /\ first[1] = root
          /\ \A i \in 2..(Len(chain) + 1) : first[i] = chain[i - 1]
      BY <3>1, <3>2 DEF first
    <3>4. path = first \o <<h>>
      BY <2>5 DEF first
    <3>5. /\ first \o <<h>> \in Seq(Int) /\ Len(first \o <<h>>) = Len(first) + 1
          /\ (first \o <<h>>)[Len(first) + 1] = h
          /\ \A i \in 1..Len(first) : (first \o <<h>>)[i] = first[i]
      BY <2>1, <3>3
    <3>6. \A i \in 2..(Len(chain) + 1) : chain[i - 1] # root
      <4>1. \A i \in 2..(Len(chain) + 1) : i - 1 \in 1..Len(chain)
        BY <3>1
      <4>2. \A i \in 1..Len(chain) : chain[i] # root
        BY <2>4
      <4> QED BY <4>1, <4>2
    <3>7. path[Len(path)] = h /\ Len(path) = Len(chain) + 2 /\ path \in Seq(Int)
      BY <3>3, <3>4, <3>5
    <3>8. path[1] = root
      BY <3>3, <3>4, <3>5
    <3>9. ASSUME NEW i \in 2..Len(path) PROVE path[i] # root
      <4>1. CASE i = Len(path)
        BY <2>1, <3>7, <4>1
      <4>2. CASE i # Len(path)
        <5>1. i \in 2..(Len(chain) + 1) /\ i \in 1..Len(first)
          BY <3>3, <3>7, <4>2
        <5> QED BY <3>3, <3>4, <3>5, <3>6, <5>1
      <4> QED BY <4>1, <4>2
    <3> QED BY <3>1, <3>7, <3>8, <3>9
  <2>7. Len(path) >= 2
    BY <2>6
  <2>8. /\ LinkedAlong(t.links, path) \in Trees(root)
        /\ t.links \subseteq LinkedAlong(t.links, path)
        /\ path[Len(path)] \in Targets(LinkedAlong(t.links, path))
    BY <2>2, <2>6, <2>7, LinkedAlongIsTree
  <2>9. after(t, n) = [cache |-> cache, links |-> LinkedAlong(t.links, path)]
    BY DEF path
  <2> HIDE DEF cache, after
  <2> QED BY <2>3, <2>6, <2>8, <2>9 DEF h
<1>5. \A n \in 1..N : \A t \in X : step[n][t] = after(t, n)
  <2> HIDE DEF X, after
  <2> QED OBVIOUS
<1>6. PICK f : Steps(f, N, X, base, step)
  <2> HIDE DEF step, X, after, base
  <2> QED BY <1>2, <1>3, <1>4, <1>5, StepsExist
<1>7. \A n \in 0..N : f[n] = Drawing(f, order, root, n)
  <2>1. f[0] = Drawing(f, order, root, 0)
    <3> HIDE DEF X, step
    <3> QED BY <1>6 DEF Drawing, Steps
  <2>2. ASSUME NEW n \in 1..N PROVE f[n] = Drawing(f, order, root, n)
    <3>1. f[n - 1] \in X /\ f[n] = step[n][f[n - 1]]
      <4> HIDE DEF X, step, base
      <4> QED BY <1>6, <1>2 DEF Steps
    <3>2. f[n] = after(f[n - 1], n)
      <4> HIDE DEF X, after, step
      <4> QED BY <1>5, <3>1
    <3> HIDE DEF X
    <3> QED BY <1>2, <3>2 DEF Drawing
  <2> HIDE DEF X
  <2> QED BY <1>2, <2>1, <2>2
<1>8. f = [n \in 0..N |-> Drawing(f, order, root, n)]
  <2> HIDE DEF X, step, base
  <2> QED BY <1>6, <1>7 DEF Steps
<1> DEFINE W == CHOOSE w : w = [n \in 0..N |-> Drawing(w, order, root, n)]
<1>9. W = [n \in 0..N |-> Drawing(W, order, root, n)]
  BY <1>8
<1>10. Projection(root, hosts) = W[N]
  BY DEF Projection, Drawing, order, N
<1> HIDE DEF W
<1>11. W[0] = base /\ \A n \in 1..N : W[n] = after(W[n - 1], n)
  <2>1. \A n \in 0..N : W[n] = Drawing(W, order, root, n)
    BY <1>9
  <2> QED BY <2>1, <1>2 DEF Drawing
<1> DEFINE Good(n) == {t \in X : \A i \in 1..n : order[i] \in Targets(t.links)}
           good == [n \in 0..N |-> Good(n)]
<1>12. \A n \in 0..N : good[n] = Good(n)
  OBVIOUS
<1>13. ASSUME NEW n \in 1..N, W[n - 1] \in Good(n - 1) PROVE W[n] \in Good(n)
  <2> DEFINE t == W[n - 1]
  <2>1. t \in X /\ \A i \in 1..(n - 1) : order[i] \in Targets(t.links)
    <3> HIDE DEF X
    <3> QED BY <1>13
  <2>2. W[n] = after(t, n)
    BY <1>11
  <2> HIDE DEF t, after, X
  <2>3. W[n] \in X /\ t.links \subseteq W[n].links /\ order[n] \in Targets(W[n].links)
    BY <1>4, <2>1, <2>2
  <2>4. \A i \in 1..n : i = n \/ i \in 1..(n - 1)
    OBVIOUS
  <2>5. \A i \in 1..n : order[i] \in Targets(W[n].links)
    BY <2>1, <2>3, <2>4 DEF Targets
  <2> QED BY <2>3, <2>5
<1>14. base \in Good(0)
  <2> HIDE DEF base, X
  <2> QED BY <1>3
<1>15. \A n \in 0..N : W[n] \in good[n]
  <2> HIDE DEF Good, good, after, base
  <2>1. W[0] \in good[0]
    BY <1>2, <1>11, <1>12, <1>14
  <2>2. \A n \in 1..N : W[n - 1] \in good[n - 1] => W[n] \in good[n]
    BY <1>2, <1>12, <1>13
  <2> QED BY <1>2, <2>1, <2>2, StepsKeep
<1>16. W[N] \in Good(N)
  <2> HIDE DEF Good, good, after
  <2>1. N \in 0..N
    BY <1>2
  <2> QED BY ONLY <1>12, <1>15, <2>1
<1>17. W[N].links \in Trees(root) /\ \A i \in 1..N : order[i] \in Targets(W[N].links)
  BY <1>16
<1>18. hosts \ {root} \subseteq Targets(W[N].links)
  BY <1>1, <1>17 DEF Range
<1> QED BY <1>10, <1>17, <1>18

-------------------------------------------------------------------------------
(* What is shown when there are too many links *)

\* A sequence of what is in a set is one of what is in a larger set.
LEMMA SequenceWithin ==
  ASSUME NEW S, NEW T, S \subseteq T, NEW s \in Seq(S)
  PROVE  s \in Seq(T)
OBVIOUS

\* one step of Retained, after the steps f
Taking(f, root, links, n) ==
  IF n = 0 THEN [queue |-> <<root>>, kept |-> {}]
  ELSE LET t == f[n - 1]
           room == MaxLinks - Cardinality(t.kept)
           below == {l \in links : l[1] = Head(t.queue)}
           drawn == {l \in below : Cardinality({k \in below : k[2] < l[2]}) < room}
       IN IF t.queue = <<>> \/ room <= 0 THEN t
          ELSE [queue |-> Tail(t.queue) \o InOrder({l[2] : l \in drawn}),
                kept |-> t.kept \cup drawn]

\* Part of a tree, taken from the root on, is a tree.
LEMMA RetainedIsTree ==
  ASSUME NEW root \in Int, NEW links \in Trees(root)
  PROVE  IsTree([root |-> root, links |-> Retained(root, links)])
<1> DEFINE N == Cardinality(links) + 1
           Nodes(kept) == {root} \cup Targets(kept)
           X == {t \in [queue : Seq(Int), kept : SUBSET links] :
                   /\ \A i \in DOMAIN t.queue : t.queue[i] \in Nodes(t.kept)
                   /\ IsTree([root |-> root, links |-> t.kept])}
           base == [queue |-> <<root>>, kept |-> {}]
           below(t) == {l \in links : l[1] = Head(t.queue)}
           drawn(t) == {l \in below(t) : Cardinality({k \in below(t) : k[2] < l[2]})
                                           < MaxLinks - Cardinality(t.kept)}
           after(t) == IF t.queue = <<>> \/ MaxLinks - Cardinality(t.kept) <= 0 THEN t
                       ELSE [queue |-> Tail(t.queue) \o InOrder({l[2] : l \in drawn(t)}),
                             kept |-> t.kept \cup drawn(t)]
           step == [n \in 1..N |-> [t \in X |-> after(t)]]
<1>1. /\ links \in SUBSET (Int \X Int) /\ IsFiniteSet(links)
      /\ \A l \in links : l[1] # l[2] /\ l[2] # root
      /\ \A k, l \in links : k[2] = l[2] => k = l
  BY DEF Trees, IsTree
<1>2. /\ N \in Nat
      /\ \A n \in 1..N : n \in 0..N /\ n - 1 \in 0..N /\ n # 0
      /\ 0 \in 0..N /\ N \in 0..N
  <2>1. Cardinality(links) \in Nat
    BY <1>1, FS_CardinalityType
  <2> QED BY <2>1
<1> HIDE DEF N
<1>3. base \in X
  <2>1. IsTree([root |-> root, links |-> {}])
    BY DEF IsTree, Endpoints
  <2> QED BY <2>1
<1>4. ASSUME NEW t \in X PROVE after(t) \in X
  <2>1. CASE t.queue = <<>> \/ MaxLinks - Cardinality(t.kept) <= 0
    <3> HIDE DEF X
    <3> QED BY <2>1
  <2>2. CASE ~(t.queue = <<>> \/ MaxLinks - Cardinality(t.kept) <= 0)
    <3> DEFINE more == drawn(t)
               new == {l[2] : l \in more}
               first == Head(t.queue)
    <3>1. more \subseteq links /\ \A l \in more : l[1] = first
      OBVIOUS
    <3>2. /\ t.queue \in Seq(Int) /\ t.queue # <<>> /\ t.kept \subseteq links
          /\ \A i \in DOMAIN t.queue : t.queue[i] \in Nodes(t.kept)
          /\ IsTree([root |-> root, links |-> t.kept])
      <4> HIDE DEF Nodes
      <4> QED BY <2>2
    <3>3. after(t) = [queue |-> Tail(t.queue) \o InOrder(new), kept |-> t.kept \cup more]
      BY <2>2
    <3> HIDE DEF more, after
    <3>4. first \in Nodes(t.kept)
      <4> HIDE DEF Nodes
      <4> QED BY <3>2
    <3>5. new \in SUBSET Int /\ IsFiniteSet(new)
      <4>1. IsFiniteSet(more)
        BY <1>1, <3>1, FS_Subset
      <4> DEFINE f == [l \in more |-> l[2]]
      <4>2. f \in Surjection(more, new)
        BY DEF Surjection
      <4>3. IsFiniteSet(new)
        <5> HIDE DEF f, new
        <5> QED BY <4>1, <4>2, FS_Surjection
      <4> QED BY <1>1, <3>1, <4>3
    <3>6. InOrder(new) \in Seq(new)
      <4> HIDE DEF new
      <4> QED BY <3>5, InOrderIsAll
    <3>7. IsTree([root |-> root, links |-> t.kept \cup more])
      <4>1. \A l \in more : l[1] \in Nodes(t.kept) /\ l[1] # l[2] /\ l[2] # root
        BY <1>1, <3>1, <3>4
      <4>2. \A k, l \in t.kept \cup more : k[2] = l[2] => k = l
        BY <1>1, <3>1, <3>2
      <4> HIDE DEF first
      <4> QED BY <3>2, <4>1, <4>2, TreeGrows
    <3>8. Nodes(t.kept) \subseteq Nodes(t.kept \cup more) /\ new \subseteq Nodes(t.kept \cup more)
      BY DEF Targets
    <3> HIDE DEF Nodes, first
    <3> DEFINE wider == Nodes(t.kept \cup more)
               longer == Tail(t.queue) \o InOrder(new)
    <3>9. Tail(t.queue) \in Seq(Nodes(t.kept)) /\ Tail(t.queue) \in Seq(Int)
      <4>1. t.queue \in Seq(Nodes(t.kept))
        BY <3>2
      <4> QED BY <3>2, <4>1
    <3>9a. new \subseteq wider /\ Nodes(t.kept) \subseteq wider
      BY <3>8
    <3>10. longer \in Seq(Int) /\ longer \in Seq(wider)
      <4> HIDE DEF new, wider
      <4>1. InOrder(new) \in Seq(Int) /\ InOrder(new) \in Seq(wider)
        BY <3>5, <3>6, <3>9a, SequenceWithin
      <4>2. Tail(t.queue) \in Seq(wider)
        BY <3>9, <3>9a, SequenceWithin
      <4> QED BY <3>9, <4>1, <4>2
    <3>11. \A i \in DOMAIN longer : longer[i] \in Nodes(t.kept \cup more)
      <4>1. \A i \in DOMAIN longer : longer[i] \in wider
        <5> HIDE DEF wider, longer
        <5> QED BY <3>10
      <4> QED BY <4>1
    <3>12. t.kept \cup more \in SUBSET links
      BY <3>1, <3>2
    <3> HIDE DEF longer, new
    <3>13. after(t) = [queue |-> longer, kept |-> t.kept \cup more]
      BY <3>3 DEF longer
    <3> DEFINE r == [queue |-> longer, kept |-> t.kept \cup more]
    <3>14. /\ r \in [queue : Seq(Int), kept : SUBSET links]
           /\ r.queue = longer /\ r.kept = t.kept \cup more
      BY <3>10, <3>12
    <3> HIDE DEF r
    <3>15. r \in X
      BY <3>7, <3>11, <3>14
    <3> HIDE DEF X
    <3> QED BY <3>13, <3>15 DEF r
  <2> QED BY <2>1, <2>2
<1>5. \A n \in 1..N : \A t \in X : step[n][t] = after(t)
  <2> HIDE DEF X, after
  <2> QED OBVIOUS
<1>6. PICK f : Steps(f, N, X, base, step)
  <2> HIDE DEF step, X, after, base
  <2> QED BY <1>2, <1>3, <1>4, <1>5, StepsExist
<1>7. \A n \in 0..N : f[n] = Taking(f, root, links, n)
  <2>1. f[0] = Taking(f, root, links, 0)
    <3> HIDE DEF X, step
    <3> QED BY <1>6 DEF Taking, Steps
  <2>2. ASSUME NEW n \in 1..N PROVE f[n] = Taking(f, root, links, n)
    <3>1. f[n - 1] \in X /\ f[n] = step[n][f[n - 1]]
      <4> HIDE DEF X, step, base
      <4> QED BY <1>6, <1>2 DEF Steps
    <3>2. f[n] = after(f[n - 1])
      <4> HIDE DEF X, after, step
      <4> QED BY <1>5, <3>1
    <3> HIDE DEF X
    <3> QED BY <1>2, <3>2 DEF Taking
  <2> HIDE DEF X
  <2> QED BY <1>2, <2>1, <2>2
<1>8. f = [n \in 0..N |-> Taking(f, root, links, n)]
  <2> HIDE DEF X, step, base
  <2> QED BY <1>6, <1>7 DEF Steps
<1> DEFINE W == CHOOSE w : w = [n \in 0..N |-> Taking(w, root, links, n)]
<1>9. W = [n \in 0..N |-> Taking(W, root, links, n)]
  BY <1>8
<1>10. Retained(root, links) = W[N].kept
  BY DEF Retained, Taking, N
<1> HIDE DEF W
<1>11. W[0] = base /\ \A n \in 1..N : W[n] = after(W[n - 1])
  <2>1. \A n \in 0..N : W[n] = Taking(W, root, links, n)
    BY <1>9
  <2> QED BY <2>1, <1>2 DEF Taking
<1> DEFINE good == [n \in 0..N |-> X]
<1>12. \A n \in 0..N : good[n] = X
  OBVIOUS
<1>13. \A n \in 0..N : W[n] \in good[n]
  <2> HIDE DEF good, after, base, X
  <2>1. W[0] \in good[0]
    BY <1>2, <1>3, <1>11, <1>12
  <2>2. \A n \in 1..N : W[n - 1] \in good[n - 1] => W[n] \in good[n]
    BY <1>2, <1>4, <1>11, <1>12
  <2> QED BY <1>2, <2>1, <2>2, StepsKeep
<1>14. W[N] \in X
  <2> HIDE DEF good, after, base, X
  <2> QED BY <1>2, <1>12, <1>13
<1> QED BY <1>10, <1>14

-------------------------------------------------------------------------------
(* Discovery *)

Answered(a) == a \in DOMAIN routes \/ a \in failed

\* An alias that was asked has answered or failed, or is about to; one that is asked
\* again is not asked a third time, since it has answered or failed once.
AskingInv ==
  /\ asked \in [Known -> 0..2]
  /\ batch \subseteq Known /\ waiting \subseteq Known
  /\ stage = "idle" => batch = {} /\ waiting = {} /\ \A a \in Known : asked[a] = 0
  /\ \A a \in Known :
       /\ a \in waiting => asked[a] # 2
       /\ asked[a] = 2 => Answered(a)
       /\ asked[a] # 0 /\ a \notin batch => Answered(a)

TopologyInv ==
  /\ setup \in Setups /\ ways \in Ways
  /\ Routed /\ AskingInv /\ DrawnAsTree

\* What ssh says of an alias is a route of numbers.
LEMMA HopsAreNumbers ==
  ASSUME ways \in Ways, NEW a \in Known
  PROVE  HopsOf(a) \in Seq(Int)
<1>1. /\ ways[a].kind \in {"direct", "jump", "command"} /\ ways[a].hops \in Seq(Int)
      /\ ways[a].options \in Seq(Range(ways[a].options))
      /\ \A i \in DOMAIN ways[a].options : ways[a].options[i].hops \in Seq(Int)
  BY WaysAssumption
<1>2. a \in Int
  BY AliasesAssumption
<1>3. CASE ways[a].kind = "direct"
  BY <1>3 DEF HopsOf
<1>4. CASE ways[a].kind = "jump"
  <2> DEFINE hops == ways[a].hops
             named == [i \in 1..Len(hops) |->
                         IF hops[i] = Unknown THEN Synthetic(a, i - 1) ELSE hops[i]]
  <2>1. named \in Seq(Int)
    <3>1. hops \in Seq(Int)
      BY <1>1
    <3> HIDE DEF hops
    <3>2. \A i \in 1..Len(hops) : Synthetic(a, i - 1) \in Int
      BY <1>2, <3>1 DEF Synthetic
    <3> QED BY <3>1, <3>2
  <2>2. HopsOf(a) = Distinct(named, {a})
    BY <1>4 DEF HopsOf, JumpHops
  <2> HIDE DEF named
  <2>3. Distinct(named, {a}) \in Seq(Int \ {a})
    BY <2>1, DistinctIsWithin
  <2> QED BY <2>2, <2>3
<1>5. CASE ways[a].kind = "command"
  <2> DEFINE o == ProxyOptions(ways[a].options)
             named == Distinct(o.jumps \o ways[a].hops, {a, Unknown})
  <2>1. o.jumps \in Seq(Int)
    <3>1. ways[a].options = <<>> \/ 1 \in DOMAIN ways[a].options
      BY <1>1
    <3>2. o.jumps = IF ways[a].options = <<>> THEN <<>> ELSE ways[a].options[1].hops
      BY DEF ProxyOptions
    <3> HIDE DEF o
    <3> QED BY <1>1, <3>1, <3>2
  <2>2. named \in Seq(Int \ {a, Unknown})
    <3>1. o.jumps \o ways[a].hops \in Seq(Int)
      <4> HIDE DEF o
      <4> QED BY <1>1, <2>1
    <3> HIDE DEF o
    <3> QED BY <3>1, DistinctIsWithin
  <2>3. HopsOf(a) = named \/ HopsOf(a) = <<Synthetic(a, 0)>>
    BY <1>5 DEF HopsOf, CommandHops
  <2>4. <<Synthetic(a, 0)>> \in Seq(Int)
    BY <1>2 DEF Synthetic
  <2> HIDE DEF named
  <2>5. named \in Seq(Int)
    BY <2>2, SequenceWithin
  <2> QED BY <2>3, <2>4, <2>5
<1> QED BY <1>1, <1>3, <1>4, <1>5

\* Nothing is asked or drawn at the start.
LEMMA TopologyInvInit == TopologyInit => TopologyInv
<1> SUFFICES ASSUME TopologyInit PROVE TopologyInv
  OBVIOUS
<1>1. Routed
  <2>1. DOMAIN routes = {}
    BY DEF TopologyInit
  <2>2. routes = [a \in DOMAIN routes |-> routes[a]]
    BY DEF TopologyInit
  <2> QED BY <2>1, <2>2 DEF Routed
<1>2. AskingInv
  BY DEF TopologyInit, AskingInv
<1> QED BY <1>1, <1>2 DEF TopologyInit, TopologyInv, DrawnAsTree

\* What is published is a tree, with every host in it unless it was cut.
LEMMA PublishedIsTree ==
  ASSUME TopologyInv, PublishTopology
  PROVE  DrawnAsTree'
<1> DEFINE infrastructure == UNION {Range(routes[a]) : a \in DOMAIN routes}
           auto == IF setup.auto THEN EligibleAliases \ (infrastructure \cup failed) ELSE {}
           hosts == ExplicitHosts \cup auto
           drawn == Projection(Root, hosts)
<1>1. hosts \in SUBSET Int /\ IsFiniteSet(hosts) /\ Root \in Int
  <2>1. /\ setup.explicit \subseteq Nat /\ IsFiniteSet(setup.explicit) /\ setup.local \in Nat
        /\ Known \subseteq Nat /\ IsFiniteSet(Known)
    BY SetupsAssumption, AliasesAssumption DEF TopologyInv
  <2>2. hosts \subseteq setup.explicit \cup Known
    BY DEF ExplicitHosts, EligibleAliases
  <2>3. IsFiniteSet(setup.explicit \cup Known)
    BY <2>1, FS_Union
  <2> HIDE DEF hosts
  <2>4. IsFiniteSet(hosts)
    BY <2>2, <2>3, FS_Subset
  <2>5. Root \in Int
    BY <2>1 DEF Root, Nowhere
  <2>6. hosts \in SUBSET Int
    <3>1. \A h \in hosts : h \in Int
      <4>1. setup.explicit \subseteq Nat /\ Known \subseteq Nat
        BY <2>1
      <4>2. \A h \in setup.explicit \cup Known : h \in Nat
        BY <4>1
      <4> QED BY <2>2, <4>2
    <3> QED BY <3>1
  <2> QED BY <2>4, <2>5, <2>6
<1> HIDE DEF auto
<1>2. drawn.links \in Trees(Root) /\ hosts \ {Root} \subseteq Targets(drawn.links)
  <2> HIDE DEF hosts
  <2> QED BY <1>1, ProjectionIsTree DEF TopologyInv
<1>3. /\ chart'.hosts = hosts /\ chart'.links = Truncated(Root, drawn.links)
      /\ chart'.cut = (Cardinality(drawn.links) > MaxLinks)
      /\ Root' = Root
  BY DEF PublishTopology, Root, auto
<1> HIDE DEF hosts, drawn
<1>4. IsTree([root |-> Root, links |-> Truncated(Root, drawn.links)])
  <2>1. IsTree([root |-> Root, links |-> drawn.links])
    BY <1>2 DEF Trees
  <2>2. IsTree([root |-> Root, links |-> Retained(Root, drawn.links)])
    BY <1>1, <1>2, RetainedIsTree
  <2> QED BY <2>1, <2>2 DEF Truncated
<1>5. ~(Cardinality(drawn.links) > MaxLinks) => Truncated(Root, drawn.links) = drawn.links
  BY DEF Truncated
<1>6. chart'.cut \/ chart'.hosts \ {Root'} \subseteq Targets(chart'.links)
  BY <1>2, <1>3, <1>5
<1>7. IsTree([root |-> Root', links |-> chart'.links])
  BY <1>3, <1>4
<1> QED BY <1>6, <1>7 DEF DrawnAsTree, Targets

\* Every step keeps the invariant.
LEMMA TopologyInvNext == TopologyInv /\ [TopologyNext]_topologyVars => TopologyInv'
<1> SUFFICES ASSUME TopologyInv, [TopologyNext]_topologyVars PROVE TopologyInv'
  OBVIOUS
<1>1. CASE UNCHANGED topologyVars
  BY <1>1 DEF topologyVars, TopologyInv, Routed, AskingInv, Answered, DrawnAsTree, Root
<1>2. CASE Discover
  <2>1. AskingInv'
    BY <1>2 DEF Discover, TopologyInv, AskingInv, Answered
  <2> QED BY <1>2, <2>1 DEF Discover, TopologyInv, Routed, DrawnAsTree
<1>3. CASE NextBatch
  <2>1. AskingInv'
    BY <1>3 DEF NextBatch, TopologyInv, AskingInv, Answered
  <2> QED BY <1>3, <2>1 DEF NextBatch, TopologyInv, Routed, DrawnAsTree, Root
<1>4. ASSUME NEW a \in Known, RouteFound(a) PROVE TopologyInv'
  <2>1. HopsOf(a) \in Seq(Int)
    BY HopsAreNumbers DEF TopologyInv
  <2>2. routes' = With(routes, a, HopsOf(a)) /\ DOMAIN routes' = DOMAIN routes \cup {a}
    BY <1>4 DEF RouteFound, With
  <2>3. Routed'
    BY <2>1, <2>2 DEF TopologyInv, Routed, With
  <2>4. stage # "idle"
    BY <1>4 DEF RouteFound, TopologyInv, AskingInv
  <2>5. AskingInv'
    BY <1>4, <2>2 DEF RouteFound, TopologyInv, AskingInv, Answered, Unresolved
  <2> QED BY <1>4, <2>3, <2>5 DEF RouteFound, TopologyInv, DrawnAsTree, Root
<1>5. ASSUME NEW a \in Known, RouteFails(a) PROVE TopologyInv'
  <2>1. AskingInv'
    BY <1>5 DEF RouteFails, TopologyInv, AskingInv, Answered
  <2> QED BY <1>5, <2>1 DEF RouteFails, TopologyInv, Routed, DrawnAsTree, Root
<1>6. CASE PublishTopology
  <2>1. AskingInv'
    BY <1>6 DEF PublishTopology, TopologyInv, AskingInv, Answered
  <2>2. DrawnAsTree'
    BY <1>6, PublishedIsTree
  <2> QED BY <1>6, <2>1, <2>2 DEF PublishTopology, TopologyInv, Routed
<1> QED BY <1>1, <1>2, <1>3, <1>4, <1>5, <1>6 DEF TopologyNext

\* Discovery asks no alias more than twice, and what it shows is a tree that holds every
\* monitored host unless it was cut, for any SSH configuration, with cycles of proxies,
\* for any limit, and in whatever order the routes are found or fail.
THEOREM DiscoveryIsSound == TopologySpec => []DiscoverySound
<1>1. TopologyInv => DiscoverySound
  BY DEF TopologyInv, AskingInv, DiscoverySound, AskedTwiceAtMost
<1> QED BY <1>1, TopologyInvInit, TopologyInvNext, PTL DEF TopologySpec

===============================================================================
