---------------------------- MODULE ConfigInventory -----------------------------
(*****************************************************************************)
(* The configuration controller: requests of the dashboard, each a handler   *)
(* thread, change one file under a lock, validate the candidate, replace the *)
(* file and apply it to the running service before the lock is released.     *)
(* The operator edits the same file without the lock.                        *)
(*****************************************************************************)
EXTENDS ConfigDocument

CONSTANTS
  Handlers,      \* handler threads
  Scanned,       \* aliases in the SSH configuration
  CodeHosts,     \* those that name a code host
  Documents,     \* what the operator writes
  Requests,      \* what a handler may be asked: see Changed
  Faults,        \* which steps may fail, of "write" and "apply"
  MaxEdits       \* bound: edits of the operator

Nobody == 0
ASSUME HandlersAssumption == Nobody \notin Handlers
ASSUME DocumentsAssumption == \A d \in Documents : WellFormed(d)
ASSUME RequestsAssumption ==
  \A r \in Requests :
    /\ r.op \in {"add", "remove", "group", "window", "action", "settings"}
    /\ r.op \in {"window", "action"} => r.on \in BOOLEAN

VARIABLES
  file,          \* the document on disk
  running,       \* the interval in MonitorService._config, the rest of it follows
  cadence,       \* StateStore._poll_interval_seconds
  lockedBy,      \* who holds the mutation lock, or Nobody
  progress,      \* handler -> where it is
  request,       \* handler -> what it is asked
  loaded, data,  \* handler -> the configuration loaded, and the document read next
  edits,         \* edits of the operator
  since          \* handler -> the edits that there were when it loaded

configVars == <<file, running, cadence, lockedBy, progress, request, loaded,
                data, edits, since>>

NoRequest == [op |-> "none"]
NoDocument == [hosts |-> {}]

\* no request has come yet
Untouched ==
  /\ running = file.interval /\ cadence = running
  /\ lockedBy = Nobody /\ edits = 0
  /\ progress = [h \in Handlers |-> "idle"]
  /\ request = [h \in Handlers |-> NoRequest]
  /\ loaded = [h \in Handlers |-> NoDocument]
  /\ data = [h \in Handlers |-> NoDocument]
  /\ since = [h \in Handlers |-> 0]

\* the process comes up with a file that the loader accepts
ConfigInit == file \in Documents /\ Accepted(file) /\ Untouched

Proceed(h, step) == progress' = [progress EXCEPT ![h] = step]

\* the operator's editor replaces the file
Edit(d) ==
  /\ edits < MaxEdits /\ edits' = edits + 1 /\ file' = d /\ d # file
  /\ UNCHANGED <<running, cadence, lockedBy, progress, request, loaded, data, since>>

-------------------------------------------------------------------------------
(* What a request asks for *)

Eligible(d) == Scanned \ (d.excluded \cup CodeHosts)
\* the active inventory
ActiveHosts(d) ==
  (d.hosts \cup (IF d.auto THEN Scanned \ CodeHosts ELSE {})) \ d.excluded

\* the controller refuses what the configuration does not allow
Allowed(r, d) ==
  CASE r.op = "add" -> r.host \notin d.hosts /\ r.host \in Eligible(d)
    [] r.op = "remove" -> r.host \in ActiveHosts(d)
    [] r.op \in {"group", "window", "action"} -> r.host \in Explicit(d)
    [] r.op = "settings" -> r.timeout > d.connect

\* nothing to write: the answer is what is there
Unneeded(r, d) ==
  CASE r.op = "group" -> IF r.group = NoAlias THEN r.host \notin DOMAIN d.groups
                         ELSE r.host \in DOMAIN d.groups /\ d.groups[r.host] = r.group
    [] r.op = "window" -> ~r.on /\ r.host \notin d.windows
    [] r.op = "settings" -> d.interval = r.interval /\ d.timeout = r.timeout
    [] OTHER -> FALSE

\* the documents that a change may give: c was loaded, d was read
Changed(r, c, d) ==
  CASE r.op = "add" -> {Added([d EXCEPT !.hosts = c.hosts], r.host)}
    [] r.op = "remove" -> {Removed(d, c, r.host)}
    [] r.op = "group" -> {Regrouped(d, r.host, r.group)}
    [] r.op = "window" -> {Maintained(d, r.host, r.on)}
    [] r.op = "action" -> {Acted(d, live, r.host, r.key, r.on) : live \in SUBSET d.actions}
    [] r.op = "settings" -> {[d EXCEPT !.interval = r.interval, !.timeout = r.timeout]}

-------------------------------------------------------------------------------
(* One request *)

\* Broken: the threads of a process do not exclude each other.
MayEnterAlways == TRUE
MayEnter == lockedBy = Nobody

\* a request takes _mutation_lock, for threads and processes alike
Enter(h, r) ==
  /\ progress[h] = "idle" /\ MayEnter
  /\ lockedBy' = h /\ Proceed(h, "load")
  /\ request' = [request EXCEPT ![h] = r]
  /\ UNCHANGED <<file, running, cadence, loaded, data, edits, since>>

\* the end of a request, with the lock released; the settings handler passes on
\* what it was answered
Leave(h, answered) ==
  LET on == answered /\ request[h].op = "settings"
  IN /\ lockedBy' = Nobody
     /\ Proceed(h, IF on THEN "pace" ELSE "idle")
     /\ request' = [request EXCEPT ![h] = IF on THEN @ ELSE NoRequest]
     /\ loaded' = [loaded EXCEPT ![h] = NoDocument]
     /\ data' = [data EXCEPT ![h] = NoDocument]
     /\ since' = [since EXCEPT ![h] = 0]

\* _load, which refuses a file that the loader does, and the checks on it
Load(h) ==
  LET valid == Accepted(file) /\ Allowed(request[h], file)
  IN /\ progress[h] = "load"
     /\ IF valid /\ ~Unneeded(request[h], file)
        THEN /\ Proceed(h, "read")
             /\ loaded' = [loaded EXCEPT ![h] = file]
             /\ since' = [since EXCEPT ![h] = edits]
             /\ UNCHANGED <<lockedBy, request, data>>
        ELSE Leave(h, valid)
     /\ UNCHANGED <<file, running, cadence, edits>>

\* _read_object opens the file again
Read(h) ==
  /\ progress[h] = "read" /\ Proceed(h, "write")
  /\ data' = [data EXCEPT ![h] = file]
  /\ UNCHANGED <<file, running, cadence, lockedBy, request, loaded, edits, since>>

\* _atomic_replace up to os.replace: the candidate is validated as a whole
Replace(h) ==
  /\ progress[h] = "write"
  /\ \E d \in Changed(request[h], loaded[h], data[h]) :
       /\ Accepted(d)
       /\ file' = d /\ data' = [data EXCEPT ![h] = d]
  /\ Proceed(h, "apply")
  /\ UNCHANGED <<running, cadence, lockedBy, request, loaded, edits, since>>

\* an invalid candidate, an SSH configuration that cannot be scanned, a full disk
WriteFails(h) ==
  /\ "write" \in Faults /\ progress[h] = "write" /\ Leave(h, FALSE)
  /\ UNCHANGED <<file, running, cadence, edits>>

\* the directory cannot be synchronized, or update_config raises
ApplyFails(h) ==
  /\ "apply" \in Faults /\ progress[h] = "apply" /\ Leave(h, FALSE)
  /\ UNCHANGED <<file, running, cadence, edits>>

\* update_config, under the lock
UpdateConfig(h) ==
  /\ progress[h] = "apply" /\ Leave(h, TRUE)
  /\ running' = data[h].interval /\ cadence' = data[h].interval
  /\ UNCHANGED <<file, edits>>

\* the settings handler sets the interval that it was answered once more
Pace(h) ==
  /\ progress[h] = "pace" /\ Proceed(h, "idle")
  /\ cadence' = request[h].interval
  /\ request' = [request EXCEPT ![h] = NoRequest]
  /\ UNCHANGED <<file, running, lockedBy, loaded, data, edits, since>>

ConfigNext ==
  \/ \E d \in Documents : Edit(d)
  \/ \E h \in Handlers :
       \/ \E r \in Requests : Enter(h, r)
       \/ Load(h) \/ Read(h) \/ Replace(h) \/ WriteFails(h)
       \/ ApplyFails(h) \/ UpdateConfig(h) \/ Pace(h)

ConfigSpec == ConfigInit /\ [][ConfigNext]_configVars

-------------------------------------------------------------------------------
(* Properties *)

\* The dashboard never paints itself into a corner: whatever was added, removed,
\* regrouped or silenced before, a change that the controller allows makes a
\* document that the loader accepts, unless the operator's editor came in between
\* (ConfigInventory.change, _prune_incident_overrides, _remove_topology_host).
ChangesAccepted ==
  \A h \in Handlers : progress[h] = "write" /\ loaded[h] = data[h] =>
    \A d \in Changed(request[h], loaded[h], data[h]) : Accepted(d)

\* No change of another request is lost: what is written is the change applied to
\* what the file is at that moment, unless the operator's editor came in after it was
\* loaded ("Configuration writes are serialized server-side against the live JSON
\* file", docs/API.md).
NoChangeLost ==
  [][\A h \in Handlers : progress[h] = "write" /\ progress'[h] = "apply" =>
       edits # since[h] \/ file' \in Changed(request[h], file, file)]_configVars

\* Whatever is asked of a migration: once the aliases are not refused, the loader
\* refuses what was written for one reason only, that --no-auto-discover left a group
\* to an alias which is not listed; and nothing but an exclusion names the old alias
\* ("The old local alias is removed from machine-bound ...",
\* docs/adr/0023-non-destructive-host-migration.md; _write_private_target).
MigrationAccepted ==
  Accepted(file) =>
    \A new \in Scanned \cup {NoAlias} : ~Refused(file, new) =>
      \A auto, named \in BOOLEAN : (named => new # NoAlias) =>
        LET d == Migrated(file, new, auto, named)
        IN /\ Accepted(d) <=> (auto \/ ~GroupUnlisted(file, new))
           /\ file.local \notin {NoAlias, new} => ~Mentions(d, file.local)

\* The scheduler works at the configured interval whenever no request is under way
\* ("hot-applies one immutable MonitorConfig", docs/adr/0005).
CadenceConfigured ==
  (\A h \in Handlers : progress[h] = "idle") => cadence = running

===============================================================================
