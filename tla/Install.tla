------------------------------ MODULE Install ------------------------------
(***************************************************************************)
(* What an installed app is allowed to be: the manifest its owner has seen *)
(* and accepted, the ports it holds, the services it provides and the      *)
(* permissions it was granted, from the first clone over updates to the    *)
(* removal (web/routes/api/apps.py, core/apps.py, core/ports.py,           *)
(* core/service_interface, core/auth/permissions_v2.py).                   *)
(*                                                                         *)
(* AppLifecycle has the statuses of an app, its launches and its container; *)
(* here what matters is which version of the source each of them is of, in *)
(* the checkout, in the image and in the container.                        *)
(***************************************************************************)
EXTENDS Naturals, FiniteSets, Sequences

CONSTANTS
  Apps,       \* each with a repository of its own, installed at most once
  NoApp,
  Tasks,      \* route handlers and the threads they start
  Services, Perms,
  Ports,      \* the port range
  Floor,      \* UNPRIVILEGED_PORT_FLOOR
  Manifest,   \* Manifest[a][v]: the manifest's text in version v of a's repository
  Faults,     \* "archive", "pull", "submodules", "rollback", "build", "run", "rmi", "crash"
  MaxEvents   \* how many requests and faults there are, all in all

Versions(a) == DOMAIN Manifest[a]

ASSUME InstallAssumption ==
  /\ NoApp \notin Apps /\ IsFiniteSet(Apps)
  /\ Ports \subseteq Nat \ {0}
  /\ MaxEvents \in Nat
  /\ Floor \in Nat
  /\ \A a \in Apps : 0 \notin Versions(a)
  /\ \A a \in Apps : \A v \in Versions(a) :
       LET m == Manifest[a][v] IN
         /\ m.provides \subseteq Services
         /\ \A i \in DOMAIN m.consumes : m.consumes[i].grants \subseteq Perms
         /\ \A i \in DOMAIN m.ports : m.ports[i].host \in Nat

VARIABLES
  tree,       \* the version checked out on the disk, or 0
  image,      \* the version the app's image was built from, or 0
  container,  \* the versions of code and manifest that run, or zeros
  row,        \* the row of `apps`
  maps,       \* the rows of app_port_mappings
  providers,  \* the rows of service_providers_v2
  chosen,     \* the rows of service_defaults
  grants,     \* the rows of permissions_v2, of global scope
  task,       \* what each handler or thread is at
  accepted,   \* the versions whose manifest the owner has accepted (history)
  agreed,     \* the permissions the owner has ever agreed to, used or not (history)
  unseen,     \* the versions installed that no page has shown to the owner (history)
  revoked,    \* what the owner took away from an app that declares it (history)
  strayed,    \* apps whose checkout a failed or cut-off update left unreviewed (history)
  cut,        \* apps whose update or rebuild a restart cut off halfway (history)
  events

tableVars == <<row, maps, providers, chosen, grants>>
diskVars  == <<tree, image, container>>
ghostVars == <<accepted, agreed, unseen, revoked, strayed, cut>>
vars      == <<diskVars, tableVars, task, ghostVars, events>>

-----------------------------------------------------------------------------
Number   == {0} \cup UNION {Versions(a) : a \in Apps}
Labels   == UNION {UNION {{Manifest[a][v].ports[i].label : i \in DOMAIN Manifest[a][v].ports} : v \in Versions(a)}
                   : a \in Apps}
Statuses == {"none", "building", "starting", "running", "error", "removing", "gone"}
Pcs      == {"idle", "review", "ports", "insert", "grant", "pull", "gate", "rollback", "claim", "sync", "start",
             "build", "run", "launch", "remove"}
Mapping  == [app : Apps, label : Labels, port : Ports]

InstallTypeOK ==
  /\ tree \in [Apps -> Number] /\ image \in [Apps -> Number]
  /\ container \in [Apps -> [code : Number, manifest : Number]]
  /\ row \in [Apps -> [status : Statuses, deployed : Number, born : Nat, port : Nat]]
  /\ maps \subseteq Mapping /\ providers \subseteq Services \X Apps
  /\ chosen \in [Services -> Apps \cup {NoApp}] /\ grants \subseteq Apps \X Perms
  /\ task \in [Tasks -> [app : Apps \cup {NoApp}, pc : Pcs, was : Number, sha : Number, approve : BOOLEAN,
                         todo : SUBSET Perms, port : Nat, plan : SUBSET Mapping]]
  /\ accepted \in [Apps -> SUBSET Number] /\ agreed \in [Apps -> SUBSET Perms]
  /\ unseen \in [Apps -> SUBSET Number]
  /\ revoked \subseteq Apps \X Perms /\ strayed \subseteq Apps /\ cut \subseteq Apps
  /\ events \in 0..MaxEvents

-----------------------------------------------------------------------------
(* Helpers *)

Nowhere  == [code |-> 0, manifest |-> 0]
NoRow    == [status |-> "none", deployed |-> 0, born |-> 0, port |-> 0]
Launching == {"building", "starting"}
Busy     == Launching \cup {"removing"}
Exists(a) == row[a].status \notin {"none", "gone"}

\* A request at app a: what it read (was, sha), what it was sent (approve), what
\* it has still to grant, and the ports it has chosen.
Work(a, pc) == [app |-> a, pc |-> pc, was |-> 0, sha |-> 0, approve |-> FALSE,
                todo |-> {}, port |-> 0, plan |-> {}]
Idle == Work(NoApp, "idle")

At(t, pc)  == task[t] # Idle /\ task[t].pc = pc
OnApp(t, a) == task[t] # Idle /\ task[t].app = a

Unworked(a) == \A t \in Tasks : ~OnApp(t, a)

\* The owner waits for one request about an app before sending the next
\* (AppLifecycle has those that do not wait), and boot recovery, which has every
\* app that is still being launched, comes before any request.
Admit(a) == Unworked(a) /\ row[a].status \notin Launching

\* insert_and_deploy runs on the event loop from its first read to its last grant.
LoopFree == \A t \in Tasks : ~At(t, "insert") /\ ~At(t, "grant")

Event    == events < MaxEvents /\ events' = events + 1
Fault(f) == f \in Faults /\ Event
Ok       == UNCHANGED events

Enter(t, w) == task' = [task EXCEPT ![t] = w]
Goto(t, pc) == task' = [task EXCEPT ![t].pc = pc]
Leave(t)    == task' = [task EXCEPT ![t] = Idle]
SetStatus(a, s) == row' = [row EXCEPT ![a].status = s]

\* The least number in a set of numbers.
Least(S) == CHOOSE x \in S : \A y \in S : x <= y

-----------------------------------------------------------------------------
(* The manifest: parse_manifest raises a ValueError, or returns these fields *)

Distinct(q, field(_)) == \A i, j \in DOMAIN q : field(q[i]) = field(q[j]) => i = j

\* _parse_ports.  0 asks for any host port.
PortsParse(q) ==
  /\ Distinct(q, LAMBDA e : e.label) /\ Distinct(q, LAMBDA e : e.container)
  /\ Distinct(SelectSeq(q, LAMBDA e : e.host # 0), LAMBDA e : e.host)
  /\ \A i \in DOMAIN q : q[i].host = 0 \/ q[i].host >= Floor

\* _parse_services_v2_consumes
ConsumesParse(q) == Distinct(q, LAMBDA e : e.shortname)

Entry(q, l) == q[CHOOSE i \in DOMAIN q : q[i].label = l]

Parsed(m) ==
  [parses   |-> PortsParse(m.ports) /\ ConsumesParse(m.consumes),
   ports    |-> [l \in {m.ports[i].label : i \in DOMAIN m.ports} |-> Entry(m.ports, l).host],
   perms    |-> UNION {m.consumes[i].grants : i \in DOMAIN m.consumes},
   provides |-> m.provides]

Declared == [a \in Apps |-> [v \in Versions(a) |-> Parsed(Manifest[a][v])]]

\* parse_manifest on the checkout
Parses(a) == tree[a] # 0 /\ Declared[a][tree[a]].parses

-----------------------------------------------------------------------------
(* Ports.  A row of app_port_mappings is [app, label, port]. *)

Held(a) == {r.port : r \in {r \in maps : r.app = a}}
Locals(S) == {row[a].port : a \in {a \in S : Exists(a)}}

\* allocate_port: the lowest that no row holds.
FreeLocal == Ports \ (Locals(Apps) \cup {r.port : r \in maps})

\* check_port_available, for a port that the manifest or the app's own row
\* asks for; _find_free_host_port, for one that is to be found.
Available(a, p) == p \notin Locals(Apps \ {a}) /\ p \notin UNION {Held(b) : b \in Apps \ {a}}
Assignable(a, p) == Available(a, p) /\ p \notin Locals({a})

Kept(a, l) == {r.port : r \in {r \in maps : r.app = a /\ r.label = l}}

\* Mutant: what the manifest asks for comes before what the app holds.
AskedAnew(a, m, l) == m.ports[l]

\* _sync_port_mappings: a label the app has keeps its port.
Asked(a, m, l) == IF Kept(a, l) # {} THEN Least(Kept(a, l)) ELSE m.ports[l]

\* resolve_port_mappings: every outcome there may be; none is a RuntimeError.
Plans(a, m) ==
  {f \in [DOMAIN m.ports -> Ports] :
     /\ \A l \in DOMAIN f : IF Asked(a, m, l) = 0 THEN Assignable(a, f[l])
                            ELSE f[l] = Asked(a, m, l) /\ Available(a, f[l])
     /\ \A k, l \in DOMAIN f : f[k] = f[l] => k = l}

Mappings(a, f) == {[app |-> a, label |-> l, port |-> f[l]] : l \in DOMAIN f}

-----------------------------------------------------------------------------
(* Services *)

\* Mutant: the one installed last.
Newcomer(C) == CHOOSE a \in C : \A b \in C : row[b].born <= row[a].born

\* _incumbent_provider_id: of the apps providing a service, the one installed
\* first.  (Apps installed in one second are told apart by version: not here.)
Incumbent(C) == CHOOSE a \in C : \A b \in C : row[a].born <= row[b].born

Candidates(s) == {a \in Apps : <<s, a>> \in providers}

\* default_provider_id_for_service
Provider(s) ==
  IF chosen[s] # NoApp THEN chosen[s]
  ELSE IF Candidates(s) # {} THEN Incumbent(Candidates(s)) ELSE NoApp

\* register_services_provided_by_app
Registered(a, m) == {q \in providers : q[2] # a} \cup {<<s, a>> : s \in m.provides}

-----------------------------------------------------------------------------
(* Installing *)

\* The owner has seen what version v declares, and goes on.
Accept(a, v) ==
  /\ accepted' = [accepted EXCEPT ![a] = @ \cup {v}]
  /\ agreed' = [agreed EXCEPT ![a] = @ \cup Declared[a][v].perms]

\* What a clone or a fetch may come to: authors publish at any time, and the owner
\* may set another remote or branch (set_app_remote).
Upstream(a) == Versions(a)

\* clone_with_github_fallback: a clone whose manifest parses.  Whatever else comes
\* of it is an error on the page, and the clone is deleted.
Cloned(a) == {v \in Upstream(a) : Declared[a][v].parses}

\* validate_manifest: no row has the name.
Addable(a) == row[a].status = "none"

\* The page with what the app declares (was), and the clone it was read from,
\* private to the page (sha).
ShowManifest(t, a) ==
  /\ LoopFree /\ task[t] = Idle /\ Admit(a) /\ Addable(a) /\ Event
  /\ \E v \in Cloned(a) : Enter(t, [Work(a, "review") EXCEPT !.was = v, !.sha = v])
  /\ UNCHANGED <<diskVars, tableVars, ghostVars>>

\* The command line has no page and no clone.
AddUnshown(t, a) ==
  /\ LoopFree /\ task[t] = Idle /\ Admit(a) /\ Addable(a) /\ Event
  /\ Enter(t, Work(a, "review"))
  /\ UNCHANGED <<diskVars, tableVars, ghostVars>>

\* What is installed: the page's clone, whatever has been published since; with no
\* clone there, whatever has.
Fetched(t) == IF task[t].sha # 0 THEN {task[t].sha} ELSE Cloned(task[t].app)

\* What the owner ticked on the page; from the command line all that the manifest
\* asks for, or nothing.
Ticked(t, v) ==
  IF task[t].was # 0 THEN SUBSET Declared[task[t].app][task[t].was].perms
  ELSE {{}, Declared[task[t].app][v].perms}

\* The owner goes on: the checks again, and the clone is moved.
AddApp(t) ==
  LET a == task[t].app
      shown == task[t].was IN
  /\ LoopFree /\ At(t, "review") /\ Addable(a)
  /\ \E v \in Fetched(t) : \E sel \in Ticked(t, v) :
       /\ tree' = [tree EXCEPT ![a] = v]
       /\ IF shown # 0 THEN Accept(a, shown)
          ELSE agreed' = [agreed EXCEPT ![a] = @ \cup sel] /\ UNCHANGED accepted
       /\ unseen' = IF v = shown THEN unseen ELSE [unseen EXCEPT ![a] = @ \cup {v}]
       /\ task' = [task EXCEPT ![t] = [Work(a, "ports") EXCEPT !.was = v, !.sha = shown, !.todo = sel]]
  /\ UNCHANGED <<image, container, tableVars, revoked, strayed, cut, events>>

\* A check fails (the archive is not healthy) and the clone is deleted; the page
\* stays as it is, for the owner to go on from.
AddRefused(t) ==
  /\ LoopFree /\ At(t, "review") /\ task[t].sha # 0 /\ Fault("archive")
  /\ task' = [task EXCEPT ![t].sha = 0]
  /\ UNCHANGED <<diskVars, tableVars, ghostVars>>

\* insert_and_deploy has raised, with the clone moved already.  The owner gives up,
\* or goes on from the page as it is.
AddFails(t) ==
  \/ Leave(t) /\ Ok
  \/ Event /\ Enter(t, [Work(task[t].app, "review") EXCEPT !.was = task[t].sha])

\* insert_and_deploy, up to its first write: the local port is not in a row
\* yet when the ports of the mappings are chosen.
ChoosePorts(t) ==
  /\ LoopFree /\ At(t, "ports") /\ FreeLocal # {}
  /\ \E f \in Plans(task[t].app, Declared[task[t].app][task[t].was]) :
       task' = [task EXCEPT ![t].pc = "insert", ![t].port = Least(FreeLocal), ![t].plan = Mappings(task[t].app, f)]
  /\ UNCHANGED <<diskVars, tableVars, ghostVars, events>>

NoPorts(t) ==
  /\ LoopFree /\ At(t, "ports")
  /\ FreeLocal = {} \/ Plans(task[t].app, Declared[task[t].app][task[t].was]) = {}
  /\ AddFails(t)
  /\ UNCHANGED <<diskVars, tableVars, ghostVars>>

\* A reload thread of another app may have committed since the ports were
\* chosen: the unique indexes see some of that.
Unique(t) ==
  /\ task[t].port \notin Locals(Apps)
  /\ \A r \in task[t].plan : r.port \notin {q.port : q \in maps}

\* _manifest_column_values, of the install and of the reload: of a row, what the
\* manifest determines.
ManifestColumns(r, v) == [r EXCEPT !.deployed = v]

InsertRow(t) ==
  LET a == task[t].app
      m == Declared[a][task[t].was] IN
  /\ At(t, "insert") /\ Unique(t)
  /\ row' = [row EXCEPT ![a] =
                [ManifestColumns(@, task[t].was) EXCEPT
                   !.status = "building", !.port = task[t].port,
                   !.born = 1 + Cardinality({b \in Apps : row[b].born > 0})]]
  /\ maps' = maps \cup task[t].plan
  /\ providers' = Registered(a, m)
  /\ Goto(t, "grant")
  /\ UNCHANGED <<diskVars, chosen, grants, ghostVars, events>>

InsertFails(t) ==
  /\ At(t, "insert") /\ ~Unique(t)
  /\ AddFails(t)
  /\ UNCHANGED <<diskVars, tableVars, ghostVars>>

\* Every grant the owner ticked is a commit of its own; then the deploy thread
\* starts.
GrantNext(t) ==
  /\ At(t, "grant") /\ task[t].todo # {}
  /\ \E p \in task[t].todo :
       /\ grants' = grants \cup {<<task[t].app, p>>}
       /\ task' = [task EXCEPT ![t].todo = @ \ {p}]
       /\ revoked' = revoked \ {<<task[t].app, p>>}
  /\ UNCHANGED <<diskVars, row, maps, providers, chosen, accepted, agreed, unseen, strayed, cut, events>>

Deploy(t) ==
  /\ At(t, "grant") /\ task[t].todo = {}
  /\ Goto(t, "build")
  /\ UNCHANGED <<diskVars, tableVars, ghostVars, events>>

\* build_image: the tag moves to what the checkout builds to.
Built(a) == [image EXCEPT ![a] = tree[a]]

Build(t) ==
  LET a == task[t].app IN
  /\ At(t, "build")
  /\ image' = Built(a)
  /\ Goto(t, "run")
  /\ UNCHANGED <<tree, container, tableVars, ghostVars, events>>

LaunchFails(t) ==
  /\ SetStatus(task[t].app, "error")
  /\ Leave(t)
  /\ UNCHANGED <<diskVars, maps, providers, chosen, grants, ghostVars>>

BuildFails(t) == At(t, "build") /\ Fault("build") /\ LaunchFails(t)

\* run_container: the tagged image, run with what the manifest declares.
Started(t) == [code |-> image[task[t].app], manifest |-> task[t].was]

\* run_app_image: what the manifest provides is registered, in one commit with
\* the 'starting', before the container is there.
Run(t) ==
  LET a == task[t].app IN
  /\ At(t, "run")
  /\ providers' = Registered(a, Declared[a][task[t].was])
  /\ SetStatus(a, "starting")
  /\ Goto(t, "launch")
  /\ UNCHANGED <<diskVars, maps, chosen, grants, ghostVars, events>>

Launch(t) ==
  LET a == task[t].app IN
  /\ At(t, "launch") /\ image[a] # 0
  /\ container' = [container EXCEPT ![a] = Started(t)]
  /\ SetStatus(a, "running")
  /\ Leave(t)
  /\ UNCHANGED <<tree, image, maps, providers, chosen, grants, ghostVars, events>>

\* The image may have been dropped since.
RunFails(t) ==
  /\ At(t, "launch")
  /\ IF image[task[t].app] = 0 THEN Ok ELSE Fault("run")
  /\ LaunchFails(t)

-----------------------------------------------------------------------------
(* Updating and reloading *)

\* A request to update, with the owner's approval or without.  The row is read
\* now, and the commit the checkout is at.
Update(t, a, approve) ==
  /\ LoopFree /\ task[t] = Idle /\ Admit(a) /\ Event
  /\ Exists(a) /\ row[a].status # "removing" /\ tree[a] # 0
  /\ Enter(t, [Work(a, "pull") EXCEPT !.was = row[a].deployed, !.sha = tree[a], !.approve = approve])
  /\ UNCHANGED <<diskVars, tableVars, ghostVars>>

\* git_pull, on a thread.
Pull(t) ==
  LET a == task[t].app IN
  /\ At(t, "pull")
  /\ \E v \in Upstream(a) : tree' = [tree EXCEPT ![a] = v]
  /\ Goto(t, "gate")
  /\ UNCHANGED <<image, container, tableVars, ghostVars, events>>

PullFails(t) ==
  LET a == task[t].app IN
  /\ LoopFree /\ At(t, "pull") /\ Fault("pull")
  /\ SetStatus(a, "error")
  /\ Leave(t)
  /\ UNCHANGED <<diskVars, maps, providers, chosen, grants, ghostVars>>

\* The checkout has succeeded, and the submodules cannot be had: git_pull
\* reports a failure, and nothing takes the checkout back.
SubmodulesFail(t) ==
  LET a == task[t].app IN
  /\ LoopFree /\ At(t, "pull") /\ Fault("submodules")
  /\ \E v \in Upstream(a) : tree' = [tree EXCEPT ![a] = v]
  /\ SetStatus(a, "error")
  /\ strayed' = strayed \cup {a}
  /\ Leave(t)
  /\ UNCHANGED <<image, container, maps, providers, chosen, grants, accepted, agreed, unseen, revoked, cut>>

Granted(a) == {p \in Perms : <<a, p>> \in grants}

\* Mutant: whatever is declared and not granted (manifest_ungranted_permissions_v2).
Ungranted(a, m, was) == m.perms \ Granted(a)

\* manifest_newly_declared_permissions_v2: not granted, and not declared by the
\* manifest that was deployed when the request came.
NewlyDeclared(a, m, was) == (m.perms \ Granted(a)) \ was.perms

\* manifest_settings_changes looks at everything but the permissions.
SettingsChanged(m, was) == [m EXCEPT !.perms = {}] # [was EXCEPT !.perms = {}]

\* _gate_update_review.  A manifest that does not parse passes: the launch will
\* fail on it.
Gate(t) ==
  LET a == task[t].app
      m == Declared[a][tree[a]]
      was == Declared[a][task[t].was]
      new == NewlyDeclared(a, m, was) IN
  /\ At(t, "gate") /\ Parses(a)
  /\ IF new = {} /\ ~SettingsChanged(m, was)
     THEN Goto(t, "claim") /\ UNCHANGED <<grants, ghostVars>>
     ELSE IF task[t].approve
     THEN /\ grants' = grants \cup {<<a, p>> : p \in new}
          /\ Accept(a, tree[a])
          /\ Goto(t, "claim") /\ UNCHANGED <<unseen, revoked, strayed, cut>>
     ELSE Goto(t, "rollback") /\ UNCHANGED <<grants, ghostVars>>
  /\ UNCHANGED <<diskVars, row, maps, providers, chosen, events>>

GateSkipped(t) ==
  /\ At(t, "gate") /\ ~Parses(task[t].app)
  /\ Goto(t, "claim")
  /\ UNCHANGED <<diskVars, tableVars, ghostVars, events>>

\* Mutant: a refused update stays on the disk.
RolledBack(t) == tree[task[t].app]

\* reset_hard to the commit the request found.
BackTo(t) == task[t].sha

Rollback(t) ==
  /\ At(t, "rollback")
  /\ tree' = [tree EXCEPT ![task[t].app] = BackTo(t)]
  /\ Leave(t)
  /\ UNCHANGED <<image, container, tableVars, ghostVars, events>>

RollbackFails(t) ==
  /\ At(t, "rollback") /\ Fault("rollback")
  /\ strayed' = strayed \cup {task[t].app}
  /\ Leave(t)
  /\ UNCHANGED <<diskVars, tableVars, accepted, agreed, unseen, revoked, cut>>

\* A plain reload goes straight to the claim.
Reload(t, a) ==
  /\ LoopFree /\ task[t] = Idle /\ Admit(a) /\ Event
  /\ Exists(a) /\ row[a].status # "removing"
  /\ Enter(t, Work(a, "claim"))
  /\ UNCHANGED <<diskVars, tableVars, ghostVars>>

Claim(t) ==
  LET a == task[t].app IN
  /\ LoopFree /\ At(t, "claim")
  /\ IF row[a].status \notin Busy
     THEN /\ SetStatus(a, "building")
          /\ container' = [container EXCEPT ![a] = Nowhere]
          /\ Goto(t, "sync")
     ELSE Leave(t) /\ UNCHANGED <<row, container>>
  /\ UNCHANGED <<tree, image, maps, providers, chosen, grants, ghostVars, events>>

\* What the owner took away is settled once the app no longer asks for it.
Forgotten(a, m) == {q \in revoked : q[1] = a /\ q[2] \notin m.perms}

\* reload_app_background, its one commit: the columns of the manifest, the
\* ports, the services.
Sync(t) ==
  LET a == task[t].app
      m == Declared[a][tree[a]] IN
  /\ At(t, "sync") /\ Parses(a)
  /\ \E f \in Plans(a, m) :
       maps' = {r \in maps : r.app # a} \cup Mappings(a, f)
  /\ row' = [row EXCEPT ![a] = ManifestColumns(@, tree[a])]
  /\ providers' = Registered(a, m)
  /\ revoked' = revoked \ Forgotten(a, m)
  /\ cut' = cut \ {a}
  /\ Goto(t, "start")
  /\ UNCHANGED <<diskVars, chosen, grants, accepted, agreed, unseen, strayed, events>>

\* No ports: the error path commits what the transaction had written so far,
\* the columns and the labels that are gone.
SyncFails(t) ==
  LET a == task[t].app
      m == Declared[a][tree[a]] IN
  /\ At(t, "sync") /\ Parses(a)
  /\ Plans(a, m) = {}
  /\ maps' = {r \in maps : r.app = a => r.label \in DOMAIN m.ports}
  /\ row' = [row EXCEPT ![a] = [ManifestColumns(@, tree[a]) EXCEPT !.status = "error"]]
  /\ revoked' = revoked \ Forgotten(a, m)
  /\ Leave(t)
  /\ UNCHANGED <<diskVars, providers, chosen, grants, accepted, agreed, unseen, strayed, cut, events>>

SyncSkipped(t) ==
  /\ At(t, "sync") /\ ~Parses(task[t].app)
  /\ Goto(t, "start")
  /\ UNCHANGED <<diskVars, tableVars, ghostVars, events>>

\* start_app_process, up to the build: the checkout is parsed once more.
Start(t) ==
  LET a == task[t].app IN
  /\ At(t, "start") /\ Parses(a)
  /\ SetStatus(a, "starting")
  /\ task' = [task EXCEPT ![t].pc = "build", ![t].was = tree[a]]
  /\ UNCHANGED <<diskVars, maps, providers, chosen, grants, ghostVars, events>>

StartFails(t) == At(t, "start") /\ ~Parses(task[t].app) /\ Ok /\ LaunchFails(t)

-----------------------------------------------------------------------------
(* Removing *)

RemoveApp(t, a) ==
  /\ LoopFree /\ task[t] = Idle /\ Admit(a) /\ Event
  /\ Exists(a) /\ row[a].status # "removing"
  /\ SetStatus(a, "removing")
  /\ Enter(t, Work(a, "remove"))
  /\ UNCHANGED <<diskVars, maps, providers, chosen, grants, ghostVars>>

\* The container, the image and the checkout; then the row, with everything
\* that refers to it.
RemoveWorks(t) ==
  LET a == task[t].app IN
  /\ At(t, "remove")
  /\ container' = [container EXCEPT ![a] = Nowhere]
  /\ \/ image' = [image EXCEPT ![a] = 0] /\ Ok
     \/ UNCHANGED image /\ Fault("rmi")
  /\ tree' = [tree EXCEPT ![a] = 0]
  /\ row' = [row EXCEPT ![a] = [NoRow EXCEPT !.status = "gone", !.born = row[a].born]]
  /\ maps' = {r \in maps : r.app # a}
  /\ providers' = {q \in providers : q[2] # a}
  /\ chosen' = [s \in Services |-> IF chosen[s] = a THEN NoApp ELSE chosen[s]]
  /\ grants' = {g \in grants : g[1] # a}
  /\ revoked' = {g \in revoked : g[1] # a}
  /\ Leave(t)
  /\ UNCHANGED <<accepted, agreed, unseen, strayed, cut>>

-----------------------------------------------------------------------------
(* Images *)

\* The images with an app's tag, of no app that there is.
Orphans == {a \in Apps : ~Exists(a) /\ image[a] # 0}

\* sweep_orphaned_images removes those that are old enough, as far as podman lets it.
SweepOrphans ==
  /\ \E pruned \in SUBSET Orphans \ {{}} :
       image' = [a \in Apps |-> IF a \in pruned THEN 0 ELSE image[a]]
  /\ UNCHANGED <<tree, container, tableVars, task, ghostVars, events>>

\* The owner drops the cache: the image of every container that is not there,
\* one that has just been built included.
DropCache ==
  /\ \E a \in Apps : image[a] # 0 /\ container[a] = Nowhere
  /\ Event
  /\ image' = [a \in Apps |-> IF container[a] = Nowhere THEN 0 ELSE image[a]]
  /\ UNCHANGED <<tree, container, tableVars, task, ghostVars>>

-----------------------------------------------------------------------------
(* The owner, the authors, the machine *)

Grant(a, p) ==
  /\ LoopFree /\ Exists(a) /\ <<a, p>> \notin grants /\ Event
  /\ grants' = grants \cup {<<a, p>>}
  /\ revoked' = revoked \ {<<a, p>>}
  /\ agreed' = [agreed EXCEPT ![a] = @ \cup {p}]
  /\ UNCHANGED <<diskVars, row, maps, providers, chosen, task, accepted, unseen, strayed, cut>>

Revoke(a, p) ==
  /\ LoopFree /\ <<a, p>> \in grants /\ Event
  /\ grants' = grants \ {<<a, p>>}
  /\ revoked' = IF p \in Declared[a][row[a].deployed].perms THEN revoked \cup {<<a, p>>} ELSE revoked
  /\ UNCHANGED <<diskVars, row, maps, providers, chosen, task, accepted, agreed, unseen, strayed, cut>>

SetDefault(s, a) ==
  /\ LoopFree /\ <<s, a>> \in providers /\ chosen[s] # a /\ Event
  /\ chosen' = [chosen EXCEPT ![s] = a]
  /\ UNCHANGED <<diskVars, row, maps, providers, grants, task, ghostVars>>

ClearDefault(s) ==
  /\ LoopFree /\ chosen[s] # NoApp /\ Event
  /\ chosen' = [chosen EXCEPT ![s] = NoApp]
  /\ UNCHANGED <<diskVars, row, maps, providers, grants, task, ghostVars>>

\* Between the checkout and the gate's verdict nothing on the disk says that
\* the version there has not been accepted.
InReview == {task[t].app : t \in {t \in Tasks : At(t, "gate") \/ At(t, "rollback")}}

\* Between the checkout and the commit that makes the row agree with it, and
\* between that commit's 'starting' and the new image, a restart finds things
\* that do not belong together.
Halfway ==
  {task[t].app : t \in {t \in Tasks :
     \/ \E pc \in {"gate", "rollback", "claim", "sync"} : At(t, pc)
     \/ (At(t, "start") \/ At(t, "build")) /\ row[task[t].app].status = "starting"}}

\* The router dies with its threads; the containers go on.
Crash ==
  /\ Fault("crash")
  /\ \E t \in Tasks : task[t] # Idle
  /\ task' = [t \in Tasks |-> Idle]
  /\ strayed' = strayed \cup InReview
  /\ cut' = cut \cup Halfway
  /\ UNCHANGED <<diskVars, tableVars, accepted, agreed, unseen, revoked>>

\* Mutant: an image will do.
ImageGone(a) == image[a] = 0

\* check_app_status asks podman: image_exists
HasImage(a)   == image[a] # 0
NeedsBuild(a) == row[a].status = "building" \/ ~HasImage(a)

\* Boot recovery of what was being launched, or, with its container gone, was
\* running: from the checkout, or else from the image that has the app's tag,
\* with the manifest of the row.
Recover(t, a) ==
  /\ LoopFree /\ task[t] = Idle /\ Unworked(a)
  /\ \/ row[a].status \in Launching /\ Ok
     \/ row[a].status = "running" /\ Event
  /\ SetStatus(a, "starting")
  /\ IF NeedsBuild(a) THEN Enter(t, Work(a, "start"))
     ELSE Enter(t, [Work(a, "run") EXCEPT !.was = row[a].deployed])
  /\ container' = [container EXCEPT ![a] = Nowhere]
  /\ UNCHANGED <<tree, image, maps, providers, chosen, grants, ghostVars>>

-----------------------------------------------------------------------------

Init ==
  /\ tree = [a \in Apps |-> 0] /\ image = tree
  /\ container = [a \in Apps |-> Nowhere]
  /\ row = [a \in Apps |-> NoRow]
  /\ maps = {} /\ providers = {} /\ grants = {}
  /\ chosen = [s \in Services |-> NoApp]
  /\ task = [t \in Tasks |-> Idle]
  /\ accepted = [a \in Apps |-> {}] /\ agreed = accepted /\ unseen = accepted /\ revoked = {} /\ strayed = {} /\ cut = {}
  /\ events = 0

Progress(t) ==
  \/ AddApp(t) \/ AddRefused(t) \/ ChoosePorts(t) \/ NoPorts(t) \/ InsertRow(t) \/ InsertFails(t) \/ GrantNext(t) \/ Deploy(t)
  \/ Pull(t) \/ PullFails(t) \/ SubmodulesFail(t)
  \/ Gate(t) \/ GateSkipped(t) \/ Rollback(t) \/ RollbackFails(t) \/ Claim(t)
  \/ Sync(t) \/ SyncFails(t) \/ SyncSkipped(t) \/ Start(t) \/ StartFails(t)
  \/ Build(t) \/ BuildFails(t) \/ Run(t) \/ Launch(t) \/ RunFails(t)
  \/ RemoveWorks(t)

Request(t, a) ==
  \/ ShowManifest(t, a) \/ AddUnshown(t, a) \/ Reload(t, a) \/ RemoveApp(t, a) \/ Recover(t, a)
  \/ \E approve \in BOOLEAN : Update(t, a, approve)

Outside ==
  \/ \E a \in Apps, p \in Perms : Grant(a, p) \/ Revoke(a, p)
  \/ \E s \in Services : ClearDefault(s) \/ \E a \in Apps : SetDefault(s, a)
  \/ SweepOrphans \/ DropCache \/ Crash

Next == (\E t \in Tasks : Progress(t) \/ \E a \in Apps : Request(t, a)) \/ Outside

Spec == Init /\ [][Next]_vars

-----------------------------------------------------------------------------
(* What should be true.                                                    *)

\* The owner has agreed to every permission that version v declares, and has
\* accepted a version with the same settings.
Consented(a, v) ==
  /\ Declared[a][v].perms \subseteq agreed[a]
  /\ \E w \in accepted[a] : ~SettingsChanged(Declared[a][v], Declared[a][w])

\* The same, with what was installed unseen counted in.
Reviewed(a, v) ==
  v = 0 \/ /\ Declared[a][v].perms \subseteq agreed[a] \cup UNION {Declared[a][w].perms : w \in unseen[a]}
           /\ \E w \in accepted[a] \cup unseen[a] : ~SettingsChanged(Declared[a][v], Declared[a][w])

AllReviewed(a) == \A v \in {container[a].code, container[a].manifest, image[a]} : Reviewed(a, v)

\* What runs, code and manifest, declares what its owner has accepted, at the
\* install or at the review of an update: a version that was refused is not
\* launched by a later plain reload, rebuild or boot, nor one that came with a
\* pull that failed before the checkout.  Two exceptions: an app whose checkout a
\* failed or cut-off update has left unreviewed (strayed), and what api_add_app
\* cloned by itself, for the command line or because the page's clone was gone,
\* and installed unseen (unseen), whose updates are reviewed against it.
ReviewedBeforeRunning == \A a \in Apps \ strayed : AllReviewed(a)

\* An app that is running runs the code of the version that its row says, with
\* what that version declares, whatever failed or was dropped on the way and
\* wherever a restart resumed a launch; but for an update or rebuild that the
\* restart cut off halfway and an update that left its checkout behind, where
\* check_app_status may launch the new checkout under the old row, or the old
\* image under the new one.
RunsWhatIsDeployed ==
  \A a \in Apps \ (cut \cup strayed) :
    row[a].status = "running" => container[a] \in {Nowhere, [code |-> row[a].deployed, manifest |-> row[a].deployed]}

\* A permission that the owner revoked does not come back with an update that
\* has nothing to do with it (manifest_newly_declared_permissions_v2).
RevokedStaysRevoked == revoked \cap grants = {}

\* The apps that nothing is promised about: with an update or rebuild cut off
\* halfway, with an update's checkout left behind, or installed unseen.
Unpromised == cut \cup strayed \cup {a \in Apps : unseen[a] # {}}

\* Install implements Consent: what runs is agreed to when it is launched, and a
\* service moves only by the owner's choice, when the app that had it ceases to
\* provide it, or by Overtake, when an update makes an app provide it that was
\* installed before the one that has it; installing another provider, or
\* restarting one, does not move it (services.py: "installing a second one must
\* not move the service off the first").  Overtake is what the code does and the
\* documentation denies: cross_app_services.md, "the app that has provided the
\* service the longest".
Promise == INSTANCE Consent WITH
  void <- Unpromised,
  may <- [a \in Apps |-> {v \in Versions(a) : Consented(a, v)}],
  runs <- [a \in Apps |-> container[a].code],
  offers <- providers,
  provider <- [s \in Services |-> Provider(s)],
  age <- [a \in Apps |-> row[a].born]

KeepsConsent == Promise!Spec

\* The host port of a label is the app's for as long as the app declares the
\* label, whatever an update asks for (_sync_port_mappings: "preserve existing
\* host_port").
PortsKeep ==
  [][\A r \in maps, q \in maps' : r.app = q.app /\ r.label = q.label => r.port = q.port]_vars
=============================================================================
