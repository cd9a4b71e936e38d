---------------------------- MODULE AppLifecycle ----------------------------
(* The life of an installed app in the compute_space router: the rows of the  *)
(* apps table, the podman containers they describe, the request handlers that *)
(* run on the event loop, and the threads (deploy, reload, removal, boot      *)
(* recovery, storage guard) that write the same rows from beside it.          *)
(*                                                                            *)
(* One step is what happens between two points where another actor can get    *)
(* in: a committed transaction, or one podman call.  A handler that does not  *)
(* await keeps the event loop (variable loop), so other handlers wait for it, *)
(* but threads do not.                                                        *)

CONSTANTS
    Apps,       \* app_id values that can ever be minted
    Names,      \* app names (subdomain, and the suffix of the container name)
    Cids,       \* container ids
    Tasks,      \* slots for handlers and threads in flight
    NoApp, NoName, NoCid, NoTask,
    Requests,   \* what the owner may ask for
    Faults,     \* what the environment may do
    Overlap     \* TRUE: an app may be sent a request while another is served

ASSUME ConstantsAssumption ==
    /\ NoApp \notin Apps /\ NoName \notin Names
    /\ NoCid \notin Cids /\ NoTask \notin Tasks
    /\ Requests \subseteq {"setup", "stop", "remove", "reload", "update",
                           "oauth", "rename", "promote"}
    /\ Faults \subseteq {"crash", "build", "launch", "launch_timeout", "unready",
                         "db", "unrecorded", "podman", "pull", "dirs", "spawn",
                         "repo", "lowdisk"}
    /\ Overlap \in BOOLEAN

VARIABLES
    row,     \* the apps table
    tokens,  \* apps that have a row in app_tokens
    podman,  \* the live container of each container name
    task,    \* handlers and threads in flight
    loop,    \* the handler that holds the event loop, if any
    router,  \* the router process
    seen,    \* the rows check_app_status read, while it decides
    queue    \* apps check_app_status has handed to _restart_apps_sequential

vars == <<row, tokens, podman, task, loop, router, seen, queue>>

-----------------------------------------------------------------------------
(* Types *)

Transient == {"building", "starting"}
Busy      == Transient \cup {"removing"}
\* "new" and "gone": no row with that app_id yet, and not any more.
Status    == Busy \cup {"new", "gone", "running", "stopped", "error"}
Error     == {"none", "marker", "corrupt", "other"}

Row == [status : Status, name : Names \cup {NoName}, cid : Cids \cup {NoCid},
        err : Error, fresh : BOOLEAN]

Container == [cid : Cids, app : Apps]
Free      == [cid |-> NoCid, app |-> NoApp]

\* Threads and handlers that end in run_app_image.
Launchers == {"deploy", "reload", "recover", "rename"}
Kinds     == Launchers \cup {"idle", "stop", "remove", "reload_req", "guard"}
LaunchPcs == {"sync", "start", "restart", "build", "image", "mark", "clear", "run",
              "record", "wait", "ready", "unready", "fail", "fail_corrupt"}
Pcs       == LaunchPcs \cup {"idle", "stop_cid", "stop_name", "write", "read", "delete",
                             "pull", "claim", "spawn", "rename_mark", "dirs"}
Task == [kind : Kinds, pc : Pcs, app : Apps \cup {NoApp}, name : Names \cup {NoName},
         cid : Cids \cup {NoCid}, how : Requests \cup Status, to : Names \cup {NoName}]
Idle == [kind |-> "idle", pc |-> "idle", app |-> NoApp, name |-> NoName,
         cid |-> NoCid, how |-> "new", to |-> NoName]

Queued == [wait : {"no", "sync", "async"}, build : BOOLEAN]
NotQueued == [wait |-> "no", build |-> FALSE]

BlankRow(status) == [status |-> status, name |-> NoName, cid |-> NoCid,
                     err |-> "none", fresh |-> FALSE]

TypeOK ==
    /\ row \in [Apps -> Row]
    /\ tokens \in SUBSET Apps
    /\ podman \in [Names -> Container \cup {Free}]
    /\ task \in [Tasks -> Task]
    /\ loop \in Tasks \cup {NoTask}
    /\ router \in {"setup", "down", "booting", "recovering", "up", "draining"}
    /\ seen \in [Apps -> Row]
    /\ queue \in [Apps -> Queued]

-----------------------------------------------------------------------------
(* Helpers *)

Present(a)  == row[a].status \notin {"new", "gone"}
\* Mutant: only running apps keep their name.
NameFreeIfIdle(n) == \A a \in Apps : row[a].status = "running" => row[a].name # n
NameFree(n) == \A a \in Apps : Present(a) => row[a].name # n
Live(c)     == \E n \in Names : podman[n].cid = c /\ c # NoCid
Fresh(c)    == /\ \A a \in Apps : row[a].cid # c /\ seen[a].cid # c
               /\ \A t \in Tasks : task[t].cid # c
               /\ \A n \in Names : podman[n].cid # c
On(t, a)    == task[t].kind # "idle" /\ task[t].app = a
\* Nothing is in flight for the app: the owner has seen the last request end.
Quiet(a)    == queue[a].wait = "no" /\ \A t \in Tasks : ~On(t, a)

\* Mutant: the late write of a thread inserts the row again.
Upsert(a, status, cid, err) ==
    row' = [row EXCEPT ![a] = [@ EXCEPT !.status = status, !.cid = cid, !.err = err]]

\* UPDATE apps SET ... WHERE app_id = a: no effect once the row is deleted.
Update(a, status, cid, err) ==
    row' = [row EXCEPT ![a] = IF Present(a)
                              THEN [@ EXCEPT !.status = status, !.cid = cid, !.err = err]
                              ELSE @]

\* The write that should say a launch or a removal has failed; it may fail as well.
RecordFailure(a, cid, err) ==
    \/ Update(a, "error", cid, err)
    \/ "unrecorded" \in Faults /\ row' = row

\* stop_container by id: the container with that id, if there is still one.
Kill(c) ==
    podman' = [n \in Names |-> IF c # NoCid /\ podman[n].cid = c THEN Free ELSE podman[n]]

At(t, pc) == task[t].pc = pc
Goto(t, pc) == task' = [task EXCEPT ![t].pc = pc] /\ loop' = loop
Done(t)     == /\ task' = [task EXCEPT ![t] = Idle]
               /\ loop' = IF loop = t THEN NoTask ELSE loop
\* The continuation of a handler runs when the event loop is its own or free.
OnLoop(t)   == loop \in {NoTask, t}

Spawn(t, kind, pc, a) ==
    task' = [task EXCEPT ![t] = [Idle EXCEPT !.kind = kind, !.pc = pc, !.app = a]]

\* A handler that has read its row keeps what it read, however stale it gets.
Handle(t, kind, pc, a, how, to) ==
    task' = [task EXCEPT ![t] = [kind |-> kind, pc |-> pc, app |-> a, name |-> row[a].name,
                                 cid |-> row[a].cid, how |-> how, to |-> to]]

\* The router takes a request for app a on the free slot t.
Admit(t, a, request) ==
    /\ request \in Requests /\ router = "up" /\ loop = NoTask
    /\ task[t] = Idle /\ Present(a)
    /\ Overlap \/ Quiet(a)

-----------------------------------------------------------------------------
(* POST /api/add_app: the row is inserted and the deploy thread started.      *)

AddApp(t, a, n) ==
    /\ router \in {"setup", "up"} /\ loop = NoTask
    /\ task[t] = Idle /\ row[a].status = "new" /\ NameFree(n)
    /\ row' = [row EXCEPT ![a] = [status |-> "building", name |-> n, cid |-> NoCid,
                                  err |-> "none", fresh |-> TRUE]]
    /\ tokens' = tokens \cup {a}
    /\ \/ Spawn(t, "deploy", "build", a)
       \/ "spawn" \in Faults /\ task' = task
    /\ UNCHANGED <<podman, loop, router, seen, queue>>

-----------------------------------------------------------------------------
(* POST /stop_app, all of it on the event loop; and the steps it shares.      *)

StopApp(t, a) ==
    /\ Admit(t, a, "stop") /\ row[a].status # "removing"
    /\ Handle(t, "stop", "stop_cid", a, "stop", NoName)
    /\ loop' = t
    /\ UNCHANGED <<row, tokens, podman, router, seen, queue>>

AfterStop(kind) == CASE kind = "stop" -> "stop_name"
                     [] kind = "guard" -> "write"
                     [] kind = "remove" -> "delete"
                     [] kind = "reload_req" -> "spawn"
                     [] OTHER -> "rename_mark"

\* stop_app_process(row) on the row its caller read; podman errors are logged.
StopAppProcess(t) ==
    /\ At(t, "stop_cid")
    /\ \/ Kill(task[t].cid)
       \/ "podman" \in Faults /\ podman' = podman
    /\ Goto(t, AfterStop(task[t].kind))
    /\ UNCHANGED <<row, tokens, router, seen, queue>>

\* The route's second stop, by container name; its errors are not caught.
StopByName(t) ==
    /\ At(t, "stop_name")
    /\ \/ podman' = [podman EXCEPT ![task[t].name] = Free] /\ Goto(t, "write")
       \/ "podman" \in Faults /\ podman' = podman /\ Done(t)
    /\ UNCHANGED <<row, tokens, router, seen, queue>>

StopWrite(t) ==
    /\ At(t, "write") /\ task[t].kind = "stop"
    /\ Update(task[t].app, "stopped", NoCid, row[task[t].app].err)
    /\ Done(t)
    /\ UNCHANGED <<tokens, podman, router, seen, queue>>

-----------------------------------------------------------------------------
(* The storage guard thread, on a disk that has run low.                      *)

StorageGuard(t, a) ==
    /\ "lowdisk" \in Faults /\ router \in {"up", "draining"} /\ task[t] = Idle
    /\ \A u \in Tasks : task[u].kind # "guard"
    /\ row[a].status \in {"running", "starting"}
    /\ Handle(t, "guard", "stop_cid", a, "new", NoName)
    /\ UNCHANGED <<row, tokens, podman, loop, router, seen, queue>>

GuardWrite(t) ==
    /\ At(t, "write") /\ task[t].kind = "guard"
    /\ Update(task[t].app, "error", NoCid, "other")
    /\ Done(t)
    /\ UNCHANGED <<tokens, podman, router, seen, queue>>

-----------------------------------------------------------------------------
(* POST /remove_app claims the row; remove_app_background tears it down.      *)

RemoveApp(t, a) ==
    /\ Admit(t, a, "remove") /\ row[a].status # "removing"
    /\ \/ /\ Update(a, "removing", row[a].cid, "none")
          /\ Spawn(t, "remove", "read", a)
       \/ /\ "spawn" \in Faults
          /\ \/ Update(a, "error", row[a].cid, "other")
             \/ "unrecorded" \in Faults /\ Update(a, "removing", row[a].cid, "none")
          /\ task' = task
    /\ UNCHANGED <<tokens, podman, loop, router, seen, queue>>

\* Mutant: an app without a container is taken to be removed already.
RemoveReadGivesUp(t) ==
    LET a == task[t].app IN
    /\ At(t, "read")
    /\ \/ /\ Present(a) /\ row[a].cid # NoCid
          /\ Handle(t, "remove", "stop_cid", a, "new", NoName)
          /\ loop' = loop
       \/ (~Present(a) \/ row[a].cid = NoCid) /\ Done(t)
    /\ UNCHANGED <<row, tokens, podman, router, seen, queue>>

RemoveRead(t) ==
    LET a == task[t].app IN
    /\ At(t, "read")
    /\ \/ /\ Present(a)
          /\ Handle(t, "remove", "stop_cid", a, "new", NoName)
          /\ loop' = loop
       \/ ~Present(a) /\ Done(t)
    /\ UNCHANGED <<row, tokens, podman, router, seen, queue>>

\* Mutant: a connection without foreign keys.
RemoveDeleteAlone(t) ==
    /\ At(t, "delete")
    /\ row' = [row EXCEPT ![task[t].app] = BlankRow("gone")]
    /\ Done(t)
    /\ UNCHANGED <<tokens, podman, router, seen, queue>>

\* DELETE cascades to app_tokens: this connection enforces foreign keys.
RemoveDelete(t) ==
    LET a == task[t].app IN
    /\ At(t, "delete")
    /\ \/ /\ row' = [row EXCEPT ![a] = BlankRow("gone")]
          /\ tokens' = IF Present(a) THEN tokens \ {a} ELSE tokens
       \/ "db" \in Faults /\ RecordFailure(a, row[a].cid, "other") /\ tokens' = tokens
    /\ Done(t)
    /\ UNCHANGED <<podman, router, seen, queue>>

-----------------------------------------------------------------------------
(* POST /reload_app, plain or with update, and its GET re-entry after OAuth.  *)

ReloadRead(t, a, how) ==
    /\ Admit(t, a, how) /\ row[a].status # "removing"
    /\ IF how = "reload"
       THEN Handle(t, "reload_req", "claim", a, how, NoName) /\ loop' = t
       ELSE Handle(t, "reload_req", "pull", a, how, NoName) /\ loop' = loop
    /\ UNCHANGED <<row, tokens, podman, router, seen, queue>>

\* Token fetch, git pull and review gate are awaited.  A gate that refuses and
\* a bounce to OAuth leave the row alone; a failed pull does not.
Pull(t) ==
    LET a == task[t].app IN
    /\ At(t, "pull") /\ loop = NoTask
    /\ \/ Goto(t, "claim") /\ row' = row
       \/ Done(t) /\ row' = row
       \/ "pull" \in Faults /\ Update(a, "error", row[a].cid, "other") /\ Done(t)
    /\ UNCHANGED <<tokens, podman, router, seen, queue>>

\* The atomic claim; an OAuth continuation goes on without it.
Claimable(a) == Present(a) /\ row[a].status \notin Busy

Claim(t) ==
    LET a == task[t].app IN
    /\ At(t, "claim") /\ OnLoop(t)
    /\ IF Claimable(a)
       THEN Update(a, "building", NoCid, "none")
       ELSE row' = row
    /\ task' = [task EXCEPT ![t] = IF Claimable(a) \/ task[t].how = "oauth"
                                   THEN [@ EXCEPT !.pc = "stop_cid"]
                                   ELSE Idle]
    /\ loop' = NoTask
    /\ UNCHANGED <<tokens, podman, router, seen, queue>>

SpawnReload(t) ==
    /\ At(t, "spawn") /\ loop = NoTask
    /\ \/ Spawn(t, "reload", "sync", task[t].app)
       \/ "spawn" \in Faults /\ task' = [task EXCEPT ![t] = Idle]
    /\ UNCHANGED <<row, tokens, podman, loop, router, seen, queue>>

\* reload_app_background up to start_app_process: manifest columns and ports.
ReloadSync(t) ==
    /\ At(t, "sync")
    /\ \/ ~Present(task[t].app) /\ Done(t)
       \/ Present(task[t].app) /\ Goto(t, "start")
       \/ Present(task[t].app) /\ "build" \in Faults /\ Goto(t, "fail")
    /\ UNCHANGED <<row, tokens, podman, router, seen, queue>>

-----------------------------------------------------------------------------
(* POST /rename_app: stops on the loop, awaits the renames, restarts inline.  *)

RenameRead(t, a, n) ==
    /\ Admit(t, a, "rename") /\ row[a].status # "removing"
    /\ n # row[a].name /\ NameFree(n)
    /\ Handle(t, "rename", "stop_cid", a, row[a].status, n)
    /\ loop' = t
    /\ UNCHANGED <<row, tokens, podman, router, seen, queue>>

RenameMark(t) ==
    LET a == task[t].app IN
    /\ At(t, "rename_mark")
    /\ Update(a, "stopped", NoCid, row[a].err)
    /\ task' = [task EXCEPT ![t].pc = "dirs"] /\ loop' = NoTask
    /\ UNCHANGED <<tokens, podman, router, seen, queue>>

\* The directories could not be renamed: the row gets its old status back, if it
\* can be written.
RenameUndo(t) ==
    /\ At(t, "dirs") /\ loop = NoTask /\ "dirs" \in Faults
    /\ \/ Update(task[t].app, task[t].how, task[t].cid, row[task[t].app].err)
       \/ "db" \in Faults /\ row' = row
    /\ Done(t)
    /\ UNCHANGED <<tokens, podman, router, seen, queue>>

\* The name is rewritten, unless another app took it during the await: then
\* the UNIQUE constraint fails the request, as does a write that fails.
RenameWrite(t) ==
    LET a == task[t].app IN
    /\ At(t, "dirs") /\ loop = NoTask
    /\ \/ /\ NameFree(task[t].to)
          /\ row' = [row EXCEPT ![a] = IF Present(a) THEN [@ EXCEPT !.name = task[t].to]
                                                     ELSE @]
          /\ IF task[t].how \in Transient \cup {"running"}
             THEN task' = [task EXCEPT ![t].pc = "start"] /\ loop' = t
             ELSE Done(t)
       \/ (~NameFree(task[t].to) \/ "db" \in Faults) /\ row' = row /\ Done(t)
    /\ UNCHANGED <<tokens, podman, router, seen, queue>>

-----------------------------------------------------------------------------
(* start_app_process / restart_app_process / _build_then_run_app              *)

\* Mutant: a status the CHECK constraint of the table does not know.
MarkRestarting(a) == Update(a, "restarting", row[a].cid, row[a].err)

\* _mark_app_starting keeps the marker a domain promotion left.
MarkStarting(a) ==
    Update(a, "starting", row[a].cid, IF row[a].err = "marker" THEN "marker" ELSE "none")

StartAppProcess(t) ==
    LET a == task[t].app IN
    /\ At(t, "start")
    /\ \/ Present(a) /\ MarkStarting(a) /\ Goto(t, "build")
       \/ (~Present(a) \/ "build" \in Faults) /\ row' = row /\ Goto(t, "fail")
    /\ UNCHANGED <<tokens, podman, router, seen, queue>>

RestartAppProcess(t) ==
    /\ At(t, "restart")
    /\ \/ Present(task[t].app) /\ Goto(t, "image")
       \/ (~Present(task[t].app) \/ "build" \in Faults) /\ Goto(t, "fail")
    /\ UNCHANGED <<row, tokens, podman, router, seen, queue>>

Build(t) ==
    /\ At(t, "build")
    /\ \/ Goto(t, "image")
       \/ "build" \in Faults /\ \E pc \in {"fail", "fail_corrupt"} : Goto(t, pc)
    /\ UNCHANGED <<row, tokens, podman, router, seen, queue>>

-----------------------------------------------------------------------------
(* run_app_image                                                              *)

ReadImageRow(t) ==
    LET a == task[t].app IN
    /\ At(t, "image")
    /\ IF Present(a)
       THEN task' = [task EXCEPT ![t].pc = "mark", ![t].name = row[a].name,
                                 ![t].cid = row[a].cid]
       ELSE task' = [task EXCEPT ![t].pc = "fail"]
    /\ UNCHANGED <<row, tokens, podman, loop, router, seen, queue>>

\* Token, services and the starting status are one transaction.  A failure
\* before the launch gives the row back the container id it had.
MarkLaunch(t) ==
    LET a == task[t].app IN
    /\ At(t, "mark")
    /\ \/ tokens' = tokens \cup {a} /\ MarkStarting(a) /\ Goto(t, "clear")
       \/ /\ "db" \in Faults
          /\ tokens' = tokens /\ RecordFailure(a, task[t].cid, "other") /\ Goto(t, "fail")
    /\ UNCHANGED <<podman, router, seen, queue>>

\* Mutant: the container the row names is removed, not the one of that name.
ClearRecorded(t) ==
    /\ At(t, "clear")
    /\ Kill(task[t].cid)
    /\ Goto(t, "run")
    /\ UNCHANGED <<row, tokens, router, seen, queue>>

\* podman rm -f openhost-<name>
ClearStale(t) ==
    /\ At(t, "clear")
    /\ podman' = [podman EXCEPT ![task[t].name] = Free]
    /\ Goto(t, "run")
    /\ UNCHANGED <<row, tokens, router, seen, queue>>

\* podman run --name openhost-<name>
RunContainer(t) ==
    LET n == task[t].name IN
    /\ At(t, "run") /\ podman[n] = Free
    /\ \E c \in Cids :
         /\ Fresh(c)
         /\ podman' = [podman EXCEPT ![n] = [cid |-> c, app |-> task[t].app]]
         /\ \/ /\ task' = [task EXCEPT ![t].pc = "record", ![t].cid = c]
               /\ row' = row
            \/ \* the client is killed after 60s, the container is up
               /\ "launch_timeout" \in Faults
               /\ task' = [task EXCEPT ![t].pc = "fail"]
               /\ RecordFailure(task[t].app, NoCid, "other")
    /\ UNCHANGED <<tokens, loop, router, seen, queue>>

\* The name is in use again, or podman fails.
RunFails(t) ==
    /\ At(t, "run") /\ (podman[task[t].name] # Free \/ "launch" \in Faults)
    /\ RecordFailure(task[t].app, NoCid, "other")
    /\ Goto(t, "fail")
    /\ UNCHANGED <<tokens, podman, router, seen, queue>>

\* Mutant: the container id is recorded by name.
RecordByName(t) ==
    /\ At(t, "record")
    /\ row' = [a \in Apps |-> IF Present(a) /\ row[a].name = task[t].name
                             THEN [row[a] EXCEPT !.cid = task[t].cid] ELSE row[a]]
    /\ Goto(t, "wait")
    /\ UNCHANGED <<tokens, podman, router, seen, queue>>

RecordContainer(t) ==
    LET a == task[t].app IN
    /\ At(t, "record")
    /\ Update(a, row[a].status, task[t].cid, row[a].err)
    /\ Goto(t, "wait")
    /\ UNCHANGED <<tokens, podman, router, seen, queue>>

\* A write after the launch fails: the new container is stopped, and its id
\* stays in the row only when that fails too.
RecordFails(t) ==
    LET a == task[t].app IN
    /\ task[t].pc \in {"record", "ready", "unready"} /\ "db" \in Faults
    /\ \/ Kill(task[t].cid) /\ RecordFailure(a, NoCid, "other")
       \/ "podman" \in Faults /\ podman' = podman /\ RecordFailure(a, task[t].cid, "other")
    /\ Goto(t, "fail")
    /\ UNCHANGED <<tokens, router, seen, queue>>

\* wait_for_ready: any live container of the app answers on its local port.
WaitForReady(t) ==
    /\ At(t, "wait")
    /\ IF \E n \in Names : podman[n].app = task[t].app
       THEN \/ Goto(t, "ready")
            \/ "unready" \in Faults /\ Goto(t, "unready")
       ELSE Goto(t, "unready")
    /\ UNCHANGED <<row, tokens, podman, router, seen, queue>>

LaunchDone(t) ==
    LET a == task[t].app IN
    /\ \/ At(t, "ready") /\ Update(a, "running", row[a].cid, "none")
       \/ At(t, "unready") /\ Update(a, "error", row[a].cid, "other")
    /\ Done(t)
    /\ UNCHANGED <<tokens, podman, router, seen, queue>>

\* Mutant: only a corrupt build cache is written down.
LaunchFailedSilently(t) ==
    LET a == task[t].app IN
    /\ \/ At(t, "fail") /\ row' = row
       \/ At(t, "fail_corrupt") /\ Update(a, "error", row[a].cid, "corrupt")
    /\ Done(t)
    /\ UNCHANGED <<tokens, podman, router, seen, queue>>

\* The handler of last resort around every deploy, reload, recovery and rename.
LaunchFailed(t) ==
    LET a == task[t].app IN
    /\ \/ At(t, "fail") /\ Update(a, "error", row[a].cid, "other")
       \/ At(t, "fail_corrupt") /\ Update(a, "error", row[a].cid, "corrupt")
    /\ Done(t)
    /\ UNCHANGED <<tokens, podman, router, seen, queue>>

\* That handler does not get to write: the thread ends with an error, as does the
\* one of boot recovery with all that it has still queued.  The one of a rename
\* knows RuntimeError and ValueError, and a build may raise others.
LaunchFailureLost(t) ==
    /\ task[t].pc \in {"fail", "fail_corrupt"}
    /\ \/ "unrecorded" \in Faults /\ (task[t].kind = "recover" => router # "recovering")
       \/ "build" \in Faults /\ At(t, "fail") /\ task[t].kind = "rename"
    /\ Done(t)
    /\ queue' = IF task[t].kind = "recover" THEN [a \in Apps |-> NotQueued] ELSE queue
    /\ UNCHANGED <<row, tokens, podman, router, seen>>

-----------------------------------------------------------------------------
(* The router process: promotion, exit, boot and check_app_status.            *)

\* set_primary_domain hands every active app to the next boot, then restarts.
Promote ==
    /\ "promote" \in Requests /\ router = "up" /\ loop = NoTask
    /\ \A a \in Apps : row[a].status \notin Busy
    /\ row' = [a \in Apps |->
                 IF row[a].status = "running" \/ (row[a].status = "error" /\ row[a].cid # NoCid)
                 THEN [row[a] EXCEPT !.status = "starting", !.err = "marker"]
                 ELSE row[a]]
    /\ router' = "draining"
    /\ UNCHANGED <<tokens, podman, task, loop, seen, queue>>

\* A promoted app could not be relaunched, nor that be written: the boot fails.
BootFails ==
    /\ "unrecorded" \in Faults /\ router = "recovering"
    /\ \E t \in Tasks : task[t].kind = "recover" /\ task[t].pc \in {"fail", "fail_corrupt"}

\* The process ends: handlers and threads with it.  After a crash or a reboot
\* any of the containers may be gone as well.
Exit ==
    /\ router = "draining" \/ BootFails \/ (router # "down" /\ "crash" \in Faults)
    /\ \E alive \in SUBSET Names :
         /\ "crash" \in Faults \/ alive = Names
         /\ podman' = [n \in Names |-> IF n \in alive THEN podman[n] ELSE Free]
    /\ row' = [a \in Apps |-> [row[a] EXCEPT !.fresh = FALSE]]
    /\ task' = [t \in Tasks |-> Idle]
    /\ loop' = NoTask
    /\ router' = "down"
    /\ seen' = [a \in Apps |-> BlankRow("new")]
    /\ queue' = [a \in Apps |-> NotQueued]
    /\ UNCHANGED tokens

\* check_app_status reads its rows.  After first-boot setup this is still the
\* process whose threads deploy the default apps.
CheckRead ==
    /\ router \in {"down", "setup"} /\ loop = NoTask
    /\ router' = "booting"
    /\ seen' = row
    /\ UNCHANGED <<row, tokens, podman, task, loop, queue>>

\* The statuses check_app_status selects; its mutants forget the apps caught in
\* a restart, or take up the ones caught in a removal.
RunningOnly == {"running"}
Recoverable == Transient \cup {"running"}

\* Mutant: boot does not know the marker.
NeverPromoted(a) == FALSE
Promoted(a) == seen[a].status = "starting" /\ seen[a].err = "marker"

\* Mutant: every row is taken to be an earlier process's.
NeverInFlight(a) == FALSE
\* This process inserted the row: its deploy thread is at work.
InFlight(a) == seen[a].fresh /\ ~Promoted(a)

\* What check_app_status does with a row it read; "rebuild" and "lost" are the
\* apps without an image and the apps whose checkout is missing.
Verdict(a, lost) ==
    LET s     == seen[a]
        alive == s.cid # NoCid /\ Live(s.cid)
    IN IF \/ s.status \notin Recoverable
          \/ s.status = "starting" /\ InFlight(a)
          \/ s.status = "running" /\ alive
       THEN "keep"
       ELSE IF s.status = "building" /\ alive THEN "heal"
       ELSE IF a \in lost THEN "lost"
       ELSE IF s.cid = NoCid /\ InFlight(a) THEN "in_flight"
       ELSE "recover"

\* _recover_cache_corrupt_apps looks at the rows as they are by then.
Corrupt(a, lost) ==
    /\ Verdict(a, lost) = "keep" /\ a \notin lost
    /\ row[a].status = "error" /\ row[a].err = "corrupt"

Recovered(a, lost) ==
    LET v == Verdict(a, lost) IN
    CASE v = "heal" -> [row[a] EXCEPT !.status = "running"]
      [] v = "lost" -> [row[a] EXCEPT !.status = "error", !.err = "other"]
      [] v \in {"in_flight", "recover"} -> [row[a] EXCEPT !.status = "starting"]
      [] Corrupt(a, lost) -> [row[a] EXCEPT !.status = "starting", !.err = "none"]
      [] OTHER -> row[a]

CheckWrite ==
    /\ router = "booting"
    /\ \E rebuild, lost \in SUBSET Apps :
         /\ "repo" \in Faults \/ lost = {}
         /\ row' = [a \in Apps |-> IF Present(a) THEN Recovered(a, lost) ELSE row[a]]
         /\ queue' = [a \in Apps |->
              IF Verdict(a, lost) = "recover"
              THEN [wait |-> IF Promoted(a) THEN "sync" ELSE "async",
                    build |-> seen[a].status = "building" \/ a \in rebuild]
              ELSE IF Corrupt(a, lost) THEN [wait |-> "async", build |-> TRUE]
              ELSE NotQueued]
    /\ router' = "recovering"
    /\ seen' = [a \in Apps |-> BlankRow("new")]
    /\ UNCHANGED <<tokens, podman, task, loop>>

\* _restart_apps_sequential takes the next app: promoted apps before the
\* router serves, the others in one thread beside it.
RecoverNext(t, a) ==
    /\ task[t] = Idle /\ \A u \in Tasks : task[u].kind # "recover"
    /\ \/ router = "recovering" /\ queue[a].wait = "sync"
       \/ router \in {"up", "draining"} /\ queue[a].wait = "async"
    /\ Spawn(t, "recover", IF queue[a].build THEN "start" ELSE "restart", a)
    /\ queue' = [queue EXCEPT ![a] = NotQueued]
    /\ UNCHANGED <<row, tokens, podman, loop, router, seen>>

Serve ==
    /\ router = "recovering"
    /\ \A a \in Apps : queue[a].wait # "sync"
    /\ \A t \in Tasks : task[t].kind # "recover"
    /\ router' = "up"
    /\ UNCHANGED <<row, tokens, podman, task, loop, seen, queue>>

-----------------------------------------------------------------------------

Init ==
    /\ row = [a \in Apps |-> BlankRow("new")]
    /\ tokens = {}
    /\ podman = [n \in Names |-> Free]
    /\ task = [t \in Tasks |-> Idle]
    /\ loop = NoTask
    /\ router = IF "setup" \in Requests THEN "setup" ELSE "down"
    /\ seen = [a \in Apps |-> BlankRow("new")]
    /\ queue = [a \in Apps |-> NotQueued]

Request(t) ==
    \E a \in Apps :
        \/ \E n \in Names : AddApp(t, a, n) \/ RenameRead(t, a, n)
        \/ StopApp(t, a) \/ RemoveApp(t, a) \/ StorageGuard(t, a)
        \/ \E how \in {"reload", "update", "oauth"} : ReloadRead(t, a, how)

\* The threads, and the handlers while they hold the loop.
ThreadStep(t) ==
    \/ StopAppProcess(t) \/ StopByName(t) \/ StopWrite(t) \/ GuardWrite(t)
    \/ RemoveRead(t) \/ RemoveDelete(t) \/ ReloadSync(t) \/ RenameMark(t)
    \/ StartAppProcess(t) \/ RestartAppProcess(t) \/ Build(t) \/ ReadImageRow(t)
    \/ MarkLaunch(t) \/ ClearStale(t) \/ RunContainer(t) \/ RunFails(t)
    \/ RecordContainer(t) \/ RecordFails(t) \/ WaitForReady(t)
    \/ LaunchDone(t) \/ LaunchFailed(t) \/ LaunchFailureLost(t)

\* Handlers that come back from an await and need the loop.
LoopStep(t) == Pull(t) \/ Claim(t) \/ SpawnReload(t) \/ RenameUndo(t) \/ RenameWrite(t)

RouterStep == CheckRead \/ CheckWrite \/ Serve \/ (router = "draining" /\ Exit)

Next ==
    \/ \E t \in Tasks : Request(t) \/ ThreadStep(t) \/ LoopStep(t)
                        \/ \E a \in Apps : RecoverNext(t, a)
    \/ Promote \/ Exit \/ CheckRead \/ CheckWrite \/ Serve

Spec == Init /\ [][Next]_vars

\* Threads are scheduled and every subprocess they wait for has a timeout; the
\* event loop runs ready callbacks first in, first out.
Fairness ==
    /\ \A t \in Tasks : WF_vars(ThreadStep(t)) /\ SF_vars(LoopStep(t))
    /\ \A a \in Apps : SF_vars(\E t \in Tasks : RecoverNext(t, a))
    /\ WF_vars(RouterStep)

FairSpec == Spec /\ Fairness
=============================================================================
