--------------------------- MODULE AppProperties ---------------------------
(* What should be true of AppLifecycle, and what the router's docs, comments  *)
(* and tests say is true of it.                                               *)
EXTENDS AppLifecycle

-----------------------------------------------------------------------------
(* Safety *)

\* Somebody in flight has still to write where a transient status leads.
Owner(t, a) ==
    /\ task[t].app = a
    /\ \/ task[t].kind \in Launchers /\ task[t].pc \in LaunchPcs
       \/ task[t].kind = "reload_req" /\ task[t].pc \in {"stop_cid", "spawn"}

\* While the router serves, no app is stranded in 'building' or 'starting':
\* a thread or handler is at work on it, or boot recovery has it queued.
\* (reload refuses such a row, so nothing but a stop or a reboot would free it.)
\* It needs what the code does not guarantee: a failure that can be written down
\* (no "unrecorded"), a thread that starts (no "spawn"), a rename whose build
\* raises nothing but RuntimeError and ValueError (no "build" with "rename").
NotStranded ==
    router = "up" =>
        \A a \in Apps : row[a].status \in Transient =>
            queue[a].wait = "async" \/ \E t \in Tasks : Owner(t, a)

\* Whoever holds container id c holds it for app a: its row, a handler or
\* thread at work for it, or podman, which knows whose container it started.
Holds(c, a) ==
    \/ row[a].cid = c
    \/ \E t \in Tasks : task[t].app = a /\ task[t].cid = c
    \/ \E n \in Names : podman[n] = [cid |-> c, app |-> a]

\* A stale container id is only ever stale: no row and no handler, however late
\* it acts on the row it read, holds the id of another app's container.
IdsNeverCross ==
    \A c \in Cids, a, b \in Apps : Holds(c, a) /\ Holds(c, b) => a = b

\* Nothing is served before every app that set_primary_domain handed over was
\* relaunched by the synchronous half of boot recovery.
PromotedBeforeServing ==
    router = "up" => \A a \in Apps : ~(row[a].status = "starting" /\ row[a].err = "marker")

\* At most one thread at a time launches the container of an app: the reload
\* route's atomic claim and the boot check, which leaves apps this process is
\* deploying alone, keep a second worker away.
OneLauncher ==
    \A t, u \in Tasks :
        /\ task[t].kind \in Launchers /\ task[u].kind \in Launchers
        /\ task[t].app = task[u].app
        => t = u

\* The table and podman agree about an app nothing is in flight for: a running
\* row names a live container, and a live container belongs to a row that
\* names it and is not 'stopped'.
Agree(a) ==
    /\ row[a].status = "running" => Live(row[a].cid)
    /\ \A n \in Names : podman[n].app = a =>
           /\ row[a].cid = podman[n].cid /\ row[a].name = n
           /\ row[a].status # "stopped"

SettledAppsAgree == router = "up" => \A a \in Apps : Quiet(a) => Agree(a)

\* Tokens of deleted apps are gone: remove_app_background's DELETE cascades.
NoOrphanTokens == tokens \subseteq {a \in Apps : Present(a)}

-----------------------------------------------------------------------------
(* Action properties *)

\* A deleted row stays deleted, whatever deploy, reload, recovery or rename is
\* still about for it: their late UPDATEs find no row.
DeletedForGood == [][\A a \in Apps : row[a].status = "gone" => row'[a].status = "gone"]_row

\* Whoever takes a container down while the router runs (stop_container by id,
\* the stop route and run_container by name) acts for its own app.
OwnContainersOnly ==
    [][\A n \in Names :
         podman[n] # Free /\ podman'[n] # podman[n] /\ router' # "down"
         => \E t \in Tasks : task[t].app = podman[n].app /\ task'[t] # task[t]]_vars

-----------------------------------------------------------------------------
(* Liveness *)

\* Every launch comes to an end: run_app_image and the handlers around it write
\* a final status on every path, provided one of their writes succeeds.
Settles == \A a \in Apps : row[a].status \in Transient ~> row[a].status \notin Transient

\* An accepted removal whose DELETE succeeds, or whose failure can at least be
\* written down, comes to an end, whatever launches write over it meanwhile:
\* remove_app_background deletes the row or gives it back as 'error'.  When that
\* second write fails too (fault "unrecorded") the row stays 'removing'.
RemovalEnds == \A a \in Apps : row[a].status = "removing" ~> row[a].status # "removing"

=============================================================================
