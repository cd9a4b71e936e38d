-------------------------- MODULE ArchiveMigration --------------------------
(* The archive tier: apps write files into a JuiceFS mount whose objects lie  *)
(* in one store, and configure_backend moves them from the local file store   *)
(* into a bucket, or from one bucket to the next, while the row of            *)
(* archive_backend, the volume's metadata database and the FUSE process each  *)
(* have their own idea of the store.                                          *)
(*                                                                            *)
(* One step is one command of the migration (juicefs, systemctl, a commit):   *)
(* it may fail, and the router may be killed before the next one.             *)

EXTENDS FiniteSets

CONSTANTS
    Buckets,    \* S3 locations
    Local,      \* the local file store
    Down,       \* no mount
    Files,      \* files the apps may write
    Apps,       \* apps that use the archive
    Legacy,     \* DEFAULT_VOLUME_NAME
    Zone,       \* default_volume_name_for_zone
    Prefixes,   \* volume names the owner may ask for
    Zones,      \* what this zone may have been when the router is first started
    Faults,     \* commands that may fail, and other events of the environment
    Overlap     \* TRUE: the owner starts and stops apps during a migration

Stores  == Buckets \cup {Local}
Volumes == Prefixes \cup {Legacy, Zone}

ASSUME ArchiveAssumption ==
    /\ Local \notin Buckets /\ Down \notin Stores
    /\ Legacy \notin Prefixes \cup {Zone}
    /\ Zones \subseteq {"fresh", "legacy", "disabled"}
    /\ Faults \subseteq {"crash", "reboot", "fuse", "format", "attach", "mount", "umount", "podman",
                         "sync", "config", "commit", "reclaim", "restart", "unready"}
    /\ Overlap \in BOOLEAN

VARIABLES
    db,       \* the row of archive_backend
    meta,     \* the metadata database: is it formatted, with which store
    fuse,     \* the store the FUSE process reads and writes, or Down
    enabled,  \* the openhost-juicefs unit is enabled
    files,    \* files in the metadata database
    objs,     \* the objects of each store, by volume
    status,   \* apps.status of the apps that use the archive
    view,     \* what a live container has under its archive directory
    mig,      \* the configure_backend in progress
    router,
    torn,     \* a migration was cut, or its undo failed (see Cut)
    behind    \* files written behind the copy of a migration (see BehindTheCopy)

vars == <<db, meta, fuse, enabled, files, objs, status, view, mig, router, torn, behind>>

-----------------------------------------------------------------------------
Backend == [backend : {"local", "s3", "disabled"}, store : Stores, volume : Volumes]
Pcs == {"idle", "format", "mount", "quiesce", "sync", "repoint", "umount", "remount",
        "commit", "reclaim", "undo_point", "undo_umount", "undo_mount", "restart"}
Migration == [pc : Pcs, from : Backend, to : Stores, volume : Volumes, quiesced : SUBSET Apps]

TypeOK ==
    /\ db \in Backend
    /\ meta \in [formatted : BOOLEAN, store : Stores, volume : Volumes]
    /\ fuse \in Stores \cup {Down}
    /\ enabled \in BOOLEAN
    /\ files \subseteq Files
    /\ objs \in [Stores -> [Volumes -> SUBSET Files]]
    /\ status \in [Apps -> {"running", "starting", "stopped", "error"}]
    /\ view \in [Apps -> {"none", "archive", "dead", "bare"}]
    /\ mig \in Migration
    /\ router \in {"up", "down"}
    /\ torn \in BOOLEAN
    /\ behind \subseteq Files

-----------------------------------------------------------------------------
(* Helpers *)

At(pc)   == mig.pc = pc
Goto(pc) == mig' = [mig EXCEPT !.pc = pc]
NoMigration == [mig EXCEPT !.pc = "idle", !.quiesced = {}]

\* Every failure of a step goes to the except clause.
Fail == Goto(IF mig.from.backend = "disabled" THEN "undo_umount" ELSE "undo_point")
MayFail(fault) == fault \in Faults /\ Fail

\* A container keeps the mount it was started with; once that is gone its
\* archive directory is dead.
Detached == [a \in Apps |-> IF view[a] = "archive" THEN "dead" ELSE view[a]]
\* The bind mount a new container gets.
Bound == IF fuse = Down THEN "bare" ELSE "archive"

\* Row, volume and mount are on one store.
Agreed == (db.backend = "disabled" \/ db.store = meta.store) /\ fuse \in {Down, meta.store}
\* A migration that is cut (by a crash, or by its undo failing) while they are
\* not is torn, and so is a first configuration cut after its mount.
Cut == torn' = (torn \/ ~Agreed \/ (db.backend = "disabled" /\ enabled))

-----------------------------------------------------------------------------
(* Apps.  AppLifecycle has their life in detail; here a launch binds the      *)
(* container to whatever is at the mount point, mounted or not.               *)

\* The add and reload routes refuse an app that needs the archive when it is
\* not healthy; boot recovery does not ask.
StartApp(a) ==
    /\ router = "up" /\ status[a] = "stopped"
    /\ db.backend = "disabled" \/ fuse # Down
    /\ Overlap \/ At("idle")
    /\ status' = [status EXCEPT ![a] = "starting"]
    /\ UNCHANGED <<db, meta, fuse, enabled, files, objs, view, mig, router, torn, behind>>

Launch(a) ==
    /\ router = "up" /\ status[a] = "starting" /\ view[a] = "none"
    /\ view' = [view EXCEPT ![a] = Bound]
    /\ UNCHANGED <<db, meta, fuse, enabled, files, objs, status, mig, router, torn, behind>>

\* An app that does not answer in time is 'error', and its container lives on.
Outcome == {"running"} \cup {s \in {"error"} : "unready" \in Faults}

LaunchDone(a) ==
    /\ router = "up" /\ status[a] = "starting" /\ view[a] # "none"
    /\ \E s \in Outcome : status' = [status EXCEPT ![a] = s]
    /\ UNCHANGED <<db, meta, fuse, enabled, files, objs, view, mig, router, torn, behind>>

StopApp(a) ==
    /\ router = "up" /\ status[a] \in {"running", "error"}
    /\ Overlap \/ At("idle")
    /\ status' = [status EXCEPT ![a] = "stopped"]
    /\ view' = [view EXCEPT ![a] = "none"]
    /\ UNCHANGED <<db, meta, fuse, enabled, files, objs, mig, router, torn, behind>>

\* Nothing copies what is written here: the migration has begun to read its
\* source, or was to be undone and the volume is still on the destination.
BehindTheCopy ==
    \/ mig.pc \in {"sync", "repoint", "umount"}
    \/ At("undo_point") /\ meta.store # fuse

Write(a, f) ==
    /\ view[a] = "archive" /\ fuse # Down /\ f \notin files
    /\ files' = files \cup {f}
    /\ objs' = [objs EXCEPT ![fuse][meta.volume] = @ \cup {f}]
    /\ behind' = IF BehindTheCopy THEN behind \cup {f} ELSE behind
    /\ UNCHANGED <<db, meta, fuse, enabled, status, view, mig, router, torn>>

-----------------------------------------------------------------------------
(* configure_backend: the owner asks for a bucket, and perhaps a prefix.      *)

\* The volume name is kept, unless there is none yet or it is the legacy one.
VolumeFor(state, asked) ==
    CASE state.backend = "s3" -> state.volume
      [] state.backend = "local" /\ state.volume # Legacy -> state.volume
      [] OTHER -> asked

Configure(bucket, asked) ==
    /\ router = "up" /\ At("idle")
    /\ Overlap \/ \A a \in Apps : status[a] # "starting"
    /\ mig' = [pc |-> IF db.backend = "s3" THEN "mount" ELSE "format", from |-> db, to |-> bucket,
               volume |-> VolumeFor(db, asked), quiesced |-> {}]
    /\ UNCHANGED <<db, meta, fuse, enabled, files, objs, status, view, router, torn, behind>>

\* Mutant: the volume keeps the legacy name whatever it is formatted with.
FormatLegacy(store, volume) ==
    meta' = IF meta.formatted THEN meta
            ELSE [formatted |-> TRUE, store |-> store, volume |-> Legacy]

\* juicefs format leaves a formatted volume's name and data alone.
FormatVolume(store, volume) ==
    meta' = IF meta.formatted THEN [meta EXCEPT !.store = store]
            ELSE [formatted |-> TRUE, store |-> store, volume |-> volume]

\* The local volume is formatted only if it is not yet, a 'disabled' zone is
\* formatted in the bucket.
Format ==
    /\ At("format")
    /\ \/ /\ IF mig.from.backend = "disabled"
             THEN FormatVolume(mig.to, mig.volume)
             ELSE IF meta.formatted THEN meta' = meta ELSE FormatVolume(Local, mig.volume)
          /\ Goto(IF mig.from.backend = "disabled" THEN "remount" ELSE "mount")
       \/ MayFail("format") /\ meta' = meta
    /\ UNCHANGED <<db, fuse, enabled, files, objs, status, view, router, torn, behind>>

\* mount: nothing to do when there is one; else the unit is enabled and started
\* and reads its store from the volume.
Mounts ==
    /\ fuse # Down \/ meta.formatted
    /\ fuse' = IF fuse = Down THEN meta.store ELSE fuse
    /\ enabled' = TRUE

Mount ==
    /\ \/ At("mount") /\ Mounts /\ Goto("quiesce")
       \/ At("remount") /\ Mounts /\ Goto("commit")
       \/ /\ At("mount") \/ At("remount")
          /\ fuse = Down /\ fuse' = fuse /\ enabled' = TRUE /\ MayFail("mount")
    /\ UNCHANGED <<db, meta, files, objs, status, view, router, torn, behind>>

\* Mutant: containers are stopped and not looked at again.
QuiesceUnverified ==
    /\ At("quiesce")
    /\ \E left \in SUBSET {a \in Apps : status[a] = "running"} :
         /\ "podman" \in Faults \/ left = {}
         /\ view' = [a \in Apps |-> IF status[a] = "running" /\ a \notin left THEN "none" ELSE view[a]]
    /\ mig' = [mig EXCEPT !.pc = "sync", !.quiesced = {a \in Apps : status[a] = "running"}]
    /\ behind' = behind \ objs[mig.from.store][mig.volume]
    /\ UNCHANGED <<db, meta, fuse, enabled, files, objs, status, router, torn>>

\* What the sync reads.
Source == objs[mig.from.store][mig.volume]

\* stop_running_archive_apps: every app whose row says 'running' is stopped and
\* recorded; the migration goes on only if none of them is still alive.  Apps
\* with another status are not looked at, whatever their containers do.
Quiesce ==
    LET running == {a \in Apps : status[a] = "running"} IN
    /\ At("quiesce")
    /\ \E left \in SUBSET running :
         LET stopped == \A a \in left : view[a] = "none" IN
         /\ "podman" \in Faults \/ left = {}
         /\ view' = [a \in Apps |-> IF a \in running \ left THEN "none" ELSE view[a]]
         /\ mig' = [mig EXCEPT !.quiesced = running,
                               !.pc = IF stopped THEN "sync" ELSE "undo_point"]
         /\ behind' = IF stopped THEN behind \ Source ELSE behind
    /\ UNCHANGED <<db, meta, fuse, enabled, files, objs, status, router, torn>>

Copy(part) == objs' = [objs EXCEPT ![mig.to][mig.volume] = @ \cup part]

\* Mutant: juicefs sync without --check-all, and its exit status not looked at.
SyncUnverified ==
    /\ At("sync")
    /\ \E part \in SUBSET Source : Copy(part)
    /\ Goto("repoint")
    /\ UNCHANGED <<db, meta, fuse, enabled, files, status, view, router, torn, behind>>

\* Of what is written while it runs, the sync may miss any part.
Sync ==
    /\ At("sync")
    /\ \/ \E missed \in SUBSET behind : Copy(Source \ missed) /\ Goto("repoint")
       \/ \E part \in SUBSET Source : Copy(part) /\ MayFail("sync")
    /\ UNCHANGED <<db, meta, fuse, enabled, files, status, view, router, torn, behind>>

\* juicefs config; a timeout may hit before or after it has taken effect.
Repoint ==
    /\ At("repoint")
    /\ \/ meta' = [meta EXCEPT !.store = mig.to] /\ Goto("umount")
       \/ \E store \in {meta.store, mig.to} :
            meta' = [meta EXCEPT !.store = store] /\ MayFail("config")
    /\ UNCHANGED <<db, fuse, enabled, files, objs, status, view, router, torn, behind>>

\* umount stops the unit and disables it.
Unmounts == fuse' = Down /\ enabled' = FALSE /\ view' = Detached

Umount ==
    /\ At("umount")
    /\ \/ Unmounts /\ Goto("remount")
       \/ UNCHANGED <<fuse, enabled, view>> /\ fuse # Down /\ MayFail("umount")
    /\ UNCHANGED <<db, meta, files, objs, status, router, torn, behind>>

\* Mutant: the row is flipped without its bucket.
CommitNoBucket ==
    /\ At("commit")
    /\ db' = [backend |-> "s3", store |-> Down, volume |-> mig.volume]
    /\ Goto("reclaim")
    /\ UNCHANGED <<meta, fuse, enabled, files, objs, status, view, router, torn, behind>>

Commit ==
    /\ At("commit")
    /\ \/ /\ db' = [backend |-> "s3", store |-> mig.to, volume |-> mig.volume]
          /\ Goto(IF mig.from.backend = "disabled" THEN "restart" ELSE "reclaim")
       \/ db' = db /\ MayFail("commit")
    /\ UNCHANGED <<meta, fuse, enabled, files, objs, status, view, router, torn, behind>>

\* Mutant: objects are reclaimed from wherever they were migrated from.
ReclaimAlways ==
    /\ At("reclaim")
    /\ objs' = [objs EXCEPT ![mig.from.store][mig.volume] = {}]
    /\ Goto("restart")
    /\ UNCHANGED <<db, meta, fuse, enabled, files, status, view, router, torn, behind>>

\* The local store goes as a whole, of a bucket only what is under the volume
\* prefix; nothing if source and destination are one.  Errors are logged.
SameLocation == mig.from.store = mig.to /\ mig.from.volume = mig.volume

Reclaim ==
    /\ At("reclaim")
    /\ \E kept \in SUBSET Files :
         /\ "reclaim" \in Faults \/ kept = {}
         /\ objs' = IF SameLocation THEN objs
                    ELSE IF mig.from.store = Local
                    THEN [objs EXCEPT ![Local] = [v \in Volumes |-> @[v] \cap kept]]
                    ELSE [objs EXCEPT ![mig.from.store][mig.volume] = @ \cap kept]
    /\ Goto("restart")
    /\ UNCHANGED <<db, meta, fuse, enabled, files, status, view, router, torn, behind>>

-----------------------------------------------------------------------------
(* The except clause: point back at the source and mount it again; what goes  *)
(* wrong here is logged.                                                      *)

UndoPoint ==
    /\ At("undo_point")
    /\ \/ /\ meta.formatted /\ meta' = [meta EXCEPT !.store = mig.from.store]
          /\ Goto("undo_umount") /\ torn' = torn
       \/ /\ "config" \in Faults \/ ~meta.formatted
          /\ meta' = meta /\ Goto("restart") /\ Cut
    /\ UNCHANGED <<db, fuse, enabled, files, objs, status, view, router, behind>>

UndoUmount ==
    /\ At("undo_umount")
    /\ \/ /\ Unmounts /\ torn' = torn
          /\ Goto(IF mig.from.backend = "disabled" THEN "restart" ELSE "undo_mount")
       \/ /\ "umount" \in Faults /\ fuse # Down /\ UNCHANGED <<fuse, enabled, view>>
          /\ Goto("restart") /\ Cut
    /\ UNCHANGED <<db, meta, files, objs, status, router, behind>>

UndoMount ==
    /\ At("undo_mount")
    /\ enabled' = TRUE
    /\ \/ fuse' = meta.store
       \/ "mount" \in Faults /\ fuse' = Down
    /\ Goto("restart")
    /\ UNCHANGED <<db, meta, files, objs, status, view, router, torn, behind>>

\* restart_apps_by_id, only onto a live mount; a restart that fails before the
\* launch leaves 'running' in the row, one that does not answer 'error'.
Restartable == IF fuse = Down THEN {} ELSE mig.quiesced

RestartApps ==
    /\ At("restart")
    /\ \E failed, marked \in SUBSET Restartable :
         /\ "restart" \in Faults \/ failed = {}
         /\ "unready" \in Faults \/ marked \subseteq failed
         /\ view' = [a \in Apps |-> IF a \in failed THEN "none"
                                    ELSE IF a \in Restartable THEN Bound ELSE view[a]]
         /\ status' = [a \in Apps |-> IF a \in marked THEN "error" ELSE status[a]]
    /\ mig' = NoMigration
    /\ UNCHANGED <<db, meta, fuse, enabled, files, objs, router, torn, behind>>

-----------------------------------------------------------------------------
(* The machine                                                                *)

\* systemd keeps an enabled unit alive.
FuseUp ==
    /\ enabled /\ fuse = Down /\ meta.formatted
    /\ fuse' = meta.store
    /\ UNCHANGED <<db, meta, enabled, files, objs, status, view, mig, router, torn, behind>>

FuseCrash ==
    /\ "fuse" \in Faults /\ fuse # Down
    /\ fuse' = Down /\ view' = Detached
    /\ UNCHANGED <<db, meta, enabled, files, objs, status, mig, router, torn, behind>>

\* The router is killed: the mount is a unit of its own and containers live on.
Crash ==
    /\ "crash" \in Faults /\ router = "up"
    /\ router' = "down" /\ mig' = NoMigration /\ Cut
    /\ UNCHANGED <<db, meta, fuse, enabled, files, objs, status, view, behind>>

Reboot ==
    /\ "reboot" \in Faults
    /\ router' = "down" /\ mig' = NoMigration /\ Cut
    /\ fuse' = Down /\ view' = [a \in Apps |-> "none"]
    /\ UNCHANGED <<db, meta, enabled, files, objs, status, behind>>

\* attach_on_startup on the local backend: a volume that has never been
\* formatted gets the zone's name first; its failures are only reported.
AttachLocal ==
    LET name == IF db.volume = Legacy THEN Zone ELSE db.volume IN
    /\ db.backend = "local"
    /\ IF meta.formatted
       THEN UNCHANGED <<db, meta>>
       ELSE \/ db' = [db EXCEPT !.volume = name] /\ FormatVolume(Local, name)
            \/ /\ "attach" \in Faults
               /\ db' \in {db, [db EXCEPT !.volume = name]} /\ meta' = meta

\* ... then the mount, which needs a formatted volume and its credentials.
Attach ==
    /\ \/ AttachLocal
       \/ db.backend # "local" /\ UNCHANGED <<db, meta>>
    /\ IF db.backend = "disabled" \/ ~meta'.formatted
       THEN UNCHANGED <<fuse, enabled>>
       ELSE \/ fuse' = (IF fuse = Down THEN meta'.store ELSE fuse) /\ enabled' = TRUE
            \/ "attach" \in Faults /\ fuse' = fuse /\ enabled' \in {enabled, TRUE}

\* Boot: the archive first, then check_app_status hands dead apps to recovery.
Boot ==
    /\ router = "down" /\ router' = "up"
    /\ Attach
    /\ status' = [a \in Apps |-> IF status[a] = "running" /\ view[a] = "none"
                                 THEN "starting" ELSE status[a]]
    /\ UNCHANGED <<files, objs, view, mig, torn, behind>>

-----------------------------------------------------------------------------

FreshRow == [backend |-> "local", store |-> Local, volume |-> Legacy]

Init ==
    /\ \E zone \in Zones :
         /\ db = [FreshRow EXCEPT !.backend = IF zone = "disabled" THEN "disabled" ELSE "local"]
         /\ meta = [formatted |-> zone = "legacy", store |-> Local, volume |-> Legacy]
    /\ fuse = Down /\ enabled = FALSE
    /\ files = {}
    /\ objs = [s \in Stores |-> [v \in Volumes |-> {}]]
    /\ status = [a \in Apps |-> "stopped"]
    /\ view = [a \in Apps |-> "none"]
    /\ mig = [pc |-> "idle", from |-> FreshRow, to |-> Local, volume |-> Legacy, quiesced |-> {}]
    /\ router = "down"
    /\ torn = FALSE
    /\ behind = {}

MigrationStep ==
    \/ Format \/ Mount \/ Quiesce \/ Sync \/ Repoint \/ Umount \/ Commit \/ Reclaim
    \/ UndoPoint \/ UndoUmount \/ UndoMount \/ RestartApps

AppStep(a) ==
    \/ StartApp(a) \/ Launch(a) \/ LaunchDone(a) \/ StopApp(a)
    \/ \E f \in Files : Write(a, f)

Next ==
    \/ \E b \in Buckets, v \in Prefixes : Configure(b, v)
    \/ MigrationStep
    \/ \E a \in Apps : AppStep(a)
    \/ FuseUp \/ FuseCrash \/ Crash \/ Reboot \/ Boot

Spec == Init /\ [][Next]_vars

-----------------------------------------------------------------------------
(* Properties *)

\* No file is ever destroyed: some store still has the object of every file the
\* volume's metadata lists, whatever fails and wherever a migration is cut.  Not
\* so the files an app writes behind the copy; NoLiveWriter says which app can.
NothingLost ==
    \A f \in files \ behind : \E s \in Stores : f \in objs[s][meta.volume]

\* Fail-open: as long as no migration was cut and no undo failed, whatever is
\* mounted shows every file, before, during and after a migration, but for the
\* files that were written behind its copy.
Readable ==
    ~torn /\ fuse # Down => files \ behind \subseteq objs[fuse][meta.volume]

\* From the sync to the unmount no app can write into the source but one whose
\* launch was given up as 'error' while its container lived on, which the quiesce
\* does not look for; and from the unmount to the reclaim none at all.
NoLiveWriter ==
    mig.from.backend # "disabled" =>
        /\ mig.pc \in {"sync", "repoint", "umount"} =>
               \A a \in Apps : view[a] = "archive" => status[a] = "error"
        /\ mig.pc \in {"remount", "commit", "reclaim"} =>
               \A a \in Apps : view[a] # "archive"

\* Objects are deleted only from a store that row, volume and mount have left.
ReclaimsLast ==
    [][\A s \in Stores :
         (\E v \in Volumes : ~(objs[s][v] \subseteq objs'[s][v])) =>
             db.store # s /\ meta.store # s /\ fuse # s]_objs

=============================================================================
