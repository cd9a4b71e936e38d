------------------------------ MODULE AppData ------------------------------
(***************************************************************************)
(* Where an app's files are.  An app is identified by its app_id, but its   *)
(* directories - <tier>/<name>, one in each storage tier - and its source,  *)
(* <temp>/<name>/repo, are keyed by its name, which is the owner's to       *)
(* change and free to be used again (core/data.py, core/apps.py, the        *)
(* add_app, rename_app and remove_app routes of web/routes/api/apps.py).    *)
(*                                                                         *)
(* AppLifecycle has the statuses and containers, ArchiveMigration what is   *)
(* written while the archive is not mounted; here an archive that is not    *)
(* mounted only hides its directories.                                     *)
(***************************************************************************)
EXTENDS Naturals, FiniteSets

CONSTANTS
  Apps, NoApp,
  Names, NoName,
  Archived,   \* the apps whose manifest asks for app_archive
  Faults,     \* "insert", "launch", "dirs", "undo", "db", "rmtree"; "fuse" and
              \* "crash" while no request moves or removes files, "midway" also
              \* while one does
  Habits,     \* of the owner: "overlap", "reuse"
  MaxEvents   \* how many requests and faults there are, all in all

ASSUME AppDataAssumption ==
  /\ NoApp \notin Apps /\ NoName \notin Names
  /\ Archived \subseteq Apps
  /\ MaxEvents \in Nat

Tiers == {"app_data", "temp", "archive"}

VARIABLES
  row,      \* the row of `apps`: its status and its name
  disk,     \* disk[t][n]: the apps that have written to directory n of tier t, or Absent
  repo,     \* repo[n]: the app whose source is in app_temp_data/n/repo, or NoApp
  mounted,  \* whether the archive is
  task,     \* task[a]: the request about a that is waiting for a thread
  thread,   \* thread[a]: the background thread at work on a
  image,    \* image[a]: the app whose source a's image was built from
  wrote,    \* wrote[a]: the tiers a has written to, but for what its removal
            \* deleted (history)
  left,     \* the apps whose files a removal kept or could not delete (history)
  astray,   \* astray[a]: the tiers that a rename of a, refused in the end, has left
            \* under the name a was to have (history)
  events

vars == <<row, disk, repo, mounted, task, thread, image, wrote, left, astray, events>>

-----------------------------------------------------------------------------
(* Helpers *)

Absent == {NoApp}
NoTask == [pc |-> "idle", to |-> NoName, prior |-> "none", moved |-> {}]

TypeOK ==
  /\ row \in [Apps -> [status : {"none", "building", "running", "stopped", "error",
                                 "removing", "gone"},
                       name : Names \cup {NoName}]]
  /\ disk \in [Tiers -> [Names -> (SUBSET Apps) \cup {Absent}]]
  /\ repo \in [Names -> Apps \cup {NoApp}]
  /\ mounted \in BOOLEAN
  /\ task \in [Apps -> [pc : {"idle", "insert", "app_data", "temp", "archive", "record"},
                        to : Names \cup {NoName},
                        prior : {"none", "running", "stopped", "error"},
                        moved : SUBSET Tiers]]
  /\ thread \in [Apps -> {"none", "deploy", "start", "remove", "keep", "delete"}]
  /\ image \in [Apps -> Apps \cup {NoApp}]
  /\ wrote \in [Apps -> SUBSET Tiers]
  /\ left \subseteq Apps
  /\ astray \in [Apps -> SUBSET Tiers]
  /\ events \in 0..MaxEvents

Exists(a) == row[a].status \notin {"none", "gone"}
Taken(n)  == \E a \in Apps : Exists(a) /\ row[a].name = n

\* What a path leads to at the moment.
Reach == IF mounted THEN Tiers ELSE Tiers \ {"archive"}

\* is_archive_dir_healthy, where the manifest makes it matter
Healthy(a) == a \in Archived => mounted

\* The tiers a manifest asks for: app_data is on by default, and the temp
\* directory is always made.
Asked(a) == {"app_data", "temp"} \cup (IF a \in Archived THEN {"archive"} ELSE {})

\* make_data_dirs_and_env_vars: what is there is kept.
Made(a, n) ==
  [t \in Tiers |->
     IF t \in Asked(a) \cap Reach /\ disk[t][n] = Absent
     THEN [disk[t] EXCEPT ![n] = {}] ELSE disk[t]]

Event    == events < MaxEvents /\ events' = events + 1
Fault(f) == f \in Faults /\ Event

At(a, pc)    == task[a].pc = pc
Enter(a, w)  == task' = [task EXCEPT ![a] = w]
Leave(a)     == Enter(a, NoTask)
Spawn(a, th) == thread' = [thread EXCEPT ![a] = th]
SetStatus(a, s) == row' = [row EXCEPT ![a].status = s]

\* The owner asks nothing of an app that is being launched or asked something
\* already (AppLifecycle has those who do), and the patient one waits for the
\* answer to one request before sending the next.
Admit(a) ==
  /\ Event /\ At(a, "idle") /\ thread[a] = "none"
  /\ "overlap" \in Habits \/ \A b \in Apps : At(b, "idle")

-----------------------------------------------------------------------------
(* Installing *)

\* Mutant: a directory left by an earlier install stays where it is, and
\* shutil.move puts the clone inside of it.
MoveInside(a, n) ==
  repo' = IF repo[n] = NoApp THEN [repo EXCEPT ![n] = a] ELSE repo

\* move_clone_to_app_temp_dir
MoveClone(a, n) == repo' = [repo EXCEPT ![n] = a]

\* api_add_app as far as its await of _pin_refless_to_landed_branch; nothing
\* has happened yet when validate_manifest or the archive's health refuses.
AddApp(a, n) ==
  /\ row[a].status = "none" /\ Admit(a)
  /\ ~Taken(n) /\ Healthy(a)
  /\ MoveClone(a, n)
  /\ disk' = [disk EXCEPT !["temp"][n] = @ \ Absent]
  /\ Enter(a, [NoTask EXCEPT !.pc = "insert", !.to = n])
  /\ UNCHANGED <<row, mounted, thread, image, wrote, left, astray>>

\* insert_and_deploy.  The name is UNIQUE, and the directories are made before
\* the INSERT finds that out.
Insert(a) ==
  /\ At(a, "insert")
  /\ disk' = Made(a, task[a].to)
  /\ IF Taken(task[a].to)
     THEN UNCHANGED <<row, thread>>
     ELSE /\ row' = [row EXCEPT ![a] = [status |-> "building", name |-> task[a].to]]
          /\ Spawn(a, "deploy")
  /\ Leave(a)
  /\ UNCHANGED <<repo, mounted, image, wrote, left, astray, events>>

\* There is no room on the disk, no port, or one that is taken: the clone stays.
InsertRefused(a) ==
  /\ At(a, "insert") /\ Fault("insert") /\ Leave(a)
  /\ UNCHANGED <<row, disk, repo, mounted, thread, image, wrote, left, astray>>

-----------------------------------------------------------------------------
(* Launching *)

\* reload_app, without an update
Reload(a) ==
  /\ row[a].status \in {"running", "stopped", "error"} /\ Admit(a) /\ Healthy(a)
  /\ disk' = [disk EXCEPT !["temp"][row[a].name] = @ \ Absent]  \* its docker.log
  /\ SetStatus(a, "building") /\ Spawn(a, "start")
  /\ UNCHANGED <<repo, mounted, task, image, wrote, left, astray>>

StopApp(a) ==
  /\ row[a].status \in {"running", "error"} /\ Admit(a)
  /\ SetStatus(a, "stopped")
  /\ UNCHANGED <<disk, repo, mounted, task, thread, image, wrote, left, astray>>

\* The source is where the row's repo_path says, directories are made unless the
\* install has just made them, and the container writes to all that it is given.
Launches(a) ==
  LET n    == row[a].name
      dirs == IF thread[a] = "start" THEN Made(a, n) ELSE disk
      mine == {t \in Asked(a) : dirs[t][n] # Absent /\ t \in Reach}
  IN  /\ repo[n] # NoApp
      /\ thread[a] = "deploy" => mine = Asked(a)  \* podman refuses a missing source
      /\ image' = [image EXCEPT ![a] = repo[n]]
      /\ disk' = [t \in Tiers |-> IF t \in mine THEN [dirs[t] EXCEPT ![n] = @ \cup {a}]
                                  ELSE dirs[t]]
      /\ wrote' = [wrote EXCEPT ![a] = @ \cup mine]
      /\ SetStatus(a, "running")

LaunchFails(a) ==
  /\ \/ repo[row[a].name] = NoApp
     \/ thread[a] = "deploy" /\ ~(Asked(a) \subseteq {t \in Reach : disk[t][row[a].name] # Absent})
     \/ "launch" \in Faults
  /\ SetStatus(a, "error")
  /\ UNCHANGED <<disk, image, wrote>>

Launch(a) ==
  /\ thread[a] \in {"deploy", "start"}
  /\ Launches(a) \/ LaunchFails(a)
  /\ Spawn(a, "none")
  /\ UNCHANGED <<repo, mounted, task, left, astray, events>>

-----------------------------------------------------------------------------
(* Renaming *)

Unused(n) == repo[n] = NoApp /\ \A t \in Tiers : disk[t][n] = Absent

\* rename_app as far as its await of _rename_app_storage_dirs.
Rename(a, n) ==
  /\ row[a].status \in {"running", "stopped", "error"}
  /\ Admit(a) /\ Healthy(a)
  /\ n # row[a].name /\ ~Taken(n)
  /\ "reuse" \in Habits \/ Unused(n)
  /\ SetStatus(a, "stopped")
  /\ Enter(a, [pc |-> "app_data", to |-> n, prior |-> row[a].status, moved |-> {}])
  /\ UNCHANGED <<disk, repo, mounted, thread, image, wrote, left, astray>>

After == [app_data |-> "temp", temp |-> "archive", archive |-> "record"]

\* os.rename in tier t, and with the temp directory goes the source.
Moved(t, from, to) ==
  /\ disk' = [disk EXCEPT ![t][from] = Absent, ![t][to] = disk[t][from]]
  /\ repo' = IF t = "temp" THEN [repo EXCEPT ![from] = NoApp, ![to] = repo[from]] ELSE repo

\* One tier of _rename_app_storage_dirs.
MoveTier(a) ==
  LET t    == task[a].pc
      from == row[a].name
      to   == task[a].to
      able == t \in Reach /\ disk[t][from] # Absent /\ disk[t][to] = Absent
  IN  /\ t \in Tiers
      /\ IF able THEN Moved(t, from, to) ELSE UNCHANGED <<disk, repo>>
      /\ Enter(a, [task[a] EXCEPT !.pc = After[t],
                                  !.moved = IF able THEN @ \cup {t} ELSE @])
      /\ UNCHANGED <<row, mounted, thread, image, wrote, left, astray, events>>

\* Mutant: what has been moved stays where it is.
MovedStays(a, back) == disk' = disk /\ repo' = repo

\* Tiers that were moved are moved back.
MoveBack(a, back) ==
  LET from == row[a].name  to == task[a].to IN
    /\ disk' = [t \in Tiers |->
                  IF t \in back
                  THEN [disk[t] EXCEPT ![from] = disk[t][to], ![to] = Absent]
                  ELSE disk[t]]
    /\ repo' = IF "temp" \in back
               THEN [repo EXCEPT ![from] = repo[to], ![to] = NoApp] ELSE repo

\* The directories of these tiers stay where the rename has brought them.
Strand(a, tiers) == astray' = [astray EXCEPT ![a] = @ \cup tiers]

\* os.rename raises.  The tiers that were moved are moved back one by one, each
\* of which may fail (stuck) and is only logged; the row gets back the status it
\* had, or stays 'stopped' if that cannot be written.
MoveFails(a) ==
  /\ task[a].pc \in Reach /\ Fault("dirs")
  /\ \E stuck \in SUBSET task[a].moved :
       /\ stuck # {} => "undo" \in Faults
       /\ MoveBack(a, task[a].moved \ stuck)
       /\ Strand(a, stuck)
  /\ SetStatus(a, task[a].prior) \/ ("db" \in Faults /\ row' = row)
  /\ Leave(a)
  /\ UNCHANGED <<mounted, thread, image, wrote, left>>

\* The row follows and what ran is started again.  It does not if its new name
\* has been taken since, or cannot be written: then nothing is undone.
Record(a) ==
  /\ At(a, "record")
  /\ \/ /\ ~Taken(task[a].to) /\ astray' = astray
        /\ IF task[a].prior = "running"
           THEN /\ row' = [row EXCEPT ![a] = [status |-> "building", name |-> task[a].to]]
                /\ Spawn(a, "start")
           ELSE row' = [row EXCEPT ![a].name = task[a].to] /\ thread' = thread
     \/ /\ Taken(task[a].to) \/ "db" \in Faults
        /\ Strand(a, task[a].moved)
        /\ UNCHANGED <<row, thread>>
  /\ Leave(a)
  /\ UNCHANGED <<disk, repo, mounted, image, wrote, left, events>>

-----------------------------------------------------------------------------
(* Removing *)

\* Mutant: the removal is not refused while the archive is down.
AnyHealth(a, keep) == TRUE

\* What is not mounted cannot be deleted.
Deletable(a, keep) == keep \/ Healthy(a)

\* remove_app
Remove(a, keep) ==
  /\ Exists(a) /\ row[a].status # "removing" /\ Admit(a)
  /\ Deletable(a, keep)
  /\ SetStatus(a, "removing") /\ Spawn(a, IF keep THEN "keep" ELSE "remove")
  /\ UNCHANGED <<disk, repo, mounted, task, image, wrote, left, astray>>

\* remove_app_background as far as deprovision_data or deprovision_temp_data; a
\* directory that cannot be deleted (stuck) is logged and left.
Deprovision(a) ==
  LET n      == row[a].name
      doomed == IF thread[a] = "keep" THEN {"temp"} ELSE Reach
  IN  /\ thread[a] \in {"remove", "keep"}
      /\ \E stuck \in SUBSET doomed :
           /\ IF stuck = {} THEN events' = events ELSE Fault("rmtree")
           /\ disk' = [t \in Tiers |-> IF t \in doomed \ stuck
                                       THEN [disk[t] EXCEPT ![n] = Absent] ELSE disk[t]]
           /\ repo' = IF "temp" \in stuck THEN repo ELSE [repo EXCEPT ![n] = NoApp]
           /\ LET spared == stuck \cup (IF thread[a] = "keep" THEN Tiers ELSE {}) IN
                left' = left \cup UNION {disk[t][n] \ Absent : t \in spared}
           /\ wrote' = [wrote EXCEPT ![a] = @ \ (doomed \ stuck)]
      /\ Spawn(a, "delete")
      /\ UNCHANGED <<row, mounted, task, image, astray>>

\* The row goes last.  If the DELETE fails the row becomes 'error', unless that
\* cannot be written either.
DeleteRow(a) ==
  /\ thread[a] = "delete"
  /\ \/ row' = [row EXCEPT ![a] = [status |-> "gone", name |-> NoName]]
     \/ "db" \in Faults /\ \E s \in {"error", "removing"} : SetStatus(a, s)
  /\ Spawn(a, "none")
  /\ UNCHANGED <<disk, repo, mounted, task, image, wrote, left, astray, events>>

-----------------------------------------------------------------------------
(* The mount comes and goes, and so does the router *)

\* Files are being moved or removed.
Midway == \E a \in Apps : task[a].pc \in Tiers \cup {"record"} \/ thread[a] = "remove"

Spared == ~Midway \/ "midway" \in Faults

Unmount ==
  /\ mounted /\ Fault("fuse") /\ Spared
  /\ mounted' = FALSE
  /\ UNCHANGED <<row, disk, repo, task, thread, image, wrote, left, astray>>

Mount ==
  /\ ~mounted /\ mounted' = TRUE
  /\ UNCHANGED <<row, disk, repo, task, thread, image, wrote, left, astray, events>>

\* The router is killed, and boot recovery launches again what was being launched.
Restart ==
  /\ Fault("crash") /\ Spared
  /\ task' = [a \in Apps |-> NoTask]
  /\ thread' = [a \in Apps |->
                  IF row[a].status = "building" /\ repo[row[a].name] # NoApp
                  THEN "start" ELSE "none"]
  /\ row' = [a \in Apps |->
               IF row[a].status = "building" /\ repo[row[a].name] = NoApp
               THEN [row[a] EXCEPT !.status = "error"] ELSE row[a]]
  /\ UNCHANGED <<disk, repo, mounted, image, wrote, left, astray>>

-----------------------------------------------------------------------------

Init ==
  /\ row = [a \in Apps |-> [status |-> "none", name |-> NoName]]
  /\ disk = [t \in Tiers |-> [n \in Names |-> Absent]]
  /\ repo = [n \in Names |-> NoApp]
  /\ mounted = TRUE
  /\ task = [a \in Apps |-> NoTask]
  /\ thread = [a \in Apps |-> "none"]
  /\ image = [a \in Apps |-> NoApp]
  /\ wrote = [a \in Apps |-> {}]
  /\ left = {}
  /\ astray = [a \in Apps |-> {}]
  /\ events = 0

Next ==
  \/ \E a \in Apps, n \in Names : AddApp(a, n) \/ Rename(a, n)
  \/ \E a \in Apps, keep \in BOOLEAN : Remove(a, keep)
  \/ \E a \in Apps :
       \/ Insert(a) \/ InsertRefused(a)
       \/ Reload(a) \/ StopApp(a) \/ Launch(a)
       \/ MoveTier(a) \/ MoveFails(a) \/ Record(a)
       \/ Deprovision(a) \/ DeleteRow(a)
  \/ Unmount \/ Mount \/ Restart

Spec == Init /\ [][Next]_vars

-----------------------------------------------------------------------------
(* Properties *)

\* An app that no request is moving finds all it has ever written under its
\* present name, in each tier but those that a refused rename could not bring
\* back: renames that fail half-way are undone tier by tier, the row follows the
\* directories, and nobody else's removal takes them away.
DataFollowsName ==
  \A a \in Apps :
    row[a].status \in {"building", "running", "stopped", "error"} /\ At(a, "idle") =>
      \A t \in wrote[a] \ astray[a] : a \in disk[t][row[a].name]

\* An app's directories hold its own files, and of other apps only of those
\* whose removal was to keep them or could not delete them, or whose rename was
\* refused with that tier moved - whichever names were given up, and used again
\* by whatever app, since.
OwnDataOnly ==
  \A a \in Apps, t \in Tiers :
    Exists(a) /\ At(a, "idle") =>
      \A b \in disk[t][row[a].name] \ Absent : b = a \/ b \in left \/ t \in astray[b]

\* An app's image is built from its own source, however many installs failed or
\* were cut off under the name it now has.
RunsOwnCode == \A a \in Apps : image[a] \in {a, NoApp}

=============================================================================
