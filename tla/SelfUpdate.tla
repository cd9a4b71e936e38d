----------------------------- MODULE SelfUpdate -----------------------------
(* A self-update of the host.  The dashboard or a root shell starts           *)
(* openhost-apply.service; the walk in it stops the router, goes from release *)
(* to release (at each: checkout, system migrations, pixi install) up to the  *)
(* latest or the pinned ref, and starts the router again.  Meanwhile the      *)
(* updater serves ports 80 and 443.  The progress log tells the /updating     *)
(* page how it goes; systemd restarts the router however the walk ends.       *)

EXTENDS Integers, Sequences

CONSTANTS
    Parent,      \* the commit graph: commit -> its parent, 0 for the root
    Release,     \* release tags in version order: i -> commit
    PreRelease,  \* commits with a tag that is no release (v1.2.0-rc1)
    Registry,    \* commit -> version of the last migration its code knows
    Tips,        \* where the branch "dev" may be on the remote
    Old,         \* a commit the owner may pin to
    InitPins,    \* what the host is pinned to at first
    Faults,      \* what may go wrong
    MaxEvents    \* bound on apply requests from the shell, pins and faults

Commits == DOMAIN Parent

ASSUME UpdateAssumption ==
    /\ Commits \subseteq Nat \ {0} /\ Old \in Commits /\ Tips \subseteq Commits
    /\ \A c \in Commits : Parent[c] \in 0..(c - 1) /\ Registry[c] \in Nat \ {0}
    /\ Release \in Seq(Commits)
    /\ InitPins \subseteq {"latest", "dev", "old", "gone"}
    /\ Faults \subseteq {"dirty", "fetch", "updater", "stop", "git", "migration", "install", "start",
                         "launch", "timeout", "kill", "reboot", "crash", "overlap", "held", "caddy"}
    /\ MaxEvents \in Nat

VARIABLES
    origin,   \* the remote: releases published, tip of dev (0: no such branch)
    repo,     \* the checkout: head, what was fetched of the remote, the pin
    env,      \* the commit pixi install was last run for
    host,     \* system migrations: the log's version, and those that have run
    runner,   \* processes in apply_system_migrations
    walk,     \* openhost-apply.service
    log,      \* the last entry of the progress log, "" when it is empty
    router,   \* openhost.service; lock is its _apply_lock; bare, that this boot
              \* could not stop the updater, or saw Caddy exit
    launch,   \* start_apply, called by the dashboard or by a root shell
    updater,  \* openhost-updater.service
    ports,    \* who has 80 and 443
    events

updateVars == <<origin, repo, env, host, runner, walk, log, router, launch, updater, ports, events>>

-----------------------------------------------------------------------------
Phases == {"", "fetch", "checkout", "migrate", "install", "restarting", "done", "failed"}
NoStep == [kind |-> "none", tag |-> 0, ref |-> ""]
Idle   == [pc |-> "idle", cur |-> 0, high |-> 0]

Pins     == {"latest", "dev", "old", "gone"}
Repos    == [head : Commits, tags : 0..Len(Release), tip : Commits \cup {0}, pin : Pins]
Runs     == [pc : {"idle", "up", "append"}, cur : Nat, high : Nat]
Step     == [kind : {"none", "raise", "tag", "ref"}, tag : Nat, ref : Pins \cup {""}]
WalkPc   == {"idle", "preflight", "fetch", "updater", "stop", "checkout", "migrate", "migrating", "install",
             "next", "start", "post"}
Routers  == [st : {"up", "down", "dead", "booting", "caddy", "mark"}, code : Commits, lock : BOOLEAN, bare : BOOLEAN]
Launches == [dash : {"idle", "click", "token", "check", "detach"}, cli : {"idle", "check", "detach"}]

UpdateTypeOK ==
    /\ origin \in [tags : 0..Len(Release), tip : Commits \cup {0}]
    /\ repo \in Repos /\ env \in Commits
    /\ host \in [version : Nat, applied : SUBSET Nat]
    /\ runner \in [{"walk", "cli"} -> Runs]
    /\ walk \in [pc : WalkPc, step : Step] /\ log \in Phases
    /\ router \in Routers /\ launch \in Launches
    /\ updater \in {"none", "waiting", "hunting", "serving"}
    /\ ports \in {"free", "caddy", "updater"}
    /\ events \in 0..MaxEvents

-----------------------------------------------------------------------------
(* The next step of the walk.  update.py and apply_after_checkout.py each     *)
(* have a copy of it.                                                         *)

Ancestors[c \in Commits] == {c} \cup (IF Parent[c] = 0 THEN {} ELSE Ancestors[Parent[c]])
Released(c) == {i \in DOMAIN Release : Release[i] \in Ancestors[c]}

\* _resolve_ref_sha; 0 when no commit has that name
CommitOf(ref, r) == CASE ref = "dev" -> r.tip [] ref = "old" -> Old [] OTHER -> 0

\* _current_tag(...) or _latest_ancestor_tag(...): git describe finds the tag
\* nearest to head, of either kind; one that is no release counts as none (0)
Base(r) ==
    LET tagged == {c \in Ancestors[r.head] : c \in PreRelease \/ \E i \in 1..r.tags : Release[i] = c}
        nearest == CHOOSE c \in tagged : \A d \in tagged : d \in Ancestors[c]
    IN  IF tagged = {} THEN 0
        ELSE LET is == {i \in 1..r.tags : Release[i] = nearest}
             IN  IF is = {} THEN 0 ELSE CHOOSE i \in is : \A j \in is : j <= i

NextStep(r) ==
    LET target == CommitOf(r.pin, r)
        later  == {i \in 1..r.tags : /\ i > Base(r)
                                     /\ r.pin # "latest" => Release[i] \in Ancestors[target]}
    IN  CASE r.pin # "latest" /\ target = 0      -> [NoStep EXCEPT !.kind = "raise"]
          [] r.pin # "latest" /\ r.head = target -> NoStep
          [] OTHER -> IF later # {}
                      THEN [NoStep EXCEPT !.kind = "tag", !.tag = CHOOSE i \in later : \A j \in later : i <= j]
                      ELSE IF r.pin # "latest" THEN [NoStep EXCEPT !.kind = "ref", !.ref = r.pin]
                      ELSE NoStep

\* What is checked out: the step is resolved anew.
StepCommit(step, r) == IF step.kind = "tag" THEN Release[step.tag] ELSE CommitOf(step.ref, r)

-----------------------------------------------------------------------------
(* Helpers *)

Running == walk.pc # "idle"     \* apply_is_running
Fault(f) == f \in Faults /\ events < MaxEvents /\ events' = events + 1
Ok == UNCHANGED events

Free(who) == IF ports = who THEN "free" ELSE ports
\* A new process of the router starts from the checkout, Caddy went with the old one.
Boot == [st |-> "booting", code |-> repo.head, lock |-> FALSE, bare |-> FALSE]
\* The agent's commands are children of the router and die with it.
NoDash == [launch EXCEPT !.dash = "idle"]

\* stop_updater logs that it could not, and is followed by what comes next anyway.
StopUpdater  == updater' = "none" /\ ports' = Free("updater")
UpdaterStays == "held" \in Faults /\ updater # "none" /\ UNCHANGED <<updater, ports>>

At(pc)   == walk.pc = pc
Goto(pc) == walk' = [walk EXCEPT !.pc = pc]
\* A failure in the walk: the process records it and ends; ExecStopPost follows.
FailWalk == Goto("post") /\ log' = "failed"

-----------------------------------------------------------------------------
(* The dashboard's button, and start_apply *)

\* A request that finds the lock taken is answered 409.
Click ==
    /\ router.st = "up" /\ ~router.lock /\ launch.dash = "idle" /\ events < MaxEvents
    /\ router' = [router EXCEPT !.lock = TRUE]
    /\ launch' = [launch EXCEPT !.dash = "click"]
    /\ events' = events + 1
    /\ UNCHANGED <<origin, repo, env, host, runner, walk, log, updater, ports>>

ClickChecked ==
    /\ launch.dash = "click"
    /\ LET refused == host.version \notin 1..Registry[repo.head] \/ Running
       IN  /\ launch' = [launch EXCEPT !.dash = IF refused THEN "idle" ELSE "token"]
           /\ router' = [router EXCEPT !.lock = ~refused]
    /\ UNCHANGED <<origin, repo, env, host, runner, walk, log, updater, ports, events>>

\* set-token empties the log; failing to run it is only logged.
ClickToken ==
    /\ launch.dash = "token"
    /\ launch' = [launch EXCEPT !.dash = "check"]
    /\ log' = "" \/ ("launch" \in Faults /\ UNCHANGED log)
    /\ UNCHANGED <<origin, repo, env, host, runner, walk, router, updater, ports, events>>

ShellApply ==
    /\ launch.cli = "idle" /\ events < MaxEvents
    /\ launch' = [launch EXCEPT !.cli = "check"]
    /\ events' = events + 1
    /\ UNCHANGED <<origin, repo, env, host, runner, walk, log, router, updater, ports>>

\* Refused with "already in progress", the dashboard keeps its lock.
StartApplyCheck(l) ==
    /\ launch[l] = "check"
    /\ launch' = [launch EXCEPT ![l] = IF Running THEN "idle" ELSE "detach"]
    /\ log' = IF Running THEN log ELSE ""
    /\ UNCHANGED <<origin, repo, env, host, runner, walk, router, updater, ports, events>>

\* systemd-run: the name of the unit is the mutex.
Detach(l) ==
    /\ launch[l] = "detach"
    /\ launch' = [launch EXCEPT ![l] = "idle"]
    /\ walk' = IF Running THEN walk ELSE [pc |-> "preflight", step |-> NoStep]
    /\ Ok
    /\ UNCHANGED <<origin, repo, env, host, runner, log, router, updater, ports>>

\* The launch fails, or only seems to: systemd-run was too slow.
DetachFails(l) ==
    /\ launch[l] = "detach" /\ ~Running
    /\ \/ Fault("launch") /\ UNCHANGED walk
       \/ Fault("timeout") /\ walk' = [pc |-> "preflight", step |-> NoStep]
    /\ log' = "failed"
    /\ launch' = [launch EXCEPT ![l] = "idle"]
    /\ router' = [router EXCEPT !.lock = @ /\ l # "dash"]
    /\ UNCHANGED <<origin, repo, env, host, runner, updater, ports>>

-----------------------------------------------------------------------------
(* The walk *)

Preflight ==
    /\ At("preflight")
    /\ \/ Fault("dirty") /\ FailWalk
       \/ Ok /\ Goto("fetch") /\ log' = "fetch"
    /\ UNCHANGED <<origin, repo, env, host, runner, router, launch, updater, ports>>

\* git fetch --tags prunes nothing: a branch deleted on the remote stays.
Fetched == [repo EXCEPT !.tags = origin.tags, !.tip = IF origin.tip = 0 THEN @ ELSE origin.tip]

FetchStep ==
    /\ At("fetch")
    /\ \/ Fault("fetch") /\ FailWalk /\ UNCHANGED repo
       \/ /\ Ok /\ repo' = Fetched
          /\ LET step == NextStep(Fetched)
             IN  IF step.kind = "raise" \/ (Fetched.tags = 0 /\ repo.pin = "latest")
                 THEN FailWalk
                 ELSE walk' = [pc |-> "updater", step |-> step] /\ UNCHANGED log
    /\ UNCHANGED <<origin, env, host, runner, router, launch, updater, ports>>

LaunchUpdater ==
    /\ At("updater") /\ Goto("stop")
    /\ \/ Fault("updater") /\ StopUpdater
       \/ Fault("held") /\ UpdaterStays     \* then the unit's name is taken
       \/ Ok /\ updater' = "waiting" /\ ports' = Free("updater")
    /\ UNCHANGED <<origin, repo, env, host, runner, log, router, launch>>

StopRouter ==
    /\ At("stop")
    /\ \/ /\ Ok
          /\ router' = [router EXCEPT !.st = "down", !.lock = FALSE]
          /\ launch' = NoDash
          /\ ports' = Free("caddy")
          /\ Goto(IF walk.step.kind = "none" THEN "migrate" ELSE "checkout")
          /\ UNCHANGED <<log, updater>>
       \/ /\ Fault("stop") /\ FailWalk
          /\ StopUpdater \/ UpdaterStays
          /\ UNCHANGED <<router, launch>>
    /\ UNCHANGED <<origin, repo, env, host, runner>>

CheckoutStep(step) ==
    \/ /\ Ok /\ Goto("migrate") /\ log' = "checkout"
       /\ repo' = [repo EXCEPT !.head = StepCommit(step, repo)]
    \/ Fault("git") /\ FailWalk /\ UNCHANGED repo

Checkout ==
    /\ At("checkout") /\ CheckoutStep(walk.step)
    /\ UNCHANGED <<origin, env, host, runner, router, launch, updater, ports>>

\* apply_system_migrations up to its loop
Refused == host.version \notin 1..Registry[repo.head]
Loop == [pc |-> "up", cur |-> host.version, high |-> Registry[repo.head]]

WalkMigrate ==
    /\ At("migrate")
    /\ IF Refused THEN FailWalk /\ UNCHANGED runner
       ELSE /\ log' = "migrate" /\ Goto("migrating")
            /\ runner' = [runner EXCEPT !["walk"] = Loop]
    /\ UNCHANGED <<origin, repo, env, host, router, launch, updater, ports, events>>

Install ==
    /\ At("install")
    /\ \/ Fault("install") /\ FailWalk /\ UNCHANGED env
       \/ Ok /\ env' = repo.head /\ log' = "install" /\ Goto("next")
    /\ UNCHANGED <<origin, repo, host, runner, router, launch, updater, ports>>

WalkOn ==
    /\ At("next")
    /\ LET step == NextStep(repo)
       IN  CASE step.kind = "raise" -> Ok /\ FailWalk /\ UNCHANGED repo
             [] step.kind = "none"  -> Ok /\ Goto("start") /\ log' = "restarting" /\ UNCHANGED repo
             [] OTHER               -> CheckoutStep(step)
    /\ UNCHANGED <<origin, env, host, runner, router, launch, updater, ports>>

StartRouter ==
    /\ At("start") /\ Goto("post")
    /\ \/ Ok /\ router' = Boot /\ ports' = Free("caddy") /\ launch' = NoDash /\ UNCHANGED log
       \/ Fault("start") /\ log' = "failed" /\ UNCHANGED <<router, ports, launch>>
    /\ UNCHANGED <<origin, repo, env, host, runner, updater>>

\* Mutant: start alone, which systemd refuses once it has given up.
ExecStopPostPlain ==
    /\ At("post") /\ Goto("idle")
    /\ router' = IF router.st = "down" THEN Boot ELSE router
    /\ UNCHANGED <<origin, repo, env, host, runner, log, launch, updater, ports, events>>

\* reset-failed, then start, which does nothing to a router that is up
ExecStopPost ==
    /\ At("post") /\ Goto("idle")
    /\ router' = IF router.st \in {"down", "dead"} THEN Boot ELSE router
    /\ UNCHANGED <<origin, repo, env, host, runner, log, launch, updater, ports, events>>

-----------------------------------------------------------------------------
(* apply_system_migrations *)

\* update migrate, from a root shell; nothing keeps it off a running walk
ShellMigrate ==
    /\ runner["cli"].pc = "idle" /\ ~Refused
    /\ "overlap" \in Faults \/ ~Running
    /\ host.version < Registry[repo.head]
    /\ runner' = [runner EXCEPT !["cli"] = Loop]
    /\ UNCHANGED <<origin, repo, env, host, walk, log, router, launch, updater, ports, events>>

\* Mutant: the version counts failed entries.
MigrationUpCounted(r) ==
    /\ runner[r].pc = "up" /\ runner[r].cur < runner[r].high
    /\ \/ /\ Ok
          /\ host' = [host EXCEPT !.applied = @ \cup {runner[r].cur + 1}]
          /\ runner' = [runner EXCEPT ![r].pc = "append"]
          /\ UNCHANGED <<walk, log>>
       \/ /\ Fault("migration") /\ host' = [host EXCEPT !.version = runner[r].cur + 1]
          /\ runner' = [runner EXCEPT ![r] = Idle]
          /\ IF r = "walk" THEN FailWalk ELSE UNCHANGED <<walk, log>>
    /\ UNCHANGED <<origin, repo, env, router, launch, updater, ports>>

MigrationUp(r) ==
    /\ runner[r].pc = "up" /\ runner[r].cur < runner[r].high
    /\ \/ /\ Ok
          /\ host' = [host EXCEPT !.applied = @ \cup {runner[r].cur + 1}]
          /\ runner' = [runner EXCEPT ![r].pc = "append"]
          /\ UNCHANGED <<walk, log>>
       \/ \* the entry says success: false, and the version is that of the last success
          /\ Fault("migration") /\ UNCHANGED host
          /\ runner' = [runner EXCEPT ![r] = Idle]
          /\ IF r = "walk" THEN FailWalk ELSE UNCHANGED <<walk, log>>
    /\ UNCHANGED <<origin, repo, env, router, launch, updater, ports>>

MigrationAppend(r) ==
    /\ runner[r].pc = "append"
    /\ LET v == runner[r].cur + 1
       IN  /\ host' = [host EXCEPT !.version = v]
           /\ runner' = [runner EXCEPT ![r].pc = "up", ![r].cur = v]
    /\ UNCHANGED <<origin, repo, env, walk, log, router, launch, updater, ports, events>>

MigrationsDone(r) ==
    /\ runner[r].pc = "up" /\ runner[r].cur = runner[r].high
    /\ runner' = [runner EXCEPT ![r] = Idle]
    /\ IF r = "walk" THEN Goto("install") ELSE UNCHANGED walk
    /\ UNCHANGED <<origin, repo, env, host, log, router, launch, updater, ports, events>>

-----------------------------------------------------------------------------
(* The router, its Caddy, and the updater *)

\* A restart asked for (exit 42), or a crash that systemd answers with one.
RestartRouter ==
    /\ router.st = "up" /\ events < MaxEvents
    /\ router' = Boot /\ ports' = Free("caddy") /\ launch' = NoDash
    /\ events' = events + 1
    /\ UNCHANGED <<origin, repo, env, host, runner, walk, log, updater>>

\* It crashed until systemd gave up.
CrashLoop ==
    /\ router.st \in {"booting", "caddy", "mark"} /\ Fault("crash")
    /\ router' = [router EXCEPT !.st = "dead"] /\ ports' = Free("caddy")
    /\ UNCHANGED <<origin, repo, env, host, runner, walk, log, launch, updater>>

BootStopUpdater ==
    /\ router.st = "booting"
    /\ \/ Ok /\ StopUpdater /\ router' = [router EXCEPT !.st = "caddy"]
       \/ Fault("held") /\ UpdaterStays /\ router' = [router EXCEPT !.st = "caddy", !.bare = TRUE]
    /\ UNCHANGED <<origin, repo, env, host, runner, walk, log, launch>>

\* Caddy retries while the ports are taken; the boot goes on without it when they
\* are not given up in time, or when it exits for another reason.
BootCaddy ==
    /\ router.st = "caddy"
    /\ \/ /\ Ok /\ ports' = IF ports = "free" THEN "caddy" ELSE ports
          /\ router' = [router EXCEPT !.st = "mark"]
       \/ /\ Fault("caddy") /\ UNCHANGED ports
          /\ router' = [router EXCEPT !.st = "mark", !.bare = TRUE]
    /\ UNCHANGED <<origin, repo, env, host, runner, walk, log, launch, updater>>

\* Mutants: a log that was cut counts as done; a log that was cut is left.
BootLogDone == IF log \in {"", "failed"} \/ (log # "restarting" /\ Running) THEN log ELSE "done"
BootLogLeft == IF log = "restarting" THEN "done" ELSE log

\* mark_boot_complete
BootLog == CASE log \in {"", "done", "failed"} -> log
             [] log = "restarting"             -> "done"
             [] OTHER                          -> IF Running THEN log ELSE "failed"

BootMark ==
    /\ router.st = "mark" /\ router' = [router EXCEPT !.st = "up", !.bare = FALSE]
    /\ log' = BootLog
    /\ UNCHANGED <<origin, repo, env, host, runner, walk, launch, updater, ports, events>>

\* It binds the ports only after it has seen the router down.
UpdaterSeesDown ==
    /\ updater = "waiting" /\ router.st # "up"
    /\ updater' = "hunting"
    /\ UNCHANGED <<origin, repo, env, host, runner, walk, log, router, launch, ports, events>>

UpdaterBinds ==
    /\ updater = "hunting" /\ ports = "free"
    /\ updater' = "serving" /\ ports' = "updater"
    /\ UNCHANGED <<origin, repo, env, host, runner, walk, log, router, launch, events>>

\* The router is back, or a time limit is over: no downtime seen for two
\* minutes, no ports for one, an hour in all.
UpdaterEnds ==
    /\ updater # "none"
    /\ updater' = "none" /\ ports' = Free("updater")
    /\ UNCHANGED <<origin, repo, env, host, runner, walk, log, router, launch, events>>

-----------------------------------------------------------------------------
(* Faults, and the owner *)

\* Out of memory, an operator, RuntimeMaxSec: ExecStopPost still runs.
KillWalk ==
    /\ walk.pc \notin {"idle", "post"} /\ Fault("kill") /\ Goto("post")
    /\ runner' = [runner EXCEPT !["walk"] = Idle]
    /\ UNCHANGED <<origin, repo, env, host, log, router, launch, updater, ports>>

Reboot ==
    /\ Fault("reboot")
    /\ walk' = [walk EXCEPT !.pc = "idle"]
    /\ runner' = [r \in {"walk", "cli"} |-> Idle]
    /\ launch' = [l \in {"dash", "cli"} |-> "idle"]
    /\ updater' = "none" /\ ports' = "free" /\ router' = Boot
    /\ UNCHANGED <<origin, repo, env, host, log>>

Publish ==
    /\ origin.tags < Len(Release) /\ events < MaxEvents /\ events' = events + 1
    /\ origin' = [origin EXCEPT !.tags = @ + 1]
    /\ UNCHANGED <<repo, env, host, runner, walk, log, router, launch, updater, ports>>

PushDev ==
    /\ events < MaxEvents /\ events' = events + 1
    /\ \E t \in (Tips \cup {0}) \ {origin.tip} : origin' = [origin EXCEPT !.tip = t]
    /\ UNCHANGED <<repo, env, host, runner, walk, log, router, launch, updater, ports>>

\* fetch_updates, when the owner looks for updates
FetchUpdates ==
    /\ router.st = "up" /\ repo' = Fetched
    /\ UNCHANGED <<origin, env, host, runner, walk, log, router, launch, updater, ports, events>>

\* set_remote_url, at any time, with a ref or without
SetRemote(ref) ==
    /\ events < MaxEvents /\ events' = events + 1
    /\ LET r == IF ref = "latest" THEN repo ELSE Fetched
       IN  repo' = IF ref # "latest" /\ CommitOf(ref, r) = 0 THEN r ELSE [r EXCEPT !.pin = ref]
    /\ UNCHANGED <<origin, env, host, runner, walk, log, router, launch, updater, ports>>

-----------------------------------------------------------------------------
UpdateInit ==
    /\ \E n \in 1..Len(Release), t \in Tips \cup {0}, p \in InitPins :
         /\ origin = [tags |-> n, tip |-> t]
         /\ repo = [head |-> Release[1], tags |-> 1, tip |-> 0, pin |-> p]
    /\ env = Release[1]
    /\ host = [version |-> Registry[Release[1]], applied |-> 1..Registry[Release[1]]]
    /\ runner = [r \in {"walk", "cli"} |-> Idle]
    /\ walk = [pc |-> "idle", step |-> NoStep]
    /\ log = ""
    /\ router = [st |-> "up", code |-> Release[1], lock |-> FALSE, bare |-> FALSE]
    /\ launch = [l \in {"dash", "cli"} |-> "idle"]
    /\ updater = "none" /\ ports = "caddy"
    /\ events = 0

WalkStep ==
    \/ Preflight \/ FetchStep \/ LaunchUpdater \/ StopRouter \/ Checkout \/ WalkMigrate
    \/ Install \/ WalkOn \/ StartRouter \/ ExecStopPost

LaunchStep(l) == StartApplyCheck(l) \/ Detach(l) \/ DetachFails(l)
MigrateStep(r) == MigrationUp(r) \/ MigrationAppend(r) \/ MigrationsDone(r)
BootStep == BootStopUpdater \/ BootCaddy \/ BootMark

UpdateNext ==
    \/ Click \/ ClickChecked \/ ClickToken \/ ShellApply
    \/ \E l \in {"dash", "cli"} : LaunchStep(l)
    \/ WalkStep
    \/ ShellMigrate
    \/ \E r \in {"walk", "cli"} : MigrateStep(r)
    \/ RestartRouter \/ CrashLoop \/ BootStep
    \/ UpdaterSeesDown \/ UpdaterBinds \/ UpdaterEnds
    \/ KillWalk \/ Reboot
    \/ Publish \/ PushDev \/ FetchUpdates
    \/ \E ref \in {"latest", "dev", "old"} : SetRemote(ref)

\* Processes that run go on, and systemd does what the units say.  The owner,
\* the remote and the faults owe nothing.
UpdateSpec ==
    /\ UpdateInit /\ [][UpdateNext]_updateVars
    /\ WF_updateVars(WalkStep) /\ WF_updateVars(MigrateStep("walk")) /\ WF_updateVars(BootStep)

-----------------------------------------------------------------------------
(* Properties *)

\* Every migration up to the host's version has run: up() comes before the log
\* entry, in order, and a failed one ends the run (runner.py).  Holds with a
\* shell's `update migrate` beside the walk's, and across kills.
NoMigrationSkipped == \A v \in 1..host.version : v \in host.applied

\* "Instance is back online" (progress.py) is written by a router that runs the
\* checked-out code, with its dependencies installed and its migrations done.  It
\* has its ports back from the updater, by the order of the boot (start.py: "so
\* Caddy can't lose the handoff race"), unless in this boot the updater could not
\* be stopped or Caddy exited, which nothing but the boot's log tells.
DoneIsFresh ==
    [][log' = "done" /\ log # "done" =>
          /\ router.code = repo.head /\ env = repo.head
          /\ 1..Registry[repo.head] \subseteq host.applied
          /\ ports = "caddy" \/ router.bare]_updateVars

\* However a walk ends, systemd starts the router after it, even one it had given
\* up on (detach.py: "no exit path can leave the instance stopped"); in particular
\* every walk ends.  Left down, the router comes up, or crashes for good.
RouterComesBack ==
    /\ Running ~> ~Running /\ router.st \notin {"down", "dead"}
    /\ router.st = "down" ~> router.st \in {"up", "dead"}

\* A walk that stopped the router, however it went on, leaves a progress log that
\* the booting router finishes, unless another walk begins: the /updating page
\* polls until it is empty or ends in done or failed (mark_boot_complete).
LogSettles ==
    router.st = "down" ~> log \in {"", "done", "failed"} \/ router.st = "dead" \/ At("preflight")

=============================================================================
