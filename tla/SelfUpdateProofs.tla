-------------------------- MODULE SelfUpdateProofs --------------------------
(* Theorems about SelfUpdate, for any history of the repository, any        *)
(* registry of migrations, and any choice and number of faults.             *)
EXTENDS SelfUpdate, WellFoundedInduction, TLAPS

-----------------------------------------------------------------------------
(* Which step comes next.                                                   *)

\* A set of numbers has a least one.
LEMMA Least ==
    ASSUME NEW T, T \subseteq Nat, T # {}
    PROVE  \E x \in T : \A y \in T : x <= y
<1> DEFINE R == {ss \in Nat \X Nat : ss[1] < ss[2]}
<1>1. IsWellFoundedOn(R, Nat)
  BY NatLessThanWellFounded DEF OpToRel
<1>2. PICK x \in T : \A y \in T : ~(<<y, x>> \in R)
  <2> HIDE DEF R
  <2> QED  BY <1>1, WFMin
<1>3. ASSUME NEW y \in T PROVE x <= y
  <2>1. x \in Nat /\ y \in Nat
    OBVIOUS
  <2>2. y < x => <<y, x>> \in R
    BY <2>1
  <2> QED  BY <1>2, <2>1, <2>2
<1> QED  BY <1>3

\* A step that is not "none" or "raise" names something that can be checked out.
Resolves(step, r) ==
  /\ step.kind = "tag" => step.tag \in DOMAIN Release
  /\ step.kind = "ref" => CommitOf(step.ref, r) \in Commits

LEMMA CommitOfTyped ==
    ASSUME NEW r \in Repos, NEW ref \in Pins PROVE CommitOf(ref, r) \in Commits \cup {0}
<1>1. r.tip \in Commits \cup {0} /\ Old \in Commits
  BY UpdateAssumption DEF Repos
<1>2. CASE ref = "dev"
  BY <1>1, <1>2 DEF CommitOf
<1>3. CASE ref = "old"
  BY <1>1, <1>3 DEF CommitOf
<1>4. CASE ref \notin {"dev", "old"}
  BY <1>4 DEF CommitOf
<1> QED  BY <1>2, <1>3, <1>4

LEMMA NextStepResolves ==
    ASSUME NEW r \in Repos
    PROVE  NextStep(r) \in Step /\ Resolves(NextStep(r), r)
<1> DEFINE target == CommitOf(r.pin, r)
           later  == {i \in 1..r.tags : /\ i > Base(r)
                                        /\ r.pin # "latest" => Release[i] \in Ancestors[target]}
           first  == CHOOSE i \in later : \A j \in later : i <= j
<1>1. /\ r.pin \in Pins /\ r.tags \in 0..Len(Release) /\ target \in Commits \cup {0}
      /\ DOMAIN Release = 1..Len(Release) /\ Len(Release) \in Nat
  BY CommitOfTyped, UpdateAssumption DEF Repos
<1>2. later \subseteq 1..r.tags /\ 1..r.tags \subseteq Nat /\ 1..r.tags \subseteq DOMAIN Release
  BY <1>1
<1>3. NextStep(r) =
        CASE r.pin # "latest" /\ target = 0      -> [NoStep EXCEPT !.kind = "raise"]
          [] r.pin # "latest" /\ r.head = target -> NoStep
          [] OTHER -> IF later # {} THEN [NoStep EXCEPT !.kind = "tag", !.tag = first]
                      ELSE IF r.pin # "latest" THEN [NoStep EXCEPT !.kind = "ref", !.ref = r.pin]
                      ELSE NoStep
  BY DEF NextStep
<1> HIDE DEF target, later
<1>4. later # {} => first \in later
  <2> SUFFICES ASSUME later # {} PROVE first \in later
    OBVIOUS
  <2>1. \E i \in later : \A j \in later : i <= j
    BY <1>2, Least
  <2> QED  BY <2>1
<1> HIDE DEF first
<1>5. \/ NextStep(r) = [NoStep EXCEPT !.kind = "raise"]
      \/ NextStep(r) = NoStep
      \/ later # {} /\ NextStep(r) = [NoStep EXCEPT !.kind = "tag", !.tag = first]
      \/ target # 0 /\ NextStep(r) = [NoStep EXCEPT !.kind = "ref", !.ref = r.pin]
  <2>1. CASE r.pin # "latest" /\ target = 0
    BY <1>3, <2>1, Zenon
  <2>2. CASE r.pin # "latest" /\ target # 0 /\ r.head = target
    BY <1>3, <2>2, Zenon
  <2>3. CASE r.pin = "latest" \/ (target # 0 /\ r.head # target)
    BY <1>3, <2>3, Zenon
  <2> QED  BY <2>1, <2>2, <2>3
<1>6. \/ NextStep(r) = [kind |-> "raise", tag |-> 0, ref |-> ""]
      \/ NextStep(r) = [kind |-> "none", tag |-> 0, ref |-> ""]
      \/ later # {} /\ NextStep(r) = [kind |-> "tag", tag |-> first, ref |-> ""]
      \/ target # 0 /\ NextStep(r) = [kind |-> "ref", tag |-> 0, ref |-> r.pin]
  BY <1>5 DEF NoStep
<1>7. later # {} => first \in DOMAIN Release /\ first \in Nat
  BY <1>2, <1>4
<1>8. target # 0 => CommitOf(r.pin, r) \in Commits
  BY <1>1 DEF target
<1>9. ASSUME NEW s, NEW k \in {"raise", "none"}, s = [kind |-> k, tag |-> 0, ref |-> ""]
      PROVE  s \in Step /\ Resolves(s, r)
  BY <1>9 DEF Step, Resolves
<1>10. ASSUME NEW s, later # {}, s = [kind |-> "tag", tag |-> first, ref |-> ""]
       PROVE  s \in Step /\ Resolves(s, r)
  BY <1>7, <1>10 DEF Step, Resolves
<1>11. ASSUME NEW s, target # 0, s = [kind |-> "ref", tag |-> 0, ref |-> r.pin]
       PROVE  s \in Step /\ Resolves(s, r)
  <2>1. s \in Step
    BY <1>1, <1>11 DEF Step
  <2>2. s.kind = "ref" /\ s.ref = r.pin
    BY <1>11
  <2> QED  BY <1>8, <1>11, <2>1, <2>2 DEF Resolves
<1> QED  BY <1>6, <1>9, <1>10, <1>11, Zenon

-----------------------------------------------------------------------------
(* The inductive invariants.                                                *)

\* What the walk and its step have settled: the step can be checked out.
StepInv ==
  /\ walk.pc \in {"updater", "stop", "checkout"} => Resolves(walk.step, repo)
  /\ walk.pc = "checkout" => walk.step.kind \in {"tag", "ref"}
  /\ walk.step.kind # "raise"

\* Whatever a process counts as done has run.
MigrateInv ==
  /\ 1..host.version \subseteq host.applied
  /\ \A r \in {"walk", "cli"} :
       /\ runner[r].pc \in {"up", "append"} => 1..runner[r].cur \subseteq host.applied
       /\ runner[r].pc = "append" => runner[r].cur + 1 \in host.applied

\* All that the code in the checkout needs is in place.
Migrated == 1..Registry[repo.head] \subseteq host.applied

WalkInv ==
  /\ runner["walk"].pc # "idle" => walk.pc = "migrating" /\ runner["walk"].high = Registry[repo.head]
  /\ walk.pc \in {"install", "next"} => Migrated
  /\ walk.pc = "next" => env = repo.head
  /\ walk.pc \in {"checkout", "migrate", "migrating", "install", "next", "start"} => router.st = "down"

RestartInv ==
  /\ ports = "updater" => updater = "serving"
  /\ log = "restarting" =>
       /\ walk.pc \in {"start", "post", "idle", "preflight"}
       /\ env = repo.head /\ Migrated
       /\ router.st # "up"
       /\ router.st \in {"booting", "caddy", "mark"} => router.code = repo.head
       /\ router.st \in {"caddy", "mark"} => updater = "none" \/ router.bare
       /\ router.st = "mark" => ports = "caddy" \/ router.bare

-----------------------------------------------------------------------------
(* Type correctness.                                                        *)

LEMMA WalkTyped ==
    ASSUME UpdateTypeOK, NEW pc \in WalkPc PROVE [walk EXCEPT !.pc = pc] \in [pc : WalkPc, step : Step]
  BY DEF UpdateTypeOK

LEMMA GotoTyped ==
    ASSUME UpdateTypeOK, NEW pc \in WalkPc, Goto(pc) PROVE walk' \in [pc : WalkPc, step : Step]
  BY WalkTyped DEF Goto

LEMMA RouterTyped ==
    ASSUME UpdateTypeOK
    PROVE  /\ Boot \in Routers
           /\ \A st \in {"up", "down", "dead", "booting", "caddy", "mark"} : [router EXCEPT !.st = st] \in Routers
           /\ \A b \in BOOLEAN : [router EXCEPT !.lock = b] \in Routers
           /\ [router EXCEPT !.st = "down", !.lock = FALSE] \in Routers
           /\ \A st \in {"caddy", "mark"} : [router EXCEPT !.st = st, !.bare = TRUE] \in Routers
           /\ [router EXCEPT !.st = "up", !.bare = FALSE] \in Routers
  BY DEF UpdateTypeOK, Boot, Routers, Repos

LEMMA LaunchTyped ==
    ASSUME UpdateTypeOK, NEW l \in {"dash", "cli"}, NEW st \in {"idle", "check", "detach"}
    PROVE  [launch EXCEPT ![l] = st] \in Launches
<1>1. CASE l = "dash"
  BY <1>1 DEF UpdateTypeOK, Launches
<1>2. CASE l = "cli"
  BY <1>2 DEF UpdateTypeOK, Launches
<1> QED  BY <1>1, <1>2

LEMMA NoDashTyped == ASSUME UpdateTypeOK PROVE NoDash \in Launches
  BY DEF UpdateTypeOK, NoDash, Launches

LEMMA RunnerTyped ==
    ASSUME UpdateTypeOK, NEW r \in {"walk", "cli"}, NEW run \in Runs
    PROVE  [runner EXCEPT ![r] = run] \in [{"walk", "cli"} -> Runs]
  BY DEF UpdateTypeOK

LEMMA IdleTyped == Idle \in Runs
  BY DEF Idle, Runs

LEMMA EventTyped == ASSUME UpdateTypeOK, events < MaxEvents PROVE events + 1 \in 0..MaxEvents
  BY UpdateAssumption DEF UpdateTypeOK

LEMMA FreeTyped ==
    ASSUME UpdateTypeOK, NEW who \in {"caddy", "updater"} PROVE Free(who) \in {"free", "caddy", "updater"}
  BY DEF UpdateTypeOK, Free

LEMMA NoStepTyped == NoStep \in Step
  BY DEF NoStep, Step, Pins

LEMMA FetchedTyped ==
    ASSUME UpdateTypeOK
    PROVE  /\ Fetched \in Repos
           /\ \A ref : CommitOf(ref, repo) \in Commits => CommitOf(ref, Fetched) \in Commits
<1>1. Fetched \in Repos
  BY DEF UpdateTypeOK, Repos, Fetched
<1>2. Fetched.tip = IF origin.tip = 0 THEN repo.tip ELSE origin.tip
  BY DEF UpdateTypeOK, Fetched
<1>3. ASSUME NEW ref, CommitOf(ref, repo) \in Commits PROVE CommitOf(ref, Fetched) \in Commits
  <2>1. CASE ref = "dev"
    <3>1. CommitOf(ref, repo) = repo.tip /\ CommitOf(ref, Fetched) = Fetched.tip
      BY <2>1 DEF CommitOf
    <3>2. origin.tip \in Commits \cup {0}
      BY DEF UpdateTypeOK
    <3> QED  BY <1>2, <1>3, <3>1, <3>2
  <2>2. CASE ref # "dev"
    <3>1. CASE ref = "old"
      BY <1>3, <3>1 DEF CommitOf
    <3>2. CASE ref # "old"
      BY <1>3, <2>2, <3>2 DEF CommitOf
    <3> QED  BY <3>1, <3>2
  <2> QED  BY <2>1, <2>2
<1> QED  BY <1>1, <1>3

\* The commit of a step that resolves.
LEMMA StepCommitTyped ==
    ASSUME UpdateTypeOK, NEW step, step.kind \in {"tag", "ref"}, Resolves(step, repo)
    PROVE  StepCommit(step, repo) \in Commits
  BY UpdateAssumption DEF StepCommit, Resolves

LEMMA ButtonTyped ==
    UpdateTypeOK /\ (Click \/ ClickChecked \/ ClickToken \/ ShellApply) => UpdateTypeOK'
<1> SUFFICES ASSUME UpdateTypeOK, Click \/ ClickChecked \/ ClickToken \/ ShellApply PROVE UpdateTypeOK'
  OBVIOUS
<1>1. CASE Click
  BY <1>1, RouterTyped, EventTyped DEF UpdateTypeOK, Click, Launches
<1>2. CASE ClickChecked
  BY <1>2, RouterTyped DEF UpdateTypeOK, ClickChecked, Launches
<1>3. CASE ClickToken
  <2>1. launch' \in Launches
    BY <1>3, LaunchTyped DEF ClickToken
  <2> QED  BY <1>3, <2>1 DEF UpdateTypeOK, ClickToken, Phases
<1>4. CASE ShellApply
  BY <1>4, LaunchTyped, EventTyped DEF UpdateTypeOK, ShellApply
<1> QED  BY <1>1, <1>2, <1>3, <1>4

LEMMA LaunchStepTyped ==
    ASSUME UpdateTypeOK, NEW l \in {"dash", "cli"}, LaunchStep(l) PROVE UpdateTypeOK'
<1>1. CASE StartApplyCheck(l)
  <2>1. launch' \in Launches
    BY <1>1, LaunchTyped DEF StartApplyCheck
  <2> QED  BY <1>1, <2>1 DEF UpdateTypeOK, StartApplyCheck, Phases
<1> DEFINE Fresh == [pc |-> "preflight", step |-> NoStep]
<1>a. Fresh \in [pc : WalkPc, step : Step]
  BY NoStepTyped DEF WalkPc
<1>2. CASE Detach(l)
  <2>1. launch' \in Launches /\ walk' \in [pc : WalkPc, step : Step]
    BY <1>2, <1>a, LaunchTyped DEF Detach, UpdateTypeOK
  <2> QED  BY <1>2, <2>1 DEF UpdateTypeOK, Detach, Ok
<1>3. CASE DetachFails(l)
  <2>1. launch' \in Launches /\ walk' \in [pc : WalkPc, step : Step] /\ router' \in Routers
    <3>1. launch' = [launch EXCEPT ![l] = "idle"] /\ walk' \in {walk, Fresh}
      BY <1>3 DEF DetachFails
    <3>2. router' = [router EXCEPT !.lock = router.lock /\ l # "dash"]
      BY <1>3 DEF DetachFails
    <3>3. (router.lock /\ l # "dash") \in BOOLEAN
      BY DEF UpdateTypeOK, Routers
    <3> QED  BY <1>a, <3>1, <3>2, <3>3, LaunchTyped, RouterTyped DEF UpdateTypeOK
  <2>2. log' \in Phases /\ events' \in 0..MaxEvents
    BY <1>3, EventTyped DEF DetachFails, Fault, Phases
  <2> QED  BY <1>3, <2>1, <2>2 DEF UpdateTypeOK, DetachFails
<1> QED  BY <1>1, <1>2, <1>3 DEF LaunchStep

LEMMA RouterStepTyped ==
    UpdateTypeOK /\ (RestartRouter \/ CrashLoop \/ BootStep) => UpdateTypeOK'
<1> SUFFICES ASSUME UpdateTypeOK, RestartRouter \/ CrashLoop \/ BootStep PROVE UpdateTypeOK'
  OBVIOUS
<1>1. CASE RestartRouter
  BY <1>1, RouterTyped, EventTyped, FreeTyped, NoDashTyped DEF UpdateTypeOK, RestartRouter
<1>2. CASE CrashLoop
  BY <1>2, RouterTyped, EventTyped, FreeTyped DEF UpdateTypeOK, CrashLoop, Fault
<1>3. CASE BootStopUpdater
  <2>1. router' \in Routers /\ events' \in 0..MaxEvents
    BY <1>3, RouterTyped, EventTyped DEF UpdateTypeOK, BootStopUpdater, Ok, Fault
  <2> QED  BY <1>3, <2>1, FreeTyped DEF UpdateTypeOK, BootStopUpdater, StopUpdater, UpdaterStays
<1>4. CASE BootCaddy
  <2>1. router' \in Routers /\ events' \in 0..MaxEvents
    BY <1>4, RouterTyped, EventTyped DEF UpdateTypeOK, BootCaddy, Ok, Fault
  <2> QED  BY <1>4, <2>1 DEF UpdateTypeOK, BootCaddy
<1>5. CASE BootMark
  <2>1. BootLog \in Phases
    BY DEF UpdateTypeOK, BootLog, Phases
  <2> QED  BY <1>5, <2>1, RouterTyped DEF UpdateTypeOK, BootMark
<1> QED  BY <1>1, <1>2, <1>3, <1>4, <1>5 DEF BootStep

LEMMA OthersTyped ==
    UpdateTypeOK /\ (UpdaterSeesDown \/ UpdaterBinds \/ UpdaterEnds \/ KillWalk \/ Reboot
                     \/ Publish \/ PushDev \/ FetchUpdates) => UpdateTypeOK'
<1> SUFFICES ASSUME UpdateTypeOK, UpdaterSeesDown \/ UpdaterBinds \/ UpdaterEnds \/ KillWalk \/ Reboot
                       \/ Publish \/ PushDev \/ FetchUpdates
             PROVE  UpdateTypeOK'
  OBVIOUS
<1>1. CASE UpdaterSeesDown \/ UpdaterBinds \/ UpdaterEnds
  BY <1>1 DEF UpdateTypeOK, UpdaterSeesDown, UpdaterBinds, UpdaterEnds, Free
<1>2. CASE KillWalk
  <2>1. walk' \in [pc : WalkPc, step : Step] /\ runner' \in [{"walk", "cli"} -> Runs]
    BY <1>2, WalkTyped, RunnerTyped, IdleTyped DEF KillWalk, Goto, WalkPc
  <2> QED  BY <1>2, <2>1, EventTyped DEF UpdateTypeOK, KillWalk, Fault
<1>3. CASE Reboot
  <2>1. walk' \in [pc : WalkPc, step : Step] /\ runner' \in [{"walk", "cli"} -> Runs] /\ router' \in Routers
    BY <1>3, WalkTyped, RouterTyped, IdleTyped DEF Reboot, WalkPc
  <2>2. launch' \in Launches
    BY <1>3 DEF Reboot, Launches
  <2> QED  BY <1>3, <2>1, <2>2, EventTyped DEF UpdateTypeOK, Reboot, Fault
<1>4. CASE Publish
  <2>1. Len(Release) \in Nat /\ origin.tags \in Nat /\ origin.tags < Len(Release)
    BY <1>4, UpdateAssumption DEF UpdateTypeOK, Publish
  <2> QED  BY <1>4, <2>1, EventTyped DEF UpdateTypeOK, Publish
<1>5. CASE PushDev
  BY <1>5, EventTyped, UpdateAssumption DEF UpdateTypeOK, PushDev
<1>6. CASE FetchUpdates
  BY <1>6, FetchedTyped DEF UpdateTypeOK, FetchUpdates
<1> QED  BY <1>1, <1>2, <1>3, <1>4, <1>5, <1>6

LEMMA SetRemoteTyped ==
    ASSUME UpdateTypeOK, NEW ref \in {"latest", "dev", "old"}, SetRemote(ref) PROVE UpdateTypeOK'
<1>1. ASSUME NEW r \in Repos PROVE [r EXCEPT !.pin = ref] \in Repos
  BY DEF Repos, Pins
<1>2. repo' \in Repos
  <2>1. repo \in Repos /\ Fetched \in Repos
    BY FetchedTyped DEF UpdateTypeOK
  <2> QED  BY <1>1, <2>1 DEF SetRemote
<1> QED  BY <1>2, EventTyped DEF UpdateTypeOK, SetRemote

LEMMA MigrateTyped ==
    UpdateTypeOK /\ (ShellMigrate \/ \E r \in {"walk", "cli"} : MigrateStep(r)) => UpdateTypeOK'
<1> SUFFICES ASSUME UpdateTypeOK, ShellMigrate \/ \E r \in {"walk", "cli"} : MigrateStep(r) PROVE UpdateTypeOK'
  OBVIOUS
<1>1. CASE ShellMigrate
  <2>1. Loop \in Runs
    BY UpdateAssumption DEF UpdateTypeOK, Loop, Runs, Repos
  <2> QED  BY <1>1, <2>1, RunnerTyped DEF UpdateTypeOK, ShellMigrate
<1>2. ASSUME NEW r \in {"walk", "cli"}, MigrationUp(r) PROVE UpdateTypeOK'
  <2>1. runner[r] \in Runs /\ [runner[r] EXCEPT !.pc = "append"] \in Runs
    BY DEF UpdateTypeOK, Runs
  <2>2. runner' \in [{"walk", "cli"} -> Runs]
    <3>1. runner' \in {[runner EXCEPT ![r] = [runner[r] EXCEPT !.pc = "append"]], [runner EXCEPT ![r] = Idle]}
      BY <1>2 DEF MigrationUp, UpdateTypeOK
    <3> QED  BY <2>1, <3>1, RunnerTyped, IdleTyped
  <2>3. walk' \in [pc : WalkPc, step : Step] /\ log' \in Phases
    <3>1. walk' \in {walk, [walk EXCEPT !.pc = "post"]} /\ log' \in {log, "failed"}
      BY <1>2 DEF MigrationUp, FailWalk, Goto
    <3>2. [walk EXCEPT !.pc = "post"] \in [pc : WalkPc, step : Step]
      BY WalkTyped DEF WalkPc
    <3> QED  BY <3>1, <3>2 DEF UpdateTypeOK, Phases
  <2>4. host' \in [version : Nat, applied : SUBSET Nat]
    BY <1>2, <2>1 DEF UpdateTypeOK, MigrationUp, Runs
  <2>5. events' \in 0..MaxEvents
    BY <1>2, EventTyped DEF UpdateTypeOK, MigrationUp, Ok, Fault
  <2> QED  BY <1>2, <2>2, <2>3, <2>4, <2>5 DEF UpdateTypeOK, MigrationUp
<1>3. ASSUME NEW r \in {"walk", "cli"}, MigrationAppend(r) PROVE UpdateTypeOK'
  BY <1>3 DEF UpdateTypeOK, MigrationAppend, Runs
<1>4. ASSUME NEW r \in {"walk", "cli"}, MigrationsDone(r) PROVE UpdateTypeOK'
  <2>1. walk' \in [pc : WalkPc, step : Step] /\ runner' \in [{"walk", "cli"} -> Runs]
    BY <1>4, WalkTyped, RunnerTyped, IdleTyped DEF UpdateTypeOK, MigrationsDone, Goto, WalkPc
  <2> QED  BY <1>4, <2>1 DEF UpdateTypeOK, MigrationsDone
<1> QED  BY <1>1, <1>2, <1>3, <1>4 DEF MigrateStep

LEMMA FailTyped ==
    ASSUME UpdateTypeOK, FailWalk PROVE walk' \in [pc : WalkPc, step : Step] /\ log' \in Phases
  BY WalkTyped DEF FailWalk, Goto, WalkPc, Phases

LEMMA CheckoutTyped ==
    ASSUME UpdateTypeOK, NEW step, step.kind \in {"tag", "ref"}, Resolves(step, repo), CheckoutStep(step),
           UNCHANGED <<origin, env, host, runner, router, launch, updater, ports>>
    PROVE  UpdateTypeOK'
<1>1. CASE Ok /\ Goto("migrate") /\ log' = "checkout" /\ repo' = [repo EXCEPT !.head = StepCommit(step, repo)]
  <2>1. repo' \in Repos
    BY <1>1, StepCommitTyped DEF UpdateTypeOK, Repos
  <2>2. walk' \in [pc : WalkPc, step : Step]
    BY <1>1, WalkTyped DEF Goto, WalkPc
  <2> QED  BY <1>1, <2>1, <2>2 DEF UpdateTypeOK, Ok, Phases
<1>2. CASE Fault("git") /\ FailWalk /\ UNCHANGED repo
  BY <1>2, FailTyped, EventTyped DEF UpdateTypeOK, Fault
<1> QED  BY <1>1, <1>2 DEF CheckoutStep

LEMMA WalkStepTyped ==
    UpdateTypeOK /\ StepInv /\ WalkStep => UpdateTypeOK'
<1> SUFFICES ASSUME UpdateTypeOK, StepInv, WalkStep PROVE UpdateTypeOK'
  OBVIOUS
<1>1. CASE Preflight
  <2>1. walk' \in [pc : WalkPc, step : Step] /\ log' \in Phases
    BY <1>1, FailTyped, WalkTyped DEF Preflight, Goto, WalkPc, Phases
  <2> QED  BY <1>1, <2>1, EventTyped DEF UpdateTypeOK, Preflight, Ok, Fault
<1>2. CASE FetchStep
  <2>1. Fetched \in Repos /\ NextStep(Fetched) \in Step
    BY FetchedTyped, NextStepResolves
  <2>2. walk' \in [pc : WalkPc, step : Step] /\ log' \in Phases
    <3>1. \/ FailWalk
          \/ walk' = [pc |-> "updater", step |-> NextStep(Fetched)] /\ UNCHANGED log
      BY <1>2 DEF FetchStep
    <3> QED  BY <2>1, <3>1, FailTyped DEF UpdateTypeOK, WalkPc
  <2>3. repo' \in Repos /\ events' \in 0..MaxEvents
    BY <1>2, <2>1, EventTyped DEF UpdateTypeOK, FetchStep, Ok, Fault
  <2> QED  BY <1>2, <2>2, <2>3 DEF UpdateTypeOK, FetchStep
<1>3. CASE LaunchUpdater
  <2>1. walk' \in [pc : WalkPc, step : Step] /\ events' \in 0..MaxEvents
    BY <1>3, WalkTyped, EventTyped DEF LaunchUpdater, UpdateTypeOK, Goto, WalkPc, Ok, Fault
  <2> QED  BY <1>3, <2>1, FreeTyped DEF UpdateTypeOK, LaunchUpdater, StopUpdater, UpdaterStays
<1>4. CASE StopRouter
  <2>1. walk' \in [pc : WalkPc, step : Step] /\ log' \in Phases /\ events' \in 0..MaxEvents
    BY <1>4, FailTyped, WalkTyped, EventTyped DEF StopRouter, UpdateTypeOK, Goto, WalkPc, Ok, Fault
  <2>2. router' \in Routers /\ launch' \in Launches
    BY <1>4, RouterTyped, NoDashTyped DEF StopRouter, UpdateTypeOK
  <2> QED  BY <1>4, <2>1, <2>2, FreeTyped DEF UpdateTypeOK, StopRouter, StopUpdater, UpdaterStays
<1>5. CASE Checkout
  BY <1>5, CheckoutTyped DEF Checkout, At, StepInv
<1>6. CASE WalkMigrate
  <2>1. Loop \in Runs
    BY UpdateAssumption DEF UpdateTypeOK, Loop, Runs, Repos
  <2>2. walk' \in [pc : WalkPc, step : Step] /\ log' \in Phases
    <3>1. CASE FailWalk
      BY <3>1, FailTyped
    <3>2. CASE log' = "migrate" /\ Goto("migrating")
      BY <3>2, GotoTyped DEF WalkPc, Phases
    <3> QED  BY <1>6, <3>1, <3>2 DEF WalkMigrate
  <2>3. runner' \in [{"walk", "cli"} -> Runs]
    BY <1>6, <2>1, RunnerTyped DEF WalkMigrate, UpdateTypeOK
  <2> QED  BY <1>6, <2>2, <2>3 DEF UpdateTypeOK, WalkMigrate
<1>7. CASE Install
  <2>1. walk' \in [pc : WalkPc, step : Step] /\ log' \in Phases
    BY <1>7, FailTyped, WalkTyped DEF Install, Goto, WalkPc, Phases
  <2>2. env' \in Commits /\ events' \in 0..MaxEvents
    BY <1>7, EventTyped DEF UpdateTypeOK, Repos, Install, Ok, Fault
  <2> QED  BY <1>7, <2>1, <2>2 DEF UpdateTypeOK, Install
<1>8. CASE WalkOn
  <2> DEFINE step == NextStep(repo)
  <2>1. step \in Step /\ Resolves(step, repo)
    BY NextStepResolves DEF UpdateTypeOK
  <2>2. CASE step.kind = "raise"
    <3>1. Ok /\ FailWalk /\ UNCHANGED repo
      BY <1>8, <2>2, Zenon DEF WalkOn
    <3> QED  BY <1>8, <3>1, FailTyped DEF UpdateTypeOK, WalkOn, Ok
  <2>3. CASE step.kind = "none"
    <3>1. Ok /\ Goto("start") /\ log' = "restarting" /\ UNCHANGED repo
      BY <1>8, <2>3 DEF WalkOn
    <3> QED  BY <1>8, <3>1, WalkTyped DEF UpdateTypeOK, WalkOn, Ok, Goto, WalkPc, Phases
  <2>4. CASE step.kind \in {"tag", "ref"}
    <3>1. CheckoutStep(step)
      BY <1>8, <2>4 DEF WalkOn
    <3> QED  BY <1>8, <2>1, <2>4, <3>1, CheckoutTyped DEF WalkOn
  <2> QED  BY <2>1, <2>2, <2>3, <2>4 DEF Step
<1>9. CASE StartRouter
  <2>1. walk' \in [pc : WalkPc, step : Step]
    BY <1>9, GotoTyped DEF StartRouter, WalkPc
  <2>2. log' \in Phases /\ events' \in 0..MaxEvents
    BY <1>9, EventTyped DEF StartRouter, UpdateTypeOK, Phases, Ok, Fault
  <2> QED  BY <1>9, <2>1, <2>2, RouterTyped, NoDashTyped, FreeTyped DEF UpdateTypeOK, StartRouter
<1>10. CASE ExecStopPost
  <2>1. walk' \in [pc : WalkPc, step : Step]
    BY <1>10, WalkTyped DEF ExecStopPost, Goto, WalkPc
  <2> QED  BY <1>10, <2>1, RouterTyped DEF UpdateTypeOK, ExecStopPost
<1> QED  BY <1>1, <1>2, <1>3, <1>4, <1>5, <1>6, <1>7, <1>8, <1>9, <1>10 DEF WalkStep

LEMMA StepTyped == UpdateTypeOK /\ StepInv /\ [UpdateNext]_updateVars => UpdateTypeOK'
<1> SUFFICES ASSUME UpdateTypeOK, StepInv, [UpdateNext]_updateVars PROVE UpdateTypeOK'
  OBVIOUS
<1>1. CASE UNCHANGED updateVars
  BY <1>1 DEF UpdateTypeOK, updateVars
<1>2. CASE UpdateNext
  BY <1>2, ButtonTyped, LaunchStepTyped, RouterStepTyped, OthersTyped, SetRemoteTyped, MigrateTyped, WalkStepTyped
     DEF UpdateNext
<1> QED  BY <1>1, <1>2

LEMMA InitTyped == UpdateInit => UpdateTypeOK
<1> SUFFICES ASSUME UpdateInit PROVE UpdateTypeOK
  OBVIOUS
<1>1. PICK n \in 1..Len(Release), t \in Tips \cup {0}, p \in InitPins :
         /\ origin = [tags |-> n, tip |-> t]
         /\ repo = [head |-> Release[1], tags |-> 1, tip |-> 0, pin |-> p]
  BY DEF UpdateInit
<1>2. /\ Len(Release) \in Nat /\ Len(Release) >= 1 /\ Release[1] \in Commits
      /\ Registry[Release[1]] \in Nat /\ MaxEvents \in Nat
  <2>1. Len(Release) \in Nat /\ Len(Release) >= 1 /\ Release[1] \in Commits /\ MaxEvents \in Nat
    BY <1>1, UpdateAssumption
  <2>2. \A c \in Commits : Registry[c] \in Nat
    BY UpdateAssumption
  <2> QED  BY <2>1, <2>2
<1>3. origin \in [tags : 0..Len(Release), tip : Commits \cup {0}] /\ repo \in Repos
  BY <1>1, <1>2, UpdateAssumption DEF Repos, Pins
<1>4. env \in Commits /\ host \in [version : Nat, applied : SUBSET Nat]
  <2>1. 1..Registry[Release[1]] \in SUBSET Nat
    BY <1>2
  <2> QED  BY <1>2, <2>1 DEF UpdateInit
<1>5. runner \in [{"walk", "cli"} -> Runs]
  BY IdleTyped DEF UpdateInit
<1>6. walk \in [pc : WalkPc, step : Step] /\ log \in Phases
  BY NoStepTyped DEF UpdateInit, WalkPc, Phases
<1>7. router \in Routers /\ launch \in Launches
  BY <1>2 DEF UpdateInit, Routers, Launches
<1>8. updater = "none" /\ ports = "caddy" /\ events \in 0..MaxEvents
  <2>1. updater = "none" /\ ports = "caddy" /\ events = 0
    BY Zenon DEF UpdateInit
  <2>2. 0 \in 0..MaxEvents
    BY <1>2
  <2> QED  BY <2>1, <2>2
<1> QED  BY <1>2, <1>3, <1>4, <1>5, <1>6, <1>7, <1>8 DEF UpdateTypeOK

-----------------------------------------------------------------------------
(* The steps, by what they do to the walk and the checkout.                 *)

\* The checkout stays what it was, or learns more of the remote, or the pin
\* changes: what could be resolved still can be.
Learns == repo'.head = repo.head /\ \A ref : CommitOf(ref, repo) \in Commits => CommitOf(ref, repo') \in Commits

LEMMA FetchLearns ==
    ASSUME UpdateTypeOK, NEW ref, NEW r \in {repo, Fetched}, repo' \in {r, [r EXCEPT !.pin = ref]}
    PROVE  Learns
<1>1. r \in Repos /\ r.head = repo.head /\ \A rf : CommitOf(rf, repo) \in Commits => CommitOf(rf, r) \in Commits
  <2>1. Fetched.head = repo.head
    BY DEF UpdateTypeOK, Fetched, Repos
  <2> QED  BY <2>1, FetchedTyped DEF UpdateTypeOK
<1>2. repo'.head = r.head /\ repo'.tip = r.tip
  BY <1>1 DEF Repos
<1>3. ASSUME NEW rf PROVE CommitOf(rf, repo') = CommitOf(rf, r)
  BY <1>2 DEF CommitOf
<1> QED  BY <1>1, <1>2, <1>3 DEF Learns

\* The walk goes to where its step no longer matters, or keeps it.
StepKept ==
  /\ walk'.step \in {walk.step, NoStep}
  /\ walk'.pc \in {"updater", "stop", "checkout"} => walk' = walk

LEMMA StepInvKept ==
    ASSUME UpdateTypeOK, StepInv, StepKept, Learns PROVE StepInv'
<1>1. CASE walk'.pc \in {"updater", "stop", "checkout"}
  <2>1. walk' = walk
    BY <1>1 DEF StepKept
  <2>2. Resolves(walk.step, repo)
    BY <1>1, <2>1 DEF StepInv
  <2>3. Resolves(walk.step, repo)'
    BY <2>1, <2>2 DEF Resolves, Learns
  <2> QED  BY <2>1, <2>3 DEF StepInv
<1>2. CASE walk'.pc \notin {"updater", "stop", "checkout"}
  <2>1. walk'.step.kind # "raise"
    <3>1. NoStep.kind = "none" /\ walk.step.kind # "raise"
      BY DEF NoStep, StepInv
    <3> QED  BY <3>1 DEF StepKept
  <2> QED  BY <1>2, <2>1 DEF StepInv
<1> QED  BY <1>1, <1>2

\* Every step but those that choose the next step of the walk, or take it.
LEMMA StepCases ==
    ASSUME UpdateTypeOK, UpdateNext
    PROVE  \/ FetchStep \/ LaunchUpdater \/ StopRouter \/ Checkout \/ WalkOn
           \/ StepKept /\ Learns
<1>0. UNCHANGED repo => Learns
  BY DEF Learns, CommitOf
<1>1. UNCHANGED walk => StepKept
  BY DEF StepKept
<1>2. ASSUME NEW pc \in WalkPc \ {"updater", "stop", "checkout"}, Goto(pc) PROVE StepKept
  BY <1>2 DEF StepKept, Goto, UpdateTypeOK
<1>3. CASE Click \/ ClickChecked \/ ClickToken \/ ShellApply
  BY <1>0, <1>1, <1>3 DEF Click, ClickChecked, ClickToken, ShellApply
<1>4. ASSUME NEW l \in {"dash", "cli"}, LaunchStep(l) PROVE StepKept /\ Learns
  <2>1. walk' \in {walk, [pc |-> "preflight", step |-> NoStep]} /\ UNCHANGED repo
    BY <1>4 DEF LaunchStep, StartApplyCheck, Detach, DetachFails
  <2> QED  BY <1>0, <2>1 DEF StepKept
<1>5. CASE Preflight \/ WalkMigrate \/ Install \/ StartRouter \/ ExecStopPost
  <2>1. UNCHANGED repo /\ (Goto("post") \/ Goto("fetch") \/ Goto("migrating") \/ Goto("next") \/ Goto("idle"))
    BY <1>5 DEF Preflight, WalkMigrate, Install, StartRouter, ExecStopPost, FailWalk
  <2> QED  BY <1>0, <1>2, <2>1 DEF WalkPc
<1>6. CASE ShellMigrate
  BY <1>0, <1>1, <1>6 DEF ShellMigrate
<1>7. ASSUME NEW r \in {"walk", "cli"}, MigrateStep(r) PROVE StepKept /\ Learns
  <2>1. UNCHANGED repo /\ (UNCHANGED walk \/ Goto("post") \/ Goto("install"))
    BY <1>7 DEF MigrateStep, MigrationUp, MigrationAppend, MigrationsDone, FailWalk
  <2> QED  BY <1>0, <1>1, <1>2, <2>1 DEF WalkPc
<1>8. CASE RestartRouter \/ CrashLoop \/ BootStep
  BY <1>0, <1>1, <1>8 DEF RestartRouter, CrashLoop, BootStep, BootStopUpdater, BootCaddy, BootMark
<1>9. CASE UpdaterSeesDown \/ UpdaterBinds \/ UpdaterEnds \/ Publish \/ PushDev
  BY <1>0, <1>1, <1>9 DEF UpdaterSeesDown, UpdaterBinds, UpdaterEnds, Publish, PushDev
<1>10. CASE KillWalk \/ Reboot
  <2>1. UNCHANGED repo /\ (Goto("post") \/ Goto("idle"))
    BY <1>10 DEF KillWalk, Reboot, Goto
  <2> QED  BY <1>0, <1>2, <2>1 DEF WalkPc
<1>11. CASE FetchUpdates
  BY <1>1, <1>11, FetchLearns DEF FetchUpdates
<1>12. ASSUME NEW ref \in {"latest", "dev", "old"}, SetRemote(ref) PROVE StepKept /\ Learns
  BY <1>1, <1>12, FetchLearns DEF SetRemote
<1> QED  BY <1>3, <1>4, <1>5, <1>6, <1>7, <1>8, <1>9, <1>10, <1>11, <1>12 DEF UpdateNext, WalkStep

LEMMA StepInvStep == UpdateTypeOK /\ StepInv /\ [UpdateNext]_updateVars => StepInv'
<1> SUFFICES ASSUME UpdateTypeOK, StepInv, [UpdateNext]_updateVars PROVE StepInv'
  OBVIOUS
<1>0. CASE UNCHANGED updateVars
  BY <1>0 DEF updateVars, StepInv, Resolves, CommitOf
<1>1. ASSUME NEW pc \in WalkPc \ {"updater", "stop", "checkout"}, Goto(pc) PROVE StepInv'
  <2>1. walk'.pc = pc /\ walk'.step = walk.step
    BY <1>1 DEF Goto, UpdateTypeOK
  <2> QED  BY <2>1 DEF StepInv
<1>2. FailWalk => StepInv'
  BY <1>1 DEF FailWalk, WalkPc
<1>3. ASSUME NEW step, CheckoutStep(step) PROVE StepInv'
  BY <1>1, <1>2, <1>3 DEF CheckoutStep, WalkPc
<1>4. CASE FetchStep
  <2>1. CASE FailWalk
    BY <1>2, <2>1
  <2>2. CASE ~FailWalk
    <3>1. /\ repo' = Fetched /\ NextStep(Fetched).kind # "raise"
          /\ walk' = [pc |-> "updater", step |-> NextStep(Fetched)]
      BY <1>4, <2>2 DEF FetchStep
    <3>2. Resolves(NextStep(Fetched), Fetched)
      BY FetchedTyped, NextStepResolves
    <3>3. walk'.step = NextStep(Fetched) /\ walk'.pc = "updater"
      BY <3>1
    <3>4. Resolves(walk.step, repo)'
      BY <3>1, <3>2, <3>3
    <3> QED  BY <3>1, <3>3, <3>4 DEF StepInv
  <2> QED  BY <2>1, <2>2
<1>5. CASE LaunchUpdater
  <2>1. walk.pc = "updater" /\ walk'.pc = "stop" /\ walk'.step = walk.step /\ repo' = repo
    BY <1>5 DEF LaunchUpdater, At, Goto, UpdateTypeOK
  <2>2. Resolves(walk.step, repo)'
    BY <2>1 DEF StepInv, Resolves, CommitOf
  <2> QED  BY <2>1, <2>2 DEF StepInv
<1>6. CASE StopRouter
  <2>1. CASE FailWalk
    BY <1>2, <2>1
  <2>2. CASE ~FailWalk
    <3>1. /\ walk.pc = "stop" /\ walk'.step = walk.step /\ repo' = repo
          /\ walk'.pc = IF walk.step.kind = "none" THEN "migrate" ELSE "checkout"
      BY <1>6, <2>2 DEF StopRouter, At, Goto, UpdateTypeOK
    <3>2. Resolves(walk.step, repo)'
      BY <3>1 DEF StepInv, Resolves, CommitOf
    <3>3. walk.step.kind \in {"none", "raise", "tag", "ref"}
      BY DEF UpdateTypeOK, Step
    <3> QED  BY <3>1, <3>2, <3>3 DEF StepInv
  <2> QED  BY <2>1, <2>2
<1>7. CASE Checkout
  BY <1>3, <1>7 DEF Checkout
<1>8. CASE WalkOn
  <2>1. Goto("post") \/ Goto("start") \/ Goto("migrate")
    BY <1>8 DEF WalkOn, FailWalk, CheckoutStep
  <2> QED  BY <1>1, <2>1 DEF WalkPc
<1> QED  BY <1>0, <1>4, <1>5, <1>6, <1>7, <1>8, StepCases, StepInvKept

-----------------------------------------------------------------------------
(* The migrations.                                                          *)

LEMMA MigrateInvStep == UpdateTypeOK /\ MigrateInv /\ [UpdateNext]_updateVars => MigrateInv'
<1> SUFFICES ASSUME UpdateTypeOK, MigrateInv, [UpdateNext]_updateVars PROVE MigrateInv'
  OBVIOUS
<1>0. ASSUME UNCHANGED <<host, runner>> PROVE MigrateInv'
  BY <1>0 DEF MigrateInv
<1> DEFINE Sound(run) == /\ run.pc \in {"up", "append"} => 1..run.cur \subseteq host.applied
                         /\ run.pc = "append" => run.cur + 1 \in host.applied
<1>1. ASSUME NEW r \in {"walk", "cli"}, NEW run, Sound(run), UNCHANGED host,
             runner' = [runner EXCEPT ![r] = run]
      PROVE  MigrateInv'
  BY <1>1 DEF MigrateInv, UpdateTypeOK
<1>2. Sound(Idle)
  BY DEF Idle
<1>3. Sound(Loop)
  BY DEF Loop, MigrateInv
<1> HIDE DEF Sound
<1>4. ASSUME NEW r \in {"walk", "cli"}, MigrationUp(r) PROVE MigrateInv'
  <2>1. CASE runner' = [runner EXCEPT ![r] = Idle] /\ UNCHANGED host
    BY <1>1, <1>2, <2>1
  <2>2. CASE /\ host' = [host EXCEPT !.applied = @ \cup {runner[r].cur + 1}]
             /\ runner' = [runner EXCEPT ![r].pc = "append"]
    <3>1. /\ host'.version = host.version /\ host'.applied = host.applied \cup {runner[r].cur + 1}
          /\ runner'[r].pc = "append" /\ runner'[r].cur = runner[r].cur
          /\ \A q \in {"walk", "cli"} \ {r} : runner'[q] = runner[q]
      BY <2>2 DEF UpdateTypeOK, Runs
    <3>2. runner[r].pc = "up"
      BY <1>4 DEF MigrationUp
    <3> QED  BY <3>1, <3>2 DEF MigrateInv
  <2> QED  BY <1>4, <2>1, <2>2 DEF MigrationUp
<1>5. ASSUME NEW r \in {"walk", "cli"}, MigrationAppend(r) PROVE MigrateInv'
  <2> DEFINE v == runner[r].cur + 1
  <2>1. /\ host'.version = v /\ host'.applied = host.applied
        /\ runner'[r].pc = "up" /\ runner'[r].cur = v
        /\ \A q \in {"walk", "cli"} \ {r} : runner'[q] = runner[q]
    BY <1>5 DEF MigrationAppend, UpdateTypeOK, Runs
  <2>2. 1..v \subseteq host.applied
    <3>1. 1..runner[r].cur \subseteq host.applied /\ v \in host.applied /\ runner[r].cur \in Nat
      BY <1>5 DEF MigrationAppend, MigrateInv, UpdateTypeOK, Runs
    <3> QED  BY <3>1
  <2> QED  BY <2>1, <2>2 DEF MigrateInv
<1>6. ASSUME NEW r \in {"walk", "cli"}, MigrationsDone(r) PROVE MigrateInv'
  BY <1>1, <1>2, <1>6 DEF MigrationsDone
<1>7. CASE ShellMigrate
  BY <1>1, <1>3, <1>7 DEF ShellMigrate
<1>8. CASE WalkStep
  <2>1. CASE WalkMigrate
    BY <1>0, <1>1, <1>3, <2>1 DEF WalkMigrate
  <2>2. CASE ~WalkMigrate
    BY <1>0, <1>8, <2>2 DEF WalkStep, Preflight, FetchStep, LaunchUpdater, StopRouter, Checkout, Install, WalkOn,
       StartRouter, ExecStopPost
  <2> QED  BY <2>1, <2>2
<1>9. CASE KillWalk
  BY <1>1, <1>2, <1>9 DEF KillWalk
<1>10. CASE Reboot
  BY <1>10 DEF Reboot, MigrateInv, Idle
<1>11. CASE \/ Click \/ ClickChecked \/ ClickToken \/ ShellApply \/ \E l \in {"dash", "cli"} : LaunchStep(l)
  BY <1>0, <1>11 DEF Click, ClickChecked, ClickToken, ShellApply, LaunchStep, StartApplyCheck, Detach, DetachFails
<1>12. CASE \/ RestartRouter \/ CrashLoop \/ BootStep \/ UpdaterSeesDown \/ UpdaterBinds \/ UpdaterEnds
            \/ Publish \/ PushDev \/ FetchUpdates \/ \E ref \in {"latest", "dev", "old"} : SetRemote(ref)
  BY <1>0, <1>12 DEF RestartRouter, CrashLoop, BootStep, BootStopUpdater, BootCaddy, BootMark, UpdaterSeesDown,
     UpdaterBinds, UpdaterEnds, Publish, PushDev, FetchUpdates, SetRemote
<1>13. CASE UNCHANGED updateVars
  BY <1>0, <1>13 DEF updateVars
<1> QED  BY <1>4, <1>5, <1>6, <1>7, <1>8, <1>9, <1>10, <1>11, <1>12, <1>13 DEF UpdateNext, MigrateStep

-----------------------------------------------------------------------------
(* The walk.                                                                *)

\* Nothing that has run is undone.
AppliedGrows == host.applied \subseteq host'.applied

LEMMA Grows == UpdateTypeOK /\ [UpdateNext]_updateVars => AppliedGrows
<1> SUFFICES ASSUME UpdateTypeOK, [UpdateNext]_updateVars PROVE AppliedGrows
  OBVIOUS
<1>0. UNCHANGED host => AppliedGrows
  BY DEF AppliedGrows
<1>1. ASSUME NEW r \in {"walk", "cli"}, MigrateStep(r) PROVE AppliedGrows
  <2>1. \/ UNCHANGED host
        \/ host' = [host EXCEPT !.applied = @ \cup {runner[r].cur + 1}]
        \/ host' = [host EXCEPT !.version = runner[r].cur + 1]
    BY <1>1 DEF MigrateStep, MigrationUp, MigrationAppend, MigrationsDone
  <2> QED  BY <2>1 DEF UpdateTypeOK, AppliedGrows
<1>2. CASE WalkStep
  BY <1>0, <1>2 DEF WalkStep, Preflight, FetchStep, LaunchUpdater, StopRouter, Checkout, WalkMigrate, Install,
     WalkOn, StartRouter, ExecStopPost
<1>3. CASE \/ Click \/ ClickChecked \/ ClickToken \/ ShellApply \/ \E l \in {"dash", "cli"} : LaunchStep(l)
           \/ ShellMigrate \/ KillWalk \/ Reboot
  BY <1>0, <1>3 DEF Click, ClickChecked, ClickToken, ShellApply, LaunchStep, StartApplyCheck, Detach, DetachFails,
     ShellMigrate, KillWalk, Reboot
<1>4. CASE \/ RestartRouter \/ CrashLoop \/ BootStep \/ UpdaterSeesDown \/ UpdaterBinds \/ UpdaterEnds
           \/ Publish \/ PushDev \/ FetchUpdates \/ \E ref \in {"latest", "dev", "old"} : SetRemote(ref)
  BY <1>0, <1>4 DEF RestartRouter, CrashLoop, BootStep, BootStopUpdater, BootCaddy, BootMark, UpdaterSeesDown,
     UpdaterBinds, UpdaterEnds, Publish, PushDev, FetchUpdates, SetRemote
<1>5. CASE UNCHANGED updateVars
  BY <1>0, <1>5 DEF updateVars
<1> QED  BY <1>1, <1>2, <1>3, <1>4, <1>5 DEF UpdateNext

\* The checkout and what was installed for it stay.
CodeKept == repo'.head = repo.head /\ env' = env

LEMMA MigratedKept == CodeKept /\ AppliedGrows /\ Migrated => Migrated'
  BY DEF CodeKept, AppliedGrows, Migrated

\* The walk stays where it is, or is at a point that asks nothing.
LEMMA WalkInvKept ==
    ASSUME WalkInv, CodeKept, AppliedGrows,
           \/ walk'.pc = walk.pc /\ runner'["walk"] = runner["walk"]
           \/ walk'.pc \in {"idle", "preflight", "fetch", "updater", "stop", "post"} /\ runner'["walk"].pc = "idle",
           router'.st = router.st \/ router.st # "down"
                \/ walk'.pc \in {"idle", "preflight", "fetch", "updater", "stop", "post"}
    PROVE  WalkInv'
<1>1. Migrated => Migrated'
  BY MigratedKept
<1>2. CASE walk'.pc = walk.pc /\ runner'["walk"] = runner["walk"]
  BY <1>1, <1>2 DEF WalkInv, CodeKept
<1>3. CASE walk'.pc \in {"idle", "preflight", "fetch", "updater", "stop", "post"} /\ runner'["walk"].pc = "idle"
  BY <1>3 DEF WalkInv
<1> QED  BY <1>2, <1>3

\* Nothing the walk does before its first migration, and nothing beside it.
LEMMA WalkInvEarly ==
    ASSUME UpdateTypeOK, WalkInv, AppliedGrows,
           \/ Preflight \/ FetchStep \/ LaunchUpdater \/ \E l \in {"dash", "cli"} : LaunchStep(l)
           \/ Click \/ ClickChecked \/ ClickToken \/ ShellApply \/ ShellMigrate
           \/ RestartRouter \/ CrashLoop \/ BootStep \/ UpdaterSeesDown \/ UpdaterBinds \/ UpdaterEnds
           \/ KillWalk \/ Reboot \/ Publish \/ PushDev \/ FetchUpdates
           \/ \E ref \in {"latest", "dev", "old"} : SetRemote(ref)
    PROVE  WalkInv'
<1>0. UNCHANGED <<repo, env>> => CodeKept
  BY DEF CodeKept
<1>1. ASSUME NEW pc, Goto(pc) PROVE walk'.pc = pc
  BY <1>1 DEF Goto, UpdateTypeOK
<1>2. walk.pc \in {"idle", "preflight", "fetch", "updater", "stop"} => runner["walk"].pc = "idle"
  BY DEF WalkInv
<1>3. CASE Preflight
  <2>1. walk'.pc \in {"fetch", "post"}
    BY <1>1, <1>3 DEF Preflight, FailWalk
  <2> QED  BY <1>0, <1>2, <1>3, <2>1, WalkInvKept DEF Preflight, At
<1>4. CASE FetchStep
  <2>1. walk'.pc \in {"updater", "post"}
    <3>1. FailWalk \/ walk' = [pc |-> "updater", step |-> NextStep(Fetched)]
      BY <1>4 DEF FetchStep
    <3> QED  BY <1>1, <3>1 DEF FailWalk
  <2>2. CodeKept
    <3>1. repo' \in {repo, Fetched} /\ env' = env
      BY <1>4 DEF FetchStep
    <3>2. Fetched.head = repo.head
      BY DEF Fetched, UpdateTypeOK, Repos
    <3> QED  BY <3>1, <3>2 DEF CodeKept
  <2> QED  BY <1>2, <1>4, <2>1, <2>2, WalkInvKept DEF FetchStep, At
<1>5. CASE LaunchUpdater
  <2>1. walk'.pc = "stop"
    BY <1>1, <1>5 DEF LaunchUpdater
  <2> QED  BY <1>0, <1>2, <1>5, <2>1, WalkInvKept DEF LaunchUpdater, At
<1>6. ASSUME NEW l \in {"dash", "cli"}, LaunchStep(l) PROVE WalkInv'
  <2>1. UNCHANGED walk \/ (walk.pc = "idle" /\ walk'.pc = "preflight")
    <3>1. CASE StartApplyCheck(l)
      BY <3>1 DEF StartApplyCheck
    <3>2. CASE Detach(l)
      BY <3>2 DEF Detach, Running
    <3>3. CASE DetachFails(l)
      BY <3>3 DEF DetachFails, Running
    <3> QED  BY <1>6, <3>1, <3>2, <3>3 DEF LaunchStep
  <2>2. router'.st = router.st /\ UNCHANGED <<repo, env, runner>>
    BY <1>6 DEF LaunchStep, StartApplyCheck, Detach, DetachFails, UpdateTypeOK, Routers
  <2> QED  BY <1>0, <1>2, <2>1, <2>2, WalkInvKept
<1>7. CASE Click \/ ClickChecked \/ ClickToken \/ ShellApply
  <2>1. router'.st = router.st /\ UNCHANGED <<repo, env, runner, walk>>
    BY <1>7 DEF Click, ClickChecked, ClickToken, ShellApply, UpdateTypeOK, Routers
  <2> QED  BY <1>0, <2>1, WalkInvKept
<1>8. CASE ShellMigrate
  <2>1. runner'["walk"] = runner["walk"]
    BY <1>8 DEF ShellMigrate, UpdateTypeOK
  <2> QED  BY <1>0, <1>8, <2>1, WalkInvKept DEF ShellMigrate
<1>9. CASE RestartRouter \/ CrashLoop \/ BootStep
  BY <1>0, <1>9, WalkInvKept DEF RestartRouter, CrashLoop, BootStep, BootStopUpdater, BootCaddy, BootMark
<1>10. CASE UpdaterSeesDown \/ UpdaterBinds \/ UpdaterEnds \/ Publish \/ PushDev
  BY <1>0, <1>10, WalkInvKept DEF UpdaterSeesDown, UpdaterBinds, UpdaterEnds, Publish, PushDev
<1>11. CASE KillWalk \/ Reboot
  <2>1. walk'.pc \in {"idle", "post"}
    BY <1>1, <1>11 DEF KillWalk, Reboot, UpdateTypeOK
  <2>2. runner'["walk"].pc = "idle"
    BY <1>11 DEF KillWalk, Reboot, UpdateTypeOK, Idle
  <2> QED  BY <1>0, <1>11, <2>1, <2>2, WalkInvKept DEF KillWalk, Reboot
<1>12. ASSUME NEW ref, FetchUpdates \/ SetRemote(ref) PROVE WalkInv'
  <2>1. repo'.head = repo.head
    <3>1. repo' \in {repo, Fetched, [repo EXCEPT !.pin = ref], [Fetched EXCEPT !.pin = ref]}
      BY <1>12 DEF FetchUpdates, SetRemote
    <3> QED  BY <3>1, FetchLearns DEF Learns
  <2> QED  BY <1>12, <2>1, WalkInvKept DEF CodeKept, FetchUpdates, SetRemote
<1> QED  BY <1>3, <1>4, <1>5, <1>6, <1>7, <1>8, <1>9, <1>10, <1>11, <1>12

LEMMA WalkInvStep == UpdateTypeOK /\ MigrateInv /\ WalkInv /\ [UpdateNext]_updateVars => WalkInv'
<1> SUFFICES ASSUME UpdateTypeOK, MigrateInv, WalkInv, [UpdateNext]_updateVars PROVE WalkInv'
  OBVIOUS
<1>0. AppliedGrows /\ (UNCHANGED <<repo, env>> => CodeKept)
  BY Grows DEF CodeKept
<1>1. ASSUME NEW pc, Goto(pc) PROVE walk'.pc = pc
  BY <1>1 DEF Goto, UpdateTypeOK
<1>2. walk.pc # "migrating" => runner["walk"].pc = "idle"
  BY DEF WalkInv
<1>3. CASE StopRouter
  <2>1. CASE FailWalk
    BY <1>0, <1>1, <1>2, <1>3, <2>1, WalkInvKept DEF StopRouter, FailWalk, At
  <2>2. CASE ~FailWalk
    <3>1. walk'.pc \in {"migrate", "checkout"} /\ router'.st = "down"
      BY <1>1, <1>3, <2>2 DEF StopRouter, UpdateTypeOK, Routers
    <3> QED  BY <1>2, <1>3, <3>1 DEF StopRouter, At, WalkInv
  <2> QED  BY <2>1, <2>2
<1>4. ASSUME NEW step, CheckoutStep(step), walk.pc \in {"checkout", "next"}, UNCHANGED <<env, runner, router>>
      PROVE  WalkInv'
  <2>1. walk'.pc \in {"migrate", "post"}
    BY <1>1, <1>4 DEF CheckoutStep, FailWalk
  <2> QED  BY <1>2, <1>4, <2>1 DEF WalkInv
<1>5. CASE Checkout
  BY <1>4, <1>5 DEF Checkout, At
<1>6. CASE WalkMigrate
  <2>1. CASE FailWalk /\ UNCHANGED runner
    BY <1>0, <1>1, <1>2, <1>6, <2>1, WalkInvKept DEF WalkMigrate, FailWalk, At
  <2>2. CASE Goto("migrating") /\ runner' = [runner EXCEPT !["walk"] = Loop]
    <3>1. walk'.pc = "migrating" /\ runner'["walk"].high = Registry[repo.head]
      BY <1>1, <2>2 DEF UpdateTypeOK, Loop
    <3> QED  BY <1>6, <3>1 DEF WalkMigrate, At, WalkInv
  <2> QED  BY <1>6, <2>1, <2>2 DEF WalkMigrate
<1>7. CASE Install
  <2>1. CASE FailWalk /\ UNCHANGED env
    BY <1>0, <1>1, <1>2, <1>7, <2>1, WalkInvKept DEF Install, FailWalk, At
  <2>2. CASE Goto("next") /\ env' = repo.head
    <3>1. walk.pc = "install" /\ walk'.pc = "next" /\ UNCHANGED <<repo, host, runner, router>>
      BY <1>1, <1>7, <2>2 DEF Install, At
    <3>2. Migrated'
      BY <3>1 DEF WalkInv, Migrated
    <3> QED  BY <1>2, <2>2, <3>1, <3>2 DEF WalkInv
  <2> QED  BY <1>7, <2>1, <2>2 DEF Install
<1>8. CASE WalkOn
  <2> DEFINE step == NextStep(repo)
  <2>1. CASE step.kind = "raise"
    <3>1. FailWalk /\ UNCHANGED <<repo, env, runner, router>>
      BY <1>8, <2>1 DEF WalkOn
    <3> QED  BY <1>0, <1>1, <1>2, <1>8, <3>1, WalkInvKept DEF FailWalk, WalkOn, At
  <2>2. CASE step.kind = "none"
    <3>1. walk.pc = "next" /\ walk'.pc = "start" /\ UNCHANGED <<repo, env, runner, router>>
      BY <1>1, <1>8, <2>2 DEF WalkOn, At
    <3> QED  BY <1>2, <3>1 DEF WalkInv
  <2>3. CASE step.kind \notin {"raise", "none"}
    BY <1>4, <1>8, <2>3 DEF WalkOn, At
  <2> QED  BY <2>1, <2>2, <2>3
<1>9. CASE StartRouter \/ ExecStopPost
  <2>1. walk'.pc \in {"idle", "post"} /\ runner["walk"].pc = "idle"
    BY <1>1, <1>2, <1>9 DEF StartRouter, ExecStopPost, At
  <2> QED  BY <1>0, <1>9, <2>1, WalkInvKept DEF StartRouter, ExecStopPost
<1>10. ASSUME NEW r \in {"walk", "cli"}, MigrateStep(r) PROVE WalkInv'
  <2>0. CodeKept /\ UNCHANGED <<repo, router>>
    BY <1>0, <1>10 DEF MigrateStep, MigrationUp, MigrationAppend, MigrationsDone
  <2>1. CASE r = "cli"
    <3>1. UNCHANGED walk /\ runner'["walk"] = runner["walk"]
      BY <1>10, <2>1 DEF MigrateStep, MigrationUp, MigrationAppend, MigrationsDone, UpdateTypeOK
    <3> QED  BY <1>0, <2>0, <3>1, WalkInvKept
  <2>2. CASE r = "walk" /\ MigrationUp(r)
    <3>1. CASE FailWalk /\ runner' = [runner EXCEPT ![r] = Idle]
      <4>1. walk'.pc = "post" /\ runner'["walk"].pc = "idle"
        BY <1>1, <2>2, <3>1 DEF FailWalk, Idle, UpdateTypeOK
      <4> QED  BY <1>0, <2>0, <4>1, WalkInvKept
    <3>2. CASE UNCHANGED walk /\ runner' = [runner EXCEPT ![r].pc = "append"]
      <4>1. runner["walk"].pc = "up" /\ runner'["walk"].high = runner["walk"].high
        BY <2>2, <3>2 DEF MigrationUp, UpdateTypeOK, Runs
      <4> QED  BY <2>0, <3>2, <4>1 DEF WalkInv
    <3> QED  BY <2>2, <3>1, <3>2 DEF MigrationUp
  <2>3. CASE r = "walk" /\ MigrationAppend(r)
    <3>1. UNCHANGED walk /\ runner["walk"].pc = "append" /\ runner'["walk"].high = runner["walk"].high
      BY <2>3 DEF MigrationAppend, UpdateTypeOK, Runs
    <3> QED  BY <2>0, <3>1 DEF WalkInv
  <2>4. CASE r = "walk" /\ MigrationsDone(r)
    <3>1. /\ walk.pc = "migrating" /\ walk'.pc = "install" /\ runner'["walk"].pc = "idle"
          /\ runner["walk"].pc = "up" /\ runner["walk"].cur = Registry[repo.head] /\ UNCHANGED host
      BY <1>1, <2>4 DEF MigrationsDone, WalkInv, UpdateTypeOK, Idle
    <3>2. Migrated
      BY <3>1 DEF Migrated, MigrateInv
    <3>3. Migrated'
      BY <1>0, <2>0, <3>2, MigratedKept
    <3> QED  BY <2>0, <3>1, <3>3 DEF WalkInv
  <2> QED  BY <1>10, <2>1, <2>2, <2>3, <2>4 DEF MigrateStep
<1>11. CASE UNCHANGED updateVars
  BY <1>0, <1>11, WalkInvKept DEF updateVars
<1> QED  BY <1>0, <1>3, <1>5, <1>6, <1>7, <1>8, <1>9, <1>10, <1>11, WalkInvEarly DEF UpdateNext, WalkStep

-----------------------------------------------------------------------------
(* The restart at the end of a walk.                                        *)

\* What the last entry of the log says of a restart stays true.
LEMMA RestartInvKept ==
    ASSUME RestartInv, CodeKept, AppliedGrows,
           log' = "restarting" => log = "restarting",
           walk'.pc \in {walk.pc, "post", "idle", "preflight"},
           \/ router'.st = router.st /\ router'.code = router.code /\ router'.bare = router.bare
           \/ router'.st = "booting" /\ router'.code = repo.head
           \/ router'.st = "dead",
           ports' = "updater" => updater' = "serving",
           router'.st \in {"caddy", "mark"} => updater' = updater \/ updater' = "none",
           ports' = ports \/ router'.st # "mark"
    PROVE  RestartInv'
<1>1. ports' = "updater" => updater' = "serving"
  OBVIOUS
<1>2. ASSUME log' = "restarting"
      PROVE  /\ walk'.pc \in {"start", "post", "idle", "preflight"}
             /\ env' = repo'.head /\ Migrated'
             /\ router'.st # "up"
             /\ router'.st \in {"booting", "caddy", "mark"} => router'.code = repo'.head
             /\ router'.st \in {"caddy", "mark"} => updater' = "none" \/ router'.bare
             /\ router'.st = "mark" => ports' = "caddy" \/ router'.bare
  <2>1. Migrated'
    BY <1>2, MigratedKept DEF RestartInv
  <2> QED  BY <1>2, <2>1 DEF RestartInv, CodeKept
<1> QED  BY <1>1, <1>2 DEF RestartInv

\* Steps that the log excludes.
LEMMA NoRestart ==
    ASSUME log' # "restarting", ports' = "updater" => updater' = "serving" PROVE RestartInv'
  BY DEF RestartInv

LEMMA PortsStep == UpdateTypeOK /\ RestartInv /\ [UpdateNext]_updateVars => (ports' = "updater" => updater' = "serving")
<1> SUFFICES ASSUME RestartInv, [UpdateNext]_updateVars, ports' = "updater" PROVE updater' = "serving"
  OBVIOUS
<1>0. ports = "updater" => updater = "serving"
  BY DEF RestartInv
<1>1. CASE WalkStep
  BY <1>0, <1>1 DEF WalkStep, Preflight, FetchStep, LaunchUpdater, StopRouter, Checkout, WalkMigrate, Install,
     WalkOn, StartRouter, ExecStopPost, Free, StopUpdater, UpdaterStays
<1>2. CASE \/ Click \/ ClickChecked \/ ClickToken \/ ShellApply \/ \E l \in {"dash", "cli"} : LaunchStep(l)
           \/ ShellMigrate \/ KillWalk \/ Reboot \/ \E r \in {"walk", "cli"} : MigrateStep(r)
  BY <1>0, <1>2 DEF Click, ClickChecked, ClickToken, ShellApply, LaunchStep, StartApplyCheck, Detach, DetachFails,
     ShellMigrate, KillWalk, Reboot, MigrateStep, MigrationUp, MigrationAppend, MigrationsDone
<1>3. CASE \/ RestartRouter \/ CrashLoop \/ BootStep \/ UpdaterSeesDown \/ UpdaterBinds \/ UpdaterEnds
  BY <1>0, <1>3 DEF RestartRouter, CrashLoop, BootStep, BootStopUpdater, BootCaddy, BootMark, UpdaterSeesDown,
     UpdaterBinds, UpdaterEnds, Free, StopUpdater, UpdaterStays
<1>4. CASE Publish \/ PushDev \/ FetchUpdates \/ \E ref \in {"latest", "dev", "old"} : SetRemote(ref)
  BY <1>0, <1>4 DEF Publish, PushDev, FetchUpdates, SetRemote
<1>5. CASE UNCHANGED updateVars
  BY <1>0, <1>5 DEF updateVars
<1> QED  BY <1>1, <1>2, <1>3, <1>4, <1>5 DEF UpdateNext

LEMMA RestartInvWalk ==
    ASSUME UpdateTypeOK, WalkInv, RestartInv, AppliedGrows, ports' = "updater" => updater' = "serving", WalkStep
    PROVE  RestartInv'
<1>0. UNCHANGED <<repo, env>> => CodeKept
  BY DEF CodeKept
<1>1. ASSUME NEW pc, Goto(pc) PROVE walk'.pc = pc
  BY <1>1 DEF Goto, UpdateTypeOK
<1>2. log = "restarting" => walk.pc \in {"start", "post", "idle", "preflight"}
  BY DEF RestartInv
<1>3. CASE Preflight
  BY <1>3, NoRestart DEF Preflight, FailWalk
<1>4. CASE FetchStep
  <2>1. log' \in {log, "failed"} /\ walk.pc = "fetch"
    BY <1>4 DEF FetchStep, FailWalk, At
  <2> QED  BY <1>2, <2>1, NoRestart
<1>5. CASE LaunchUpdater
  BY <1>2, <1>5, NoRestart DEF LaunchUpdater, At
<1>6. CASE StopRouter
  <2>1. log' \in {log, "failed"} /\ walk.pc = "stop"
    BY <1>6 DEF StopRouter, FailWalk, At
  <2> QED  BY <1>2, <2>1, NoRestart
<1>7. CASE Checkout
  BY <1>7, NoRestart DEF Checkout, CheckoutStep, FailWalk
<1>8. CASE WalkMigrate
  BY <1>8, NoRestart DEF WalkMigrate, FailWalk
<1>9. CASE Install
  BY <1>9, NoRestart DEF Install, FailWalk
<1>10. CASE WalkOn
  <2> DEFINE step == NextStep(repo)
  <2>1. CASE step.kind = "raise"
    BY <1>10, <2>1, NoRestart DEF WalkOn, FailWalk
  <2>2. CASE step.kind = "none"
    <3>1. walk.pc = "next" /\ walk'.pc = "start" /\ UNCHANGED <<repo, env, host, router>>
      BY <1>1, <1>10, <2>2 DEF WalkOn, At
    <3>2. Migrated' /\ env' = repo'.head /\ router'.st = "down"
      BY <3>1 DEF WalkInv, Migrated
    <3> QED  BY <3>1, <3>2 DEF RestartInv
  <2>3. CASE step.kind \notin {"raise", "none"}
    BY <1>10, <2>3, NoRestart DEF WalkOn, CheckoutStep, FailWalk
  <2> QED  BY <2>1, <2>2, <2>3
<1>11. CASE StartRouter
  <2>1. CASE log' = "failed"
    BY <2>1, NoRestart
  <2>2. CASE log' # "failed"
    <3>1. router' = Boot /\ UNCHANGED <<log, updater, repo, env>> /\ walk'.pc = "post"
      BY <1>1, <1>11, <2>2 DEF StartRouter
    <3>2. router'.st = "booting" /\ router'.code = repo.head
      BY <3>1 DEF Boot
    <3> QED  BY <1>0, <3>1, <3>2, RestartInvKept
  <2> QED  BY <2>1, <2>2
<1>12. CASE ExecStopPost
  <2>1. walk'.pc = "idle" /\ UNCHANGED <<log, updater, ports, repo, env>> /\ router' \in {router, Boot}
    BY <1>1, <1>12 DEF ExecStopPost
  <2>2. Boot.st = "booting" /\ Boot.code = repo.head
    BY DEF Boot
  <2> QED  BY <1>0, <2>1, <2>2, RestartInvKept
<1> QED  BY <1>3, <1>4, <1>5, <1>6, <1>7, <1>8, <1>9, <1>10, <1>11, <1>12 DEF WalkStep

LEMMA RestartInvStep ==
    UpdateTypeOK /\ WalkInv /\ RestartInv /\ [UpdateNext]_updateVars => RestartInv'
<1> SUFFICES ASSUME UpdateTypeOK, WalkInv, RestartInv, [UpdateNext]_updateVars PROVE RestartInv'
  OBVIOUS
<1>0. AppliedGrows /\ (UNCHANGED <<repo, env>> => CodeKept) /\ (ports' = "updater" => updater' = "serving")
  BY Grows, PortsStep DEF CodeKept
<1>1. ASSUME NEW pc, Goto(pc) PROVE walk'.pc = pc
  BY <1>1 DEF Goto, UpdateTypeOK
<1>2. Boot.st = "booting" /\ Boot.code = repo.head
  BY DEF Boot
<1>3. CASE \/ Click \/ ClickChecked \/ ClickToken \/ ShellApply
  <2>1. router'.st = router.st /\ router'.code = router.code /\ router'.bare = router.bare /\ log' \in {log, ""}
    BY <1>3 DEF Click, ClickChecked, ClickToken, ShellApply, UpdateTypeOK, Routers
  <2>2. UNCHANGED <<repo, env, walk, updater, ports>>
    BY <1>3 DEF Click, ClickChecked, ClickToken, ShellApply
  <2> QED  BY <1>0, <2>1, <2>2, RestartInvKept
<1>4. ASSUME NEW l \in {"dash", "cli"}, LaunchStep(l) PROVE RestartInv'
  <2>1. /\ router'.st = router.st /\ router'.code = router.code /\ router'.bare = router.bare
        /\ log' \in {log, "", "failed"}
        /\ UNCHANGED <<repo, env, updater, ports>>
    BY <1>4 DEF LaunchStep, StartApplyCheck, Detach, DetachFails, UpdateTypeOK, Routers
  <2>2. walk'.pc \in {walk.pc, "preflight"}
    <3>1. walk' \in {walk, [pc |-> "preflight", step |-> NoStep]}
      BY <1>4 DEF LaunchStep, StartApplyCheck, Detach, DetachFails
    <3> QED  BY <3>1
  <2> QED  BY <1>0, <2>1, <2>2, RestartInvKept
<1>5. CASE ShellMigrate
  BY <1>0, <1>5, RestartInvKept DEF ShellMigrate
<1>6. ASSUME NEW r \in {"walk", "cli"}, MigrateStep(r) PROVE RestartInv'
  <2>1. UNCHANGED <<repo, env, router, updater, ports>>
    BY <1>6 DEF MigrateStep, MigrationUp, MigrationAppend, MigrationsDone
  <2>2. CASE log' = "failed"
    BY <1>0, <2>2, NoRestart
  <2>3. CASE log' # "failed"
    <3>1. log' = log /\ (r = "cli" => UNCHANGED walk)
      BY <1>6, <2>3 DEF MigrateStep, MigrationUp, MigrationAppend, MigrationsDone, FailWalk
    <3>2. CASE r = "walk"
      <4>1. runner["walk"].pc # "idle"
        BY <1>6, <3>2 DEF MigrateStep, MigrationUp, MigrationAppend, MigrationsDone
      <4>2. log # "restarting"
        BY <4>1 DEF WalkInv, RestartInv
      <4> QED  BY <1>0, <3>1, <4>2, NoRestart
    <3>3. CASE r = "cli"
      BY <1>0, <2>1, <3>1, <3>3, RestartInvKept
    <3> QED  BY <3>2, <3>3
  <2> QED  BY <2>2, <2>3
<1>7. CASE RestartRouter
  BY <1>0, <1>2, <1>7, RestartInvKept DEF RestartRouter
<1>8. CASE CrashLoop
  <2>1. router'.st = "dead"
    BY <1>8 DEF CrashLoop, UpdateTypeOK, Routers
  <2> QED  BY <1>0, <1>8, <2>1, RestartInvKept DEF CrashLoop
<1>9. CASE BootStopUpdater
  <2>1. router.st = "booting" /\ router'.st = "caddy" /\ router'.code = router.code
    BY <1>9 DEF BootStopUpdater, UpdateTypeOK, Routers
  <2>2. Migrated => Migrated'
    BY <1>0, <1>9, MigratedKept DEF BootStopUpdater
  <2>3. updater' = "none" \/ router'.bare
    BY <1>9 DEF BootStopUpdater, StopUpdater, UpdateTypeOK, Routers
  <2> QED  BY <1>0, <1>9, <2>1, <2>2, <2>3 DEF BootStopUpdater, RestartInv
<1>10. CASE BootCaddy
  <2>1. router.st = "caddy" /\ router'.st = "mark" /\ router'.code = router.code
    BY <1>10 DEF BootCaddy, UpdateTypeOK, Routers
  <2>2. Migrated => Migrated'
    BY <1>0, <1>10, MigratedKept DEF BootCaddy
  <2>3. /\ router'.bare \/ (router'.bare = router.bare /\ ports' = IF ports = "free" THEN "caddy" ELSE ports)
        /\ ports \in {"free", "caddy", "updater"}
    BY <1>10 DEF BootCaddy, UpdateTypeOK, Routers
  <2> QED  BY <1>0, <1>10, <2>1, <2>2, <2>3 DEF BootCaddy, RestartInv
<1>11. CASE BootMark
  <2>1. log' # "restarting"
    BY <1>11 DEF BootMark, BootLog
  <2> QED  BY <1>0, <2>1, NoRestart
<1>12. CASE UpdaterSeesDown \/ UpdaterBinds \/ UpdaterEnds
  <2>1. UNCHANGED <<repo, env, walk, log, router>>
    BY <1>12 DEF UpdaterSeesDown, UpdaterBinds, UpdaterEnds
  <2>2. CASE log = "restarting" /\ router.st \in {"caddy", "mark"}
    <3>1. router.bare
      BY <1>12, <2>2 DEF RestartInv, UpdaterSeesDown, UpdaterBinds, UpdaterEnds
    <3>2. CodeKept /\ Migrated'
      BY <1>0, <2>1, <2>2, MigratedKept DEF RestartInv
    <3> QED  BY <1>0, <2>1, <2>2, <3>1, <3>2 DEF RestartInv
  <2>3. CASE log = "restarting" /\ router.st \notin {"caddy", "mark"}
    BY <1>0, <2>1, <2>3, RestartInvKept
  <2>4. CASE log # "restarting"
    BY <1>0, <2>1, <2>4, NoRestart
  <2> QED  BY <2>2, <2>3, <2>4
<1>13. CASE KillWalk
  <2>1. walk'.pc = "post"
    BY <1>1, <1>13 DEF KillWalk
  <2> QED  BY <1>0, <1>13, <2>1, RestartInvKept DEF KillWalk
<1>14. CASE Reboot
  <2>1. walk'.pc = "idle"
    BY <1>14 DEF Reboot, UpdateTypeOK
  <2> QED  BY <1>0, <1>2, <1>14, <2>1, RestartInvKept DEF Reboot
<1>15. ASSUME NEW ref, Publish \/ PushDev \/ FetchUpdates \/ SetRemote(ref) PROVE RestartInv'
  <2>1. repo'.head = repo.head
    <3>1. repo' \in {repo, Fetched, [repo EXCEPT !.pin = ref], [Fetched EXCEPT !.pin = ref]}
      BY <1>15 DEF Publish, PushDev, FetchUpdates, SetRemote
    <3> QED  BY <3>1, FetchLearns DEF Learns
  <2> QED  BY <1>0, <1>15, <2>1, RestartInvKept DEF CodeKept, Publish, PushDev, FetchUpdates, SetRemote
<1>16. CASE UNCHANGED updateVars
  BY <1>0, <1>16, RestartInvKept DEF updateVars
<1>17. CASE WalkStep
  BY <1>0, <1>17, RestartInvWalk
<1> QED  BY <1>3, <1>4, <1>5, <1>6, <1>7, <1>8, <1>9, <1>10, <1>11, <1>12, <1>13, <1>14, <1>15, <1>16, <1>17
         DEF UpdateNext, BootStep

-----------------------------------------------------------------------------
(* The theorems.                                                            *)

UpdateInv == UpdateTypeOK /\ StepInv /\ MigrateInv /\ WalkInv /\ RestartInv

LEMMA UpdateInvInductive ==
    (UpdateInit => UpdateInv) /\ (UpdateInv /\ [UpdateNext]_updateVars => UpdateInv')
<1>1. ASSUME UpdateInit PROVE UpdateInv
  <2>1. UpdateTypeOK
    BY <1>1, InitTyped
  <2>2. /\ walk = [pc |-> "idle", step |-> NoStep] /\ runner = [r \in {"walk", "cli"} |-> Idle]
        /\ log = "" /\ ports = "caddy"
        /\ host = [version |-> Registry[Release[1]], applied |-> 1..Registry[Release[1]]]
    BY <1>1, Zenon DEF UpdateInit
  <2>3. StepInv
    BY <2>2 DEF StepInv, NoStep
  <2>4. MigrateInv
    BY <2>2 DEF MigrateInv, Idle
  <2>5. WalkInv /\ RestartInv
    BY <2>2 DEF WalkInv, RestartInv, Idle
  <2> QED  BY <2>1, <2>3, <2>4, <2>5 DEF UpdateInv
<1>2. UpdateInv /\ [UpdateNext]_updateVars => UpdateInv'
  BY StepTyped, StepInvStep, MigrateInvStep, WalkInvStep, RestartInvStep DEF UpdateInv
<1> QED  BY <1>1, <1>2

\* The state stays of its type: a step never checks out anything but a commit
\* (update.py and apply_after_checkout.py resolve a ref when they choose it and
\* again when they check it out, and a fetch may come in between).
THEOREM UpdateTyped == UpdateSpec => []UpdateTypeOK
<1>1. UpdateInv => UpdateTypeOK
  BY DEF UpdateInv
<1> QED  BY UpdateInvInductive, <1>1, PTL DEF UpdateSpec

\* What the walk decided to check out still exists when it does so, whatever the
\* owner and the remote did since.
THEOREM ChosenStepExists == UpdateSpec => [](walk.pc = "checkout" => StepCommit(walk.step, repo) \in Commits)
<1>1. UpdateInv => (walk.pc = "checkout" => StepCommit(walk.step, repo) \in Commits)
  BY StepCommitTyped DEF UpdateInv, StepInv
<1> QED  BY UpdateInvInductive, <1>1, PTL DEF UpdateSpec

\* Every migration up to the host's version has run (runner.py), for any number
\* of runs one after the other and beside each other, however they end.
THEOREM MigrationsInOrder == UpdateSpec => []NoMigrationSkipped
<1>1. UpdateInv => NoMigrationSkipped
  BY DEF UpdateInv, MigrateInv, NoMigrationSkipped
<1> QED  BY UpdateInvInductive, <1>1, PTL DEF UpdateSpec

LEMMA DoneStep ==
    ASSUME UpdateInv, [UpdateNext]_updateVars, log' = "done", log # "done"
    PROVE  /\ router.code = repo.head /\ env = repo.head
           /\ 1..Registry[repo.head] \subseteq host.applied
           /\ ports = "caddy" \/ router.bare
<1>1. CASE WalkStep
  <2>1. log' \in {log, "failed", "fetch", "checkout", "migrate", "install", "restarting"}
    BY <1>1 DEF WalkStep, Preflight, FetchStep, LaunchUpdater, StopRouter, Checkout, CheckoutStep, WalkMigrate,
       Install, WalkOn, StartRouter, ExecStopPost, FailWalk
  <2> QED  BY <2>1
<1>2. CASE \/ Click \/ ClickChecked \/ ClickToken \/ ShellApply \/ \E l \in {"dash", "cli"} : LaunchStep(l)
           \/ ShellMigrate \/ KillWalk \/ Reboot \/ \E r \in {"walk", "cli"} : MigrateStep(r)
  <2>1. log' \in {log, "", "failed"}
    BY <1>2 DEF Click, ClickChecked, ClickToken, ShellApply, LaunchStep, StartApplyCheck, Detach, DetachFails,
       ShellMigrate, KillWalk, Reboot, MigrateStep, MigrationUp, MigrationAppend, MigrationsDone, FailWalk
  <2> QED  BY <2>1
<1>3. CASE \/ RestartRouter \/ CrashLoop \/ BootStopUpdater \/ BootCaddy
           \/ UpdaterSeesDown \/ UpdaterBinds \/ UpdaterEnds
           \/ Publish \/ PushDev \/ FetchUpdates \/ \E ref \in {"latest", "dev", "old"} : SetRemote(ref)
  BY <1>3 DEF RestartRouter, CrashLoop, BootStopUpdater, BootCaddy, UpdaterSeesDown,
     UpdaterBinds, UpdaterEnds, Publish, PushDev, FetchUpdates, SetRemote
<1>4. CASE BootMark
  <2>1. log = "restarting" /\ router.st = "mark"
    BY <1>4 DEF BootMark, BootLog
  <2> QED  BY <2>1 DEF UpdateInv, RestartInv, Migrated
<1>5. CASE UNCHANGED updateVars
  BY <1>5 DEF updateVars
<1> QED  BY <1>1, <1>2, <1>3, <1>4, <1>5 DEF UpdateNext, BootStep

\* A router reports the end of an update (mark_boot_complete) only when it runs
\* the checked-out code, with its dependencies and its migrations, and Caddy has
\* the ports.
THEOREM DoneMeansDone == UpdateSpec => DoneIsFresh
<1> DEFINE Fresh == log' = "done" /\ log # "done" =>
          /\ router.code = repo.head /\ env = repo.head
          /\ 1..Registry[repo.head] \subseteq host.applied
          /\ ports = "caddy" \/ router.bare
<1>1. UpdateInv /\ [UpdateNext]_updateVars => [Fresh]_updateVars
  BY DoneStep
<1>2. UpdateInv /\ [UpdateNext]_updateVars => UpdateInv'
  BY UpdateInvInductive
<1>3. UpdateInit => UpdateInv
  BY UpdateInvInductive
<1> HIDE DEF Fresh
<1>4. UpdateSpec => [][Fresh]_updateVars
  BY <1>1, <1>2, <1>3, PTL DEF UpdateSpec
<1> QED  BY <1>4 DEF DoneIsFresh, Fresh

=============================================================================
