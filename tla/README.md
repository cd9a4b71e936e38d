# A verification development for the Aerosol router

Aerosol ("Cloud in a Bottle", the `compute_space` router with its system
agent) hosts web apps on one machine for one owner. The owner installs apps
from git repositories; the router builds an image per app, runs it in podman,
proxies its subdomain to it, mounts storage into it, and updates the machine
it runs on. This directory holds TLA+ models of the parts of that program in
which several actors write the same state, the TLC runs that check them, and
TLAPS proofs of the results that matter most.

## 1. Inventory

Paths are relative to `src/`; `cs/` stands for
`compute_space/src/compute_space/` and `agent/` for
`openhost_system_agent/src/openhost_system_agent/`.

### App lifecycle (`cs/core/apps.py`, `cs/web/routes/api/apps.py`, `cs/db/schema.sql`)
* State: one row per app in `apps` (status, name, container id, error
  message), one row in `app_tokens`; podman's containers, by name.
* Operations: add, stop, remove, reload (plain, with update, re-entry after an
  OAuth bounce), rename, and the threads behind them:
  `deploy_app_background`, `reload_app_background`, `remove_app_background`.
  All launches end in `run_app_image`.
* Interaction: handlers run on the event loop and hold it until they await;
  threads have connections of their own and write rows by `app_id`, often
  minutes after they read them. Nothing but one conditional `UPDATE` in the
  reload and remove routes serialises them.
* Hard: every writer is late; names are reused; a launch goes through some
  ten commits and podman calls, each of which may fail.
* Correct when: a transient status has somebody who will end it; table and
  podman agree; ids and tokens never cross from one app to another.

### Containers (`cs/core/containers.py`)
* State: podman's. `run_container` removes whatever has the app's container
  name, then starts one with a 60 s client timeout; `stop_container` is by id.
* Hard: name-based removal, containers that survive the router.

### Boot recovery (`cs/core/startup.py`, `cs/web/app.py`)
* State: the rows it selected, two lists of apps to restart.
* Operations: `check_app_status`, `_recover_cache_corrupt_apps`,
  `_restart_apps_sequential` (promoted apps before serving, the rest in a
  thread).
* Hard: containers may or may not have survived; after first-boot setup the
  same process is still deploying the default apps.

### Storage guard (`cs/core/storage.py`)
* Stops running and starting apps when the disk is low, from the row it read,
  beside everything else.

### Router process (`cs/web/start.py`, `cs/web/setup_app.py`)
* Setup, boot, serve, drain, exit; systemd starts it again.

### Domains, certificates, DNS, Caddy (`cs/core/domains.py`, `cs/web/routes/api/domains.py`, `cs/core/tls/`, `cs/core/dns/`, `cs/core/caddy.py`, `cs/core/operation_locks.py`)
* State: the `domains` table (one primary, certificate statuses), certificate
  files, the zones CoreDNS serves, the challenge records, the Caddyfile and
  what Caddy has loaded of it; `operation_lock` with the operation's task.
* Operations: add, remove, `set_primary_domain` (marks every active app for
  relaunch, asks for a restart), certificate orders, `start_renewal_task`.
* Interaction: coroutines of one event loop that queue on three asyncio locks
  (zones, issuance, Caddy) and on the operation lock, whose owner is a task of
  its own, so that a cancelled request does not release it.
* Hard: an order takes minutes, and its domain may be removed and added again
  meanwhile; all orders publish their tokens under one name.
* Correct when: there is one primary; nobody's tokens are overwritten while
  the CA looks; DNS and Caddy follow the table; nobody waits for ever.

### Archive backend (`cs/core/archive_backend.py`, `cs/web/routes/api/archive_backend.py`)
* State: the row of `archive_backend`, the JuiceFS volume's storage setting in
  its own metadata database, the mount, the objects in each store.
* Operations: `attach_on_startup`, `configure_backend` (quiesce apps, sync,
  re-point, remount, commit, reclaim; fail open).
* Hard: four stores of state, changed one after the other, with a crash
  possible between any two; the last step deletes data.

### Self-update (`agent/update.py`, `agent/apply_after_checkout.py`, `agent/updater/`, `agent/detach.py`, `cs/core/updates.py`, `cs/core/system_agent/`)
* State: the checkout, the update target, the progress log, the transient
  systemd unit that applies, the updater's page server and the ports it takes.
* Operations: the walk from one checkpoint to the next, apply, restart,
  finish or fail; the updater serves progress while the router is down.
* Hard: the walk is done by two programs (before and after the checkout);
  router and updater hand the ports over in both directions; double clicks.

### System migrations (`agent/migrations/`)
* State: a log of applied host migrations. Hard: a crash between a migration
  and its entry; a shell's run beside the walk's.

### First boot and access (`cs/db/versioned/`, `cs/core/first_boot.py`, `cs/web/setup_app.py`, `cs/core/default_apps.py`, `cs/core/auth/auth.py`, `cs/web/routes/pages/login.py`)
* State: the schema with its version, the settings seeded from
  `first_boot.toml`, the owner, the default apps' sentinel file, sessions,
  API tokens.
* Operations: migrate, seed, `/setup`, deploy and retry default apps, connect
  to Imbue, login, logout, create and delete tokens.
* Hard: all of it is committed in small pieces; every boot goes through it
  again; two processes may migrate one file.
* Correct when: a cut boot is completed by the next one; one claim token makes
  one owner; a stale `first_boot.toml` clobbers nothing.

### Installs, updates, ports, services, grants (`cs/core/apps.py`, `cs/core/ports.py`, `cs/core/manifest.py`, `cs/core/service_interface/services.py`, `cs/core/auth/permissions_v2.py`, `cs/core/image_pruner.py`)
* State: the checkout, the image and the container of an app, each of some
  version; the row's manifest; port mappings; providers and defaults; grants.
* Operations: show a manifest, add, update with review and rollback, reload,
  remove, grant, revoke, choose a default, sweep images.
* Hard: the checkout changes before the owner has reviewed it; failure and
  restart leave checkout, image and row of different versions.
* Correct when: nothing runs that the owner has not agreed to; services,
  ports and revocations stay as they are unless the owner changes them.

### App data (`cs/core/data.py`, `rename_app`)
* State: an app's directories in three tiers and its source, all keyed by the
  app's *name*, while the app is its id.
* Operations: made by install and launch, renamed tier by tier with an undo,
  deleted or kept by removal. The archive tier may be unmounted.
* Correct when: data follows its app through renames; nobody inherits or
  deletes another's.

### OAuth service (`apps/oauth_provider/`, with `cs/web/routes/services_v2.py`)
* State: tokens by provider, scopes and account; pending flows; the grants it
  makes through the router.
* Operations: ask for a token (refreshing it), code flow, device flow, revoke.
* Hard: handlers await the provider between reading and writing; browsers
  come back twice, or not.

### Smaller parts
* Storage accounting, memory guard: periodic, read-only but for the guard.
* URLs of git, zone text, Caddy text, proxying, logs, terminal, diagnostics,
  pages: sequential or stateless.
* Command line tools, demo apps, the app test harness, Ansible, image, macOS
  and scripts: other programs and configuration.

`PROJECT.json` lists each part with its status, and under `hazards` what is
hard to test in it, at its line.

## 2. Modules and plan

| Modules | What it is about | Runs | Proofs |
|---------|------------------|------|--------|
| `AppLifecycle`, `AppProperties`, `MCAppLifecycle`, `AppLifecycleProofs` | rows, containers, handlers, threads, boot recovery | `app_*` | every safety property of its runs but `NoOrphanTokens` |
| `ArchiveMigration`, `MCArchiveMigration`, `ArchiveProofs` | migration between object stores, fail-open, crash at every step | `archive_*` | types, reclaim, no loss, readable, no live writer |
| `SelfUpdate`, `MCSelfUpdate`, `SelfUpdateProofs` | the walk over releases, its unit, the progress log, the updater, host migrations | `update_faults` | types, the chosen step, migrations, end of a walk |
| `Domains`, `MCDomains`, `DomainsProofs` | the table, zones, certificates, sites, the exclusive operation | `domains_faults` | types, the primary, challenges, what DNS and Caddy serve |
| `Boot`, `Access` (extends `Boot`), `MCAccess`, `AccessProofs` | schema, seeding, claim, default apps; sessions and API tokens | `boot_faults` | schema, owner, claim, seeds, sessions |
| `Install`, `Consent`, `MCInstall`, `InstallProofs` | versions, review, ports, services, grants; `Consent` is the abstract promise that `Install` implements | `install_reviewed` | types, review, revocation, deployment, ports, the refinement |
| `OAuth`, `MCOAuth`, `OAuthProofs` | tokens, flows, grants of the OAuth service | `oauth_faults` | consents, codes, accounts |
| `AppData`, `MCAppData`, `AppDataProofs` | directories keyed by name: install, rename, remove | `appdata_patient` | data follows name, ownership, own code |

`AppLifecycle`, `Install` and `AppData` look at the same requests from three
sides: statuses and containers with every overlap; versions and consent; files.
Each header says what the others have. They are not composed into one
specification: their product is out of reach, and what one needs of another
(an app that waits while a request is served, a launch that may fail) is an
assumption that the other's runs examine.

Every invariant and every action property of a passing run but `NoOrphanTokens` also
has a theorem (section 12); liveness is for TLC alone.

## 3. App lifecycle: model and code

One step of `AppLifecycle` is what happens between two points where another
actor can get in: one committed transaction or one podman call. A handler that
does not await holds the event loop (`loop`), so that other handlers wait for
it while threads do not.

| Variable | Code |
|----------|------|
| `row` | the `apps` table; `new`/`gone` are "no such row yet / any more", `err` is `error_message` as far as the code tells its values apart (the promotion marker, the corrupt-cache message), `fresh` is "inserted by this process" (the comparison of `created_at` with the process start in `check_app_status`) |
| `tokens` | `app_tokens`, as the set of apps with a row |
| `podman` | the live container of each container name, and whose it is |
| `task` | handlers and threads in flight, with the row they read (`name`, `cid`, `how`), however stale it is by now |
| `router`, `seen`, `queue` | the process; the rows the boot check has read; the apps it has handed to `_restart_apps_sequential` |

| Actions | Code |
|---------|------|
| `AddApp` | `insert_and_deploy` (called by the add route and first-boot setup) |
| `StopApp`, `StopAppProcess`, `StopByName`, `StopWrite` | `stop_app` |
| `StorageGuard`, `GuardWrite` | `enforce_storage_guard` |
| `RemoveApp`, `RemoveRead`, `StopAppProcess`, `RemoveDelete` | `remove_app`, `remove_app_background` |
| `ReloadRead`, `Pull`, `Claim`, `StopAppProcess`, `SpawnReload`, `ReloadSync` | `_reload_app_impl`, `reload_app_background` |
| `RenameRead`, `StopAppProcess`, `RenameMark`, `RenameWrite`, `RenameUndo` | `rename_app` |
| `StartAppProcess`, `RestartAppProcess`, `Build` | the functions of the same names, `_build_then_run_app` |
| `ReadImageRow` ... `RecordFails`, `WaitForReady`, `LaunchDone` | `run_app_image` with `run_container` |
| `LaunchFailed`, `LaunchFailureLost` | the `except` clauses of the deploy, reload, recovery and rename callers, and what is left when they do not get to write |
| `RecordFailure` | the write of `error` inside `run_app_image` and `remove_app_background`, which may fail as well and is then only logged |
| `Promote` | `set_primary_domain` |
| `Exit`, `BootFails` | draining exit, crash, reboot; a boot that could not record the failure of a promoted app |
| `CheckRead`, `CheckWrite`, `RecoverNext`, `Serve` | `check_app_status`, `_recover_cache_corrupt_apps`, `_restart_apps_sequential`, `_full_app_bootstrap` |

Three constants choose the environment. `Requests` is what the owner asks for,
`Faults` what may go wrong, and `Overlap` tells a *patient owner* (`FALSE`: an
app is sent a request only when nothing is in flight for it, although other
apps, the storage guard, promotion and crashes go on) from one who clicks
while a request is served (`TRUE`). The distinction matters: much of what the
code promises holds for the patient owner only, and each run says which it is.

Abstractions: manifest columns, ports, build output and log text are left out;
a build, pull, launch, commit or rename succeeds or fails; containers that exit
by themselves do so only while the router is down (nothing in the router
watches them meanwhile). Directories are renamed in one step. The review gate
and the OAuth bounce of an update are an answer that leaves the row alone.

## 4. App lifecycle: runs

Bounds: ids (`Cids`) are recycled only when nobody holds them (`Fresh`), so a
few stand for an unbounded supply; `Tasks` bounds how many handlers and threads
are in flight at once, and two suffice for every pair of late writers, three
for a claim with a winner, a loser and a worker; names are as many as the
question needs (a shared one, or one to rename to). All sets are model values
and symmetric where no liveness is checked. Deadlock is not checked: with every
app removed, or with all `Apps` used up and none left to ask for, the router
rests.

| Run | Question | Instance |
|-----|----------|----------|
| `app_all_faults` | with every fault and request, setup included: are statuses and errors the table's own, is there one launcher per app, do tokens die with their app? | 1 app, 2 names, patient |
| `app_overlapping` | whatever overlaps: do ids stay with their app, is no app stranded in a transient status, are promoted apps relaunched before serving, does a deleted app stay deleted? | 2 apps, 1 name |
| `app_progress` | does every launch and every removal end? | 1 app, fair, overlapping |
| `app_patient_owner` | do table and podman agree about every app nothing is in flight for; does nobody take another app's container down? | 2 apps, 2 names, patient |

`app_patient_owner` includes a crash between any two steps with any subset of
the containers surviving. `SettledAppsAgree` is stated for apps with nothing
in flight, because the table is behind podman during every launch by design.
Its faults are those the code copes with. With any one of the others (`build`,
`db`, `unrecorded`, `repo`, `launch_timeout`, `podman`, `lowdisk`) or with `Overlap = TRUE` TLC
finds both properties violated on this instance; with `dirs` only
`SettledAppsAgree`: a rename that is undone writes the status it had read back
over an app it has stopped.

Fairness (`FairSpec`): a thread goes on (weak fairness), since the system
schedules it and every subprocess it waits for has a timeout; a handler that
comes back from an await gets the loop (strong fairness, because others hold
the loop in between; asyncio runs ready callbacks in order); boot recovery
takes its next app (strong, because one worker serves the queue); and the
router process goes through its boot. Requests, faults and crashes are never
fair: they need not happen.

### Disagreements with comments

The model shows each of these with an owner who does not wait (`Overlap =
TRUE`) or a restart; the runs above state what holds beside them.

* A removal claims a row while its launch is in flight; the last write of the
  launch sets `running` over `removing`, and the next removal request is
  accepted. Two workers tear one app down. The comment on the claim says
  concurrent POSTs spawn one (`routes/api/apps.py:991`).
* A removal's `DELETE` fails and so does the write of `error` in its `except`
  clause (`core/apps.py:1087-1094`, which logs a `sqlite3.Error`): the row stays
  `removing` with nobody at work, and every route refuses it. The docstring of
  `remove_app_background` says this never happens (`core/apps.py:1043`). This is
  fault `unrecorded`; `RemovalEnds` is checked without it, that is, for removals
  whose failure can be written down.
* A rename's restart catches `RuntimeError` and `ValueError`
  (`routes/api/apps.py:1190`); a build may raise `TimeoutExpired` or `OSError`
  (`core/containers.py:250-257`), which does "500 out" against the comment at
  1185 and leaves the app `starting` with nobody at work. The same is left when
  none of a failed launch's writes of `error` gets through (`core/apps.py:575-577`,
  `core/startup.py:174`). `NotStranded` and `Settles` are checked without the two.
* The router restarts during a removal. Boot recovery does not select
  `removing` rows and every route refuses them; the docstring of
  `remove_app_background` says the row never gets stuck (`core/apps.py:1043`).
* An app is removed during its launch, its name goes to a new app, and the
  late `podman rm -f` by name takes the new app's container; the comment calls
  it stale (`core/containers.py:458`).

Further, a reload whose pull fails writes `error` over a row claimed meanwhile
(`routes/api/apps.py:811`, against the comment at 242), after which a second
reload is claimed (comment at 869); a stop during a launch is overwritten by
`running`; first-boot setup whose thread cannot be started leaves `building`
until the next boot (`startup.py:76-80`); so does a deploy of first-boot setup
that fails between the boot check's `SELECT` and its `UPDATE`: the comment there
has the thread "still running", the check writes `starting` over its `error`, and
nobody is at work on the app (`startup.py:81`); a token may be inserted after its
app was removed (`core/apps.py:519` against 1051).

## 5. Archive migration: model and code

One step of `ArchiveMigration` is one command: a `juicefs` call, a `systemctl`
call, a commit. Each may fail if its fault is in `Faults`; `Fail` is the
`except` clause of `configure_backend`.

| Variable | Code |
|----------|------|
| `db` | the row of `archive_backend`; `store` is endpoint and bucket, or the local store |
| `meta` | the JuiceFS metadata database: formatted or not, and the volume name and storage that `format` and `config` write |
| `fuse`, `enabled` | the mounted process with the store it read when it started; the systemd unit |
| `files`, `objs` | what the metadata lists; the objects in each store under each volume prefix |
| `status`, `view` | archive apps, and what their containers see: the archive, a dead mount, or the bare directory under it |
| `mig` | the `configure_backend` in progress, with the state it read and the apps it quiesced |
| `torn` | auxiliary: a migration was cut by a crash, or its undo failed, while the stores disagreed |
| `behind` | auxiliary: files written into a source after its copy had begun, and not copied since |

Program counter and code: `format` (`_ensure_local_volume_formatted`,
`format_s3_volume`), `mount`, `quiesce` (`stop_running_archive_apps`), `sync`
(`_sync_objects*`), `repoint` (`_reconfigure_volume_storage`), `umount` and
`remount` (`_remount`), `commit`, `reclaim` (`_remove_local_object_store`,
`_remove_s3_object_prefix`), `undo_*` (the `except` clause), `restart`
(`restart_apps_by_id` in the route's `finally`). `Boot` is
`attach_on_startup` followed by the boot check. `juicefs`, the FUSE process and
systemd are external: `format` keeps a formatted volume's name, `sync` copies
all of a prefix or fails with part of it copied, a configuration that times out
may have taken effect, an enabled unit is restarted.

Runs:
* `archive_patient`: zones created by this code (`fresh`) or without a volume
  (`disabled`), two buckets, two files, two apps, every fault, crash and reboot
  between any two commands; nobody starts or stops an app during a migration
  (`Overlap = FALSE`). Two buckets give local-to-S3, S3-to-S3 and back and
  retries; two files give a partial copy and a file written since; two apps
  one that stops and one that does not, or that was given up as `error`. `NothingLost` holds over torn
  migrations, too; `Readable` is a claim about migrations that were
  not torn.
* `archive_legacy` (expects a violation): a zone whose local volume is still
  named `openhost` migrates under a new name. The sync source
  `<store>/<new name>/` is empty, nothing fails, and the local store is then
  deleted with the only objects there are. The same happens to a zone created
  by this code whose first-boot format failed, so that its row still has the
  legacy name: the first migration formats the volume under one prefix and
  fails, a second asks for another. `archive_patient` therefore asks for one
  prefix only (`Prefixes = {Zone}`), which also leaves open what `juicefs
  format` does with another name on a formatted volume of a `disabled` zone.

Deadlock is not checked: with all files written and both buckets in use the
system may rest. No fairness: nothing here is a liveness claim.

Even a patient owner may have an app that writes behind the copy: an app that does
not answer within its time is `error` while its container lives on with the archive
mounted (`core/apps.py:551-555`), and `stop_running_archive_apps` looks at rows that
say `running` only (`core/apps.py:662`). What such an app writes from the sync to the
unmount is in the source alone, and the reclaim deletes it. This contradicts the
docstring of that function ("no app may write into the local store during the
sync", quiescence is verified "against the real container state ..., NOT the
`apps.status` column", "if any archive container is still running ... we raise",
`core/apps.py:639-651`). The run has the fault (`unready`), and the properties state
exactly what is left: `NoLiveWriter` that only such an app writes there, `NothingLost`
and `Readable` that every file but those is kept and readable. `behind` is cleared of
a file as soon as a later migration finds it in its source.

With `Overlap = TRUE` a `starting` app, or one the owner starts during the
sync, is missed by the quiesce as well; `NoLiveWriter` and `Readable` fail.

## 6. Self-update

One step of `SelfUpdate` is one command of the walk, of a launch, of a boot or
of the updater, with the log entry the code writes beside it.

| Variable | Code |
|----------|------|
| `origin`, `repo` | the remote (releases published, the tip of a branch); the checkout: `HEAD`, what was fetched, the pin in its git config |
| `env`, `host` | what `pixi install` was last run for; the migration log's version and, as history, the migrations that really ran |
| `runner`, `walk` | processes in `apply_system_migrations` (the walk's, a shell's); `openhost-apply.service` with its step |
| `log` | the last entry of `progress.jsonl` |
| `router`, `launch` | `openhost.service` with the dashboard's `_apply_lock`; `start_apply` as called by dashboard and shell |
| `updater`, `ports` | the page server; who has 80 and 443 |

`NextStep` is written once for the two copies in `update.py` and
`apply_after_checkout.py`, which agree. What matters most: after
`StopRouter` the walk may die at any step, and `ExecStopPost` is what starts the
router again.

`update_faults`: the smallest history in which a walk has two steps and a
branch leaves the line of releases (three releases, one branch), a registry in
which the second release brings a migration and the branch another (which leaves a host
that goes back to the third release ahead of its code), the owner pinned
to the latest release or to a ref that is gone; three requests and faults in
all. Three events are enough for a dashboard's update, a shell's update or
migration beside it, and one failure, kill or reboot in either; the walks they
start are not bounded. Fairness: steps of a walk, of its migrations and of a
boot go on (processes that run, units that systemd starts); the owner, the
remote and the faults owe nothing. Deadlock is not checked: a host that is up
to date rests.

It shows that host migrations run in order and none is skipped, with two runners
and across kills (`NoMigrationSkipped`); that "back online" is logged by a router
that runs what is checked out, with its dependencies and migrations, and with its
ports unless that boot could not stop the updater or saw Caddy exit
(`DoneIsFresh`; `router.bare` remembers either); that the router comes back after every walk that stopped it
(`RouterComesBack`); and that the log does not stay at an entry of work in
progress with nobody working (`LogSettles`).

Disagreements (in the model, no run): `start.py:219` finalizes the log "only now
that we're actually serving", so that "back online" does not fire before Caddy is
up, but `stop_updater` only logs that it could not stop the updater
(`launcher.py:28`) and `_spawn_caddy` that Caddy exited, for want of the ports or
for another reason (`caddy.py:176`), and the boot marks the update done all the
same: these are the two exceptions `DoneIsFresh` names; the dashboard's lock is taken until the
restart it expects, so after a walk that ended before it stopped the router
every later request is refused as "already in progress" with nothing running
(`settings.py:161`, 195); a checkout whose nearest tag is a pre-release has no
base (`_latest_ancestor_tag`), so the walk starts over at the first release,
below `HEAD`, although the docstring says ascending (`PreRelease` is empty in
the run for this reason).

## 7. Domains

Requests and the renewal task are coroutines with program counters at their
awaits; `zoneQ`, `issueQ` and `caddyQ` are the asyncio locks (holder first, then
those who wait, in order). An exclusive operation is an element of `ops` with
its own program counter, because its task outlives its request.

| Actions | Code |
|---------|------|
| `AddDomain`, `RemoveDomain`, `RemoveDelete`, `MakePrimary` | the routes of `api/domains.py` |
| `ApplyZones`, `CoreDnsStarted` | `add_zone`, `remove_zone` to `_apply_zones`, restart of CoreDNS |
| `EnsureCert`, `PublishChallenge`, `CertIssued`, `CertRefused` | `ensure_cert_for`, `acquire_cert_for_domain` under `_issuance_lock`, `_acquire_cert_dns01` and the broker |
| `ReloadCaddy`, `CaddyReloads` | `reload_caddy_for_domains`, `CaddyProcess.reload` with its cold restart |
| `RenewPrimary`, `RenewList`, `RenewNext` | `renew_cert_if_needed` |
| `StartOperation` ... `EndOperation`, `Cancel` | `start_exclusive_operation`, `_operation_done`, a cancelled request |
| `RequestRestart`, `ServeEnds`, `Exit`, `Crash`, `Boot` | `_serve`, `_shutdown`, `_main` |

`domains_faults`: three names (`Given`: the first primary with a certificate or
without, a second with one, and a third without, marked mDNS or not), two requests beside the renewal
task, which gives two orders at once, an order overtaken by a removal and a
second add, and a promotion against a removal; two attempts per order (the code
has three with ACME, one with the broker: what matters is one that is retried
and one that is not); three requests and faults. `FrontEndCurrent` speaks of
moments at which nothing is under way. Fairness: each coroutine, operation and
process step goes on; `RequestsEnd` needs it because an order waits for the
event loop, the CA and two locks, all of which have timeouts.

It shows that there is one primary domain through promotion, removal and restart
(`OnePrimary`); that the tokens the CA looks for are those of the order it
validates (`ChallengeIntact`); that once the front end is at rest the Caddyfile is
that of the table, every domain of the table that is not marked mDNS has its zone,
and no other name has one but those that were marked mDNS while the router ran
(`FrontEndCurrent`; `proc.marked` remembers these, and nothing reads it); and that
no request waits for ever (`RequestsEnd`).

Disagreements (in the model, no run): the renewal task is started at boot only
if some domain is TLS then, so a TLS domain added to an instance without one is
never renewed (`start.py:211` against the docstring at `renewal.py:152`);
a domain marked mDNS has no zone while the router that added it runs, and gets one
at the next boot, which does not ask for the mark (`api/domains.py:208` against
`start.py:144`), and its removal leaves that zone (`api/domains.py:328`): API and
settings page accept the mark for any name (`api/domains.py:161`,
`domains.js:154`), and a `.local` name is served like the others, because
`_is_local_only` looks for `..local` (`interface.py:33`). `FrontEndCurrent` names
these zones as its exception. Not modelled: a renewed certificate whose Caddyfile does not change,
which depends on what the external `caddy reload` does without `--force`; a
crash between the writes of a certificate and its key.

## 8. First boot and access

`Boot` has the order of `_main` and `_full_app_bootstrap` as one program counter
(`router.at`) with what the phase has left to do; each seeded setting, each
migration and each installed default app is a step, since each is a commit of
its own. `Access` extends it with sessions, cookies and API tokens: a session is
a row, a cookie, and what the person at the browser was answered.

`boot_faults`: two processes that may migrate the file, two releases, fresh,
unstamped and stamped schemas; two POSTs of `/setup` with two names; one default
app (which is installed, missing or already there; the order of several does not
interact); two sessions, one token; two troubles of any kind out of crash,
failed migration, another starter, switched release, network, owner's edit. Two
are what a crash in the repair of a crash, or a crash and a release switched by
it, need. No liveness.

It shows that the schema's version and the migrations that ran agree, and that
the code which serves is that of the version (`SchemaFits`); that one claim makes
one owner (`OneOwner`), an unclaimed instance can be claimed whatever boot was
cut short (`SetupStaysOpen`), and a seed file left behind does not undo what the
owner set (`OwnerChoicesSurvive`).

`SessionsHonest` covers restarts because rows survive and cookies do. Tokens are
there for what they share with sessions (`LetIn`): creating and deleting them
needs one.

Disagreement (in the model, no run): the retry of failed default apps at boot
opens the database without `row_factory`, `insert_and_deploy` then raises on a
tuple, and every retry fails until the sentinel gives the app up
(`startup.py:182` against the docstring at 181).

## 9. Install and consent

`Install` follows *versions*: `tree`, `image`, `container` and `row.deployed`
are the version of the source that checkout, image, running container and row
are of. A repository is a sequence of manifests; `Parsed` is what
`parse_manifest` makes of one. Handlers and threads are tasks with program
counters at their awaits and commits; `insert_and_deploy` keeps the event loop
from its first read to its last grant (`LoopFree`).

An install comes from the page (`ShowManifest`: the clone and what it declares) or
from the command line (`AddUnshown`: neither). `AddApp` installs the page's clone
if it is there and what it clones anew if not (`Fetched`; `routes/api/apps.py:373`).
The clone is gone after a refusal that deletes it (`AddRefused`; lines 397 and 408) and
after a failure that comes when it was moved (`AddFails`; 417 to 451); the page
stays as it was and sends the same `clone_dir` again (`add-app.js:318-345`).

History variables: `accepted` and `agreed` (what the owner has accepted at an
install or a review), `revoked`, and three that name the exceptions:
* `unseen`: the versions installed that no page had shown, from the command line or
  by a second try of the page;
* `strayed`: apps whose checkout was left at an unreviewed version - by
  submodules that cannot be had after the checkout, by a failed `git reset`
  of a refused update, or by a restart in the review window;
* `cut`: apps whose update or rebuild a restart cut off, so that row, image and
  checkout are of different versions until the next complete one.

`Consent` is the abstract promise, in terms of which versions *may* run, which
run, who offers a service, who provides it and how old each app is.
`KeepsConsent` is its specification under the substitution given in `Install`:
`may` is computed from what the owner reviewed, `provider` by
`default_provider_id_for_service`, `age` is the order of installation, `void` is
`Unpromised`: the apps in `cut` or `strayed`, and those installed unseen. Every step
of `Install` is a step of `Consent` or none. A service moves from one app to another
when the owner chooses or when the app that served it stops providing it (`Offer`);
and by `Overtake`, an action of its own, when an update makes an app provide it that was
installed before the one that has it. That is what the code does and the documentation
denies (below): the refinement says that there is no fourth way, not that the
documentation is right.

`install_reviewed`: two apps that can provide one service; `notes` has two versions (the
second asks for a new permission and another port, adds a port that `mail` asks for, and
provides the service; an update may also go back to the first, which drops all of these),
`mail` two (one whose manifest does not parse: a port below the floor); four ports, so
that a range can be used up and asked-for ports can be held by the other app; two tasks;
four requests and faults: install both, update and fail. An app is sent one request at a
time (`Admit`).

It shows, but for `strayed`, that what runs was reviewed, or else was installed unseen or
declares no more than what was (`ReviewedBeforeRunning`), and, but for `strayed` and
`cut`, is what its row says, with what that version declares (`RunsWhatIsDeployed`); that no update brings back a permission
the owner revoked and it does not newly ask for (`RevokedStaysRevoked`); that a label's host port survives
updates (`PortsKeep`); and the refinement (`KeepsConsent`).

Disagreements (in the model, no run):
* `cross_app_services.md:102` gives a service that nobody has chosen between to
  "the app that has provided the service the longest" (line 232: "the
  longest-serving provider app"), and line 104 lets a second
  provider wait "until the owner switches over"; `_incumbent_provider_id`
  (`services.py:95`) takes of its providers the one *installed* longest ago, so
  an older app that an update makes provide the service takes it over (`Overtake`).
* The page asks the owner to confirm what it shows; after a refused or failed install its
  clone is gone, and a second try installs whatever is upstream by then, with the
  permissions ticked for the version shown (`routes/api/apps.py:373`).
* `git_pull` checks the new version out before its submodules; when they cannot be
  had the handler writes `error` and returns before review and rollback, and a
  later plain reload runs what nobody reviewed, which the comment at
  `routes/api/apps.py:852` says the rollback prevents. The same follows a
  rollback that fails and a restart in the review window.
* `SyncFails` commits the columns it had written although the reload failed.

## 10. OAuth

A handler's steps run from one await of the provider to the next. A flow is the
entry of `pending_auth_flows` or `active_device_flows`; `asked` (history) is the app
whose request or link began it, `app` what the code puts into the entry, `consent`
the account chosen at the provider, `stored` how many rows came of it. When the
provider does not say whose a token is, its row and grant are named after the
request's account (`Identified`), and `unnamed` (history) has the flow.
Keys are a provider with its scopes; scopes that overlap
without being equal are different keys, as in `normalize_scopes`.

`oauth_faults`: two apps, two keys (one with the device flow), two accounts, two
flows (which overlap), two handlers, two rows, one fault, withdrawal or
deletion. `MaxRows` lets each flow store a row, or one flow two, which is what
`CodeStoredOnce` would show. No liveness: the owner need not come back.

It shows that a grant comes of a flow begun for that app and that key, in which the
owner consented at the provider (`GrantsAreConsented`); that a code is stored once,
however often the browser comes back (`CodeStoredOnce`); and that a row's token is of
the row's account, whichever of two refreshes wrote last (`RowsKeepTheirAccount`). The
last and the account of a grant are claimed of flows that are not `unnamed`.

Disagreements (in the model, no run):
* Nobody tells the owner which app is asking. `/grant` redirects to the provider at once
  (`pages/oauth.py:70-87`), whose page names the service and not its consumer, and
  `device.html` shows provider and scopes (`pages/oauth.py:219-230`). The docstring of
  `grant_app_scoped` has the provider call it "after telling the owner *which app* is
  asking" (`permissions_v2.py:108-112`), and `cross_app_services.md:188-205` wants the
  page to "state plainly" so. `GrantsAreConsented` therefore speaks of the app that
  the flow was begun for and not of what the owner knew.
* `fetch_account_identity` returns `None` for a provider it does not know, an answer
  that is not 200 and any exception; the token of whoever consented is then stored, and
  granted, under the account that the request named (`pages/oauth.py:148-151`,
  `device.py:22-25`), and a request for that account is answered with it.
* A row whose refresh the provider refuses stays the first of its key and
  account, so a token authorized since is never found and every request answers 401 (`tokens.py:103`).
* Two polls of a finished device flow store its token twice (`device.py:13`).

## 11. App data

`disk[t][n]` is the set of apps that wrote to directory `n` of tier `t`, `repo[n]`
whose source lies in it. A rename is one step per tier. When one fails (`MoveFails`),
the tiers moved so far are moved back, each of which may fail too (fault `undo`), and
the UPDATEs after it may raise with the directories moved (fault `db`, in `Record`);
`astray` (history) has the tiers that a refused rename leaves under the new name. An
unmounted archive hides its directories but keeps them. Owners are patient
(`Habits = {}`): they wait for an answer, and give a new name that no directory
has. Faults happen while nothing is being moved or removed.

`appdata_patient`: three apps (one with an archive) and two names, the least
with which a name is given up, used by a second app, and wanted by a third;
seven requests and faults, enough for install, rename, removal and install of
the name again with things going wrong.

It shows that an app finds its data under its present name, also after
renames that failed half-way and removals of others (`DataFollowsName`); that it
sees nothing another app wrote but what a removal kept or could not delete
(`OwnDataOnly`), in both cases but for tiers that are `astray`; and that an image is
built from the app's own source (`RunsOwnCode`).

Nothing brings a tier that is `astray` back: `rename_app` logs an undo that fails
(`routes/api/apps.py:1060-1069`) and answers 500 when an UPDATE raises (1174-1182), the row
keeps its name, the next launch makes an empty directory there, and an app which is
later given the other name has the data for its own. The two properties say that
nothing *else* gets lost.

What breaks under other settings of the same model (no run):
* `Habits = {"reuse"}`: a rename onto a name that has leftover directories
  skips those that exist (`_rename_app_storage_dirs`), so an app's data stays
  under its old name, and its image may be built from the source left by a
  failed install (`RunsOwnCode`).
* `Habits = {"overlap"}`: while a rename awaits its directories, an install may
  take the name; two adds of one name may build each other's clone.
* `Faults` with `"midway"`: a crash between directories and row, or an archive
  that unmounts within a rename or removal, leaves data under a name that is not
  its app's, for the next app of that name to see (`DataFollowsName`,
  `OwnDataOnly`).

## 12. Proofs

The proofs are about each module's specification with no assumption but those on
its constants, which TLC evaluates on every run:
* `ConstantsAssumption` (app lifecycle), `ArchiveAssumption`: the null values are
  not in their sets, and requests, faults and kinds of zone are among those the
  model knows;
* `BootAssumption`: releases are positive numbers, of which one is the newest
  (the last file of `db/versioned/`), and the router is one of the starters;
* `UpdateAssumption`: a commit's parent is older, every tag names a commit and the
  checkout starts at one, and a commit's registry has a migration;
* `DomainsAssumption`: the first domain is a name, requests speak of names,
  finitely many requests, an order is tried at least once;
* `InstallAssumption`: finitely many apps, versions that are numbers from 1, and
  manifests that ask for known permissions and provide known services;
* `OAuthAssumption`, `AppDataAssumption`: the null values are not in their sets,
  and the apps that ask for the archive are apps.

Eleven theorems have a hypothesis as well, because the code does not keep what they
say without it:
* `~Overlap` (`SingleLauncher`): the owner sends an app a request only
  when nothing is in flight for it. Every fault may happen meanwhile.
* `NothingLost` (`NobodyStranded`): no first-boot setup, no thread that cannot be
  started, one write of `error` at least that gets through when a launch fails, no
  failed build in a zone whose apps are renamed, and no failed rename of directories
  while the owner does not wait. Without the first four, section 4 says how a row
  is left in transition; without the last, a rename that has read `starting`
  writes it back by its undo when the launch has long ended. Requests may overlap.
* `NoLateUndo` (`PromotedFirst`): the owner waits, or renames nothing, or the
  directories can be renamed. Otherwise a rename that has read `running` or
  `starting` may write it back over an app which other requests had brought up
  and a promotion has marked in between.
* `Orderly` (`TableAgrees`, `OwnContainers`): the owner waits, and podman, the
  database, the disk and builds that have begun do not fail; crashes, failed
  launches and pulls, apps that never answer and threads that do not start may
  happen. `TableAgrees` also needs renames that succeed. Nothing in it can be dropped:
  section 4 says what each of the other faults breaks.
* `PatientOwner` (`FilesSurvive`, `ArchiveReadable`, `NobodyWrites`): the owner does
  not start apps while a migration runs, and the zone has no volume from before
  backends were tracked and one prefix. Section 5 says which
  of the three fail otherwise: `archive_legacy` shows files lost, by a legacy
  volume or a second prefix; an app started meanwhile writes behind the copy. An app
  given up as `error` with its container alive is within the hypothesis: the three
  say what is true beside it, and `behind` which files are not theirs.
* `Patient` (`DataStays`, `NobodyInherits`, `OwnImages`): the owner waits for the
  answer of a request, renames to names that nothing is left under, and neither
  mount nor router goes while files are moved or deleted. Section 11 says
  what happens otherwise.

All hold for any number of apps, names, ids and tasks, of buckets, files and
prefixes, releases, commits, domains, repositories, keys and accounts, for any
choice of requests and faults and any bound on how many there are, and where
there is no such hypothesis for both values of `Overlap`.

* `AppLifecycleProofs`, `Typing`: `Spec => []TypeOK`. `TypeOK` alone is not
  inductive: `RenameUndo` writes the status its task carries in `how`, which
  for other kinds of task is the name of a request. The invariant `IInv` adds
  `TasksInOrder`, which ties the kind of a task to the program counters and the
  `how` it can have. One lemma per helper that moves tasks, then one per group
  of actions.
* `AppLifecycleProofs`, `OwnIds`: `Spec => []IdsNeverCross`. The set of
  holders (rows, tasks, podman) of an id grows in one step only,
  `RunContainer`, and there the id is fresh and both new holders are the same
  app's. All other steps are shown to give nobody an id that its app did not
  hold (`NoNewHolder`).
* `AppLifecycleProofs`, `NoResurrection`: `Spec => DeletedForGood`. Every
  write of a late thread is an `Update`, which has no effect on a row that is
  not there.
* The theorems below, of the app lifecycle, share a description of each step by its task and
  row alone (`LaunchShape`, `HandlerShape`, `LoopShape`, `Installs`, `Asks`,
  `Guards`), proved once per action (`ShapeOfNext`), and the invariant `RInv`: which
  kind of task can be where (`Roles`), and which there are before the router serves
  (`Early`). The proof of the boot check found that the cases of `Verdict` were not
  exclusive, which TLC, taking the first, had not shown.
* `AppLifecycleProofs`, `SingleLauncher`: `[]OneLauncher`, by `PatientInv`. Workers and queue exclude one another per app
  (`OneWorker`). What is hard is the boot check beside the deploys of first-boot
  setup: `SetupRows` says how far their rows can have come when it reads them, and
  that it leaves them alone whatever they do until it writes.
* `AppLifecycleProofs`, `NobodyStranded`: `[]NotStranded`, by `WatchedInv`: the boot
  check reads rows of nobody at work (`ColdBoot`), so that from its end on a
  transient row is queued or owned (`Watched`), and no rename carries a transient
  status it could write back (`SafeUndo`).
* `AppLifecycleProofs`, `PromotedFirst`: `[]PromotedBeforeServing`, by `MarkerInv`, which
  follows the marker from the boot check on: a row that carries it is `starting`
  or `stopped`; while boot recovers, a starting one is in the synchronous queue or
  with its recovery, and nobody else launches it; while the router serves, it is
  stopped, and whoever would start it takes the marker away first. That the undo
  of a patient owner's rename meets no marker is `RenameHeld`: the rename holds the
  event loop until its row is `stopped`, and a promotion passes stopped apps over.
* `AppLifecycleProofs`, `TableAgrees` and `OwnContainers`: `[]SettledAppsAgree` and
  `OwnContainersOnly`, by `AgreeInv`, which is `PatientInv`, `IdsNeverCross` and
  `Containers`. The latter says of each app what podman may have of it: `AtRest`
  when nothing is in flight, `AtWork` at each point of a request's program,
  `Left` for what a process that died has left and the boot check has not read yet.
  That the name of a container leads to its own app is `Placed`: names of rows are
  distinct, and a container has the name its app's row has, through a rename too,
  because the rename stops the app before it gives the row its new name.

* `ArchiveProofs`, `Typing` and `ReclaimsLeftStores`: `Spec => []TypeOK` and
  `Spec => ReclaimsLast`. The invariant says where row, volume and mount are at
  each point of a migration: the volume is on the destination from the re-point
  on, the mount from the remount on (also if systemd restarts it meanwhile,
  because it reads the volume), the row at the reclaim; that a migration which
  reclaims came from the local store, or from a bucket under the same volume
  name, so that source and destination differ unless they are the same
  location; and that boot, the other writer of row and volume, finds no
  migration under way. Unlike the next three it needs no patient owner.
* `ArchiveProofs`, `FilesSurvive`, `ArchiveReadable`, `NobodyWrites`: the invariant
  `SInv` comes on top. Whoever can write writes where the row is (`Untorn`); from the
  stop of the apps to the unmount only an app given up as `error` has the mount
  (`AppsQuiet`, `NoLiveWriter`), and what it writes into the source is `behind`, so
  that but for those files what the sync copied stays all there is (`Copied`); a
  mount that is brought back by an undo has nobody on it (`UndoneDead`). Every store
  that row, volume or mount names has every file that is not `behind` (`Untorn`), unless
  a migration was cut where they disagree; then the files may be spread over two stores, but the reclaim
  comes after the copy and takes none of them away.

* `AccessProofs`. `SchemaCorrect`: `Spec => []SchemaFits`, by `SchemaInv`: the
  lock has one holder, what its holder read of the version is still true, and
  whoever is through left the version at the release on the disk.
  `OneClaimOneOwner`, `ClaimableUntilClaimed`: by `ClaimInv`, which says where the
  claim token is between any two commits of a setup (`ClaimTokenSpent`,
  `ClaimTokenKept`) and that the forms of a setup end with its process.
  `SeedsNeverOverwrite`: by `SeedInv`; a cut boot is completed by the next, which
  seeds a credential all over if a part of it is missing, so the invariant says
  that the owner's parts are then all there, and that the url is seeded last.
  `SessionsAreHonest`: rows, cookies and what browsers were answered agree.
* `SelfUpdateProofs`: `MigrationsInOrder`, `DoneMeansDone`, `ChosenStepExists`. The
  invariant ties the two programs of the walk together: what the first chose can
  be checked out by the second although a fetch comes in between (`StepInv`),
  what a migration run counts as done has run, with two of them side by side
  (`MigrateInv`), no checkpoint is passed without its migrations and dependencies
  (`WalkInv`), and a router that is to report the end has code, dependencies,
  migrations and, unless it is `bare`, ports (`RestartInv`). That a step chosen among the releases is
  one of them needs a least element, which the library's well-founded induction
  gives.
* `DomainsProofs`: `PrimaryUnique`, `ChallengesApart`, `FrontEndFollows`. The last is
  the hard one: the table changes when a request is accepted, the zone later, by
  whoever is then first in the queue of the zone lock. `ZoneQueueInv` and
  `ZonesInv` say that the *last* queued change of a name agrees with the table,
  and without one the zones do, each in the two directions the mDNS mark leaves (a
  name that must have a zone, one that may); `SitesInv` that somebody will still write the
  Caddyfile or it is that of table and disk, and then that somebody will still
  make Caddy read it or Caddy has. `IssueInv` gives the challenges: who has
  tokens published holds the issuance lock.
* `InstallProofs`: `NothingUnseenRuns`, `RevocationLasts`, `RunningIsDeployed`,
  `LabelsKeepPorts`. One inductive invariant, `AppsInv`: one task at most works on
  an app, and each app is `Good` with the work done on it, or with `Idle`. `Good`
  has a clause per concern: what refers to a row is there only with the row
  (`RowOk`); checkout and image are of the app's repository (`DiskOk`); how far
  the request has come (`StageOk`); what a launch could start from is reviewed,
  except between pull and gate, where the task knows the commit to go back to
  (`ReviewOk`); and it agrees with the row (`DeployOk`). That a version is reviewed is
  said of accepted and unseen ones together, for an update is reviewed against
  whatever was installed (`Reviewed`), and an app in review or at its ports is one that
  has no row yet. `NothingUnseenRuns` excepts the apps in `strayed`, `RunningIsDeployed`
  those in `strayed` and `cut`, and no others.
* `InstallProofs`, `ImplementsConsent`: `Spec => KeepsConsent`. Every step of
  `Install` is shown to be one of `Consent` or a stutter. Beside `AppsInv` it needs
  that the apps were installed one after another (`BornInv`), from which follows
  what `default_provider_id_for_service` returns (`ProvidersOk`). The attempt
  to prove an earlier `Consent`, in which only a choice or the end of a provider
  moves a service, failed at updates: the repositories of `install_reviewed` had
  hidden the takeover by an older app (section 9) behind a conflict of ports.
* `OAuthProofs`: `ConsentBeforeGrant`, `OneRowPerCode`, `TokensOfTheirAccount`. A
  handler acts, after an await, on what it read before it; `WorkOk` says what of
  that is still true: its flow was consented to and was begun for the key and the app it
  carries, and the row it read, if still there, is of the flow it came from
  (`RowsOk`: ids are not used again). A code is exchanged by one handler because
  its flow was popped (`FlowsOk`, `WorksOk`). The clause that rows of the device
  flow have no time is needed: nothing else keeps such a key away from the flow
  with a code.
* `AppDataProofs`: `DataStays`, `NobodyInherits`, `OwnImages`, by one invariant. One
  request is at work, with a name nobody else has (`NamesApart`). In the middle
  of a rename an app's place differs from tier to tier (`Place`), and the rename
  has moved all there was in the tiers it is through, to directories that were not
  there (`Moves`): so the undo puts back what it can and nothing else, what it
  cannot is `astray`, and the row can follow. Then what is in a directory is its app's, or was left by a removal
  or a refused rename (`Traces`), nothing of an app's own is missing (`Complete`), and the source goes
  with the temp directory (`Sources`).

Only model-checked: liveness under fairness (`Settles`, `RemovalEnds`, `RouterComesBack`,
`LogSettles`, `RequestsEnd`) stays with TLC: the prover cannot do it, nor
`ENABLED` or induction over data. Each module has a type invariant;
`UpdateTypeOK`, `DomainsTypeOK`, `InstallTypeOK`, `OAuthTypeOK` and `TypeOK` of
`AppData` are written for proofs and are not among the properties of a run,
which ask about behaviour.

## 13. Not modelled

`PROJECT.json` names every part with its status. Left aside for good, with the
reason:
* output text (zone files, Caddyfile, podman command lines, error messages):
  no property is about it;
* stateless forwarding, streams of logs and terminals, rendered pages,
  `diagnostics.py` and the security audit: they read, and change nothing;
* host provisioning, swap and reclaim, command line clients, demo apps, the
  test harness: other programs, or configuration;
* the protocols of ACME, the certificate broker, Keycloak and the OAuth
  providers: an answer or a refusal;
* credentials, snapshots of the archive's metadata, disk accounting.

Of modelled parts, not modelled: requests that overlap on one app in `Install`
(in `AppLifecycle` they do), app tokens beyond their rows, a change of password
or username, version ranges of services, and manifest fields other than ports,
services and permissions.
