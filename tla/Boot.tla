-------------------------------- MODULE Boot --------------------------------
(***************************************************************************)
(* How an instance comes up: the schema migrations, the seeding from       *)
(* first_boot.toml, the claim of the owner on /setup, and the default apps *)
(* (db/versioned, core/first_boot.py, web/setup_app.py,                    *)
(* core/default_apps.py, and their order in web/start.py and web/app.py).  *)
(*                                                                         *)
(* Everything here happens once per boot, in a fixed order, and is         *)
(* committed in small pieces: a crash between two of them leaves what the  *)
(* next boot finds.  Whether somebody is signed in is in Access.           *)
(***************************************************************************)
EXTENDS Naturals, Sequences, FiniteSets

CONSTANTS
  Starters,       \* processes that call init_db; "router" is one of them
  Releases,       \* the highest schema version each release of the code knows
  Posts,          \* POSTs of /setup that a browser may send
  Names,          \* the usernames they ask for
  DefaultApps,    \* config.default_apps, in order
  ClaimRequired,  \* config.claim_token_required
  Troubles,       \* what comes from outside: "crash", "migration" (one fails), "other" (starter),
                  \* "release" (switched), "network" (of an app's source), "owner" (an edit)
  MaxTroubles     \* how often, all of them together

ASSUME BootAssumption ==
  /\ "router" \in Starters
  /\ Releases \subseteq Nat \ {0}
  /\ \E r \in Releases : \A s \in Releases : s <= r
  /\ ClaimRequired \in BOOLEAN
  /\ MaxTroubles \in Nat

VARIABLES
  db,         \* the schema: recorded version, and the migrations that really ran
  mig,        \* per starter, its place in apply_migrations
  code,       \* the release on the disk
  router,     \* the router process: where its boot is, and what this phase has left to do
  store,      \* the rows that first_boot.toml seeds, and who wrote them last
  source,     \* where a claim token comes from: the toml, the legacy file, or nowhere
  users,      \* the rows of `users`, oldest first
  posts,      \* the POSTs of /setup
  sentinel,   \* the default-apps sentinel file
  tally,      \* the results of the default-apps loop that is running
  installed,  \* default apps that have a row in `apps`
  reachable,  \* default apps whose source can be cloned
  connecting, \* the parts of the Imbue credential that the callback has yet to store
  trouble     \* how much of that has come so far

schemaVars == <<db, mig, code>>
ownerVars  == <<users, posts>>
appVars    == <<sentinel, tally, installed, reachable>>
seedVars   == <<store, source, connecting>>
bootVars   == <<schemaVars, router, ownerVars, appVars, seedVars, trouble>>

Range(s) == {s[i] : i \in DOMAIN s}

Parts == <<"issuer", "client", "secret">>           \* of the Imbue credential
Keys  == {"domain", "url", "claim"} \cup Range(Parts)
Specs == Range(DefaultApps)
Newest == CHOOSE r \in Releases : \A s \in Releases : s <= r

MaxRetry  == 3
NoResult  == [status |-> "none", attempts |-> 0]

Can(t) == t \in Troubles /\ trouble < MaxTroubles
Bother == trouble' = trouble + 1

-----------------------------------------------------------------------------
(* apply_migrations: everything under one lock, every migration and its    *)
(* version stamp in one transaction.                                       *)

Idle == [at |-> "idle", current |-> 0]

Schemas ==
  {[tables |-> FALSE, version |-> 0, from |-> 0, ran |-> <<>>],
   [tables |-> TRUE,  version |-> 0, from |-> 0, ran |-> <<>>]} \cup
  {[tables |-> TRUE, version |-> v, from |-> v, ran |-> <<>>] : v \in 1..Newest}

HoldsLock(p) == mig[p].at = "locked"

\* Mutant: nobody waits for the lock.
Unlocked == TRUE

LockFree == \A q \in Starters : ~HoldsLock(q)

OpenLockFile(p) ==
  /\ mig[p].at = "idle"
  /\ IF p = "router" THEN router.at = "migrating" /\ UNCHANGED trouble
                     ELSE Can("other") /\ Bother
  /\ mig' = [mig EXCEPT ![p].at = "waiting"]
  /\ UNCHANGED <<db, code, router, ownerVars, appVars, seedVars>>

Refused(p, version) == version > code \/ (db.tables /\ version = 0)

\* What a starter does first with the lock: it reads the version, refuses what
\* it cannot bring up, and creates a database that has no tables at all.
TakeLock(p) ==
  /\ mig[p].at = "waiting"
  /\ LockFree
  /\ LET version == db.version IN
       IF Refused(p, version)
       THEN mig' = [mig EXCEPT ![p].at = "failed"] /\ UNCHANGED db
       ELSE IF ~db.tables
       THEN /\ db' = [tables |-> TRUE, version |-> code, from |-> code, ran |-> <<>>]
            /\ mig' = [mig EXCEPT ![p].at = "done"]
       ELSE mig' = [mig EXCEPT ![p] = [at |-> "locked", current |-> version]] /\ UNCHANGED db
  /\ UNCHANGED <<code, router, ownerVars, appVars, seedVars, trouble>>

\* One migration, with its stamp: both or neither.
ApplyMigration(p) ==
  /\ HoldsLock(p) /\ mig[p].current < code
  /\ LET v == mig[p].current + 1 IN
       /\ db'  = [db EXCEPT !.version = v, !.ran = Append(@, v)]
       /\ mig' = [mig EXCEPT ![p].current = v]
  /\ UNCHANGED <<code, router, ownerVars, appVars, seedVars, trouble>>

MigrationFails(p) ==
  /\ HoldsLock(p) /\ mig[p].current < code
  /\ Can("migration") /\ Bother
  /\ mig' = [mig EXCEPT ![p].at = "failed"]
  /\ UNCHANGED <<db, code, router, ownerVars, appVars, seedVars>>

ReleaseLock(p) ==
  /\ HoldsLock(p) /\ mig[p].current >= code
  /\ mig' = [mig EXCEPT ![p].at = "done"]
  /\ UNCHANGED <<db, code, router, ownerVars, appVars, seedVars, trouble>>

\* A starter other than the router has nothing more to do.
StarterExits(p) ==
  /\ p # "router" /\ mig[p].at \in {"done", "failed"}
  /\ mig' = [mig EXCEPT ![p] = Idle]
  /\ UNCHANGED <<db, code, router, ownerVars, appVars, seedVars, trouble>>

-----------------------------------------------------------------------------
(* The router process.                                                     *)

Down == [at |-> "down", pass |-> 1, todo |-> <<>>]

PowerOn ==
  /\ router.at = "down"
  /\ router' = [router EXCEPT !.at = "migrating"]
  /\ UNCHANGED <<schemaVars, ownerVars, appVars, seedVars, trouble>>

\* What seed_first_boot will write: read once, before the first write.  The
\* credential counts as stored only with all its parts; the claim token is for
\* an instance without an owner.
StoredIdentity == \A k \in Range(Parts) : store[k] # "none"

\* Mutant: the toml is written over what is there.
WantedAgain(k) == source = "toml"

Wanted(k) == source = "toml" /\ store[k] = "none"
ClaimWanted == users = <<>> /\ store["claim"] = "none" /\ source # "nowhere"

\* Mutant: the token belongs to what is seeded with the domain.
SeedTogether ==
  (IF Wanted("domain") THEN <<"domain">> ELSE <<>>)
    \o (IF source = "toml" /\ ~StoredIdentity THEN Parts ELSE <<>>)
    \o (IF Wanted("url") THEN <<"url">> ELSE <<>>)
    \o (IF ClaimWanted /\ Wanted("domain") THEN <<"claim">> ELSE <<>>)

SeedList ==
  (IF Wanted("domain") THEN <<"domain">> ELSE <<>>)
    \o (IF source = "toml" /\ ~StoredIdentity THEN Parts ELSE <<>>)
    \o (IF Wanted("url") THEN <<"url">> ELSE <<>>)
    \o (IF ClaimWanted THEN <<"claim">> ELSE <<>>)

ToSeeding(pass) == router' = [at |-> "seeding", pass |-> pass, todo |-> SeedList]

Migrated ==
  /\ router.at = "migrating" /\ mig["router"].at = "done"
  /\ mig' = [mig EXCEPT !["router"] = Idle]
  /\ ToSeeding(1)
  /\ UNCHANGED <<db, code, ownerVars, appVars, seedVars, trouble>>

MigrationRefused ==
  /\ router.at = "migrating" /\ mig["router"].at = "failed"
  /\ mig' = [mig EXCEPT !["router"] = Idle]
  /\ router' = Down
  /\ UNCHANGED <<db, code, ownerVars, appVars, seedVars, trouble>>

\* Every setting is a commit of its own.
SeedOne ==
  /\ router.at = "seeding" /\ router.todo # <<>>
  /\ store' = [store EXCEPT ![Head(router.todo)] = "seed"]
  /\ router' = [router EXCEPT !.todo = Tail(@)]
  /\ UNCHANGED <<schemaVars, ownerVars, appVars, source, connecting, trouble>>

\* After the first pass: the setup app, or the bootstrap of the full app, which
\* tries the default apps again and then seeds a second time.
Pending(d) ==
  \/ sentinel[d].status = "none"
  \/ sentinel[d].status = "failed" /\ sentinel[d].attempts < MaxRetry

ToRetrying ==
  /\ router' = [at |-> "retrying", pass |-> 2, todo |-> SelectSeq(DefaultApps, Pending)]
  /\ tally'  = sentinel

Seeded ==
  /\ router.at = "seeding" /\ router.todo = <<>>
  /\ IF router.pass = 2 THEN router' = [router EXCEPT !.at = "serving"] /\ UNCHANGED tally
     ELSE IF users = <<>> THEN router' = [router EXCEPT !.at = "setup"] /\ UNCHANGED tally
     ELSE ToRetrying
  /\ UNCHANGED <<schemaVars, ownerVars, sentinel, installed, reachable, seedVars, trouble>>

NoPost == [at |-> "none"]

Dead ==
  /\ router' = Down
  /\ mig' = [mig EXCEPT !["router"] = Idle]
  /\ posts' = [p \in Posts |-> NoPost]
  /\ tally' = [d \in Specs |-> NoResult]
  /\ connecting' = <<>>
  /\ UNCHANGED <<db, code, store, source, users, sentinel, installed, reachable>>

Crash == router.at # "down" /\ Can("crash") /\ Bother /\ Dead

Restart == router.at = "serving" /\ Dead /\ UNCHANGED trouble

\* A release is switched while nothing of it runs.
SwitchRelease(r) ==
  /\ r # code /\ router.at = "down" /\ \A p \in Starters : mig[p].at = "idle"
  /\ Can("release") /\ Bother
  /\ code' = r
  /\ UNCHANGED <<db, mig, router, ownerVars, appVars, seedVars>>

-----------------------------------------------------------------------------
(* The claim of the owner: setup_post.  It waits for its form; from then on    *)
(* it is one synchronous piece of code that only a crash can cut, so no other  *)
(* request runs until it has answered.                                         *)

Working(p) == posts[p].at \in {"claimed", "deploying"}
Free       == \A p \in Posts : ~Working(p)

SendPost(p, n, good) ==
  /\ router.at = "setup" /\ posts[p].at = "none"
  /\ posts' = [posts EXCEPT ![p] = [at |-> "form", name |-> n, token |-> good]]
  /\ UNCHANGED <<schemaVars, router, users, appVars, seedVars, trouble>>

\* Mutant: what was right when the request came.
WasVerified(p) == posts[p].token

\* _verify_claim_token reads the row now, after the form has come.
Verified(p) == posts[p].token /\ store["claim"] = "seed"

Entitled(p) == ClaimRequired => Verified(p)

Accepted(p) ==
  /\ router.at = "setup" /\ Free /\ posts[p].at = "form"
  /\ Entitled(p) /\ posts[p].name \notin Range(users)

Refuse(p) ==
  /\ router.at = "setup" /\ Free /\ posts[p].at = "form"
  /\ ~(Entitled(p) /\ posts[p].name \notin Range(users))
  /\ posts' = [posts EXCEPT ![p] = NoPost]
  /\ UNCHANGED <<schemaVars, router, users, appVars, seedVars, trouble>>

\* The owner and the owner's session are one commit; the caller's session is
\* Access's part of this step.
SetupCommit(p) ==
  /\ Accepted(p)
  /\ users' = Append(users, posts[p].name)
  /\ posts' = [posts EXCEPT ![p].at = "claimed"]
  /\ UNCHANGED <<schemaVars, router, appVars, seedVars, trouble>>

SetupDropClaim(p) ==
  /\ posts[p].at = "claimed"
  /\ posts'  = [posts EXCEPT ![p].at = "deploying"]
  /\ store'  = [store EXCEPT !["claim"] = "none"]
  /\ source' = IF source = "file" THEN "nowhere" ELSE source
  /\ router' = [router EXCEPT !.todo = SelectSeq(DefaultApps, Pending)]
  /\ tally'  = sentinel
  /\ UNCHANGED <<schemaVars, users, sentinel, installed, reachable, connecting, trouble>>

\* The answer; the restart it triggers ends the setup app, and the same
\* process goes on with the full one.  What still waits for a form is dropped.
SetupEnds(p) ==
  /\ posts[p].at = "deploying" /\ router.todo = <<>> /\ tally = sentinel
  /\ posts' = [posts EXCEPT ![p].at = "answered"]
  /\ UNCHANGED <<schemaVars, router, users, appVars, seedVars, trouble>>

SetupServed ==
  /\ router.at = "setup" /\ Free /\ \E p \in Posts : posts[p].at = "answered"
  /\ posts' = [p \in Posts |-> NoPost]
  /\ ToRetrying
  /\ UNCHANGED <<schemaVars, users, sentinel, installed, reachable, seedVars, trouble>>

-----------------------------------------------------------------------------
(* deploy_default_apps, from the setup handler and from every boot.            *)

Deploying == router.at = "retrying" \/ \E p \in Posts : posts[p].at = "deploying"

\* The clone comes first, then the check for a row of that name.  The boot's
\* own connection returns rows as tuples, so that insert_and_deploy raises when
\* it looks up the primary domain by column name.
Outcome(d) ==
  IF d \notin reachable THEN "failed"
  ELSE IF d \in installed THEN "skipped"
  ELSE IF router.at = "retrying" THEN "failed"
  ELSE "ok"

InstallDefault ==
  /\ Deploying /\ router.todo # <<>>
  /\ LET d == Head(router.todo)
         o == Outcome(d) IN
       /\ installed' = IF o = "ok" THEN installed \cup {d} ELSE installed
       /\ tally' = [tally EXCEPT ![d] = [status |-> o,
                      attempts |-> IF o = "failed" THEN @.attempts + 1 ELSE 1]]
  /\ router' = [router EXCEPT !.todo = Tail(@)]
  /\ UNCHANGED <<schemaVars, ownerVars, sentinel, reachable, seedVars, trouble>>

\* The sentinel is replaced once, when the loop is through.
WriteSentinel ==
  /\ Deploying /\ router.todo = <<>> /\ tally # sentinel
  /\ sentinel' = tally
  /\ UNCHANGED <<schemaVars, router, ownerVars, tally, installed, reachable, seedVars, trouble>>

Retried ==
  /\ router.at = "retrying" /\ router.todo = <<>> /\ tally = sentinel
  /\ ToSeeding(2)
  /\ UNCHANGED <<schemaVars, ownerVars, appVars, seedVars, trouble>>

Network(d) ==
  /\ Can("network") /\ Bother
  /\ reachable' = IF d \in reachable THEN reachable \ {d} ELSE reachable \cup {d}
  /\ UNCHANGED <<schemaVars, router, ownerVars, sentinel, tally, installed, seedVars>>

-----------------------------------------------------------------------------
(* What the owner changes while the router serves.                             *)

Toggle(d) ==
  /\ router.at = "serving" /\ Can("owner") /\ Bother
  /\ installed' = IF d \in installed THEN installed \ {d} ELSE installed \cup {d}
  /\ UNCHANGED <<schemaVars, router, ownerVars, sentinel, tally, reachable, seedVars>>

ChangeDomain ==
  /\ router.at = "serving" /\ Can("owner") /\ Bother
  /\ store' = [store EXCEPT !["domain"] = "own"]
  /\ UNCHANGED <<schemaVars, router, ownerVars, appVars, source, connecting>>

\* connect_imbue_callback runs on a thread of its own, and stores the
\* credential it got for the code part by part, each a commit.
ConnectImbue ==
  /\ router.at = "serving" /\ store["url"] # "none" /\ connecting = <<>>
  /\ Can("owner") /\ Bother
  /\ connecting' = Parts
  /\ UNCHANGED <<schemaVars, router, ownerVars, appVars, store, source>>

StorePart ==
  /\ connecting # <<>>
  /\ store' = [store EXCEPT ![Head(connecting)] = "own"]
  /\ connecting' = Tail(connecting)
  /\ UNCHANGED <<schemaVars, router, ownerVars, appVars, source, trouble>>

-----------------------------------------------------------------------------

\* A machine with first_boot.toml beside its config, or one of an older build
\* that has its domain already and its claim token in a file.
BootInit ==
  /\ db \in Schemas
  /\ mig = [p \in Starters |-> Idle]
  /\ code \in Releases
  /\ router = Down
  /\ source \in {"toml", "file"}
  /\ store = [k \in Keys |-> IF k = "domain" /\ source = "file" THEN "own" ELSE "none"]
  /\ (source = "file" => db.tables)
  /\ users = <<>>
  /\ posts = [p \in Posts |-> NoPost]
  /\ sentinel = [d \in Specs |-> NoResult]
  /\ tally = sentinel
  /\ installed = {}
  /\ reachable \in SUBSET Specs
  /\ connecting = <<>>
  /\ trouble = 0

Migrating ==
  \/ \E p \in Starters : \/ OpenLockFile(p) \/ TakeLock(p) \/ ApplyMigration(p)
                         \/ MigrationFails(p) \/ ReleaseLock(p) \/ StarterExits(p)
  \/ \E r \in Releases : SwitchRelease(r)

ComingUp == PowerOn \/ Migrated \/ MigrationRefused \/ SeedOne \/ Seeded

Claiming ==
  \/ \E p \in Posts, n \in Names, good \in BOOLEAN : SendPost(p, n, good)
  \/ \E p \in Posts : Refuse(p) \/ SetupDropClaim(p)
  \/ SetupServed

DeployingDefaults == InstallDefault \/ WriteSentinel \/ Retried \/ \E d \in Specs : Network(d)

Owning == (\E d \in Specs : Toggle(d)) \/ ChangeDomain \/ ConnectImbue \/ StorePart

\* Every step that leaves sessions and API tokens alone.
BootSteps == Migrating \/ ComingUp \/ Claiming \/ DeployingDefaults \/ Owning
=============================================================================
