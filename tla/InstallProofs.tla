---------------------------- MODULE InstallProofs ----------------------------
(* Theorems about Install, for any apps, repositories, ports and faults.    *)
EXTENDS Install, FiniteSetTheorems, WellFoundedInduction, TLAPS

-----------------------------------------------------------------------------
(* The inductive invariant: of each app, with the work w that somebody does *)
(* on it (Idle when nobody does).                                           *)

Active(t) == task[t] # Idle

\* Who works on an app does so alone.
AloneInv ==
  /\ \A t \in Tasks : Active(t) => task[t].app \in Apps
  /\ \A t, u \in Tasks : Active(t) /\ Active(u) /\ task[t].app = task[u].app => t = u

\* What refers to a row is there only with the row, and a label has one port.
RowOk(a) ==
  /\ ~Exists(a) => /\ \A r \in maps : r.app # a
                   /\ \A s \in Services : <<s, a>> \notin providers /\ chosen[s] # a
  /\ Exists(a) => row[a].deployed \in Versions(a)
  /\ ~Exists(a) => row[a].deployed = 0
  /\ row[a].status # "none" <=> row[a].born > 0
  /\ \A p \in Perms : <<a, p>> \in grants => Exists(a) /\ p \in agreed[a]
  /\ \A p \in Perms : <<a, p>> \in revoked =>
       Exists(a) /\ p \in Declared[a][row[a].deployed].perms /\ <<a, p>> \notin grants
  /\ \A r, q \in maps : r.app = a /\ q.app = a /\ r.label = q.label => r.port = q.port

\* What the page shows, if there is one.
Page(a, v) == v = 0 \/ (v \in Versions(a) /\ Declared[a][v].parses)

\* How far a request has come, and what the app is then.
StageOk(a, w) ==
  LET s == row[a].status IN
  /\ w.pc \in {"ports", "insert", "grant", "build"} => w.was \in Versions(a) /\ Declared[a][w.was].parses
  /\ w.pc = "review" => Page(a, w.was) /\ w.sha \in {0, w.was}
  /\ w.pc \in {"review", "ports", "insert"} => s = "none"
  /\ w.pc \in {"ports", "insert", "grant"} => /\ tree[a] = w.was /\ Reviewed(a, w.was)
                                              /\ w.todo \subseteq agreed[a] /\ Page(a, w.sha)
  /\ w.pc = "insert" => \A r, q \in w.plan : r.app = a /\ (r.label = q.label => r.port = q.port)
  /\ w.pc = "grant" => s = "building" /\ row[a].deployed = w.was
  /\ w.pc \in {"pull", "gate", "rollback"} => w.was = row[a].deployed /\ w.sha \in Versions(a)
  /\ w.pc \in {"pull", "gate", "rollback", "claim"} => s \in {"running", "error"}
  /\ w.pc = "sync" => s = "building"
  /\ w.pc \in {"start", "build", "run"} => s \in {"building", "starting"}
  /\ w.pc = "build" => tree[a] = w.was
  /\ w.pc = "launch" => s = "starting"
  /\ w.pc \in {"run", "launch"} => w.was \in Versions(a)
  /\ w.pc = "remove" => s = "removing"

\* A checkout that nothing is launched from before its owner accepts it: what is
\* reviewed, and what does not parse.
Settled(a, v) == v = 0 \/ ~Declared[a][v].parses \/ Reviewed(a, v)

\* Whatever a launch may start from is reviewed.
ReviewOk(a, w) ==
  a \notin strayed =>
    /\ AllReviewed(a) /\ Reviewed(a, row[a].deployed)
    /\ w.pc \notin {"gate", "rollback"} => Settled(a, tree[a])
    /\ w.pc \in {"pull", "gate", "rollback"} => Settled(a, w.sha)
    /\ w.pc \in {"run", "launch"} => Reviewed(a, w.was)

\* Whatever a launch starts from agrees with the row.
DeployOk(a, w) ==
  LET s == row[a].status
      d == row[a].deployed IN
  a \notin cut \cup strayed =>
    /\ s \in {"building", "starting", "running"} /\ Parses(a) /\ w.pc \notin {"gate", "rollback", "claim", "sync"}
       => tree[a] = d
    /\ s \in {"starting", "running"} /\ w.pc \notin {"start", "build"} => image[a] \in {0, d}
    /\ s = "running" => container[a] \in {Nowhere, [code |-> d, manifest |-> d]}
    /\ w.pc \in {"pull", "gate", "rollback"} /\ s = "running" /\ Declared[a][w.sha].parses => w.sha = d
    /\ w.pc \in {"run", "launch"} => image[a] \in {0, d} /\ w.was = d

\* The checkout and the image are of the app's own repository.
DiskOk(a) == tree[a] \in Versions(a) \cup {0} /\ image[a] \in Versions(a) \cup {0}

Good(a, w) == RowOk(a) /\ DiskOk(a) /\ StageOk(a, w) /\ ReviewOk(a, w) /\ DeployOk(a, w)

\* The apps were installed one after the other.
BornInv ==
  /\ \A a \in Apps : row[a].born <= Cardinality({b \in Apps : row[b].born > 0})
  /\ \A a, b \in Apps : row[a].born > 0 /\ row[a].born = row[b].born => a = b

AppsInv ==
  /\ InstallTypeOK /\ AloneInv
  /\ \A t \in Tasks : Active(t) => Good(task[t].app, task[t])
  /\ \A a \in Apps : Unworked(a) => Good(a, Idle)

-----------------------------------------------------------------------------
(* What the helpers do.                                                     *)

Works == [app : Apps \cup {NoApp}, pc : Pcs, was : Number, sha : Number, approve : BOOLEAN,
          todo : SUBSET Perms, port : Nat, plan : SUBSET Mapping]
Rows  == [status : Statuses, deployed : Number, born : Nat, port : Nat]
Runs  == [code : Number, manifest : Number]

LEMMA WorkTyped ==
    ASSUME NEW a \in Apps \cup {NoApp}, NEW pc \in Pcs
    PROVE  Work(a, pc) \in Works /\ Work(a, pc).app = a /\ Work(a, pc).pc = pc
  BY DEF Work, Works, Number

LEMMA WorkIs ==
    ASSUME NEW a \in Apps, NEW pc \in Pcs
    PROVE  \E w \in Works : w = Work(a, pc) /\ w.app = a /\ w.pc = pc /\ w.was = 0 /\ w.sha = 0
<1>1. Work(a, pc) \in Works
  BY WorkTyped
<1>2. Work(a, pc).app = a /\ Work(a, pc).pc = pc /\ Work(a, pc).was = 0 /\ Work(a, pc).sha = 0
  BY DEF Work
<1> QED  BY <1>1, <1>2

LEMMA IdleIs == Idle \in Works /\ Idle.app = NoApp /\ Idle.pc = "idle" /\ NoApp \notin Apps
  BY WorkTyped, InstallAssumption DEF Idle, Pcs

LEMMA DeclaredIs ==
    ASSUME NEW a \in Apps, NEW v \in Versions(a)
    PROVE  /\ Declared[a][v].perms \subseteq Perms /\ Declared[a][v].provides \subseteq Services
           /\ v \in Number /\ v # 0 /\ DOMAIN Declared[a][v].ports \subseteq Labels
<1>1. Declared[a][v] = Parsed(Manifest[a][v])
  BY DEF Declared
<1>2. /\ Manifest[a][v].provides \subseteq Services
      /\ \A i \in DOMAIN Manifest[a][v].consumes : Manifest[a][v].consumes[i].grants \subseteq Perms
      /\ v # 0
  BY InstallAssumption
<1>3. Parsed(Manifest[a][v]).perms \subseteq Perms /\ Parsed(Manifest[a][v]).provides \subseteq Services
  BY <1>2 DEF Parsed
<1>4. DOMAIN Parsed(Manifest[a][v]).ports = {Manifest[a][v].ports[i].label : i \in DOMAIN Manifest[a][v].ports}
  BY DEF Parsed
<1>5. {Manifest[a][v].ports[i].label : i \in DOMAIN Manifest[a][v].ports} \subseteq Labels
  BY DEF Labels
<1>6. v \in Number
  BY DEF Number
<1> QED  BY <1>1, <1>2, <1>3, <1>4, <1>5, <1>6

\* What is accepted stays accepted.
LEMMA ReviewedOn ==
    ASSUME NEW a \in Apps, accepted[a] \subseteq accepted'[a], agreed[a] \subseteq agreed'[a],
           unseen[a] \subseteq unseen'[a], NEW v
    PROVE  (Reviewed(a, v) => Reviewed(a, v)') /\ (Settled(a, v) => Settled(a, v)')
<1>1. Reviewed(a, v) => Reviewed(a, v)'
  BY DEF Reviewed
<1> QED  BY <1>1 DEF Settled

LEMMA SameSettings ==
    ASSUME NEW x, NEW y, NEW z
    PROVE  /\ ~SettingsChanged(x, x)
           /\ ~SettingsChanged(x, y) /\ ~SettingsChanged(y, z) => ~SettingsChanged(x, z)
  BY DEF SettingsChanged

\* One more task, one app.
Here(t, a) ==
  /\ task' \in [Tasks -> Works] /\ \A u \in Tasks \ {t} : task'[u] = task[u]
  /\ row' \in [Apps -> Rows] /\ \A b \in Apps \ {a} : row'[b] = row[b]
  /\ tree' \in [Apps -> Number] /\ \A b \in Apps \ {a} : tree'[b] = tree[b]
  /\ image' \in [Apps -> Number] /\ \A b \in Apps \ {a} : image'[b] = image[b]
  /\ container' \in [Apps -> Runs] /\ \A b \in Apps \ {a} : container'[b] = container[b]

\* What the owner has seen, and what came unseen, stays so.
Histories ==
  \A b \in Apps : /\ accepted[b] \subseteq accepted'[b] /\ agreed[b] \subseteq agreed'[b]
                  /\ unseen[b] \subseteq unseen'[b]

\* The tables and the histories change for a alone.
Rest(a) ==
  /\ Histories
  /\ strayed \subseteq strayed' /\ cut \ {a} \subseteq cut'
  /\ \A m \in maps' : m.app # a => m \in maps
  /\ \A b \in Apps \ {a} : \A s \in Services : /\ <<s, b>> \in providers' => <<s, b>> \in providers
                                               /\ chosen'[s] = b => chosen[s] = b
  /\ \A b \in Apps \ {a}, p \in Perms : /\ <<b, p>> \in grants' <=> <<b, p>> \in grants
                                        /\ <<b, p>> \in revoked' => <<b, p>> \in revoked

TableTypes ==
  /\ maps \subseteq Mapping /\ providers \subseteq Services \X Apps
  /\ chosen \in [Services -> Apps \cup {NoApp}] /\ grants \subseteq Apps \X Perms
  /\ accepted \in [Apps -> SUBSET Number] /\ agreed \in [Apps -> SUBSET Perms]
  /\ unseen \in [Apps -> SUBSET Number]
  /\ revoked \subseteq Apps \X Perms /\ strayed \subseteq Apps /\ cut \subseteq Apps
  /\ events \in 0..MaxEvents

LEMMA Types == InstallTypeOK <=>
  /\ TableTypes /\ task \in [Tasks -> Works] /\ row \in [Apps -> Rows]
  /\ tree \in [Apps -> Number] /\ image \in [Apps -> Number] /\ container \in [Apps -> Runs]
  BY DEF InstallTypeOK, TableTypes, Works, Rows, Runs

LEMMA EventTyped == ASSUME TableTypes, events' = events \/ Event PROVE events' \in 0..MaxEvents
  BY InstallAssumption DEF TableTypes, Event

LEMMA RestSame ==
    ASSUME TableTypes, NEW a, UNCHANGED <<maps, providers, chosen, grants, ghostVars>>, events' = events \/ Event
    PROVE  TableTypes' /\ Rest(a)
<1>1. events' \in 0..MaxEvents
  BY EventTyped
<1> QED  BY <1>1 DEF TableTypes, Rest, Histories, ghostVars

\* What was good of another app is good.
LEMMA GoodElsewhere ==
    ASSUME NEW t \in Tasks, NEW a, Here(t, a), Rest(a), NEW b \in Apps \ {a}, NEW w, Good(b, w)
    PROVE  Good(b, w)'
<1>1. /\ row'[b] = row[b] /\ tree'[b] = tree[b] /\ image'[b] = image[b] /\ container'[b] = container[b]
      /\ Exists(b)' <=> Exists(b)
  BY DEF Here, Exists
<1>2. /\ b \in strayed => b \in strayed'
      /\ b \in cut \cup strayed => b \in cut' \cup strayed'
  BY DEF Rest
<1>3. \A v : (Reviewed(b, v) => Reviewed(b, v)') /\ (Settled(b, v) => Settled(b, v)')
  BY ReviewedOn DEF Rest, Histories
<1>4. RowOk(b)'
  <2>1. \A r \in maps' : r.app = b => r \in maps
    BY DEF Rest
  <2>2. \A s \in Services : (<<s, b>> \in providers' => <<s, b>> \in providers) /\ (chosen'[s] = b => chosen[s] = b)
    BY DEF Rest
  <2>3. \A p \in Perms : (<<b, p>> \in grants' <=> <<b, p>> \in grants) /\ (<<b, p>> \in revoked' => <<b, p>> \in revoked)
    BY DEF Rest
  <2>4. agreed[b] \subseteq agreed'[b]
    BY DEF Rest, Histories
  <2> QED  BY <1>1, <2>1, <2>2, <2>3, <2>4 DEF Good, RowOk
<1>5. StageOk(b, w)'
  <2>1. agreed[b] \subseteq agreed'[b]
    BY DEF Rest, Histories
  <2> QED  BY <1>1, <1>3, <2>1 DEF Good, StageOk, Page
<1>6. ReviewOk(b, w)'
  BY <1>1, <1>2, <1>3 DEF Good, ReviewOk, AllReviewed
<1>7. DeployOk(b, w)'
  <2>1. Parses(b)' <=> Parses(b)
    BY <1>1 DEF Parses
  <2> QED  BY <1>1, <1>2, <2>1 DEF Good, DeployOk
<1>8. DiskOk(b)'
  BY <1>1 DEF Good, DiskOk
<1> QED  BY <1>4, <1>5, <1>6, <1>7, <1>8 DEF Good

\* Task t is the one that works on a, or nobody does and t is free to.
Doing(t, a) == IF task[t] = Idle THEN Unworked(a) ELSE task[t].app = a

LEMMA Begun ==
    ASSUME AppsInv, NEW t \in Tasks, NEW a \in Apps, Doing(t, a)
    PROVE  /\ Good(a, task[t]) /\ TableTypes
           /\ \A u \in Tasks \ {t} : Active(u) => task[u].app # a
           /\ task \in [Tasks -> Works] /\ row \in [Apps -> Rows]
           /\ tree \in [Apps -> Number] /\ image \in [Apps -> Number] /\ container \in [Apps -> Runs]
<1>1. InstallTypeOK /\ AloneInv
  BY DEF AppsInv
<1>2. Good(a, task[t]) /\ \A u \in Tasks \ {t} : Active(u) => task[u].app # a
  <2>1. CASE task[t] = Idle
    <3>1. Unworked(a)
      BY <2>1 DEF Doing
    <3>2. Good(a, Idle)
      BY <3>1 DEF AppsInv
    <3> QED  BY <2>1, <3>1, <3>2 DEF Unworked, OnApp, Active
  <2>2. CASE task[t] # Idle
    <3>1. task[t].app = a /\ Active(t)
      BY <2>2 DEF Doing, Active
    <3>2. Good(task[t].app, task[t])
      BY <3>1 DEF AppsInv
    <3> QED  BY <1>1, <3>1, <3>2 DEF AloneInv
  <2> QED  BY <2>1, <2>2
<1> QED  BY <1>1, <1>2, Types

\* Who is at a stage has an app.
LEMMA AtStage ==
    ASSUME AppsInv, NEW t \in Tasks, NEW pc, At(t, pc)
    PROVE  task[t].app \in Apps /\ Doing(t, task[t].app) /\ task[t].pc = pc
  BY DEF At, AppsInv, AloneInv, Active, Doing

\* A step of one task on one app.
LEMMA LocalStep ==
    ASSUME AppsInv, NEW t \in Tasks, NEW a \in Apps, Doing(t, a),
           Here(t, a), Rest(a), TableTypes', task'[t] = Idle \/ task'[t].app = a, Good(a, task[t])'
    PROVE  AppsInv'
<1>1. InstallTypeOK'
  BY DEF InstallTypeOK, TableTypes, Here, Works, Rows, Runs
<1>2. AloneInv'
  <2>1. \A u \in Tasks \ {t} : task'[u] = task[u] /\ (Active(u) => task[u].app # a)
    BY Begun DEF Here
  <2>2. AloneInv
    BY DEF AppsInv
  <2> QED  BY <2>1, <2>2 DEF AloneInv, Active
<1>3. ASSUME NEW u \in Tasks, Active(u)'
      PROVE  Good(task[u].app, task[u])'
  <2>1. CASE u = t
    <3>1. task'[t].app = a
      BY <1>3, <2>1 DEF Active
    <3> QED  BY <2>1, <3>1
  <2>2. CASE u # t
    <3>1. task'[u] = task[u] /\ Active(u)
      BY <1>3, <2>2 DEF Here, Active
    <3>2. PICK b, w : b \in Apps /\ b = task[u].app /\ w = task[u] /\ b # a /\ Good(b, w)
      BY <3>1, <2>2, Begun DEF AppsInv, AloneInv
    <3>3. Good(b, w)'
      BY <3>2, GoodElsewhere
    <3> QED  BY <3>1, <3>2, <3>3
  <2> QED  BY <2>1, <2>2
<1>4. ASSUME NEW b \in Apps, Unworked(b)'
      PROVE  Good(b, Idle)'
  <2>1. CASE b = a
    <3>1. task'[t] = Idle
      BY <1>4, <2>1 DEF Unworked, OnApp
    <3> QED  BY <2>1, <3>1
  <2>2. CASE b # a
    <3>1. Unworked(b)
      <4>1. \A u \in Tasks \ {t} : ~OnApp(u, b)
        BY <1>4 DEF Unworked, OnApp, Here
      <4>2. ~OnApp(t, b)
        BY <2>2 DEF OnApp, Doing
      <4> QED  BY <4>1, <4>2 DEF Unworked
    <3>2. Good(b, Idle)
      BY <3>1 DEF AppsInv
    <3> QED  BY <2>2, <3>2, GoodElsewhere
  <2> QED  BY <2>1, <2>2
<1> QED  BY <1>1, <1>2, <1>3, <1>4 DEF AppsInv

\* A step that leaves the tables alone, but for a status.
LEMMA QuietStep ==
    ASSUME AppsInv, NEW t \in Tasks, NEW a \in Apps, Doing(t, a), Here(t, a),
           UNCHANGED <<maps, providers, chosen, grants, accepted, agreed, unseen, revoked, cut>>,
           strayed \subseteq strayed', strayed' \subseteq Apps, events' = events \/ Event,
           row'[a].deployed = row[a].deployed, row'[a].born = row[a].born,
           Exists(a)' <=> Exists(a), row'[a].status = "none" <=> row[a].status = "none",
           task'[t] = Idle \/ task'[t].app = a,
           DiskOk(a)', StageOk(a, task[t])', ReviewOk(a, task[t])', DeployOk(a, task[t])'
    PROVE  AppsInv'
<1>1. Good(a, task[t]) /\ TableTypes
  BY Begun
<1>2. TableTypes' /\ Rest(a)
  <2>1. events' \in 0..MaxEvents
    BY <1>1, EventTyped
  <2> QED  BY <1>1, <2>1 DEF TableTypes, Rest, Histories
<1>3. RowOk(a)'
  BY <1>1 DEF Good, RowOk
<1>4. Good(a, task[t])'
  BY <1>3 DEF Good
<1> QED  BY <1>2, <1>4, LocalStep

\* A step of a task that changes nothing else.
LEMMA TaskStep ==
    ASSUME AppsInv, NEW t \in Tasks, NEW a \in Apps, Doing(t, a),
           NEW n \in Works, n = Idle \/ n.app = a, task' = [task EXCEPT ![t] = n],
           UNCHANGED <<diskVars, tableVars, ghostVars>>, events' = events \/ Event,
           StageOk(a, n), ReviewOk(a, n), DeployOk(a, n)
    PROVE  AppsInv'
<1>1. task'[t] = n /\ Here(t, a)
  BY Begun DEF Here, diskVars, tableVars
<1>2. /\ UNCHANGED <<maps, providers, chosen, grants, accepted, agreed, unseen, revoked, cut, strayed>>
      /\ strayed' \subseteq Apps /\ UNCHANGED <<row, tree, image, container>>
  BY Begun DEF diskVars, tableVars, ghostVars, TableTypes
<1>3. Exists(a)' <=> Exists(a)
  BY <1>2 DEF Exists
<1>4. StageOk(a, n)' /\ ReviewOk(a, n)' /\ DeployOk(a, n)'
  BY <1>2 DEF StageOk, Page, ReviewOk, DeployOk, AllReviewed, Reviewed, Settled, Parses
<1>5. DiskOk(a)'
  BY <1>2, Begun DEF Good, DiskOk
<1> QED  BY <1>1, <1>2, <1>3, <1>4, <1>5, QuietStep

\* Giving up leaves what it leaves.
LEMMA NoStage == ASSUME NEW a PROVE StageOk(a, Idle)
  BY IdleIs DEF StageOk

\* The page again, after an install that failed.
LEMMA AddFailsKeeps ==
    ASSUME AppsInv, NEW t \in Tasks, NEW a \in Apps, a = task[t].app, Doing(t, a),
           task[t].pc \in {"ports", "insert"}, AddFails(t), UNCHANGED <<diskVars, tableVars, ghostVars>>
    PROVE  AppsInv'
<1>1. Good(a, task[t]) /\ Page(a, task[t].sha) /\ row[a].status = "none" /\ task[t].sha \in Number
  BY Begun DEF Good, StageOk, Works
<1>2. ReviewOk(a, Idle) /\ DeployOk(a, Idle)
  BY <1>1, IdleIs DEF Good, StageOk, ReviewOk, DeployOk
<1>3. CASE Leave(t) /\ Ok
  BY <1>2, <1>3, NoStage, IdleIs, TaskStep DEF Leave, Ok
<1>4. CASE Event /\ Enter(t, [Work(a, "review") EXCEPT !.was = task[t].sha])
  <2>1. PICK w \in Works : w = Work(a, "review") /\ w.app = a /\ w.pc = "review" /\ w.sha = 0
    BY WorkIs DEF Pcs
  <2>2. PICK n : n = [w EXCEPT !.was = task[t].sha]
    OBVIOUS
  <2>3. n \in Works /\ n.app = a /\ n.pc = "review" /\ n.was = task[t].sha /\ n.sha = 0
    BY <1>1, <2>1, <2>2 DEF Works
  <2>4. task' = [task EXCEPT ![t] = n]
    BY <1>4, <2>1, <2>2 DEF Enter
  <2>5. StageOk(a, n)
    BY <1>1, <2>3 DEF StageOk
  <2>6. ReviewOk(a, n) /\ DeployOk(a, n)
    BY <1>2, <2>3, IdleIs DEF ReviewOk, DeployOk
  <2> QED  BY <1>4, <2>3, <2>4, <2>5, <2>6, TaskStep
<1> QED  BY <1>3, <1>4 DEF AddFails

LEMMA NoPortsKeeps == ASSUME AppsInv, NEW t \in Tasks, NoPorts(t) PROVE AppsInv'
<1>1. task[t].app \in Apps /\ Doing(t, task[t].app) /\ task[t].pc = "ports"
  BY AtStage DEF NoPorts
<1> QED  BY <1>1, AddFailsKeeps DEF NoPorts

LEMMA InsertFailsKeeps == ASSUME AppsInv, NEW t \in Tasks, InsertFails(t) PROVE AppsInv'
<1>1. task[t].app \in Apps /\ Doing(t, task[t].app) /\ task[t].pc = "insert"
  BY AtStage DEF InsertFails
<1> QED  BY <1>1, AddFailsKeeps DEF InsertFails

LEMMA AddRefusedKeeps == ASSUME AppsInv, NEW t \in Tasks, AddRefused(t) PROVE AppsInv'
<1>1. PICK a \in Apps : a = task[t].app /\ Doing(t, a) /\ task[t].pc = "review"
  BY AtStage DEF AddRefused
<1>2. PICK w \in Works : w = task[t]
  BY <1>1, Begun
<1>3. PICK n : n = [w EXCEPT !.sha = 0]
  OBVIOUS
<1>4. n \in Works /\ n.app = w.app /\ n.pc = w.pc /\ n.was = w.was /\ n.sha = 0
  BY <1>3 DEF Works, Number
<1>5. task' = [task EXCEPT ![t] = n] /\ Event /\ UNCHANGED <<diskVars, tableVars, ghostVars>>
  BY <1>1, <1>2, <1>3, Begun DEF AddRefused, Fault
<1>6. Good(a, w)
  BY <1>1, <1>2, Begun
<1>7. StageOk(a, n) /\ ReviewOk(a, n) /\ DeployOk(a, n)
  BY <1>1, <1>2, <1>4, <1>6 DEF Good, StageOk, ReviewOk, DeployOk
<1> QED  BY <1>1, <1>2, <1>4, <1>5, <1>7, TaskStep

\* Another stage of the same work.
LEMMA GotoIs ==
    ASSUME task \in [Tasks -> Works], NEW t \in Tasks, NEW pc \in Pcs, Goto(t, pc)
    PROVE  \E n \in Works :
             /\ task' = [task EXCEPT ![t] = n] /\ n.pc = pc /\ n.app = task[t].app /\ n.was = task[t].was
             /\ n.sha = task[t].sha /\ n.approve = task[t].approve /\ n.todo = task[t].todo
             /\ n.port = task[t].port /\ n.plan = task[t].plan
<1>1. [task[t] EXCEPT !.pc = pc] \in Works
  BY DEF Works
<1>2. task' = [task EXCEPT ![t] = [task[t] EXCEPT !.pc = pc]]
  BY DEF Goto
<1>3. /\ [task[t] EXCEPT !.pc = pc].pc = pc /\ [task[t] EXCEPT !.pc = pc].app = task[t].app
      /\ [task[t] EXCEPT !.pc = pc].was = task[t].was /\ [task[t] EXCEPT !.pc = pc].sha = task[t].sha
      /\ [task[t] EXCEPT !.pc = pc].approve = task[t].approve /\ [task[t] EXCEPT !.pc = pc].todo = task[t].todo
      /\ [task[t] EXCEPT !.pc = pc].port = task[t].port /\ [task[t] EXCEPT !.pc = pc].plan = task[t].plan
  BY DEF Works
<1> QED  BY <1>1, <1>2, <1>3

LEMMA DeployKeeps == ASSUME AppsInv, NEW t \in Tasks, Deploy(t) PROVE AppsInv'
<1>1. PICK a \in Apps : a = task[t].app /\ Doing(t, a) /\ task[t].pc = "grant"
  BY AtStage DEF Deploy
<1>2. PICK n \in Works :
        /\ task' = [task EXCEPT ![t] = n] /\ n.pc = "build" /\ n.app = task[t].app /\ n.was = task[t].was
        /\ n.sha = task[t].sha
  BY <1>1, Begun, GotoIs DEF Deploy, Pcs
<1>3. Good(a, task[t])
  BY <1>1, Begun
<1>4. StageOk(a, n) /\ ReviewOk(a, n) /\ DeployOk(a, n)
  BY <1>1, <1>2, <1>3 DEF Good, StageOk, ReviewOk, DeployOk
<1> QED  BY <1>1, <1>2, <1>4, TaskStep DEF Deploy

LEMMA GateSkippedKeeps == ASSUME AppsInv, NEW t \in Tasks, GateSkipped(t) PROVE AppsInv'
<1>1. PICK a \in Apps : a = task[t].app /\ Doing(t, a) /\ task[t].pc = "gate"
  BY AtStage DEF GateSkipped
<1>2. PICK n \in Works :
        /\ task' = [task EXCEPT ![t] = n] /\ n.pc = "claim" /\ n.app = task[t].app /\ n.was = task[t].was
        /\ n.sha = task[t].sha
  BY <1>1, Begun, GotoIs DEF GateSkipped, Pcs
<1>3. Good(a, task[t]) /\ ~Parses(a)
  BY <1>1, Begun DEF GateSkipped
<1>4. StageOk(a, n) /\ ReviewOk(a, n) /\ DeployOk(a, n)
  BY <1>1, <1>2, <1>3 DEF Good, StageOk, ReviewOk, DeployOk, Parses, Settled
<1> QED  BY <1>1, <1>2, <1>4, TaskStep DEF GateSkipped

LEMMA SyncSkippedKeeps == ASSUME AppsInv, NEW t \in Tasks, SyncSkipped(t) PROVE AppsInv'
<1>1. PICK a \in Apps : a = task[t].app /\ Doing(t, a) /\ task[t].pc = "sync"
  BY AtStage DEF SyncSkipped
<1>2. PICK n \in Works :
        /\ task' = [task EXCEPT ![t] = n] /\ n.pc = "start" /\ n.app = task[t].app /\ n.was = task[t].was
        /\ n.sha = task[t].sha
  BY <1>1, Begun, GotoIs DEF SyncSkipped, Pcs
<1>3. Good(a, task[t]) /\ ~Parses(a)
  BY <1>1, Begun DEF SyncSkipped
<1>4. StageOk(a, n) /\ ReviewOk(a, n) /\ DeployOk(a, n)
  BY <1>1, <1>2, <1>3 DEF Good, StageOk, ReviewOk, DeployOk, Parses, Settled
<1> QED  BY <1>1, <1>2, <1>4, TaskStep DEF SyncSkipped

\* A launch that fails.
LEMMA LaunchFailsKeeps ==
    ASSUME AppsInv, NEW t \in Tasks, NEW a \in Apps, a = task[t].app, Doing(t, a),
           task[t].pc \in {"start", "build", "run", "launch"}, LaunchFails(t), events' = events \/ Event
    PROVE  AppsInv'
<1>1. Good(a, task[t]) /\ row[a].status \notin {"none", "gone"}
  BY Begun DEF Good, StageOk
<1>2. /\ task' = [task EXCEPT ![t] = Idle] /\ row' = [row EXCEPT ![a].status = "error"]
      /\ UNCHANGED <<tree, image, container, maps, providers, chosen, grants, accepted, agreed, unseen, revoked, cut, strayed>>
  BY DEF LaunchFails, Leave, SetStatus, diskVars, ghostVars
<1>3. /\ row'[a].status = "error" /\ row'[a].deployed = row[a].deployed /\ row'[a].born = row[a].born
      /\ row' \in [Apps -> Rows] /\ \A b \in Apps \ {a} : row'[b] = row[b]
  BY <1>2, Begun DEF Rows, Statuses
<1>4. Here(t, a) /\ task'[t] = Idle
  BY <1>2, <1>3, Begun, IdleIs DEF Here
<1>5. (Exists(a)' <=> Exists(a)) /\ (row'[a].status = "none" <=> row[a].status = "none")
  BY <1>1, <1>3 DEF Exists
<1>6. StageOk(a, task[t])'
  BY <1>4, IdleIs DEF StageOk
<1>7. ReviewOk(a, task[t])'
  <2>1. AllReviewed(a)' <=> AllReviewed(a)
    BY <1>2 DEF AllReviewed, Reviewed
  <2>2. Reviewed(a, row[a].deployed)' <=> Reviewed(a, row[a].deployed)
    BY <1>2, <1>3 DEF Reviewed
  <2>3. Settled(a, tree[a])' <=> Settled(a, tree[a])
    BY <1>2 DEF Settled, Reviewed
  <2> QED  BY <1>1, <1>2, <1>4, <2>1, <2>2, <2>3, IdleIs DEF Good, ReviewOk
<1>8. DeployOk(a, task[t])'
  BY <1>1, <1>2, <1>3, <1>4, IdleIs DEF Good, StageOk, DeployOk, Parses
<1>9. strayed \subseteq strayed' /\ strayed' \subseteq Apps
  BY <1>2, Begun DEF TableTypes
<1>10. DiskOk(a)'
  BY <1>1, <1>2 DEF Good, DiskOk
<1> QED  BY <1>2, <1>3, <1>4, <1>5, <1>6, <1>7, <1>8, <1>9, <1>10, QuietStep

LEMMA StartFailsKeeps == ASSUME AppsInv, NEW t \in Tasks, StartFails(t) PROVE AppsInv'
<1>1. task[t].app \in Apps /\ Doing(t, task[t].app) /\ task[t].pc = "start"
  BY AtStage DEF StartFails
<1> QED  BY <1>1, LaunchFailsKeeps DEF StartFails, Ok

LEMMA BuildFailsKeeps == ASSUME AppsInv, NEW t \in Tasks, BuildFails(t) PROVE AppsInv'
<1>1. task[t].app \in Apps /\ Doing(t, task[t].app) /\ task[t].pc = "build"
  BY AtStage DEF BuildFails
<1> QED  BY <1>1, LaunchFailsKeeps DEF BuildFails, Fault

LEMMA RunFailsKeeps == ASSUME AppsInv, NEW t \in Tasks, RunFails(t) PROVE AppsInv'
<1>1. task[t].app \in Apps /\ Doing(t, task[t].app) /\ task[t].pc \in {"run", "launch"}
  BY AtStage DEF RunFails
<1> QED  BY <1>1, LaunchFailsKeeps DEF RunFails, Fault, Ok

\* The pages and the requests.
LEMMA ReviewStarts ==
    ASSUME AppsInv, NEW t \in Tasks, NEW a \in Apps, task[t] = Idle, Admit(a), Addable(a),
           NEW v, Page(a, v), Enter(t, [Work(a, "review") EXCEPT !.was = v, !.sha = v]), Event,
           UNCHANGED <<diskVars, tableVars, ghostVars>>
    PROVE  AppsInv'
<1>1. Unworked(a) /\ row[a].status = "none" /\ Doing(t, a)
  BY DEF Admit, Addable, Doing
<1>2. v \in Number
  BY DeclaredIs DEF Page, Number
<1>3. PICK w \in Works : w = Work(a, "review") /\ w.app = a /\ w.pc = "review"
  BY WorkTyped DEF Pcs
<1>4. PICK n : n = [w EXCEPT !.was = v, !.sha = v]
  OBVIOUS
<1>5. n \in Works /\ n.app = a /\ n.pc = "review" /\ n.was = v /\ n.sha = v
  BY <1>2, <1>3, <1>4 DEF Works
<1>6. task' = [task EXCEPT ![t] = n]
  BY <1>3, <1>4 DEF Enter
<1>7. Good(a, Idle)
  BY <1>1, Begun
<1>8. StageOk(a, n)
  BY <1>1, <1>5 DEF StageOk
<1>9. ReviewOk(a, n) /\ DeployOk(a, n)
  BY <1>1, <1>5, <1>7, IdleIs DEF Good, ReviewOk, DeployOk
<1> QED  BY <1>1, <1>5, <1>6, <1>8, <1>9, TaskStep

LEMMA ShowManifestKeeps ==
    ASSUME AppsInv, NEW t \in Tasks, NEW a \in Apps, ShowManifest(t, a) PROVE AppsInv'
<1>1. PICK v \in Versions(a) : Declared[a][v].parses /\ Enter(t, [Work(a, "review") EXCEPT !.was = v, !.sha = v])
  BY DEF ShowManifest, Cloned, Upstream
<1> QED  BY <1>1, ReviewStarts DEF ShowManifest, Page

LEMMA AddUnshownKeeps ==
    ASSUME AppsInv, NEW t \in Tasks, NEW a \in Apps, AddUnshown(t, a) PROVE AppsInv'
<1>1. PICK w \in Works : w = Work(a, "review") /\ w.was = 0 /\ w.sha = 0
  BY WorkIs DEF Pcs
<1>2. w = [w EXCEPT !.was = 0, !.sha = 0]
  BY <1>1 DEF Works
<1>3. Enter(t, [Work(a, "review") EXCEPT !.was = 0, !.sha = 0])
  BY <1>1, <1>2 DEF AddUnshown
<1> QED  BY <1>3, ReviewStarts DEF AddUnshown, Page

LEMMA UpdateKeeps ==
    ASSUME AppsInv, NEW t \in Tasks, NEW a \in Apps, \E approve \in BOOLEAN : Update(t, a, approve) PROVE AppsInv'
<1>1. PICK approve \in BOOLEAN : Update(t, a, approve)
  OBVIOUS
<1>2. task[t] = Idle /\ Unworked(a) /\ row[a].status \in {"running", "error"} /\ Exists(a) /\ Doing(t, a) /\ tree[a] # 0
  BY <1>1, Begun DEF Update, Admit, Exists, Doing, Rows, Statuses, Launching
<1>3. Good(a, Idle) /\ tree[a] \in Number /\ row[a].deployed \in Number
  BY <1>2, Begun DEF Rows
<1>4. PICK w \in Works : w = Work(a, "pull") /\ w.app = a /\ w.pc = "pull"
  BY WorkTyped DEF Pcs
<1>5. PICK n : n = [w EXCEPT !.was = row[a].deployed, !.sha = tree[a], !.approve = approve]
  OBVIOUS
<1>6. n \in Works /\ n.app = a /\ n.pc = "pull" /\ n.was = row[a].deployed /\ n.sha = tree[a]
  <2>1. row[a].deployed \in Number /\ tree[a] \in Number
    BY <1>3
  <2>2. n \in Works /\ n.app = w.app /\ n.pc = w.pc /\ n.was = row[a].deployed /\ n.sha = tree[a]
    BY <1>5, <2>1 DEF Works
  <2> QED  BY <1>4, <2>2
<1>7. task' = [task EXCEPT ![t] = n] /\ UNCHANGED <<diskVars, tableVars, ghostVars>> /\ Event
  BY <1>1, <1>4, <1>5 DEF Update, Enter
<1>8. tree[a] \in Versions(a)
  BY <1>2, <1>3 DEF Good, DiskOk
<1>9. StageOk(a, n)
  BY <1>2, <1>6, <1>8 DEF StageOk
<1>10. ReviewOk(a, n) /\ DeployOk(a, n)
  BY <1>2, <1>3, <1>6, IdleIs DEF Good, ReviewOk, DeployOk, Parses
<1> QED  BY <1>2, <1>6, <1>7, <1>9, <1>10, TaskStep

LEMMA ReloadKeeps ==
    ASSUME AppsInv, NEW t \in Tasks, NEW a \in Apps, Reload(t, a) PROVE AppsInv'
<1>1. task[t] = Idle /\ Unworked(a) /\ row[a].status \in {"running", "error"} /\ Doing(t, a)
  BY Begun DEF Reload, Admit, Exists, Doing, Rows, Statuses, Launching
<1>2. Good(a, Idle)
  BY <1>1, Begun
<1> DEFINE n == Work(a, "claim")
<1>3. n \in Works /\ n.app = a /\ n.pc = "claim"
  BY WorkTyped DEF Pcs
<1>4. task' = [task EXCEPT ![t] = n] /\ UNCHANGED <<diskVars, tableVars, ghostVars>> /\ Event
  BY DEF Reload, Enter
<1> HIDE DEF n
<1>5. StageOk(a, n) /\ ReviewOk(a, n) /\ DeployOk(a, n)
  BY <1>1, <1>2, <1>3, IdleIs DEF Good, StageOk, ReviewOk, DeployOk, Parses
<1> QED  BY <1>1, <1>3, <1>4, <1>5, TaskStep

LEMMA StatusSet ==
    ASSUME row \in [Apps -> Rows], NEW a \in Apps, NEW s \in Statuses, SetStatus(a, s)
    PROVE  /\ row' \in [Apps -> Rows] /\ \A b \in Apps \ {a} : row'[b] = row[b]
           /\ row'[a].status = s /\ row'[a].deployed = row[a].deployed /\ row'[a].born = row[a].born
  BY DEF SetStatus, Rows

LEMMA RemoveAppKeeps ==
    ASSUME AppsInv, NEW t \in Tasks, NEW a \in Apps, RemoveApp(t, a) PROVE AppsInv'
<1>1. task[t] = Idle /\ Unworked(a) /\ row[a].status \notin {"none", "gone"} /\ Doing(t, a)
  BY DEF RemoveApp, Admit, Exists, Doing
<1>2. PICK n \in Works : task' = [task EXCEPT ![t] = n] /\ n.app = a /\ n.pc = "remove"
  <2>1. Work(a, "remove") \in Works /\ Work(a, "remove").app = a /\ Work(a, "remove").pc = "remove"
    BY WorkTyped DEF Pcs
  <2>2. task' = [task EXCEPT ![t] = Work(a, "remove")]
    BY DEF RemoveApp, Enter
  <2> QED  BY <2>1, <2>2
<1>3. /\ row' \in [Apps -> Rows] /\ \A b \in Apps \ {a} : row'[b] = row[b]
      /\ row'[a].status = "removing" /\ row'[a].deployed = row[a].deployed /\ row'[a].born = row[a].born
  BY <1>1, Begun, StatusSet DEF RemoveApp, Statuses
<1>4. UNCHANGED <<tree, image, container, maps, providers, chosen, grants, accepted, agreed, unseen, revoked, cut, strayed>>
  BY DEF RemoveApp, diskVars, ghostVars
<1>5. Here(t, a) /\ task'[t] = n
  BY <1>1, <1>2, <1>3, <1>4, Begun DEF Here
<1>6. (Exists(a)' <=> Exists(a)) /\ (row'[a].status = "none" <=> row[a].status = "none")
  BY <1>1, <1>3 DEF Exists
<1>7. Good(a, Idle)
  BY <1>1, Begun
<1>8. StageOk(a, task[t])' /\ DiskOk(a)'
  BY <1>2, <1>3, <1>4, <1>5, <1>7 DEF StageOk, Good, DiskOk
<1>9. ReviewOk(a, task[t])'
  <2>1. \A v : (Reviewed(a, v)' <=> Reviewed(a, v)) /\ (Settled(a, v)' <=> Settled(a, v))
    BY <1>4 DEF Settled, Reviewed
  <2> QED  BY <1>2, <1>3, <1>4, <1>5, <1>7, <2>1, IdleIs DEF Good, ReviewOk, AllReviewed
<1>10. DeployOk(a, task[t])'
  BY <1>2, <1>3, <1>4, <1>5, <1>7, IdleIs DEF Good, DeployOk, Parses
<1>11. strayed \subseteq strayed' /\ strayed' \subseteq Apps /\ Event
  BY <1>1, <1>4, Begun DEF TableTypes, RemoveApp
<1> QED  BY <1>1, <1>2, <1>3, <1>4, <1>5, <1>6, <1>8, <1>9, <1>10, <1>11, QuietStep

LEMMA RecoverKeeps ==
    ASSUME AppsInv, NEW t \in Tasks, NEW a \in Apps, Recover(t, a) PROVE AppsInv'
<1>1. /\ task[t] = Idle /\ Unworked(a) /\ row[a].status \in {"building", "starting", "running"} /\ Doing(t, a)
      /\ events' = events \/ Event
  BY DEF Recover, Doing, Launching, Ok
<1>2. Good(a, Idle) /\ row[a].deployed \in Number
  BY <1>1, Begun DEF Rows
<1>3. PICK n \in Works :
        /\ task' = [task EXCEPT ![t] = n] /\ n.app = a
        /\ \/ NeedsBuild(a) /\ n.pc = "start"
           \/ ~NeedsBuild(a) /\ n.pc = "run" /\ n.was = row[a].deployed
  <2>1. CASE NeedsBuild(a)
    BY <2>1, WorkTyped DEF Recover, Enter, Pcs
  <2>2. CASE ~NeedsBuild(a)
    <3>1. PICK w \in Works : w = Work(a, "run") /\ w.app = a /\ w.pc = "run"
      BY WorkTyped DEF Pcs
    <3>2. PICK n : n = [w EXCEPT !.was = row[a].deployed]
      OBVIOUS
    <3>3. n \in Works /\ n.app = a /\ n.pc = "run" /\ n.was = row[a].deployed
      BY <1>2, <3>1, <3>2 DEF Works
    <3>4. task' = [task EXCEPT ![t] = n]
      BY <2>2, <3>1, <3>2 DEF Recover, Enter
    <3> QED  BY <2>2, <3>3, <3>4
  <2> QED  BY <2>1, <2>2
<1>4. /\ row' \in [Apps -> Rows] /\ \A b \in Apps \ {a} : row'[b] = row[b]
      /\ row'[a].status = "starting" /\ row'[a].deployed = row[a].deployed /\ row'[a].born = row[a].born
  BY <1>1, Begun, StatusSet DEF Recover, Statuses
<1>5. /\ UNCHANGED <<tree, image, maps, providers, chosen, grants, accepted, agreed, unseen, revoked, cut, strayed>>
      /\ container' = [container EXCEPT ![a] = Nowhere]
  BY DEF Recover, ghostVars
<1>6. Here(t, a) /\ task'[t] = n /\ container'[a] = Nowhere
  <2>1. Nowhere \in Runs
    BY DEF Nowhere, Runs, Number
  <2> QED  BY <1>1, <1>3, <1>4, <1>5, <2>1, Begun DEF Here
<1>7. (Exists(a)' <=> Exists(a)) /\ (row'[a].status = "none" <=> row[a].status = "none")
  BY <1>1, <1>4 DEF Exists
<1>8. row[a].deployed \in Versions(a)
  BY <1>1, <1>2 DEF Good, RowOk, Exists
<1>9. StageOk(a, task[t])' /\ DiskOk(a)'
  <2>1. StageOk(a, task[t])'
    BY <1>3, <1>4, <1>5, <1>6, <1>8 DEF StageOk
  <2> QED  BY <1>2, <1>5, <2>1 DEF Good, DiskOk
<1>10. ReviewOk(a, task[t])'
  <2>1. \A v : (Reviewed(a, v)' <=> Reviewed(a, v)) /\ (Settled(a, v)' <=> Settled(a, v))
    BY <1>5 DEF Settled, Reviewed
  <2>2. Reviewed(a, 0)
    BY DEF Reviewed
  <2>3. AllReviewed(a) => AllReviewed(a)'
    BY <1>5, <1>6, <2>1, <2>2 DEF AllReviewed, Nowhere
  <2> QED  BY <1>2, <1>3, <1>4, <1>5, <1>6, <2>1, <2>3, IdleIs DEF Good, ReviewOk
<1>11. DeployOk(a, task[t])'
  <2> SUFFICES ASSUME a \notin cut \cup strayed PROVE DeployOk(a, task[t])'
    BY <1>5 DEF DeployOk
  <2>1. Parses(a)' <=> Parses(a)
    BY <1>5 DEF Parses
  <2>2. Parses(a) => tree[a] = row[a].deployed
    BY <1>1, <1>2, IdleIs DEF Good, DeployOk
  <2>3. ~NeedsBuild(a) => image[a] \in {0, row[a].deployed}
    BY <1>1, <1>2, IdleIs DEF Good, DeployOk, NeedsBuild
  <2> QED  BY <1>3, <1>4, <1>5, <1>6, <2>1, <2>2, <2>3 DEF DeployOk
<1>12. strayed \subseteq strayed' /\ strayed' \subseteq Apps
  BY <1>1, <1>5, Begun DEF TableTypes
<1> QED  BY <1>1, <1>3, <1>4, <1>5, <1>6, <1>7, <1>9, <1>10, <1>11, <1>12, QuietStep

\* Fetching, and what comes of a fetch that fails.
LEMMA PullKeeps == ASSUME AppsInv, NEW t \in Tasks, Pull(t) PROVE AppsInv'
<1>1. PICK a \in Apps : a = task[t].app /\ Doing(t, a) /\ task[t].pc = "pull"
  BY AtStage DEF Pull
<1>2. PICK n \in Works :
        /\ task' = [task EXCEPT ![t] = n] /\ n.pc = "gate" /\ n.app = task[t].app /\ n.was = task[t].was
        /\ n.sha = task[t].sha
  BY <1>1, Begun, GotoIs DEF Pull, Pcs
<1>3. PICK v \in Versions(a) : tree' = [tree EXCEPT ![a] = v]
  BY <1>1 DEF Pull, Upstream
<1>4. UNCHANGED <<row, image, container, maps, providers, chosen, grants, accepted, agreed, unseen, revoked, cut, strayed, events>>
  BY DEF Pull, tableVars, ghostVars
<1>5. Here(t, a) /\ task'[t] = n /\ tree'[a] = v
  <2>1. v \in Number
    BY DeclaredIs
  <2> QED  BY <1>1, <1>2, <1>3, <1>4, <2>1, Begun DEF Here
<1>6. Good(a, task[t])
  BY <1>1, Begun
<1>7. StageOk(a, task[t])' /\ DiskOk(a)'
  BY <1>1, <1>2, <1>4, <1>5, <1>6 DEF StageOk, Good, DiskOk
<1>8. ReviewOk(a, task[t])'
  <2>1. \A u : (Reviewed(a, u)' <=> Reviewed(a, u)) /\ (Settled(a, u)' <=> Settled(a, u))
    BY <1>4 DEF Settled, Reviewed
  <2> QED  BY <1>1, <1>2, <1>4, <1>5, <1>6, <2>1 DEF Good, ReviewOk, AllReviewed
<1>9. DeployOk(a, task[t])'
  BY <1>1, <1>2, <1>4, <1>5, <1>6 DEF Good, DeployOk
<1>10. strayed \subseteq strayed' /\ strayed' \subseteq Apps /\ (Exists(a)' <=> Exists(a))
  BY <1>1, <1>4, Begun DEF TableTypes, Exists
<1> QED  BY <1>1, <1>2, <1>4, <1>5, <1>7, <1>8, <1>9, <1>10, QuietStep

LEMMA PullFailsKeeps == ASSUME AppsInv, NEW t \in Tasks, PullFails(t) PROVE AppsInv'
<1>1. PICK a \in Apps : a = task[t].app /\ Doing(t, a) /\ task[t].pc = "pull"
  BY AtStage DEF PullFails
<1>2. Good(a, task[t]) /\ row[a].status \in {"running", "error"}
  BY <1>1, Begun DEF Good, StageOk
<1>3. /\ row' \in [Apps -> Rows] /\ \A b \in Apps \ {a} : row'[b] = row[b]
      /\ row'[a].status = "error" /\ row'[a].deployed = row[a].deployed /\ row'[a].born = row[a].born
  BY <1>1, Begun, StatusSet DEF PullFails, Statuses
<1>4. /\ UNCHANGED <<tree, image, container, maps, providers, chosen, grants, accepted, agreed, unseen, revoked, cut, strayed>>
      /\ task' = [task EXCEPT ![t] = Idle] /\ Event
  BY DEF PullFails, Leave, Fault, diskVars, ghostVars
<1>5. Here(t, a) /\ task'[t] = Idle
  BY <1>1, <1>3, <1>4, Begun, IdleIs DEF Here
<1>6. StageOk(a, task[t])' /\ DiskOk(a)'
  BY <1>2, <1>4, <1>5, IdleIs DEF StageOk, Good, DiskOk
<1>7. ReviewOk(a, task[t])'
  <2>1. \A u : (Reviewed(a, u)' <=> Reviewed(a, u)) /\ (Settled(a, u)' <=> Settled(a, u))
    BY <1>4 DEF Settled, Reviewed
  <2> QED  BY <1>1, <1>2, <1>3, <1>4, <1>5, <2>1, IdleIs DEF Good, ReviewOk, AllReviewed
<1>8. DeployOk(a, task[t])'
  BY <1>1, <1>2, <1>3, <1>4, <1>5, IdleIs DEF Good, DeployOk
<1>9. strayed \subseteq strayed' /\ strayed' \subseteq Apps /\ (Exists(a)' <=> Exists(a))
  BY <1>1, <1>2, <1>3, <1>4, Begun DEF TableTypes, Exists
<1> QED  BY <1>1, <1>2, <1>3, <1>4, <1>5, <1>6, <1>7, <1>8, <1>9, QuietStep

LEMMA SubmodulesFailKeeps == ASSUME AppsInv, NEW t \in Tasks, SubmodulesFail(t) PROVE AppsInv'
<1>1. PICK a \in Apps : a = task[t].app /\ Doing(t, a) /\ task[t].pc = "pull"
  BY AtStage DEF SubmodulesFail
<1>2. Good(a, task[t]) /\ row[a].status \in {"running", "error"}
  BY <1>1, Begun DEF Good, StageOk
<1>3. /\ row' \in [Apps -> Rows] /\ \A b \in Apps \ {a} : row'[b] = row[b]
      /\ row'[a].status = "error" /\ row'[a].deployed = row[a].deployed /\ row'[a].born = row[a].born
  BY <1>1, Begun, StatusSet DEF SubmodulesFail, Statuses
<1>4. PICK v \in Versions(a) : tree' = [tree EXCEPT ![a] = v]
  BY <1>1 DEF SubmodulesFail, Upstream
<1>5. /\ UNCHANGED <<image, container, maps, providers, chosen, grants, accepted, agreed, unseen, revoked, cut>>
      /\ task' = [task EXCEPT ![t] = Idle] /\ Event /\ strayed' = strayed \cup {a}
  BY <1>1 DEF SubmodulesFail, Leave, Fault
<1>6. Here(t, a) /\ task'[t] = Idle /\ tree'[a] = v
  <2>1. v \in Number
    BY DeclaredIs
  <2> QED  BY <1>1, <1>3, <1>4, <1>5, <2>1, Begun, IdleIs DEF Here
<1>7. StageOk(a, task[t])' /\ DiskOk(a)'
  BY <1>2, <1>5, <1>6, IdleIs DEF StageOk, Good, DiskOk
<1>8. ReviewOk(a, task[t])' /\ DeployOk(a, task[t])'
  BY <1>5 DEF ReviewOk, DeployOk
<1>9. strayed \subseteq strayed' /\ strayed' \subseteq Apps /\ (Exists(a)' <=> Exists(a))
  BY <1>1, <1>2, <1>3, <1>5, Begun DEF TableTypes, Exists
<1> QED  BY <1>1, <1>2, <1>3, <1>5, <1>6, <1>7, <1>8, <1>9, QuietStep

LEMMA RollbackKeeps == ASSUME AppsInv, NEW t \in Tasks, Rollback(t) PROVE AppsInv'
<1>1. PICK a \in Apps : a = task[t].app /\ Doing(t, a) /\ task[t].pc = "rollback"
  BY AtStage DEF Rollback
<1>2. Good(a, task[t])
  BY <1>1, Begun
<1>3. PICK v : v = task[t].sha
  OBVIOUS
<1>4. v \in Versions(a)
  BY <1>1, <1>2, <1>3 DEF Good, StageOk
<1>5. /\ tree' = [tree EXCEPT ![a] = v] /\ task' = [task EXCEPT ![t] = Idle]
      /\ UNCHANGED <<row, image, container, maps, providers, chosen, grants, accepted, agreed, unseen, revoked, cut, strayed, events>>
  BY <1>1, <1>3 DEF Rollback, BackTo, Leave, tableVars, ghostVars
<1>6. Here(t, a) /\ task'[t] = Idle /\ tree'[a] = v
  <2>1. v \in Number
    BY <1>4, DeclaredIs
  <2> QED  BY <1>1, <1>5, <2>1, Begun, IdleIs DEF Here
<1>7. StageOk(a, task[t])' /\ DiskOk(a)'
  BY <1>2, <1>4, <1>5, <1>6, IdleIs DEF StageOk, Good, DiskOk
<1>8. ReviewOk(a, task[t])'
  <2>1. \A u : (Reviewed(a, u)' <=> Reviewed(a, u)) /\ (Settled(a, u)' <=> Settled(a, u))
    BY <1>5 DEF Settled, Reviewed
  <2> QED  BY <1>1, <1>2, <1>3, <1>5, <1>6, <2>1, IdleIs DEF Good, ReviewOk, AllReviewed
<1>9. DeployOk(a, task[t])'
  BY <1>1, <1>2, <1>3, <1>5, <1>6, IdleIs DEF Good, StageOk, DeployOk, Parses
<1>10. strayed \subseteq strayed' /\ strayed' \subseteq Apps /\ (Exists(a)' <=> Exists(a))
  BY <1>1, <1>5, Begun DEF TableTypes, Exists
<1> QED  BY <1>1, <1>5, <1>6, <1>7, <1>8, <1>9, <1>10, QuietStep

LEMMA RollbackFailsKeeps == ASSUME AppsInv, NEW t \in Tasks, RollbackFails(t) PROVE AppsInv'
<1>1. PICK a \in Apps : a = task[t].app /\ Doing(t, a) /\ task[t].pc = "rollback"
  BY AtStage DEF RollbackFails
<1>2. Good(a, task[t])
  BY <1>1, Begun
<1>3. /\ UNCHANGED <<tree, row, image, container, maps, providers, chosen, grants, accepted, agreed, unseen, revoked, cut>>
      /\ task' = [task EXCEPT ![t] = Idle] /\ Event /\ strayed' = strayed \cup {a}
  BY <1>1 DEF RollbackFails, Leave, Fault, diskVars, tableVars
<1>4. Here(t, a) /\ task'[t] = Idle
  BY <1>1, <1>3, Begun, IdleIs DEF Here
<1>5. StageOk(a, task[t])' /\ DiskOk(a)'
  BY <1>2, <1>3, <1>4, IdleIs DEF StageOk, Good, DiskOk
<1>6. ReviewOk(a, task[t])' /\ DeployOk(a, task[t])'
  BY <1>3 DEF ReviewOk, DeployOk
<1>7. strayed \subseteq strayed' /\ strayed' \subseteq Apps /\ (Exists(a)' <=> Exists(a))
  BY <1>1, <1>2, <1>3, Begun DEF TableTypes, Exists
<1> QED  BY <1>1, <1>2, <1>3, <1>4, <1>5, <1>6, <1>7, QuietStep

\* Launching.
LEMMA BuildKeeps == ASSUME AppsInv, NEW t \in Tasks, Build(t) PROVE AppsInv'
<1>1. PICK a \in Apps : a = task[t].app /\ Doing(t, a) /\ task[t].pc = "build"
  BY AtStage DEF Build
<1>2. PICK n \in Works :
        /\ task' = [task EXCEPT ![t] = n] /\ n.pc = "run" /\ n.app = task[t].app /\ n.was = task[t].was
        /\ n.sha = task[t].sha
  BY <1>1, Begun, GotoIs DEF Build, Pcs
<1>3. /\ image' = [image EXCEPT ![a] = tree[a]]
      /\ UNCHANGED <<row, tree, container, maps, providers, chosen, grants, accepted, agreed, unseen, revoked, cut, strayed, events>>
  BY <1>1 DEF Build, Built, tableVars, ghostVars
<1>4. Here(t, a) /\ task'[t] = n /\ image'[a] = tree[a]
  BY <1>1, <1>2, <1>3, Begun DEF Here
<1>5. Good(a, task[t])
  BY <1>1, Begun
<1>6. StageOk(a, task[t])' /\ DiskOk(a)'
  BY <1>1, <1>2, <1>3, <1>4, <1>5 DEF StageOk, Good, DiskOk
<1>7. tree[a] = task[t].was /\ tree[a] \in Versions(a) /\ Declared[a][tree[a]].parses
  BY <1>1, <1>5 DEF Good, StageOk
<1>8. tree[a] # 0
  BY <1>7, DeclaredIs
<1>9. ReviewOk(a, task[t])'
  <2>1. \A u : (Reviewed(a, u)' <=> Reviewed(a, u)) /\ (Settled(a, u)' <=> Settled(a, u))
    BY <1>3 DEF Settled, Reviewed
  <2>2. Settled(a, tree[a]) => Reviewed(a, tree[a])
    BY <1>7 DEF Settled, Reviewed
  <2> QED  BY <1>1, <1>2, <1>3, <1>4, <1>5, <1>7, <2>1, <2>2 DEF Good, ReviewOk, AllReviewed
<1>10. DeployOk(a, task[t])'
  <2>1. Parses(a) /\ (Parses(a)' <=> Parses(a))
    BY <1>3, <1>7, <1>8 DEF Parses
  <2>2. row[a].status \in {"building", "starting"}
    BY <1>1, <1>5 DEF Good, StageOk
  <2> QED  BY <1>1, <1>2, <1>3, <1>4, <1>5, <1>7, <2>1, <2>2 DEF Good, DeployOk
<1>11. strayed \subseteq strayed' /\ strayed' \subseteq Apps /\ (Exists(a)' <=> Exists(a))
  BY <1>1, <1>3, Begun DEF TableTypes, Exists
<1> QED  BY <1>1, <1>2, <1>3, <1>4, <1>6, <1>9, <1>10, <1>11, QuietStep

LEMMA LaunchKeeps == ASSUME AppsInv, NEW t \in Tasks, Launch(t) PROVE AppsInv'
<1>1. PICK a \in Apps : a = task[t].app /\ Doing(t, a) /\ task[t].pc = "launch"
  BY AtStage DEF Launch
<1>2. PICK c : c = [code |-> image[a], manifest |-> task[t].was]
  OBVIOUS
<1>3. Good(a, task[t]) /\ row[a].status = "starting" /\ image[a] # 0
  BY <1>1, Begun DEF Good, StageOk, Launch
<1>4. c \in Runs /\ c.code = image[a] /\ c.manifest = task[t].was
  BY <1>1, <1>2, Begun DEF Works, Runs
<1>5. /\ row' \in [Apps -> Rows] /\ \A b \in Apps \ {a} : row'[b] = row[b]
      /\ row'[a].status = "running" /\ row'[a].deployed = row[a].deployed /\ row'[a].born = row[a].born
  BY <1>1, Begun, StatusSet DEF Launch, Statuses
<1>6. /\ container' = [container EXCEPT ![a] = c] /\ task' = [task EXCEPT ![t] = Idle]
      /\ UNCHANGED <<tree, image, maps, providers, chosen, grants, accepted, agreed, unseen, revoked, cut, strayed, events>>
  BY <1>1, <1>2 DEF Launch, Started, Leave, ghostVars
<1>7. Here(t, a) /\ task'[t] = Idle /\ container'[a] = c
  BY <1>1, <1>4, <1>5, <1>6, Begun, IdleIs DEF Here
<1>8. StageOk(a, task[t])' /\ DiskOk(a)'
  BY <1>3, <1>6, <1>7, IdleIs DEF StageOk, Good, DiskOk
<1>9. ReviewOk(a, task[t])'
  <2>1. \A u : (Reviewed(a, u)' <=> Reviewed(a, u)) /\ (Settled(a, u)' <=> Settled(a, u))
    BY <1>6 DEF Settled, Reviewed
  <2> QED  BY <1>1, <1>3, <1>4, <1>5, <1>6, <1>7, <2>1, IdleIs DEF Good, ReviewOk, AllReviewed
<1>10. DeployOk(a, task[t])'
  BY <1>1, <1>2, <1>3, <1>4, <1>5, <1>6, <1>7, IdleIs DEF Good, DeployOk, Parses
<1>11. /\ strayed \subseteq strayed' /\ strayed' \subseteq Apps /\ (Exists(a)' <=> Exists(a))
       /\ row'[a].status = "none" <=> row[a].status = "none"
  BY <1>1, <1>3, <1>5, <1>6, Begun DEF TableTypes, Exists
<1> QED  BY <1>1, <1>5, <1>6, <1>7, <1>8, <1>9, <1>10, <1>11, QuietStep

LEMMA StartKeeps == ASSUME AppsInv, NEW t \in Tasks, Start(t) PROVE AppsInv'
<1>1. PICK a \in Apps : a = task[t].app /\ Doing(t, a) /\ task[t].pc = "start"
  BY AtStage DEF Start
<1>2. Good(a, task[t]) /\ row[a].status \in {"building", "starting"} /\ Parses(a)
  BY <1>1, Begun DEF Good, StageOk, Start
<1>3. tree[a] \in Number /\ tree[a] # 0 /\ tree[a] \in Versions(a) /\ Declared[a][tree[a]].parses
  BY <1>1, <1>2, Begun DEF Good, DiskOk, Parses
<1>4. PICK n \in Works : task' = [task EXCEPT ![t] = n] /\ n.pc = "build" /\ n.app = a /\ n.was = tree[a]
  <2>1. PICK w \in Works : w = task[t]
    BY <1>1, Begun
  <2>2. PICK n : n = [w EXCEPT !.pc = "build", !.was = tree[a]]
    OBVIOUS
  <2>3. n \in Works /\ n.pc = "build" /\ n.app = w.app /\ n.was = tree[a]
    BY <1>3, <2>2 DEF Works, Pcs
  <2>4. task' = [task EXCEPT ![t] = n]
    BY <1>1, <2>1, <2>2, Begun DEF Start
  <2> QED  BY <1>1, <2>1, <2>3, <2>4
<1>5. /\ row' \in [Apps -> Rows] /\ \A b \in Apps \ {a} : row'[b] = row[b]
      /\ row'[a].status = "starting" /\ row'[a].deployed = row[a].deployed /\ row'[a].born = row[a].born
  BY <1>1, Begun, StatusSet DEF Start, Statuses
<1>6. UNCHANGED <<tree, image, container, maps, providers, chosen, grants, accepted, agreed, unseen, revoked, cut, strayed, events>>
  BY DEF Start, diskVars, ghostVars
<1>7. Here(t, a) /\ task'[t] = n
  BY <1>1, <1>4, <1>5, <1>6, Begun DEF Here
<1>8. StageOk(a, task[t])' /\ DiskOk(a)'
  BY <1>2, <1>3, <1>4, <1>5, <1>6, <1>7 DEF StageOk, Good, DiskOk
<1>9. ReviewOk(a, task[t])'
  <2>1. \A u : (Reviewed(a, u)' <=> Reviewed(a, u)) /\ (Settled(a, u)' <=> Settled(a, u))
    BY <1>6 DEF Settled, Reviewed
  <2> QED  BY <1>1, <1>2, <1>4, <1>5, <1>6, <1>7, <2>1 DEF Good, ReviewOk, AllReviewed
<1>10. DeployOk(a, task[t])'
  BY <1>1, <1>2, <1>3, <1>4, <1>5, <1>6, <1>7 DEF Good, DeployOk, Parses
<1>11. /\ strayed \subseteq strayed' /\ strayed' \subseteq Apps /\ (Exists(a)' <=> Exists(a))
       /\ row'[a].status = "none" <=> row[a].status = "none"
  BY <1>1, <1>2, <1>5, <1>6, Begun DEF TableTypes, Exists
<1> QED  BY <1>1, <1>4, <1>5, <1>6, <1>7, <1>8, <1>9, <1>10, <1>11, QuietStep

LEMMA ClaimKeeps == ASSUME AppsInv, NEW t \in Tasks, Claim(t) PROVE AppsInv'
<1>1. PICK a \in Apps : a = task[t].app /\ Doing(t, a) /\ task[t].pc = "claim"
  BY AtStage DEF Claim
<1>2. Good(a, task[t]) /\ row[a].status \in {"running", "error"}
  BY <1>1, Begun DEF Good, StageOk
<1>3. SetStatus(a, "building") /\ container' = [container EXCEPT ![a] = Nowhere] /\ Goto(t, "sync")
  BY <1>1, <1>2 DEF Claim, Busy, Launching
<1>4. PICK n \in Works :
        /\ task' = [task EXCEPT ![t] = n] /\ n.pc = "sync" /\ n.app = task[t].app /\ n.was = task[t].was
        /\ n.sha = task[t].sha
  BY <1>1, <1>3, Begun, GotoIs DEF Pcs
<1>5. /\ row' \in [Apps -> Rows] /\ \A b \in Apps \ {a} : row'[b] = row[b]
      /\ row'[a].status = "building" /\ row'[a].deployed = row[a].deployed /\ row'[a].born = row[a].born
  BY <1>1, <1>3, Begun, StatusSet DEF Statuses
<1>6. UNCHANGED <<tree, image, maps, providers, chosen, grants, accepted, agreed, unseen, revoked, cut, strayed, events>>
  BY DEF Claim, ghostVars
<1>7. Here(t, a) /\ task'[t] = n /\ container'[a] = Nowhere
  <2>1. Nowhere \in Runs
    BY DEF Nowhere, Runs, Number
  <2> QED  BY <1>1, <1>3, <1>4, <1>5, <1>6, <2>1, Begun DEF Here
<1>8. StageOk(a, task[t])' /\ DiskOk(a)'
  BY <1>2, <1>4, <1>5, <1>6, <1>7 DEF StageOk, Good, DiskOk
<1>9. ReviewOk(a, task[t])'
  <2>1. \A u : (Reviewed(a, u)' <=> Reviewed(a, u)) /\ (Settled(a, u)' <=> Settled(a, u))
    BY <1>6 DEF Settled, Reviewed
  <2>2. Reviewed(a, 0)
    BY DEF Reviewed
  <2>3. AllReviewed(a) => AllReviewed(a)'
    BY <1>6, <1>7, <2>1, <2>2 DEF AllReviewed, Nowhere
  <2> QED  BY <1>1, <1>2, <1>4, <1>5, <1>6, <1>7, <2>1, <2>3 DEF Good, ReviewOk
<1>10. DeployOk(a, task[t])'
  BY <1>1, <1>2, <1>4, <1>5, <1>6, <1>7 DEF Good, DeployOk, Parses
<1>11. /\ strayed \subseteq strayed' /\ strayed' \subseteq Apps /\ (Exists(a)' <=> Exists(a))
       /\ row'[a].status = "none" <=> row[a].status = "none"
  BY <1>1, <1>2, <1>5, <1>6, Begun DEF TableTypes, Exists
<1> QED  BY <1>1, <1>4, <1>5, <1>6, <1>7, <1>8, <1>9, <1>10, <1>11, QuietStep

\* Installing.
LEMMA AddAppKeeps == ASSUME AppsInv, NEW t \in Tasks, AddApp(t) PROVE AppsInv'
<1>1. PICK a \in Apps : a = task[t].app /\ Doing(t, a) /\ task[t].pc = "review"
  BY AtStage DEF AddApp
<1>2. PICK shown \in Number : shown = task[t].was
  BY <1>1, Begun DEF Works
<1>3. PICK v, sel : /\ v \in Fetched(t) /\ sel \in Ticked(t, v)
                    /\ tree' = [tree EXCEPT ![a] = v]
                    /\ IF shown # 0 THEN Accept(a, shown)
                       ELSE agreed' = [agreed EXCEPT ![a] = @ \cup sel] /\ UNCHANGED accepted
                    /\ unseen' = IF v = shown THEN unseen ELSE [unseen EXCEPT ![a] = @ \cup {v}]
                    /\ task' = [task EXCEPT ![t] = [Work(a, "ports") EXCEPT !.was = v, !.sha = shown, !.todo = sel]]
  BY <1>1, <1>2 DEF AddApp
<1>4. Good(a, task[t]) /\ Page(a, shown) /\ task[t].sha \in {0, shown} /\ row[a].status = "none"
  BY <1>1, <1>2, Begun DEF Good, StageOk
<1>5. v \in Versions(a) /\ Declared[a][v].parses
  BY <1>1, <1>3, <1>4 DEF Fetched, Cloned, Upstream, Page
<1>6. v \in Number /\ v # 0 /\ Declared[a][v].perms \subseteq Perms
  BY <1>5, DeclaredIs
<1>7. shown # 0 => Declared[a][shown].perms \subseteq Perms
  BY <1>4, DeclaredIs DEF Page
<1>8. sel \subseteq (IF shown # 0 THEN Declared[a][shown].perms ELSE Declared[a][v].perms) /\ sel \subseteq Perms
  BY <1>1, <1>2, <1>3, <1>6, <1>7 DEF Ticked
<1>9. PICK n \in Works : /\ task' = [task EXCEPT ![t] = n] /\ n.pc = "ports" /\ n.app = a /\ n.was = v
                         /\ n.sha = shown /\ n.todo = sel
  <2>1. PICK w \in Works : w = Work(a, "ports") /\ w.app = a /\ w.pc = "ports"
    BY WorkTyped DEF Pcs
  <2>2. PICK n : n = [w EXCEPT !.was = v, !.sha = shown, !.todo = sel]
    OBVIOUS
  <2>3. n \in Works /\ n.app = a /\ n.pc = "ports" /\ n.was = v /\ n.sha = shown /\ n.todo = sel
    BY <1>6, <1>8, <2>1, <2>2 DEF Works
  <2> QED  BY <1>3, <2>1, <2>2, <2>3
<1>10. UNCHANGED <<image, container, row, maps, providers, chosen, grants, revoked, strayed, cut, events>>
  BY DEF AddApp, tableVars
<1>11. Here(t, a) /\ task'[t] = n /\ tree'[a] = v
  BY <1>1, <1>3, <1>6, <1>9, <1>10, Begun DEF Here
<1>12. accepted \in [Apps -> SUBSET Number] /\ agreed \in [Apps -> SUBSET Perms] /\ unseen \in [Apps -> SUBSET Number]
  BY <1>1, Begun DEF TableTypes
<1>13. /\ accepted' \in [Apps -> SUBSET Number] /\ agreed' \in [Apps -> SUBSET Perms]
       /\ \A b \in Apps : accepted[b] \subseteq accepted'[b] /\ agreed[b] \subseteq agreed'[b]
       /\ sel \subseteq agreed'[a]
       /\ shown # 0 => shown \in accepted'[a] /\ Declared[a][shown].perms \subseteq agreed'[a]
  <2>1. CASE shown # 0
    BY <1>3, <1>7, <1>8, <1>12, <2>1 DEF Accept
  <2>2. CASE shown = 0
    BY <1>3, <1>8, <1>12, <2>2
  <2> QED  BY <2>1, <2>2
<1>14. /\ unseen' \in [Apps -> SUBSET Number] /\ \A b \in Apps : unseen[b] \subseteq unseen'[b]
       /\ v # shown => v \in unseen'[a]
  BY <1>3, <1>6, <1>12
<1>15. TableTypes' /\ Rest(a)
  BY <1>1, <1>10, <1>13, <1>14, Begun DEF TableTypes, Rest, Histories
<1>16. RowOk(a)'
  BY <1>4, <1>10, <1>13 DEF Good, RowOk, Exists
<1>17. Reviewed(a, v)'
  <2>1. CASE v = shown
    BY <1>6, <1>13, <2>1, SameSettings DEF Reviewed
  <2>2. CASE v # shown
    BY <1>14, <2>2, SameSettings DEF Reviewed
  <2> QED  BY <2>1, <2>2
<1>18. StageOk(a, task[t])' /\ DiskOk(a)'
  BY <1>4, <1>5, <1>9, <1>10, <1>11, <1>13, <1>17 DEF Good, StageOk, DiskOk, Page
<1>19. ReviewOk(a, task[t])'
  <2>1. \A u : Reviewed(a, u) => Reviewed(a, u)'
    BY <1>13, <1>14, ReviewedOn
  <2> QED  BY <1>1, <1>4, <1>9, <1>10, <1>11, <1>17, <2>1 DEF Good, ReviewOk, AllReviewed, Settled
<1>20. DeployOk(a, task[t])'
  BY <1>4, <1>9, <1>10, <1>11 DEF DeployOk
<1>21. Good(a, task[t])'
  BY <1>16, <1>18, <1>19, <1>20 DEF Good
<1> QED  BY <1>1, <1>9, <1>11, <1>15, <1>21, LocalStep

LEMMA LeastExists ==
    ASSUME NEW S \in SUBSET Nat, S # {}
    PROVE  \E x \in S : \A y \in S : x <= y
<1>1. \E x \in S : \A y \in S : <<y, x>> \notin OpToRel(<, Nat)
  BY NatLessThanWellFounded, WFMin
<1>2. \A x, y \in S : <<y, x>> \notin OpToRel(<, Nat) => x <= y
  BY DEF OpToRel
<1> QED  BY <1>1, <1>2

LEMMA LeastIs == ASSUME NEW S \in SUBSET Nat, S # {} PROVE Least(S) \in S
  BY LeastExists DEF Least

LEMMA ChoosePortsKeeps == ASSUME AppsInv, NEW t \in Tasks, ChoosePorts(t) PROVE AppsInv'
<1>1. PICK a \in Apps : a = task[t].app /\ Doing(t, a) /\ task[t].pc = "ports"
  BY AtStage DEF ChoosePorts
<1>2. PICK w \in Works : w = task[t]
  BY <1>1, Begun
<1>3. Good(a, w) /\ w.was \in Versions(a)
  BY <1>1, <1>2, Begun DEF Good, StageOk
<1>4. PICK f \in Plans(a, Declared[a][w.was]) :
        task' = [task EXCEPT ![t].pc = "insert", ![t].port = Least(FreeLocal), ![t].plan = Mappings(a, f)]
  BY <1>1, <1>2 DEF ChoosePorts
<1>5. f \in [DOMAIN Declared[a][w.was].ports -> Ports] /\ DOMAIN Declared[a][w.was].ports \subseteq Labels
  BY <1>3, <1>4, DeclaredIs DEF Plans
<1>6. Mappings(a, f) \subseteq Mapping /\ \A r, q \in Mappings(a, f) : r.app = a /\ (r.label = q.label => r.port = q.port)
  BY <1>5 DEF Mappings, Mapping
<1>7. Least(FreeLocal) \in Nat
  <2>1. FreeLocal # {} /\ FreeLocal \subseteq Nat
    BY InstallAssumption DEF ChoosePorts, FreeLocal
  <2> QED  BY <2>1, LeastIs
<1>8. PICK n : n = [w EXCEPT !.pc = "insert", !.port = Least(FreeLocal), !.plan = Mappings(a, f)]
  OBVIOUS
<1>9. n \in Works /\ n.pc = "insert" /\ n.app = w.app /\ n.was = w.was /\ n.sha = w.sha /\ n.todo = w.todo /\ n.plan = Mappings(a, f)
  BY <1>6, <1>7, <1>8 DEF Works, Pcs
<1>10. task' = [task EXCEPT ![t] = n]
  BY <1>1, <1>2, <1>4, <1>8, Begun
<1>11. StageOk(a, n) /\ ReviewOk(a, n) /\ DeployOk(a, n)
  <2>1. StageOk(a, n)
    BY <1>1, <1>2, <1>3, <1>6, <1>9 DEF Good, StageOk
  <2> QED  BY <1>1, <1>2, <1>3, <1>9, <2>1 DEF Good, StageOk, ReviewOk, DeployOk
<1> QED  BY <1>1, <1>2, <1>9, <1>10, <1>11, TaskStep DEF ChoosePorts

LEMMA RegisteredIs ==
    ASSUME TableTypes, NEW a \in Apps, NEW v \in Versions(a)
    PROVE  LET P == Registered(a, Declared[a][v]) IN
           /\ P \subseteq Services \X Apps
           /\ \A b \in Apps \ {a} : \A s \in Services : <<s, b>> \in P <=> <<s, b>> \in providers
           /\ \A s \in Services : <<s, a>> \in P <=> s \in Declared[a][v].provides
<1>1. Declared[a][v].provides \subseteq Services
  BY DeclaredIs
<1> QED  BY <1>1 DEF Registered, TableTypes

LEMMA InsertRowKeeps == ASSUME AppsInv, NEW t \in Tasks, InsertRow(t) PROVE AppsInv'
<1>1. PICK a \in Apps : a = task[t].app /\ Doing(t, a) /\ task[t].pc = "insert"
  BY AtStage DEF InsertRow
<1>2. PICK w \in Works : w = task[t]
  BY <1>1, Begun
<1>3. PICK n \in Works :
        /\ task' = [task EXCEPT ![t] = n] /\ n.pc = "grant" /\ n.app = a /\ n.was = w.was /\ n.sha = w.sha
        /\ n.todo = w.todo
  BY <1>1, <1>2, Begun, GotoIs DEF InsertRow, Pcs
<1>4. /\ Good(a, w) /\ w.was \in Versions(a) /\ row[a].status = "none" /\ tree[a] = w.was
      /\ Reviewed(a, w.was)
  BY <1>1, <1>2, Begun DEF Good, StageOk
<1>5. PICK k \in Nat \ {0} : k = 1 + Cardinality({b \in Apps : row[b].born > 0})
  <2>1. IsFiniteSet({b \in Apps : row[b].born > 0})
    BY FS_Subset, InstallAssumption
  <2>2. PICK c : c = Cardinality({b \in Apps : row[b].born > 0})
    OBVIOUS
  <2>3. c \in Nat
    BY <2>1, <2>2, FS_CardinalityType
  <2>4. 1 + c \in Nat \ {0}
    BY <2>3
  <2> QED  BY <2>2, <2>4
<1>6. w.was \in Number /\ w.port \in Nat /\ w.plan \subseteq Mapping
  BY <1>4 DEF Works
<1>7. /\ row' \in [Apps -> Rows] /\ \A b \in Apps \ {a} : row'[b] = row[b]
      /\ row'[a].status = "building" /\ row'[a].deployed = w.was /\ row'[a].born = k
  <2>1. row' = [row EXCEPT ![a] = [[@ EXCEPT !.deployed = w.was] EXCEPT !.status = "building", !.port = w.port, !.born = k]]
    BY <1>1, <1>2, <1>5 DEF InsertRow, ManifestColumns
  <2> QED  BY <1>1, <1>6, <2>1, Begun DEF Rows, Statuses
<1>8. /\ maps' = maps \cup w.plan /\ providers' = Registered(a, Declared[a][w.was])
      /\ UNCHANGED <<tree, image, container, chosen, grants, accepted, agreed, unseen, revoked, strayed, cut, events>>
  BY <1>1, <1>2 DEF InsertRow, diskVars, ghostVars
<1>9. Here(t, a) /\ task'[t] = n
  BY <1>1, <1>3, <1>7, <1>8, Begun DEF Here
<1>10. /\ providers' \subseteq Services \X Apps
       /\ \A b \in Apps \ {a} : \A s \in Services : <<s, b>> \in providers' <=> <<s, b>> \in providers
  BY <1>1, <1>4, <1>8, Begun, RegisteredIs
<1>11. \A r, q \in w.plan : r.app = a /\ (r.label = q.label => r.port = q.port)
  BY <1>1, <1>2, <1>4 DEF Good, StageOk
<1>12. TableTypes' /\ Rest(a)
  BY <1>1, <1>6, <1>8, <1>10, <1>11, Begun DEF TableTypes, Rest, Histories
<1>13. RowOk(a)'
  <2>1. /\ \A r \in maps : r.app # a
        /\ \A p \in Perms : <<a, p>> \notin grants /\ <<a, p>> \notin revoked
    BY <1>4 DEF Good, RowOk, Exists
  <2>2. Exists(a)'
    BY <1>7 DEF Exists
  <2>3. \A r, q \in maps' : r.app = a /\ q.app = a /\ r.label = q.label => r.port = q.port
    BY <1>8, <1>11, <2>1
  <2> QED  BY <1>4, <1>7, <1>8, <2>1, <2>2, <2>3 DEF RowOk
<1>14. \A u : Reviewed(a, u)' <=> Reviewed(a, u)
  BY <1>8 DEF Reviewed
<1>15. StageOk(a, task[t])' /\ DiskOk(a)' /\ ReviewOk(a, task[t])'
  <2>1. StageOk(a, task[t])' /\ DiskOk(a)'
    BY <1>1, <1>2, <1>3, <1>4, <1>7, <1>8, <1>9, <1>14 DEF Good, StageOk, DiskOk, Page
  <2>2. ReviewOk(a, task[t])'
    BY <1>1, <1>2, <1>3, <1>4, <1>7, <1>8, <1>9, <1>14 DEF Good, ReviewOk, AllReviewed, Settled
  <2> QED  BY <2>1, <2>2
<1>16. DeployOk(a, task[t])'
  BY <1>3, <1>4, <1>7, <1>8, <1>9 DEF DeployOk
<1>17. Good(a, task[t])'
  BY <1>13, <1>15, <1>16 DEF Good
<1> QED  BY <1>1, <1>3, <1>9, <1>12, <1>17, LocalStep

LEMMA GrantNextKeeps == ASSUME AppsInv, NEW t \in Tasks, GrantNext(t) PROVE AppsInv'
<1>1. PICK a \in Apps : a = task[t].app /\ Doing(t, a) /\ task[t].pc = "grant"
  BY AtStage DEF GrantNext
<1>2. PICK w \in Works : w = task[t]
  BY <1>1, Begun
<1>3. PICK p \in w.todo :
        /\ grants' = grants \cup {<<a, p>>} /\ task' = [task EXCEPT ![t].todo = @ \ {p}]
        /\ revoked' = revoked \ {<<a, p>>}
  BY <1>1, <1>2 DEF GrantNext
<1>4. /\ Good(a, w) /\ row[a].status = "building" /\ p \in Perms /\ p \in agreed[a]
      /\ w.todo \subseteq agreed[a]
  BY <1>1, <1>2, Begun DEF Good, StageOk, Works
<1>5. PICK n : n = [w EXCEPT !.todo = w.todo \ {p}]
  OBVIOUS
<1>6. n \in Works /\ n.pc = "grant" /\ n.app = a /\ n.was = w.was /\ n.sha = w.sha /\ n.todo \subseteq agreed[a]
  BY <1>1, <1>2, <1>4, <1>5 DEF Works
<1>7. task' = [task EXCEPT ![t] = n]
  BY <1>1, <1>2, <1>3, <1>5, Begun
<1>8. UNCHANGED <<tree, image, container, row, maps, providers, chosen, accepted, agreed, unseen, strayed, cut, events>>
  BY DEF GrantNext, diskVars
<1>9. Here(t, a) /\ task'[t] = n
  BY <1>1, <1>6, <1>7, <1>8, Begun DEF Here
<1>10. TableTypes' /\ Rest(a)
  BY <1>1, <1>3, <1>4, <1>8, Begun DEF TableTypes, Rest, Histories
<1>11. RowOk(a)'
  BY <1>3, <1>4, <1>8 DEF Good, RowOk, Exists
<1>12. \A u : (Reviewed(a, u)' <=> Reviewed(a, u)) /\ (Settled(a, u)' <=> Settled(a, u))
  BY <1>8 DEF Settled, Reviewed
<1>13. StageOk(a, task[t])' /\ DiskOk(a)' /\ ReviewOk(a, task[t])'
  <2>1. StageOk(a, task[t])' /\ DiskOk(a)'
    BY <1>1, <1>2, <1>4, <1>6, <1>8, <1>9, <1>12 DEF Good, StageOk, DiskOk, Page
  <2>2. ReviewOk(a, task[t])'
    BY <1>1, <1>2, <1>4, <1>6, <1>8, <1>9, <1>12 DEF Good, ReviewOk, AllReviewed
  <2> QED  BY <2>1, <2>2
<1>14. DeployOk(a, task[t])'
  BY <1>1, <1>2, <1>4, <1>6, <1>8, <1>9 DEF Good, DeployOk, Parses
<1>15. Good(a, task[t])'
  BY <1>11, <1>13, <1>14 DEF Good
<1> QED  BY <1>1, <1>6, <1>9, <1>10, <1>15, LocalStep

LEMMA RunKeeps == ASSUME AppsInv, NEW t \in Tasks, Run(t) PROVE AppsInv'
<1>1. PICK a \in Apps : a = task[t].app /\ Doing(t, a) /\ task[t].pc = "run"
  BY AtStage DEF Run
<1>2. PICK w \in Works : w = task[t]
  BY <1>1, Begun
<1>3. PICK n \in Works : task' = [task EXCEPT ![t] = n] /\ n.pc = "launch" /\ n.app = a /\ n.was = w.was
  BY <1>1, <1>2, Begun, GotoIs DEF Run, Pcs
<1>4. Good(a, w) /\ w.was \in Versions(a) /\ row[a].status \in {"building", "starting"}
  BY <1>1, <1>2, Begun DEF Good, StageOk
<1>5. /\ row' \in [Apps -> Rows] /\ \A b \in Apps \ {a} : row'[b] = row[b]
      /\ row'[a].status = "starting" /\ row'[a].deployed = row[a].deployed /\ row'[a].born = row[a].born
  BY <1>1, Begun, StatusSet DEF Run, Statuses
<1>6. /\ providers' = Registered(a, Declared[a][w.was])
      /\ UNCHANGED <<tree, image, container, maps, chosen, grants, accepted, agreed, unseen, revoked, strayed, cut, events>>
  BY <1>1, <1>2 DEF Run, diskVars, ghostVars
<1>7. Here(t, a) /\ task'[t] = n
  BY <1>1, <1>3, <1>5, <1>6, Begun DEF Here
<1>8. /\ providers' \subseteq Services \X Apps
      /\ \A b \in Apps \ {a} : \A s \in Services : <<s, b>> \in providers' <=> <<s, b>> \in providers
  BY <1>1, <1>4, <1>6, Begun, RegisteredIs
<1>9. TableTypes' /\ Rest(a)
  BY <1>1, <1>6, <1>8, Begun DEF TableTypes, Rest, Histories
<1>10. RowOk(a)'
  <2>1. Exists(a) /\ Exists(a)'
    BY <1>4, <1>5 DEF Exists
  <2> QED  BY <1>4, <1>5, <1>6, <2>1 DEF Good, RowOk
<1>11. StageOk(a, task[t])' /\ DiskOk(a)'
  BY <1>3, <1>4, <1>5, <1>6, <1>7 DEF Good, StageOk, DiskOk
<1>12. ReviewOk(a, task[t])'
  <2>1. \A u : (Reviewed(a, u)' <=> Reviewed(a, u)) /\ (Settled(a, u)' <=> Settled(a, u))
    BY <1>6 DEF Settled, Reviewed
  <2> QED  BY <1>1, <1>2, <1>3, <1>4, <1>5, <1>6, <1>7, <2>1 DEF Good, ReviewOk, AllReviewed
<1>13. DeployOk(a, task[t])'
  BY <1>1, <1>2, <1>3, <1>4, <1>5, <1>6, <1>7 DEF Good, DeployOk, Parses
<1>14. Good(a, task[t])'
  BY <1>10, <1>11, <1>12, <1>13 DEF Good
<1> QED  BY <1>1, <1>3, <1>7, <1>9, <1>14, LocalStep

\* Reviewing.
LEMMA GateKeeps == ASSUME AppsInv, NEW t \in Tasks, Gate(t) PROVE AppsInv'
<1>1. PICK a \in Apps : a = task[t].app /\ Doing(t, a) /\ task[t].pc = "gate"
  BY AtStage DEF Gate
<1>2. PICK w, v, d : w \in Works /\ w = task[t] /\ v = tree[a] /\ d = row[a].deployed
  BY <1>1, Begun
<1>3. /\ Good(a, w) /\ w.was = d /\ row[a].status \in {"running", "error"} /\ Exists(a)
      /\ d \in Versions(a) /\ v \in Versions(a) /\ Declared[a][v].parses
  BY <1>1, <1>2, Begun DEF Good, StageOk, RowOk, DiskOk, Exists, Gate, Parses
<1>4. PICK m, was, new : m = Declared[a][v] /\ was = Declared[a][d] /\ new = NewlyDeclared(a, m, was)
  OBVIOUS
<1>5. /\ IF new = {} /\ ~SettingsChanged(m, was)
         THEN Goto(t, "claim") /\ UNCHANGED <<grants, ghostVars>>
         ELSE IF task[t].approve
         THEN /\ grants' = grants \cup {<<a, p>> : p \in new}
              /\ Accept(a, v)
              /\ Goto(t, "claim") /\ UNCHANGED <<unseen, revoked, strayed, cut>>
         ELSE Goto(t, "rollback") /\ UNCHANGED <<grants, ghostVars>>
      /\ UNCHANGED <<tree, image, container, row, maps, providers, chosen, events>>
  BY <1>1, <1>2, <1>3, <1>4 DEF Gate, diskVars
<1>6. /\ m.perms \subseteq Perms /\ was.perms \subseteq Perms /\ v \in Number
      /\ new \subseteq m.perms /\ new \cap was.perms = {} /\ \A p \in m.perms \ was.perms : p \in new \/ <<a, p>> \in grants
  BY <1>3, <1>4, DeclaredIs DEF NewlyDeclared, Granted
<1>7. CASE new = {} /\ ~SettingsChanged(m, was)
  <2>1. PICK n \in Works : task' = [task EXCEPT ![t] = n] /\ n.pc = "claim" /\ n.app = a
    BY <1>1, <1>5, <1>7, Begun, GotoIs DEF Pcs
  <2>2. UNCHANGED <<diskVars, tableVars, ghostVars, events>>
    BY <1>5, <1>7 DEF diskVars, tableVars
  <2>3. a \notin strayed => Reviewed(a, v)
    <3> SUFFICES ASSUME a \notin strayed PROVE Reviewed(a, v)
      OBVIOUS
    <3>1. Reviewed(a, d) /\ d # 0
      BY <1>2, <1>3, DeclaredIs DEF Good, ReviewOk
    <3>2. PICK more : more = UNION {Declared[a][x].perms : x \in unseen[a]}
      OBVIOUS
    <3>5. was.perms \subseteq agreed[a] \cup more /\ \E x \in accepted[a] \cup unseen[a] : ~SettingsChanged(was, Declared[a][x])
      BY <1>4, <3>1, <3>2 DEF Reviewed
    <3>3. m.perms \subseteq agreed[a] \cup more
      BY <1>3, <1>6, <1>7, <3>5 DEF Good, RowOk
    <3>4. \E x \in accepted[a] \cup unseen[a] : ~SettingsChanged(m, Declared[a][x])
      BY <1>7, <3>5, SameSettings
    <3> QED  BY <1>4, <3>2, <3>3, <3>4 DEF Reviewed
  <2>4. StageOk(a, n) /\ ReviewOk(a, n) /\ DeployOk(a, n)
    BY <1>1, <1>2, <1>3, <2>1, <2>3 DEF Good, StageOk, ReviewOk, DeployOk, Settled
  <2> QED  BY <1>1, <2>1, <2>2, <2>4, TaskStep
<1>8. CASE ~(new = {} /\ ~SettingsChanged(m, was)) /\ ~task[t].approve
  <2>1. PICK n \in Works : task' = [task EXCEPT ![t] = n] /\ n.pc = "rollback" /\ n.app = a /\ n.was = w.was /\ n.sha = w.sha
    BY <1>1, <1>2, <1>5, <1>8, Begun, GotoIs DEF Pcs
  <2>2. UNCHANGED <<diskVars, tableVars, ghostVars, events>>
    BY <1>5, <1>8 DEF diskVars, tableVars
  <2>3. StageOk(a, n) /\ ReviewOk(a, n) /\ DeployOk(a, n)
    BY <1>1, <1>2, <1>3, <2>1 DEF Good, StageOk, ReviewOk, DeployOk
  <2> QED  BY <1>1, <2>1, <2>2, <2>3, TaskStep
<1>9. CASE ~(new = {} /\ ~SettingsChanged(m, was)) /\ task[t].approve
  <2>1. PICK n \in Works : task' = [task EXCEPT ![t] = n] /\ n.pc = "claim" /\ n.app = a
    BY <1>1, <1>5, <1>9, Begun, GotoIs DEF Pcs
  <2>2. /\ grants' = grants \cup {<<a, p>> : p \in new} /\ Accept(a, v)
        /\ UNCHANGED <<tree, image, container, row, maps, providers, chosen, unseen, revoked, strayed, cut, events>>
    BY <1>5, <1>9
  <2>3. Here(t, a) /\ task'[t] = n
    BY <1>1, <2>1, <2>2, Begun DEF Here
  <2>4. /\ accepted' \in [Apps -> SUBSET Number] /\ agreed' \in [Apps -> SUBSET Perms]
        /\ \A b \in Apps : accepted[b] \subseteq accepted'[b] /\ agreed[b] \subseteq agreed'[b]
        /\ v \in accepted'[a] /\ m.perms \subseteq agreed'[a]
    BY <1>1, <1>4, <1>6, <2>2, Begun DEF Accept, TableTypes
  <2>5. TableTypes' /\ Rest(a)
    BY <1>1, <1>6, <2>2, <2>4, Begun DEF TableTypes, Rest, Histories
  <2>6. RowOk(a)'
    <3>1. Exists(a)' /\ row' = row /\ agreed[a] \subseteq agreed'[a]
      BY <1>3, <2>2, <2>4 DEF Exists
    <3>2. \A p \in Perms : <<a, p>> \in grants' => p \in agreed'[a]
      BY <1>3, <1>6, <2>2, <2>4 DEF Good, RowOk
    <3>3. \A p \in Perms : <<a, p>> \in revoked' => p \in was.perms /\ <<a, p>> \notin grants'
      BY <1>2, <1>3, <1>4, <1>6, <2>2 DEF Good, RowOk
    <3>4. \A r, q \in maps' : r.app = a /\ q.app = a /\ r.label = q.label => r.port = q.port
      BY <1>3, <2>2 DEF Good, RowOk
    <3>5. row[a].status # "none" <=> row[a].born > 0
      BY <1>3 DEF Good, RowOk
    <3> QED  BY <1>2, <1>3, <1>4, <3>1, <3>2, <3>3, <3>4, <3>5 DEF RowOk
  <2>7. StageOk(a, task[t])' /\ DiskOk(a)'
    BY <1>3, <2>1, <2>2, <2>3 DEF Good, StageOk, DiskOk
  <2>8. ReviewOk(a, task[t])'
    <3>1. \A u : Reviewed(a, u) => Reviewed(a, u)'
      BY <2>2, <2>4, ReviewedOn
    <3>2. Reviewed(a, v)'
      BY <1>4, <2>4, SameSettings DEF Reviewed
    <3> QED  BY <1>1, <1>2, <1>3, <2>1, <2>2, <2>3, <3>1, <3>2 DEF Good, ReviewOk, AllReviewed, Settled
  <2>9. DeployOk(a, task[t])'
    BY <1>1, <1>2, <1>3, <2>1, <2>2, <2>3 DEF Good, DeployOk
  <2>10. Good(a, task[t])'
    BY <2>6, <2>7, <2>8, <2>9 DEF Good
  <2> QED  BY <1>1, <2>1, <2>3, <2>5, <2>10, LocalStep
<1> QED  BY <1>7, <1>8, <1>9

\* The commit of a reload.
LEMMA PlansAre ==
    ASSUME NEW a \in Apps, NEW v \in Versions(a), NEW f \in Plans(a, Declared[a][v])
    PROVE  /\ Mappings(a, f) \subseteq Mapping
           /\ \A r, q \in Mappings(a, f) : r.app = a /\ (r.label = q.label => r.port = q.port)
<1>1. f \in [DOMAIN Declared[a][v].ports -> Ports] /\ DOMAIN Declared[a][v].ports \subseteq Labels
  BY DeclaredIs DEF Plans
<1> QED  BY <1>1 DEF Mappings, Mapping

\* The columns of the manifest in the checkout, with whatever the owner took away
\* and is no longer asked for settled.
LEMMA ColumnsOk ==
    ASSUME AppsInv, NEW t \in Tasks, NEW a \in Apps, Doing(t, a), Exists(a), Exists(a)', tree[a] \in Versions(a),
           row'[a].deployed = tree[a], row'[a].born = row[a].born,
           revoked' = revoked \ Forgotten(a, Declared[a][tree[a]]), UNCHANGED <<grants, agreed>>,
           \A r, q \in maps' : r.app = a /\ q.app = a /\ r.label = q.label => r.port = q.port
    PROVE  RowOk(a)'
<1>1. RowOk(a)
  BY Begun DEF Good
<1>2. \A p \in Perms : <<a, p>> \in revoked' =>
        <<a, p>> \in revoked /\ p \in Declared[a][tree[a]].perms
  BY DEF Forgotten
<1>3. row[a].status # "none" /\ row'[a].status # "none"
  BY DEF Exists
<1>4. row'[a].born > 0
  BY <1>1, <1>3 DEF RowOk
<1>5. \A p \in Perms : <<a, p>> \in grants' => Exists(a)' /\ p \in agreed'[a]
  BY <1>1 DEF RowOk
<1>6. \A p \in Perms : <<a, p>> \in revoked' =>
       Exists(a)' /\ p \in Declared[a][row'[a].deployed].perms /\ <<a, p>> \notin grants'
  BY <1>1, <1>2 DEF RowOk
<1> QED  BY <1>3, <1>4, <1>5, <1>6 DEF RowOk

LEMMA SyncKeeps == ASSUME AppsInv, NEW t \in Tasks, Sync(t) PROVE AppsInv'
<1>1. PICK a \in Apps : a = task[t].app /\ Doing(t, a) /\ task[t].pc = "sync"
  BY AtStage DEF Sync
<1>2. PICK w \in Works, v \in Versions(a) : w = task[t] /\ v = tree[a] /\ v \in Number /\ Declared[a][v].parses
  <2>1. tree[a] \in Versions(a) /\ Declared[a][tree[a]].parses
    BY <1>1, Begun DEF Good, DiskOk, Sync, Parses
  <2> QED  BY <1>1, <2>1, Begun, DeclaredIs
<1>3. Good(a, w) /\ row[a].status = "building"
  BY <1>1, <1>2, Begun DEF Good, StageOk
<1>4. PICK n \in Works : task' = [task EXCEPT ![t] = n] /\ n.pc = "start" /\ n.app = a
  BY <1>1, Begun, GotoIs DEF Sync, Pcs
<1>5. PICK f \in Plans(a, Declared[a][v]) : maps' = {r \in maps : r.app # a} \cup Mappings(a, f)
  BY <1>1, <1>2 DEF Sync
<1>6. /\ row' = [row EXCEPT ![a] = [@ EXCEPT !.deployed = v]]
      /\ providers' = Registered(a, Declared[a][v])
      /\ revoked' = revoked \ Forgotten(a, Declared[a][v]) /\ cut' = cut \ {a}
      /\ UNCHANGED <<tree, image, container, chosen, grants, accepted, agreed, unseen, strayed, events>>
  BY <1>1, <1>2 DEF Sync, ManifestColumns, diskVars
<1>7. /\ row' \in [Apps -> Rows] /\ \A b \in Apps \ {a} : row'[b] = row[b]
      /\ row'[a].status = "building" /\ row'[a].deployed = v /\ row'[a].born = row[a].born
  BY <1>1, <1>2, <1>3, <1>6, Begun DEF Rows
<1>8. Here(t, a) /\ task'[t] = n
  BY <1>1, <1>4, <1>6, <1>7, Begun DEF Here
<1>9. /\ providers' \subseteq Services \X Apps
      /\ \A b \in Apps \ {a} : \A s \in Services : <<s, b>> \in providers' <=> <<s, b>> \in providers
  BY <1>1, <1>6, Begun, RegisteredIs
<1>10. maps' \subseteq Mapping /\ \A m \in maps' : m.app # a => m \in maps
  BY <1>1, <1>5, Begun, PlansAre DEF TableTypes
<1>11. TableTypes' /\ Rest(a)
  <2>1. TableTypes'
    BY <1>1, <1>6, <1>9, <1>10, Begun DEF TableTypes
  <2> QED  BY <1>1, <1>6, <1>9, <1>10, <2>1, Begun DEF TableTypes, Rest, Histories
<1>12. RowOk(a)'
  <2>1. \A r, q \in maps' : r.app = a /\ q.app = a /\ r.label = q.label => r.port = q.port
    BY <1>5, PlansAre
  <2>2. Exists(a) /\ Exists(a)'
    BY <1>3, <1>7 DEF Exists
  <2> QED  BY <1>1, <1>2, <1>6, <1>7, <2>1, <2>2, ColumnsOk
<1>13. StageOk(a, task[t])' /\ DiskOk(a)'
  BY <1>3, <1>4, <1>6, <1>7, <1>8 DEF Good, StageOk, DiskOk
<1>14. ReviewOk(a, task[t])'
  <2>1. \A u : (Reviewed(a, u)' <=> Reviewed(a, u)) /\ (Settled(a, u)' <=> Settled(a, u))
    BY <1>6 DEF Settled, Reviewed
  <2>2. Settled(a, v) => Reviewed(a, v)
    BY <1>2 DEF Settled, Reviewed
  <2> QED  BY <1>1, <1>2, <1>3, <1>4, <1>6, <1>7, <1>8, <2>1, <2>2 DEF Good, ReviewOk, AllReviewed
<1>15. DeployOk(a, task[t])'
  BY <1>2, <1>4, <1>6, <1>7, <1>8 DEF DeployOk
<1>16. Good(a, task[t])'
  BY <1>12, <1>13, <1>14, <1>15 DEF Good
<1> QED  BY <1>1, <1>4, <1>8, <1>11, <1>16, LocalStep

LEMMA SyncFailsKeeps == ASSUME AppsInv, NEW t \in Tasks, SyncFails(t) PROVE AppsInv'
<1>1. PICK a \in Apps : a = task[t].app /\ Doing(t, a) /\ task[t].pc = "sync"
  BY AtStage DEF SyncFails
<1>2. PICK w \in Works, v \in Versions(a) : w = task[t] /\ v = tree[a] /\ v \in Number /\ Declared[a][v].parses
  <2>1. tree[a] \in Versions(a) /\ Declared[a][tree[a]].parses
    BY <1>1, Begun DEF Good, DiskOk, SyncFails, Parses
  <2> QED  BY <1>1, <2>1, Begun, DeclaredIs
<1>3. Good(a, w) /\ row[a].status = "building"
  BY <1>1, <1>2, Begun DEF Good, StageOk
<1>4. /\ task' = [task EXCEPT ![t] = Idle] /\ maps' \subseteq maps /\ \A m \in maps : m.app # a => m \in maps'
  BY <1>1 DEF SyncFails, Leave
<1>5. /\ row' = [row EXCEPT ![a] = [[@ EXCEPT !.deployed = v] EXCEPT !.status = "error"]]
      /\ revoked' = revoked \ Forgotten(a, Declared[a][v])
      /\ UNCHANGED <<tree, image, container, providers, chosen, grants, accepted, agreed, unseen, strayed, cut, events>>
  BY <1>1, <1>2 DEF SyncFails, ManifestColumns, diskVars
<1>6. /\ row' \in [Apps -> Rows] /\ \A b \in Apps \ {a} : row'[b] = row[b]
      /\ row'[a].status = "error" /\ row'[a].deployed = v /\ row'[a].born = row[a].born
  <2>1. PICK old, x : old \in Rows /\ old = row[a] /\ x = [[old EXCEPT !.deployed = v] EXCEPT !.status = "error"]
    BY <1>1, Begun
  <2>2. x \in Rows /\ x.status = "error" /\ x.deployed = v /\ x.born = old.born
    BY <1>2, <2>1 DEF Rows, Statuses
  <2>3. row' = [row EXCEPT ![a] = x]
    BY <1>1, <1>5, <2>1, Begun
  <2> QED  BY <1>1, <2>1, <2>2, <2>3, Begun
<1>7. Here(t, a) /\ task'[t] = Idle
  BY <1>1, <1>4, <1>5, <1>6, Begun, IdleIs DEF Here
<1>8. TableTypes' /\ Rest(a)
  BY <1>1, <1>4, <1>5, Begun DEF TableTypes, Rest, Histories
<1>9. RowOk(a)'
  <2>1. \A r, q \in maps' : r.app = a /\ q.app = a /\ r.label = q.label => r.port = q.port
    BY <1>3, <1>4 DEF Good, RowOk
  <2>2. Exists(a) /\ Exists(a)'
    BY <1>3, <1>6 DEF Exists
  <2> QED  BY <1>1, <1>2, <1>5, <1>6, <2>1, <2>2, ColumnsOk
<1>10. StageOk(a, task[t])' /\ DiskOk(a)'
  BY <1>3, <1>5, <1>7, IdleIs DEF Good, StageOk, DiskOk
<1>11. ReviewOk(a, task[t])'
  <2>1. \A u : (Reviewed(a, u)' <=> Reviewed(a, u)) /\ (Settled(a, u)' <=> Settled(a, u))
    BY <1>5 DEF Settled, Reviewed
  <2>2. Settled(a, v) => Reviewed(a, v)
    BY <1>2 DEF Settled, Reviewed
  <2> QED  BY <1>1, <1>2, <1>3, <1>5, <1>6, <1>7, <2>1, <2>2, IdleIs DEF Good, ReviewOk, AllReviewed
<1>12. DeployOk(a, task[t])'
  BY <1>6, <1>7, IdleIs DEF DeployOk
<1>13. Good(a, task[t])'
  BY <1>9, <1>10, <1>11, <1>12 DEF Good
<1> QED  BY <1>1, <1>7, <1>8, <1>13, LocalStep

LEMMA RemoveWorksKeeps == ASSUME AppsInv, NEW t \in Tasks, RemoveWorks(t) PROVE AppsInv'
<1>1. PICK a \in Apps : a = task[t].app /\ Doing(t, a) /\ task[t].pc = "remove"
  BY AtStage DEF RemoveWorks
<1>2. Good(a, task[t]) /\ row[a].status = "removing"
  BY <1>1, Begun DEF Good, StageOk
<1>3. /\ container' = [container EXCEPT ![a] = Nowhere] /\ tree' = [tree EXCEPT ![a] = 0]
      /\ row' = [row EXCEPT ![a] = [NoRow EXCEPT !.status = "gone", !.born = row[a].born]]
      /\ maps' = {r \in maps : r.app # a} /\ providers' = {q \in providers : q[2] # a}
      /\ chosen' = [s \in Services |-> IF chosen[s] = a THEN NoApp ELSE chosen[s]]
      /\ grants' = {g \in grants : g[1] # a} /\ revoked' = {g \in revoked : g[1] # a}
      /\ task' = [task EXCEPT ![t] = Idle] /\ UNCHANGED <<accepted, agreed, unseen, strayed, cut>>
  BY <1>1 DEF RemoveWorks, Leave
<1>4. image' \in {image, [image EXCEPT ![a] = 0]} /\ (events' = events \/ Event)
  BY <1>1 DEF RemoveWorks, Ok, Fault
<1>5. /\ row' \in [Apps -> Rows] /\ \A b \in Apps \ {a} : row'[b] = row[b]
      /\ row'[a].status = "gone" /\ row'[a].deployed = 0 /\ row'[a].born = row[a].born
  BY <1>1, <1>3, Begun DEF Rows, Statuses, NoRow, Number
<1>6. Here(t, a) /\ task'[t] = Idle /\ container'[a] = Nowhere /\ tree'[a] = 0 /\ image'[a] \in {0, image[a]}
  <2>1. Nowhere \in Runs /\ 0 \in Number
    BY DEF Nowhere, Runs, Number
  <2> QED  BY <1>1, <1>3, <1>4, <1>5, <2>1, Begun, IdleIs DEF Here
<1>7. events' \in 0..MaxEvents
  BY <1>1, <1>4, Begun, EventTyped
<1>8. chosen' \in [Services -> Apps \cup {NoApp}]
  BY <1>1, <1>3, Begun DEF TableTypes
<1>9. TableTypes' /\ Rest(a)
  <2>1. TableTypes'
    BY <1>1, <1>3, <1>7, <1>8, Begun DEF TableTypes
  <2>2. \A b \in Apps \ {a} : \A s \in Services : /\ <<s, b>> \in providers' => <<s, b>> \in providers
                                                  /\ chosen'[s] = b => chosen[s] = b
    BY <1>3, IdleIs
  <2>3. \A b \in Apps \ {a}, p \in Perms : /\ <<b, p>> \in grants' <=> <<b, p>> \in grants
                                           /\ <<b, p>> \in revoked' => <<b, p>> \in revoked
    BY <1>3
  <2> QED  BY <1>1, <1>3, <2>1, <2>2, <2>3, Begun DEF TableTypes, Rest, Histories
<1>10. RowOk(a)'
  <2>1. ~Exists(a)'
    BY <1>5 DEF Exists
  <2>2. /\ \A r \in maps' : r.app # a /\ \A s \in Services : <<s, a>> \notin providers' /\ chosen'[s] # a
        /\ \A p \in Perms : <<a, p>> \notin grants' /\ <<a, p>> \notin revoked'
    BY <1>3, IdleIs
  <2>3. \A s \in Services : <<s, a>> \notin providers' /\ chosen'[s] # a
    BY <1>3, IdleIs
  <2>4. row[a].born > 0
    BY <1>2 DEF Good, RowOk
  <2> QED  BY <1>5, <2>1, <2>2, <2>3, <2>4 DEF RowOk
<1>11. StageOk(a, task[t])' /\ DiskOk(a)'
  BY <1>2, <1>5, <1>6, IdleIs DEF Good, StageOk, DiskOk
<1>12. ReviewOk(a, task[t])'
  <2>1. \A u : Reviewed(a, u)' <=> Reviewed(a, u)
    BY <1>3 DEF Reviewed
  <2>2. Reviewed(a, 0)' /\ Settled(a, 0)'
    BY DEF Reviewed, Settled
  <2>3. AllReviewed(a) => AllReviewed(a)'
    BY <1>6, <2>1, <2>2 DEF AllReviewed, Nowhere
  <2> QED  BY <1>2, <1>3, <1>5, <1>6, <2>2, <2>3, IdleIs DEF Good, ReviewOk
<1>13. DeployOk(a, task[t])'
  BY <1>5, <1>6, IdleIs DEF DeployOk
<1>14. Good(a, task[t])'
  BY <1>10, <1>11, <1>12, <1>13 DEF Good
<1> QED  BY <1>1, <1>6, <1>9, <1>14, LocalStep

-----------------------------------------------------------------------------
(* The owner, the authors and the machine.                                  *)

LEMMA OutsideStep ==
    ASSUME AppsInv, InstallTypeOK', UNCHANGED task, \A a \in Apps : \A w : Good(a, w) => Good(a, w)'
    PROVE  AppsInv'
<1>1. AloneInv'
  BY DEF AppsInv, AloneInv, Active
<1>2. ASSUME NEW t \in Tasks, Active(t)' PROVE Good(task[t].app, task[t])'
  <2>1. PICK a, w : a \in Apps /\ a = task[t].app /\ w = task[t] /\ Good(a, w)
    BY <1>2 DEF AppsInv, AloneInv, Active
  <2>2. Good(a, w)'
    BY <2>1
  <2> QED  BY <2>1, <2>2
<1>3. ASSUME NEW a \in Apps, Unworked(a)' PROVE Good(a, Idle)'
  <2>1. Unworked(a)
    BY <1>3 DEF Unworked, OnApp
  <2>2. Good(a, Idle)
    BY <2>1 DEF AppsInv
  <2> QED  BY <2>2
<1> QED  BY <1>1, <1>2, <1>3 DEF AppsInv

\* The grants and the choices of the owner.
LEMMA OwnerStep ==
    ASSUME AppsInv, UNCHANGED <<diskVars, row, maps, providers, task, accepted, unseen, strayed, cut>>,
           Event \/ UNCHANGED events, grants' \subseteq Apps \X Perms, revoked' \subseteq Apps \X Perms,
           chosen' \in [Services -> Apps \cup {NoApp}], agreed' \in [Apps -> SUBSET Perms],
           \A a \in Apps : agreed[a] \subseteq agreed'[a],
           \A a \in Apps : RowOk(a) => RowOk(a)'
    PROVE  AppsInv'
<1>1. InstallTypeOK /\ TableTypes
  BY Types DEF AppsInv
<1>2. events' \in 0..MaxEvents
  BY <1>1, EventTyped
<1>3. UNCHANGED <<tree, image, container>>
  BY DEF diskVars
<1>4. InstallTypeOK'
  BY <1>1, <1>2, <1>3 DEF InstallTypeOK
<1>5. ASSUME NEW a \in Apps, NEW w, Good(a, w) PROVE Good(a, w)'
  <2>1. \A v : (Reviewed(a, v) => Reviewed(a, v)') /\ (Settled(a, v) => Settled(a, v)')
    BY ReviewedOn
  <2>2. RowOk(a)' /\ DiskOk(a)'
    BY <1>3, <1>5 DEF Good, DiskOk
  <2>3. StageOk(a, w)'
    BY <1>3, <1>5, <2>1 DEF Good, StageOk, Page
  <2>4. ReviewOk(a, w)'
    BY <1>3, <1>5, <2>1 DEF Good, ReviewOk, AllReviewed
  <2>5. DeployOk(a, w)'
    BY <1>3, <1>5 DEF Good, DeployOk, Parses
  <2> QED  BY <2>2, <2>3, <2>4, <2>5 DEF Good
<1> QED  BY <1>4, <1>5, OutsideStep

LEMMA AppsTyped == AppsInv => TableTypes /\ InstallTypeOK
  BY Types DEF AppsInv

LEMMA GrantKeeps == ASSUME AppsInv, NEW a \in Apps, NEW p \in Perms, Grant(a, p) PROVE AppsInv'
<1>1. /\ Exists(a) /\ grants' = grants \cup {<<a, p>>} /\ revoked' = revoked \ {<<a, p>>}
      /\ agreed' = [agreed EXCEPT ![a] = @ \cup {p}] /\ Event
      /\ UNCHANGED <<diskVars, row, maps, providers, chosen, task, accepted, unseen, strayed, cut>>
  BY DEF Grant
<1>2. /\ agreed' \in [Apps -> SUBSET Perms] /\ p \in agreed'[a] /\ \A b \in Apps : agreed[b] \subseteq agreed'[b]
  BY <1>1, AppsTyped DEF TableTypes
<1>3. ASSUME NEW b \in Apps, RowOk(b) PROVE RowOk(b)'
  <2>1. Exists(b)' <=> Exists(b)
    BY <1>1 DEF Exists
  <2>2. \A q \in Perms : <<b, q>> \in grants' => Exists(b)' /\ q \in agreed'[b]
    BY <1>1, <1>2, <1>3, <2>1 DEF RowOk
  <2>3. \A q \in Perms : <<b, q>> \in revoked' => <<b, q>> \in revoked /\ (<<b, q>> \notin grants => <<b, q>> \notin grants')
    BY <1>1
  <2> QED  BY <1>1, <1>3, <2>1, <2>2, <2>3 DEF RowOk
<1>4. grants' \subseteq Apps \X Perms /\ revoked' \subseteq Apps \X Perms /\ chosen' \in [Services -> Apps \cup {NoApp}]
  BY <1>1, AppsTyped DEF TableTypes
<1> QED  BY <1>1, <1>2, <1>3, <1>4, OwnerStep

LEMMA RevokeKeeps == ASSUME AppsInv, NEW a \in Apps, NEW p \in Perms, Revoke(a, p) PROVE AppsInv'
<1>1. /\ <<a, p>> \in grants /\ grants' = grants \ {<<a, p>>} /\ Event
      /\ revoked' = IF p \in Declared[a][row[a].deployed].perms THEN revoked \cup {<<a, p>>} ELSE revoked
      /\ UNCHANGED <<diskVars, row, maps, providers, chosen, task, accepted, agreed, unseen, strayed, cut>>
  BY DEF Revoke
<1>2. ASSUME NEW b \in Apps, RowOk(b) PROVE RowOk(b)'
  <2>1. Exists(b)' <=> Exists(b)
    BY <1>1 DEF Exists
  <2>2. \A q \in Perms : <<b, q>> \in revoked' =>
          Exists(b)' /\ q \in Declared[b][row[b].deployed].perms /\ <<b, q>> \notin grants'
    BY <1>1, <1>2, <2>1 DEF RowOk
  <2> QED  BY <1>1, <1>2, <2>1, <2>2 DEF RowOk
<1>3. /\ grants' \subseteq Apps \X Perms /\ revoked' \subseteq Apps \X Perms
      /\ chosen' \in [Services -> Apps \cup {NoApp}] /\ agreed' \in [Apps -> SUBSET Perms]
      /\ \A b \in Apps : agreed[b] \subseteq agreed'[b]
  BY <1>1, AppsTyped DEF TableTypes
<1> QED  BY <1>1, <1>2, <1>3, OwnerStep

LEMMA SetDefaultKeeps == ASSUME AppsInv, NEW s \in Services, NEW a \in Apps, SetDefault(s, a) PROVE AppsInv'
<1>1. /\ <<s, a>> \in providers /\ chosen' = [chosen EXCEPT ![s] = a] /\ Event
      /\ UNCHANGED <<diskVars, row, maps, providers, grants, task, accepted, agreed, unseen, revoked, strayed, cut>>
  BY DEF SetDefault, ghostVars
<1>2. ASSUME NEW b \in Apps, RowOk(b) PROVE RowOk(b)'
  <2>1. Exists(b)' <=> Exists(b)
    BY <1>1 DEF Exists
  <2>2. \A r \in Services : chosen'[r] = b => chosen[r] = b \/ <<r, b>> \in providers
    BY <1>1, AppsTyped DEF TableTypes
  <2> QED  BY <1>1, <1>2, <2>1, <2>2 DEF RowOk
<1>3. /\ grants' \subseteq Apps \X Perms /\ revoked' \subseteq Apps \X Perms
      /\ chosen' \in [Services -> Apps \cup {NoApp}] /\ agreed' \in [Apps -> SUBSET Perms]
      /\ \A b \in Apps : agreed[b] \subseteq agreed'[b]
  BY <1>1, AppsTyped DEF TableTypes
<1> QED  BY <1>1, <1>2, <1>3, OwnerStep

LEMMA ClearDefaultKeeps == ASSUME AppsInv, NEW s \in Services, ClearDefault(s) PROVE AppsInv'
<1>1. /\ chosen' = [chosen EXCEPT ![s] = NoApp] /\ Event
      /\ UNCHANGED <<diskVars, row, maps, providers, grants, task, accepted, agreed, unseen, revoked, strayed, cut>>
  BY DEF ClearDefault, ghostVars
<1>2. ASSUME NEW b \in Apps, RowOk(b) PROVE RowOk(b)'
  <2>1. Exists(b)' <=> Exists(b)
    BY <1>1 DEF Exists
  <2>2. \A r \in Services : chosen'[r] = b => chosen[r] = b
    BY <1>1, AppsTyped, IdleIs DEF TableTypes
  <2> QED  BY <1>1, <1>2, <2>1, <2>2 DEF RowOk
<1>3. /\ grants' \subseteq Apps \X Perms /\ revoked' \subseteq Apps \X Perms
      /\ chosen' \in [Services -> Apps \cup {NoApp}] /\ agreed' \in [Apps -> SUBSET Perms]
      /\ \A b \in Apps : agreed[b] \subseteq agreed'[b]
  BY <1>1, AppsTyped DEF TableTypes
<1> QED  BY <1>1, <1>2, <1>3, OwnerStep

\* Images that go.
LEMMA ImagesGo ==
    ASSUME AppsInv, UNCHANGED <<tree, container, tableVars, task, ghostVars>>, Event \/ UNCHANGED events,
           image' \in [Apps -> Number], \A a \in Apps : image'[a] \in {0, image[a]}
    PROVE  AppsInv'
<1>1. UNCHANGED <<row, maps, providers, chosen, grants, accepted, agreed, unseen, revoked, strayed, cut>>
  BY DEF tableVars, ghostVars
<1>2. InstallTypeOK /\ events' \in 0..MaxEvents
  BY AppsTyped, EventTyped
<1>3. InstallTypeOK'
  BY <1>1, <1>2 DEF InstallTypeOK
<1>4. ASSUME NEW a \in Apps, NEW w, Good(a, w) PROVE Good(a, w)'
  <2>1. \A v : (Reviewed(a, v)' <=> Reviewed(a, v)) /\ (Settled(a, v)' <=> Settled(a, v)) /\ Reviewed(a, 0)
    BY <1>1 DEF Settled, Reviewed
  <2>2. RowOk(a)'
    BY <1>1, <1>4 DEF Good, RowOk, Exists
  <2>3. StageOk(a, w)' /\ DiskOk(a)'
    BY <1>1, <1>4, <2>1 DEF Good, StageOk, DiskOk, Page
  <2>4. ReviewOk(a, w)'
    BY <1>1, <1>4, <2>1 DEF Good, ReviewOk, AllReviewed
  <2>5. DeployOk(a, w)'
    BY <1>1, <1>4 DEF Good, DeployOk, Parses
  <2> QED  BY <2>2, <2>3, <2>4, <2>5 DEF Good
<1> QED  BY <1>3, <1>4, OutsideStep

LEMMA SweepOrphansKeeps == ASSUME AppsInv, SweepOrphans PROVE AppsInv'
<1>1. PICK pruned \in SUBSET Orphans : image' = [a \in Apps |-> IF a \in pruned THEN 0 ELSE image[a]]
  BY DEF SweepOrphans
<1>2. image' \in [Apps -> Number] /\ \A a \in Apps : image'[a] \in {0, image[a]}
  BY <1>1, AppsTyped DEF InstallTypeOK, Number
<1> QED  BY <1>2, ImagesGo DEF SweepOrphans

LEMMA DropCacheKeeps == ASSUME AppsInv, DropCache PROVE AppsInv'
<1>1. image' = [a \in Apps |-> IF container[a] = Nowhere THEN 0 ELSE image[a]]
  BY DEF DropCache
<1>2. image' \in [Apps -> Number] /\ \A a \in Apps : image'[a] \in {0, image[a]}
  BY <1>1, AppsTyped DEF InstallTypeOK, Number
<1> QED  BY <1>2, ImagesGo DEF DropCache

\* Whatever was worked on is let go, and what a restart then finds wrong is in
\* the histories.
LEMMA CrashKeeps == ASSUME AppsInv, Crash PROVE AppsInv'
<1>1. /\ task' = [t \in Tasks |-> Idle] /\ strayed' = strayed \cup InReview /\ cut' = cut \cup Halfway /\ Event
      /\ UNCHANGED <<tree, image, container, row, maps, providers, chosen, grants, accepted, agreed, unseen, revoked>>
  BY DEF Crash, Fault, diskVars, tableVars
<1>2. InReview \subseteq Apps /\ Halfway \subseteq Apps
  BY DEF InReview, Halfway, AppsInv, AloneInv, Active, At
<1>3. InstallTypeOK'
  <2>1. InstallTypeOK /\ events' \in 0..MaxEvents
    BY <1>1, AppsTyped, EventTyped
  <2>2. task' \in [Tasks -> Works]
    BY <1>1, IdleIs
  <2> QED  BY <1>1, <1>2, <2>1, <2>2 DEF InstallTypeOK, Works
<1>4. ASSUME NEW a \in Apps PROVE Good(a, Idle)'
  <2>1. PICK w : /\ Good(a, w)
                 /\ w.pc \in {"gate", "rollback"} => a \in InReview
                 /\ w.pc \in {"gate", "rollback", "claim", "sync"} => a \in Halfway
                 /\ w.pc \in {"start", "build"} /\ row[a].status = "starting" => a \in Halfway
    <3>1. CASE Unworked(a)
      BY <3>1, IdleIs DEF AppsInv
    <3>2. CASE ~Unworked(a)
      <4>1. PICK t \in Tasks : Active(t) /\ task[t].app = a
        BY <3>2 DEF Unworked, OnApp, Active
      <4>2. Good(a, task[t])
        BY <4>1 DEF AppsInv
      <4>3. task[t].pc \in {"gate", "rollback"} => a \in InReview
        BY <4>1 DEF InReview, At, Active
      <4>4. task[t].pc \in {"gate", "rollback", "claim", "sync"} => a \in Halfway
        BY <4>1 DEF Halfway, At, Active
      <4>5. task[t].pc \in {"start", "build"} /\ row[a].status = "starting" => a \in Halfway
        BY <4>1 DEF Halfway, At, Active
      <4> QED  BY <4>2, <4>3, <4>4, <4>5
    <3> QED  BY <3>1, <3>2
  <2>2. \A v : (Reviewed(a, v)' <=> Reviewed(a, v)) /\ (Settled(a, v)' <=> Settled(a, v))
    BY <1>1 DEF Settled, Reviewed
  <2>3. RowOk(a)'
    BY <1>1, <2>1 DEF Good, RowOk, Exists
  <2>4. StageOk(a, Idle)' /\ DiskOk(a)'
    BY <1>1, <2>1, IdleIs DEF Good, StageOk, DiskOk
  <2>5. ReviewOk(a, Idle)'
    BY <1>1, <2>1, <2>2, IdleIs DEF Good, ReviewOk, AllReviewed
  <2>6. DeployOk(a, Idle)'
    BY <1>1, <2>1, IdleIs DEF Good, StageOk, DeployOk, Parses
  <2> QED  BY <2>3, <2>4, <2>5, <2>6 DEF Good
<1> QED  BY <1>1, <1>3, <1>4 DEF AppsInv, AloneInv, Active

-----------------------------------------------------------------------------
(* Every state.                                                             *)

LEMMA AppsInit == Init => AppsInv
<1> SUFFICES ASSUME Init PROVE AppsInv
  OBVIOUS
<1>1. InstallTypeOK
  <2>1. \A t \in Tasks : task[t] = Idle
    BY DEF Init
  <2>2. task \in [Tasks -> Works]
    BY IdleIs DEF Init
  <2>3. 0 \in Number /\ Nowhere \in Runs /\ NoRow \in Rows
    BY DEF Number, Nowhere, Runs, NoRow, Rows, Statuses
  <2>4. TableTypes
    BY InstallAssumption DEF Init, TableTypes
  <2>5. row \in [Apps -> Rows] /\ tree \in [Apps -> Number] /\ image \in [Apps -> Number] /\ container \in [Apps -> Runs]
    BY <2>3 DEF Init
  <2> QED  BY <2>2, <2>4, <2>5, Types
<1>2. \A t \in Tasks : ~Active(t)
  BY DEF Init, Active
<1>3. ASSUME NEW a \in Apps PROVE Good(a, Idle)
  <2>1. row[a] = NoRow /\ tree[a] = 0 /\ image[a] = 0 /\ container[a] = Nowhere
    BY DEF Init
  <2>2. ~Exists(a) /\ row[a].deployed = 0 /\ row[a].born = 0 /\ row[a].status = "none"
    BY <2>1 DEF Exists, NoRow
  <2>3. RowOk(a)
    <3>1. maps = {} /\ providers = {} /\ grants = {} /\ revoked = {} /\ \A s \in Services : chosen[s] = NoApp
      BY DEF Init
    <3> QED  BY <2>2, <3>1, IdleIs DEF RowOk
  <2>4. StageOk(a, Idle) /\ DiskOk(a)
    BY <2>1, IdleIs DEF StageOk, DiskOk
  <2>5. ReviewOk(a, Idle)
    <3>1. Reviewed(a, 0) /\ Settled(a, 0)
      BY DEF Reviewed, Settled
    <3>2. container[a].code = 0 /\ container[a].manifest = 0
      BY <2>1 DEF Nowhere
    <3> QED  BY <2>1, <2>2, <3>1, <3>2, IdleIs DEF ReviewOk, AllReviewed
  <2>6. DeployOk(a, Idle)
    BY <2>2, IdleIs DEF DeployOk
  <2> QED  BY <2>3, <2>4, <2>5, <2>6 DEF Good
<1> QED  BY <1>1, <1>2, <1>3 DEF AppsInv, AloneInv

LEMMA ProgressKeeps == ASSUME AppsInv, NEW t \in Tasks, Progress(t) PROVE AppsInv'
<1>1. \/ AddApp(t) \/ AddRefused(t) \/ ChoosePorts(t) \/ NoPorts(t) \/ InsertRow(t) \/ InsertFails(t) \/ GrantNext(t) \/ Deploy(t)
      \/ Pull(t) \/ PullFails(t) \/ SubmodulesFail(t)
      \/ Gate(t) \/ GateSkipped(t) \/ Rollback(t) \/ RollbackFails(t) \/ Claim(t)
      \/ Sync(t) \/ SyncFails(t) \/ SyncSkipped(t) \/ Start(t) \/ StartFails(t)
      \/ Build(t) \/ BuildFails(t) \/ Run(t) \/ Launch(t) \/ RunFails(t)
      \/ RemoveWorks(t)
  BY DEF Progress
<1> QED  BY <1>1, AddAppKeeps, AddRefusedKeeps, ChoosePortsKeeps, NoPortsKeeps, InsertRowKeeps, InsertFailsKeeps, GrantNextKeeps,
            DeployKeeps, PullKeeps, PullFailsKeeps, SubmodulesFailKeeps, GateKeeps, GateSkippedKeeps, RollbackKeeps,
            RollbackFailsKeeps, ClaimKeeps, SyncKeeps, SyncFailsKeeps, SyncSkippedKeeps, StartKeeps, StartFailsKeeps,
            BuildKeeps, BuildFailsKeeps, RunKeeps, LaunchKeeps, RunFailsKeeps, RemoveWorksKeeps

LEMMA RequestKeeps == ASSUME AppsInv, NEW t \in Tasks, NEW a \in Apps, Request(t, a) PROVE AppsInv'
<1>1. \/ ShowManifest(t, a) \/ AddUnshown(t, a) \/ Reload(t, a) \/ RemoveApp(t, a) \/ Recover(t, a)
      \/ \E approve \in BOOLEAN : Update(t, a, approve)
  BY DEF Request
<1> QED  BY <1>1, ShowManifestKeeps, AddUnshownKeeps, ReloadKeeps, RemoveAppKeeps, RecoverKeeps, UpdateKeeps

LEMMA OutsideKeeps == ASSUME AppsInv, Outside PROVE AppsInv'
<1>1. \/ \E a \in Apps, p \in Perms : Grant(a, p) \/ Revoke(a, p)
      \/ \E s \in Services : ClearDefault(s) \/ \E a \in Apps : SetDefault(s, a)
      \/ SweepOrphans \/ DropCache \/ Crash
  BY DEF Outside
<1> QED  BY <1>1, GrantKeeps, RevokeKeeps, ClearDefaultKeeps, SetDefaultKeeps, SweepOrphansKeeps, DropCacheKeeps, CrashKeeps

LEMMA StutterKeeps == ASSUME AppsInv, UNCHANGED vars PROVE AppsInv'
<1>1. UNCHANGED <<tree, image, container, row, maps, providers, chosen, grants, task, accepted, agreed, unseen, revoked, strayed, cut, events>>
  BY DEF vars, diskVars, tableVars, ghostVars
<1>2. InstallTypeOK'
  BY <1>1 DEF AppsInv, InstallTypeOK
<1>3. \A a \in Apps : \A w : Good(a, w) => Good(a, w)'
  BY <1>1 DEF Good, RowOk, DiskOk, StageOk, Page, ReviewOk, DeployOk, AllReviewed, Reviewed, Settled, Parses, Exists
<1> QED  BY <1>1, <1>2, <1>3, OutsideStep

LEMMA AppsKept == AppsInv /\ [Next]_vars => AppsInv'
  BY ProgressKeeps, RequestKeeps, OutsideKeeps, StutterKeeps DEF Next

\* The tables, the disk and the histories stay well formed, a label of an app has
\* one port, one task works on an app, and the checkouts, images, rows and
\* requests of every app fit together (AppsInv, the inductive invariant).
THEOREM InstallTyped == Spec => [](InstallTypeOK /\ AppsInv)
<1>1. AppsInv => InstallTypeOK
  BY DEF AppsInv
<1> QED  BY <1>1, AppsInit, AppsKept, PTL DEF Spec

LEMMA SomeWork == ASSUME AppsInv, NEW a \in Apps PROVE \E w : Good(a, w)
<1>1. CASE Unworked(a)
  BY <1>1 DEF AppsInv
<1>2. CASE ~Unworked(a)
  <2>1. PICK t \in Tasks : Active(t) /\ task[t].app = a
    BY <1>2 DEF Unworked, OnApp, Active
  <2> QED  BY <2>1 DEF AppsInv
<1> QED  BY <1>1, <1>2

\* What runs, and the image it would be run from, declares what its owner has
\* accepted, at the install or at an update's review, unless an update that failed
\* left its checkout behind: whatever versions there are, whatever fails, and
\* whoever else is being installed (_gate_update_review, reset_hard).
THEOREM NothingUnseenRuns == Spec => []ReviewedBeforeRunning
<1>1. AppsInv => ReviewedBeforeRunning
  BY SomeWork DEF ReviewedBeforeRunning, Good, ReviewOk
<1> QED  BY <1>1, AppsInit, AppsKept, PTL DEF Spec

\* A permission the owner revoked is not granted again until the owner grants it
\* or the app ceases to declare it (manifest_newly_declared_permissions_v2).
THEOREM RevocationLasts == Spec => []RevokedStaysRevoked
<1>1. ASSUME AppsInv PROVE RevokedStaysRevoked
  <2>1. ASSUME NEW q \in revoked PROVE q \notin grants
    <3>1. PICK a \in Apps, p \in Perms : q = <<a, p>>
      BY <2>1, <1>1, AppsTyped DEF TableTypes
    <3>2. RowOk(a)
      BY <1>1, SomeWork DEF Good
    <3> QED  BY <2>1, <3>1, <3>2 DEF RowOk
  <2> QED  BY <2>1 DEF RevokedStaysRevoked
<1> QED  BY <1>1, AppsInit, AppsKept, PTL DEF Spec

\* An app whose row says 'running' runs the code and the manifest of the version
\* in its row, but for an update cut off halfway by a restart and one that left
\* its checkout behind (reload_app_background, check_app_status).
THEOREM RunningIsDeployed == Spec => []RunsWhatIsDeployed
<1>1. ASSUME AppsInv PROVE RunsWhatIsDeployed
  <2>1. ASSUME NEW a \in Apps \ (cut \cup strayed), row[a].status = "running"
        PROVE  container[a] \in {Nowhere, [code |-> row[a].deployed, manifest |-> row[a].deployed]}
    <3>1. PICK w : DeployOk(a, w)
      BY <1>1, SomeWork DEF Good
    <3> QED  BY <2>1, <3>1 DEF DeployOk
  <2> QED  BY <2>1 DEF RunsWhatIsDeployed
<1> QED  BY <1>1, AppsInit, AppsKept, PTL DEF Spec

-----------------------------------------------------------------------------
(* What moves ports, services and containers: little does.                  *)

BornKept == \A a \in Apps : row'[a].born = row[a].born

Calm ==
  /\ UNCHANGED <<providers, chosen, container>> /\ maps' \subseteq maps /\ BornKept
  /\ Histories

LEMMA CalmTasks ==
    ASSUME UNCHANGED <<row, container, providers, chosen, maps, accepted, agreed, unseen>>
    PROVE  Calm
  BY DEF Calm, BornKept, Histories

LEMMA CalmStatus ==
    ASSUME row \in [Apps -> Rows], NEW a \in Apps, NEW s \in Statuses, SetStatus(a, s),
           UNCHANGED <<container, providers, chosen, maps, accepted, agreed, unseen>>
    PROVE  Calm
  BY StatusSet DEF Calm, BornKept, Histories

LEMMA AcceptGrows ==
    ASSUME TableTypes, NEW a \in Apps, NEW v, Accept(a, v)
    PROVE  \A b \in Apps : accepted[b] \subseteq accepted'[b] /\ agreed[b] \subseteq agreed'[b]
  BY DEF Accept, TableTypes

LEMMA AddAppGrows == ASSUME AppsInv, NEW t \in Tasks, AddApp(t) PROVE Histories
<1>1. PICK a \in Apps : a = task[t].app
  BY AtStage DEF AddApp
<1>2. TableTypes
  BY Types DEF AppsInv
<1>3. \A b \in Apps : accepted[b] \subseteq accepted'[b] /\ agreed[b] \subseteq agreed'[b]
  <2>1. CASE \E v : Accept(a, v)
    BY <1>2, <2>1, AcceptGrows
  <2>2. CASE UNCHANGED accepted /\ \E sel : agreed' = [agreed EXCEPT ![a] = @ \cup sel]
    BY <1>2, <2>2 DEF TableTypes
  <2> QED  BY <1>1, <2>1, <2>2 DEF AddApp
<1>4. unseen' = unseen \/ \E v : unseen' = [unseen EXCEPT ![a] = @ \cup {v}]
  BY <1>1 DEF AddApp
<1>5. \A b \in Apps : unseen[b] \subseteq unseen'[b]
  BY <1>2, <1>4 DEF TableTypes
<1> QED  BY <1>3, <1>5 DEF Histories

LEMMA ProgressCalm ==
    ASSUME AppsInv, NEW t \in Tasks, Progress(t)
    PROVE  Calm \/ InsertRow(t) \/ Claim(t) \/ Sync(t) \/ Run(t) \/ Launch(t) \/ RemoveWorks(t)
<1> USE DEF diskVars, tableVars, ghostVars
<1>0. TableTypes /\ row \in [Apps -> Rows]
  BY Types DEF AppsInv
<1>1. CASE AddApp(t)
  <2>1. Histories
    BY <1>1, AddAppGrows
  <2> QED  BY <1>1, <2>1 DEF AddApp, Calm, BornKept
<1>2. CASE AddRefused(t) \/ ChoosePorts(t) \/ NoPorts(t) \/ InsertFails(t) \/ GrantNext(t) \/ Deploy(t)
  BY <1>2, CalmTasks DEF AddRefused, ChoosePorts, NoPorts, InsertFails, GrantNext, Deploy
<1>3. CASE Pull(t) \/ GateSkipped(t) \/ Rollback(t) \/ RollbackFails(t) \/ SyncSkipped(t) \/ Build(t)
  BY <1>3, CalmTasks DEF Pull, GateSkipped, Rollback, RollbackFails, SyncSkipped, Build
<1>4. CASE PullFails(t) \/ SubmodulesFail(t)
  <2>1. task[t].app \in Apps
    BY <1>4, AtStage DEF PullFails, SubmodulesFail
  <2>2. SetStatus(task[t].app, "error") /\ UNCHANGED <<container, providers, chosen, maps, accepted, agreed, unseen>>
    BY <1>4 DEF PullFails, SubmodulesFail
  <2> QED  BY <1>0, <2>1, <2>2, CalmStatus DEF Statuses
<1>5. CASE StartFails(t) \/ BuildFails(t) \/ RunFails(t)
  <2>1. task[t].app \in Apps /\ LaunchFails(t)
    BY <1>5, AtStage DEF StartFails, BuildFails, RunFails
  <2>2. SetStatus(task[t].app, "error") /\ UNCHANGED <<container, providers, chosen, maps, accepted, agreed, unseen>>
    BY <2>1 DEF LaunchFails
  <2> QED  BY <1>0, <2>1, <2>2, CalmStatus DEF Statuses
<1>6. CASE Start(t)
  <2>1. task[t].app \in Apps
    BY <1>6, AtStage DEF Start
  <2>2. SetStatus(task[t].app, "starting") /\ UNCHANGED <<container, providers, chosen, maps, accepted, agreed, unseen>>
    BY <1>6 DEF Start
  <2> QED  BY <1>0, <2>1, <2>2, CalmStatus DEF Statuses
<1>7. CASE Gate(t)
  <2>1. UNCHANGED <<container, row, providers, chosen, maps>>
    BY <1>7 DEF Gate
  <2>2. \A b \in Apps : accepted[b] \subseteq accepted'[b] /\ agreed[b] \subseteq agreed'[b]
    <3>1. CASE UNCHANGED <<accepted, agreed, unseen>>
      BY <3>1
    <3>2. CASE \E a, v : a \in Apps /\ Accept(a, v)
      BY <1>0, <3>2, AcceptGrows
    <3>3. task[t].app \in Apps
      BY <1>7, AtStage DEF Gate
    <3>4. UNCHANGED <<accepted, agreed, unseen>> \/ Accept(task[t].app, tree[task[t].app])
      BY <1>7 DEF Gate
    <3> QED  BY <3>1, <3>2, <3>3, <3>4
  <2>3. UNCHANGED unseen
    BY <1>7 DEF Gate
  <2> QED  BY <2>1, <2>2, <2>3 DEF Calm, BornKept, Histories
<1>8. CASE SyncFails(t)
  <2>1. PICK a \in Apps : a = task[t].app
    BY <1>8, AtStage DEF SyncFails
  <2>2. /\ row' = [row EXCEPT ![a] = [[@ EXCEPT !.deployed = tree[a]] EXCEPT !.status = "error"]]
        /\ maps' \subseteq maps /\ UNCHANGED <<container, providers, chosen, accepted, agreed, unseen>>
    BY <1>8, <2>1 DEF SyncFails, ManifestColumns
  <2>3. PICK old \in Rows : old = row[a]
    BY <1>0
  <2>4. [[old EXCEPT !.deployed = tree[a]] EXCEPT !.status = "error"].born = old.born
    BY DEF Rows
  <2>5. BornKept
    BY <1>0, <2>2, <2>3, <2>4 DEF BornKept
  <2> QED  BY <2>2, <2>5 DEF Calm, Histories
<1> QED  BY <1>1, <1>2, <1>3, <1>4, <1>5, <1>6, <1>7, <1>8 DEF Progress

LEMMA RequestCalm ==
    ASSUME AppsInv, NEW t \in Tasks, NEW a \in Apps, Request(t, a)
    PROVE  Calm \/ Recover(t, a)
<1> USE DEF diskVars, tableVars, ghostVars
<1>1. CASE ShowManifest(t, a) \/ AddUnshown(t, a) \/ Reload(t, a) \/ \E approve \in BOOLEAN : Update(t, a, approve)
  BY <1>1, CalmTasks DEF ShowManifest, AddUnshown, Reload, Update
<1>2. CASE RemoveApp(t, a)
  <2>1. row \in [Apps -> Rows]
    BY Types DEF AppsInv
  <2> QED  BY <1>2, <2>1, CalmStatus DEF RemoveApp, Statuses
<1> QED  BY <1>1, <1>2 DEF Request

LEMMA OutsideCalm ==
    ASSUME AppsInv, Outside
    PROVE  Calm \/ \E s \in Services : ClearDefault(s) \/ \E a \in Apps : SetDefault(s, a)
<1> USE DEF diskVars, tableVars, ghostVars
<1>1. CASE SweepOrphans \/ DropCache \/ Crash
  BY <1>1, CalmTasks DEF SweepOrphans, DropCache, Crash
<1>2. ASSUME NEW a \in Apps, NEW p \in Perms, Grant(a, p) \/ Revoke(a, p)
      PROVE  Calm
  <2>1. CASE Revoke(a, p)
    BY <2>1, CalmTasks DEF Revoke
  <2>2. CASE Grant(a, p)
    <3>1. TableTypes
      BY AppsTyped
    <3>2. \A b \in Apps : agreed[b] \subseteq agreed'[b]
      BY <2>2, <3>1 DEF Grant, TableTypes
    <3> QED  BY <2>2, <3>2 DEF Grant, Calm, BornKept, Histories
  <2> QED  BY <1>2, <2>1, <2>2
<1> QED  BY <1>1, <1>2 DEF Outside

\* The host port of a label stays the app's for as long as the app has the label,
\* whatever an update asks for, whoever else takes ports meanwhile
\* (_sync_port_mappings: "preserve existing host_port").
THEOREM LabelsKeepPorts == Spec => PortsKeep
<1> DEFINE P == \A r \in maps, q \in maps' : r.app = q.app /\ r.label = q.label => r.port = q.port
<1>1. ASSUME AppsInv, [Next]_vars PROVE P
  <2>1. ASSUME NEW r \in maps, NEW q \in maps, r.app = q.app, r.label = q.label
        PROVE  r.port = q.port
    <3>1. r.app \in Apps
      BY <1>1, <2>1, AppsTyped DEF TableTypes, Mapping
    <3> QED  BY <1>1, <2>1, <3>1, SomeWork DEF Good, RowOk
  <2>2. CASE maps' \subseteq maps
    BY <2>1, <2>2
  <2>3. ASSUME NEW t \in Tasks, InsertRow(t) PROVE P
    <3>1. PICK a \in Apps : a = task[t].app /\ Doing(t, a) /\ task[t].pc = "insert"
      BY <1>1, <2>3, AtStage DEF InsertRow
    <3>2. Good(a, task[t])
      BY <1>1, <3>1, Begun
    <3>3. maps' = maps \cup task[t].plan
      BY <2>3 DEF InsertRow
    <3>4. /\ \A r \in maps : r.app # a
          /\ \A q \in task[t].plan : q.app = a
      BY <3>1, <3>2 DEF Good, StageOk, RowOk, Exists
    <3> QED  BY <2>1, <3>3, <3>4
  <2>4. ASSUME NEW t \in Tasks, Sync(t) PROVE P
    <3>1. PICK a \in Apps : a = task[t].app /\ Doing(t, a)
      BY <1>1, <2>4, AtStage DEF Sync
    <3>2. PICK m : m = Declared[a][tree[a]]
      OBVIOUS
    <3>3. PICK f \in Plans(a, m) : maps' = {r \in maps : r.app # a} \cup Mappings(a, f)
      BY <2>4, <3>1, <3>2 DEF Sync
    <3>4. ASSUME NEW r \in maps, NEW q \in Mappings(a, f), r.app = a, r.label = q.label
          PROVE  r.port = q.port
      <4>1. PICK l \in DOMAIN f : q.label = l /\ q.port = f[l] /\ q.app = a
        BY <3>4 DEF Mappings
      <4>2. r.port \in Nat \ {0}
        BY <1>1, AppsTyped, InstallAssumption DEF TableTypes, Mapping
      <4>3. Kept(a, l) = {r.port}
        BY <2>1, <3>4, <4>1 DEF Kept
      <4>4. Least({r.port}) = r.port
        BY <4>2, LeastIs
      <4>5. Asked(a, m, l) = r.port
        BY <4>3, <4>4 DEF Asked
      <4> QED  BY <3>3, <4>1, <4>2, <4>5 DEF Plans
    <3> QED  BY <2>1, <3>3, <3>4 DEF Mappings
  <2>5. ASSUME NEW t \in Tasks, Claim(t) \/ Run(t) \/ Launch(t) \/ RemoveWorks(t) PROVE maps' \subseteq maps
    BY <2>5 DEF Claim, Run, Launch, RemoveWorks
  <2>6. ASSUME NEW t \in Tasks, NEW a \in Apps, Recover(t, a) PROVE maps' \subseteq maps
    BY <2>6 DEF Recover
  <2>7. ASSUME NEW s \in Services, ClearDefault(s) \/ \E a \in Apps : SetDefault(s, a) PROVE maps' \subseteq maps
    BY <2>7 DEF ClearDefault, SetDefault
  <2>8. CASE Calm \/ UNCHANGED vars
    BY <2>2, <2>8 DEF Calm, vars, tableVars
  <2>9. ASSUME NEW t \in Tasks, Progress(t) PROVE P
    BY <1>1, <2>2, <2>3, <2>4, <2>5, <2>8, <2>9, ProgressCalm
  <2>10. ASSUME NEW t \in Tasks, NEW a \in Apps, Request(t, a) PROVE P
    BY <1>1, <2>2, <2>6, <2>8, <2>10, RequestCalm
  <2>11. CASE Outside
    BY <1>1, <2>2, <2>7, <2>8, <2>11, OutsideCalm
  <2> QED  BY <1>1, <2>8, <2>9, <2>10, <2>11 DEF Next
<1>2. AppsInv /\ [Next]_vars => [P]_vars
  BY <1>1
<1> QED  BY <1>2, AppsInit, AppsKept, PTL DEF Spec, PortsKeep

-----------------------------------------------------------------------------
(* Install implements Consent.                                              *)

LEMMA BornSame == ASSUME BornInv, BornKept PROVE BornInv'
<1>1. {b \in Apps : row[b].born > 0}' = {b \in Apps : row[b].born > 0}
  BY DEF BornKept
<1> QED  BY <1>1 DEF BornInv, BornKept

LEMMA InsertBears ==
    ASSUME AppsInv, BornInv, NEW t \in Tasks, InsertRow(t)
    PROVE  \E a \in Apps : /\ a = task[t].app /\ row[a].status = "none" /\ row[a].born = 0
                           /\ row'[a].born \in Nat /\ \A b \in Apps : row[b].born < row'[a].born
                           /\ \A b \in Apps \ {a} : row'[b].born = row[b].born
                           /\ BornInv'
<1>1. PICK a \in Apps : a = task[t].app /\ Doing(t, a) /\ task[t].pc = "insert"
  BY AtStage DEF InsertRow
<1>2. row \in [Apps -> Rows] /\ row[a].status = "none" /\ row[a].born = 0
  <2>1. Good(a, task[t]) /\ row \in [Apps -> Rows]
    BY <1>1, Begun
  <2>2. row[a].status = "none" /\ row[a].born \in Nat
    BY <1>1, <2>1 DEF Good, StageOk, Rows
  <2> QED  BY <2>1, <2>2 DEF Good, RowOk
<1>3. PICK S : S = {b \in Apps : row[b].born > 0}
  OBVIOUS
<1>4. IsFiniteSet(S) /\ a \notin S /\ S \subseteq Apps
  BY <1>2, <1>3, FS_Subset, InstallAssumption
<1>5. PICK k \in Nat : k = Cardinality(S)
  BY <1>4, FS_CardinalityType
<1>6. row'[a].born = 1 + k /\ \A b \in Apps \ {a} : row'[b].born = row[b].born
  <2>1. row' = [row EXCEPT ![a] = [[@ EXCEPT !.deployed = task[t].was] EXCEPT
                  !.status = "building", !.port = task[t].port, !.born = 1 + k]]
    BY <1>1, <1>3, <1>5 DEF InsertRow, ManifestColumns
  <2>2. PICK old, x : old \in Rows /\ old = row[a] /\ x = [[old EXCEPT !.deployed = task[t].was] EXCEPT
                  !.status = "building", !.port = task[t].port, !.born = 1 + k]
    BY <1>1, <1>2
  <2>3. x.born = 1 + k
    BY <2>2 DEF Rows
  <2>4. row' = [row EXCEPT ![a] = x]
    BY <1>1, <1>2, <2>1, <2>2
  <2> QED  BY <1>1, <1>2, <2>3, <2>4
<1>7. \A b \in Apps : row[b].born \in Nat /\ row[b].born <= k
  BY <1>2, <1>3, <1>5 DEF BornInv, Rows
<1>8. {b \in Apps : row[b].born > 0}' = S \cup {a}
  BY <1>1, <1>3, <1>5, <1>6
<1>9. Cardinality(S \cup {a}) = k + 1
  BY <1>4, <1>5, FS_AddElement
<1>10. BornInv'
  <2>1. ASSUME NEW b \in Apps PROVE row'[b].born <= k + 1
    BY <1>5, <1>6, <1>7
  <2>2. ASSUME NEW b \in Apps, NEW c \in Apps, row'[b].born > 0, row'[b].born = row'[c].born PROVE b = c
    BY <1>1, <1>5, <1>6, <1>7, <2>2 DEF BornInv
  <2> QED  BY <1>8, <1>9, <2>1, <2>2 DEF BornInv
<1> QED  BY <1>1, <1>2, <1>5, <1>6, <1>7, <1>10

LEMMA BornRowKept ==
    ASSUME row \in [Apps -> Rows], NEW a \in Apps, row'[a].born = row[a].born,
           \A b \in Apps \ {a} : row'[b] = row[b]
    PROVE  BornKept
  BY DEF BornKept

LEMMA ActiveBorn ==
    ASSUME AppsInv, NEW t \in Tasks, Claim(t) \/ Sync(t) \/ Run(t) \/ Launch(t) \/ RemoveWorks(t)
    PROVE  BornKept
<1>1. PICK a \in Apps : a = task[t].app
  BY AtStage DEF Claim, Sync, Run, Launch, RemoveWorks
<1>2. row \in [Apps -> Rows]
  BY Types DEF AppsInv
<1>3. CASE UNCHANGED row
  BY <1>3 DEF BornKept
<1>4. ASSUME NEW s \in Statuses, SetStatus(a, s) PROVE BornKept
  BY <1>2, <1>4, StatusSet DEF BornKept
<1>5. CASE Claim(t) \/ Run(t) \/ Launch(t)
  BY <1>1, <1>3, <1>4, <1>5 DEF Claim, Run, Launch, Statuses
<1>6. CASE Sync(t)
  <2>1. row' = [row EXCEPT ![a] = [@ EXCEPT !.deployed = tree[a]]]
    BY <1>1, <1>6 DEF Sync, ManifestColumns
  <2> QED  BY <1>2, <2>1 DEF BornKept, Rows
<1>7. CASE RemoveWorks(t)
  <2>1. row' = [row EXCEPT ![a] = [NoRow EXCEPT !.status = "gone", !.born = row[a].born]]
    BY <1>1, <1>7 DEF RemoveWorks
  <2> QED  BY <1>2, <2>1 DEF BornKept, Rows, NoRow
<1> QED  BY <1>5, <1>6, <1>7

LEMMA RecoverBorn == ASSUME AppsInv, NEW t \in Tasks, NEW a \in Apps, Recover(t, a) PROVE BornKept
<1>1. row \in [Apps -> Rows]
  BY Types DEF AppsInv
<1> QED  BY <1>1, StatusSet DEF Recover, BornKept, Statuses

LEMMA BornStep == AppsInv /\ BornInv /\ [Next]_vars => BornInv'
<1> SUFFICES ASSUME AppsInv, BornInv, [Next]_vars PROVE BornInv'
  OBVIOUS
<1>1. CASE Calm \/ UNCHANGED vars
  BY <1>1, BornSame DEF Calm, vars, tableVars, BornKept
<1>2. ASSUME NEW t \in Tasks, Progress(t) PROVE BornInv'
  BY <1>1, <1>2, ProgressCalm, InsertBears, ActiveBorn, BornSame
<1>3. ASSUME NEW t \in Tasks, NEW a \in Apps, Request(t, a) PROVE BornInv'
  BY <1>1, <1>3, RequestCalm, RecoverBorn, BornSame
<1>4. CASE Outside
  <2>1. CASE Calm
    BY <1>1, <2>1
  <2>2. ASSUME NEW s \in Services, ClearDefault(s) \/ \E a \in Apps : SetDefault(s, a) PROVE BornKept
    BY <2>2 DEF ClearDefault, SetDefault, BornKept
  <2> QED  BY <1>4, <2>1, <2>2, OutsideCalm, BornSame
<1> QED  BY <1>1, <1>2, <1>3, <1>4 DEF Next

\* What default_provider_id_for_service returns.
ProvidersOk ==
  \A s \in Services :
    /\ chosen[s] # NoApp => Provider(s) = chosen[s]
    /\ chosen[s] = NoApp /\ (\A a \in Apps : <<s, a>> \notin providers) => Provider(s) = NoApp
    /\ chosen[s] = NoApp /\ (\E a \in Apps : <<s, a>> \in providers) =>
         /\ Provider(s) \in Apps /\ <<s, Provider(s)>> \in providers
         /\ \A b \in Apps : <<s, b>> \in providers => row[Provider(s)].born <= row[b].born
    /\ \A a \in Apps :
         /\ chosen[s] = NoApp /\ <<s, a>> \in providers
         /\ \A b \in Apps : <<s, b>> \in providers => row[a].born <= row[b].born
         => Provider(s) = a

LEMMA ProvidersKnown == AppsInv /\ BornInv => ProvidersOk
<1> SUFFICES ASSUME AppsInv, BornInv, NEW s \in Services
             PROVE  /\ chosen[s] # NoApp => Provider(s) = chosen[s]
                    /\ chosen[s] = NoApp /\ (\A a \in Apps : <<s, a>> \notin providers) => Provider(s) = NoApp
                    /\ chosen[s] = NoApp /\ (\E a \in Apps : <<s, a>> \in providers) =>
                         /\ Provider(s) \in Apps /\ <<s, Provider(s)>> \in providers
                         /\ \A b \in Apps : <<s, b>> \in providers => row[Provider(s)].born <= row[b].born
                    /\ \A a \in Apps :
                         /\ chosen[s] = NoApp /\ <<s, a>> \in providers
                         /\ \A b \in Apps : <<s, b>> \in providers => row[a].born <= row[b].born
                         => Provider(s) = a
  BY DEF ProvidersOk
<1>1. row \in [Apps -> Rows]
  BY Types DEF AppsInv
<1>2. \A a \in Apps : <<s, a>> \in providers => row[a].born \in Nat /\ row[a].born > 0
  <2>1. ASSUME NEW a \in Apps, <<s, a>> \in providers PROVE row[a].born > 0
    BY <2>1, SomeWork DEF Good, RowOk, Exists
  <2> QED  BY <1>1, <2>1 DEF Rows
<1>3. CASE chosen[s] # NoApp
  BY <1>3 DEF Provider
<1>4. CASE chosen[s] = NoApp /\ \A a \in Apps : <<s, a>> \notin providers
  BY <1>4 DEF Provider, Candidates
<1>5. CASE chosen[s] = NoApp /\ \E a \in Apps : <<s, a>> \in providers
  <2>1. PICK C \in SUBSET Apps : C = Candidates(s) /\ C # {} /\ \A a \in Apps : a \in C <=> <<s, a>> \in providers
    <3>1. /\ Candidates(s) \in SUBSET Apps /\ Candidates(s) # {}
          /\ \A a \in Apps : a \in Candidates(s) <=> <<s, a>> \in providers
      BY <1>5 DEF Candidates
    <3> QED  BY <3>1
  <2>2. PICK n \in {row[a].born : a \in C} : \A m \in {row[a].born : a \in C} : n <= m
    <3>1. {row[a].born : a \in C} \subseteq Nat /\ {row[a].born : a \in C} # {}
      BY <1>2, <2>1
    <3> QED  BY <3>1, LeastExists
  <2>3. \E a \in C : \A b \in C : row[a].born <= row[b].born
    BY <2>2
  <2>4. Incumbent(C) \in C /\ \A b \in C : row[Incumbent(C)].born <= row[b].born
    BY <2>3 DEF Incumbent
  <2>5. Provider(s) = Incumbent(C)
    BY <1>5, <2>1 DEF Provider
  <2>6. ASSUME NEW a \in C, \A b \in C : row[a].born <= row[b].born PROVE Incumbent(C) = a
    <3>1. row[a].born \in Nat /\ row[Incumbent(C)].born \in Nat /\ row[a].born > 0
      BY <1>2, <2>1, <2>4
    <3>2. row[a].born <= row[Incumbent(C)].born /\ row[Incumbent(C)].born <= row[a].born
      BY <2>4, <2>6
    <3>3. row[a].born = row[Incumbent(C)].born
      BY <3>1, <3>2
    <3> QED  BY <2>1, <2>4, <3>1, <3>3 DEF BornInv
  <2> QED  BY <1>5, <2>1, <2>4, <2>5, <2>6
<1> QED  BY <1>3, <1>4, <1>5

\* What an app's own services do to the ones who serve: the condition of Offer
\* and Overtake.
Moves(a) ==
  \A s \in Services :
    \/ Provider(s)' = Provider(s)
    \/ Provider(s) = NoApp /\ Provider(s)' = a
    \/ Provider(s) = a /\ <<s, a>> \notin providers'
    \/ /\ Provider(s)' = a /\ <<s, a>> \notin providers
       /\ Provider(s) \in Apps /\ row'[a].born < row[Provider(s)].born

LEMMA ProviderMoves ==
    ASSUME TableTypes, TableTypes', ProvidersOk, ProvidersOk', row \in [Apps -> Rows], NEW a \in Apps,
           row'[a].born \in Nat,
           \A b \in Apps \ {a} : row'[b].born = row[b].born,
           \A b \in Apps \ {a} : \A s \in Services : <<s, b>> \in providers' <=> <<s, b>> \in providers,
           \/ row'[a].born = row[a].born
           \/ (\A s \in Services : <<s, a>> \notin providers) /\ \A b \in Apps : row[b].born < row'[a].born,
           \A s \in Services : chosen'[s] = chosen[s] \/ (chosen[s] = a /\ <<s, a>> \notin providers')
    PROVE  Moves(a)
<1> SUFFICES ASSUME NEW s \in Services
             PROVE  \/ Provider(s)' = Provider(s)
                    \/ Provider(s) = NoApp /\ Provider(s)' = a
                    \/ Provider(s) = a /\ <<s, a>> \notin providers'
                    \/ /\ Provider(s)' = a /\ <<s, a>> \notin providers
                       /\ Provider(s) \in Apps /\ row'[a].born < row[Provider(s)].born
  BY DEF Moves
<1>0. \A b \in Apps : row[b].born \in Nat
  BY DEF Rows
<1>1. CASE chosen[s] # NoApp
  <2>1. Provider(s) = chosen[s]
    BY <1>1 DEF ProvidersOk
  <2>2. CASE chosen'[s] = chosen[s]
    <3>1. Provider(s)' = chosen'[s]
      BY <1>1, <2>2 DEF ProvidersOk
    <3> QED  BY <2>1, <2>2, <3>1
  <2> QED  BY <2>1, <2>2
<1>2. CASE chosen[s] = NoApp
  <2>1. chosen'[s] = NoApp
    BY <1>2, IdleIs
  <2>2. CASE \A b \in Apps : <<s, b>> \notin providers
    <3>1. Provider(s) = NoApp
      BY <1>2, <2>2 DEF ProvidersOk
    <3>2. CASE <<s, a>> \notin providers'
      <4>1. \A b \in Apps : <<s, b>> \notin providers'
        BY <2>2, <3>2
      <4>2. Provider(s)' = NoApp
        BY <2>1, <4>1 DEF ProvidersOk
      <4> QED  BY <3>1, <4>2
    <3>3. CASE <<s, a>> \in providers'
      <4>1. \A b \in Apps : <<s, b>> \in providers' => row'[a].born <= row'[b].born
        BY <2>2
      <4>2. Provider(s)' = a
        BY <2>1, <3>3, <4>1 DEF ProvidersOk
      <4> QED  BY <3>1, <4>2
    <3> QED  BY <3>2, <3>3
  <2>3. CASE \E b \in Apps : <<s, b>> \in providers
    <3>1. PICK p \in Apps : /\ p = Provider(s) /\ <<s, p>> \in providers
                            /\ \A b \in Apps : <<s, b>> \in providers => row[p].born <= row[b].born
      BY <1>2, <2>3 DEF ProvidersOk
    <3>2. CASE p = a /\ <<s, a>> \notin providers'
      BY <3>1, <3>2
    <3>3. CASE p = a /\ <<s, a>> \in providers'
      <4>1. row'[a].born = row[a].born
        BY <3>1, <3>3
      <4>2. \A b \in Apps : <<s, b>> \in providers' => row'[a].born <= row'[b].born
        BY <1>0, <3>1, <3>3, <4>1
      <4>3. Provider(s)' = a
        BY <2>1, <3>3, <4>2 DEF ProvidersOk
      <4> QED  BY <3>1, <3>3, <4>3
    <3>4. CASE p # a /\ (<<s, a>> \in providers' => row[p].born <= row'[a].born)
      <4>1. <<s, p>> \in providers' /\ row'[p].born = row[p].born
        BY <3>1, <3>4
      <4>2. \A b \in Apps : <<s, b>> \in providers' => row'[p].born <= row'[b].born
        BY <1>0, <3>1, <3>4, <4>1
      <4>3. Provider(s)' = p
        BY <2>1, <4>1, <4>2 DEF ProvidersOk
      <4> QED  BY <3>1, <4>3
    <3>5. CASE p # a /\ <<s, a>> \in providers' /\ ~(row[p].born <= row'[a].born)
      <4>1. row'[a].born < row[p].born
        BY <1>0, <3>5
      <4>2. <<s, a>> \notin providers
        <5>1. row'[a].born = row[a].born
          BY <1>0, <3>1, <4>1
        <5>2. ~(row[p].born <= row[a].born)
          BY <3>5, <5>1
        <5> QED  BY <3>1, <5>2
      <4>3. \A b \in Apps : <<s, b>> \in providers' => row'[a].born <= row'[b].born
        <5> SUFFICES ASSUME NEW b \in Apps, b # a, <<s, b>> \in providers' PROVE row'[a].born <= row'[b].born
          OBVIOUS
        <5>1. row[p].born <= row[b].born /\ row'[b].born = row[b].born
          BY <3>1
        <5> QED  BY <1>0, <4>1, <5>1
      <4>4. Provider(s)' = a
        <5>1. <<s, a>> \in providers'
          BY <3>5
        <5> QED  BY <2>1, <4>3, <5>1 DEF ProvidersOk
      <4> QED  BY <3>1, <4>1, <4>2, <4>4
    <3> QED  BY <3>2, <3>3, <3>4, <3>5
  <2> QED  BY <2>2, <2>3
<1> QED  BY <1>1, <1>2

\* Nothing that providers are chosen by has changed.
LEMMA ProviderStays ==
    ASSUME TableTypes, ProvidersOk, ProvidersOk', NEW s \in Services, BornKept,
           chosen'[s] = chosen[s], UNCHANGED providers
    PROVE  Provider(s)' = Provider(s)
<1>1. CASE chosen[s] # NoApp
  BY <1>1 DEF ProvidersOk
<1>2. CASE chosen[s] = NoApp /\ \A b \in Apps : <<s, b>> \notin providers
  BY <1>2 DEF ProvidersOk
<1>3. CASE chosen[s] = NoApp /\ \E b \in Apps : <<s, b>> \in providers
  <2>1. PICK p \in Apps : /\ p = Provider(s) /\ <<s, p>> \in providers
                          /\ \A b \in Apps : <<s, b>> \in providers => row[p].born <= row[b].born
    BY <1>3 DEF ProvidersOk
  <2>2. \A b \in Apps : <<s, b>> \in providers' => row'[p].born <= row'[b].born
    BY <2>1 DEF BornKept
  <2>3. chosen'[s] = NoApp /\ <<s, p>> \in providers'
    BY <1>3, <2>1
  <2>4. Provider(s)' = p
    BY <2>2, <2>3 DEF ProvidersOk
  <2> QED  BY <2>1, <2>4
<1> QED  BY <1>1, <1>2, <1>3

LEMMA CalmAgrees ==
    ASSUME TableTypes, ProvidersOk, ProvidersOk', Calm
    PROVE  Promise!Agree
<1>1. \A s \in Services : Provider(s)' = Provider(s)
  BY ProviderStays DEF Calm
<1>2. \A a \in Apps : \A v : Consented(a, v) => Consented(a, v)'
  BY DEF Calm, Histories, Consented
<1>3. /\ [s \in Services |-> Provider(s)]' = [s \in Services |-> Provider(s)]
      /\ [a \in Apps |-> container[a].code]' = [a \in Apps |-> container[a].code]
      /\ [a \in Apps |-> row[a].born]' = [a \in Apps |-> row[a].born]
      /\ providers' = providers
  BY <1>1 DEF Calm, BornKept
<1>4. \A a \in Apps : [b \in Apps |-> {v \in Versions(b) : Consented(b, v)}][a]
                        \subseteq [b \in Apps |-> {v \in Versions(b) : Consented(b, v)}]'[a]
  BY <1>2
<1> QED  BY <1>3, <1>4 DEF Promise!Agree

LEMMA ConsentedSame ==
    ASSUME UNCHANGED <<accepted, agreed, unseen>>
    PROVE  [a \in Apps |-> {v \in Versions(a) : Consented(a, v)}]' = [a \in Apps |-> {v \in Versions(a) : Consented(a, v)}]
<1>1. \A a : \A v : Consented(a, v)' <=> Consented(a, v)
  BY DEF Consented
<1> QED  BY <1>1

\* An app that begins to provide services, or ceases to.
LEMMA OfferStep ==
    ASSUME NEW a \in Apps, Moves(a), UNCHANGED <<accepted, agreed, unseen>>, providers \subseteq Services \X Apps,
           providers' \subseteq Services \X Apps, container \in [Apps -> Runs],
           container' \in {container, [container EXCEPT ![a] = Nowhere]},
           \A b \in Apps \ {a} : \A s \in Services : <<s, b>> \in providers' <=> <<s, b>> \in providers,
           \/ BornKept
           \/ /\ row[a].born = 0 /\ \A b \in Apps : row[b].born < row'[a].born
              /\ \A b \in Apps \ {a} : row'[b].born = row[b].born
    PROVE  Promise!Offer(a) \/ Promise!Overtake(a)
<1>1. \/ [b \in Apps |-> container[b].code]' = [b \in Apps |-> container[b].code]
      \/ [b \in Apps |-> container[b].code]' = [[b \in Apps |-> container[b].code] EXCEPT ![a] = 0]
  <2>1. CASE container' = container
    BY <2>1
  <2>2. CASE container' = [container EXCEPT ![a] = Nowhere]
    BY <2>2 DEF Nowhere, Runs
  <2> QED  BY <2>1, <2>2
<1>2. {q \in providers' : q[2] # a} = {q \in providers : q[2] # a}
  <2>1. \A q \in Services \X Apps : q[2] # a => (q \in providers' <=> q \in providers)
    OBVIOUS
  <2> QED  BY <2>1
<1>3. \/ [b \in Apps |-> row[b].born]' = [b \in Apps |-> row[b].born]
      \/ Promise!Comes(a)
  BY DEF BornKept, Promise!Comes
<1>4. \A s \in Services :
        LET old == [r \in Services |-> Provider(r)]
            new == [r \in Services |-> Provider(r)]' IN
        \/ new[s] = old[s]
        \/ old[s] = NoApp /\ new[s] = a
        \/ old[s] = a /\ <<s, a>> \notin providers'
        \/ new[s] = a /\ <<s, a>> \notin providers
           /\ [b \in Apps |-> row[b].born]'[a] < [b \in Apps |-> row[b].born][old[s]]
  <2>1. ASSUME NEW s \in Services, Provider(s) \in Apps, row'[a].born < row[Provider(s)].born
        PROVE  [b \in Apps |-> row[b].born]'[a] < [b \in Apps |-> row[b].born][Provider(s)]
    BY <2>1
  <2> SUFFICES ASSUME NEW s \in Services
               PROVE  \/ Provider(s)' = Provider(s)
                      \/ Provider(s) = NoApp /\ Provider(s)' = a
                      \/ Provider(s) = a /\ <<s, a>> \notin providers'
                      \/ Provider(s)' = a /\ <<s, a>> \notin providers
                         /\ [b \in Apps |-> row[b].born]'[a] < [b \in Apps |-> row[b].born][Provider(s)]
    OBVIOUS
  <2> QED  BY <2>1 DEF Moves
<1>5. Promise!Provide(a)
  BY <1>1, <1>2, <1>3, ConsentedSame DEF Promise!Provide
<1>6. \A s \in Services : Promise!Rightly(a, s) \/ Promise!Overtaken(a, s)
  BY <1>4 DEF Promise!Rightly, Promise!Overtaken
<1> QED  BY <1>5, <1>6 DEF Promise!Offer, Promise!Overtake

LEMMA StopStep ==
    ASSUME NEW a \in Apps, TableTypes, ProvidersOk, ProvidersOk', BornKept,
           UNCHANGED <<accepted, agreed, unseen, strayed, cut, providers, chosen>>,
           container \in [Apps -> Runs], container' = [container EXCEPT ![a] = Nowhere]
    PROVE  Promise!Stop(a)
<1>1. [s \in Services |-> Provider(s)]' = [s \in Services |-> Provider(s)]
  BY ProviderStays
<1>2. [b \in Apps |-> container[b].code]' = [[b \in Apps |-> container[b].code] EXCEPT ![a] = 0]
  BY DEF Nowhere, Runs
<1>3. [b \in Apps |-> row[b].born]' = [b \in Apps |-> row[b].born]
  BY DEF BornKept
<1> QED  BY <1>1, <1>2, <1>3, ConsentedSame DEF Promise!Stop, Unpromised

LEMMA RunStep ==
    ASSUME NEW a \in Apps, TableTypes, ProvidersOk, ProvidersOk', BornKept,
           UNCHANGED <<accepted, agreed, unseen, strayed, cut, providers, chosen>>,
           container \in [Apps -> Runs], NEW c \in Runs, container' = [container EXCEPT ![a] = c],
           a \notin strayed => c.code \in Versions(a) /\ Reviewed(a, c.code)
    PROVE  Promise!Run(a) \/ Promise!RunAnything(a)
<1>1. [s \in Services |-> Provider(s)]' = [s \in Services |-> Provider(s)]
  BY ProviderStays
<1>2. [b \in Apps |-> container[b].code]' = [[b \in Apps |-> container[b].code] EXCEPT ![a] = c.code]
  BY DEF Runs
<1>3. [b \in Apps |-> row[b].born]' = [b \in Apps |-> row[b].born]
  BY DEF BornKept
<1>4. CASE a \notin strayed /\ unseen[a] = {}
  <2>1. c.code # 0
    BY <1>4, DeclaredIs
  <2>2. Consented(a, c.code)
    BY <1>4, <2>1 DEF Reviewed, Consented
  <2>3. c.code \in [b \in Apps |-> {v \in Versions(b) : Consented(b, v)}][a]
    BY <1>4, <2>2
  <2> QED  BY <1>1, <1>2, <1>3, <2>3, ConsentedSame DEF Promise!Run, Unpromised
<1>5. CASE a \in strayed \/ unseen[a] # {}
  BY <1>1, <1>2, <1>3, <1>5, ConsentedSame DEF Promise!RunAnything, Unpromised
<1> QED  BY <1>4, <1>5

LEMMA ChooseStep ==
    ASSUME TableTypes, TableTypes', ProvidersOk, ProvidersOk', NEW s \in Services, BornKept,
           UNCHANGED <<accepted, agreed, unseen, strayed, cut, providers, container>>,
           \A r \in Services \ {s} : chosen'[r] = chosen[r],
           chosen'[s] = NoApp \/ <<s, chosen'[s]>> \in providers
    PROVE  Promise!Choose(s)
<1>1. \A r \in Services \ {s} : Provider(r)' = Provider(r)
  BY ProviderStays
<1>2. Provider(s)' = NoApp \/ <<s, Provider(s)'>> \in providers
  <2>1. CASE chosen'[s] # NoApp
    <3>1. Provider(s)' = chosen'[s]
      BY <2>1 DEF ProvidersOk
    <3> QED  BY <2>1, <3>1
  <2>2. CASE chosen'[s] = NoApp /\ \A a \in Apps : <<s, a>> \notin providers'
    BY <2>2 DEF ProvidersOk
  <2>3. CASE chosen'[s] = NoApp /\ \E a \in Apps : <<s, a>> \in providers'
    <3>1. <<s, Provider(s)'>> \in providers'
      BY <2>3 DEF ProvidersOk
    <3> QED  BY <3>1
  <2> QED  BY <2>1, <2>2, <2>3
<1>3. [r \in Services |-> Provider(r)]' = [[r \in Services |-> Provider(r)] EXCEPT ![s] = Provider(s)']
  BY <1>1
<1>4. [b \in Apps |-> row[b].born]' = [b \in Apps |-> row[b].born]
  BY DEF BornKept
<1>5. [r \in Services |-> Provider(r)]'[s] = Provider(s)'
  OBVIOUS
<1> QED  BY <1>2, <1>3, <1>4, <1>5, ConsentedSame DEF Promise!Choose, Unpromised

ConsentInv == AppsInv /\ BornInv /\ ProvidersOk

LEMMA ConsentTyped ==
    ConsentInv => /\ TableTypes /\ row \in [Apps -> Rows] /\ container \in [Apps -> Runs]
                  /\ providers \subseteq Services \X Apps
  BY Types DEF ConsentInv, AppsInv, TableTypes

\* The steps of a task that an abstract step of Consent goes with.
LEMMA TaskImplements ==
    ASSUME ConsentInv, ConsentInv', TableTypes', row' \in [Apps -> Rows], NEW t \in Tasks, Progress(t)
    PROVE  Promise!Next
<1> USE DEF ConsentInv
<1>0. TableTypes /\ row \in [Apps -> Rows] /\ container \in [Apps -> Runs] /\ providers \subseteq Services \X Apps
  BY ConsentTyped
<1>1. CASE Calm
  BY <1>0, <1>1, CalmAgrees DEF Promise!Next
<1>2. CASE InsertRow(t)
  <2>1. PICK a \in Apps : /\ a = task[t].app /\ row[a].status = "none" /\ row[a].born = 0
                          /\ row'[a].born \in Nat /\ \A b \in Apps : row[b].born < row'[a].born
                          /\ \A b \in Apps \ {a} : row'[b].born = row[b].born
    BY <1>2, InsertBears
  <2>2. Doing(t, a) /\ task[t].pc = "insert"
    BY <1>2, <2>1, AtStage DEF InsertRow
  <2>3. Good(a, task[t]) /\ task[t].was \in Versions(a)
    BY <2>1, <2>2, Begun DEF Good, StageOk
  <2>4. /\ providers' = Registered(a, Declared[a][task[t].was])
        /\ UNCHANGED <<container, chosen, accepted, agreed, unseen>>
    BY <1>2, <2>1 DEF InsertRow, diskVars, ghostVars
  <2>5. /\ providers' \subseteq Services \X Apps
        /\ \A b \in Apps \ {a} : \A s \in Services : <<s, b>> \in providers' <=> <<s, b>> \in providers
    BY <1>0, <2>3, <2>4, RegisteredIs
  <2>6. \A s \in Services : <<s, a>> \notin providers
    BY <2>1, <2>3 DEF Good, RowOk, Exists
  <2>7. Moves(a)
    <3>1. \A s \in Services : chosen'[s] = chosen[s] \/ (chosen[s] = a /\ <<s, a>> \notin providers')
      BY <2>4
    <3> QED  BY <3>1, <1>0, <2>1, <2>4, <2>5, <2>6, ProviderMoves
  <2>8. Promise!Offer(a) \/ Promise!Overtake(a)
    BY <1>0, <2>1, <2>4, <2>5, <2>7, OfferStep
  <2> QED  BY <2>8 DEF Promise!Next
<1>3. CASE Sync(t) \/ Run(t)
  <2>1. PICK a \in Apps : \E v \in Versions(a) :
          providers' = Registered(a, Declared[a][v]) /\ UNCHANGED <<container, chosen, accepted, agreed, unseen>>
    <3>1. CASE Sync(t)
      <4>1. PICK a \in Apps : a = task[t].app /\ Doing(t, a)
        BY <3>1, AtStage DEF Sync
      <4>2. tree[a] \in Versions(a)
        BY <3>1, <4>1, Begun DEF Good, DiskOk, Sync, Parses
      <4> QED  BY <3>1, <4>1, <4>2 DEF Sync, diskVars
    <3>2. CASE Run(t)
      <4>1. PICK a \in Apps : a = task[t].app /\ Doing(t, a) /\ task[t].pc = "run"
        BY <3>2, AtStage DEF Run
      <4>2. task[t].was \in Versions(a)
        BY <4>1, Begun DEF Good, StageOk
      <4> QED  BY <3>2, <4>1, <4>2 DEF Run, diskVars, ghostVars
    <3> QED  BY <1>3, <3>1, <3>2
  <2>2. /\ providers' \subseteq Services \X Apps
        /\ \A b \in Apps \ {a} : \A s \in Services : <<s, b>> \in providers' <=> <<s, b>> \in providers
    BY <1>0, <2>1, RegisteredIs
  <2>3. BornKept
    BY <1>3, ActiveBorn
  <2>4. row'[a].born \in Nat /\ row'[a].born = row[a].born /\ \A b \in Apps \ {a} : row'[b].born = row[b].born
    BY <1>0, <2>3 DEF BornKept, Rows
  <2>5. Moves(a)
    <3>1. \A s \in Services : chosen'[s] = chosen[s] \/ (chosen[s] = a /\ <<s, a>> \notin providers')
      BY <2>1
    <3> QED  BY <3>1, <1>0, <2>1, <2>2, <2>4, ProviderMoves
  <2>6. Promise!Offer(a) \/ Promise!Overtake(a)
    BY <1>0, <2>1, <2>2, <2>3, <2>5, OfferStep
  <2> QED  BY <2>6 DEF Promise!Next
<1>4. CASE RemoveWorks(t)
  <2>1. PICK a \in Apps : a = task[t].app
    BY <1>4, AtStage DEF RemoveWorks
  <2>2. /\ container' = [container EXCEPT ![a] = Nowhere] /\ providers' = {q \in providers : q[2] # a}
        /\ chosen' = [s \in Services |-> IF chosen[s] = a THEN NoApp ELSE chosen[s]]
        /\ UNCHANGED <<accepted, agreed, unseen>>
    BY <1>4, <2>1 DEF RemoveWorks
  <2>3. /\ \A b \in Apps \ {a} : \A s \in Services : <<s, b>> \in providers' <=> <<s, b>> \in providers
        /\ providers' \subseteq Services \X Apps /\ \A s \in Services : <<s, a>> \notin providers'
    BY <1>0, <2>2
  <2>4. \A s \in Services : chosen'[s] = chosen[s] \/ (chosen[s] = a /\ <<s, a>> \notin providers')
    BY <2>2, <2>3
  <2>5. BornKept
    BY <1>4, ActiveBorn
  <2>6. row'[a].born \in Nat /\ row'[a].born = row[a].born /\ \A b \in Apps \ {a} : row'[b].born = row[b].born
    BY <1>0, <2>5 DEF BornKept, Rows
  <2>7. Moves(a)
    BY <1>0, <2>3, <2>4, <2>6, ProviderMoves
  <2>8. Promise!Offer(a) \/ Promise!Overtake(a)
    BY <1>0, <2>2, <2>3, <2>5, <2>7, OfferStep
  <2> QED  BY <2>8 DEF Promise!Next
<1>5. CASE Claim(t)
  <2>1. PICK a \in Apps : a = task[t].app /\ Doing(t, a) /\ task[t].pc = "claim"
    BY <1>5, AtStage DEF Claim
  <2>2. row[a].status \in {"running", "error"}
    BY <2>1, Begun DEF Good, StageOk
  <2>3. container' = [container EXCEPT ![a] = Nowhere] /\ UNCHANGED <<accepted, agreed, unseen, strayed, cut, providers, chosen>>
    BY <1>5, <2>1, <2>2 DEF Claim, Busy, Launching, ghostVars
  <2>4. Promise!Stop(a)
    BY <1>0, <1>5, <2>3, ActiveBorn, StopStep
  <2> QED  BY <2>4 DEF Promise!Next
<1>6. CASE Launch(t)
  <2>1. PICK a \in Apps : a = task[t].app /\ Doing(t, a) /\ task[t].pc = "launch"
    BY <1>6, AtStage DEF Launch
  <2>2. PICK c : c = [code |-> image[a], manifest |-> task[t].was]
    OBVIOUS
  <2>3. c \in Runs /\ c.code = image[a]
    BY <2>1, <2>2, Begun DEF Works, Runs
  <2>4. container' = [container EXCEPT ![a] = c] /\ UNCHANGED <<accepted, agreed, unseen, strayed, cut, providers, chosen>>
    BY <1>6, <2>1, <2>2 DEF Launch, Started, ghostVars
  <2>5. a \notin strayed => c.code \in Versions(a) /\ Reviewed(a, c.code)
    BY <1>6, <2>1, <2>3, Begun DEF Launch, Good, DiskOk, ReviewOk, AllReviewed
  <2>6. Promise!Run(a) \/ Promise!RunAnything(a)
    BY <1>0, <1>6, <2>3, <2>4, <2>5, ActiveBorn, RunStep
  <2> QED  BY <2>6 DEF Promise!Next
<1> QED  BY <1>1, <1>2, <1>3, <1>4, <1>5, <1>6, ProgressCalm

LEMMA RequestImplements ==
    ASSUME ConsentInv, ConsentInv', NEW t \in Tasks, NEW a \in Apps, Request(t, a)
    PROVE  Promise!Next
<1> USE DEF ConsentInv
<1>0. TableTypes /\ container \in [Apps -> Runs]
  BY ConsentTyped
<1>1. CASE Calm
  BY <1>0, <1>1, CalmAgrees DEF Promise!Next
<1>2. CASE Recover(t, a)
  <2>1. container' = [container EXCEPT ![a] = Nowhere] /\ UNCHANGED <<accepted, agreed, unseen, strayed, cut, providers, chosen>>
    BY <1>2 DEF Recover, ghostVars
  <2>2. Promise!Stop(a)
    BY <1>0, <1>2, <2>1, RecoverBorn, StopStep
  <2> QED  BY <2>2 DEF Promise!Next
<1> QED  BY <1>1, <1>2, RequestCalm

LEMMA OutsideImplements ==
    ASSUME ConsentInv, ConsentInv', TableTypes', Outside
    PROVE  Promise!Next
<1> USE DEF ConsentInv
<1>0. TableTypes
  BY ConsentTyped
<1>1. CASE Calm
  BY <1>0, <1>1, CalmAgrees DEF Promise!Next
<1>2. ASSUME NEW s \in Services, ClearDefault(s) \/ \E a \in Apps : SetDefault(s, a)
      PROVE  Promise!Next
  <2>1. /\ UNCHANGED <<row, providers, container, accepted, agreed, unseen, strayed, cut>>
        /\ \E x \in Apps \cup {NoApp} : chosen' = [chosen EXCEPT ![s] = x] /\ (x = NoApp \/ <<s, x>> \in providers)
    BY <1>2 DEF ClearDefault, SetDefault, diskVars, ghostVars
  <2>2. /\ \A r \in Services \ {s} : chosen'[r] = chosen[r]
        /\ chosen'[s] = NoApp \/ <<s, chosen'[s]>> \in providers
    BY <1>0, <2>1 DEF TableTypes
  <2>3. BornKept
    BY <2>1 DEF BornKept
  <2>4. Promise!Choose(s)
    BY <1>0, <2>1, <2>2, <2>3, ChooseStep
  <2> QED  BY <2>4 DEF Promise!Next
<1> QED  BY <1>1, <1>2, OutsideCalm

\* What runs was agreed to when it was launched, but for the apps that nothing is
\* promised about (Unpromised), and a service moves only by the owner's choice,
\* when the app that had it ceases to provide it, or by Overtake, when an app
\* installed earlier begins to: Install implements Consent
\* (_gate_update_review, default_provider_id_for_service).
THEOREM ImplementsConsent == Spec => KeepsConsent
<1>1. Init => Promise!Init
  <2> SUFFICES ASSUME Init PROVE Promise!Init
    OBVIOUS
  <2>1. Unpromised = {} /\ \A a \in Apps : {v \in Versions(a) : Consented(a, v)} = {}
    BY DEF Init, Consented, Unpromised
  <2>2. \A s \in Services : Provider(s) = NoApp
    BY DEF Init, Provider, Candidates
  <2>3. \A a \in Apps : container[a].code = 0 /\ row[a].born = 0
    BY DEF Init, Nowhere, NoRow
  <2> QED  BY <2>1, <2>2, <2>3 DEF Init, Promise!Init
<1>2. Init => BornInv
  <2> SUFFICES ASSUME Init PROVE BornInv
    OBVIOUS
  <2>1. \A a \in Apps : row[a].born = 0
    BY DEF Init, NoRow
  <2>2. {b \in Apps : row[b].born > 0} = {}
    BY <2>1
  <2>3. Cardinality({b \in Apps : row[b].born > 0}) = 0
    BY <2>2, FS_EmptySet
  <2>4. \A a \in Apps : row[a].born <= Cardinality({b \in Apps : row[b].born > 0})
    BY <2>1, <2>3
  <2>5. \A a, b \in Apps : row[a].born > 0 /\ row[a].born = row[b].born => a = b
    BY <2>1
  <2> QED  BY <2>4, <2>5 DEF BornInv
<1>3. ConsentInv => TableTypes /\ row \in [Apps -> Rows]
  BY ConsentTyped
<1>4. ASSUME ConsentInv, ConsentInv', TableTypes', row' \in [Apps -> Rows], [Next]_vars
      PROVE  [Promise!Next]_(Promise!vars)
  <2>1. CASE UNCHANGED vars
    <3>1. UNCHANGED <<row, container, providers, chosen, maps, accepted, agreed, unseen>>
      BY <2>1 DEF vars, diskVars, tableVars, ghostVars
    <3>2. Promise!Agree
      BY <1>3, <1>4, <3>1, CalmTasks, CalmAgrees DEF ConsentInv
    <3> QED  BY <3>2 DEF Promise!Next
  <2>2. CASE Next
    BY <1>4, <2>2, TaskImplements, RequestImplements, OutsideImplements DEF Next
  <2> QED  BY <1>4, <2>1, <2>2
<1>5. Spec => []ConsentInv
  <2>1. Init => AppsInv /\ BornInv
    BY <1>2, AppsInit
  <2>2. AppsInv /\ BornInv /\ [Next]_vars => (AppsInv /\ BornInv)'
    BY AppsKept, BornStep
  <2>3. AppsInv /\ BornInv => ConsentInv
    BY ProvidersKnown DEF ConsentInv
  <2> QED  BY <2>1, <2>2, <2>3, PTL DEF Spec
<1>6. ConsentInv /\ ConsentInv' /\ (TableTypes /\ row \in [Apps -> Rows])' /\ [Next]_vars
        => [Promise!Next]_(Promise!vars)
  BY <1>4
<1> QED  BY <1>1, <1>3, <1>5, <1>6, PTL DEF Spec, KeepsConsent, Promise!Spec

=============================================================================
