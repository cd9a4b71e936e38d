--------------------------- MODULE AppDataProofs ----------------------------
(* Proofs about AppData: an app's files follow its name, no other app gets at *)
(* them, and an image is built from the app's own source, for any number of   *)
(* apps, names and requests, an owner who waits for each answer, and a        *)
(* machine that may stop at any time but while files are moved or removed.    *)
EXTENDS AppData, TLAPS

-----------------------------------------------------------------------------
(* The inductive invariant *)

\* An owner who waits for each answer and renames to names nothing is left
\* under, on a machine that stays up while files are moved or removed.
Patient == Habits \cap {"overlap", "reuse"} = {} /\ "midway" \notin Faults

Busy(a)     == ~At(a, "idle")
Renaming(a) == task[a].pc \in Tiers \cup {"record"}

\* The directory of app a in tier t: a rename moves them one after the other.
Place(a, t) == IF Renaming(a) /\ t \in task[a].moved THEN task[a].to ELSE row[a].name

\* The tiers a rename has been through when it comes to tier pc.
Before(pc) == {t \in Tiers : \/ pc = "record"
                             \/ pc = "archive" /\ t # "archive"
                             \/ pc = "temp" /\ t = "app_data"}

\* Each name is one app's, and a request at work has its new name to itself.
NamesApart ==
  /\ \A a, b \in Apps : Busy(a) /\ Busy(b) => a = b
  /\ \A a \in Apps : Exists(a) => row[a].name \in Names
  /\ \A a, b \in Apps : Exists(a) /\ Exists(b) /\ row[a].name = row[b].name => a = b
  /\ \A a \in Apps : Busy(a) => task[a].to \in Names /\ ~Taken(task[a].to)

\* What the status of an app says of the request and the thread at work on it.
Working ==
  \A a \in Apps :
    /\ thread[a] # "none" => At(a, "idle")
    /\ thread[a] \in {"deploy", "start"} => row[a].status = "building"
    /\ thread[a] \in {"remove", "keep", "delete"} => row[a].status = "removing"
    /\ At(a, "insert") => row[a].status = "none"
    /\ Renaming(a) => row[a].status = "stopped" /\ task[a].prior # "none"
    /\ Renaming(a) \/ thread[a] = "remove" => Healthy(a)

\* b's files are in directory n of tier t because that is where it is, because
\* its removal has left them there or because its rename has.
Belongs(b, t, n) ==
  \/ t \in astray[b]
  \/ /\ t \in wrote[b]
     /\ Exists(b) => n = Place(b, t)
     /\ (Exists(b) /\ thread[b] # "delete") \/ b \in left

\* An app writes where its manifest lets it, and whatever is in a directory is
\* the files of the app it belongs to, or was left by a removal or a rename.
Traces ==
  /\ \A a \in Apps : /\ wrote[a] \subseteq Asked(a)
                     /\ row[a].status = "none" => wrote[a] = {} /\ astray[a] = {}
  /\ \A t \in Tiers, n \in Names : \A b \in disk[t][n] \cap Apps : Belongs(b, t, n)

\* Nothing of an app's own is missing from its directories.
Complete ==
  \A a \in Apps : Exists(a) =>
    \A t \in wrote[a] \ astray[a] : a \in disk[t][Place(a, t)]

\* A rename has moved all there was to move so far, to directories that were not
\* there, and has left none where they were.
Moves ==
  \A a \in Apps : Renaming(a) =>
    /\ task[a].moved \subseteq Before(task[a].pc)
    /\ (wrote[a] \ astray[a]) \cap Before(task[a].pc) \subseteq task[a].moved
    /\ \A t \in task[a].moved : disk[t][row[a].name] = Absent
    /\ \A t \in Tiers \ task[a].moved : disk[t][task[a].to] = Absent
    /\ "temp" \notin task[a].moved => repo[task[a].to] = NoApp

\* The source goes with the temp directory, and is the app's own.
Sources ==
  /\ \A n \in Names : repo[n] # NoApp => disk["temp"][n] # Absent
  /\ \A a \in Apps : Exists(a) => repo[Place(a, "temp")] \in {a, NoApp}
  /\ \A a \in Apps : At(a, "insert") => repo[task[a].to] = a
  /\ \A a \in Apps : image[a] \in {a, NoApp}

IInv == TypeOK /\ NamesApart /\ Working /\ Traces /\ Complete /\ Moves /\ Sources

-----------------------------------------------------------------------------
(* What the helpers write *)

Rows     == [Apps -> [status : {"none", "building", "running", "stopped", "error",
                                "removing", "gone"},
                      name : Names \cup {NoName}]]
Requests == [Apps -> [pc : {"idle", "insert", "app_data", "temp", "archive", "record"},
                      to : Names \cup {NoName},
                      prior : {"none", "running", "stopped", "error"},
                      moved : SUBSET Tiers]]
Disks    == [Tiers -> [Names -> (SUBSET Apps) \cup {Absent}]]
Statuses == {"none", "building", "running", "stopped", "error", "removing", "gone"}

LEMMA Typed ==
    ASSUME TypeOK
    PROVE  row \in Rows /\ task \in Requests /\ disk \in Disks /\ events \in 0..MaxEvents
  BY DEF TypeOK, Rows, Requests, Disks

\* An absent directory holds nobody's files.
LEMMA AbsentFacts ==
    /\ Absent \cap Apps = {}
    /\ \A a \in Apps : \A d : a \in d => d # Absent
    /\ \A d : (d \ Absent) \cap Apps = d \cap Apps
    /\ \A d \in (SUBSET Apps) \cup {Absent} : (d \ Absent) \in SUBSET Apps /\ (d \ Absent) # Absent
<1>1. NoApp \in Absent /\ NoApp \notin Apps /\ \A x : x \in Absent <=> x = NoApp
  BY AppDataAssumption DEF Absent
<1>2. \A d \in (SUBSET Apps) \cup {Absent} : (d \ Absent) \in SUBSET Apps
  BY <1>1
<1>3. \A d : (d \ Absent) # Absent
  BY <1>1
<1>4. \A d : (d \ Absent) \cap Apps = d \cap Apps
  BY <1>1
<1> QED  BY <1>1, <1>2, <1>3, <1>4

LEMMA EventTyped ==
    ASSUME TypeOK, Event
    PROVE  events' \in 0..MaxEvents
  BY AppDataAssumption DEF Event, TypeOK

LEMMA StatusFields ==
    ASSUME row \in Rows, NEW a \in Apps, NEW s \in Statuses, SetStatus(a, s)
    PROVE  /\ row' \in Rows
           /\ \A b \in Apps : /\ row'[b].name = row[b].name
                              /\ row'[b].status = IF b = a THEN s ELSE row[b].status
  BY DEF SetStatus, Rows, Statuses

LEMMA SpawnFields ==
    ASSUME TypeOK, NEW a \in Apps, Spawn(a, "none") \/ Spawn(a, "deploy") \/ Spawn(a, "start")
                                   \/ Spawn(a, "remove") \/ Spawn(a, "keep") \/ Spawn(a, "delete")
    PROVE  /\ thread' \in [Apps -> {"none", "deploy", "start", "remove", "keep", "delete"}]
           /\ \A b \in Apps : b # a => thread'[b] = thread[b]
  BY DEF Spawn, TypeOK

LEMMA LeaveFields ==
    ASSUME task \in Requests, NEW a \in Apps, Leave(a)
    PROVE  /\ task' \in Requests
           /\ \A b \in Apps : task'[b] = IF b = a THEN NoTask ELSE task[b]
<1>1. NoTask \in [pc : {"idle", "insert", "app_data", "temp", "archive", "record"},
                  to : Names \cup {NoName},
                  prior : {"none", "running", "stopped", "error"},
                  moved : SUBSET Tiers]
  BY DEF NoTask
<1> QED  BY <1>1 DEF Leave, Enter, Requests

\* Directories that are made are empty.
LEMMA MadeFields ==
    ASSUME disk \in Disks, NEW a \in Apps, NEW n \in Names
    PROVE  /\ Made(a, n) \in Disks
           /\ \A t \in Tiers, m \in Names :
                /\ Made(a, n)[t][m] = disk[t][m] \/ (m = n /\ disk[t][m] = Absent /\ Made(a, n)[t][m] = {})
                /\ Made(a, n)[t][m] \cap Apps = disk[t][m] \cap Apps
<1>1. ASSUME NEW t \in Tiers
      PROVE  /\ Made(a, n)[t] \in [Names -> (SUBSET Apps) \cup {Absent}]
             /\ \A m \in Names : Made(a, n)[t][m] = disk[t][m]
                                 \/ (m = n /\ disk[t][m] = Absent /\ Made(a, n)[t][m] = {})
  BY DEF Made, Disks
<1>2. Made(a, n) \in Disks
  BY <1>1 DEF Made, Disks
<1> QED  BY <1>1, <1>2, AbsentFacts

-----------------------------------------------------------------------------
(* Requests that move no files *)

\* In the beginning nothing is installed.
LEMMA InitInv == Init => IInv
<1> SUFFICES ASSUME Init
             PROVE  IInv
  OBVIOUS
<1>1. /\ \A a \in Apps : row[a].status = "none" /\ row[a].name = NoName /\ task[a].pc = "idle"
                         /\ thread[a] = "none" /\ wrote[a] = {} /\ image[a] = NoApp
                         /\ astray[a] = {}
      /\ \A t \in Tiers, n \in Names : disk[t][n] = Absent
      /\ \A n \in Names : repo[n] = NoApp
  BY DEF Init, NoTask
<1>2. TypeOK
  <2>1. NoTask \in [pc : {"idle", "insert", "app_data", "temp", "archive", "record"},
                    to : Names \cup {NoName},
                    prior : {"none", "running", "stopped", "error"},
                    moved : SUBSET Tiers]
    BY DEF NoTask
  <2>2. row \in Rows /\ task \in Requests
    BY <2>1 DEF Init, Rows, Requests
  <2>3. disk \in Disks
    <3>1. [n \in Names |-> Absent] \in [Names -> (SUBSET Apps) \cup {Absent}]
      <4>1. Absent \in (SUBSET Apps) \cup {Absent}
        OBVIOUS
      <4> QED  BY <4>1
    <3> QED  BY <3>1 DEF Init, Disks
  <2>4. events \in 0..MaxEvents
    BY AppDataAssumption DEF Init
  <2>5. thread \in [Apps -> {"none", "deploy", "start", "remove", "keep", "delete"}]
    BY DEF Init
  <2> QED  BY <2>2, <2>3, <2>4, <2>5 DEF Init, TypeOK, Rows, Requests, Disks
<1>3. NamesApart /\ Working
  BY <1>1 DEF NamesApart, Working, Busy, Renaming, At, Exists, Tiers
<1>4. Traces /\ Complete
  BY <1>1, AbsentFacts DEF Traces, Complete, Exists
<1>5. Moves /\ Sources
  BY <1>1 DEF Moves, Sources, Renaming, At, Exists, Tiers
<1> QED  BY <1>2, <1>3, <1>4, <1>5 DEF IInv

\* A request is made while no other is at work, and not about an app in the
\* hands of a thread.
LEMMA Admitted ==
    ASSUME Patient, NEW a \in Apps, Admit(a)
    PROVE  thread[a] = "none" /\ \A b \in Apps : At(b, "idle") /\ ~Busy(b) /\ ~Renaming(b)
<1>1. "overlap" \notin Habits
  BY DEF Patient
<1>2. thread[a] = "none" /\ \A b \in Apps : At(b, "idle")
  BY <1>1 DEF Admit
<1> QED  BY <1>2 DEF Busy, Renaming, At, Tiers

\* A new status of an installed app, and a thread to go with it, between requests.
LEMMA StatusInv ==
    ASSUME IInv, NEW a \in Apps, NEW s \in Statuses, SetStatus(a, s), Exists(a), Admit(a), Patient,
           s \notin {"none", "gone"}, row[a].status # "removing",
           UNCHANGED <<repo, mounted, task, image, wrote, left, astray>>,
           disk' \in Disks,
           \A t \in Tiers, n \in Names :
              disk'[t][n] \cap Apps = disk[t][n] \cap Apps /\ (disk[t][n] # Absent => disk'[t][n] # Absent),
           \/ s = "stopped" /\ thread' = thread
           \/ s = "building" /\ Spawn(a, "start")
           \/ s = "removing" /\ (Spawn(a, "keep") \/ (Spawn(a, "remove") /\ Healthy(a)))
    PROVE  IInv'
<1>0. /\ IInv /\ TypeOK /\ row \in Rows /\ task \in Requests /\ disk \in Disks
      /\ thread[a] = "none" /\ \A b \in Apps : At(b, "idle") /\ ~Busy(b) /\ ~Renaming(b)
      /\ Admit(a)
  BY Typed, Admitted DEF IInv
<1>1. /\ row' \in Rows
      /\ \A b \in Apps : /\ row'[b].name = row[b].name
                         /\ row'[b].status = IF b = a THEN s ELSE row[b].status
  BY <1>0, StatusFields
<1>2. /\ thread' \in [Apps -> {"none", "deploy", "start", "remove", "keep", "delete"}]
      /\ \A b \in Apps : b # a => thread'[b] = thread[b]
      /\ thread'[a] \in {"none", "start", "keep", "remove"}
      /\ thread'[a] = "start" => s = "building"
      /\ thread'[a] \in {"keep", "remove"} => s = "removing"
      /\ thread'[a] = "remove" => Healthy(a)
  BY <1>0, SpawnFields DEF Spawn, TypeOK
<1>3. TypeOK'
  BY <1>0, <1>1, <1>2, EventTyped DEF TypeOK, Admit, Rows, Disks
<1>4. /\ \A b \in Apps : (Exists(b)' <=> Exists(b)) /\ At(b, "idle")' /\ ~Busy(b)' /\ ~Renaming(b)'
      /\ \A b \in Apps, t \in Tiers : Place(b, t) = row[b].name /\ Place(b, t)' = row[b].name
  BY <1>0, <1>1 DEF Exists, At, Busy, Renaming, Place
<1>5. NamesApart'
  BY <1>0, <1>1, <1>4 DEF IInv, NamesApart
<1>6. Working'
  <2> SUFFICES ASSUME NEW b \in Apps
               PROVE  /\ thread'[b] # "none" => At(b, "idle")'
                      /\ thread'[b] \in {"deploy", "start"} => row'[b].status = "building"
                      /\ thread'[b] \in {"remove", "keep", "delete"} => row'[b].status = "removing"
                      /\ ~At(b, "insert")'
                      /\ thread'[b] = "remove" => Healthy(b)'
    BY <1>4 DEF Working
  <2>1. ~At(b, "insert")'
    BY <1>0 DEF At
  <2>2. Healthy(b)' <=> Healthy(b)
    BY DEF Healthy
  <2>3. CASE b = a
    BY <1>1, <1>2, <1>4, <2>1, <2>2, <2>3
  <2>4. CASE b # a
    BY <1>0, <1>1, <1>2, <1>4, <2>1, <2>2, <2>4 DEF IInv, Working
  <2> QED  BY <2>3, <2>4
<1>7. Traces'
  <2>1. \A b \in Apps : wrote'[b] \subseteq Asked(b)' /\ (row'[b].status = "none" => wrote'[b] = {} /\ astray'[b] = {})
    BY <1>0, <1>1 DEF IInv, Traces, Asked
  <2>2. \A b \in Apps : thread'[b] = "delete" => thread[b] = "delete"
    BY <1>2
  <2>3. ASSUME NEW t \in Tiers, NEW n \in Names, NEW b \in disk'[t][n] \cap Apps
        PROVE  Belongs(b, t, n)'
    <3>1. b \in disk[t][n] \cap Apps
      OBVIOUS
    <3>2. Belongs(b, t, n)
      BY <3>1 DEF IInv, Traces
    <3> QED  BY <1>0, <1>4, <2>2, <3>2 DEF Belongs
  <2> QED  BY <2>1, <2>3 DEF Traces
<1>8. Complete'
  <2> SUFFICES ASSUME NEW b \in Apps, Exists(b)',
                      NEW t \in wrote'[b] \ astray'[b]
               PROVE  b \in disk'[t][Place(b, t)']
    BY DEF Complete
  <2>1. t \in Tiers /\ Exists(b)
    BY <1>0, <1>4 DEF TypeOK
  <2>2. b \in disk[t][row[b].name]
    BY <1>0, <1>4, <2>1 DEF IInv, Complete
  <2>3. row[b].name \in Names
    BY <1>0, <2>1 DEF IInv, NamesApart, Exists
  <2> QED  BY <1>4, <2>1, <2>2, <2>3
<1>9. Moves'
  BY <1>4 DEF Moves
<1>10. Sources'
  <2>1. "temp" \in Tiers
    BY DEF Tiers
  <2>2. \A b \in Apps : Exists(b)' => repo'[Place(b, "temp")'] \in {b, NoApp}
    BY <1>4, <2>1 DEF IInv, Sources
  <2>3. \A b \in Apps : ~At(b, "insert")'
    BY <1>0 DEF At
  <2> QED  BY <2>1, <2>2, <2>3 DEF IInv, Sources
<1> QED  BY <1>3, <1>5, <1>6, <1>7, <1>8, <1>9, <1>10 DEF IInv

\* reload_app makes the temp directory, stop_app and remove_app only write the row.
LEMMA RequestInv ==
    ASSUME Patient, IInv, NEW a \in Apps,
           Reload(a) \/ StopApp(a) \/ \E keep \in BOOLEAN : Remove(a, keep)
    PROVE  IInv'
<1>0. TypeOK /\ row \in Rows /\ task \in Requests /\ disk \in Disks
  BY Typed DEF IInv
<1>1. CASE Reload(a)
  <2>1. row[a].name \in Names /\ Exists(a) /\ "temp" \in Tiers
    BY <1>1 DEF Reload, IInv, NamesApart, Exists, Tiers
  <2>2. disk' = [disk EXCEPT !["temp"][row[a].name] = @ \ Absent]
    BY <1>1 DEF Reload
  <2>3. \A t \in Tiers, n \in Names :
          \/ disk'[t][n] = disk[t][n]
          \/ disk'[t][n] = disk[t][n] \ Absent /\ disk'[t][n] \subseteq Apps
    BY <1>0, <2>1, <2>2, AbsentFacts DEF Disks
  <2>4. disk' \in Disks
    BY <1>0, <2>1, <2>2, AbsentFacts DEF Disks
  <2>5. \A t \in Tiers, n \in Names :
          disk'[t][n] \cap Apps = disk[t][n] \cap Apps /\ (disk[t][n] # Absent => disk'[t][n] # Absent)
    BY <2>3, AbsentFacts, AppDataAssumption DEF Absent
  <2> QED  BY <1>1, <2>1, <2>4, <2>5, StatusInv DEF Reload, Statuses
<1>2. CASE StopApp(a)
  BY <1>0, <1>2, StatusInv DEF StopApp, Statuses, Exists
<1>3. CASE \E keep \in BOOLEAN : Remove(a, keep)
  BY <1>0, <1>3, StatusInv DEF Remove, Deletable, Statuses
<1> QED  BY <1>1, <1>2, <1>3

\* The clone is the new app's, and nobody has the name.
LEMMA AddInv ==
    ASSUME Patient, IInv, NEW a \in Apps, NEW n \in Names, AddApp(a, n)
    PROVE  IInv'
<1>0. /\ TypeOK /\ row \in Rows /\ task \in Requests /\ disk \in Disks
      /\ thread[a] = "none" /\ \A b \in Apps : At(b, "idle") /\ ~Busy(b) /\ ~Renaming(b)
      /\ row[a].status = "none" /\ ~Exists(a) /\ ~Taken(n)
      /\ UNCHANGED <<row, mounted, thread, image, wrote, left, astray>>
  BY Typed, Admitted DEF IInv, AddApp, Exists
<1>1. /\ task' \in Requests /\ task'[a].pc = "insert" /\ task'[a].to = n
      /\ \A b \in Apps : b # a => task'[b] = task[b]
  BY <1>0 DEF AddApp, Enter, NoTask, Requests
<1>2. /\ repo' \in [Names -> Apps \cup {NoApp}] /\ repo'[n] = a
      /\ \A m \in Names : m # n => repo'[m] = repo[m]
  BY <1>0 DEF AddApp, MoveClone, TypeOK
<1>3. /\ disk' \in Disks
      /\ disk'["temp"][n] = disk["temp"][n] \ Absent
      /\ \A t \in Tiers, m \in Names : ~(t = "temp" /\ m = n) => disk'[t][m] = disk[t][m]
  <2>1. disk' = [disk EXCEPT !["temp"][n] = @ \ Absent] /\ "temp" \in Tiers
    BY DEF AddApp, Tiers
  <2> QED  BY <1>0, <2>1, AbsentFacts DEF Disks
<1>4. /\ \A t \in Tiers, m \in Names : disk'[t][m] \cap Apps = disk[t][m] \cap Apps
      /\ disk'["temp"][n] # Absent
  BY <1>3, AbsentFacts, AppDataAssumption DEF Absent
<1>5. TypeOK'
  BY <1>0, <1>1, <1>2, <1>3, EventTyped DEF TypeOK, AddApp, Admit, Requests, Disks
<1>6. /\ \A b \in Apps : (Exists(b)' <=> Exists(b)) /\ ~Renaming(b)' /\ (Busy(b)' <=> b = a)
      /\ \A b \in Apps : (At(b, "insert")' <=> b = a)
      /\ \A b \in Apps, t \in Tiers : Place(b, t) = row[b].name /\ Place(b, t)' = row[b].name
  BY <1>0, <1>1 DEF Exists, At, Busy, Renaming, Place, Tiers
<1>7. NamesApart'
  BY <1>0, <1>1, <1>6 DEF IInv, NamesApart, Taken
<1>8. Working'
  BY <1>0, <1>1, <1>6 DEF IInv, Working, Healthy, At
<1>9. Traces'
  <2>1. \A b \in Apps : wrote'[b] \subseteq Asked(b)' /\ (row'[b].status = "none" => wrote'[b] = {} /\ astray'[b] = {})
    BY <1>0 DEF IInv, Traces, Asked
  <2>2. ASSUME NEW t \in Tiers, NEW m \in Names, NEW b \in disk'[t][m] \cap Apps
        PROVE  Belongs(b, t, m)'
    <3>1. b \in disk[t][m] \cap Apps
      BY <1>4
    <3> QED  BY <1>0, <1>6, <3>1 DEF IInv, Traces, Belongs
  <2> QED  BY <2>1, <2>2 DEF Traces
<1>10. Complete'
  <2> SUFFICES ASSUME NEW b \in Apps, Exists(b)',
                      NEW t \in wrote'[b] \ astray'[b]
               PROVE  b \in disk'[t][Place(b, t)']
    BY DEF Complete
  <2>1. t \in Tiers /\ Exists(b) /\ row[b].name \in Names
    BY <1>0 DEF TypeOK, Exists, IInv, NamesApart
  <2>2. b \in disk[t][row[b].name]
    BY <1>0, <1>6, <2>1 DEF IInv, Complete
  <2> QED  BY <1>4, <1>6, <2>1, <2>2
<1>11. Moves'
  BY <1>6 DEF Moves
<1>12. Sources'
  <2>1. "temp" \in Tiers
    BY DEF Tiers
  <2>2. \A b \in Apps : Exists(b)' => repo'[Place(b, "temp")'] \in {b, NoApp}
    BY <1>0, <1>2, <1>6, <2>1 DEF IInv, Sources, NamesApart, Taken
  <2>3. \A m \in Names : repo'[m] # NoApp => disk'["temp"][m] # Absent
    BY <1>2, <1>3, <1>4, <2>1 DEF IInv, Sources
  <2> QED  BY <1>0, <1>1, <1>2, <1>6, <2>2, <2>3 DEF IInv, Sources
<1> QED  BY <1>5, <1>7, <1>8, <1>9, <1>10, <1>11, <1>12 DEF IInv

\* An install that is refused leaves its clone to whoever comes next.
LEMMA RefusedInv ==
    ASSUME IInv, NEW a \in Apps, InsertRefused(a)
    PROVE  IInv'
<1>0. /\ TypeOK /\ row \in Rows /\ task \in Requests /\ disk \in Disks /\ At(a, "insert")
      /\ UNCHANGED <<row, disk, repo, mounted, thread, image, wrote, left, astray>>
  BY Typed DEF IInv, InsertRefused
<1>1. /\ task' \in Requests
      /\ \A b \in Apps : task'[b] = IF b = a THEN NoTask ELSE task[b]
  BY <1>0, LeaveFields DEF InsertRefused
<1>2. TypeOK'
  BY <1>0, <1>1, EventTyped DEF TypeOK, InsertRefused, Fault, Requests
<1>3. /\ \A b \in Apps : (Exists(b)' <=> Exists(b)) /\ (Renaming(b)' <=> Renaming(b))
                         /\ (Busy(b)' => Busy(b) /\ b # a) /\ (At(b, "insert")' => At(b, "insert") /\ b # a)
                         /\ (At(b, "idle") => At(b, "idle")')
      /\ \A b \in Apps : Renaming(b) => b # a
      /\ \A b \in Apps, t \in Tiers : Place(b, t)' = Place(b, t)
  BY <1>0, <1>1 DEF Exists, At, Busy, Renaming, Place, Tiers, NoTask
<1>4. \A n : Taken(n)' <=> Taken(n)
  BY <1>0 DEF Taken, Exists
<1>5. NamesApart'
  BY <1>0, <1>1, <1>3 DEF IInv, NamesApart, Taken
<1>6. Working'
  BY <1>0, <1>1, <1>3 DEF IInv, Working, Healthy
<1>7. Traces' /\ Complete'
  <2>1. \A b \in Apps : Asked(b)' = Asked(b)
    BY DEF Asked
  <2>2. Traces'
    BY <1>0, <1>3, <2>1 DEF IInv, Traces, Belongs
  <2>3. Complete'
    BY <1>0, <1>3 DEF IInv, TypeOK, Complete
  <2> QED  BY <2>2, <2>3
<1>8. Moves'
  BY <1>0, <1>1, <1>3 DEF IInv, Moves
<1>9. Sources'
  <2>1. "temp" \in Tiers
    BY DEF Tiers
  <2> QED  BY <1>0, <1>1, <1>3, <2>1 DEF IInv, Sources
<1> QED  BY <1>2, <1>5, <1>6, <1>7, <1>8, <1>9 DEF IInv

\* The row of a new app: its name is still free, its source there, and it has
\* not written anything.
LEMMA InsertInv ==
    ASSUME IInv, NEW a \in Apps, Insert(a)
    PROVE  IInv'
<1> DEFINE n == task[a].to
<1>0. /\ TypeOK /\ row \in Rows /\ task \in Requests /\ disk \in Disks
      /\ At(a, "insert") /\ Busy(a) /\ n \in Names /\ ~Taken(n) /\ row[a].status = "none"
      /\ ~Exists(a) /\ repo[n] = a
      /\ \A b \in Apps : b # a => ~Busy(b)
      /\ UNCHANGED <<repo, mounted, image, wrote, left, astray, events>>
  BY Typed DEF IInv, Insert, NamesApart, Working, Sources, Busy, At, Exists
<1>1. /\ task' \in Requests
      /\ \A b \in Apps : task'[b] = IF b = a THEN NoTask ELSE task[b]
  BY <1>0, LeaveFields DEF Insert
<1>2. /\ row' \in Rows /\ row'[a].status = "building" /\ row'[a].name = n
      /\ \A b \in Apps : b # a => row'[b] = row[b]
  BY <1>0 DEF Insert, Rows
<1>3. /\ thread' \in [Apps -> {"none", "deploy", "start", "remove", "keep", "delete"}]
      /\ thread'[a] = "deploy"
      /\ \A b \in Apps : b # a => thread'[b] = thread[b]
  BY <1>0, SpawnFields DEF Insert, Spawn, TypeOK
<1>4. /\ disk' \in Disks
      /\ \A t \in Tiers, m \in Names :
           /\ disk'[t][m] \cap Apps = disk[t][m] \cap Apps
           /\ disk[t][m] # Absent => disk'[t][m] # Absent
  BY <1>0, MadeFields DEF Insert
<1>5. TypeOK'
  BY <1>0, <1>1, <1>2, <1>3, <1>4 DEF TypeOK, Rows, Requests, Disks
<1>6. /\ \A b \in Apps : (Exists(b)' <=> Exists(b) \/ b = a) /\ ~Renaming(b)' /\ ~Renaming(b)
                         /\ ~Busy(b)' /\ At(b, "idle")' /\ ~At(b, "insert")'
      /\ \A b \in Apps, t \in Tiers : Place(b, t) = row[b].name /\ Place(b, t)' = row'[b].name
  BY <1>0, <1>1, <1>2 DEF Exists, At, Busy, Renaming, Place, Tiers, NoTask
<1>7. NamesApart'
  BY <1>0, <1>1, <1>2, <1>6 DEF IInv, NamesApart, Taken
<1>8. Working'
  BY <1>0, <1>2, <1>3, <1>6 DEF IInv, Working, Healthy
<1>9. Traces'
  <2>1. \A b \in Apps : wrote'[b] \subseteq Asked(b)' /\ (row'[b].status = "none" => wrote'[b] = {} /\ astray'[b] = {})
    BY <1>0, <1>2 DEF IInv, Traces, Asked
  <2>2. ASSUME NEW t \in Tiers, NEW m \in Names, NEW b \in disk'[t][m] \cap Apps
        PROVE  Belongs(b, t, m)'
    <3>1. b \in disk[t][m] \cap Apps
      BY <1>4
    <3>2. Belongs(b, t, m) /\ b # a
      BY <1>0, <3>1 DEF IInv, Traces, Belongs
    <3> QED  BY <1>0, <1>2, <1>3, <1>6, <3>2 DEF Belongs
  <2> QED  BY <2>1, <2>2 DEF Traces
<1>10. Complete'
  <2> SUFFICES ASSUME NEW b \in Apps, Exists(b)',
                      NEW t \in wrote'[b] \ astray'[b]
               PROVE  b \in disk'[t][Place(b, t)']
    BY DEF Complete
  <2>1. b # a /\ t \in Tiers
    BY <1>0 DEF IInv, Traces, TypeOK
  <2>2. Exists(b) /\ row[b].name \in Names /\ b \in disk[t][row[b].name]
    BY <1>0, <1>2, <1>6, <2>1 DEF IInv, Complete, NamesApart, Exists
  <2> QED  BY <1>2, <1>4, <1>6, <2>1, <2>2
<1>11. Moves'
  BY <1>6 DEF Moves
<1>12. Sources'
  <2>1. "temp" \in Tiers
    BY DEF Tiers
  <2>2. \A b \in Apps : Exists(b)' => repo'[Place(b, "temp")'] \in {b, NoApp}
    BY <1>0, <1>2, <1>6, <2>1 DEF IInv, Sources
  <2>3. \A m \in Names : repo'[m] # NoApp => disk'["temp"][m] # Absent
    BY <1>0, <1>4, <2>1 DEF IInv, Sources
  <2> QED  BY <1>0, <1>6, <2>2, <2>3 DEF IInv, Sources
<1> QED  BY <1>5, <1>7, <1>8, <1>9, <1>10, <1>11, <1>12 DEF IInv

-----------------------------------------------------------------------------
(* Threads *)

\* A container writes into its own directories; one that cannot be launched
\* leaves everything as it is.
LEMMA LaunchInv ==
    ASSUME IInv, NEW a \in Apps, Launch(a)
    PROVE  IInv'
<1> DEFINE n    == row[a].name
           dirs == IF thread[a] = "start" THEN Made(a, n) ELSE disk
           mine == {t \in Asked(a) : dirs[t][n] # Absent /\ t \in Reach}
<1>0. /\ TypeOK /\ row \in Rows /\ task \in Requests /\ disk \in Disks
      /\ row[a].status = "building" /\ Exists(a) /\ n \in Names /\ At(a, "idle")
      /\ UNCHANGED <<repo, mounted, task, left, astray, events>>
      /\ mine \subseteq Tiers /\ mine \subseteq Asked(a)
  BY Typed DEF IInv, Launch, Working, NamesApart, Exists, Asked, Tiers
<1>1. /\ thread' \in [Apps -> {"none", "deploy", "start", "remove", "keep", "delete"}]
      /\ thread'[a] = "none"
      /\ \A b \in Apps : b # a => thread'[b] = thread[b]
  BY <1>0, SpawnFields DEF Launch, Spawn, TypeOK
<1>2. PICK s \in {"running", "error"} : SetStatus(a, s)
  BY DEF Launch, Launches, LaunchFails
<1>3. /\ row' \in Rows
      /\ \A b \in Apps : /\ row'[b].name = row[b].name
                         /\ row'[b].status = IF b = a THEN s ELSE row[b].status
  BY <1>0, <1>2, StatusFields DEF Statuses
<1>4. /\ dirs \in Disks
      /\ \A t \in Tiers, m \in Names : /\ dirs[t][m] \cap Apps = disk[t][m] \cap Apps
                                       /\ disk[t][m] # Absent => dirs[t][m] # Absent
  BY <1>0, MadeFields
<1>5. \/ LaunchFails(a) /\ disk' = disk /\ wrote' = wrote /\ image' = image
      \/ /\ image' = [image EXCEPT ![a] = repo[n]] /\ repo[n] # NoApp
         /\ disk' = [t \in Tiers |-> IF t \in mine THEN [dirs[t] EXCEPT ![n] = @ \cup {a}] ELSE dirs[t]]
         /\ wrote' = [wrote EXCEPT ![a] = @ \cup mine]
  BY DEF Launch, Launches, LaunchFails
<1> HIDE DEF dirs
<1>6. \A t \in mine : dirs[t][n] \in SUBSET Apps
  BY <1>0, <1>4 DEF Disks
<1> HIDE DEF mine
<1>7. /\ disk' \in Disks
      /\ \A t \in Tiers, m \in Names :
           /\ disk[t][m] \cap Apps \subseteq disk'[t][m]
           /\ disk[t][m] # Absent => disk'[t][m] # Absent
           /\ \A b \in disk'[t][m] \cap Apps : b \in disk[t][m] \/ (b = a /\ m = n /\ t \in wrote'[a])
      /\ \A t \in wrote'[a] \ wrote[a] : a \in disk'[t][n]
  <2>1. CASE disk' = disk /\ wrote' = wrote
    BY <1>0, <2>1
  <2>2. CASE /\ disk' = [t \in Tiers |-> IF t \in mine THEN [dirs[t] EXCEPT ![n] = @ \cup {a}] ELSE dirs[t]]
             /\ wrote' = [wrote EXCEPT ![a] = @ \cup mine]
    <3>1. \A t \in Tiers, m \in Names :
            disk'[t][m] = IF t \in mine /\ m = n THEN dirs[t][m] \cup {a} ELSE dirs[t][m]
      BY <1>0, <1>4, <2>2 DEF Disks
    <3>2. \A t \in Tiers : disk'[t] \in [Names -> (SUBSET Apps) \cup {Absent}]
      <4>1. ASSUME NEW t \in Tiers, t \in mine PROVE disk'[t] \in [Names -> (SUBSET Apps) \cup {Absent}]
        BY <1>0, <1>4, <1>6, <2>2, <4>1 DEF Disks
      <4>2. ASSUME NEW t \in Tiers, t \notin mine PROVE disk'[t] \in [Names -> (SUBSET Apps) \cup {Absent}]
        BY <1>0, <1>4, <2>2, <4>2 DEF Disks
      <4> QED  BY <4>1, <4>2
    <3>3. disk' \in Disks
      BY <2>2, <3>2 DEF Disks
    <3>4. wrote'[a] = wrote[a] \cup mine
      BY <1>0, <2>2 DEF TypeOK
    <3>5. ASSUME NEW t \in Tiers, NEW m \in Names
          PROVE  /\ disk[t][m] \cap Apps \subseteq disk'[t][m]
                 /\ disk[t][m] # Absent => disk'[t][m] # Absent
                 /\ \A b \in disk'[t][m] \cap Apps : b \in disk[t][m] \/ (b = a /\ m = n /\ t \in wrote'[a])
      <4>1. dirs[t][m] \cap Apps = disk[t][m] \cap Apps /\ (disk[t][m] # Absent => dirs[t][m] # Absent)
        BY <1>4
      <4>2. CASE t \in mine /\ m = n
        <5>1. disk'[t][m] = dirs[t][m] \cup {a} /\ t \in wrote'[a]
          BY <3>1, <3>4, <4>2
        <5>2. disk'[t][m] # Absent
          BY <5>1, AbsentFacts
        <5> QED  BY <4>1, <4>2, <5>1, <5>2
      <4>3. CASE ~(t \in mine /\ m = n)
        <5>1. disk'[t][m] = dirs[t][m]
          BY <3>1, <4>3
        <5> QED  BY <4>1, <5>1
      <4> QED  BY <4>2, <4>3
    <3>6. \A t \in wrote'[a] \ wrote[a] : a \in disk'[t][n]
      BY <1>0, <3>1, <3>4
    <3> QED  BY <3>3, <3>5, <3>6
  <2> QED  BY <1>5, <2>1, <2>2
<1>8. /\ wrote' \in [Apps -> SUBSET Tiers] /\ image' \in [Apps -> Apps \cup {NoApp}]
      /\ wrote[a] \subseteq wrote'[a] /\ wrote'[a] \subseteq wrote[a] \cup Asked(a)
      /\ \A b \in Apps : b # a => wrote'[b] = wrote[b] /\ image'[b] = image[b]
      /\ image'[a] \in {image[a], repo[n]}
  <2>1. CASE wrote' = wrote /\ image' = image
    BY <1>0, <2>1 DEF TypeOK
  <2>2. CASE /\ image' = [image EXCEPT ![a] = repo[n]]
             /\ wrote' = [wrote EXCEPT ![a] = @ \cup mine]
    <3>1. repo[n] \in Apps \cup {NoApp} /\ wrote[a] \cup mine \in SUBSET Tiers
      BY <1>0 DEF TypeOK
    <3> QED  BY <1>0, <2>2, <3>1 DEF TypeOK
  <2> QED  BY <1>5, <2>1, <2>2
<1>9. TypeOK'
  BY <1>0, <1>1, <1>3, <1>7, <1>8 DEF TypeOK, Rows, Disks
<1>10. /\ \A b \in Apps : /\ (Exists(b)' <=> Exists(b)) /\ (Renaming(b)' <=> Renaming(b))
                          /\ (Busy(b)' <=> Busy(b))
                          /\ (At(b, "insert")' <=> At(b, "insert")) /\ (At(b, "idle")' <=> At(b, "idle"))
       /\ \A b \in Apps, t \in Tiers : Place(b, t)' = Place(b, t)
       /\ ~Renaming(a) /\ ~Busy(a) /\ \A t \in Tiers : Place(a, t) = n
  BY <1>0, <1>3 DEF Exists, At, Busy, Renaming, Place, Tiers
<1>11. NamesApart'
  BY <1>0, <1>3, <1>10 DEF IInv, NamesApart, Taken
<1>12. Working'
  BY <1>0, <1>1, <1>3, <1>10 DEF IInv, Working, Healthy
<1>13. Traces'
  <2>1. \A b \in Apps : wrote'[b] \subseteq Asked(b)' /\ (row'[b].status = "none" => wrote'[b] = {} /\ astray'[b] = {})
    BY <1>0, <1>3, <1>8 DEF IInv, Traces, Asked
  <2>2. ASSUME NEW t \in Tiers, NEW m \in Names, NEW b \in disk'[t][m] \cap Apps
        PROVE  Belongs(b, t, m)'
    <3>1. CASE b \in disk[t][m]
      <4>1. Belongs(b, t, m)
        BY <3>1 DEF IInv, Traces
      <4>2. wrote[b] \subseteq wrote'[b] /\ (thread'[b] = "delete" => thread[b] = "delete")
        BY <1>1, <1>8
      <4> QED  BY <1>0, <1>10, <4>1, <4>2 DEF Belongs
    <3>2. CASE b = a /\ m = n /\ t \in wrote'[a]
      BY <1>0, <1>1, <1>10, <3>2 DEF Belongs
    <3> QED  BY <1>7, <3>1, <3>2
  <2> QED  BY <2>1, <2>2 DEF Traces
<1>14. Complete'
  <2> SUFFICES ASSUME NEW b \in Apps, Exists(b)',
                      NEW t \in wrote'[b] \ astray'[b]
               PROVE  b \in disk'[t][Place(b, t)']
    BY DEF Complete
  <2>1. t \in Tiers
    BY <1>8
  <2>2. CASE b = a /\ t \notin wrote[a]
    BY <1>7, <1>10, <2>1, <2>2
  <2>3. CASE b # a \/ t \in wrote[a]
    <3>1. t \in wrote[b] \ astray[b] /\ Exists(b)
      BY <1>0, <1>8, <1>10, <2>3
    <3>2. b \in disk[t][Place(b, t)] /\ Place(b, t) \in Names
      BY <1>0, <3>1 DEF IInv, Complete, NamesApart, Place, Exists, Busy, Renaming, At, Tiers
    <3> QED  BY <1>7, <1>10, <2>1, <3>2
  <2> QED  BY <2>2, <2>3
<1>15. Moves'
  <2> SUFFICES ASSUME NEW b \in Apps, Renaming(b)'
               PROVE  /\ task'[b].moved \subseteq Before(task'[b].pc)
                      /\ (wrote'[b] \ astray'[b]) \cap Before(task'[b].pc) \subseteq task'[b].moved
                      /\ \A t \in task'[b].moved : disk'[t][row'[b].name] = Absent
                      /\ \A t \in Tiers \ task'[b].moved : disk'[t][task'[b].to] = Absent
                      /\ "temp" \notin task'[b].moved => repo'[task'[b].to] = NoApp
    BY DEF Moves, Before
  <2>1. Renaming(b) /\ b # a /\ task[b].to \in Names /\ task[b].to # n
    BY <1>0, <1>10 DEF IInv, NamesApart, Taken, Busy, Renaming, At, Tiers
  <2>2. row[b].name \in Names /\ row[b].name # n /\ row'[b].name = row[b].name
    BY <1>0, <1>3, <2>1 DEF IInv, NamesApart, Working, Exists
  <2>3. ASSUME NEW t \in Tiers, NEW m \in Names, m # n PROVE disk'[t][m] = disk[t][m]
    <3>1. dirs[t][m] = disk[t][m]
      BY <1>0, <2>3, MadeFields DEF dirs
    <3>2. disk'[t][m] = dirs[t][m] \/ disk'[t][m] = disk[t][m]
      BY <1>4, <1>5, <2>3 DEF Disks
    <3> QED  BY <3>1, <3>2
  <2>4. task[b].moved \subseteq Tiers /\ wrote'[b] = wrote[b]
    BY <1>0, <1>8, <2>1 DEF Requests
  <2> QED  BY <1>0, <2>1, <2>2, <2>3, <2>4 DEF IInv, Moves
<1>16. Sources'
  <2>1. "temp" \in Tiers
    BY DEF Tiers
  <2>2. repo[n] \in {a, NoApp}
    BY <1>0, <1>10, <2>1 DEF IInv, Sources
  <2>3. \A m \in Names : repo'[m] # NoApp => disk'["temp"][m] # Absent
    BY <1>0, <1>7, <2>1 DEF IInv, Sources
  <2> QED  BY <1>0, <1>8, <1>10, <2>1, <2>2, <2>3 DEF IInv, Sources
<1> QED  BY <1>9, <1>11, <1>12, <1>13, <1>14, <1>15, <1>16 DEF IInv

\* The place of an app is nobody else's, and not where another app is going.
LEMMA PlacesApart ==
    ASSUME IInv, NEW a \in Apps, NEW b \in Apps, a # b, Exists(a), Exists(b), ~Renaming(a),
           NEW t \in Tiers
    PROVE  Place(b, t) \in Names /\ Place(b, t) # row[a].name
<1>1. row[b].name \in Names /\ row[b].name # row[a].name
  BY DEF IInv, NamesApart
<1>2. Renaming(b) => task[b].to \in Names /\ task[b].to # row[a].name
  BY DEF IInv, NamesApart, Taken, Busy, Renaming, At, Tiers
<1> QED  BY <1>1, <1>2 DEF Place

\* What a removal takes away is the app's own, and what of it stays is known to
\* be left.
LEMMA DeprovisionInv ==
    ASSUME IInv, NEW a \in Apps, Deprovision(a)
    PROVE  IInv'
<1> DEFINE n      == row[a].name
           doomed == IF thread[a] = "keep" THEN {"temp"} ELSE Reach
<1>0. /\ TypeOK /\ row \in Rows /\ task \in Requests /\ disk \in Disks
      /\ row[a].status = "removing" /\ Exists(a) /\ n \in Names /\ At(a, "idle")
      /\ ~Renaming(a) /\ ~Busy(a) /\ thread[a] \in {"remove", "keep"}
      /\ (thread[a] = "remove" => Healthy(a))
      /\ UNCHANGED <<row, mounted, task, image, astray>>
  BY Typed DEF IInv, Deprovision, Working, NamesApart, Exists, Busy, Renaming, At, Tiers
<1>1. PICK stuck \in SUBSET doomed :
        /\ IF stuck = {} THEN events' = events ELSE Fault("rmtree")
        /\ disk' = [t \in Tiers |-> IF t \in doomed \ stuck
                                    THEN [disk[t] EXCEPT ![n] = Absent] ELSE disk[t]]
        /\ repo' = IF "temp" \in stuck THEN repo ELSE [repo EXCEPT ![n] = NoApp]
        /\ LET spared == stuck \cup (IF thread[a] = "keep" THEN Tiers ELSE {}) IN
             left' = left \cup UNION {disk[t][n] \ Absent : t \in spared}
        /\ wrote' = [wrote EXCEPT ![a] = @ \ (doomed \ stuck)]
  BY DEF Deprovision
<1> DEFINE spared == stuck \cup (IF thread[a] = "keep" THEN Tiers ELSE {})
<1>2. /\ doomed \subseteq Tiers /\ spared \subseteq Tiers /\ "temp" \in doomed
      /\ (thread[a] = "remove" => doomed = Reach /\ (Tiers \ doomed) \subseteq {"archive"})
  BY DEF Reach, Tiers
<1>3. /\ thread' \in [Apps -> {"none", "deploy", "start", "remove", "keep", "delete"}]
      /\ thread'[a] = "delete"
      /\ \A b \in Apps : b # a => thread'[b] = thread[b]
  BY <1>0, SpawnFields DEF Deprovision, Spawn, TypeOK
<1>4. left' = left \cup UNION {disk[t][n] \ Absent : t \in spared}
  BY <1>1
<1> HIDE DEF doomed, spared
<1>5. /\ disk' \in Disks
      /\ \A t \in Tiers, m \in Names :
           disk'[t][m] = IF t \in doomed \ stuck /\ m = n THEN Absent ELSE disk[t][m]
  BY <1>0, <1>1 DEF Disks
<1>6. /\ repo' \in [Names -> Apps \cup {NoApp}]
      /\ \A m \in Names : m # n => repo'[m] = repo[m]
      /\ repo'[n] = IF "temp" \in stuck THEN repo[n] ELSE NoApp
  BY <1>0, <1>1 DEF TypeOK
<1>7. /\ left \subseteq left' /\ left' \subseteq Apps
      /\ \A t \in spared : a \in disk[t][n] => a \in left'
  <2>1. \A t \in spared : (disk[t][n] \ Absent) \subseteq Apps
    BY <1>0, <1>2, AbsentFacts DEF Disks
  <2>2. a \notin Absent
    BY AppDataAssumption DEF Absent
  <2> QED  BY <1>0, <1>4, <2>1, <2>2 DEF TypeOK
<1>8. events' \in 0..MaxEvents
  BY <1>0, <1>1, EventTyped DEF Fault, TypeOK
<1>17. /\ wrote' \in [Apps -> SUBSET Tiers] /\ wrote'[a] = wrote[a] \ (doomed \ stuck)
      /\ \A b \in Apps : wrote'[b] \subseteq wrote[b] /\ (b # a => wrote'[b] = wrote[b])
  BY <1>0, <1>1 DEF TypeOK
<1>9. TypeOK'
  BY <1>0, <1>3, <1>5, <1>6, <1>7, <1>8, <1>17 DEF TypeOK, Disks
<1>10. /\ \A b \in Apps : /\ (Exists(b)' <=> Exists(b)) /\ (Renaming(b)' <=> Renaming(b))
                          /\ (Busy(b)' <=> Busy(b))
                          /\ (At(b, "insert")' <=> At(b, "insert")) /\ (At(b, "idle")' <=> At(b, "idle"))
       /\ \A b \in Apps, t \in Tiers : Place(b, t)' = Place(b, t)
       /\ \A t \in Tiers : Place(a, t) = n
  BY <1>0 DEF Exists, At, Busy, Renaming, Place
<1>11. NamesApart'
  BY <1>0, <1>10 DEF IInv, NamesApart, Taken
<1>12. Working'
  BY <1>0, <1>3, <1>10 DEF IInv, Working, Healthy
<1>13. Traces'
  <2>1. \A b \in Apps : wrote'[b] \subseteq Asked(b)' /\ (row'[b].status = "none" => wrote'[b] = {} /\ astray'[b] = {})
    BY <1>0, <1>17 DEF IInv, Traces, Asked
  <2>2. ASSUME NEW t \in Tiers, NEW m \in Names, NEW b \in disk'[t][m] \cap Apps
        PROVE  Belongs(b, t, m)'
    <3>1. b \in disk[t][m] \cap Apps /\ ~(t \in doomed \ stuck /\ m = n)
      BY <1>5, AbsentFacts
    <3>2. Belongs(b, t, m)
      BY <3>1 DEF IInv, Traces
    <3>3. CASE b # a
      BY <1>0, <1>3, <1>7, <1>10, <1>17, <3>2, <3>3 DEF Belongs
    <3>4. CASE b = a /\ t \notin astray[a]
      <4>1. m = n /\ t \notin doomed \ stuck /\ t \in wrote[a]
        BY <1>0, <1>10, <3>1, <3>2, <3>4 DEF Belongs
      <4>2. t \in spared
        <5>1. CASE thread[a] = "keep"
          BY <5>1 DEF spared
        <5>2. CASE thread[a] = "remove"
          <6>1. t \in Asked(a)
            BY <4>1 DEF IInv, Traces
          <6>2. t \in Reach
            BY <1>0, <5>2, <6>1 DEF Healthy, Asked, Reach
          <6> QED  BY <1>2, <4>1, <5>2, <6>2 DEF spared
        <5> QED  BY <1>0, <5>1, <5>2
      <4>3. a \in left' /\ t \in wrote'[a]
        BY <1>7, <1>17, <3>1, <3>4, <4>1, <4>2
      <4> QED  BY <1>10, <3>4, <4>1, <4>3 DEF Belongs
    <3>5. CASE b = a /\ t \in astray[a]
      BY <1>0, <3>5 DEF Belongs
    <3> QED  BY <3>3, <3>4, <3>5
  <2> QED  BY <2>1, <2>2 DEF Traces
<1>14. Complete'
  <2> SUFFICES ASSUME NEW b \in Apps, Exists(b)',
                      NEW t \in wrote'[b] \ astray'[b]
               PROVE  b \in disk'[t][Place(b, t)']
    BY DEF Complete
  <2>1. Exists(b) /\ t \in Tiers /\ t \in wrote[b] \ astray[b]
    BY <1>0, <1>10, <1>17 DEF TypeOK
  <2>2. b \in disk[t][Place(b, t)]
    BY <2>1 DEF IInv, Complete
  <2>3. CASE b = a
    BY <1>0, <1>5, <1>10, <1>17, <2>1, <2>2, <2>3
  <2>4. CASE b # a
    <3>1. Place(b, t) \in Names /\ Place(b, t) # n
      BY <1>0, <2>1, <2>4, PlacesApart
    <3> QED  BY <1>5, <1>10, <2>1, <2>2, <3>1
  <2> QED  BY <2>3, <2>4
<1>15. Moves'
  <2> SUFFICES ASSUME NEW b \in Apps, Renaming(b)'
               PROVE  /\ task'[b].moved \subseteq Before(task'[b].pc)
                      /\ (wrote'[b] \ astray'[b]) \cap Before(task'[b].pc) \subseteq task'[b].moved
                      /\ \A t \in task'[b].moved : disk'[t][row'[b].name] = Absent
                      /\ \A t \in Tiers \ task'[b].moved : disk'[t][task'[b].to] = Absent
                      /\ "temp" \notin task'[b].moved => repo'[task'[b].to] = NoApp
    BY DEF Moves, Before
  <2>1. Renaming(b) /\ b # a /\ task[b].to \in Names /\ task[b].to # n
    BY <1>0, <1>10 DEF IInv, NamesApart, Taken, Busy, Renaming, At, Tiers
  <2>2. row[b].name \in Names /\ task[b].moved \subseteq Tiers /\ wrote'[b] = wrote[b]
    BY <1>0, <1>17, <2>1 DEF IInv, NamesApart, Working, Exists, Requests
  <2> QED  BY <1>0, <1>5, <1>6, <2>1, <2>2 DEF IInv, Moves
<1>16. Sources'
  <2>1. "temp" \in Tiers
    BY DEF Tiers
  <2>2. \A m \in Names : repo'[m] # NoApp => disk'["temp"][m] # Absent
    BY <1>2, <1>5, <1>6, <2>1 DEF IInv, Sources
  <2>3. ASSUME NEW b \in Apps, Exists(b)' PROVE repo'[Place(b, "temp")'] \in {b, NoApp}
    <3>1. CASE b = a
      BY <1>6, <1>10, <2>1, <2>3, <3>1 DEF IInv, Sources
    <3>2. CASE b # a
      BY <1>0, <1>6, <1>10, <2>1, <2>3, <3>2, PlacesApart DEF IInv, Sources
    <3> QED  BY <3>1, <3>2
  <2>4. ASSUME NEW b \in Apps, At(b, "insert")' PROVE repo'[task'[b].to] = b
    <3>1. task[b].to \in Names /\ task[b].to # n /\ At(b, "insert")
      BY <1>0, <1>10, <2>4 DEF IInv, NamesApart, Taken, Busy, At
    <3> QED  BY <1>0, <1>6, <3>1 DEF IInv, Sources
  <2> QED  BY <1>0, <2>2, <2>3, <2>4 DEF IInv, Sources
<1> QED  BY <1>9, <1>11, <1>12, <1>13, <1>14, <1>15, <1>16 DEF IInv

\* The row goes when nothing of the app's is anywhere that is not left.
LEMMA DeleteInv ==
    ASSUME IInv, NEW a \in Apps, DeleteRow(a)
    PROVE  IInv'
<1>0. /\ TypeOK /\ row \in Rows /\ task \in Requests /\ disk \in Disks
      /\ row[a].status = "removing" /\ At(a, "idle") /\ thread[a] = "delete"
      /\ UNCHANGED <<disk, repo, mounted, task, image, wrote, left, astray, events>>
  BY Typed DEF IInv, DeleteRow, Working
<1>1. /\ thread' \in [Apps -> {"none", "deploy", "start", "remove", "keep", "delete"}]
      /\ thread'[a] = "none"
      /\ \A b \in Apps : b # a => thread'[b] = thread[b]
  BY <1>0, SpawnFields DEF DeleteRow, Spawn, TypeOK
<1>2. /\ row' \in Rows
      /\ \A b \in Apps : b # a => row'[b] = row[b]
      /\ \/ row'[a].status = "gone"
         \/ row'[a].status \in {"error", "removing"} /\ row'[a].name = row[a].name
  <2>1. CASE row' = [row EXCEPT ![a] = [status |-> "gone", name |-> NoName]]
    BY <1>0, <2>1 DEF Rows
  <2>2. CASE \E s \in {"error", "removing"} : SetStatus(a, s)
    BY <1>0, <2>2 DEF SetStatus, Rows
  <2> QED  BY <2>1, <2>2 DEF DeleteRow
<1>3. TypeOK'
  BY <1>0, <1>1, <1>2 DEF TypeOK, Rows
<1>4. /\ \A b \in Apps : /\ (Exists(b)' => Exists(b)) /\ (b # a => (Exists(b)' <=> Exists(b)))
                         /\ (Exists(b)' => row'[b].name = row[b].name)
                         /\ (Renaming(b)' <=> Renaming(b)) /\ (Busy(b)' <=> Busy(b))
                         /\ (At(b, "insert")' <=> At(b, "insert")) /\ (At(b, "idle")' <=> At(b, "idle"))
      /\ \A b \in Apps, t \in Tiers : b # a \/ Exists(b)' => Place(b, t)' = Place(b, t)
      /\ Exists(a) /\ ~Renaming(a)
  BY <1>0, <1>2 DEF Exists, At, Busy, Renaming, Place, Tiers
<1>5. NamesApart'
  BY <1>0, <1>2, <1>4 DEF IInv, NamesApart, Taken
<1>6. Working'
  <2> SUFFICES ASSUME NEW b \in Apps
               PROVE  /\ thread'[b] # "none" => At(b, "idle")'
                      /\ thread'[b] \in {"deploy", "start"} => row'[b].status = "building"
                      /\ thread'[b] \in {"remove", "keep", "delete"} => row'[b].status = "removing"
                      /\ At(b, "insert")' => row'[b].status = "none"
                      /\ Renaming(b)' => row'[b].status = "stopped" /\ task'[b].prior # "none"
                      /\ Renaming(b)' \/ thread'[b] = "remove" => Healthy(b)'
    BY DEF Working
  <2>1. CASE b = a
    BY <1>0, <1>1, <1>4, <2>1 DEF At, Renaming, Tiers
  <2>2. CASE b # a
    BY <1>0, <1>1, <1>2, <1>4, <2>2 DEF IInv, Working, Healthy
  <2> QED  BY <2>1, <2>2
<1>7. Traces'
  <2>1. \A b \in Apps : wrote'[b] \subseteq Asked(b)' /\ (row'[b].status = "none" => wrote'[b] = {} /\ astray'[b] = {})
    BY <1>0, <1>2 DEF IInv, Traces, Asked
  <2>2. ASSUME NEW t \in Tiers, NEW m \in Names, NEW b \in disk'[t][m] \cap Apps
        PROVE  Belongs(b, t, m)'
    <3>1. Belongs(b, t, m)
      BY <1>0 DEF IInv, Traces
    <3>2. thread[b] = "delete" => (Belongs(b, t, m) => b \in left \/ t \in astray[b])
      BY DEF Belongs
    <3> QED  BY <1>0, <1>1, <1>2, <1>4, <3>1, <3>2 DEF Belongs, Exists
  <2> QED  BY <2>1, <2>2 DEF Traces
<1>8. Complete'
  BY <1>0, <1>2, <1>4 DEF IInv, Complete, TypeOK
<1>9. Moves'
  <2> SUFFICES ASSUME NEW b \in Apps, Renaming(b), b # a
               PROVE  row'[b] = row[b]
    BY <1>0, <1>4 DEF IInv, Moves
  <2> QED  BY <1>2
<1>10. Sources'
  BY <1>0, <1>4 DEF IInv, Sources, Tiers
<1> QED  BY <1>3, <1>5, <1>6, <1>7, <1>8, <1>9, <1>10 DEF IInv

-----------------------------------------------------------------------------
(* Renames *)

\* What is true around a rename at work: no other request is, and the two names
\* are nobody else's.
LEMMA Alone ==
    ASSUME IInv, NEW a \in Apps, Renaming(a)
    PROVE  /\ TypeOK /\ row \in Rows /\ task \in Requests /\ disk \in Disks
           /\ row[a].status = "stopped" /\ Exists(a) /\ thread[a] = "none" /\ Healthy(a)
           /\ task[a].prior \in {"running", "stopped", "error"}
           /\ row[a].name \in Names /\ task[a].to \in Names /\ row[a].name # task[a].to
           /\ ~Taken(task[a].to) /\ ~At(a, "idle") /\ ~At(a, "insert") /\ Busy(a)
           /\ \A b \in Apps : b # a => ~Busy(b) /\ ~Renaming(b) /\ At(b, "idle")
           /\ \A b \in Apps, t \in Tiers :
                b # a /\ Exists(b) => /\ Place(b, t) = row[b].name /\ row[b].name \in Names
                                      /\ row[b].name \notin {row[a].name, task[a].to}
<1>1. TypeOK /\ row \in Rows /\ task \in Requests /\ disk \in Disks
  BY Typed DEF IInv
<1>2. /\ row[a].status = "stopped" /\ Exists(a) /\ thread[a] = "none" /\ Healthy(a)
      /\ ~At(a, "idle") /\ ~At(a, "insert") /\ Busy(a) /\ task[a].prior # "none"
  BY DEF IInv, Working, Exists, Busy, Renaming, At, Tiers
<1>3. task[a].prior \in {"running", "stopped", "error"}
  BY <1>1, <1>2 DEF Requests
<1>4. /\ row[a].name \in Names /\ task[a].to \in Names /\ ~Taken(task[a].to)
      /\ row[a].name # task[a].to
  BY <1>2 DEF IInv, NamesApart, Taken
<1>5. \A b \in Apps : b # a => ~Busy(b) /\ ~Renaming(b) /\ At(b, "idle")
  BY <1>2 DEF IInv, NamesApart, Busy, Renaming, At, Tiers
<1>6. \A b \in Apps, t \in Tiers :
        b # a /\ Exists(b) => /\ Place(b, t) = row[b].name /\ row[b].name \in Names
                              /\ row[b].name \notin {row[a].name, task[a].to}
  BY <1>2, <1>4, <1>5 DEF IInv, NamesApart, Taken, Place
<1> QED  BY <1>1, <1>2, <1>3, <1>4, <1>5, <1>6

\* A rename begins with nothing under the new name.
LEMMA RenameInv ==
    ASSUME Patient, IInv, NEW a \in Apps, NEW n \in Names, Rename(a, n)
    PROVE  IInv'
<1>0. /\ TypeOK /\ row \in Rows /\ task \in Requests /\ disk \in Disks
      /\ thread[a] = "none" /\ \A b \in Apps : At(b, "idle") /\ ~Busy(b) /\ ~Renaming(b)
      /\ row[a].status \in {"running", "stopped", "error"} /\ Exists(a) /\ Healthy(a)
      /\ ~Taken(n)
      /\ UNCHANGED <<disk, repo, mounted, thread, image, wrote, left, astray>>
  BY Typed, Admitted DEF IInv, Rename, Exists
<1>1. repo[n] = NoApp /\ \A t \in Tiers : disk[t][n] = Absent
  BY DEF Rename, Patient, Unused
<1>2. /\ row' \in Rows
      /\ \A b \in Apps : /\ row'[b].name = row[b].name
                         /\ row'[b].status = IF b = a THEN "stopped" ELSE row[b].status
  BY <1>0, StatusFields DEF Rename, Statuses
<1>3. /\ task' \in Requests /\ task'[a].pc = "app_data" /\ task'[a].to = n
      /\ task'[a].moved = {} /\ task'[a].prior = row[a].status
      /\ \A b \in Apps : b # a => task'[b] = task[b]
  BY <1>0 DEF Rename, Enter, Requests, Rows
<1>4. TypeOK'
  BY <1>0, <1>2, <1>3, EventTyped DEF TypeOK, Rename, Admit, Rows, Requests
<1>5. /\ \A b \in Apps : /\ (Exists(b)' <=> Exists(b)) /\ (Renaming(b)' <=> b = a)
                         /\ (Busy(b)' <=> b = a) /\ ~At(b, "insert")'
                         /\ (b # a => At(b, "idle")')
      /\ \A b \in Apps, t \in Tiers : Place(b, t) = row[b].name /\ Place(b, t)' = row[b].name
  BY <1>0, <1>2, <1>3 DEF Exists, At, Busy, Renaming, Place, Tiers
<1>6. NamesApart'
  BY <1>0, <1>2, <1>3, <1>5 DEF IInv, NamesApart, Taken
<1>7. Working'
  <2> SUFFICES ASSUME NEW b \in Apps
               PROVE  /\ thread'[b] # "none" => At(b, "idle")'
                      /\ thread'[b] \in {"deploy", "start"} => row'[b].status = "building"
                      /\ thread'[b] \in {"remove", "keep", "delete"} => row'[b].status = "removing"
                      /\ At(b, "insert")' => row'[b].status = "none"
                      /\ Renaming(b)' => row'[b].status = "stopped" /\ task'[b].prior # "none"
                      /\ Renaming(b)' \/ thread'[b] = "remove" => Healthy(b)'
    BY DEF Working
  <2>1. CASE b = a
    BY <1>0, <1>2, <1>3, <1>5, <2>1 DEF Healthy
  <2>2. CASE b # a
    BY <1>0, <1>2, <1>3, <1>5, <2>2 DEF IInv, Working, Healthy
  <2> QED  BY <2>1, <2>2
<1>8. Traces'
  <2>1. \A b \in Apps : wrote'[b] \subseteq Asked(b)' /\ (row'[b].status = "none" => wrote'[b] = {} /\ astray'[b] = {})
    BY <1>0, <1>2 DEF IInv, Traces, Asked
  <2>2. ASSUME NEW t \in Tiers, NEW m \in Names, NEW b \in disk'[t][m] \cap Apps
        PROVE  Belongs(b, t, m)'
    <3>1. Belongs(b, t, m)
      BY <1>0 DEF IInv, Traces
    <3> QED  BY <1>0, <1>5, <3>1 DEF Belongs
  <2> QED  BY <2>1, <2>2 DEF Traces
<1>9. Complete'
  <2> SUFFICES ASSUME NEW b \in Apps, Exists(b)',
                      NEW t \in wrote'[b] \ astray'[b]
               PROVE  b \in disk'[t][Place(b, t)']
    BY DEF Complete
  <2>1. t \in Tiers /\ Exists(b)
    BY <1>0, <1>5 DEF TypeOK
  <2> QED  BY <1>0, <1>5, <2>1 DEF IInv, Complete
<1>10. Moves'
  BY <1>0, <1>1, <1>3, <1>5 DEF Moves, Before, Tiers
<1>11. Sources'
  BY <1>0, <1>5 DEF IInv, Sources, Tiers
<1> QED  BY <1>4, <1>6, <1>7, <1>8, <1>9, <1>10, <1>11 DEF IInv

\* One tier: it is moved, or there is nothing of the app's in it.
LEMMA MoveInv ==
    ASSUME IInv, NEW a \in Apps, MoveTier(a)
    PROVE  IInv'
<1> DEFINE t0   == task[a].pc
           from == row[a].name
           to   == task[a].to
           able == t0 \in Reach /\ disk[t0][from] # Absent /\ disk[t0][to] = Absent
<1>0. /\ t0 \in Tiers /\ Renaming(a)
      /\ UNCHANGED <<row, mounted, thread, image, wrote, left, astray, events>>
  BY DEF MoveTier, Renaming
<1>1. /\ TypeOK /\ row \in Rows /\ task \in Requests /\ disk \in Disks
      /\ row[a].status = "stopped" /\ Exists(a) /\ thread[a] = "none" /\ Healthy(a)
      /\ task[a].prior \in {"running", "stopped", "error"}
      /\ from \in Names /\ to \in Names /\ from # to
      /\ ~Taken(to)
      /\ \A b \in Apps : b # a => ~Busy(b) /\ ~Renaming(b) /\ At(b, "idle")
      /\ \A b \in Apps, t \in Tiers :
           b # a /\ Exists(b) => /\ Place(b, t) = row[b].name /\ row[b].name \in Names
                                 /\ row[b].name \notin {from, to}
  BY <1>0, Alone
<1>2. /\ task[a].moved \subseteq Before(t0) /\ t0 \notin Before(t0) /\ t0 \notin task[a].moved
      /\ Before(After[t0]) = Before(t0) \cup {t0} /\ After[t0] \in {"temp", "archive", "record"}
      /\ (wrote[a] \ astray[a]) \cap Before(t0) \subseteq task[a].moved
      /\ \A t \in task[a].moved : disk[t][from] = Absent
      /\ \A t \in Tiers \ task[a].moved : disk[t][to] = Absent
      /\ "temp" \notin task[a].moved => repo[to] = NoApp
      /\ Place(a, t0) = from
  BY <1>0 DEF IInv, Moves, Before, After, Tiers, Place
<1>3. /\ task' \in Requests /\ task'[a].pc = After[t0] /\ task'[a].to = to
      /\ task'[a].prior = task[a].prior
      /\ task'[a].moved = (IF able THEN task[a].moved \cup {t0} ELSE task[a].moved)
      /\ \A b \in Apps : b # a => task'[b] = task[b]
  <2>1. task' = [task EXCEPT ![a] = [task[a] EXCEPT !.pc = After[t0],
                                                    !.moved = IF able THEN @ \cup {t0} ELSE @]]
    BY DEF MoveTier, Enter
  <2> HIDE DEF able
  <2> QED  BY <1>0, <1>1, <1>2, <2>1 DEF Requests
<1>4. ~able => t0 \notin wrote[a] \ astray[a]
  <2> SUFFICES ASSUME t0 \in wrote[a] \ astray[a]
               PROVE  able
    OBVIOUS
  <2>1. a \in disk[t0][from]
    BY <1>1, <1>2 DEF IInv, Complete
  <2>2. t0 \in Asked(a)
    BY DEF IInv, Traces
  <2>3. t0 \in Reach
    BY <1>0, <1>1, <2>2 DEF Healthy, Asked, Reach, Tiers
  <2> QED  BY <1>0, <1>2, <2>1, <2>3, AbsentFacts
<1>5. /\ disk' \in Disks
      /\ \A t \in Tiers, m \in Names :
           disk'[t][m] = IF able /\ t = t0 /\ m = from THEN Absent
                         ELSE IF able /\ t = t0 /\ m = to THEN disk[t0][from] ELSE disk[t][m]
  <2>1. CASE able
    <3>1. disk' = [disk EXCEPT ![t0][from] = Absent, ![t0][to] = disk[t0][from]]
      BY <2>1 DEF MoveTier, Moved
    <3> QED  BY <1>0, <1>1, <2>1, <3>1 DEF Disks
  <2>2. CASE ~able
    BY <1>1, <2>2 DEF MoveTier
  <2> QED  BY <2>1, <2>2
<1>6. /\ repo' \in [Names -> Apps \cup {NoApp}]
      /\ \A m \in Names :
           repo'[m] = IF able /\ t0 = "temp" /\ m = from THEN NoApp
                      ELSE IF able /\ t0 = "temp" /\ m = to THEN repo[from] ELSE repo[m]
  <2>1. CASE able
    <3>1. repo' = IF t0 = "temp" THEN [repo EXCEPT ![from] = NoApp, ![to] = repo[from]] ELSE repo
      BY <2>1 DEF MoveTier, Moved
    <3> QED  BY <1>1, <2>1, <3>1 DEF TypeOK
  <2>2. CASE ~able
    BY <1>1, <2>2 DEF MoveTier, TypeOK
  <2> QED  BY <2>1, <2>2
<1>7. able => disk[t0][from] # Absent
  OBVIOUS
<1> HIDE DEF able
<1>8. TypeOK'
  BY <1>0, <1>1, <1>3, <1>5, <1>6 DEF TypeOK, Requests, Disks
<1>9. /\ \A b \in Apps : /\ (Exists(b)' <=> Exists(b)) /\ (Renaming(b)' <=> b = a)
                         /\ (Busy(b)' <=> b = a) /\ ~At(b, "insert")'
                         /\ (b # a => At(b, "idle")')
      /\ \A b \in Apps, t \in Tiers : b # a => Place(b, t)' = Place(b, t)
      /\ \A t \in Tiers : Place(a, t)' = IF t = t0 /\ able THEN to ELSE Place(a, t)
  <2>1. Renaming(a)'
    BY <1>2, <1>3 DEF Renaming, Tiers
  <2>2. \A t \in Tiers : Place(a, t)' = IF t = t0 /\ able THEN to ELSE Place(a, t)
    BY <1>0, <1>3, <2>1 DEF Place
  <2>3. \A b \in Apps : b # a => (Renaming(b)' <=> Renaming(b)) /\ (Busy(b)' <=> Busy(b))
                                 /\ (At(b, "idle")' <=> At(b, "idle")) /\ (At(b, "insert")' <=> At(b, "insert"))
    BY <1>3 DEF Renaming, Busy, At
  <2>4. \A b \in Apps, t \in Tiers : b # a => Place(b, t)' = Place(b, t)
    BY <1>0, <1>3 DEF Place, Renaming
  <2>5. Busy(a)' /\ ~At(a, "insert")'
    BY <2>1 DEF Busy, Renaming, At, Tiers
  <2> QED  BY <1>0, <1>1, <2>1, <2>2, <2>3, <2>4, <2>5 DEF Exists, At
<1>10. NamesApart'
  BY <1>0, <1>1, <1>3, <1>9 DEF IInv, NamesApart, Taken
<1>11. Working'
  BY <1>0, <1>1, <1>3, <1>9 DEF IInv, Working, Healthy
<1>12. Traces'
  <2>1. \A b \in Apps : wrote'[b] \subseteq Asked(b)' /\ (row'[b].status = "none" => wrote'[b] = {} /\ astray'[b] = {})
    BY <1>0 DEF IInv, Traces, Asked
  <2>2. ASSUME NEW t \in Tiers, NEW m \in Names, NEW b \in disk'[t][m] \cap Apps
        PROVE  Belongs(b, t, m)'
    <3>1. CASE able /\ t = t0 /\ m = from
      BY <1>5, <3>1, AbsentFacts
    <3>2. CASE able /\ t = t0 /\ m = to
      <4>1. b \in disk[t0][from] \cap Apps
        BY <1>1, <1>5, <3>2
      <4>2. Belongs(b, t0, from)
        BY <1>0, <1>1, <4>1 DEF IInv, Traces
      <4> QED  BY <1>0, <1>1, <1>9, <3>2, <4>2 DEF Belongs
    <3>3. CASE ~(able /\ t = t0 /\ m \in {from, to})
      <4>1. b \in disk[t][m] \cap Apps
        BY <1>5, <3>3
      <4>2. Belongs(b, t, m)
        BY <4>1 DEF IInv, Traces
      <4>3. b = a /\ t \notin astray[a] => m = Place(a, t)
        BY <1>1, <4>2 DEF Belongs
      <4> QED  BY <1>0, <1>2, <1>9, <3>3, <4>2, <4>3 DEF Belongs
    <3> QED  BY <3>1, <3>2, <3>3
  <2> QED  BY <2>1, <2>2 DEF Traces
<1>13. Complete'
  <2> SUFFICES ASSUME NEW b \in Apps, Exists(b)',
                      NEW t \in wrote'[b] \ astray'[b]
               PROVE  b \in disk'[t][Place(b, t)']
    BY DEF Complete
  <2>1. t \in Tiers /\ b \in disk[t][Place(b, t)] /\ Exists(b)
    BY <1>0, <1>1 DEF IInv, Complete, TypeOK, Exists
  <2>2. CASE b = a /\ t = t0 /\ able
    BY <1>1, <1>2, <1>5, <1>9, <2>1, <2>2
  <2>3. CASE b = a /\ ~(t = t0 /\ able)
    BY <1>1, <1>5, <1>9, <2>1, <2>3 DEF Place
  <2>4. CASE b # a
    BY <1>1, <1>5, <1>9, <2>1, <2>4
  <2> QED  BY <2>2, <2>3, <2>4
<1>14. Moves'
  <2>1. task'[a].moved \subseteq Before(task'[a].pc) 
       /\ (wrote'[a] \ astray'[a]) \cap Before(task'[a].pc) \subseteq task'[a].moved
    BY <1>0, <1>2, <1>3, <1>4
  <2>4. \A t \in task'[a].moved : disk'[t][row'[a].name] = Absent
    BY <1>0, <1>1, <1>2, <1>3, <1>5 DEF Before
  <2>2. \A t \in Tiers \ task'[a].moved : disk'[t][task'[a].to] = Absent
    BY <1>1, <1>2, <1>3, <1>5
  <2>3. "temp" \notin task'[a].moved => repo'[task'[a].to] = NoApp
    BY <1>1, <1>2, <1>3, <1>6
  <2> QED  BY <1>9, <2>1, <2>2, <2>3, <2>4 DEF Moves, Before
<1>15. Sources'
  <2>1. "temp" \in Tiers
    BY DEF Tiers
  <2>2. \A m \in Names : repo'[m] # NoApp => disk'["temp"][m] # Absent
    BY <1>1, <1>5, <1>6, <1>7, <2>1 DEF IInv, Sources
  <2>3. ASSUME NEW b \in Apps, Exists(b)' PROVE repo'[Place(b, "temp")'] \in {b, NoApp}
    <3>0. repo[Place(b, "temp")] \in {b, NoApp} /\ Exists(b)
      BY <1>9, <2>3 DEF IInv, Sources
    <3>1. CASE b = a /\ t0 = "temp" /\ able
      BY <1>1, <1>2, <1>6, <1>9, <2>1, <3>0, <3>1
    <3>2. CASE b = a /\ ~(t0 = "temp" /\ able)
      BY <1>1, <1>6, <1>9, <2>1, <3>0, <3>2 DEF Place
    <3>3. CASE b # a
      BY <1>1, <1>6, <1>9, <2>1, <3>0, <3>3
    <3> QED  BY <3>1, <3>2, <3>3
  <2> QED  BY <1>0, <1>9, <2>2, <2>3 DEF IInv, Sources
<1> QED  BY <1>8, <1>10, <1>11, <1>12, <1>13, <1>14, <1>15 DEF IInv

\* A rename that is over: its app is idle again, and so is everybody.
LEMMA OverFields ==
    ASSUME IInv, NEW a \in Apps, Renaming(a), Leave(a)
    PROVE  /\ task' \in Requests /\ task'[a] = NoTask
           /\ \A b \in Apps : b # a => task'[b] = task[b]
           /\ \A b \in Apps : ~Renaming(b)' /\ ~Busy(b)' /\ At(b, "idle")' /\ ~At(b, "insert")'
           /\ \A b \in Apps, t \in Tiers : Place(b, t)' = row'[b].name
<1>1. task \in Requests /\ \A b \in Apps : b # a => At(b, "idle")
  BY Alone
<1>2. /\ task' \in Requests
      /\ \A b \in Apps : task'[b] = IF b = a THEN NoTask ELSE task[b]
  BY <1>1, LeaveFields
<1>3. \A b \in Apps : task'[b].pc = "idle"
  BY <1>1, <1>2 DEF At, NoTask
<1> QED  BY <1>2, <1>3 DEF Renaming, Busy, At, Place, Tiers

\* A rename that is given up: the tiers in back are back under the name the row
\* still has, those that are not are known to be astray.
LEMMA GivenUpInv ==
    ASSUME IInv, NEW a \in Apps, Renaming(a), Leave(a),
           NEW back \in SUBSET task[a].moved, MoveBack(a, back), Strand(a, task[a].moved \ back),
           UNCHANGED <<mounted, thread, image, wrote, left>>,
           events' \in 0..MaxEvents,
           SetStatus(a, task[a].prior) \/ row' = row
    PROVE  IInv'
<1> DEFINE from == row[a].name
           to   == task[a].to
<1>0. Renaming(a) /\ Leave(a) /\ UNCHANGED <<mounted, thread, image, wrote, left>>
  OBVIOUS
<1>1. /\ TypeOK /\ row \in Rows /\ task \in Requests /\ disk \in Disks
      /\ row[a].status = "stopped" /\ Exists(a) /\ thread[a] = "none"
      /\ task[a].prior \in {"running", "stopped", "error"}
      /\ from \in Names /\ to \in Names /\ from # to
      /\ \A b \in Apps, t \in Tiers :
           b # a /\ Exists(b) => /\ Place(b, t) = row[b].name /\ row[b].name \in Names
                                 /\ row[b].name \notin {from, to}
  BY <1>0, Alone
<1>2. /\ back \subseteq Tiers /\ task[a].moved \subseteq Tiers
      /\ \A t \in Tiers : Place(a, t) = IF t \in task[a].moved THEN to ELSE from
  BY <1>0, <1>1 DEF Place, Requests
<1>15. /\ astray' \in [Apps -> SUBSET Tiers] /\ astray'[a] = astray[a] \cup (task[a].moved \ back)
       /\ \A b \in Apps : b # a => astray'[b] = astray[b]
  BY <1>1, <1>2 DEF Strand, TypeOK
<1>3. /\ row' \in Rows
      /\ \A b \in Apps : /\ row'[b].name = row[b].name
                         /\ (b # a => row'[b].status = row[b].status)
      /\ row'[a].status \in {"running", "stopped", "error"}
  BY <1>1, StatusFields DEF Statuses
<1>4. /\ task' \in Requests
      /\ \A b \in Apps : ~Renaming(b)' /\ ~Busy(b)' /\ At(b, "idle")' /\ ~At(b, "insert")'
      /\ \A b \in Apps, t \in Tiers : Place(b, t)' = row[b].name
  BY <1>0, <1>3, OverFields
<1>5. /\ disk' \in Disks
      /\ \A t \in Tiers, m \in Names :
           disk'[t][m] = IF t \in back /\ m = to THEN Absent
                         ELSE IF t \in back /\ m = from THEN disk[t][to] ELSE disk[t][m]
  <2>1. disk' = [t \in Tiers |-> IF t \in back
                                 THEN [disk[t] EXCEPT ![from] = disk[t][to], ![to] = Absent]
                                 ELSE disk[t]]
    BY DEF MoveBack
  <2>2. \A t \in Tiers : disk'[t] \in [Names -> (SUBSET Apps) \cup {Absent}]
    BY <1>1, <2>1 DEF Disks
  <2>3. disk' \in Disks
    BY <2>1, <2>2 DEF Disks
  <2> QED  BY <1>1, <2>1, <2>3 DEF Disks
<1>6. /\ repo' \in [Names -> Apps \cup {NoApp}]
      /\ \A m \in Names :
           repo'[m] = IF "temp" \in back /\ m = to THEN NoApp
                      ELSE IF "temp" \in back /\ m = from THEN repo[to] ELSE repo[m]
  <2>1. repo' = IF "temp" \in back THEN [repo EXCEPT ![from] = repo[to], ![to] = NoApp] ELSE repo
    BY DEF MoveBack
  <2> QED  BY <1>1, <2>1 DEF TypeOK
<1>7. TypeOK'
  BY <1>0, <1>1, <1>3, <1>4, <1>5, <1>6, <1>15 DEF TypeOK, Rows, Requests, Disks
<1>8. \A b \in Apps : Exists(b)' <=> Exists(b)
  BY <1>1, <1>3 DEF Exists
<1>9. NamesApart'
  BY <1>3, <1>4, <1>8 DEF IInv, NamesApart
<1>10. Working'
  <2> SUFFICES ASSUME NEW b \in Apps
               PROVE  /\ thread'[b] \in {"deploy", "start"} => row'[b].status = "building"
                      /\ thread'[b] \in {"remove", "keep", "delete"} => row'[b].status = "removing"
                      /\ thread'[b] = "remove" => Healthy(b)'
    BY <1>4 DEF Working
  <2> QED  BY <1>0, <1>1, <1>3 DEF IInv, Working, Healthy
<1>11. Traces'
  <2>1. \A b \in Apps : wrote'[b] \subseteq Asked(b)' /\ (row'[b].status = "none" => wrote'[b] = {} /\ astray'[b] = {})
    BY <1>0, <1>1, <1>3, <1>15 DEF IInv, Traces, Asked
  <2>2. ASSUME NEW t \in Tiers, NEW m \in Names, NEW b \in disk'[t][m] \cap Apps
        PROVE  Belongs(b, t, m)'
    <3>1. CASE t \in back /\ m = to
      BY <1>5, <3>1, AbsentFacts
    <3>2. CASE t \in back /\ m = from
      <4>1. b \in disk[t][to] \cap Apps
        BY <1>1, <1>5, <3>2
      <4>2. Belongs(b, t, to)
        BY <1>1, <4>1 DEF IInv, Traces
      <4> QED  BY <1>0, <1>1, <1>4, <1>8, <1>15, <3>2, <4>2 DEF Belongs
    <3>3. CASE ~(t \in back /\ m \in {from, to})
      <4>1. b \in disk[t][m] \cap Apps
        BY <1>5, <3>3
      <4>2. Belongs(b, t, m)
        BY <4>1 DEF IInv, Traces
      <4>3. b = a /\ t \notin astray'[a] => t \in wrote[a] /\ m = from
        BY <1>1, <1>2, <1>15, <3>3, <4>2 DEF Belongs
      <4> QED  BY <1>0, <1>1, <1>4, <1>8, <1>15, <3>3, <4>2, <4>3 DEF Belongs
    <3> QED  BY <3>1, <3>2, <3>3
  <2> QED  BY <2>1, <2>2 DEF Traces
<1>12. Complete'
  <2> SUFFICES ASSUME NEW b \in Apps, Exists(b)',
                      NEW t \in wrote'[b] \ astray'[b]
               PROVE  b \in disk'[t][Place(b, t)']
    BY DEF Complete
  <2>1. t \in Tiers /\ b \in disk[t][Place(b, t)] /\ Exists(b)
    <3>1. t \in wrote[b] \ astray[b] /\ Exists(b) /\ t \in Tiers
      BY <1>0, <1>1, <1>8, <1>15 DEF TypeOK
    <3> QED  BY <3>1 DEF IInv, Complete
  <2>2. CASE b = a
    <3>1. t \notin task[a].moved \ back
      BY <1>15, <2>2
    <3> QED  BY <1>1, <1>2, <1>4, <1>5, <2>1, <2>2, <3>1
  <2>3. CASE b # a
    BY <1>1, <1>4, <1>5, <2>1, <2>3
  <2> QED  BY <2>2, <2>3
<1>13. Moves'
  BY <1>4 DEF Moves
<1>14. Sources'
  <2>1. "temp" \in Tiers
    BY DEF Tiers
  <2>2. \A m \in Names : repo'[m] # NoApp => disk'["temp"][m] # Absent
    BY <1>1, <1>5, <1>6, <2>1 DEF IInv, Sources
  <2>3. ASSUME NEW b \in Apps, Exists(b)' PROVE repo'[Place(b, "temp")'] \in {b, NoApp}
    <3>0. repo[Place(b, "temp")] \in {b, NoApp} /\ Exists(b)
      BY <1>8, <2>3 DEF IInv, Sources
    <3>1. CASE b = a /\ ("temp" \in task[a].moved => "temp" \in back)
      BY <1>1, <1>2, <1>4, <1>6, <2>1, <3>0, <3>1
    <3>3. CASE b = a /\ "temp" \in task[a].moved \ back
      <4>1. repo[from] = NoApp
        BY <1>0, <1>1, <2>1, <3>3 DEF IInv, Moves, Sources
      <4> QED  BY <1>1, <1>4, <1>6, <2>1, <3>3, <4>1
    <3>2. CASE b # a
      BY <1>1, <1>4, <1>6, <2>1, <3>0, <3>2
    <3> QED  BY <3>1, <3>2, <3>3
  <2> QED  BY <1>0, <1>4, <2>2, <2>3 DEF IInv, Sources
<1> QED  BY <1>7, <1>9, <1>10, <1>11, <1>12, <1>13, <1>14 DEF IInv

\* A rename that cannot go on moves back what it can.
LEMMA UndoInv ==
    ASSUME IInv, NEW a \in Apps, MoveFails(a)
    PROVE  IInv'
<1>1. PICK stuck \in SUBSET task[a].moved : /\ MoveBack(a, task[a].moved \ stuck)
                                            /\ Strand(a, stuck)
  BY DEF MoveFails
<1>2. task[a].moved \ (task[a].moved \ stuck) = stuck
  OBVIOUS
<1>3. Renaming(a) /\ Leave(a) /\ UNCHANGED <<mounted, thread, image, wrote, left>>
  BY DEF MoveFails, Renaming, Reach
<1>4. events' \in 0..MaxEvents /\ (SetStatus(a, task[a].prior) \/ row' = row)
  BY EventTyped DEF MoveFails, Fault, IInv
<1> QED  BY <1>1, <1>2, <1>3, <1>4, GivenUpInv

\* The row takes the new name when all there was to move has been moved.
LEMMA RecordedInv ==
    ASSUME IInv, NEW a \in Apps, Record(a), astray' = astray,
           \/ /\ row' = [row EXCEPT ![a] = [status |-> "building", name |-> task[a].to]]
              /\ Spawn(a, "start")
           \/ row' = [row EXCEPT ![a].name = task[a].to] /\ thread' = thread
    PROVE  IInv'
<1> DEFINE to == task[a].to
<1>0. /\ Renaming(a) /\ Leave(a) /\ task[a].pc = "record"
      /\ UNCHANGED <<disk, repo, mounted, image, wrote, left, astray, events>>
  BY DEF Record, Renaming, At
<1>1. /\ TypeOK /\ row \in Rows /\ task \in Requests /\ disk \in Disks
      /\ row[a].status = "stopped" /\ Exists(a) /\ thread[a] = "none"
      /\ to \in Names /\ ~Taken(to)
      /\ \A b \in Apps, t \in Tiers :
           b # a /\ Exists(b) => Place(b, t) = row[b].name /\ row[b].name \in Names
  BY <1>0, Alone
<1>2. /\ wrote[a] \ astray[a] \subseteq task[a].moved
      /\ \A t \in wrote[a] \ astray[a] : Place(a, t) = to
  <2>1. wrote[a] \subseteq Tiers /\ Before(task[a].pc) = Tiers
    BY <1>0, <1>1 DEF TypeOK, Before
  <2> QED  BY <1>0, <2>1 DEF IInv, Moves, Place
<1>3. /\ row' \in Rows /\ row'[a].name = to /\ row'[a].status \in {"stopped", "building"}
      /\ \A b \in Apps : b # a => row'[b] = row[b]
      /\ thread' \in [Apps -> {"none", "deploy", "start", "remove", "keep", "delete"}]
      /\ thread'[a] \in {"none", "start"}
      /\ thread'[a] = "start" => row'[a].status = "building"
      /\ \A b \in Apps : b # a => thread'[b] = thread[b]
  <2>1. CASE /\ row' = [row EXCEPT ![a] = [status |-> "building", name |-> to]]
             /\ Spawn(a, "start")
    BY <1>1, <2>1 DEF Spawn, TypeOK, Rows
  <2>2. CASE row' = [row EXCEPT ![a].name = to] /\ thread' = thread
    BY <1>1, <2>2 DEF TypeOK, Rows
  <2> QED  BY <2>1, <2>2
<1>4. /\ task' \in Requests
      /\ \A b \in Apps : ~Renaming(b)' /\ ~Busy(b)' /\ At(b, "idle")' /\ ~At(b, "insert")'
      /\ \A b \in Apps, t \in Tiers : Place(b, t)' = row'[b].name
  BY <1>0, OverFields
<1>5. TypeOK'
  BY <1>0, <1>1, <1>3, <1>4 DEF TypeOK, Rows, Requests
<1>6. \A b \in Apps : Exists(b)' <=> Exists(b)
  BY <1>1, <1>3 DEF Exists
<1>7. NamesApart'
  BY <1>1, <1>3, <1>4, <1>6 DEF IInv, NamesApart, Taken
<1>8. Working'
  <2> SUFFICES ASSUME NEW b \in Apps
               PROVE  /\ thread'[b] \in {"deploy", "start"} => row'[b].status = "building"
                      /\ thread'[b] \in {"remove", "keep", "delete"} => row'[b].status = "removing"
                      /\ thread'[b] = "remove" => Healthy(b)'
    BY <1>4 DEF Working
  <2>1. CASE b = a
    BY <1>3, <2>1
  <2>2. CASE b # a
    BY <1>0, <1>3, <2>2 DEF IInv, Working, Healthy
  <2> QED  BY <2>1, <2>2
<1>9. Traces'
  <2>1. \A b \in Apps : wrote'[b] \subseteq Asked(b)' /\ (row'[b].status = "none" => wrote'[b] = {} /\ astray'[b] = {})
    BY <1>0, <1>1, <1>3 DEF IInv, Traces, Asked
  <2>2. ASSUME NEW t \in Tiers, NEW m \in Names, NEW b \in disk'[t][m] \cap Apps
        PROVE  Belongs(b, t, m)'
    <3>1. Belongs(b, t, m)
      BY <1>0 DEF IInv, Traces
    <3>2. CASE b = a
      BY <1>0, <1>1, <1>2, <1>3, <1>4, <1>6, <3>1, <3>2 DEF Belongs
    <3>3. CASE b # a
      BY <1>0, <1>1, <1>3, <1>4, <1>6, <3>1, <3>3 DEF Belongs
    <3> QED  BY <3>2, <3>3
  <2> QED  BY <2>1, <2>2 DEF Traces
<1>10. Complete'
  <2> SUFFICES ASSUME NEW b \in Apps, Exists(b)',
                      NEW t \in wrote'[b] \ astray'[b]
               PROVE  b \in disk'[t][Place(b, t)']
    BY DEF Complete
  <2>1. t \in Tiers /\ b \in disk[t][Place(b, t)] /\ Exists(b)
    BY <1>0, <1>1, <1>6 DEF IInv, Complete, TypeOK
  <2>2. CASE b = a
    BY <1>0, <1>2, <1>3, <1>4, <2>1, <2>2
  <2>3. CASE b # a
    BY <1>0, <1>1, <1>3, <1>4, <2>1, <2>3
  <2> QED  BY <2>2, <2>3
<1>11. Moves'
  BY <1>4 DEF Moves
<1>12. Sources'
  <2>1. "temp" \in Tiers
    BY DEF Tiers
  <2>2. ASSUME NEW b \in Apps, Exists(b)' PROVE repo'[Place(b, "temp")'] \in {b, NoApp}
    <3>0. repo[Place(b, "temp")] \in {b, NoApp} /\ Exists(b)
      BY <1>6, <2>2 DEF IInv, Sources
    <3>1. CASE b = a /\ "temp" \in task[a].moved
      BY <1>0, <1>3, <1>4, <2>1, <3>0, <3>1 DEF Place
    <3>2. CASE b = a /\ "temp" \notin task[a].moved
      BY <1>0, <1>3, <1>4, <2>1, <3>2 DEF IInv, Moves
    <3>3. CASE b # a
      BY <1>0, <1>1, <1>3, <1>4, <2>1, <3>0, <3>3
    <3> QED  BY <3>1, <3>2, <3>3
  <2> QED  BY <1>0, <1>4, <2>2 DEF IInv, Sources
<1> QED  BY <1>5, <1>7, <1>8, <1>9, <1>10, <1>11, <1>12 DEF IInv

\* The row stays as it is if its new name has been taken or it cannot be written.
LEMMA RecordInv ==
    ASSUME IInv, NEW a \in Apps, Record(a)
    PROVE  IInv'
<1>1. CASE /\ astray' = astray
           /\ \/ /\ row' = [row EXCEPT ![a] = [status |-> "building", name |-> task[a].to]]
                 /\ Spawn(a, "start")
              \/ row' = [row EXCEPT ![a].name = task[a].to] /\ thread' = thread
  BY <1>1, RecordedInv
<1>2. CASE Strand(a, task[a].moved) /\ UNCHANGED <<row, thread>>
  <2>1. Renaming(a) /\ Leave(a) /\ UNCHANGED <<disk, repo, mounted, image, wrote, left, events>>
    BY DEF Record, Renaming, At
  <2>2. events' \in 0..MaxEvents /\ disk \in Disks
    BY <2>1, Typed DEF IInv
  <2>3. MoveBack(a, {})
    BY <2>1, <2>2 DEF MoveBack, Disks
  <2>4. Strand(a, task[a].moved \ {}) /\ {} \in SUBSET task[a].moved
    BY <1>2
  <2> QED  BY <1>2, <2>1, <2>2, <2>3, <2>4, GivenUpInv
<1> QED  BY <1>1, <1>2 DEF Record

-----------------------------------------------------------------------------
(* The mount and the router *)

\* What goes while nothing is moved or removed takes no app's files from it.
LEMMA NotMidway ==
    ASSUME Patient, Spared, NEW a \in Apps
    PROVE  ~Renaming(a) /\ thread[a] # "remove"
  BY DEF Patient, Spared, Midway, Renaming

\* The archive is mounted and unmounted under the directories.
LEMMA MountInv ==
    ASSUME Patient, IInv, Unmount \/ Mount
    PROVE  IInv'
<1>0. /\ UNCHANGED <<row, disk, repo, task, thread, image, wrote, left, astray>>
      /\ mounted' \in BOOLEAN
      /\ mounted' \/ Spared
  BY DEF Unmount, Mount
<1>1. TypeOK'
  <2>1. events' \in 0..MaxEvents
    BY EventTyped DEF IInv, Unmount, Mount, Fault, TypeOK
  <2> QED  BY <1>0, <2>1 DEF IInv, TypeOK
<1>2. /\ \A b \in Apps : (Exists(b)' <=> Exists(b)) /\ (Renaming(b)' <=> Renaming(b))
                         /\ (Busy(b)' <=> Busy(b)) /\ (At(b, "idle")' <=> At(b, "idle"))
                         /\ (At(b, "insert")' <=> At(b, "insert"))
      /\ \A b \in Apps, t \in Tiers : Place(b, t)' = Place(b, t)
      /\ \A n : Taken(n)' <=> Taken(n)
  BY <1>0 DEF Exists, Renaming, Busy, At, Place, Taken
<1>3. NamesApart' /\ Moves' /\ Sources'
  <2>1. NamesApart'
    BY <1>0, <1>2 DEF IInv, NamesApart
  <2>2. Moves'
    BY <1>0, <1>2 DEF IInv, Moves
  <2>3. Sources'
    <3>1. "temp" \in Tiers
      BY DEF Tiers
    <3> QED  BY <1>0, <1>2, <3>1 DEF IInv, Sources
  <2> QED  BY <2>1, <2>2, <2>3
<1>4. Working'
  <2>1. ASSUME NEW b \in Apps, Renaming(b)' \/ thread'[b] = "remove"
        PROVE  Healthy(b)'
    <3>1. mounted'
      BY <1>0, <1>2, <2>1, NotMidway
    <3> QED  BY <3>1 DEF Healthy
  <2> QED  BY <1>0, <1>2, <2>1 DEF IInv, Working
<1>5. Traces' /\ Complete'
  <2>1. \A b \in Apps : Asked(b)' = Asked(b)
    BY DEF Asked
  <2>2. Traces'
    BY <1>0, <1>2, <2>1 DEF IInv, Traces, Belongs
  <2>3. Complete'
    BY <1>0, <1>2 DEF IInv, TypeOK, Complete
  <2> QED  BY <2>2, <2>3
<1> QED  BY <1>1, <1>3, <1>4, <1>5 DEF IInv

\* A router that is killed forgets its requests and threads; boot recovery
\* launches what was being launched, from the source it finds.
LEMMA RestartInv ==
    ASSUME Patient, IInv, Restart
    PROVE  IInv'
<1>0. /\ TypeOK /\ row \in Rows /\ task \in Requests /\ disk \in Disks
      /\ UNCHANGED <<disk, repo, mounted, image, wrote, left, astray>>
      /\ \A b \in Apps : ~Renaming(b) /\ thread[b] # "remove"
  BY Typed, NotMidway DEF IInv, Restart
<1>1. task' \in Requests /\ \A b \in Apps : task'[b] = NoTask
  <2>1. NoTask \in [pc : {"idle", "insert", "app_data", "temp", "archive", "record"},
                    to : Names \cup {NoName},
                    prior : {"none", "running", "stopped", "error"},
                    moved : SUBSET Tiers]
    BY DEF NoTask
  <2> QED  BY <2>1 DEF Restart, Requests
<1>2. /\ row' \in Rows
      /\ \A b \in Apps : row'[b].name = row[b].name
                         /\ (row'[b].status = row[b].status
                             \/ (row[b].status = "building" /\ row'[b].status = "error"
                                 /\ repo[row[b].name] = NoApp))
  <2>1. \A b \in Apps : \/ row'[b] = row[b]
                        \/ /\ row[b].status = "building" /\ repo[row[b].name] = NoApp
                           /\ row'[b] = [row[b] EXCEPT !.status = "error"]
    BY DEF Restart
  <2>2. row' = [b \in Apps |-> row'[b]]
    BY DEF Restart
  <2>3. ASSUME NEW b \in Apps
        PROVE  /\ row'[b] \in [status : Statuses, name : Names \cup {NoName}]
               /\ row'[b].name = row[b].name
               /\ (row'[b].status = row[b].status
                   \/ (row[b].status = "building" /\ row'[b].status = "error"
                       /\ repo[row[b].name] = NoApp))
    BY <1>0, <2>1 DEF Rows, Statuses
  <2> QED  BY <2>2, <2>3 DEF Rows, Statuses
<1>3. /\ thread' \in [Apps -> {"none", "deploy", "start", "remove", "keep", "delete"}]
      /\ \A b \in Apps : \/ thread'[b] = "none"
                         \/ thread'[b] = "start" /\ row'[b].status = "building"
  <2>1. \A b \in Apps : \/ thread'[b] = "none"
                        \/ thread'[b] = "start" /\ row[b].status = "building" /\ repo[row[b].name] # NoApp
    BY DEF Restart
  <2>2. thread' \in [Apps -> {"none", "deploy", "start", "remove", "keep", "delete"}]
    BY DEF Restart
  <2> QED  BY <1>2, <2>1, <2>2
<1>4. /\ \A b \in Apps : (Exists(b)' <=> Exists(b)) /\ ~Renaming(b)' /\ ~Busy(b)'
                         /\ At(b, "idle")' /\ ~At(b, "insert")'
      /\ \A b \in Apps, t \in Tiers : Place(b, t)' = row[b].name /\ Place(b, t) = row[b].name
  BY <1>0, <1>1, <1>2 DEF Exists, Renaming, Busy, At, Place, NoTask, Tiers
<1>5. TypeOK'
  BY <1>0, <1>1, <1>2, <1>3, EventTyped DEF TypeOK, Restart, Fault, Rows, Requests
<1>6. NamesApart'
  BY <1>2, <1>4 DEF IInv, NamesApart
<1>7. Working'
  BY <1>3, <1>4 DEF Working
<1>8. Traces'
  <2>1. \A b \in Apps : wrote'[b] \subseteq Asked(b)' /\ (row'[b].status = "none" => wrote'[b] = {} /\ astray'[b] = {})
    BY <1>0, <1>2 DEF IInv, Traces, Asked
  <2>2. ASSUME NEW t \in Tiers, NEW m \in Names, NEW b \in disk'[t][m] \cap Apps
        PROVE  Belongs(b, t, m)'
    <3>1. Belongs(b, t, m)
      BY <1>0 DEF IInv, Traces
    <3>2. thread'[b] # "delete"
      BY <1>3
    <3> QED  BY <1>0, <1>4, <3>1, <3>2 DEF Belongs
  <2> QED  BY <2>1, <2>2 DEF Traces
<1>9. Complete'
  <2> SUFFICES ASSUME NEW b \in Apps, Exists(b)',
                      NEW t \in wrote'[b] \ astray'[b]
               PROVE  b \in disk'[t][Place(b, t)']
    BY DEF Complete
  <2>1. t \in Tiers /\ b \in disk[t][Place(b, t)]
    BY <1>0, <1>4 DEF IInv, Complete, TypeOK
  <2> QED  BY <1>0, <1>4, <2>1
<1>10. Moves'
  BY <1>4 DEF Moves
<1>11. Sources'
  <2>1. "temp" \in Tiers
    BY DEF Tiers
  <2> QED  BY <1>0, <1>4, <2>1 DEF IInv, Sources
<1> QED  BY <1>5, <1>6, <1>7, <1>8, <1>9, <1>10, <1>11 DEF IInv

-----------------------------------------------------------------------------
(* The theorems *)

LEMMA NextInv ==
    ASSUME Patient
    PROVE  IInv /\ [Next]_vars => IInv'
<1> SUFFICES ASSUME IInv, [Next]_vars
             PROVE  IInv'
  OBVIOUS
<1>1. ASSUME NEW a \in Apps, NEW n \in Names, AddApp(a, n) \/ Rename(a, n) PROVE IInv'
  BY <1>1, AddInv, RenameInv
<1>2. ASSUME NEW a \in Apps, \/ Reload(a) \/ StopApp(a)
                             \/ \E keep \in BOOLEAN : Remove(a, keep)
      PROVE  IInv'
  BY <1>2, RequestInv
<1>3. ASSUME NEW a \in Apps, Insert(a) \/ InsertRefused(a) \/ Launch(a) PROVE IInv'
  BY <1>3, InsertInv, RefusedInv, LaunchInv
<1>4. ASSUME NEW a \in Apps, MoveTier(a) \/ MoveFails(a) \/ Record(a) PROVE IInv'
  BY <1>4, MoveInv, UndoInv, RecordInv
<1>5. ASSUME NEW a \in Apps, Deprovision(a) \/ DeleteRow(a) PROVE IInv'
  BY <1>5, DeprovisionInv, DeleteInv
<1>6. CASE Unmount \/ Mount \/ Restart
  BY <1>6, MountInv, RestartInv
<1>7. CASE UNCHANGED vars
  BY <1>7 DEF vars, IInv, TypeOK, NamesApart, Working, Traces, Complete, Moves, Sources, Belongs,
     Exists, Taken, Busy, Renaming, At, Place, Healthy, Asked, Before
<1>8. \/ \E a \in Apps, n \in Names : AddApp(a, n) \/ Rename(a, n)
      \/ \E a \in Apps : \/ Reload(a) \/ StopApp(a)
                         \/ \E keep \in BOOLEAN : Remove(a, keep)
      \/ \E a \in Apps : Insert(a) \/ InsertRefused(a) \/ Launch(a)
      \/ \E a \in Apps : MoveTier(a) \/ MoveFails(a) \/ Record(a)
      \/ \E a \in Apps : Deprovision(a) \/ DeleteRow(a)
      \/ Unmount \/ Mount \/ Restart
      \/ UNCHANGED vars
  BY DEF Next
<1> QED  BY <1>1, <1>2, <1>3, <1>4, <1>5, <1>6, <1>7, <1>8

LEMMA AlwaysSound ==
    ASSUME Patient
    PROVE  Spec => []IInv
  BY InitInv, NextInv, PTL DEF Spec

\* move_clone_to_app_temp_dir, _rename_app_storage_dirs with its undo, and
\* deprovision_data keep the directories and the row together: an app that no
\* request is moving finds all it has ever written under its present name, but in
\* the tiers that a refused rename could not bring back or record.
THEOREM DataStays ==
    ASSUME Patient
    PROVE  Spec => []DataFollowsName
<1>1. IInv => DataFollowsName
  <2> SUFFICES ASSUME IInv, NEW a \in Apps, At(a, "idle"), NEW t \in wrote[a] \ astray[a],
                      row[a].status \in {"building", "running", "stopped", "error"}
               PROVE  a \in disk[t][row[a].name]
    BY DEF DataFollowsName
  <2>1. ~Renaming(a)
    BY DEF Renaming, At, Tiers
  <2>2. Place(a, t) = row[a].name
    BY <2>1 DEF Place
  <2> QED  BY <2>2 DEF IInv, Complete, Exists
<1> QED  BY <1>1, AlwaysSound, PTL

\* An app that is given a name finds no other app's files there, but those that
\* remove_app was to keep or that deprovision_data could not delete, and the
\* tiers that a refused rename has left there.
THEOREM NobodyInherits ==
    ASSUME Patient
    PROVE  Spec => []OwnDataOnly
<1>1. IInv => OwnDataOnly
  <2> SUFFICES ASSUME IInv, NEW a \in Apps, NEW t \in Tiers, Exists(a), At(a, "idle"),
                      NEW b \in disk[t][row[a].name] \ Absent, b # a
               PROVE  b \in left \/ t \in astray[b]
    BY DEF OwnDataOnly
  <2>1. ~Renaming(a)
    BY DEF Renaming, At, Tiers
  <2>2. row[a].name \in Names
    BY DEF IInv, NamesApart
  <2>3. disk[t][row[a].name] \in (SUBSET Apps) \cup {Absent}
    BY <2>2 DEF IInv, TypeOK
  <2>4. b \in Apps /\ b \in disk[t][row[a].name] \cap Apps
    BY <2>3 DEF Absent
  <2>5. b \in left \/ t \in astray[b] \/ (Exists(b) /\ row[a].name = Place(b, t))
    BY <2>2, <2>4 DEF IInv, Traces, Belongs
  <2> QED  BY <2>1, <2>4, <2>5, PlacesApart
<1> QED  BY <1>1, AlwaysSound, PTL

\* run_deploy builds the image from the row's repo_path, and what is there is the
\* app's own clone: of an install that was refused or cut off only the directory
\* is left, which the next move_clone_to_app_temp_dir replaces.
THEOREM OwnImages ==
    ASSUME Patient
    PROVE  Spec => []RunsOwnCode
<1>1. IInv => RunsOwnCode
  BY DEF IInv, Sources, RunsOwnCode
<1> QED  BY <1>1, AlwaysSound, PTL

=============================================================================
