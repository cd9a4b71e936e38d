------------------------- MODULE AppLifecycleProofs -------------------------
(* Theorems about AppLifecycle, for any number of apps, names, containers and *)
(* tasks, and for every choice of Requests, Faults and Overlap but where a    *)
(* theorem excludes one: Typing, OwnIds, NoResurrection; SingleLauncher and   *)
(* TokensDie; NobodyStranded; PromotedFirst; TableAgrees and OwnContainers.   *)
EXTENDS AppProperties, TLAPS

-----------------------------------------------------------------------------
(* Type correctness.  TypeOK alone is not inductive: a step of a thread uses  *)
(* the app the thread is for, and a rename writes back the status it read.    *)

TasksInOrder ==
    \A t \in Tasks :
        /\ task[t].pc # "idle" => task[t].app \in Apps
        /\ task[t].pc = "stop_cid" =>
               task[t].kind \in {"stop", "guard", "remove", "reload_req", "rename"}
        /\ task[t].pc \in {"pull", "claim"} => task[t].kind = "reload_req"
        /\ task[t].pc \in {"rename_mark", "dirs"} => task[t].kind = "rename"
        /\ task[t].kind = "rename" => task[t].how \in Status

IInv == TypeOK /\ TasksInOrder

\* An UPDATE keeps the table well typed whatever row it is for.
LEMMA UpdateTyped ==
    ASSUME row \in [Apps -> Row], NEW a, NEW status \in Status,
           NEW cid \in Cids \cup {NoCid}, NEW err \in Error,
           Update(a, status, cid, err)
    PROVE  row' \in [Apps -> Row]
  BY DEF Update, Row

\* Stopping containers leaves podman well typed.
LEMMA KillTyped ==
    ASSUME podman \in [Names -> Container \cup {Free}], NEW c, Kill(c)
    PROVE  podman' \in [Names -> Container \cup {Free}]
  BY DEF Kill

\* So does _mark_app_starting.
LEMMA MarkStartingTyped ==
    ASSUME row \in [Apps -> Row], NEW a \in Apps, MarkStarting(a)
    PROVE  row' \in [Apps -> Row]
<1> DEFINE err == IF row[a].err = "marker" THEN "marker" ELSE "none"
<1>1. Update(a, "starting", row[a].cid, err)
  BY DEF MarkStarting
<1>2. row[a].cid \in Cids \cup {NoCid} /\ err \in Error /\ "starting" \in Status
  BY DEF Row, Error, Status, Busy, Transient
<1> HIDE DEF err
<1> QED  BY <1>1, <1>2, UpdateTyped

\* The fields of a row, for the provers.
LEMMA RowFields ==
    ASSUME row \in [Apps -> Row], NEW a \in Apps
    PROVE  /\ row[a].status \in Status /\ row[a].name \in Names \cup {NoName}
           /\ row[a].cid \in Cids \cup {NoCid} /\ row[a].err \in Error
  BY DEF Row

\* The two halves of the invariant a step can disturb through its task.
TasksTyped == task \in [Tasks -> Task] /\ loop \in Tasks \cup {NoTask} /\ TasksInOrder

\* A task that ends, and hands the loop back if it held it, leaves the tasks
\* well typed and in order.
LEMMA DoneTyped ==
    ASSUME TasksTyped, NEW t \in Tasks, Done(t)
    PROVE  TasksTyped'
<1>1. Idle \in Task /\ Idle.kind = "idle" /\ Idle.pc = "idle"
  BY DEF Idle, Task, Kinds, Pcs, Status
<1>2. task' \in [Tasks -> Task] /\ loop' \in Tasks \cup {NoTask}
  BY <1>1 DEF TasksTyped, Done
<1>3. TasksInOrder'
  BY <1>1 DEF TasksTyped, Done, TasksInOrder
<1> QED  BY <1>2, <1>3 DEF TasksTyped

\* A task that goes on to its next step leaves them so, too.
LEMMA GotoTyped ==
    ASSUME TasksTyped, NEW t \in Tasks, task[t].pc # "idle", NEW pc \in Pcs,
           pc \notin {"stop_cid", "pull", "rename_mark", "dirs"},
           pc = "claim" => task[t].kind = "reload_req", Goto(t, pc)
    PROVE  TasksTyped'
<1>1. task' \in [Tasks -> Task] /\ loop' \in Tasks \cup {NoTask}
  BY DEF TasksTyped, Goto, Task
<1>2. TasksInOrder'
  BY DEF TasksTyped, Goto, TasksInOrder, Task
<1> QED  BY <1>1, <1>2 DEF TasksTyped

\* A request that gets a task of its own does.
LEMMA HandleTyped ==
    ASSUME TasksTyped, row \in [Apps -> Row], NEW t \in Tasks, NEW a \in Apps,
           NEW kind \in {"stop", "guard", "remove", "reload_req", "rename"},
           NEW pc \in Pcs \ {"rename_mark", "dirs"},
           pc \in {"pull", "claim"} => kind = "reload_req",
           NEW how \in Requests \cup Status, kind = "rename" => how \in Status,
           NEW to \in Names \cup {NoName},
           Handle(t, kind, pc, a, how, to), loop' \in Tasks \cup {NoTask}
    PROVE  TasksTyped'
<1> DEFINE new == [kind |-> kind, pc |-> pc, app |-> a, name |-> row[a].name,
                   cid |-> row[a].cid, how |-> how, to |-> to]
<1>1. new \in Task
  BY RowFields DEF Task, Kinds, Launchers
<1>2. task' = [task EXCEPT ![t] = new]
  BY DEF Handle
<1>3. new.pc = pc /\ new.kind = kind /\ new.app = a /\ new.how = how
  OBVIOUS
<1> HIDE DEF new
<1>4. task' \in [Tasks -> Task]
  BY <1>1, <1>2 DEF TasksTyped
<1>5. TasksInOrder'
  BY <1>2, <1>3 DEF TasksTyped, TasksInOrder
<1> QED  BY <1>4, <1>5 DEF TasksTyped

\* A handler that starts a thread, or becomes one, does.
LEMMA SpawnTyped ==
    ASSUME TasksTyped, NEW t \in Tasks, NEW kind \in Kinds \ {"rename"},
           NEW pc \in Pcs \ {"stop_cid", "pull", "claim", "rename_mark", "dirs"}, NEW a \in Apps,
           Spawn(t, kind, pc, a), loop' = loop
    PROVE  TasksTyped'
<1> DEFINE new == [Idle EXCEPT !.kind = kind, !.pc = pc, !.app = a]
<1>1. new \in Task
  BY DEF Idle, Task, Status
<1>2. task' = [task EXCEPT ![t] = new]
  BY DEF Spawn
<1>3. new.pc = pc /\ new.kind = kind /\ new.app = a
  BY DEF Idle
<1> HIDE DEF new
<1>4. task' \in [Tasks -> Task]
  BY <1>1, <1>2 DEF TasksTyped
<1>5. TasksInOrder'
  BY <1>2, <1>3 DEF TasksTyped, TasksInOrder
<1> QED  BY <1>4, <1>5 DEF TasksTyped

\* The router starts out well typed, with all tasks in order.
LEMMA InitTyped == Init => IInv
  BY ConstantsAssumption
  DEF Init, IInv, TypeOK, TasksInOrder, BlankRow, Idle, Free, NotQueued, Queued, Row,
      Container, Task, Kinds, Launchers, Pcs, Status, Error

-----------------------------------------------------------------------------
(* The requests and the steps of threads and handlers leave the router        *)
(* process and the boot check alone; each is one step below.                  *)

\* What a request, a thread or a handler may do to the other variables.
Frame == /\ row' \in [Apps -> Row] /\ tokens' \in SUBSET Apps
         /\ podman' \in [Names -> Container \cup {Free}]
         /\ UNCHANGED <<router, seen>> /\ queue' \in [Apps -> Queued]

\* A step of a handler or thread that leaves rows, podman and tasks typed, as its
\* other writes are, keeps the invariant.
LEMMA FrameTyped ==
    ASSUME IInv, Frame, TasksTyped'
    PROVE  IInv'
  BY DEF IInv, TypeOK, Frame, TasksTyped

\* The handlers of add, stop, remove, reload and rename, and the storage guard,
\* as they admit a request.
LEMMA RequestTyped ==
    ASSUME IInv, NEW t \in Tasks, Request(t)
    PROVE  IInv'
<1> USE DEF IInv, TypeOK
<1>0. TasksTyped
  BY DEF TasksTyped
<1>1. PICK a \in Apps :
        \/ \E n \in Names : AddApp(t, a, n) \/ RenameRead(t, a, n)
        \/ StopApp(t, a) \/ RemoveApp(t, a) \/ StorageGuard(t, a)
        \/ \E how \in {"reload", "update", "oauth"} : ReloadRead(t, a, how)
  BY DEF Request
<1>a. /\ row[a].status \in Status /\ row[a].cid \in Cids \cup {NoCid}
  BY RowFields
<1>2. CASE \E n \in Names : AddApp(t, a, n)
  <2>1. PICK n \in Names : AddApp(t, a, n)
    BY <1>2
  <2>2. Frame
    BY <2>1 DEF AddApp, Frame, Row, Status, Busy, Transient, Error
  <2>3. CASE Spawn(t, "deploy", "build", a) /\ loop' = loop
    BY <1>0, <2>2, <2>3, SpawnTyped, FrameTyped DEF Kinds, Launchers, Pcs, LaunchPcs
  <2>4. CASE UNCHANGED <<task, loop>>
    BY <2>2, <2>4 DEF Frame, TasksInOrder
  <2> QED  BY <2>1, <2>3, <2>4 DEF AddApp
<1>3. CASE \E n \in Names : RenameRead(t, a, n)
  <2>1. PICK n \in Names : RenameRead(t, a, n)
    BY <1>3
  <2>2. Frame
    BY <2>1 DEF RenameRead, Frame
  <2>3. TasksTyped'
    BY <1>0, <1>a, <2>1, HandleTyped DEF RenameRead, Pcs
  <2> QED  BY <2>2, <2>3, FrameTyped
<1>4. CASE StopApp(t, a)
  <2>2. Frame
    BY <1>4 DEF StopApp, Frame
  <2>3. TasksTyped'
    BY <1>0, <1>4, HandleTyped DEF StopApp, Pcs, Admit
  <2> QED  BY <2>2, <2>3, FrameTyped
<1>5. CASE RemoveApp(t, a)
  <2>2. Frame
    BY <1>5, <1>a, UpdateTyped DEF RemoveApp, Frame, Status, Busy, Error
  <2>3. CASE Spawn(t, "remove", "read", a) /\ loop' = loop
    BY <1>0, <2>2, <2>3, SpawnTyped, FrameTyped DEF Kinds, Pcs
  <2>4. CASE UNCHANGED <<task, loop>>
    BY <2>2, <2>4 DEF Frame, TasksInOrder
  <2> QED  BY <1>5, <2>3, <2>4 DEF RemoveApp
<1>6. CASE StorageGuard(t, a)
  <2>2. Frame
    BY <1>6 DEF StorageGuard, Frame
  <2>3. TasksTyped'
    BY <1>0, <1>6, HandleTyped DEF StorageGuard, Pcs, Status
  <2> QED  BY <2>2, <2>3, FrameTyped
<1>7. CASE \E how \in {"reload", "update", "oauth"} : ReloadRead(t, a, how)
  <2>1. PICK how \in {"reload", "update", "oauth"} : ReloadRead(t, a, how)
    BY <1>7
  <2>2. Frame
    BY <2>1 DEF ReloadRead, Frame
  <2>3. how \in Requests
    BY <2>1 DEF ReloadRead, Admit
  <2>4. loop' \in Tasks \cup {NoTask}
    BY <2>1 DEF ReloadRead
  <2>5. PICK pc \in {"claim", "pull"} : Handle(t, "reload_req", pc, a, how, NoName)
    BY <2>1 DEF ReloadRead
  <2>6. TasksTyped'
    BY <1>0, <2>3, <2>4, <2>5, HandleTyped DEF Pcs
  <2> QED  BY <2>2, <2>6, FrameTyped
<1> QED  BY <1>1, <1>2, <1>3, <1>4, <1>5, <1>6, <1>7

\* The steps of deploy, reload, removal and recovery threads.
LEMMA ThreadTyped ==
    ASSUME IInv, NEW t \in Tasks, ThreadStep(t)
    PROVE  IInv'
<1> USE DEF IInv, TypeOK
<1>0. TasksTyped
  BY DEF TasksTyped
<1>1. CASE StopAppProcess(t)
  <2>1. task[t].pc # "idle" /\ task[t].app \in Apps
    BY <1>1 DEF StopAppProcess, At, TasksInOrder
  <2>2. Frame
    BY <1>1, <2>1, KillTyped DEF StopAppProcess, Frame
  <2>3. TasksTyped'
    <3>1. CASE task[t].kind = "rename"
      <4>1. task' = [task EXCEPT ![t].pc = "rename_mark"] /\ loop' = loop
        BY <1>1, <3>1 DEF StopAppProcess, AfterStop, Goto
      <4>2. task' \in [Tasks -> Task]
        BY <1>0, <4>1 DEF TasksTyped, Task, Pcs
      <4>3. TasksInOrder'
        BY <1>0, <2>1, <3>1, <4>1 DEF TasksTyped, TasksInOrder, Task
      <4> QED  BY <1>0, <4>1, <4>2, <4>3 DEF TasksTyped
    <3>2. CASE task[t].kind # "rename"
      <4>1. task[t].kind \in {"stop", "guard", "remove", "reload_req"}
        BY <1>1, <3>2 DEF StopAppProcess, At, TasksInOrder
      <4>2. AfterStop(task[t].kind) \in {"stop_name", "write", "delete", "spawn"}
        BY <4>1 DEF AfterStop
      <4>3. AfterStop(task[t].kind) \in Pcs
        BY <4>2 DEF Pcs, LaunchPcs
      <4> QED  BY <1>0, <1>1, <2>1, <4>2, <4>3, GotoTyped DEF StopAppProcess
    <3> QED  BY <3>1, <3>2
  <2> QED  BY <2>2, <2>3, FrameTyped
<1>2. CASE StopByName(t)
  <2>1. task[t].pc # "idle" /\ task[t].app \in Apps
    BY <1>2 DEF StopByName, At, TasksInOrder
  <2>2. Frame
    BY <1>2, <2>1 DEF StopByName, Frame, Free
  <2>3. TasksTyped'
    BY <1>0, <1>2, <2>1, GotoTyped, DoneTyped DEF StopByName, At, Pcs
  <2> QED  BY <2>2, <2>3, FrameTyped
<1>3. CASE StopWrite(t)
  <2>1. task[t].pc # "idle" /\ task[t].app \in Apps
    BY <1>3 DEF StopWrite, At, TasksInOrder
  <2>2. Frame
    BY <1>3, <2>1, RowFields, UpdateTyped DEF StopWrite, Frame, Status
  <2>3. TasksTyped'
    BY <1>0, <1>3, <2>1, DoneTyped DEF StopWrite
  <2> QED  BY <2>2, <2>3, FrameTyped
<1>4. CASE GuardWrite(t)
  <2>1. task[t].pc # "idle" /\ task[t].app \in Apps
    BY <1>4 DEF GuardWrite, At, TasksInOrder
  <2>2. Frame
    BY <1>4, <2>1, UpdateTyped DEF GuardWrite, Frame, Status, Error
  <2>3. TasksTyped'
    BY <1>0, <1>4, <2>1, DoneTyped DEF GuardWrite
  <2> QED  BY <2>2, <2>3, FrameTyped
<1>5. CASE RemoveRead(t)
  <2>1. task[t].pc # "idle" /\ task[t].app \in Apps
    BY <1>5 DEF RemoveRead, At, TasksInOrder
  <2>2. Frame
    BY <1>5, <2>1 DEF RemoveRead, Frame
  <2>3. TasksTyped'
    BY <1>0, <1>5, <2>1, DoneTyped, HandleTyped DEF RemoveRead, Pcs, Status
  <2> QED  BY <2>2, <2>3, FrameTyped
<1>6. CASE RemoveDelete(t)
  <2>1. task[t].pc # "idle" /\ task[t].app \in Apps
    BY <1>6 DEF RemoveDelete, At, TasksInOrder
  <2>2. Frame
    <3>1. CASE row' = [row EXCEPT ![task[t].app] = BlankRow("gone")]
      <4>1. BlankRow("gone") \in Row
        BY DEF BlankRow, Row, Status, Error
      <4> QED  BY <1>6, <3>1, <4>1 DEF RemoveDelete, Frame
    <3>2. CASE RecordFailure(task[t].app, row[task[t].app].cid, "other")
      <4>1. row' \in [Apps -> Row]
        BY <2>1, <3>2, RowFields, UpdateTyped DEF RecordFailure, Status, Error
      <4> QED  BY <1>6, <4>1 DEF RemoveDelete, Frame
    <3> QED  BY <1>6, <3>1, <3>2 DEF RemoveDelete
  <2>3. TasksTyped'
    BY <1>0, <1>6, <2>1, DoneTyped DEF RemoveDelete
  <2> QED  BY <2>2, <2>3, FrameTyped
<1>7. CASE ReloadSync(t)
  <2>1. task[t].pc # "idle" /\ task[t].app \in Apps
    BY <1>7 DEF ReloadSync, At, TasksInOrder
  <2>2. Frame
    BY <1>7, <2>1 DEF ReloadSync, Frame
  <2>3. TasksTyped'
    BY <1>0, <1>7, <2>1, DoneTyped, GotoTyped DEF ReloadSync, At, Pcs, LaunchPcs
  <2> QED  BY <2>2, <2>3, FrameTyped
<1>8. CASE RenameMark(t)
  <2>1. task[t].pc # "idle" /\ task[t].app \in Apps
    BY <1>8 DEF RenameMark, At, TasksInOrder
  <2>2. Frame
    BY <1>8, <2>1, RowFields, UpdateTyped DEF RenameMark, Frame, Status
  <2>3. TasksTyped'
    <3>1. task[t].kind = "rename" /\ "dirs" \in Pcs
      BY <1>8 DEF RenameMark, At, TasksInOrder, Pcs
    <3>2. task' \in [Tasks -> Task] /\ loop' \in Tasks \cup {NoTask}
      BY <1>0, <1>8, <3>1 DEF TasksTyped, RenameMark, Task
    <3>3. TasksInOrder'
      BY <1>0, <1>8, <2>1, <3>1 DEF TasksTyped, RenameMark, TasksInOrder, Task
    <3> QED  BY <3>2, <3>3 DEF TasksTyped
  <2> QED  BY <2>2, <2>3, FrameTyped
<1>9. CASE StartAppProcess(t)
  <2>1. task[t].pc # "idle" /\ task[t].app \in Apps
    BY <1>9 DEF StartAppProcess, At, TasksInOrder
  <2>2. Frame
    BY <1>9, <2>1, MarkStartingTyped DEF StartAppProcess, Frame
  <2>3. TasksTyped'
    BY <1>0, <1>9, <2>1, GotoTyped DEF StartAppProcess, At, Pcs, LaunchPcs
  <2> QED  BY <2>2, <2>3, FrameTyped
<1>10. CASE RestartAppProcess(t)
  <2>1. task[t].pc # "idle" /\ task[t].app \in Apps
    BY <1>10 DEF RestartAppProcess, At, TasksInOrder
  <2>2. Frame
    BY <1>10, <2>1 DEF RestartAppProcess, Frame
  <2>3. TasksTyped'
    BY <1>0, <1>10, <2>1, GotoTyped DEF RestartAppProcess, At, Pcs, LaunchPcs
  <2> QED  BY <2>2, <2>3, FrameTyped
<1>11. CASE Build(t)
  <2>1. task[t].pc # "idle" /\ task[t].app \in Apps
    BY <1>11 DEF Build, At, TasksInOrder
  <2>2. Frame
    BY <1>11, <2>1 DEF Build, Frame
  <2>3. TasksTyped'
    BY <1>0, <1>11, <2>1, GotoTyped DEF Build, At, Pcs, LaunchPcs
  <2> QED  BY <2>2, <2>3, FrameTyped
<1>12. CASE ReadImageRow(t)
  <2>1. task[t].pc # "idle" /\ task[t].app \in Apps
    BY <1>12 DEF ReadImageRow, At, TasksInOrder
  <2>2. Frame
    BY <1>12, <2>1 DEF ReadImageRow, Frame
  <2>3. TasksTyped'
    <3>1. PICK pc \in {"mark", "fail"}, name \in Names \cup {NoName},
                 cid \in Cids \cup {NoCid} :
            task' = [task EXCEPT ![t].pc = pc, ![t].name = name, ![t].cid = cid]
      <4>1. row[task[t].app].name \in Names \cup {NoName}
            /\ row[task[t].app].cid \in Cids \cup {NoCid}
        BY <2>1, RowFields
      <4>2. CASE Present(task[t].app)
        BY <1>12, <4>1, <4>2 DEF ReadImageRow
      <4>3. CASE ~Present(task[t].app)
        <5>1. task[t].name \in Names \cup {NoName} /\ task[t].cid \in Cids \cup {NoCid}
          BY DEF Task
        <5>2. task' = [task EXCEPT ![t].pc = "fail", ![t].name = task[t].name,
                                   ![t].cid = task[t].cid]
          BY <1>12, <4>3 DEF ReadImageRow, Task
        <5> QED  BY <5>1, <5>2
      <4> QED  BY <4>2, <4>3
    <3>2. pc \in Pcs
      BY DEF Pcs, LaunchPcs
    <3>3. task' \in [Tasks -> Task]
      <4>1. task[t] \in Task
        BY <1>0 DEF TasksTyped
      <4>2. [task[t] EXCEPT !.pc = pc, !.name = name, !.cid = cid] \in Task
        BY <3>2, <4>1 DEF Task
      <4>3. task' = [task EXCEPT ![t] = [task[t] EXCEPT !.pc = pc, !.name = name, !.cid = cid]]
        BY <3>1
      <4> QED  BY <1>0, <4>2, <4>3 DEF TasksTyped
    <3>4. TasksInOrder'
      BY <1>0, <2>1, <3>1 DEF TasksTyped, TasksInOrder, Task
    <3> QED  BY <1>0, <1>12, <3>3, <3>4 DEF TasksTyped, ReadImageRow
  <2> QED  BY <2>2, <2>3, FrameTyped
<1>13. CASE MarkLaunch(t)
  <2>1. task[t].pc # "idle" /\ task[t].app \in Apps
    BY <1>13 DEF MarkLaunch, At, TasksInOrder
  <2>2. Frame
    BY <1>13, <2>1, MarkStartingTyped, UpdateTyped
    DEF MarkLaunch, RecordFailure, Frame, Status, Error, Task
  <2>3. TasksTyped'
    BY <1>0, <1>13, <2>1, GotoTyped DEF MarkLaunch, At, Pcs, LaunchPcs
  <2> QED  BY <2>2, <2>3, FrameTyped
<1>14. CASE ClearStale(t)
  <2>1. task[t].pc # "idle" /\ task[t].app \in Apps
    BY <1>14 DEF ClearStale, At, TasksInOrder
  <2>2. Frame
    BY <1>14, <2>1 DEF ClearStale, Frame, Free
  <2>3. TasksTyped'
    BY <1>0, <1>14, <2>1, GotoTyped DEF ClearStale, At, Pcs, LaunchPcs
  <2> QED  BY <2>2, <2>3, FrameTyped
<1>15. CASE RunContainer(t)
  <2>1. task[t].pc # "idle" /\ task[t].app \in Apps
    BY <1>15 DEF RunContainer, At, TasksInOrder
  <2>2. Frame
    <3>1. PICK c \in Cids : podman' = [podman EXCEPT ![task[t].name] =
                                         [cid |-> c, app |-> task[t].app]]
      BY <1>15 DEF RunContainer
    <3>2. podman' \in [Names -> Container \cup {Free}]
      BY <2>1, <3>1 DEF Container
    <3>3. row' \in [Apps -> Row]
      BY <1>15, UpdateTyped DEF RunContainer, RecordFailure, Status, Error
    <3> QED  BY <1>15, <3>2, <3>3 DEF RunContainer, Frame
  <2>3. TasksTyped'
    <3>1. PICK pc \in {"record", "fail"}, c \in Cids :
            \/ task' = [task EXCEPT ![t].pc = pc, ![t].cid = c]
            \/ task' = [task EXCEPT ![t].pc = pc]
      BY <1>15 DEF RunContainer
    <3>2. pc \in Pcs
      BY DEF Pcs, LaunchPcs
    <3>3. task' \in [Tasks -> Task]
      BY <1>0, <3>1, <3>2 DEF TasksTyped, Task
    <3>4. TasksInOrder'
      BY <1>0, <2>1, <3>1 DEF TasksTyped, TasksInOrder, Task
    <3> QED  BY <1>0, <1>15, <3>3, <3>4 DEF TasksTyped, RunContainer
  <2> QED  BY <2>2, <2>3, FrameTyped
<1>16. CASE RunFails(t)
  <2>1. task[t].pc # "idle" /\ task[t].app \in Apps
    BY <1>16 DEF RunFails, At, TasksInOrder
  <2>2. Frame
    BY <1>16, <2>1, UpdateTyped DEF RunFails, RecordFailure, Frame, Status, Error
  <2>3. TasksTyped'
    BY <1>0, <1>16, <2>1, GotoTyped DEF RunFails, At, Pcs, LaunchPcs
  <2> QED  BY <2>2, <2>3, FrameTyped
<1>17. CASE RecordContainer(t)
  <2>1. task[t].pc # "idle" /\ task[t].app \in Apps
    BY <1>17 DEF RecordContainer, At, TasksInOrder
  <2>2. Frame
    BY <1>17, <2>1, RowFields, UpdateTyped DEF RecordContainer, Frame, Task
  <2>3. TasksTyped'
    BY <1>0, <1>17, <2>1, GotoTyped DEF RecordContainer, At, Pcs, LaunchPcs
  <2> QED  BY <2>2, <2>3, FrameTyped
<1>18. CASE RecordFails(t)
  <2>1. task[t].pc # "idle" /\ task[t].app \in Apps
    BY <1>18 DEF RecordFails, At, TasksInOrder
  <2>2. Frame
    BY <1>18, <2>1, KillTyped, UpdateTyped
    DEF RecordFails, RecordFailure, Frame, Status, Error, Task
  <2>3. TasksTyped'
    BY <1>0, <1>18, <2>1, GotoTyped DEF RecordFails, At, Pcs, LaunchPcs
  <2> QED  BY <2>2, <2>3, FrameTyped
<1>19. CASE WaitForReady(t)
  <2>1. task[t].pc # "idle" /\ task[t].app \in Apps
    BY <1>19 DEF WaitForReady, At, TasksInOrder
  <2>2. Frame
    BY <1>19, <2>1 DEF WaitForReady, Frame
  <2>3. TasksTyped'
    BY <1>0, <1>19, <2>1, GotoTyped DEF WaitForReady, At, Pcs, LaunchPcs
  <2> QED  BY <2>2, <2>3, FrameTyped
<1>20. CASE LaunchDone(t)
  <2>1. task[t].pc # "idle" /\ task[t].app \in Apps
    BY <1>20 DEF LaunchDone, At, TasksInOrder
  <2>2. Frame
    BY <1>20, <2>1, RowFields, UpdateTyped DEF LaunchDone, Frame, Status, Error
  <2>3. TasksTyped'
    BY <1>0, <1>20, <2>1, DoneTyped DEF LaunchDone
  <2> QED  BY <2>2, <2>3, FrameTyped
<1>21. CASE LaunchFailed(t)
  <2>1. task[t].pc # "idle" /\ task[t].app \in Apps
    BY <1>21 DEF LaunchFailed, At, TasksInOrder
  <2>2. Frame
    BY <1>21, <2>1, RowFields, UpdateTyped DEF LaunchFailed, Frame, Status, Error
  <2>3. TasksTyped'
    BY <1>0, <1>21, <2>1, DoneTyped DEF LaunchFailed
  <2> QED  BY <2>2, <2>3, FrameTyped
<1>22. CASE LaunchFailureLost(t)
  <2>1. task[t].pc # "idle" /\ task[t].app \in Apps
    BY <1>22 DEF LaunchFailureLost, TasksInOrder
  <2>2. queue' \in [Apps -> Queued]
    BY <1>22 DEF LaunchFailureLost, NotQueued, Queued
  <2>3. TasksTyped'
    BY <1>0, <1>22, <2>1, DoneTyped DEF LaunchFailureLost
  <2> QED  BY <1>22, <2>2, <2>3 DEF LaunchFailureLost, TasksTyped
<1> QED
  BY <1>1, <1>2, <1>3, <1>4, <1>5, <1>6, <1>7, <1>8, <1>9, <1>10, <1>11, <1>12, <1>13, <1>14, <1>15, <1>16, <1>17, <1>18, <1>19, <1>20, <1>21, <1>22 DEF ThreadStep

\* The steps of handlers on the event loop.
LEMMA LoopTyped ==
    ASSUME IInv, NEW t \in Tasks, LoopStep(t)
    PROVE  IInv'
<1> USE DEF IInv, TypeOK
<1>0. TasksTyped
  BY DEF TasksTyped
<1>1. CASE Pull(t)
  <2>1. task[t].pc # "idle" /\ task[t].app \in Apps
    BY <1>1 DEF Pull, At, TasksInOrder
  <2>2. Frame
    BY <1>1, <2>1, RowFields, UpdateTyped DEF Pull, Frame, Status, Error
  <2>3. TasksTyped'
    <3>1. task[t].kind = "reload_req"
      BY <1>1 DEF Pull, At, TasksInOrder
    <3> QED  BY <1>0, <1>1, <2>1, <3>1, GotoTyped, DoneTyped DEF Pull, Pcs
  <2> QED  BY <2>2, <2>3, FrameTyped
<1>2. CASE Claim(t)
  <2>1. task[t].pc # "idle" /\ task[t].app \in Apps
    BY <1>2 DEF Claim, At, TasksInOrder
  <2>2. Frame
    BY <1>2, <2>1, UpdateTyped DEF Claim, Frame, Status, Error, Busy, Transient
  <2>3. TasksTyped'
    <3>1. CASE task' = [task EXCEPT ![t] = [@ EXCEPT !.pc = "stop_cid"]]
      <4>1. task' \in [Tasks -> Task]
        BY <1>0, <3>1 DEF TasksTyped, Task, Pcs
      <4>2. TasksInOrder'
        BY <1>0, <1>2, <2>1, <3>1 DEF TasksTyped, TasksInOrder, Task, Claim, At
      <4> QED  BY <1>2, <4>1, <4>2 DEF TasksTyped, Claim
    <3>2. CASE task' = [task EXCEPT ![t] = Idle]
      <4>1. Idle \in Task /\ Idle.kind = "idle" /\ Idle.pc = "idle"
        BY DEF Idle, Task, Kinds, Pcs, Status
      <4> QED  BY <1>0, <1>2, <3>2, <4>1 DEF TasksTyped, Claim, TasksInOrder
    <3> QED  BY <1>2, <3>1, <3>2 DEF Claim
  <2> QED  BY <2>2, <2>3, FrameTyped
<1>3. CASE SpawnReload(t)
  <2>1. task[t].pc # "idle" /\ task[t].app \in Apps
    BY <1>3 DEF SpawnReload, At, TasksInOrder
  <2>2. Frame
    BY <1>3, <2>1 DEF SpawnReload, Frame
  <2>3. TasksTyped'
    <3>1. CASE Spawn(t, "reload", "sync", task[t].app)
      BY <1>0, <1>3, <2>1, <3>1, SpawnTyped DEF SpawnReload, Kinds, Launchers, Pcs, LaunchPcs
    <3>2. CASE task' = [task EXCEPT ![t] = Idle]
      <4>1. Idle \in Task /\ Idle.kind = "idle" /\ Idle.pc = "idle"
        BY DEF Idle, Task, Kinds, Pcs, Status
      <4> QED  BY <1>0, <1>3, <3>2, <4>1 DEF TasksTyped, SpawnReload, TasksInOrder
    <3> QED  BY <1>3, <3>1, <3>2 DEF SpawnReload
  <2> QED  BY <2>2, <2>3, FrameTyped
<1>4. CASE RenameUndo(t)
  <2>1. task[t].pc # "idle" /\ task[t].app \in Apps
    BY <1>4 DEF RenameUndo, At, TasksInOrder
  <2>2. Frame
    <3>1. task[t].how \in Status /\ task[t].cid \in Cids \cup {NoCid}
      BY <1>4 DEF RenameUndo, At, TasksInOrder, Task
    <3> QED  BY <1>4, <2>1, <3>1, RowFields, UpdateTyped DEF RenameUndo, Frame
  <2>3. TasksTyped'
    BY <1>0, <1>4, <2>1, DoneTyped DEF RenameUndo
  <2> QED  BY <2>2, <2>3, FrameTyped
<1>5. CASE RenameWrite(t)
  <2>1. task[t].pc # "idle" /\ task[t].app \in Apps
    BY <1>5 DEF RenameWrite, At, TasksInOrder
  <2>2. Frame
    <3>1. task[t].to \in Names \cup {NoName}
      BY DEF Task
    <3>2. [row[task[t].app] EXCEPT !.name = task[t].to] \in Row
      <4>1. row[task[t].app] \in Row
        BY <2>1
      <4> QED  BY <3>1, <4>1 DEF Row
    <3>3. row' \in [Apps -> Row]
      BY <1>5, <2>1, <3>2 DEF RenameWrite
    <3> QED  BY <1>5, <3>3 DEF RenameWrite, Frame
  <2>3. TasksTyped'
    <3>1. CASE task' = [task EXCEPT ![t].pc = "start"] /\ loop' = t
      BY <1>0, <2>1, <3>1 DEF TasksTyped, TasksInOrder, Task, Pcs, LaunchPcs
    <3>2. CASE Done(t)
      BY <1>0, <3>2, DoneTyped
    <3> QED  BY <1>5, <3>1, <3>2 DEF RenameWrite
  <2> QED  BY <2>2, <2>3, FrameTyped
<1> QED
  BY <1>1, <1>2, <1>3, <1>4, <1>5 DEF LoopStep

\* What promotion and the boot check write.
LEMMA NewStatusTyped ==
    ASSUME NEW r \in Row, NEW status \in Status, NEW err \in Error
    PROVE  /\ [r EXCEPT !.status = status] \in Row
           /\ [r EXCEPT !.status = status, !.err = err] \in Row
  BY DEF Row

\* The steps of the router process.
LEMMA RouterTyped ==
    ASSUME IInv, \/ Promote \/ Exit \/ CheckRead \/ CheckWrite \/ Serve
                 \/ \E t \in Tasks, a \in Apps : RecoverNext(t, a)
    PROVE  IInv'
<1> USE DEF IInv, TypeOK
<1>0. TasksTyped
  BY DEF TasksTyped
<1>1. CASE Promote
  <2>1. row' \in [Apps -> Row]
    <3>1. \A a \in Apps : [row[a] EXCEPT !.status = "starting", !.err = "marker"] \in Row
      BY NewStatusTyped DEF Status, Busy, Transient, Error
    <3> QED  BY <1>1, <3>1 DEF Promote
  <2> QED  BY <1>1, <2>1 DEF Promote, TasksInOrder
<1>2. CASE Exit
  <2>1. row' \in [Apps -> Row]
    <3>1. \A a \in Apps : [row[a] EXCEPT !.fresh = FALSE] \in Row
      BY DEF Row
    <3> QED  BY <1>2, <3>1 DEF Exit
  <2>2. podman' \in [Names -> Container \cup {Free}]
    BY <1>2 DEF Exit
  <2>3. task' \in [Tasks -> Task] /\ TasksInOrder'
    <3>1. Idle \in Task /\ Idle.kind = "idle" /\ Idle.pc = "idle"
      BY DEF Idle, Task, Kinds, Pcs, Status
    <3> QED  BY <1>2, <3>1 DEF Exit, TasksInOrder
  <2>4. seen' \in [Apps -> Row] /\ queue' \in [Apps -> Queued]
    BY <1>2 DEF Exit, BlankRow, Row, Status, Error, NotQueued, Queued
  <2> QED  BY <1>2, <2>1, <2>2, <2>3, <2>4 DEF Exit
<1>3. CASE CheckRead
  BY <1>3 DEF CheckRead, TasksInOrder
<1>4. CASE CheckWrite
  <2>1. PICK rebuild \in SUBSET Apps, lost \in SUBSET Apps :
          /\ row' = [a \in Apps |-> IF Present(a) THEN Recovered(a, lost) ELSE row[a]]
          /\ queue' = [a \in Apps |->
               IF Verdict(a, lost) = "recover"
               THEN [wait |-> IF Promoted(a) THEN "sync" ELSE "async",
                     build |-> seen[a].status = "building" \/ a \in rebuild]
               ELSE IF Corrupt(a, lost) THEN [wait |-> "async", build |-> TRUE]
               ELSE NotQueued]
    BY <1>4 DEF CheckWrite
  <2>2. row' \in [Apps -> Row]
    <3>1. \A a \in Apps : Recovered(a, lost) \in Row
      BY NewStatusTyped DEF Recovered, Status, Busy, Transient, Error
    <3> QED  BY <2>1, <3>1
  <2>3. queue' \in [Apps -> Queued]
    BY <2>1 DEF Queued, NotQueued
  <2>4. seen' \in [Apps -> Row]
    BY <1>4 DEF CheckWrite, BlankRow, Row, Status, Error
  <2> QED  BY <1>4, <2>2, <2>3, <2>4 DEF CheckWrite, TasksInOrder
<1>5. CASE Serve
  BY <1>5 DEF Serve, TasksInOrder
<1>6. CASE \E t \in Tasks, a \in Apps : RecoverNext(t, a)
  <2>1. PICK t \in Tasks, a \in Apps : RecoverNext(t, a)
    BY <1>6
  <2>2. Frame
    BY <2>1 DEF RecoverNext, Frame, NotQueued, Queued
  <2>3. TasksTyped'
    BY <1>0, <2>1, SpawnTyped DEF RecoverNext, Kinds, Launchers, Pcs, LaunchPcs
  <2> QED  BY <2>2, <2>3, FrameTyped
<1> QED  BY <1>1, <1>2, <1>3, <1>4, <1>5, <1>6

\* Every step of the system keeps the invariant.
LEMMA NextTyped == IInv /\ [Next]_vars => IInv'
<1> SUFFICES ASSUME IInv, [Next]_vars  PROVE IInv'
  OBVIOUS
<1>1. CASE UNCHANGED vars
  BY <1>1 DEF IInv, TypeOK, TasksInOrder, vars
<1>2. CASE Next
  BY <1>2, RequestTyped, ThreadTyped, LoopTyped, RouterTyped DEF Next
<1> QED  BY <1>1, <1>2

\* Every status, error and container id that any route, thread or boot check
\* writes is one the apps table admits: Typing is what makes the CHECK
\* constraint on apps.status one that no UPDATE of the router can trip over.
THEOREM Typing == Spec => []TypeOK
<1>1. Init => IInv
  BY InitTyped
<1>2. IInv /\ [Next]_vars => IInv'
  BY NextTyped
<1>3. IInv => TypeOK
  BY DEF IInv
<1> QED  BY <1>1, <1>2, <1>3, PTL DEF Spec

-----------------------------------------------------------------------------
(* Late writers stay within their own app: a container id never crosses from  *)
(* one app to another, and a deleted row never comes back.  Both follow from  *)
(* what each step may write, which the lemmas below establish once for both.  *)

(* What a step may write.  The step takes a container id for app a only from  *)
(* somebody who holds it for a, and never touches the status of a gone row.   *)

RowsKeep ==
    \A a \in Apps :
        /\ \A c \in Cids : row'[a].cid = c => Holds(c, a)
        /\ row[a].status = "gone" => row'[a].status = "gone"

TasksKeep ==
    \A t \in Tasks, a \in Apps, c \in Cids :
        task'[t].app = a /\ task'[t].cid = c => Holds(c, a)

PodmanKeeps == \A n \in Names : podman'[n] \in {podman[n], Free}

NoNewHolder == RowsKeep /\ TasksKeep /\ PodmanKeeps

\* An UPDATE that writes an id its app already holds, or NULL.
LEMMA UpdateKeeps ==
    ASSUME IInv, NEW a, NEW status, NEW cid, NEW err, Update(a, status, cid, err),
           a \in Apps => cid = NoCid \/ Holds(cid, a)
    PROVE  RowsKeep
<1> SUFFICES ASSUME NEW b \in Apps
             PROVE  /\ \A c \in Cids : row'[b].cid = c => Holds(c, b)
                    /\ row[b].status = "gone" => row'[b].status = "gone"
  BY DEF RowsKeep
<1>0. row \in [Apps -> Row] /\ row[b] \in Row
  BY DEF IInv, TypeOK
<1>1. CASE b = a /\ Present(a)
  <2>1. row'[b] = [row[b] EXCEPT !.status = status, !.cid = cid, !.err = err]
    BY <1>0, <1>1 DEF Update
  <2>2. row'[b].cid = cid
    BY <1>0, <2>1 DEF Row
  <2> QED  BY <1>1, <2>2, ConstantsAssumption DEF Present
<1>2. CASE ~(b = a /\ Present(a))
  <2>1. row'[b] = row[b]
    BY <1>0, <1>2 DEF Update
  <2> QED  BY <2>1 DEF Holds
<1> QED  BY <1>1, <1>2

\* _mark_app_starting clears an id and gives nobody one.
LEMMA MarkStartingKeeps ==
    ASSUME IInv, NEW a, MarkStarting(a)
    PROVE  RowsKeep
<1> DEFINE err == IF row[a].err = "marker" THEN "marker" ELSE "none"
<1>1. Update(a, "starting", row[a].cid, err)
  BY DEF MarkStarting
<1>2. Holds(row[a].cid, a)
  BY DEF Holds
<1> HIDE DEF err
<1> QED  BY <1>1, <1>2, UpdateKeeps

\* A step that leaves the rows alone.
LEMMA RowUnchangedKeeps ==
    ASSUME row' = row
    PROVE  RowsKeep
  BY DEF RowsKeep, Holds

\* A task that only moves on, ends, or starts for an app holds nothing new; one
\* that has read a row holds what the row holds.
LEMMA TaskUnchangedKeeps ==
    ASSUME task' = task
    PROVE  TasksKeep
  BY DEF TasksKeep, Holds

\* A task that goes on keeps its app and its id.
LEMMA GotoKeeps ==
    ASSUME IInv, NEW t \in Tasks, NEW pc, task' = [task EXCEPT ![t].pc = pc]
    PROVE  TasksKeep
<1> SUFFICES ASSUME NEW u \in Tasks, NEW a \in Apps, NEW c \in Cids,
                    task'[u].app = a, task'[u].cid = c
             PROVE  Holds(c, a)
  BY DEF TasksKeep
<1>1. task'[u].app = task[u].app /\ task'[u].cid = task[u].cid
  BY DEF IInv, TypeOK, Task
<1> QED  BY <1>1 DEF Holds

\* A task that is replaced by one without an id adds no holder.
LEMMA FreshTaskKeeps ==
    ASSUME IInv, NEW t \in Tasks, NEW new, new.cid = NoCid, task' = [task EXCEPT ![t] = new]
    PROVE  TasksKeep
<1> SUFFICES ASSUME NEW u \in Tasks, NEW a \in Apps, NEW c \in Cids,
                    task'[u].app = a, task'[u].cid = c
             PROVE  Holds(c, a)
  BY DEF TasksKeep
<1>1. u # t
  BY ConstantsAssumption DEF IInv, TypeOK
<1>2. task'[u] = task[u]
  BY <1>1 DEF IInv, TypeOK
<1> QED  BY <1>2 DEF Holds

\* A task that ends holds nothing new.
LEMMA DoneKeeps ==
    ASSUME IInv, NEW t \in Tasks, Done(t) \/ task' = [task EXCEPT ![t] = Idle]
    PROVE  TasksKeep
<1>1. Idle.cid = NoCid /\ task' = [task EXCEPT ![t] = Idle]
  BY DEF Idle, Done
<1> QED  BY <1>1, FreshTaskKeeps

\* A thread that starts holds nothing yet.
LEMMA SpawnKeeps ==
    ASSUME IInv, NEW t \in Tasks, NEW kind, NEW pc, NEW a, Spawn(t, kind, pc, a)
    PROVE  TasksKeep
<1> DEFINE new == [Idle EXCEPT !.kind = kind, !.pc = pc, !.app = a]
<1>1. new.cid = NoCid /\ task' = [task EXCEPT ![t] = new]
  BY DEF Idle, Spawn
<1> HIDE DEF new
<1> QED  BY <1>1, FreshTaskKeeps

\* A handler holds the id of the row it has read, which is its own app's.
LEMMA HandleKeeps ==
    ASSUME IInv, NEW t \in Tasks, NEW a \in Apps, NEW kind, NEW pc, NEW how, NEW to,
           Handle(t, kind, pc, a, how, to)
    PROVE  TasksKeep
<1> SUFFICES ASSUME NEW u \in Tasks, NEW b \in Apps, NEW c \in Cids,
                    task'[u].app = b, task'[u].cid = c
             PROVE  Holds(c, b)
  BY DEF TasksKeep
<1>1. CASE u = t
  <2>1. task'[u].app = a /\ task'[u].cid = row[a].cid
    BY <1>1 DEF Handle, IInv, TypeOK
  <2> QED  BY <2>1 DEF Holds
<1>2. CASE u # t
  <2>1. task'[u] = task[u]
    BY <1>2 DEF Handle, IInv, TypeOK
  <2> QED  BY <2>1 DEF Holds
<1> QED  BY <1>1, <1>2

\* Stopping a container gives nobody an id.
LEMMA KillKeeps ==
    ASSUME IInv, NEW c, Kill(c)
    PROVE  PodmanKeeps
  BY DEF Kill, PodmanKeeps, IInv, TypeOK

\* Nor does podman removing it.
LEMMA FreeKeeps ==
    ASSUME IInv, NEW n, podman' = [podman EXCEPT ![n] = Free]
    PROVE  PodmanKeeps
  BY DEF PodmanKeeps, IInv, TypeOK

\* Nor does leaving podman alone.
LEMMA PodmanUnchangedKeeps ==
    ASSUME podman' = podman
    PROVE  PodmanKeeps
  BY DEF PodmanKeeps

-----------------------------------------------------------------------------
(* Every step but the launch of a container keeps the holders as they are.    *)

\* No request handler gives an app an id.
LEMMA RequestKeeps ==
    ASSUME IInv, NEW t \in Tasks, Request(t)
    PROVE  NoNewHolder
<1>1. PICK a \in Apps :
        \/ \E n \in Names : AddApp(t, a, n) \/ RenameRead(t, a, n)
        \/ StopApp(t, a) \/ RemoveApp(t, a) \/ StorageGuard(t, a)
        \/ \E how \in {"reload", "update", "oauth"} : ReloadRead(t, a, how)
  BY DEF Request
<1>2. CASE \E n \in Names : AddApp(t, a, n)
  <2>1. PICK n \in Names : AddApp(t, a, n)
    BY <1>2
  <2>2. RowsKeep
    <3> SUFFICES ASSUME NEW b \in Apps
                 PROVE  /\ \A c \in Cids : row'[b].cid = c => Holds(c, b)
                        /\ row[b].status = "gone" => row'[b].status = "gone"
      BY DEF RowsKeep
    <3>1. CASE b = a
      <4>1. row'[b].cid = NoCid /\ row[b].status = "new"
        BY <2>1, <3>1 DEF AddApp, IInv, TypeOK
      <4> QED  BY <4>1, ConstantsAssumption
    <3>2. CASE b # a
      <4>1. row'[b] = row[b]
        BY <2>1, <3>2 DEF AddApp, IInv, TypeOK
      <4> QED  BY <4>1 DEF Holds
    <3> QED  BY <3>1, <3>2
  <2>3. TasksKeep
    BY <2>1, SpawnKeeps, TaskUnchangedKeeps DEF AddApp
  <2> QED  BY <2>1, <2>2, <2>3, PodmanUnchangedKeeps DEF AddApp, NoNewHolder
<1>3. CASE \E n \in Names : RenameRead(t, a, n)
  BY <1>3, HandleKeeps, RowUnchangedKeeps, PodmanUnchangedKeeps DEF RenameRead, NoNewHolder
<1>4. CASE StopApp(t, a)
  BY <1>4, HandleKeeps, RowUnchangedKeeps, PodmanUnchangedKeeps DEF StopApp, NoNewHolder
<1>5. CASE RemoveApp(t, a)
  <2>1. Holds(row[a].cid, a)
    BY DEF Holds
  <2>2. RowsKeep
    BY <1>5, <2>1, UpdateKeeps DEF RemoveApp
  <2>3. TasksKeep
    BY <1>5, SpawnKeeps, TaskUnchangedKeeps DEF RemoveApp
  <2> QED  BY <1>5, <2>2, <2>3, PodmanUnchangedKeeps DEF RemoveApp, NoNewHolder
<1>6. CASE StorageGuard(t, a)
  BY <1>6, HandleKeeps, RowUnchangedKeeps, PodmanUnchangedKeeps DEF StorageGuard, NoNewHolder
<1>7. CASE \E how \in {"reload", "update", "oauth"} : ReloadRead(t, a, how)
  <2>1. TasksKeep
    BY <1>7, HandleKeeps DEF ReloadRead
  <2> QED  BY <1>7, <2>1, RowUnchangedKeeps, PodmanUnchangedKeeps DEF ReloadRead, NoNewHolder
<1> QED  BY <1>1, <1>2, <1>3, <1>4, <1>5, <1>6, <1>7

\* No step of a thread but podman run does.
LEMMA ThreadKeeps ==
    ASSUME IInv, NEW t \in Tasks, ThreadStep(t)
    PROVE  NoNewHolder \/ RunContainer(t)
<1>a. /\ Holds(row[task[t].app].cid, task[t].app)
      /\ Holds(task[t].cid, task[t].app)
  BY DEF Holds
<1>1. CASE StopAppProcess(t)
  <2>1. RowsKeep
    BY <1>1, RowUnchangedKeeps DEF StopAppProcess
  <2>2. TasksKeep
    BY <1>1, GotoKeeps DEF StopAppProcess, Goto
  <2>3. PodmanKeeps
    BY <1>1, KillKeeps, PodmanUnchangedKeeps DEF StopAppProcess
  <2> QED  BY <2>1, <2>2, <2>3 DEF NoNewHolder
<1>2. CASE StopByName(t)
  <2>1. RowsKeep
    BY <1>2, RowUnchangedKeeps DEF StopByName
  <2>2. TasksKeep
    BY <1>2, GotoKeeps, DoneKeeps DEF StopByName, Goto
  <2>3. PodmanKeeps
    BY <1>2, FreeKeeps, PodmanUnchangedKeeps DEF StopByName
  <2> QED  BY <2>1, <2>2, <2>3 DEF NoNewHolder
<1>3. CASE StopWrite(t)
  <2>1. RowsKeep
    BY <1>3, <1>a, UpdateKeeps DEF StopWrite
  <2>2. TasksKeep
    BY <1>3, DoneKeeps DEF StopWrite
  <2>3. PodmanKeeps
    BY <1>3, PodmanUnchangedKeeps DEF StopWrite
  <2> QED  BY <2>1, <2>2, <2>3 DEF NoNewHolder
<1>4. CASE GuardWrite(t)
  <2>1. RowsKeep
    BY <1>4, <1>a, UpdateKeeps DEF GuardWrite
  <2>2. TasksKeep
    BY <1>4, DoneKeeps DEF GuardWrite
  <2>3. PodmanKeeps
    BY <1>4, PodmanUnchangedKeeps DEF GuardWrite
  <2> QED  BY <2>1, <2>2, <2>3 DEF NoNewHolder
<1>5. CASE RemoveRead(t)
  <2>1. RowsKeep
    BY <1>5, RowUnchangedKeeps DEF RemoveRead
  <2>2. TasksKeep
    <3>1. task[t].app \in Apps
      BY <1>5 DEF RemoveRead, At, IInv, TasksInOrder
    <3> QED  BY <1>5, <3>1, HandleKeeps, DoneKeeps DEF RemoveRead
  <2>3. PodmanKeeps
    BY <1>5, PodmanUnchangedKeeps DEF RemoveRead
  <2> QED  BY <2>1, <2>2, <2>3 DEF NoNewHolder
<1>6. CASE RemoveDelete(t)
  <2>1. RowsKeep
    <3>1. CASE row' = [row EXCEPT ![task[t].app] = BlankRow("gone")]
      <4> SUFFICES ASSUME NEW b \in Apps
                   PROVE  /\ \A c \in Cids : row'[b].cid = c => Holds(c, b)
                          /\ row[b].status = "gone" => row'[b].status = "gone"
        BY DEF RowsKeep
      <4>1. row'[b] = BlankRow("gone") \/ row'[b] = row[b]
        BY <3>1 DEF IInv, TypeOK
      <4> QED  BY <4>1, ConstantsAssumption DEF BlankRow, Holds
    <3> QED  BY <1>a, <1>6, <3>1, UpdateKeeps, RowUnchangedKeeps DEF RemoveDelete, RecordFailure
  <2>2. TasksKeep
    BY <1>6, DoneKeeps DEF RemoveDelete
  <2>3. PodmanKeeps
    BY <1>6, PodmanUnchangedKeeps DEF RemoveDelete
  <2> QED  BY <2>1, <2>2, <2>3 DEF NoNewHolder
<1>7. CASE ReloadSync(t)
  <2>1. RowsKeep
    BY <1>7, RowUnchangedKeeps DEF ReloadSync
  <2>2. TasksKeep
    BY <1>7, GotoKeeps, DoneKeeps DEF ReloadSync, Goto
  <2>3. PodmanKeeps
    BY <1>7, PodmanUnchangedKeeps DEF ReloadSync
  <2> QED  BY <2>1, <2>2, <2>3 DEF NoNewHolder
<1>8. CASE RenameMark(t)
  <2>1. RowsKeep
    BY <1>8, <1>a, UpdateKeeps DEF RenameMark
  <2>2. TasksKeep
    BY <1>8, GotoKeeps DEF RenameMark
  <2>3. PodmanKeeps
    BY <1>8, PodmanUnchangedKeeps DEF RenameMark
  <2> QED  BY <2>1, <2>2, <2>3 DEF NoNewHolder
<1>9. CASE StartAppProcess(t)
  <2>1. RowsKeep
    BY <1>9, MarkStartingKeeps, RowUnchangedKeeps DEF StartAppProcess
  <2>2. TasksKeep
    BY <1>9, GotoKeeps DEF StartAppProcess, Goto
  <2>3. PodmanKeeps
    BY <1>9, PodmanUnchangedKeeps DEF StartAppProcess
  <2> QED  BY <2>1, <2>2, <2>3 DEF NoNewHolder
<1>10. CASE RestartAppProcess(t)
  <2>1. RowsKeep
    BY <1>10, RowUnchangedKeeps DEF RestartAppProcess
  <2>2. TasksKeep
    BY <1>10, GotoKeeps DEF RestartAppProcess, Goto
  <2>3. PodmanKeeps
    BY <1>10, PodmanUnchangedKeeps DEF RestartAppProcess
  <2> QED  BY <2>1, <2>2, <2>3 DEF NoNewHolder
<1>11. CASE Build(t)
  <2>1. RowsKeep
    BY <1>11, RowUnchangedKeeps DEF Build
  <2>2. TasksKeep
    BY <1>11, GotoKeeps DEF Build, Goto
  <2>3. PodmanKeeps
    BY <1>11, PodmanUnchangedKeeps DEF Build
  <2> QED  BY <2>1, <2>2, <2>3 DEF NoNewHolder
<1>12. CASE ReadImageRow(t)
  <2>1. RowsKeep
    BY <1>12, RowUnchangedKeeps DEF ReadImageRow
  <2>2. TasksKeep
    <3> SUFFICES ASSUME NEW u \in Tasks, NEW b \in Apps, NEW c \in Cids,
                        task'[u].app = b, task'[u].cid = c
                 PROVE  Holds(c, b)
      BY DEF TasksKeep
    <3>1. CASE u = t /\ Present(task[t].app)
      <4>1. task[t] \in Task
        BY DEF IInv, TypeOK
      <4>2. task'[t] = [task[t] EXCEPT !.pc = "mark", !.name = row[task[t].app].name,
                                       !.cid = row[task[t].app].cid]
        BY <1>12, <3>1 DEF ReadImageRow, IInv, TypeOK
      <4>3. b = task[t].app /\ c = row[task[t].app].cid
        BY <3>1, <4>1, <4>2 DEF Task
      <4> QED  BY <4>3 DEF Holds
    <3>2. CASE ~Present(task[t].app)
      BY <1>12, <3>2, GotoKeeps DEF ReadImageRow, TasksKeep
    <3>3. CASE u # t
      <4>1. task'[u] = task[u]
        BY <1>12, <3>3 DEF ReadImageRow, IInv, TypeOK
      <4> QED  BY <4>1 DEF Holds
    <3> QED  BY <3>1, <3>2, <3>3
  <2>3. PodmanKeeps
    BY <1>12, PodmanUnchangedKeeps DEF ReadImageRow
  <2> QED  BY <2>1, <2>2, <2>3 DEF NoNewHolder
<1>13. CASE MarkLaunch(t)
  <2>1. RowsKeep
    BY <1>13, <1>a, MarkStartingKeeps, UpdateKeeps, RowUnchangedKeeps DEF MarkLaunch, RecordFailure
  <2>2. TasksKeep
    BY <1>13, GotoKeeps DEF MarkLaunch, Goto
  <2>3. PodmanKeeps
    BY <1>13, PodmanUnchangedKeeps DEF MarkLaunch
  <2> QED  BY <2>1, <2>2, <2>3 DEF NoNewHolder
<1>14. CASE ClearStale(t)
  <2>1. RowsKeep
    BY <1>14, RowUnchangedKeeps DEF ClearStale
  <2>2. TasksKeep
    BY <1>14, GotoKeeps DEF ClearStale, Goto
  <2>3. PodmanKeeps
    BY <1>14, FreeKeeps DEF ClearStale
  <2> QED  BY <2>1, <2>2, <2>3 DEF NoNewHolder
<1>15. CASE RunFails(t)
  <2>1. RowsKeep
    BY <1>15, <1>a, UpdateKeeps, RowUnchangedKeeps DEF RunFails, RecordFailure
  <2>2. TasksKeep
    BY <1>15, GotoKeeps DEF RunFails, Goto
  <2>3. PodmanKeeps
    BY <1>15, PodmanUnchangedKeeps DEF RunFails
  <2> QED  BY <2>1, <2>2, <2>3 DEF NoNewHolder
<1>16. CASE RecordContainer(t)
  <2>1. RowsKeep
    BY <1>16, <1>a, UpdateKeeps DEF RecordContainer
  <2>2. TasksKeep
    BY <1>16, GotoKeeps DEF RecordContainer, Goto
  <2>3. PodmanKeeps
    BY <1>16, PodmanUnchangedKeeps DEF RecordContainer
  <2> QED  BY <2>1, <2>2, <2>3 DEF NoNewHolder
<1>17. CASE RecordFails(t)
  <2>1. RowsKeep
    BY <1>17, <1>a, UpdateKeeps, RowUnchangedKeeps DEF RecordFails, RecordFailure
  <2>2. TasksKeep
    BY <1>17, GotoKeeps DEF RecordFails, Goto
  <2>3. PodmanKeeps
    BY <1>17, KillKeeps, PodmanUnchangedKeeps DEF RecordFails
  <2> QED  BY <2>1, <2>2, <2>3 DEF NoNewHolder
<1>18. CASE WaitForReady(t)
  <2>1. RowsKeep
    BY <1>18, RowUnchangedKeeps DEF WaitForReady
  <2>2. TasksKeep
    BY <1>18, GotoKeeps DEF WaitForReady, Goto
  <2>3. PodmanKeeps
    BY <1>18, PodmanUnchangedKeeps DEF WaitForReady
  <2> QED  BY <2>1, <2>2, <2>3 DEF NoNewHolder
<1>19. CASE LaunchDone(t)
  <2>1. RowsKeep
    BY <1>19, <1>a, UpdateKeeps DEF LaunchDone
  <2>2. TasksKeep
    BY <1>19, DoneKeeps DEF LaunchDone
  <2>3. PodmanKeeps
    BY <1>19, PodmanUnchangedKeeps DEF LaunchDone
  <2> QED  BY <2>1, <2>2, <2>3 DEF NoNewHolder
<1>20. CASE LaunchFailed(t)
  <2>1. RowsKeep
    BY <1>20, <1>a, UpdateKeeps DEF LaunchFailed
  <2>2. TasksKeep
    BY <1>20, DoneKeeps DEF LaunchFailed
  <2>3. PodmanKeeps
    BY <1>20, PodmanUnchangedKeeps DEF LaunchFailed
  <2> QED  BY <2>1, <2>2, <2>3 DEF NoNewHolder
<1>21. CASE LaunchFailureLost(t)
  BY <1>21, RowUnchangedKeeps, DoneKeeps, PodmanUnchangedKeeps DEF LaunchFailureLost, NoNewHolder
<1> QED
  BY <1>1, <1>2, <1>3, <1>4, <1>5, <1>6, <1>7, <1>8, <1>9, <1>10, <1>11, <1>12, <1>13, <1>14, <1>15, <1>16, <1>17, <1>18, <1>19, <1>20, <1>21 DEF ThreadStep

\* Nor does a handler that goes on after an await.
LEMMA LoopKeeps ==
    ASSUME IInv, NEW t \in Tasks, LoopStep(t)
    PROVE  NoNewHolder
<1>a. /\ Holds(row[task[t].app].cid, task[t].app)
      /\ Holds(task[t].cid, task[t].app)
  BY DEF Holds
<1>1. CASE Pull(t)
  <2>1. RowsKeep
    BY <1>1, <1>a, UpdateKeeps, RowUnchangedKeeps DEF Pull
  <2>2. TasksKeep
    BY <1>1, GotoKeeps, DoneKeeps DEF Pull, Goto
  <2>3. PodmanKeeps
    BY <1>1, PodmanUnchangedKeeps DEF Pull
  <2> QED  BY <2>1, <2>2, <2>3 DEF NoNewHolder
<1>2. CASE Claim(t)
  <2>1. RowsKeep
    BY <1>2, <1>a, UpdateKeeps, RowUnchangedKeeps DEF Claim
  <2>2. TasksKeep
    <3>1. \/ task' = [task EXCEPT ![t] = [@ EXCEPT !.pc = "stop_cid"]]
          \/ task' = [task EXCEPT ![t] = Idle]
      BY <1>2 DEF Claim
    <3>2. CASE task' = [task EXCEPT ![t] = [@ EXCEPT !.pc = "stop_cid"]]
      <4>1. task' = [task EXCEPT ![t].pc = "stop_cid"]
        BY <3>2
      <4> QED  BY <4>1, GotoKeeps
    <3> QED  BY <3>1, <3>2, DoneKeeps
  <2>3. PodmanKeeps
    BY <1>2, PodmanUnchangedKeeps DEF Claim
  <2> QED  BY <2>1, <2>2, <2>3 DEF NoNewHolder
<1>3. CASE SpawnReload(t)
  <2>1. RowsKeep
    BY <1>3, RowUnchangedKeeps DEF SpawnReload
  <2>2. TasksKeep
    BY <1>3, SpawnKeeps, DoneKeeps DEF SpawnReload
  <2>3. PodmanKeeps
    BY <1>3, PodmanUnchangedKeeps DEF SpawnReload
  <2> QED  BY <2>1, <2>2, <2>3 DEF NoNewHolder
<1>4. CASE RenameUndo(t)
  <2>1. RowsKeep
    BY <1>4, <1>a, UpdateKeeps, RowUnchangedKeeps DEF RenameUndo
  <2>2. TasksKeep
    BY <1>4, DoneKeeps DEF RenameUndo
  <2>3. PodmanKeeps
    BY <1>4, PodmanUnchangedKeeps DEF RenameUndo
  <2> QED  BY <2>1, <2>2, <2>3 DEF NoNewHolder
<1>5. CASE RenameWrite(t)
  <2>1. RowsKeep
    <3> SUFFICES ASSUME NEW b \in Apps
                 PROVE  /\ \A c \in Cids : row'[b].cid = c => Holds(c, b)
                        /\ row[b].status = "gone" => row'[b].status = "gone"
      BY DEF RowsKeep
    <3>1. row[b] \in Row
      BY DEF IInv, TypeOK
    <3>2. row'[b] = row[b] \/ row'[b] = [row[b] EXCEPT !.name = task[t].to]
      BY <1>5 DEF RenameWrite, IInv, TypeOK
    <3>3. row'[b].cid = row[b].cid /\ row'[b].status = row[b].status
      BY <3>1, <3>2 DEF Row
    <3> QED  BY <3>3 DEF Holds
  <2>2. TasksKeep
    BY <1>5, GotoKeeps, DoneKeeps DEF RenameWrite
  <2>3. PodmanKeeps
    BY <1>5, PodmanUnchangedKeeps DEF RenameWrite
  <2> QED  BY <2>1, <2>2, <2>3 DEF NoNewHolder
<1> QED
  BY <1>1, <1>2, <1>3, <1>4, <1>5 DEF LoopStep

\* Nor do boot, promotion, exit and crash.
LEMMA RouterKeeps ==
    ASSUME IInv, \/ Promote \/ Exit \/ CheckRead \/ CheckWrite \/ Serve
                 \/ \E t \in Tasks, a \in Apps : RecoverNext(t, a)
    PROVE  NoNewHolder
<1> DEFINE RowKeeps(b) == row'[b].cid = row[b].cid
                          /\ (row[b].status = "gone" => row'[b].status = "gone")
<1>0. \A b \in Apps : row[b] \in Row
  BY DEF IInv, TypeOK
<1>a. ASSUME \A b \in Apps : RowKeeps(b)
      PROVE  RowsKeep
  BY <1>a DEF RowsKeep, Holds
<1>1. CASE Promote
  <2>1. ASSUME NEW b \in Apps  PROVE RowKeeps(b)
    <3>1. \/ row'[b] = row[b]
          \/ row[b].status \in {"running", "error"}
             /\ row'[b] = [row[b] EXCEPT !.status = "starting", !.err = "marker"]
      BY <1>1 DEF Promote
    <3> QED  BY <1>0, <3>1 DEF Row
  <2>2. RowsKeep
    BY <1>a, <2>1
  <2> QED  BY <1>1, <2>2, TaskUnchangedKeeps, PodmanUnchangedKeeps DEF Promote, NoNewHolder
<1>2. CASE Exit
  <2>1. ASSUME NEW b \in Apps  PROVE RowKeeps(b)
    <3>1. row'[b] = [row[b] EXCEPT !.fresh = FALSE]
      BY <1>2 DEF Exit
    <3> QED  BY <1>0, <3>1 DEF Row
  <2>2. RowsKeep
    BY <1>a, <2>1
  <2>3. TasksKeep
    BY <1>2, ConstantsAssumption DEF Exit, TasksKeep, Idle
  <2>4. PodmanKeeps
    BY <1>2 DEF Exit, PodmanKeeps
  <2> QED  BY <2>2, <2>3, <2>4 DEF NoNewHolder
<1>3. CASE CheckRead
  BY <1>3, RowUnchangedKeeps, TaskUnchangedKeeps, PodmanUnchangedKeeps
  DEF CheckRead, NoNewHolder
<1>4. CASE CheckWrite
  <2>1. PICK lost \in SUBSET Apps :
          row' = [a \in Apps |-> IF Present(a) THEN Recovered(a, lost) ELSE row[a]]
    BY <1>4 DEF CheckWrite
  <2>2. ASSUME NEW b \in Apps  PROVE RowKeeps(b)
    <3>1. CASE Present(b)
      <4>1. row'[b] = Recovered(b, lost)
        BY <2>1, <3>1
      <4>2. Recovered(b, lost).cid = row[b].cid
        BY <1>0 DEF Recovered, Row
      <4> QED  BY <3>1, <4>1, <4>2 DEF Present
    <3>2. CASE ~Present(b)
      BY <2>1, <3>2
    <3> QED  BY <3>1, <3>2
  <2>3. RowsKeep
    BY <1>a, <2>2
  <2> QED  BY <1>4, <2>3, TaskUnchangedKeeps, PodmanUnchangedKeeps DEF CheckWrite, NoNewHolder
<1>5. CASE Serve
  BY <1>5, RowUnchangedKeeps, TaskUnchangedKeeps, PodmanUnchangedKeeps DEF Serve, NoNewHolder
<1>6. CASE \E t \in Tasks, a \in Apps : RecoverNext(t, a)
  <2>1. TasksKeep
    BY <1>6, SpawnKeeps DEF RecoverNext
  <2> QED  BY <1>6, <2>1, RowUnchangedKeeps, PodmanUnchangedKeeps DEF RecoverNext, NoNewHolder
<1> QED  BY <1>1, <1>2, <1>3, <1>4, <1>5, <1>6

-----------------------------------------------------------------------------
(* The launch: podman mints an id nobody holds yet, for one app.              *)

\* The new container, and the thread that started it, are one app's.
LEMMA LaunchKeeps ==
    ASSUME IInv, NEW t \in Tasks, RunContainer(t)
    PROVE  /\ RowsKeep
           /\ \E new \in Cids, b \in Apps :
                  /\ \A a \in Apps : ~Holds(new, a)
                  /\ \A c \in Cids, a \in Apps :
                         Holds(c, a)' => Holds(c, a) \/ (c = new /\ a = b)
<1>1. RowsKeep
  BY RowUnchangedKeeps, UpdateKeeps DEF RunContainer, RecordFailure
<1>2. PICK new \in Cids :
        /\ Fresh(new)
        /\ podman' = [podman EXCEPT ![task[t].name] = [cid |-> new, app |-> task[t].app]]
        /\ \/ task' = [task EXCEPT ![t].pc = "record", ![t].cid = new]
           \/ task' = [task EXCEPT ![t].pc = "fail"]
  BY DEF RunContainer
<1>3. task[t].app \in Apps
  BY DEF RunContainer, At, IInv, TasksInOrder
<1>4. \A a \in Apps : ~Holds(new, a)
  BY <1>2 DEF Fresh, Holds
<1>5. ASSUME NEW c \in Cids, NEW a \in Apps, Holds(c, a)'
      PROVE  Holds(c, a) \/ (c = new /\ a = task[t].app)
  <2>1. CASE row'[a].cid = c
    BY <1>1, <2>1 DEF RowsKeep
  <2>2. CASE \E u \in Tasks : task'[u].app = a /\ task'[u].cid = c
    <3>1. PICK u \in Tasks : task'[u].app = a /\ task'[u].cid = c
      BY <2>2
    <3>2. task[u] \in Task
      BY DEF IInv, TypeOK
    <3>3. \/ task'[u] = task[u]
          \/ u = t /\ task'[u] = [task[u] EXCEPT !.pc = "record", !.cid = new]
          \/ u = t /\ task'[u] = [task[u] EXCEPT !.pc = "fail"]
      BY <1>2 DEF IInv, TypeOK
    <3>4. task'[u].app = task[u].app
          /\ (task'[u].cid = task[u].cid \/ (u = t /\ task'[u].cid = new))
      BY <3>2, <3>3 DEF Task
    <3> QED  BY <3>1, <3>4 DEF Holds
  <2>3. CASE \E n \in Names : podman'[n] = [cid |-> c, app |-> a]
    <3>1. PICK n \in Names : podman'[n] = [cid |-> c, app |-> a]
      BY <2>3
    <3>2. podman'[n] = podman[n] \/ podman'[n] = [cid |-> new, app |-> task[t].app]
      BY <1>2 DEF IInv, TypeOK
    <3> QED  BY <3>1, <3>2 DEF Holds
  <2> QED  BY <1>5, <2>1, <2>2, <2>3 DEF Holds
<1> QED  BY <1>1, <1>3, <1>4, <1>5

\* Where nobody holds anything new, ids go on not crossing.
LEMMA NoNewHolderKeeps ==
    ASSUME NoNewHolder, NEW c \in Cids, NEW a \in Apps, Holds(c, a)'
    PROVE  Holds(c, a)
<1>1. CASE row'[a].cid = c
  BY <1>1 DEF NoNewHolder, RowsKeep
<1>2. CASE \E t \in Tasks : task'[t].app = a /\ task'[t].cid = c
  BY <1>2 DEF NoNewHolder, TasksKeep
<1>3. CASE \E n \in Names : podman'[n] = [cid |-> c, app |-> a]
  BY <1>3, ConstantsAssumption DEF NoNewHolder, PodmanKeeps, Free, Holds
<1> QED  BY <1>1, <1>2, <1>3 DEF Holds

\* Every step adds no holder, or is a podman run.
LEMMA NextKeeps ==
    ASSUME IInv, Next
    PROVE  NoNewHolder \/ \E t \in Tasks : RunContainer(t)
  BY RequestKeeps, ThreadKeeps, LoopKeeps, RouterKeeps DEF Next

\* The ids are apart at the start, and stay so.
LEMMA InitIds == Init => IdsNeverCross
  BY ConstantsAssumption DEF Init, IdsNeverCross, Holds, BlankRow, Idle, Free

LEMMA IdsNext == IInv /\ IdsNeverCross /\ [Next]_vars => IdsNeverCross'
<1> SUFFICES ASSUME IInv, IdsNeverCross, [Next]_vars
             PROVE  IdsNeverCross'
  OBVIOUS
<1>1. CASE UNCHANGED vars
  BY <1>1 DEF vars, IdsNeverCross, Holds
<1>2. CASE NoNewHolder
  <2>1. \A c \in Cids, a \in Apps : Holds(c, a)' => Holds(c, a)
    BY <1>2, NoNewHolderKeeps
  <2> QED  BY <2>1 DEF IdsNeverCross
<1>3. CASE \E t \in Tasks : RunContainer(t)
  <2>1. PICK new \in Cids, b \in Apps :
                /\ \A a \in Apps : ~Holds(new, a)
                /\ \A c \in Cids, a \in Apps :
                       Holds(c, a)' => Holds(c, a) \/ (c = new /\ a = b)
    BY <1>3, LaunchKeeps
  <2> QED  BY <2>1 DEF IdsNeverCross
<1> QED  BY <1>1, <1>2, <1>3, NextKeeps

\* However late a handler or thread acts on the row it read, the container id it
\* stops, records or writes back was only ever its own app's: what stop_app,
\* remove_app_background, the rename rollback and run_app_image do with the
\* stale ids they carry.
THEOREM OwnIds == Spec => []IdsNeverCross
<1>1. Init => IInv /\ IdsNeverCross
  BY InitTyped, InitIds
<1>2. IInv /\ IdsNeverCross /\ [Next]_vars => (IInv /\ IdsNeverCross)'
  BY NextTyped, IdsNext
<1> QED  BY <1>1, <1>2, PTL DEF Spec

\* The writes of threads that outlive a removal find no row: a deleted app is
\* not brought back by the last UPDATE of its deploy, reload or recovery.
THEOREM NoResurrection == Spec => DeletedForGood
<1>1. Init => IInv
  BY InitTyped
<1>2. IInv /\ [Next]_vars => IInv'
  BY NextTyped
<1>3. IInv /\ [Next]_vars
      => [\A a \in Apps : row[a].status = "gone" => row'[a].status = "gone"]_row
  <2> SUFFICES ASSUME IInv, Next
               PROVE  \A a \in Apps : row[a].status = "gone" => row'[a].status = "gone"
    BY DEF vars
  <2>1. RowsKeep
    BY NextKeeps, LaunchKeeps DEF NoNewHolder
  <2> QED  BY <2>1 DEF RowsKeep
<1> QED  BY <1>1, <1>2, <1>3, PTL DEF Spec, DeletedForGood

-----------------------------------------------------------------------------
(* What a step does to its task and to the row of its app: enough of it for   *)
(* the invariants below, and the same for every request, fault and overlap.   *)

\* Which task can be where in its program.
Fits(kind, pc) ==
    /\ kind = "idle" <=> pc = "idle"
    /\ pc \in LaunchPcs => kind \in Launchers
    /\ pc = "stop_name" => kind = "stop"
    /\ pc = "write" => kind \in {"stop", "guard"}
    /\ pc \in {"read", "delete"} => kind = "remove"
    /\ pc \in {"pull", "claim", "spawn"} => kind = "reload_req"
    /\ pc \in {"rename_mark", "dirs"} => kind = "rename"
    /\ pc = "stop_cid" => kind \in {"stop", "guard", "remove", "reload_req", "rename"}

Roles == \A t \in Tasks : Fits(task[t].kind, task[t].pc)

\* The step is t's, and touches no other app and no other task.
Alone(t) ==
    /\ task[t].app \in Apps /\ task[t].kind # "idle"
    /\ \A u \in Tasks : u # t => task'[u] = task[u]
    /\ \A b \in Apps : b # task[t].app => row'[b] = row[b]
    /\ UNCHANGED <<router, seen, queue>>

Kept(t) ==
    /\ task'[t].kind = task[t].kind /\ task'[t].app = task[t].app
    /\ task[t].kind = "rename" => task'[t].how = task[t].how

\* Only the name, if anything.
SameRow(a) ==
    /\ row'[a].status = row[a].status /\ row'[a].cid = row[a].cid
    /\ row'[a].err = row[a].err /\ row'[a].fresh = row[a].fresh

Wrote(a, status, err) ==
    /\ row'[a].status = status /\ row'[a].err = err /\ row'[a].fresh = row[a].fresh

\* An UPDATE finds the row, or there is none.
Updated(a, status, err) == IF Present(a) THEN Wrote(a, status, err) ELSE SameRow(a)

BeforeRun == {"build", "image", "mark", "fail", "fail_corrupt"}

\* A launch goes on, or ends with a settled status.
LaunchShape(t) ==
    LET a == task[t].app IN
    /\ task[t].pc \in LaunchPcs
    /\ \/ /\ Kept(t) /\ task'[t].pc \in LaunchPcs
          /\ \/ SameRow(a) /\ (task[t].pc \in BeforeRun => task'[t].pc \in BeforeRun)
             \/ /\ task[t].pc = "record" /\ row'[a].status = row[a].status
                /\ row'[a].err = row[a].err /\ row'[a].fresh = row[a].fresh
             \/ ~Present(a) /\ SameRow(a)
             \/ Present(a) /\ Wrote(a, "starting", IF row[a].err = "marker" THEN "marker" ELSE "none")
             \/ Present(a) /\ Wrote(a, "error", "other")
       \/ /\ task'[t] = Idle
          /\ \/ ~Present(a) /\ SameRow(a)
             \/ /\ Present(a) /\ row'[a].status \in {"running", "error"}
                /\ row'[a].err # "marker"
    /\ tokens' \in {tokens, tokens \cup {a}}

\* Stops, removals and renames on their way, and the reload handler's stop.
HandlerShape(t) ==
    LET a == task[t].app IN
    /\ task[t].pc \notin LaunchPcs \cup {"pull", "claim", "spawn"}
    /\ \/ /\ Kept(t) /\ Fits(task[t].kind, task'[t].pc) /\ task'[t].pc \notin LaunchPcs
          /\ task[t].kind = "reload_req" => task'[t].pc = "spawn"
       \/ task'[t] = Idle /\ task[t].kind # "reload_req"
    /\ \/ /\ tokens' = tokens
          /\ \/ SameRow(a)
             \/ Present(a) /\ Wrote(a, "stopped", row[a].err)
             \/ Present(a) /\ Wrote(a, "error", "other")
       \/ /\ task[t].kind = "remove" /\ task'[t] = Idle
          /\ row'[a] = BlankRow("gone")
          /\ tokens' = IF Present(a) THEN tokens \ {a} ELSE tokens

\* What handlers do when they come back from an await.
LoopShape(t) ==
    LET a == task[t].app IN
    /\ tokens' = tokens
    /\ \/ /\ task[t].pc = "pull"
          /\ \/ SameRow(a) /\ (task'[t] = Idle \/ (Kept(t) /\ task'[t].pc = "claim"))
             \/ task'[t] = Idle /\ Updated(a, "error", "other")
       \/ /\ task[t].pc = "claim"
          /\ \/ Claimable(a) /\ Wrote(a, "building", "none") /\ Kept(t) /\ task'[t].pc = "stop_cid"
             \/ ~Claimable(a) /\ SameRow(a) /\ Kept(t) /\ task'[t].pc = "stop_cid"
             \/ ~Claimable(a) /\ SameRow(a) /\ task'[t] = Idle
       \/ /\ task[t].pc = "spawn" /\ SameRow(a)
          /\ \/ task'[t].kind = "reload" /\ task'[t].pc = "sync" /\ task'[t].app = a
             \/ "spawn" \in Faults /\ task'[t] = Idle
       \/ /\ task[t].pc = "dirs"
          /\ \/ task'[t] = Idle /\ SameRow(a)
             \/ "dirs" \in Faults /\ task'[t] = Idle /\ Updated(a, task[t].how, row[a].err)
             \/ SameRow(a) /\ Kept(t) /\ task'[t].pc = "start"
                /\ task[t].how \in Transient \cup {"running"}

-----------------------------------------------------------------------------

\* An UPDATE, field by field.
LEMMA UpdateFields ==
    ASSUME IInv, NEW a \in Apps, NEW status, NEW cid, NEW err, Update(a, status, cid, err)
    PROVE  /\ \A b \in Apps : b # a => row'[b] = row[b]
           /\ Present(a) => Wrote(a, status, err) /\ row'[a].cid = cid
           /\ ~Present(a) => row'[a] = row[a]
<1>1. row \in [Apps -> Row] /\ row[a] \in Row
  BY DEF IInv, TypeOK
<1>2. row'[a] = IF Present(a) THEN [row[a] EXCEPT !.status = status, !.cid = cid, !.err = err]
                ELSE row[a]
  BY <1>1 DEF Update
<1>3. \A b \in Apps : b # a => row'[b] = row[b]
  BY <1>1 DEF Update
<1> QED  BY <1>1, <1>2, <1>3 DEF Wrote, Row

LEMMA SameRowFields ==
    ASSUME NEW a, row'[a] = row[a]
    PROVE  SameRow(a)
  BY DEF SameRow

\* A task that goes on, field by field.
LEMMA GotoFields ==
    ASSUME IInv, NEW t \in Tasks, NEW pc, task' = [task EXCEPT ![t].pc = pc]
    PROVE  /\ \A u \in Tasks : u # t => task'[u] = task[u]
           /\ Kept(t) /\ task'[t].pc = pc
  BY DEF IInv, TypeOK, Task, Kept

LEMMA DoneFields ==
    ASSUME IInv, NEW t \in Tasks, task' = [task EXCEPT ![t] = Idle]
    PROVE  (\A u \in Tasks : u # t => task'[u] = task[u]) /\ task'[t] = Idle
  BY DEF IInv, TypeOK

\* Whose step it is.
LEMMA StepOf ==
    ASSUME IInv, Roles, NEW t \in Tasks, task[t].pc # "idle"
    PROVE  task[t].app \in Apps /\ task[t].kind # "idle" /\ Fits(task[t].kind, task[t].pc)
  BY DEF IInv, TasksInOrder, Roles, Fits

\* The steps of start_app_process, run_app_image and the handlers around them.
LEMMA LaunchSteps ==
    ASSUME IInv, Roles, NEW t \in Tasks,
           \/ ReloadSync(t) \/ StartAppProcess(t) \/ RestartAppProcess(t) \/ Build(t)
           \/ ReadImageRow(t) \/ MarkLaunch(t) \/ ClearStale(t) \/ RunContainer(t)
           \/ RunFails(t) \/ RecordContainer(t) \/ RecordFails(t) \/ WaitForReady(t)
           \/ LaunchDone(t) \/ LaunchFailed(t)
    PROVE  Alone(t) /\ LaunchShape(t)
<1> DEFINE a == task[t].app
<1>0. task[t].pc \in LaunchPcs /\ task[t].pc # "idle" /\ a \in Apps /\ task[t].kind # "idle"
  <2>1. task[t].pc \in LaunchPcs /\ task[t].pc # "idle"
    BY DEF ReloadSync, StartAppProcess, RestartAppProcess, Build, ReadImageRow, MarkLaunch,
       ClearStale, RunContainer, RunFails, RecordContainer, RecordFails, WaitForReady,
       LaunchDone, LaunchFailed, At, LaunchPcs
  <2> QED  BY <2>1, StepOf
<1>1. ASSUME NEW pc \in LaunchPcs, Goto(t, pc)
      PROVE  (\A u \in Tasks : u # t => task'[u] = task[u]) /\ Kept(t) /\ task'[t].pc = pc
  BY <1>1, GotoFields DEF Goto
<1>2. ASSUME Done(t)
      PROVE  (\A u \in Tasks : u # t => task'[u] = task[u]) /\ task'[t] = Idle
  BY <1>2, DoneFields DEF Done
<1>3. ASSUME row' = row
      PROVE  (\A b \in Apps : b # a => row'[b] = row[b]) /\ SameRow(a)
  BY <1>3, SameRowFields
<1>4. ASSUME MarkStarting(a)
      PROVE  /\ \A b \in Apps : b # a => row'[b] = row[b]
             /\ Present(a) => Wrote(a, "starting", IF row[a].err = "marker" THEN "marker" ELSE "none")
             /\ ~Present(a) => SameRow(a)
  BY <1>0, <1>4, UpdateFields, SameRowFields DEF MarkStarting
<1>5. ASSUME NEW cid, NEW err, Update(a, "error", cid, err)
      PROVE  /\ \A b \in Apps : b # a => row'[b] = row[b]
             /\ Present(a) => Wrote(a, "error", err)
             /\ ~Present(a) => SameRow(a)
  BY <1>0, <1>5, UpdateFields, SameRowFields
<1> HIDE DEF a
<1>6. UNCHANGED <<router, seen, queue>> /\ tokens' \in {tokens, tokens \cup {a}}
  BY DEF ReloadSync, StartAppProcess, RestartAppProcess, Build, ReadImageRow, MarkLaunch,
     ClearStale, RunContainer, RunFails, RecordContainer, RecordFails, WaitForReady,
     LaunchDone, LaunchFailed, a
<1>7. {"start", "build", "image", "mark", "clear", "run", "record", "wait", "ready", "unready",
       "fail", "fail_corrupt"} \subseteq LaunchPcs
  BY DEF LaunchPcs
<1>a. SUFFICES /\ \A u \in Tasks : u # t => task'[u] = task[u]
               /\ \A b \in Apps : b # a => row'[b] = row[b]
               /\ \/ /\ Kept(t) /\ task'[t].pc \in LaunchPcs
                     /\ \/ SameRow(a) /\ (task[t].pc \in BeforeRun => task'[t].pc \in BeforeRun)
                        \/ /\ task[t].pc = "record" /\ row'[a].status = row[a].status
                           /\ row'[a].err = row[a].err /\ row'[a].fresh = row[a].fresh
                        \/ ~Present(a) /\ SameRow(a)
                        \/ Present(a) /\ Wrote(a, "starting", IF row[a].err = "marker" THEN "marker" ELSE "none")
                        \/ Present(a) /\ Wrote(a, "error", "other")
                  \/ /\ task'[t] = Idle
                     /\ \/ ~Present(a) /\ SameRow(a)
                        \/ /\ Present(a) /\ row'[a].status \in {"running", "error"}
                           /\ row'[a].err # "marker"
  BY <1>0, <1>6 DEF Alone, LaunchShape, a
<1>8. CASE ReloadSync(t)
  BY <1>1, <1>2, <1>3, <1>7, <1>8 DEF ReloadSync, At, BeforeRun, a
<1>9. CASE StartAppProcess(t)
  BY <1>1, <1>3, <1>4, <1>7, <1>9 DEF StartAppProcess, At, BeforeRun, a
<1>10. CASE RestartAppProcess(t) \/ Build(t)
  BY <1>1, <1>3, <1>7, <1>10 DEF RestartAppProcess, Build, At, BeforeRun
<1>11. CASE ReadImageRow(t)
  <2>1. row' = row /\ task[t].pc = "image"
    BY <1>11 DEF ReadImageRow, At
  <2>2. CASE ~Present(a)
    <3>1. task' = [task EXCEPT ![t].pc = "fail"]
      BY <1>11, <2>2 DEF ReadImageRow, a
    <3> QED  BY <1>3, <1>7, <2>1, <3>1, GotoFields DEF BeforeRun
  <2>3. CASE Present(a)
    <3>1. task' = [task EXCEPT ![t].pc = "mark", ![t].name = row[a].name, ![t].cid = row[a].cid]
      BY <1>11, <2>3 DEF ReadImageRow, a
    <3>2. /\ \A u \in Tasks : u # t => task'[u] = task[u]
          /\ Kept(t) /\ task'[t].pc = "mark"
      BY <3>1 DEF IInv, TypeOK, Task, Kept
    <3> QED  BY <1>3, <1>7, <2>1, <3>2 DEF BeforeRun
  <2> QED  BY <2>2, <2>3
<1>12. CASE MarkLaunch(t)
  <2>1. task[t].pc = "mark"
    BY <1>12 DEF MarkLaunch, At
  <2>2. \/ MarkStarting(a) /\ Goto(t, "clear")
        \/ Update(a, "error", task[t].cid, "other") /\ Goto(t, "fail")
        \/ row' = row /\ Goto(t, "fail")
    BY <1>12 DEF MarkLaunch, RecordFailure, a
  <2> QED  BY <1>1, <1>3, <1>4, <1>5, <1>7, <2>1, <2>2 DEF BeforeRun
<1>13. CASE ClearStale(t) \/ WaitForReady(t)
  BY <1>1, <1>3, <1>7, <1>13 DEF ClearStale, WaitForReady, At, BeforeRun
<1>14. CASE RunContainer(t)
  <2>1. PICK c \in Cids :
          \/ task' = [task EXCEPT ![t].pc = "record", ![t].cid = c] /\ row' = row
          \/ task' = [task EXCEPT ![t].pc = "fail"] /\ RecordFailure(a, NoCid, "other")
    BY <1>14 DEF RunContainer, a
  <2>2. task[t].pc = "run"
    BY <1>14 DEF RunContainer, At
  <2>3. CASE task' = [task EXCEPT ![t].pc = "record", ![t].cid = c] /\ row' = row
    <3>1. /\ \A u \in Tasks : u # t => task'[u] = task[u]
          /\ Kept(t) /\ task'[t].pc = "record"
      BY <2>3 DEF IInv, TypeOK, Task, Kept
    <3> QED  BY <1>3, <1>7, <2>2, <2>3, <3>1 DEF BeforeRun
  <2>4. CASE task' = [task EXCEPT ![t].pc = "fail"] /\ RecordFailure(a, NoCid, "other")
    <3>1. /\ \A u \in Tasks : u # t => task'[u] = task[u]
          /\ Kept(t) /\ task'[t].pc = "fail"
      BY <2>4, GotoFields
    <3> QED  BY <1>3, <1>5, <1>7, <2>4, <3>1 DEF RecordFailure, BeforeRun
  <2> QED  BY <2>1, <2>3, <2>4
<1>15. CASE RunFails(t) \/ RecordFails(t)
  <2>1. \/ \E cid : Update(a, "error", cid, "other")
        \/ row' = row
    BY <1>15 DEF RunFails, RecordFails, RecordFailure, a
  <2>2. Goto(t, "fail")
    BY <1>15 DEF RunFails, RecordFails
  <2> QED  BY <1>1, <1>3, <1>5, <1>7, <2>1, <2>2 DEF BeforeRun
<1>16. CASE RecordContainer(t)
  <2>1. Update(a, row[a].status, task[t].cid, row[a].err) /\ Goto(t, "wait") /\ task[t].pc = "record"
    BY <1>16 DEF RecordContainer, At, a
  <2>2. /\ \A b \in Apps : b # a => row'[b] = row[b]
        /\ row'[a].status = row[a].status
        /\ row'[a].err = row[a].err /\ row'[a].fresh = row[a].fresh
    BY <1>0, <2>1, UpdateFields DEF Wrote, a
  <2> QED  BY <1>1, <1>7, <2>1, <2>2
<1>17. CASE LaunchDone(t)
  <2>1. Done(t) /\ (Update(a, "running", row[a].cid, "none") \/ Update(a, "error", row[a].cid, "other"))
    BY <1>17 DEF LaunchDone, a
  <2>2. /\ \A b \in Apps : b # a => row'[b] = row[b]
        /\ Present(a) => Wrote(a, "running", "none") \/ Wrote(a, "error", "other")
        /\ ~Present(a) => SameRow(a)
    BY <1>0, <2>1, UpdateFields, SameRowFields DEF a
  <2> QED  BY <1>2, <2>1, <2>2 DEF Wrote
<1>18. CASE LaunchFailed(t)
  <2>1. Done(t) /\ (Update(a, "error", row[a].cid, "other") \/ Update(a, "error", row[a].cid, "corrupt"))
    BY <1>18 DEF LaunchFailed, a
  <2>2. /\ \A b \in Apps : b # a => row'[b] = row[b]
        /\ Present(a) => Wrote(a, "error", "other") \/ Wrote(a, "error", "corrupt")
        /\ ~Present(a) => SameRow(a)
    BY <1>5, <2>1
  <2> QED  BY <1>2, <2>1, <2>2 DEF Wrote
<1> QED  BY <1>8, <1>9, <1>10, <1>11, <1>12, <1>13, <1>14, <1>15, <1>16, <1>17, <1>18

\* The steps of stop_app_process and of the handlers and threads that call it.
LEMMA HandlerSteps ==
    ASSUME IInv, Roles, NEW t \in Tasks,
           \/ StopAppProcess(t) \/ StopByName(t) \/ StopWrite(t) \/ GuardWrite(t)
           \/ RemoveRead(t) \/ RemoveDelete(t) \/ RenameMark(t)
    PROVE  Alone(t) /\ HandlerShape(t)
<1> DEFINE a == task[t].app
<1>0. /\ task[t].pc \notin LaunchPcs \cup {"pull", "claim", "spawn", "idle"}
      /\ a \in Apps /\ task[t].kind # "idle"
      /\ Fits(task[t].kind, task[t].pc) /\ row[a] \in Row
  <2>1. task[t].pc \notin LaunchPcs \cup {"pull", "claim", "spawn", "idle"}
    BY DEF StopAppProcess, StopByName, StopWrite, GuardWrite, RemoveRead, RemoveDelete,
       RenameMark, At, LaunchPcs
  <2> QED  BY <2>1, StepOf DEF IInv, TypeOK
<1>1. ASSUME NEW pc, task' = [task EXCEPT ![t].pc = pc]
      PROVE  (\A u \in Tasks : u # t => task'[u] = task[u]) /\ Kept(t) /\ task'[t].pc = pc
  BY <1>1, GotoFields
<1>2. ASSUME Done(t)
      PROVE  (\A u \in Tasks : u # t => task'[u] = task[u]) /\ task'[t] = Idle
  BY <1>2, DoneFields DEF Done
<1>3. ASSUME row' = row
      PROVE  (\A b \in Apps : b # a => row'[b] = row[b]) /\ SameRow(a)
  BY <1>3, SameRowFields
<1>4. ASSUME NEW status, NEW cid, NEW err, Update(a, status, cid, err)
      PROVE  /\ \A b \in Apps : b # a => row'[b] = row[b]
             /\ Present(a) => Wrote(a, status, err)
             /\ ~Present(a) => SameRow(a)
  BY <1>0, <1>4, UpdateFields, SameRowFields
<1> HIDE DEF a
<1>5. UNCHANGED <<router, seen, queue>>
  BY DEF StopAppProcess, StopByName, StopWrite, GuardWrite, RemoveRead, RemoveDelete, RenameMark
<1>6. SUFFICES
        /\ \A u \in Tasks : u # t => task'[u] = task[u]
        /\ \A b \in Apps : b # a => row'[b] = row[b]
        /\ \/ /\ Kept(t) /\ Fits(task[t].kind, task'[t].pc) /\ task'[t].pc \notin LaunchPcs
              /\ task[t].kind = "reload_req" => task'[t].pc = "spawn"
           \/ task'[t] = Idle /\ task[t].kind # "reload_req"
        /\ \/ /\ tokens' = tokens
              /\ \/ SameRow(a)
                 \/ Present(a) /\ Wrote(a, "stopped", row[a].err)
                 \/ Present(a) /\ Wrote(a, "error", "other")
           \/ /\ task[t].kind = "remove" /\ task'[t] = Idle
              /\ row'[a] = BlankRow("gone")
              /\ tokens' = IF Present(a) THEN tokens \ {a} ELSE tokens
  BY <1>0, <1>5 DEF Alone, HandlerShape, a
<1>7. /\ {"stop_name", "write", "delete", "spawn", "rename_mark", "stop_cid", "dirs"} \cap LaunchPcs = {}
      /\ Fits("stop", "stop_name") /\ Fits("stop", "write") /\ Fits("guard", "write")
      /\ Fits("remove", "delete") /\ Fits("remove", "stop_cid") /\ Fits("reload_req", "spawn")
      /\ Fits("rename", "rename_mark") /\ Fits("rename", "dirs")
  BY DEF LaunchPcs, Fits
<1>8. CASE StopAppProcess(t)
  <2>1. /\ task[t].kind \in {"stop", "guard", "remove", "reload_req", "rename"}
        /\ task' = [task EXCEPT ![t].pc = AfterStop(task[t].kind)] /\ UNCHANGED <<row, tokens>>
    BY <1>0, <1>8 DEF StopAppProcess, At, Fits, Goto
  <2>2. /\ task[t].kind = "stop" => AfterStop(task[t].kind) = "stop_name"
        /\ task[t].kind = "guard" => AfterStop(task[t].kind) = "write"
        /\ task[t].kind = "remove" => AfterStop(task[t].kind) = "delete"
        /\ task[t].kind = "reload_req" => AfterStop(task[t].kind) = "spawn"
        /\ task[t].kind = "rename" => AfterStop(task[t].kind) = "rename_mark"
    BY DEF AfterStop
  <2>3. /\ Fits(task[t].kind, AfterStop(task[t].kind)) /\ AfterStop(task[t].kind) \notin LaunchPcs
        /\ task[t].kind = "reload_req" => AfterStop(task[t].kind) = "spawn"
    BY <1>7, <2>1, <2>2
  <2> QED  BY <1>1, <1>3, <2>1, <2>3
<1>9. CASE StopByName(t)
  <2>1. task[t].kind = "stop"
    BY <1>0, <1>9 DEF StopByName, At, Fits
  <2> QED  BY <1>1, <1>2, <1>3, <1>7, <1>9, <2>1 DEF StopByName, Goto
<1>10. CASE StopWrite(t)
  <2>1. Update(a, "stopped", NoCid, row[a].err) /\ Done(t) /\ tokens' = tokens /\ task[t].kind = "stop"
    BY <1>10 DEF StopWrite, a
  <2> QED  BY <1>2, <1>4, <2>1
<1>11. CASE GuardWrite(t)
  <2>1. Update(a, "error", NoCid, "other") /\ Done(t) /\ tokens' = tokens /\ task[t].kind = "guard"
    BY <1>11 DEF GuardWrite, a
  <2> QED  BY <1>2, <1>4, <2>1
<1>12. CASE RemoveRead(t)
  <2>1. task[t].kind = "remove" /\ row' = row /\ tokens' = tokens
    BY <1>0, <1>12 DEF RemoveRead, At, Fits
  <2>2. CASE Handle(t, "remove", "stop_cid", a, "new", NoName)
    <3>1. /\ \A u \in Tasks : u # t => task'[u] = task[u]
          /\ task'[t].kind = "remove" /\ task'[t].pc = "stop_cid" /\ task'[t].app = a
      BY <2>2 DEF Handle, IInv, TypeOK
    <3> QED  BY <1>3, <1>7, <2>1, <3>1 DEF Kept, a
  <2>3. CASE Done(t)
    BY <1>2, <1>3, <2>1, <2>3
  <2> QED  BY <1>12, <2>2, <2>3 DEF RemoveRead, a
<1>13. CASE RemoveDelete(t)
  <2>1. task[t].kind = "remove" /\ Done(t)
    BY <1>0, <1>13 DEF RemoveDelete, At, Fits
  <2>2. CASE row' = [row EXCEPT ![a] = BlankRow("gone")] /\ tokens' = IF Present(a) THEN tokens \ {a} ELSE tokens
    <3>1. row'[a] = BlankRow("gone") /\ \A b \in Apps : b # a => row'[b] = row[b]
      BY <1>0, <2>2 DEF IInv, TypeOK
    <3> QED  BY <1>2, <2>1, <2>2, <3>1
  <2>3. CASE Update(a, "error", row[a].cid, "other") /\ tokens' = tokens
    BY <1>2, <1>4, <2>1, <2>3
  <2>4. CASE row' = row /\ tokens' = tokens
    BY <1>2, <1>3, <2>1, <2>4
  <2> QED  BY <1>13, <2>2, <2>3, <2>4 DEF RemoveDelete, RecordFailure, a
<1>14. CASE RenameMark(t)
  <2>1. /\ Update(a, "stopped", NoCid, row[a].err) /\ tokens' = tokens
        /\ task' = [task EXCEPT ![t].pc = "dirs"] /\ task[t].kind = "rename"
    BY <1>0, <1>14 DEF RenameMark, At, Fits, a
  <2> QED  BY <1>1, <1>4, <1>7, <2>1
<1> QED  BY <1>8, <1>9, <1>10, <1>11, <1>12, <1>13, <1>14

\* A failure nobody writes down ends its thread, and boot recovery with it.
LostShape(t) ==
    /\ LaunchFailureLost(t)
    /\ task[t].app \in Apps /\ task[t].kind \in Launchers
    /\ \A u \in Tasks : u # t => task'[u] = task[u]
    /\ task'[t] = Idle
    /\ \A b \in Apps : queue'[b] \in {queue[b], NotQueued}
    /\ UNCHANGED <<row, tokens, podman, router, seen>>

LEMMA LostSteps ==
    ASSUME IInv, Roles, NEW t \in Tasks, LaunchFailureLost(t)
    PROVE  LostShape(t)
<1>1. task[t].pc \in LaunchPcs /\ task[t].pc # "idle"
  BY DEF LaunchFailureLost, LaunchPcs
<1>2. task[t].app \in Apps /\ task[t].kind \in Launchers
  BY <1>1, StepOf DEF Fits
<1>3. (\A u \in Tasks : u # t => task'[u] = task[u]) /\ task'[t] = Idle
  BY DoneFields DEF LaunchFailureLost, Done
<1>4. \A b \in Apps : queue'[b] \in {queue[b], NotQueued}
  BY DEF LaunchFailureLost
<1> QED  BY <1>2, <1>3, <1>4 DEF LaunchFailureLost, LostShape

LEMMA ThreadShape ==
    ASSUME IInv, Roles, NEW t \in Tasks, ThreadStep(t), ~LaunchFailureLost(t)
    PROVE  Alone(t) /\ (LaunchShape(t) \/ HandlerShape(t))
  BY LaunchSteps, HandlerSteps DEF ThreadStep

\* The steps that handlers take after an await.
LEMMA LoopSteps ==
    ASSUME IInv, Roles, NEW t \in Tasks, LoopStep(t)
    PROVE  Alone(t) /\ LoopShape(t)
<1> DEFINE a == task[t].app
<1>0. /\ task[t].pc \in {"pull", "claim", "spawn", "dirs"} /\ a \in Apps /\ task[t].kind # "idle"
      /\ Fits(task[t].kind, task[t].pc) /\ row[a] \in Row /\ task[t] \in Task
  <2>1. task[t].pc \in {"pull", "claim", "spawn", "dirs"}
    BY DEF LoopStep, Pull, Claim, SpawnReload, RenameUndo, RenameWrite, At
  <2> QED  BY <2>1, StepOf DEF IInv, TypeOK
<1>1. ASSUME NEW pc, task' = [task EXCEPT ![t].pc = pc]
      PROVE  (\A u \in Tasks : u # t => task'[u] = task[u]) /\ Kept(t) /\ task'[t].pc = pc
  BY <1>1, GotoFields
<1>2. ASSUME task' = [task EXCEPT ![t] = Idle]
      PROVE  (\A u \in Tasks : u # t => task'[u] = task[u]) /\ task'[t] = Idle
  BY <1>2, DoneFields
<1>3. ASSUME row' = row
      PROVE  (\A b \in Apps : b # a => row'[b] = row[b]) /\ SameRow(a)
  BY <1>3, SameRowFields
<1>4. ASSUME NEW status, NEW cid, NEW err, Update(a, status, cid, err)
      PROVE  (\A b \in Apps : b # a => row'[b] = row[b]) /\ Updated(a, status, err)
  BY <1>0, <1>4, UpdateFields, SameRowFields DEF Updated
<1> HIDE DEF a
<1>5. UNCHANGED <<router, seen, queue>> /\ tokens' = tokens
  BY DEF LoopStep, Pull, Claim, SpawnReload, RenameUndo, RenameWrite
<1>6. CASE Pull(t)
  <2>1. task[t].pc = "pull"
    BY <1>6 DEF Pull, At
  <2>2. CASE Goto(t, "claim") /\ row' = row
    BY <1>0, <1>1, <1>3, <1>5, <2>1, <2>2 DEF Goto, Alone, LoopShape, a
  <2>3. CASE Done(t) /\ row' = row
    BY <1>0, <1>2, <1>3, <1>5, <2>1, <2>3 DEF Done, Alone, LoopShape, a
  <2>4. CASE Done(t) /\ Update(a, "error", row[a].cid, "other")
    BY <1>0, <1>2, <1>4, <1>5, <2>1, <2>4 DEF Done, Alone, LoopShape, a
  <2> QED  BY <1>6, <2>2, <2>3, <2>4 DEF Pull, a
<1>7. CASE Claim(t)
  <2>1. task[t].pc = "claim"
    BY <1>7 DEF Claim, At
  <2>2. CASE Claimable(a)
    <3>1. Update(a, "building", NoCid, "none") /\ task' = [task EXCEPT ![t].pc = "stop_cid"]
      BY <1>7, <2>2 DEF Claim, a
    <3>2. Wrote(a, "building", "none")
      BY <1>4, <2>2, <3>1 DEF Updated, Claimable
    <3> QED  BY <1>0, <1>1, <1>4, <1>5, <2>1, <2>2, <3>1, <3>2 DEF Alone, LoopShape, a
  <2>3. CASE ~Claimable(a)
    <3>1. row' = row /\ (task' = [task EXCEPT ![t].pc = "stop_cid"] \/ task' = [task EXCEPT ![t] = Idle])
      BY <1>7, <2>3 DEF Claim, a
    <3> QED  BY <1>0, <1>1, <1>2, <1>3, <1>5, <2>1, <2>3, <3>1 DEF Alone, LoopShape, a
  <2> QED  BY <2>2, <2>3
<1>8. CASE SpawnReload(t)
  <2>1. task[t].pc = "spawn" /\ row' = row
    BY <1>8 DEF SpawnReload, At
  <2>2. CASE Spawn(t, "reload", "sync", a)
    <3>1. /\ \A u \in Tasks : u # t => task'[u] = task[u]
          /\ task'[t].kind = "reload" /\ task'[t].pc = "sync" /\ task'[t].app = a
      BY <2>2 DEF Spawn, Idle, IInv, TypeOK
    <3> QED  BY <1>0, <1>3, <1>5, <2>1, <3>1 DEF Alone, LoopShape, a
  <2>3. CASE "spawn" \in Faults /\ task' = [task EXCEPT ![t] = Idle]
    BY <1>0, <1>2, <1>3, <1>5, <2>1, <2>3 DEF Alone, LoopShape, a
  <2> QED  BY <1>8, <2>2, <2>3 DEF SpawnReload, a
<1>9. CASE RenameUndo(t)
  <2>1. /\ task[t].pc = "dirs" /\ "dirs" \in Faults /\ task' = [task EXCEPT ![t] = Idle]
        /\ Update(a, task[t].how, task[t].cid, row[a].err) \/ row' = row
    BY <1>9 DEF RenameUndo, At, Done, a
  <2> QED  BY <1>0, <1>2, <1>3, <1>4, <1>5, <2>1 DEF Alone, LoopShape, a
<1>10. CASE RenameWrite(t)
  <2>1. task[t].pc = "dirs"
    BY <1>10 DEF RenameWrite, At
  <2>2. /\ \A b \in Apps : b # a => row'[b] = row[b]
        /\ SameRow(a)
    <3>1. row' = row \/ row' = [row EXCEPT ![a] = IF Present(a) THEN [@ EXCEPT !.name = task[t].to]
                                                  ELSE @]
      BY <1>10 DEF RenameWrite, a
    <3>2. CASE row' = row
      BY <1>3, <3>2
    <3>3. CASE row' = [row EXCEPT ![a] = IF Present(a) THEN [@ EXCEPT !.name = task[t].to] ELSE @]
      BY <1>0, <3>3 DEF IInv, TypeOK, Row, SameRow
    <3> QED  BY <3>1, <3>2, <3>3
  <2>3. \/ /\ task' = [task EXCEPT ![t].pc = "start"]
           /\ task[t].how \in Transient \cup {"running"}
        \/ task' = [task EXCEPT ![t] = Idle]
    BY <1>10 DEF RenameWrite, Done
  <2> QED  BY <1>0, <1>1, <1>2, <1>5, <2>1, <2>2, <2>3 DEF Alone, LoopShape, a
<1> QED  BY <1>6, <1>7, <1>8, <1>9, <1>10 DEF LoopStep

\* What an admitted request, an install or the storage guard starts.
Installs(t, a) ==
    /\ router \in {"setup", "up"} /\ row[a].status = "new"
    /\ row'[a].status = "building" /\ row'[a].err = "none"
    /\ row'[a].fresh /\ row'[a].cid = NoCid
    /\ tokens' = tokens \cup {a}
    /\ \/ task'[t].kind = "deploy" /\ task'[t].pc = "build" /\ task'[t].app = a
       \/ "spawn" \in Faults /\ task' = task

Asks(t, a) ==
    /\ router = "up" /\ Present(a) /\ (Overlap \/ Quiet(a)) /\ tokens' = tokens
    /\ \/ /\ SameRow(a) /\ row[a].status # "removing" /\ task'[t].app = a
          /\ \/ task'[t].kind = "stop" /\ task'[t].pc = "stop_cid"
             \/ task'[t].kind = "reload_req" /\ task'[t].pc \in {"claim", "pull"}
             \/ /\ task'[t].kind = "rename" /\ task'[t].pc = "stop_cid"
                /\ task'[t].how = row[a].status /\ "rename" \in Requests
       \/ /\ Wrote(a, "removing", "none")
          /\ task'[t].kind = "remove" /\ task'[t].pc = "read" /\ task'[t].app = a
       \/ "spawn" \in Faults /\ Wrote(a, "error", "other") /\ task' = task
       \/ "spawn" \in Faults /\ Wrote(a, "removing", "none") /\ task' = task

Guards(t, a) ==
    /\ router \in {"up", "draining"} /\ SameRow(a) /\ tokens' = tokens
    /\ task'[t].kind = "guard" /\ task'[t].pc = "stop_cid" /\ task'[t].app = a

\* A request takes a free slot, and touches one row at most.
LEMMA RequestSteps ==
    ASSUME IInv, NEW t \in Tasks, Request(t)
    PROVE  /\ task[t] = Idle /\ UNCHANGED <<router, seen, queue>>
           /\ \A u \in Tasks : u # t => task'[u] = task[u]
           /\ \E a \in Apps : /\ \A b \in Apps : b # a => row'[b] = row[b]
                              /\ Installs(t, a) \/ Asks(t, a) \/ Guards(t, a)
<1>0. PICK a \in Apps :
        \/ \E n \in Names : AddApp(t, a, n) \/ RenameRead(t, a, n)
        \/ StopApp(t, a) \/ RemoveApp(t, a) \/ StorageGuard(t, a)
        \/ \E how \in {"reload", "update", "oauth"} : ReloadRead(t, a, how)
  BY DEF Request
<1>1. /\ task[t] = Idle /\ UNCHANGED <<router, seen, queue>>
  BY <1>0 DEF AddApp, RenameRead, StopApp, RemoveApp, StorageGuard, ReloadRead, Admit
<1>2. ASSUME NEW kind, NEW pc, NEW how, NEW to, Handle(t, kind, pc, a, how, to)
      PROVE  /\ \A u \in Tasks : u # t => task'[u] = task[u]
             /\ task'[t].kind = kind /\ task'[t].pc = pc /\ task'[t].app = a /\ task'[t].how = how
  BY <1>2 DEF Handle, IInv, TypeOK
<1>3. ASSUME NEW kind, NEW pc, Spawn(t, kind, pc, a)
      PROVE  /\ \A u \in Tasks : u # t => task'[u] = task[u]
             /\ task'[t].kind = kind /\ task'[t].pc = pc /\ task'[t].app = a
  BY <1>3 DEF Spawn, Idle, IInv, TypeOK
<1>4. ASSUME row' = row
      PROVE  (\A b \in Apps : b # a => row'[b] = row[b]) /\ SameRow(a)
  BY <1>4, SameRowFields
<1>5. CASE \E n \in Names : AddApp(t, a, n)
  <2>1. PICK n \in Names : AddApp(t, a, n)
    BY <1>5
  <2>2. /\ \A b \in Apps : b # a => row'[b] = row[b]
        /\ row'[a] = [status |-> "building", name |-> n, cid |-> NoCid, err |-> "none", fresh |-> TRUE]
    BY <2>1 DEF AddApp, IInv, TypeOK
  <2>3. /\ \A u \in Tasks : u # t => task'[u] = task[u]
        /\ \/ task'[t].kind = "deploy" /\ task'[t].pc = "build" /\ task'[t].app = a
           \/ "spawn" \in Faults /\ task' = task
    BY <1>3, <2>1 DEF AddApp
  <2>4. Installs(t, a)
    BY <2>1, <2>2, <2>3 DEF AddApp, Installs
  <2> QED  BY <1>1, <2>2, <2>3, <2>4
<1>6. CASE \E n \in Names : RenameRead(t, a, n)
  <2>1. Handle(t, "rename", "stop_cid", a, row[a].status, NoName)
        \/ \E n \in Names : Handle(t, "rename", "stop_cid", a, row[a].status, n)
    BY <1>6 DEF RenameRead
  <2>2. Asks(t, a) /\ \A u \in Tasks : u # t => task'[u] = task[u]
    BY <1>2, <1>4, <1>6, <2>1 DEF RenameRead, Asks, Admit
  <2> QED  BY <1>1, <1>4, <1>6, <2>2 DEF RenameRead
<1>7. CASE StopApp(t, a)
  <2>1. Asks(t, a) /\ \A u \in Tasks : u # t => task'[u] = task[u]
    BY <1>2, <1>4, <1>7 DEF StopApp, Asks, Admit
  <2> QED  BY <1>1, <1>4, <1>7, <2>1 DEF StopApp
<1>8. CASE RemoveApp(t, a)
  <2>1. /\ Admit(t, a, "remove") /\ tokens' = tokens
        /\ \/ Update(a, "removing", row[a].cid, "none") /\ Spawn(t, "remove", "read", a)
           \/ "spawn" \in Faults /\ Update(a, "error", row[a].cid, "other") /\ task' = task
           \/ "spawn" \in Faults /\ Update(a, "removing", row[a].cid, "none") /\ task' = task
    BY <1>8 DEF RemoveApp
  <2>2. /\ \A b \in Apps : b # a => row'[b] = row[b]
        /\ \A u \in Tasks : u # t => task'[u] = task[u]
        /\ \/ Wrote(a, "removing", "none") /\ task'[t].kind = "remove" /\ task'[t].pc = "read"
              /\ task'[t].app = a
           \/ "spawn" \in Faults /\ Wrote(a, "error", "other") /\ task' = task
           \/ "spawn" \in Faults /\ Wrote(a, "removing", "none") /\ task' = task
    BY <1>3, <2>1, UpdateFields DEF Admit
  <2>3. Asks(t, a)
    BY <2>1, <2>2 DEF Asks, Admit
  <2> QED  BY <1>1, <2>2, <2>3
<1>9. CASE StorageGuard(t, a)
  <2>1. Guards(t, a) /\ \A u \in Tasks : u # t => task'[u] = task[u]
    BY <1>2, <1>4, <1>9 DEF StorageGuard, Guards
  <2> QED  BY <1>1, <1>4, <1>9, <2>1 DEF StorageGuard
<1>10. CASE \E how \in {"reload", "update", "oauth"} : ReloadRead(t, a, how)
  <2>1. PICK how \in {"reload", "update", "oauth"} : ReloadRead(t, a, how)
    BY <1>10
  <2>2. \/ Handle(t, "reload_req", "claim", a, how, NoName)
        \/ Handle(t, "reload_req", "pull", a, how, NoName)
    BY <2>1 DEF ReloadRead
  <2>3. Asks(t, a) /\ \A u \in Tasks : u # t => task'[u] = task[u]
    BY <1>2, <1>4, <2>1, <2>2 DEF ReloadRead, Asks, Admit
  <2> QED  BY <1>1, <1>4, <2>1, <2>3 DEF ReloadRead
<1> QED  BY <1>0, <1>5, <1>6, <1>7, <1>8, <1>9, <1>10

\* Boot recovery takes an app off the queue.
LEMMA RecoverSteps ==
    ASSUME IInv, NEW t \in Tasks, NEW a \in Apps, RecoverNext(t, a)
    PROVE  /\ task[t] = Idle /\ UNCHANGED <<row, tokens, router, seen>>
           /\ \/ router = "recovering" /\ queue[a].wait = "sync"
              \/ router \in {"up", "draining"} /\ queue[a].wait = "async"
           /\ \A u \in Tasks : u # t => task'[u] = task[u]
           /\ task'[t].kind = "recover" /\ task'[t].pc \in {"start", "restart"} /\ task'[t].app = a
           /\ queue'[a].wait = "no" /\ \A b \in Apps : b # a => queue'[b] = queue[b]
<1>1. \/ Spawn(t, "recover", "start", a) \/ Spawn(t, "recover", "restart", a)
  BY DEF RecoverNext
<1>2. /\ \A u \in Tasks : u # t => task'[u] = task[u]
      /\ task'[t].kind = "recover" /\ task'[t].pc \in {"start", "restart"} /\ task'[t].app = a
  BY <1>1 DEF Spawn, Idle, IInv, TypeOK
<1>3. queue'[a].wait = "no" /\ \A b \in Apps : b # a => queue'[b] = queue[b]
  BY DEF RecoverNext, NotQueued, IInv, TypeOK
<1> QED  BY <1>2, <1>3 DEF RecoverNext

-----------------------------------------------------------------------------

\* The tasks there are before the router serves: none while it is down, the
\* deploys of first-boot setup, and what boot recovers.
Early ==
    /\ router = "down" => \A t \in Tasks : task[t].kind = "idle"
    /\ router \in {"setup", "booting"} => \A t \in Tasks : task[t].kind \in {"idle", "deploy"}
    /\ router = "recovering" => \A t \in Tasks : task[t].kind \in {"idle", "deploy", "recover"}
    /\ router \in {"setup", "down", "booting"} => \A a \in Apps : queue[a].wait = "no"
    /\ router \in {"up", "draining"} => \A a \in Apps : queue[a].wait # "sync"

NoRenames == "rename" \notin Requests => \A t \in Tasks : task[t].kind # "rename"

RInv == IInv /\ Roles /\ Early /\ NoRenames

LEMMA InitRoles == Init => RInv
<1> SUFFICES ASSUME Init
             PROVE  Roles /\ Early /\ NoRenames
  BY InitTyped DEF RInv
<1>1. \A t \in Tasks : task[t].kind = "idle" /\ task[t].pc = "idle"
  BY DEF Init, Idle
<1>2. \A a \in Apps : queue[a].wait = "no"
  BY DEF Init, NotQueued
<1>3. router \in {"setup", "down"}
  BY DEF Init
<1> QED  BY <1>1, <1>2, <1>3 DEF Roles, Fits, Early, LaunchPcs, NoRenames

\* The steps by name.
LEMMA ShapeOfNext ==
    ASSUME RInv, [Next]_vars
    PROVE  \/ \E t \in Tasks : Alone(t) /\ (LaunchShape(t) \/ HandlerShape(t) \/ LoopShape(t))
           \/ \E t \in Tasks : LostShape(t)
           \/ \E t \in Tasks : Request(t)
           \/ \E t \in Tasks, a \in Apps : RecoverNext(t, a)
           \/ Promote \/ Exit \/ CheckRead \/ CheckWrite \/ Serve
           \/ UNCHANGED vars
<1>1. CASE Next
  <2>1. IInv /\ Roles
    BY DEF RInv
  <2>2. ASSUME NEW t \in Tasks, ThreadStep(t)
        PROVE  LostShape(t) \/ (Alone(t) /\ (LaunchShape(t) \/ HandlerShape(t)))
    BY <2>1, <2>2, ThreadShape, LostSteps
  <2>3. ASSUME NEW t \in Tasks, LoopStep(t)
        PROVE  Alone(t) /\ LoopShape(t)
    BY <2>1, <2>3, LoopSteps
  <2>4. \/ \E t \in Tasks : Request(t) \/ ThreadStep(t) \/ LoopStep(t)
        \/ \E t \in Tasks, a \in Apps : RecoverNext(t, a)
        \/ Promote \/ Exit \/ CheckRead \/ CheckWrite \/ Serve
    BY <1>1 DEF Next
  <2> QED  BY <2>2, <2>3, <2>4
<1> QED  BY <1>1

LEMMA RolesInv == RInv /\ [Next]_vars => RInv'
<1> SUFFICES ASSUME RInv, [Next]_vars
             PROVE  Roles' /\ Early' /\ NoRenames'
  BY NextTyped DEF RInv
<1>0. IInv /\ Roles /\ Early /\ NoRenames
  BY DEF RInv
<1>a. ASSUME NEW t \in Tasks, \A u \in Tasks : u # t => task'[u] = task[u],
             Fits(task'[t].kind, task'[t].pc)
      PROVE  Roles'
  BY <1>0, <1>a DEF Roles
<1>b. Idle.kind = "idle" /\ Idle.pc = "idle" /\ Fits("idle", "idle")
  BY DEF Idle, Fits, LaunchPcs
<1>1. CASE \E t \in Tasks : Alone(t) /\ (LaunchShape(t) \/ HandlerShape(t) \/ LoopShape(t))
  <2>1. PICK t \in Tasks : Alone(t) /\ (LaunchShape(t) \/ HandlerShape(t) \/ LoopShape(t))
    BY <1>1
  <2>2. Fits(task[t].kind, task[t].pc)
    BY <1>0 DEF Roles
  <2>3. /\ Fits(task'[t].kind, task'[t].pc)
        /\ task'[t].kind \in {task[t].kind, "idle"} \/ (task[t].kind = "reload_req" /\ task'[t].kind = "reload")
    <3>1. CASE LaunchShape(t)
      BY <1>b, <2>2, <3>1 DEF LaunchShape, Kept, Fits, LaunchPcs, Launchers
    <3>2. CASE HandlerShape(t)
      BY <1>b, <2>2, <3>2 DEF HandlerShape, Kept
    <3>3. CASE LoopShape(t)
      BY <1>b, <2>2, <3>3 DEF LoopShape, Kept, Fits, LaunchPcs, Launchers
    <3> QED  BY <2>1, <3>1, <3>2, <3>3
  <2>4. Roles'
    BY <1>a, <2>1, <2>3 DEF Alone
  <2>5. UNCHANGED <<router, queue>> /\ task[t].kind # "idle" /\ \A u \in Tasks : u # t => task'[u] = task[u]
    BY <2>1 DEF Alone
  <2>6. Early'
    BY <1>0, <2>3, <2>5 DEF Early
  <2> QED  BY <1>0, <2>3, <2>4, <2>5, <2>6 DEF NoRenames
<1>2. CASE \E t \in Tasks : Request(t)
  <2>1. PICK t \in Tasks : Request(t)
    BY <1>2
  <2>2. PICK a \in Apps :
          /\ task[t] = Idle /\ UNCHANGED <<router, seen, queue>>
          /\ \A u \in Tasks : u # t => task'[u] = task[u]
          /\ Installs(t, a) \/ Asks(t, a) \/ Guards(t, a)
    BY <1>0, <2>1, RequestSteps
  <2>3. Fits(task'[t].kind, task'[t].pc)
    BY <1>b, <2>2 DEF Installs, Asks, Guards, Fits, LaunchPcs, Launchers
  <2>4. Roles'
    BY <1>a, <2>2, <2>3
  <2>5. router \in {"up", "draining"} \/ (router = "setup" /\ task'[t].kind \in {"idle", "deploy"})
    BY <1>b, <2>2 DEF Installs, Asks, Guards
  <2>6. Early'
    BY <1>0, <2>2, <2>5 DEF Early
  <2>7. NoRenames'
    BY <1>0, <1>b, <2>2 DEF NoRenames, Installs, Asks, Guards
  <2> QED  BY <2>4, <2>6, <2>7
<1>3. CASE \E t \in Tasks, a \in Apps : RecoverNext(t, a)
  <2>1. PICK t \in Tasks, a \in Apps : RecoverNext(t, a)
    BY <1>3
  <2>2. /\ router' = router /\ router \in {"recovering", "up", "draining"}
        /\ \A u \in Tasks : u # t => task'[u] = task[u]
        /\ task'[t].kind = "recover" /\ task'[t].pc \in {"start", "restart"}
        /\ queue'[a].wait = "no" /\ \A b \in Apps : b # a => queue'[b] = queue[b]
    BY <1>0, <2>1, RecoverSteps
  <2>3. Roles'
    BY <1>a, <2>2 DEF Fits, LaunchPcs, Launchers
  <2>4. Early'
    BY <1>0, <2>2 DEF Early
  <2> QED  BY <1>0, <2>2, <2>3, <2>4 DEF NoRenames
<1>4. CASE Exit
  <2>1. router' = "down" /\ \A t \in Tasks : task'[t] = Idle
    BY <1>4 DEF Exit
  <2>2. \A a \in Apps : queue'[a].wait = "no"
    BY <1>4 DEF Exit, NotQueued
  <2> QED  BY <1>b, <2>1, <2>2 DEF Roles, Early, NoRenames
<1>5. CASE Promote \/ CheckRead \/ CheckWrite \/ Serve
  <2>1. task' = task /\ Roles'
    BY <1>0, <1>5 DEF Promote, CheckRead, CheckWrite, Serve, Roles
  <2>2. Early'
    BY <1>0, <1>5, <2>1 DEF Early, Promote, CheckRead, CheckWrite, Serve
  <2> QED  BY <1>0, <2>1, <2>2 DEF NoRenames
<1>6. CASE UNCHANGED vars
  BY <1>0, <1>6 DEF vars, Roles, Early, NoRenames
<1>7. CASE \E t \in Tasks : LostShape(t)
  <2>1. PICK t \in Tasks : LostShape(t)
    BY <1>7
  <2>2. Roles'
    BY <1>a, <1>b, <2>1 DEF LostShape
  <2>3. \A b \in Apps : queue'[b].wait \in {queue[b].wait, "no"}
    BY <2>1 DEF LostShape, NotQueued
  <2>4. Early'
    BY <1>0, <1>b, <2>1, <2>3 DEF LostShape, Early
  <2> QED  BY <1>0, <1>b, <2>1, <2>2, <2>4 DEF LostShape, NoRenames
<1> QED  BY <1>1, <1>2, <1>3, <1>4, <1>5, <1>6, <1>7, ShapeOfNext

-----------------------------------------------------------------------------
(* One worker for an app, if the owner waits for each answer.                 *)

Works(t) == task[t].kind \notin {"idle", "guard"}

\* Requests, launches and recoveries of an app exclude one another, and they are
\* of apps that are there.
OneWorker ==
    /\ \A t, u \in Tasks : Works(t) /\ Works(u) /\ task[t].app = task[u].app => t = u
    /\ \A t \in Tasks : Works(t) => Present(task[t].app)
    /\ \A a \in Apps : queue[a].wait # "no" =>
           Present(a) /\ \A t \in Tasks : Works(t) => task[t].app # a

\* The row of an app that this process deploys for the first time, as the
\* boot check reads it.
BeingDeployed(r) ==
    /\ r.fresh /\ r.status \in {"building", "starting", "error"}
    /\ r.err \notin {"marker", "corrupt"}
    /\ r.status = "building" => r.cid = NoCid

\* The boot check after first-boot setup finds deploys at work, and can tell
\* from the rows it has read.
SetupRows ==
    /\ router \in {"setup", "booting"} =>
           \A t \in Tasks : task[t].kind = "deploy" =>
               /\ BeingDeployed(row[task[t].app])
               /\ row[task[t].app].status = "building" => task[t].pc \in BeforeRun
    /\ router = "booting" =>
           /\ \A t \in Tasks : task[t].kind = "deploy" => BeingDeployed(seen[task[t].app])
           /\ \A a \in Apps : seen[a].status \notin {"new", "gone"} => Present(a)

UndoesPresent == \A t \in Tasks : task[t].kind = "rename" => task[t].how \notin {"new", "gone"}

PatientInv == RInv /\ OneWorker /\ SetupRows /\ UndoesPresent

\* It holds when the router starts for the first time.
LEMMA InitPatient == Init => PatientInv
<1> SUFFICES ASSUME Init
             PROVE  PatientInv
  OBVIOUS
<1>1. \A t \in Tasks : task[t].kind = "idle"
  BY DEF Init, Idle
<1>2. \A a \in Apps : queue[a].wait = "no"
  BY DEF Init, NotQueued
<1>3. router # "booting" /\ tokens = {}
  BY DEF Init
<1> QED
  BY <1>1, <1>2, <1>3, InitRoles
  DEF PatientInv, OneWorker, Works, SetupRows, UndoesPresent

\* A step of a task leaves it the only one at work on its app, and ends it when
\* it deletes the row.
LEMMA AlonePatient ==
    ASSUME PatientInv, NEW t \in Tasks, Alone(t),
           LaunchShape(t) \/ HandlerShape(t) \/ LoopShape(t)
    PROVE  OneWorker' /\ SetupRows' /\ UndoesPresent'
<1>p. PICK a \in Apps : a = task[t].app
  BY DEF Alone
<1>0. /\ IInv /\ Roles /\ Early /\ OneWorker /\ SetupRows /\ UndoesPresent
      /\ a = task[t].app /\ task[t].kind # "idle" /\ UNCHANGED <<router, seen, queue>>
      /\ \A u \in Tasks : u # t => task'[u] = task[u]
      /\ \A b \in Apps : b # a => row'[b] = row[b]
      /\ Fits(task[t].kind, task[t].pc) /\ task[t].pc \in Pcs
  BY <1>p DEF PatientInv, RInv, Alone, Roles, IInv, TypeOK, Task
<1>1. Idle.kind = "idle" /\ BlankRow("gone").status = "gone"
  BY DEF Idle, BlankRow
<1>2. /\ task'[t].kind \in {"idle", task[t].kind}
         \/ (task[t].kind = "reload_req" /\ task'[t].kind = "reload")
      /\ task'[t].kind # "idle" => task'[t].app = a
      /\ task'[t].kind = "rename" => task[t].kind = "rename" /\ task'[t].how = task[t].how
  <2>1. CASE LaunchShape(t)
    BY <1>0, <1>1, <2>1 DEF LaunchShape, Kept
  <2>2. CASE HandlerShape(t)
    BY <1>0, <1>1, <2>2 DEF HandlerShape, Kept
  <2>3. CASE LoopShape(t)
    BY <1>0, <1>1, <2>3 DEF LoopShape, Kept, Fits
  <2> QED  BY <2>1, <2>2, <2>3
<1>3. \A u \in Tasks : Works(u)' => Works(u) /\ task'[u].app = task[u].app
  BY <1>0, <1>2 DEF Works
<1>4. /\ \A b \in Apps : b # a => (Present(b)' <=> Present(b))
      /\ \/ /\ Present(a)' <=> Present(a)
            /\ tokens' = tokens \/ (tokens' = tokens \cup {a} /\ Works(t))
         \/ /\ task[t].kind = "remove" /\ task'[t] = Idle
            /\ tokens' = IF Present(a) THEN tokens \ {a} ELSE tokens
  <2>1. \A b \in Apps : b # a => (Present(b)' <=> Present(b))
    BY <1>0 DEF Present
  <2>2. CASE LaunchShape(t)
    <3>1. Present(a)' <=> Present(a)
      BY <1>p, <2>2 DEF LaunchShape, SameRow, Wrote, Present
    <3>2. Works(t)
      BY <1>0, <2>2 DEF LaunchShape, Fits, Launchers, Works
    <3> QED  BY <1>p, <2>1, <2>2, <3>1, <3>2 DEF LaunchShape
  <2>3. CASE HandlerShape(t)
    <3>1. CASE tokens' = tokens /\ (Present(a)' <=> Present(a))
      BY <2>1, <3>1
    <3>2. CASE /\ task[t].kind = "remove" /\ task'[t] = Idle
               /\ tokens' = IF Present(a) THEN tokens \ {a} ELSE tokens
      BY <2>1, <3>2
    <3>3. \/ tokens' = tokens /\ (Present(a)' <=> Present(a))
          \/ /\ task[t].kind = "remove" /\ task'[t] = Idle
             /\ tokens' = IF Present(a) THEN tokens \ {a} ELSE tokens
      BY <1>p, <2>3 DEF HandlerShape, SameRow, Wrote, Present
    <3> QED  BY <3>1, <3>2, <3>3
  <2>4. CASE LoopShape(t)
    <3>1. task[t].pc = "dirs" => task[t].how \notin {"new", "gone"}
      BY <1>0 DEF UndoesPresent, Fits
    <3>2. Present(a)' <=> Present(a)
      BY <1>p, <2>4, <3>1 DEF LoopShape, Updated, Claimable, SameRow, Wrote, Present
    <3> QED  BY <1>p, <2>1, <2>4, <3>2 DEF LoopShape
  <2> QED  BY <2>1, <2>2, <2>3, <2>4
<1>5. OneWorker'
  <2>1. \A u, v \in Tasks : Works(u)' /\ Works(v)' /\ task'[u].app = task'[v].app => u = v
    BY <1>0, <1>3 DEF OneWorker
  <2>2. ASSUME NEW u \in Tasks, Works(u)'
        PROVE  Present(task[u].app)'
    <3>1. Works(u) /\ task'[u].app = task[u].app /\ Present(task[u].app) /\ task[u].app \in Apps
      <4>1. task[u].pc # "idle"
        BY <1>0, <1>3, <2>2 DEF Works, Roles, Fits
      <4> QED  BY <1>0, <1>3, <2>2, <4>1 DEF OneWorker, IInv, TasksInOrder
    <3>2. CASE task[u].app # a
      BY <1>4, <3>1, <3>2 DEF Present
    <3>3. CASE task[u].app = a
      <4>1. Works(t) => u = t
        BY <1>0, <3>1, <3>3 DEF OneWorker
      <4>2. ~(task[t].kind = "remove" /\ task'[t] = Idle)
        BY <1>1, <2>2, <4>1 DEF Works
      <4> QED  BY <1>4, <3>1, <3>3, <4>2 DEF Present
    <3> QED  BY <3>2, <3>3
  <2>3. ASSUME NEW b \in Apps, queue'[b].wait # "no"
        PROVE  Present(b)' /\ \A u \in Tasks : Works(u)' => task'[u].app # b
    <3>1. queue[b].wait # "no" /\ Present(b) /\ \A u \in Tasks : Works(u) => task[u].app # b
      BY <1>0, <2>3 DEF OneWorker
    <3>2. task[t].kind = "remove" => b # a
      BY <1>0, <3>1 DEF Works
    <3> QED  BY <1>3, <1>4, <3>1, <3>2
  <2> QED  BY <2>1, <2>2, <2>3 DEF OneWorker
<1>7. UndoesPresent'
  BY <1>0, <1>2 DEF UndoesPresent
<1>8. SetupRows'
  <2>1. CASE router \notin {"setup", "booting"}
    BY <1>0, <2>1 DEF SetupRows
  <2>2. CASE router \in {"setup", "booting"}
    <3>1. task[t].kind = "deploy" /\ Works(t)
      BY <1>0, <2>2 DEF Early, Works
    <3>2. task[t].pc \in LaunchPcs
      BY <1>0, <3>1 DEF Fits, Pcs
    <3>3. LaunchShape(t)
      BY <3>2 DEF HandlerShape, LoopShape, LaunchPcs
    <3>4. /\ BeingDeployed(row[a]) /\ Present(a)
          /\ row[a].status = "building" => task[t].pc \in BeforeRun
      BY <1>0, <2>2, <3>1 DEF SetupRows, BeingDeployed, Present
    <3>5. task'[t].kind = "deploy" =>
             /\ BeingDeployed(row'[a])
             /\ row'[a].status = "building" => task'[t].pc \in BeforeRun
      <4>1. ASSUME task'[t].kind = "deploy"
            PROVE  \/ SameRow(a) /\ (task[t].pc \in BeforeRun => task'[t].pc \in BeforeRun)
                   \/ /\ task[t].pc = "record" /\ row'[a].status = row[a].status
                      /\ row'[a].err = row[a].err /\ row'[a].fresh = row[a].fresh
                   \/ Wrote(a, "starting", IF row[a].err = "marker" THEN "marker" ELSE "none")
                   \/ Wrote(a, "error", "other")
        BY <1>p, <1>1, <3>3, <3>4, <4>1 DEF LaunchShape
      <4> QED  BY <3>4, <4>1 DEF BeingDeployed, SameRow, Wrote, BeforeRun
    <3>6. \A u \in Tasks : u # t /\ task'[u].kind = "deploy" =>
             task'[u] = task[u] /\ task[u].app # a /\ row'[task[u].app] = row[task[u].app]
      <4>1. ASSUME NEW u \in Tasks, u # t, task[u].kind = "deploy"
            PROVE  task[u].app # a /\ task[u].app \in Apps
        <5>1. Works(u) /\ task[u].pc # "idle"
          BY <1>0, <4>1 DEF Works, Roles, Fits
        <5> QED  BY <1>0, <3>1, <4>1, <5>1 DEF OneWorker, IInv, TasksInOrder
      <4> QED  BY <1>0, <4>1
    <3>7. \A u \in Tasks : task'[u].kind = "deploy" =>
             /\ BeingDeployed(row'[task'[u].app])
             /\ row'[task'[u].app].status = "building" => task'[u].pc \in BeforeRun
      BY <1>0, <1>2, <2>2, <3>5, <3>6 DEF SetupRows
    <3>8. \A u \in Tasks : task'[u].kind = "deploy" => task[u].kind = "deploy" /\ task'[u].app = task[u].app
      BY <1>0, <1>2, <3>1
    <3>9. \A b \in Apps : Present(b)' <=> Present(b)
      BY <1>4, <3>1
    <3> QED  BY <1>0, <3>7, <3>8, <3>9 DEF SetupRows
  <2> QED  BY <2>1, <2>2
<1> QED  BY <1>5, <1>7, <1>8

\* A request finds the app quiet, so its task is the only one at work on it.
LEMMA RequestPatient ==
    ASSUME ~Overlap, PatientInv, NEW t \in Tasks, Request(t)
    PROVE  OneWorker' /\ SetupRows' /\ UndoesPresent'
<1>0. IInv /\ Roles /\ Early /\ OneWorker /\ SetupRows /\ UndoesPresent
  BY DEF PatientInv, RInv
<1>1. PICK a \in Apps :
        /\ task[t] = Idle /\ UNCHANGED <<router, seen, queue>>
        /\ \A u \in Tasks : u # t => task'[u] = task[u]
        /\ \A b \in Apps : b # a => row'[b] = row[b]
        /\ Installs(t, a) \/ Asks(t, a) \/ Guards(t, a)
  BY <1>0, RequestSteps
<1>2. Idle.kind = "idle" /\ ~Works(t)
  BY <1>1 DEF Idle, Works
<1>3. \A u \in Tasks : Works(u) => Present(task[u].app) /\ task[u].app \in Apps
  <2>1. \A u \in Tasks : Works(u) => task[u].pc # "idle"
    BY <1>0 DEF Works, Roles, Fits
  <2> QED  BY <1>0, <2>1 DEF OneWorker, IInv, TasksInOrder
<1>4. \A b \in Apps : b # a => (Present(b)' <=> Present(b))
  BY <1>1 DEF Present
<1>6. ASSUME Present(a)', Works(t)' => task'[t].app = a,
             Works(t)' => queue[a].wait = "no" /\ \A u \in Tasks : Works(u) => task[u].app # a
      PROVE  OneWorker'
  <2>1. \A u \in Tasks : u # t => (Works(u)' <=> Works(u)) /\ task'[u].app = task[u].app
    BY <1>1 DEF Works
  <2>2. \A u, v \in Tasks : Works(u)' /\ Works(v)' /\ task'[u].app = task'[v].app => u = v
    BY <1>0, <1>6, <2>1 DEF OneWorker
  <2>3. \A u \in Tasks : Works(u)' => row'[task'[u].app].status \notin {"new", "gone"}
    BY <1>3, <1>4, <1>6, <2>1 DEF Present
  <2>4. \A b \in Apps : queue'[b].wait # "no" =>
            Present(b)' /\ \A u \in Tasks : Works(u)' => task'[u].app # b
    BY <1>0, <1>1, <1>4, <1>6, <2>1 DEF OneWorker
  <2> QED  BY <2>2, <2>3, <2>4 DEF OneWorker, Present
<1>7. CASE Installs(t, a)
  <2>1. Present(a)' /\ ~Present(a)
    BY <1>7 DEF Installs, Present
  <2>2. queue[a].wait = "no" /\ \A u \in Tasks : Works(u) => task[u].app # a
    BY <1>0, <1>3, <2>1 DEF OneWorker
  <2>3. /\ Works(t)' => task'[t].app = a /\ task'[t].kind = "deploy" /\ task'[t].pc = "build"
        /\ task'[t].kind \in {"idle", "deploy"}
        /\ task'[t].kind = "deploy" => Works(t)'
    BY <1>1, <1>2, <1>7 DEF Installs, Works
  <2>4. OneWorker'
    BY <1>6, <2>1, <2>2, <2>3
  <2>5. SetupRows'
    <3>1. BeingDeployed(row'[a])
      BY <1>7 DEF Installs, BeingDeployed
    <3>2. \A u \in Tasks : u # t /\ task'[u].kind = "deploy" =>
              task'[u] = task[u] /\ row'[task[u].app] = row[task[u].app]
      BY <1>1, <1>3, <2>2 DEF Works
    <3>3. router' \in {"setup", "up"} /\ router' = router
      BY <1>1, <1>7 DEF Installs
    <3>4. router = "setup" => \A u \in Tasks : task'[u].kind = "deploy" =>
              /\ BeingDeployed(row'[task'[u].app])
              /\ row'[task'[u].app].status = "building" => task'[u].pc \in BeforeRun
      BY <1>0, <2>3, <3>1, <3>2 DEF SetupRows, BeforeRun
    <3> QED  BY <3>3, <3>4 DEF SetupRows
  <2>6. UndoesPresent'
    BY <1>0, <1>1, <2>3 DEF UndoesPresent
  <2> QED  BY <2>4, <2>5, <2>6
<1>8. CASE Asks(t, a)
  <2>1. router' = "up" /\ Present(a) /\ Quiet(a) /\ tokens' = tokens
    BY <1>1, <1>8 DEF Asks
  <2>2. queue[a].wait = "no" /\ \A u \in Tasks : Works(u) => task[u].app # a
    BY <2>1 DEF Quiet, On, Works
  <2>3. Present(a)' /\ (task'[t].kind = "rename" => task'[t].how = row[a].status)
    BY <1>1, <1>2, <1>8, <2>1 DEF Asks, SameRow, Wrote, Present
  <2>4. Works(t)' => task'[t].app = a
    BY <1>1, <1>2, <1>8 DEF Asks, Works
  <2>5. OneWorker'
    BY <1>6, <2>2, <2>3, <2>4
  <2>6. UndoesPresent'
    BY <1>0, <1>1, <2>1, <2>3 DEF UndoesPresent, Present
  <2> QED  BY <2>1, <2>5, <2>6 DEF SetupRows
<1>9. CASE Guards(t, a)
  <2>1. /\ router' \in {"up", "draining"} /\ tokens' = tokens /\ task'[t].kind = "guard"
        /\ Present(a)' <=> Present(a)
    BY <1>1, <1>9 DEF Guards, SameRow, Present
  <2>2. ~Works(t)'
    BY <2>1 DEF Works
  <2>3. OneWorker'
    <3>1. \A b \in Apps : Present(b)' <=> Present(b)
      BY <1>4, <2>1
    <3>2. \A u \in Tasks : Works(u)' => Works(u) /\ u # t /\ task'[u] = task[u]
      BY <1>1, <2>2 DEF Works
    <3>3. \A u, v \in Tasks : Works(u)' /\ Works(v)' /\ task'[u].app = task'[v].app => u = v
      BY <1>0, <3>2 DEF OneWorker
    <3>4. \A u \in Tasks : Works(u)' => row'[task'[u].app].status \notin {"new", "gone"}
      BY <1>3, <3>1, <3>2 DEF Present
    <3>5. \A b \in Apps : queue'[b].wait # "no" =>
              Present(b)' /\ \A u \in Tasks : Works(u)' => task'[u].app # b
      BY <1>0, <1>1, <3>1, <3>2 DEF OneWorker
    <3> QED  BY <3>3, <3>4, <3>5 DEF OneWorker, Present
  <2>4. UndoesPresent'
    BY <1>0, <1>1, <2>1 DEF UndoesPresent
  <2> QED  BY <2>1, <2>3, <2>4 DEF SetupRows
<1> QED  BY <1>1, <1>7, <1>8, <1>9

\* The boot check queues no app that is being deployed, and none without a row.
LEMMA CheckPatient ==
    ASSUME PatientInv, CheckWrite
    PROVE  OneWorker' /\ SetupRows' /\ UndoesPresent'
<1>0. IInv /\ Roles /\ Early /\ OneWorker /\ SetupRows /\ UndoesPresent
  BY DEF PatientInv, RInv
<1>1. PICK rebuild, lost \in SUBSET Apps :
        /\ row' = [a \in Apps |-> IF Present(a) THEN Recovered(a, lost) ELSE row[a]]
        /\ queue' = [a \in Apps |->
              IF Verdict(a, lost) = "recover"
              THEN [wait |-> IF Promoted(a) THEN "sync" ELSE "async",
                    build |-> seen[a].status = "building" \/ a \in rebuild]
              ELSE IF Corrupt(a, lost) THEN [wait |-> "async", build |-> TRUE]
              ELSE NotQueued]
  BY DEF CheckWrite
<1>2. router = "booting" /\ router' = "recovering" /\ UNCHANGED <<tokens, task>>
  BY DEF CheckWrite
<1>3. ASSUME NEW a \in Apps
      PROVE  Present(a)' <=> Present(a)
  <2>1. row'[a] = IF Present(a) THEN Recovered(a, lost) ELSE row[a]
    BY <1>1
  <2>2. row[a] \in Row
    BY <1>0 DEF IInv, TypeOK
  <2>3. Recovered(a, lost).status \in {row[a].status, "running", "error", "starting"}
    BY <2>2 DEF Recovered, Row
  <2> QED  BY <2>1, <2>3 DEF Present
<1>4. ASSUME NEW a \in Apps, queue'[a].wait # "no"
      PROVE  Present(a) /\ \A t \in Tasks : Works(t) => task[t].app # a
  <2>1. Verdict(a, lost) = "recover" \/ Corrupt(a, lost)
    BY <1>1, <1>4 DEF NotQueued
  <2>2. Present(a)
    <3>1. CASE Corrupt(a, lost)
      BY <3>1 DEF Corrupt, Present
    <3>2. CASE seen[a].status \notin Recoverable
      <4>1. Verdict(a, lost) = "keep"
        BY <3>2 DEF Verdict
      <4> QED  BY <2>1, <3>1, <4>1
    <3>3. CASE seen[a].status \in Recoverable
      BY <1>0, <1>2, <3>3 DEF SetupRows, Recoverable, Transient
    <3> QED  BY <3>2, <3>3
  <2>3. ASSUME NEW t \in Tasks, Works(t), task[t].app = a
        PROVE  FALSE
    <3>1. task[t].kind = "deploy"
      BY <1>0, <1>2, <2>3 DEF Early, Works
    <3>2. BeingDeployed(row[a]) /\ BeingDeployed(seen[a])
      BY <1>0, <1>2, <2>3, <3>1 DEF SetupRows
    <3>3. ~Corrupt(a, lost)
      BY <3>2 DEF BeingDeployed, Corrupt
    <3>4. InFlight(a) /\ ~Promoted(a)
      BY <3>2 DEF BeingDeployed, InFlight, Promoted
    <3>5. Verdict(a, lost) # "recover"
      <4>1. CASE seen[a].status = "error"
        <5>1. seen[a].status \notin Recoverable
          BY <4>1 DEF Recoverable, Transient
        <5>2. Verdict(a, lost) = "keep"
          BY <5>1 DEF Verdict
        <5> QED  BY <5>2
      <4>2. CASE seen[a].status = "starting"
        <5>1. seen[a].status \in Recoverable
          BY <4>2 DEF Recoverable, Transient
        <5>2. Verdict(a, lost) = "keep"
          BY <3>4, <4>2, <5>1 DEF Verdict
        <5> QED  BY <5>2
      <4>3. CASE seen[a].status = "building"
        <5>1. seen[a].status \in Recoverable /\ seen[a].status # "starting"
              /\ seen[a].status # "running" /\ seen[a].cid = NoCid
          BY <3>2, <4>3 DEF Recoverable, Transient, BeingDeployed
        <5>2. CASE a \in lost
          <6>1. Verdict(a, lost) = "lost"
            BY <5>1, <5>2 DEF Verdict
          <6> QED  BY <6>1
        <5>3. CASE a \notin lost
          <6>1. Verdict(a, lost) = "in_flight"
            BY <3>4, <5>1, <5>3 DEF Verdict
          <6> QED  BY <6>1
        <5> QED  BY <5>2, <5>3
      <4> QED  BY <3>2, <4>1, <4>2, <4>3 DEF BeingDeployed
    <3> QED  BY <2>1, <3>3, <3>5
  <2> QED  BY <2>2, <2>3
<1>5. \A u \in Tasks : Works(u) => Present(task[u].app) /\ task[u].app \in Apps
  <2>1. \A u \in Tasks : Works(u) => task[u].pc # "idle"
    BY <1>0 DEF Works, Roles, Fits
  <2> QED  BY <1>0, <2>1 DEF OneWorker, IInv, TasksInOrder
<1>6. OneWorker'
  <2>1. \A u \in Tasks : (Works(u)' <=> Works(u)) /\ task'[u] = task[u]
    BY <1>2 DEF Works
  <2>2. \A u, v \in Tasks : Works(u)' /\ Works(v)' /\ task'[u].app = task'[v].app => u = v
    BY <1>0, <2>1 DEF OneWorker
  <2>3. \A u \in Tasks : Works(u)' => row'[task'[u].app].status \notin {"new", "gone"}
    BY <1>3, <1>5, <2>1 DEF Present
  <2>4. \A b \in Apps : queue'[b].wait # "no" =>
            Present(b)' /\ \A u \in Tasks : Works(u)' => task'[u].app # b
    BY <1>3, <1>4, <2>1
  <2> QED  BY <2>2, <2>3, <2>4 DEF OneWorker, Present
<1>7. UndoesPresent'
  BY <1>0, <1>2 DEF UndoesPresent
<1> QED  BY <1>2, <1>6, <1>7 DEF SetupRows

LEMMA PatientNext == ASSUME ~Overlap PROVE PatientInv /\ [Next]_vars => PatientInv'
<1> SUFFICES ASSUME PatientInv, [Next]_vars
             PROVE  OneWorker' /\ SetupRows' /\ UndoesPresent'
  BY RolesInv DEF PatientInv
<1>0. /\ RInv /\ IInv /\ Roles /\ Early
      /\ OneWorker /\ SetupRows /\ UndoesPresent
  BY DEF PatientInv, RInv
<1>a. \A u \in Tasks : Works(u) => Present(task[u].app) /\ task[u].app \in Apps
  <2>1. \A u \in Tasks : Works(u) => task[u].pc # "idle"
    BY <1>0 DEF Works, Roles, Fits
  <2> QED  BY <1>0, <2>1 DEF OneWorker, IInv, TasksInOrder
<1>1. CASE \E t \in Tasks, a \in Apps : RecoverNext(t, a)
  <2>1. PICK t \in Tasks, a \in Apps : RecoverNext(t, a)
    BY <1>1
  <2>2. /\ UNCHANGED <<row, tokens>> /\ router' \in {"recovering", "up", "draining"}
        /\ queue[a].wait # "no" /\ queue'[a].wait = "no"
        /\ \A b \in Apps : b # a => queue'[b] = queue[b]
        /\ \A u \in Tasks : u # t => task'[u] = task[u]
        /\ task'[t].kind = "recover" /\ task'[t].app = a
    BY <1>0, <2>1, RecoverSteps
  <2>3. Present(a) /\ \A u \in Tasks : Works(u) => task[u].app # a
    BY <1>0, <2>2 DEF OneWorker
  <2>4. \A b \in Apps : Present(b)' <=> Present(b)
    BY <2>2 DEF Present
  <2>5. \A u \in Tasks : u # t => (Works(u)' <=> Works(u)) /\ task'[u].app = task[u].app
    BY <2>2 DEF Works
  <2>6. \A u, v \in Tasks : Works(u)' /\ Works(v)' /\ task'[u].app = task'[v].app => u = v
    BY <1>0, <2>2, <2>3, <2>5 DEF OneWorker
  <2>7. \A u \in Tasks : Works(u)' => row'[task'[u].app].status \notin {"new", "gone"}
    BY <1>a, <2>2, <2>3, <2>5 DEF Present
  <2>8. \A b \in Apps : queue'[b].wait # "no" =>
            Present(b)' /\ \A u \in Tasks : Works(u)' => task'[u].app # b
    BY <1>0, <2>2, <2>4, <2>5 DEF OneWorker
  <2>9. OneWorker'
    BY <2>6, <2>7, <2>8 DEF OneWorker, Present
  <2> QED  BY <1>0, <2>2, <2>4, <2>9 DEF SetupRows, UndoesPresent
<1>2. CASE Exit
  <2>1. /\ router' = "down" /\ tokens' = tokens
        /\ \A t \in Tasks : task'[t].kind = "idle"
        /\ \A a \in Apps : queue'[a].wait = "no"
    BY <1>2 DEF Exit, Idle, NotQueued
  <2>2. \A a \in Apps : row'[a].status = row[a].status
    BY <1>0, <1>2 DEF Exit, IInv, TypeOK, Row
  <2> QED  BY <2>1, <2>2 DEF OneWorker, SetupRows, UndoesPresent, Works, Present
<1>3. CASE Promote
  <2>1. router' = "draining" /\ UNCHANGED <<tokens, task, queue>>
    BY <1>3 DEF Promote
  <2>2. \A a \in Apps : Present(a)' <=> Present(a)
    BY <1>0, <1>3 DEF Promote, Present, IInv, TypeOK, Row
  <2>3. OneWorker'
    <3>1. \A u \in Tasks : (Works(u)' <=> Works(u)) /\ task'[u] = task[u]
      BY <2>1 DEF Works
    <3>2. \A u \in Tasks : Works(u)' => row'[task'[u].app].status \notin {"new", "gone"}
      BY <1>a, <2>2, <3>1 DEF Present
    <3>3. \A b \in Apps : queue'[b].wait # "no" =>
              Present(b)' /\ \A u \in Tasks : Works(u)' => task'[u].app # b
      BY <1>0, <2>1, <2>2, <3>1 DEF OneWorker
    <3> QED  BY <1>0, <3>1, <3>2, <3>3 DEF OneWorker, Present
  <2> QED  BY <1>0, <2>1, <2>2, <2>3 DEF SetupRows, UndoesPresent
<1>4. CASE CheckRead
  <2>1. /\ router \in {"down", "setup"} /\ router' = "booting" /\ seen' = row
        /\ UNCHANGED <<row, tokens, task, queue>>
    BY <1>4 DEF CheckRead
  <2>2. OneWorker' /\ UndoesPresent'
    BY <1>0, <2>1 DEF OneWorker, UndoesPresent, Works, Present
  <2>3. \A t \in Tasks : task[t].kind = "deploy" =>
            /\ BeingDeployed(row[task[t].app])
            /\ row[task[t].app].status = "building" => task[t].pc \in BeforeRun
    BY <1>0, <2>1 DEF Early, SetupRows
  <2>4. SetupRows'
    BY <2>1, <2>3 DEF SetupRows, Present
  <2> QED  BY <2>2, <2>4
<1>5. CASE Serve
  BY <1>0, <1>5 DEF Serve, OneWorker, SetupRows, UndoesPresent, Works, Present
<1>6. CASE UNCHANGED vars
  BY <1>0, <1>6 DEF vars, OneWorker, SetupRows, UndoesPresent, Works, Present
<1>7. CASE \E t \in Tasks : LostShape(t)
  <2>1. PICK t \in Tasks : LostShape(t)
    BY <1>7
  <2>2. /\ \A u \in Tasks : task'[u].kind = "idle" \/ task'[u] = task[u]
        /\ \A b \in Apps : queue'[b].wait # "no" => queue[b].wait # "no"
        /\ UNCHANGED <<row, router, seen>>
    BY <2>1 DEF LostShape, Idle, NotQueued
  <2> QED  BY <1>0, <2>2 DEF OneWorker, SetupRows, UndoesPresent, Works, Present
<1> QED
  BY <1>0, <1>1, <1>2, <1>3, <1>4, <1>5, <1>6, <1>7, ShapeOfNext, AlonePatient, RequestPatient,
     CheckPatient

\* If every request waits until nothing is in flight for its app, no two
\* threads or handlers ever launch the container of the same app: the claim of
\* the reload route (apps.py) and the checks of check_app_status that leave this
\* process's own deploys alone are enough, through every crash and restart.
THEOREM SingleLauncher == ASSUME ~Overlap PROVE Spec => []OneLauncher
<1>1. PatientInv => OneLauncher
  BY DEF PatientInv, OneWorker, OneLauncher, Works, Launchers
<1> QED  BY <1>1, InitPatient, PatientNext, PTL DEF Spec

-----------------------------------------------------------------------------
(* Nobody is stranded, if no request is lost half way.                        *)

\* A boot without first-boot setup finds no task, and no row of its own.
ColdBoot ==
    /\ router # "setup"
    /\ router \in {"down", "booting"} =>
           /\ \A t \in Tasks : task[t].kind = "idle"
           /\ \A a \in Apps : ~row[a].fresh
    /\ router = "booting" => seen = row

\* NotStranded, from the boot check on.
Watched ==
    router \in {"recovering", "up"} =>
        \A a \in Apps : row[a].status \in Transient =>
            queue[a].wait # "no" \/ \E t \in Tasks : Owner(t, a)

\* A rename that can be undone has not read a status in transition.
SafeUndo == "dirs" \in Faults => \A t \in Tasks : task[t].kind = "rename" => task[t].how \notin Transient

WatchedInv == RInv /\ ColdBoot /\ Watched /\ SafeUndo

\* The ways a transient row is left behind, which the hypothesis excludes: a boot
\* check beside the deploys of first-boot setup, a thread that cannot be started,
\* a rename undone after another request has been served, a failure that cannot
\* be written down, and a renamed app whose build fails as the route does not
\* expect (it knows RuntimeError and ValueError only).
NothingLost ==
    /\ "setup" \notin Requests
    /\ Faults \cap {"spawn", "unrecorded"} = {}
    /\ "dirs" \in Faults => ~Overlap
    /\ "build" \in Faults => "rename" \notin Requests

LEMMA InitWatched == ASSUME NothingLost PROVE Init => WatchedInv
<1> SUFFICES ASSUME Init
             PROVE  ColdBoot /\ Watched /\ SafeUndo
  BY InitRoles DEF WatchedInv
<1>1. router = "down" /\ \A t \in Tasks : task[t].kind = "idle"
  BY DEF Init, NothingLost, Idle
<1>2. \A a \in Apps : ~row[a].fresh
  BY DEF Init, BlankRow
<1> QED  BY <1>1, <1>2 DEF ColdBoot, Watched, SafeUndo

\* A task stays at work on a row until it has settled it.
LEMMA AloneWatched ==
    ASSUME NothingLost, WatchedInv, NEW t \in Tasks, Alone(t),
           LaunchShape(t) \/ HandlerShape(t) \/ LoopShape(t)
    PROVE  ColdBoot' /\ Watched' /\ SafeUndo'
<1>p. PICK a \in Apps : a = task[t].app
  BY DEF Alone
<1>0. /\ IInv /\ Roles /\ Early /\ ColdBoot /\ Watched /\ SafeUndo
      /\ a = task[t].app /\ task[t].kind # "idle" /\ UNCHANGED <<router, seen, queue>>
      /\ \A u \in Tasks : u # t => task'[u] = task[u]
      /\ \A b \in Apps : b # a => row'[b] = row[b]
      /\ Fits(task[t].kind, task[t].pc)
  BY <1>p DEF WatchedInv, RInv, Alone, Roles
<1>1. Idle.kind = "idle" /\ BlankRow("gone").status = "gone"
  BY DEF Idle, BlankRow
<1>2. ColdBoot'
  BY <1>0 DEF ColdBoot
<1>3. SafeUndo'
  <2>1. task'[t].kind = "rename" => task[t].kind = "rename" /\ task'[t].how = task[t].how
    <3>1. CASE LaunchShape(t)
      BY <1>0, <1>1, <3>1 DEF LaunchShape, Kept
    <3>2. CASE HandlerShape(t)
      BY <1>0, <1>1, <3>2 DEF HandlerShape, Kept
    <3>3. CASE LoopShape(t)
      BY <1>0, <1>1, <3>3 DEF LoopShape, Kept, Fits
    <3> QED  BY <3>1, <3>2, <3>3
  <2> QED  BY <1>0, <2>1 DEF SafeUndo
<1>4. \A u \in Tasks : u # t => \A b \in Apps : Owner(u, b)' <=> Owner(u, b)
  BY <1>0 DEF Owner
<1>5. \A b \in Apps : b # a => ~Owner(t, b)
  BY <1>0 DEF Owner
<1>6. ASSUME row'[a].status \in Transient
      PROVE  Owner(t, a)' \/ (row[a].status \in Transient /\ ~Owner(t, a))
  <2>1. CASE LaunchShape(t)
    <3>1. task[t].kind \in Launchers
      BY <1>0, <2>1 DEF LaunchShape, Fits
    <3>2. CASE Kept(t) /\ task'[t].pc \in LaunchPcs
      BY <1>0, <3>1, <3>2 DEF Owner, Kept
    <3>3. CASE task'[t] = Idle /\ \/ ~Present(a) /\ SameRow(a)
                                  \/ row'[a].status \in {"running", "error"}
      BY <1>6, <3>3 DEF SameRow, Present, Transient
    <3> QED  BY <1>p, <2>1, <3>2, <3>3 DEF LaunchShape
  <2>2. CASE HandlerShape(t)
    <3>1. SameRow(a)
      BY <1>p, <1>1, <1>6, <2>2 DEF HandlerShape, Wrote, Transient
    <3>2. row[a].status \in Transient
      BY <1>6, <3>1 DEF SameRow
    <3>3. CASE task[t].kind = "reload_req"
      <4>1. Kept(t) /\ task'[t].pc = "spawn"
        BY <2>2, <3>3 DEF HandlerShape
      <4> QED  BY <1>0, <3>3, <4>1 DEF Owner, Kept
    <3>4. CASE task[t].kind # "reload_req"
      BY <2>2, <3>2, <3>4 DEF HandlerShape, Owner
    <3> QED  BY <3>3, <3>4
  <2>3. CASE LoopShape(t)
    <3>1. ~Owner(t, a) \/ (task[t].kind = "reload_req" /\ task[t].pc = "spawn")
      BY <2>3 DEF LoopShape, Owner, LaunchPcs
    <3>2. CASE SameRow(a) /\ task[t].pc # "spawn"
      BY <1>6, <3>1, <3>2 DEF SameRow
    <3>3. CASE Updated(a, "error", "other")
      BY <1>6, <3>3 DEF Updated, Wrote, SameRow, Present, Transient
    <3>4. CASE task[t].pc = "claim" /\ Kept(t) /\ task'[t].pc = "stop_cid"
      BY <1>0, <3>4 DEF Kept, Owner, Fits
    <3>5. CASE task'[t].kind = "reload" /\ task'[t].pc = "sync" /\ task'[t].app = a
      BY <3>5 DEF Owner, Launchers, LaunchPcs
    <3>6. CASE "dirs" \in Faults /\ task[t].pc = "dirs" /\ Updated(a, task[t].how, row[a].err)
      <4>1. task[t].how \notin Transient
        BY <1>0, <3>6 DEF SafeUndo, Fits
      <4> QED  BY <1>6, <3>6, <4>1 DEF Updated, Wrote, SameRow, Present, Transient
    <3>7. "spawn" \notin Faults
      BY DEF NothingLost
    <3> QED  BY <1>p, <2>3, <3>2, <3>3, <3>4, <3>5, <3>6, <3>7 DEF LoopShape, SameRow, Updated, Wrote
  <2> QED  BY <2>1, <2>2, <2>3
<1>7. Watched'
  BY <1>0, <1>4, <1>5, <1>6 DEF Watched
<1> QED  BY <1>2, <1>3, <1>7

LEMMA RequestWatched ==
    ASSUME NothingLost, WatchedInv, NEW t \in Tasks, Request(t)
    PROVE  ColdBoot' /\ Watched' /\ SafeUndo'
<1>0. IInv /\ Roles /\ Early /\ ColdBoot /\ Watched /\ SafeUndo
  BY DEF WatchedInv, RInv
<1>1. PICK a \in Apps :
        /\ task[t] = Idle /\ UNCHANGED <<router, seen, queue>>
        /\ \A u \in Tasks : u # t => task'[u] = task[u]
        /\ \A b \in Apps : b # a => row'[b] = row[b]
        /\ Installs(t, a) \/ Asks(t, a) \/ Guards(t, a)
  BY <1>0, RequestSteps
<1>2. router \in {"up", "draining"}
  BY <1>0, <1>1 DEF Installs, Asks, Guards, ColdBoot
<1>3. ColdBoot'
  BY <1>0, <1>1, <1>2 DEF ColdBoot
<1>4. \A u \in Tasks, b \in Apps : Owner(u, b) => Owner(u, b)' /\ u # t
  BY <1>1 DEF Owner, Idle, Launchers
<1>5. ASSUME row'[a].status \in Transient
      PROVE  Owner(t, a)' \/ row[a].status \in Transient
  <2>1. CASE Installs(t, a)
    BY <2>1 DEF Installs, NothingLost, Owner, Launchers, LaunchPcs
  <2>2. CASE ~Installs(t, a)
    BY <1>1, <1>5, <2>2 DEF Asks, Guards, SameRow, Wrote, Transient
  <2> QED  BY <2>1, <2>2
<1>6. Watched'
  BY <1>0, <1>1, <1>4, <1>5 DEF Watched
<1>7. SafeUndo'
  <2> SUFFICES ASSUME "dirs" \in Faults, task'[t].kind = "rename"
               PROVE  task'[t].how \notin Transient
    BY <1>0, <1>1 DEF SafeUndo
  <2>1. ~Overlap
    BY DEF NothingLost
  <2>2. task'[t].how = row[a].status /\ router = "up" /\ Quiet(a)
    BY <1>1, <2>1 DEF Installs, Asks, Guards, Idle
  <2>3. queue[a].wait = "no" /\ \A u \in Tasks : ~Owner(u, a)
    BY <2>2 DEF Quiet, On, Owner, Launchers
  <2> QED  BY <1>0, <2>2, <2>3 DEF Watched
<1> QED  BY <1>3, <1>6, <1>7

\* The boot check queues every transient row it does not settle.
LEMMA CheckWatched ==
    ASSUME WatchedInv, CheckWrite
    PROVE  ColdBoot' /\ Watched' /\ SafeUndo'
<1>0. /\ IInv /\ ColdBoot /\ SafeUndo /\ router = "booting" /\ router' = "recovering"
      /\ UNCHANGED <<tokens, task>>
  BY DEF WatchedInv, RInv, CheckWrite
<1>1. PICK rebuild, lost \in SUBSET Apps :
        /\ row' = [a \in Apps |-> IF Present(a) THEN Recovered(a, lost) ELSE row[a]]
        /\ queue' = [a \in Apps |->
              IF Verdict(a, lost) = "recover"
              THEN [wait |-> IF Promoted(a) THEN "sync" ELSE "async",
                    build |-> seen[a].status = "building" \/ a \in rebuild]
              ELSE IF Corrupt(a, lost) THEN [wait |-> "async", build |-> TRUE]
              ELSE NotQueued]
  BY DEF CheckWrite
<1>2. ASSUME NEW a \in Apps, row'[a].status \in Transient
      PROVE  queue'[a].wait # "no"
  <2>1. row'[a] = IF Present(a) THEN Recovered(a, lost) ELSE row[a]
    BY <1>1
  <2>2. Present(a)
    BY <1>2, <2>1 DEF Present, Transient
  <2>3. row[a] \in Row /\ seen[a] = row[a] /\ ~seen[a].fresh
    BY <1>0 DEF IInv, TypeOK, ColdBoot
  <2>4. CASE Verdict(a, lost) = "recover"
    BY <1>1, <2>4
  <2>5. CASE Corrupt(a, lost) /\ Verdict(a, lost) # "recover"
    BY <1>1, <2>5
  <2>6. CASE Verdict(a, lost) # "recover" /\ ~Corrupt(a, lost)
    <3>1. Verdict(a, lost) # "in_flight"
      BY <2>3 DEF Verdict, InFlight
    <3>2. Verdict(a, lost) \notin {"heal", "lost"}
      <4>1. Verdict(a, lost) = "heal" => Recovered(a, lost).status = "running"
        BY <2>3 DEF Recovered, Corrupt, Row
      <4>2. Verdict(a, lost) = "lost" => Recovered(a, lost).status = "error"
        BY <2>3 DEF Recovered, Corrupt, Row
      <4> QED  BY <1>2, <2>1, <2>2, <4>1, <4>2 DEF Transient
    <3>3. Recovered(a, lost) = row[a]
      BY <2>6, <3>1, <3>2, Zenon DEF Recovered
    <3>4. seen[a].status \in Recoverable /\ seen[a].status # "running"
      BY <1>2, <2>1, <2>2, <2>3, <3>3 DEF Recoverable, Transient
    <3>5. Verdict(a, lost) # "keep"
      BY <2>3, <3>4 DEF Verdict, InFlight
    <3>6. Verdict(a, lost) \in {"keep", "heal", "lost", "in_flight", "recover"}
      BY DEF Verdict
    <3> QED  BY <2>6, <3>1, <3>2, <3>5, <3>6
  <2> QED  BY <2>4, <2>5, <2>6
<1> QED  BY <1>0, <1>2 DEF ColdBoot, Watched, SafeUndo

LEMMA WatchedNext == ASSUME NothingLost PROVE WatchedInv /\ [Next]_vars => WatchedInv'
<1> SUFFICES ASSUME WatchedInv, [Next]_vars
             PROVE  ColdBoot' /\ Watched' /\ SafeUndo'
  BY RolesInv DEF WatchedInv
<1>0. RInv /\ IInv /\ Roles /\ Early /\ NoRenames /\ ColdBoot /\ Watched /\ SafeUndo
  BY DEF WatchedInv, RInv
<1>1. CASE \E t \in Tasks, a \in Apps : RecoverNext(t, a)
  <2>1. PICK t \in Tasks, a \in Apps : RecoverNext(t, a)
    BY <1>1
  <2>2. /\ task[t] = Idle /\ UNCHANGED <<row, router, seen>>
        /\ router \in {"recovering", "up", "draining"}
        /\ \A b \in Apps : b # a => queue'[b] = queue[b]
        /\ \A u \in Tasks : u # t => task'[u] = task[u]
        /\ task'[t].kind = "recover" /\ task'[t].pc \in {"start", "restart"} /\ task'[t].app = a
    BY <1>0, <2>1, RecoverSteps
  <2>3. Owner(t, a)'
    BY <2>2 DEF Owner, Launchers, LaunchPcs
  <2>4. \A u \in Tasks, b \in Apps : Owner(u, b) => Owner(u, b)'
    BY <2>2 DEF Owner, Idle, Launchers
  <2>5. Watched'
    BY <1>0, <2>2, <2>3, <2>4 DEF Watched
  <2> QED  BY <1>0, <2>2, <2>5 DEF ColdBoot, SafeUndo
<1>2. CASE Exit
  <2>1. /\ router' = "down" /\ \A t \in Tasks : task'[t].kind = "idle"
    BY <1>2 DEF Exit, Idle
  <2>2. \A a \in Apps : ~row'[a].fresh
    BY <1>0, <1>2 DEF Exit, IInv, TypeOK, Row
  <2> QED  BY <2>1, <2>2 DEF ColdBoot, Watched, SafeUndo
<1>3. CASE Promote
  BY <1>0, <1>3 DEF Promote, ColdBoot, Watched, SafeUndo
<1>4. CASE CheckRead
  BY <1>0, <1>4 DEF CheckRead, ColdBoot, Watched, SafeUndo
<1>5. CASE Serve
  BY <1>0, <1>5 DEF Serve, ColdBoot, Watched, SafeUndo, Owner
<1>6. CASE UNCHANGED vars
  BY <1>0, <1>6 DEF vars, ColdBoot, Watched, SafeUndo, Owner
<1>7. \A t \in Tasks : ~LostShape(t)
  BY <1>0 DEF LostShape, LaunchFailureLost, NothingLost, NoRenames
<1> QED
  BY <1>0, <1>1, <1>2, <1>3, <1>4, <1>5, <1>6, <1>7, ShapeOfNext, AloneWatched, RequestWatched,
     CheckWatched

\* While the router serves, every app in 'building' or 'starting' has a thread,
\* a handler or the recovery queue to settle it: each path of run_app_image and
\* of the handlers around it ends in a final status, the reload handler keeps
\* the row it claimed until its thread has it, and check_app_status queues or
\* settles every transient row it reads, through every crash and restart.
THEOREM NobodyStranded == ASSUME NothingLost PROVE Spec => []NotStranded
<1>1. WatchedInv => NotStranded
  <2> SUFFICES ASSUME WatchedInv, router = "up", NEW a \in Apps, row[a].status \in Transient
               PROVE  queue[a].wait = "async" \/ \E t \in Tasks : Owner(t, a)
    BY DEF NotStranded
  <2>1. queue[a].wait \in {"no", "sync", "async"} /\ queue[a].wait # "sync"
    BY DEF WatchedInv, RInv, IInv, TypeOK, Queued, Early
  <2> QED  BY <2>1 DEF WatchedInv, Watched
<1> QED  BY <1>1, InitWatched, WatchedNext, PTL DEF Spec

-----------------------------------------------------------------------------
(* Promoted apps are relaunched before the router serves.                     *)

Marked(a) == row[a].err = "marker"

\* A rename that will start the app again counts from the moment it is admitted.
Launching(t, a) ==
    \/ Owner(t, a)
    \/ /\ task[t].app = a /\ task[t].kind = "rename"
       /\ task[t].how \in Transient \cup {"running"}

\* The marker of a promotion, from the boot check until its app is relaunched.
MarkerRows ==
    /\ \A a \in Apps : Marked(a) => row[a].status \in {"starting", "stopped"}
    /\ router = "setup" => \A a \in Apps : ~Marked(a)
    /\ router = "booting" =>
           \/ \A a \in Apps : ~Marked(a)
           \/ seen = row /\ \A t \in Tasks : task[t].kind = "idle"

\* What boot recovery owes a promoted app: a place in the synchronous queue or a
\* recovery at work, and nobody else.
MarkerRecovered(a) ==
    /\ row[a].status = "starting" =>
           queue[a].wait = "sync" \/ \E t \in Tasks : Owner(t, a) /\ task[t].kind = "recover"
    /\ \A t \in Tasks : Owner(t, a) => task[t].kind = "recover"

\* What is left of it while the router serves: apps stopped in between.
MarkerLeft(a) == row[a].status = "stopped" /\ \A t \in Tasks : ~Launching(t, a)

MarkerTasks ==
    /\ router = "recovering" => \A a \in Apps : Marked(a) => MarkerRecovered(a)
    /\ router = "up" => \A a \in Apps : Marked(a) => MarkerLeft(a)
    /\ router \in {"recovering", "up"} => \A a \in Apps : queue[a].wait = "async" => ~Marked(a)

MarkerInv == RInv /\ MarkerRows /\ MarkerTasks

\* A rename that is undone writes no other status over a promoted app.
UndoKeeps ==
    "dirs" \in Faults => \A t \in Tasks :
        task[t].kind = "rename" /\ task[t].pc = "dirs" /\ task[t].how # "stopped"
        => ~Marked(task[t].app)

LEMMA InitMarker == Init => MarkerInv
<1> SUFFICES ASSUME Init
             PROVE  MarkerRows /\ MarkerTasks
  BY InitRoles DEF MarkerInv
<1>1. \A a \in Apps : ~Marked(a)
  BY DEF Init, Marked, BlankRow
<1>2. router \in {"setup", "down"} /\ \A t \in Tasks : task[t].kind = "idle"
  BY DEF Init, Idle
<1> QED  BY <1>1, <1>2 DEF MarkerRows, MarkerTasks

\* A launch, a handler and its return from an await leave no marker on a row
\* they did not find it on, and settle no promoted app but by launching it.
LEMMA AloneMarker ==
    ASSUME UndoKeeps, MarkerInv, NEW t \in Tasks, Alone(t),
           LaunchShape(t) \/ HandlerShape(t) \/ LoopShape(t)
    PROVE  MarkerRows' /\ MarkerTasks'
<1>p. PICK a \in Apps : a = task[t].app
  BY DEF Alone
<1>0. /\ IInv /\ Roles /\ Early /\ MarkerRows /\ MarkerTasks
      /\ a = task[t].app /\ task[t].kind # "idle" /\ UNCHANGED <<router, seen, queue>>
      /\ \A u \in Tasks : u # t => task'[u] = task[u]
      /\ \A b \in Apps : b # a => row'[b] = row[b]
      /\ Fits(task[t].kind, task[t].pc)
  BY <1>p DEF MarkerInv, RInv, Alone, Roles
<1>1. /\ Idle.kind = "idle" /\ Idle.app = NoApp /\ a # NoApp
      /\ BlankRow("gone").status = "gone" /\ BlankRow("gone").err = "none"
  BY ConstantsAssumption DEF Idle, BlankRow
<1>2. /\ task'[t].kind \in {task[t].kind, "idle"} \/ (task[t].kind = "reload_req" /\ task'[t].kind = "reload")
      /\ task'[t].kind # "idle" => task'[t].app = a
      /\ task'[t].kind = "rename" => task[t].kind = "rename" /\ task'[t].how = task[t].how
  <2>1. CASE LaunchShape(t)
    BY <1>0, <1>1, <2>1 DEF LaunchShape, Kept
  <2>2. CASE HandlerShape(t)
    BY <1>0, <1>1, <2>2 DEF HandlerShape, Kept
  <2>3. CASE LoopShape(t)
    BY <1>0, <1>1, <2>3 DEF LoopShape, Kept, Fits
  <2> QED  BY <2>1, <2>2, <2>3
<1>4. \A u \in Tasks : u # t => \A b \in Apps : Owner(u, b)' <=> Owner(u, b)
  BY <1>0 DEF Owner
<1>5. \A b \in Apps : b # a => ~Owner(t, b) /\ ~Launching(t, b) /\ ~Owner(t, b)' /\ ~Launching(t, b)'
  BY <1>0, <1>2 DEF Owner, Launching, Launchers
<1>6. ASSUME row'[a].err = "marker"
      PROVE  /\ Marked(a) /\ row'[a].status \in {row[a].status, "starting", "stopped"}
             /\ row'[a].status # row[a].status => row'[a].status = "stopped" \/ LaunchShape(t)
             /\ LaunchShape(t) => Kept(t) /\ task'[t].pc \in LaunchPcs
  <2>0. Present(a) \/ row[a].err # "marker"
    BY <1>0 DEF MarkerRows, Marked, Present
  <2>1. CASE LaunchShape(t)
    <3>1. \/ Kept(t) /\ task'[t].pc \in LaunchPcs
          \/ ~Present(a) /\ SameRow(a)
      BY <1>p, <1>6, <2>1 DEF LaunchShape
    <3>2. /\ row[a].err = "marker"
          /\ row'[a].status \in {row[a].status, "starting"}
      BY <1>p, <1>6, <2>1 DEF LaunchShape, SameRow, Wrote
    <3> QED  BY <2>0, <2>1, <3>1, <3>2 DEF Marked, SameRow
  <2>2. CASE HandlerShape(t)
    <3>1. row[a].err = "marker" /\ row'[a].status \in {row[a].status, "stopped"}
      BY <1>p, <1>1, <1>6, <2>2 DEF HandlerShape, SameRow, Wrote
    <3>2. ~LaunchShape(t)
      BY <2>2 DEF HandlerShape, LaunchShape
    <3> QED  BY <3>1, <3>2 DEF Marked
  <2>3. CASE LoopShape(t)
    <3>1. ~LaunchShape(t)
      BY <2>3 DEF LoopShape, LaunchShape, LaunchPcs
    <3>2. CASE "dirs" \in Faults /\ task[t].pc = "dirs" /\ Updated(a, task[t].how, row[a].err)
      <4>1. row[a].err = "marker" /\ row'[a].status \in {row[a].status, task[t].how}
        BY <1>6, <3>2 DEF Updated, Wrote, SameRow
      <4>2. task[t].how = "stopped"
        BY <1>p, <1>0, <3>2, <4>1 DEF UndoKeeps, Fits, Marked
      <4> QED  BY <3>1, <4>1, <4>2 DEF Marked
    <3>3. CASE SameRow(a)
      BY <1>6, <3>1, <3>3 DEF SameRow, Marked
    <3>4. SameRow(a) \/ ("dirs" \in Faults /\ task[t].pc = "dirs" /\ Updated(a, task[t].how, row[a].err))
      BY <1>p, <1>6, <2>3 DEF LoopShape, Updated, Wrote
    <3> QED  BY <3>2, <3>3, <3>4
  <2> QED  BY <2>1, <2>2, <2>3
<1>7. MarkerRows'
  <2>1. \A b \in Apps : row'[b].err = "marker" => Marked(b) /\ row'[b].status \in {"starting", "stopped"}
    BY <1>0, <1>6 DEF MarkerRows, Marked
  <2> QED  BY <1>0, <2>1 DEF MarkerRows, Marked

<1>8. ASSUME router = "recovering", row'[a].err = "marker"
      PROVE  MarkerRecovered(a)'
  <2>1. task[t].kind \in {"deploy", "recover"}
    BY <1>0, <1>8 DEF Early
  <2>2. task[t].pc \in LaunchPcs
    BY <1>0, <2>1 DEF Fits, IInv, TypeOK, Task, Pcs
  <2>3. LaunchShape(t)
    BY <2>2 DEF HandlerShape, LoopShape, LaunchPcs
  <2>4. Owner(t, a) /\ MarkerRecovered(a)
    BY <1>0, <1>6, <1>8, <2>1, <2>2 DEF Owner, Launchers, MarkerTasks
  <2>5. task[t].kind = "recover"
    BY <2>4 DEF MarkerRecovered
  <2>6. Owner(t, a)' /\ task'[t].kind = "recover"
    BY <1>0, <1>6, <1>8, <2>3, <2>5 DEF Kept, Owner, Launchers
  <2>7. \A u \in Tasks : u # t => task'[u] = task[u] /\ (Owner(u, a)' <=> Owner(u, a))
    BY <1>0, <1>4
  <2> QED  BY <2>4, <2>6, <2>7 DEF MarkerRecovered
<1>9. ASSUME router = "up", row'[a].err = "marker"
      PROVE  MarkerLeft(a)'
  <2>1. row[a].status = "stopped" /\ \A u \in Tasks : ~Launching(u, a)
    BY <1>0, <1>6, <1>9 DEF MarkerTasks, MarkerLeft
  <2>2. ~LaunchShape(t)
    BY <1>0, <2>1 DEF LaunchShape, Launching, Owner, Fits
  <2>3. row'[a].status = "stopped"
    BY <1>6, <1>9, <2>1, <2>2
  <2>4. ~Launching(t, a)'
    <3>1. ~(task'[t].app = a /\ task'[t].kind = "rename" /\ task'[t].how \in Transient \cup {"running"})
      BY <1>0, <1>2, <2>1 DEF Launching
    <3>2. CASE HandlerShape(t)
      <4>1. task[t].kind # "reload_req"
        BY <1>0, <2>1, <3>2 DEF HandlerShape, Fits, Launching, Owner, IInv, TypeOK, Task, Pcs
      <4>2. task'[t].pc \notin LaunchPcs /\ task'[t].kind # "reload_req"
        BY <1>1, <3>2, <4>1 DEF HandlerShape, Kept, Idle, LaunchPcs
      <4> QED  BY <3>1, <4>2 DEF Launching, Owner
    <3>3. CASE LoopShape(t)
      <4>1. Claimable(a)
        BY <2>1 DEF Claimable, Present, Busy, Transient
      <4>2. task[t].pc # "spawn"
        BY <1>0, <2>1 DEF Launching, Owner, Fits
      <4>3. task[t].pc # "claim"
        BY <1>9, <1>p, <3>3, <4>1 DEF LoopShape, Wrote
      <4>4. CASE task[t].pc = "pull"
        <5>1. task'[t] = Idle \/ (task'[t].kind = "reload_req" /\ task'[t].pc = "claim")
          BY <1>0, <3>3, <4>4 DEF LoopShape, Kept, Fits
        <5> QED  BY <1>1, <5>1 DEF Launching, Owner, LaunchPcs, Launchers
      <4>5. CASE task[t].pc = "dirs"
        <5>1. task[t].kind = "rename" /\ task[t].how \notin Transient \cup {"running"}
          BY <1>0, <2>1, <4>5 DEF Launching, Fits
        <5>2. task'[t] = Idle
          BY <3>3, <4>5, <5>1 DEF LoopShape
        <5> QED  BY <1>1, <5>2 DEF Launching, Owner
      <4> QED  BY <3>3, <4>2, <4>3, <4>4, <4>5 DEF LoopShape
    <3> QED  BY <2>2, <3>2, <3>3
  <2>5. \A u \in Tasks : u # t => (Launching(u, a)' <=> Launching(u, a))
    BY <1>0 DEF Launching, Owner
  <2> QED  BY <2>1, <2>3, <2>4, <2>5 DEF MarkerLeft
<1>10. MarkerTasks'
  <2>1. ASSUME NEW b \in Apps, b # a
        PROVE  /\ MarkerRecovered(b) => MarkerRecovered(b)'
               /\ MarkerLeft(b) => MarkerLeft(b)'
    <3>1. row'[b] = row[b] /\ queue' = queue
      BY <1>0, <2>1
    <3>2. \A u \in Tasks : u # t => task'[u] = task[u]
      BY <1>0
    <3>3. ~Owner(t, b) /\ ~Launching(t, b) /\ ~Owner(t, b)' /\ ~Launching(t, b)'
      BY <1>5, <2>1
    <3>4. \A u \in Tasks : /\ Owner(u, b)' <=> Owner(u, b)
                           /\ Launching(u, b)' <=> Launching(u, b)
                           /\ Owner(u, b) => task'[u] = task[u]
      BY <3>2, <3>3 DEF Owner, Launching
    <3> QED  BY <3>1, <3>4 DEF MarkerRecovered, MarkerLeft
  <2>2. \A b \in Apps : row'[b].err = "marker" => Marked(b)
    BY <1>0, <1>6 DEF Marked
  <2>3. \A b \in Apps : Marked(b)' <=> row'[b].err = "marker"
    BY DEF Marked
  <2>4. router' = router /\ queue' = queue
    BY <1>0
  <2>5. router = "recovering" => \A b \in Apps : Marked(b)' => MarkerRecovered(b)'
    BY <1>0, <1>8, <2>1, <2>2, <2>3 DEF MarkerTasks
  <2>6. router = "up" => \A b \in Apps : Marked(b)' => MarkerLeft(b)'
    BY <1>0, <1>9, <2>1, <2>2, <2>3 DEF MarkerTasks
  <2>7. router \in {"recovering", "up"} => \A b \in Apps : queue[b].wait = "async" => ~Marked(b)'
    BY <1>0, <2>2, <2>3 DEF MarkerTasks
  <2> QED  BY <2>4, <2>5, <2>6, <2>7 DEF MarkerTasks
<1> QED  BY <1>7, <1>10

LEMMA RequestMarker ==
    ASSUME MarkerInv, NEW t \in Tasks, Request(t)
    PROVE  MarkerRows' /\ MarkerTasks'
<1>0. IInv /\ Roles /\ Early /\ MarkerRows /\ MarkerTasks
  BY DEF MarkerInv, RInv
<1>1. PICK a \in Apps :
        /\ task[t] = Idle /\ UNCHANGED <<router, seen, queue>>
        /\ \A u \in Tasks : u # t => task'[u] = task[u]
        /\ \A b \in Apps : b # a => row'[b] = row[b]
        /\ Installs(t, a) \/ Asks(t, a) \/ Guards(t, a)
  BY <1>0, RequestSteps
<1>2. /\ router \in {"setup", "up", "draining"} /\ router' = router
      /\ task[t].kind = "idle" /\ task[t].app = NoApp /\ a # NoApp
  BY <1>1, ConstantsAssumption DEF Installs, Asks, Guards, Idle
<1>3. ASSUME row'[a].err = "marker"
      PROVE  Marked(a) /\ row'[a].status = row[a].status
  BY <1>1, <1>3 DEF Installs, Asks, Guards, SameRow, Wrote, Marked
<1>5. MarkerRows'
  <2>1. \A b \in Apps : row'[b].err = "marker" => Marked(b) /\ row'[b].status = row[b].status
    BY <1>1, <1>3 DEF Marked
  <2> QED  BY <1>0, <1>2, <2>1 DEF MarkerRows, Marked
<1>6. MarkerTasks'
  <2>1. \A u \in Tasks : u # t => \A b \in Apps : Launching(u, b)' <=> Launching(u, b)
    BY <1>1 DEF Launching, Owner
  <2>2. ASSUME NEW b \in Apps, router = "up", row'[b].err = "marker"
        PROVE  MarkerLeft(b)'
    <3>1. /\ row'[b].status = row[b].status
          /\ row[b].status = "stopped" /\ \A u \in Tasks : ~Launching(u, b)
      BY <1>0, <1>1, <1>3, <2>2 DEF Marked, MarkerTasks, MarkerLeft
    <3>2. ~Launching(t, b)'
      <4>1. CASE b # a
        <5>1. task'[t].app = a \/ task' = task
          BY <1>1 DEF Installs, Asks, Guards
        <5> QED  BY <1>2, <4>1, <5>1 DEF Launching, Owner, Launchers
      <4>2. CASE b = a
        <5>1. ~Installs(t, a)
          BY <2>2, <4>2 DEF Installs
        <5>2. CASE Guards(t, a)
          BY <5>2 DEF Guards, Launching, Owner, Launchers
        <5>3. CASE Asks(t, a)
          <6>1. \/ task'[t].kind = "stop"
                \/ task'[t].kind = "reload_req" /\ task'[t].pc \in {"claim", "pull"}
                \/ task'[t].kind = "rename" /\ task'[t].pc = "stop_cid" /\ task'[t].how = "stopped"
            BY <2>2, <3>1, <4>2, <5>3 DEF Asks, Wrote
          <6> QED  BY <6>1 DEF Launching, Owner, Launchers, LaunchPcs, Transient
        <5> QED  BY <1>1, <5>1, <5>2, <5>3
      <4> QED  BY <4>1, <4>2
    <3> QED  BY <2>1, <3>1, <3>2 DEF MarkerLeft
  <2>3. \A b \in Apps : row'[b].err = "marker" => Marked(b)
    BY <1>1, <1>3 DEF Marked
  <2>4. queue' = queue
    BY <1>1
  <2> QED  BY <1>0, <1>2, <2>2, <2>3, <2>4 DEF MarkerTasks, Marked
<1> QED  BY <1>5, <1>6

\* The boot check puts every promoted app that is still starting on the
\* synchronous queue, and no other.
LEMMA CheckMarker ==
    ASSUME MarkerInv, CheckWrite
    PROVE  MarkerRows' /\ MarkerTasks'
<1>0. /\ IInv /\ MarkerRows /\ router = "booting" /\ router' = "recovering"
      /\ UNCHANGED <<tokens, task>>
  BY DEF MarkerInv, RInv, CheckWrite
<1>1. PICK rebuild, lost \in SUBSET Apps :
        /\ row' = [a \in Apps |-> IF Present(a) THEN Recovered(a, lost) ELSE row[a]]
        /\ queue' = [a \in Apps |->
              IF Verdict(a, lost) = "recover"
              THEN [wait |-> IF Promoted(a) THEN "sync" ELSE "async",
                    build |-> seen[a].status = "building" \/ a \in rebuild]
              ELSE IF Corrupt(a, lost) THEN [wait |-> "async", build |-> TRUE]
              ELSE NotQueued]
  BY DEF CheckWrite
<1>2. ASSUME NEW a \in Apps
      PROVE  /\ row'[a] = IF Present(a) THEN Recovered(a, lost) ELSE row[a]
             /\ row[a] \in Row
             /\ Recovered(a, lost).err \in {row[a].err, "other", "none"}
  <2>1. row'[a] = IF Present(a) THEN Recovered(a, lost) ELSE row[a]
    BY <1>1
  <2>2. row[a] \in Row
    BY <1>0 DEF IInv, TypeOK
  <2>3. Recovered(a, lost).err \in {row[a].err, "other", "none"}
    BY <2>2 DEF Recovered, Row
  <2> QED  BY <2>1, <2>2, <2>3
<1>3. \A a \in Apps : row'[a].err = "marker" => Marked(a)
  BY <1>2 DEF Marked
<1>4. ASSUME NEW a \in Apps, row'[a].err = "marker"
      PROVE  /\ row'[a].status = "stopped" \/ (row'[a].status = "starting" /\ queue'[a].wait = "sync")
             /\ queue'[a].wait # "async"
             /\ \A t \in Tasks : task[t].kind = "idle"
  <2>1. seen = row /\ (\A t \in Tasks : task[t].kind = "idle") /\ row[a].err = "marker"
    BY <1>0, <1>3, <1>4 DEF MarkerRows, Marked
  <2>2. row[a].status \in {"starting", "stopped"} /\ Present(a) /\ ~Corrupt(a, lost)
    BY <1>0, <2>1 DEF MarkerRows, Marked, Present, Corrupt
  <2>3. CASE row[a].status = "stopped"
    <3>1. Verdict(a, lost) = "keep"
      BY <2>1, <2>3 DEF Verdict, Recoverable, Transient
    <3>2. Recovered(a, lost) = row[a]
      BY <2>2, <3>1, Zenon DEF Recovered
    <3> QED  BY <1>1, <1>2, <2>1, <2>2, <2>3, <3>1, <3>2 DEF NotQueued
  <2>4. CASE row[a].status = "starting"
    <3>1. Promoted(a) /\ ~InFlight(a)
      BY <2>1, <2>4 DEF Promoted, InFlight
    <3>2. Verdict(a, lost) \in {"lost", "recover"}
      BY <2>1, <2>4, <3>1 DEF Verdict, Recoverable, Transient
    <3>3. Verdict(a, lost) # "lost"
      <4>1. Verdict(a, lost) = "lost" => Recovered(a, lost).err = "other"
        BY <1>2 DEF Recovered, Corrupt, Row
      <4> QED  BY <1>2, <1>4, <2>2, <4>1
    <3>4. Recovered(a, lost).status = "starting"
      BY <1>2, <3>2, <3>3 DEF Recovered, Corrupt, Row
    <3> QED  BY <1>1, <1>2, <2>1, <2>2, <3>1, <3>2, <3>3, <3>4
  <2> QED  BY <2>2, <2>3, <2>4
<1>5. MarkerRows'
  BY <1>0, <1>4 DEF MarkerRows, Marked
<1>6. \A t \in Tasks, a \in Apps : task[t].kind = "idle" => ~Owner(t, a)'
  BY <1>0 DEF Owner, Launchers
<1>7. \A a \in Apps : row'[a].err = "marker" => MarkerRecovered(a)'
  BY <1>4, <1>6 DEF MarkerRecovered
<1> QED  BY <1>0, <1>4, <1>5, <1>7 DEF MarkerTasks, Marked

LEMMA MarkerNext == MarkerInv /\ UndoKeeps /\ [Next]_vars => MarkerInv'
<1> SUFFICES ASSUME MarkerInv, UndoKeeps, [Next]_vars
             PROVE  MarkerRows' /\ MarkerTasks'
  BY RolesInv DEF MarkerInv
<1>0. RInv /\ IInv /\ Roles /\ Early /\ MarkerRows /\ MarkerTasks
  BY DEF MarkerInv, RInv
<1>1. CASE \E t \in Tasks, a \in Apps : RecoverNext(t, a)
  <2>1. PICK t \in Tasks, a \in Apps : RecoverNext(t, a)
    BY <1>1
  <2>2. /\ task[t] = Idle /\ UNCHANGED <<row, router, seen>>
        /\ \/ router = "recovering" /\ queue[a].wait = "sync"
           \/ router \in {"up", "draining"} /\ queue[a].wait = "async"
        /\ \A u \in Tasks : u # t => task'[u] = task[u]
        /\ task'[t].kind = "recover" /\ task'[t].pc \in {"start", "restart"} /\ task'[t].app = a
        /\ queue'[a].wait = "no" /\ \A b \in Apps : b # a => queue'[b] = queue[b]
    BY <1>0, <2>1, RecoverSteps
  <2>3. Owner(t, a)' /\ \A b \in Apps : b # a => ~Owner(t, b)' /\ ~Launching(t, b)'
    BY <2>2 DEF Owner, Launching, Launchers, LaunchPcs
  <2>4. \A u \in Tasks, b \in Apps : Owner(u, b) \/ Launching(u, b) => u # t
    BY <2>2 DEF Owner, Launching, Idle, Launchers
  <2>5. \A u \in Tasks : u # t => \A b \in Apps : /\ Owner(u, b)' <=> Owner(u, b)
                                                  /\ Launching(u, b)' <=> Launching(u, b)
    BY <2>2 DEF Owner, Launching
  <2>6. ASSUME router = "recovering", NEW b \in Apps, Marked(b)
        PROVE  MarkerRecovered(b)'
    <3>1. MarkerRecovered(b)
      BY <1>0, <2>6 DEF MarkerTasks
    <3>2. \A u \in Tasks : Owner(u, b)' => task'[u].kind = "recover"
      BY <2>2, <2>5, <3>1 DEF MarkerRecovered
    <3>3. row'[b].status = "starting" =>
              queue'[b].wait = "sync" \/ \E u \in Tasks : Owner(u, b)' /\ task'[u].kind = "recover"
      <4>1. CASE b = a
        BY <2>2, <2>3, <4>1
      <4>2. CASE b # a
        BY <2>2, <2>4, <2>5, <3>1, <4>2 DEF MarkerRecovered
      <4> QED  BY <4>1, <4>2
    <3> QED  BY <3>2, <3>3 DEF MarkerRecovered
  <2>7. ASSUME router = "up", NEW b \in Apps, Marked(b)
        PROVE  MarkerLeft(b)'
    <3>1. MarkerLeft(b) /\ b # a
      BY <1>0, <2>2, <2>7 DEF MarkerTasks
    <3> QED  BY <2>2, <2>3, <2>5, <3>1 DEF MarkerLeft
  <2>8. \A b \in Apps : Marked(b)' <=> Marked(b)
    BY <2>2 DEF Marked
  <2>9. MarkerTasks'
    BY <1>0, <2>2, <2>6, <2>7, <2>8 DEF MarkerTasks
  <2>10. MarkerRows'
    BY <1>0, <2>2, <2>8 DEF MarkerRows
  <2> QED  BY <2>9, <2>10
<1>2. CASE Exit
  <2>1. router' = "down" /\ \A t \in Tasks : task'[t].kind = "idle"
    BY <1>2 DEF Exit, Idle
  <2>2. \A a \in Apps : row'[a].status = row[a].status /\ row'[a].err = row[a].err
    BY <1>0, <1>2 DEF Exit, IInv, TypeOK, Row
  <2> QED  BY <1>0, <2>1, <2>2 DEF MarkerRows, MarkerTasks, Marked
<1>3. CASE Promote
  <2>1. router' = "draining" /\ task' = task
    BY <1>3 DEF Promote
  <2>2. \A a \in Apps : \/ row'[a] = row[a]
                        \/ row'[a].status = "starting"
    BY <1>0, <1>3 DEF Promote, IInv, TypeOK, Row
  <2> QED  BY <1>0, <2>1, <2>2 DEF MarkerRows, MarkerTasks, Marked
<1>4. CASE CheckRead
  <2>1. /\ router \in {"down", "setup"} /\ router' = "booting" /\ seen' = row
        /\ UNCHANGED <<row, task, queue>>
    BY <1>4 DEF CheckRead
  <2>2. router = "down" => \A t \in Tasks : task[t].kind = "idle"
    BY <1>0 DEF Early
  <2> QED  BY <1>0, <2>1, <2>2 DEF MarkerRows, MarkerTasks, Marked
<1>5. CASE Serve
  <2>1. /\ router = "recovering" /\ router' = "up"
        /\ \A a \in Apps : queue[a].wait # "sync"
        /\ \A t \in Tasks : task[t].kind # "recover"
        /\ UNCHANGED <<row, task, seen, queue>>
    BY <1>5 DEF Serve
  <2>2. \A t \in Tasks : task[t].kind \in {"idle", "deploy"}
    BY <1>0, <2>1 DEF Early
  <2>3. \A a \in Apps : Marked(a) => row[a].status = "stopped" /\ \A t \in Tasks : ~Owner(t, a)
    BY <1>0, <2>1 DEF MarkerRows, MarkerTasks, MarkerRecovered
  <2>4. \A t \in Tasks, a \in Apps : (Owner(t, a)' <=> Owner(t, a)) /\ (Launching(t, a)' <=> Owner(t, a))
    BY <2>1, <2>2 DEF Owner, Launching
  <2>5. \A a \in Apps : Marked(a)' => MarkerLeft(a)'
    BY <2>1, <2>3, <2>4 DEF Marked, MarkerLeft
  <2> QED  BY <1>0, <2>1, <2>5 DEF MarkerRows, MarkerTasks, Marked
<1>6. CASE UNCHANGED vars
  BY <1>0, <1>6
  DEF vars, MarkerRows, MarkerTasks, MarkerRecovered, MarkerLeft, Marked, Owner, Launching
<1>7. CASE \E t \in Tasks : LostShape(t)
  <2>1. PICK t \in Tasks : LostShape(t)
    BY <1>7
  <2>2. /\ \A u \in Tasks : u # t => task'[u] = task[u]
        /\ task'[t].kind = "idle" /\ task'[t].app \notin Apps
        /\ UNCHANGED <<row, router, seen>>
    BY <2>1, ConstantsAssumption DEF LostShape, Idle
  <2>3. \A u \in Tasks, b \in Apps : (Owner(u, b)' => Owner(u, b)) /\ (Launching(u, b)' => Launching(u, b))
    BY <2>2 DEF Owner, Launching
  <2>4. router = "recovering" => task[t].kind # "recover" /\ queue' = queue
    BY <2>1 DEF LostShape, LaunchFailureLost
  <2>5. \A b \in Apps : queue'[b].wait = "async" => queue[b].wait = "async"
    BY <2>1 DEF LostShape, NotQueued
  <2>6. ASSUME NEW b \in Apps, router = "recovering", MarkerRecovered(b)
        PROVE  MarkerRecovered(b)'
    <3>1. \A u \in Tasks : task[u].kind = "recover" => u # t /\ (Owner(u, b) => Owner(u, b)')
      BY <2>2, <2>4, <2>6 DEF Owner
    <3>2. \A u \in Tasks : Owner(u, b)' => task'[u] = task[u]
      BY <2>2 DEF Owner
    <3> QED  BY <2>2, <2>3, <2>4, <2>6, <3>1, <3>2 DEF MarkerRecovered
  <2>7. MarkerRows'
    BY <1>0, <2>2 DEF MarkerRows, Marked
  <2> QED  BY <1>0, <2>2, <2>3, <2>5, <2>6, <2>7 DEF MarkerTasks, MarkerLeft, Marked
<1> QED
  BY <1>0, <1>1, <1>2, <1>3, <1>4, <1>5, <1>6, <1>7, ShapeOfNext, AloneMarker, RequestMarker,
     CheckMarker

\* While a handler holds the event loop, no other takes it.
LEMMA LoopHeld ==
    ASSUME NEW t \in Tasks, ThreadStep(t) \/ LoopStep(t)
    PROVE  loop \in {NoTask, t} \/ loop' = loop \/ task[t].pc = "rename_mark"
<1>1. CASE LoopStep(t)
  BY <1>1 DEF LoopStep, Pull, Claim, SpawnReload, RenameUndo, RenameWrite, OnLoop
<1>2. CASE \/ StopAppProcess(t) \/ StopByName(t) \/ StopWrite(t) \/ GuardWrite(t)
           \/ RemoveRead(t) \/ RemoveDelete(t) \/ RenameMark(t)
  <2>1. CASE RenameMark(t)
    BY <2>1 DEF RenameMark, At
  <2> QED
    BY <1>2, <2>1
    DEF StopAppProcess, StopByName, StopWrite, GuardWrite, RemoveRead, RemoveDelete, Goto, Done
<1>3. CASE \/ ReloadSync(t) \/ StartAppProcess(t) \/ RestartAppProcess(t) \/ Build(t)
           \/ ReadImageRow(t) \/ MarkLaunch(t) \/ ClearStale(t) \/ RunContainer(t)
           \/ RunFails(t) \/ RecordContainer(t) \/ RecordFails(t) \/ WaitForReady(t)
           \/ LaunchDone(t) \/ LaunchFailed(t) \/ LaunchFailureLost(t)
  BY <1>3
  DEF ReloadSync, StartAppProcess, RestartAppProcess, Build, ReadImageRow, MarkLaunch,
      ClearStale, RunContainer, RunFails, RecordContainer, RecordFails, WaitForReady,
      LaunchDone, LaunchFailed, LaunchFailureLost, Goto, Done
<1> QED  BY <1>1, <1>2, <1>3 DEF ThreadStep

\* A rename up to its directories.
LEMMA RenameSteps ==
    ASSUME IInv, Roles, NEW t \in Tasks, ThreadStep(t) \/ LoopStep(t),
           task'[t].kind = "rename", task'[t].pc \in {"stop_cid", "rename_mark", "dirs"}
    PROVE  /\ task[t].kind = "rename" /\ task[t].pc \in {"stop_cid", "rename_mark"} /\ Kept(t)
           /\ \/ task'[t].pc # "dirs" /\ loop' = loop /\ row' = row
              \/ task'[t].pc = "dirs" /\ Update(task[t].app, "stopped", NoCid, row[task[t].app].err)
<1>1. ~LoopStep(t)
  <2> SUFFICES ASSUME LoopStep(t)
               PROVE  FALSE
    OBVIOUS
  <2>1. LoopShape(t) /\ Alone(t) /\ Fits(task[t].kind, task[t].pc)
    BY LoopSteps DEF Roles
  <2> QED  BY <2>1 DEF LoopShape, Kept, Fits, Idle
<1>a. ~LaunchFailureLost(t)
  BY LostSteps DEF LostShape, Idle
<1>2. task[t].pc \notin LaunchPcs
  <2> SUFFICES ASSUME task[t].pc \in LaunchPcs
               PROVE  FALSE
    OBVIOUS
  <2>1. LaunchShape(t)
    BY <1>1, <1>a, ThreadShape DEF HandlerShape
  <2> QED  BY <2>1 DEF LaunchShape, Idle, LaunchPcs
<1>3. HandlerShape(t)
  BY <1>1, <1>2, <1>a, ThreadShape DEF LaunchShape
<1>4. Kept(t) /\ task[t].kind = "rename" /\ Fits("rename", task[t].pc)
  BY <1>3 DEF HandlerShape, Kept, Idle, Roles
<1>5. \/ StopAppProcess(t) \/ StopByName(t) \/ StopWrite(t) \/ GuardWrite(t)
      \/ RemoveRead(t) \/ RemoveDelete(t) \/ RenameMark(t)
  BY <1>1, <1>2, <1>a
  DEF ThreadStep, ReloadSync, StartAppProcess, RestartAppProcess, Build, ReadImageRow,
      MarkLaunch, ClearStale, RunContainer, RunFails, RecordContainer, RecordFails,
      WaitForReady, LaunchDone, LaunchFailed, LaunchFailureLost, At, LaunchPcs
<1>6. StopAppProcess(t) \/ RenameMark(t)
  BY <1>4, <1>5 DEF StopByName, StopWrite, GuardWrite, RemoveRead, RemoveDelete, At, Fits
<1>7. CASE StopAppProcess(t)
  <2>1. task' = [task EXCEPT ![t].pc = "rename_mark"] /\ loop' = loop /\ row' = row
        /\ task[t].pc = "stop_cid"
    BY <1>4, <1>7 DEF StopAppProcess, AfterStop, Goto, At
  <2> QED  BY <1>4, <2>1, GotoFields
<1>8. CASE RenameMark(t)
  <2>1. task' = [task EXCEPT ![t].pc = "dirs"] /\ task[t].pc = "rename_mark"
        /\ Update(task[t].app, "stopped", NoCid, row[task[t].app].err)
    BY <1>8 DEF RenameMark, At
  <2> QED  BY <1>4, <2>1, GotoFields
<1> QED  BY <1>6, <1>7, <1>8

\* The storage guard.
LEMMA GuardSteps ==
    ASSUME Roles, NEW t \in Tasks, ThreadStep(t) \/ LoopStep(t), task[t].kind = "guard"
    PROVE  row' = row \/ Update(task[t].app, "error", NoCid, "other")
<1>1. Fits("guard", task[t].pc)
  BY DEF Roles
<1>2. task[t].pc \in {"stop_cid", "write"} \/ task[t].pc \notin Pcs
  BY <1>1 DEF Fits, Pcs, LaunchPcs, Launchers
<1>3. CASE task[t].pc = "stop_cid"
  BY <1>3 DEF ThreadStep, StopAppProcess, StopByName, StopWrite, GuardWrite, RemoveRead,
     RemoveDelete, RenameMark, ReloadSync, StartAppProcess, RestartAppProcess, Build,
     ReadImageRow, MarkLaunch, ClearStale, RunContainer, RunFails, RecordContainer, RecordFails,
     WaitForReady, LaunchDone, LaunchFailed, LaunchFailureLost, At,
     LoopStep, Pull, Claim, SpawnReload, RenameUndo, RenameWrite
<1>4. CASE task[t].pc = "write"
  BY <1>4 DEF ThreadStep, StopAppProcess, StopByName, StopWrite, GuardWrite, RemoveRead,
     RemoveDelete, RenameMark, ReloadSync, StartAppProcess, RestartAppProcess, Build,
     ReadImageRow, MarkLaunch, ClearStale, RunContainer, RunFails, RecordContainer, RecordFails,
     WaitForReady, LaunchDone, LaunchFailed, LaunchFailureLost, At,
     LoopStep, Pull, Claim, SpawnReload, RenameUndo, RenameWrite
<1>5. CASE task[t].pc \notin Pcs
  BY <1>5 DEF Pcs, LaunchPcs, ThreadStep, StopAppProcess, StopByName, StopWrite, GuardWrite,
     RemoveRead, RemoveDelete, RenameMark, ReloadSync, StartAppProcess, RestartAppProcess, Build,
     ReadImageRow, MarkLaunch, ClearStale, RunContainer, RunFails, RecordContainer, RecordFails,
     WaitForReady, LaunchDone, LaunchFailed, LaunchFailureLost, At,
     LoopStep, Pull, Claim, SpawnReload, RenameUndo, RenameWrite
<1> QED  BY <1>2, <1>3, <1>4, <1>5

\* A rename under way: it holds the loop until it has parked its app, and the
\* app is promoted by nobody meanwhile.
Held(t) ==
    LET r == row[task[t].app] IN
    /\ task[t].pc # "dirs" => loop = t
    /\ task[t].how # "stopped" => r.err # "marker"
    /\ task[t].pc = "dirs" => r.status = "stopped" \/ (r.status = "error" /\ r.cid = NoCid)

RenameHeld ==
    \A t \in Tasks :
        task[t].kind = "rename" /\ task[t].pc \in {"stop_cid", "rename_mark", "dirs"} => Held(t)

LEMMA HeldNext ==
    ASSUME ~Overlap, PatientInv, MarkerInv, RenameHeld, [Next]_vars
    PROVE  RenameHeld'
<1>0. /\ IInv /\ Roles /\ Early /\ OneWorker /\ MarkerRows /\ MarkerTasks
      /\ \A u \in Tasks : task[u].kind # "idle" => task[u].app \in Apps
  BY DEF PatientInv, RInv, MarkerInv, IInv, TasksInOrder, Roles, Fits
<1>a. ASSUME NEW u \in Tasks, task[u].kind = "rename",
             task[u].pc \in {"stop_cid", "rename_mark", "dirs"}, task'[u] = task[u],
             row'[task[u].app] = row[task[u].app], loop' = loop \/ loop # u
      PROVE  Held(u)'
  <2>1. Held(u)
    BY <1>a DEF RenameHeld
  <2> QED  BY <1>a, <2>1 DEF Held
<1>1. CASE \E t \in Tasks : ThreadStep(t) \/ LoopStep(t)
  <2>1. PICK t \in Tasks : ThreadStep(t) \/ LoopStep(t)
    BY <1>1
  <2>2. Alone(t) \/ LostShape(t)
    BY <1>0, <2>1, ThreadShape, LostSteps, LoopSteps
  <2>3. PICK a \in Apps : a = task[t].app
    BY <2>2 DEF Alone, LostShape
  <2>4. /\ \A u \in Tasks : u # t => task'[u] = task[u]
        /\ \A b \in Apps : b # a => row'[b] = row[b]
        /\ task[t].kind # "idle"
    BY <2>2, <2>3 DEF Alone, LostShape, Launchers
  <2>5. ASSUME task'[t].kind = "rename", task'[t].pc \in {"stop_cid", "rename_mark", "dirs"}
        PROVE  Held(t)'
    <3>1. /\ task[t].kind = "rename" /\ task[t].pc \in {"stop_cid", "rename_mark"} /\ Kept(t)
          /\ \/ task'[t].pc # "dirs" /\ loop' = loop /\ row' = row
             \/ task'[t].pc = "dirs" /\ Update(a, "stopped", NoCid, row[a].err)
      BY <1>0, <2>1, <2>3, <2>5, RenameSteps
    <3>2. Held(t) /\ task'[t].app = a /\ task'[t].how = task[t].how /\ Present(a)
      BY <1>0, <2>3, <3>1 DEF RenameHeld, Kept, OneWorker, Works
    <3>3. CASE task'[t].pc # "dirs"
      BY <2>3, <3>1, <3>2, <3>3 DEF Held
    <3>4. CASE task'[t].pc = "dirs"
      <4>1. row'[a].status = "stopped" /\ row'[a].err = row[a].err
        BY <1>0, <3>1, <3>2, <3>4, UpdateFields DEF Wrote
      <4> QED  BY <2>3, <3>2, <3>4, <4>1 DEF Held
    <3> QED  BY <3>3, <3>4
  <2>6. ASSUME NEW u \in Tasks, u # t, task[u].kind = "rename",
               task[u].pc \in {"stop_cid", "rename_mark", "dirs"}
        PROVE  Held(u)'
    <3>1. Held(u) /\ task'[u] = task[u] /\ task[u].app \in Apps /\ Present(task[u].app)
      BY <1>0, <2>4, <2>6 DEF RenameHeld, OneWorker, Works
    <3>2. loop = u => loop' = loop
      <4>1. task[t].pc = "rename_mark" => loop = t
        <5>1. task[t].pc = "rename_mark" => task[t].kind = "rename"
          BY <1>0 DEF Roles, Fits
        <5> QED  BY <5>1 DEF RenameHeld, Held
      <4> QED  BY <2>1, <2>6, <4>1, LoopHeld, ConstantsAssumption
    <3>3. CASE task[u].app # a
      BY <1>a, <2>4, <2>6, <3>1, <3>2, <3>3
    <3>4. CASE task[u].app = a
      <4>1. task[t].kind = "guard"
        BY <1>0, <2>3, <2>4, <2>6, <3>4 DEF OneWorker, Works
      <4>2. row' = row \/ Update(a, "error", NoCid, "other")
        BY <1>0, <2>1, <2>3, <4>1, GuardSteps
      <4>3. CASE row' = row
        BY <1>a, <2>6, <3>1, <3>2, <4>3
      <4>4. CASE Update(a, "error", NoCid, "other")
        <5>1. row'[a].status = "error" /\ row'[a].cid = NoCid /\ row'[a].err = "other"
          BY <1>0, <3>1, <3>4, <4>4, UpdateFields DEF Wrote
        <5> QED  BY <3>1, <3>2, <3>4, <5>1 DEF Held
      <4> QED  BY <4>2, <4>3, <4>4
    <3> QED  BY <3>3, <3>4
  <2> QED  BY <2>4, <2>5, <2>6 DEF RenameHeld
<1>2. CASE \E t \in Tasks : Request(t)
  <2>1. PICK t \in Tasks : Request(t)
    BY <1>2
  <2>2. PICK a \in Apps :
          /\ task[t] = Idle /\ UNCHANGED <<router, seen, queue>>
          /\ \A u \in Tasks : u # t => task'[u] = task[u]
          /\ \A b \in Apps : b # a => row'[b] = row[b]
          /\ Installs(t, a) \/ Asks(t, a) \/ Guards(t, a)
    BY <1>0, <2>1, RequestSteps
  <2>3. /\ loop = NoTask \/ loop' = loop
        /\ task'[t].kind = "rename" => loop' = t
    <3>1. PICK b \in Apps :
            \/ \E n \in Names : AddApp(t, b, n) \/ RenameRead(t, b, n)
            \/ StopApp(t, b) \/ RemoveApp(t, b) \/ StorageGuard(t, b)
            \/ \E how \in {"reload", "update", "oauth"} : ReloadRead(t, b, how)
      BY <2>1 DEF Request
    <3>2. loop = NoTask \/ loop' = loop
      BY <3>1 DEF AddApp, RenameRead, StopApp, RemoveApp, StorageGuard, ReloadRead, Admit
    <3>3. ASSUME NEW kind, NEW pc, NEW how, NEW to,
                 Handle(t, kind, pc, b, how, to) \/ Spawn(t, kind, pc, b), kind # "rename"
          PROVE  task'[t].kind # "rename"
      <4>1. Handle(t, kind, pc, b, how, to) => task'[t].kind = kind
        BY <1>0 DEF Handle, IInv, TypeOK
      <4>2. Spawn(t, kind, pc, b) => task'[t].kind = kind
        BY <1>0 DEF Spawn, Idle, IInv, TypeOK
      <4> QED  BY <3>3, <4>1, <4>2
    <3>4. task' = task => task'[t].kind # "rename"
      BY <2>2 DEF Idle
    <3>5. (\E n \in Names : RenameRead(t, b, n)) => loop' = t
      BY DEF RenameRead
    <3>6. CASE \E n \in Names : AddApp(t, b, n)
      BY <3>2, <3>3, <3>4, <3>6 DEF AddApp
    <3>7. CASE StopApp(t, b) \/ RemoveApp(t, b) \/ StorageGuard(t, b)
      BY <3>2, <3>3, <3>4, <3>7 DEF StopApp, RemoveApp, StorageGuard
    <3>8. CASE \E how \in {"reload", "update", "oauth"} : ReloadRead(t, b, how)
      BY <3>2, <3>3, <3>8 DEF ReloadRead
    <3> QED  BY <3>1, <3>2, <3>5, <3>6, <3>7, <3>8
  <2>4. ASSUME task'[t].kind = "rename"
        PROVE  Held(t)'
    <3>1. /\ router = "up" /\ SameRow(a) /\ task'[t].app = a /\ task'[t].pc = "stop_cid"
          /\ task'[t].how = row[a].status
      BY <2>2, <2>4 DEF Installs, Asks, Guards, Idle
    <3>2. row[a].err = "marker" => row[a].status = "stopped"
      BY <1>0, <3>1 DEF MarkerTasks, MarkerLeft, Marked
    <3> QED  BY <2>3, <2>4, <3>1, <3>2 DEF Held, SameRow
  <2>5. ASSUME NEW u \in Tasks, u # t, task[u].kind = "rename",
               task[u].pc \in {"stop_cid", "rename_mark", "dirs"}
        PROVE  Held(u)'
    <3>1. /\ task'[u] = task[u] /\ task[u].app \in Apps /\ Present(task[u].app)
          /\ loop' = loop \/ loop # u
      BY <1>0, <2>2, <2>3, <2>5, ConstantsAssumption DEF OneWorker, Works
    <3>2. CASE task[u].app # a
      BY <1>a, <2>2, <2>5, <3>1, <3>2
    <3>3. CASE task[u].app = a
      <4>1. ~Installs(t, a)
        BY <3>1, <3>3 DEF Installs, Present
      <4>2. ~Asks(t, a)
        BY <2>5, <3>3 DEF Asks, Quiet, On
      <4>3. SameRow(a) /\ Held(u)
        BY <2>2, <2>5, <4>1, <4>2 DEF Guards, RenameHeld
      <4> QED  BY <3>1, <3>3, <4>3 DEF Held, SameRow
    <3> QED  BY <3>2, <3>3
  <2> QED  BY <2>2, <2>4, <2>5 DEF RenameHeld
<1>3. CASE \E t \in Tasks, a \in Apps : RecoverNext(t, a)
  <2>1. PICK t \in Tasks, a \in Apps : RecoverNext(t, a)
    BY <1>3
  <2>2. /\ row' = row /\ loop' = loop /\ task'[t].kind = "recover"
        /\ \A u \in Tasks : u # t => task'[u] = task[u]
    BY <1>0, <2>1, RecoverSteps DEF RecoverNext
  <2> QED  BY <1>a, <2>2 DEF RenameHeld
<1>4. CASE Promote
  <2>1. task' = task /\ loop = NoTask /\ loop' = loop
    BY <1>4 DEF Promote
  <2>2. ASSUME NEW u \in Tasks, task[u].kind = "rename",
               task[u].pc \in {"stop_cid", "rename_mark", "dirs"}
        PROVE  Held(u)'
    <3>1. Held(u) /\ task[u].pc = "dirs" /\ task[u].app \in Apps
      BY <1>0, <2>1, <2>2, ConstantsAssumption DEF RenameHeld, Held
    <3>2. row'[task[u].app] = row[task[u].app]
      BY <1>4, <3>1 DEF Promote, Held
    <3> QED  BY <1>a, <2>1, <2>2, <3>2
  <2> QED  BY <2>1, <2>2 DEF RenameHeld
<1>5. CASE Exit
  BY <1>5 DEF Exit, RenameHeld, Idle
<1>6. CASE CheckRead \/ Serve \/ UNCHANGED vars
  <2>1. UNCHANGED <<row, task, loop>>
    BY <1>6 DEF CheckRead, Serve, vars
  <2> QED  BY <2>1 DEF RenameHeld, Held
<1>7. CASE CheckWrite
  BY <1>0, <1>7 DEF CheckWrite, Early, RenameHeld
<1> QED  BY <1>1, <1>2, <1>3, <1>4, <1>5, <1>6, <1>7 DEF Next

\* Directories are renamed, or nothing is, or the owner waits for each answer:
\* otherwise a rename may write an old status back over a promoted app.
NoLateUndo == "dirs" \in Faults /\ "rename" \in Requests => ~Overlap

\* No app that set_primary_domain handed over is still waiting for its relaunch
\* when the router serves: the marker outlives the restart and every write on
\* the way (_mark_app_starting keeps it), check_app_status puts its app on the
\* synchronous half of recovery, and only the end of a launch takes it away.
THEOREM PromotedFirst == ASSUME NoLateUndo PROVE Spec => []PromotedBeforeServing
<1>1. MarkerInv => PromotedBeforeServing
  BY DEF MarkerInv, MarkerTasks, MarkerLeft, Marked, PromotedBeforeServing
<1>2. CASE ~Overlap
  <2> DEFINE Inv == PatientInv /\ MarkerInv /\ RenameHeld
  <2>1. Init => Inv
    <3>1. Init => RenameHeld
      BY DEF Init, RenameHeld, Idle
    <3> QED  BY <3>1, InitPatient, InitMarker
  <2>2. Inv /\ [Next]_vars => Inv'
    <3>1. RenameHeld => UndoKeeps
      BY DEF RenameHeld, Held, UndoKeeps, Marked
    <3> QED  BY <1>2, <3>1, PatientNext, MarkerNext, HeldNext
  <2>3. Inv => PromotedBeforeServing
    BY <1>1
  <2> QED  BY <2>1, <2>2, <2>3, PTL DEF Spec
<1>3. CASE "dirs" \notin Faults \/ "rename" \notin Requests
  <2>1. MarkerInv /\ [Next]_vars => MarkerInv'
    <3>1. MarkerInv => UndoKeeps
      BY <1>3 DEF MarkerInv, RInv, NoRenames, UndoKeeps
    <3> QED  BY <3>1, MarkerNext
  <2> QED  BY <1>1, <2>1, InitMarker, PTL DEF Spec
<1> QED  BY <1>2, <1>3 DEF NoLateUndo

-----------------------------------------------------------------------------
(* The table and podman agree, if the owner waits and podman can be trusted.  *)

\* No container of the app is up, or none but the one with this id.
Bare(b) == \A n \in Names : podman[n].app # b
Named(b, cid) == \A n \in Names : podman[n].app = b => podman[n].cid = cid

\* A container has the name of its app's row, and every row a name of its own.
Placed ==
    /\ \A n \in Names, b \in Apps : podman[n].app = b => Present(b) /\ row[b].name = n
    /\ \A b, c \in Apps : Present(b) /\ Present(c) /\ row[b].name = row[c].name => b = c
    /\ \A b \in Apps : Present(b) => row[b].name \in Names

\* An app nothing is in flight for.  A rename that is undone says 'running' of
\* an app it has stopped.
AtRest(b) ==
    /\ Named(b, row[b].cid)
    /\ row[b].status = "stopped" => Bare(b)
    /\ row[b].status = "running" => "dirs" \in Faults \/ Live(row[b].cid)

\* What a dead process leaves of an app that the next boot will not look at.
Left(b) == row[b].status \notin Recoverable => AtRest(b)

\* What a handler or thread can rely on at each point of its program.
AtWork(t) ==
    LET b == task[t].app
        r == row[b]
        pc == task[t].pc
    IN  /\ pc \in {"pull", "claim"} \/ (pc = "stop_cid" /\ task[t].kind # "reload_req") =>
               AtRest(b) /\ task[t].cid = r.cid
        /\ pc = "read" => AtRest(b)
        /\ task[t].kind = "stop" => task[t].name = r.name
        /\ pc \in {"stop_name", "write", "delete", "rename_mark", "dirs", "spawn", "run", "fail"} =>
               Bare(b)
        /\ pc = "dirs" => r.status = "stopped"
        /\ pc \in {"rename_mark", "dirs"} \/ (pc = "stop_cid" /\ task[t].kind = "rename") =>
               task[t].to \in Names
        /\ pc = "stop_cid" /\ task[t].kind = "reload_req" =>
               Named(b, task[t].cid) /\ r.status \in Transient
        /\ pc = "spawn" => r.status \in Transient
        /\ pc \in {"sync", "start", "restart", "build", "image", "mark"} =>
               r.status \in Transient \/ (r.status # "running" /\ Bare(b))
        /\ pc \in {"mark", "clear", "run", "record"} => task[t].name = r.name
        /\ pc \in {"clear", "run", "record", "wait", "ready", "unready"} => r.status = "starting"
        /\ pc = "record" => Named(b, task[t].cid) /\ Live(task[t].cid)
        /\ pc \in {"wait", "ready", "unready"} => Named(b, r.cid) /\ Live(r.cid)
        /\ pc # "fail_corrupt" /\ task[t].kind # "guard"
        /\ task[t].kind # "remove" => r.status # "removing"

\* The rows of first-boot setup are all this process's own, and the boot check
\* knows them from the others.
FirstRows ==
    /\ router = "setup" => \A b \in Apps :
           /\ Present(b) => row[b].fresh
           /\ row[b].status = "building" => row[b].cid = NoCid
    /\ router = "down" => \A b \in Apps : ~row[b].fresh
    /\ router = "booting" => \A b \in Apps :
           /\ seen[b].fresh = row[b].fresh
           /\ ~row[b].fresh => seen[b] = row[b] /\ \A t \in Tasks : Works(t) => task[t].app # b
           /\ row[b].fresh /\ seen[b].status = "building" => seen[b].cid = NoCid

\* The app waits for the boot check.
Cold(b) == router = "down" \/ (router = "booting" /\ ~row[b].fresh)

NoTaskOf(b) == \A t \in Tasks : task[t].kind # "idle" => task[t].app # b

Containers ==
    /\ Placed /\ FirstRows
    /\ \A t \in Tasks : task[t].kind # "idle" => AtWork(t)
    /\ \A b \in Apps :
           /\ queue[b].wait # "no" => row[b].status = "starting"
           /\ IF Cold(b) THEN Left(b) ELSE queue[b].wait = "no" /\ NoTaskOf(b) => AtRest(b)

\* The owner waits for each answer, podman does what it is told, the database
\* takes every write, a build that begins succeeds and the disk has room; but
\* the machine crashes, launches fail, apps never answer, pulls fail, threads
\* do not start and renames are undone.
Orderly == ~Overlap /\ Faults \subseteq {"crash", "launch", "unready", "pull", "spawn", "dirs"}

\* There is nothing at first.
LEMMA InitContainers == Init => Containers
<1> SUFFICES ASSUME Init
             PROVE  Containers
  OBVIOUS
<1>1. /\ \A t \in Tasks : task[t].kind = "idle"
      /\ \A b \in Apps : queue[b].wait = "no" /\ row[b].status = "new" /\ ~row[b].fresh
      /\ \A n \in Names, b \in Apps : podman[n].app # b
      /\ router \in {"setup", "down"}
  BY ConstantsAssumption DEF Init, Idle, NotQueued, BlankRow, Free
<1> QED
  BY <1>1 DEF Containers, Placed, FirstRows, Left, AtRest, Named, Bare, Present

\* A container is its app's: by its id, and by the name it runs under.
LEMMA PodmanTyped ==
    ASSUME IInv, NEW n \in Names
    PROVE  \/ podman[n] = Free /\ podman[n].app = NoApp /\ podman[n].cid = NoCid
           \/ podman[n].app \in Apps /\ podman[n].cid \in Cids
              /\ podman[n] = [cid |-> podman[n].cid, app |-> podman[n].app]
  BY DEF IInv, TypeOK, Container, Free

\* A container has an id.
LEMMA BareNoCid ==
    ASSUME IInv, NEW b \in Apps, Named(b, NoCid)
    PROVE  Bare(b)
  BY PodmanTyped, ConstantsAssumption DEF Named, Bare

\* No container, no wrong one.
LEMMA BareNamed ==
    ASSUME NEW b, Bare(b), NEW cid
    PROVE  Named(b, cid)
  BY DEF Bare, Named

\* The step touches containers of app a only.
OnlyOf(a) ==
    \A n \in Names :
        podman'[n] = podman[n] \/ (podman[n].app \in {a, NoApp} /\ podman'[n].app \in {a, NoApp})

\* It leaves the containers of the others where they are.
LEMMA OthersKeep ==
    ASSUME IInv, NEW a \in Apps, NEW b \in Apps, b # a, OnlyOf(a)
    PROVE  /\ Bare(b) => Bare(b)'
           /\ \A c : Named(b, c) => Named(b, c)'
           /\ \A n \in Names : podman'[n].app = b => podman[n].app = b /\ podman'[n] = podman[n]
           /\ \A n \in Names : podman[n].app = b => podman'[n] = podman[n]
<1>1. b # NoApp
  BY ConstantsAssumption
<1>2. \A n \in Names : podman'[n].app = b => podman[n].app = b /\ podman'[n] = podman[n]
  BY <1>1 DEF OnlyOf
<1>3. \A n \in Names : podman[n].app = b => podman'[n] = podman[n]
  BY <1>1 DEF OnlyOf
<1> QED  BY <1>2, <1>3 DEF Bare, Named

\* And alive.
LEMMA OthersLive ==
    ASSUME IInv, IdsNeverCross, NEW a \in Apps, NEW b \in Apps, b # a, OnlyOf(a),
           NEW c, Holds(c, b), Live(c)
    PROVE  Live(c)'
<1>1. PICK n \in Names : podman[n].cid = c /\ c # NoCid
  BY DEF Live
<1>2. podman[n].app \in Apps /\ c \in Cids /\ podman[n] = [cid |-> c, app |-> podman[n].app]
  BY <1>1, PodmanTyped
<1>3. Holds(c, podman[n].app)
  BY <1>2 DEF Holds
<1>4. podman[n].app = b
  BY <1>2, <1>3 DEF IdsNeverCross
<1>5. podman'[n] = podman[n]
  BY <1>4, OthersKeep
<1> QED  BY <1>1, <1>5 DEF Live

\* So the others stay as they were, at rest or at work.
LEMMA OthersRest ==
    ASSUME IInv, IdsNeverCross, NEW a \in Apps, NEW b \in Apps, b # a, OnlyOf(a), row'[b] = row[b]
    PROVE  (AtRest(b) => AtRest(b)') /\ (Left(b) => Left(b)')
<1>0. PICK c : c = row[b].cid
  OBVIOUS
<1>1. Holds(c, b) /\ row'[b].cid = c
  BY <1>0 DEF Holds
<1>2. /\ Bare(b) => Bare(b)'
      /\ Named(b, c) => Named(b, c)'
      /\ Live(c) => Live(c)'
  BY <1>1, OthersKeep, OthersLive
<1>3. AtRest(b) => AtRest(b)'
  BY <1>0, <1>1, <1>2 DEF AtRest, Named, Live
<1> QED  BY <1>3 DEF Left

\* And what their handlers and threads rely on stays true.
LEMMA OthersWork ==
    ASSUME IInv, IdsNeverCross, NEW a \in Apps, NEW u \in Tasks, OnlyOf(a),
           task'[u] = task[u], task[u].app \in Apps, task[u].app # a,
           row'[task[u].app] = row[task[u].app], AtWork(u)
    PROVE  AtWork(u)'
<1>0. PICK b \in Apps : b = task[u].app
  OBVIOUS
<1>1. row'[b] = row[b] /\ task'[u].app = b
  BY <1>0
<1>2. (AtRest(b) => AtRest(b)') /\ (Bare(b) => Bare(b)')
  BY <1>0, <1>1, OthersRest, OthersKeep
<1>3. PICK c, d : c = row[b].cid /\ d = task[u].cid
  OBVIOUS
<1>4. Holds(c, b) /\ Holds(d, b) /\ row'[b].cid = c /\ task'[u].cid = d
  BY <1>0, <1>1, <1>3 DEF Holds
<1>5. /\ Named(b, c) => Named(b, c)'
      /\ Live(c) => Live(c)'
      /\ Named(b, d) => Named(b, d)'
      /\ Live(d) => Live(d)'
  BY <1>0, <1>4, OthersKeep, OthersLive
<1> QED  BY <1>0, <1>1, <1>2, <1>3, <1>4, <1>5 DEF AtWork, Named, Live

\* A step for one app, by the only task at work on it, keeps the invariant if
\* it does for that app.
LEMMA AppStep ==
    ASSUME IInv, Roles, IdsNeverCross, Containers, NEW t \in Tasks, NEW a \in Apps,
           \A u \in Tasks : u # t => task'[u] = task[u],
           \A u \in Tasks : u # t /\ task[u].kind # "idle" => task[u].app # a,
           task[t].kind # "idle" => task[t].app = a,
           \A b \in Apps : b # a => row'[b] = row[b] /\ queue'[b] = queue[b],
           queue'[a].wait = "no", UNCHANGED <<router, seen>>, router # "down",
           router = "setup" => /\ row'[a].fresh
                               /\ row'[a].status = "building" => row'[a].cid = NoCid,
           router = "booting" => row[a].fresh /\ row'[a].fresh = row[a].fresh,
           OnlyOf(a),
           \A n \in Names : podman'[n].app = a => row'[a].status \notin {"new", "gone"} /\ row'[a].name = n,
           row'[a].status \notin {"new", "gone"} =>
               \/ Present(a) /\ row'[a].name = row[a].name
               \/ NameFree(row'[a].name) /\ row'[a].name \in Names,
           task'[t].kind = "idle" => AtRest(a)',
           task'[t].kind # "idle" => task'[t].app = a /\ AtWork(t)'
    PROVE  Containers'
<1>0. Placed /\ FirstRows
  BY DEF Containers
<1>1. Placed'
  <2>1. ASSUME NEW n \in Names, NEW b \in Apps, podman'[n].app = b
        PROVE  row'[b].status \notin {"new", "gone"} /\ row'[b].name = n
    <3>1. CASE b = a
      BY <2>1, <3>1
    <3>2. CASE b # a
      BY <1>0, <2>1, <3>2, OthersKeep DEF Placed, Present
    <3> QED  BY <3>1, <3>2
  <2>2. ASSUME NEW b \in Apps, NEW c \in Apps, row'[b].status \notin {"new", "gone"},
               row'[c].status \notin {"new", "gone"}, row'[b].name = row'[c].name
        PROVE  b = c
    BY <1>0, <2>2 DEF Placed, Present, NameFree
  <2>3. \A b \in Apps : row'[b].status \notin {"new", "gone"} => row'[b].name \in Names
    BY <1>0 DEF Placed, Present
  <2> QED  BY <2>1, <2>2, <2>3 DEF Placed, Present
<1>2. FirstRows'
  <2>1. router = "booting" => \A u \in Tasks : Works(u)' => u = t \/ (Works(u) /\ task'[u].app = task[u].app)
    BY DEF Works
  <2>2. Works(t)' => task'[t].app = a
    BY DEF Works
  <2>3. router = "booting" => \A b \in Apps : ~row'[b].fresh =>
            b # a /\ \A u \in Tasks : Works(u)' => task'[u].app # b
    BY <1>0, <2>1, <2>2 DEF FirstRows
  <2>4. router = "booting" => \A b \in Apps :
           /\ seen'[b].fresh = row'[b].fresh
           /\ ~row'[b].fresh => seen'[b] = row'[b] /\ \A u \in Tasks : Works(u)' => task'[u].app # b
           /\ row'[b].fresh /\ seen'[b].status = "building" => seen'[b].cid = NoCid
    BY <1>0, <2>3 DEF FirstRows
  <2>5. router = "setup" => \A b \in Apps :
           /\ row'[b].status \notin {"new", "gone"} => row'[b].fresh
           /\ row'[b].status = "building" => row'[b].cid = NoCid
    BY <1>0 DEF FirstRows, Present
  <2> QED  BY <2>4, <2>5 DEF FirstRows, Present
<1>3. ASSUME NEW u \in Tasks, task'[u].kind # "idle"
      PROVE  AtWork(u)'
  <2>1. CASE u = t
    BY <1>3, <2>1
  <2>2. CASE u # t
    <3>1. task[u].kind # "idle" /\ task[u].app # a /\ AtWork(u)
      BY <1>3, <2>2 DEF Containers
    <3>2. task[u].app \in Apps
      BY <3>1 DEF Roles, Fits, IInv, TasksInOrder
    <3> QED  BY <2>2, <3>1, <3>2, OthersWork
  <2> QED  BY <2>1, <2>2
<1>4. ASSUME NEW b \in Apps
      PROVE  /\ queue'[b].wait # "no" => row'[b].status = "starting"
             /\ IF Cold(b)' THEN Left(b)' ELSE queue'[b].wait = "no" /\ NoTaskOf(b)' => AtRest(b)'
  <2>1. CASE b = a
    <3>1. ~Cold(b)'
      BY <2>1 DEF Cold
    <3>2. NoTaskOf(b)' => task'[t].kind = "idle"
      BY <2>1 DEF NoTaskOf
    <3> QED  BY <2>1, <3>1, <3>2
  <2>2. CASE b # a
    <3>1. Cold(b)' = Cold(b)
      BY <2>2 DEF Cold
    <3>2. NoTaskOf(b)' => NoTaskOf(b)
      BY <2>2 DEF NoTaskOf
    <3>3. (AtRest(b) => AtRest(b)') /\ (Left(b) => Left(b)')
      BY <2>2, OthersRest
    <3> QED  BY <2>2, <3>1, <3>2, <3>3 DEF Containers
  <2> QED  BY <2>1, <2>2
<1> QED  BY <1>1, <1>2, <1>3, <1>4 DEF Containers

\* What is known of a task in flight.
LEMMA WorkFacts ==
    ASSUME PatientInv, Containers, NEW t \in Tasks, task[t].kind # "idle"
    PROVE  /\ IInv /\ Roles /\ task[t].app \in Apps /\ Present(task[t].app)
           /\ AtWork(t) /\ Works(t) /\ Fits(task[t].kind, task[t].pc)
           /\ task[t] \in Task /\ row[task[t].app] \in Row
           /\ queue[task[t].app].wait = "no"
           /\ \A u \in Tasks : u # t /\ task[u].kind # "idle" => task[u].app # task[t].app
<1>1. IInv /\ Roles /\ OneWorker /\ Fits(task[t].kind, task[t].pc)
  BY DEF PatientInv, RInv, Roles
<1>2. \A u \in Tasks : task[u].kind # "idle" => AtWork(u) /\ Works(u)
  BY DEF Containers, AtWork, Works
<1>3. task[t].app \in Apps
  BY <1>1 DEF Fits, IInv, TasksInOrder
<1>4. task[t] \in Task /\ row[task[t].app] \in Row
  BY <1>1, <1>3 DEF IInv, TypeOK
<1> QED  BY <1>1, <1>2, <1>3, <1>4 DEF OneWorker

\* The step of a task keeps the invariant if it does for its app.
LEMMA WorkStep ==
    ASSUME PatientInv, IdsNeverCross, Containers, NEW t \in Tasks, Alone(t),
           LaunchShape(t) \/ HandlerShape(t) \/ LoopShape(t),
           NEW a \in Apps, a = task[t].app,
           row'[a].fresh = row[a].fresh \/ task[t].kind = "remove",
           OnlyOf(a),
           \A n \in Names : podman'[n].app = a => row'[a].status \notin {"new", "gone"} /\ row'[a].name = n,
           \/ row'[a].status = "gone" \/ row'[a].name = row[a].name
           \/ NameFree(row'[a].name) /\ row'[a].name \in Names,
           task'[t].kind = "idle" => AtRest(a)',
           task'[t].kind # "idle" => task'[t].app = a /\ AtWork(t)'
    PROVE  Containers'
<1>0. /\ IInv /\ Roles /\ Present(a) /\ AtWork(t) /\ Works(t) /\ Fits(task[t].kind, task[t].pc)
      /\ task[t] \in Task /\ queue[a].wait = "no"
      /\ \A u \in Tasks : u # t /\ task[u].kind # "idle" => task[u].app # a
      /\ \A u \in Tasks : u # t => task'[u] = task[u]
      /\ \A b \in Apps : b # a => row'[b] = row[b]
      /\ UNCHANGED <<router, seen, queue>>
  BY WorkFacts DEF Alone
<1>1. Early /\ FirstRows
  BY DEF PatientInv, RInv, Containers
<1>2. router # "down" /\ (router \in {"setup", "booting"} => task[t].kind = "deploy")
  BY <1>0, <1>1 DEF Early, Works
<1>3. task[t].kind = "deploy" => task[t].pc \in LaunchPcs
  BY <1>0 DEF Fits, Works, Task, Pcs
<1>4. router = "setup" =>
          row'[a].fresh /\ (row'[a].status = "building" => row'[a].cid = NoCid)
  <2> SUFFICES ASSUME router = "setup"
               PROVE  row'[a].fresh /\ (row'[a].status = "building" => row'[a].cid = NoCid)
    OBVIOUS
  <2>1. LaunchShape(t) /\ row[a].fresh /\ (row[a].status = "building" => row[a].cid = NoCid)
    BY <1>0, <1>1, <1>2, <1>3 DEF FirstRows, HandlerShape, LoopShape, LaunchPcs
  <2>2. task[t].pc = "record" => row[a].status = "starting"
    BY <1>0 DEF AtWork
  <2>3. row'[a].status = "building" => SameRow(a)
    BY <1>0, <2>1, <2>2 DEF LaunchShape, Wrote
  <2> QED  BY <1>2, <2>1, <2>3 DEF SameRow
<1>5. router = "booting" => row[a].fresh /\ row'[a].fresh = row[a].fresh
  BY <1>0, <1>1, <1>2 DEF FirstRows
<1> QED  BY <1>0, <1>2, <1>4, <1>5, AppStep

\* Most steps leave podman alone.
LEMMA QuietStep ==
    ASSUME PatientInv, IdsNeverCross, Containers, NEW t \in Tasks, Alone(t),
           LaunchShape(t) \/ HandlerShape(t) \/ LoopShape(t),
           NEW a \in Apps, a = task[t].app, podman' = podman,
           row'[a].fresh = row[a].fresh \/ task[t].kind = "remove",
           \/ row'[a].status \notin {"new", "gone"} /\ row'[a].name = row[a].name
           \/ Bare(a) /\ row'[a].status = "gone"
           \/ Bare(a) /\ NameFree(row'[a].name) /\ row'[a].name \in Names,
           task'[t].kind = "idle" => AtRest(a)',
           task'[t].kind # "idle" => task'[t].app = a /\ AtWork(t)'
    PROVE  Containers'
<1>1. OnlyOf(a)
  BY DEF OnlyOf
<1>2. \A n \in Names : podman'[n].app = a => row'[a].status \notin {"new", "gone"} /\ row'[a].name = n
  BY DEF Containers, Placed, Bare
<1> QED  BY <1>1, <1>2, WorkStep

\* An UPDATE of a row that is there.
LEMMA UpdateRow ==
    ASSUME IInv, NEW a \in Apps, Present(a), NEW status, NEW cid, NEW err, Update(a, status, cid, err)
    PROVE  /\ row'[a].status = status /\ row'[a].cid = cid
           /\ row'[a].name = row[a].name /\ row'[a].fresh = row[a].fresh
<1>1. row \in [Apps -> Row] /\ row[a] \in Row
  BY DEF IInv, TypeOK
<1>2. row'[a] = [row[a] EXCEPT !.status = status, !.cid = cid, !.err = err]
  BY <1>1 DEF Update
<1> QED  BY <1>1, <1>2 DEF Row

\* A launch up to podman run, and from there to its end.
LEMMA LaunchAgrees ==
    ASSUME Orderly, PatientInv, IdsNeverCross, Containers, NEW t \in Tasks,
           \/ ReloadSync(t) \/ StartAppProcess(t) \/ RestartAppProcess(t) \/ Build(t)
           \/ ReadImageRow(t) \/ MarkLaunch(t) \/ RunFails(t) \/ RecordContainer(t)
           \/ RecordFails(t) \/ WaitForReady(t) \/ LaunchDone(t) \/ LaunchFailed(t)
    PROVE  Containers'
<1>1. IInv /\ Roles
  BY DEF PatientInv, RInv
<1>2. Alone(t) /\ LaunchShape(t)
  BY <1>1, LaunchSteps
<1>3. PICK a \in Apps : a = task[t].app
  BY <1>2 DEF Alone
<1>4. /\ Present(a) /\ AtWork(t) /\ task[t] \in Task /\ row[a] \in Row
      /\ task[t].kind \in Launchers
  BY <1>2, <1>3, WorkFacts DEF Alone, LaunchShape, Fits
<1>5. "build" \notin Faults /\ "db" \notin Faults /\ "unrecorded" \notin Faults
  BY DEF Orderly
<1>6. ASSUME NEW pc, task' = [task EXCEPT ![t].pc = pc]
      PROVE  /\ task'[t].pc = pc /\ task'[t].kind = task[t].kind /\ task'[t].app = a
             /\ task'[t].name = task[t].name /\ task'[t].cid = task[t].cid
  BY <1>1, <1>3, <1>4, <1>6 DEF IInv, TypeOK, Task
<1>7. ASSUME task' = [task EXCEPT ![t] = Idle]
      PROVE  task'[t].kind = "idle"
  BY <1>1, <1>7 DEF IInv, TypeOK, Idle
<1>8. ASSUME NEW status, NEW cid, NEW err, Update(a, status, cid, err)
      PROVE  /\ row'[a].status = status /\ row'[a].cid = cid
             /\ row'[a].name = row[a].name /\ row'[a].fresh = row[a].fresh
  BY <1>1, <1>4, <1>8, UpdateRow
<1>9. ASSUME podman' = podman,
             row'[a].name = row[a].name /\ row'[a].fresh = row[a].fresh,
             row'[a].status \notin {"new", "gone"},
             task'[t].kind = "idle" => AtRest(a)',
             task'[t].kind # "idle" => task'[t].app = a /\ AtWork(t)'
      PROVE  Containers'
  BY <1>2, <1>3, <1>9, QuietStep
<1>10. row[a].status \notin {"new", "gone"} /\ row[a].status \in Status
  BY <1>4 DEF Present, Row
<1>11. task[t].kind \notin {"idle", "stop", "remove", "reload_req", "guard"} /\ row[a].status # "removing"
  BY <1>3, <1>4 DEF Launchers, AtWork
<1>12. ASSUME podman' = podman
       PROVE  /\ Bare(a) => Bare(a)'
              /\ \A cid : (Named(a, cid) => Named(a, cid)') /\ (Live(cid) => Live(cid)')
  BY <1>12 DEF Bare, Named, Live
<1>13. CASE ReloadSync(t)
  <2>1. /\ task[t].pc = "sync" /\ podman' = podman /\ row' = row
        /\ task' = [task EXCEPT ![t].pc = "start"]
    BY <1>3, <1>4, <1>5, <1>13 DEF ReloadSync, At, Goto
  <2>2. AtWork(t)'
    BY <1>3, <1>4, <1>6, <1>11, <1>12, <2>1 DEF AtWork
  <2> QED  BY <1>6, <1>9, <1>11, <1>10, <2>1, <2>2
<1>14. CASE StartAppProcess(t)
  <2>1. /\ task[t].pc = "start" /\ podman' = podman /\ MarkStarting(a)
        /\ task' = [task EXCEPT ![t].pc = "build"]
    BY <1>3, <1>4, <1>5, <1>14 DEF StartAppProcess, At, Goto
  <2>2. row'[a].status = "starting" /\ row'[a].name = row[a].name /\ row'[a].fresh = row[a].fresh
    BY <1>8, <2>1 DEF MarkStarting
  <2>3. AtWork(t)'
    BY <1>3, <1>4, <1>6, <1>11, <1>12, <2>1, <2>2 DEF AtWork, Transient
  <2> QED  BY <1>6, <1>9, <1>11, <2>1, <2>2, <2>3
<1>15. CASE RestartAppProcess(t) \/ Build(t)
  <2>1. /\ task[t].pc \in {"restart", "build"} /\ podman' = podman /\ row' = row
        /\ task' = [task EXCEPT ![t].pc = "image"]
    BY <1>3, <1>4, <1>5, <1>15 DEF RestartAppProcess, Build, At, Goto
  <2>2. AtWork(t)'
    BY <1>3, <1>4, <1>6, <1>11, <1>12, <2>1 DEF AtWork
  <2> QED  BY <1>6, <1>9, <1>11, <1>10, <2>1, <2>2
<1>16. CASE ReadImageRow(t)
  <2>1. /\ task[t].pc = "image" /\ podman' = podman /\ row' = row
        /\ task' = [task EXCEPT ![t].pc = "mark", ![t].name = row[a].name, ![t].cid = row[a].cid]
    BY <1>3, <1>4, <1>16 DEF ReadImageRow, At
  <2>2. /\ task'[t].pc = "mark" /\ task'[t].kind = task[t].kind /\ task'[t].app = a
        /\ task'[t].name = row[a].name
    BY <1>1, <1>3, <1>4, <2>1 DEF IInv, TypeOK, Task
  <2>3. AtWork(t)'
    BY <1>3, <1>4, <1>11, <1>12, <2>1, <2>2 DEF AtWork
  <2> QED  BY <1>9, <1>10, <1>11, <2>1, <2>2, <2>3
<1>17. CASE MarkLaunch(t)
  <2>1. /\ task[t].pc = "mark" /\ podman' = podman /\ MarkStarting(a)
        /\ task' = [task EXCEPT ![t].pc = "clear"]
    BY <1>3, <1>4, <1>5, <1>17 DEF MarkLaunch, At, Goto
  <2>2. row'[a].status = "starting" /\ row'[a].name = row[a].name /\ row'[a].fresh = row[a].fresh
    BY <1>8, <2>1 DEF MarkStarting
  <2>3. task'[t].name = row'[a].name
    BY <1>3, <1>4, <1>6, <2>1, <2>2 DEF AtWork
  <2>4. AtWork(t)'
    BY <1>6, <1>11, <2>1, <2>2, <2>3 DEF AtWork
  <2> QED  BY <1>6, <1>9, <1>11, <2>1, <2>2, <2>4
<1>18. CASE RunFails(t)
  <2>1. /\ task[t].pc = "run" /\ podman' = podman /\ Update(a, "error", NoCid, "other")
        /\ task' = [task EXCEPT ![t].pc = "fail"]
    BY <1>3, <1>5, <1>18 DEF RunFails, RecordFailure, At, Goto
  <2>2. row'[a].status = "error" /\ row'[a].name = row[a].name /\ row'[a].fresh = row[a].fresh
    BY <1>8, <2>1
  <2>3. AtWork(t)'
    BY <1>3, <1>4, <1>6, <1>11, <1>12, <2>1, <2>2 DEF AtWork
  <2> QED  BY <1>6, <1>9, <1>11, <2>1, <2>2, <2>3
<1>19. CASE RecordContainer(t)
  <2>1. PICK d : d = task[t].cid
    OBVIOUS
  <2>2. /\ task[t].pc = "record" /\ podman' = podman /\ Update(a, row[a].status, d, row[a].err)
        /\ task' = [task EXCEPT ![t].pc = "wait"]
    BY <1>3, <1>19, <2>1 DEF RecordContainer, At, Goto
  <2>3. /\ row'[a].status = row[a].status /\ row'[a].cid = d
        /\ row'[a].name = row[a].name /\ row'[a].fresh = row[a].fresh
    BY <1>8, <2>2
  <2>4. Named(a, d) /\ Live(d) /\ row[a].status = "starting"
    BY <1>3, <1>4, <2>1, <2>2 DEF AtWork
  <2>5. Named(a, row[a].cid)' /\ Live(row[a].cid)'
    BY <2>2, <2>3, <2>4 DEF Named, Live
  <2>6. AtWork(t)'
    BY <1>3, <1>4, <1>6, <1>11, <2>2, <2>3, <2>4, <2>5 DEF AtWork
  <2> QED  BY <1>6, <1>9, <1>11, <1>10, <2>2, <2>3, <2>6
<1>20. CASE RecordFails(t)
  BY <1>5, <1>20 DEF RecordFails
<1>21. CASE WaitForReady(t)
  <2>1. PICK pc \in {"ready", "unready"} :
          /\ task[t].pc = "wait" /\ podman' = podman /\ row' = row
          /\ task' = [task EXCEPT ![t].pc = pc]
    BY <1>21 DEF WaitForReady, At, Goto
  <2>2. Named(a, row[a].cid)' /\ Live(row[a].cid)' /\ row[a].status = "starting"
    BY <1>3, <1>4, <2>1 DEF AtWork, Named, Live
  <2>3. AtWork(t)'
    BY <1>3, <1>4, <1>6, <1>11, <2>1, <2>2 DEF AtWork
  <2> QED  BY <1>6, <1>9, <1>11, <1>10, <2>1, <2>3
<1>22. CASE LaunchDone(t)
  <2>1. /\ task[t].pc \in {"ready", "unready"} /\ podman' = podman
        /\ task' = [task EXCEPT ![t] = Idle]
        /\ Update(a, "running", row[a].cid, "none") \/ Update(a, "error", row[a].cid, "other")
    BY <1>3, <1>22 DEF LaunchDone, At, Done
  <2>2. /\ row'[a].status \in {"running", "error"} /\ row'[a].cid = row[a].cid
        /\ row'[a].name = row[a].name /\ row'[a].fresh = row[a].fresh
    BY <1>8, <2>1
  <2>3. Named(a, row[a].cid) /\ Live(row[a].cid)
    BY <1>3, <1>4, <2>1 DEF AtWork
  <2>4. AtRest(a)'
    BY <2>1, <2>2, <2>3 DEF AtRest, Named, Live
  <2> QED  BY <1>7, <1>9, <2>1, <2>2, <2>4
<1>23. CASE LaunchFailed(t)
  <2>1. /\ task[t].pc = "fail" /\ podman' = podman /\ task' = [task EXCEPT ![t] = Idle]
        /\ Update(a, "error", row[a].cid, "other")
    BY <1>3, <1>4, <1>23 DEF LaunchFailed, At, Done, AtWork
  <2>2. /\ row'[a].status = "error" /\ row'[a].cid = row[a].cid
        /\ row'[a].name = row[a].name /\ row'[a].fresh = row[a].fresh
    BY <1>8, <2>1
  <2>3. Bare(a)
    BY <1>3, <1>4, <2>1 DEF AtWork
  <2>4. AtRest(a)'
    BY <2>1, <2>2, <2>3 DEF AtRest, Named, Bare
  <2> QED  BY <1>7, <1>9, <2>1, <2>2, <2>4
<1> QED
  BY <1>13, <1>14, <1>15, <1>16, <1>17, <1>18, <1>19, <1>20, <1>21, <1>22, <1>23

\* podman rm and podman run, by the name the row has.
LEMMA RunAgrees ==
    ASSUME Orderly, PatientInv, IdsNeverCross, Containers, NEW t \in Tasks,
           ClearStale(t) \/ RunContainer(t)
    PROVE  /\ Containers'
           /\ OnlyOf(task[t].app) /\ task'[t] # task[t]
<1>1. IInv /\ Roles
  BY DEF PatientInv, RInv
<1>2. Alone(t) /\ LaunchShape(t)
  BY <1>1, LaunchSteps
<1>3. PICK a \in Apps : a = task[t].app
  BY <1>2 DEF Alone
<1>4. /\ Present(a) /\ AtWork(t) /\ task[t] \in Task /\ row[a] \in Row
      /\ task[t].kind \in Launchers
  BY <1>2, <1>3, WorkFacts DEF Alone, LaunchShape, Fits
<1>5. task[t].pc \in {"clear", "run"}
  BY DEF ClearStale, RunContainer, At
<1>6. PICK m : m = row[a].name
  OBVIOUS
<1>7. task[t].name = m /\ row[a].status = "starting" /\ (task[t].pc = "run" => Bare(a))
  BY <1>3, <1>4, <1>5, <1>6 DEF AtWork
<1>8. task[t].kind \notin {"idle", "stop", "remove", "reload_req", "guard"}
  BY <1>4 DEF Launchers
<1>9. \A n \in Names, b \in Apps : podman[n].app = b /\ (n = m \/ b = a) => n = m /\ b = a
  BY <1>4, <1>6 DEF Containers, Placed
<1>10. CASE ClearStale(t)
  <2>1. /\ podman' = [podman EXCEPT ![m] = Free] /\ row' = row
        /\ task' = [task EXCEPT ![t].pc = "run"] /\ task[t].pc = "clear"
    BY <1>7, <1>10 DEF ClearStale, Goto, At
  <2>2. /\ task'[t].pc = "run" /\ task'[t].kind = task[t].kind /\ task'[t].app = a
        /\ task'[t].name = m
    BY <1>1, <1>3, <1>4, <1>7, <2>1 DEF IInv, TypeOK, Task
  <2>3. \A n \in Names : /\ n # m => podman'[n] = podman[n]
                         /\ n = m => podman'[n].app = NoApp
    BY <1>1, <2>1 DEF IInv, TypeOK, Free
  <2>4. \A n \in Names : podman[n].app \in Apps \cup {NoApp}
    BY <1>1, PodmanTyped
  <2>5. OnlyOf(a)
    BY <1>9, <2>3, <2>4 DEF OnlyOf
  <2>6. \A n \in Names : podman'[n].app # a
    BY <1>9, <2>3, ConstantsAssumption
  <2>7. AtWork(t)'
    BY <1>6, <1>7, <1>8, <2>1, <2>2, <2>6 DEF AtWork, Bare
  <2>8. Containers'
    BY <1>2, <1>3, <1>8, <2>1, <2>2, <2>5, <2>6, <2>7, WorkStep
  <2> QED  BY <1>3, <2>1, <2>2, <2>5, <2>8
<1>11. CASE RunContainer(t)
  <2>1. PICK c \in Cids :
          /\ podman' = [podman EXCEPT ![m] = [cid |-> c, app |-> a]] /\ podman[m] = Free
          /\ row' = row /\ task' = [task EXCEPT ![t].pc = "record", ![t].cid = c]
          /\ task[t].pc = "run"
    BY <1>3, <1>7, <1>11 DEF RunContainer, At, Orderly
  <2>2. /\ task'[t].pc = "record" /\ task'[t].kind = task[t].kind /\ task'[t].app = a
        /\ task'[t].name = m /\ task'[t].cid = c
    BY <1>1, <1>3, <1>4, <1>7, <2>1 DEF IInv, TypeOK, Task
  <2>3. \A n \in Names : /\ n # m => podman'[n] = podman[n]
                         /\ n = m => podman'[n].app = a /\ podman'[n].cid = c /\ podman[n].app = NoApp
    BY <1>1, <2>1 DEF IInv, TypeOK, Free
  <2>4. OnlyOf(a)
    BY <2>3 DEF OnlyOf
  <2>5. \A n \in Names : podman'[n].app = a => n = m /\ podman'[n].cid = c
    BY <1>7, <2>1, <2>3 DEF Bare
  <2>6. m \in Names /\ c # NoCid
    <3>1. m \in Names
      BY <1>4, <1>6 DEF Containers, Placed
    <3> QED  BY <3>1, ConstantsAssumption
  <2>7. Live(c)'
    BY <2>3, <2>6 DEF Live
  <2>8. Named(a, c)'
    BY <2>5 DEF Named
  <2>9. AtWork(t)'
    BY <1>6, <1>7, <1>8, <2>1, <2>2, <2>7, <2>8 DEF AtWork
  <2>10. Containers'
    BY <1>2, <1>3, <1>4, <1>6, <1>8, <2>1, <2>2, <2>4, <2>5, <2>9, WorkStep DEF Present
  <2> QED  BY <1>3, <2>1, <2>2, <2>4, <2>10
<1> QED  BY <1>10, <1>11

\* stop_container by id, on the row its caller read, and the stop route's second
\* stop by name.
LEMMA StopAgrees ==
    ASSUME Orderly, PatientInv, IdsNeverCross, Containers, NEW t \in Tasks,
           StopAppProcess(t) \/ StopByName(t)
    PROVE  /\ Containers'
           /\ OnlyOf(task[t].app) /\ task'[t] # task[t]
<1>1. IInv /\ Roles
  BY DEF PatientInv, RInv
<1>2. Alone(t) /\ HandlerShape(t)
  BY <1>1, HandlerSteps
<1>3. PICK a \in Apps, c \in Cids \cup {NoCid} : a = task[t].app /\ c = task[t].cid
  BY <1>1, <1>2 DEF Alone, IInv, TypeOK, Task, Row
<1>4. /\ Present(a) /\ AtWork(t) /\ task[t] \in Task /\ row[a] \in Row
      /\ Fits(task[t].kind, task[t].pc)
  BY <1>2, <1>3, WorkFacts DEF Alone
<1>5. "podman" \notin Faults
  BY DEF Orderly
<1>6. ASSUME NEW pc, task' = [task EXCEPT ![t].pc = pc]
      PROVE  /\ task'[t].pc = pc /\ task'[t].kind = task[t].kind /\ task'[t].app = a
             /\ task'[t].name = task[t].name /\ task'[t].to = task[t].to
  BY <1>1, <1>3, <1>4, <1>6 DEF IInv, TypeOK, Task
<1>7. CASE StopAppProcess(t)
  <2>1. PICK pc : pc = AfterStop(task[t].kind)
    OBVIOUS
  <2>2. /\ task[t].pc = "stop_cid" /\ Kill(c) /\ row' = row
        /\ task' = [task EXCEPT ![t].pc = pc]
    BY <1>3, <1>5, <1>7, <2>1 DEF StopAppProcess, At, Goto
  <2>3. task[t].kind \in {"stop", "remove", "reload_req", "rename"}
    BY <1>4, <2>2 DEF Fits, AtWork
  <2>4. /\ task[t].kind = "stop" => pc = "stop_name"
        /\ task[t].kind = "remove" => pc = "delete"
        /\ task[t].kind = "reload_req" => pc = "spawn"
        /\ task[t].kind = "rename" => pc = "rename_mark"
    BY <2>1 DEF AfterStop
  <2>5. Named(a, c)
    BY <1>3, <1>4, <2>2 DEF AtWork, AtRest
  <2>6. \A n \in Names : podman'[n] = IF c # NoCid /\ podman[n].cid = c THEN Free ELSE podman[n]
    BY <2>2 DEF Kill
  <2>7. \A n \in Names : podman[n].cid = c /\ c # NoCid => podman[n].app = a
    <3> SUFFICES ASSUME NEW n \in Names, podman[n].cid = c, c # NoCid
                 PROVE  podman[n].app = a
      OBVIOUS
    <3>1. podman[n].app \in Apps /\ c \in Cids /\ podman[n] = [cid |-> c, app |-> podman[n].app]
      BY <1>1, PodmanTyped
    <3>2. Holds(c, podman[n].app) /\ Holds(c, a)
      BY <1>3, <3>1 DEF Holds
    <3> QED  BY <3>1, <3>2 DEF IdsNeverCross
  <2>8. OnlyOf(a) /\ a # NoApp
    BY <2>6, <2>7, ConstantsAssumption DEF OnlyOf, Free
  <2>9. \A n \in Names : podman'[n].app # a
    <3>1. c = NoCid => Bare(a)
      BY <1>1, <2>5, BareNoCid
    <3> QED  BY <2>5, <2>6, <2>8, <3>1 DEF Bare, Named, Free
  <2>10. AtWork(t)'
    <3>1. Bare(a)'
      BY <2>9 DEF Bare
    <3>2. /\ task[t].kind = "stop" => task[t].name = row[a].name
          /\ task[t].kind = "reload_req" => row[a].status \in Transient
          /\ task[t].kind = "rename" => task[t].to \in Names
          /\ task[t].kind # "remove" => row[a].status # "removing"
      BY <1>3, <1>4, <2>2 DEF AtWork
    <3> QED  BY <1>6, <2>2, <2>3, <2>4, <3>1, <3>2 DEF AtWork
  <2>11. task'[t].kind # "idle" /\ task'[t].app = a /\ task'[t] # task[t]
    BY <1>6, <2>2, <2>3, <2>4
  <2>12. row'[a].fresh = row[a].fresh /\ row'[a].name = row[a].name
    BY <2>2
  <2>13. Containers'
    BY <1>2, <1>3, <2>8, <2>9, <2>10, <2>11, <2>12, WorkStep
  <2> QED  BY <1>3, <2>8, <2>11, <2>13
<1>8. CASE StopByName(t)
  <2>1. PICK m : m = task[t].name
    OBVIOUS
  <2>2. /\ task[t].pc = "stop_name" /\ podman' = [podman EXCEPT ![m] = Free] /\ row' = row
        /\ task' = [task EXCEPT ![t].pc = "write"]
    BY <1>5, <1>8, <2>1 DEF StopByName, At, Goto
  <2>3. task[t].kind = "stop" /\ Bare(a) /\ m = row[a].name /\ row[a].status # "removing"
    BY <1>3, <1>4, <2>1, <2>2 DEF AtWork, Fits
  <2>4. ASSUME NEW n \in Names
        PROVE  podman'[n] = podman[n]
    <3>1. CASE n # m
      BY <1>1, <2>2, <3>1 DEF IInv, TypeOK
    <3>2. CASE n = m
      <4>1. podman[n].app \notin Apps
        BY <1>4, <2>3, <3>2 DEF Containers, Placed, Bare
      <4>2. podman[n] = Free
        BY <1>1, <4>1, PodmanTyped
      <4> QED  BY <1>1, <2>2, <3>2, <4>2 DEF IInv, TypeOK
    <3> QED  BY <3>1, <3>2
  <2>5. OnlyOf(a) /\ \A n \in Names : podman'[n].app # a
    BY <2>3, <2>4 DEF OnlyOf, Bare
  <2>6. task'[t].kind = "stop" /\ task'[t].app = a /\ task'[t].pc = "write" /\ task'[t].name = m
    BY <1>6, <2>1, <2>2, <2>3
  <2>7. AtWork(t)'
    BY <2>2, <2>3, <2>5, <2>6 DEF AtWork, Bare
  <2>8. row'[a].fresh = row[a].fresh /\ row'[a].name = row[a].name
    BY <2>2
  <2>9. Containers'
    BY <1>2, <1>3, <2>5, <2>6, <2>7, <2>8, WorkStep
  <2> QED  BY <1>3, <2>2, <2>5, <2>6, <2>9
<1> QED  BY <1>7, <1>8

\* The rest of a stop, of a removal and of a rename's first half.
LEMMA HandlerAgrees ==
    ASSUME Orderly, PatientInv, IdsNeverCross, Containers, NEW t \in Tasks,
           StopWrite(t) \/ GuardWrite(t) \/ RemoveRead(t) \/ RemoveDelete(t) \/ RenameMark(t)
    PROVE  Containers'
<1>1. IInv /\ Roles
  BY DEF PatientInv, RInv
<1>2. Alone(t) /\ HandlerShape(t)
  BY <1>1, HandlerSteps
<1>3. PICK a \in Apps : a = task[t].app
  BY <1>2 DEF Alone
<1>4. /\ Present(a) /\ AtWork(t) /\ task[t] \in Task /\ row[a] \in Row
      /\ Fits(task[t].kind, task[t].pc)
  BY <1>2, <1>3, WorkFacts DEF Alone
<1>5. task' = [task EXCEPT ![t] = Idle] => task'[t].kind = "idle"
  BY <1>1 DEF IInv, TypeOK, Idle
<1>6. ASSUME NEW status, NEW cid, NEW err, Update(a, status, cid, err)
      PROVE  /\ row'[a].status = status /\ row'[a].cid = cid
             /\ row'[a].name = row[a].name /\ row'[a].fresh = row[a].fresh
  BY <1>1, <1>4, <1>6, UpdateRow
<1>7. podman' = podman
  BY DEF StopWrite, GuardWrite, RemoveRead, RemoveDelete, RenameMark
<1>8. CASE StopWrite(t)
  <2>1. /\ task[t].pc = "write" /\ Update(a, "stopped", NoCid, row[a].err)
        /\ task' = [task EXCEPT ![t] = Idle]
    BY <1>3, <1>8 DEF StopWrite, At, Done
  <2>2. Bare(a)
    BY <1>3, <1>4, <2>1 DEF AtWork
  <2>3. /\ row'[a].status = "stopped" /\ row'[a].name = row[a].name
        /\ row'[a].fresh = row[a].fresh
    BY <1>6, <2>1
  <2>4. AtRest(a)'
    BY <1>7, <2>2, <2>3 DEF AtRest, Named, Bare
  <2> QED  BY <1>2, <1>3, <1>5, <1>7, <2>1, <2>3, <2>4, QuietStep
<1>9. CASE GuardWrite(t)
  BY <1>4, <1>9 DEF GuardWrite, AtWork
<1>10. CASE RemoveRead(t)
  <2>1. /\ task[t].pc = "read" /\ row' = row
        /\ Handle(t, "remove", "stop_cid", a, "new", NoName)
    BY <1>3, <1>4, <1>10 DEF RemoveRead, At
  <2>2. /\ task'[t].kind = "remove" /\ task'[t].pc = "stop_cid" /\ task'[t].app = a
        /\ task'[t].cid = row[a].cid
    BY <1>1, <2>1 DEF Handle, IInv, TypeOK
  <2>3. AtRest(a)
    BY <1>3, <1>4, <2>1 DEF AtWork
  <2>4. AtRest(a)'
    BY <1>7, <2>1, <2>3 DEF AtRest, Named, Bare, Live
  <2>5. AtWork(t)'
    BY <2>1, <2>2, <2>4 DEF AtWork
  <2>6. row'[a].status \notin {"new", "gone"} /\ row'[a].name = row[a].name /\ row'[a].fresh = row[a].fresh
    BY <1>4, <2>1 DEF Present
  <2> QED  BY <1>2, <1>3, <1>7, <2>2, <2>5, <2>6, QuietStep
<1>11. CASE RemoveDelete(t)
  <2>1. /\ task[t].pc = "delete" /\ row' = [row EXCEPT ![a] = BlankRow("gone")]
        /\ task' = [task EXCEPT ![t] = Idle]
    BY <1>3, <1>11 DEF RemoveDelete, At, Done, Orderly
  <2>2. Bare(a) /\ task[t].kind = "remove"
    BY <1>3, <1>4, <2>1 DEF AtWork, Fits
  <2>3. row'[a].status = "gone"
    BY <1>1, <2>1 DEF IInv, TypeOK, BlankRow
  <2>4. AtRest(a)'
    BY <1>7, <2>2, <2>3 DEF AtRest, Named, Bare
  <2> QED  BY <1>2, <1>3, <1>5, <1>7, <2>1, <2>2, <2>3, <2>4, QuietStep
<1>12. CASE RenameMark(t)
  <2>1. /\ task[t].pc = "rename_mark" /\ Update(a, "stopped", NoCid, row[a].err)
        /\ task' = [task EXCEPT ![t].pc = "dirs"]
    BY <1>3, <1>12 DEF RenameMark, At
  <2>2. Bare(a) /\ task[t].kind = "rename" /\ task[t].to \in Names
    BY <1>3, <1>4, <2>1 DEF AtWork, Fits
  <2>3. /\ row'[a].status = "stopped" /\ row'[a].name = row[a].name
        /\ row'[a].fresh = row[a].fresh
    BY <1>6, <2>1
  <2>4. /\ task'[t].kind = "rename" /\ task'[t].pc = "dirs" /\ task'[t].app = a
        /\ task'[t].to \in Names
    BY <1>1, <1>3, <1>4, <2>1, <2>2 DEF IInv, TypeOK, Task
  <2>5. Bare(a)'
    BY <1>7, <2>2 DEF Bare
  <2>6. AtWork(t)'
    BY <2>3, <2>4, <2>5 DEF AtWork
  <2> QED  BY <1>2, <1>3, <1>7, <2>3, <2>4, <2>6, QuietStep
<1> QED  BY <1>8, <1>9, <1>10, <1>11, <1>12

\* The handlers after an await.
LEMMA LoopAgrees ==
    ASSUME Orderly, PatientInv, IdsNeverCross, Containers, NEW t \in Tasks, LoopStep(t)
    PROVE  Containers'
<1>1. IInv /\ Roles
  BY DEF PatientInv, RInv
<1>2. Alone(t) /\ LoopShape(t)
  BY <1>1, LoopSteps
<1>3. PICK a \in Apps, c \in Cids \cup {NoCid} : a = task[t].app /\ c = row[a].cid
  BY <1>1, <1>2 DEF Alone, IInv, TypeOK, Task, Row
<1>4. /\ Present(a) /\ AtWork(t) /\ task[t] \in Task /\ row[a] \in Row
      /\ Fits(task[t].kind, task[t].pc)
  BY <1>2, <1>3, WorkFacts DEF Alone
<1>5. task' = [task EXCEPT ![t] = Idle] => task'[t].kind = "idle"
  BY <1>1 DEF IInv, TypeOK, Idle
<1>6. ASSUME NEW status, NEW cid, NEW err, Update(a, status, cid, err)
      PROVE  /\ row'[a].status = status /\ row'[a].cid = cid
             /\ row'[a].name = row[a].name /\ row'[a].fresh = row[a].fresh
  BY <1>1, <1>4, <1>6, UpdateRow
<1>7. podman' = podman
  BY DEF LoopStep, Pull, Claim, SpawnReload, RenameUndo, RenameWrite
<1>8. ASSUME NEW pc, task' = [task EXCEPT ![t].pc = pc]
      PROVE  /\ task'[t].pc = pc /\ task'[t].kind = task[t].kind /\ task'[t].app = a
             /\ task'[t].cid = task[t].cid
  BY <1>1, <1>3, <1>4, <1>8 DEF IInv, TypeOK, Task
<1>9. row[a].status \notin {"new", "gone"}
  BY <1>4 DEF Present
<1>10. ASSUME row' = row, AtRest(a)
       PROVE  AtRest(a)'
  BY <1>7, <1>10 DEF AtRest, Named, Bare, Live
<1>11. CASE Pull(t)
  <2>1. task[t].pc = "pull"
    BY <1>11 DEF Pull, At
  <2>2. AtRest(a) /\ task[t].cid = c /\ task[t].kind = "reload_req" /\ row[a].status # "removing"
    BY <1>3, <1>4, <2>1 DEF AtWork, Fits
  <2>3. CASE task' = [task EXCEPT ![t].pc = "claim"] /\ row' = row
    <3>1. /\ task'[t].pc = "claim" /\ task'[t].kind = "reload_req" /\ task'[t].app = a
          /\ task'[t].cid = c /\ AtRest(a)' /\ row'[a].cid = c /\ row'[a].status # "removing"
      BY <1>3, <1>8, <1>10, <2>2, <2>3
    <3>2. AtWork(t)'
      BY <3>1 DEF AtWork
    <3> QED  BY <1>2, <1>3, <1>7, <1>9, <2>3, <3>1, <3>2, QuietStep
  <2>4. CASE task' = [task EXCEPT ![t] = Idle] /\ row' = row
    BY <1>2, <1>3, <1>5, <1>7, <1>9, <1>10, <2>2, <2>4, QuietStep
  <2>5. CASE task' = [task EXCEPT ![t] = Idle] /\ Update(a, "error", c, "other")
    <3>1. /\ row'[a].status = "error" /\ row'[a].cid = c
          /\ row'[a].name = row[a].name /\ row'[a].fresh = row[a].fresh
      BY <1>6, <2>5
    <3>2. AtRest(a)'
      BY <1>3, <1>7, <2>2, <3>1 DEF AtRest, Named
    <3> QED  BY <1>2, <1>3, <1>5, <1>7, <2>5, <3>1, <3>2, QuietStep
  <2> QED  BY <1>3, <1>11, <2>3, <2>4, <2>5 DEF Pull, Goto, Done
<1>12. CASE Claim(t)
  <2>1. task[t].pc = "claim"
    BY <1>12 DEF Claim, At
  <2>2. AtRest(a) /\ task[t].cid = c /\ task[t].kind = "reload_req" /\ row[a].status # "removing"
    BY <1>3, <1>4, <2>1 DEF AtWork, Fits
  <2>3. Named(a, c)
    BY <1>3, <2>2 DEF AtRest
  <2>4. CASE Claimable(a)
    <3>1. Update(a, "building", NoCid, "none") /\ task' = [task EXCEPT ![t].pc = "stop_cid"]
      BY <1>3, <1>12, <2>4 DEF Claim
    <3>2. /\ row'[a].status = "building"
          /\ row'[a].name = row[a].name /\ row'[a].fresh = row[a].fresh
      BY <1>6, <3>1
    <3>3. /\ task'[t].pc = "stop_cid" /\ task'[t].kind = "reload_req" /\ task'[t].app = a
          /\ task'[t].cid = c
      BY <1>8, <2>2, <3>1
    <3>4. Named(a, c)'
      BY <1>7, <2>3 DEF Named
    <3>5. AtWork(t)'
      BY <3>2, <3>3, <3>4 DEF AtWork, Transient
    <3> QED  BY <1>2, <1>3, <1>7, <3>2, <3>3, <3>5, QuietStep
  <2>5. CASE ~Claimable(a)
    <3>1. row' = row /\ (task' = [task EXCEPT ![t].pc = "stop_cid"] \/ task' = [task EXCEPT ![t] = Idle])
      BY <1>3, <1>12, <2>5 DEF Claim
    <3>2. row[a].status \in Transient
      BY <1>4, <2>2, <2>5 DEF Claimable, Busy
    <3>3. CASE task' = [task EXCEPT ![t].pc = "stop_cid"]
      <4>1. /\ task'[t].pc = "stop_cid" /\ task'[t].kind = "reload_req" /\ task'[t].app = a
            /\ task'[t].cid = c
        BY <1>8, <2>2, <3>3
      <4>2. Named(a, c)'
        BY <1>7, <2>3 DEF Named
      <4>3. row'[a].status \in Transient /\ row'[a].status # "removing"
        BY <2>2, <3>1, <3>2
      <4>4. AtWork(t)'
        BY <4>1, <4>2, <4>3 DEF AtWork
      <4> QED  BY <1>2, <1>3, <1>7, <1>9, <3>1, <4>1, <4>4, QuietStep
    <3>4. CASE task' = [task EXCEPT ![t] = Idle]
      BY <1>2, <1>3, <1>5, <1>7, <1>9, <1>10, <2>2, <3>1, <3>4, QuietStep
    <3> QED  BY <3>1, <3>3, <3>4
  <2> QED  BY <2>4, <2>5
<1>13. CASE SpawnReload(t)
  <2>1. /\ task[t].pc = "spawn" /\ row' = row
        /\ Spawn(t, "reload", "sync", a) \/ task' = [task EXCEPT ![t] = Idle]
    BY <1>3, <1>13 DEF SpawnReload, At
  <2>2. Bare(a) /\ row[a].status \in Transient
    BY <1>3, <1>4, <2>1 DEF AtWork
  <2>3. CASE Spawn(t, "reload", "sync", a)
    <3>1. task'[t].kind = "reload" /\ task'[t].pc = "sync" /\ task'[t].app = a
      BY <1>1, <2>3 DEF Spawn, Idle, IInv, TypeOK
    <3>2. row'[a].status \in Transient /\ row'[a].status # "removing"
      BY <2>1, <2>2 DEF Transient
    <3>3. AtWork(t)'
      BY <3>1, <3>2 DEF AtWork
    <3> QED  BY <1>2, <1>3, <1>7, <1>9, <2>1, <3>1, <3>3, QuietStep
  <2>4. CASE task' = [task EXCEPT ![t] = Idle]
    <3>1. AtRest(a)'
      BY <1>7, <2>1, <2>2 DEF AtRest, Named, Bare, Transient
    <3> QED  BY <1>2, <1>3, <1>5, <1>7, <1>9, <2>1, <2>4, <3>1, QuietStep
  <2> QED  BY <2>1, <2>3, <2>4
<1>14. CASE RenameUndo(t)
  <2>1. PICK status, cid, err :
          /\ task[t].pc = "dirs" /\ "dirs" \in Faults /\ status = task[t].how
          /\ task' = [task EXCEPT ![t] = Idle] /\ Update(a, status, cid, err)
    BY <1>3, <1>14 DEF RenameUndo, At, Done, Orderly
  <2>2. Bare(a) /\ task[t].kind = "rename"
    BY <1>3, <1>4, <2>1 DEF AtWork, Fits
  <2>3. status \notin {"new", "gone"}
    BY <2>1, <2>2 DEF PatientInv, UndoesPresent
  <2>4. row'[a].status = status /\ row'[a].name = row[a].name /\ row'[a].fresh = row[a].fresh
    BY <1>6, <2>1
  <2>5. AtRest(a)'
    BY <1>7, <2>1, <2>2 DEF AtRest, Named, Bare
  <2> QED  BY <1>2, <1>3, <1>5, <1>7, <2>1, <2>3, <2>4, <2>5, QuietStep
<1>15. CASE RenameWrite(t)
  <2>1. PICK m : m = task[t].to
    OBVIOUS
  <2>2. /\ task[t].pc = "dirs"
        /\ \/ task' = [task EXCEPT ![t].pc = "start"]
           \/ task' = [task EXCEPT ![t] = Idle]
    BY <1>15 DEF RenameWrite, At, Done
  <2>3. Bare(a) /\ row[a].status = "stopped" /\ m \in Names /\ task[t].kind = "rename"
    BY <1>3, <1>4, <2>1, <2>2 DEF AtWork, Fits
  <2>4. \/ row' = row
        \/ NameFree(m) /\ row' = [row EXCEPT ![a] = [@ EXCEPT !.name = m]]
    BY <1>3, <1>4, <1>15, <2>1 DEF RenameWrite
  <2>5. /\ row'[a].status = "stopped" /\ row'[a].fresh = row[a].fresh
        /\ row'[a].name = row[a].name \/ (NameFree(m) /\ row'[a].name = m)
    BY <1>1, <1>4, <2>3, <2>4 DEF IInv, TypeOK, Row
  <2>6. Bare(a)'
    BY <1>7, <2>3 DEF Bare
  <2>7. \/ row'[a].status \notin {"new", "gone"} /\ row'[a].name = row[a].name
        \/ Bare(a) /\ NameFree(row'[a].name) /\ row'[a].name \in Names
    BY <2>3, <2>5 DEF NameFree
  <2>8. CASE task' = [task EXCEPT ![t].pc = "start"]
    <3>1. task'[t].pc = "start" /\ task'[t].kind = "rename" /\ task'[t].app = a
      BY <1>8, <2>3, <2>8
    <3>2. AtWork(t)'
      BY <2>5, <2>6, <3>1 DEF AtWork
    <3> QED  BY <1>2, <1>3, <1>7, <2>5, <2>7, <3>1, <3>2, QuietStep
  <2>9. CASE task' = [task EXCEPT ![t] = Idle]
    <3>1. AtRest(a)'
      BY <2>5, <2>6 DEF AtRest, Named, Bare
    <3> QED  BY <1>2, <1>3, <1>5, <1>7, <2>5, <2>7, <2>9, <3>1, QuietStep
  <2> QED  BY <2>2, <2>8, <2>9
<1> QED  BY <1>11, <1>12, <1>13, <1>14, <1>15 DEF LoopStep

\* An install finds the name free, and a request finds the app at rest.
LEMMA RequestAgrees ==
    ASSUME Orderly, PatientInv, IdsNeverCross, Containers, NEW t \in Tasks, Request(t)
    PROVE  Containers' /\ podman' = podman
<1>0. /\ IInv /\ Roles /\ OneWorker /\ FirstRows /\ Placed /\ ~Overlap
      /\ "lowdisk" \notin Faults
  BY DEF PatientInv, RInv, Containers, Orderly
<1>1. PICK a \in Apps :
        \/ \E n \in Names : AddApp(t, a, n) \/ RenameRead(t, a, n)
        \/ StopApp(t, a) \/ RemoveApp(t, a)
        \/ \E how \in {"reload", "update", "oauth"} : ReloadRead(t, a, how)
  BY <1>0 DEF Request, StorageGuard
<1>2. /\ task[t] = Idle /\ task[t].kind = "idle" /\ UNCHANGED <<podman, router, seen, queue>>
  BY <1>1 DEF AddApp, RenameRead, StopApp, RemoveApp, ReloadRead, Admit, Idle
<1>3. OnlyOf(a)
  BY <1>2 DEF OnlyOf
<1>4. \A u \in Tasks : task[u].kind # "idle" => Works(u) /\ Present(task[u].app)
  <2>1. \A u \in Tasks : task[u].kind # "idle" => Works(u)
    BY DEF Containers, AtWork, Works
  <2> QED  BY <1>0, <2>1 DEF OneWorker
<1>5. CASE \E n \in Names : AddApp(t, a, n)
  <2>1. PICK n \in Names : AddApp(t, a, n)
    BY <1>5
  <2>2. /\ row[a].status = "new" /\ ~Present(a) /\ NameFree(n) /\ router \in {"setup", "up"}
        /\ Spawn(t, "deploy", "build", a) \/ task' = task
    BY <2>1 DEF AddApp, Present
  <2>3. /\ row'[a].status = "building" /\ row'[a].name = n /\ row'[a].cid = NoCid /\ row'[a].fresh
        /\ \A b \in Apps : b # a => row'[b] = row[b]
    BY <1>0, <2>1 DEF AddApp, IInv, TypeOK
  <2>4. queue[a].wait = "no" /\ \A u \in Tasks : task[u].kind # "idle" => task[u].app # a
    BY <1>0, <1>4, <2>2 DEF OneWorker
  <2>5. \A m \in Names : podman'[m].app # a
    BY <1>0, <1>2, <2>2 DEF Placed
  <2>6. AtRest(a)'
    BY <2>3, <2>5 DEF AtRest, Named
  <2>7. /\ \A u \in Tasks : u # t => task'[u] = task[u]
        /\ \/ task'[t].kind = "deploy" /\ task'[t].pc = "build" /\ task'[t].app = a
           \/ task'[t].kind = "idle"
    BY <1>0, <1>2, <2>2 DEF Spawn, Idle, IInv, TypeOK
  <2>8. task'[t].kind # "idle" => AtWork(t)'
    BY <2>3, <2>7 DEF AtWork, Transient
  <2>9. Containers'
    BY <1>0, <1>2, <1>3, <2>2, <2>3, <2>4, <2>5, <2>6, <2>7, <2>8, AppStep
  <2> QED  BY <1>2, <2>9
<1>6. CASE ~\E n \in Names : AddApp(t, a, n)
  <2>1. router = "up" /\ Present(a) /\ Quiet(a)
    BY <1>0, <1>1, <1>6 DEF RenameRead, StopApp, RemoveApp, ReloadRead, Admit
  <2>2. queue[a].wait = "no" /\ \A u \in Tasks : task[u].kind # "idle" => task[u].app # a
    BY <2>1 DEF Quiet, On
  <2>3. AtRest(a)
    BY <2>1, <2>2 DEF Containers, Cold, NoTaskOf
  <2>4. PICK c, m : c = row[a].cid /\ m = row[a].name
    OBVIOUS
  <2>5. \A n \in Names : podman'[n].app = a => m = n
    BY <1>0, <1>2, <2>4 DEF Placed
  <2>6. ASSUME row'[a].name = m, row'[a].status \notin {"new", "gone"},
               \A b \in Apps : b # a => row'[b] = row[b],
               \A u \in Tasks : u # t => task'[u] = task[u],
               task'[t].kind = "idle" => AtRest(a)',
               task'[t].kind # "idle" => task'[t].app = a /\ AtWork(t)'
        PROVE  Containers'
    BY <1>0, <1>2, <1>3, <2>1, <2>2, <2>4, <2>5, <2>6, AppStep
  <2>7. ASSUME row'[a].cid = c, row'[a].status = row[a].status \/ row'[a].status \in {"removing", "error"}
        PROVE  AtRest(a)'
    BY <1>2, <2>3, <2>4, <2>7 DEF AtRest, Named, Bare, Live
  <2>8. ASSUME NEW kind, NEW pc, NEW how, NEW to, Handle(t, kind, pc, a, how, to)
        PROVE  /\ \A u \in Tasks : u # t => task'[u] = task[u]
               /\ task'[t].kind = kind /\ task'[t].pc = pc /\ task'[t].app = a
               /\ task'[t].cid = c /\ task'[t].name = m /\ task'[t].to = to
    BY <1>0, <2>4, <2>8 DEF Handle, IInv, TypeOK
  <2>9. ASSUME row' = row
        PROVE  /\ row'[a].name = m /\ row'[a].cid = c /\ row'[a].status = row[a].status
               /\ row'[a].status \notin {"new", "gone"}
               /\ \A b \in Apps : b # a => row'[b] = row[b]
    BY <2>1, <2>4, <2>9 DEF Present
  <2>10. CASE \E n \in Names : RenameRead(t, a, n)
    <3>1. PICK n \in Names : RenameRead(t, a, n)
      BY <2>10
    <3>2. PICK how : Handle(t, "rename", "stop_cid", a, how, n)
      BY <3>1 DEF RenameRead
    <3>3. row' = row /\ row[a].status # "removing"
      BY <3>1 DEF RenameRead
    <3>4. /\ \A u \in Tasks : u # t => task'[u] = task[u]
          /\ task'[t].kind = "rename" /\ task'[t].pc = "stop_cid" /\ task'[t].app = a
          /\ task'[t].cid = c /\ task'[t].to \in Names
      BY <2>8, <3>2
    <3>5. AtRest(a)' /\ row'[a].cid = c /\ row'[a].status # "removing"
      BY <2>7, <2>9, <3>3
    <3>6. AtWork(t)'
      BY <3>4, <3>5 DEF AtWork
    <3> QED  BY <1>2, <2>6, <2>9, <3>3, <3>4, <3>6
  <2>11. CASE StopApp(t, a)
    <3>1. /\ Handle(t, "stop", "stop_cid", a, "stop", NoName)
          /\ row' = row /\ row[a].status # "removing"
      BY <2>11 DEF StopApp
    <3>2. /\ \A u \in Tasks : u # t => task'[u] = task[u]
          /\ task'[t].kind = "stop" /\ task'[t].pc = "stop_cid" /\ task'[t].app = a
          /\ task'[t].cid = c /\ task'[t].name = m
      BY <2>8, <3>1
    <3>3. AtRest(a)' /\ row'[a].cid = c /\ row'[a].name = m /\ row'[a].status # "removing"
      BY <2>7, <2>9, <3>1
    <3>4. AtWork(t)'
      BY <3>2, <3>3 DEF AtWork
    <3> QED  BY <1>2, <2>6, <2>9, <3>1, <3>2, <3>4
  <2>12. CASE \E how \in {"reload", "update", "oauth"} : ReloadRead(t, a, how)
    <3>1. PICK how \in {"reload", "update", "oauth"} : ReloadRead(t, a, how)
      BY <2>12
    <3>2. PICK pc \in {"claim", "pull"} : Handle(t, "reload_req", pc, a, how, NoName)
      BY <3>1 DEF ReloadRead
    <3>3. row' = row /\ row[a].status # "removing"
      BY <3>1 DEF ReloadRead
    <3>4. /\ \A u \in Tasks : u # t => task'[u] = task[u]
          /\ task'[t].kind = "reload_req" /\ task'[t].pc = pc /\ task'[t].app = a
          /\ task'[t].cid = c
      BY <2>8, <3>2
    <3>5. AtRest(a)' /\ row'[a].cid = c /\ row'[a].status # "removing"
      BY <2>7, <2>9, <3>3
    <3>6. AtWork(t)'
      BY <3>4, <3>5 DEF AtWork
    <3> QED  BY <1>2, <2>6, <2>9, <3>3, <3>4, <3>6
  <2>13. CASE RemoveApp(t, a)
    <3>1. \/ Update(a, "removing", c, "none") /\ Spawn(t, "remove", "read", a)
          \/ Update(a, "error", c, "other") /\ task' = task
      BY <2>4, <2>13 DEF RemoveApp, Orderly
    <3>2. /\ \A b \in Apps : b # a => row'[b] = row[b]
          /\ row'[a].name = m /\ row'[a].cid = c /\ row'[a].status \in {"removing", "error"}
      BY <1>0, <2>1, <2>4, <3>1, UpdateRow, UpdateFields
    <3>3. AtRest(a)'
      BY <2>7, <3>2
    <3>4. /\ \A u \in Tasks : u # t => task'[u] = task[u]
          /\ \/ task'[t].kind = "remove" /\ task'[t].pc = "read" /\ task'[t].app = a
             \/ task'[t].kind = "idle"
      BY <1>0, <1>2, <3>1 DEF Spawn, Idle, IInv, TypeOK
    <3>5. task'[t].kind # "idle" => AtWork(t)'
      BY <3>3, <3>4 DEF AtWork
    <3> QED  BY <1>2, <2>6, <3>2, <3>3, <3>4, <3>5
  <2> QED  BY <1>1, <1>6, <2>10, <2>11, <2>12, <2>13
<1> QED  BY <1>5, <1>6

\* Boot recovery finds the app it has queued 'starting'.
LEMMA RecoverAgrees ==
    ASSUME PatientInv, IdsNeverCross, Containers, NEW t \in Tasks, NEW a \in Apps, RecoverNext(t, a)
    PROVE  Containers' /\ podman' = podman
<1>0. IInv /\ Roles /\ OneWorker /\ Placed
  BY DEF PatientInv, RInv, Containers
<1>1. /\ task[t] = Idle /\ UNCHANGED <<row, podman, router, seen>>
      /\ router \in {"recovering", "up", "draining"}
      /\ queue[a].wait # "no" /\ queue'[a].wait = "no"
      /\ \A b \in Apps : b # a => queue'[b] = queue[b]
      /\ \A u \in Tasks : u # t => task'[u] = task[u]
      /\ task'[t].kind = "recover" /\ task'[t].pc \in {"start", "restart"} /\ task'[t].app = a
  <2>1. UNCHANGED <<row, podman, router, seen>>
    BY DEF RecoverNext
  <2> QED  BY <1>0, <2>1, RecoverSteps
<1>2. /\ row[a].status = "starting"
      /\ Present(a) /\ \A u \in Tasks : Works(u) => task[u].app # a
  BY <1>0, <1>1 DEF Containers, OneWorker
<1>3. \A u \in Tasks : task[u].kind # "idle" => task[u].app # a
  <2>1. \A u \in Tasks : task[u].kind # "idle" => Works(u)
    BY DEF Containers, AtWork, Works
  <2> QED  BY <1>2, <2>1
<1>4. AtWork(t)'
  BY <1>1, <1>2 DEF AtWork, Transient
<1>5. OnlyOf(a) /\ \A n \in Names : podman'[n].app = a => row[a].name = n
  BY <1>0, <1>1 DEF OnlyOf, Placed
<1>6. Containers'
  BY <1>0, <1>1, <1>2, <1>3, <1>4, <1>5, AppStep DEF Idle
<1> QED  BY <1>1, <1>6

\* A row that goes back to 'starting' with the container id it has disturbs
\* nobody but a rename that has parked its app.
LEMMA StartingWork ==
    ASSUME NEW t \in Tasks, AtWork(t), task'[t] = task[t], podman' = podman,
           NEW b \in Apps, b = task[t].app,
           row'[b].cid = row[b].cid, row'[b].name = row[b].name,
           \/ row'[b].status = row[b].status
           \/ row'[b].status = "starting" /\ task[t].pc # "dirs"
    PROVE  AtWork(t)'
<1>1. task'[t].app = b
  OBVIOUS
<1>2. /\ Bare(b) => Bare(b)'
      /\ AtRest(b) => AtRest(b)'
  BY DEF Bare, AtRest, Named, Live
<1>3. PICK c, d : c = row[b].cid /\ d = task[t].cid
  OBVIOUS
<1>4. /\ row'[b].cid = c /\ task'[t].cid = d
      /\ Named(b, c) => Named(b, c)'
      /\ Named(b, d) => Named(b, d)'
      /\ Live(c) => Live(c)'
      /\ Live(d) => Live(d)'
  BY <1>3 DEF Named, Live
<1> QED  BY <1>1, <1>2, <1>3, <1>4 DEF AtWork, Named, Live, Transient

\* An app nobody is to look at again is at rest at every moment.
LEMMA AlwaysLeft ==
    ASSUME PatientInv, Containers, NEW b \in Apps
    PROVE  Left(b)
<1> SUFFICES ASSUME row[b].status \notin Recoverable
             PROVE  AtRest(b)
  BY DEF Left
<1>1. CASE Cold(b)
  BY <1>1 DEF Containers, Left
<1>2. CASE ~Cold(b) /\ NoTaskOf(b)
  <2>1. queue[b].wait = "no"
    BY DEF Containers, Recoverable, Transient
  <2> QED  BY <1>2, <2>1 DEF Containers
<1>3. CASE ~NoTaskOf(b)
  <2>1. PICK t \in Tasks : task[t].kind # "idle" /\ task[t].app = b
    BY <1>3 DEF NoTaskOf
  <2>2. AtWork(t) /\ Fits(task[t].kind, task[t].pc) /\ task[t] \in Task
    BY <2>1, WorkFacts
  <2>3. row[b].status \notin {"running", "starting"} /\ row[b].status \notin Transient
    BY DEF Recoverable, Transient
  <2>4. AtRest(b) \/ Bare(b)
    BY <2>1, <2>2, <2>3 DEF AtWork, Fits, Task, Pcs, LaunchPcs
  <2> QED  BY <2>3, <2>4, BareNamed DEF AtRest
<1> QED  BY <1>1, <1>2, <1>3

\* The process ends.
LEMMA ExitAgrees ==
    ASSUME PatientInv, Containers, Exit
    PROVE  Containers'
<1>0. IInv /\ Placed
  BY DEF PatientInv, RInv, Containers
<1>1. /\ router' = "down" /\ \A t \in Tasks : task'[t].kind = "idle"
      /\ \A b \in Apps : queue'[b].wait = "no"
      /\ \A n \in Names : podman'[n] \in {podman[n], Free}
  BY DEF Exit, Idle, NotQueued
<1>2. \A b \in Apps : /\ row'[b].status = row[b].status /\ row'[b].name = row[b].name
                      /\ row'[b].cid = row[b].cid /\ ~row'[b].fresh
  BY <1>0 DEF Exit, IInv, TypeOK, Row
<1>3. \A n \in Names, b \in Apps : podman'[n].app = b => podman'[n] = podman[n]
  BY <1>1, ConstantsAssumption DEF Free
<1>4. Placed'
  BY <1>0, <1>2, <1>3 DEF Placed, Present
<1>5. FirstRows'
  BY <1>1, <1>2 DEF FirstRows
<1>6. ASSUME NEW b \in Apps
      PROVE  Left(b)' /\ Cold(b)'
  <2>1. Left(b)
    BY AlwaysLeft
  <2>2. Left(b)'
    BY <1>2, <1>3, <2>1 DEF Left, AtRest, Named, Bare, Recoverable
  <2> QED  BY <1>1, <2>2 DEF Cold
<1> QED  BY <1>1, <1>4, <1>5, <1>6 DEF Containers

\* A domain promotion hands the apps over as they are.
LEMMA PromoteAgrees ==
    ASSUME PatientInv, Containers, Promote
    PROVE  Containers' /\ podman' = podman
<1>0. IInv /\ Placed
  BY DEF PatientInv, RInv, Containers
<1>1. /\ router = "up" /\ router' = "draining" /\ UNCHANGED <<podman, task, queue>>
      /\ \A b \in Apps : row[b].status \notin Busy
  BY DEF Promote
<1>2. \A b \in Apps :
        /\ row'[b].name = row[b].name /\ row'[b].cid = row[b].cid
        /\ \/ row'[b].status = row[b].status
           \/ row'[b].status = "starting" /\ row[b].status \in {"running", "error"}
  BY <1>0 DEF Promote, IInv, TypeOK, Row
<1>3. Placed'
  BY <1>0, <1>1, <1>2 DEF Placed, Present
<1>4. FirstRows' /\ \A b \in Apps : ~Cold(b) /\ ~Cold(b)'
  BY <1>1 DEF FirstRows, Cold
<1>5. ASSUME NEW t \in Tasks, task'[t].kind # "idle"
      PROVE  AtWork(t)'
  <2>1. PICK b \in Apps : b = task[t].app
    BY <1>1, <1>5, WorkFacts
  <2>2. AtWork(t)
    BY <1>1, <1>5 DEF Containers
  <2>3. task[t].pc = "dirs" => row[b].status = "stopped"
    BY <2>1, <2>2 DEF AtWork
  <2> QED  BY <1>1, <1>2, <2>1, <2>2, <2>3, StartingWork
<1>6. ASSUME NEW b \in Apps
      PROVE  /\ queue'[b].wait # "no" => row'[b].status = "starting"
             /\ queue'[b].wait = "no" /\ NoTaskOf(b)' => AtRest(b)'
  <2>1. queue[b].wait # "no" => row[b].status = "starting"
    BY DEF Containers
  <2>2. queue[b].wait = "no" /\ NoTaskOf(b) => AtRest(b)
    BY <1>4 DEF Containers
  <2>3. AtRest(b) => AtRest(b)'
    BY <1>1, <1>2 DEF AtRest, Named, Bare, Live
  <2> QED  BY <1>1, <1>2, <2>1, <2>2, <2>3 DEF NoTaskOf
<1> QED  BY <1>1, <1>3, <1>4, <1>5, <1>6 DEF Containers

\* The boot check reads the table.
LEMMA ReadAgrees ==
    ASSUME PatientInv, Containers, CheckRead
    PROVE  Containers' /\ podman' = podman
<1>0. IInv /\ Roles /\ Early /\ OneWorker /\ Placed /\ FirstRows
  BY DEF PatientInv, RInv, Containers
<1>1. /\ router \in {"down", "setup"} /\ router' = "booting" /\ seen' = row
      /\ UNCHANGED <<row, podman, task, queue>>
  BY DEF CheckRead
<1>2. Placed'
  BY <1>0, <1>1 DEF Placed, Present
<1>3. ASSUME NEW b \in Apps, ~row[b].fresh, NEW t \in Tasks, Works(t), task[t].app = b
      PROVE  FALSE
  BY <1>0, <1>1, <1>3 DEF Early, Works, OneWorker, FirstRows
<1>4. FirstRows'
  BY <1>0, <1>1, <1>3 DEF FirstRows, Works
<1>5. ASSUME NEW t \in Tasks, task'[t].kind # "idle"
      PROVE  AtWork(t)'
  <2>1. PICK b \in Apps : b = task[t].app
    BY <1>1, <1>5, WorkFacts
  <2>2. AtWork(t)
    BY <1>1, <1>5 DEF Containers
  <2> QED  BY <1>1, <2>1, <2>2, StartingWork
<1>6. ASSUME NEW b \in Apps
      PROVE  IF Cold(b)' THEN Left(b)' ELSE queue'[b].wait = "no" /\ NoTaskOf(b)' => AtRest(b)'
  <2>1. AtRest(b) => AtRest(b)'
    BY <1>1 DEF AtRest, Named, Bare, Live
  <2>2. Left(b) => Left(b)'
    BY <1>1, <2>1 DEF Left
  <2>3. Left(b)
    BY AlwaysLeft
  <2>4. ~Cold(b)' => ~Cold(b)
    BY <1>0, <1>1 DEF Cold, FirstRows
  <2> QED  BY <1>1, <2>1, <2>2, <2>3, <2>4 DEF Containers, NoTaskOf
<1> QED  BY <1>1, <1>2, <1>4, <1>5, <1>6 DEF Containers

\* An app with a live container under the id its row has, has no other.
LEMMA LiveNamed ==
    ASSUME IInv, IdsNeverCross, Placed, NEW b \in Apps, Live(row[b].cid)
    PROVE  Named(b, row[b].cid)
<1>1. PICK n \in Names : podman[n].cid = row[b].cid /\ row[b].cid # NoCid
  BY DEF Live
<1>2. /\ podman[n].app \in Apps /\ row[b].cid \in Cids
      /\ podman[n] = [cid |-> row[b].cid, app |-> podman[n].app]
  BY <1>1, PodmanTyped
<1>3. Holds(row[b].cid, podman[n].app) /\ Holds(row[b].cid, b)
  BY <1>2 DEF Holds
<1>4. podman[n].app = b
  BY <1>2, <1>3 DEF IdsNeverCross
<1>5. \A m \in Names : podman[m].app = b => m = n
  BY <1>4 DEF Placed
<1> QED  BY <1>1, <1>5 DEF Named

\* The boot check leaves an app as it is, relaunches it, or takes it for running
\* because its container is.
LEMMA CheckAgrees ==
    ASSUME Orderly, PatientInv, PatientInv', IdsNeverCross, Containers, CheckWrite
    PROVE  Containers' /\ podman' = podman
<1>0. IInv /\ Roles /\ Early /\ OneWorker /\ Placed /\ FirstRows /\ OneWorker'
  BY DEF PatientInv, RInv, Containers
<1>1. PICK rebuild, lost \in SUBSET Apps :
        /\ "repo" \in Faults \/ lost = {}
        /\ row' = [a \in Apps |-> IF Present(a) THEN Recovered(a, lost) ELSE row[a]]
        /\ queue' = [a \in Apps |->
              IF Verdict(a, lost) = "recover"
              THEN [wait |-> IF Promoted(a) THEN "sync" ELSE "async",
                    build |-> seen[a].status = "building" \/ a \in rebuild]
              ELSE IF Corrupt(a, lost) THEN [wait |-> "async", build |-> TRUE]
              ELSE NotQueued]
  BY DEF CheckWrite
<1>2. lost = {}
  BY <1>1 DEF Orderly
<1>3. /\ router = "booting" /\ router' = "recovering" /\ UNCHANGED <<podman, task>>
      /\ \A a \in Apps : queue[a].wait = "no"
  BY <1>0 DEF CheckWrite, Early
<1>4. ASSUME NEW a \in Apps
      PROVE  /\ Verdict(a, lost) \in {"keep", "heal", "in_flight", "recover"}
             /\ row'[a].name = row[a].name /\ row'[a].cid = row[a].cid
             /\ ~Present(a) => row'[a] = row[a] /\ queue'[a].wait = "no"
             /\ Present(a) /\ Verdict(a, lost) = "heal" =>
                    row'[a].status = "running" /\ queue'[a].wait = "no"
             /\ Present(a) /\ Verdict(a, lost) = "in_flight" =>
                    row'[a].status = "starting" /\ queue'[a].wait = "no"
             /\ Present(a) /\ Verdict(a, lost) = "recover" =>
                    row'[a].status = "starting" /\ queue'[a].wait # "no"
             /\ Present(a) /\ Verdict(a, lost) = "keep" =>
                    \/ row'[a] = row[a] /\ queue'[a].wait = "no"
                    \/ row'[a].status = "starting" /\ queue'[a].wait # "no"
  <2>1. row[a] \in Row /\ row'[a] = IF Present(a) THEN Recovered(a, lost) ELSE row[a]
    BY <1>0, <1>1 DEF IInv, TypeOK
  <2>2. Verdict(a, lost) \in {"keep", "heal", "in_flight", "recover"}
    BY <1>2 DEF Verdict
  <2>3. queue'[a] = IF Verdict(a, lost) = "recover"
                    THEN [wait |-> IF Promoted(a) THEN "sync" ELSE "async",
                          build |-> seen[a].status = "building" \/ a \in rebuild]
                    ELSE IF Corrupt(a, lost) THEN [wait |-> "async", build |-> TRUE]
                    ELSE NotQueued
    BY <1>1
  <2>4. Corrupt(a, lost) => Verdict(a, lost) = "keep"
    BY DEF Corrupt
  <2>5. /\ Verdict(a, lost) = "heal" => Recovered(a, lost) = [row[a] EXCEPT !.status = "running"]
        /\ Verdict(a, lost) \in {"in_flight", "recover"} =>
               Recovered(a, lost) = [row[a] EXCEPT !.status = "starting"]
        /\ Verdict(a, lost) = "keep" /\ Corrupt(a, lost) =>
               Recovered(a, lost) = [row[a] EXCEPT !.status = "starting", !.err = "none"]
        /\ Verdict(a, lost) = "keep" /\ ~Corrupt(a, lost) => Recovered(a, lost) = row[a]
    BY <2>4 DEF Recovered
  <2>6. /\ row'[a].name = row[a].name /\ row'[a].cid = row[a].cid
        /\ Present(a) /\ Verdict(a, lost) = "heal" => row'[a].status = "running"
        /\ Present(a) /\ Verdict(a, lost) \in {"in_flight", "recover"} => row'[a].status = "starting"
        /\ Present(a) /\ Corrupt(a, lost) => row'[a].status = "starting"
        /\ Present(a) /\ Verdict(a, lost) = "keep" /\ ~Corrupt(a, lost) => row'[a] = row[a]
    BY <2>1, <2>2, <2>4, <2>5 DEF Row
  <2>7. /\ Verdict(a, lost) = "recover" \/ Corrupt(a, lost) => queue'[a].wait # "no"
        /\ Verdict(a, lost) # "recover" /\ ~Corrupt(a, lost) => queue'[a].wait = "no"
    BY <2>3 DEF NotQueued
  <2>8. ~Present(a) => row'[a] = row[a] /\ queue'[a].wait = "no"
    <3>1. ~Present(a) => row'[a] = row[a]
      BY <2>1
    <3>2. queue'[a].wait # "no" => row'[a].status \notin {"new", "gone"}
      BY <1>0 DEF OneWorker, Present
    <3> QED  BY <3>1, <3>2 DEF Present
  <2> QED  BY <2>2, <2>4, <2>6, <2>7, <2>8
<1>5. ASSUME NEW a \in Apps, row[a].fresh
      PROVE  ~Cold(a) /\ Verdict(a, lost) # "heal"
  <2>1. seen[a].status = "building" => seen[a].cid = NoCid
    BY <1>0, <1>3, <1>5 DEF FirstRows
  <2>2. Verdict(a, lost) # "heal"
    BY <1>2, <2>1 DEF Verdict
  <2> QED  BY <1>3, <1>5, <2>2 DEF Cold
<1>6. ASSUME NEW a \in Apps, ~row[a].fresh
      PROVE  /\ seen[a] = row[a] /\ ~InFlight(a) /\ Left(a)
             /\ \A t \in Tasks : Works(t) => task[t].app # a
  <2>1. seen[a] = row[a] /\ \A t \in Tasks : Works(t) => task[t].app # a
    BY <1>0, <1>3, <1>6 DEF FirstRows
  <2> QED  BY <1>6, <2>1, AlwaysLeft DEF InFlight
<1>7. ASSUME NEW a \in Apps, queue'[a].wait = "no", NoTaskOf(a)
      PROVE  AtRest(a)'
  <2>1. CASE ~Present(a)
    <3>1. Bare(a) /\ row'[a] = row[a]
      BY <1>0, <1>4, <2>1 DEF Placed, Bare
    <3> QED  BY <1>3, <2>1, <3>1 DEF AtRest, Named, Bare, Live, Present
  <2>2. CASE Present(a) /\ row[a].fresh
    <3>1. AtRest(a)
      BY <1>3, <1>5, <1>7, <2>2 DEF Containers
    <3>2. row'[a].cid = row[a].cid /\ (row'[a].status = row[a].status \/ row'[a].status = "starting")
      BY <1>4, <1>5, <1>7, <2>2
    <3> QED  BY <1>3, <3>1, <3>2 DEF AtRest, Named, Bare, Live
  <2>3. CASE Present(a) /\ ~row[a].fresh
    <3>1. seen[a] = row[a] /\ ~InFlight(a) /\ Left(a)
      BY <1>6, <2>3
    <3>2. CASE Verdict(a, lost) = "keep"
      <4>1. row'[a] = row[a]
        BY <1>4, <1>7, <2>3, <3>2
      <4>2. row[a].status \notin Recoverable \/ (row[a].status = "running" /\ Live(row[a].cid))
        BY <3>1, <3>2 DEF Verdict
      <4>3. AtRest(a)
        BY <1>0, <3>1, <4>2, LiveNamed DEF Left, AtRest
      <4> QED  BY <1>3, <4>1, <4>3 DEF AtRest, Named, Bare, Live
    <3>3. CASE Verdict(a, lost) = "heal"
      <4>1. row'[a].status = "running" /\ row'[a].cid = row[a].cid
        BY <1>4, <2>3, <3>3
      <4>2. Live(row[a].cid)
        BY <3>1, <3>3 DEF Verdict
      <4>3. Named(a, row[a].cid)
        BY <1>0, <4>2, LiveNamed
      <4> QED  BY <1>3, <4>1, <4>2, <4>3 DEF AtRest, Named, Live
    <3>4. Verdict(a, lost) # "in_flight"
      BY <3>1 DEF Verdict
    <3> QED  BY <1>4, <1>7, <2>3, <3>2, <3>3, <3>4
  <2> QED  BY <2>1, <2>2, <2>3
<1>8. ASSUME NEW t \in Tasks, task'[t].kind # "idle"
      PROVE  AtWork(t)'
  <2>1. PICK a \in Apps : a = task[t].app
    BY <1>3, <1>8, WorkFacts
  <2>2. AtWork(t) /\ Works(t) /\ Present(a) /\ task[t].kind # "rename" /\ task[t].pc # "dirs"
    BY <1>0, <1>3, <1>8, <2>1, WorkFacts DEF Early, Fits
  <2>3. row[a].fresh
    BY <1>6, <2>1, <2>2
  <2>4. row'[a].status = row[a].status \/ row'[a].status = "starting"
    BY <1>4, <1>5, <2>2, <2>3
  <2> QED  BY <1>3, <1>4, <2>1, <2>2, <2>4, StartingWork
<1>9. Placed'
  <2>1. \A a \in Apps : Present(a)' <=> Present(a)
    BY <1>4 DEF Present
  <2> QED  BY <1>0, <1>3, <1>4, <2>1 DEF Placed, Present
<1>10. FirstRows' /\ \A a \in Apps : ~Cold(a)'
  BY <1>3 DEF FirstRows, Cold
<1>11. ASSUME NEW a \in Apps, queue'[a].wait # "no"
       PROVE  row'[a].status = "starting"
  BY <1>4, <1>11
<1>12. \A a \in Apps : NoTaskOf(a)' => NoTaskOf(a)
  BY <1>3 DEF NoTaskOf
<1> QED  BY <1>3, <1>7, <1>8, <1>9, <1>10, <1>11, <1>12 DEF Containers

\* Whoever takes a container down is at work for its app.
OwnStep ==
    \A n \in Names :
        podman[n] # Free /\ podman'[n] # podman[n] /\ router' # "down"
        => \E t \in Tasks : task[t].app = podman[n].app /\ task'[t] # task[t]

\* A task's step that touches containers of the task's app only.
LEMMA OwnStepOf ==
    ASSUME IInv, NEW t \in Tasks, OnlyOf(task[t].app), task'[t] # task[t]
    PROVE  OwnStep
  BY PodmanTyped, ConstantsAssumption DEF OwnStep, OnlyOf, Free

\* The steps of the threads, together.
LEMMA ThreadAgrees ==
    ASSUME Orderly, PatientInv, IdsNeverCross, Containers, NEW t \in Tasks, ThreadStep(t)
    PROVE  Containers' /\ OwnStep
<1>1. IInv
  BY DEF PatientInv, RInv
<1>2. CASE ClearStale(t) \/ RunContainer(t)
  BY <1>1, <1>2, RunAgrees, OwnStepOf
<1>3. CASE StopAppProcess(t) \/ StopByName(t)
  BY <1>1, <1>3, StopAgrees, OwnStepOf
<1>4. CASE StopWrite(t) \/ GuardWrite(t) \/ RemoveRead(t) \/ RemoveDelete(t) \/ RenameMark(t)
  <2>1. podman' = podman
    BY <1>4 DEF StopWrite, GuardWrite, RemoveRead, RemoveDelete, RenameMark
  <2> QED  BY <1>4, <2>1, HandlerAgrees DEF OwnStep
<1>5. CASE RecordFails(t)
  BY <1>5 DEF RecordFails, Orderly
<1>6. CASE \/ ReloadSync(t) \/ StartAppProcess(t) \/ RestartAppProcess(t) \/ Build(t)
           \/ ReadImageRow(t) \/ MarkLaunch(t) \/ RunFails(t) \/ RecordContainer(t)
           \/ WaitForReady(t) \/ LaunchDone(t) \/ LaunchFailed(t)
  <2>1. podman' = podman
    BY <1>6
    DEF ReloadSync, StartAppProcess, RestartAppProcess, Build, ReadImageRow, MarkLaunch,
        RunFails, RecordContainer, WaitForReady, LaunchDone, LaunchFailed
  <2> QED  BY <1>6, <2>1, LaunchAgrees DEF OwnStep
<1>7. CASE LaunchFailureLost(t)
  BY <1>7 DEF LaunchFailureLost, Orderly
<1> QED  BY <1>2, <1>3, <1>4, <1>5, <1>6, <1>7 DEF ThreadStep

\* The inductive invariant of the two theorems.
AgreeInv == PatientInv /\ IdsNeverCross /\ Containers

\* Every step of the router keeps it, and takes down no stranger's container.
LEMMA AgreeNext ==
    ASSUME Orderly
    PROVE  AgreeInv /\ [Next]_vars => AgreeInv' /\ OwnStep
<1> SUFFICES ASSUME AgreeInv, [Next]_vars
             PROVE  AgreeInv' /\ OwnStep
  OBVIOUS
<1>0. PatientInv /\ IdsNeverCross /\ Containers /\ PatientInv' /\ IdsNeverCross'
  BY PatientNext, IdsNext DEF AgreeInv, Orderly, PatientInv, RInv
<1>1. ASSUME podman' = podman
      PROVE  OwnStep
  BY <1>1 DEF OwnStep
<1>2. CASE \E t \in Tasks : ThreadStep(t)
  BY <1>0, <1>2, ThreadAgrees DEF AgreeInv
<1>3. CASE \E t \in Tasks : LoopStep(t)
  <2>1. podman' = podman
    BY <1>3 DEF LoopStep, Pull, Claim, SpawnReload, RenameUndo, RenameWrite
  <2> QED  BY <1>0, <1>1, <1>3, <2>1, LoopAgrees DEF AgreeInv
<1>4. CASE \E t \in Tasks : Request(t)
  BY <1>0, <1>1, <1>4, RequestAgrees DEF AgreeInv
<1>5. CASE \E t \in Tasks, a \in Apps : RecoverNext(t, a)
  BY <1>0, <1>1, <1>5, RecoverAgrees DEF AgreeInv
<1>6. CASE Exit
  <2>1. router' = "down"
    BY <1>6 DEF Exit
  <2> QED  BY <1>0, <1>6, <2>1, ExitAgrees DEF AgreeInv, OwnStep
<1>7. CASE Promote
  BY <1>0, <1>1, <1>7, PromoteAgrees DEF AgreeInv
<1>8. CASE CheckRead
  BY <1>0, <1>1, <1>8, ReadAgrees DEF AgreeInv
<1>9. CASE CheckWrite
  BY <1>0, <1>1, <1>9, CheckAgrees DEF AgreeInv
<1>10. CASE Serve \/ UNCHANGED vars
  <2>1. UNCHANGED <<row, podman, task, queue, seen>>
    BY <1>10 DEF Serve, vars
  <2>2. router' = router \/ (router = "recovering" /\ router' = "up")
    BY <1>10 DEF Serve, vars
  <2>3. \A t \in Tasks : AtWork(t) => AtWork(t)'
    BY <2>1 DEF AtWork, AtRest, Bare, Named, Live
  <2>4. \A b \in Apps : /\ Left(b) => Left(b)'
                        /\ AtRest(b) => AtRest(b)'
                        /\ Cold(b)' <=> Cold(b)
                        /\ NoTaskOf(b)' <=> NoTaskOf(b)
    BY <2>1, <2>2 DEF Left, AtRest, Bare, Named, Live, Cold, NoTaskOf
  <2>5. Placed' /\ FirstRows'
    BY <1>0, <2>1, <2>2 DEF Containers, Placed, FirstRows, Present, Works
  <2>6. Containers'
    BY <1>0, <2>1, <2>3, <2>4, <2>5 DEF Containers
  <2> QED  BY <1>0, <1>1, <2>1, <2>6 DEF AgreeInv
<1> QED
  BY <1>2, <1>3, <1>4, <1>5, <1>6, <1>7, <1>8, <1>9, <1>10 DEF Next

\* When nothing is in flight for an app, its row and podman tell one story: a
\* running row has its container, and a container that is up is the one its row
\* names, under its row's name and not behind a 'stopped'.  Stops, removals,
\* reloads, renames, promotions, crashes, failed launches and the boot check
\* that repairs what they leave keep it so, where the owner waits for each
\* answer and podman, the database and the builds do not fail.
THEOREM TableAgrees ==
    ASSUME Orderly, "dirs" \notin Faults
    PROVE  Spec => []SettledAppsAgree
<1>1. AgreeInv => SettledAppsAgree
  <2> SUFFICES ASSUME AgreeInv, router = "up", NEW a \in Apps, Quiet(a)
               PROVE  Agree(a)
    BY DEF SettledAppsAgree
  <2>1. AtRest(a) /\ Placed
    BY DEF AgreeInv, Containers, Cold, Quiet, On, NoTaskOf
  <2> QED  BY <2>1 DEF AtRest, Placed, Agree, Named, Bare
<1>2. Init => AgreeInv
  BY InitPatient, InitIds, InitContainers DEF AgreeInv
<1> QED  BY <1>1, <1>2, AgreeNext, PTL DEF Spec

\* And no container is taken down but for its own app: by the id a handler read
\* some steps ago (stop_app_process), or by a container name, which run_container
\* and the stop route trust to be still their app's.
THEOREM OwnContainers ==
    ASSUME Orderly
    PROVE  Spec => OwnContainersOnly
<1>1. Init => AgreeInv
  BY InitPatient, InitIds, InitContainers DEF AgreeInv
<1>2. AgreeInv /\ [Next]_vars => [OwnStep]_vars
  BY AgreeNext
<1> QED  BY <1>1, <1>2, AgreeNext, PTL DEF Spec, OwnContainersOnly, OwnStep

=============================================================================
