--------------------------- MODULE ArchiveProofs ---------------------------
(* Proofs about ArchiveMigration: types, and that objects are reclaimed only  *)
(* where row, volume and mount no longer look, for any number of buckets,     *)
(* files and apps, any faults, and an owner who starts and stops apps         *)
(* during a migration as well; and for an owner who leaves them alone, that   *)
(* only apps given up as 'error' write behind the copy, that no other file is *)
(* lost, and that all others stay readable.                                   *)
EXTENDS ArchiveMigration, TLAPS

-----------------------------------------------------------------------------
(* The inductive invariant *)

\* A store is what the row's backend says, and a migration goes to a bucket.
RowsMatch ==
    /\ db.backend = "local" => db.store = Local
    /\ ~At("idle") => mig.to \in Buckets
    /\ mig.from.backend = "local" => mig.from.store = Local
    /\ ~At("idle") /\ mig.from.backend = "s3" => mig.from.volume = mig.volume

\* Nothing but a migration under way writes the volume's storage or the row.
OneMigration == router = "down" => At("idle")

\* From the re-point on the volume is on the destination, from the remount on
\* the mount is, and from the commit on the row is.
Moved ==
    /\ mig.pc \in {"umount", "remount", "commit", "reclaim"} => meta.store = mig.to
    /\ mig.pc \in {"remount", "commit", "reclaim"} /\ mig.from.backend # "disabled" =>
           fuse \in {Down, mig.to}
    /\ At("reclaim") => db.store = mig.to /\ mig.from.backend # "disabled"

IInv == TypeOK /\ RowsMatch /\ OneMigration /\ Moved

\* No object is deleted.
Kept == \A s \in Stores, v \in Volumes : objs[s][v] \subseteq objs'[s][v]

\* The router starts with nothing under way.
LEMMA InitInv == Init => IInv
<1> SUFFICES ASSUME Init
             PROVE  IInv
  OBVIOUS
<1>1. FreshRow \in Backend /\ FreshRow.store = Local /\ FreshRow.backend = "local"
  BY DEF FreshRow, Backend, Stores, Volumes
<1>2. db \in Backend /\ (db.backend = "local" => db.store = Local)
  BY <1>1 DEF Init, FreshRow, Backend
<1>3. mig \in Migration /\ mig.pc = "idle" /\ mig.from = FreshRow
  BY <1>1 DEF Init, Migration, Pcs, Stores, Volumes
<1>4. meta \in [formatted : BOOLEAN, store : Stores, volume : Volumes]
  <2>1. PICK zone \in Zones :
          meta = [formatted |-> zone = "legacy", store |-> Local, volume |-> Legacy]
    BY DEF Init
  <2>2. CASE zone = "legacy"
    BY <2>1, <2>2 DEF Stores, Volumes
  <2>3. CASE zone # "legacy"
    BY <2>1, <2>3 DEF Stores, Volumes
  <2> QED  BY <2>2, <2>3
<1>5. TypeOK
  BY <1>2, <1>3, <1>4 DEF Init, TypeOK
<1> QED  BY <1>1, <1>2, <1>3, <1>5 DEF IInv, RowsMatch, OneMigration, Moved, At

\* A migration that goes on keeps what it has in hand.
LEMMA GotoFields ==
    ASSUME mig \in Migration, NEW pc \in Pcs, Goto(pc)
    PROVE  /\ mig' \in Migration /\ mig'.pc = pc
           /\ mig'.from = mig.from /\ mig'.to = mig.to /\ mig'.volume = mig.volume
  BY DEF Goto, Migration

\* One that fails goes to the undo.
LEMMA FailFields ==
    ASSUME mig \in Migration, Fail
    PROVE  /\ mig' \in Migration /\ mig'.pc \in {"undo_point", "undo_umount"}
           /\ mig'.from = mig.from /\ mig'.to = mig.to /\ mig'.volume = mig.volume
<1> DEFINE pc == IF mig.from.backend = "disabled" THEN "undo_umount" ELSE "undo_point"
<1>1. pc \in Pcs /\ pc \in {"undo_point", "undo_umount"} /\ Goto(pc)
  BY DEF Fail, Pcs
<1> QED  BY <1>1, GotoFields

\* One that is over has nothing in hand.
LEMMA OverFields ==
    ASSUME mig \in Migration, mig' = NoMigration
    PROVE  mig' \in Migration /\ mig'.pc = "idle" /\ mig'.from = mig.from
  BY DEF NoMigration, Migration, Pcs

-----------------------------------------------------------------------------
(* The steps *)

\* Apps come and go, and write where the mount is: nothing the migration has in
\* hand changes.
LEMMA AppInv ==
    ASSUME IInv, NEW a \in Apps, AppStep(a)
    PROVE  IInv' /\ Kept
<1> USE DEF IInv, TypeOK, Kept
<1>1. CASE \E f \in Files : Write(a, f)
  <2>1. PICK f \in Files : Write(a, f)
    BY <1>1
  <2>2. fuse \in Stores /\ meta.volume \in Volumes
    BY <2>1 DEF Write
  <2>3. objs' = [objs EXCEPT ![fuse][meta.volume] = @ \cup {f}]
    BY <2>1 DEF Write
  <2>4. objs' \in [Stores -> [Volumes -> SUBSET Files]] /\ Kept
    BY <2>2, <2>3
  <2>5. behind' \subseteq Files
    BY <2>1 DEF Write
  <2> QED  BY <2>1, <2>4, <2>5 DEF Write, RowsMatch, OneMigration, Moved, At
<1>2. CASE StartApp(a) \/ Launch(a) \/ LaunchDone(a) \/ StopApp(a)
  <2>1. UNCHANGED <<db, meta, fuse, enabled, files, objs, mig, router, torn, behind>>
    BY <1>2 DEF StartApp, Launch, LaunchDone, StopApp
  <2>2. status' \in [Apps -> {"running", "starting", "stopped", "error"}]
    BY <1>2 DEF StartApp, Launch, LaunchDone, StopApp, Outcome
  <2>3. view' \in [Apps -> {"none", "archive", "dead", "bare"}]
    BY <1>2 DEF StartApp, Launch, LaunchDone, StopApp, Bound
  <2> QED  BY <2>1, <2>2, <2>3 DEF RowsMatch, OneMigration, Moved, At
<1> QED  BY <1>1, <1>2 DEF AppStep

\* A new migration: whatever the row says, it goes to a bucket, and from one
\* bucket to the next it keeps the volume's name.
LEMMA ConfigureInv ==
    ASSUME IInv, NEW b \in Buckets, NEW asked \in Prefixes, Configure(b, asked)
    PROVE  IInv' /\ Kept
<1> USE DEF IInv, TypeOK
<1>1. VolumeFor(db, asked) \in Volumes /\ (db.backend = "s3" => VolumeFor(db, asked) = db.volume)
  BY DEF VolumeFor, Backend, Volumes
<1>2. /\ mig' \in Migration /\ mig'.pc \in {"mount", "format"} /\ mig'.from = db
      /\ mig'.to = b /\ mig'.volume = VolumeFor(db, asked)
  BY <1>1 DEF Configure, Migration, Stores, Pcs
<1> QED  BY <1>1, <1>2 DEF Configure, RowsMatch, OneMigration, Moved, At, Kept

\* juicefs format writes the name of a volume once, and its store every time.
LEMMA FormatFields ==
    ASSUME TypeOK, NEW store \in Stores, NEW volume \in Volumes, FormatVolume(store, volume)
    PROVE  /\ meta' \in [formatted : BOOLEAN, store : Stores, volume : Volumes]
           /\ meta'.formatted /\ meta'.store = store
  BY DEF FormatVolume, TypeOK

\* The migration up to the sync.
LEMMA PrepareInv ==
    ASSUME IInv, Format \/ Mount \/ Quiesce
    PROVE  IInv' /\ Kept
<1> USE DEF IInv, TypeOK
<1>1. CASE Format
  <2>1. Local \in Stores /\ mig.to \in Stores /\ mig.volume \in Volumes
    BY DEF Stores, Migration
  <2>2. CASE MayFail("format") /\ meta' = meta
    BY <1>1, <2>2, FailFields DEF Format, MayFail, RowsMatch, OneMigration, Moved, At, Kept
  <2>3. CASE mig.from.backend = "disabled" /\ FormatVolume(mig.to, mig.volume) /\ Goto("remount")
    <3>1. /\ mig' \in Migration /\ mig'.pc = "remount"
          /\ mig'.from = mig.from /\ mig'.to = mig.to /\ mig'.volume = mig.volume
      BY <2>3, GotoFields DEF Pcs
    <3> QED  BY <1>1, <2>1, <2>3, <3>1, FormatFields DEF Format, RowsMatch, OneMigration, Moved, At, Kept
  <2>4. CASE mig.from.backend # "disabled" /\ Goto("mount")
             /\ (meta' = meta \/ FormatVolume(Local, mig.volume))
    <3>1. /\ mig' \in Migration /\ mig'.pc = "mount"
          /\ mig'.from = mig.from /\ mig'.to = mig.to /\ mig'.volume = mig.volume
      BY <2>4, GotoFields DEF Pcs
    <3> QED  BY <1>1, <2>1, <2>4, <3>1, FormatFields DEF Format, RowsMatch, OneMigration, Moved, At, Kept
  <2> QED  BY <1>1, <2>2, <2>3, <2>4 DEF Format
<1>2. CASE Mount
  <2>1. fuse' \in Stores \cup {Down} /\ enabled' \in BOOLEAN
    BY <1>2 DEF Mount, Mounts
  <2>2. CASE MayFail("mount")
    BY <1>2, <2>1, <2>2, FailFields DEF Mount, MayFail, RowsMatch, OneMigration, Moved, At, Kept
  <2>3. CASE At("mount") /\ Mounts /\ Goto("quiesce")
    <3>1. /\ mig' \in Migration /\ mig'.pc = "quiesce"
          /\ mig'.from = mig.from /\ mig'.to = mig.to /\ mig'.volume = mig.volume
      BY <2>3, GotoFields DEF Pcs
    <3> QED  BY <1>2, <2>1, <2>3, <3>1 DEF Mount, RowsMatch, OneMigration, Moved, At, Kept
  <2>4. CASE At("remount") /\ Mounts /\ Goto("commit")
    <3>1. /\ mig' \in Migration /\ mig'.pc = "commit"
          /\ mig'.from = mig.from /\ mig'.to = mig.to /\ mig'.volume = mig.volume
      BY <2>4, GotoFields DEF Pcs
    <3>2. mig.from.backend # "disabled" => fuse' \in {Down, mig.to}
      BY <2>4 DEF Mounts, Moved, At
    <3> QED  BY <1>2, <2>1, <2>4, <3>1, <3>2 DEF Mount, RowsMatch, OneMigration, Moved, At, Kept
  <2> QED  BY <1>2, <2>2, <2>3, <2>4 DEF Mount
<1>3. CASE Quiesce
  <2>1. /\ mig' \in Migration /\ mig'.pc \in {"sync", "undo_point"}
        /\ mig'.from = mig.from /\ mig'.to = mig.to /\ mig'.volume = mig.volume
    <3> DEFINE running == {a \in Apps : status[a] = "running"}
    <3>1. running \in SUBSET Apps
      OBVIOUS
    <3>2. PICK pc \in {"sync", "undo_point"} :
            mig' = [mig EXCEPT !.quiesced = running, !.pc = pc]
      BY <1>3 DEF Quiesce
    <3> HIDE DEF running
    <3> QED  BY <3>1, <3>2 DEF Migration, Pcs
  <2>2. view' \in [Apps -> {"none", "archive", "dead", "bare"}] /\ behind' \subseteq Files
    BY <1>3 DEF Quiesce
  <2> QED  BY <1>3, <2>1, <2>2 DEF Quiesce, RowsMatch, OneMigration, Moved, At, Kept
<1> QED  BY <1>1, <1>2, <1>3

\* The copy, and the re-point.
LEMMA MoveInv ==
    ASSUME IInv, Sync \/ Repoint
    PROVE  IInv' /\ Kept
<1> USE DEF IInv, TypeOK
<1>0. mig.to \in Stores /\ mig.volume \in Volumes /\ mig.from.store \in Stores
  BY DEF Migration, Backend
<1>1. CASE Sync
  <2>1. PICK part \in SUBSET Source : Copy(part)
    <3>1. CASE \E missed \in SUBSET behind : Copy(Source \ missed)
      BY <3>1
    <3>2. CASE \E part \in SUBSET Source : Copy(part)
      BY <3>2
    <3> QED  BY <1>1, <3>1, <3>2 DEF Sync
  <2>2. Source \subseteq Files
    BY <1>0 DEF Source
  <2>3. objs' = [objs EXCEPT ![mig.to][mig.volume] = @ \cup part]
    BY <2>1 DEF Copy
  <2>4. objs' \in [Stores -> [Volumes -> SUBSET Files]] /\ Kept
    BY <1>0, <2>1, <2>2, <2>3 DEF Kept
  <2>5. /\ mig' \in Migration /\ mig'.pc \in {"repoint", "undo_point", "undo_umount"}
        /\ mig'.from = mig.from /\ mig'.to = mig.to /\ mig'.volume = mig.volume
    BY <1>1, FailFields, GotoFields DEF Sync, MayFail, Pcs
  <2> QED  BY <1>1, <2>4, <2>5 DEF Sync, RowsMatch, OneMigration, Moved, At
<1>2. CASE Repoint
  <2>1. meta' \in [formatted : BOOLEAN, store : Stores, volume : Volumes]
    BY <1>0, <1>2 DEF Repoint
  <2>2. CASE MayFail("config")
    BY <1>2, <2>1, <2>2, FailFields DEF Repoint, MayFail, RowsMatch, OneMigration, Moved, At, Kept
  <2>3. CASE meta' = [meta EXCEPT !.store = mig.to] /\ Goto("umount")
    <3>1. /\ mig' \in Migration /\ mig'.pc = "umount"
          /\ mig'.from = mig.from /\ mig'.to = mig.to /\ mig'.volume = mig.volume
      BY <2>3, GotoFields DEF Pcs
    <3>2. meta'.store = mig.to
      BY <2>3
    <3> QED  BY <1>2, <2>1, <3>1, <3>2 DEF Repoint, RowsMatch, OneMigration, Moved, At, Kept
  <2> QED  BY <1>2, <2>2, <2>3 DEF Repoint
<1> QED  BY <1>1, <1>2

\* A mount that is gone leaves dead mounts in the containers.
LEMMA DetachedTyped ==
    ASSUME TypeOK
    PROVE  Detached \in [Apps -> {"none", "archive", "dead", "bare"}]
  BY DEF TypeOK, Detached

\* The unmount and the commit: the mount is down, and then the row follows.
LEMMA SwitchInv ==
    ASSUME IInv, Umount \/ Commit
    PROVE  IInv' /\ Kept
<1> USE DEF IInv, TypeOK
<1>1. CASE Umount
  <2>1. CASE Unmounts /\ Goto("remount")
    <3>1. /\ mig' \in Migration /\ mig'.pc = "remount"
          /\ mig'.from = mig.from /\ mig'.to = mig.to /\ mig'.volume = mig.volume
      BY <2>1, GotoFields DEF Pcs
    <3>2. meta.store = mig.to /\ fuse' = Down /\ enabled' = FALSE /\ view' = Detached
      BY <1>1, <2>1 DEF Umount, Unmounts, Moved, At
    <3> QED  BY <1>1, <3>1, <3>2, DetachedTyped DEF Umount, RowsMatch, OneMigration, Moved, At, Kept
  <2>2. CASE UNCHANGED <<fuse, enabled, view>> /\ MayFail("umount")
    BY <1>1, <2>2, FailFields DEF Umount, MayFail, RowsMatch, OneMigration, Moved, At, Kept
  <2> QED  BY <1>1, <2>1, <2>2 DEF Umount
<1>2. CASE Commit
  <2>1. CASE db' = db /\ MayFail("commit")
    BY <1>2, <2>1, FailFields DEF Commit, MayFail, RowsMatch, OneMigration, Moved, At, Kept
  <2>2. CASE /\ db' = [backend |-> "s3", store |-> mig.to, volume |-> mig.volume]
             /\ Goto(IF mig.from.backend = "disabled" THEN "restart" ELSE "reclaim")
    <3> DEFINE pc == IF mig.from.backend = "disabled" THEN "restart" ELSE "reclaim"
    <3>1. /\ mig' \in Migration /\ mig'.pc = pc
          /\ mig'.from = mig.from /\ mig'.to = mig.to /\ mig'.volume = mig.volume
      BY <2>2, GotoFields DEF Pcs
    <3>2. db' \in Backend /\ db'.store = mig.to /\ db'.backend = "s3"
      BY <2>2 DEF Backend, Migration
    <3>3. meta.store = mig.to /\ (mig.from.backend # "disabled" => fuse \in {Down, mig.to})
      BY <1>2 DEF Commit, Moved, At
    <3> QED  BY <1>2, <3>1, <3>2, <3>3 DEF Commit, RowsMatch, OneMigration, Moved, At, Kept
  <2> QED  BY <1>2, <2>1, <2>2 DEF Commit
<1> QED  BY <1>1, <1>2

\* The store a migration has left is the one that is reclaimed: row, volume and
\* mount are on the destination, and where source and destination are one
\* nothing is deleted.
LEMMA ReclaimInv ==
    ASSUME IInv, Reclaim
    PROVE  /\ IInv'
           /\ \A s \in Stores : (\E v \in Volumes : ~(objs[s][v] \subseteq objs'[s][v])) =>
                  db.store # s /\ meta.store # s /\ fuse # s
<1> USE DEF IInv, TypeOK
<1>0. mig.volume \in Volumes /\ mig.from.store \in Stores /\ Local \in Stores /\ Local \notin Buckets
  BY ArchiveAssumption DEF Migration, Backend, Stores
<1>1. /\ db.store = mig.to /\ meta.store = mig.to /\ fuse \in {Down, mig.to}
      /\ mig.to \in Buckets /\ mig.from.backend # "disabled"
  BY DEF Reclaim, RowsMatch, Moved, At
<1>2. PICK kept \in SUBSET Files :
        objs' = IF SameLocation THEN objs
                ELSE IF mig.from.store = Local
                THEN [objs EXCEPT ![Local] = [v \in Volumes |-> @[v] \cap kept]]
                ELSE [objs EXCEPT ![mig.from.store][mig.volume] = @ \cap kept]
  BY DEF Reclaim
<1>3. /\ objs' \in [Stores -> [Volumes -> SUBSET Files]]
      /\ \A s \in Stores : objs'[s] = objs[s] \/ (s = mig.from.store /\ ~SameLocation)
  <2>1. CASE SameLocation
    BY <1>2, <2>1
  <2>2. CASE ~SameLocation /\ mig.from.store = Local
    <3>1. objs' = [objs EXCEPT ![Local] = [v \in Volumes |-> @[v] \cap kept]]
      BY <1>2, <2>2
    <3> QED  BY <1>0, <2>2, <3>1
  <2>3. CASE ~SameLocation /\ mig.from.store # Local
    <3>1. objs' = [objs EXCEPT ![mig.from.store][mig.volume] = @ \cap kept]
      BY <1>2, <2>3
    <3> QED  BY <1>0, <2>3, <3>1
  <2> QED  BY <2>1, <2>2, <2>3
<1>4. ~SameLocation => mig.from.store # mig.to
  <2>1. CASE mig.from.backend = "local"
    BY <1>0, <1>1, <2>1 DEF RowsMatch
  <2>2. CASE mig.from.backend = "s3"
    BY <2>2 DEF SameLocation, RowsMatch, Reclaim, At
  <2> QED  BY <1>1, <2>1, <2>2 DEF Migration, Backend
<1>5. ASSUME NEW s \in Stores, NEW v \in Volumes, ~(objs[s][v] \subseteq objs'[s][v])
      PROVE  db.store # s /\ meta.store # s /\ fuse # s
  <2>1. s = mig.from.store /\ s # mig.to
    BY <1>3, <1>4, <1>5
  <2>2. fuse # s
    BY <1>1, <2>1, ArchiveAssumption
  <2> QED  BY <1>1, <2>1, <2>2
<1>6. /\ mig' \in Migration /\ mig'.pc = "restart"
      /\ mig'.from = mig.from /\ mig'.to = mig.to /\ mig'.volume = mig.volume
  BY GotoFields DEF Reclaim, Pcs
<1>7. IInv'
  BY <1>3, <1>6 DEF Reclaim, RowsMatch, OneMigration, Moved, At
<1> QED  BY <1>5, <1>7

\* The undo, and the restart of the quiesced apps.
LEMMA UndoInv ==
    ASSUME IInv, UndoPoint \/ UndoUmount \/ UndoMount \/ RestartApps
    PROVE  IInv' /\ Kept
<1> USE DEF IInv, TypeOK
<1>0. mig.from.store \in Stores
  BY DEF Migration, Backend
<1>1. CASE UndoPoint
  <2>1. /\ mig' \in Migration /\ mig'.pc \in {"undo_umount", "restart"}
        /\ mig'.from = mig.from /\ mig'.to = mig.to /\ mig'.volume = mig.volume
    BY <1>1, GotoFields DEF UndoPoint, Pcs
  <2>2. meta' \in [formatted : BOOLEAN, store : Stores, volume : Volumes] /\ torn' \in BOOLEAN
    BY <1>0, <1>1 DEF UndoPoint, Cut
  <2> QED  BY <1>1, <2>1, <2>2 DEF UndoPoint, RowsMatch, OneMigration, Moved, At, Kept
<1>2. CASE UndoUmount
  <2>1. /\ mig' \in Migration /\ mig'.pc \in {"undo_mount", "restart"}
        /\ mig'.from = mig.from /\ mig'.to = mig.to /\ mig'.volume = mig.volume
    BY <1>2, GotoFields DEF UndoUmount, Pcs
  <2>2. /\ fuse' \in {fuse, Down} /\ enabled' \in {enabled, FALSE} /\ view' \in {view, Detached}
        /\ torn' \in BOOLEAN
    BY <1>2 DEF UndoUmount, Unmounts, Cut
  <2> QED  BY <1>2, <2>1, <2>2, DetachedTyped DEF UndoUmount, RowsMatch, OneMigration, Moved, At, Kept
<1>3. CASE UndoMount
  <2>1. /\ mig' \in Migration /\ mig'.pc = "restart"
        /\ mig'.from = mig.from /\ mig'.to = mig.to /\ mig'.volume = mig.volume
    BY <1>3, GotoFields DEF UndoMount, Pcs
  <2>2. fuse' \in Stores \cup {Down} /\ enabled' \in BOOLEAN
    BY <1>3 DEF UndoMount
  <2> QED  BY <1>3, <2>1, <2>2 DEF UndoMount, RowsMatch, OneMigration, Moved, At, Kept
<1>4. CASE RestartApps
  <2>1. mig' \in Migration /\ mig'.pc = "idle" /\ mig'.from = mig.from
    BY <1>4, OverFields DEF RestartApps
  <2>2. /\ view' \in [Apps -> {"none", "archive", "dead", "bare"}]
        /\ status' \in [Apps -> {"running", "starting", "stopped", "error"}]
    BY <1>4 DEF RestartApps, Bound
  <2> QED  BY <1>4, <2>1, <2>2 DEF RestartApps, RowsMatch, OneMigration, Moved, At, Kept
<1> QED  BY <1>1, <1>2, <1>3, <1>4

-----------------------------------------------------------------------------
(* The machine *)

\* systemd mounts what the volume says: the destination once it is re-pointed.
LEMMA FuseInv ==
    ASSUME IInv, FuseUp \/ FuseCrash
    PROVE  IInv' /\ Kept
<1> USE DEF IInv, TypeOK
<1>1. CASE FuseUp
  BY <1>1 DEF FuseUp, RowsMatch, OneMigration, Moved, At, Kept
<1>2. CASE FuseCrash
  BY <1>2, DetachedTyped DEF FuseCrash, RowsMatch, OneMigration, Moved, At, Kept
<1> QED  BY <1>1, <1>2

\* A crash and a reboot end the migration wherever it is.
LEMMA DownInv ==
    ASSUME IInv, Crash \/ Reboot
    PROVE  IInv' /\ Kept
<1> USE DEF IInv, TypeOK
<1>1. mig' \in Migration /\ mig'.pc = "idle" /\ mig'.from = mig.from
  BY OverFields DEF Crash, Reboot
<1>2. fuse' \in {fuse, Down} /\ view' \in [Apps -> {"none", "archive", "dead", "bare"}]
  BY DEF Crash, Reboot
<1>3. torn' \in BOOLEAN /\ router' = "down" /\ UNCHANGED <<db, meta, enabled, files, objs, status, behind>>
  BY DEF Crash, Reboot, Cut
<1> QED  BY <1>1, <1>2, <1>3 DEF RowsMatch, OneMigration, Moved, At, Kept

\* The boot attaches the archive while no migration is under way.
LEMMA BootInv ==
    ASSUME IInv, Boot
    PROVE  IInv' /\ Kept
<1> USE DEF IInv, TypeOK
<1>1. At("idle")
  BY DEF Boot, OneMigration
<1>2. Local \in Stores /\ Zone \in Volumes
  BY DEF Stores, Volumes
<1>3. /\ db' \in Backend /\ db'.backend = db.backend /\ db'.store = db.store
      /\ meta' \in [formatted : BOOLEAN, store : Stores, volume : Volumes]
  <2>1. CASE UNCHANGED <<db, meta>>
    BY <2>1
  <2>2. CASE AttachLocal
    <3> DEFINE name == IF db.volume = Legacy THEN Zone ELSE db.volume
    <3>1. name \in Volumes
      BY <1>2 DEF Backend
    <3>2. db' = db \/ db' = [db EXCEPT !.volume = name]
      BY <2>2 DEF AttachLocal
    <3>3. meta' = meta \/ FormatVolume(Local, name)
      BY <2>2 DEF AttachLocal
    <3>4. db' \in Backend /\ db'.backend = db.backend /\ db'.store = db.store
      BY <3>1, <3>2 DEF Backend
    <3> QED  BY <1>2, <3>1, <3>3, <3>4, FormatFields
  <2> QED  BY <2>1, <2>2 DEF Boot, Attach
<1>4. fuse' \in Stores \cup {Down} /\ enabled' \in BOOLEAN
  BY <1>3 DEF Boot, Attach
<1>5. status' \in [Apps -> {"running", "starting", "stopped", "error"}]
  BY DEF Boot
<1> QED  BY <1>1, <1>3, <1>4, <1>5 DEF Boot, RowsMatch, OneMigration, Moved, At, Kept

-----------------------------------------------------------------------------
(* Together *)

\* What ReclaimsLast says of a step.
Reclaims == \A s \in Stores : (\E v \in Volumes : ~(objs[s][v] \subseteq objs'[s][v])) =>
                db.store # s /\ meta.store # s /\ fuse # s

\* Every step keeps the invariant, and deletes objects of a store that has been
\* left only.
LEMMA NextInv == IInv /\ [Next]_vars => IInv' /\ Reclaims
<1> SUFFICES ASSUME IInv, [Next]_vars
             PROVE  IInv' /\ Reclaims
  OBVIOUS
<1>1. ASSUME IInv', Kept
      PROVE  IInv' /\ Reclaims
  BY <1>1 DEF Kept, Reclaims
<1>2. CASE \E b \in Buckets, v \in Prefixes : Configure(b, v)
  BY <1>1, <1>2, ConfigureInv
<1>3. CASE MigrationStep
  BY <1>1, <1>3, PrepareInv, MoveInv, SwitchInv, ReclaimInv, UndoInv DEF MigrationStep, Reclaims
<1>4. CASE \E a \in Apps : AppStep(a)
  BY <1>1, <1>4, AppInv
<1>5. CASE FuseUp \/ FuseCrash \/ Crash \/ Reboot \/ Boot
  BY <1>1, <1>5, FuseInv, DownInv, BootInv
<1>6. CASE UNCHANGED vars
  BY <1>6 DEF vars, IInv, TypeOK, RowsMatch, OneMigration, Moved, At, Reclaims
<1> QED  BY <1>2, <1>3, <1>4, <1>5, <1>6 DEF Next

\* The archive's stores are well typed in every reachable state: whatever fails
\* in configure_backend and attach_on_startup, the row of archive_backend is one
\* the table admits and read_state can hand on.
THEOREM Typing == Spec => []TypeOK
<1>1. IInv => TypeOK
  BY DEF IInv
<1>2. IInv /\ [Next]_vars => IInv'
  BY NextInv
<1> QED  BY <1>1, <1>2, InitInv, PTL DEF Spec

\* configure_backend deletes objects only from a store that the row, the volume
\* and the mount have left, wherever migrations before were cut or undone, and
\* even if the owner starts and stops apps meanwhile.
THEOREM ReclaimsLeftStores == Spec => ReclaimsLast
<1>1. IInv /\ [Next]_vars => IInv'
  BY NextInv
<1>2. IInv /\ [Next]_vars => [Reclaims]_objs
  BY NextInv
<1> QED  BY <1>1, <1>2, InitInv, PTL DEF Spec, ReclaimsLast, Reclaims

-----------------------------------------------------------------------------
(* No file is lost, for an owner who leaves the apps alone during a migration *)
(* and keeps to one volume name, in a zone that never had a legacy volume:    *)
(* the other cases do lose files.                                             *)

PatientOwner == ~Overlap /\ Prefixes \subseteq {Zone} /\ "legacy" \notin Zones

Live    == \E a \in Apps : view[a] = "archive"
Full(s) == files \ behind \subseteq objs[s][Zone]

\* The volume is formatted under the zone's name, and before that there is
\* nothing in it and nobody on it.
OneName ==
    /\ meta.formatted => meta.volume = Zone
    /\ ~meta.formatted => meta.store = Local /\ fuse = Down /\ files = {} /\ ~Live
    /\ db.volume \in {Legacy, Zone} /\ (db.backend = "s3" => db.volume = Zone)
    /\ ~At("idle") => mig.volume = Zone

\* How far a migration is says what the row and the volume are.
Stages ==
    /\ mig.pc \notin {"idle", "restart", "reclaim"} => db = mig.from
    /\ At("reclaim") => db.backend = "s3"
    /\ mig.pc \in {"mount", "quiesce", "sync", "repoint", "umount", "reclaim",
                   "undo_point", "undo_mount"} => mig.from.backend # "disabled"
    /\ mig.pc \in {"quiesce", "sync", "repoint", "umount", "remount", "commit", "reclaim"} =>
           meta.formatted
    /\ mig.pc \in {"undo_umount", "undo_mount"} /\ mig.from.backend # "disabled" =>
           meta.formatted /\ meta.store = mig.from.store

\* Only an app that is to run has a container; during a migration none is being
\* started, and those to be started again are not stopped.
AppsQuiet ==
    /\ \A a \in Apps : view[a] # "none" => status[a] # "stopped"
    /\ ~At("idle") => /\ \A a \in Apps : status[a] # "starting"
                      /\ \A a \in mig.quiesced : status[a] # "stopped"

\* What was synced stays the whole of the source, but for what is written there
\* behind the copy.
Copied ==
    mig.pc \in {"repoint", "umount", "remount", "commit", "reclaim"} /\ mig.from.backend # "disabled" =>
        objs[mig.from.store][Zone] \ behind \subseteq objs[mig.to][Zone]

\* Nobody is on a mount that is being brought back.
UndoneDead == At("undo_mount") => ~Live

CopyInv == OneName /\ Stages /\ AppsQuiet /\ NoLiveWriter /\ UndoneDead /\ Copied /\ NothingLost

\* While no migration was cut: nothing is mounted on a zone without an archive,
\* row, volume and mount are on one store between migrations and until the volume
\* is pointed away, a container can write only where the row is, and each of the
\* stores they are on has every file.
Untorn ==
    /\ fuse # Down => enabled
    /\ db.backend = "disabled" =>
           /\ files = {} /\ ~Live
           /\ mig.pc \in {"idle", "format", "restart"} => ~enabled
    /\ ~At("idle") /\ mig.from.backend = "disabled" => fuse \in {Down, meta.store}
    /\ \/ At("idle") \/ At("restart")
       \/ /\ mig.pc \in {"format", "mount", "quiesce", "sync", "repoint"}
          /\ db.backend # "disabled"
       => Agreed
    /\ Live => fuse = db.store
    /\ Full(meta.store)
    /\ db.backend # "disabled" => Full(db.store)
    /\ fuse # Down => Full(fuse)

SInv == CopyInv /\ (~torn => Untorn)

\* All of it is true when the router starts.
LEMMA InitCopy == PatientOwner /\ Init => SInv
<1> SUFFICES ASSUME PatientOwner, Init
             PROVE  SInv
  OBVIOUS
<1>1. /\ db.volume = Legacy /\ db.store = Local /\ db.backend # "s3" /\ ~meta.formatted
      /\ meta.store = Local /\ files = {} /\ fuse = Down /\ ~enabled /\ At("idle")
      /\ \A a \in Apps : view[a] = "none" /\ status[a] = "stopped"
  <2>1. PICK zone \in Zones :
          /\ db = [FreshRow EXCEPT !.backend = IF zone = "disabled" THEN "disabled" ELSE "local"]
          /\ meta = [formatted |-> zone = "legacy", store |-> Local, volume |-> Legacy]
    BY DEF Init
  <2>2. zone # "legacy"
    BY DEF PatientOwner
  <2>3. db.volume = Legacy /\ db.store = Local /\ db.backend # "s3"
    BY <2>1 DEF FreshRow
  <2>4. ~meta.formatted /\ meta.store = Local
    BY <2>1, <2>2
  <2> QED  BY <2>3, <2>4 DEF Init, At
<1>2. CopyInv
  BY <1>1 DEF CopyInv, OneName, Stages, AppsQuiet, NoLiveWriter, UndoneDead, Copied, NothingLost, Live, At
<1>3. Untorn
  BY <1>1 DEF Untorn, Live, Agreed, Full, At
<1> QED  BY <1>2, <1>3 DEF SInv

\* A container that can write is on a mount that is up.
LEMMA LiveUp ==
    ASSUME IInv, Untorn, Live
    PROVE  fuse # Down /\ db.backend # "disabled"
  BY ArchiveAssumption DEF Untorn, IInv, TypeOK, Backend

\* A step that deletes and adds no file loses none.
LEMMA KeptFiles ==
    ASSUME IInv, IInv', Kept, files' = files, behind' = behind, NothingLost,
           meta'.volume = meta.volume \/ files = {}
    PROVE  /\ NothingLost'
           /\ \A s \in Stores : Full(s) => Full(s)'
<1>1. Zone \in Volumes /\ meta.volume \in Volumes
  BY DEF Volumes, IInv, TypeOK
<1>2. \A s \in Stores : Full(s) => Full(s)'
  BY <1>1 DEF Full, Kept
<1>3. ASSUME NEW f \in files' \ behind' PROVE \E s \in Stores : f \in objs'[s][meta'.volume]
  BY <1>1 DEF NothingLost, Kept
<1> QED  BY <1>2, <1>3 DEF NothingLost

\* A write goes to the store everybody is on, and what the migration copied it
\* does not reach.
LEMMA WriteCopy ==
    ASSUME IInv, IInv', SInv, NEW a \in Apps, NEW f \in Files, Write(a, f)
    PROVE  SInv'
<1>1. /\ view[a] = "archive" /\ fuse \in Stores /\ Live /\ Zone \in Volumes
      /\ files' = files \cup {f} /\ torn' = torn
      /\ UNCHANGED <<db, meta, fuse, enabled, status, view, mig, router>>
  BY DEF Write, Live, Volumes, IInv, TypeOK
<1>2. meta.formatted /\ meta.volume = Zone
  BY <1>1 DEF SInv, CopyInv, OneName, IInv, TypeOK
<1>3. objs' = [objs EXCEPT ![fuse][Zone] = @ \cup {f}]
  BY <1>2 DEF Write
<1>4. /\ f \in objs'[fuse][Zone]
      /\ \A s \in Stores : objs[s][Zone] \subseteq objs'[s][Zone]
      /\ behind' = IF BehindTheCopy THEN behind \cup {f} ELSE behind
  BY <1>1, <1>3 DEF Write, IInv, TypeOK
<1>5. OneName' /\ Stages' /\ AppsQuiet' /\ NoLiveWriter' /\ UndoneDead'
  BY <1>1, <1>2 DEF SInv, CopyInv, OneName, Stages, AppsQuiet, NoLiveWriter, UndoneDead, Live, At
<1>6. Copied'
  <2>1. ASSUME mig.pc \in {"repoint", "umount", "remount", "commit", "reclaim"},
               mig.from.backend # "disabled"
        PROVE  objs'[mig.from.store][Zone] \ behind' \subseteq objs'[mig.to][Zone]
    <3>1. mig.pc \in {"repoint", "umount"}
      BY <1>1, <2>1 DEF SInv, CopyInv, NoLiveWriter
    <3>2. behind' = behind \cup {f} /\ mig.from.store \in Stores /\ mig.to \in Stores
      BY <1>4, <3>1 DEF BehindTheCopy, IInv, TypeOK, Migration, Backend
    <3>3. objs'[mig.from.store][Zone] \subseteq objs[mig.from.store][Zone] \cup {f}
      BY <1>1, <1>3, <3>2 DEF IInv, TypeOK
    <3>4. objs[mig.from.store][Zone] \ behind \subseteq objs[mig.to][Zone]
      BY <2>1 DEF SInv, CopyInv, Copied
    <3> QED  BY <1>4, <3>2, <3>3, <3>4
  <2> QED  BY <1>1, <2>1 DEF Copied
<1>7. NothingLost'
  <2>1. ASSUME NEW g \in files' \ behind' PROVE \E s \in Stores : g \in objs'[s][Zone]
    <3>1. CASE g = f
      BY <1>1, <1>4, <3>1
    <3>2. CASE g # f
      <4>1. g \in files \ behind
        BY <1>1, <1>4, <3>2
      <4>2. PICK s \in Stores : g \in objs[s][Zone]
        BY <1>2, <4>1 DEF SInv, CopyInv, NothingLost
      <4> QED  BY <1>4, <4>2
    <3> QED  BY <3>1, <3>2
  <2> QED  BY <2>1, <1>1, <1>2 DEF NothingLost
<1>8. ASSUME ~torn' PROVE Untorn'
  <2>1. Untorn /\ db.backend # "disabled" /\ fuse = db.store
    BY <1>1, <1>8 DEF SInv, Untorn
  <2>2. meta.store \in Stores /\ db.store \in Stores
    BY DEF IInv, TypeOK, Backend
  <2>3. CASE BehindTheCopy
    <3>1. \A s \in Stores : Full(s) => Full(s)'
      BY <1>1, <1>4, <2>3 DEF Full
    <3> QED  BY <1>1, <2>1, <2>2, <3>1 DEF Untorn, Agreed, Full, Live, At
  <2>4. CASE ~BehindTheCopy
    <3>1. meta.store = fuse
      <4>1. mig.pc \in {"idle", "restart", "format", "mount", "quiesce"} => meta.store = fuse
        BY <1>1, <2>1, ArchiveAssumption DEF Untorn, Agreed, At
      <4>2. ~At("idle") /\ ~At("restart") /\ ~At("reclaim") => db = mig.from
        BY DEF SInv, CopyInv, Stages, At
      <4>3. mig.pc \notin {"remount", "commit", "reclaim"}
        BY <1>1, <2>1, <4>2 DEF SInv, CopyInv, NoLiveWriter, Stages, At
      <4>4. mig.pc # "undo_mount"
        BY <1>1 DEF SInv, CopyInv, UndoneDead, At
      <4>5. At("undo_umount") => meta.store = fuse
        BY <2>1, <4>2 DEF SInv, CopyInv, Stages, At
      <4>6. mig.pc \in Pcs
        BY DEF IInv, TypeOK, Migration
      <4> QED  BY <2>4, <4>1, <4>3, <4>4, <4>5, <4>6 DEF BehindTheCopy, Pcs, At
    <3>2. Full(fuse) /\ behind' = behind
      BY <1>4, <2>1, <2>4, <3>1 DEF Untorn
    <3>3. Full(fuse)'
      BY <1>1, <1>4, <3>2 DEF Full
    <3> QED  BY <1>1, <2>1, <3>1, <3>3 DEF Untorn, Agreed, Full, Live, At
  <2> QED  BY <2>3, <2>4
<1> QED  BY <1>5, <1>6, <1>7, <1>8 DEF SInv, CopyInv

\* Apps start and stop between migrations only, and a new container is bound to
\* the mount the row speaks of.
LEMMA AppCopy ==
    ASSUME PatientOwner, IInv, IInv', SInv, NEW a \in Apps, AppStep(a)
    PROVE  SInv'
<1>1. CASE \E f \in Files : Write(a, f)
  BY <1>1, WriteCopy
<1>2. CASE StartApp(a) \/ Launch(a) \/ LaunchDone(a) \/ StopApp(a)
  <2>1. UNCHANGED <<db, meta, fuse, enabled, files, objs, mig, router, torn, behind>>
    BY <1>2 DEF StartApp, Launch, LaunchDone, StopApp
  <2>2. At("idle")
    <3>1. CASE StartApp(a) \/ StopApp(a)
      BY <3>1 DEF StartApp, StopApp, PatientOwner
    <3>2. CASE Launch(a) \/ LaunchDone(a)
      BY <3>2 DEF Launch, LaunchDone, SInv, CopyInv, AppsQuiet
    <3> QED  BY <1>2, <3>1, <3>2
  <2>3. \A x \in Apps : view'[x] # "none" => status'[x] # "stopped"
    <3>1. \A x \in Apps : view[x] # "none" => status[x] # "stopped"
      BY DEF SInv, CopyInv, AppsQuiet
    <3>2. CASE StartApp(a)
      BY <3>1, <3>2 DEF StartApp, IInv, TypeOK
    <3>3. CASE Launch(a)
      BY <3>1, <3>3 DEF Launch, IInv, TypeOK
    <3>4. CASE LaunchDone(a)
      BY <3>1, <3>4 DEF LaunchDone, Outcome, IInv, TypeOK
    <3>5. CASE StopApp(a)
      BY <3>1, <3>5 DEF StopApp, IInv, TypeOK
    <3> QED  BY <1>2, <3>2, <3>3, <3>4, <3>5
  <2>4. Live' => Live \/ fuse # Down
    <3>1. ASSUME NEW x \in Apps, view'[x] = "archive" PROVE view[x] = "archive" \/ fuse # Down
      BY <1>2, <3>1 DEF StartApp, Launch, LaunchDone, StopApp, Bound, IInv, TypeOK
    <3> QED  BY <3>1 DEF Live
  <2>5. CopyInv'
    <3>1. OneName'
      BY <2>1, <2>4 DEF SInv, CopyInv, OneName, At
    <3>2. AppsQuiet' /\ Stages' /\ NoLiveWriter' /\ UndoneDead' /\ Copied' /\ NothingLost'
      BY <2>1, <2>2, <2>3 DEF SInv, CopyInv, AppsQuiet, Stages, NoLiveWriter, UndoneDead, Copied, NothingLost, At
    <3> QED  BY <3>1, <3>2 DEF CopyInv
  <2>6. ASSUME ~torn' PROVE Untorn'
    <3>1. Untorn /\ ~torn
      BY <2>1, <2>6 DEF SInv
    <3>2. Live' => db.backend # "disabled" /\ fuse = db.store
      BY <2>1, <2>2, <2>4, <3>1 DEF Untorn, Agreed, At
    <3> QED  BY <2>1, <2>2, <2>4, <3>1, <3>2 DEF Untorn, Agreed, Full, At
  <2> QED  BY <2>5, <2>6 DEF SInv
<1> QED  BY <1>1, <1>2 DEF AppStep

\* A migration begins with the row as it is.
LEMMA ConfigureCopy ==
    ASSUME PatientOwner, IInv, IInv', SInv, NEW b \in Buckets, NEW asked \in Prefixes,
           Configure(b, asked)
    PROVE  SInv'
<1>1. /\ At("idle") /\ \A a \in Apps : status[a] # "starting"
      /\ UNCHANGED <<db, meta, fuse, enabled, files, objs, status, view, router, torn, behind>>
  BY DEF Configure, PatientOwner
<1>2. VolumeFor(db, asked) = Zone
  BY DEF VolumeFor, SInv, CopyInv, OneName, PatientOwner, IInv, TypeOK, Backend
<1>3. /\ mig'.from = db /\ mig'.volume = Zone /\ mig'.quiesced = {}
      /\ mig'.pc = IF db.backend = "s3" THEN "mount" ELSE "format"
  BY <1>2 DEF Configure
<1>4. OneName' /\ AppsQuiet' /\ NoLiveWriter' /\ UndoneDead' /\ Copied' /\ NothingLost'
  BY <1>1, <1>3 DEF SInv, CopyInv, OneName, AppsQuiet, NoLiveWriter, UndoneDead, Copied, NothingLost, Live, At
<1>5. Stages'
  BY <1>1, <1>3 DEF SInv, CopyInv, Stages, At
<1>6. ASSUME ~torn' PROVE Untorn'
  <2>1. Untorn
    BY <1>1, <1>6 DEF SInv
  <2> QED  BY <1>1, <1>3, <2>1 DEF Untorn, Agreed, Full, Live, At
<1> QED  BY <1>4, <1>5, <1>6 DEF SInv, CopyInv

\* A step that fails leaves the row and the volume for the undo.
LEMMA FailCopy ==
    ASSUME IInv, IInv', SInv, Fail, Kept,
           mig.pc \in {"format", "mount", "sync", "umount", "remount", "commit"},
           enabled' \in {enabled, TRUE},
           UNCHANGED <<db, meta, fuse, files, status, view, torn, behind>>
    PROVE  SInv'
<1>1. /\ mig'.pc = (IF mig.from.backend = "disabled" THEN "undo_umount" ELSE "undo_point")
      /\ mig'.from = mig.from /\ mig'.to = mig.to /\ mig'.volume = mig.volume
      /\ mig'.quiesced = mig.quiesced
  BY DEF Fail, Goto, IInv, TypeOK, Migration
<1>2. db = mig.from /\ db' = mig'.from
  BY <1>1 DEF SInv, CopyInv, Stages
<1>3. OneName' /\ AppsQuiet' /\ NoLiveWriter' /\ UndoneDead' /\ Copied' /\ Stages'
  BY <1>1, <1>2 DEF SInv, CopyInv, OneName, AppsQuiet, NoLiveWriter, UndoneDead, Copied, Stages, Live, At
<1>4. /\ NothingLost' /\ \A s \in Stores : Full(s) => Full(s)'
  BY KeptFiles DEF SInv, CopyInv
<1>5. ASSUME ~torn' PROVE Untorn'
  <2>1. Untorn
    BY <1>5 DEF SInv
  <2>2. (fuse # Down => fuse \in Stores) /\ meta.store \in Stores /\ db.store \in Stores
    BY DEF IInv, TypeOK, Backend
  <2>3. Full(meta.store)' /\ (db'.backend # "disabled" => Full(db.store)') /\ (fuse' # Down => Full(fuse)')
    BY <1>4, <2>1, <2>2 DEF Untorn, Full
  <2> QED  BY <1>1, <2>1, <2>3 DEF Untorn, Agreed, Live, At
<1> QED  BY <1>3, <1>4, <1>5 DEF SInv, CopyInv

\* The format: a volume that is not formatted is empty, and gets the zone's name.
LEMMA FormatCopy ==
    ASSUME IInv, IInv', SInv, Format
    PROVE  SInv'
<1>0. /\ UNCHANGED <<db, fuse, enabled, files, objs, status, view, router, torn, behind>>
      /\ mig.volume = Zone /\ db = mig.from /\ At("format") /\ Kept
  BY DEF Format, SInv, CopyInv, OneName, Stages, At, Kept
<1>1. CASE MayFail("format") /\ meta' = meta
  BY <1>0, <1>1, FailCopy DEF MayFail, At
<1>2. CASE ~(MayFail("format") /\ meta' = meta)
  <2>1. /\ mig'.pc = (IF mig.from.backend = "disabled" THEN "remount" ELSE "mount")
        /\ mig'.from = mig.from /\ mig'.to = mig.to /\ mig'.volume = mig.volume
        /\ mig'.quiesced = mig.quiesced
    BY <1>2 DEF Format, Goto, IInv, TypeOK, Migration
  <2>2. IF mig.from.backend = "disabled"
        THEN FormatVolume(mig.to, mig.volume)
        ELSE IF meta.formatted THEN meta' = meta ELSE FormatVolume(Local, mig.volume)
    BY <1>2 DEF Format
  <2>3. /\ meta'.formatted /\ meta'.volume = Zone
        /\ meta'.volume = meta.volume \/ files = {}
        /\ meta'.store = IF mig.from.backend = "disabled" THEN mig.to ELSE meta.store
    BY <1>0, <2>2 DEF FormatVolume, SInv, CopyInv, OneName, IInv, TypeOK
  <2>4. OneName' /\ AppsQuiet' /\ NoLiveWriter' /\ UndoneDead' /\ Copied' /\ Stages'
    BY <1>0, <2>1, <2>3 DEF SInv, CopyInv, OneName, AppsQuiet, NoLiveWriter, UndoneDead, Copied, Stages, Live, At
  <2>5. NothingLost'
    BY <1>0, <2>3, KeptFiles DEF SInv, CopyInv
  <2>6. ASSUME ~torn' PROVE Untorn'
    <3>1. Untorn
      BY <1>0, <2>6 DEF SInv
    <3>2. CASE mig.from.backend = "disabled"
      BY <1>0, <2>1, <2>3, <3>1, <3>2 DEF Untorn, Agreed, Full, Live, At
    <3>3. CASE mig.from.backend # "disabled"
      BY <1>0, <2>1, <2>3, <3>1, <3>3 DEF Untorn, Agreed, Full, Live, At
    <3> QED  BY <3>2, <3>3
  <2> QED  BY <2>4, <2>5, <2>6 DEF SInv, CopyInv
<1> QED  BY <1>1, <1>2

\* Whatever is mounted now, every file of the volume is on its store.
LEMMA MountCopy ==
    ASSUME IInv, IInv', SInv, Mount
    PROVE  SInv'
<1>0. /\ UNCHANGED <<db, meta, files, objs, status, view, router, torn, behind>> /\ enabled' = TRUE
      /\ mig.pc \in {"mount", "remount"} /\ db = mig.from /\ Kept
  BY DEF Mount, Mounts, SInv, CopyInv, Stages, At, Kept
<1>1. CASE fuse' = fuse /\ MayFail("mount")
  BY <1>0, <1>1, FailCopy DEF MayFail
<1>2. CASE Mounts /\ ((At("mount") /\ Goto("quiesce")) \/ (At("remount") /\ Goto("commit")))
  <2>1. /\ mig'.pc = (IF mig.pc = "mount" THEN "quiesce" ELSE "commit")
        /\ mig'.from = mig.from /\ mig'.to = mig.to /\ mig'.volume = mig.volume
        /\ mig'.quiesced = mig.quiesced
    BY <1>2 DEF Goto, IInv, TypeOK, Migration, At
  <2>2. fuse' = (IF fuse = Down THEN meta.store ELSE fuse) /\ meta.formatted
    BY <1>2 DEF Mounts, SInv, CopyInv, OneName
  <2>3. OneName' /\ AppsQuiet' /\ NoLiveWriter' /\ UndoneDead' /\ Copied' /\ Stages' /\ NothingLost'
    BY <1>0, <2>1, <2>2 DEF SInv, CopyInv, OneName, AppsQuiet, NoLiveWriter, UndoneDead, Copied, Stages, NothingLost, Live, At
  <2>4. ASSUME ~torn' PROVE Untorn'
    <3>1. Untorn
      BY <1>0, <2>4 DEF SInv
    <3>2. Live' => fuse' = db'.store
      BY <1>0, <2>2, <3>1, LiveUp DEF Untorn, Live
    <3> QED  BY <1>0, <2>1, <2>2, <3>1, <3>2 DEF Untorn, Agreed, Full, Live, At
  <2> QED  BY <2>3, <2>4 DEF SInv, CopyInv
<1> QED  BY <1>1, <1>2 DEF Mount

\* The apps that run are stopped; if none of them is left with a container, only
\* apps in 'error' can have the archive.  What was once written behind a copy
\* and is in the source now is copied with it.
LEMMA QuiesceCopy ==
    ASSUME IInv, IInv', SInv, Quiesce
    PROVE  SInv'
<1> DEFINE running == {a \in Apps : status[a] = "running"}
<1>0. /\ UNCHANGED <<db, meta, fuse, enabled, files, objs, status, router, torn>>
      /\ At("quiesce") /\ db = mig.from /\ mig.from.backend # "disabled"
      /\ meta.formatted /\ meta.volume = Zone /\ mig.volume = Zone
      /\ db.store \in Stores /\ Source = objs[db.store][Zone]
  BY DEF Quiesce, SInv, CopyInv, OneName, Stages, At, IInv, TypeOK, Backend, Source
<1>1. PICK left \in SUBSET running :
        /\ view' = [a \in Apps |-> IF a \in running \ left THEN "none" ELSE view[a]]
        /\ mig' = [mig EXCEPT !.quiesced = running,
                              !.pc = IF \A a \in left : view[a] = "none" THEN "sync" ELSE "undo_point"]
        /\ behind' \in {behind, behind \ Source}
  BY DEF Quiesce
<1>2. /\ mig'.pc = (IF \A a \in left : view[a] = "none" THEN "sync" ELSE "undo_point")
      /\ mig'.from = mig.from /\ mig'.to = mig.to /\ mig'.volume = mig.volume
      /\ mig'.quiesced = running
  BY <1>1 DEF IInv, TypeOK, Migration
<1>3. \A a \in Apps : view'[a] = "none" \/ view'[a] = view[a]
  BY <1>1
<1>4. Live' => Live
  BY <1>3 DEF Live
<1>5. NoLiveWriter'
  <2>1. ASSUME mig'.pc = "sync", NEW a \in Apps, view'[a] = "archive" PROVE status'[a] = "error"
    <3>1. \A x \in left : view[x] = "none"
      BY <1>2, <2>1
    <3>2. view[a] = "archive" /\ a \notin running
      BY <1>1, <1>3, <2>1, <3>1
    <3>3. status[a] \notin {"running", "starting", "stopped"}
      BY <1>0, <3>2 DEF SInv, CopyInv, AppsQuiet, At
    <3> QED  BY <1>0, <3>3 DEF IInv, TypeOK
  <2> QED  BY <1>2, <2>1 DEF NoLiveWriter
<1>6. OneName' /\ AppsQuiet' /\ UndoneDead' /\ Copied' /\ Stages'
  BY <1>0, <1>2, <1>3, <1>4 DEF SInv, CopyInv, OneName, AppsQuiet, UndoneDead, Copied, Stages, At
<1>7. NothingLost'
  <2>1. ASSUME NEW f \in files \ behind' PROVE \E s \in Stores : f \in objs[s][Zone]
    <3>1. f \in files \ behind \/ f \in Source
      BY <1>1, <2>1
    <3>2. CASE f \in files \ behind
      BY <1>0, <3>2 DEF SInv, CopyInv, NothingLost
    <3> QED  BY <1>0, <3>1, <3>2
  <2> QED  BY <1>0, <2>1 DEF NothingLost
<1>8. ASSUME ~torn' PROVE Untorn'
  <2>1. Untorn /\ Agreed /\ db.store = meta.store
    BY <1>0, <1>8 DEF SInv, Untorn, Agreed, At
  <2>2. files \ behind' \subseteq objs[db.store][Zone]
    BY <1>0, <1>1, <2>1 DEF Untorn, Full
  <2>3. Full(meta.store)' /\ Full(db.store)' /\ (fuse' # Down => Full(fuse)')
    BY <1>0, <2>1, <2>2 DEF Full, Agreed
  <2> QED  BY <1>0, <1>2, <1>4, <2>1, <2>3 DEF Untorn, Agreed, At
<1> QED  BY <1>5, <1>6, <1>7, <1>8 DEF SInv, CopyInv

\* A sync that ends well has copied the whole source.
LEMMA SyncCopy ==
    ASSUME IInv, IInv', SInv, Sync, Kept
    PROVE  SInv'
<1>0. /\ UNCHANGED <<db, meta, fuse, enabled, files, status, view, router, torn, behind>>
      /\ At("sync") /\ db = mig.from /\ mig.volume = Zone /\ mig.from.backend # "disabled"
      /\ mig.from.store \in Stores /\ mig.to \in Stores /\ Zone \in Volumes
  BY DEF Sync, SInv, CopyInv, OneName, Stages, At, IInv, TypeOK, Migration, Backend, Volumes
<1>1. CASE \E part \in SUBSET Source : MayFail("sync")
  BY <1>0, <1>1, FailCopy DEF MayFail, At
<1>2. CASE \E missed \in SUBSET behind : Copy(Source \ missed) /\ Goto("repoint")
  <2>1. /\ mig'.pc = "repoint"
        /\ mig'.from = mig.from /\ mig'.to = mig.to /\ mig'.volume = mig.volume
        /\ mig'.quiesced = mig.quiesced
    BY <1>2 DEF Goto, IInv, TypeOK, Migration
  <2>2. PICK missed \in SUBSET behind :
          objs' = [objs EXCEPT ![mig.to][Zone] = @ \cup (objs[mig.from.store][Zone] \ missed)]
    BY <1>0, <1>2 DEF Copy, Source
  <2>3. objs'[mig.from.store][Zone] \ behind \subseteq objs'[mig.to][Zone]
    BY <1>0, <2>2 DEF IInv, TypeOK
  <2>4. OneName' /\ AppsQuiet' /\ NoLiveWriter' /\ UndoneDead' /\ Stages' /\ Copied'
    BY <1>0, <2>1, <2>3 DEF SInv, CopyInv, OneName, AppsQuiet, NoLiveWriter, UndoneDead, Copied, Stages, Live, At
  <2>5. /\ NothingLost' /\ \A s \in Stores : Full(s) => Full(s)'
    BY <1>0, KeptFiles DEF SInv, CopyInv
  <2>6. ASSUME ~torn' PROVE Untorn'
    <3>1. Untorn
      BY <1>0, <2>6 DEF SInv
    <3>2. (fuse # Down => fuse \in Stores) /\ meta.store \in Stores /\ db.store \in Stores
      BY DEF IInv, TypeOK, Backend
    <3>3. Full(meta.store)' /\ (db'.backend # "disabled" => Full(db.store)') /\ (fuse' # Down => Full(fuse)')
      BY <1>0, <2>5, <3>1, <3>2 DEF Untorn, Full
    <3> QED  BY <1>0, <2>1, <3>1, <3>3 DEF Untorn, Agreed, Live, At
  <2> QED  BY <2>4, <2>5, <2>6 DEF SInv, CopyInv
<1> QED  BY <1>1, <1>2 DEF Sync

\* The re-point, whether or not it took effect: nobody writes, and both stores
\* have every file.
LEMMA RepointCopy ==
    ASSUME IInv, IInv', SInv, Repoint
    PROVE  SInv'
<1>0. /\ UNCHANGED <<db, fuse, enabled, files, objs, status, view, router, torn, behind>> /\ Kept
      /\ At("repoint") /\ db = mig.from /\ mig.from.backend # "disabled" /\ meta.formatted
  BY DEF Repoint, SInv, CopyInv, Stages, At, Kept
<1>1. /\ mig'.pc \in {"umount", "undo_point"}
      /\ mig'.from = mig.from /\ mig'.to = mig.to /\ mig'.volume = mig.volume
      /\ mig'.quiesced = mig.quiesced
  BY <1>0 DEF Repoint, MayFail, Fail, Goto, IInv, TypeOK, Migration
<1>2. /\ meta'.store \in {meta.store, mig.to} /\ meta'.volume = meta.volume
      /\ meta'.formatted = meta.formatted
  BY DEF Repoint, IInv, TypeOK
<1>4. OneName' /\ AppsQuiet' /\ NoLiveWriter' /\ UndoneDead' /\ Stages' /\ Copied'
  BY <1>0, <1>1, <1>2 DEF SInv, CopyInv, OneName, AppsQuiet, NoLiveWriter, UndoneDead, Copied, Stages, Live, At
<1>5. NothingLost'
  BY <1>0, <1>2, KeptFiles DEF SInv, CopyInv
<1>6. ASSUME ~torn' PROVE Untorn'
  <2>1. Untorn
    BY <1>0, <1>6 DEF SInv
  <2>2. Full(db.store) /\ Full(mig.to)
    BY <1>0, <2>1 DEF SInv, CopyInv, Copied, Untorn, Full, At
  <2>3. Full(meta.store)' /\ (db'.backend # "disabled" => Full(db.store)') /\ (fuse' # Down => Full(fuse)')
    BY <1>0, <1>2, <2>1, <2>2 DEF Untorn, Full
  <2> QED  BY <1>0, <1>1, <2>1, <2>3 DEF Untorn, Live, At
<1> QED  BY <1>4, <1>5, <1>6 DEF SInv, CopyInv

\* The unmount: nobody has the archive afterwards.
LEMMA DetachedDead ==
    ASSUME IInv
    PROVE  \A a \in Apps : Detached[a] # "archive" /\ (Detached[a] = "none" <=> view[a] = "none")
  BY DEF Detached, IInv, TypeOK

LEMMA UmountCopy ==
    ASSUME IInv, IInv', SInv, Umount
    PROVE  SInv'
<1>0. /\ UNCHANGED <<db, meta, files, objs, status, router, torn, behind>> /\ Kept
      /\ At("umount") /\ db = mig.from /\ mig.from.backend # "disabled" /\ meta.formatted
  BY DEF Umount, SInv, CopyInv, Stages, At, Kept
<1>1. CASE UNCHANGED <<fuse, enabled, view>> /\ MayFail("umount")
  BY <1>0, <1>1, FailCopy DEF MayFail, At
<1>2. CASE Unmounts /\ Goto("remount")
  <2>1. /\ mig'.pc = "remount"
        /\ mig'.from = mig.from /\ mig'.to = mig.to /\ mig'.volume = mig.volume
        /\ mig'.quiesced = mig.quiesced
    BY <1>2 DEF Goto, IInv, TypeOK, Migration
  <2>2. /\ fuse' = Down /\ ~Live' /\ \A a \in Apps : view'[a] = "none" <=> view[a] = "none"
    BY <1>2, DetachedDead DEF Unmounts, Live
  <2>3. OneName' /\ AppsQuiet' /\ NoLiveWriter' /\ UndoneDead' /\ Stages' /\ Copied' /\ NothingLost'
    BY <1>0, <2>1, <2>2 DEF SInv, CopyInv, OneName, AppsQuiet, NoLiveWriter, UndoneDead, Copied, Stages, NothingLost, Live, At
  <2>4. ASSUME ~torn' PROVE Untorn'
    BY <1>0, <2>1, <2>2, <2>4 DEF SInv, Untorn, Full, At
  <2> QED  BY <2>3, <2>4 DEF SInv, CopyInv
<1> QED  BY <1>1, <1>2 DEF Umount

\* The row follows the volume, which has every file.
LEMMA CommitCopy ==
    ASSUME IInv, IInv', SInv, Commit
    PROVE  SInv'
<1>0. /\ UNCHANGED <<meta, fuse, enabled, files, objs, status, view, router, torn, behind>> /\ Kept
      /\ At("commit") /\ mig.volume = Zone /\ meta.formatted /\ meta.store = mig.to
      /\ (mig.from.backend # "disabled" => fuse \in {Down, mig.to})
  BY DEF Commit, SInv, CopyInv, OneName, Stages, At, Kept, IInv, Moved
<1>1. CASE db' = db /\ MayFail("commit")
  BY <1>0, <1>1, FailCopy DEF MayFail, At
<1>2. CASE /\ db' = [backend |-> "s3", store |-> mig.to, volume |-> mig.volume]
           /\ Goto(IF mig.from.backend = "disabled" THEN "restart" ELSE "reclaim")
  <2>1. /\ mig'.pc = (IF mig.from.backend = "disabled" THEN "restart" ELSE "reclaim")
        /\ mig'.from = mig.from /\ mig'.to = mig.to /\ mig'.volume = mig.volume
        /\ mig'.quiesced = mig.quiesced
    BY <1>2 DEF Goto, IInv, TypeOK, Migration
  <2>2. db'.backend = "s3" /\ db'.store = mig.to /\ db'.volume = Zone
    BY <1>0, <1>2
  <2>3. OneName' /\ AppsQuiet' /\ NoLiveWriter' /\ UndoneDead' /\ Stages' /\ Copied' /\ NothingLost'
    BY <1>0, <2>1, <2>2 DEF SInv, CopyInv, OneName, AppsQuiet, NoLiveWriter, UndoneDead, Copied, Stages, NothingLost, Live, At
  <2>4. ASSUME ~torn' PROVE Untorn'
    <3>1. Untorn
      BY <1>0, <2>4 DEF SInv
    <3>2. fuse \in {Down, meta.store} /\ ~Live
      BY <1>0, <3>1 DEF SInv, CopyInv, NoLiveWriter, Stages, Live, Untorn, At
    <3> QED  BY <1>0, <2>1, <2>2, <3>1, <3>2 DEF Untorn, Agreed, Full, Live, At
  <2> QED  BY <2>3, <2>4 DEF SInv, CopyInv
<1> QED  BY <1>1, <1>2 DEF Commit

\* What is reclaimed was copied, and nobody has written to it since.
LEMMA ReclaimCopy ==
    ASSUME IInv, IInv', SInv, Reclaim
    PROVE  SInv'
<1>0. /\ UNCHANGED <<db, meta, fuse, enabled, files, status, view, router, torn, behind>>
      /\ At("reclaim") /\ mig.from.backend # "disabled" /\ meta.formatted /\ meta.volume = Zone
      /\ db.store = mig.to /\ meta.store = mig.to /\ fuse \in {Down, mig.to}
      /\ db.backend = "s3" /\ mig.from.store \in Stores /\ mig.to \in Stores /\ Zone \in Volumes
  BY DEF Reclaim, SInv, CopyInv, OneName, Stages, At, IInv, Moved, TypeOK, Migration, Backend, Volumes
<1>1. /\ mig'.pc = "restart"
      /\ mig'.from = mig.from /\ mig'.to = mig.to /\ mig'.volume = mig.volume
      /\ mig'.quiesced = mig.quiesced
  BY DEF Reclaim, Goto, IInv, TypeOK, Migration
<1>2. \A s \in Stores : s # mig.from.store => objs[s][Zone] \subseteq objs'[s][Zone]
  <2>1. PICK kept \in SUBSET Files :
          objs' = IF SameLocation THEN objs
                  ELSE IF mig.from.store = Local
                  THEN [objs EXCEPT ![Local] = [v \in Volumes |-> @[v] \cap kept]]
                  ELSE [objs EXCEPT ![mig.from.store][mig.volume] = @ \cap kept]
    BY DEF Reclaim
  <2>2. CASE SameLocation
    BY <2>1, <2>2
  <2>3. CASE ~SameLocation /\ mig.from.store = Local
    <3>1. objs' = [objs EXCEPT ![Local] = [v \in Volumes |-> @[v] \cap kept]]
      BY <2>1, <2>3
    <3> QED  BY <2>3, <3>1 DEF IInv, TypeOK
  <2>4. CASE ~SameLocation /\ mig.from.store # Local
    <3>1. objs' = [objs EXCEPT ![mig.from.store][mig.volume] = @ \cap kept]
      BY <2>1, <2>4
    <3> QED  BY <1>0, <2>4, <3>1 DEF IInv, TypeOK
  <2> QED  BY <2>2, <2>3, <2>4
<1>3. objs[mig.to][Zone] \subseteq objs'[mig.to][Zone]
  BY <1>0, ReclaimInv
<1>4. NothingLost'
  <2>1. ASSUME NEW f \in files \ behind PROVE \E s \in Stores : f \in objs'[s][Zone]
    <3>1. PICK s \in Stores : f \in objs[s][Zone]
      BY <1>0 DEF SInv, CopyInv, NothingLost
    <3>2. CASE s # mig.from.store
      BY <1>2, <3>1, <3>2
    <3>3. CASE s = mig.from.store
      <4>1. f \in objs[mig.to][Zone]
        BY <1>0, <3>1, <3>3 DEF SInv, CopyInv, Copied, At
      <4> QED  BY <1>0, <1>3, <4>1
    <3> QED  BY <3>2, <3>3
  <2> QED  BY <1>0, <2>1 DEF NothingLost
<1>5. OneName' /\ AppsQuiet' /\ NoLiveWriter' /\ UndoneDead' /\ Stages' /\ Copied'
  BY <1>0, <1>1 DEF SInv, CopyInv, OneName, AppsQuiet, NoLiveWriter, UndoneDead, Copied, Stages, Live, At
<1>6. ASSUME ~torn' PROVE Untorn'
  <2>1. Untorn
    BY <1>0, <1>6 DEF SInv
  <2>2. Full(meta.store)' /\ Full(db.store)' /\ (fuse' # Down => Full(fuse)')
    BY <1>0, <1>3, <2>1 DEF Untorn, Full
  <2> QED  BY <1>0, <1>1, <2>1, <2>2 DEF Untorn, Agreed, Live, At
<1> QED  BY <1>4, <1>5, <1>6 DEF SInv, CopyInv

\* A step of the machine or of the undo that touches neither files nor objects.
LEMMA SameFiles ==
    ASSUME IInv, IInv', SInv, UNCHANGED <<files, objs, behind>>,
           meta'.volume = meta.volume \/ files = {}
    PROVE  /\ NothingLost'
           /\ \A s \in Stores : Full(s) => Full(s)'
<1>1. Kept
  BY DEF Kept
<1> QED  BY <1>1, KeptFiles DEF SInv, CopyInv

\* Back on the source, which still has every file; or the migration is cut.
LEMMA UndoPointCopy ==
    ASSUME IInv, IInv', SInv, UndoPoint
    PROVE  SInv'
<1>0. /\ UNCHANGED <<db, fuse, enabled, files, objs, status, view, router, behind>>
      /\ At("undo_point") /\ db = mig.from /\ mig.from.backend # "disabled"
  BY DEF UndoPoint, SInv, CopyInv, Stages, At
<1>1. CASE /\ meta.formatted /\ meta' = [meta EXCEPT !.store = mig.from.store]
           /\ Goto("undo_umount") /\ torn' = torn
  <2>1. /\ mig'.pc = "undo_umount"
        /\ mig'.from = mig.from /\ mig'.to = mig.to /\ mig'.volume = mig.volume
        /\ mig'.quiesced = mig.quiesced
    BY <1>1 DEF Goto, IInv, TypeOK, Migration
  <2>2. meta'.formatted /\ meta'.store = mig.from.store /\ meta'.volume = meta.volume
    BY <1>1 DEF IInv, TypeOK
  <2>3. OneName' /\ AppsQuiet' /\ NoLiveWriter' /\ UndoneDead' /\ Stages' /\ Copied'
    BY <1>0, <1>1, <2>1, <2>2 DEF SInv, CopyInv, OneName, AppsQuiet, NoLiveWriter, UndoneDead, Copied, Stages, Live, At
  <2>4. NothingLost'
    BY <1>0, <2>2, SameFiles
  <2>5. ASSUME ~torn' PROVE Untorn'
    <3>1. Untorn
      BY <1>1, <2>5 DEF SInv
    <3> QED  BY <1>0, <2>1, <2>2, <3>1 DEF Untorn, Agreed, Full, Live, At
  <2> QED  BY <2>3, <2>4, <2>5 DEF SInv, CopyInv
<1>2. CASE meta' = meta /\ Goto("restart") /\ Cut
  <2>1. /\ mig'.pc = "restart"
        /\ mig'.from = mig.from /\ mig'.to = mig.to /\ mig'.volume = mig.volume
        /\ mig'.quiesced = mig.quiesced
    BY <1>2 DEF Goto, IInv, TypeOK, Migration
  <2>2. OneName' /\ AppsQuiet' /\ NoLiveWriter' /\ UndoneDead' /\ Stages' /\ Copied' /\ NothingLost'
    BY <1>0, <1>2, <2>1 DEF SInv, CopyInv, OneName, AppsQuiet, NoLiveWriter, UndoneDead, Copied, Stages, NothingLost, Live, At
  <2>3. ASSUME ~torn' PROVE Untorn'
    <3>1. Untorn /\ Agreed
      BY <1>2, <2>3 DEF SInv, Cut
    <3> QED  BY <1>0, <1>2, <2>1, <3>1 DEF Untorn, Agreed, Full, Live, At
  <2> QED  BY <2>2, <2>3 DEF SInv, CopyInv
<1> QED  BY <1>1, <1>2 DEF UndoPoint

LEMMA UndoUmountCopy ==
    ASSUME IInv, IInv', SInv, UndoUmount
    PROVE  SInv'
<1>0. /\ UNCHANGED <<db, meta, files, objs, status, router, behind>>
      /\ At("undo_umount") /\ db = mig.from
      /\ mig.from.backend # "disabled" => meta.formatted /\ meta.store = mig.from.store
  BY DEF UndoUmount, SInv, CopyInv, Stages, At
<1>1. /\ mig'.pc \in {"restart", "undo_mount"}
      /\ (mig'.pc = "undo_mount" => mig.from.backend # "disabled")
      /\ mig'.from = mig.from /\ mig'.to = mig.to /\ mig'.volume = mig.volume
      /\ mig'.quiesced = mig.quiesced
  BY DEF UndoUmount, Goto, IInv, TypeOK, Migration
<1>2. \/ Unmounts /\ torn' = torn
      \/ UNCHANGED <<fuse, enabled, view>> /\ mig'.pc = "restart" /\ Cut
  BY DEF UndoUmount, Goto, IInv, TypeOK, Migration
<1>3. (Live' => Live) /\ \A a \in Apps : view'[a] = "none" <=> view[a] = "none"
  BY <1>2, DetachedDead DEF Unmounts, Live
<1>4. fuse' \in {fuse, Down} /\ (mig'.pc = "undo_mount" => ~Live')
  BY <1>2, DetachedDead DEF Unmounts, Live
<1>5. OneName' /\ AppsQuiet' /\ NoLiveWriter' /\ UndoneDead' /\ Stages' /\ Copied' /\ NothingLost'
  BY <1>0, <1>1, <1>3, <1>4 DEF SInv, CopyInv, OneName, AppsQuiet, NoLiveWriter, UndoneDead, Copied, Stages, NothingLost, At
<1>6. ASSUME ~torn' PROVE Untorn'
  <2>1. CASE Unmounts /\ torn' = torn
    <3>1. Untorn /\ fuse' = Down /\ enabled' = FALSE /\ ~Live'
      BY <1>6, <2>1, DetachedDead DEF SInv, Unmounts, Live
    <3> QED  BY <1>0, <1>1, <1>3, <3>1 DEF Untorn, Agreed, Full, At
  <2>2. CASE UNCHANGED <<fuse, enabled, view>> /\ mig'.pc = "restart" /\ Cut
    <3>1. Untorn /\ Agreed /\ (db.backend = "disabled" => ~enabled)
      BY <1>6, <2>2 DEF SInv, Cut
    <3> QED  BY <1>0, <1>1, <2>2, <3>1 DEF Untorn, Agreed, Full, Live, At
  <2> QED  BY <1>2, <2>1, <2>2
<1> QED  BY <1>5, <1>6 DEF SInv, CopyInv

LEMMA UndoMountCopy ==
    ASSUME IInv, IInv', SInv, UndoMount
    PROVE  SInv'
<1>0. /\ UNCHANGED <<db, meta, files, objs, status, view, router, torn, behind>> /\ enabled' = TRUE
      /\ fuse' \in {meta.store, Down} /\ meta.formatted
      /\ At("undo_mount") /\ db = mig.from /\ mig.from.backend # "disabled" /\ meta.store = mig.from.store
  BY DEF UndoMount, SInv, CopyInv, Stages, At
<1>1. /\ mig'.pc = "restart"
      /\ mig'.from = mig.from /\ mig'.to = mig.to /\ mig'.volume = mig.volume
      /\ mig'.quiesced = mig.quiesced
  BY DEF UndoMount, Goto, IInv, TypeOK, Migration
<1>2. OneName' /\ AppsQuiet' /\ NoLiveWriter' /\ UndoneDead' /\ Stages' /\ Copied' /\ NothingLost'
  BY <1>0, <1>1 DEF SInv, CopyInv, OneName, AppsQuiet, NoLiveWriter, UndoneDead, Copied, Stages, NothingLost, Live, At
<1>3. ASSUME ~torn' PROVE Untorn'
  BY <1>0, <1>1, <1>3 DEF SInv, CopyInv, UndoneDead, Untorn, Agreed, Full, Live, At
<1> QED  BY <1>2, <1>3 DEF SInv, CopyInv

\* The apps are started again on the mount the row speaks of.
LEMMA RestartCopy ==
    ASSUME IInv, IInv', SInv, RestartApps
    PROVE  SInv'
<1>0. UNCHANGED <<db, meta, fuse, enabled, files, objs, router, torn, behind>> /\ At("restart")
  BY DEF RestartApps
<1>1. mig'.pc = "idle" /\ mig'.from = mig.from
  BY OverFields DEF RestartApps, IInv, TypeOK
<1>2. PICK failed \in SUBSET Restartable, marked \in SUBSET Restartable :
        /\ view' = [a \in Apps |-> IF a \in failed THEN "none"
                                   ELSE IF a \in Restartable THEN Bound ELSE view[a]]
        /\ status' = [a \in Apps |-> IF a \in marked THEN "error" ELSE status[a]]
  BY DEF RestartApps
<1>3. Restartable \subseteq mig.quiesced /\ (fuse = Down => Restartable = {})
  BY DEF Restartable
<1>4. Live' => Live \/ fuse # Down
  BY <1>2, <1>3 DEF Live
<1>5. \A a \in Apps : view'[a] # "none" => status'[a] # "stopped"
  BY <1>0, <1>2, <1>3 DEF SInv, CopyInv, AppsQuiet, At, IInv, TypeOK, Migration
<1>6. OneName' /\ AppsQuiet' /\ NoLiveWriter' /\ UndoneDead' /\ Stages' /\ Copied' /\ NothingLost'
  BY <1>0, <1>1, <1>4, <1>5 DEF SInv, CopyInv, OneName, AppsQuiet, NoLiveWriter, UndoneDead, Copied, Stages, NothingLost, At
<1>7. ASSUME ~torn' PROVE Untorn'
  <2>1. Untorn
    BY <1>0, <1>7 DEF SInv
  <2> QED  BY <1>0, <1>1, <1>4, <2>1 DEF Untorn, Agreed, Full, At
<1> QED  BY <1>6, <1>7 DEF SInv, CopyInv

\* The mount comes up on the store of the volume, and goes.
LEMMA FuseCopy ==
    ASSUME IInv, IInv', SInv, FuseUp \/ FuseCrash
    PROVE  SInv'
<1>0. UNCHANGED <<db, meta, enabled, files, objs, status, mig, router, torn, behind>>
  BY DEF FuseUp, FuseCrash
<1>1. CASE FuseUp
  <2>1. view' = view /\ fuse' = meta.store /\ enabled /\ meta.formatted /\ fuse = Down
    BY <1>1 DEF FuseUp
  <2>2. CopyInv'
    BY <1>0, <2>1 DEF SInv, CopyInv, OneName, AppsQuiet, NoLiveWriter, UndoneDead, Copied, Stages, NothingLost, Live, At
  <2>3. ASSUME ~torn' PROVE Untorn'
    <3>1. Untorn /\ ~Live
      BY <1>0, <2>1, <2>3, LiveUp DEF SInv
    <3> QED  BY <1>0, <2>1, <3>1 DEF Untorn, Agreed, Full, Live, At
  <2> QED  BY <2>2, <2>3 DEF SInv
<1>2. CASE FuseCrash
  <2>1. fuse' = Down /\ ~Live' /\ \A a \in Apps : view'[a] = "none" <=> view[a] = "none"
    BY <1>2, DetachedDead DEF FuseCrash, Live
  <2>2. NoLiveWriter'
    BY <2>1 DEF NoLiveWriter, Live
  <2>3. CopyInv'
    BY <1>0, <2>1, <2>2 DEF SInv, CopyInv, OneName, AppsQuiet, UndoneDead, Copied, Stages, NothingLost, At
  <2>4. ASSUME ~torn' PROVE Untorn'
    BY <1>0, <2>1, <2>4 DEF SInv, Untorn, Agreed, Full, At
  <2> QED  BY <2>3, <2>4 DEF SInv
<1> QED  BY <1>1, <1>2

\* A migration that a crash or a reboot cuts while row, volume and mount are not
\* on one store is torn; of any other nothing is left to do.
LEMMA DownCopy ==
    ASSUME IInv, IInv', SInv, Crash \/ Reboot
    PROVE  SInv'
<1>0. /\ UNCHANGED <<db, meta, enabled, files, objs, status, behind>> /\ Cut
      /\ fuse' \in {fuse, Down}
      /\ mig'.pc = "idle"
  BY OverFields DEF Crash, Reboot, IInv, TypeOK
<1>1. view' \in {view, [a \in Apps |-> "none"]}
  BY DEF Crash, Reboot
<1>2. (Live' => Live /\ fuse' = fuse) /\ \A a \in Apps : view'[a] # "none" => view[a] # "none"
  BY <1>1 DEF Live, Crash, Reboot
<1>3. CopyInv'
  BY <1>0, <1>2 DEF SInv, CopyInv, OneName, AppsQuiet, NoLiveWriter, UndoneDead, Copied, Stages, NothingLost, At
<1>4. ASSUME ~torn' PROVE Untorn'
  <2>1. Untorn /\ Agreed /\ (db.backend = "disabled" => ~enabled)
    BY <1>0, <1>4 DEF SInv, Cut
  <2> QED  BY <1>0, <1>2, <2>1 DEF Untorn, Agreed, Full, At
<1> QED  BY <1>3, <1>4 DEF SInv

\* The boot formats an empty volume under the zone's name, and mounts what the
\* volume is on.
LEMMA BootCopy ==
    ASSUME IInv, IInv', SInv, Boot
    PROVE  SInv'
<1>0. /\ UNCHANGED <<files, objs, view, mig, torn, behind>> /\ At("idle")
      /\ \A a \in Apps : status'[a] = "stopped" => status[a] = "stopped"
  BY DEF Boot, IInv, OneMigration, TypeOK
<1>1. /\ db'.backend = db.backend /\ db'.store = db.store
      /\ db'.volume \in {db.volume, Zone}
      /\ meta'.formatted = (meta.formatted \/ (meta' # meta))
      /\ meta' # meta => ~meta.formatted /\ meta'.volume = Zone
      /\ meta'.store = meta.store
  <2>1. CASE db.backend # "local" /\ UNCHANGED <<db, meta>>
    BY <2>1 DEF IInv, TypeOK
  <2>2. CASE AttachLocal
    <3> DEFINE name == IF db.volume = Legacy THEN Zone ELSE db.volume
    <3>1. name = Zone
      BY DEF SInv, CopyInv, OneName
    <3>2. db' = db \/ db' = [db EXCEPT !.volume = name]
      BY <2>2 DEF AttachLocal
    <3>3. meta' = meta \/ (~meta.formatted /\ FormatVolume(Local, name))
      BY <2>2 DEF AttachLocal
    <3>4. /\ db'.backend = db.backend /\ db'.store = db.store /\ db'.volume \in {db.volume, Zone}
      BY <3>1, <3>2 DEF IInv, TypeOK, Backend
    <3>5. CASE meta' = meta
      BY <3>4, <3>5 DEF IInv, TypeOK
    <3>6. CASE ~meta.formatted /\ FormatVolume(Local, name)
      <4>1. meta' = [formatted |-> TRUE, store |-> Local, volume |-> Zone]
        BY <3>1, <3>6 DEF FormatVolume
      <4>2. meta.store = Local
        BY <3>6 DEF SInv, CopyInv, OneName
      <4>3. meta'.formatted /\ meta' # meta
        BY <3>6, <4>1
      <4> QED  BY <3>4, <3>6, <4>1, <4>2, <4>3
    <3> QED  BY <3>3, <3>5, <3>6
  <2> QED  BY <2>1, <2>2 DEF Boot, Attach
<1>2. /\ \/ fuse' = fuse /\ enabled' \in {enabled, TRUE}
         \/ fuse' = (IF fuse = Down THEN meta'.store ELSE fuse) /\ enabled' = TRUE
      /\ db.backend = "disabled" => UNCHANGED <<fuse, enabled>>
      /\ fuse' # Down => fuse # Down \/ meta'.formatted
  BY DEF Boot, Attach
<1>3. meta'.volume = meta.volume \/ files = {}
  BY <1>1 DEF SInv, CopyInv, OneName
<1>4. NothingLost'
  BY <1>0, <1>3, SameFiles
<1>5. OneName'
  <2>1. /\ meta'.formatted => meta'.volume = Zone
        /\ ~meta'.formatted => meta' = meta
    BY <1>1 DEF SInv, CopyInv, OneName
  <2>2. ~meta'.formatted => fuse' = Down
    BY <1>2, <2>1 DEF SInv, CopyInv, OneName
  <2> QED  BY <1>0, <1>1, <2>1, <2>2 DEF SInv, CopyInv, OneName, Live, At
<1>6. AppsQuiet' /\ NoLiveWriter' /\ UndoneDead' /\ Stages' /\ Copied'
  BY <1>0 DEF SInv, CopyInv, AppsQuiet, NoLiveWriter, UndoneDead, Stages, Copied, Live, At
<1>7. ASSUME ~torn' PROVE Untorn'
  <2>1. Untorn /\ Agreed
    BY <1>0, <1>7 DEF SInv, Untorn
  <2>2. Live' => fuse' = db'.store
    BY <1>0, <1>1, <1>2, <2>1, LiveUp DEF Untorn, Live
  <2> QED  BY <1>0, <1>1, <1>2, <2>1, <2>2 DEF Untorn, Agreed, Full, Live, At
<1> QED  BY <1>4, <1>5, <1>6, <1>7 DEF SInv, CopyInv

\* Every step of such an owner's zone keeps all of it.
LEMMA NextCopy == PatientOwner /\ IInv /\ SInv /\ [Next]_vars => SInv'
<1> SUFFICES ASSUME PatientOwner, IInv, SInv, [Next]_vars
             PROVE  SInv'
  OBVIOUS
<1>0. IInv'
  BY NextInv
<1>1. CASE \E b \in Buckets, v \in Prefixes : Configure(b, v)
  BY <1>0, <1>1, ConfigureCopy
<1>2. CASE MigrationStep
  <2>1. CASE Sync
    BY <1>0, <2>1, SyncCopy, MoveInv
  <2>2. CASE Format \/ Mount \/ Quiesce \/ Repoint \/ Umount \/ Commit \/ Reclaim
    BY <1>0, <2>2, FormatCopy, MountCopy, QuiesceCopy, RepointCopy, UmountCopy, CommitCopy, ReclaimCopy
  <2>3. CASE UndoPoint \/ UndoUmount \/ UndoMount \/ RestartApps
    BY <1>0, <2>3, UndoPointCopy, UndoUmountCopy, UndoMountCopy, RestartCopy
  <2> QED  BY <1>2, <2>1, <2>2, <2>3 DEF MigrationStep
<1>3. CASE \E a \in Apps : AppStep(a)
  BY <1>0, <1>3, AppCopy
<1>4. CASE FuseUp \/ FuseCrash \/ Crash \/ Reboot \/ Boot
  BY <1>0, <1>4, FuseCopy, DownCopy, BootCopy
<1>5. CASE UNCHANGED vars
  BY <1>5 DEF vars, SInv, CopyInv, OneName, Stages, AppsQuiet, NoLiveWriter, UndoneDead, Copied, NothingLost,
              Untorn, Agreed, Full, Live, At
<1> QED  BY <1>1, <1>2, <1>3, <1>4, <1>5 DEF Next

\* In every state, what the runs ask follows.
LEMMA CopyMeans == IInv /\ SInv => NothingLost /\ NoLiveWriter /\ Readable
  BY DEF SInv, CopyInv, OneName, Untorn, Full, Readable, IInv, TypeOK

\* The invariant of a zone whose owner is patient.
LEMMA AlwaysCopied ==
    ASSUME PatientOwner
    PROVE  Spec => [](IInv /\ SInv)
<1>1. Init => IInv /\ SInv
  BY InitInv, InitCopy
<1>2. IInv /\ SInv /\ [Next]_vars => (IInv /\ SInv)'
  BY NextInv, NextCopy
<1> QED  BY <1>1, <1>2, PTL DEF Spec

\* configure_backend destroys no file but what is written behind the copy:
\* whatever command of a migration fails, wherever the router or the host goes
\* down, and however many migrations follow one another, some store has the
\* object of every other file the volume lists.
THEOREM FilesSurvive ==
    ASSUME PatientOwner
    PROVE  Spec => []NothingLost
<1>1. IInv /\ SInv => NothingLost
  BY CopyMeans
<1> QED  BY <1>1, AlwaysCopied, PTL

\* Whatever is mounted shows every file not written behind a copy, before, during
\* and after any number of migrations, failed ones among them, unless one was cut
\* while row, volume and mount disagreed: the undo puts all of it back.
THEOREM ArchiveReadable ==
    ASSUME PatientOwner
    PROVE  Spec => []Readable
<1>1. IInv /\ SInv => Readable
  BY CopyMeans
<1> QED  BY <1>1, AlwaysCopied, PTL

\* From the sync to the reclaim nobody writes into the source but, until the
\* unmount, an app whose launch was given up as 'error' with its container alive:
\* stop_running_archive_apps stops whatever else has the archive.
THEOREM NobodyWrites ==
    ASSUME PatientOwner
    PROVE  Spec => []NoLiveWriter
<1>1. IInv /\ SInv => NoLiveWriter
  BY CopyMeans
<1> QED  BY <1>1, AlwaysCopied, PTL

=============================================================================
