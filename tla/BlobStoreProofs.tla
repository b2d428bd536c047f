-------------------------- MODULE BlobStoreProofs --------------------------
(***************************************************************************)
(* The safety of the photos, for any numbers of photos, requests, cards    *)
(* and devices, however late and however often an upload is repeated.      *)
(*                                                                         *)
(* The argument: a file disappears only in the step after the removal of   *)
(* its row.  Unless an upload of the photo is under way between the two    *)
(* (it is raced then), the row is still absent when the file goes, and no  *)
(* request relies on the file.  Once the file of a raced photo is written  *)
(* again while no pass is removing it, everything holds of it again.       *)
(***************************************************************************)
EXTENDS BlobStore, VaultServerProofs

FilesInv ==
    /\ file \subseteq BlobId
    /\ age \in [BlobId -> Ages]
    /\ raced \subseteq BlobId
    /\ RowHasFile

Uploads == [at : {"check", "write", "record"}, blob : BlobId]

HandlersInv ==
    /\ handler \in [Handler -> {NoUpload} \cup Uploads]
    /\ \A h \in Handler :
        handler[h].at = "record" => handler[h].blob \in file \cup raced

(* Nobody but the pass has to do with the photo that it is removing.       *)
Alone(b) == blobRow[b] = "none" /\ ~Busy(b)

GCInv ==
    /\ gc.phase \in {"none", "unreferenced", "listed", "orphaned", "unlink"}
    /\ gc.phase \in {"unreferenced", "listed", "orphaned"} => gc.todo \subseteq BlobId
    /\ gc.phase = "unlink" =>
        /\ gc.blob \in BlobId
        /\ gc.next.phase \in {"unreferenced", "orphaned"}
        /\ gc.next.todo \subseteq BlobId \ {gc.blob}
        /\ gc.blob \in raced \/ Alone(gc.blob)

Walks ==
    [phase : {"walk"}, refs : SUBSET BlobId, excused : SUBSET BlobId,
     todo : SUBSET BlobId, got : SUBSET BlobId]

(* While the archive is walked, a photo of the snapshot is in it, or need  *)
(* not be, or is still in place where the walk has yet to come, and no     *)
(* pass is removing it.                                                    *)
WalkInv ==
    \A b \in backup.refs :
        \/ b \in backup.got \cup backup.excused
        \/ b \in backup.todo \cap file /\ ~Removing(b)

BackupInv ==
    \/ backup = NoBackup
    \/ backup \in Walks /\ WalkInv
    \/ backup.phase = "done" /\ backup.missing = {}

BlobInv == ServerInv /\ FilesInv /\ HandlersInv /\ GCInv /\ BackupInv

-----------------------------------------------------------------------------
(* What the steps do to the rows and the files.                            *)

LEMMA BlobInitInv == BlobInit => BlobInv
<1> SUFFICES ASSUME BlobInit PROVE BlobInv
  OBVIOUS
<1>1. ServerInv /\ \A b \in BlobId : blobRow[b] = "none"
  BY ServerInitInv DEF BlobInit, ServerInit
<1>2. FilesInv
  BY <1>1 DEF BlobInit, FilesInv, RowHasFile, Ages
<1>3. HandlersInv
  BY DEF BlobInit, HandlersInv, NoUpload
<1>4. GCInv /\ BackupInv
  BY DEF BlobInit, GCInv, BackupInv, NoGC
<1> QED BY <1>1, <1>2, <1>3, <1>4 DEF BlobInv

(* The server's part of a step is a step of the server.                    *)
LEMMA BlobStepIsServerStep ==
    ASSUME BlobInv, [BlobNext]_blobVars
    PROVE  [ServerNext]_serverVars
<1>1. ASSUME NEW h \in Handler, Record(h)
      PROVE  ServerNext
  <2>1. handler[h].blob \in BlobId
    BY <1>1 DEF BlobInv, HandlersInv, Uploads, Record, At, NoUpload
  <2> QED BY <1>1, <2>1 DEF Record, ServerNext
<1>2. CASE CollectUnreferenced \/ CollectOrphaned
  <2>1. gc.todo \subseteq BlobId
    BY <1>2 DEF BlobInv, GCInv, CollectUnreferenced, CollectOrphaned
  <2>2. PICK b \in gc.todo : \/ DeleteMetaIfUnreferenced(b) \/ DeleteMetaIfOrphaned(b)
                             \/ UNCHANGED serverVars
    BY <1>2 DEF CollectUnreferenced, CollectOrphaned
  <2> QED BY <2>1, <2>2 DEF ServerNext
<1>3. CASE UNCHANGED blobVars
  BY <1>3 DEF blobVars
<1>4. CASE \/ \E h \in Handler : \/ \E b \in BlobId : Receive(h, b)
                                 \/ CheckFile(h) \/ WriteFile(h) \/ AbortUpload(h)
           \/ \E b \in BlobId : GrowOld(b) \/ Archive(b)
           \/ StartGC \/ ListOrphans \/ DropLive \/ Unlink \/ UnlinkFails \/ FinishGC
           \/ Snapshot \/ FinishBackup \/ AbortBackup \/ Crash
  BY <1>4 DEF Receive, CheckFile, WriteFile, AbortUpload, GrowOld, Archive, StartGC,
              ListOrphans, DropLive, Unlink, UnlinkFails, FinishGC, Snapshot,
              FinishBackup, AbortBackup, Crash
<1>5. CASE ServerPush
  BY <1>5 DEF ServerNext
<1> QED BY <1>1, <1>2, <1>3, <1>4, <1>5 DEF BlobNext

(* A push makes no row and takes none away.                                *)
LEMMA PushKeepsRows ==
    ASSUME ServerInv, ServerPush, NEW b \in BlobId
    PROVE  blobRow'[b] = "none" <=> blobRow[b] = "none"
<1>1. PICK d \in Device, batch \in Batches : blobRow' = Marked(d, batch)
  BY DEF ServerPush, Push
<1> QED BY <1>1 DEF Marked

(* The photos of live cards have their rows.                               *)
LEMMA LiveFacts ==
    ASSUME ServerInv, NEW b \in LiveRefs
    PROVE  b \in BlobId /\ blobRow[b] = "referenced"
<1> QED BY DEF LiveRefs, IsBlobLive, ServerInv, RefsRegistered

(* What the placeholders are not.                                          *)
LEMMA Placeholders ==
    /\ NoUpload.at = "none" /\ NoUpload \notin Uploads
    /\ NoBackup.phase = "none"
    /\ \A w \in Walks : w.phase = "walk"
<1> QED BY DEF NoUpload, Uploads, NoBackup, Walks

-----------------------------------------------------------------------------
(* The parts that a step leaves alone keep what is said of them.           *)

LEMMA HandlersRest ==
    ASSUME BlobInv, handler' = handler, file \subseteq file', raced \subseteq raced'
    PROVE  HandlersInv'
<1> QED BY DEF BlobInv, HandlersInv

LEMMA BackupRest ==
    ASSUME BlobInv, backup' = backup, file \subseteq file',
           \A b \in BlobId : Removing(b)' => Removing(b)
    PROVE  BackupInv'
<1>1. CASE backup = NoBackup \/ (backup.phase = "done" /\ backup.missing = {})
  BY <1>1 DEF BackupInv
<1>2. CASE backup \in Walks /\ WalkInv
  <2>1. backup.refs \subseteq BlobId
    BY <1>2 DEF Walks
  <2>2. WalkInv'
    BY <1>2, <2>1 DEF WalkInv
  <2> QED BY <1>2, <2>2 DEF BackupInv
<1> QED BY <1>1, <1>2 DEF BlobInv, BackupInv

(* A push, the passing of time, or nothing.                                *)
LEMMA RowsStay ==
    ASSUME BlobInv, UNCHANGED <<file, handler, gc, backup, raced>>,
           age' \in [BlobId -> Ages],
           \A b \in BlobId : blobRow'[b] = "none" <=> blobRow[b] = "none"
    PROVE  FilesInv' /\ HandlersInv' /\ GCInv' /\ BackupInv'
<1>1. FilesInv'
  BY DEF BlobInv, FilesInv, RowHasFile
<1>2. GCInv'
  BY DEF BlobInv, GCInv, Alone, Busy
<1>3. BackupInv'
  BY BackupRest DEF Removing
<1> QED BY <1>1, <1>2, <1>3, HandlersRest

-----------------------------------------------------------------------------
(* The uploads.                                                            *)

(* An upload that comes while the file of its photo is being removed makes *)
(* the photo raced; no other has to do with the pass.                      *)
LEMMA ReceiveKeepsFiles ==
    ASSUME BlobInv, NEW h \in Handler, NEW b \in BlobId, Receive(h, b)
    PROVE  FilesInv' /\ HandlersInv' /\ GCInv' /\ BackupInv'
<1>1. /\ handler' = [handler EXCEPT ![h] = Upload(b, "check")]
      /\ raced' = IF Removing(b) THEN raced \cup {b} ELSE raced
      /\ UNCHANGED <<serverVars, file, age, gc, backup>>
  BY DEF Receive, Step
<1>2. FilesInv'
  BY <1>1 DEF BlobInv, FilesInv, RowHasFile, serverVars
<1>3. Upload(b, "check") \in Uploads /\ Upload(b, "check").at = "check"
      /\ Upload(b, "check").blob = b
  BY DEF Upload, Uploads
<1>4. HandlersInv'
  BY <1>1, <1>3 DEF BlobInv, HandlersInv
<1>5. GCInv'
  <2>1. ASSUME gc.phase = "unlink", gc.blob \notin raced'
        PROVE  Alone(gc.blob)'
    <3>1. gc.blob # b /\ Alone(gc.blob)
      BY <1>1, <2>1 DEF BlobInv, GCInv, Removing
    <3>2. \A g \in Handler : handler'[g] = handler[g] \/ handler'[g].blob = b
      BY <1>1, <1>3 DEF BlobInv, HandlersInv
    <3> QED BY <1>1, <3>1, <3>2 DEF Alone, Busy, serverVars
  <2> QED BY <1>1, <2>1 DEF BlobInv, GCInv
<1>6. BackupInv'
  BY <1>1, BackupRest DEF Removing
<1> QED BY <1>2, <1>4, <1>5, <1>6

(* A request that goes on: at most one that has its file goes to "record". *)
LEMMA AdvanceKeepsFiles ==
    ASSUME BlobInv, NEW h \in Handler, NEW b \in BlobId, NEW at \in {"write", "record"},
           handler[h] \in Uploads, handler[h].blob = b,
           handler' = [handler EXCEPT ![h] = Upload(b, at)],
           \/ file' = file /\ raced' = raced
           \/ /\ file' = file \cup {b}
              /\ raced' = IF Removing(b) THEN raced ELSE raced \ {b},
           at = "record" => b \in file',
           UNCHANGED <<serverVars, age, gc, backup>>
    PROVE  FilesInv' /\ HandlersInv' /\ GCInv' /\ BackupInv'
<1>1. FilesInv'
  BY DEF BlobInv, FilesInv, RowHasFile, serverVars
<1>2. Upload(b, at) \in Uploads /\ Upload(b, at).at = at /\ Upload(b, at).blob = b
      /\ handler[h] # NoUpload /\ Upload(b, at) # NoUpload
  BY Placeholders DEF Upload, Uploads
<1>3. handler \in [Handler -> {NoUpload} \cup Uploads]
  BY DEF BlobInv, HandlersInv
<1>4. HandlersInv'
  <2>1. handler' \in [Handler -> {NoUpload} \cup Uploads]
    BY <1>2, <1>3
  <2>2. ASSUME NEW g \in Handler, handler'[g].at = "record"
        PROVE  handler'[g].blob \in file' \cup raced'
    <3>1. CASE g = h
      BY <1>2, <1>3, <2>2, <3>1
    <3>2. CASE g # h
      BY <1>3, <2>2, <3>2 DEF BlobInv, HandlersInv
    <3> QED BY <3>1, <3>2
  <2> QED BY <2>1, <2>2 DEF HandlersInv
<1>5. GCInv'
  <2>1. ASSUME gc.phase = "unlink", gc.blob \notin raced'
        PROVE  Alone(gc.blob)'
    <3>1. \A c \in BlobId : Busy(c)' <=> Busy(c)
      BY <1>2, <1>3 DEF Busy
    <3>2. gc.blob \in BlobId /\ (gc.blob \in raced \/ Alone(gc.blob))
      BY <2>1 DEF BlobInv, GCInv
    <3>3. gc.blob \notin raced
      <4>1. ASSUME gc.blob = b PROVE Removing(b)
        BY <2>1, <4>1 DEF Removing
      <4> QED BY <2>1, <4>1
    <3> QED BY <3>1, <3>2, <3>3 DEF Alone, serverVars
  <2> QED BY <2>1 DEF BlobInv, GCInv
<1>6. BackupInv'
  BY BackupRest DEF Removing
<1> QED BY <1>1, <1>4, <1>5, <1>6

(* A request that ends, whether or not it has made the row: a pass that is *)
(* removing the photo without a race is alone with it, so that the row is  *)
(* not made behind its back.                                               *)
LEMMA EndKeepsFiles ==
    ASSUME BlobInv, NEW h \in Handler, Record(h) \/ AbortUpload(h)
    PROVE  FilesInv' /\ HandlersInv' /\ GCInv' /\ BackupInv'
<1>1. handler[h] \in Uploads
  BY Placeholders DEF BlobInv, HandlersInv, Record, AbortUpload, At
<1>2. PICK b \in BlobId : b = handler[h].blob
  BY <1>1 DEF Uploads
<1>3. /\ handler' = [handler EXCEPT ![h] = NoUpload]
      /\ UNCHANGED <<file, gc, backup, raced>>
      /\ \/ UNCHANGED <<serverVars, age>>
         \/ /\ InsertIfAbsent(b)
            /\ age' = IF blobRow[b] = "none" THEN [age EXCEPT ![b] = 0] ELSE age
            /\ b \in file \cup raced
  BY <1>2 DEF Record, AbortUpload, At, Step, BlobInv, HandlersInv
<1>4. \A c \in BlobId : blobRow'[c] = blobRow[c] \/ (c = b /\ b \in file \cup raced)
  BY <1>3 DEF InsertIfAbsent, serverVars, BlobInv, ServerInv, ServerTypeOK
<1>5. FilesInv'
  <2>1. age' \in [BlobId -> Ages]
    BY <1>3 DEF BlobInv, FilesInv, Ages
  <2>2. RowHasFile'
    BY <1>3, <1>4 DEF BlobInv, FilesInv, RowHasFile
  <2> QED BY <1>3, <2>1, <2>2 DEF BlobInv, FilesInv
<1>6. HandlersInv'
  BY <1>3, Placeholders DEF BlobInv, HandlersInv
<1>7. GCInv'
  <2>1. ASSUME gc.phase = "unlink", gc.blob \notin raced
        PROVE  Alone(gc.blob)'
    <3>1. gc.blob \in BlobId /\ Alone(gc.blob)
      BY <2>1 DEF BlobInv, GCInv
    <3>2. Busy(b)
      BY <1>1, <1>2, Placeholders DEF Busy
    <3>3. blobRow'[gc.blob] = "none"
      BY <1>4, <3>1, <3>2 DEF Alone
    <3>4. Busy(gc.blob)' => Busy(gc.blob)
      BY <1>3 DEF Busy, BlobInv, HandlersInv
    <3> QED BY <1>3, <3>1, <3>3, <3>4 DEF Alone
  <2> QED BY <1>3, <2>1 DEF BlobInv, GCInv
<1>8. BackupInv'
  BY <1>3, BackupRest DEF Removing
<1> QED BY <1>5, <1>6, <1>7, <1>8

LEMMA UploadKeepsFiles ==
    ASSUME BlobInv, NEW h \in Handler,
           \/ \E b \in BlobId : Receive(h, b)
           \/ CheckFile(h) \/ WriteFile(h) \/ Record(h) \/ AbortUpload(h)
    PROVE  FilesInv' /\ HandlersInv' /\ GCInv' /\ BackupInv'
<1>1. ASSUME handler[h].at # "none"
      PROVE  handler[h] \in Uploads /\ handler[h].blob \in BlobId
  BY <1>1, Placeholders DEF BlobInv, HandlersInv, Uploads
<1>2. CASE CheckFile(h)
  <2>1. handler[h] \in Uploads /\ handler[h].blob \in BlobId
    BY <1>1, <1>2 DEF CheckFile, At
  <2>2. PICK b \in BlobId, at \in {"write", "record"} :
          /\ b = handler[h].blob /\ handler' = [handler EXCEPT ![h] = Upload(b, at)]
          /\ at = "record" => b \in file
    BY <1>2, <2>1 DEF CheckFile, Step
  <2>3. UNCHANGED <<serverVars, file, age, gc, backup, raced>>
    BY <1>2 DEF CheckFile
  <2> QED BY <2>1, <2>2, <2>3, AdvanceKeepsFiles
<1>3. CASE WriteFile(h)
  <2>1. handler[h] \in Uploads /\ handler[h].blob \in BlobId
    BY <1>1, <1>3 DEF WriteFile, At
  <2>2. PICK b \in BlobId : b = handler[h].blob
    BY <2>1
  <2>3. /\ file' = file \cup {b}
        /\ raced' = IF Removing(b) THEN raced ELSE raced \ {b}
        /\ handler' = [handler EXCEPT ![h] = Upload(b, "record")]
        /\ UNCHANGED <<serverVars, age, gc, backup>>
    BY <1>3, <2>2 DEF WriteFile, Step
  <2> QED BY <2>1, <2>2, <2>3, AdvanceKeepsFiles
<1> QED BY <1>2, <1>3, ReceiveKeepsFiles, EndKeepsFiles

-----------------------------------------------------------------------------
(* The collection.                                                         *)

LEMMA PassMovesOn ==
    ASSUME BlobInv, UNCHANGED <<serverVars, file, age, handler, backup, raced>>,
           GCInv', gc'.phase # "unlink"
    PROVE  FilesInv' /\ HandlersInv' /\ GCInv' /\ BackupInv'
<1>1. FilesInv'
  BY DEF BlobInv, FilesInv, RowHasFile, serverVars
<1>2. BackupInv'
  BY BackupRest DEF Removing
<1> QED BY <1>1, <1>2, HandlersRest

(* What is taken is raced, or no request has to do with it.                *)
LEMMA TakeKeepsFiles ==
    ASSUME BlobInv, NEW b \in BlobId, NEW next,
           gc.phase # "unlink",
           next.phase \in {"unreferenced", "orphaned"}, next.todo \subseteq BlobId \ {b},
           DeleteMetaIfUnreferenced(b) \/ DeleteMetaIfOrphaned(b), Take(b, next),
           UNCHANGED <<file, handler>>
    PROVE  FilesInv' /\ HandlersInv' /\ GCInv' /\ BackupInv'
<1>1. /\ gc' = Unlinking(b, next)
      /\ blobRow' = [blobRow EXCEPT ![b] = "none"]
      /\ age' = [age EXCEPT ![b] = 0]
      /\ raced' = IF Busy(b) THEN raced \cup {b} ELSE raced
      /\ backup' = IF backup.phase = "walk" THEN [backup EXCEPT !.excused = @ \cup {b}]
                   ELSE backup
  BY DEF Take, Enter, DeleteMetaIfUnreferenced, DeleteMetaIfOrphaned
<1>2. blobRow \in [BlobId -> BlobStatus]
  BY DEF BlobInv, ServerInv, ServerTypeOK
<1>3. FilesInv'
  <2>1. age' \in [BlobId -> Ages] /\ raced' \subseteq BlobId
    BY <1>1 DEF BlobInv, FilesInv, Ages
  <2>2. RowHasFile'
    BY <1>1, <1>2 DEF BlobInv, FilesInv, RowHasFile
  <2> QED BY <2>1, <2>2 DEF BlobInv, FilesInv
<1>4. HandlersInv'
  BY <1>1, HandlersRest
<1>5. gc'.phase = "unlink" /\ gc'.blob = b /\ gc'.next = next
  BY <1>1 DEF Unlinking
<1>6. GCInv'
  <2>1. b \in raced' \/ Alone(b)'
    BY <1>1, <1>2 DEF Alone, Busy
  <2> QED BY <1>5, <2>1 DEF GCInv
<1>7. BackupInv'
  <2>1. CASE backup.phase # "walk"
    BY <1>1, <2>1, Placeholders DEF BlobInv, BackupInv
  <2>2. CASE backup.phase = "walk"
    <3>1. backup \in Walks /\ WalkInv
      BY <2>2, Placeholders DEF BlobInv, BackupInv
    <3>2. /\ backup'.refs = backup.refs /\ backup'.got = backup.got
          /\ backup'.todo = backup.todo /\ backup'.excused = backup.excused \cup {b}
          /\ backup' \in Walks
      BY <1>1, <2>2, <3>1 DEF Walks
    <3>3. \A c \in BlobId : Removing(c)' => c = b
      BY <1>5 DEF Removing
    <3>4. backup.refs \subseteq BlobId
      BY <3>1 DEF Walks
    <3>5. WalkInv'
      BY <3>1, <3>2, <3>3, <3>4 DEF WalkInv
    <3> QED BY <3>2, <3>5 DEF BackupInv
  <2> QED BY <2>1, <2>2
<1> QED BY <1>3, <1>4, <1>6, <1>7

LEMMA CollectKeepsFiles ==
    ASSUME BlobInv, CollectUnreferenced \/ CollectOrphaned
    PROVE  FilesInv' /\ HandlersInv' /\ GCInv' /\ BackupInv'
<1>1. gc.phase \in {"unreferenced", "orphaned"} /\ gc.todo \subseteq BlobId
  BY DEF BlobInv, GCInv, CollectUnreferenced, CollectOrphaned
<1>2. PICK b \in gc.todo :
        \/ /\ DeleteMetaIfUnreferenced(b) \/ DeleteMetaIfOrphaned(b)
           /\ Take(b, Collecting(gc.phase, gc.todo \ {b}))
        \/ /\ gc' = Collecting(gc.phase, gc.todo \ {b})
           /\ UNCHANGED <<serverVars, age, raced, backup>>
  BY DEF CollectUnreferenced, CollectOrphaned, Enter
<1>3. UNCHANGED <<file, handler>>
  BY DEF CollectUnreferenced, CollectOrphaned
<1>4. PICK next : next = Collecting(gc.phase, gc.todo \ {b})
  OBVIOUS
<1>5. next.phase = gc.phase /\ next.todo = gc.todo \ {b}
  BY <1>4 DEF Collecting
<1>6. CASE (DeleteMetaIfUnreferenced(b) \/ DeleteMetaIfOrphaned(b)) /\ Take(b, next)
  BY <1>1, <1>2, <1>3, <1>5, <1>6, TakeKeepsFiles
<1>7. CASE gc' = next /\ UNCHANGED <<serverVars, age, raced, backup>>
  <2>1. GCInv' /\ gc'.phase # "unlink"
    BY <1>1, <1>5, <1>7 DEF GCInv
  <2> QED BY <1>3, <1>7, <2>1, PassMovesOn
<1> QED BY <1>2, <1>4, <1>6, <1>7

(* The file of a photo goes after its row; unless it is raced, nobody      *)
(* needs it then.                                                          *)
LEMMA UnlinkKeepsFiles ==
    ASSUME BlobInv, Unlink
    PROVE  FilesInv' /\ HandlersInv' /\ GCInv' /\ BackupInv'
<1>1. PICK b : b = gc.blob
  OBVIOUS
<1>2. /\ file' = file \ {b} /\ gc' = gc.next
      /\ UNCHANGED <<serverVars, age, handler, backup, raced>>
      /\ b \in BlobId /\ (b \in raced \/ Alone(b)) /\ Removing(b)
      /\ gc.next.phase \in {"unreferenced", "orphaned"} /\ gc.next.todo \subseteq BlobId
  BY <1>1 DEF Unlink, Enter, BlobInv, GCInv, Removing
<1>3. FilesInv'
  BY <1>2 DEF BlobInv, FilesInv, RowHasFile, Alone, serverVars
<1>4. HandlersInv'
  <2>1. ASSUME NEW h \in Handler, handler[h].at = "record", handler[h].blob = b
        PROVE  b \in raced
    BY <1>2, <2>1, Placeholders DEF Alone, Busy
  <2> QED BY <1>2, <2>1 DEF BlobInv, HandlersInv
<1>5. GCInv'
  BY <1>2 DEF GCInv
<1>6. BackupInv'
  <2>1. CASE backup = NoBackup \/ (backup.phase = "done" /\ backup.missing = {})
    BY <1>2, <2>1 DEF BackupInv
  <2>2. CASE backup \in Walks /\ WalkInv
    <3>1. \A c \in BlobId : ~Removing(c)'
      BY <1>2 DEF Removing
    <3>2. backup.refs \subseteq BlobId
      BY <2>2 DEF Walks
    <3>3. WalkInv'
      BY <1>2, <2>2, <3>1, <3>2 DEF WalkInv
    <3> QED BY <1>2, <2>2, <3>3 DEF BackupInv
  <2> QED BY <2>1, <2>2 DEF BlobInv, BackupInv
<1> QED BY <1>3, <1>4, <1>5, <1>6

LEMMA PassKeepsFiles ==
    ASSUME BlobInv,
           StartGC \/ ListOrphans \/ DropLive \/ UnlinkFails \/ FinishGC
    PROVE  FilesInv' /\ HandlersInv' /\ GCInv' /\ BackupInv'
<1>1. UNCHANGED <<serverVars, file, age, handler, backup, raced>>
  BY DEF StartGC, ListOrphans, DropLive, UnlinkFails, FinishGC
<1>2. GCInv' /\ gc'.phase # "unlink"
  <2>1. CASE StartGC
    BY <1>1, <2>1 DEF StartGC, Enter, Collecting, GCInv
  <2>2. CASE ListOrphans
    BY <1>1, <2>2 DEF ListOrphans, Enter, Collecting, GCInv
  <2>3. CASE DropLive
    BY <1>1, <2>3 DEF DropLive, Enter, Collecting, BlobInv, GCInv
  <2>4. CASE UnlinkFails
    BY <1>1, <2>4 DEF UnlinkFails, Enter, BlobInv, GCInv
  <2>5. CASE FinishGC
    BY <1>1, <2>5 DEF FinishGC, Enter, NoGC, GCInv
  <2> QED BY <2>1, <2>2, <2>3, <2>4, <2>5
<1> QED BY <1>1, <1>2, PassMovesOn

-----------------------------------------------------------------------------
(* The backup.                                                             *)

LEMMA BackupKeepsFiles ==
    ASSUME BlobInv,
           Snapshot \/ (\E b \in BlobId : Archive(b)) \/ FinishBackup \/ AbortBackup
    PROVE  FilesInv' /\ HandlersInv' /\ GCInv' /\ BackupInv'
<1>1. UNCHANGED <<serverVars, file, age, handler, gc, raced>>
  BY DEF Snapshot, Archive, FinishBackup, AbortBackup
<1>2. FilesInv' /\ HandlersInv' /\ GCInv'
  <2>1. FilesInv'
    BY <1>1 DEF BlobInv, FilesInv, RowHasFile, serverVars
  <2>2. GCInv'
    BY <1>1 DEF BlobInv, GCInv, Alone, Busy, serverVars
  <2> QED BY <1>1, <2>1, <2>2, HandlersRest
<1>3. ASSUME backup.phase = "walk"
      PROVE  backup \in Walks /\ WalkInv
  BY <1>3, Placeholders DEF BlobInv, BackupInv
<1>4. \A b \in BlobId : Removing(b)' <=> Removing(b)
  BY <1>1 DEF Removing
<1>5. BackupInv'
  <2>1. CASE Snapshot
    <3>1. backup' = [phase |-> "walk", refs |-> LiveRefs, excused |-> raced,
                     todo |-> BlobId, got |-> {}]
      BY <2>1 DEF Snapshot
    <3>2. backup' \in Walks
      BY <3>1 DEF Walks, LiveRefs, BlobInv, FilesInv
    <3>3. ASSUME NEW b \in LiveRefs, b \notin raced
          PROVE  b \in BlobId \cap file /\ ~Removing(b)
      <4>1. b \in BlobId /\ blobRow[b] = "referenced"
        BY <3>3, LiveFacts DEF BlobInv
      <4>2. b \in file
        BY <3>3, <4>1 DEF BlobInv, FilesInv, RowHasFile
      <4>3. ~Removing(b)
        BY <3>3, <4>1 DEF BlobInv, GCInv, Removing, Alone
      <4> QED BY <4>1, <4>2, <4>3
    <3>4. LiveRefs \subseteq BlobId
      BY DEF LiveRefs
    <3>5. WalkInv'
      BY <1>1, <1>4, <3>1, <3>3, <3>4 DEF WalkInv
    <3> QED BY <3>2, <3>5 DEF BackupInv
  <2>2. ASSUME NEW b \in BlobId, Archive(b)
        PROVE  BackupInv'
    <3>1. backup.phase = "walk" /\ backup \in Walks /\ WalkInv
      BY <1>3, <2>2 DEF Archive
    <3>2. /\ backup'.refs = backup.refs /\ backup'.excused = backup.excused
          /\ backup'.todo = backup.todo \ {b}
          /\ backup'.got = backup.got \cup ({b} \cap file)
          /\ backup' \in Walks
      BY <2>2, <3>1 DEF Archive, Walks
    <3>3. backup.refs \subseteq BlobId
      BY <3>1 DEF Walks
    <3>4. WalkInv'
      BY <1>1, <1>4, <3>1, <3>2, <3>3 DEF WalkInv
    <3> QED BY <3>2, <3>4 DEF BackupInv
  <2>3. CASE FinishBackup
    <3>1. backup.phase = "walk" /\ backup.todo = {} /\ backup \in Walks /\ WalkInv
      BY <1>3, <2>3 DEF FinishBackup
    <3>2. backup' = Finished(backup.refs, backup.got \cup backup.excused)
      BY <2>3 DEF FinishBackup
    <3>3. backup.refs \subseteq backup.got \cup backup.excused
      BY <3>1 DEF WalkInv
    <3> QED BY <3>2, <3>3 DEF BackupInv, Finished
  <2>4. CASE AbortBackup
    BY <2>4 DEF AbortBackup, BackupInv
  <2> QED BY <2>1, <2>2, <2>3, <2>4
<1> QED BY <1>2, <1>5

LEMMA CrashKeepsFiles ==
    ASSUME BlobInv, Crash
    PROVE  FilesInv' /\ HandlersInv' /\ GCInv' /\ BackupInv'
<1>1. /\ UNCHANGED <<serverVars, file, age, raced>>
      /\ handler' = [h \in Handler |-> NoUpload] /\ gc' = NoGC
      /\ backup' = IF backup.phase = "walk" THEN NoBackup ELSE backup
  BY DEF Crash, Enter
<1>2. FilesInv'
  BY <1>1 DEF BlobInv, FilesInv, RowHasFile, serverVars
<1>3. HandlersInv'
  BY <1>1, Placeholders DEF HandlersInv
<1>4. GCInv'
  BY <1>1 DEF GCInv, NoGC
<1>5. BackupInv'
  BY <1>1, Placeholders DEF BlobInv, BackupInv
<1> QED BY <1>2, <1>3, <1>4, <1>5

-----------------------------------------------------------------------------
(* The inductive invariant and the theorems.                               *)

LEMMA StoreStepInv == BlobInv /\ [BlobNext]_blobVars => BlobInv'
<1> SUFFICES ASSUME BlobInv, [BlobNext]_blobVars PROVE BlobInv'
  OBVIOUS
<1>1. ServerInv'
  BY BlobStepIsServerStep, ServerStepInv DEF BlobInv
<1>2. FilesInv' /\ HandlersInv' /\ GCInv' /\ BackupInv'
  <2>1. CASE ServerPush /\ UNCHANGED fileVars
    <3>1. age' \in [BlobId -> Ages]
      BY <2>1 DEF BlobInv, FilesInv, fileVars
    <3> QED BY <2>1, <3>1, PushKeepsRows, RowsStay DEF BlobInv, fileVars
  <2>2. CASE \E h \in Handler :
                \/ \E b \in BlobId : Receive(h, b)
                \/ CheckFile(h) \/ WriteFile(h) \/ Record(h) \/ AbortUpload(h)
    BY <2>2, UploadKeepsFiles
  <2>3. ASSUME NEW b \in BlobId, GrowOld(b)
        PROVE  FilesInv' /\ HandlersInv' /\ GCInv' /\ BackupInv'
    <3>1. age' \in [BlobId -> Ages]
      BY <2>3 DEF GrowOld, BlobInv, FilesInv, Ages
    <3> QED BY <2>3, <3>1, RowsStay DEF GrowOld, serverVars
  <2>4. CASE CollectUnreferenced \/ CollectOrphaned
    BY <2>4, CollectKeepsFiles
  <2>5. CASE Unlink
    BY <2>5, UnlinkKeepsFiles
  <2>6. CASE StartGC \/ ListOrphans \/ DropLive \/ UnlinkFails \/ FinishGC
    BY <2>6, PassKeepsFiles
  <2>7. CASE Snapshot \/ (\E b \in BlobId : Archive(b)) \/ FinishBackup \/ AbortBackup
    BY <2>7, BackupKeepsFiles
  <2>8. CASE Crash
    BY <2>8, CrashKeepsFiles
  <2>9. CASE UNCHANGED blobVars
    <3>1. age' \in [BlobId -> Ages]
      BY <2>9 DEF BlobInv, FilesInv, blobVars, fileVars
    <3> QED BY <2>9, <3>1, RowsStay DEF blobVars, fileVars, serverVars
  <2> QED BY <2>1, <2>2, <2>3, <2>4, <2>5, <2>6, <2>7, <2>8, <2>9 DEF BlobNext
<1> QED BY <1>1, <1>2 DEF BlobInv

LEMMA BlobInvariance == BlobSpec => []BlobInv
<1> QED BY BlobInitInv, StoreStepInv, PTL DEF BlobSpec

(* Every state of the rows, the files, the requests, the collection and    *)
(* the backup is well formed.                                              *)
THEOREM BlobTypes == BlobSpec => []BlobTypeOK
<1>1. BlobInv => BlobTypeOK
  <2> SUFFICES ASSUME BlobInv PROVE BlobTypeOK
    OBVIOUS
  <2>1. ServerTypeOK /\ file \subseteq BlobId /\ age \in [BlobId -> Ages]
        /\ raced \subseteq BlobId
    BY DEF BlobInv, ServerInv, FilesInv
  <2>2. \A h \in Handler :
          \/ handler[h] = NoUpload
          \/ /\ handler[h].at \in {"check", "write", "record"}
             /\ handler[h].blob \in BlobId
    BY DEF BlobInv, HandlersInv, Uploads
  <2>3. CASE gc.phase = "none"
    BY <2>1, <2>2, <2>3 DEF BlobTypeOK
  <2>4. CASE gc.phase = "unlink"
    <3>1. gc.blob \in BlobId \ gc.next.todo
          /\ (blobRow[gc.blob] = "none" \/ gc.blob \in raced)
      BY <2>4 DEF BlobInv, GCInv, Alone
    <3> QED BY <2>1, <2>2, <2>4, <3>1 DEF BlobTypeOK
  <2>5. CASE gc.phase \in {"unreferenced", "listed", "orphaned"}
    <3>1. gc.todo \subseteq BlobId
      BY <2>5 DEF BlobInv, GCInv
    <3> QED BY <2>1, <2>2, <2>5, <3>1 DEF BlobTypeOK
  <2> QED BY <2>3, <2>4, <2>5 DEF BlobInv, GCInv
<1> QED BY <1>1, BlobInvariance, PTL

(* Every photo of a live card keeps its row, and its file unless an upload *)
(* of it met its collection, whatever collections, uploads, pushes and     *)
(* crashes interleave.                                                     *)
THEOREM PhotosAreServed == BlobSpec => []LivePhotosServed
<1>1. BlobInv => LivePhotosServed
  BY LiveFacts DEF BlobInv, FilesInv, RowHasFile, LivePhotosServed
<1> QED BY <1>1, BlobInvariance, PTL

(* A row lacks its file only after an upload of the photo met its          *)
(* collection, wherever the server is killed.                              *)
THEOREM RowsHaveFiles == BlobSpec => []RowHasFile
<1>1. BlobInv => RowHasFile
  BY DEF BlobInv, FilesInv
<1> QED BY <1>1, BlobInvariance, PTL

(* A finished backup has every photo of its snapshot but those that a      *)
(* collection took meanwhile or that such a meeting had hit before.        *)
THEOREM BackupsAreUsable == BlobSpec => []BackupUsable
<1>1. BlobInv => BackupUsable
  BY Placeholders DEF BlobInv, BackupInv, BackupUsable
<1> QED BY <1>1, BlobInvariance, PTL

(* The photo store uses the server as any client may.                      *)
THEOREM BlobStoreImplementsServer == BlobSpec => ServerSpec
<1>1. BlobInit => ServerInit
  BY DEF BlobInit
<1> QED BY <1>1, BlobStepIsServerStep, BlobInvariance, PTL DEF BlobSpec, ServerSpec
=============================================================================
