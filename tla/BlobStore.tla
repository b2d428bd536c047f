----------------------------- MODULE BlobStore -----------------------------
(***************************************************************************)
(* The photo blobs of one vault as the server keeps them: a metadata row   *)
(* in the database and a file on disk, which no transaction spans.  Upload *)
(* requests, the daily garbage collection, the operator's backup and the   *)
(* pushes that reference photos interleave at every file operation and at  *)
(* every transaction; the process may be killed between any two of them.   *)
(***************************************************************************)
EXTENDS VaultServer

CONSTANT
    Handler    \* upload requests the server runs at the same time

VARIABLES
    file,      \* the blobs whose file is in place
    age,       \* age[b]: time since created_at of the row, if any, see Ages
    handler,   \* handler[h]: what the upload request h does next
    gc,        \* the garbage collection pass under way
    backup,    \* the backup under way, or the last one finished
    raced      \* history: the blobs that a collection met with an upload

fileVars == <<file, age, handler, gc, backup, raced>>
blobVars == <<serverVars, fileVars>>

(* Below the 24 hours of unreferencedGraceSeconds, above them, and above   *)
(* the 7 days of orphanGraceSeconds.                                       *)
Ages == 0 .. 2

NoUpload == [at |-> "none"]
Upload(b, at) == [at |-> at, blob |-> b]

NoGC == [phase |-> "none"]
Collecting(kind, todo) == [phase |-> kind, todo |-> todo]
Unlinking(b, next) == [phase |-> "unlink", blob |-> b, next |-> next]

NoBackup == [phase |-> "none"]
Finished(refs, got) == [phase |-> "done", missing |-> refs \ got]

BlobTypeOK ==
    /\ ServerTypeOK
    /\ file \subseteq BlobId
    /\ age \in [BlobId -> Ages]
    /\ \A h \in Handler :
        \/ handler[h] = NoUpload
        \/ /\ handler[h].at \in {"check", "write", "record"}
           /\ handler[h].blob \in BlobId
    /\ CASE gc.phase = "none" -> TRUE
         [] gc.phase = "unlink" ->
                /\ gc.blob \in BlobId \ gc.next.todo
                /\ blobRow[gc.blob] = "none" \/ gc.blob \in raced
         [] OTHER -> gc.todo \subseteq BlobId
    /\ raced \subseteq BlobId

BlobInit ==
    /\ ServerInit
    /\ file = {}
    /\ age = [b \in BlobId |-> 0]
    /\ handler = [h \in Handler |-> NoUpload]
    /\ gc = NoGC
    /\ backup = NoBackup
    /\ raced = {}
-----------------------------------------------------------------------------
(* POST /v1/blobs.                                                         *)

At(h, at) == handler[h].at = at
Step(h, u) == handler' = [handler EXCEPT ![h] = u]
Busy(b) == \E h \in Handler : handler[h] # NoUpload /\ handler[h].blob = b

(* The pass has deleted the row of b and comes to its file.                *)
Removing(b) == gc.phase = "unlink" /\ gc.blob = b

(* A client sends the blob, for the first time or, however long after,     *)
(* because it never got the answer; the digest matches.                    *)
Receive(h, b) ==
    /\ At(h, "none")
    /\ Step(h, Upload(b, "check"))
    /\ raced' = IF Removing(b) THEN raced \cup {b} ELSE raced
    /\ UNCHANGED <<serverVars, file, age, gc, backup>>

(* Mutant: the row comes first, the file after it.                         *)
RecordFirst(h) ==
    /\ At(h, "check")
    /\ Step(h, Upload(handler[h].blob, "write"))
    /\ InsertIfAbsent(handler[h].blob)
    /\ UNCHANGED <<file, age, gc, backup, raced>>

(* Store.Exists: the file is not written again.                            *)
CheckFile(h) ==
    /\ At(h, "check")
    /\ Step(h, Upload(handler[h].blob,
                      IF handler[h].blob \in file THEN "record" ELSE "write"))
    /\ UNCHANGED <<serverVars, file, age, gc, backup, raced>>

(* Store.Write: the rename puts the whole file in place at once, which     *)
(* makes up for a race that is over.                                       *)
WriteFile(h) ==
    /\ At(h, "write")
    /\ LET b == handler[h].blob
       IN  /\ file' = file \cup {b}
           /\ raced' = IF Removing(b) THEN raced ELSE raced \ {b}
    /\ Step(h, Upload(handler[h].blob, "record"))
    /\ UNCHANGED <<serverVars, age, gc, backup>>

(* The transaction; a new row is created now.                              *)
Record(h) ==
    /\ At(h, "record")
    /\ LET b == handler[h].blob
       IN  /\ InsertIfAbsent(b)
           /\ age' = IF blobRow[b] = "none" THEN [age EXCEPT ![b] = 0] ELSE age
    /\ Step(h, NoUpload)
    /\ UNCHANGED <<file, gc, backup, raced>>

(* The client disconnects, or a file operation or the transaction fails.   *)
AbortUpload(h) ==
    /\ handler[h] # NoUpload
    /\ Step(h, NoUpload)
    /\ UNCHANGED <<serverVars, file, age, gc, backup, raced>>

(* Time passes for a row.                                                  *)
GrowOld(b) ==
    /\ blobRow[b] # "none" /\ age[b] < 2
    /\ age' = [age EXCEPT ![b] = @ + 1]
    /\ UNCHANGED <<serverVars, file, handler, gc, backup, raced>>
-----------------------------------------------------------------------------
(* RunGC.                                                                  *)

Enter(g) == gc' = g

(* ListUnreferencedOlderThan.                                              *)
StartGC ==
    /\ gc.phase = "none"
    /\ Enter(Collecting("unreferenced",
                        {b \in BlobId : blobRow[b] = "unreferenced" /\ age[b] >= 1}))
    /\ UNCHANGED <<serverVars, file, age, handler, backup, raced>>

(* The row of a candidate is deleted and its file comes next.  An upload   *)
(* under way may have found the file, or will; a backup under way may not. *)
Take(b, next) ==
    /\ Enter(Unlinking(b, next))
    /\ age' = [age EXCEPT ![b] = 0]
    /\ raced' = IF Busy(b) THEN raced \cup {b} ELSE raced
    /\ backup' = IF backup.phase = "walk" THEN [backup EXCEPT !.excused = @ \cup {b}]
                 ELSE backup

(* Mutant: the file goes even when the row was not deleted.                *)
CollectRegardless ==
    /\ gc.phase = "unreferenced"
    /\ \E b \in gc.todo :
        /\ Take(b, Collecting("unreferenced", gc.todo \ {b}))
        /\ blobRow' = IF blobRow[b] = "unreferenced" THEN [blobRow EXCEPT ![b] = "none"]
                      ELSE blobRow
    /\ UNCHANGED <<items, lastRev, file, handler>>

(* collectUnreferenced, one candidate: a push may have confirmed it.       *)
CollectUnreferenced ==
    /\ gc.phase = "unreferenced"
    /\ \E b \in gc.todo :
        LET next == Collecting("unreferenced", gc.todo \ {b})
        IN  \/ DeleteMetaIfUnreferenced(b) /\ Take(b, next)
            \/ /\ blobRow[b] # "unreferenced"
               /\ Enter(next)
               /\ UNCHANGED <<serverVars, age, raced, backup>>
    /\ UNCHANGED <<file, handler>>

(* ListReferencedOlderThan: created_at, not the time it was last needed.   *)
ListOrphans ==
    /\ gc.phase = "unreferenced" /\ gc.todo = {}
    /\ Enter(Collecting("listed", {b \in BlobId : blobRow[b] = "referenced" /\ age[b] = 2}))
    /\ UNCHANGED <<serverVars, file, age, handler, backup, raced>>

(* LiveBlobRefs: the first check, of another snapshot.                     *)
DropLive ==
    /\ gc.phase = "listed"
    /\ Enter(Collecting("orphaned", {b \in gc.todo : ~IsBlobLive(b)}))
    /\ UNCHANGED <<serverVars, file, age, handler, backup, raced>>

(* Mutant: the first check is trusted.                                     *)
CollectListed ==
    /\ gc.phase = "orphaned"
    /\ \E b \in gc.todo :
        /\ DeleteMetaUnchecked(b)
        /\ Take(b, Collecting("orphaned", gc.todo \ {b}))
    /\ UNCHANGED <<file, handler>>

(* collectOrphaned, one candidate: a push may reference it again.          *)
CollectOrphaned ==
    /\ gc.phase = "orphaned"
    /\ \E b \in gc.todo :
        LET next == Collecting("orphaned", gc.todo \ {b})
        IN  \/ DeleteMetaIfOrphaned(b) /\ Take(b, next)
            \/ /\ IsBlobLive(b)
               /\ Enter(next)
               /\ UNCHANGED <<serverVars, age, raced, backup>>
    /\ UNCHANGED <<file, handler>>

(* removeFileBestEffort, when it works.                                    *)
Unlink ==
    /\ gc.phase = "unlink"
    /\ file' = file \ {gc.blob}
    /\ Enter(gc.next)
    /\ UNCHANGED <<serverVars, age, handler, backup, raced>>

(* ... and when it fails, which is logged only.                            *)
UnlinkFails ==
    /\ gc.phase = "unlink"
    /\ Enter(gc.next)
    /\ UNCHANGED <<serverVars, file, age, handler, backup, raced>>

FinishGC ==
    /\ gc.phase = "orphaned" /\ gc.todo = {}
    /\ Enter(NoGC)
    /\ UNCHANGED <<serverVars, file, age, handler, backup, raced>>
-----------------------------------------------------------------------------
(* POST /v1/admin/backup.                                                  *)

LiveRefs == {b \in BlobId : IsBlobLive(b)}

(* vacuumInto: the database as it is now.                                  *)
Snapshot ==
    /\ backup.phase # "walk"
    /\ backup' = [phase |-> "walk", refs |-> LiveRefs, excused |-> raced,
                  todo |-> BlobId, got |-> {}]
    /\ UNCHANGED <<serverVars, file, age, handler, gc, raced>>

(* archiveBlobDir: the walk comes to where the file of b is or would be.   *)
Archive(b) ==
    /\ backup.phase = "walk" /\ b \in backup.todo
    /\ backup' = [backup EXCEPT !.todo = @ \ {b}, !.got = @ \cup ({b} \cap file)]
    /\ UNCHANGED <<serverVars, file, age, handler, gc, raced>>

(* Mutant: the archive is made before the snapshot.                        *)
FinishBySnapshot ==
    /\ backup.phase = "walk" /\ backup.todo = {}
    /\ backup' = Finished(LiveRefs, backup.got \cup raced)
    /\ UNCHANGED <<serverVars, file, age, handler, gc, raced>>

FinishBackup ==
    /\ backup.phase = "walk" /\ backup.todo = {}
    /\ backup' = Finished(backup.refs, backup.got \cup backup.excused)
    /\ UNCHANGED <<serverVars, file, age, handler, gc, raced>>

(* A file that is gone when the walk opens it fails the request.           *)
AbortBackup ==
    /\ backup.phase = "walk"
    /\ backup' = NoBackup
    /\ UNCHANGED <<serverVars, file, age, handler, gc, raced>>
-----------------------------------------------------------------------------
(* The server is killed and started again: requests and the pass are gone. *)
Crash ==
    /\ handler' = [h \in Handler |-> NoUpload]
    /\ Enter(NoGC)
    /\ backup' = IF backup.phase = "walk" THEN NoBackup ELSE backup
    /\ UNCHANGED <<serverVars, file, age, raced>>

BlobNext ==
    \/ ServerPush /\ UNCHANGED fileVars
    \/ \E h \in Handler :
        \/ \E b \in BlobId : Receive(h, b)
        \/ CheckFile(h) \/ WriteFile(h) \/ Record(h) \/ AbortUpload(h)
    \/ \E b \in BlobId : GrowOld(b) \/ Archive(b)
    \/ StartGC \/ CollectUnreferenced \/ ListOrphans \/ DropLive \/ CollectOrphaned
    \/ Unlink \/ UnlinkFails \/ FinishGC
    \/ Snapshot \/ FinishBackup \/ AbortBackup
    \/ Crash

BlobSpec == BlobInit /\ [][BlobNext]_blobVars
-----------------------------------------------------------------------------
(* Properties.                                                             *)

(* Every photo of a live card has its row, which garbage collection will   *)
(* not take, whatever pass was listing it when a push referenced it        *)
(* (again); and it can be downloaded, unless an upload of it was under way *)
(* between the removal of its row and that of its file, and the file was   *)
(* not written since.                                                      *)
LivePhotosServed ==
    \A b \in LiveRefs : blobRow[b] = "referenced" /\ b \in file \cup raced

(* A row has its file, wherever the server was killed, with the same       *)
(* exception: otherwise "blob metadata exists but file is missing" is      *)
(* never answered.                                                         *)
RowHasFile ==
    \A b \in BlobId \ raced : blobRow[b] # "none" => b \in file

(* A finished backup can be restored: the archive has the photos of the    *)
(* cards in the snapshot, except those that garbage collection took while  *)
(* the archive was made and those that such a race had hit before.         *)
BackupUsable ==
    backup.phase = "done" => backup.missing = {}

(* What docs/SYNC.md promises of the checks inside the transaction of the  *)
(* deletion: they close the race with an upload, and a photo of a live     *)
(* card is always there.                                                   *)
LivePhotosKept == LiveRefs \subseteq file
=============================================================================
