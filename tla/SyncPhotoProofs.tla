-------------------------- MODULE SyncPhotoProofs --------------------------
(***************************************************************************)
(* A push that the server refuses for a photo is cured by the next cycle,  *)
(* for every number of devices, cards and photos, as long as no photo is   *)
(* collected, no cached file is lost and nobody signs out: each of these   *)
(* really breaks it.                                                       *)
(*                                                                         *)
(* The argument: the photos of a row are on the server or still marked     *)
(* pending on its device.  An edit keeps photos of the row it edits and    *)
(* adds pending ones; a version from the server has its photos there; and  *)
(* a mark goes only once the upload has been answered.                     *)
(***************************************************************************)
EXTENDS VaultSyncProofs

PhotosLast == GC = {} /\ LostFiles = {} /\ SignOuts = {}

(* Photo b is on the server, or device d will upload it.                   *)
Have(d, b) == blobRow[b] # "none" \/ photo[d][b] = "pending"

Covered(d, v) == \A b \in BlobId : b \in BlobsOf[v] => Have(d, b)

(* The photos of versions that the server has sent are there.              *)
Served(versions) ==
    \A i \in DOMAIN versions : ~versions[i].deleted =>
        \A b \in BlobId : b \in BlobsOf[versions[i].val] => blobRow[b] # "none"

RowPhotos(d) == \A i \in ItemId : row[d][i] # NoRow => Covered(d, row[d][i].val)

CyclePhotos(d) ==
    LET c == cycle[d]
    IN  /\ c.phase = "uploaded" => blobRow[c.blob] # "none"
        /\ c.phase = "push" => \A i \in DOMAIN c.batch : Covered(d, c.batch[i].val)
        /\ c.phase = "answer" => Served(c.conflicts)
        /\ c.phase = "listed" => Served(c.page)
        /\ c.phase \in {"page", "apply"} => Served(c.todo)

PhotosFine(d) == RowPhotos(d) /\ CyclePhotos(d) /\ session[d] = "first"

PhotosInv == \A d \in Device : PhotosFine(d)

-----------------------------------------------------------------------------
(* Nothing that was there goes away.                                       *)

RowsLast == \A b \in BlobId : blobRow[b] # "none" => blobRow'[b] # "none"

PhotosHeld(d) == \A b \in BlobId : Have(d, b) => Have(d, b)'

LEMMA BlobRowsLast ==
    ASSUME PhotosLast, SyncInv, [Next]_vars
    PROVE  RowsLast
<1>1. blobRow \in [BlobId -> BlobStatus]
  BY DEF SyncInv, SharedInv, ServerInv, ServerTypeOK
<1>2. ASSUME NEW d \in Device, NEW req, NEW rank, Push(d, req, rank)
      PROVE  RowsLast
  BY <1>2 DEF Push, Marked, RowsLast
<1>3. ASSUME NEW b, InsertIfAbsent(b)
      PROVE  RowsLast
  BY <1>1, <1>3 DEF InsertIfAbsent, RowsLast
<1>4. CASE blobRow' = blobRow
  BY <1>4 DEF RowsLast
<1>5. ASSUME NEW d \in Device, ServePush(d) PROVE RowsLast
  BY <1>2, <1>5 DEF ServePush
<1>6. CASE ServeStray
  <2>1. PICK s \in stray : \E rank : Push(s.dev, s.req, rank)
    BY <1>6 DEF ServeStray
  <2>2. s.dev \in Device
    BY DEF SyncInv, SharedInv, StraysFine
  <2> QED BY <1>2, <2>1, <2>2
<1>7. ASSUME NEW d \in Device, UploadPhoto(d) PROVE RowsLast
  <2>1. (\E b : InsertIfAbsent(b)) \/ UNCHANGED serverVars
    BY <1>7 DEF UploadPhoto
  <2> QED BY <1>3, <1>4, <2>1 DEF serverVars
<1>8. CASE Cleanup \/ UNCHANGED vars
  BY <1>4, <1>8 DEF Cleanup, CleanupTombstones, vars, serverVars
<1>9. ~CollectGarbage
  BY DEF CollectGarbage, PhotosLast
<1>10. ASSUME NEW d \in Device, User(d) PROVE RowsLast
  BY <1>4, <1>10 DEF User, Create, Edit, SoftDelete, Restore, Purge, SignOut, SignInAgain,
                     serverVars
<1>11. ASSUME NEW d \in Device, CycleStep(d), ~ServePush(d), ~UploadPhoto(d)
       PROVE  RowsLast
  BY <1>4, <1>11 DEF CycleStep, Engine, StartCycle, Cut, MarkUploaded, CollectDirty,
         RefusePush, MarkSynced, ApplyConflict, FinishBatch, ServeList, ServeRev,
         CheckIncoming, ApplyIncoming, TurnPage, DownloadPhoto, serverVars
<1> QED BY <1>5, <1>6, <1>7, <1>8, <1>9, <1>10, <1>11 DEF Next, CycleStep

LEMMA PhotosStayHeld ==
    ASSUME PhotosLast, SyncInv, PhotosInv, [Next]_vars, NEW e \in Device
    PROVE  PhotosHeld(e)
<1>1. RowsLast
  BY BlobRowsLast
<1>2. photo \in [Device -> [BlobId -> {"none", "pending", "uploaded"}]]
  BY DEF SyncInv, SharedInv
<1>3. SUFFICES ASSUME NEW b \in BlobId, photo[e][b] = "pending", blobRow[b] = "none"
               PROVE  photo'[e][b] = "pending" \/ blobRow'[b] # "none"
  BY <1>1 DEF PhotosHeld, Have, RowsLast
<1>4. CASE photo' = photo
  BY <1>3, <1>4
<1>5. ASSUME NEW d \in Device, UploadPhoto(d) PROVE photo' = photo
  BY <1>5 DEF UploadPhoto, PhotosLast
<1>6. ASSUME NEW d \in Device, MarkUploaded(d) PROVE photo'[e][b] = "pending"
  <2>1. cycle[d].blob \in BlobId /\ blobRow[cycle[d].blob] # "none"
    BY <1>6 DEF MarkUploaded, Phase, SyncInv, DeviceInv, CycleFine, PhotosInv, PhotosFine,
                CyclePhotos
  <2>2. cycle[d].blob # b
    BY <1>3, <2>1
  <2> QED BY <1>2, <1>3, <1>6, <2>1, <2>2 DEF MarkUploaded
<1>7. ASSUME NEW d \in Device, DownloadPhoto(d) PROVE photo'[e][b] = "pending"
  <2>1. PICK c \in cycle[d].photos :
           photo' = IF blobRow[c] = "none" THEN photo
                    ELSE [photo EXCEPT ![d][c] = "uploaded"]
    BY <1>7 DEF DownloadPhoto
  <2> QED BY <1>2, <1>3, <2>1
<1>8. ASSUME NEW d \in Device, User(d) PROVE photo'[e][b] = "pending"
  <2>1. ~SignOut(d) /\ ~SignInAgain(d)
    BY DEF SignOut, SignInAgain, PhotosLast, PhotosInv, PhotosFine
  <2>2. \/ photo' = photo
        \/ photo' = [photo EXCEPT ![d] =
                        [c \in BlobId |-> IF c \in NewPhotos THEN "pending" ELSE @[c]]]
    BY <1>8, <2>1 DEF User, Create, Edit, SoftDelete, Restore, Purge, SaveContent
  <2> QED BY <1>2, <1>3, <2>2
<1>9. ASSUME NEW d \in Device, CycleStep(d), ~UploadPhoto(d), ~MarkUploaded(d),
             ~DownloadPhoto(d)
      PROVE  photo' = photo
  BY <1>9 DEF CycleStep, Engine, StartCycle, Cut, CollectDirty, ServePush, RefusePush,
         MarkSynced, ApplyConflict, FinishBatch, ServeList, ServeRev, CheckIncoming,
         ApplyIncoming, TurnPage
<1>10. CASE ServeStray \/ Cleanup \/ CollectGarbage \/ UNCHANGED vars
  BY <1>4, <1>10 DEF ServeStray, Cleanup, CollectGarbage, vars, clientVars
<1> QED BY <1>4, <1>5, <1>6, <1>7, <1>8, <1>9, <1>10 DEF Next, CycleStep

-----------------------------------------------------------------------------
(* The rows.                                                               *)

(* Device d has the photos of content v after the step.                    *)
CoveredThen(d, v) == \A b \in BlobId : b \in BlobsOf[v] => Have(d, b)'

(* A row that keeps its content, or takes one over whose photos it has.    *)
LEMMA RowKeepsPhotos ==
    ASSUME NEW e \in Device, RowPhotos(e), PhotosHeld(e),
           \A i \in ItemId :
              \/ row'[e][i] = NoRow
              \/ row[e][i] # NoRow /\ row'[e][i].val = row[e][i].val
              \/ CoveredThen(e, row'[e][i].val)
    PROVE  RowPhotos(e)'
<1> SUFFICES ASSUME NEW i \in ItemId, row'[e][i] # NoRow PROVE CoveredThen(e, row'[e][i].val)
  BY DEF RowPhotos, Covered, CoveredThen
<1>1. CASE row[e][i] # NoRow /\ row'[e][i].val = row[e][i].val
  BY <1>1 DEF RowPhotos, Covered, CoveredThen, PhotosHeld
<1> QED BY <1>1

LEMMA UserRowPhotos ==
    ASSUME PhotosLast, SyncInv, PhotosInv, [Next]_vars, NEW d \in Device, User(d),
           NEW e \in Device
    PROVE  RowPhotos(e)'
<1>1. PhotosHeld(e) /\ RowPhotos(e) /\ RowPhotos(d)
  BY PhotosStayHeld DEF PhotosInv, PhotosFine
<1>2. /\ row \in [Device -> [ItemId -> Row]]
      /\ photo \in [Device -> [BlobId -> {"none", "pending", "uploaded"}]]
  BY DEF SyncInv, SharedInv
<1>3. ASSUME NEW i \in ItemId, NEW r, SetRow(d, i, r), r.val = writes + 1,
             NEW kept, SaveContent(d, kept), \A b \in BlobId : b \in kept => Have(d, b)
      PROVE  RowPhotos(e)'
  <2>1. /\ BlobsOf[writes + 1] \subseteq kept \cup NewPhotos
        /\ photo' = [photo EXCEPT ![d] =
                        [b \in BlobId |-> IF b \in NewPhotos THEN "pending" ELSE @[b]]]
    BY <1>3 DEF SaveContent
  <2>2. \A b \in BlobId : b \in NewPhotos => photo'[d][b] = "pending"
    BY <1>2, <2>1
  <2>3. PhotosHeld(d)
    BY PhotosStayHeld
  <2>4. CoveredThen(d, r.val)
    BY <1>3, <2>1, <2>2, <2>3 DEF CoveredThen, Have, PhotosHeld
  <2>5. \A j \in ItemId : row'[e][j] = row[e][j] \/ (e = d /\ row'[e][j] = r)
    BY <1>2, <1>3 DEF SetRow
  <2> QED BY <1>1, <2>4, <2>5, RowKeepsPhotos
<1>4. ASSUME NEW i \in ItemId, NEW t \in Time, Create(d, i, t) PROVE RowPhotos(e)'
  <2> DEFINE n == [val |-> writes + 1, at |-> t, deleted |-> FALSE, base |-> 0,
                   dirty |-> TRUE]
  <2>1. SetRow(d, i, n) /\ SaveContent(d, {}) /\ n.val = writes + 1
    BY <1>4 DEF Create
  <2> HIDE DEF n
  <2> QED BY <1>3, <2>1
<1>5. ASSUME NEW i \in ItemId, NEW t \in Time, Edit(d, i, t) PROVE RowPhotos(e)'
  <2> DEFINE n == [row[d][i] EXCEPT !.val = writes + 1, !.at = t, !.dirty = TRUE]
  <2>1. SetRow(d, i, n) /\ SaveContent(d, BlobsOf[row[d][i].val]) /\ row[d][i] # NoRow
    BY <1>5 DEF Edit, HasRow
  <2>2. n.val = writes + 1
    BY <1>2 DEF Row
  <2>3. \A b \in BlobId : b \in BlobsOf[row[d][i].val] => Have(d, b)
    BY <1>1, <2>1 DEF RowPhotos, Covered
  <2> HIDE DEF n
  <2> QED BY <1>3, <2>1, <2>2, <2>3
<1>6. ASSUME NEW i \in ItemId, NEW t \in Time, SoftDelete(d, i, t) \/ Restore(d, i, t)
      PROVE  RowPhotos(e)'
  <2>1. row[d][i] # NoRow
    BY <1>6 DEF SoftDelete, Restore, HasRow
  <2>2. \E del \in BOOLEAN :
          row' = [row EXCEPT ![d][i] = [row[d][i] EXCEPT !.deleted = del, !.at = t,
                                                         !.dirty = TRUE]]
    BY <1>6 DEF SoftDelete, Restore, SetRow
  <2>3. \A j \in ItemId :
          row'[e][j] = row[e][j] \/ (row[e][j] # NoRow /\ row'[e][j].val = row[e][j].val)
    BY <1>2, <2>1, <2>2 DEF Row
  <2> QED BY <1>1, <2>3, RowKeepsPhotos
<1>7. ASSUME NEW S \in SUBSET ItemId, Purge(d, S) PROVE RowPhotos(e)'
  <2>1. \A j \in ItemId : row'[e][j] = row[e][j] \/ row'[e][j] = NoRow
    BY <1>2, <1>7 DEF Purge
  <2> QED BY <1>1, <2>1, RowKeepsPhotos
<1>8. ~SignOut(d) /\ ~SignInAgain(d)
  BY DEF SignOut, SignInAgain, PhotosLast, PhotosInv, PhotosFine
<1> QED BY <1>4, <1>5, <1>6, <1>7, <1>8 DEF User

LEMMA CycleRowPhotos ==
    ASSUME PhotosLast, SyncInv, PhotosInv, [Next]_vars, NEW d \in Device, CycleStep(d),
           NEW e \in Device
    PROVE  RowPhotos(e)'
<1>1. PhotosHeld(e) /\ RowPhotos(e) /\ CyclePhotos(d) /\ RowsLast
  BY PhotosStayHeld, BlobRowsLast DEF PhotosInv, PhotosFine
<1>2. /\ row \in [Device -> [ItemId -> Row]]
      /\ SharedInv /\ DeviceInv(d)
  BY DEF SyncInv, SharedInv
<1>3. ASSUME NEW i \in ItemId, NEW v \in ItemRow,
             SetRow(d, i, Overwritten(row[d][i], v)),
             ~v.deleted => \A b \in BlobId : b \in BlobsOf[v.val] => blobRow[b] # "none"
      PROVE  RowPhotos(e)'
  <2>1. \/ Overwritten(row[d][i], v) = row[d][i]
        \/ row[d][i] # NoRow /\ Overwritten(row[d][i], v).val = row[d][i].val
        \/ ~v.deleted /\ Overwritten(row[d][i], v).val = v.val
    BY <1>2, VersionTypes DEF Overwritten, Row
  <2>2. ~v.deleted => CoveredThen(d, v.val)
    BY <1>1, <1>3 DEF CoveredThen, Have, RowsLast
  <2>3. \A j \in ItemId :
          row'[e][j] = row[e][j] \/ (e = d /\ j = i /\ row'[e][j] = Overwritten(row[d][i], v))
    BY <1>2, <1>3 DEF SetRow
  <2> QED BY <1>1, <2>1, <2>2, <2>3, RowKeepsPhotos
<1>4. CASE MarkSynced(d)
  <2>1. PICK i \in DOMAIN cycle[d].revs : SetRow(d, i, Synced(row[d][i], cycle[d].revs[i]))
    BY <1>4 DEF MarkSynced
  <2>2. \/ Synced(row[d][i], cycle[d].revs[i]) = row[d][i]
        \/ row[d][i] # NoRow /\ Synced(row[d][i], cycle[d].revs[i]).val = row[d][i].val
    <3>1. i \in ItemId
      BY <1>2, <1>4 DEF MarkSynced, Phase, DeviceInv, CycleFine
    <3> QED BY <1>2, <3>1 DEF Synced, Row
  <2>3. \A j \in ItemId :
          row'[e][j] = row[e][j]
          \/ (e = d /\ j = i /\ row'[e][j] = Synced(row[d][i], cycle[d].revs[i]))
    BY <1>2, <2>1 DEF SetRow
  <2> QED BY <1>1, <2>2, <2>3, RowKeepsPhotos
<1>5. CASE ApplyConflict(d)
  <2>1. PICK i \in DOMAIN cycle[d].conflicts :
           SetRow(d, i, Overwritten(row[d][i], cycle[d].conflicts[i]))
    BY <1>5 DEF ApplyConflict
  <2>2. i \in ItemId /\ cycle[d].conflicts[i] \in ItemRow
    BY <1>2, <1>5 DEF ApplyConflict, Phase, DeviceInv, CycleFine, ConflictsFine, VersionFine
  <2>3. Served(cycle[d].conflicts)
    BY <1>1, <1>5 DEF ApplyConflict, Phase, CyclePhotos
  <2> QED BY <1>3, <2>1, <2>2, <2>3 DEF Served
<1>6. CASE ApplyIncoming(d)
  <2>1. PICK i : i = cycle[d].item
    OBVIOUS
  <2>2. SetRow(d, i, Overwritten(row[d][i], cycle[d].todo[i]))
    BY <1>6, <2>1 DEF ApplyIncoming
  <2>3. i \in ItemId /\ i \in DOMAIN cycle[d].todo /\ cycle[d].todo[i] \in ItemRow
    BY <1>2, <1>6, <2>1 DEF ApplyIncoming, Phase, DeviceInv, CycleFine, PageFine, VersionFine
  <2>4. Served(cycle[d].todo)
    BY <1>1, <1>6 DEF ApplyIncoming, Phase, CyclePhotos
  <2> QED BY <1>3, <2>2, <2>3, <2>4 DEF Served
<1>7. CASE row' = row
  BY <1>1, <1>7, RowKeepsPhotos
<1>8. MarkSynced(d) \/ ApplyConflict(d) \/ ApplyIncoming(d) \/ row' = row
  BY DEF CycleStep, Engine, StartCycle, Cut, UploadPhoto, MarkUploaded, CollectDirty,
         ServePush, RefusePush, FinishBatch, ServeList, ServeRev, CheckIncoming,
         TurnPage, DownloadPhoto
<1> QED BY <1>4, <1>5, <1>6, <1>7, <1>8

-----------------------------------------------------------------------------
(* The cycles.                                                             *)

LEMMA CycleKeepsPhotos ==
    ASSUME SyncInv, NEW e \in Device, CyclePhotos(e), PhotosHeld(e), RowsLast,
           cycle'[e] = cycle[e]
    PROVE  CyclePhotos(e)'
<1>1. CycleFine(e)
  BY DEF SyncInv, DeviceInv
<1>2. /\ cycle[e].phase = "uploaded" => blobRow'[cycle[e].blob] # "none"
      /\ cycle[e].phase = "push" => \A i \in DOMAIN cycle[e].batch :
            CoveredThen(e, cycle[e].batch[i].val)
  BY <1>1 DEF CycleFine, CyclePhotos, RowsLast, Covered, CoveredThen, PhotosHeld
<1>3. ASSUME NEW f, Served(f)
      PROVE  \A i \in DOMAIN f : ~f[i].deleted =>
                \A b \in BlobId : b \in BlobsOf[f[i].val] => blobRow'[b] # "none"
  BY <1>3 DEF Served, RowsLast
<1> QED BY <1>2, <1>3 DEF CyclePhotos, Covered, CoveredThen, Served

(* The server's rows of live cards name photos that are there.             *)
LEMMA ItemsAreServed ==
    ASSUME SyncInv, NEW I \in SUBSET ItemId
    PROVE  Served([i \in I |-> items[i]])
<1>1. \A i \in ItemId, b \in BlobId :
        ~items[i].deleted /\ b \in BlobsOf[items[i].val] => blobRow[b] # "none"
  <2> SUFFICES ASSUME NEW i \in ItemId, NEW b \in BlobId, ~items[i].deleted,
                      b \in BlobsOf[items[i].val]
               PROVE  blobRow[b] # "none"
    OBVIOUS
  <2>1. items[i] # Gone
    BY VersionTypes
  <2>2. Exists(i)
    BY <2>1 DEF SyncInv, SharedInv, ServerInv, RevisionsSound, Exists
  <2> QED BY <2>2 DEF SyncInv, SharedInv, ServerInv, RefsRegistered, Refs
<1> QED BY <1>1 DEF Served

LEMMA OwnCyclePhotos ==
    ASSUME PhotosLast, SyncInv, PhotosInv, [Next]_vars, NEW d \in Device, CycleStep(d)
    PROVE  CyclePhotos(d)'
<1>1. /\ SharedInv /\ DOMAIN cycle = Device /\ CycleFine(d)
      /\ CyclePhotos(d) /\ RowPhotos(d) /\ RowsLast /\ PhotosHeld(d)
  BY PhotosStayHeld, BlobRowsLast DEF PhotosInv, PhotosFine, SyncInv, SharedInv, DeviceInv
<1>2. ASSUME cycle'[d].phase \notin
               {"uploaded", "push", "answer", "listed", "page", "apply"}
      PROVE  CyclePhotos(d)'
  BY <1>2 DEF CyclePhotos
<1>3. ASSUME NEW f, Served(f)
      PROVE  \A i \in DOMAIN f : ~f[i].deleted =>
                \A b \in BlobId : b \in BlobsOf[f[i].val] => blobRow'[b] # "none"
  BY <1>1, <1>3 DEF Served, RowsLast
<1>4. ASSUME NEW f, Served(f),
             \/ cycle'[d].phase = "answer" /\ cycle'[d].conflicts = f
             \/ cycle'[d].phase = "listed" /\ cycle'[d].page = f
             \/ cycle'[d].phase \in {"page", "apply"} /\ cycle'[d].todo = f
      PROVE  CyclePhotos(d)'
  BY <1>3, <1>4 DEF CyclePhotos, Served
<1>5. ASSUME NEW f, NEW i, Served(f) PROVE Served(Remove(f, i))
  <2>1. PICK g : g = Remove(f, i)
    OBVIOUS
  <2>2. DOMAIN g \subseteq DOMAIN f /\ \A j \in DOMAIN g : g[j] = f[j]
    BY <2>1, RemoveFacts
  <2>3. Served(g)
    BY <1>5, <2>2 DEF Served
  <2> QED BY <2>1, <2>3
<1>6. CASE StartCycle(d)
  <2>1. cycle'[d].phase \in {"upload", "collect"}
    BY <1>1, <1>6, GotoFacts DEF StartCycle, ToUpload, Collecting, Uploading
  <2> QED BY <1>2, <2>1
<1>7. CASE UploadPhoto(d)
  <2>1. PICK b \in cycle[d].photos :
           /\ InsertIfAbsent(b)
           /\ Goto(d, Uploaded(b, cycle[d].photos \ {b}))
    BY <1>7 DEF UploadPhoto, PhotosLast
  <2>2. b \in BlobId /\ blobRow \in [BlobId -> BlobStatus]
    BY <1>1, <1>7 DEF UploadPhoto, Phase, CycleFine, SharedInv, ServerInv, ServerTypeOK
  <2>3. blobRow'[b] # "none"
    BY <2>1, <2>2 DEF InsertIfAbsent
  <2>4. cycle'[d].phase = "uploaded" /\ cycle'[d].blob = b
    BY <1>1, <2>1, GotoFacts DEF Uploaded
  <2> QED BY <2>3, <2>4 DEF CyclePhotos
<1>8. CASE MarkUploaded(d)
  <2>1. cycle'[d].phase \in {"upload", "collect"}
    BY <1>1, <1>8, GotoFacts DEF MarkUploaded, ToUpload, Collecting, Uploading
  <2> QED BY <1>2, <2>1
<1>9. CASE CollectDirty(d)
  <2>1. PICK I \in SUBSET DirtyCards(d) :
           Goto(d, IF I = {} THEN Pulling(cursor[d]) ELSE Pushing([i \in I |-> row[d][i]]))
    BY <1>9 DEF CollectDirty
  <2>2. CASE I = {}
    <3>1. cycle'[d].phase = "pull"
      BY <1>1, <2>1, <2>2, GotoFacts DEF Pulling
    <3> QED BY <1>2, <3>1
  <2>3. CASE I # {}
    <3>1. PICK batch : batch = [i \in I |-> row[d][i]]
      OBVIOUS
    <3>2. cycle'[d].phase = "push" /\ cycle'[d].batch = batch
      BY <1>1, <2>1, <2>3, <3>1, GotoFacts DEF Pushing
    <3>3. \A i \in I : i \in ItemId /\ row[d][i] # NoRow
      BY <2>1, RowTypes DEF DirtyCards
    <3>4. \A i \in DOMAIN batch : CoveredThen(d, batch[i].val)
      BY <1>1, <3>1, <3>3 DEF RowPhotos, Covered, CoveredThen, PhotosHeld
    <3> QED BY <3>2, <3>4 DEF CyclePhotos, Covered, CoveredThen
  <2> QED BY <2>2, <2>3
<1>10. CASE ServePush(d)
  <2>1. PICK revs, req :
           /\ req = Request(cycle[d].batch)
           /\ Goto(d, Answered(cycle[d].batch, revs, Conflicts(d, req)))
    BY <1>10 DEF ServePush
  <2>2. BatchFine(cycle[d].batch)
    BY <1>1, <1>10 DEF ServePush, Phase, CycleFine
  <2>3. DOMAIN req \subseteq ItemId
    BY <2>1, <2>2 DEF Request, BatchFine
  <2>4. PICK f : f = Conflicts(d, req)
    OBVIOUS
  <2>5. Served(f)
    BY <2>3, <2>4, ItemsAreServed DEF Conflicts
  <2>6. cycle'[d].phase = "answer" /\ cycle'[d].conflicts = f
    BY <1>1, <2>1, <2>4, GotoFacts DEF Answered
  <2> QED BY <1>4, <2>5, <2>6
<1>11. CASE RefusePush(d) \/ Cut(d)
  <2>1. cycle'[d].phase = "idle"
    BY <1>1, <1>11, GotoFacts DEF RefusePush, Cut, Idle
  <2> QED BY <1>2, <2>1
<1>12. CASE MarkSynced(d)
  <2>1. PICK f : f = cycle[d].conflicts
    OBVIOUS
  <2>2. Served(f)
    BY <1>1, <1>12, <2>1 DEF MarkSynced, Phase, CyclePhotos
  <2>3. cycle'[d].phase = "answer" /\ cycle'[d].conflicts = f
    BY <1>1, <1>12, <2>1, GotoFacts DEF MarkSynced, Answered
  <2> QED BY <1>4, <2>2, <2>3
<1>13. CASE ApplyConflict(d)
  <2>1. PICK i : Goto(d, Answered(cycle[d].batch, cycle[d].revs,
                                  Remove(cycle[d].conflicts, i)))
    BY <1>13 DEF ApplyConflict
  <2>2. PICK f : f = cycle[d].conflicts
    OBVIOUS
  <2>3. Served(Remove(f, i))
    BY <1>1, <1>5, <1>13, <2>2 DEF ApplyConflict, Phase, CyclePhotos
  <2>4. cycle'[d].phase = "answer" /\ cycle'[d].conflicts = Remove(f, i)
    BY <1>1, <2>1, <2>2, GotoFacts DEF Answered
  <2> QED BY <1>4, <2>3, <2>4
<1>14. CASE FinishBatch(d)
  <2>1. cycle'[d].phase \in {"pull", "collect"}
    BY <1>1, <1>14, GotoFacts DEF FinishBatch, Pulling, Collecting
  <2> QED BY <1>2, <2>1
<1>15. CASE ServeList(d)
  <2>1. PICK P \in SUBSET ItemId : Goto(d, Listed(cycle[d].since, [i \in P |-> items[i]]))
    BY <1>15 DEF ServeList
  <2>2. PICK f : f = [i \in P |-> items[i]]
    OBVIOUS
  <2>3. Served(f)
    BY <2>2, ItemsAreServed
  <2>4. cycle'[d].phase = "listed" /\ cycle'[d].page = f
    BY <1>1, <2>1, <2>2, GotoFacts DEF Listed
  <2> QED BY <1>4, <2>3, <2>4
<1>16. CASE ServeRev(d)
  <2>1. PICK f : f = cycle[d].page
    OBVIOUS
  <2>2. Served(f)
    BY <1>1, <1>16, <2>1 DEF ServeRev, Phase, CyclePhotos
  <2>3. cycle'[d].phase = "page" /\ cycle'[d].todo = f
    BY <1>1, <1>16, <2>1, GotoFacts DEF ServeRev, Paging
  <2> QED BY <1>4, <2>2, <2>3
<1>17. CASE CheckIncoming(d)
  <2>1. PICK i : \/ Goto(d, Paging(Remove(cycle[d].todo, i), cycle[d].next, cycle[d].more))
                 \/ Goto(d, Applying(i, row[d][i], cycle[d]))
    BY <1>17 DEF CheckIncoming
  <2>2. PICK f : f = cycle[d].todo
    OBVIOUS
  <2>3. Served(f) /\ Served(Remove(f, i))
    BY <1>1, <1>5, <1>17, <2>2 DEF CheckIncoming, Phase, CyclePhotos
  <2>4. \/ cycle'[d].phase = "page" /\ cycle'[d].todo = Remove(f, i)
        \/ cycle'[d].phase = "apply" /\ cycle'[d].todo = f
    BY <1>1, <2>1, <2>2, GotoFacts DEF Paging, Applying
  <2> QED BY <1>4, <2>3, <2>4
<1>18. CASE ApplyIncoming(d)
  <2>1. PICK f, i : f = cycle[d].todo /\ i = cycle[d].item
    OBVIOUS
  <2>2. Served(Remove(f, i))
    BY <1>1, <1>5, <1>18, <2>1 DEF ApplyIncoming, Phase, CyclePhotos
  <2>3. cycle'[d].phase = "page" /\ cycle'[d].todo = Remove(f, i)
    BY <1>1, <1>18, <2>1, GotoFacts DEF ApplyIncoming, Paging
  <2> QED BY <1>4, <2>2, <2>3
<1>19. CASE TurnPage(d)
  <2>1. cycle'[d].phase \in {"pull", "idle", "download"}
    BY <1>1, <1>19, GotoFacts DEF TurnPage, Pulling, ToDownload, Idle, Downloading
  <2> QED BY <1>2, <2>1
<1>20. CASE DownloadPhoto(d)
  <2>1. cycle'[d].phase \in {"idle", "download"}
    BY <1>1, <1>20, GotoFacts DEF DownloadPhoto, ToDownload, Idle, Downloading
  <2> QED BY <1>2, <2>1
<1> QED BY <1>6, <1>7, <1>8, <1>9, <1>10, <1>11, <1>12, <1>13, <1>14, <1>15, <1>16,
           <1>17, <1>18, <1>19, <1>20 DEF CycleStep, Engine

-----------------------------------------------------------------------------
(* The invariant and the theorem.                                          *)

LEMMA PhotosStepInv ==
    ASSUME PhotosLast, SyncInv, PhotosInv, [Next]_vars
    PROVE  PhotosInv'
<1> SUFFICES ASSUME NEW e \in Device PROVE PhotosFine(e)'
  BY DEF PhotosInv
<1>1. PhotosHeld(e) /\ RowsLast /\ RowPhotos(e) /\ CyclePhotos(e) /\ session[e] = "first"
  BY PhotosStayHeld, BlobRowsLast DEF PhotosInv, PhotosFine
<1>2. ASSUME row' = row PROVE RowPhotos(e)'
  BY <1>1, <1>2, RowKeepsPhotos
<1>3. ASSUME NEW d \in Device, User(d)
      PROVE  PhotosFine(e)'
  <2>1. RowPhotos(e)'
    BY <1>3, UserRowPhotos
  <2>2. ~SignOut(d) /\ ~SignInAgain(d)
    BY DEF SignOut, SignInAgain, PhotosLast, PhotosInv, PhotosFine
  <2>3. cycle' = cycle /\ session' = session
    BY <1>3, <2>2 DEF User, Create, Edit, SoftDelete, Restore, Purge
  <2> QED BY <1>1, <2>1, <2>3, CycleKeepsPhotos DEF PhotosFine
<1>4. ASSUME NEW d \in Device, CycleStep(d)
      PROVE  PhotosFine(e)'
  <2>1. RowPhotos(e)'
    BY <1>4, CycleRowPhotos
  <2>2. Elsewhere(d)
    BY <1>4, CycleStepFrame DEF SyncInv
  <2>3. session' = session
    BY <1>4 DEF CycleStep, Engine, StartCycle, Cut, UploadPhoto, MarkUploaded,
         CollectDirty, ServePush, RefusePush, MarkSynced, ApplyConflict, FinishBatch,
         ServeList, ServeRev, CheckIncoming, ApplyIncoming, TurnPage, DownloadPhoto
  <2>4. CyclePhotos(e)'
    <3>1. CASE e = d
      BY <1>4, <3>1, OwnCyclePhotos
    <3>2. CASE e # d
      BY <1>1, <2>2, <3>2, CycleKeepsPhotos DEF Elsewhere
    <3> QED BY <3>1, <3>2
  <2> QED BY <1>1, <2>1, <2>3, <2>4 DEF PhotosFine
<1>5. CASE ServeStray \/ Cleanup \/ CollectGarbage \/ UNCHANGED vars
  <2>1. row' = row /\ cycle' = cycle /\ session' = session
    BY <1>5 DEF ServeStray, Cleanup, CollectGarbage, vars, clientVars
  <2> QED BY <1>1, <1>2, <2>1, CycleKeepsPhotos DEF PhotosFine
<1> QED BY <1>3, <1>4, <1>5 DEF Next, CycleStep

(* While no photo is collected and no cached file lost, the server refuses *)
(* a push only for photos that the device has yet to upload.               *)
THEOREM RefusalsAreCured == ASSUME PhotosLast PROVE Spec => []RefusalIsCurable
<1>1. Init => PhotosInv
  <2> SUFFICES ASSUME Init, NEW d \in Device PROVE PhotosFine(d)
    BY DEF PhotosInv
  <2>1. /\ \A i \in ItemId : row[d][i] = NoRow
        /\ cycle[d].phase = "idle" /\ session[d] = "first"
    BY DEF Init, Idle
  <2> QED BY <2>1 DEF PhotosFine, RowPhotos, CyclePhotos
<1>2. SyncInv /\ PhotosInv /\ [Next]_vars => PhotosInv'
  BY PhotosStepInv
<1>3. ASSUME SyncInv, PhotosInv, NEW d \in Device, Phase(d) = "push",
             NEW b \in MissingBlobRefs(Request(cycle[d].batch))
      PROVE  photo[d][b] = "pending"
  <2>1. PICK batch : batch = cycle[d].batch
    OBVIOUS
  <2>2. BatchFine(batch)
    BY <1>3, <2>1 DEF SyncInv, DeviceInv, CycleFine, Phase
  <2>3. PICK i \in DOMAIN batch : b \in Refs(ToPushItem(batch[i])) /\ blobRow[b] = "none"
    BY <1>3, <2>1 DEF MissingBlobRefs, BatchRefs, Request
  <2>4. b \in BlobsOf[batch[i].val]
    BY <2>3 DEF Refs, ToPushItem
  <2>5. b \in BlobId
    BY <2>2, <2>4, BlobAssumption DEF BatchFine
  <2>6. Covered(d, batch[i].val)
    BY <1>3, <2>1 DEF PhotosInv, PhotosFine, CyclePhotos, Phase
  <2> QED BY <2>3, <2>4, <2>5, <2>6 DEF Covered, Have
<1>4. SyncInv /\ PhotosInv => RefusalIsCurable
  BY <1>3 DEF RefusalIsCurable
<1> QED BY <1>1, <1>2, <1>4, SyncInvariance, PTL DEF Spec
=============================================================================
