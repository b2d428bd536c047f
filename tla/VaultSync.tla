----------------------------- MODULE VaultSync -----------------------------
(***************************************************************************)
(* The family's devices around the server: each keeps its cards in a local *)
(* database, lets the user change them at any time, and runs the sync      *)
(* cycle of SyncService.runOnce: upload the photos it has not uploaded,    *)
(* push the dirty rows in batches, pull the changes above its cursor page  *)
(* by page, download the photos it misses.                                 *)
(*                                                                         *)
(* One action stands for the code between two awaits.  The user's actions, *)
(* the other devices and the server's jobs interleave at every await, a    *)
(* cycle may be cut at any of them (a network error, or the app is         *)
(* killed), and a push whose sender gave up may still reach the server.    *)
(***************************************************************************)
EXTENDS VaultServer

CONSTANTS
    BatchLimit,   \* dirty rows a push carries at most (100 in the client)
    MaxWrites,    \* bound: writes of all users together
    MaxCuts,      \* bound: cycles that are cut, and sign-outs
    MaxEvents,    \* bound: writes, cuts and sign-outs together
    Unreadable,   \* contents that fail to decrypt on the receiving side
    LostFiles,    \* photos whose cached file may be gone before the upload
    SignOuts,     \* devices whose user signs out and in again, once
    GC            \* the collections whose grace period may pass meanwhile

ASSUME SyncBoundAssumption ==
    /\ BatchLimit \in Nat \ {0}
    /\ MaxWrites \in Nat /\ MaxCuts \in Nat /\ MaxEvents \in Nat
ASSUME WriteAssumption == Val = 1 .. MaxWrites /\ Unreadable \subseteq Val
ASSUME SignOutAssumption == SignOuts \subseteq Device
ASSUME PhotoAssumption ==
    /\ LostFiles \subseteq BlobId
    /\ GC \subseteq {"unreferenced", "orphaned"}

VARIABLES
    row,      \* row[d][i]: device d's row of card i, or NoRow
    photo,    \* photo[d][b]: device d's local_blobs row of photo b
    cursor,   \* cursor[d]: sync_state.last_server_rev
    cycle,    \* cycle[d]: what the running sync cycle holds
    writes,   \* the number of user writes so far; a new content is its serial
    born,     \* the card ids generated so far
    purged,   \* purged[d]: cards whose row the user removed for good
    stray,    \* push requests under way whose sender has given up on them
    cuts,     \* cycles cut, and sign-outs, so far
    session   \* session[d]: the first one, "leaving" it, or signed in again

clientVars == <<row, photo, cursor, cycle, writes, born, purged, stray, cuts, session>>
vars == <<serverVars, clientVars>>

NoRow == [val |-> NoVal, at |-> 0, deleted |-> FALSE, base |-> 0, dirty |-> FALSE]

Row ==
    [val : Val \cup {NoVal}, at : Nat, deleted : BOOLEAN, base : Nat, dirty : BOOLEAN]

HasRow(d, i) == row[d][i] # NoRow

DirtyCards(d) == {i \in ItemId : row[d][i].dirty}

(* Functions on some of the cards. *)
PartialOn(T) == UNION {[I -> T] : I \in SUBSET ItemId}

Remove(f, i) == [j \in DOMAIN f \ {i} |-> f[j]]

(* A cycle between two awaits, and what it then holds in its variables.    *)
Idle == [phase |-> "idle"]
Uploading(photos) == [phase |-> "upload", photos |-> photos]
Uploaded(b, photos) == [phase |-> "uploaded", blob |-> b, photos |-> photos]
Collecting == [phase |-> "collect"]
Pushing(batch) == [phase |-> "push", batch |-> batch]
Answered(batch, revs, conflicts) ==
    [phase |-> "answer", batch |-> batch, revs |-> revs, conflicts |-> conflicts]
Pulling(since) == [phase |-> "pull", since |-> since]
Listed(since, page) == [phase |-> "listed", since |-> since, page |-> page]
Paging(todo, next, more) ==
    [phase |-> "page", todo |-> todo, next |-> next, more |-> more]
Applying(i, seen, c) ==
    [phase |-> "apply", item |-> i, seen |-> seen,
     todo |-> c.todo, next |-> c.next, more |-> c.more]
Downloading(photos) == [phase |-> "download", photos |-> photos]

Phase(d) == cycle[d].phase

SyncTypeOK ==
    /\ ServerTypeOK
    /\ row \in [Device -> [ItemId -> Row]]
    /\ photo \in [Device -> [BlobId -> {"none", "pending", "uploaded"}]]
    /\ cursor \in [Device -> Nat]
    /\ \A d \in Device :
        LET c == cycle[d]
        IN  CASE c.phase \in {"idle", "collect"} -> TRUE
              [] c.phase \in {"upload", "uploaded", "download"} ->
                    c.photos \subseteq BlobId
              [] c.phase = "push" -> \A i \in DOMAIN c.batch : c.batch[i] \in Row
              [] c.phase = "answer" ->
                    /\ DOMAIN c.revs \subseteq DOMAIN c.batch
                    /\ DOMAIN c.conflicts \subseteq DOMAIN c.batch \ DOMAIN c.revs
                    /\ \A i \in DOMAIN c.conflicts : c.conflicts[i] \in ItemRow
              [] c.phase = "pull" -> c.since \in Nat
              [] c.phase = "listed" ->
                    \A i \in DOMAIN c.page : c.page[i] \in ItemRow
              [] c.phase \in {"page", "apply"} ->
                    /\ c.next \in Nat /\ c.more \in BOOLEAN
                    /\ \A i \in DOMAIN c.todo : c.todo[i] \in ItemRow
    /\ writes \in 0 .. MaxWrites
    /\ born \subseteq ItemId
    /\ purged \in [Device -> SUBSET ItemId]
    /\ cuts \in 0 .. MaxCuts
    /\ session \in [Device -> {"first", "leaving", "again"}]

Init ==
    /\ ServerInit
    /\ row = [d \in Device |-> [i \in ItemId |-> NoRow]]
    /\ photo = [d \in Device |-> [b \in BlobId |-> "none"]]
    /\ cursor = [d \in Device |-> 0]
    /\ cycle = [d \in Device |-> Idle]
    /\ writes = 0
    /\ born = {}
    /\ purged = [d \in Device |-> {}]
    /\ stray = {}
    /\ cuts = 0
    /\ session = [d \in Device |-> "first"]
-----------------------------------------------------------------------------
(* The user.                                                               *)

SetRow(d, i, r) == row' = [row EXCEPT ![d][i] = r]

InBounds == writes + cuts < MaxEvents

UserWrites ==
    /\ writes < MaxWrites /\ InBounds
    /\ writes' = writes + 1

(* The photos of the next content that were never used before.             *)
NewPhotos == BlobsOf[writes + 1] \ UNION {BlobsOf[v] : v \in 1 .. writes}

(* A card is saved with the photos kept from before and with new ones,     *)
(* which pickAndAttachPhoto has recorded as not yet uploaded.              *)
SaveContent(d, kept) ==
    /\ UserWrites
    /\ BlobsOf[writes + 1] \subseteq kept \cup NewPhotos
    /\ photo' = [photo EXCEPT ![d] =
                    [b \in BlobId |-> IF b \in NewPhotos THEN "pending" ELSE @[b]]]

(* createCard, also for every card that an import adds.                    *)
Create(d, i, t) ==
    /\ i \notin born
    /\ SaveContent(d, {})
    /\ born' = born \cup {i}
    /\ SetRow(d, i, [val |-> writes + 1, at |-> t, deleted |-> FALSE,
                     base |-> 0, dirty |-> TRUE])
    /\ UNCHANGED <<serverVars, cursor, cycle, purged, stray, cuts, session>>

(* updateCard with changed content, toggleFavorite.  Neither looks at      *)
(* "deleted": an open editor may save a card that was deleted meanwhile.   *)
Edit(d, i, t) ==
    /\ HasRow(d, i)
    /\ SaveContent(d, BlobsOf[row[d][i].val])
    /\ SetRow(d, i, [row[d][i] EXCEPT !.val = writes + 1, !.at = t, !.dirty = TRUE])
    /\ UNCHANGED <<serverVars, cursor, cycle, born, purged, stray, cuts, session>>

SoftDelete(d, i, t) ==
    /\ HasRow(d, i) /\ ~row[d][i].deleted
    /\ UserWrites
    /\ SetRow(d, i, [row[d][i] EXCEPT !.deleted = TRUE, !.at = t, !.dirty = TRUE])
    /\ UNCHANGED <<serverVars, photo, cursor, cycle, born, purged, stray, cuts, session>>

Restore(d, i, t) ==
    /\ HasRow(d, i) /\ row[d][i].deleted
    /\ UserWrites
    /\ SetRow(d, i, [row[d][i] EXCEPT !.deleted = FALSE, !.at = t, !.dirty = TRUE])
    /\ UNCHANGED <<serverVars, photo, cursor, cycle, born, purged, stray, cuts, session>>

(* "Delete forever" in the trash, or the 30-day expiry of the trash: the   *)
(* rows of S are removed, pushed or not.                                   *)
Purge(d, S) ==
    /\ S # {} /\ \A i \in S : HasRow(d, i) /\ row[d][i].deleted
    /\ row' = [row EXCEPT ![d] = [i \in ItemId |-> IF i \in S THEN NoRow ELSE @[i]]]
    /\ purged' = [purged EXCEPT ![d] = @ \cup S]
    /\ UNCHANGED <<serverVars, photo, cursor, cycle, writes, born, stray, cuts, session>>

(* logout, once it has told the server: the tables are emptied, the cards  *)
(* first and the cursor with the photos after them.  The cycle under way   *)
(* is not stopped.                                                         *)
SignOut(d) ==
    /\ d \in SignOuts /\ session[d] = "first"
    /\ cuts < MaxCuts /\ InBounds
    /\ cuts' = cuts + 1
    /\ session' = [session EXCEPT ![d] = "leaving"]
    /\ row' = [row EXCEPT ![d] = [i \in ItemId |-> NoRow]]
    /\ UNCHANGED <<serverVars, photo, cursor, cycle, writes, born, purged, stray>>

(* The rest of it, and the login that follows.                             *)
SignInAgain(d) ==
    /\ session[d] = "leaving"
    /\ session' = [session EXCEPT ![d] = "again"]
    /\ cursor' = [cursor EXCEPT ![d] = 0]
    /\ photo' = [photo EXCEPT ![d] = [b \in BlobId |-> "none"]]
    /\ UNCHANGED <<serverVars, row, cycle, writes, born, purged, stray, cuts>>
-----------------------------------------------------------------------------
(* Photos first.                                                           *)

Goto(d, c) == cycle' = [cycle EXCEPT ![d] = c]

(* _uploadPendingBlobs goes on with the photos it has left.                *)
ToUpload(photos) == IF photos = {} THEN Collecting ELSE Uploading(photos)

(* The _running flag keeps a second cycle out; without a network the cycle *)
(* ends at once, which changes nothing.                                    *)
StartCycle(d) ==
    /\ Phase(d) = "idle"
    /\ Goto(d, ToUpload({b \in BlobId : photo[d][b] = "pending"}))
    /\ UNCHANGED <<serverVars, row, photo, cursor, writes, born, purged, stray, cuts, session>>

(* Mutant: the result of the upload is not looked at.                      *)
UploadUnchecked(d) ==
    /\ Phase(d) = "upload"
    /\ \E b \in cycle[d].photos :
        /\ InsertIfAbsent(b) \/ UNCHANGED serverVars
        /\ Goto(d, Uploaded(b, cycle[d].photos \ {b}))
    /\ UNCHANGED <<row, photo, cursor, writes, born, purged, stray, cuts, session>>

(* The server stores a photo, as BlobStore has it in detail; a photo whose *)
(* file the cache has lost is forgotten.                                   *)
UploadPhoto(d) ==
    /\ Phase(d) = "upload"
    /\ \E b \in cycle[d].photos :
        LET rest == cycle[d].photos \ {b}
        IN  \/ /\ b \in LostFiles
               /\ photo' = [photo EXCEPT ![d][b] = "none"]
               /\ Goto(d, ToUpload(rest))
               /\ UNCHANGED serverVars
            \/ /\ InsertIfAbsent(b)
               /\ Goto(d, Uploaded(b, rest))
               /\ UNCHANGED photo
    /\ UNCHANGED <<row, cursor, writes, born, purged, stray, cuts, session>>

MarkUploaded(d) ==
    /\ Phase(d) = "uploaded"
    /\ photo' = [photo EXCEPT ![d][cycle[d].blob] = IF @ = "none" THEN @ ELSE "uploaded"]
    /\ Goto(d, ToUpload(cycle[d].photos))
    /\ UNCHANGED <<serverVars, row, cursor, writes, born, purged, stray, cuts, session>>
-----------------------------------------------------------------------------
(* Push.                                                                   *)

(* getDirtyCards: the batch is a snapshot of the rows.                     *)
CollectDirty(d) ==
    /\ Phase(d) = "collect"
    /\ \E I \in SUBSET DirtyCards(d) :
        /\ Cardinality(I) <= BatchLimit
        /\ I # DirtyCards(d) => Cardinality(I) = BatchLimit
        /\ Goto(d, IF I = {} THEN Pulling(cursor[d])
                             ELSE Pushing([i \in I |-> row[d][i]]))
    /\ UNCHANGED <<serverVars, row, photo, cursor, writes, born, purged, stray, cuts, session>>

(* _toPushItemDto: a deleted card is pushed without its content.           *)
ToPushItem(r) ==
    [base |-> r.base, at |-> r.at, deleted |-> r.deleted,
     val |-> IF r.deleted THEN NoVal ELSE r.val]

Request(batch) == [i \in DOMAIN batch |-> ToPushItem(batch[i])]

Ranks(d, req) == Bijection(Accepted(d, req), 1 .. Cardinality(Accepted(d, req)))

(* The server runs the push of a waiting cycle.                            *)
ServePush(d) ==
    /\ Phase(d) = "push"
    /\ LET req == Request(cycle[d].batch)
       IN  \E rank \in Ranks(d, req) :
            /\ Push(d, req, rank)
            /\ Goto(d, Answered(cycle[d].batch,
                                [i \in Accepted(d, req) |-> NewRev(rank, i)],
                                Conflicts(d, req)))
    /\ UNCHANGED <<row, photo, cursor, writes, born, purged, stray, cuts, session>>

(* A batch that names a photo the server does not have fails the cycle.    *)
RefusePush(d) ==
    /\ Phase(d) = "push"
    /\ MissingBlobRefs(Request(cycle[d].batch)) # {}
    /\ Goto(d, Idle)
    /\ UNCHANGED <<serverVars, row, photo, cursor, writes, born, purged, stray, cuts, session>>

(* The server runs a push whose answer nobody waits for any more.          *)
ServeStray ==
    \E s \in stray : \E rank \in Ranks(s.dev, s.req) :
        /\ Push(s.dev, s.req, rank)
        /\ stray' = stray \ {s}
        /\ UNCHANGED <<row, photo, cursor, cycle, writes, born, purged, cuts, session>>

(* Mutant: only a row that the server knew before is marked.               *)
SyncedIfKnown(r, rev) ==
    IF r = NoRow \/ r.base = 0 THEN r ELSE [r EXCEPT !.dirty = FALSE, !.base = rev]

(* The row that markSynced leaves: whatever it holds by now is taken for   *)
(* what the server accepted.                                               *)
Synced(r, rev) == IF r = NoRow THEN r ELSE [r EXCEPT !.dirty = FALSE, !.base = rev]

(* markSynced for the accepted items, in the order of their revisions.     *)
MarkSynced(d) ==
    /\ Phase(d) = "answer"
    /\ \E i \in DOMAIN cycle[d].revs :
        LET c == cycle[d]
        IN  /\ \A j \in DOMAIN c.revs : c.revs[i] <= c.revs[j]
            /\ SetRow(d, i, Synced(row[d][i], c.revs[i]))
            /\ Goto(d, Answered(c.batch, Remove(c.revs, i), c.conflicts))
    /\ UNCHANGED <<serverVars, photo, cursor, writes, born, purged, stray, cuts, session>>

(* _applyRemoteItem: what the row becomes.  A tombstone marks an existing  *)
(* row and never makes one; a content that fails to decrypt is skipped.    *)
Overwritten(r, it) ==
    CASE it.deleted /\ r = NoRow -> NoRow
      [] it.deleted /\ r # NoRow ->
            [r EXCEPT !.deleted = TRUE, !.at = it.at, !.base = it.rev, !.dirty = FALSE]
      [] ~it.deleted /\ it.val \in Unreadable -> r
      [] OTHER ->
            [val |-> it.val, at |-> it.at, deleted |-> FALSE, base |-> it.rev,
             dirty |-> FALSE]

(* The rows the push lost on, after all accepted ones are marked.          *)
ApplyConflict(d) ==
    /\ Phase(d) = "answer"
    /\ DOMAIN cycle[d].revs = {}
    /\ \E i \in DOMAIN cycle[d].conflicts :
        LET c == cycle[d]
        IN  /\ SetRow(d, i, Overwritten(row[d][i], c.conflicts[i]))
            /\ Goto(d, Answered(c.batch, c.revs, Remove(c.conflicts, i)))
    /\ UNCHANGED <<serverVars, photo, cursor, writes, born, purged, stray, cuts, session>>

(* A full batch may have left more behind; else the pull reads its cursor. *)
FinishBatch(d) ==
    /\ Phase(d) = "answer"
    /\ DOMAIN cycle[d].revs = {} /\ DOMAIN cycle[d].conflicts = {}
    /\ Goto(d, IF Cardinality(DOMAIN cycle[d].batch) < BatchLimit
               THEN Pulling(cursor[d]) ELSE Collecting)
    /\ UNCHANGED <<serverVars, row, photo, cursor, writes, born, purged, stray, cuts, session>>
-----------------------------------------------------------------------------
(* Pull.                                                                   *)

(* GetChanges, first read: the page.                                       *)
ServeList(d) ==
    /\ Phase(d) = "pull"
    /\ \E P \in SUBSET ItemId :
        /\ IsPage(P, cycle[d].since)
        /\ Goto(d, Listed(cycle[d].since, [i \in P |-> items[i]]))
    /\ UNCHANGED <<serverVars, row, photo, cursor, writes, born, purged, stray, cuts, session>>

(* GetChanges, second read: the vault's revision, and the answer.          *)
ServeRev(d) ==
    /\ Phase(d) = "listed"
    /\ LET c == cycle[d]
           next == NextSince(c.page, c.since)
       IN  Goto(d, Paging(c.page, next, next < lastRev))
    /\ UNCHANGED <<serverVars, row, photo, cursor, writes, born, purged, stray, cuts, session>>

(* Mutant: the pull does not look at local edits.                          *)
NeverKeeps(d, r, it) == FALSE

(* Mutant: a version the row is already based on is not applied again.     *)
KeepsOwn(d, r, it) == r.base = it.rev \/ (r.dirty /\ Resolve(it, Signed(d, r)))

(* localWinsOverRemote: a dirty row is kept when it would be accepted over *)
(* the remote version.                                                     *)
KeepsLocal(d, r, it) == r.dirty /\ Resolve(it, Signed(d, r))

(* _applyIncomingItem up to its decision, in the order of the page.        *)
CheckIncoming(d) ==
    /\ Phase(d) = "page"
    /\ \E i \in DOMAIN cycle[d].todo :
        LET c == cycle[d]
            rest == Paging(Remove(c.todo, i), c.next, c.more)
        IN  /\ \A j \in DOMAIN c.todo : c.todo[i].rev <= c.todo[j].rev
            /\ Goto(d, IF KeepsLocal(d, row[d][i], c.todo[i]) THEN rest
                       ELSE Applying(i, row[d][i], c))
    /\ UNCHANGED <<serverVars, row, photo, cursor, writes, born, purged, stray, cuts, session>>

(* _applyRemoteItem after the decryption, whatever the row is by then.     *)
ApplyIncoming(d) ==
    /\ Phase(d) = "apply"
    /\ LET c == cycle[d]
       IN  /\ SetRow(d, c.item, Overwritten(row[d][c.item], c.todo[c.item]))
           /\ Goto(d, Paging(Remove(c.todo, c.item), c.next, c.more))
    /\ UNCHANGED <<serverVars, photo, cursor, writes, born, purged, stray, cuts, session>>

(* _downloadMissingBlobs goes on, or runOnce is over.                      *)
ToDownload(photos) == IF photos = {} THEN Idle ELSE Downloading(photos)

Visible(d, i) == HasRow(d, i) /\ ~row[d][i].deleted

(* The photos of the visible cards that are not in the local cache.        *)
MissingPhotos(d) ==
    {b \in UNION {BlobsOf[row[d][i].val] : i \in {j \in ItemId : Visible(d, j)}} :
        photo[d][b] = "none"}

(* updateCursor after the page; the photos come after the last one.        *)
TurnPage(d) ==
    /\ Phase(d) = "page"
    /\ DOMAIN cycle[d].todo = {}
    /\ cursor' = [cursor EXCEPT ![d] = cycle[d].next]
    /\ Goto(d, IF cycle[d].more THEN Pulling(cycle[d].next)
               ELSE ToDownload(MissingPhotos(d)))
    /\ UNCHANGED <<serverVars, row, photo, writes, born, purged, stray, cuts, session>>

(* A photo that the server does not have is left for the next cycle.       *)
DownloadPhoto(d) ==
    /\ Phase(d) = "download"
    /\ \E b \in cycle[d].photos :
        /\ photo' = IF blobRow[b] = "none" THEN photo
                    ELSE [photo EXCEPT ![d][b] = "uploaded"]
        /\ Goto(d, ToDownload(cycle[d].photos \ {b}))
    /\ UNCHANGED <<serverVars, row, cursor, writes, born, purged, stray, cuts, session>>

(* A request fails or the app is killed: the cycle is gone, the database   *)
(* stays.  A push request may still be on its way.                         *)
Cut(d) ==
    /\ Phase(d) # "idle"
    /\ cuts < MaxCuts /\ InBounds
    /\ cuts' = cuts + 1
    /\ Goto(d, Idle)
    /\ \/ stray' = stray
       \/ /\ Phase(d) = "push"
          /\ stray' = stray \cup {[dev |-> d, req |-> Request(cycle[d].batch)]}
    /\ UNCHANGED <<serverVars, row, photo, cursor, writes, born, purged, session>>

(* The daily jobs of the server.                                           *)
Cleanup ==
    /\ \E cutoff \in Cutoff : CleanupTombstones(cutoff)
    /\ UNCHANGED clientVars

CollectGarbage ==
    /\ \E b \in BlobId :
        \/ "unreferenced" \in GC /\ DeleteMetaIfUnreferenced(b)
        \/ "orphaned" \in GC /\ DeleteMetaIfOrphaned(b)
    /\ UNCHANGED clientVars
-----------------------------------------------------------------------------
User(d) ==
    \/ \E i \in ItemId, t \in Time :
        Create(d, i, t) \/ Edit(d, i, t) \/ SoftDelete(d, i, t) \/ Restore(d, i, t)
    \/ \E S \in SUBSET ItemId : Purge(d, S)
    \/ SignOut(d) \/ SignInAgain(d)

Engine(d) ==
    \/ UploadPhoto(d) \/ MarkUploaded(d)
    \/ CollectDirty(d) \/ ServePush(d) \/ RefusePush(d) \/ MarkSynced(d) \/ ApplyConflict(d)
    \/ FinishBatch(d) \/ ServeList(d) \/ ServeRev(d) \/ CheckIncoming(d)
    \/ ApplyIncoming(d) \/ TurnPage(d) \/ DownloadPhoto(d)

Next ==
    \/ \E d \in Device : User(d) \/ StartCycle(d) \/ Engine(d) \/ Cut(d)
    \/ ServeStray
    \/ Cleanup
    \/ CollectGarbage

Spec == Init /\ [][Next]_vars
-----------------------------------------------------------------------------
(* Properties.                                                             *)

(* What device d did with the server's version of card i: it has taken it  *)
(* over, or it still has a local edit to push, or there was nothing to     *)
(* keep: a tombstone of a card it never had, a card its user removed for   *)
(* good, a content it cannot decrypt.                                      *)
Absorbed(d, i) ==
    \/ HasRow(d, i) /\ (row[d][i].dirty \/ row[d][i].base = items[i].rev)
    \/ ~HasRow(d, i) /\ (items[i].deleted \/ i \in purged[d])
    \/ items[i].val \in Unreadable

MissesNothing(d) ==
    \A i \in ItemId : Exists(i) /\ items[i].rev <= cursor[d] => Absorbed(d, i)

(* The cursor never passes a version the device has not dealt with: no     *)
(* change is missed, whatever is pushed between the two reads of a page,   *)
(* between two pages, or while the device applies one, and wherever a      *)
(* cycle is cut.                                                           *)
NothingMissed == \A d \in Device : session[d] = "first" => MissesNothing(d)

(* The same for a device whose user has signed out and in again.  logout   *)
(* says that it "wipes local cards", and the app that the user can "log    *)
(* back in at any time".                                                   *)
NothingMissedAgain == \A d \in Device : session[d] = "again" => MissesNothing(d)

(* A clean row behind the cursor that claims the server's revision shows   *)
(* what the server holds: an edit that markSynced took for pushed does not *)
(* survive the pull that follows.  A content that the device cannot        *)
(* decrypt is skipped, and says nothing of the row.                        *)
CleanRowsAgree ==
    \A d \in Device, i \in ItemId :
        /\ HasRow(d, i) /\ ~row[d][i].dirty
        /\ Exists(i) /\ row[d][i].base = items[i].rev /\ items[i].rev <= cursor[d]
        /\ items[i].val \notin Unreadable
        => /\ row[d][i].deleted = items[i].deleted
           /\ items[i].deleted \/ row[d][i].val = items[i].val

(* Card i of device d has nothing left to push, and the device has pulled  *)
(* past the server's version of it, in its first session.                  *)
AtRest(d, i) ==
    /\ ~row[d][i].dirty /\ items[i].rev <= cursor[d]
    /\ session[d] = "first" /\ i \notin purged[d]

(* What the list of cards shows of card i.                                 *)
Shown(d, i) == IF Visible(d, i) THEN {row[d][i].val} ELSE {}

(* README: devices that were edited offline converge to the same state.    *)
(* Devices at rest with a card that the server still knows show the same   *)
(* of it, however their cycles, pushes and edits were interleaved.         *)
DevicesAgree ==
    \A d, e \in Device, i \in ItemId :
        /\ Exists(i) /\ items[i].val \notin Unreadable
        /\ AtRest(d, i) /\ AtRest(e, i)
        => Shown(d, i) = Shown(e, i)

(* A batch is done with its cards: accepted, lost to another version, or   *)
(* changed again since.  So the loop that pushes until no row is dirty     *)
(* does not push the same rows again, if all contents can be decrypted.    *)
BatchIsSettled ==
    \A d \in Device :
        Phase(d) = "answer" =>
            \A i \in DOMAIN cycle[d].batch :
                \/ i \in DOMAIN cycle[d].revs \cup DOMAIN cycle[d].conflicts
                \/ row[d][i] # cycle[d].batch[i]

(* A page served to a device that is behind moves it on, so the loop of    *)
(* the pull turns a bounded number of times for the changes there are.     *)
PagesMoveOn ==
    [][\A d \in Device :
        Phase(d) = "pull" /\ Phase(d)' = "listed" /\ cycle[d].since < lastRev =>
            NextSince(cycle'[d].page, cycle[d].since) > cycle[d].since]_vars

(* A device never goes back: neither its cursor, unless its user signs     *)
(* out, nor the server revision a row is based on gets smaller, unless the *)
(* server has forgotten the card (the synthetic tombstone of revision 0).  *)
NeverBackwards ==
    [][\A d \in Device :
        /\ cursor'[d] >= cursor[d] \/ session[d] = "leaving"
        /\ \A i \in ItemId :
            HasRow(d, i) /\ HasRow(d, i)' =>
                \/ row'[d][i].base >= row[d][i].base
                \/ row'[d][i].base = 0 /\ row'[d][i].deleted]_vars

(* The engine applies a version to card i of device d in this step, and    *)
(* the row then had a write that is not on the server.                     *)
Discarded(d, i) ==
    /\ HasRow(d, i) /\ row[d][i].dirty
    /\ HasRow(d, i)' /\ ~row'[d][i].dirty
    /\ \/ row'[d][i].val # row[d][i].val
       \/ row'[d][i].deleted # row[d][i].deleted

(* The version that the engine of d is applying to card i, if any.         *)
AppliedVersion(d, i) ==
    CASE Phase(d) = "answer" /\ i \in DOMAIN cycle[d].conflicts -> {cycle[d].conflicts[i]}
      [] Phase(d) = "apply" /\ i = cycle[d].item -> {cycle[d].todo[i]}
      [] OTHER -> {}

(* The row that the engine of d decided about.                             *)
DecidedOn(d, i) ==
    CASE Phase(d) = "answer" /\ i \in DOMAIN cycle[d].batch -> cycle[d].batch[i]
      [] Phase(d) = "apply" /\ i = cycle[d].item -> cycle[d].seen
      [] OTHER -> NoRow

(* An edit that the user has not touched since the engine looked at it is  *)
(* discarded only for a version that the rule prefers to it, by the device *)
(* that pulls as by the server that refused the push.                      *)
LossIsDecided ==
    [][\A d \in Device, i \in ItemId :
        Discarded(d, i) /\ DecidedOn(d, i) = row[d][i] =>
            \E it \in AppliedVersion(d, i) : ~Resolve(it, Signed(d, row[d][i]))]_vars

(* The same for every edit, also one made while the engine was waiting:    *)
(* conflict_resolver.dart promises that "a winning local edit is not       *)
(* clobbered by the pull that arrived first".                              *)
NoWinningEditLost ==
    [][\A d \in Device, i \in ItemId :
        Discarded(d, i) =>
            \E it \in AppliedVersion(d, i) : ~Resolve(it, Signed(d, row[d][i]))]_vars

(* The server refuses a push only for photos that the device has yet to    *)
(* upload, saved while the cycle was under way: the next cycle cures it.   *)
RefusalIsCurable ==
    \A d \in Device :
        Phase(d) = "push" =>
            \A b \in MissingBlobRefs(Request(cycle[d].batch)) : photo[d][b] = "pending"

(* What every device would show if it stopped now.                         *)
Settled ==
    /\ \A d \in Device : DirtyCards(d) = {} /\ cursor[d] = lastRev
    /\ \A d \in Device, i \in ItemId :
        i \notin purged[d] /\ Exists(i) =>
            IF items[i].deleted THEN ~HasRow(d, i) \/ row[d][i].deleted
            ELSE /\ HasRow(d, i) /\ ~row[d][i].deleted
                 /\ row[d][i].val = items[i].val
                 /\ \A b \in BlobsOf[row[d][i].val] : photo[d][b] = "uploaded"

(* The periodic timer starts cycles for ever, a request gets its answer or *)
(* the cycle is cut, and a cycle goes on while the app lives.              *)
Fairness ==
    /\ \A d \in Device : WF_vars(StartCycle(d) \/ Engine(d))
    /\ WF_vars(ServeStray)

LiveSpec == Spec /\ Fairness

(* When the users rest, all devices come to show the same cards for good.  *)
Converges == <>[]Settled

(* A device that pulls gets to the end of the pull.                        *)
PullEnds ==
    \A d \in Device : Phase(d) = "pull" ~> Phase(d) = "idle"
=============================================================================
