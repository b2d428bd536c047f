# Family Cards: synchronisation and membership in TLA+

Family Cards is a self-hosted wallet for loyalty cards: a Go server with one
SQLite database, and a Flutter client that works offline and synchronises
end-to-end encrypted cards and photos between the devices of a family.
This directory holds its specification: TLA+ modules translated from the code,
TLC configurations that check them on small families, and theorems that TLAPS
checks for families of any size.

## The system

| Component | Code | State | Operations |
|---|---|---|---|
| LWW rule | `server/internal/sync/resolve.go`, `mobile/lib/features/sync/conflict_resolver.dart` | none | `Resolve` / `accept` |
| Sync server | `server/internal/sync/` | tables `items`, `vaults.last_rev` | push, changes, tombstone job |
| Blob store | `server/internal/blobs/` | table `blobs`, files on disk | upload, download, garbage collection |
| Backup | `server/internal/admin/backup.go` | two files | snapshot, archive |
| Sync engine | `mobile/lib/features/sync/sync_service.dart` | the running cycle, `sync_state` | upload, push, pull, download |
| Card database | `mobile/lib/core/db/`, `card_repository.dart` | tables `cards`, `local_blobs` | create, edit, delete, restore, purge |
| Sync controller | `SyncController` in `sync_service.dart` | timers, failure count | triggers, backoff |
| Accounts and devices | `server/internal/auth/` | tables `users`, `devices`, `retired_refresh_tokens` | bootstrap, login, refresh, logout, password, recovery |
| Membership | `server/internal/membership/` | tables `invites`, `users` | invite, redeem, remove |
| Client session | `mobile/lib/features/auth/`, `core/net/` | identity, tokens, vault key | bootstrap, login, join, recover, lock, logout |

A device talks to the server by HTTP requests only. On the server every write
is a transaction on the only write connection, opened with `BEGIN IMMEDIATE`;
reads use a second pool and see committed snapshots. On the device, the user
interface and the sync engine share the local database and interleave at every
`await` of the Dart event loop.

What is hard in it:

* **stale state** - the engine reads rows, waits for the network or for a
  decryption, and writes the rows that the user may have changed meanwhile;
* **two snapshots** - a page of changes and the vault's revision are read apart;
* **delivery** - a request whose sender gave up may still be served, and an
  answer may be lost after its effect;
* **interruption** - a cycle ends at any request, a server at any instruction;
* **a database and a file system** - no transaction spans a photo's row and its
  file, while uploads, pushes, garbage collection and backups run;
* **retention** - tombstones and photos are removed by age, on clocks of
  different machines, whoever still relies on them.

`hazards` in `PROJECT.json` lists these at their lines, with the properties that
cover each.

## The modules

| Module | Models | Correspondence |
|---|---|---|
| `LwwRule` | the rule | `Resolve`, `Wins` over stamps (time, device) |
| `RevisionLog` | what the server promises | abstract: a head and the revision each key is at |
| `VaultServer` | the server's tables for one vault | one operator per transaction: `Push`, `CleanupTombstones`, `InsertIfAbsent`, `DeleteMetaIf...`; `IsPage`, `NextSince` for the two reads of `GetChanges` |
| `VaultSync` | the devices around it (extends `VaultServer`) | `cycle[d]` is the local variables of `runOnce` at an `await`; one action for the code between two awaits |
| `BlobStore` | rows and files of photos (extends `VaultServer`) | one action per file operation or transaction of `Upload`, `RunGC`, `Backup`; `Crash` |
| `FamilyAccess` | accounts, devices with refresh tokens, invites | one action per handler, or two when it reads something on the read pool before its transaction: `Begin...` fills `req[h]` with what the handler will believe, `End...` is the transaction |
| `ClientSession` | a device's tokens, interceptor and session controller around `FamilyAccess` (extends it) | one action for the code between two awaits; `call[c]` is a request in the interceptor, `flight` the `_inFlightRefresh` with how far the server has got, `op` the login or logout under way, `store` the two keys of the secure storage |
| `SyncController` | the triggers and timers that start cycles | one action per callback of the event loop; `inbox` holds the answers of the database that are on their way; the cycle is reduced to what the controller sees of it |
| `LwwRuleProofs`, `VaultServerProofs`, `VaultSyncProofs`, `SyncPhotoProofs`, `BlobStoreProofs`, `FamilyAccessProofs`, `ClientSessionProofs`, `SyncControllerProofs` | theorems about the module they name; `SyncPhotoProofs` about the photos in `VaultSync` | |
| `MC*` | instances for TLC | |

How they compose:

    LwwRule -> VaultServer -> VaultSync          (devices around the server)
                  |       \-> BlobStore          (files around its rows)
                  \-> RevisionLog                (what it implements)
    FamilyAccess -> ClientSession                (a device around the accounts)
    SyncController                               (when VaultSync's StartCycle runs)

`VaultSync` and `BlobStore` both build on the transactions of `VaultServer`:
`VaultSync` sees a photo as its metadata row only (an upload is one step),
`BlobStore` takes the devices as arbitrary requests and opens up the upload.
`VaultServer` is shown to implement `RevisionLog` with the head mapped to
`last_rev` and each key to the revision of its row. In turn `VaultSync`, `BlobStore`
and `ClientSession` are shown to implement the server they extend: their steps
are its steps or leave its tables alone, so what is proved of the server alone
holds with the devices, the files and the session around it.

`FamilyAccess` stands beside them: the vault's data and the right to reach it
share no state but the check of `RequireAuth`, which may pass or refuse any
request of `VaultSync` (a refused one is a cut cycle). In it `account`, `device`,
`retired` and `invite` are the tables `users`, `devices`,
`retired_refresh_tokens` and `invites`. Bootstrap, the redemption of an invite
and recovery are one step each: what they read outside of their transaction does
not change (users are never deleted, the recovery key never replaced). The two
lookups of a refresh with an unknown token are one step, because a token that no
device holds is never held again.

A sign-out in `VaultSync` is two steps. The first empties the table of the cards, as
`logout` does one table after another; the second empties `sync_state` and
`local_blobs`, and is the next login too. In the model the device keeps its id. The
cycle under way is not stopped by either, and that is the point of it
(`logout_resync`). `ClientSession` has the other half of the sign-out, the tokens and
the server.

`ClientSession` numbers the pairs of tokens that the server issues: the access
and the refresh token of a pair have one number, `holder[n]` is the device it was
issued to, and `expired` the last pair whose access token is past its 15 minutes.
A call is refused (`Refused`, an error that the caller sees), lost (`Fails`), or
answered 401 (`Unauthorized`), by `RequireAuth` or by a handler that checks a
password; the interceptor refreshes for either. After the refresh the call is sent
again, and any error then ends the session. `past` is a history variable: the
gravest thing that has happened to the session so far, from `calm` over `refused` (a
repeated call was) and `disturbed` (a request was lost, the user signed out or
recovered elsewhere) to `crossed` (a 401 arrived between two writes of the
storage) and `killed` (the app was). A token does not expire while a refresh, its
storing and the retry go on: they take seconds, it lives 15 minutes. A logout is a
call through the same interceptor.

`BlobStore` has a history variable too. An upload looks for the file first and
makes the row last, garbage collection deletes the row first and the file last, so
an upload that is under way somewhere between the two steps of the collection can
make a row whose file is about to go. `raced` is the set of photos this happened to
and whose file was not written since; a client may repeat an upload at any time.

What is abstracted: a refresh token is the number of its issue, and a wrong
password, verifier or code is a request that changes nothing. A device id may be
proposed at login, as the API allows; the app never does, so each of its logins
is one with a new id. A card's content is a serial number of the write that made
it, so that two contents are equal only when they are the same write; device ids
are ordered naturals; clock readings come from the small set `Time`, freely
chosen for every write, which covers clocks that are wrong or go back; pages and
batches carry sets of items with the order the code gives them (`NewRev`,
`IsPage`) where it matters. A batch holds each card at most once, as the client
builds it.

## The runs

| Run | Asks | Instance |
|---|---|---|
| `vault_server` | `RevisionsSound`, `RefsRegistered`, `ImplementsLog`, `PushMakesExact`, types | 2 cards, 2 devices, 2 times, 1 photo, 3 revisions; any well-formed batch |
| `sync_two_cards` | `NothingMissed`, `RefusalIsCurable`, `BatchIsSettled`, `PagesMoveOn`, `Converges`, types | 2 devices that share a card, an edit of it to push on one, then one more write of either (also of a second card) and one cut cycle with its late push; 2 times, a photo, page and batch of one, no removal by the server |
| `sync_one_card` | `CleanRowsAgree`, `DevicesAgree`, `NothingMissed`, `NeverBackwards`, `LossIsDecided` | 2 devices, 1 card, 3 writes at one clock reading, the third unreadable to others; a cut cycle with its late push, or a sign-out and the next login, in the place of a write; a photo that may be lost before its upload; tombstones expire, both collections |
| `blob_store` | `LivePhotosServed`, `RowHasFile`, `BackupUsable`, types | 2 upload requests at a time, repeated at any time, 1 photo, 4 revisions, crashes anywhere |
| `family_access` | `TokensIdentify`, `OpenInvitesFit`, `LastMemberStays`, `RevokedDevicesStay`, `DevicesBounded`, types | 3 users, 3 devices, 2 invites, 2 requests at a time, 4 tokens, `MaxUsers` 2, `MaxDevices` 1 |
| `client_session` | `AtMostOnce`, `WaitersHaveFlight`, `NeverReplays`, `SessionKept`, `CallsEnd`, `SignOutEnds`, types | 1 user, 2 devices, 2 calls, 1 handler at the server, 2 pairs of tokens, one active device |
| `sync_controller` | `OneRetry`, `FiveAttempts`, `DisposedIsQuiet`, `IndicatorCounts`, `EditsAreTried`, `SyncingEnds`, types | 2 cards, 5 attempts, any cycle may throw |
| `pull_ends` | `PullEnds` is violated | 1 card, 2 writes, one expired tombstone |
| `edit_lost` | `NoWinningEditLost` is violated | 1 card, 2 writes |
| `photo_stuck` | `Converges` is violated | 1 card, 3 writes, orphans collected |
| `logout_resync` | `NothingMissedAgain` is violated | 1 card, 1 write, one sign-out |
| `photo_race` | `LivePhotosKept` is violated | 1 photo, 1 upload request at a time, 1 revision |

Why these bounds are enough for the questions asked. The hazards are between two
devices and the server: a third device would be another source of pushes like the
second. Pages and batches of one make the loops over pages and batches turn with two
cards, which is where a cursor can be wrong. Two times give every order of two stamps,
equal ones included, which the device id decides. Three writes are a card's creation
and two changes, one after the other or concurrent, each at any `await` of either
device's cycle.

`sync_two_cards` spends its bounds on what comes after the first steps of a family:
`MiddleSpec` starts where device 1 has made a card and pushed it, both have pulled
it, and device 1 has edited it since, at either time (TLC reaches both states from
`Init`). The third write may be a concurrent edit or deletion of that card on the
other device, a later one on the same, or a second card; and one cycle may be cut
with its push under way, which is served late or never. So edits conflict at the
push and at the pull, win and lose by time and by device id, and an answer may be
lost in between. `sync_one_card` starts from nothing. In it a failure (a cut
cycle, a sign-out) takes the place of one of the three writes: `MaxEvents` bounds
both together. It has one clock reading, at which the device ids decide. What no run
combines is covered by the theorems of safety, which hold for any number of writes and
failures and any clocks. `Cutoff` lies above the times, so that a tombstone may expire
at any moment or not.

`MaxRev` is out of reach of the writes in the `VaultSync` runs, so it disables
nothing there; in `vault_server` and `blob_store` it bounds arbitrary requests.
`MaxWrites`, `MaxCuts` and `MaxEvents` bound the users and the failures.

In `family_access` two members fill the quota, so that every check of it is
met at the limit, and the third user takes the place of a removed member. With
`MaxDevices` 1 the bound of `DevicesBounded` is reached with two accounts: one
device by the limit, one by recovery. Two requests at a time show every pair of
reads and transactions; a third would wait for the write lock like the second.
`MaxTokens` bounds the tokens ever issued (it disables logins, refreshes and
recoveries when it is reached, nothing else). The clock is assumed not to go back
between two requests, and codes are random, so a code hash is never made twice.

In `client_session` two calls meet one expired token, which is what the shared
refresh is for; a third would wait like the second. The server serves one of the
device's requests at a time (what requests do to each other at the server is
`family_access`'s question). `MaxTokens` 2 gives a login and one refresh, or two
logins: a call meets an expired token, waits for the pair that replaces it, and is
sent again. `MaxDevices` 1 lets the server refuse a login.

In `blob_store` photos do not meet each other: a pass handles one candidate at a
time, and requests for different photos share nothing. So one photo is enough there,
with two requests that upload it at once; the theorems are for any number. Four
revisions let a card reference the photo, drop it, and reference it again.

`sync_controller` has the real number of attempts, and two cards so that the
counts 0, 1 and 2 can overtake each other.

Deadlock is checked in every run but `sync_controller`, whose controller stops
when it is disposed and its cycle is over. In the runs of `VaultSync` an idle
device can always start a cycle, in `BlobStore` the server can always be killed,
in `ClientSession` the app.

### Fairness

`LiveSpec` adds weak fairness of `StartCycle`, of the device's engine as a whole
(a request gets an answer or fails, and a `Future` that is complete resumes) and of
stray requests (they reach the server or vanish; serving them is the harder
case). That cycles start again and again is what `SyncController` is for:
`EditsAreTried` says that an edit is followed by a cycle while the app is in the
foreground, under fairness of the periodic timer and of cycles that end. Nothing is assumed
of the debounce, which every edit puts off, or of a retry, which a trigger cancels,
and nothing of the users or the server's jobs. `SyncingEnds` has a premise of its own,
that cycles throw no more from some time on. The code does not see to that: an
exception that `runOnce` does not catch may come back in every cycle, as with an item
that decrypts but does not parse, and then the indicator stays at "syncing" while every
cycle runs and throws. `EditsAreTried` needs no such premise.

That a request ends is an assumption. The client sets a time-out for the
connection only (`api_client.dart`), so an answer that never comes leaves a cycle,
and every later one behind its `_running` flag, waiting; TCP has to give up.
`SessionFairness` assumes the same of calls, refreshes and logouts: each is
answered or fails.

`Converges` says that from some time on all devices show the same cards; the
bounds on writes and cuts make the users and the network rest. It holds when no
tombstone expires and nothing is collected meanwhile: with expiry `pull_ends`, with
collection `photo_stuck` show why not.

### Where the code and its documentation differ

* `pull_ends`: `has_more` is `next_since < server_rev`. When the row at the last
  revision was a tombstone that the job has removed, no page can bring a device
  behind it to `server_rev`, and the loop of `_pullRemoteChanges` asks for ever.
  `docs/SYNC.md` derives the condition from revisions without holes. What is left of
  it is proved: the condition is exact until the job removes a row
  (`HasMoreStaysExact`), and again once one item of a push has been accepted
  (`PushMakesHasMoreExact`). So a family that goes on editing does not notice; one
  that rests does.
* `edit_lost`: `_applyIncomingItem` decides before the decryption and overwrites
  after it. `LossIsDecided` holds for edits the engine has seen; the comment of
  `localWinsOverRemote` claims more.
* `photo_stuck`: orphaned photos are collected by the age of their rows. A
  card restored from the trash, or edited by a device that had not yet heard of
  the deletion, references a photo that the server has dropped and that no device
  uploads again; its pushes are refused and its cycles end before the pull.
* `logout_resync`: a logout wipes the tables while a cycle goes on, which then
  stores its cursor in the empty `sync_state`. After the next login the device
  asks only for what lies above it, and does not get its cards back.
* `photo_race`: an upload is repeated, finds the file in place, and is overtaken by
  garbage collection: the row is deleted, the upload makes a new one, a push
  references it, and the file is unlinked. `docs/SYNC.md` says that the re-check
  inside the delete transaction closes the race of a photo that becomes needed again;
  it does for pushes, not for uploads. `LivePhotosServed` and `RowHasFile` say that
  nothing else loses a photo of a live card.

Three more, without a run:

* `_inFlightRefresh` is reset when the answer of the refresh is there, before the pair
  is stored in two awaited writes. A 401 that arrives in between (`past` is then
  `crossed`) starts a second refresh with the token just retired: the server takes it
  for theft and revokes all devices of the user. `auth_interceptor.dart:12` says that
  concurrent requests share one refresh.
* `auth_interceptor.dart:15` says that the session expires if the refresh itself
  fails. A repeated call that fails for any reason ends it as well, although the
  refresh has succeeded: a push refused with 422, a lost answer, a wrong old password
  (`ChangePassword` answers 401 itself, so its call is refreshed and repeated).
* The members screen takes a member with no active device
  for removed, and shows no button to remove them. `DECISIONS.md` argues that no
  endpoint revokes a single device; logout does (`EndLogout`). A member who has
  logged out keeps a place in the quota that nobody can free from the app.

## The proofs

`LwwRuleProofs` proves that `Wins` is a strict total order on stamps, that the
retry of a stored version is refused (`RetryIsRefused`) and that two edits of one
version leave the same winner in either order of arrival
(`OrderOfPushesIsImmaterial`).

`VaultServerProofs` proves of `ServerSpec`, for all finite sets of cards and all
values of the other constants:

* `ServerTypes`, `RevisionsStaySound`, `RefsStayRegistered` - the three invariants
  of the run `vault_server`. Their conjunction with the types is inductive as it
  stands, and has to be taken together: that a revision handed out by `Push` is
  new needs every row to be at or below `last_rev`, and that a collected photo is
  not referenced needs the types. The argument for a push: the
  accepted items get `last_rev + rank`, `rank` being a bijection onto `1 .. n`
  (`RankFacts`), so they are above every other row and differ from each other;
  the batch was refused had it named a photo without a row (`BatchFacts`), so
  marking makes every photo it references referenced. For garbage collection:
  the delete re-checks, in its own transaction, what the invariant needs.
* `ServerImplementsLog` - every transaction is a step of `RevisionLog`: a push
  commits the accepted set (`PushCommits`), the tombstone job forgets a set
  (`CleanupForgets`), the others stutter.
* `PushMakesHasMoreExact`, `HasMoreStaysExact` - the comparison of the cursor with
  `last_rev` is exact when a row is at `last_rev` (`HeldIsExact`). A push that
  accepts an item puts one there, and only the tombstone job can take it away. The
  second theorem assumes `NoExpiry`, that no tombstone is old enough for the job,
  which is when `docs/SYNC.md` is right; `pull_ends` is the counterexample without it.
* `RepeatedPushIsRefused` - after a push, the server holds of every card of the
  batch the version that was pushed, one that the rule prefers, or nothing, and none
  of them is what the batch was based on: the batch that is sent again is refused
  item by item.

`FamilyAccessProofs` proves the six properties of the run `family_access` for
any finite sets of users, devices and codes, any limits and any number of
concurrent requests. None of the invariants but the types is inductive alone.
`AccessInv` adds:

* `LapsedStays` - what a request to make an invite takes for expired is still
  expired, or deleted, when its transaction runs, so the stale time never makes it
  count too few invites;
* `OwnersExist` and `NothingBeforeBootstrap` - devices, and logins under way,
  belong to accounts, and before the bootstrap there is no invite;
* `GroupsBounded` - for *every* group of accounts G, the active devices of accounts in
  G, if G is not empty, number at most `MaxDevices + |G| - 1`. The bound for all
  accounts alone is not preserved by recovery: to know that the account that recovers
  had no share in the excess one needs the bound for the others. `RecoveryRedeem` of u
  leaves u one device, and the group without u keeps its own bound.

`TokensIdentify` has an invariant of its own, `TokensInv`: what is stored, retired
or about to be retired was issued (`TokensKnown`), and the token that a refresh
under way will retire is held by its own device or by none. So when `EndRefresh`
gives that device the next token, the retired one has no holder left, also when a
second refresh with the same token did it before.

`LastMemberStays` is preserved by `EndRemove` because the count is taken in the
transaction that disables. `RevokedDevicesStay` needs only the types: no statement
clears the flag or deletes a row. The proof reads every writer of `device`.

The assumptions are the `ASSUME`s of the modules: `User`, `Device`, `Invite` are
finite and the limits positive (`FiniteAssumption`, `LimitAssumption`); devices of
`VaultServer` are positive naturals, times and cutoffs naturals, the set of cards is
finite, `BlobsOf` assigns sets of photos to contents.

`VaultSyncProofs` proves the safety properties of `VaultSync`'s passing runs, except
`RefusalIsCurable`, for any numbers of devices, cards, writes, failures and sign-outs,
any page and batch size, any clocks and any collections. None is inductive. `SyncInv`
says of every place where a version can be, a row, a batch, an answer, a page, what it
is worth there:

* `RowFine`, `VersionFine` - what a device holds is never ahead of what the server
  holds of the same card, if it still does: the server moves a card only above
  `last_rev`, or forgets it;
* `Dealt(.., k)` - of a card at revision k or below the device has the version, or
  an own edit to push, or had no reason to keep it. It is carried from the
  cursor (`CursorFine`) to the page that is read from it (`PageFine`, for all
  revisions up to the page's last but the cards still to be applied), and when
  nothing is left, back to the cursor by `TurnPage`. It survives what others push
  meanwhile because that lands above `last_rev`, which the cursor never passes, also
  when the page and the revision are read from different snapshots;
* `RevsFine`, `ConflictsFine` - the answer of a push: revisions handed out are
  above the cursor, so a row that `markSynced` wrongly takes for clean is put
  right by the pull; a conflict is a version the rule preferred to the pushed one.

From it follow `SyncTypes`, `NothingIsMissed`, `CleanRowsStayRight`, `NothingGoesBack`
and `LossesAreDecided`, one step of case analysis each, and `SyncImplementsServer`.
So does `DevicesConverge`: a clean row whose device has pulled past the card is what
the server holds, and there is one server. It says that devices cannot
come to rest with different cards; that they come to rest is `Converges`.

Two theorems are about the loops of the engine, without fairness. `PullsMoveOn`: a
page for a device that is behind ends above the cursor, from `NoExpiry` and
`HasMoreStaysExact`, which `SyncImplementsServer` carries over; then the loop turns at
most once for each revision. `BatchesAreSettled`: no card of a batch is left as it was
pushed. Its invariant `BatchDone` says that the row is no longer based on what the
batch was based on: a revision handed out is above that base, and the rule never
prefers a version to a push based on it. It assumes that all contents can be decrypted
(`Unreadable = {}`): a conflict that cannot be is not applied, the row stays dirty,
and a full batch of such rows is pushed again and again.

`SyncPhotoProofs` adds that the photos of every row are on the server or still
marked pending on the device (`RefusalsAreCured`). It assumes `PhotosLast`: no
collection, no lost cache file, no sign-out. Each is needed: collection is
`photo_stuck`; a lost file makes `_uploadPendingBlobs` forget a photo that a row
still names; a sign-out forgets marks while the cycle under way holds rows.

`BlobStoreProofs` proves the four invariants of `blob_store` for any numbers of photos
and requests, however late an upload is repeated. A file disappears only in the step
after the removal of its row. Unless an upload of the photo is under way somewhere
between the two, which makes it `raced`, the pass is alone with it (`Alone`): the row
is still absent when the file goes, and no request relies on the file. So an upload
that was told that its photo is there finds it there when it makes the row
(`HandlersInv`), and what the snapshot of a backup names is in the archive, excused,
or still in place where the walk has yet to come (`WalkInv`). The theorems say
how a photo can be lost, and that there is no other way; `photo_race` shows that this
one is real. `BlobStoreImplementsServer` carries the server's theorems over.

`ClientSessionProofs` proves `AtMostOnce`: a call in a phase from which it can be
sent again has not been executed (`CallsInv`), because the interceptor repeats only
what was answered 401, by `RequireAuth` or by a handler that had changed nothing.
`WaitersAreServed` proves `WaitersHaveFlight` action by action: every end of a refresh
is a `Complete`, which wakes all who wait. `SessionImplementsAccess` maps every step of
the session to a step of `FamilyAccess`; it needs that whatever token the device
presents was issued once (`StoreInv`, `FlightInv`, `OpInv`). So, for example, a revoked
device stays revoked whatever the session does.

`NothingIsReplayed` and `SessionGoesOn` prove `NeverReplays` and `SessionKept` for any
numbers of users, devices, calls and requests. Both say which events, and no others,
lead to a session's end: a spent token is presented only after a 401 between two
writes of the storage or a killed app, and tokens are deleted only after one of the
events of `Past`. They do not say that these events are harmless. Neither is
inductive. For the first, `SpentTokens` are those rotated away or about to be; they
grow only when a refresh reaches the server. `FreshInv` then follows the last pair
through the client: a refresh under way has a call waiting for it, so its answer
finds somebody to store it (`FlightFresh`); while a pair is stored no refresh is
under way (`CallsFresh`); so a spent token is in the storage only until the pair
that replaces it has been written (`StoreFresh`), and a login's pair is nobody
else's (`OpFresh`). For the second, `CalmInv` says that the device is the only one,
that all the server does is its refresh, and that every retry has a token that is
accepted (`CallCalm`): what ends a calm session is then a refusal of a repeated call
that has nothing to do with its token.

`SyncControllerProofs` proves the five safety properties of `sync_controller` for
any number of cards and attempts: `Chain` ties the failures counted, the retry
waiting, the flag `_running` and the attempts made to each other, `Quiet` says that
a disposed controller has no timers, and `LastAnswer` that the last count on
its way is the true one unless a change is yet to be looked at.

Only model-checked: all liveness (`Converges`, `CallsEnd`, `SignOutEnds`,
`EditsAreTried`, `SyncingEnds`), which needs fairness and `ENABLED`. No theorem is
about data defined by recursion: the prover cannot do induction over it.

## Not modelled

* Cryptography, canonical JSON, barcodes: pure functions over bytes. What
  matters to the protocol, that a content may fail to decrypt, is `Unreadable`.
* HTTP routing, rate limits, TLS, configuration, migrations, logging: no
  state the protocol depends on; a refused request is a cut cycle.
* Screens, import and export: what they do to cards are the user's actions.
* The restore of a backup and the loss of the last transactions in a power cut
  (`synchronous=NORMAL`): commits are durable here.
* A second `SyncService` of one device, left over from before a lock: `VaultSync`
  has one cycle per device (the cycle of a disposed controller goes on, but none
  starts beside it).
* Of the session: joining by invite, which for the tokens is a bootstrap; the
  change of the server address, which for the tables is a logout; the vault key in
  memory and its biometric copy.
* `ChangePassword`, `last_seen_at`, the lists of members, devices and invites: they
  change or show nothing that another operation depends on.
* Migrations, start-up and shutdown of the server: before or after all requests.

## What is left

1. Restores: the head of the log goes back, and devices hold cursors above it.
2. Two engines of one device around a lock; the cursor of each.
3. The last logout step as a composition of `ClientSession` and `VaultSync`, with one
   state for the tables and the tokens.
