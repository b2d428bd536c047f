---------------------------- MODULE VaultServer ----------------------------
(***************************************************************************)
(* The server's durable state for one vault, as the SQLite tables hold it, *)
(* and the transactions that change it.  Every transaction takes the only  *)
(* write connection with BEGIN IMMEDIATE, so each is one atomic step here; *)
(* readers use another pool and see committed states only.                 *)
(*                                                                         *)
(* A card's content is a value of Val: the server sees it as ciphertext.   *)
(* A batch is a function from the items it carries to what it says of      *)
(* them: a client sends each of its dirty rows once.                       *)
(***************************************************************************)
EXTENDS LwwRule, FiniteSets, Functions

CONSTANTS
    ItemId,    \* the vault's card ids
    Val,       \* card contents, as positive naturals
    BlobId,    \* the photo blobs a content may reference
    BlobsOf,   \* BlobsOf[v]: the blobs the content v references
    Cutoff,    \* the cutoff times the tombstone job may compute
    MaxRev,    \* bound: the last revision the model hands out
    PageLimit  \* items a page of changes holds at most (200 in the client)

NoVal == 0

ASSUME ItemAssumption == IsFiniteSet(ItemId)
ASSUME ValAssumption == Val \subseteq Nat \ {0}
ASSUME CutoffAssumption == Cutoff \subseteq Nat
ASSUME BlobAssumption == BlobsOf \in [Val -> SUBSET BlobId]
ASSUME BoundAssumption == MaxRev \in Nat /\ PageLimit \in Nat \ {0}

VARIABLES
    items,     \* items[i]: the row of item i, or Gone when there is none
    lastRev,   \* vaults.last_rev
    blobRow    \* blobRow[b]: the state of blob b's metadata row

serverVars == <<items, lastRev, blobRow>>

(* No row.  It is also, field by field, the synthetic conflict that stands *)
(* for a missing row: goneConflictDTO.                                     *)
Gone == [rev |-> 0, at |-> 0, dev |-> NoDevice, deleted |-> TRUE, val |-> NoVal]

(* A row of the items table; a tombstone has no content.                   *)
ItemRow ==
    {r \in [rev : Nat, at : Nat, dev : Device \cup {NoDevice}, deleted : BOOLEAN,
            val : Val \cup {NoVal}] : r.deleted <=> r.val = NoVal}

(* What a push says of an item; a tombstone carries no content.            *)
Incoming ==
    {in \in [base : 0 .. MaxRev, at : Time, deleted : BOOLEAN, val : Val \cup {NoVal}] :
        in.deleted <=> in.val = NoVal}

BlobStatus == {"none", "unreferenced", "referenced"}

ServerTypeOK ==
    /\ items \in [ItemId -> ItemRow]
    /\ lastRev \in Nat
    /\ blobRow \in [BlobId -> BlobStatus]

Exists(i) == items[i].rev # 0

(* The blob_refs column: none for a tombstone.                             *)
Refs(r) == IF r.deleted THEN {} ELSE BlobsOf[r.val]

ServerInit ==
    /\ items = [i \in ItemId |-> Gone]
    /\ lastRev = 0
    /\ blobRow = [b \in BlobId |-> "none"]
-----------------------------------------------------------------------------
(* POST /v1/sync/push.                                                     *)

(* The request item as the rule sees it: it is stamped with the device the *)
(* access token belongs to.                                                *)
Signed(d, in) == [base |-> in.base, at |-> in.at, dev |-> d]

(* Mutant: the upsert does not write the deleted column.                   *)
StoredUndeleted(d, in, rev) ==
    [rev |-> rev, at |-> in.at, dev |-> d, deleted |-> FALSE, val |-> in.val]

(* The row that the accepted request item becomes.                         *)
Stored(d, in, rev) ==
    [rev |-> rev, at |-> in.at, dev |-> d, deleted |-> in.deleted, val |-> in.val]

BatchRefs(batch) == UNION {Refs(batch[i]) : i \in DOMAIN batch}

(* The photos that were never uploaded, or that garbage collection took.   *)
MissingBlobRefs(batch) == {b \in BatchRefs(batch) : blobRow[b] = "none"}

Accepted(d, batch) == {i \in DOMAIN batch : Resolve(items[i], Signed(d, batch[i]))}

(* Mutant: accepted items are reported among the conflicts too.            *)
ConflictsAll(d, batch) == [i \in DOMAIN batch |-> items[i]]

(* The rows a refused item is answered with.                               *)
Conflicts(d, batch) == [i \in DOMAIN batch \ Accepted(d, batch) |-> items[i]]

(* Mutant: last_rev is advanced once for the batch, not once per item.     *)
NewRevOncePerBatch(rank, i) == lastRev + 1

(* The revision of the accepted item i: IncrementVaultRev runs once for    *)
(* each of them, in the order "rank" of the request.                       *)
NewRev(rank, i) == lastRev + rank[i]

(* Mutant: last_rev is incremented before the item is resolved.            *)
HeadWithRefused(d, batch) == lastRev + Cardinality(DOMAIN batch)

(* last_rev after the batch.                                               *)
HeadAfter(d, batch) == lastRev + Cardinality(Accepted(d, batch))

(* MarkBlobsReferenced for every accepted item.                            *)
Marked(d, batch) ==
    LET refs == UNION {Refs(batch[i]) : i \in Accepted(d, batch)}
    IN  [b \in BlobId |->
            IF b \in refs /\ blobRow[b] # "none" THEN "referenced" ELSE blobRow[b]]

(* The whole batch: refused when it names a blob that was never uploaded,  *)
(* else each item is resolved against its own row and the accepted ones    *)
(* get the next revisions in the order of the request.                     *)
Push(d, batch, rank) ==
    LET acc == Accepted(d, batch)
    IN  /\ MissingBlobRefs(batch) = {}
        /\ rank \in Bijection(acc, 1 .. Cardinality(acc))
        /\ HeadAfter(d, batch) <= MaxRev
        /\ items' = [i \in ItemId |->
                        IF i \in acc THEN Stored(d, batch[i], NewRev(rank, i))
                                     ELSE items[i]]
        /\ lastRev' = HeadAfter(d, batch)
        /\ blobRow' = Marked(d, batch)
-----------------------------------------------------------------------------
(* GET /v1/sync/changes: two reads of the read pool, of two snapshots.     *)

(* Mutant: the bound is not strict.                                        *)
ChangedFrom(since) == {i \in ItemId : Exists(i) /\ items[i].rev >= since}

Changed(since) == {i \in ItemId : items[i].rev > since}

(* P holds the PageLimit items with the smallest revisions above since, or *)
(* all of them when there are fewer.                                       *)
IsPage(P, since) ==
    /\ P \subseteq Changed(since)
    /\ Cardinality(P) <= PageLimit
    /\ P # Changed(since) => Cardinality(P) = PageLimit
    /\ \A i \in P, j \in Changed(since) \ P : items[i].rev < items[j].rev

(* Mutant: next_since is the vault's revision, read after the page.        *)
NextIsServerRev(page, since) == lastRev

(* Mutant: the cursor is lost when the page is empty.                      *)
NextOfEmptyIsZero(page, since) ==
    IF DOMAIN page = {} THEN 0
    ELSE CHOOSE r \in {page[i].rev : i \in DOMAIN page} :
            \A j \in DOMAIN page : page[j].rev <= r

(* next_since: the revision of the page's last item, or since.             *)
NextSince(page, since) ==
    IF DOMAIN page = {} THEN since
    ELSE CHOOSE r \in {page[i].rev : i \in DOMAIN page} :
            \A j \in DOMAIN page : page[j].rev <= r
-----------------------------------------------------------------------------
(* Background jobs and the blob endpoints' transactions.                   *)

Expired(i, cutoff) == Exists(i) /\ items[i].deleted /\ items[i].at < cutoff

(* DeleteTombstonesOlderThan: updated_at is the stamp of the client that   *)
(* deleted the card, so how old a tombstone looks is up to its clock.      *)
CleanupTombstones(cutoff) ==
    /\ items' = [i \in ItemId |-> IF Expired(i, cutoff) THEN Gone ELSE items[i]]
    /\ UNCHANGED <<lastRev, blobRow>>

(* The transaction of Upload: INSERT OR IGNORE of the metadata row.        *)
InsertIfAbsent(b) ==
    /\ blobRow' = [blobRow EXCEPT ![b] = IF @ = "none" THEN "unreferenced" ELSE @]
    /\ UNCHANGED <<items, lastRev>>

IsBlobLive(b) == \E i \in ItemId : Exists(i) /\ b \in Refs(items[i])

(* The transaction of collectUnreferenced for one candidate.               *)
DeleteMetaIfUnreferenced(b) ==
    /\ blobRow[b] = "unreferenced"
    /\ blobRow' = [blobRow EXCEPT ![b] = "none"]
    /\ UNCHANGED <<items, lastRev>>

(* Mutant: the orphan pass trusts the list it took before.                 *)
DeleteMetaUnchecked(b) ==
    /\ blobRow[b] # "none"
    /\ blobRow' = [blobRow EXCEPT ![b] = "none"]
    /\ UNCHANGED <<items, lastRev>>

(* The transaction of collectOrphaned for one candidate.                   *)
DeleteMetaIfOrphaned(b) ==
    /\ blobRow[b] = "referenced"
    /\ ~IsBlobLive(b)
    /\ blobRow' = [blobRow EXCEPT ![b] = "none"]
    /\ UNCHANGED <<items, lastRev>>
-----------------------------------------------------------------------------
(* The server on its own: any well-formed request of any device may come   *)
(* at any time, with any base revision that was ever handed out.           *)

Batches ==
    UNION {[I -> {in \in Incoming : in.base <= lastRev}] : I \in SUBSET ItemId}

ServerPush ==
    \E d \in Device, batch \in Batches :
        \E rank \in Bijection(Accepted(d, batch), 1 .. Cardinality(Accepted(d, batch))) :
            Push(d, batch, rank)

ServerNext ==
    \/ ServerPush
    \/ \E cutoff \in Cutoff : CleanupTombstones(cutoff)
    \/ \E b \in BlobId :
        \/ InsertIfAbsent(b)
        \/ DeleteMetaIfUnreferenced(b)
        \/ DeleteMetaIfOrphaned(b)

ServerSpec == ServerInit /\ [][ServerNext]_serverVars
-----------------------------------------------------------------------------
(* Properties.                                                             *)

(* No two rows share a revision, none is ahead of last_rev, and a row that *)
(* exists carries one: the cursor arithmetic of GetChanges rests on it.    *)
RevisionsSound ==
    \A i \in ItemId :
        /\ items[i].rev <= lastRev
        /\ items[i].rev = 0 => items[i] = Gone
        /\ \A j \in ItemId : Exists(i) /\ items[i].rev = items[j].rev => i = j

(* SYNC.md: as revisions are handed out without holes, has_more tells      *)
(* exactly whether there is something left to read.                        *)
HasMoreExact == \A since \in 0 .. lastRev : since < lastRev <=> Changed(since) # {}

(* A tombstone that expires at the last revision makes has_more wrong, but *)
(* it is exact again as soon as one item of a push is accepted.            *)
PushMakesExact == [][lastRev' # lastRev => HasMoreExact']_serverVars

(* Every blob a live card references has a metadata row marked referenced, *)
(* whatever garbage collection, pushes and deletions interleave: the       *)
(* re-checks inside the delete transactions are what keeps it.             *)
RefsRegistered ==
    \A i \in ItemId : Exists(i) => \A b \in Refs(items[i]) : blobRow[b] = "referenced"

(* The server implements the change log.                                   *)
Log == INSTANCE RevisionLog
         WITH Key <- ItemId, head <- lastRev, current <- [i \in ItemId |-> items[i].rev]

ImplementsLog == Log!LogSpec
=============================================================================
