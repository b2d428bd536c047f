------------------------- MODULE VaultServerProofs -------------------------
(***************************************************************************)
(* The server's invariants and its refinement of the change log, for every *)
(* set of items, devices, contents and blobs.                              *)
(***************************************************************************)
EXTENDS VaultServer, FiniteSetTheorems, TLAPS

(* The inductive invariant.  RevisionsSound is inductive with the types    *)
(* alone; RefsRegistered needs nothing else because each delete            *)
(* transaction re-checks its candidate.                                    *)
ServerInv == ServerTypeOK /\ RevisionsSound /\ RefsRegistered

-----------------------------------------------------------------------------
(* Facts about one push.                                                   *)

(* A batch is made of well-formed requests for some of the items.          *)
LEMMA BatchFacts ==
    ASSUME NEW batch \in Batches
    PROVE  /\ DOMAIN batch \subseteq ItemId
           /\ \A i \in DOMAIN batch :
                /\ batch[i].base \in Nat /\ batch[i].at \in Nat
                /\ batch[i].deleted \in BOOLEAN
                /\ batch[i].val \in Val \cup {NoVal}
                /\ batch[i].deleted <=> batch[i].val = NoVal
<1>1. PICK I \in SUBSET ItemId : batch \in [I -> {in \in Incoming : in.base <= lastRev}]
  BY DEF Batches
<1>2. DOMAIN batch = I /\ \A i \in I : batch[i] \in Incoming
  BY <1>1
<1>3. \A i \in I : batch[i].base \in Nat /\ batch[i].at \in Nat
  <2>1. Time \subseteq Nat /\ 0 .. MaxRev \subseteq Nat
    BY TimeAssumption, BoundAssumption
  <2>2. \A i \in I : batch[i].base \in 0 .. MaxRev /\ batch[i].at \in Time
    BY <1>2 DEF Incoming
  <2> QED BY <2>1, <2>2
<1>4. \A i \in I : /\ batch[i].deleted \in BOOLEAN
                   /\ batch[i].val \in Val \cup {NoVal}
                   /\ batch[i].deleted <=> batch[i].val = NoVal
  BY <1>2 DEF Incoming
<1> QED BY <1>2, <1>3, <1>4

(* The accepted items are finitely many, and each gets a revision of its   *)
(* own just above last_rev.                                                *)
LEMMA RankFacts ==
    ASSUME lastRev \in Nat, NEW d \in Device, NEW batch \in Batches,
           NEW rank \in Bijection(Accepted(d, batch),
                                  1 .. Cardinality(Accepted(d, batch)))
    PROVE  /\ Cardinality(Accepted(d, batch)) \in Nat
           /\ HeadAfter(d, batch) \in Nat /\ HeadAfter(d, batch) >= lastRev
           /\ \A i \in Accepted(d, batch) :
                /\ NewRev(rank, i) \in Nat
                /\ NewRev(rank, i) > lastRev
                /\ NewRev(rank, i) <= HeadAfter(d, batch)
           /\ \A i, j \in Accepted(d, batch) :
                NewRev(rank, i) = NewRev(rank, j) => i = j
           /\ \A r \in (lastRev + 1) .. HeadAfter(d, batch) :
                \E i \in Accepted(d, batch) : r = NewRev(rank, i)
<1> DEFINE acc == Accepted(d, batch)
           n == Cardinality(acc)
<1>1. IsFiniteSet(acc)
  <2>1. acc \subseteq ItemId
    BY BatchFacts DEF Accepted
  <2> QED BY <2>1, ItemAssumption, FS_Subset
<1>2. n \in Nat
  BY <1>1, FS_CardinalityType
<1>3. /\ rank \in [acc -> 1 .. n]
      /\ \A i, j \in acc : rank[i] = rank[j] => i = j
      /\ \A k \in 1 .. n : \E i \in acc : rank[i] = k
  BY DEF Bijection, Injection, IsInjective, Surjection
<1>4. \A i \in acc : rank[i] \in Nat /\ 1 <= rank[i] /\ rank[i] <= n
  BY <1>2, <1>3
<1> HIDE DEF acc, n
<1>5. \A i \in acc : /\ lastRev + rank[i] \in Nat
                     /\ lastRev + rank[i] > lastRev
                     /\ lastRev + rank[i] <= lastRev + n
  BY <1>2, <1>4
<1>6. \A i, j \in acc : lastRev + rank[i] = lastRev + rank[j] => i = j
  BY <1>3, <1>4
<1>7. ASSUME NEW r \in (lastRev + 1) .. (lastRev + n)
      PROVE  \E i \in acc : r = lastRev + rank[i]
  <2>1. r - lastRev \in 1 .. n
    BY <1>2
  <2> QED BY <1>3, <1>4, <2>1
<1> QED BY <1>2, <1>5, <1>6, <1>7 DEF acc, n, HeadAfter, NewRev

-----------------------------------------------------------------------------
(* The invariant.                                                          *)

LEMMA ServerInitInv == ServerInit => ServerInv
<1> SUFFICES ASSUME ServerInit PROVE ServerInv
  OBVIOUS
<1>1. Gone \in ItemRow /\ Gone.rev = 0
  BY DEF Gone, ItemRow, NoDevice, NoVal
<1>2. ServerTypeOK
  BY <1>1 DEF ServerInit, ServerTypeOK, BlobStatus
<1>3. RevisionsSound
  BY <1>1 DEF ServerInit, RevisionsSound, Exists
<1>4. RefsRegistered
  BY <1>1 DEF ServerInit, RefsRegistered, Exists
<1> QED BY <1>2, <1>3, <1>4 DEF ServerInv

LEMMA PushInv ==
    ASSUME ServerInv, NEW d \in Device, NEW batch \in Batches,
           NEW rank \in Bijection(Accepted(d, batch),
                                  1 .. Cardinality(Accepted(d, batch))),
           Push(d, batch, rank)
    PROVE  ServerInv'
<1> DEFINE acc == Accepted(d, batch)
           new(i) == Stored(d, batch[i], NewRev(rank, i))
<1>1. /\ items' = [i \in ItemId |-> IF i \in acc THEN new(i) ELSE items[i]]
      /\ lastRev' = HeadAfter(d, batch)
      /\ blobRow' = Marked(d, batch)
      /\ MissingBlobRefs(batch) = {}
  BY DEF Push
<1>2. lastRev \in Nat /\ items \in [ItemId -> ItemRow] /\ blobRow \in [BlobId -> BlobStatus]
  BY DEF ServerInv, ServerTypeOK
<1>3. acc \subseteq DOMAIN batch
  BY DEF Accepted
<1>4. \A i \in acc : new(i) \in ItemRow
  <2> SUFFICES ASSUME NEW i \in acc PROVE new(i) \in ItemRow
    OBVIOUS
  <2>1. NewRev(rank, i) \in Nat
    BY <1>2, RankFacts
  <2>2. /\ batch[i].at \in Nat /\ batch[i].deleted \in BOOLEAN
        /\ batch[i].val \in Val \cup {NoVal}
        /\ batch[i].deleted <=> batch[i].val = NoVal
    BY <1>3, BatchFacts
  <2> QED BY <2>1, <2>2 DEF Stored, ItemRow
<1>5. ServerTypeOK'
  <2>1. items' \in [ItemId -> ItemRow]
    BY <1>1, <1>2, <1>4
  <2>2. lastRev' \in Nat
    BY <1>1, <1>2, RankFacts
  <2>3. blobRow' \in [BlobId -> BlobStatus]
    BY <1>1, <1>2 DEF Marked, BlobStatus
  <2> QED BY <2>1, <2>2, <2>3 DEF ServerTypeOK
<1>6. RevisionsSound'
  <2>1. \A i \in acc : /\ items'[i].rev = NewRev(rank, i)
                       /\ NewRev(rank, i) \in Nat /\ NewRev(rank, i) > lastRev
                       /\ NewRev(rank, i) <= lastRev'
    BY <1>1, <1>2, <1>3, BatchFacts, RankFacts DEF Stored
  <2>2. \A i \in ItemId \ acc : items'[i] = items[i]
    BY <1>1
  <2>3. \A i \in ItemId : items[i].rev \in Nat /\ items[i].rev <= lastRev
    BY <1>2 DEF ServerInv, RevisionsSound, ItemRow
  <2>4. lastRev' \in Nat /\ lastRev' >= lastRev
    BY <1>1, <1>2, RankFacts
  <2> SUFFICES ASSUME NEW i \in ItemId
               PROVE  /\ items'[i].rev <= lastRev'
                      /\ items'[i].rev = 0 => items'[i] = Gone
                      /\ \A j \in ItemId :
                            items'[i].rev # 0 /\ items'[i].rev = items'[j].rev => i = j
    BY DEF RevisionsSound, Exists
  <2>5. items'[i].rev <= lastRev'
    BY <1>2, <2>1, <2>2, <2>3, <2>4
  <2>6. items'[i].rev = 0 => items'[i] = Gone
    <3>1. CASE i \in acc
      BY <1>2, <2>1, <3>1
    <3>2. CASE i \notin acc
      BY <2>2, <3>2 DEF ServerInv, RevisionsSound
    <3> QED BY <3>1, <3>2
  <2>7. ASSUME NEW j \in ItemId, items'[i].rev # 0, items'[i].rev = items'[j].rev
        PROVE  i = j
    <3>1. CASE i \in acc /\ j \in acc
      BY <1>2, <2>1, <2>7, <3>1, RankFacts
    <3>2. CASE i \in acc /\ j \notin acc
      BY <1>2, <2>1, <2>2, <2>3, <2>7, <3>2
    <3>3. CASE i \notin acc /\ j \in acc
      BY <1>2, <2>1, <2>2, <2>3, <2>7, <3>3
    <3>4. CASE i \notin acc /\ j \notin acc
      BY <2>2, <2>7, <3>4 DEF ServerInv, RevisionsSound, Exists
    <3> QED BY <3>1, <3>2, <3>3, <3>4
  <2> QED BY <2>5, <2>6, <2>7
<1>7. RefsRegistered'
  <2> SUFFICES ASSUME NEW i \in ItemId, items'[i].rev # 0, NEW b \in Refs(items'[i])
               PROVE  blobRow'[b] = "referenced"
    BY DEF RefsRegistered, Exists, Refs
  <2>1. CASE i \in acc
    <3>1. Refs(items'[i]) = Refs(batch[i])
      BY <1>1, <2>1 DEF Stored, Refs
    <3>2. b \in BatchRefs(batch) /\ b \in UNION {Refs(batch[k]) : k \in acc}
      BY <1>3, <2>1, <3>1 DEF BatchRefs
    <3>3. b \in BlobId
      BY <1>3, <2>1, <3>1, BatchFacts, BlobAssumption DEF Refs
    <3>4. blobRow[b] # "none"
      BY <1>1, <3>2 DEF MissingBlobRefs
    <3> QED BY <1>1, <3>2, <3>3, <3>4 DEF Marked
  <2>2. CASE i \notin acc
    <3>1. items'[i] = items[i]
      BY <1>1, <2>2
    <3>2. blobRow[b] = "referenced"
      BY <3>1 DEF ServerInv, RefsRegistered, Exists
    <3>3. b \in BlobId
      <4>1. items[i] \in ItemRow
        BY <1>2
      <4> QED BY <3>1, <4>1, BlobAssumption DEF Refs, ItemRow
    <3> QED BY <1>1, <3>2, <3>3 DEF Marked
  <2> QED BY <2>1, <2>2
<1> QED BY <1>5, <1>6, <1>7 DEF ServerInv

LEMMA CleanupInv ==
    ASSUME ServerInv, NEW cutoff \in Cutoff, CleanupTombstones(cutoff)
    PROVE  ServerInv'
<1>1. /\ lastRev' = lastRev /\ blobRow' = blobRow
      /\ items' = [i \in ItemId |-> IF Expired(i, cutoff) THEN Gone ELSE items[i]]
  BY DEF CleanupTombstones
<1>2. Gone \in ItemRow /\ Gone.rev = 0
  BY DEF Gone, ItemRow, NoDevice, NoVal
<1>3. \A i \in ItemId : items'[i] = Gone \/ items'[i] = items[i]
  BY <1>1
<1>4. ServerTypeOK'
  BY <1>1, <1>2 DEF ServerInv, ServerTypeOK
<1>5. RevisionsSound'
  <2>1. lastRev \in Nat
    BY DEF ServerInv, ServerTypeOK
  <2> QED BY <1>1, <1>2, <1>3, <2>1 DEF ServerInv, RevisionsSound, Exists
<1>6. RefsRegistered'
  BY <1>1, <1>2, <1>3 DEF ServerInv, RefsRegistered, Exists, Refs
<1> QED BY <1>4, <1>5, <1>6 DEF ServerInv

(* A step of the blob endpoints or of garbage collection leaves the items  *)
(* and last_rev alone and takes no row away that a live item needs.        *)
LEMMA BlobStepInv ==
    ASSUME ServerInv, NEW b \in BlobId,
           InsertIfAbsent(b) \/ DeleteMetaIfUnreferenced(b) \/ DeleteMetaIfOrphaned(b)
    PROVE  ServerInv'
<1>1. items' = items /\ lastRev' = lastRev
  BY DEF InsertIfAbsent, DeleteMetaIfUnreferenced, DeleteMetaIfOrphaned
<1>2. blobRow \in [BlobId -> BlobStatus]
  BY DEF ServerInv, ServerTypeOK
<1>3. blobRow' \in [BlobId -> BlobStatus]
  BY <1>2 DEF InsertIfAbsent, DeleteMetaIfUnreferenced, DeleteMetaIfOrphaned, BlobStatus
<1>4. ServerTypeOK'
  BY <1>1, <1>3 DEF ServerInv, ServerTypeOK
<1>5. RevisionsSound'
  BY <1>1 DEF ServerInv, RevisionsSound, Exists
<1>6. RefsRegistered'
  <2> SUFFICES ASSUME NEW i \in ItemId, items[i].rev # 0, NEW c \in Refs(items[i])
               PROVE  blobRow'[c] = "referenced"
    BY <1>1 DEF RefsRegistered, Exists, Refs
  <2>1. blobRow[c] = "referenced"
    BY DEF ServerInv, RefsRegistered, Exists
  <2>2. c \in BlobId
    <3>1. items[i] \in ItemRow
      BY DEF ServerInv, ServerTypeOK
    <3> QED BY <3>1, BlobAssumption DEF Refs, ItemRow
  <2>3. CASE InsertIfAbsent(b)
    BY <1>2, <2>1, <2>2, <2>3 DEF InsertIfAbsent
  <2>4. CASE DeleteMetaIfUnreferenced(b)
    BY <1>2, <2>1, <2>2, <2>4 DEF DeleteMetaIfUnreferenced
  <2>5. CASE DeleteMetaIfOrphaned(b)
    <3>1. b # c
      BY <2>5 DEF DeleteMetaIfOrphaned, IsBlobLive, Exists
    <3> QED BY <1>2, <2>1, <2>2, <2>5, <3>1 DEF DeleteMetaIfOrphaned
  <2> QED BY <2>3, <2>4, <2>5
<1> QED BY <1>4, <1>5, <1>6 DEF ServerInv

LEMMA ServerStepInv == ServerInv /\ [ServerNext]_serverVars => ServerInv'
<1> SUFFICES ASSUME ServerInv, [ServerNext]_serverVars PROVE ServerInv'
  OBVIOUS
<1>1. CASE ServerPush
  BY <1>1, PushInv DEF ServerPush
<1>2. ASSUME NEW cutoff \in Cutoff, CleanupTombstones(cutoff)
      PROVE  ServerInv'
  BY <1>2, CleanupInv
<1>3. ASSUME NEW b \in BlobId,
             InsertIfAbsent(b) \/ DeleteMetaIfUnreferenced(b) \/ DeleteMetaIfOrphaned(b)
      PROVE  ServerInv'
  BY <1>3, BlobStepInv
<1>4. CASE UNCHANGED serverVars
  BY <1>4 DEF serverVars, ServerInv, ServerTypeOK, RevisionsSound, RefsRegistered,
              Exists, Refs
<1> QED BY <1>1, <1>2, <1>3, <1>4 DEF ServerNext

LEMMA ServerInvariance == ServerSpec => []ServerInv
<1> QED BY ServerInitInv, ServerStepInv, PTL DEF ServerSpec

(* Every reachable server state is well formed.                            *)
THEOREM ServerTypes == ServerSpec => []ServerTypeOK
<1>1. ServerInv => ServerTypeOK
  BY DEF ServerInv
<1> QED BY <1>1, ServerInvariance, PTL

(* Revisions are unique, positive and never ahead of last_rev.             *)
THEOREM RevisionsStaySound == ServerSpec => []RevisionsSound
<1>1. ServerInv => RevisionsSound
  BY DEF ServerInv
<1> QED BY <1>1, ServerInvariance, PTL

(* No interleaving of pushes with garbage collection leaves a live card    *)
(* with a photo the server has no row for.                                 *)
THEOREM RefsStayRegistered == ServerSpec => []RefsRegistered
<1>1. ServerInv => RefsRegistered
  BY DEF ServerInv
<1> QED BY <1>1, ServerInvariance, PTL

-----------------------------------------------------------------------------
(* The refinement.  A push commits the accepted items, a cleanup forgets   *)
(* the expired ones, and the blob endpoints do nothing the log can see.    *)

LEMMA PushCommits ==
    ASSUME ServerInv, NEW d \in Device, NEW batch \in Batches,
           NEW rank \in Bijection(Accepted(d, batch),
                                  1 .. Cardinality(Accepted(d, batch))),
           Push(d, batch, rank)
    PROVE  Log!Commit(Accepted(d, batch)) /\ Accepted(d, batch) \in SUBSET ItemId
<1> DEFINE acc == Accepted(d, batch)
<1>1. acc \subseteq ItemId
  BY BatchFacts DEF Accepted
<1>2. lastRev \in Nat /\ items \in [ItemId -> ItemRow]
  BY DEF ServerInv, ServerTypeOK
<1>3. /\ items' = [i \in ItemId |-> IF i \in acc THEN Stored(d, batch[i], NewRev(rank, i))
                                               ELSE items[i]]
      /\ lastRev' = HeadAfter(d, batch)
  BY DEF Push
<1>4. \A i \in acc : items'[i].rev = NewRev(rank, i)
  BY <1>1, <1>3 DEF Stored
<1>5. \A i \in ItemId \ acc : items'[i].rev = items[i].rev
  BY <1>3
<1>6. \A i \in acc : NewRev(rank, i) \in (lastRev + 1) .. lastRev'
  BY <1>2, <1>3, RankFacts
<1>7. \A i, j \in acc : NewRev(rank, i) = NewRev(rank, j) => i = j
  BY <1>2, RankFacts
<1>8. \A i \in ItemId : items'[i].rev \in Nat
  <2>1. \A i \in acc : NewRev(rank, i) \in Nat
    BY <1>2, RankFacts
  <2>2. \A i \in ItemId : items[i].rev \in Nat
    BY <1>2 DEF ItemRow
  <2> QED BY <1>4, <1>5, <2>1, <2>2
<1>9. {items'[i].rev : i \in acc} = (lastRev + 1) .. lastRev'
  <2>1. \A r \in (lastRev + 1) .. lastRev' : \E i \in acc : r = NewRev(rank, i)
    BY <1>2, <1>3, RankFacts
  <2> QED BY <1>4, <1>6, <2>1
<1>10. lastRev' \in Nat /\ lastRev' >= lastRev
  BY <1>2, <1>3, RankFacts
<1> HIDE DEF acc
<1>11. \A i, j \in acc : i # j => items'[i].rev # items'[j].rev
  BY <1>4, <1>7
<1>12. Log!Commit(acc)
  BY <1>1, <1>5, <1>8, <1>9, <1>10, <1>11 DEF Log!Commit
<1> QED BY <1>1, <1>12 DEF acc

LEMMA CleanupForgets ==
    ASSUME NEW cutoff \in Cutoff, CleanupTombstones(cutoff)
    PROVE  Log!Forget({i \in ItemId : Expired(i, cutoff)})
<1>1. lastRev' = lastRev
  BY DEF CleanupTombstones
<1>2. \A i \in ItemId : items'[i].rev = IF Expired(i, cutoff) THEN 0 ELSE items[i].rev
  BY DEF CleanupTombstones, Gone
<1> QED BY <1>1, <1>2 DEF Log!Forget

LEMMA ServerStepRefines ==
    ServerInv /\ [ServerNext]_serverVars => [Log!LogNext]_(Log!logVars)
<1> SUFFICES ASSUME ServerInv, [ServerNext]_serverVars
             PROVE  [Log!LogNext]_(Log!logVars)
  OBVIOUS
<1>1. CASE ServerPush
  <2>1. PICK d \in Device, batch \in Batches :
           \E rank \in Bijection(Accepted(d, batch), 1 .. Cardinality(Accepted(d, batch))) :
              Push(d, batch, rank)
    BY <1>1 DEF ServerPush
  <2>2. PICK rank \in Bijection(Accepted(d, batch), 1 .. Cardinality(Accepted(d, batch))) :
           Push(d, batch, rank)
    BY <2>1
  <2>3. Log!Commit(Accepted(d, batch)) /\ Accepted(d, batch) \in SUBSET ItemId
    BY <2>2, PushCommits
  <2> QED BY <2>3 DEF Log!LogNext, Log!Commit
<1>2. ASSUME NEW cutoff \in Cutoff, CleanupTombstones(cutoff)
      PROVE  Log!LogNext
  <2> DEFINE S == {i \in ItemId : Expired(i, cutoff)}
  <2>1. Log!Forget(S)
    BY <1>2, CleanupForgets
  <2>2. S \in SUBSET ItemId
    OBVIOUS
  <2> HIDE DEF S
  <2> QED BY <2>1, <2>2 DEF Log!LogNext, Log!Forget
<1>3. ASSUME NEW b \in BlobId,
             InsertIfAbsent(b) \/ DeleteMetaIfUnreferenced(b) \/ DeleteMetaIfOrphaned(b)
      PROVE  UNCHANGED Log!logVars
  BY <1>3 DEF InsertIfAbsent, DeleteMetaIfUnreferenced, DeleteMetaIfOrphaned, Log!logVars
<1>4. CASE UNCHANGED serverVars
  BY <1>4 DEF serverVars, Log!logVars
<1> QED BY <1>1, <1>2, <1>3, <1>4 DEF ServerNext

(* The server is a change log: a revision is handed out once, changes go   *)
(* to consecutive revisions above the head, and nothing else moves.        *)
THEOREM ServerImplementsLog == ServerSpec => ImplementsLog
<1>1. ServerInit => Log!LogInit
  BY DEF ServerInit, Log!LogInit, Gone
<1> QED BY <1>1, ServerStepRefines, ServerInvariance, PTL
       DEF ServerSpec, ImplementsLog, Log!LogSpec

-----------------------------------------------------------------------------
(* has_more.  It is exact while some row is at the head of the log.        *)

HeadHeld == lastRev # 0 => \E i \in ItemId : items[i].rev = lastRev

LEMMA HeldIsExact ==
    ASSUME ServerInv, HeadHeld
    PROVE  HasMoreExact
<1> SUFFICES ASSUME NEW since \in 0 .. lastRev
             PROVE  since < lastRev <=> Changed(since) # {}
  BY DEF HasMoreExact
<1>1. lastRev \in Nat /\ \A i \in ItemId : items[i].rev \in Nat /\ items[i].rev <= lastRev
  BY DEF ServerInv, ServerTypeOK, ItemRow, RevisionsSound
<1>2. ASSUME since < lastRev PROVE Changed(since) # {}
  <2>1. PICK i \in ItemId : items[i].rev = lastRev
    BY <1>1, <1>2 DEF HeadHeld
  <2> QED BY <1>2, <2>1 DEF Changed
<1>3. ASSUME NEW i \in Changed(since) PROVE since < lastRev
  BY <1>1, <1>3 DEF Changed
<1> QED BY <1>2, <1>3

(* The last accepted item of a push is at the new head.                    *)
LEMMA PushHoldsHead ==
    ASSUME ServerInv, NEW d \in Device, NEW batch \in Batches,
           NEW rank \in Bijection(Accepted(d, batch),
                                  1 .. Cardinality(Accepted(d, batch))),
           Push(d, batch, rank)
    PROVE  /\ lastRev' # lastRev => HeadHeld'
           /\ lastRev' = lastRev => items' = items
<1> DEFINE acc == Accepted(d, batch)
<1>1. lastRev \in Nat /\ items \in [ItemId -> ItemRow]
  BY DEF ServerInv, ServerTypeOK
<1>2. /\ items' = [i \in ItemId |-> IF i \in acc THEN Stored(d, batch[i], NewRev(rank, i))
                                               ELSE items[i]]
      /\ lastRev' = HeadAfter(d, batch)
  BY DEF Push
<1>3. acc \subseteq ItemId
  BY BatchFacts DEF Accepted
<1> HIDE DEF acc
<1>4. ASSUME lastRev' # lastRev PROVE HeadHeld'
  <2>1. lastRev' \in (lastRev + 1) .. HeadAfter(d, batch)
    BY <1>1, <1>2, <1>4, RankFacts
  <2>2. PICK i \in acc : lastRev' = NewRev(rank, i)
    BY <1>1, <2>1, RankFacts DEF acc
  <2>3. items'[i].rev = lastRev'
    BY <1>2, <1>3, <2>2 DEF Stored
  <2> QED BY <1>3, <2>2, <2>3 DEF HeadHeld
<1>5. ASSUME lastRev' = lastRev PROVE items' = items
  <2>1. acc = {}
    <3> SUFFICES ASSUME NEW i \in acc PROVE FALSE
      OBVIOUS
    <3>0. HeadAfter(d, batch) = lastRev
      BY <1>2, <1>5
    <3>1. NewRev(rank, i) > lastRev /\ NewRev(rank, i) <= HeadAfter(d, batch)
      BY <1>1, RankFacts DEF acc
    <3>2. NewRev(rank, i) \in Nat
      BY <1>1, RankFacts DEF acc
    <3> QED BY <1>1, <3>0, <3>1, <3>2
  <2> QED BY <1>1, <1>2, <2>1
<1> QED BY <1>4, <1>5

(* Whatever expired before: after a push that was accepted, has_more tells *)
(* exactly whether something is left to read.                              *)
THEOREM PushMakesHasMoreExact == ServerSpec => PushMakesExact
<1>1. ServerInv /\ ServerInv' /\ [ServerNext]_serverVars
        => [lastRev' # lastRev => HasMoreExact']_serverVars
  <2> SUFFICES ASSUME ServerInv, ServerInv', [ServerNext]_serverVars, lastRev' # lastRev
               PROVE  HasMoreExact'
    OBVIOUS
  <2>1. ServerPush
    BY DEF ServerNext, CleanupTombstones, InsertIfAbsent, DeleteMetaIfUnreferenced,
           DeleteMetaIfOrphaned, serverVars
  <2>2. HeadHeld'
    BY <2>1, PushHoldsHead DEF ServerPush
  <2>3. ServerInv /\ HeadHeld => HasMoreExact
    BY HeldIsExact
  <2>4. ServerInv' /\ HeadHeld' => HasMoreExact'
    BY HeldIsExact, PTL
  <2> QED BY <2>2, <2>4
<1> QED BY <1>1, ServerInvariance, PTL DEF ServerSpec, PushMakesExact

(* No tombstone is old enough for the job: the cutoffs lie at or below all *)
(* clock readings.                                                         *)
NoExpiry == \A t \in Time, cutoff \in Cutoff : cutoff <= t

(* A row carries the clock reading it was pushed with.                     *)
StampsKnown == \A i \in ItemId : Exists(i) => items[i].at \in Time

HeadInv == HeadHeld /\ StampsKnown

LEMMA HeadStep ==
    ASSUME NoExpiry, ServerInv, HeadInv, [ServerNext]_serverVars
    PROVE  HeadInv'
<1>1. lastRev \in Nat /\ items \in [ItemId -> ItemRow]
  BY DEF ServerInv, ServerTypeOK
<1>2. ASSUME items' = items, lastRev' = lastRev PROVE HeadInv'
  BY <1>2 DEF HeadInv, HeadHeld, StampsKnown, Exists
<1>3. CASE ServerPush
  <2>1. PICK d \in Device, batch \in Batches :
           \E rank \in Bijection(Accepted(d, batch), 1 .. Cardinality(Accepted(d, batch))) :
              Push(d, batch, rank)
    BY <1>3 DEF ServerPush
  <2>2. PICK rank \in Bijection(Accepted(d, batch), 1 .. Cardinality(Accepted(d, batch))) :
           Push(d, batch, rank)
    BY <2>1
  <2>3. HeadHeld'
    BY <1>2, <2>2, PushHoldsHead DEF HeadInv
  <2>4. /\ Accepted(d, batch) \subseteq DOMAIN batch
        /\ items' = [i \in ItemId |->
                        IF i \in Accepted(d, batch)
                        THEN Stored(d, batch[i], NewRev(rank, i)) ELSE items[i]]
    BY <2>2 DEF Push, Accepted
  <2>5. \A i \in DOMAIN batch : batch[i].at \in Time
    BY DEF Batches, Incoming
  <2>6. StampsKnown'
    BY <2>4, <2>5 DEF StampsKnown, HeadInv, Exists, Stored
  <2> QED BY <2>3, <2>6 DEF HeadInv
<1>4. ASSUME NEW cutoff \in Cutoff, CleanupTombstones(cutoff)
      PROVE  HeadInv'
  <2>1. ASSUME NEW i \in ItemId PROVE ~Expired(i, cutoff)
    <3>1. Exists(i) => items[i].at \in Nat /\ cutoff \in Nat /\ cutoff <= items[i].at
      BY TimeAssumption, CutoffAssumption DEF NoExpiry, HeadInv, StampsKnown
    <3> QED BY <3>1 DEF Expired
  <2>2. items' = items /\ lastRev' = lastRev
    BY <1>1, <1>4, <2>1 DEF CleanupTombstones
  <2> QED BY <1>2, <2>2
<1>5. ASSUME NEW b \in BlobId,
             InsertIfAbsent(b) \/ DeleteMetaIfUnreferenced(b) \/ DeleteMetaIfOrphaned(b)
      PROVE  HeadInv'
  BY <1>2, <1>5 DEF InsertIfAbsent, DeleteMetaIfUnreferenced, DeleteMetaIfOrphaned
<1>6. CASE UNCHANGED serverVars
  BY <1>2, <1>6 DEF serverVars
<1> QED BY <1>3, <1>4, <1>5, <1>6 DEF ServerNext

(* While no tombstone expires, has_more always tells exactly whether       *)
(* something is left to read, as SYNC.md derives it.                       *)
THEOREM HasMoreStaysExact ==
    ASSUME NoExpiry
    PROVE  ServerSpec => []HasMoreExact
<1>1. ServerInit => HeadInv
  BY DEF ServerInit, HeadInv, HeadHeld, StampsKnown, Exists, Gone
<1>2. ServerInv /\ HeadInv /\ [ServerNext]_serverVars => HeadInv'
  BY HeadStep
<1>3. ServerInv /\ HeadInv => HasMoreExact
  BY HeldIsExact DEF HeadInv
<1> QED BY <1>1, <1>2, <1>3, ServerInvariance, PTL DEF ServerSpec

-----------------------------------------------------------------------------
(* Retries.  A batch that the server has run may reach it again at once,   *)
(* when its answer was lost: then nothing of it is accepted, so it hands   *)
(* out no revision and stores nothing, and the device is told the versions *)
(* the first run has left.                                                 *)
THEOREM RepeatedPushIsRefused ==
    ASSUME ServerInv, NEW d \in Device, NEW batch \in Batches,
           NEW rank \in Bijection(Accepted(d, batch),
                                  1 .. Cardinality(Accepted(d, batch))),
           Push(d, batch, rank)
    PROVE  Accepted(d, batch)' = {}
<1> SUFFICES ASSUME NEW i \in DOMAIN batch
             PROVE  ~Resolve(items'[i], Signed(d, batch[i]))
  BY DEF Accepted
<1>1. lastRev \in Nat /\ items \in [ItemId -> ItemRow] /\ i \in ItemId
  BY BatchFacts DEF ServerInv, ServerTypeOK
<1>2. items'[i] = IF i \in Accepted(d, batch) THEN Stored(d, batch[i], NewRev(rank, i))
                                              ELSE items[i]
  BY <1>1 DEF Push
<1>3. CASE i \in Accepted(d, batch)
  <2>1. NewRev(rank, i) \in Nat /\ NewRev(rank, i) > lastRev
    BY <1>1, <1>3, RankFacts
  <2>2. batch[i].base \in Nat /\ batch[i].base <= lastRev /\ batch[i].at \in Nat
    BY BatchFacts DEF Batches
  <2>3. d \in Nat
    BY DeviceAssumption
  <2>4. items'[i].rev = NewRev(rank, i) /\ Stamp(items'[i]) = Stamp(Signed(d, batch[i]))
    BY <1>2, <1>3 DEF Stored, Stamp, Signed
  <2>5. ~Wins(Stamp(Signed(d, batch[i])), Stamp(items'[i]))
    BY <2>2, <2>3, <2>4 DEF Wins, Stamp, Signed
  <2> QED BY <1>1, <2>1, <2>2, <2>4, <2>5 DEF Resolve, Signed
<1>4. CASE i \notin Accepted(d, batch)
  BY <1>2, <1>4 DEF Accepted
<1> QED BY <1>3, <1>4
=============================================================================
