--------------------------- MODULE VaultSyncProofs ---------------------------
(***************************************************************************)
(* The safety of the sync cycle, for every number of devices, cards and    *)
(* writes, every page and batch size, any clocks, cuts, sign-outs, photos  *)
(* and collections.                                                        *)
(*                                                                         *)
(* The argument: every version a device holds, in a row, a page or the     *)
(* answer to a push, is at most as new as the server's.  The server only   *)
(* moves a card above last_rev or forgets it, so whatever was dealt with   *)
(* up to a revision stays dealt with.  A device carries that fact from the *)
(* cursor to the page it reads, through the rest of the page, and back to  *)
(* the cursor when the page is done.                                       *)
(***************************************************************************)
EXTENDS VaultSync, VaultServerProofs

Phases == {"idle", "upload", "uploaded", "collect", "push", "answer", "pull", "listed",
           "page", "apply", "download"}

(* The device's row r of a card whose row on the server is it: "known"     *)
(* says that the id was generated.                                         *)
RowFine(r, it, known) ==
    /\ r # NoRow => r.val \in Val /\ known
    /\ r.dirty => r.at \in Time
    /\ r.base <= lastRev
    /\ it.rev # 0 => r.base <= it.rev

(* A version of card i that the server sent: it is not ahead of it.        *)
VersionFine(i, v, it) ==
    /\ v \in ItemRow
    /\ v.rev <= lastRev
    /\ v.rev = 0 => v = Gone
    /\ v.rev # 0 => i \in born
    /\ it.rev # 0 => v.rev <= it.rev

(* A device with row r has dealt with the server's row it, if that has a   *)
(* revision up to k: first is whether it never signed out, gone whether    *)
(* its user has purged the card.                                           *)
Dealt(r, it, first, gone, k) ==
    it.rev # 0 /\ it.rev <= k =>
        /\ first => \/ r # NoRow /\ (r.dirty \/ r.base = it.rev)
                    \/ r = NoRow /\ (it.deleted \/ gone)
                    \/ it.val \in Unreadable
        /\ r # NoRow /\ ~r.dirty /\ r.base = it.rev /\ it.val \notin Unreadable
            => r.deleted = it.deleted /\ (it.deleted \/ r.val = it.val)

(* Device d has dealt with everything up to k but the cards of T.          *)
DealtUpTo(d, k, T) ==
    \A i \in ItemId \ T :
        Dealt(row[d][i], items[i], session[d] = "first", i \in purged[d], k)

RowsFine(d) == \A i \in ItemId : RowFine(row[d][i], items[i], i \in born)

CursorFine(d) ==
    /\ cursor[d] \in Nat /\ cursor[d] <= lastRev
    /\ DealtUpTo(d, cursor[d], {})

(* Snapshots of dirty rows, to be pushed.                                  *)
BatchFine(batch) ==
    /\ DOMAIN batch \subseteq ItemId
    /\ \A i \in DOMAIN batch :
        /\ batch[i] \in Row
        /\ batch[i].val \in Val /\ batch[i].at \in Time
        /\ batch[i].base <= lastRev
        /\ i \in born

(* Accepted rows still to be marked: each revision is above the cursor.    *)
RevsFine(d, revs) ==
    \A i \in DOMAIN revs :
        /\ revs[i] \in Nat /\ revs[i] <= lastRev
        /\ revs[i] > cursor[d]
        /\ row[d][i].base <= revs[i]
        /\ items[i].rev # 0 => revs[i] <= items[i].rev

(* Conflicts still to be applied: one that has been overtaken is not       *)
(* needed to deal with what is behind the cursor.                          *)
ConflictsFine(d, batch, conflicts) ==
    \A i \in DOMAIN conflicts :
        /\ VersionFine(i, conflicts[i], items[i])
        /\ conflicts[i].rev # 0 => row[d][i].base <= conflicts[i].rev
        /\ items[i].rev # 0 /\ items[i].rev <= cursor[d] => conflicts[i] = items[i]
        /\ ~Resolve(conflicts[i], Signed(d, batch[i]))

(* The rest of a page: all that is behind next and not in the rest is      *)
(* dealt with.                                                             *)
PageFine(d, todo, next) ==
    /\ DOMAIN todo \subseteq ItemId
    /\ next \in Nat /\ cursor[d] <= next /\ next <= lastRev
    /\ \A i \in DOMAIN todo :
        /\ VersionFine(i, todo[i], items[i])
        /\ todo[i].rev # 0
        /\ row[d][i].base <= todo[i].rev
        /\ items[i].rev # 0 /\ items[i].rev <= next => todo[i] = items[i]
    /\ DealtUpTo(d, next, DOMAIN todo)

CycleFine(d) ==
    LET c == cycle[d]
    IN  /\ c.phase \in Phases
        /\ c.phase \in {"upload", "uploaded", "download"} => c.photos \subseteq BlobId
        /\ c.phase = "uploaded" => c.blob \in BlobId
        /\ c.phase = "push" => BatchFine(c.batch)
        /\ c.phase = "answer" =>
            /\ DOMAIN c.batch \subseteq ItemId
            /\ DOMAIN c.revs \subseteq DOMAIN c.batch
            /\ DOMAIN c.conflicts \subseteq DOMAIN c.batch \ DOMAIN c.revs
            /\ RevsFine(d, c.revs)
            /\ ConflictsFine(d, c.batch, c.conflicts)
        /\ c.phase = "pull" =>
            /\ c.since \in Nat /\ cursor[d] <= c.since /\ c.since <= lastRev
            /\ DealtUpTo(d, c.since, {})
        /\ c.phase = "listed" => PageFine(d, c.page, NextSince(c.page, c.since))
        /\ c.phase \in {"page", "apply"} =>
            /\ c.more \in BOOLEAN
            /\ PageFine(d, c.todo, c.next)
        /\ c.phase = "apply" =>
            /\ c.item \in DOMAIN c.todo
            /\ ~KeepsLocal(d, c.seen, c.todo[c.item])

DeviceInv(d) == RowsFine(d) /\ CursorFine(d) /\ CycleFine(d)

(* A stray request is one that its device could have sent.                 *)
StraysFine ==
    \A s \in stray :
        /\ s.dev \in Device
        /\ s.req \in Batches /\ DOMAIN s.req \subseteq born

SharedInv ==
    /\ ServerInv
    /\ lastRev <= MaxRev
    /\ row \in [Device -> [ItemId -> Row]]
    /\ photo \in [Device -> [BlobId -> {"none", "pending", "uploaded"}]]
    /\ cursor \in [Device -> Nat] /\ DOMAIN cycle = Device
    /\ writes \in 0 .. MaxWrites
    /\ born \subseteq ItemId
    /\ purged \in [Device -> SUBSET ItemId]
    /\ cuts \in 0 .. MaxCuts
    /\ session \in [Device -> {"first", "leaving", "again"}]
    /\ StraysFine
    /\ \A i \in ItemId : items[i].rev # 0 => i \in born

SyncInv == SharedInv /\ \A d \in Device : DeviceInv(d)
-----------------------------------------------------------------------------
(* Steps of the cycle and of the rows.                                     *)

LEMMA GotoFacts ==
    ASSUME DOMAIN cycle = Device, NEW d \in Device, NEW c, Goto(d, c)
    PROVE  /\ cycle'[d] = c
           /\ DOMAIN cycle' = Device
           /\ \A e \in Device \ {d} : cycle'[e] = cycle[e]
<1> QED BY DEF Goto

LEMMA SetRowFacts ==
    ASSUME row \in [Device -> [ItemId -> Row]],
           NEW d \in Device, NEW i \in ItemId, NEW r \in Row, SetRow(d, i, r)
    PROVE  /\ row' \in [Device -> [ItemId -> Row]]
           /\ row'[d][i] = r
           /\ \A e \in Device, j \in ItemId : e # d \/ j # i => row'[e][j] = row[e][j]
<1> QED BY DEF SetRow

(* What a row of each kind is.                                             *)
LEMMA RowTypes ==
    /\ NoRow \in Row /\ NoRow.base = 0 /\ ~NoRow.dirty
    /\ \A r \in Row : r.base \in Nat /\ r.at \in Nat /\ r.dirty \in BOOLEAN
                      /\ r.deleted \in BOOLEAN /\ r.val \in Val \cup {NoVal}
    /\ \A r \in Row : r.val \in Val => r # NoRow
<1>1. NoVal \notin Val
  BY ValAssumption DEF NoVal
<1> QED BY <1>1 DEF Row, NoRow, NoVal

LEMMA VersionTypes ==
    /\ \A v \in ItemRow : v.rev \in Nat /\ v.at \in Nat /\ v.deleted \in BOOLEAN
                          /\ v.val \in Val \cup {NoVal} /\ (v.deleted <=> v.val = NoVal)
    /\ Gone \in ItemRow /\ Gone.rev = 0 /\ Gone.deleted /\ Gone.val = NoVal
    /\ NoVal \notin Val
<1>1. NoVal \notin Val
  BY ValAssumption DEF NoVal
<1> QED BY <1>1 DEF ItemRow, Gone, NoVal, NoDevice

-----------------------------------------------------------------------------
(* The server under the devices.                                           *)

(* What a step of the server does to what the devices know: a card stays,  *)
(* is forgotten, or moves above everything that was handed out.            *)
ServerMoves ==
    /\ lastRev' \in Nat /\ lastRev' >= lastRev
    /\ \A i \in ItemId :
        \/ items'[i] = items[i]
        \/ items'[i] = Gone
        \/ items'[i].rev > lastRev /\ items'[i].rev <= lastRev'

LEMMA PushMoves ==
    ASSUME ServerInv, NEW d \in Device, NEW batch \in Batches,
           NEW rank \in Bijection(Accepted(d, batch),
                                  1 .. Cardinality(Accepted(d, batch))),
           Push(d, batch, rank)
    PROVE  /\ ServerMoves /\ lastRev' <= MaxRev
           /\ \A i \in ItemId \ Accepted(d, batch) : items'[i] = items[i]
           /\ \A i \in Accepted(d, batch) :
                /\ items'[i].rev = NewRev(rank, i)
                /\ NewRev(rank, i) \in Nat /\ NewRev(rank, i) > lastRev
                /\ NewRev(rank, i) <= lastRev'
           /\ Accepted(d, batch) \subseteq DOMAIN batch
           /\ DOMAIN batch \subseteq ItemId
<1>1. /\ items' = [i \in ItemId |-> IF i \in Accepted(d, batch)
                                    THEN Stored(d, batch[i], NewRev(rank, i)) ELSE items[i]]
      /\ lastRev' = HeadAfter(d, batch) /\ HeadAfter(d, batch) <= MaxRev
  BY DEF Push
<1>2. lastRev \in Nat
  BY DEF ServerInv, ServerTypeOK
<1>3. Accepted(d, batch) \subseteq DOMAIN batch /\ DOMAIN batch \subseteq ItemId
  BY BatchFacts DEF Accepted
<1>4. \A i \in Accepted(d, batch) : items'[i].rev = NewRev(rank, i)
  BY <1>1, <1>3 DEF Stored
<1>5. \A i \in ItemId \ Accepted(d, batch) : items'[i] = items[i]
  BY <1>1
<1>6. \A i \in Accepted(d, batch) :
        /\ NewRev(rank, i) \in Nat /\ NewRev(rank, i) > lastRev
        /\ NewRev(rank, i) <= lastRev'
  BY <1>1, <1>2, RankFacts
<1>7. lastRev' \in Nat /\ lastRev' >= lastRev
  BY <1>1, <1>2, RankFacts
<1>8. ServerMoves
  BY <1>4, <1>5, <1>6, <1>7 DEF ServerMoves
<1> QED BY <1>1, <1>3, <1>4, <1>5, <1>6, <1>8

LEMMA CleanupMoves ==
    ASSUME ServerInv, NEW cutoff \in Cutoff, CleanupTombstones(cutoff)
    PROVE  ServerMoves /\ lastRev' = lastRev
<1> QED BY DEF ServerInv, ServerTypeOK, CleanupTombstones, ServerMoves

LEMMA StillMoves ==
    ASSUME ServerInv, items' = items, lastRev' = lastRev
    PROVE  ServerMoves
<1> QED BY DEF ServerInv, ServerTypeOK, ServerMoves

(* A collection of dirty rows makes a well-formed request.                 *)
LEMMA RequestIsBatch ==
    ASSUME lastRev \in Nat, lastRev <= MaxRev, NEW batch, BatchFine(batch)
    PROVE  /\ Request(batch) \in Batches
           /\ DOMAIN Request(batch) = DOMAIN batch
<1> DEFINE req == Request(batch)
<1>1. DOMAIN req = DOMAIN batch /\ \A i \in DOMAIN batch : req[i] = ToPushItem(batch[i])
  BY DEF Request
<1>2. req = [i \in DOMAIN batch |-> req[i]]
  BY DEF Request
<1>3. ASSUME NEW i \in DOMAIN batch
      PROVE  req[i] \in Incoming /\ req[i].base <= lastRev
  <2>1. batch[i] \in Row /\ batch[i].val \in Val /\ batch[i].at \in Time
        /\ batch[i].base <= lastRev
    BY <1>3 DEF BatchFine
  <2>2. batch[i].base \in Nat /\ batch[i].deleted \in BOOLEAN
    BY <2>1, RowTypes
  <2>3. batch[i].base \in 0 .. MaxRev
    BY <2>1, <2>2, BoundAssumption
  <2>4. NoVal \notin Val
    BY VersionTypes
  <2>5. /\ req[i].base = batch[i].base /\ req[i].at = batch[i].at
        /\ req[i].deleted = batch[i].deleted
        /\ req[i].val = IF batch[i].deleted THEN NoVal ELSE batch[i].val
        /\ req[i] = [base |-> req[i].base, at |-> req[i].at, deleted |-> req[i].deleted,
                     val |-> req[i].val]
    BY <1>1 DEF ToPushItem
  <2>6. req[i].deleted <=> req[i].val = NoVal
    BY <2>1, <2>2, <2>4, <2>5
  <2> QED BY <2>1, <2>2, <2>3, <2>5, <2>6 DEF Incoming
<1> HIDE DEF req
<1>4. req \in [DOMAIN batch -> {in \in Incoming : in.base <= lastRev}]
  BY <1>2, <1>3
<1>5. DOMAIN batch \in SUBSET ItemId
  BY DEF BatchFine
<1>6. req \in Batches
  BY <1>4, <1>5 DEF Batches
<1> QED BY <1>1, <1>6 DEF req
-----------------------------------------------------------------------------
(* What the others do to a device: the server moves, other devices push,   *)
(* and its own user changes rows and signs out.  The cycle of the device   *)
(* itself stands still.                                                    *)

Outside(d) ==
    /\ ServerMoves
    /\ born \subseteq born'
    /\ cursor'[d] = cursor[d] \/ cursor'[d] = 0
    /\ session'[d] = "first" => session[d] = "first"
    /\ purged[d] \subseteq purged'[d]
    /\ \A i \in ItemId :
        \/ row'[d][i] = row[d][i]
        \/ row'[d][i] = NoRow /\ (session'[d] # "first" \/ i \in purged'[d])
        \/ /\ row'[d][i].dirty /\ row'[d][i].val \in Val /\ row'[d][i].at \in Time
           /\ row'[d][i].base <= row[d][i].base /\ i \in born'

LEMMA DealtStays ==
    ASSUME SharedInv, SharedInv', NEW d \in Device, Outside(d),
           NEW k \in Nat, NEW k2 \in Nat, k2 <= k, k <= lastRev,
           NEW i \in ItemId,
           Dealt(row[d][i], items[i], session[d] = "first", i \in purged[d], k)
    PROVE  Dealt(row'[d][i], items'[i], session'[d] = "first", i \in purged'[d], k2)
<1>1. items[i] \in ItemRow /\ items'[i] \in ItemRow /\ lastRev \in Nat
  BY DEF SharedInv, ServerInv, ServerTypeOK
<1>2. items[i].rev \in Nat /\ items'[i].rev \in Nat /\ Gone.rev = 0
  BY <1>1, VersionTypes
<1>3. CASE items'[i] # items[i]
  <2>1. items'[i].rev = 0 \/ items'[i].rev > k2
    BY <1>1, <1>2, <1>3 DEF Outside, ServerMoves
  <2> QED BY <1>2, <2>1 DEF Dealt
<1>4. CASE items'[i] = items[i]
  <2> SUFFICES ASSUME items[i].rev # 0, items[i].rev <= k2
               PROVE  Dealt(row'[d][i], items[i], session'[d] = "first",
                            i \in purged'[d], k2)
    BY <1>4 DEF Dealt
  <2>1. items[i].rev <= k
    BY <1>2
  <2>2. CASE row'[d][i] = row[d][i]
    <3>1. /\ session'[d] = "first" => session[d] = "first"
          /\ purged[d] \subseteq purged'[d]
      BY DEF Outside
    <3> QED BY <2>1, <2>2, <3>1 DEF Dealt
  <2>3. CASE row'[d][i] = NoRow /\ (session'[d] # "first" \/ i \in purged'[d])
    BY <2>3 DEF Dealt
  <2>4. CASE row'[d][i].dirty
    <3>1. row'[d][i] # NoRow
      BY <2>4, RowTypes
    <3> QED BY <2>4, <3>1 DEF Dealt
  <2>5. \/ row'[d][i] = row[d][i]
        \/ row'[d][i] = NoRow /\ (session'[d] # "first" \/ i \in purged'[d])
        \/ row'[d][i].dirty
    BY DEF Outside
  <2> QED BY <2>2, <2>3, <2>4, <2>5
<1> QED BY <1>3, <1>4

LEMMA VersionStays ==
    ASSUME SharedInv, SharedInv', ServerMoves, born \subseteq born',
           NEW i \in ItemId, NEW v, VersionFine(i, v, items[i])
    PROVE  /\ v \in ItemRow
           /\ v.rev <= lastRev'
           /\ v.rev = 0 => v = Gone
           /\ v.rev # 0 => i \in born'
           /\ items'[i].rev # 0 => v.rev <= items'[i].rev
<1>1. items[i] \in ItemRow /\ items'[i] \in ItemRow /\ lastRev \in Nat /\ lastRev' \in Nat
  BY DEF SharedInv, ServerInv, ServerTypeOK
<1>2. items[i].rev \in Nat /\ items'[i].rev \in Nat /\ Gone.rev = 0 /\ v.rev \in Nat
  BY <1>1, VersionTypes DEF VersionFine
<1> QED BY <1>1, <1>2 DEF VersionFine, ServerMoves

LEMMA OutsideRows ==
    ASSUME SharedInv, SharedInv', NEW d \in Device, DeviceInv(d), Outside(d)
    PROVE  /\ RowsFine(d)' /\ CursorFine(d)'
           /\ \A i \in ItemId : row'[d][i].base <= row[d][i].base
           /\ cursor'[d] \in Nat /\ cursor'[d] <= cursor[d]
<1>1. /\ \A i \in ItemId : /\ items[i] \in ItemRow /\ items[i].rev \in Nat
                           /\ items'[i] \in ItemRow /\ items'[i].rev \in Nat
                           /\ row[d][i] \in Row /\ row'[d][i] \in Row
                           /\ row[d][i].base \in Nat /\ row'[d][i].base \in Nat
      /\ lastRev \in Nat /\ lastRev' \in Nat
  BY VersionTypes, RowTypes DEF SharedInv, ServerInv, ServerTypeOK
<1>2. /\ RowsFine(d) /\ CursorFine(d) /\ CycleFine(d)
      /\ cursor[d] \in Nat /\ cursor'[d] \in Nat /\ cursor'[d] <= cursor[d]
      /\ cursor[d] <= lastRev /\ lastRev <= lastRev'
  BY <1>1 DEF DeviceInv, CursorFine, Outside, ServerMoves
<1>4. \A i \in ItemId : row'[d][i].base <= row[d][i].base
  <2> SUFFICES ASSUME NEW i \in ItemId PROVE row'[d][i].base <= row[d][i].base
    OBVIOUS
  <2>1. CASE row'[d][i] = row[d][i]
    BY <1>1, <2>1
  <2>2. CASE row'[d][i] = NoRow
    BY <1>1, <2>2, RowTypes
  <2>3. CASE row'[d][i].base <= row[d][i].base
    BY <2>3
  <2> QED BY <2>1, <2>2, <2>3 DEF Outside
<1>5. ASSUME NEW k \in Nat, k <= lastRev, NEW k2 \in Nat, k2 <= k, NEW i \in ItemId,
             Dealt(row[d][i], items[i], session[d] = "first", i \in purged[d], k)
      PROVE  Dealt(row'[d][i], items'[i], session'[d] = "first", i \in purged'[d], k2)
  BY <1>5, DealtStays
<1>6. RowsFine(d)'
  <2> SUFFICES ASSUME NEW i \in ItemId
               PROVE  RowFine(row[d][i], items[i], i \in born)'
    BY DEF RowsFine
  <2>1. RowFine(row[d][i], items[i], i \in born)
    BY <1>2 DEF RowsFine
  <2>2. row'[d][i] # NoRow => row'[d][i].val \in Val /\ i \in born'
    BY <2>1 DEF RowFine, Outside
  <2>3. row'[d][i].dirty => row'[d][i].at \in Time
    <3>1. ~NoRow.dirty
      BY RowTypes
    <3> QED BY <2>1, <3>1 DEF RowFine, Outside
  <2>4. row[d][i].base <= lastRev /\ (items[i].rev # 0 => row[d][i].base <= items[i].rev)
    BY <2>1 DEF RowFine
  <2>5. row'[d][i].base <= lastRev'
    BY <1>1, <1>2, <1>4, <2>4
  <2>6. items'[i].rev # 0 => row'[d][i].base <= items'[i].rev
    BY <1>1, <1>4, <2>4, VersionTypes DEF Outside, ServerMoves
  <2> QED BY <2>2, <2>3, <2>5, <2>6 DEF RowFine
<1>7. CursorFine(d)'
  <2>1. DealtUpTo(d, cursor[d], {})
    BY <1>2 DEF CursorFine
  <2>2. \A i \in ItemId : Dealt(row'[d][i], items'[i], session'[d] = "first",
                                i \in purged'[d], cursor'[d])
    BY <1>2, <1>5, <2>1 DEF DealtUpTo
  <2>3. cursor'[d] <= lastRev'
    BY <1>1, <1>2
  <2> QED BY <1>2, <2>2, <2>3 DEF CursorFine, DealtUpTo
<1> QED BY <1>2, <1>4, <1>6, <1>7

LEMMA OutsideKeeps ==
    ASSUME SharedInv, SharedInv', NEW d \in Device, DeviceInv(d), Outside(d),
           cycle'[d] = cycle[d]
    PROVE  DeviceInv(d)'
<1> DEFINE c == cycle[d]
<1>1. /\ \A i \in ItemId : /\ items[i] \in ItemRow /\ items[i].rev \in Nat
                           /\ items'[i] \in ItemRow /\ items'[i].rev \in Nat
                           /\ row[d][i] \in Row /\ row'[d][i] \in Row
                           /\ row[d][i].base \in Nat /\ row'[d][i].base \in Nat
      /\ lastRev \in Nat /\ lastRev' \in Nat
  BY VersionTypes, RowTypes DEF SharedInv, ServerInv, ServerTypeOK
<1>2. /\ RowsFine(d) /\ CursorFine(d) /\ CycleFine(d)
      /\ cursor[d] \in Nat /\ cursor'[d] \in Nat /\ cursor'[d] <= cursor[d]
      /\ cursor[d] <= lastRev /\ lastRev <= lastRev'
  BY <1>1 DEF DeviceInv, CursorFine, Outside, ServerMoves
<1>4. \A i \in ItemId : row'[d][i].base <= row[d][i].base
  BY OutsideRows
<1>5. ASSUME NEW k \in Nat, k <= lastRev, NEW k2 \in Nat, k2 <= k, NEW i \in ItemId,
             Dealt(row[d][i], items[i], session[d] = "first", i \in purged[d], k)
      PROVE  Dealt(row'[d][i], items'[i], session'[d] = "first", i \in purged'[d], k2)
  BY <1>5, DealtStays
<1>8. CycleFine(d)'
  <2>1. CASE c.phase \in {"idle", "collect", "upload", "uploaded", "download"}
    BY <1>2, <2>1 DEF CycleFine
  <2>2. CASE c.phase = "push"
    <3>1. BatchFine(c.batch)
      BY <1>2, <2>2 DEF CycleFine
    <3>2. \A i \in DOMAIN c.batch : c.batch[i].base \in Nat
      BY <3>1, RowTypes DEF BatchFine
    <3>3. \A i \in DOMAIN c.batch : c.batch[i].base <= lastRev'
      BY <1>1, <1>2, <3>1, <3>2 DEF BatchFine
    <3>4. BatchFine(c.batch)'
      BY <3>1, <3>3 DEF BatchFine, Outside
    <3> QED BY <2>2, <3>4 DEF CycleFine, Phases
  <2>3. CASE c.phase = "answer"
    <3>1. /\ DOMAIN c.batch \subseteq ItemId
          /\ DOMAIN c.revs \subseteq DOMAIN c.batch
          /\ DOMAIN c.conflicts \subseteq DOMAIN c.batch \ DOMAIN c.revs
          /\ RevsFine(d, c.revs)
          /\ ConflictsFine(d, c.batch, c.conflicts)
      BY <1>2, <2>3 DEF CycleFine
    <3>2. RevsFine(d, c.revs)'
      <4> SUFFICES ASSUME NEW i \in DOMAIN c.revs
                   PROVE  /\ c.revs[i] \in Nat /\ c.revs[i] <= lastRev'
                          /\ c.revs[i] > cursor'[d]
                          /\ row'[d][i].base <= c.revs[i]
                          /\ items'[i].rev # 0 => c.revs[i] <= items'[i].rev
        BY DEF RevsFine
      <4>1. /\ i \in ItemId
            /\ c.revs[i] \in Nat /\ c.revs[i] <= lastRev /\ c.revs[i] > cursor[d]
            /\ row[d][i].base <= c.revs[i]
            /\ items[i].rev # 0 => c.revs[i] <= items[i].rev
        BY <3>1 DEF RevsFine
      <4>2. c.revs[i] <= lastRev' /\ c.revs[i] > cursor'[d] /\ row'[d][i].base <= c.revs[i]
        BY <1>1, <1>2, <1>4, <4>1
      <4>3. items'[i].rev # 0 => c.revs[i] <= items'[i].rev
        BY <1>1, <4>1, VersionTypes DEF Outside, ServerMoves
      <4> QED BY <4>1, <4>2, <4>3
    <3>3. ConflictsFine(d, c.batch, c.conflicts)'
      <4> SUFFICES ASSUME NEW i \in DOMAIN c.conflicts
                   PROVE  /\ VersionFine(i, c.conflicts[i], items[i])'
                          /\ c.conflicts[i].rev # 0 =>
                                row'[d][i].base <= c.conflicts[i].rev
                          /\ items'[i].rev # 0 /\ items'[i].rev <= cursor'[d]
                                => c.conflicts[i] = items'[i]
                          /\ ~Resolve(c.conflicts[i], Signed(d, c.batch[i]))
        BY DEF ConflictsFine
      <4>1. /\ i \in ItemId
            /\ VersionFine(i, c.conflicts[i], items[i])
            /\ c.conflicts[i].rev # 0 => row[d][i].base <= c.conflicts[i].rev
            /\ items[i].rev # 0 /\ items[i].rev <= cursor[d]
                  => c.conflicts[i] = items[i]
            /\ ~Resolve(c.conflicts[i], Signed(d, c.batch[i]))
        BY <3>1 DEF ConflictsFine
      <4>2. VersionFine(i, c.conflicts[i], items[i])'
        BY <4>1, VersionStays DEF VersionFine, Outside
      <4>3. c.conflicts[i].rev \in Nat
        BY <4>1, VersionTypes DEF VersionFine
      <4>4. c.conflicts[i].rev # 0 => row'[d][i].base <= c.conflicts[i].rev
        BY <1>1, <1>4, <4>1, <4>3
      <4>5. items'[i].rev # 0 /\ items'[i].rev <= cursor'[d]
                => c.conflicts[i] = items'[i]
        BY <1>1, <1>2, <4>1, VersionTypes DEF Outside, ServerMoves
      <4> QED BY <4>1, <4>2, <4>4, <4>5
    <3> QED BY <2>3, <3>1, <3>2, <3>3 DEF CycleFine, Phases
  <2>4. CASE c.phase = "pull"
    <3>1. /\ c.since \in Nat /\ cursor[d] <= c.since /\ c.since <= lastRev
          /\ DealtUpTo(d, c.since, {})
      BY <1>2, <2>4 DEF CycleFine
    <3>2. \A i \in ItemId : Dealt(row'[d][i], items'[i], session'[d] = "first",
                                  i \in purged'[d], c.since)
      BY <1>5, <3>1 DEF DealtUpTo
    <3>3. DealtUpTo(d, c.since, {})'
      BY <3>2 DEF DealtUpTo
    <3>4. cursor'[d] <= c.since /\ c.since <= lastRev'
      BY <1>1, <1>2, <3>1
    <3> QED BY <2>4, <3>1, <3>3, <3>4 DEF CycleFine, Phases
  <2>5. ASSUME NEW todo, NEW next, PageFine(d, todo, next)
        PROVE  PageFine(d, todo, next)'
    <3>1. next \in Nat /\ cursor[d] <= next /\ next <= lastRev
      BY <2>5 DEF PageFine
    <3>2. cursor'[d] <= next /\ next <= lastRev'
      BY <1>1, <1>2, <3>1
    <3>3. ASSUME NEW i \in DOMAIN todo
          PROVE  /\ VersionFine(i, todo[i], items[i])'
                 /\ todo[i].rev # 0
                 /\ row'[d][i].base <= todo[i].rev
                 /\ items'[i].rev # 0 /\ items'[i].rev <= next => todo[i] = items'[i]
      <4>1. /\ i \in ItemId
            /\ VersionFine(i, todo[i], items[i])
            /\ todo[i].rev # 0 /\ row[d][i].base <= todo[i].rev
            /\ items[i].rev # 0 /\ items[i].rev <= next => todo[i] = items[i]
        BY <2>5 DEF PageFine
      <4>2. VersionFine(i, todo[i], items[i])'
        BY <4>1, VersionStays DEF VersionFine, Outside
      <4>3. todo[i].rev \in Nat
        BY <4>1, VersionTypes DEF VersionFine
      <4>4. row'[d][i].base <= todo[i].rev
        BY <1>1, <1>4, <4>1, <4>3
      <4>5. items'[i].rev # 0 /\ items'[i].rev <= next => todo[i] = items'[i]
        BY <1>1, <3>1, <4>1, VersionTypes DEF Outside, ServerMoves
      <4> QED BY <4>1, <4>2, <4>4, <4>5
    <3>4. \A i \in ItemId \ DOMAIN todo :
              Dealt(row'[d][i], items'[i], session'[d] = "first", i \in purged'[d], next)
      BY <1>5, <2>5, <3>1 DEF PageFine, DealtUpTo
    <3>5. DealtUpTo(d, next, DOMAIN todo)'
      BY <3>4 DEF DealtUpTo
    <3>6. DOMAIN todo \subseteq ItemId
      BY <2>5 DEF PageFine
    <3> QED BY <3>1, <3>2, <3>3, <3>5, <3>6 DEF PageFine
  <2>6. CASE c.phase = "listed"
    <3> DEFINE n == NextSince(c.page, c.since)
    <3>1. PageFine(d, c.page, n)
      BY <1>2, <2>6 DEF CycleFine
    <3> HIDE DEF n
    <3>2. PageFine(d, c.page, n)'
      <4>1. n' = n /\ (c.page)' = c.page
        BY DEF n, NextSince
      <4> QED BY <2>5, <3>1, <4>1
    <3> QED BY <2>6, <3>2 DEF CycleFine, Phases, n
  <2>7. CASE c.phase \in {"page", "apply"}
    <3>1. /\ c.more \in BOOLEAN /\ PageFine(d, c.todo, c.next)
          /\ c.phase = "apply" => /\ c.item \in DOMAIN c.todo
                                  /\ ~KeepsLocal(d, c.seen, c.todo[c.item])
      BY <1>2, <2>7 DEF CycleFine
    <3>2. PageFine(d, c.todo, c.next)'
      BY <2>5, <3>1
    <3> QED BY <2>7, <3>1, <3>2 DEF CycleFine, Phases
  <2> QED BY <1>2, <2>1, <2>2, <2>3, <2>4, <2>6, <2>7 DEF CycleFine, Phases
<1> QED BY <1>8, OutsideRows DEF DeviceInv
-----------------------------------------------------------------------------
(* What the next cursor is: the greatest revision of the page, or since.   *)

LEMMA NextSinceFacts ==
    ASSUME NEW page, NEW since \in Nat, NEW top \in Nat,
           \A i \in DOMAIN page : page[i].rev \in Nat /\ page[i].rev <= top
    PROVE  /\ NextSince(page, since) \in Nat
           /\ DOMAIN page = {} => NextSince(page, since) = since
           /\ DOMAIN page # {} => \E i \in DOMAIN page : NextSince(page, since) = page[i].rev
           /\ \A i \in DOMAIN page : page[i].rev <= NextSince(page, since)
<1>1. CASE DOMAIN page = {}
  BY <1>1 DEF NextSince
<1>2. CASE DOMAIN page # {}
  <2> DEFINE Below == {top - page[i].rev : i \in DOMAIN page}
             Greatest(r) == r \in {page[i].rev : i \in DOMAIN page}
                            /\ \A j \in DOMAIN page : page[j].rev <= r
  <2>1. Below \subseteq Nat /\ Below # {}
    BY <1>2
  <2>2. PICK x \in Below : \A y \in Below : ~(<<y, x>> \in OpToRel(<, Nat))
    <3> HIDE DEF Below
    <3> QED BY <2>1, NatLessThanWellFounded, WFMin
  <2>3. \A y \in Below : x <= y
    <3>1. x \in Nat /\ \A y \in Below : y \in Nat
      BY <2>1
    <3> HIDE DEF Below
    <3>2. \A y \in Below : ~(y < x)
      BY <2>2, <3>1, Zenon DEF OpToRel
    <3> QED BY <3>1, <3>2
  <2>4. PICK i \in DOMAIN page : x = top - page[i].rev
    OBVIOUS
  <2>5. \A j \in DOMAIN page : page[j].rev <= page[i].rev
    <3> SUFFICES ASSUME NEW j \in DOMAIN page PROVE page[j].rev <= page[i].rev
      OBVIOUS
    <3>1. x <= top - page[j].rev
      BY <2>3
    <3> QED BY <2>4, <3>1
  <2>6. Greatest(page[i].rev)
    BY <2>5
  <2>7. NextSince(page, since) = CHOOSE r : Greatest(r)
    BY <1>2 DEF NextSince
  <2>8. Greatest(NextSince(page, since))
    BY <2>6, <2>7
  <2> QED BY <1>2, <2>8
<1> QED BY <1>1, <1>2
-----------------------------------------------------------------------------
(* The steps of a device's own cycle that leave its rows alone.            *)

Still(d) ==
    /\ items' = items /\ lastRev' = lastRev
    /\ row' = row /\ cursor' = cursor
    /\ purged' = purged /\ session' = session /\ born' = born

LEMMA StillKeeps ==
    ASSUME NEW d \in Device, DeviceInv(d), Still(d)
    PROVE  /\ RowsFine(d)' /\ CursorFine(d)'
           /\ \A k, T : DealtUpTo(d, k, T) => DealtUpTo(d, k, T)'
           /\ \A todo, next : PageFine(d, todo, next) => PageFine(d, todo, next)'
<1>1. RowsFine(d)'
  BY DEF DeviceInv, RowsFine, RowFine, Still
<1>2. \A k, T : DealtUpTo(d, k, T) => DealtUpTo(d, k, T)'
  BY DEF DealtUpTo, Dealt, Still
<1>3. CursorFine(d)'
  BY <1>2 DEF DeviceInv, CursorFine, Still
<1>4. \A todo, next : PageFine(d, todo, next) => PageFine(d, todo, next)'
  BY <1>2 DEF PageFine, VersionFine, Still
<1> QED BY <1>1, <1>2, <1>3, <1>4

(* A cycle that holds nothing, or photos only, is fine.                    *)
LEMMA LightCycle ==
    ASSUME NEW d \in Device, DeviceInv(d), Still(d),
           \/ cycle'[d] = Idle \/ cycle'[d] = Collecting
           \/ \E P \in SUBSET BlobId : cycle'[d] = Uploading(P) \/ cycle'[d] = Downloading(P)
           \/ \E b \in BlobId, P \in SUBSET BlobId : cycle'[d] = Uploaded(b, P)
    PROVE  DeviceInv(d)'
<1>1. /\ cycle'[d].phase \in {"idle", "collect", "upload", "uploaded", "download"}
      /\ cycle'[d].phase \in {"upload", "uploaded", "download"} =>
            cycle'[d].photos \subseteq BlobId
      /\ cycle'[d].phase = "uploaded" => cycle'[d].blob \in BlobId
  <2>1. CASE cycle'[d] = Idle \/ cycle'[d] = Collecting
    BY <2>1 DEF Idle, Collecting
  <2>2. ASSUME NEW P \in SUBSET BlobId, cycle'[d] = Uploading(P) \/ cycle'[d] = Downloading(P)
        PROVE  <1>1!:
    BY <2>2 DEF Uploading, Downloading
  <2>3. ASSUME NEW b \in BlobId, NEW P \in SUBSET BlobId, cycle'[d] = Uploaded(b, P)
        PROVE  <1>1!:
    BY <2>3 DEF Uploaded
  <2> QED BY <2>1, <2>2, <2>3
<1>2. CycleFine(d)'
  BY <1>1 DEF CycleFine, Phases
<1> QED BY <1>2, StillKeeps DEF DeviceInv

(* What the photos of the visible cards are.                               *)
LEMMA MissingAreBlobs ==
    ASSUME SharedInv, NEW d \in Device, RowsFine(d)
    PROVE  MissingPhotos(d) \subseteq BlobId
<1> SUFFICES ASSUME NEW j \in ItemId, Visible(d, j)
             PROVE  BlobsOf[row[d][j].val] \subseteq BlobId
  BY DEF MissingPhotos
<1>1. row[d][j].val \in Val
  BY DEF RowsFine, RowFine, Visible, HasRow
<1> QED BY <1>1, BlobAssumption

LEMMA StartCycleKeeps ==
    ASSUME SharedInv, NEW d \in Device, DeviceInv(d), StartCycle(d)
    PROVE  DeviceInv(d)'
<1> DEFINE P == {b \in BlobId : photo[d][b] = "pending"}
<1>1. cycle'[d] = ToUpload(P) /\ P \in SUBSET BlobId
  BY GotoFacts DEF SharedInv, StartCycle
<1>2. Still(d)
  BY DEF StartCycle, Still, serverVars
<1> HIDE DEF P
<1>3. cycle'[d] = Collecting \/ cycle'[d] = Uploading(P)
  BY <1>1 DEF ToUpload
<1> QED BY <1>1, <1>2, <1>3, LightCycle

LEMMA UploadPhotoKeeps ==
    ASSUME SharedInv, NEW d \in Device, DeviceInv(d), UploadPhoto(d)
    PROVE  DeviceInv(d)'
<1>1. cycle[d].photos \in SUBSET BlobId
  BY DEF UploadPhoto, Phase, DeviceInv, CycleFine
<1>2. PICK b \in cycle[d].photos :
        \/ Goto(d, ToUpload(cycle[d].photos \ {b})) /\ UNCHANGED serverVars
        \/ Goto(d, Uploaded(b, cycle[d].photos \ {b})) /\ InsertIfAbsent(b)
  BY DEF UploadPhoto
<1> DEFINE P == cycle[d].photos \ {b}
<1>3. P \in SUBSET BlobId /\ b \in BlobId
  BY <1>1
<1>4. \/ cycle'[d] = ToUpload(P)
      \/ cycle'[d] = Uploaded(b, P)
  BY <1>2, GotoFacts DEF SharedInv
<1>5. Still(d)
  BY <1>2 DEF UploadPhoto, Still, serverVars, InsertIfAbsent
<1> HIDE DEF P
<1>6. cycle'[d] = Collecting \/ cycle'[d] = Uploading(P) \/ cycle'[d] = Uploaded(b, P)
  BY <1>4 DEF ToUpload
<1> QED BY <1>3, <1>5, <1>6, LightCycle

LEMMA MarkUploadedKeeps ==
    ASSUME SharedInv, NEW d \in Device, DeviceInv(d), MarkUploaded(d)
    PROVE  DeviceInv(d)'
<1> DEFINE P == cycle[d].photos
<1>1. P \in SUBSET BlobId
  BY DEF MarkUploaded, Phase, DeviceInv, CycleFine
<1>2. cycle'[d] = ToUpload(P)
  BY GotoFacts DEF SharedInv, MarkUploaded
<1>3. Still(d)
  BY DEF MarkUploaded, Still, serverVars
<1> HIDE DEF P
<1>4. cycle'[d] = Collecting \/ cycle'[d] = Uploading(P)
  BY <1>2 DEF ToUpload
<1> QED BY <1>1, <1>3, <1>4, LightCycle

LEMMA DownloadPhotoKeeps ==
    ASSUME SharedInv, NEW d \in Device, DeviceInv(d), DownloadPhoto(d)
    PROVE  DeviceInv(d)'
<1>1. PICK b \in cycle[d].photos : Goto(d, ToDownload(cycle[d].photos \ {b}))
  BY DEF DownloadPhoto
<1> DEFINE P == cycle[d].photos \ {b}
<1>2. P \in SUBSET BlobId
  BY DEF DownloadPhoto, Phase, DeviceInv, CycleFine
<1>3. cycle'[d] = ToDownload(P)
  BY <1>1, GotoFacts DEF SharedInv
<1>4. Still(d)
  BY DEF DownloadPhoto, Still, serverVars
<1> HIDE DEF P
<1>5. cycle'[d] = Idle \/ cycle'[d] = Downloading(P)
  BY <1>3 DEF ToDownload
<1> QED BY <1>2, <1>4, <1>5, LightCycle

(* A refused push and a cut cycle leave nothing behind.                    *)
LEMMA EndOfCycleKeeps ==
    ASSUME SharedInv, NEW d \in Device, DeviceInv(d), RefusePush(d) \/ Cut(d)
    PROVE  DeviceInv(d)'
<1>1. cycle'[d] = Idle
  BY GotoFacts DEF SharedInv, RefusePush, Cut
<1>2. Still(d)
  BY DEF RefusePush, Cut, Still, serverVars
<1> QED BY <1>1, <1>2, LightCycle

(* A pull starts at the cursor.                                            *)
LEMMA PullStarts ==
    ASSUME NEW d \in Device, DeviceInv(d), Still(d), cycle'[d] = Pulling(cursor[d])
    PROVE  DeviceInv(d)'
<1>1. /\ cursor[d] \in Nat /\ cursor[d] <= lastRev /\ DealtUpTo(d, cursor[d], {})
  BY DEF DeviceInv, CursorFine
<1>2. DealtUpTo(d, cursor[d], {})'
  BY <1>1, StillKeeps DEF Still
<1>3. cycle'[d].phase = "pull" /\ cycle'[d].since = cursor[d] /\ cursor'[d] = cursor[d]
  BY DEF Pulling, Still
<1>4. cursor[d] <= cursor[d]
  BY <1>1
<1>5. CycleFine(d)'
  BY <1>1, <1>2, <1>3, <1>4 DEF CycleFine, Phases, Still
<1> QED BY <1>5, StillKeeps DEF DeviceInv

LEMMA CollectDirtyKeeps ==
    ASSUME SharedInv, NEW d \in Device, DeviceInv(d), CollectDirty(d)
    PROVE  DeviceInv(d)'
<1>1. PICK I \in SUBSET DirtyCards(d) :
         Goto(d, IF I = {} THEN Pulling(cursor[d]) ELSE Pushing([i \in I |-> row[d][i]]))
  BY DEF CollectDirty
<1>2. Still(d)
  BY DEF CollectDirty, Still, serverVars
<1>3. CASE I = {}
  <2>1. cycle'[d] = Pulling(cursor[d])
    BY <1>1, <1>3, GotoFacts DEF SharedInv
  <2> QED BY <1>2, <2>1, PullStarts
<1>4. CASE I # {}
  <2> DEFINE batch == [i \in I |-> row[d][i]]
  <2>1. cycle'[d] = Pushing(batch)
    BY <1>1, <1>4, GotoFacts DEF SharedInv
  <2>2. \A i \in I : /\ i \in ItemId /\ row[d][i].dirty
                     /\ row[d][i] \in Row
                     /\ RowFine(row[d][i], items[i], i \in born)
    BY DEF DirtyCards, SharedInv, DeviceInv, RowsFine
  <2>3. \A i \in I : row[d][i] # NoRow
    BY <2>2, RowTypes
  <2>4. BatchFine(batch)
    BY <2>2, <2>3 DEF RowFine, BatchFine
  <2> HIDE DEF batch
  <2>5. BatchFine(batch)'
    <3>1. batch' = batch
      BY <1>2 DEF batch, Still
    <3> QED BY <1>2, <2>4, <3>1 DEF BatchFine, Still
  <2>6. cycle'[d].phase = "push" /\ cycle'[d].batch = batch
    BY <2>1 DEF Pushing
  <2>7. CycleFine(d)'
    BY <1>2, <2>4, <2>6 DEF CycleFine, Phases, BatchFine, Still
  <2> QED BY <1>2, <2>7, StillKeeps DEF DeviceInv
<1> QED BY <1>3, <1>4

LEMMA FinishBatchKeeps ==
    ASSUME SharedInv, NEW d \in Device, DeviceInv(d), FinishBatch(d)
    PROVE  DeviceInv(d)'
<1>1. Still(d)
  BY DEF FinishBatch, Still, serverVars
<1>2. cycle'[d] = Pulling(cursor[d]) \/ cycle'[d] = Collecting
  BY GotoFacts DEF SharedInv, FinishBatch
<1> QED BY <1>1, <1>2, PullStarts, LightCycle

LEMMA ServeListKeeps ==
    ASSUME SharedInv, NEW d \in Device, DeviceInv(d), ServeList(d)
    PROVE  DeviceInv(d)'
<1> DEFINE since == cycle[d].since
<1>1. PICK P \in SUBSET ItemId :
        IsPage(P, since) /\ Goto(d, Listed(since, [i \in P |-> items[i]]))
  BY DEF ServeList
<1> DEFINE page == [i \in P |-> items[i]]
           next == NextSince(page, since)
<1>2. Still(d)
  BY DEF ServeList, Still, serverVars
<1>3. /\ since \in Nat /\ cursor[d] \in Nat /\ cursor[d] <= since /\ since <= lastRev
      /\ DealtUpTo(d, since, {})
  BY DEF ServeList, Phase, DeviceInv, CycleFine, CursorFine
<1>4. /\ lastRev \in Nat
      /\ \A i \in ItemId : /\ items[i] \in ItemRow /\ items[i].rev \in Nat
                           /\ items[i].rev <= lastRev
                           /\ items[i].rev = 0 => items[i] = Gone
                           /\ items[i].rev # 0 => i \in born
                           /\ RowFine(row[d][i], items[i], i \in born)
  BY VersionTypes DEF SharedInv, ServerInv, ServerTypeOK, RevisionsSound,
                      DeviceInv, RowsFine
<1>5. /\ DOMAIN page = P /\ P \subseteq ItemId
      /\ \A i \in P : page[i] = items[i] /\ items[i].rev > since
      /\ \A i \in P, j \in ItemId \ P : items[j].rev > since => items[i].rev < items[j].rev
      /\ P = {} => \A j \in ItemId : ~(items[j].rev > since)
  <2>1. DOMAIN page = P /\ P \subseteq ItemId /\ \A i \in P : page[i] = items[i]
    OBVIOUS
  <2>2. \A i \in P : items[i].rev > since
    BY <1>1 DEF IsPage, Changed
  <2>3. \A i \in P, j \in ItemId \ P : items[j].rev > since => items[i].rev < items[j].rev
    BY <1>1 DEF IsPage, Changed
  <2>4. ASSUME P = {} PROVE Changed(since) = {}
    <3>1. Cardinality(P) = 0
      BY <2>4, FS_EmptySet
    <3>2. PageLimit # 0
      BY BoundAssumption
    <3> QED BY <1>1, <2>4, <3>1, <3>2 DEF IsPage
  <2> QED BY <2>1, <2>2, <2>3, <2>4 DEF Changed
<1>6. cycle'[d].phase = "listed" /\ cycle'[d].page = page /\ cycle'[d].since = since
  <2>1. cycle'[d] = Listed(since, page)
    BY <1>1, GotoFacts DEF SharedInv
  <2> QED BY <2>1 DEF Listed
<1> HIDE DEF page, since
<1>7. /\ next \in Nat
      /\ P = {} => next = since
      /\ P # {} => \E i \in P : next = page[i].rev
      /\ \A i \in P : page[i].rev <= next
  <2>1. \A i \in DOMAIN page : page[i].rev \in Nat /\ page[i].rev <= lastRev
    BY <1>4, <1>5
  <2> QED BY <1>3, <1>4, <1>5, <2>1, NextSinceFacts
<1> HIDE DEF next
<1>8. since <= next /\ next <= lastRev
  <2>1. CASE P = {}
    BY <1>3, <1>7, <2>1
  <2>2. CASE P # {}
    <3>1. PICK i \in P : next = page[i].rev
      BY <1>7, <2>2
    <3> QED BY <1>3, <1>4, <1>5, <3>1
  <2> QED BY <2>1, <2>2
<1>9. PageFine(d, page, next)
  <2>1. cursor[d] <= next
    BY <1>3, <1>7, <1>8
  <2>2. ASSUME NEW i \in P
        PROVE  /\ VersionFine(i, page[i], items[i])
               /\ page[i].rev # 0
               /\ row[d][i].base <= page[i].rev
               /\ items[i].rev # 0 /\ items[i].rev <= next => page[i] = items[i]
    <3>1. items[i].rev # 0
      BY <1>3, <1>4, <1>5
    <3>2. VersionFine(i, page[i], items[i])
      BY <1>4, <1>5 DEF VersionFine
    <3> QED BY <1>4, <1>5, <3>1, <3>2 DEF RowFine
  <2>3. ASSUME NEW j \in ItemId \ P
        PROVE  Dealt(row[d][j], items[j], session[d] = "first", j \in purged[d], next)
    <3>1. Dealt(row[d][j], items[j], session[d] = "first", j \in purged[d], since)
      BY <1>3 DEF DealtUpTo
    <3>2. items[j].rev <= since \/ next < items[j].rev
      <4>1. CASE P = {}
        BY <1>3, <1>4, <1>5, <4>1
      <4>2. CASE P # {}
        <5>1. PICK i \in P : next = page[i].rev
          BY <1>7, <4>2
        <5> QED BY <1>3, <1>4, <1>5, <5>1
      <4> QED BY <4>1, <4>2
    <3>3. CASE items[j].rev <= since
      BY <3>1, <3>3 DEF Dealt
    <3>4. CASE next < items[j].rev
      <4>1. ~(items[j].rev <= next)
        BY <1>4, <1>7, <3>4
      <4> QED BY <4>1 DEF Dealt
    <3> QED BY <3>2, <3>3, <3>4
  <2>4. DealtUpTo(d, next, P)
    BY <2>3 DEF DealtUpTo
  <2> QED BY <1>5, <1>7, <1>8, <2>1, <2>2, <2>4 DEF PageFine
<1>10. page' = page /\ since' = since /\ next' = next
  BY <1>2, <1>6 DEF page, next, since, NextSince, Still
<1>11. PageFine(d, page, next)'
  BY <1>2, <1>9, <1>10, StillKeeps
<1>12. NextSince(cycle[d].page, cycle[d].since)' = next'
  BY <1>6, <1>10 DEF next
<1>13. PageFine(d, cycle[d].page, NextSince(cycle[d].page, cycle[d].since))'
  BY <1>6, <1>10, <1>11, <1>12
<1>14. CycleFine(d)'
  BY <1>6, <1>13 DEF CycleFine, Phases
<1> QED BY <1>2, <1>14, StillKeeps DEF DeviceInv
-----------------------------------------------------------------------------
(* The pull goes through its page.                                         *)

LEMMA RemoveFacts ==
    ASSUME NEW f, NEW i
    PROVE  /\ DOMAIN Remove(f, i) = DOMAIN f \ {i}
           /\ \A j \in DOMAIN Remove(f, i) : Remove(f, i)[j] = f[j]
<1> QED BY DEF Remove

LEMMA ServeRevKeeps ==
    ASSUME SharedInv, NEW d \in Device, DeviceInv(d), ServeRev(d)
    PROVE  DeviceInv(d)'
<1> DEFINE page == cycle[d].page
           next == NextSince(page, cycle[d].since)
<1>1. Still(d)
  BY DEF ServeRev, Still, serverVars
<1>2. PageFine(d, page, next)
  BY DEF ServeRev, Phase, DeviceInv, CycleFine
<1>3. cycle'[d] = Paging(page, next, next < lastRev)
  BY GotoFacts DEF SharedInv, ServeRev
<1> HIDE DEF page, next
<1>4. /\ cycle'[d].phase = "page" /\ cycle'[d].todo = page
      /\ cycle'[d].next = next /\ cycle'[d].more = (next < lastRev)
  BY <1>3 DEF Paging
<1>5. PageFine(d, cycle[d].todo, cycle[d].next)'
  BY <1>1, <1>2, <1>4, StillKeeps
<1>6. cycle'[d].more \in BOOLEAN
  BY <1>4
<1>7. CycleFine(d)'
  BY <1>4, <1>5, <1>6 DEF CycleFine, Phases
<1> QED BY <1>1, <1>7, StillKeeps DEF DeviceInv

(* A card whose local edit is kept needs nothing more of the page.         *)
LEMMA CheckIncomingKeeps ==
    ASSUME SharedInv, NEW d \in Device, DeviceInv(d), CheckIncoming(d)
    PROVE  DeviceInv(d)'
<1> DEFINE c == cycle[d]
<1>1. Still(d)
  BY DEF CheckIncoming, Still, serverVars
<1>2. PageFine(d, c.todo, c.next) /\ c.more \in BOOLEAN
  BY DEF CheckIncoming, Phase, DeviceInv, CycleFine
<1>3. PICK i \in DOMAIN c.todo :
         Goto(d, IF KeepsLocal(d, row[d][i], c.todo[i])
                 THEN Paging(Remove(c.todo, i), c.next, c.more)
                 ELSE Applying(i, row[d][i], c))
  BY DEF CheckIncoming
<1>4. CASE KeepsLocal(d, row[d][i], c.todo[i])
  <2> DEFINE rest == Remove(c.todo, i)
  <2>1. cycle'[d] = Paging(rest, c.next, c.more)
    BY <1>3, <1>4, GotoFacts DEF SharedInv
  <2>2. DOMAIN rest = DOMAIN c.todo \ {i} /\ \A j \in DOMAIN rest : rest[j] = c.todo[j]
    BY RemoveFacts
  <2> HIDE DEF rest
  <2>3. row[d][i] # NoRow /\ row[d][i].dirty
    BY <1>4, RowTypes DEF KeepsLocal
  <2>4. Dealt(row[d][i], items[i], session[d] = "first", i \in purged[d], c.next)
    BY <2>3 DEF Dealt
  <2>5. DealtUpTo(d, c.next, DOMAIN rest)
    BY <1>2, <2>2, <2>4 DEF PageFine, DealtUpTo
  <2>6. PageFine(d, rest, c.next)
    BY <1>2, <2>2, <2>5 DEF PageFine
  <2>7. /\ cycle'[d].phase = "page" /\ cycle'[d].todo = rest
        /\ cycle'[d].next = c.next /\ cycle'[d].more = c.more
    BY <2>1 DEF Paging
  <2>8. PageFine(d, cycle[d].todo, cycle[d].next)'
    BY <1>1, <2>6, <2>7, StillKeeps
  <2>9. CycleFine(d)'
    BY <1>2, <2>7, <2>8 DEF CycleFine, Phases
  <2> QED BY <1>1, <2>9, StillKeeps DEF DeviceInv
<1>5. CASE ~KeepsLocal(d, row[d][i], c.todo[i])
  <2>1. cycle'[d] = Applying(i, row[d][i], c)
    BY <1>3, <1>5, GotoFacts DEF SharedInv
  <2>2. /\ cycle'[d].phase = "apply" /\ cycle'[d].item = i /\ cycle'[d].seen = row[d][i]
        /\ cycle'[d].todo = c.todo /\ cycle'[d].next = c.next /\ cycle'[d].more = c.more
    BY <2>1 DEF Applying
  <2>3. PageFine(d, cycle[d].todo, cycle[d].next)'
    BY <1>1, <1>2, <2>2, StillKeeps
  <2>4. ~KeepsLocal(d, cycle'[d].seen, cycle'[d].todo[cycle'[d].item])
    BY <1>5, <2>2
  <2>5. ~KeepsLocal(d, cycle[d].seen, cycle[d].todo[cycle[d].item])'
    BY <2>4 DEF KeepsLocal
  <2>6. CycleFine(d)'
    BY <1>2, <2>2, <2>3, <2>5 DEF CycleFine, Phases
  <2> QED BY <1>1, <2>6, StillKeeps DEF DeviceInv
<1> QED BY <1>4, <1>5

(* The cursor moves when the page is done.                                 *)
LEMMA TurnPageKeeps ==
    ASSUME SharedInv, NEW d \in Device, DeviceInv(d), TurnPage(d)
    PROVE  DeviceInv(d)'
<1> DEFINE next == cycle[d].next
           P == MissingPhotos(d)
<1>1. /\ items' = items /\ lastRev' = lastRev /\ row' = row
      /\ purged' = purged /\ session' = session /\ born' = born
  BY DEF TurnPage, serverVars
<1>2. cursor'[d] = next
  BY DEF TurnPage, SharedInv
<1>3. /\ next \in Nat /\ next <= lastRev
      /\ DealtUpTo(d, next, {})
  BY DEF TurnPage, Phase, DeviceInv, CycleFine, PageFine
<1>4. cycle'[d] = Pulling(next) \/ cycle'[d] = Idle \/ cycle'[d] = Downloading(P)
  BY GotoFacts DEF TurnPage, SharedInv, ToDownload
<1>5. P \subseteq BlobId
  BY MissingAreBlobs DEF DeviceInv
<1> HIDE DEF next, P
<1>6. RowsFine(d)'
  BY <1>1 DEF DeviceInv, RowsFine, RowFine
<1>7. \A i \in ItemId : Dealt(row'[d][i], items'[i], session'[d] = "first",
                              i \in purged'[d], next)
  BY <1>1, <1>3 DEF DealtUpTo
<1>8. CursorFine(d)'
  BY <1>1, <1>2, <1>3, <1>7 DEF CursorFine, DealtUpTo
<1>9. CASE cycle'[d] = Pulling(next)
  <2>1. cycle'[d].phase = "pull" /\ cycle'[d].since = next /\ next <= next
    BY <1>3, <1>9 DEF Pulling
  <2>2. DealtUpTo(d, cycle[d].since, {})'
    BY <1>7, <2>1 DEF DealtUpTo
  <2>3. CycleFine(d)'
    BY <1>1, <1>2, <1>3, <2>1, <2>2 DEF CycleFine, Phases
  <2> QED BY <1>6, <1>8, <2>3 DEF DeviceInv
<1>10. CASE cycle'[d] = Idle \/ cycle'[d] = Downloading(P)
  <2>1. /\ cycle'[d].phase \in {"idle", "download"}
        /\ cycle'[d].phase = "download" => cycle'[d].photos \subseteq BlobId
    BY <1>5, <1>10 DEF Idle, Downloading
  <2>2. CycleFine(d)'
    BY <2>1 DEF CycleFine, Phases
  <2> QED BY <1>6, <1>8, <2>2 DEF DeviceInv
<1> QED BY <1>4, <1>9, <1>10

-----------------------------------------------------------------------------
(* The steps that change one row of the device: card i.                    *)

OneRow(d, i) ==
    /\ items' = items /\ lastRev' = lastRev /\ cursor' = cursor
    /\ purged' = purged /\ session' = session /\ born' = born
    /\ \A j \in ItemId : j # i => row'[d][j] = row[d][j]

LEMMA OneRowKeeps ==
    ASSUME NEW d \in Device, NEW i \in ItemId, DeviceInv(d), OneRow(d, i),
           RowFine(row[d][i], items[i], i \in born)',
           Dealt(row'[d][i], items[i], session[d] = "first", i \in purged[d], cursor[d])
    PROVE  RowsFine(d)' /\ CursorFine(d)'
<1>1. RowsFine(d)'
  <2> SUFFICES ASSUME NEW j \in ItemId PROVE RowFine(row[d][j], items[j], j \in born)'
    BY DEF RowsFine
  <2>1. CASE j = i
    BY <2>1
  <2>2. CASE j # i
    BY <2>2 DEF DeviceInv, RowsFine, RowFine, OneRow
  <2> QED BY <2>1, <2>2
<1>2. CursorFine(d)'
  <2>1. cursor[d] \in Nat /\ cursor[d] <= lastRev /\ DealtUpTo(d, cursor[d], {})
    BY DEF DeviceInv, CursorFine
  <2>2. ASSUME NEW j \in ItemId
        PROVE  Dealt(row'[d][j], items[j], session[d] = "first", j \in purged[d], cursor[d])
    <3>1. CASE j = i
      BY <3>1
    <3>2. CASE j # i
      BY <2>1, <3>2 DEF DealtUpTo, OneRow
    <3> QED BY <3>1, <3>2
  <2> QED BY <2>1, <2>2 DEF CursorFine, DealtUpTo, OneRow
<1> QED BY <1>1, <1>2
(* What becomes of row r when version v is applied to it: nothing, because *)
(* there is nothing to do, or the version's revision and state.            *)
LEMMA OverwrittenFacts ==
    ASSUME NEW r \in Row, r # NoRow => r.val \in Val, NEW v \in ItemRow
    PROVE  /\ Overwritten(r, v) \in Row
           /\ \/ /\ Overwritten(r, v) = r
                 /\ (v.deleted /\ r = NoRow) \/ (~v.deleted /\ v.val \in Unreadable)
              \/ /\ Overwritten(r, v) # NoRow
                 /\ ~Overwritten(r, v).dirty
                 /\ Overwritten(r, v).val \in Val
                 /\ Overwritten(r, v).base = v.rev
                 /\ Overwritten(r, v).deleted = v.deleted
                 /\ v.deleted => r # NoRow
                 /\ ~v.deleted => Overwritten(r, v).val = v.val
<1> DEFINE r2 == Overwritten(r, v)
<1>1. /\ v.rev \in Nat /\ v.at \in Nat /\ v.deleted \in BOOLEAN
      /\ v.val \in Val \cup {NoVal} /\ (v.deleted <=> v.val = NoVal)
      /\ r.base \in Nat /\ r.at \in Nat /\ r.deleted \in BOOLEAN /\ r.dirty \in BOOLEAN
      /\ r.val \in Val \cup {NoVal}
  BY VersionTypes, RowTypes
<1>2. CASE v.deleted /\ r = NoRow
  <2>1. r2 = r
    BY <1>2 DEF Overwritten
  <2> QED BY <1>2, <2>1
<1>3. CASE v.deleted /\ r # NoRow
  <2>1. r2 = [r EXCEPT !.deleted = TRUE, !.at = v.at, !.base = v.rev, !.dirty = FALSE]
    BY <1>3 DEF Overwritten
  <2>2. r2 \in Row /\ r2.val = r.val /\ r2.base = v.rev /\ ~r2.dirty /\ r2.deleted
    BY <1>1, <2>1 DEF Row
  <2> HIDE DEF r2
  <2>3. r2 # NoRow
    BY <1>3, <2>2, RowTypes
  <2>4. r2.deleted = v.deleted
    BY <1>1, <1>3, <2>2, RowTypes
  <2> QED BY <1>3, <2>2, <2>3, <2>4 DEF r2
<1>4. CASE ~v.deleted /\ v.val \in Unreadable
  <2>1. r2 = r
    BY <1>4 DEF Overwritten
  <2> QED BY <1>4, <2>1
<1>5. CASE ~v.deleted /\ v.val \notin Unreadable
  <2>1. r2 = [val |-> v.val, at |-> v.at, deleted |-> FALSE, base |-> v.rev,
              dirty |-> FALSE]
    BY <1>5 DEF Overwritten
  <2>2. v.val \in Val
    BY <1>1, <1>5
  <2>3. r2 \in Row /\ r2.val = v.val /\ r2.base = v.rev /\ ~r2.dirty /\ ~r2.deleted
    BY <1>1, <2>1, <2>2 DEF Row
  <2> HIDE DEF r2
  <2>4. r2 # NoRow
    BY <2>2, <2>3, RowTypes
  <2>5. r2.deleted = v.deleted
    BY <1>1, <1>5, <2>3, RowTypes
  <2> QED BY <1>5, <2>2, <2>3, <2>4, <2>5 DEF r2
<1> QED BY <1>1, <1>2, <1>3, <1>4, <1>5

(* Applying a version of the server that has not been overtaken within k   *)
(* deals with the card up to k.                                            *)
LEMMA ApplyDeals ==
    ASSUME SharedInv, NEW d \in Device, DeviceInv(d), NEW i \in ItemId, OneRow(d, i),
           NEW v, VersionFine(i, v, items[i]),
           NEW k \in Nat,
           items[i].rev # 0 /\ items[i].rev <= k => v = items[i],
           row'[d][i] = Overwritten(row[d][i], v)
    PROVE  /\ RowFine(row[d][i], items[i], i \in born)'
           /\ Dealt(row'[d][i], items[i], session[d] = "first", i \in purged[d], k)
<1> DEFINE r == row[d][i]
           r2 == row'[d][i]
<1>1. /\ r \in Row /\ RowFine(r, items[i], i \in born)
      /\ items[i] \in ItemRow /\ v \in ItemRow
  BY DEF SharedInv, ServerInv, ServerTypeOK, DeviceInv, RowsFine, VersionFine
<1>2. r # NoRow => r.val \in Val /\ i \in born
  BY <1>1 DEF RowFine
<1>3. \/ /\ r2 = r
         /\ (v.deleted /\ r = NoRow) \/ (~v.deleted /\ v.val \in Unreadable)
      \/ /\ r2 # NoRow /\ ~r2.dirty /\ r2.val \in Val
         /\ r2.base = v.rev /\ r2.deleted = v.deleted
         /\ v.deleted => r # NoRow
         /\ ~v.deleted => r2.val = v.val
  BY <1>1, <1>2, OverwrittenFacts
<1>4. /\ v.rev \in Nat /\ v.rev <= lastRev /\ (v.rev = 0 => v.deleted)
      /\ v.rev # 0 => i \in born
      /\ items[i].rev # 0 => v.rev <= items[i].rev
  BY <1>1, VersionTypes DEF VersionFine
<1> HIDE DEF r, r2
<1>5. RowFine(r2, items[i], i \in born)
  BY <1>1, <1>2, <1>3, <1>4 DEF RowFine
<1>6. RowFine(row[d][i], items[i], i \in born)'
  BY <1>5 DEF RowFine, OneRow, r2
<1>7. ASSUME items[i].rev # 0, items[i].rev <= k
      PROVE  Dealt(r2, items[i], session[d] = "first", i \in purged[d], k)
  <2>1. v = items[i]
    BY <1>7
  <2> QED BY <1>3, <2>1, VersionTypes, <1>1 DEF Dealt
<1>8. Dealt(r2, items[i], session[d] = "first", i \in purged[d], k)
  BY <1>7 DEF Dealt
<1> QED BY <1>6, <1>8 DEF r2
LEMMA ApplyIncomingKeeps ==
    ASSUME SharedInv, NEW d \in Device, DeviceInv(d), ApplyIncoming(d)
    PROVE  DeviceInv(d)'
<1>1. /\ cycle[d].more \in BOOLEAN
      /\ PageFine(d, cycle[d].todo, cycle[d].next)
      /\ cycle[d].item \in DOMAIN cycle[d].todo
  BY DEF ApplyIncoming, Phase, DeviceInv, CycleFine
<1>2. PICK i, todo, next, more :
        /\ i = cycle[d].item /\ todo = cycle[d].todo
        /\ next = cycle[d].next /\ more = cycle[d].more
  OBVIOUS
<1> DEFINE rest == Remove(todo, i)
<1>3. more \in BOOLEAN /\ PageFine(d, todo, next) /\ i \in DOMAIN todo
  BY <1>1, <1>2
<1>4. /\ i \in ItemId /\ VersionFine(i, todo[i], items[i])
      /\ next \in Nat /\ cursor[d] <= next /\ next <= lastRev
      /\ items[i].rev # 0 /\ items[i].rev <= next => todo[i] = items[i]
      /\ cursor[d] \in Nat /\ items[i].rev \in Nat
  BY <1>3, VersionTypes DEF PageFine, DeviceInv, CursorFine, SharedInv, ServerInv,
                            ServerTypeOK
<1>5. SetRow(d, i, Overwritten(row[d][i], todo[i])) /\ cycle'[d] = Paging(rest, next, more)
  BY <1>2, GotoFacts DEF ApplyIncoming, SharedInv
<1>6. row'[d][i] = Overwritten(row[d][i], todo[i]) /\ OneRow(d, i)
  BY <1>4, <1>5 DEF SetRow, ApplyIncoming, OneRow, serverVars, SharedInv
<1>7. DOMAIN rest = DOMAIN todo \ {i} /\ \A j \in DOMAIN rest : rest[j] = todo[j]
  BY RemoveFacts
<1> HIDE DEF rest
<1>8. /\ cycle'[d].phase = "page" /\ cycle'[d].todo = rest
      /\ cycle'[d].next = next /\ cycle'[d].more = more
  BY <1>5 DEF Paging
<1>9. /\ RowFine(row[d][i], items[i], i \in born)'
      /\ Dealt(row'[d][i], items[i], session[d] = "first", i \in purged[d], next)
  BY <1>4, <1>6, ApplyDeals
<1>10. Dealt(row'[d][i], items[i], session[d] = "first", i \in purged[d], cursor[d])
  <2>1. items[i].rev <= cursor[d] => items[i].rev <= next
    BY <1>4
  <2> QED BY <1>9, <2>1 DEF Dealt
<1>11. RowsFine(d)' /\ CursorFine(d)'
  BY <1>4, <1>6, <1>9, <1>10, OneRowKeeps
<1>12. DealtUpTo(d, next, DOMAIN rest)'
  <2> SUFFICES ASSUME NEW j \in ItemId \ DOMAIN rest
               PROVE  Dealt(row'[d][j], items[j], session[d] = "first", j \in purged[d], next)
    BY <1>6 DEF DealtUpTo, OneRow
  <2>1. CASE j = i
    BY <1>9, <2>1
  <2>2. CASE j # i
    BY <1>3, <1>6, <1>7, <2>2 DEF PageFine, DealtUpTo, OneRow
  <2> QED BY <2>1, <2>2
<1>13. PageFine(d, rest, next)'
  BY <1>3, <1>6, <1>7, <1>12 DEF PageFine, VersionFine, OneRow
<1>14. CycleFine(d)'
  BY <1>3, <1>8, <1>13 DEF CycleFine, Phases
<1> QED BY <1>11, <1>14 DEF DeviceInv

(* What an answer holds.                                                   *)
AnswerFine(d, batch, revs, conflicts) ==
    /\ DOMAIN batch \subseteq ItemId
    /\ DOMAIN revs \subseteq DOMAIN batch
    /\ DOMAIN conflicts \subseteq DOMAIN batch \ DOMAIN revs
    /\ RevsFine(d, revs)
    /\ ConflictsFine(d, batch, conflicts)

LEMMA ApplyConflictKeeps ==
    ASSUME SharedInv, NEW d \in Device, DeviceInv(d), ApplyConflict(d)
    PROVE  DeviceInv(d)'
<1>1. PICK i \in DOMAIN cycle[d].conflicts :
        /\ SetRow(d, i, Overwritten(row[d][i], cycle[d].conflicts[i]))
        /\ Goto(d, Answered(cycle[d].batch, cycle[d].revs, Remove(cycle[d].conflicts, i)))
  BY DEF ApplyConflict
<1>2. PICK batch, revs, conflicts :
        batch = cycle[d].batch /\ revs = cycle[d].revs /\ conflicts = cycle[d].conflicts
  OBVIOUS
<1> DEFINE rest == Remove(conflicts, i)
<1>3. AnswerFine(d, batch, revs, conflicts) /\ DOMAIN revs = {}
  BY <1>2 DEF ApplyConflict, Phase, DeviceInv, CycleFine, AnswerFine
<1>4. /\ i \in ItemId /\ VersionFine(i, conflicts[i], items[i])
      /\ items[i].rev # 0 /\ items[i].rev <= cursor[d] => conflicts[i] = items[i]
      /\ cursor[d] \in Nat
  BY <1>1, <1>2, <1>3 DEF AnswerFine, ConflictsFine, DeviceInv, CursorFine
<1>5. row'[d][i] = Overwritten(row[d][i], conflicts[i]) /\ OneRow(d, i)
  BY <1>1, <1>2, <1>4 DEF SetRow, ApplyConflict, OneRow, serverVars, SharedInv
<1>6. cycle'[d] = Answered(batch, revs, rest)
  BY <1>1, <1>2, GotoFacts DEF SharedInv
<1>7. DOMAIN rest = DOMAIN conflicts \ {i} /\ \A j \in DOMAIN rest : rest[j] = conflicts[j]
  BY RemoveFacts
<1> HIDE DEF rest
<1>8. /\ cycle'[d].phase = "answer" /\ cycle'[d].batch = batch
      /\ cycle'[d].revs = revs /\ cycle'[d].conflicts = rest
  BY <1>6 DEF Answered
<1>9. /\ RowFine(row[d][i], items[i], i \in born)'
      /\ Dealt(row'[d][i], items[i], session[d] = "first", i \in purged[d], cursor[d])
  <2>1. PICK k \in Nat : k = cursor[d]
    BY <1>4
  <2> QED BY <1>4, <1>5, <2>1, ApplyDeals
<1>10. RowsFine(d)' /\ CursorFine(d)'
  BY <1>4, <1>5, <1>9, OneRowKeeps
<1>11. RevsFine(d, revs)'
  BY <1>3 DEF RevsFine
<1>12. ConflictsFine(d, batch, rest)'
  BY <1>3, <1>5, <1>7 DEF AnswerFine, ConflictsFine, VersionFine, OneRow
<1>13. CycleFine(d)'
  BY <1>3, <1>7, <1>8, <1>11, <1>12 DEF AnswerFine, CycleFine, Phases
<1> QED BY <1>10, <1>13 DEF DeviceInv

(* A marked row is clean at a revision above the cursor: the pull that     *)
(* follows reads the card again, whatever the row holds by now.            *)
LEMMA MarkSyncedKeeps ==
    ASSUME SharedInv, NEW d \in Device, DeviceInv(d), MarkSynced(d)
    PROVE  DeviceInv(d)'
<1>1. PICK i \in DOMAIN cycle[d].revs :
        /\ SetRow(d, i, Synced(row[d][i], cycle[d].revs[i]))
        /\ Goto(d, Answered(cycle[d].batch, Remove(cycle[d].revs, i), cycle[d].conflicts))
  BY DEF MarkSynced
<1>2. PICK batch, revs, conflicts :
        batch = cycle[d].batch /\ revs = cycle[d].revs /\ conflicts = cycle[d].conflicts
  OBVIOUS
<1> DEFINE rest == Remove(revs, i)
           r == row[d][i]
<1>3. AnswerFine(d, batch, revs, conflicts)
  BY <1>2 DEF MarkSynced, Phase, DeviceInv, CycleFine, AnswerFine
<1>4. /\ i \in ItemId /\ revs[i] \in Nat /\ revs[i] <= lastRev /\ revs[i] > cursor[d]
      /\ items[i].rev # 0 => revs[i] <= items[i].rev
      /\ cursor[d] \in Nat /\ items[i].rev \in Nat
      /\ r \in Row /\ RowFine(r, items[i], i \in born)
      /\ Dealt(r, items[i], session[d] = "first", i \in purged[d], cursor[d])
  BY <1>1, <1>2, <1>3, VersionTypes
     DEF AnswerFine, RevsFine, DeviceInv, CursorFine, DealtUpTo, RowsFine, SharedInv,
         ServerInv, ServerTypeOK
<1>5. row'[d][i] = Synced(r, revs[i]) /\ OneRow(d, i)
  BY <1>1, <1>2, <1>4 DEF SetRow, MarkSynced, OneRow, serverVars, SharedInv
<1>6. cycle'[d] = Answered(batch, rest, conflicts)
  BY <1>1, <1>2, GotoFacts DEF SharedInv
<1>7. DOMAIN rest = DOMAIN revs \ {i} /\ \A j \in DOMAIN rest : rest[j] = revs[j]
  BY RemoveFacts
<1> HIDE DEF rest
<1>8. /\ cycle'[d].phase = "answer" /\ cycle'[d].batch = batch
      /\ cycle'[d].revs = rest /\ cycle'[d].conflicts = conflicts
  BY <1>6 DEF Answered
<1>9. /\ RowFine(row'[d][i], items[i], i \in born)
      /\ Dealt(row'[d][i], items[i], session[d] = "first", i \in purged[d], cursor[d])
  <2>1. CASE r = NoRow
    BY <1>4, <1>5, <2>1 DEF Synced
  <2>2. CASE r # NoRow
    <3>1. row'[d][i] = [r EXCEPT !.dirty = FALSE, !.base = revs[i]]
      BY <1>5, <2>2 DEF Synced
    <3>2. ~row'[d][i].dirty /\ row'[d][i].base = revs[i] /\ row'[d][i].val = r.val
      BY <1>4, <3>1 DEF Row
    <3>3. RowFine(row'[d][i], items[i], i \in born)
      BY <1>4, <2>2, <3>2 DEF RowFine
    <3>4. ~(items[i].rev # 0 /\ items[i].rev <= cursor[d])
      BY <1>4
    <3> QED BY <3>3, <3>4 DEF Dealt
  <2> QED BY <2>1, <2>2
<1>10. RowFine(row[d][i], items[i], i \in born)'
  BY <1>5, <1>9 DEF RowFine, OneRow
<1>11. RowsFine(d)' /\ CursorFine(d)'
  BY <1>4, <1>5, <1>9, <1>10, OneRowKeeps
<1>12. RevsFine(d, rest)'
  BY <1>3, <1>5, <1>7 DEF AnswerFine, RevsFine, OneRow
<1>13. ConflictsFine(d, batch, conflicts)'
  <2>1. \A j \in DOMAIN conflicts : j # i /\ j \in ItemId
    BY <1>1, <1>2, <1>3 DEF AnswerFine
  <2> QED BY <1>3, <1>5, <2>1 DEF AnswerFine, ConflictsFine, VersionFine, OneRow
<1>14. CycleFine(d)'
  BY <1>3, <1>7, <1>8, <1>12, <1>13 DEF AnswerFine, CycleFine, Phases
<1> QED BY <1>11, <1>14 DEF DeviceInv
-----------------------------------------------------------------------------
(* The push.  Accepted rows get revisions above the cursor, refused ones   *)
(* come with the version that the server keeps.                            *)

LEMMA ServePushKeeps ==
    ASSUME SharedInv, SharedInv', NEW d \in Device, DeviceInv(d), ServePush(d)
    PROVE  DeviceInv(d)'
<1>1. PICK batch : batch = cycle[d].batch
  OBVIOUS
<1> DEFINE req == Request(batch)
           acc == Accepted(d, req)
<1>2. BatchFine(batch)
  BY <1>1 DEF ServePush, Phase, DeviceInv, CycleFine
<1>3. ServerInv /\ lastRev \in Nat /\ lastRev <= MaxRev
  BY DEF SharedInv, ServerInv, ServerTypeOK
<1>4. req \in Batches /\ DOMAIN req = DOMAIN batch
  BY <1>2, <1>3, RequestIsBatch
<1>5. PICK rank \in Bijection(acc, 1 .. Cardinality(acc)) :
        /\ Push(d, req, rank)
        /\ Goto(d, Answered(batch, [i \in acc |-> NewRev(rank, i)], Conflicts(d, req)))
  BY <1>1 DEF ServePush, Ranks
<1>6. /\ ServerMoves
      /\ \A i \in ItemId \ acc : items'[i] = items[i]
      /\ \A i \in acc : /\ items'[i].rev = NewRev(rank, i)
                        /\ NewRev(rank, i) \in Nat /\ NewRev(rank, i) > lastRev
                        /\ NewRev(rank, i) <= lastRev'
      /\ acc \subseteq DOMAIN req /\ DOMAIN req \subseteq ItemId
  BY <1>3, <1>4, <1>5, PushMoves
<1>7. /\ row' = row /\ cursor' = cursor /\ purged' = purged /\ session' = session
      /\ born' = born
  BY DEF ServePush
<1>8. Outside(d)
  BY <1>6, <1>7 DEF Outside
<1>9. RowsFine(d)' /\ CursorFine(d)'
  BY <1>8, OutsideRows
<1>10. \A i \in DOMAIN req : Signed(d, req[i]) = Signed(d, batch[i])
  BY <1>4 DEF Request, ToPushItem, Signed
<1>11. PICK revs, conflicts : revs = [i \in acc |-> NewRev(rank, i)]
                              /\ conflicts = Conflicts(d, req)
  OBVIOUS
<1>12. /\ cycle'[d].phase = "answer" /\ cycle'[d].batch = batch
       /\ cycle'[d].revs = revs /\ cycle'[d].conflicts = conflicts
  <2>1. cycle'[d] = Answered(batch, revs, conflicts)
    BY <1>5, <1>11, GotoFacts DEF SharedInv
  <2> QED BY <2>1 DEF Answered
<1>13. /\ DOMAIN revs = acc /\ \A i \in acc : revs[i] = NewRev(rank, i)
       /\ DOMAIN conflicts = DOMAIN req \ acc
       /\ \A i \in DOMAIN req \ acc : conflicts[i] = items[i]
  BY <1>11 DEF Conflicts
<1>14. \A i \in DOMAIN req \ acc : ~Resolve(items[i], Signed(d, batch[i]))
  BY <1>10 DEF Accepted
<1> HIDE DEF req, acc
<1>15. /\ \A i \in ItemId : /\ row[d][i].base \in Nat
                            /\ RowFine(row[d][i], items[i], i \in born)
                            /\ items[i] \in ItemRow /\ items[i].rev \in Nat
                            /\ items[i].rev <= lastRev
                            /\ items[i].rev = 0 => items[i] = Gone
                            /\ items[i].rev # 0 => i \in born
       /\ cursor[d] \in Nat /\ cursor[d] <= lastRev
       /\ lastRev' \in Nat /\ lastRev <= lastRev'
  BY <1>6, VersionTypes, RowTypes
     DEF DeviceInv, RowsFine, CursorFine, SharedInv, ServerInv, ServerTypeOK,
         RevisionsSound, ServerMoves
<1>16. RevsFine(d, revs)'
  <2> SUFFICES ASSUME NEW i \in acc
               PROVE  /\ revs[i] \in Nat /\ revs[i] <= lastRev' /\ revs[i] > cursor[d]
                      /\ row[d][i].base <= revs[i]
                      /\ items'[i].rev # 0 => revs[i] <= items'[i].rev
    BY <1>7, <1>13 DEF RevsFine
  <2>1. i \in ItemId /\ row[d][i].base <= lastRev
    BY <1>6, <1>15 DEF RowFine
  <2>2. /\ revs[i] \in Nat /\ revs[i] <= lastRev' /\ revs[i] > lastRev
        /\ items'[i].rev = revs[i]
    BY <1>6, <1>13
  <2> QED BY <1>3, <1>15, <2>1, <2>2
<1>17. ConflictsFine(d, batch, conflicts)'
  <2> SUFFICES ASSUME NEW i \in DOMAIN req \ acc
               PROVE  /\ VersionFine(i, items[i], items[i])'
                      /\ items[i].rev # 0 => row[d][i].base <= items[i].rev
                      /\ ~Resolve(items[i], Signed(d, batch[i]))
    <3>1. \A i \in DOMAIN conflicts : /\ i \in DOMAIN req \ acc /\ i \in ItemId
                                      /\ conflicts[i] = items[i] /\ items'[i] = items[i]
      BY <1>6, <1>13
    <3> QED BY <1>7, <3>1 DEF ConflictsFine, VersionFine
  <2>1. i \in ItemId /\ items'[i] = items[i]
    BY <1>6
  <2>2. items[i].rev <= lastRev'
    BY <1>3, <1>15, <2>1
  <2>3. items[i].rev # 0 => row[d][i].base <= items[i].rev
    BY <1>15, <2>1 DEF RowFine
  <2>4. VersionFine(i, items[i], items[i])'
    BY <1>7, <1>15, <2>1, <2>2 DEF VersionFine
  <2> QED BY <1>14, <2>3, <2>4
<1>18. /\ DOMAIN batch \subseteq ItemId
       /\ DOMAIN revs \subseteq DOMAIN batch
       /\ DOMAIN conflicts \subseteq DOMAIN batch \ DOMAIN revs
  BY <1>4, <1>6, <1>13
<1>19. CycleFine(d)'
  BY <1>12, <1>16, <1>17, <1>18 DEF CycleFine, Phases
<1> QED BY <1>9, <1>19 DEF DeviceInv
-----------------------------------------------------------------------------
(* What the devices share, step by step.  First, the server.               *)

LEMMA PhotoStepServer ==
    ASSUME NEW d \in Device, DeviceInv(d), UploadPhoto(d)
    PROVE  [ServerNext]_serverVars
<1>1. cycle[d].photos \subseteq BlobId
  BY DEF UploadPhoto, Phase, DeviceInv, CycleFine
<1>2. PICK b \in cycle[d].photos : InsertIfAbsent(b) \/ UNCHANGED serverVars
  BY DEF UploadPhoto
<1> QED BY <1>1, <1>2 DEF ServerNext

LEMMA PushStepServer ==
    ASSUME SharedInv, NEW d \in Device, DeviceInv(d), ServePush(d)
    PROVE  /\ [ServerNext]_serverVars /\ ServerMoves /\ lastRev' <= MaxRev
           /\ \A i \in ItemId : items'[i].rev # 0 => i \in born
<1> DEFINE req == Request(cycle[d].batch)
<1>1. BatchFine(cycle[d].batch)
  BY DEF ServePush, Phase, DeviceInv, CycleFine
<1>2. ServerInv /\ lastRev \in Nat /\ lastRev <= MaxRev
  BY DEF SharedInv, ServerInv, ServerTypeOK
<1>3. req \in Batches /\ DOMAIN req = DOMAIN cycle[d].batch
  BY <1>1, <1>2, RequestIsBatch
<1>4. PICK rank \in Bijection(Accepted(d, req), 1 .. Cardinality(Accepted(d, req))) :
        Push(d, req, rank)
  BY DEF ServePush, Ranks
<1>5. ServerPush
  BY <1>3, <1>4 DEF ServerPush
<1>6. /\ ServerMoves /\ lastRev' <= MaxRev
      /\ \A i \in ItemId \ Accepted(d, req) : items'[i] = items[i]
      /\ Accepted(d, req) \subseteq DOMAIN req
  BY <1>2, <1>3, <1>4, PushMoves
<1>7. \A i \in ItemId : items'[i].rev # 0 => i \in born
  BY <1>1, <1>3, <1>6 DEF BatchFine, SharedInv
<1> QED BY <1>5, <1>6, <1>7 DEF ServerNext

LEMMA StrayStepServer ==
    ASSUME SharedInv, ServeStray
    PROVE  /\ [ServerNext]_serverVars /\ ServerMoves /\ lastRev' <= MaxRev
           /\ \A i \in ItemId : items'[i].rev # 0 => i \in born
<1>1. PICK s \in stray : \E rank \in Ranks(s.dev, s.req) : Push(s.dev, s.req, rank)
  BY DEF ServeStray
<1>2. s.dev \in Device /\ s.req \in Batches /\ DOMAIN s.req \subseteq born
  BY DEF SharedInv, StraysFine
<1>3. PICK rank \in Bijection(Accepted(s.dev, s.req),
                              1 .. Cardinality(Accepted(s.dev, s.req))) :
        Push(s.dev, s.req, rank)
  BY <1>1 DEF Ranks
<1>4. ServerPush
  BY <1>2, <1>3 DEF ServerPush
<1>5. /\ ServerMoves /\ lastRev' <= MaxRev
      /\ \A i \in ItemId \ Accepted(s.dev, s.req) : items'[i] = items[i]
      /\ Accepted(s.dev, s.req) \subseteq DOMAIN s.req
  BY <1>2, <1>3, PushMoves DEF SharedInv
<1>6. \A i \in ItemId : items'[i].rev # 0 => i \in born
  BY <1>2, <1>5 DEF SharedInv
<1> QED BY <1>4, <1>5, <1>6 DEF ServerNext

LEMMA JobStepServer ==
    ASSUME SharedInv, Cleanup \/ CollectGarbage
    PROVE  /\ [ServerNext]_serverVars /\ ServerMoves /\ lastRev' <= MaxRev
           /\ \A i \in ItemId : items'[i].rev # 0 => i \in born
<1>1. ASSUME NEW cutoff \in Cutoff, CleanupTombstones(cutoff)
      PROVE  /\ [ServerNext]_serverVars /\ ServerMoves /\ lastRev' <= MaxRev
             /\ \A i \in ItemId : items'[i].rev # 0 => i \in born
  <2>1. ServerMoves /\ lastRev' = lastRev
    BY <1>1, CleanupMoves DEF SharedInv
  <2>2. \A i \in ItemId : items'[i] = items[i] \/ items'[i] = Gone
    BY <1>1 DEF CleanupTombstones
  <2> QED BY <1>1, <2>1, <2>2, VersionTypes DEF ServerNext, SharedInv
<1>2. ASSUME NEW b \in BlobId, DeleteMetaIfUnreferenced(b) \/ DeleteMetaIfOrphaned(b)
      PROVE  /\ [ServerNext]_serverVars /\ ServerMoves /\ lastRev' <= MaxRev
             /\ \A i \in ItemId : items'[i].rev # 0 => i \in born
  <2>1. items' = items /\ lastRev' = lastRev
    BY <1>2 DEF DeleteMetaIfUnreferenced, DeleteMetaIfOrphaned
  <2> QED BY <1>2, <2>1, StillMoves DEF ServerNext, SharedInv
<1> QED BY <1>1, <1>2 DEF Cleanup, CollectGarbage

(* The rest of SharedInv: what does not belong to the server.              *)
LocalInv ==
    /\ row \in [Device -> [ItemId -> Row]]
    /\ photo \in [Device -> [BlobId -> {"none", "pending", "uploaded"}]]
    /\ cursor \in [Device -> Nat] /\ DOMAIN cycle = Device
    /\ writes \in 0 .. MaxWrites
    /\ born \subseteq ItemId
    /\ purged \in [Device -> SUBSET ItemId]
    /\ cuts \in 0 .. MaxCuts
    /\ session \in [Device -> {"first", "leaving", "again"}]

LEMMA BatchesGrow ==
    ASSUME SharedInv, ServerMoves
    PROVE  Batches \subseteq Batches'
<1> SUFFICES ASSUME NEW batch \in Batches PROVE batch \in Batches'
  OBVIOUS
<1>1. PICK I \in SUBSET ItemId : batch \in [I -> {in \in Incoming : in.base <= lastRev}]
  BY DEF Batches
<1>2. \A in \in Incoming : in.base <= lastRev => in.base <= lastRev'
  <2>1. lastRev \in Nat /\ lastRev' \in Nat /\ lastRev <= lastRev'
    BY DEF SharedInv, ServerInv, ServerTypeOK, ServerMoves
  <2>2. \A in \in Incoming : in.base \in Nat
    BY BoundAssumption DEF Incoming
  <2> QED BY <2>1, <2>2
<1>3. batch \in [I -> {in \in Incoming : in.base <= lastRev'}]
  BY <1>1, <1>2
<1> QED BY <1>3 DEF Batches

(* Requests stay fine while the server moves.                              *)
LEMMA StraysStay ==
    ASSUME SharedInv, ServerMoves, born \subseteq born', stray' \subseteq stray
    PROVE  StraysFine'
<1> QED BY BatchesGrow DEF SharedInv, StraysFine

LEMMA SharedFromParts ==
    ASSUME SharedInv, [ServerNext]_serverVars, LocalInv', StraysFine',
           lastRev' <= MaxRev, \A i \in ItemId : items'[i].rev # 0 => i \in born'
    PROVE  SharedInv'
<1>1. ServerInv'
  BY ServerStepInv DEF SharedInv
<1> QED BY <1>1 DEF SharedInv, LocalInv

LEMMA SharedWhenServerRests ==
    ASSUME SharedInv, UNCHANGED serverVars, LocalInv', StraysFine', born \subseteq born'
    PROVE  SharedInv' /\ ServerMoves
<1>1. items' = items /\ lastRev' = lastRev
  BY DEF serverVars
<1>2. ServerMoves
  BY <1>1, StillMoves DEF SharedInv
<1>3. lastRev' <= MaxRev /\ \A i \in ItemId : items'[i].rev # 0 => i \in born'
  BY <1>1 DEF SharedInv
<1> QED BY <1>2, <1>3, SharedFromParts
-----------------------------------------------------------------------------
(* The user.                                                               *)

(* Nothing of the other devices changes.                                   *)
Elsewhere(d) ==
    \A e \in Device \ {d} :
        /\ row'[e] = row[e] /\ cursor'[e] = cursor[e] /\ cycle'[e] = cycle[e]
        /\ purged'[e] = purged[e] /\ session'[e] = session[e]

LEMMA ElsewhereKeeps ==
    ASSUME SharedInv, SharedInv', ServerMoves, born \subseteq born',
           NEW d \in Device, Elsewhere(d), NEW e \in Device \ {d}, DeviceInv(e)
    PROVE  DeviceInv(e)'
<1>1. Outside(e)
  BY DEF Elsewhere, Outside
<1> QED BY <1>1, OutsideKeeps DEF Elsewhere

(* A write of the user: the row becomes dirty, with a stamp of the clock   *)
(* and a base no newer than before.                                        *)
LEMMA WriteFacts ==
    ASSUME SharedInv, NEW d \in Device, DeviceInv(d),
           \/ \E i \in ItemId, t \in Time :
                Create(d, i, t) \/ Edit(d, i, t) \/ SoftDelete(d, i, t) \/ Restore(d, i, t)
    PROVE  \E i \in ItemId, r \in Row :
              /\ SetRow(d, i, r)
              /\ r.dirty /\ r.val \in Val /\ r.at \in Time /\ r.base <= row[d][i].base
              /\ i \in born' /\ born \subseteq born' /\ born' \subseteq ItemId
<1>1. PICK i \in ItemId, t \in Time :
         Create(d, i, t) \/ Edit(d, i, t) \/ SoftDelete(d, i, t) \/ Restore(d, i, t)
  OBVIOUS
<1> DEFINE r == row[d][i]
<1>2. /\ r \in Row /\ r.base \in Nat /\ RowFine(r, items[i], i \in born)
      /\ born \subseteq ItemId /\ t \in Nat
  BY RowTypes, TimeAssumption DEF SharedInv, DeviceInv, RowsFine
<1>3. UserWrites => writes + 1 \in Val
  BY WriteAssumption, SyncBoundAssumption DEF UserWrites, SharedInv
<1>4. CASE Create(d, i, t)
  <2> DEFINE n == [val |-> writes + 1, at |-> t, deleted |-> FALSE, base |-> 0,
                   dirty |-> TRUE]
  <2>1. SetRow(d, i, n) /\ born' = born \cup {i}
    BY <1>4 DEF Create
  <2>2. writes + 1 \in Val
    BY <1>3, <1>4 DEF Create, SaveContent
  <2>3. n \in Row /\ n.dirty /\ n.val \in Val /\ n.at \in Time /\ n.base = 0
    BY <1>2, <2>2 DEF Row
  <2> HIDE DEF n
  <2>4. n.base <= r.base
    BY <1>2, <2>3
  <2> QED BY <1>2, <2>1, <2>3, <2>4
<1>5. CASE Edit(d, i, t)
  <2> DEFINE n == [r EXCEPT !.val = writes + 1, !.at = t, !.dirty = TRUE]
  <2>1. SetRow(d, i, n) /\ born' = born /\ r # NoRow
    BY <1>5 DEF Edit, HasRow
  <2>2. writes + 1 \in Val
    BY <1>3, <1>5 DEF Edit, SaveContent
  <2>3. n \in Row /\ n.dirty /\ n.val \in Val /\ n.at \in Time /\ n.base = r.base
    BY <1>2, <2>2 DEF Row
  <2> HIDE DEF n
  <2>4. n.base <= r.base /\ i \in born
    BY <1>2, <2>1, <2>3 DEF RowFine
  <2> QED BY <1>2, <2>1, <2>3, <2>4
<1>6. ASSUME NEW del \in BOOLEAN, r # NoRow, born' = born,
             SetRow(d, i, [r EXCEPT !.deleted = del, !.at = t, !.dirty = TRUE])
      PROVE  \E n \in Row :
                /\ SetRow(d, i, n)
                /\ n.dirty /\ n.val \in Val /\ n.at \in Time /\ n.base <= r.base
                /\ i \in born' /\ born \subseteq born' /\ born' \subseteq ItemId
  <2> DEFINE n == [r EXCEPT !.deleted = del, !.at = t, !.dirty = TRUE]
  <2>1. n \in Row /\ n.dirty /\ n.val = r.val /\ n.at \in Time /\ n.base = r.base
    BY <1>2 DEF Row
  <2>2. SetRow(d, i, n)
    BY <1>6
  <2> HIDE DEF n
  <2>3. n.base <= r.base /\ i \in born /\ n.val \in Val
    BY <1>2, <1>6, <2>1 DEF RowFine
  <2> QED BY <1>2, <1>6, <2>1, <2>2, <2>3
<1>7. CASE SoftDelete(d, i, t)
  BY <1>6, <1>7 DEF SoftDelete, HasRow
<1>8. CASE Restore(d, i, t)
  BY <1>6, <1>8 DEF Restore, HasRow
<1> QED BY <1>1, <1>4, <1>5, <1>7, <1>8

LEMMA WriteKeeps ==
    ASSUME SharedInv, NEW d \in Device, DeviceInv(d),
           \/ \E i \in ItemId, t \in Time :
                Create(d, i, t) \/ Edit(d, i, t) \/ SoftDelete(d, i, t) \/ Restore(d, i, t)
    PROVE  /\ UNCHANGED serverVars /\ SharedInv' /\ DeviceInv(d)' /\ Elsewhere(d)
           /\ born \subseteq born'
<1>1. PICK i \in ItemId, r \in Row :
        /\ SetRow(d, i, r)
        /\ r.dirty /\ r.val \in Val /\ r.at \in Time /\ r.base <= row[d][i].base
        /\ i \in born' /\ born \subseteq born' /\ born' \subseteq ItemId
  BY WriteFacts
<1>2. /\ UNCHANGED <<serverVars, cursor, cycle, purged, stray, cuts, session>>
      /\ writes' \in 0 .. MaxWrites
      /\ photo' \in [Device -> [BlobId -> {"none", "pending", "uploaded"}]]
  <2>1. UNCHANGED <<serverVars, cursor, cycle, purged, stray, cuts, session>>
    BY DEF Create, Edit, SoftDelete, Restore
  <2>2. UserWrites
    BY DEF Create, Edit, SoftDelete, Restore, SaveContent
  <2>3. writes' \in 0 .. MaxWrites
    BY <2>2, SyncBoundAssumption DEF UserWrites, SharedInv
  <2>4. \/ photo' = photo
        \/ photo' = [photo EXCEPT ![d] =
                        [b \in BlobId |-> IF b \in NewPhotos THEN "pending" ELSE @[b]]]
    BY DEF Create, Edit, SoftDelete, Restore, SaveContent
  <2>5. photo' \in [Device -> [BlobId -> {"none", "pending", "uploaded"}]]
    <3>1. photo \in [Device -> [BlobId -> {"none", "pending", "uploaded"}]]
      BY DEF SharedInv
    <3> QED BY <2>4, <3>1
  <2> QED BY <2>1, <2>3, <2>5
<1>3. /\ row' \in [Device -> [ItemId -> Row]] /\ row'[d][i] = r
      /\ \A j \in ItemId : j # i => row'[d][j] = row[d][j]
      /\ \A e \in Device \ {d} : row'[e] = row[e]
  <2>1. row' = [row EXCEPT ![d][i] = r]
    BY <1>1 DEF SetRow
  <2> QED BY <2>1 DEF SharedInv
<1>4. LocalInv'
  BY <1>1, <1>2, <1>3 DEF SharedInv, LocalInv
<1>5. SharedInv' /\ ServerMoves
  <2>1. ServerMoves
    BY <1>2, StillMoves DEF SharedInv, serverVars
  <2>2. StraysFine'
    BY <1>1, <1>2, <2>1, StraysStay
  <2> QED BY <1>1, <1>2, <1>4, <2>2, SharedWhenServerRests
<1>6. Outside(d) /\ cycle'[d] = cycle[d]
  BY <1>1, <1>2, <1>3, <1>5 DEF Outside
<1>7. Elsewhere(d)
  BY <1>2, <1>3 DEF Elsewhere
<1> QED BY <1>1, <1>2, <1>5, <1>6, <1>7, OutsideKeeps

LEMMA PurgeKeeps ==
    ASSUME SharedInv, NEW d \in Device, DeviceInv(d), NEW S \in SUBSET ItemId, Purge(d, S)
    PROVE  UNCHANGED serverVars /\ SharedInv' /\ DeviceInv(d)' /\ Elsewhere(d)
<1>1. /\ row' = [row EXCEPT ![d] = [i \in ItemId |-> IF i \in S THEN NoRow ELSE @[i]]]
      /\ purged' = [purged EXCEPT ![d] = @ \cup S]
      /\ UNCHANGED <<serverVars, photo, cursor, cycle, writes, born, stray, cuts, session>>
  BY DEF Purge
<1>2. /\ row' \in [Device -> [ItemId -> Row]]
      /\ purged' \in [Device -> SUBSET ItemId]
      /\ \A e \in Device \ {d} : row'[e] = row[e] /\ purged'[e] = purged[e]
      /\ purged[d] \subseteq purged'[d]
      /\ \A i \in ItemId : row'[d][i] = row[d][i] \/ (row'[d][i] = NoRow /\ i \in purged'[d])
  BY <1>1, RowTypes DEF SharedInv
<1>3. LocalInv'
  BY <1>1, <1>2 DEF SharedInv, LocalInv
<1>4. SharedInv' /\ ServerMoves
  <2>1. ServerMoves
    BY <1>1, StillMoves DEF SharedInv, serverVars
  <2>2. StraysFine'
    BY <1>1, <2>1, StraysStay
  <2> QED BY <1>1, <1>3, <2>2, SharedWhenServerRests
<1>5. Outside(d)
  BY <1>1, <1>2, <1>4 DEF Outside
<1>6. Elsewhere(d)
  BY <1>1, <1>2 DEF Elsewhere
<1> QED BY <1>1, <1>4, <1>5, <1>6, OutsideKeeps

LEMMA SignOutKeeps ==
    ASSUME SharedInv, NEW d \in Device, DeviceInv(d), SignOut(d) \/ SignInAgain(d)
    PROVE  UNCHANGED serverVars /\ SharedInv' /\ DeviceInv(d)' /\ Elsewhere(d)
<1>1. UNCHANGED <<serverVars, cycle, writes, born, purged, stray>>
  BY DEF SignOut, SignInAgain
<1>2. /\ row' \in [Device -> [ItemId -> Row]]
      /\ \A e \in Device \ {d} : row'[e] = row[e]
      /\ \/ row' = row
         \/ session'[d] # "first" /\ \A i \in ItemId : row'[d][i] = NoRow
  <2>1. CASE SignOut(d)
    BY <2>1, RowTypes DEF SignOut, SharedInv
  <2>2. CASE SignInAgain(d)
    BY <2>2 DEF SignInAgain, SharedInv
  <2> QED BY <2>1, <2>2
<1>3. /\ session' \in [Device -> {"first", "leaving", "again"}]
      /\ session'[d] # "first"
      /\ \A e \in Device \ {d} : session'[e] = session[e]
  BY DEF SignOut, SignInAgain, SharedInv
<1>4. /\ cursor' \in [Device -> Nat]
      /\ cursor'[d] = cursor[d] \/ cursor'[d] = 0
      /\ \A e \in Device \ {d} : cursor'[e] = cursor[e]
  BY DEF SignOut, SignInAgain, SharedInv
<1>5. photo' \in [Device -> [BlobId -> {"none", "pending", "uploaded"}]]
  BY DEF SignOut, SignInAgain, SharedInv
<1>6. cuts' \in 0 .. MaxCuts
  BY SyncBoundAssumption DEF SignOut, SignInAgain, SharedInv
<1>7. LocalInv'
  BY <1>1, <1>2, <1>3, <1>4, <1>5, <1>6 DEF SharedInv, LocalInv
<1>8. SharedInv' /\ ServerMoves
  <2>1. ServerMoves
    BY <1>1, StillMoves DEF SharedInv, serverVars
  <2>2. StraysFine'
    BY <1>1, <2>1, StraysStay
  <2> QED BY <1>1, <1>7, <2>2, SharedWhenServerRests
<1>9. Outside(d)
  BY <1>1, <1>2, <1>3, <1>4, <1>8 DEF Outside
<1>10. Elsewhere(d)
  BY <1>1, <1>2, <1>3, <1>4 DEF Elsewhere
<1> QED BY <1>1, <1>8, <1>9, <1>10, OutsideKeeps
-----------------------------------------------------------------------------
(* A step of a device's cycle leaves the other devices alone.              *)

CycleStep(d) == StartCycle(d) \/ Engine(d) \/ Cut(d)

LEMMA CycleStepRows ==
    ASSUME SharedInv, NEW d \in Device, DeviceInv(d), CycleStep(d)
    PROVE  /\ row' \in [Device -> [ItemId -> Row]]
           /\ \A e \in Device \ {d} : row'[e] = row[e]
<1>1. ASSUME NEW i \in ItemId, NEW r \in Row, SetRow(d, i, r)
      PROVE  /\ row' \in [Device -> [ItemId -> Row]]
             /\ \A e \in Device \ {d} : row'[e] = row[e]
  BY <1>1 DEF SetRow, SharedInv
<1>2. \A i \in ItemId : /\ row[d][i] \in Row
                        /\ row[d][i] # NoRow => row[d][i].val \in Val
  BY DEF SharedInv, DeviceInv, RowsFine, RowFine
<1>3. CASE MarkSynced(d)
  <2>1. PICK i \in DOMAIN cycle[d].revs : SetRow(d, i, Synced(row[d][i], cycle[d].revs[i]))
    BY <1>3 DEF MarkSynced
  <2>2. i \in ItemId /\ cycle[d].revs[i] \in Nat
    BY <1>3 DEF MarkSynced, Phase, DeviceInv, CycleFine, RevsFine
  <2>3. Synced(row[d][i], cycle[d].revs[i]) \in Row
    BY <1>2, <2>2 DEF Synced, Row
  <2> QED BY <1>1, <2>1, <2>2, <2>3
<1>4. CASE ApplyConflict(d)
  <2>1. PICK i \in DOMAIN cycle[d].conflicts :
           SetRow(d, i, Overwritten(row[d][i], cycle[d].conflicts[i]))
    BY <1>4 DEF ApplyConflict
  <2>2. i \in ItemId /\ cycle[d].conflicts[i] \in ItemRow
    BY <1>4 DEF ApplyConflict, Phase, DeviceInv, CycleFine, ConflictsFine, VersionFine
  <2>3. Overwritten(row[d][i], cycle[d].conflicts[i]) \in Row
    BY <1>2, <2>2, OverwrittenFacts
  <2> QED BY <1>1, <2>1, <2>2, <2>3
<1>5. CASE ApplyIncoming(d)
  <2> DEFINE i == cycle[d].item
  <2>1. SetRow(d, i, Overwritten(row[d][i], cycle[d].todo[i]))
    BY <1>5 DEF ApplyIncoming
  <2>2. i \in ItemId /\ cycle[d].todo[i] \in ItemRow
    BY <1>5 DEF ApplyIncoming, Phase, DeviceInv, CycleFine, PageFine, VersionFine
  <2> HIDE DEF i
  <2>3. Overwritten(row[d][i], cycle[d].todo[i]) \in Row
    BY <1>2, <2>2, OverwrittenFacts
  <2> QED BY <1>1, <2>1, <2>2, <2>3
<1>6. CASE row' = row
  BY <1>6 DEF SharedInv
<1>7. MarkSynced(d) \/ ApplyConflict(d) \/ ApplyIncoming(d) \/ row' = row
  BY DEF CycleStep, Engine, StartCycle, Cut, UploadPhoto, MarkUploaded, CollectDirty,
         ServePush, RefusePush, FinishBatch, ServeList, ServeRev, CheckIncoming,
         TurnPage, DownloadPhoto
<1> QED BY <1>3, <1>4, <1>5, <1>6, <1>7

LEMMA CycleStepFrame ==
    ASSUME SharedInv, NEW d \in Device, DeviceInv(d), CycleStep(d)
    PROVE  LocalInv' /\ Elsewhere(d) /\ born' = born
<1>1. /\ row' \in [Device -> [ItemId -> Row]]
      /\ \A e \in Device \ {d} : row'[e] = row[e]
  BY CycleStepRows
<1>2. \E c : Goto(d, c)
  BY DEF CycleStep, Engine, StartCycle, Cut, UploadPhoto, MarkUploaded, CollectDirty,
         ServePush, RefusePush, MarkSynced, ApplyConflict, FinishBatch, ServeList,
         ServeRev, CheckIncoming, ApplyIncoming, TurnPage, DownloadPhoto
<1>3. DOMAIN cycle' = Device /\ \A e \in Device \ {d} : cycle'[e] = cycle[e]
  BY <1>2, GotoFacts DEF SharedInv
<1>4. UNCHANGED <<writes, born, purged, session>>
  BY DEF CycleStep, Engine, StartCycle, Cut, UploadPhoto, MarkUploaded, CollectDirty,
         ServePush, RefusePush, MarkSynced, ApplyConflict, FinishBatch, ServeList,
         ServeRev, CheckIncoming, ApplyIncoming, TurnPage, DownloadPhoto
<1>5. cuts' \in 0 .. MaxCuts
  <2>1. CASE Cut(d)
    BY <2>1, SyncBoundAssumption DEF Cut, SharedInv
  <2>2. CASE ~Cut(d)
    <3>1. cuts' = cuts
      BY <2>2 DEF CycleStep, Engine, StartCycle, UploadPhoto, MarkUploaded, CollectDirty,
         ServePush, RefusePush, MarkSynced, ApplyConflict, FinishBatch, ServeList,
         ServeRev, CheckIncoming, ApplyIncoming, TurnPage, DownloadPhoto
    <3> QED BY <3>1 DEF SharedInv
  <2> QED BY <2>1, <2>2
<1>6. cursor' \in [Device -> Nat] /\ \A e \in Device \ {d} : cursor'[e] = cursor[e]
  <2>1. CASE TurnPage(d)
    <3>1. cycle[d].next \in Nat
      BY <2>1 DEF TurnPage, Phase, DeviceInv, CycleFine, PageFine
    <3> QED BY <2>1, <3>1 DEF TurnPage, SharedInv
  <2>2. CASE ~TurnPage(d)
    <3>1. cursor' = cursor
      BY <2>2 DEF CycleStep, Engine, StartCycle, Cut, UploadPhoto, MarkUploaded,
         CollectDirty, ServePush, RefusePush, MarkSynced, ApplyConflict, FinishBatch,
         ServeList, ServeRev, CheckIncoming, ApplyIncoming, DownloadPhoto
    <3> QED BY <3>1 DEF SharedInv
  <2> QED BY <2>1, <2>2
<1>7. photo' \in [Device -> [BlobId -> {"none", "pending", "uploaded"}]]
  <2>6. photo \in [Device -> [BlobId -> {"none", "pending", "uploaded"}]]
    BY DEF SharedInv
  <2>7. ASSUME NEW b \in BlobId, NEW p \in {"none", "pending", "uploaded"},
               photo' = [photo EXCEPT ![d][b] = p]
        PROVE  photo' \in [Device -> [BlobId -> {"none", "pending", "uploaded"}]]
    BY <2>6, <2>7
  <2>1. CASE UploadPhoto(d)
    <3>1. PICK b \in cycle[d].photos :
             photo' = photo \/ photo' = [photo EXCEPT ![d][b] = "none"]
      BY <2>1 DEF UploadPhoto
    <3>2. b \in BlobId
      BY <2>1, <3>1 DEF UploadPhoto, Phase, DeviceInv, CycleFine
    <3> QED BY <2>6, <2>7, <3>1, <3>2
  <2>2. CASE MarkUploaded(d)
    BY <2>2 DEF MarkUploaded, SharedInv
  <2>3. CASE DownloadPhoto(d)
    <3>1. PICK b \in cycle[d].photos :
             photo' = photo \/ photo' = [photo EXCEPT ![d][b] = "uploaded"]
      BY <2>3 DEF DownloadPhoto
    <3>2. b \in BlobId
      BY <2>3, <3>1 DEF DownloadPhoto, Phase, DeviceInv, CycleFine
    <3> QED BY <2>6, <2>7, <3>1, <3>2
  <2>4. CASE photo' = photo
    BY <2>4 DEF SharedInv
  <2>5. UploadPhoto(d) \/ MarkUploaded(d) \/ DownloadPhoto(d) \/ photo' = photo
    BY DEF CycleStep, Engine, StartCycle, Cut, CollectDirty, ServePush, RefusePush,
         MarkSynced, ApplyConflict, FinishBatch, ServeList, ServeRev, CheckIncoming,
         ApplyIncoming, TurnPage
  <2> QED BY <2>1, <2>2, <2>3, <2>4, <2>5
<1>8. LocalInv'
  BY <1>1, <1>3, <1>4, <1>5, <1>6, <1>7 DEF SharedInv, LocalInv
<1>9. Elsewhere(d)
  BY <1>1, <1>3, <1>4, <1>6 DEF Elsewhere
<1> QED BY <1>4, <1>8, <1>9

LEMMA CycleStepShared ==
    ASSUME SharedInv, NEW d \in Device, DeviceInv(d), CycleStep(d)
    PROVE  /\ [ServerNext]_serverVars /\ ServerMoves /\ SharedInv' /\ Elsewhere(d)
           /\ born' = born
<1>1. LocalInv' /\ Elsewhere(d) /\ born' = born
  BY CycleStepFrame
<1>2. CASE ServePush(d)
  <2>1. /\ [ServerNext]_serverVars /\ ServerMoves /\ lastRev' <= MaxRev
        /\ \A i \in ItemId : items'[i].rev # 0 => i \in born
    BY <1>2, PushStepServer
  <2>2. StraysFine'
    BY <1>1, <1>2, <2>1, StraysStay DEF ServePush
  <2> QED BY <1>1, <2>1, <2>2, SharedFromParts
<1>3. CASE UploadPhoto(d)
  <2>1. [ServerNext]_serverVars
    BY <1>3, PhotoStepServer
  <2>2. items' = items /\ lastRev' = lastRev /\ stray' = stray
    BY <1>3 DEF UploadPhoto, InsertIfAbsent, serverVars
  <2>3. ServerMoves /\ lastRev' <= MaxRev /\ \A i \in ItemId : items'[i].rev # 0 => i \in born
    BY <2>2, StillMoves DEF SharedInv
  <2>4. StraysFine'
    BY <1>1, <2>2, <2>3, StraysStay
  <2> QED BY <1>1, <2>1, <2>3, <2>4, SharedFromParts
<1>4. CASE Cut(d)
  <2>1. UNCHANGED serverVars /\ ServerMoves
    BY <1>4, StillMoves DEF Cut, SharedInv, serverVars
  <2>2. CASE stray' = stray
    <3>1. StraysFine'
      BY <1>1, <2>1, <2>2, StraysStay
    <3> QED BY <1>1, <2>1, <3>1, SharedWhenServerRests
  <2>3. CASE /\ Phase(d) = "push"
             /\ stray' = stray \cup {[dev |-> d, req |-> Request(cycle[d].batch)]}
    <3>1. BatchFine(cycle[d].batch)
      BY <2>3 DEF Phase, DeviceInv, CycleFine
    <3>2. lastRev \in Nat /\ lastRev <= MaxRev
      BY DEF SharedInv, ServerInv, ServerTypeOK
    <3>3. /\ Request(cycle[d].batch) \in Batches'
          /\ DOMAIN Request(cycle[d].batch) \subseteq born
      BY <2>1, <3>1, <3>2, RequestIsBatch, BatchesGrow DEF BatchFine
    <3>4. \A s \in stray : s.dev \in Device /\ s.req \in Batches' /\ DOMAIN s.req \subseteq born
      BY <2>1, BatchesGrow DEF SharedInv, StraysFine
    <3>5. StraysFine'
      BY <1>1, <2>3, <3>3, <3>4 DEF StraysFine
    <3> QED BY <1>1, <2>1, <3>5, SharedWhenServerRests
  <2> QED BY <1>4, <2>2, <2>3 DEF Cut
<1>5. CASE ~ServePush(d) /\ ~UploadPhoto(d) /\ ~Cut(d)
  <2>1. UNCHANGED serverVars /\ stray' = stray
    BY <1>5 DEF CycleStep, Engine, StartCycle, MarkUploaded, CollectDirty, RefusePush,
         MarkSynced, ApplyConflict, FinishBatch, ServeList, ServeRev, CheckIncoming,
         ApplyIncoming, TurnPage, DownloadPhoto
  <2>2. ServerMoves
    BY <2>1, StillMoves DEF SharedInv, serverVars
  <2>3. StraysFine'
    BY <1>1, <2>1, <2>2, StraysStay
  <2> QED BY <1>1, <2>1, <2>2, <2>3, SharedWhenServerRests
<1> QED BY <1>2, <1>3, <1>4, <1>5

LEMMA CycleStepKeeps ==
    ASSUME SharedInv, NEW d \in Device, DeviceInv(d), CycleStep(d)
    PROVE  DeviceInv(d)'
<1>1. CASE StartCycle(d)
  BY <1>1, StartCycleKeeps
<1>2. CASE UploadPhoto(d)
  BY <1>2, UploadPhotoKeeps
<1>3. CASE MarkUploaded(d)
  BY <1>3, MarkUploadedKeeps
<1>4. CASE CollectDirty(d)
  BY <1>4, CollectDirtyKeeps
<1>5. CASE ServePush(d)
  BY <1>5, CycleStepShared, ServePushKeeps
<1>6. CASE RefusePush(d) \/ Cut(d)
  BY <1>6, EndOfCycleKeeps
<1>7. CASE MarkSynced(d)
  BY <1>7, MarkSyncedKeeps
<1>8. CASE ApplyConflict(d)
  BY <1>8, ApplyConflictKeeps
<1>9. CASE FinishBatch(d)
  BY <1>9, FinishBatchKeeps
<1>10. CASE ServeList(d)
  BY <1>10, ServeListKeeps
<1>11. CASE ServeRev(d)
  BY <1>11, ServeRevKeeps
<1>12. CASE CheckIncoming(d)
  BY <1>12, CheckIncomingKeeps
<1>13. CASE ApplyIncoming(d)
  BY <1>13, ApplyIncomingKeeps
<1>14. CASE TurnPage(d)
  BY <1>14, TurnPageKeeps
<1>15. CASE DownloadPhoto(d)
  BY <1>15, DownloadPhotoKeeps
<1> QED BY <1>1, <1>2, <1>3, <1>4, <1>5, <1>6, <1>7, <1>8, <1>9, <1>10, <1>11, <1>12,
           <1>13, <1>14, <1>15 DEF CycleStep, Engine
-----------------------------------------------------------------------------
(* The inductive invariant.                                                *)

LEMMA SyncInitInv == Init => SyncInv
<1> SUFFICES ASSUME Init PROVE SyncInv
  OBVIOUS
<1>1. ServerInv
  BY ServerInitInv DEF Init
<1>2. lastRev = 0 /\ \A i \in ItemId : items[i].rev = 0
  BY VersionTypes DEF Init, ServerInit
<1>3. /\ \A d \in Device, i \in ItemId : row[d][i] = NoRow
      /\ \A d \in Device : cursor[d] = 0 /\ cycle[d].phase = "idle"
  BY DEF Init, Idle
<1>4. SharedInv
  <2>1. row \in [Device -> [ItemId -> Row]]
    BY RowTypes DEF Init
  <2>2. StraysFine
    BY DEF Init, StraysFine
  <2> QED BY <1>1, <1>2, <2>1, <2>2, BoundAssumption, SyncBoundAssumption
           DEF Init, SharedInv
<1>5. ASSUME NEW d \in Device PROVE DeviceInv(d)
  <2>1. RowsFine(d)
    BY <1>2, <1>3, RowTypes DEF RowsFine, RowFine
  <2>2. CursorFine(d)
    BY <1>2, <1>3 DEF CursorFine, DealtUpTo, Dealt
  <2>3. CycleFine(d)
    BY <1>3 DEF CycleFine, Phases
  <2> QED BY <2>1, <2>2, <2>3 DEF DeviceInv
<1> QED BY <1>4, <1>5 DEF SyncInv

(* One step of a device: the server, what the devices share, and then      *)
(* every device.                                                           *)
LEMMA DeviceStepInv ==
    ASSUME SyncInv, NEW d \in Device, User(d) \/ CycleStep(d)
    PROVE  SyncInv' /\ [ServerNext]_serverVars
<1>1. SharedInv /\ DeviceInv(d)
  BY DEF SyncInv
<1>2. /\ [ServerNext]_serverVars /\ ServerMoves /\ SharedInv' /\ DeviceInv(d)'
      /\ Elsewhere(d) /\ born \subseteq born'
  <2>1. CASE CycleStep(d)
    BY <1>1, <2>1, CycleStepShared, CycleStepKeeps
  <2>2. CASE \E i \in ItemId, t \in Time :
                Create(d, i, t) \/ Edit(d, i, t) \/ SoftDelete(d, i, t) \/ Restore(d, i, t)
    <3>1. /\ UNCHANGED serverVars /\ SharedInv' /\ DeviceInv(d)' /\ Elsewhere(d)
          /\ born \subseteq born'
      BY <1>1, <2>2, WriteKeeps
    <3> QED BY <1>1, <3>1, StillMoves DEF SharedInv, serverVars
  <2>3. ASSUME NEW S \in SUBSET ItemId, Purge(d, S)
        PROVE  /\ UNCHANGED serverVars /\ SharedInv' /\ DeviceInv(d)' /\ Elsewhere(d)
               /\ born' = born
    BY <1>1, <2>3, PurgeKeeps DEF Purge
  <2>4. CASE SignOut(d) \/ SignInAgain(d)
    <3>1. UNCHANGED serverVars /\ SharedInv' /\ DeviceInv(d)' /\ Elsewhere(d)
      BY <1>1, <2>4, SignOutKeeps
    <3>2. born' = born
      BY <2>4 DEF SignOut, SignInAgain
    <3> QED BY <1>1, <3>1, <3>2, StillMoves DEF SharedInv, serverVars
  <2>5. CASE \E S \in SUBSET ItemId : Purge(d, S)
    <3>1. /\ UNCHANGED serverVars /\ SharedInv' /\ DeviceInv(d)' /\ Elsewhere(d)
          /\ born' = born
      BY <2>3, <2>5
    <3> QED BY <1>1, <3>1, StillMoves DEF SharedInv, serverVars
  <2> QED BY <2>1, <2>2, <2>4, <2>5 DEF User
<1>3. ASSUME NEW e \in Device \ {d} PROVE DeviceInv(e)'
  <2>1. DeviceInv(e)
    BY DEF SyncInv
  <2> QED BY <1>1, <1>2, <2>1, ElsewhereKeeps
<1>4. \A e \in Device : DeviceInv(e)'
  BY <1>2, <1>3
<1> QED BY <1>2, <1>4 DEF SyncInv

LEMMA ServerSideStepInv ==
    ASSUME SyncInv, ServeStray \/ Cleanup \/ CollectGarbage
    PROVE  SyncInv' /\ [ServerNext]_serverVars
<1>1. SharedInv
  BY DEF SyncInv
<1>2. /\ [ServerNext]_serverVars /\ ServerMoves /\ lastRev' <= MaxRev
      /\ \A i \in ItemId : items'[i].rev # 0 => i \in born
  BY <1>1, StrayStepServer, JobStepServer
<1>3. /\ UNCHANGED <<row, photo, cursor, cycle, writes, born, purged, cuts, session>>
      /\ stray' \subseteq stray
  BY DEF ServeStray, Cleanup, CollectGarbage, clientVars
<1>4. LocalInv'
  BY <1>1, <1>3 DEF SharedInv, LocalInv
<1>5. StraysFine'
  BY <1>1, <1>2, <1>3, StraysStay
<1>6. SharedInv'
  BY <1>1, <1>2, <1>3, <1>4, <1>5, SharedFromParts
<1>7. ASSUME NEW e \in Device PROVE DeviceInv(e)'
  <2>1. DeviceInv(e) /\ Outside(e) /\ cycle'[e] = cycle[e]
    BY <1>2, <1>3 DEF SyncInv, Outside
  <2> QED BY <1>1, <1>6, <2>1, OutsideKeeps
<1> QED BY <1>2, <1>6, <1>7 DEF SyncInv

LEMMA SyncStepInv ==
    ASSUME SyncInv, [Next]_vars
    PROVE  SyncInv' /\ [ServerNext]_serverVars
<1>1. CASE \E d \in Device : User(d) \/ StartCycle(d) \/ Engine(d) \/ Cut(d)
  <2>1. PICK d \in Device : User(d) \/ CycleStep(d)
    BY <1>1 DEF CycleStep
  <2> QED BY <2>1, DeviceStepInv
<1>2. CASE ServeStray \/ Cleanup \/ CollectGarbage
  BY <1>2, ServerSideStepInv
<1>3. CASE UNCHANGED vars
  <2>1. /\ UNCHANGED serverVars
        /\ UNCHANGED <<row, photo, cursor, cycle, writes, born, purged, stray, cuts, session>>
    BY <1>3 DEF vars, clientVars
  <2>2. SharedInv
    BY DEF SyncInv
  <2>3. ServerMoves
    BY <2>1, <2>2, StillMoves DEF SharedInv, serverVars
  <2>4. LocalInv' /\ StraysFine'
    BY <2>1, <2>2, <2>3, StraysStay DEF SharedInv, LocalInv
  <2>5. SharedInv'
    BY <2>1, <2>2, <2>4, SharedWhenServerRests
  <2>6. ASSUME NEW e \in Device PROVE DeviceInv(e)'
    <3>1. DeviceInv(e) /\ Outside(e) /\ cycle'[e] = cycle[e]
      BY <2>1, <2>3 DEF SyncInv, Outside
    <3> QED BY <2>2, <2>5, <3>1, OutsideKeeps
  <2> QED BY <2>1, <2>5, <2>6 DEF SyncInv
<1> QED BY <1>1, <1>2, <1>3 DEF Next

(* SyncInv, on which all that follows rests, holds in every reachable      *)
(* state of the devices, the server and the requests between them.         *)
THEOREM SyncInvariance == Spec => []SyncInv
<1> QED BY SyncInitInv, SyncStepInv, PTL DEF Spec

(* Every state of the devices and the server is well formed.               *)
THEOREM SyncTypes == Spec => []SyncTypeOK
<1>1. ASSUME SyncInv PROVE SyncTypeOK
  <2>1. SharedInv /\ ServerTypeOK
    BY <1>1 DEF SyncInv, SharedInv, ServerInv
  <2>2. ASSUME NEW d \in Device, NEW todo, NEW next, PageFine(d, todo, next)
        PROVE  next \in Nat /\ \A i \in DOMAIN todo : todo[i] \in ItemRow
    BY <2>2 DEF PageFine, VersionFine
  <2>3. ASSUME NEW d \in Device
        PROVE  /\ cycle[d].phase \in Phases
               /\ cycle[d].phase \in {"upload", "uploaded", "download"} =>
                    cycle[d].photos \subseteq BlobId
               /\ cycle[d].phase = "push" =>
                    \A i \in DOMAIN cycle[d].batch : cycle[d].batch[i] \in Row
               /\ cycle[d].phase = "answer" =>
                    /\ DOMAIN cycle[d].revs \subseteq DOMAIN cycle[d].batch
                    /\ DOMAIN cycle[d].conflicts
                         \subseteq DOMAIN cycle[d].batch \ DOMAIN cycle[d].revs
                    /\ \A i \in DOMAIN cycle[d].conflicts : cycle[d].conflicts[i] \in ItemRow
               /\ cycle[d].phase = "pull" => cycle[d].since \in Nat
               /\ cycle[d].phase = "listed" =>
                    \A i \in DOMAIN cycle[d].page : cycle[d].page[i] \in ItemRow
               /\ cycle[d].phase \in {"page", "apply"} =>
                    /\ cycle[d].next \in Nat /\ cycle[d].more \in BOOLEAN
                    /\ \A i \in DOMAIN cycle[d].todo : cycle[d].todo[i] \in ItemRow
    <3>1. CycleFine(d)
      BY <1>1 DEF SyncInv, DeviceInv
    <3>2. \A todo, next : PageFine(d, todo, next) =>
             next \in Nat /\ \A i \in DOMAIN todo : todo[i] \in ItemRow
      BY <2>2
    <3> QED BY <3>1, <3>2 DEF CycleFine, BatchFine, ConflictsFine, VersionFine
  <2>4. \A d \in Device :
        LET c == cycle[d]
        IN  CASE c.phase \in {"idle", "collect"} -> TRUE
              [] c.phase \in {"upload", "uploaded", "download"} ->
                    c.photos \subseteq BlobId
              [] c.phase = "push" -> \A i \in DOMAIN c.batch : c.batch[i] \in Row
              [] c.phase = "answer" ->
                    /\ DOMAIN c.revs \subseteq DOMAIN c.batch
                    /\ DOMAIN c.conflicts \subseteq DOMAIN c.batch \ DOMAIN c.revs
                    /\ \A i \in DOMAIN c.conflicts : c.conflicts[i] \in ItemRow
              [] c.phase = "pull" -> c.since \in Nat
              [] c.phase = "listed" ->
                    \A i \in DOMAIN c.page : c.page[i] \in ItemRow
              [] c.phase \in {"page", "apply"} ->
                    /\ c.next \in Nat /\ c.more \in BOOLEAN
                    /\ \A i \in DOMAIN c.todo : c.todo[i] \in ItemRow
    BY <2>3 DEF Phases
  <2> QED BY <2>1, <2>4 DEF SyncTypeOK, SharedInv
<1> QED BY <1>1, SyncInvariance, PTL

(* No change is missed: the cursor of a device that never signed out does  *)
(* not pass a version that the device has not dealt with, whatever is      *)
(* pushed around its reads and wherever its cycles are cut.                *)
THEOREM NothingIsMissed == Spec => []NothingMissed
<1>1. ASSUME SyncInv, NEW d \in Device, session[d] = "first",
             NEW i \in ItemId, Exists(i), items[i].rev <= cursor[d]
      PROVE  Absorbed(d, i)
  <2>1. Dealt(row[d][i], items[i], session[d] = "first", i \in purged[d], cursor[d])
    BY <1>1 DEF SyncInv, DeviceInv, CursorFine, DealtUpTo
  <2> QED BY <1>1, <2>1 DEF Dealt, Absorbed, HasRow, Exists
<1>2. SyncInv => NothingMissed
  BY <1>1 DEF NothingMissed, MissesNothing
<1> QED BY <1>2, SyncInvariance, PTL

(* A clean row that claims the server's revision shows the server's        *)
(* content once the cursor is past it, on a device that signed out too.    *)
THEOREM CleanRowsStayRight == Spec => []CleanRowsAgree
<1>1. ASSUME SyncInv, NEW d \in Device, NEW i \in ItemId,
             HasRow(d, i), ~row[d][i].dirty, Exists(i),
             row[d][i].base = items[i].rev, items[i].rev <= cursor[d],
             items[i].val \notin Unreadable
      PROVE  /\ row[d][i].deleted = items[i].deleted
             /\ items[i].deleted \/ row[d][i].val = items[i].val
  <2>1. Dealt(row[d][i], items[i], session[d] = "first", i \in purged[d], cursor[d])
    BY <1>1 DEF SyncInv, DeviceInv, CursorFine, DealtUpTo
  <2> QED BY <1>1, <2>1 DEF Dealt, HasRow, Exists
<1>2. SyncInv => CleanRowsAgree
  BY <1>1 DEF CleanRowsAgree
<1> QED BY <1>2, SyncInvariance, PTL

(* The devices use the server as any client may: everything proved of the  *)
(* server for arbitrary requests holds under them.                         *)
THEOREM SyncImplementsServer == Spec => ServerSpec
<1>1. Init => ServerInit
  BY DEF Init
<1> QED BY <1>1, SyncStepInv, SyncInvariance, PTL DEF Spec, ServerSpec
-----------------------------------------------------------------------------
(* What a step does to one row of a device.                                *)

RowStep(d, i) ==
    \/ row'[d][i] = row[d][i]
    \/ row'[d][i] = NoRow
    \/ /\ row'[d][i].dirty
       /\ \/ row[d][i] = NoRow /\ i \notin born
          \/ row[d][i] # NoRow /\ row'[d][i].base = row[d][i].base
    \/ /\ Phase(d) = "answer" /\ i \in DOMAIN cycle[d].revs
       /\ row'[d][i] = Synced(row[d][i], cycle[d].revs[i])
    \/ /\ Phase(d) = "answer" /\ i \in DOMAIN cycle[d].conflicts
       /\ row'[d][i] = Overwritten(row[d][i], cycle[d].conflicts[i])
    \/ /\ Phase(d) = "apply" /\ i = cycle[d].item
       /\ row'[d][i] = Overwritten(row[d][i], cycle[d].todo[i])

RowsStep(d) == \A i \in ItemId : RowStep(d, i)

LEMMA UserRowStep ==
    ASSUME SyncInv, NEW d \in Device, User(d), NEW e \in Device
    PROVE  RowsStep(e) /\ (cursor'[e] >= cursor[e] \/ session[e] = "leaving")
<1>1. /\ row \in [Device -> [ItemId -> Row]]
      /\ cursor \in [Device -> Nat]
      /\ \A i \in ItemId : row[d][i] # NoRow => i \in born
  BY DEF SyncInv, SharedInv, DeviceInv, RowsFine, RowFine
<1>2. ASSUME NEW j \in ItemId, NEW r, SetRow(d, j, r), cursor' = cursor,
             r.dirty,
             \/ row[d][j] = NoRow /\ j \notin born
             \/ row[d][j] # NoRow /\ r.base = row[d][j].base
      PROVE  RowsStep(e) /\ cursor'[e] >= cursor[e]
  BY <1>1, <1>2 DEF SetRow, RowStep, RowsStep
<1>3. ASSUME NEW j \in ItemId, NEW t \in Time, Create(d, j, t)
      PROVE  RowsStep(e) /\ cursor'[e] >= cursor[e]
  <2> DEFINE n == [val |-> writes + 1, at |-> t, deleted |-> FALSE, base |-> 0,
                   dirty |-> TRUE]
  <2>1. SetRow(d, j, n) /\ cursor' = cursor /\ n.dirty /\ j \notin born
    BY <1>3 DEF Create
  <2>2. row[d][j] = NoRow
    BY <2>1 DEF SyncInv, DeviceInv, RowsFine, RowFine
  <2> HIDE DEF n
  <2> QED BY <1>2, <2>1, <2>2
<1>4. ASSUME NEW j \in ItemId, NEW t \in Time, Edit(d, j, t)
      PROVE  RowsStep(e) /\ cursor'[e] >= cursor[e]
  <2> DEFINE n == [row[d][j] EXCEPT !.val = writes + 1, !.at = t, !.dirty = TRUE]
  <2>1. SetRow(d, j, n) /\ cursor' = cursor /\ row[d][j] # NoRow
    BY <1>4 DEF Edit, HasRow
  <2>2. n.dirty /\ n.base = row[d][j].base
    BY <1>1 DEF Row
  <2> HIDE DEF n
  <2> QED BY <1>2, <2>1, <2>2
<1>5. ASSUME NEW j \in ItemId, NEW t \in Time, NEW del \in BOOLEAN,
             SetRow(d, j, [row[d][j] EXCEPT !.deleted = del, !.at = t, !.dirty = TRUE]),
             cursor' = cursor, row[d][j] # NoRow
      PROVE  RowsStep(e) /\ cursor'[e] >= cursor[e]
  <2> DEFINE n == [row[d][j] EXCEPT !.deleted = del, !.at = t, !.dirty = TRUE]
  <2>1. SetRow(d, j, n)
    BY <1>5
  <2>2. n.dirty /\ n.base = row[d][j].base
    BY <1>1 DEF Row
  <2> HIDE DEF n
  <2> QED BY <1>2, <1>5, <2>1, <2>2
<1>6. ASSUME NEW j \in ItemId, NEW t \in Time, SoftDelete(d, j, t) \/ Restore(d, j, t)
      PROVE  RowsStep(e) /\ cursor'[e] >= cursor[e]
  BY <1>5, <1>6 DEF SoftDelete, Restore, HasRow
<1>7. ASSUME NEW S \in SUBSET ItemId, Purge(d, S)
      PROVE  RowsStep(e) /\ cursor'[e] >= cursor[e]
  BY <1>1, <1>7 DEF Purge, RowStep, RowsStep
<1>8. CASE SignOut(d)
  BY <1>1, <1>8 DEF SignOut, RowStep, RowsStep
<1>9. CASE SignInAgain(d)
  BY <1>1, <1>9 DEF SignInAgain, RowStep, RowsStep
<1> QED BY <1>3, <1>4, <1>6, <1>7, <1>8, <1>9 DEF User

LEMMA CycleRowStep ==
    ASSUME SyncInv, NEW d \in Device, CycleStep(d), NEW e \in Device
    PROVE  RowsStep(e) /\ cursor'[e] >= cursor[e]
<1>1. SharedInv /\ DeviceInv(d)
  BY DEF SyncInv
<1>2. /\ row \in [Device -> [ItemId -> Row]]
      /\ cursor \in [Device -> Nat]
  BY <1>1 DEF SharedInv
<1>3. CASE e # d
  BY <1>1, <1>2, <1>3, CycleStepFrame DEF Elsewhere, RowStep, RowsStep
<1>4. cursor'[d] >= cursor[d]
  <2>1. CASE TurnPage(d)
    <3>1. cycle[d].next \in Nat /\ cursor[d] <= cycle[d].next
      BY <1>1, <2>1 DEF TurnPage, Phase, DeviceInv, CycleFine, PageFine
    <3> QED BY <1>2, <2>1, <3>1 DEF TurnPage
  <2>2. CASE ~TurnPage(d)
    <3>1. cursor' = cursor
      BY <2>2 DEF CycleStep, Engine, StartCycle, Cut, UploadPhoto, MarkUploaded,
         CollectDirty, ServePush, RefusePush, MarkSynced, ApplyConflict, FinishBatch,
         ServeList, ServeRev, CheckIncoming, ApplyIncoming, DownloadPhoto
    <3> QED BY <1>2, <3>1
  <2> QED BY <2>1, <2>2
<1>5. RowsStep(d)
  <2>1. CASE MarkSynced(d)
    <3>1. PICK j \in DOMAIN cycle[d].revs :
             SetRow(d, j, Synced(row[d][j], cycle[d].revs[j])) /\ Phase(d) = "answer"
      BY <2>1 DEF MarkSynced
    <3> QED BY <1>2, <3>1 DEF SetRow, RowStep, RowsStep
  <2>2. CASE ApplyConflict(d)
    <3>1. PICK j \in DOMAIN cycle[d].conflicts :
             SetRow(d, j, Overwritten(row[d][j], cycle[d].conflicts[j])) /\ Phase(d) = "answer"
      BY <2>2 DEF ApplyConflict
    <3> QED BY <1>2, <3>1 DEF SetRow, RowStep, RowsStep
  <2>3. CASE ApplyIncoming(d)
    <3>1. /\ SetRow(d, cycle[d].item,
                    Overwritten(row[d][cycle[d].item], cycle[d].todo[cycle[d].item]))
          /\ Phase(d) = "apply"
      BY <2>3 DEF ApplyIncoming
    <3> QED BY <1>2, <3>1 DEF SetRow, RowStep, RowsStep
  <2>4. MarkSynced(d) \/ ApplyConflict(d) \/ ApplyIncoming(d) \/ row' = row
    BY DEF CycleStep, Engine, StartCycle, Cut, UploadPhoto, MarkUploaded, CollectDirty,
           ServePush, RefusePush, FinishBatch, ServeList, ServeRev, CheckIncoming,
           TurnPage, DownloadPhoto
  <2> QED BY <2>1, <2>2, <2>3, <2>4 DEF RowStep, RowsStep
<1> QED BY <1>3, <1>4, <1>5

LEMMA RowStepFacts ==
    ASSUME SyncInv, [Next]_vars, NEW d \in Device
    PROVE  RowsStep(d) /\ (cursor'[d] >= cursor[d] \/ session[d] = "leaving")
<1>1. cursor[d] \in Nat
  BY DEF SyncInv, SharedInv
<1>2. CASE \E e \in Device : User(e)
  BY <1>2, UserRowStep
<1>3. CASE \E e \in Device : StartCycle(e) \/ Engine(e) \/ Cut(e)
  BY <1>3, CycleRowStep DEF CycleStep
<1>4. CASE ServeStray \/ Cleanup \/ CollectGarbage \/ UNCHANGED vars
  <2>1. row' = row /\ cursor' = cursor
    BY <1>4 DEF ServeStray, Cleanup, CollectGarbage, vars, clientVars
  <2> QED BY <1>1, <2>1 DEF RowStep, RowsStep
<1> QED BY <1>2, <1>3, <1>4 DEF Next

(* A device never goes back: neither its cursor, unless its user is        *)
(* signing out, nor the revision a row is based on, unless the server has  *)
(* forgotten the card.                                                     *)
THEOREM NothingGoesBack == Spec => NeverBackwards
<1> DEFINE Forward(d, i) ==
        HasRow(d, i) /\ HasRow(d, i)' =>
            \/ row'[d][i].base >= row[d][i].base
            \/ row'[d][i].base = 0 /\ row'[d][i].deleted
<1>1. ASSUME SyncInv, [Next]_vars, NEW d \in Device, NEW i \in ItemId
      PROVE  Forward(d, i)
  <2>1. RowStep(d, i)
    BY <1>1, RowStepFacts DEF RowsStep
  <2>2. row[d][i] \in Row /\ row[d][i].base \in Nat /\ DeviceInv(d)
    BY <1>1, RowTypes DEF SyncInv, SharedInv
  <2>3. row[d][i] # NoRow => row[d][i].val \in Val
    BY <2>2 DEF DeviceInv, RowsFine, RowFine
  <2>4. ASSUME Phase(d) = "answer", i \in DOMAIN cycle[d].revs,
               row'[d][i] = Synced(row[d][i], cycle[d].revs[i]), row[d][i] # NoRow
        PROVE  row'[d][i].base >= row[d][i].base
    <3>1. /\ cycle[d].revs[i] \in Nat /\ row[d][i].base <= cycle[d].revs[i]
      BY <2>2, <2>4 DEF Phase, DeviceInv, CycleFine, RevsFine
    <3>2. row'[d][i].base = cycle[d].revs[i]
      BY <2>2, <2>4 DEF Synced, Row
    <3> QED BY <2>2, <3>1, <3>2
  <2>5. ASSUME NEW v \in ItemRow, row'[d][i] = Overwritten(row[d][i], v),
               row[d][i] # NoRow, v.rev # 0 => row[d][i].base <= v.rev, v.rev = 0 => v = Gone
        PROVE  \/ row'[d][i].base >= row[d][i].base
               \/ row'[d][i].base = 0 /\ row'[d][i].deleted
    <3>1. CASE v.rev = 0
      <4>1. v.deleted /\ v.rev = 0
        BY <2>5, <3>1, VersionTypes
      <4> QED BY <2>2, <2>5, <4>1 DEF Overwritten, Row
    <3>2. CASE v.rev # 0
      <4>1. row'[d][i] = row[d][i] \/ row'[d][i].base = v.rev
        BY <2>2, <2>3, <2>5, OverwrittenFacts
      <4> QED BY <2>2, <2>5, <3>2, <4>1, VersionTypes
    <3> QED BY <3>1, <3>2
  <2>6. ASSUME Phase(d) = "answer", i \in DOMAIN cycle[d].conflicts
        PROVE  /\ cycle[d].conflicts[i] \in ItemRow
               /\ cycle[d].conflicts[i].rev = 0 => cycle[d].conflicts[i] = Gone
               /\ cycle[d].conflicts[i].rev # 0 =>
                    row[d][i].base <= cycle[d].conflicts[i].rev
    BY <2>2, <2>6 DEF Phase, DeviceInv, CycleFine, ConflictsFine, VersionFine
  <2>7. ASSUME Phase(d) = "apply", i = cycle[d].item
        PROVE  /\ cycle[d].todo[i] \in ItemRow
               /\ cycle[d].todo[i].rev # 0
               /\ row[d][i].base <= cycle[d].todo[i].rev
    BY <2>2, <2>7 DEF Phase, DeviceInv, CycleFine, PageFine, VersionFine
  <2> QED BY <2>1, <2>2, <2>4, <2>5, <2>6, <2>7 DEF RowStep, HasRow
<1>2. ASSUME SyncInv, [Next]_vars, NEW d \in Device
      PROVE  cursor'[d] >= cursor[d] \/ session[d] = "leaving"
  BY <1>2, RowStepFacts
<1>3. SyncInv /\ [Next]_vars =>
        [\A d \in Device :
            /\ cursor'[d] >= cursor[d] \/ session[d] = "leaving"
            /\ \A i \in ItemId : Forward(d, i)]_vars
  BY <1>1, <1>2
<1> QED BY <1>3, SyncInvariance, PTL DEF Spec, NeverBackwards

(* An edit that the user has not touched since the engine looked at it is  *)
(* discarded only for a version that the rule prefers to it.               *)
THEOREM LossesAreDecided == Spec => LossIsDecided
<1> DEFINE Decided(d, i) ==
        Discarded(d, i) /\ DecidedOn(d, i) = row[d][i] =>
            \E it \in AppliedVersion(d, i) : ~Resolve(it, Signed(d, row[d][i]))
<1>1. ASSUME SyncInv, [Next]_vars, NEW d \in Device, NEW i \in ItemId
      PROVE  Decided(d, i)
  <2> SUFFICES ASSUME Discarded(d, i), DecidedOn(d, i) = row[d][i]
               PROVE  \E it \in AppliedVersion(d, i) : ~Resolve(it, Signed(d, row[d][i]))
    OBVIOUS
  <2>1. row[d][i] \in Row /\ CycleFine(d)
    BY <1>1 DEF SyncInv, SharedInv, DeviceInv
  <2>2. /\ row[d][i].dirty /\ row'[d][i] # NoRow /\ ~row'[d][i].dirty
        /\ row'[d][i].val # row[d][i].val \/ row'[d][i].deleted # row[d][i].deleted
    BY DEF Discarded, HasRow
  <2>3. \A rev : Synced(row[d][i], rev).val = row[d][i].val
                 /\ Synced(row[d][i], rev).deleted = row[d][i].deleted
    BY <2>1 DEF Synced, Row
  <2>4. \/ Phase(d) = "answer" /\ i \in DOMAIN cycle[d].conflicts
        \/ Phase(d) = "apply" /\ i = cycle[d].item
    <3>1. RowStep(d, i)
      BY <1>1, RowStepFacts DEF RowsStep
    <3> QED BY <2>2, <2>3, <3>1 DEF RowStep
  <2>5. CASE Phase(d) = "answer" /\ i \in DOMAIN cycle[d].conflicts
    <3>1. /\ i \in DOMAIN cycle[d].batch
          /\ ~Resolve(cycle[d].conflicts[i], Signed(d, cycle[d].batch[i]))
      BY <2>1, <2>5 DEF Phase, CycleFine, ConflictsFine
    <3>2. DecidedOn(d, i) = cycle[d].batch[i]
      BY <2>5, <3>1 DEF DecidedOn
    <3>3. AppliedVersion(d, i) = {cycle[d].conflicts[i]}
      BY <2>5 DEF AppliedVersion
    <3> QED BY <3>1, <3>2, <3>3
  <2>6. CASE Phase(d) = "apply" /\ i = cycle[d].item
    <3>1. ~KeepsLocal(d, cycle[d].seen, cycle[d].todo[i])
      BY <2>1, <2>6 DEF Phase, CycleFine
    <3>2. DecidedOn(d, i) = cycle[d].seen
      BY <2>6 DEF DecidedOn
    <3>3. AppliedVersion(d, i) = {cycle[d].todo[i]}
      BY <2>6 DEF AppliedVersion
    <3> QED BY <2>2, <3>1, <3>2, <3>3 DEF KeepsLocal
  <2> QED BY <2>4, <2>5, <2>6
<1>2. SyncInv /\ [Next]_vars => [\A d \in Device, i \in ItemId : Decided(d, i)]_vars
  BY <1>1
<1> QED BY <1>2, SyncInvariance, PTL DEF Spec, LossIsDecided

-----------------------------------------------------------------------------
(* Convergence: what a device at rest with a card shows of it depends on   *)
(* the server's row alone.                                                 *)
LEMMA RestShowsServer ==
    ASSUME SyncInv, NEW d \in Device, NEW i \in ItemId, AtRest(d, i),
           Exists(i), items[i].val \notin Unreadable
    PROVE  Shown(d, i) = IF items[i].deleted THEN {} ELSE {items[i].val}
<1>1. Dealt(row[d][i], items[i], session[d] = "first", i \in purged[d], cursor[d])
  BY DEF SyncInv, DeviceInv, CursorFine, DealtUpTo
<1>2. /\ ~row[d][i].dirty /\ items[i].rev <= cursor[d] /\ items[i].rev # 0
      /\ session[d] = "first" /\ i \notin purged[d]
  BY DEF AtRest, Exists
<1>3. CASE row[d][i] = NoRow
  BY <1>1, <1>2, <1>3 DEF Dealt, Shown, Visible, HasRow
<1>4. CASE row[d][i] # NoRow
  <2>1. row[d][i].base = items[i].rev
    BY <1>1, <1>2, <1>4 DEF Dealt
  <2>2. row[d][i].deleted = items[i].deleted
        /\ (items[i].deleted \/ row[d][i].val = items[i].val)
    BY <1>1, <1>2, <1>4, <2>1 DEF Dealt
  <2> QED BY <1>4, <2>2 DEF Shown, Visible, HasRow
<1> QED BY <1>3, <1>4

(* Devices that have nothing left to push or pull of a card show the same  *)
(* of it, in whatever order their edits, pushes and pulls went.            *)
THEOREM DevicesConverge == Spec => []DevicesAgree
<1>1. SyncInv => DevicesAgree
  <2> SUFFICES ASSUME SyncInv, NEW d \in Device, NEW e \in Device, NEW i \in ItemId,
                      Exists(i), items[i].val \notin Unreadable,
                      AtRest(d, i), AtRest(e, i)
               PROVE  Shown(d, i) = Shown(e, i)
    BY DEF DevicesAgree
  <2> QED BY RestShowsServer
<1> QED BY <1>1, SyncInvariance, PTL
-----------------------------------------------------------------------------
(* Progress of the pull.                                                   *)

(* The user leaves the cycles alone, and never frees an identifier.        *)
LEMMA UserFrame ==
    ASSUME NEW e \in Device, User(e)
    PROVE  cycle' = cycle /\ born \subseteq born'
<1>1. ASSUME NEW i \in ItemId, NEW t \in Time,
             Create(e, i, t) \/ Edit(e, i, t)
      PROVE  cycle' = cycle /\ born \subseteq born'
  BY <1>1 DEF Create, Edit
<1>2. ASSUME NEW i \in ItemId, NEW t \in Time,
             SoftDelete(e, i, t) \/ Restore(e, i, t)
      PROVE  cycle' = cycle /\ born \subseteq born'
  BY <1>2 DEF SoftDelete, Restore
<1>3. ASSUME NEW S \in SUBSET ItemId, Purge(e, S)
      PROVE  cycle' = cycle /\ born \subseteq born'
  BY <1>3 DEF Purge
<1>4. CASE SignOut(e) \/ SignInAgain(e)
  BY <1>4 DEF SignOut, SignInAgain
<1> QED BY <1>1, <1>2, <1>3, <1>4 DEF User

(* Only one step makes a page of a pull.                                   *)
LEMMA ListStep ==
    ASSUME SyncInv, [Next]_vars, NEW d \in Device, Phase(d) = "pull", Phase(d)' = "listed"
    PROVE  ServeList(d)
<1>1. DOMAIN cycle = Device /\ SharedInv /\ \A e \in Device : DeviceInv(e)
  BY DEF SyncInv, SharedInv
<1>2. cycle'[d] # cycle[d]
  BY DEF Phase
<1>3. ~\E e \in Device : User(e)
  BY <1>2, UserFrame
<1>4. ~(ServeStray \/ Cleanup \/ CollectGarbage \/ UNCHANGED vars)
  BY <1>2 DEF ServeStray, Cleanup, CollectGarbage, vars, clientVars
<1>5. PICK e \in Device : CycleStep(e)
  BY <1>3, <1>4 DEF Next, CycleStep
<1>6. e = d
  BY <1>1, <1>2, <1>5, CycleStepFrame DEF Elsewhere
<1>7. ~Cut(d)
  BY <1>1, GotoFacts DEF Cut, Idle, Phase
<1> QED BY <1>5, <1>6, <1>7
        DEF CycleStep, Engine, StartCycle, UploadPhoto, MarkUploaded, CollectDirty,
            ServePush, RefusePush, MarkSynced, ApplyConflict, FinishBatch, ServeRev,
            CheckIncoming, ApplyIncoming, TurnPage, DownloadPhoto, Phase

(* While no tombstone expires, no device that is behind is ever served an  *)
(* empty page: every page moves it on.                                     *)
THEOREM PullsMoveOn ==
    ASSUME NoExpiry
    PROVE  Spec => PagesMoveOn
<1>1. ASSUME SyncInv, HasMoreExact, [Next]_vars, NEW d \in Device,
             Phase(d) = "pull", Phase(d)' = "listed", cycle[d].since < lastRev
      PROVE  NextSince(cycle'[d].page, cycle[d].since) > cycle[d].since
  <2> DEFINE since == cycle[d].since
  <2>1. ServeList(d) /\ DOMAIN cycle = Device
    BY <1>1, ListStep DEF SyncInv, SharedInv
  <2>2. PICK P \in SUBSET ItemId :
           IsPage(P, since) /\ Goto(d, Listed(since, [i \in P |-> items[i]]))
    BY <2>1 DEF ServeList
  <2>3. cycle'[d].page = [i \in P |-> items[i]]
    BY <2>1, <2>2, GotoFacts DEF Listed
  <2>4. since \in Nat /\ since <= lastRev /\ lastRev \in Nat
    BY <1>1 DEF SyncInv, SharedInv, ServerInv, ServerTypeOK, DeviceInv, CycleFine, Phase
  <2>5. Changed(since) # {}
    BY <1>1, <2>4 DEF HasMoreExact
  <2>6. P # {}
    <3>1. Cardinality({}) = 0 /\ PageLimit # 0
      BY FS_EmptySet, BoundAssumption
    <3> QED BY <2>2, <2>5, <3>1 DEF IsPage
  <2>7. \A i \in P : items[i].rev \in Nat /\ items[i].rev <= lastRev /\ items[i].rev > since
    <3>1. P \subseteq Changed(since)
      BY <2>2 DEF IsPage
    <3> QED BY <1>1, <3>1, VersionTypes
            DEF Changed, SyncInv, SharedInv, ServerInv, ServerTypeOK, RevisionsSound
  <2>8. PICK page : page = [i \in P |-> items[i]]
    OBVIOUS
  <2>9. DOMAIN page = P /\ \A i \in P : page[i] = items[i]
    BY <2>8
  <2> HIDE DEF since
  <2>10. \E i \in P : NextSince(page, since) = page[i].rev
    BY <2>4, <2>6, <2>7, <2>9, NextSinceFacts
  <2>11. NextSince(page, since) > since
    BY <2>7, <2>9, <2>10
  <2> QED BY <2>3, <2>8, <2>11 DEF since
<1>2. SyncInv /\ HasMoreExact /\ [Next]_vars =>
        [\A d \in Device :
            Phase(d) = "pull" /\ Phase(d)' = "listed" /\ cycle[d].since < lastRev =>
                NextSince(cycle'[d].page, cycle[d].since) > cycle[d].since]_vars
  BY <1>1
<1>3. ServerSpec => []HasMoreExact
  BY HasMoreStaysExact
<1> QED BY <1>2, <1>3, SyncInvariance, SyncImplementsServer, PTL DEF Spec, PagesMoveOn
-----------------------------------------------------------------------------
(* Progress of the push.  A card the batch is done with is based on what   *)
(* the server answered, which is never what the batch was based on.        *)

BatchDone(d) ==
    Phase(d) = "answer" =>
        \A i \in DOMAIN cycle[d].batch :
            /\ cycle[d].batch[i].val \in Val /\ cycle[d].batch[i].base \in Nat
            /\ i \in born
            /\ i \in DOMAIN cycle[d].revs => cycle[d].revs[i] > cycle[d].batch[i].base
            /\ i \notin DOMAIN cycle[d].revs \cup DOMAIN cycle[d].conflicts =>
                 row[d][i] = NoRow \/ row[d][i].base # cycle[d].batch[i].base

(* The steps that leave a device with the answer to a push.                *)
LEMMA AnswerSteps ==
    ASSUME SyncInv, [Next]_vars, NEW d \in Device, Phase(d)' = "answer"
    PROVE  cycle'[d] = cycle[d] \/ ServePush(d) \/ MarkSynced(d) \/ ApplyConflict(d)
<1>1. DOMAIN cycle = Device /\ SharedInv /\ \A e \in Device : DeviceInv(e)
  BY DEF SyncInv, SharedInv
<1> SUFFICES ASSUME cycle'[d] # cycle[d]
             PROVE  ServePush(d) \/ MarkSynced(d) \/ ApplyConflict(d)
  OBVIOUS
<1>2. ~\E e \in Device : User(e)
  BY UserFrame
<1>3. ~(ServeStray \/ Cleanup \/ CollectGarbage \/ UNCHANGED vars)
  BY DEF ServeStray, Cleanup, CollectGarbage, vars, clientVars
<1>4. PICK e \in Device : CycleStep(e)
  BY <1>2, <1>3 DEF Next, CycleStep
<1>5. e = d
  BY <1>1, <1>4, CycleStepFrame DEF Elsewhere
<1>6. \A c : Goto(d, c) => c.phase = "answer"
  BY <1>1, GotoFacts DEF Phase
<1>7. \A P : Uploading(P).phase # "answer" /\ Downloading(P).phase # "answer"
             /\ ToUpload(P).phase # "answer" /\ ToDownload(P).phase # "answer"
  BY DEF Uploading, Downloading, ToUpload, ToDownload, Collecting, Idle
<1>8. Idle.phase # "answer" /\ Collecting.phase # "answer"
  BY DEF Idle, Collecting
<1>9. \A x, y, z : /\ Uploaded(x, y).phase # "answer" /\ Pushing(x).phase # "answer"
                   /\ Pulling(x).phase # "answer" /\ Listed(x, y).phase # "answer"
                   /\ Paging(x, y, z).phase # "answer" /\ Applying(x, y, z).phase # "answer"
  BY DEF Uploaded, Pushing, Pulling, Listed, Paging, Applying
<1>10. ~(StartCycle(d) \/ UploadPhoto(d) \/ MarkUploaded(d) \/ RefusePush(d) \/ Cut(d))
  BY <1>6, <1>7, <1>8, <1>9
     DEF StartCycle, UploadPhoto, MarkUploaded, RefusePush, Cut
<1>11. ~CollectDirty(d)
  <2>1. ASSUME NEW I, Goto(d, IF I = {} THEN Pulling(cursor[d])
                              ELSE Pushing([i \in I |-> row[d][i]]))
        PROVE  FALSE
    BY <1>6, <1>9, <2>1
  <2> QED BY <2>1 DEF CollectDirty
<1>12. ~FinishBatch(d)
  BY <1>6, <1>8, <1>9 DEF FinishBatch
<1>13. ~(ServeList(d) \/ ServeRev(d) \/ ApplyIncoming(d))
  BY <1>6, <1>9 DEF ServeList, ServeRev, ApplyIncoming
<1>14. ~CheckIncoming(d)
  BY <1>6, <1>9 DEF CheckIncoming
<1>15. ~(TurnPage(d) \/ DownloadPhoto(d))
  BY <1>6, <1>7, <1>9 DEF TurnPage, DownloadPhoto
<1> QED BY <1>4, <1>5, <1>10, <1>11, <1>12, <1>13, <1>14, <1>15 DEF CycleStep, Engine

LEMMA ServePushDone ==
    ASSUME SyncInv, NEW d \in Device, ServePush(d)
    PROVE  BatchDone(d)'
<1>1. PICK batch : batch = cycle[d].batch
  OBVIOUS
<1> DEFINE req == Request(batch)
           acc == Accepted(d, req)
<1>2. BatchFine(batch) /\ DOMAIN cycle = Device
  BY <1>1 DEF ServePush, Phase, SyncInv, SharedInv, DeviceInv, CycleFine
<1>3. ServerInv /\ lastRev \in Nat /\ lastRev <= MaxRev
  BY DEF SyncInv, SharedInv, ServerInv, ServerTypeOK
<1>4. req \in Batches /\ DOMAIN req = DOMAIN batch
  BY <1>2, <1>3, RequestIsBatch DEF SyncInv
<1>5. PICK rank \in Bijection(acc, 1 .. Cardinality(acc)) :
        /\ Push(d, req, rank)
        /\ Goto(d, Answered(batch, [i \in acc |-> NewRev(rank, i)], Conflicts(d, req)))
  BY <1>1 DEF ServePush, Ranks
<1>6. \A i \in acc : NewRev(rank, i) \in Nat /\ NewRev(rank, i) > lastRev
  BY <1>3, <1>4, <1>5, PushMoves
<1>7. PICK revs, conflicts : revs = [i \in acc |-> NewRev(rank, i)]
                              /\ conflicts = Conflicts(d, req)
  OBVIOUS
<1>8. cycle'[d] = Answered(batch, revs, conflicts)
  BY <1>2, <1>5, <1>7, GotoFacts
<1>9. /\ cycle'[d].batch = batch /\ cycle'[d].revs = revs /\ cycle'[d].conflicts = conflicts
      /\ DOMAIN revs = acc /\ \A i \in acc : revs[i] = NewRev(rank, i)
      /\ DOMAIN conflicts = DOMAIN req \ acc
  BY <1>7, <1>8 DEF Answered, Conflicts
<1>10. born' = born
  BY DEF ServePush
<1> HIDE DEF req, acc
<1>11. ASSUME NEW i \in DOMAIN batch
       PROVE  /\ batch[i].val \in Val /\ batch[i].base \in Nat /\ batch[i].base <= lastRev
              /\ i \in born
  BY <1>2, RowTypes DEF BatchFine
<1>12. \A i \in DOMAIN revs : i \in DOMAIN batch => revs[i] > batch[i].base
  BY <1>3, <1>6, <1>9, <1>11
<1> QED BY <1>4, <1>9, <1>10, <1>11, <1>12 DEF BatchDone

(* A row that the engine does not touch keeps its base, or goes.           *)
LEMMA BaseStays ==
    ASSUME SyncInv, [Next]_vars, NEW d \in Device, NEW i \in ItemId, i \in born,
           Phase(d) = "answer",
           i \notin DOMAIN cycle[d].revs \cup DOMAIN cycle[d].conflicts
    PROVE  \/ row'[d][i] = NoRow
           \/ row[d][i] # NoRow /\ row'[d][i].base = row[d][i].base
<1>1. RowStep(d, i)
  BY RowStepFacts DEF RowsStep
<1> QED BY <1>1 DEF RowStep

(* An identifier is given out once.                                        *)
LEMMA BornStays ==
    ASSUME SyncInv, [Next]_vars
    PROVE  born \subseteq born'
<1>1. SharedInv /\ \A d \in Device : DeviceInv(d)
  BY DEF SyncInv
<1>2. CASE \E d \in Device : User(d)
  BY <1>2, UserFrame
<1>3. CASE \E d \in Device : CycleStep(d)
  BY <1>1, <1>3, CycleStepFrame
<1>4. CASE ServeStray \/ Cleanup \/ CollectGarbage \/ UNCHANGED vars
  BY <1>4 DEF ServeStray, Cleanup, CollectGarbage, vars, clientVars
<1> QED BY <1>2, <1>3, <1>4 DEF Next, CycleStep

LEMMA BatchStep ==
    ASSUME Unreadable = {}, SyncInv, SyncInv', [Next]_vars,
           NEW d \in Device, BatchDone(d)
    PROVE  BatchDone(d)'
<1> SUFFICES ASSUME Phase(d)' = "answer" PROVE BatchDone(d)'
  BY DEF BatchDone
<1>1. /\ DOMAIN cycle = Device /\ DeviceInv(d) /\ row \in [Device -> [ItemId -> Row]]
  BY DEF SyncInv, SharedInv
<1>2. PICK batch, revs, conflicts :
        batch = cycle[d].batch /\ revs = cycle[d].revs /\ conflicts = cycle[d].conflicts
  OBVIOUS
<1>3. ASSUME Phase(d) = "answer"
      PROVE  /\ DOMAIN batch \subseteq ItemId /\ DOMAIN revs \subseteq DOMAIN batch
             /\ DOMAIN conflicts \subseteq DOMAIN batch \ DOMAIN revs
             /\ ConflictsFine(d, batch, conflicts)
             /\ \A i \in DOMAIN batch :
                  /\ batch[i].val \in Val /\ batch[i].base \in Nat /\ i \in born
                  /\ i \in DOMAIN revs => revs[i] > batch[i].base /\ revs[i] \in Nat
                  /\ i \notin DOMAIN revs \cup DOMAIN conflicts =>
                       row[d][i] = NoRow \/ row[d][i].base # batch[i].base
  BY <1>1, <1>2, <1>3 DEF DeviceInv, CycleFine, RevsFine, BatchDone, Phase
<1>4. CASE ServePush(d)
  BY <1>4, ServePushDone
<1>5. CASE cycle'[d] = cycle[d]
  <2>1. Phase(d) = "answer"
    BY <1>5 DEF Phase
  <2>2. born \subseteq born'
    BY BornStays
  <2>3. ASSUME NEW i \in DOMAIN batch, i \notin DOMAIN revs \cup DOMAIN conflicts
        PROVE  row'[d][i] = NoRow \/ row'[d][i].base # batch[i].base
    <3>1. \/ row'[d][i] = NoRow
          \/ row[d][i] # NoRow /\ row'[d][i].base = row[d][i].base
      BY <1>2, <1>3, <2>1, <2>3, BaseStays
    <3> QED BY <1>3, <2>1, <2>3, <3>1
  <2> QED BY <1>2, <1>3, <1>5, <2>1, <2>2, <2>3 DEF BatchDone
<1>6. ASSUME MarkSynced(d) PROVE BatchDone(d)'
  <2>1. PICK i \in DOMAIN revs :
          /\ SetRow(d, i, Synced(row[d][i], revs[i]))
          /\ Goto(d, Answered(batch, Remove(revs, i), conflicts))
    BY <1>2, <1>6 DEF MarkSynced
  <2>2. Phase(d) = "answer" /\ born' = born
    BY <1>6 DEF MarkSynced
  <2>3. PICK rest : rest = Remove(revs, i)
    OBVIOUS
  <2>4. /\ cycle'[d].batch = batch /\ cycle'[d].revs = rest
        /\ cycle'[d].conflicts = conflicts
        /\ DOMAIN rest = DOMAIN revs \ {i} /\ \A j \in DOMAIN rest : rest[j] = revs[j]
    <3>1. cycle'[d] = Answered(batch, rest, conflicts)
      BY <1>1, <2>1, <2>3, GotoFacts
    <3>2. DOMAIN rest = DOMAIN revs \ {i} /\ \A j \in DOMAIN rest : rest[j] = revs[j]
      BY <2>3, RemoveFacts
    <3> QED BY <3>1, <3>2 DEF Answered
  <2>5. i \in DOMAIN batch /\ i \in ItemId /\ row[d][i] \in Row
    BY <1>1, <1>3, <2>1, <2>2
  <2>6. row'[d][i] = NoRow \/ row'[d][i].base # batch[i].base
    <3>1. row'[d][i] = Synced(row[d][i], revs[i])
      BY <1>1, <2>1, <2>5 DEF SetRow
    <3>2. revs[i] \in Nat /\ revs[i] > batch[i].base /\ batch[i].base \in Nat
      BY <1>3, <2>1, <2>2, <2>5
    <3> QED BY <2>5, <3>1, <3>2 DEF Synced, Row
  <2>7. \A j \in ItemId : j # i => row'[d][j] = row[d][j]
    BY <1>1, <2>1, <2>5 DEF SetRow
  <2> QED BY <1>3, <2>2, <2>4, <2>6, <2>7 DEF BatchDone
<1>7. ASSUME ApplyConflict(d) PROVE BatchDone(d)'
  <2>1. PICK i \in DOMAIN conflicts :
          /\ SetRow(d, i, Overwritten(row[d][i], conflicts[i]))
          /\ Goto(d, Answered(batch, revs, Remove(conflicts, i)))
    BY <1>2, <1>7 DEF ApplyConflict
  <2>2. Phase(d) = "answer" /\ born' = born
    BY <1>7 DEF ApplyConflict
  <2>3. PICK rest : rest = Remove(conflicts, i)
    OBVIOUS
  <2>4. /\ cycle'[d].batch = batch /\ cycle'[d].revs = revs /\ cycle'[d].conflicts = rest
        /\ DOMAIN rest = DOMAIN conflicts \ {i}
    <3>1. cycle'[d] = Answered(batch, revs, rest)
      BY <1>1, <2>1, <2>3, GotoFacts
    <3>2. DOMAIN rest = DOMAIN conflicts \ {i}
      BY <2>3, RemoveFacts
    <3> QED BY <3>1, <3>2 DEF Answered
  <2>5. i \in DOMAIN batch /\ i \in ItemId /\ row[d][i] \in Row
    BY <1>1, <1>3, <2>1, <2>2
  <2>6. row'[d][i] = NoRow \/ row'[d][i].base # batch[i].base
    <3>1. row'[d][i] = Overwritten(row[d][i], conflicts[i])
      BY <1>1, <2>1, <2>5 DEF SetRow
    <3>2. conflicts[i] \in ItemRow /\ ~Resolve(conflicts[i], Signed(d, batch[i]))
      BY <1>3, <2>1, <2>2 DEF ConflictsFine, VersionFine
    <3>3. conflicts[i].rev # batch[i].base
      BY <3>2, VersionTypes DEF Resolve, Signed
    <3>4. row[d][i] # NoRow => row[d][i].val \in Val
      BY <1>1, <2>5 DEF DeviceInv, RowsFine, RowFine
    <3>5. row'[d][i] = NoRow \/ row'[d][i].base = conflicts[i].rev
      BY <2>5, <3>1, <3>2, <3>4, OverwrittenFacts
    <3> QED BY <3>3, <3>5
  <2>7. \A j \in ItemId : j # i => row'[d][j] = row[d][j]
    BY <1>1, <2>1, <2>5 DEF SetRow
  <2> QED BY <1>3, <2>2, <2>4, <2>6, <2>7 DEF BatchDone
<1> QED BY <1>4, <1>5, <1>6, <1>7, AnswerSteps

(* When all contents can be decrypted, a batch is never left with a card   *)
(* as it was: accepted, overwritten or changed again, each has moved on.   *)
THEOREM BatchesAreSettled ==
    ASSUME Unreadable = {}
    PROVE  Spec => []BatchIsSettled
<1> DEFINE Done == \A d \in Device : BatchDone(d)
<1>1. Init => Done
  BY DEF Init, Idle, BatchDone, Phase
<1>2. SyncInv /\ SyncInv' /\ Done /\ [Next]_vars => Done'
  BY BatchStep
<1>3. SyncInv /\ Done => BatchIsSettled
  <2>1. \A d \in Device : SyncInv /\ Done /\ Phase(d) = "answer" =>
           \A i \in DOMAIN cycle[d].batch : cycle[d].batch[i] # NoRow
    BY VersionTypes DEF BatchDone, NoRow
  <2> QED BY <2>1 DEF BatchDone, BatchIsSettled
<1> HIDE DEF Done
<1> QED BY <1>1, <1>2, <1>3, SyncInvariance, PTL DEF Spec
=============================================================================
