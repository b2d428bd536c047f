---------------------------- MODULE MCVaultSync ----------------------------
(* A small family for TLC: two devices and some assignments of photos.     *)
EXTENDS VaultSync

CONSTANT b1

MCVal == 1 .. MaxWrites
NoPhotos == [v \in Val |-> {}]

\* The first content has a photo, every later one keeps it.
OnePhoto == [v \in Val |-> {b1}]

\* Only the first content has a photo.
FirstPhoto == [v \in Val |-> IF v = 1 THEN {b1} ELSE {}]

\* A photo comes with the second write, if that is an edit; the third drops it.
SecondPhoto == [v \in Val |-> IF v = 2 THEN {b1} ELSE {}]

\* Only the third content has a photo.
ThirdPhoto == [v \in Val |-> IF v = 3 THEN {b1} ELSE {}]
-----------------------------------------------------------------------------
(* A start in the middle of an execution, which leaves the bounds to what  *)
(* comes after it.  Device 1 made a card and pushed it, both devices have  *)
(* pulled it, and device 1 has edited it since without pushing the edit.   *)
MiddleCard == CHOOSE i \in ItemId : TRUE

MiddleRow(d, t) ==
    IF d = 1 THEN [val |-> 2, at |-> t, deleted |-> FALSE, base |-> 1, dirty |-> TRUE]
             ELSE [val |-> 1, at |-> 1, deleted |-> FALSE, base |-> 1, dirty |-> FALSE]

MiddleInit ==
    /\ items = [i \in ItemId |->
                IF i = MiddleCard
                THEN Stored(1, [at |-> 1, deleted |-> FALSE, val |-> 1], 1) ELSE Gone]
    /\ lastRev = 1
    /\ blobRow = [b \in BlobId |-> "none"]
    /\ \E t \in Time :
        row = [d \in Device |-> [i \in ItemId |->
                IF i = MiddleCard THEN MiddleRow(d, t) ELSE NoRow]]
    /\ photo = [d \in Device |-> [b \in BlobId |-> "none"]]
    /\ cursor = [d \in Device |-> 1]
    /\ cycle = [d \in Device |-> Idle]
    /\ writes = 2
    /\ born = {MiddleCard}
    /\ purged = [d \in Device |-> {}]
    /\ stray = {}
    /\ cuts = 0
    /\ session = [d \in Device |-> "first"]

MiddleSpec == MiddleInit /\ [][Next]_vars /\ Fairness
=============================================================================
