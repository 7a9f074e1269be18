-------------------------- MODULE BackupStoreProofs --------------------------
(* Theorems about BackupStore, for every number of backups, restores and      *)
(* deletes, every minimum and every clock.                                    *)
EXTENDS BackupStore, FiniteSetTheorems, TLAPS

-----------------------------------------------------------------------------
(* Types.  A request under way has a target; a backup that completed is past  *)
(* its own work and has a name for its object, whatever became of its row.    *)

Past == {"list", "object", "row", "end"}
Kept(b) == b \in Backups /\ pc[b] \in Past /\ key[b] \in 1..LastSecond

KeyInv ==
    /\ \A b \in Backups : row[b] = "absent" => pc[b] = "idle"
    /\ \A b \in Backups : pc[b] \in {"put", "commit", "list", "object", "row"} => key[b] \in 1..LastSecond
    /\ \A b \in Backups : row[b] = "completed" => Kept(b)
    /\ \A b \in Backups : \A c \in prune[b] : Kept(c)
    /\ \A r \in Restores : rpc[r] \notin {"idle", "end"} => Kept(from[r])
    /\ \A r \in Restores : rpc[r] \in {"verify", "drop", "load"} => got[r] \in Backups
    /\ \A d \in Deletes : dpc[d] = "object" => Kept(target[d])
    /\ \A d \in Deletes : dpc[d] = "row" => target[d] \in Backups

LEMMA CountType == Count \in Nat
<1>1. IsFiniteSet({b \in Backups : row[b] # "absent"})
  BY BackupStoreAssumption, FS_Subset
<1>2. QED BY <1>1, FS_CardinalityType DEF Count

LEMMA SkipEffect ==
    ASSUME TypeOK, NEW b \in Backups, NEW c \in Backups, Skip(b, c)
    PROVE  /\ prune' \in [Backups -> SUBSET Backups]
           /\ pc' \in [Backups -> {"idle", "zip", "put", "commit", "list", "object", "row", "end"}]
           /\ pc'[b] \in {"object", "end"} /\ prune'[b] = prune[b] \ {c}
           /\ \A x \in Backups : x # b => pc'[x] = pc[x] /\ prune'[x] = prune[x]
<1>1. prune' = [prune EXCEPT ![b] = prune[b] \ {c}] /\ prune \in [Backups -> SUBSET Backups]
  BY DEF Skip, TypeOK
<1>2. \E stage \in {"object", "end"} : pc' = [pc EXCEPT ![b] = stage]
  BY DEF Skip, Goto
<1>3. pc \in [Backups -> {"idle", "zip", "put", "commit", "list", "object", "row", "end"}]
  BY DEF TypeOK
<1>4. QED BY <1>1, <1>2, <1>3

\* What removing an object does, if it happens.
LEMMA ObjectEffect ==
    ASSUME TypeOK, NEW b \in Backups, NEW c \in Backups, PruneObject(b, c)
    PROVE  /\ prune' \in [Backups -> SUBSET Backups]
           /\ pc' \in [Backups -> {"idle", "zip", "put", "commit", "list", "object", "row", "end"}]
           /\ pc[b] = "object" /\ \A x \in Backups : prune'[x] \subseteq prune[x]
           /\ \A x \in Backups : x # b => pc'[x] = pc[x] /\ prune'[x] = prune[x]
           /\ \/ store' = [store EXCEPT ![key[c]] = None] /\ pc'[b] = "row" /\ prune' = prune
              \/ store' = store /\ pc'[b] # "row"
<1>1. CASE Skip(b, c) /\ store' = store
  BY <1>1, SkipEffect DEF PruneObject
<1>2. CASE store' = [store EXCEPT ![key[c]] = None] /\ Goto(b, "row") /\ prune' = prune
  BY <1>2 DEF PruneObject, Goto, TypeOK
<1>3. QED BY <1>1, <1>2 DEF PruneObject

LEMMA TypesKept == TypeOK /\ KeyInv /\ [Next]_vars => TypeOK'
<1> SUFFICES ASSUME TypeOK, KeyInv, [Next]_vars PROVE TypeOK'
  OBVIOUS
<1> USE DEF TypeOK, Goto, RGoto, DGoto, rowVars, backupVars, restoreVars, deleteVars, graphVars
<1>1. ASSUME NEW b \in Backups, Trigger(b) \/ Fire(b) PROVE TypeOK'
  <2>1. Insert(b)
    BY <1>1 DEF Trigger, Fire
  <2>2. QED BY <2>1, CountType DEF Insert
<1>2. ASSUME NEW b \in Backups, Zip(b) PROVE TypeOK'
  <2>1. second' \in 1..LastSecond /\ second' \in 0..LastSecond
    BY <1>2, BackupStoreAssumption DEF Zip
  <2>2. QED BY <1>2, <2>1 DEF Zip
<1>3. ASSUME NEW b \in Backups, Put(b) PROVE TypeOK'
  BY <1>3 DEF Put
<1>4. ASSUME NEW b \in Backups, Reap(b) \/ Commit(b) PROVE TypeOK'
  <2>1. CASE Reap(b)
    BY <2>1 DEF Reap
  <2>2. CASE Commit(b)
    BY <2>2 DEF Commit
  <2>3. QED BY <1>4, <2>1, <2>2
<1>5. ASSUME NEW b \in Backups, BackupFails(b) PROVE TypeOK'
  <2>1. 0 \in 0..LastSecond
    BY BackupStoreAssumption
  <2>2. QED BY <1>5, <2>1 DEF BackupFails
<1>6. ASSUME NEW b \in Backups, ListOld(b) PROVE TypeOK'
  <2>1. prune' \in [Backups -> SUBSET Backups]
    BY <1>6 DEF ListOld
  <2>2. QED BY <1>6, <2>1 DEF ListOld
<1>7. ASSUME NEW b \in Backups, NEW c \in Backups, PruneObject(b, c) PROVE TypeOK'
  <2>1. store' \in [1..LastSecond -> Backups \cup {None}]
    BY <1>7 DEF PruneObject
  <2>2. QED BY <1>7, <2>1, ObjectEffect DEF PruneObject
<1>8. ASSUME NEW b \in Backups, NEW c \in Backups, PruneRow(b, c) PROVE TypeOK'
  <2>1. row' \in [Backups -> {"absent", "active", "completed", "failed", "deleted"}]
    BY <1>8 DEF PruneRow
  <2>2. QED BY <1>8, <2>1, SkipEffect DEF PruneRow
<1>9. ASSUME NEW d \in Deletes, NEW b \in Backups, DeleteRead(d, b) PROVE TypeOK'
  BY <1>9 DEF DeleteRead
<1>10. ASSUME NEW d \in Deletes, DeleteObject(d) PROVE TypeOK'
  <2>1. store' \in [1..LastSecond -> Backups \cup {None}]
    BY <1>10 DEF DeleteObject
  <2>2. QED BY <1>10, <2>1 DEF DeleteObject
<1>11. ASSUME NEW d \in Deletes, DeleteRow(d) PROVE TypeOK'
  <2>1. target[d] \in Backups
    BY <1>11 DEF DeleteRow, KeyInv
  <2>2. row' \in [Backups -> {"absent", "active", "completed", "failed", "deleted"}]
    BY <1>11 DEF DeleteRow
  <2>3. QED BY <1>11, <2>1, <2>2 DEF DeleteRow
<1>12. ASSUME NEW r \in Restores, NEW b \in Backups, RestoreTrigger(r, b) PROVE TypeOK'
  BY <1>12 DEF RestoreTrigger
<1>13. ASSUME NEW r \in Restores, Fetch(r) \/ Verify(r) \/ DropAll(r) \/ ApplySchema(r) PROVE TypeOK'
  <2>1. CASE Fetch(r) \/ Verify(r)
    BY <2>1, ZenonT(40) DEF Fetch, Verify, Step
  <2>2. CASE DropAll(r) \/ ApplySchema(r)
    BY <2>2, ZenonT(40) DEF DropAll, ApplySchema, Step
  <2>3. QED BY <1>13, <2>1, <2>2
<1>14. ASSUME NEW r \in Restores, Download(r) PROVE TypeOK'
  <2>1. key[from[r]] \in 1..LastSecond
    BY <1>14 DEF Download, Step, KeyInv, Kept
  <2>2. QED BY <1>14, <2>1 DEF Download, Step
<1>15. ASSUME NEW r \in Restores, RunLive(r) PROVE TypeOK'
  <2>1. got[r] \in Backups
    BY <1>15 DEF RunLive, Step, KeyInv
  <2>2. QED BY <1>15, <2>1 DEF RunLive, Step
<1>16. ASSUME NEW r \in Restores, Finish(r) \/ RestoreFails(r) PROVE TypeOK'
  <2>1. PICK o \in {"completed", "failed"} : RestoreEnds(r, o)
    BY <1>16 DEF Finish, RestoreFails
  <2>2. /\ rrow' = [rrow EXCEPT ![r] = o] /\ rpc' = [rpc EXCEPT ![r] = "end"]
        /\ got' = [got EXCEPT ![r] = None] /\ from' = [from EXCEPT ![r] = None]
        /\ UNCHANGED <<rowVars, store, backupVars, deleteVars, graphVars, byHand>>
    BY <2>1 DEF RestoreEnds
  <2>3. /\ rrow' \in [Restores -> {"absent", "active", "completed", "failed"}]
        /\ rpc' \in [Restores -> {"idle", "fetch", "download", "verify", "drop", "load", "schema", "finish", "end"}]
    BY <2>2
  <2>4. from' \in [Restores -> Backups \cup {None}] /\ got' \in [Restores -> Backups \cup {None}]
    BY <2>2
  <2>5. QED BY <2>2, <2>3, <2>4
<1>17. CASE UNCHANGED vars
  BY <1>17 DEF vars
<1> HIDE DEF TypeOK, Goto, RGoto, DGoto, rowVars, backupVars, restoreVars, deleteVars, graphVars
<1>18. QED
  BY <1>1, <1>2, <1>3, <1>4, <1>5, <1>6, <1>7, <1>8, <1>9, <1>10, <1>11, <1>12, <1>13, <1>14, <1>15, <1>16, <1>17
     DEF Next

(* The sides of a step.                                                       *)

BackupSide(b) ==
    \/ Trigger(b) \/ Fire(b) \/ Zip(b) \/ Put(b) \/ Reap(b) \/ Commit(b) \/ BackupFails(b) \/ ListOld(b)
    \/ \E c \in Backups : PruneObject(b, c) \/ PruneRow(b, c)
DeleteSide(d) == (\E b \in Backups : DeleteRead(d, b)) \/ DeleteObject(d) \/ DeleteRow(d)
RestoreSide(r) ==
    \/ \E b \in Backups : RestoreTrigger(r, b)
    \/ Fetch(r) \/ Download(r) \/ Verify(r) \/ DropAll(r) \/ RunLive(r)
    \/ ApplySchema(r) \/ Finish(r) \/ RestoreFails(r)

LEMMA Sides ==
    ASSUME [Next]_vars
    PROVE  \/ \E b \in Backups : BackupSide(b)
           \/ \E d \in Deletes : DeleteSide(d)
           \/ \E r \in Restores : RestoreSide(r)
           \/ UNCHANGED vars
  BY DEF Next, BackupSide, DeleteSide, RestoreSide

LEMMA BackupFrame ==
    ASSUME NEW b \in Backups, BackupSide(b) PROVE UNCHANGED <<restoreVars, deleteVars, graphVars, byHand>>
  BY DEF BackupSide, Trigger, Fire, Insert, Zip, Put, Reap, Commit, BackupFails, ListOld, PruneObject, PruneRow

LEMMA DeleteFrame ==
    ASSUME NEW d \in Deletes, DeleteSide(d) PROVE UNCHANGED <<made, key, second, backupVars, restoreVars, graphVars>>
  BY DEF DeleteSide, DeleteRead, DeleteObject, DeleteRow, rowVars

LEMMA RestoreFrame ==
    ASSUME NEW r \in Restores, RestoreSide(r) PROVE UNCHANGED <<rowVars, store, backupVars, deleteVars, byHand>>
  BY DEF RestoreSide, RestoreTrigger, Fetch, Download, Verify, DropAll, RunLive, ApplySchema, Finish, RestoreFails,
     Step, RestoreEnds

\* A backup that is past its work stays so, under its key.
LEMMA KeptStays ==
    ASSUME TypeOK, KeyInv, [Next]_vars, NEW c, Kept(c) PROVE Kept(c)'
<1>1. c \in Backups /\ pc[c] \in Past /\ key[c] \in 1..LastSecond /\ row[c] # "absent"
  BY DEF Kept, KeyInv, Past
<1>2. ASSUME NEW b \in Backups, BackupSide(b) PROVE Kept(c)'
  <2>1. CASE Trigger(b) \/ Fire(b)
    BY <1>1, <2>1 DEF Trigger, Fire, Insert, Goto, Kept, TypeOK
  <2>2. CASE Zip(b) \/ Put(b) \/ BackupFails(b)
    BY <1>1, <2>2 DEF Zip, Put, BackupFails, Goto, Kept, TypeOK, Past, rowVars
  <2>3. CASE Reap(b) \/ Commit(b)
    BY <1>1, <2>3 DEF Reap, Commit, Goto, Kept, TypeOK, Past, backupVars
  <2>4. CASE ListOld(b)
    BY <1>1, <2>4 DEF ListOld, Goto, Kept, TypeOK, Past, rowVars
  <2>5. ASSUME NEW e \in Backups, PruneObject(b, e) \/ PruneRow(b, e) PROVE Kept(c)'
    BY <1>1, <2>5 DEF PruneObject, PruneRow, Skip, Goto, Kept, TypeOK, Past, rowVars
  <2>6. QED BY <1>2, <2>1, <2>2, <2>3, <2>4, <2>5 DEF BackupSide
<1>3. ASSUME UNCHANGED <<pc, key>> PROVE Kept(c)'
  BY <1>1, <1>3 DEF Kept
<1>4. QED
  BY <1>2, <1>3, Sides, DeleteFrame, RestoreFrame DEF vars, rowVars, backupVars

LEMMA KeyKept == TypeOK /\ KeyInv /\ [Next]_vars => KeyInv'
<1> SUFFICES ASSUME TypeOK, KeyInv, [Next]_vars, TypeOK' PROVE KeyInv'
  BY TypesKept
<1> USE DEF TypeOK, Goto, RGoto, DGoto
<1>0. ASSUME NEW c, Kept(c) PROVE Kept(c)'
  BY <1>0, KeptStays
<1>1. ASSUME NEW b \in Backups, BackupSide(b) PROVE KeyInv'
  <2>1. UNCHANGED <<rrow, rpc, from, got, dpc, target>>
    BY <1>1, BackupFrame DEF restoreVars, deleteVars
  <2>2. ASSUME \A c \in Backups : row'[c] = "absent" => pc'[c] = "idle",
               \A c \in Backups : pc'[c] \in {"put", "commit", "list", "object", "row"} => key'[c] \in 1..LastSecond,
               \A c \in Backups : row'[c] = "completed" => row[c] = "completed" \/ Kept(c)',
               \A c \in Backups : \A e \in prune'[c] : e \in prune[c] \/ row[e] = "completed"
        PROVE  KeyInv'
    <3>1. \A c \in Backups : row'[c] = "completed" => Kept(c)'
      BY <1>0, <2>2 DEF KeyInv
    <3>2. \A c \in Backups : \A e \in prune'[c] : Kept(e)'
      BY <1>0, <2>2 DEF KeyInv
    <3>3. \A r \in Restores : rpc'[r] \notin {"idle", "end"} => Kept(from[r])'
      <4>1. ASSUME NEW r \in Restores, rpc'[r] \notin {"idle", "end"} PROVE Kept(from[r])'
        <5>1. Kept(from[r])
          BY <2>1, <4>1 DEF KeyInv
        <5>2. QED BY <1>0, <2>1, <5>1 DEF Kept
      <4>2. QED BY <4>1
    <3>4. \A d \in Deletes : dpc'[d] = "object" => Kept(target[d])'
      <4>1. ASSUME NEW d \in Deletes, dpc'[d] = "object" PROVE Kept(target[d])'
        <5>1. Kept(target[d])
          BY <2>1, <4>1 DEF KeyInv
        <5>2. QED BY <1>0, <2>1, <5>1 DEF Kept
      <4>2. QED BY <4>1
    <3>5. /\ \A r \in Restores : rpc'[r] \in {"verify", "drop", "load"} => got'[r] \in Backups
          /\ \A d \in Deletes : dpc'[d] = "row" => target'[d] \in Backups
      BY <2>1 DEF KeyInv
    <3>6. QED BY <2>2, <3>1, <3>2, <3>3, <3>4, <3>5 DEF KeyInv
  <2>3. CASE Trigger(b) \/ Fire(b)
    <3>1. Insert(b)
      BY <2>3 DEF Trigger, Fire
    <3>2. QED BY <2>2, <3>1 DEF Insert, KeyInv
  <2>4. CASE Zip(b)
    <3>1. second' \in 1..LastSecond
      BY <2>4 DEF Zip
    <3>2. QED BY <2>2, <2>4, <3>1 DEF Zip, KeyInv
  <2>5. CASE Put(b)
    BY <2>2, <2>5 DEF Put, KeyInv, rowVars
  <2>6. CASE Reap(b)
    BY <2>2, <2>6 DEF Reap, KeyInv, backupVars
  <2>7. CASE Commit(b)
    <3>1. key[b] \in 1..LastSecond /\ key' = key /\ pc'[b] = "list" /\ row' = [row EXCEPT ![b] = "completed"]
      BY <2>7 DEF Commit, KeyInv
    <3>2. \A c \in Backups : row'[c] = "completed" => row[c] = "completed" \/ Kept(c)'
      BY <3>1 DEF Kept, Past
    <3>3. QED BY <2>2, <2>7, <3>2 DEF Commit, KeyInv
  <2>8. CASE BackupFails(b)
    BY <2>2, <2>8 DEF BackupFails, KeyInv
  <2>9. CASE ListOld(b)
    <3>1. \A c \in Backups : \A e \in prune'[c] : e \in prune[c] \/ row[e] = "completed"
      BY <2>9 DEF ListOld, Expired
    <3>2. QED BY <2>2, <2>9, <3>1 DEF ListOld, KeyInv, rowVars
  <2>10. ASSUME NEW c \in Backups, PruneObject(b, c) PROVE KeyInv'
    <3>1. \A x \in Backups : \A e \in prune'[x] : e \in prune[x]
      BY <2>10, ObjectEffect
    <3>2. \A x \in Backups : pc'[x] = pc[x] \/ (x = b /\ pc[b] = "object")
      BY <2>10, ObjectEffect
    <3>3. row' = row /\ key' = key
      BY <2>10 DEF PruneObject, rowVars
    <3>4. QED BY <2>2, <3>1, <3>2, <3>3 DEF KeyInv
  <2>11. ASSUME NEW c \in Backups, PruneRow(b, c) PROVE KeyInv'
    <3>0. Skip(b, c) /\ pc[b] = "row"
      BY <2>11 DEF PruneRow
    <3>1. \A x \in Backups : \A e \in prune'[x] : e \in prune[x]
      <4>1. \A x \in Backups : prune'[x] = prune[x] \/ prune'[x] = prune[x] \ {c}
        BY <3>0, SkipEffect
      <4> HIDE DEF TypeOK, Goto, RGoto, DGoto
      <4>2. ASSUME NEW x \in Backups PROVE prune'[x] \subseteq prune[x]
        BY <4>1, <4>2
      <4>3. QED BY <4>2
    <3>2. \A x \in Backups : pc'[x] = pc[x] \/ (x = b /\ pc[b] = "row")
      BY <3>0, SkipEffect
    <3>3. key' = key /\ \A x \in Backups : row'[x] \in {row[x], "deleted"}
      BY <2>11 DEF PruneRow
    <3>4. QED BY <2>2, <3>1, <3>2, <3>3 DEF KeyInv
  <2>12. QED BY <1>1, <2>3, <2>4, <2>5, <2>6, <2>7, <2>8, <2>9, <2>10, <2>11 DEF BackupSide
<1>2. ASSUME NEW d \in Deletes, DeleteSide(d) PROVE KeyInv'
  <2>1. UNCHANGED <<made, key, second, pc, prune, rrow, rpc, from, got>>
    BY <1>2, DeleteFrame DEF backupVars, restoreVars
  <2>2. /\ \A x \in Backups : row'[x] \in {row[x], "deleted"}
        /\ \A e \in Deletes : dpc'[e] = "object" => Kept(target'[e])
        /\ \A e \in Deletes : dpc'[e] = "row" => target'[e] \in Backups
    <3>1. ASSUME NEW b \in Backups, DeleteRead(d, b)
          PROVE  /\ row' = row
                 /\ \A e \in Deletes : dpc'[e] = "object" => Kept(target'[e])
                 /\ \A e \in Deletes : dpc'[e] = "row" => target'[e] \in Backups
      BY <3>1 DEF DeleteRead, KeyInv, rowVars
    <3>2. CASE DeleteObject(d)
      BY <3>2 DEF DeleteObject, KeyInv, rowVars, Kept
    <3>3. CASE DeleteRow(d)
      BY <3>3 DEF DeleteRow, KeyInv
    <3>4. QED BY <1>2, <3>1, <3>2, <3>3 DEF DeleteSide
  <2>3. \A c : Kept(c)' = Kept(c)
    BY <2>1 DEF Kept
  <2>4. QED BY <2>1, <2>2, <2>3 DEF KeyInv, Kept
<1>3. ASSUME NEW r \in Restores, RestoreSide(r) PROVE KeyInv'
  <2>1. UNCHANGED <<row, made, key, second, pc, prune, dpc, target>>
    BY <1>3, RestoreFrame DEF rowVars, backupVars, deleteVars
  <2>2. /\ \A x \in Restores : rpc'[x] \notin {"idle", "end"} => Kept(from'[x])
        /\ \A x \in Restores : rpc'[x] \in {"verify", "drop", "load"} => got'[x] \in Backups
    <3>1. ASSUME NEW b \in Backups, RestoreTrigger(r, b)
          PROVE  /\ \A x \in Restores : rpc'[x] \notin {"idle", "end"} => Kept(from'[x])
                 /\ \A x \in Restores : rpc'[x] \in {"verify", "drop", "load"} => got'[x] \in Backups
      BY <3>1 DEF RestoreTrigger, KeyInv
    <3>2. CASE Fetch(r) \/ Verify(r) \/ DropAll(r) \/ RunLive(r) \/ ApplySchema(r)
      <4>1. /\ from' = from /\ got' = got /\ rpc[r] \notin {"idle", "end"}
            /\ \A x \in Restores : x # r => rpc'[x] = rpc[x]
            /\ rpc'[r] \in {"drop", "load"} => rpc[r] \in {"verify", "drop"}
            /\ rpc'[r] # "verify"
        BY <3>2 DEF Fetch, Verify, DropAll, RunLive, ApplySchema, Step
      <4>2. QED BY <4>1 DEF KeyInv, Kept
    <3>3. CASE Download(r)
      <4>1. Kept(from[r]) /\ store[key[from[r]]] # None
        BY <3>3 DEF Download, Step, KeyInv
      <4>2. store[key[from[r]]] \in Backups
        BY <4>1 DEF Kept
      <4>3. QED BY <3>3, <4>2 DEF Download, Step, KeyInv
    <3>4. CASE Finish(r) \/ RestoreFails(r)
      <4>1. /\ \A x \in Restores : x # r => rpc'[x] = rpc[x] /\ from'[x] = from[x] /\ got'[x] = got[x]
            /\ rpc'[r] = "end"
        BY <3>4 DEF Finish, RestoreFails, RestoreEnds
      <4>2. QED BY <4>1 DEF KeyInv, Kept
    <3>5. QED BY <1>3, <3>1, <3>2, <3>3, <3>4 DEF RestoreSide
  <2>3. \A c : Kept(c)' = Kept(c)
    BY <2>1 DEF Kept
  <2>4. QED BY <2>1, <2>2, <2>3 DEF KeyInv, Kept
<1>4. CASE UNCHANGED vars
  BY <1>4 DEF vars, rowVars, backupVars, restoreVars, deleteVars, KeyInv, Kept
<1>5. QED BY <1>1, <1>2, <1>3, <1>4, Sides

LEMMA InitType == Init => TypeOK /\ KeyInv
<1> SUFFICES ASSUME Init PROVE TypeOK /\ KeyInv
  OBVIOUS
<1>1. 1 \in 1..LastSecond /\ 0 \in 0..LastSecond
  BY BackupStoreAssumption
<1>2. TypeOK
  BY <1>1 DEF Init, TypeOK
<1>3. KeyInv
  BY DEF Init, KeyInv, Kept
<1>4. QED BY <1>2, <1>3

\* Every variable keeps its type.
THEOREM StoreTypeCorrect == Spec => []TypeOK
<1>1. TypeOK /\ KeyInv /\ [Next]_vars => TypeOK' /\ KeyInv'
  BY TypesKept, KeyKept
<1>2. QED BY <1>1, InitType, PTL DEF Spec

-----------------------------------------------------------------------------
(* Restores.  One at a time; from its verification on, what it downloaded is *)
(* its backup; from the load on, that is what the graph holds.               *)

RestoreInv ==
    /\ \A r \in Restores : rpc[r] \notin {"idle", "end"} => rrow[r] = "active"
    /\ \A r, q \in Restores : rrow[r] = "active" /\ rrow[q] = "active" => r = q
    /\ \A r \in Restores : rpc[r] \in {"drop", "load", "schema", "finish"} => got[r] = from[r]
    /\ \A r \in Restores : rpc[r] = "load" => blue = {}
    /\ \A r \in Restores : rpc[r] \in {"schema", "finish"} => blue = {from[r]}
    /\ \A r \in Restores : rpc[r] = "finish" => served

LEMMA RestoreKept == TypeOK /\ RestoreInv /\ [Next]_vars => RestoreInv'
<1> SUFFICES ASSUME TypeOK, RestoreInv, [Next]_vars PROVE RestoreInv'
  OBVIOUS
<1>1. ASSUME UNCHANGED <<restoreVars, graphVars>> PROVE RestoreInv'
  BY <1>1 DEF restoreVars, graphVars, RestoreInv
<1>2. ASSUME NEW r \in Restores, RestoreSide(r) PROVE RestoreInv'
  <2> USE DEF TypeOK, RGoto
  <2>1. ASSUME NEW b \in Backups, RestoreTrigger(r, b) PROVE RestoreInv'
    BY <2>1 DEF RestoreTrigger, NoRestore, RestoreInv, graphVars
  <2>2. ASSUME rpc[r] \notin {"idle", "end"}
        PROVE  \A q \in Restores : q # r => rpc[q] \in {"idle", "end"} /\ rrow[q] # "active"
    BY <2>2 DEF RestoreInv
  <2>3. CASE Fetch(r) \/ Download(r)
    <3>1. /\ UNCHANGED <<rrow, from, blue, served>> /\ rpc[r] \notin {"idle", "end"}
          /\ rpc'[r] \in {"download", "verify"}
          /\ \A x \in Restores : x # r => rpc'[x] = rpc[x] /\ got'[x] = got[x]
      BY <2>3 DEF Fetch, Download, Step, graphVars
    <3>2. QED BY <3>1, <2>2 DEF RestoreInv
  <2>4. CASE Verify(r)
    BY <2>2, <2>4 DEF Verify, Step, RestoreInv, graphVars
  <2>5. CASE DropAll(r)
    BY <2>2, <2>5 DEF DropAll, Step, RestoreInv
  <2>6. CASE RunLive(r)
    <3>1. /\ UNCHANGED <<rrow, from, got, served>> /\ rpc[r] = "load"
          /\ blue' = blue \cup {got[r]} /\ rpc'[r] = "schema"
          /\ \A x \in Restores : x # r => rpc'[x] = rpc[x]
      BY <2>6 DEF RunLive, Step
    <3>2. got[r] = from[r] /\ blue = {} /\ rrow[r] = "active"
      BY <3>1 DEF RestoreInv
    <3>3. \A q \in Restores : q # r => rpc'[q] \in {"idle", "end"}
      BY <2>2, <3>1
    <3>4. blue' = {from'[r]} /\ \A q \in Restores : rpc'[q] \notin {"idle", "end"} => q = r
      BY <3>1, <3>2, <3>3
    <3>5. QED BY <3>1, <3>2, <3>4 DEF RestoreInv
  <2>7. CASE ApplySchema(r)
    BY <2>2, <2>7 DEF ApplySchema, Step, RestoreInv
  <2>8. CASE Finish(r) \/ RestoreFails(r)
    <3>1. rpc[r] \notin {"idle", "end"} /\ \E o \in {"completed", "failed"} : RestoreEnds(r, o)
      BY <2>8 DEF Finish, RestoreFails
    <3>2. QED BY <2>2, <3>1 DEF RestoreEnds, RestoreInv, graphVars
  <2>9. QED BY <1>2, <2>1, <2>3, <2>4, <2>5, <2>6, <2>7, <2>8 DEF RestoreSide
<1>3. QED BY <1>1, <1>2, Sides, BackupFrame, DeleteFrame DEF vars

\* A restore that completes leaves the graph with the data of the backup asked
\* for and nothing else, and with its schema.
THEOREM RestoresAreExact == Spec => RestoreIsExact
<1>1. Init => RestoreInv
  BY DEF Init, RestoreInv
<1>2. TypeOK /\ KeyInv /\ RestoreInv /\ [Next]_vars => TypeOK' /\ KeyInv' /\ RestoreInv'
  BY TypesKept, KeyKept, RestoreKept
<1>3. TypeOK /\ RestoreInv /\ [Next]_vars
        => [\A r \in Restores : rrow'[r] = "completed" /\ rrow[r] # "completed" =>
              blue = {from[r]} /\ served]_vars
  <2> SUFFICES ASSUME TypeOK, RestoreInv, [Next]_vars, NEW r \in Restores,
                      rrow'[r] = "completed", rrow[r] # "completed"
               PROVE  blue = {from[r]} /\ served
    OBVIOUS
  <2>1. PICK q \in Restores : RestoreSide(q)
    BY Sides, BackupFrame, DeleteFrame DEF vars, restoreVars
  <2>2. q = r /\ Finish(r)
    BY <2>1 DEF RestoreSide, RestoreTrigger, Fetch, Download, Verify, DropAll, RunLive, ApplySchema, Finish, RestoreFails,
       Step, RestoreEnds, TypeOK
  <2>3. QED BY <2>2 DEF Finish, RestoreInv
<1>4. QED BY <1>1, <1>2, <1>3, InitType, PTL DEF Spec, RestoreIsExact
-----------------------------------------------------------------------------
(* Retention.  Rows are numbered in the order of their creation; what is on a *)
(* list to prune has MinKeep newer completed backups for as long as it is     *)
(* there: another retention that takes one of those has MinKeep beyond it.    *)

Rows == {b \in Backups : row[b] # "absent"}
Targeted(d) == dpc[d] \in {"object", "row"}

OrderInv ==
    /\ \A b \in Backups : IF row[b] = "absent" THEN made[b] = 0 ELSE made[b] \in 1..Count
    /\ \A b, c \in Rows : made[b] = made[c] => b = c
    /\ \A d \in Deletes : Targeted(d) => target[d] \in Rows
    /\ byHand \subseteq Rows

Keeping(c) == Newer(c) \cap (Completed \cup byHand)
Enough(c) == Cardinality(Keeping(c)) >= MinKeep

PruneInv ==
    /\ \A b \in Backups : \A c \in prune[b] : Enough(c)
    /\ \A b, c \in Backups : pc[b] = "row" /\ Pruned(b, c) => store[key[c]] # c

\* What is on a list to prune is a row.
LEMMA PrunedAreRows ==
    ASSUME KeyInv, NEW b \in Backups, NEW c \in prune[b] PROVE c \in Rows
  BY DEF KeyInv, Kept, Past, Rows

\* A step inserts a row, or leaves the rows and their numbers.
LEMMA RowsEffect ==
    ASSUME TypeOK, KeyInv, OrderInv, [Next]_vars
    PROVE  \/ \E b \in Backups : Insert(b)
           \/ Rows' = Rows /\ made' = made
<1>1. ASSUME NEW b \in Backups, BackupSide(b), ~ Insert(b) PROVE Rows' = Rows /\ made' = made
  <2>1. CASE Zip(b) \/ Put(b) \/ ListOld(b)
    BY <2>1 DEF Zip, Put, ListOld, rowVars, Rows
  <2>2. CASE Reap(b) \/ Commit(b) \/ BackupFails(b)
    BY <2>2 DEF Reap, Commit, BackupFails, Rows, TypeOK
  <2>3. ASSUME NEW c \in Backups, PruneObject(b, c) PROVE Rows' = Rows /\ made' = made
    BY <2>3 DEF PruneObject, rowVars, Rows
  <2>4. ASSUME NEW c \in Backups, PruneRow(b, c) PROVE Rows' = Rows /\ made' = made
    <3>1. c \in Rows
      BY <2>4, PrunedAreRows DEF PruneRow, Pruned
    <3>2. QED BY <2>4, <3>1 DEF PruneRow, Rows, TypeOK
  <2>5. QED BY <1>1, <2>1, <2>2, <2>3, <2>4 DEF BackupSide, Trigger, Fire
<1>2. ASSUME NEW d \in Deletes, DeleteSide(d) PROVE Rows' = Rows /\ made' = made
  <2>1. CASE DeleteRow(d)
    <3>1. target[d] \in Rows
      BY <2>1 DEF DeleteRow, OrderInv, Targeted
    <3>2. QED BY <2>1, <3>1 DEF DeleteRow, Rows, TypeOK
  <2>2. QED BY <1>2, <2>1 DEF DeleteSide, DeleteRead, DeleteObject, rowVars, Rows
<1>3. ASSUME UNCHANGED rowVars PROVE Rows' = Rows /\ made' = made
  BY <1>3 DEF rowVars, Rows
<1>4. QED BY <1>1, <1>2, <1>3, Sides, RestoreFrame DEF vars

LEMMA InsertEffect ==
    ASSUME TypeOK, NEW b \in Backups, Insert(b)
    PROVE  /\ b \notin Rows /\ Rows' = Rows \cup {b} /\ Count' = Count + 1
           /\ made'[b] = Count + 1 /\ \A c \in Backups : c # b => made'[c] = made[c]
           /\ Completed' = Completed
<1>1. b \notin Rows /\ Rows' = Rows \cup {b}
  BY DEF Insert, Rows, TypeOK
<1>2. IsFiniteSet(Rows)
  BY BackupStoreAssumption, FS_Subset DEF Rows
<1>3. Count' = Count + 1
  BY <1>1, <1>2, FS_AddElement DEF Count, Rows
<1>4. QED BY <1>1, <1>3, CountType DEF Insert, TypeOK, Completed

LEMMA OrderKept == TypeOK /\ KeyInv /\ OrderInv /\ [Next]_vars => OrderInv'
<1> SUFFICES ASSUME TypeOK, KeyInv, OrderInv, [Next]_vars PROVE OrderInv'
  OBVIOUS
<1>1. ASSUME NEW b \in Backups, Insert(b) PROVE OrderInv'
  <2>1. UNCHANGED <<dpc, target, byHand>>
    BY <1>1 DEF Insert, deleteVars
  <2>2. \A c \in Backups : IF row'[c] = "absent" THEN made'[c] = 0 ELSE made'[c] \in 1..Count'
    <3>1. \A c \in Backups : c # b => row'[c] = row[c] /\ made'[c] = made[c]
      BY <1>1 DEF Insert, TypeOK
    <3>2. row'[b] # "absent" /\ made'[b] = Count + 1 /\ Count' = Count + 1 /\ Count \in Nat
      BY <1>1, InsertEffect, CountType DEF Rows
    <3>3. QED BY <3>1, <3>2 DEF OrderInv
  <2>3. \A c \in Rows : c \in Backups /\ made[c] \in 1..Count
    BY DEF OrderInv, Rows
  <2>4. \A c, e \in Rows' : made'[c] = made'[e] => c = e
    BY <1>1, <2>3, InsertEffect, CountType DEF OrderInv
  <2>5. QED BY <1>1, <2>1, <2>2, <2>4, InsertEffect DEF OrderInv, Targeted
<1>2. ASSUME Rows' = Rows, made' = made PROVE OrderInv'
  <2>1. Count' = Count /\ \A c \in Backups : row'[c] = "absent" <=> row[c] = "absent"
    BY <1>2 DEF Count, Rows
  <2>2. /\ \A c \in Backups : IF row'[c] = "absent" THEN made'[c] = 0 ELSE made'[c] \in 1..Count'
        /\ \A c, e \in Rows' : made'[c] = made'[e] => c = e
    BY <1>2, <2>1 DEF OrderInv
  <2>3. ASSUME UNCHANGED <<dpc, target, byHand>> PROVE OrderInv'
    BY <1>2, <2>2, <2>3 DEF OrderInv, Targeted
  <2>4. ASSUME NEW d \in Deletes, DeleteSide(d) PROVE OrderInv'
    <3>1. ASSUME NEW b \in Backups, DeleteRead(d, b) PROVE OrderInv'
      BY <1>2, <2>2, <3>1 DEF DeleteRead, DGoto, OrderInv, Targeted, Rows, TypeOK
    <3>2. CASE DeleteObject(d)
      BY <1>2, <2>2, <3>2 DEF DeleteObject, DGoto, OrderInv, Targeted, TypeOK
    <3>3. CASE DeleteRow(d)
      <4>1. target[d] \in Rows
        BY <3>3 DEF DeleteRow, OrderInv, Targeted
      <4>2. byHand' \subseteq Rows'
        BY <1>2, <3>3, <4>1 DEF DeleteRow, OrderInv
      <4>3. \A e \in Deletes : Targeted(e)' => target'[e] \in Rows'
        BY <1>2, <3>3 DEF DeleteRow, DGoto, OrderInv, Targeted, TypeOK
      <4>4. QED BY <2>2, <4>2, <4>3 DEF OrderInv
    <3>4. QED BY <2>4, <3>1, <3>2, <3>3 DEF DeleteSide
  <2>5. QED BY <2>3, <2>4, Sides, BackupFrame, RestoreFrame DEF vars, deleteVars
<1>3. QED BY <1>1, <1>2, RowsEffect

\* Numbers are numbers, and of two rows one is newer.
LEMMA KeepingFinite == ASSUME NEW c PROVE IsFiniteSet(Keeping(c)) /\ Cardinality(Keeping(c)) \in Nat
<1>1. Keeping(c) \subseteq Backups
  BY DEF Keeping, Newer
<1>2. QED BY <1>1, BackupStoreAssumption, FS_Subset, FS_CardinalityType

\* Of what keeps a row prunable a step takes at most the row it prunes itself.
LEMMA KeepingStays ==
    ASSUME TypeOK, KeyInv, OrderInv, [Next]_vars, NEW c \in Rows
    PROVE  \/ Keeping(c) \subseteq Keeping(c)'
           \/ \E b, d \in Backups : PruneRow(b, d) /\ Keeping(c) \ {d} \subseteq Keeping(c)'
<1>1. c \in Backups /\ Completed \cup byHand \subseteq Rows /\ Rows \subseteq Backups
  BY DEF Rows, Completed, OrderInv
<1>2. \A x \in Rows : made'[x] = made[x]
  BY <1>1, RowsEffect, InsertEffect
<1>3. \A x \in Rows : x \in Newer(c) => x \in Newer(c)'
  BY <1>1, <1>2 DEF Newer
<1>4. ASSUME NEW D, (Completed \cup byHand) \ D \subseteq Completed' \cup byHand'
      PROVE  Keeping(c) \ D \subseteq Keeping(c)'
  BY <1>1, <1>3, <1>4 DEF Keeping
<1>5. ASSUME Completed \cup byHand \subseteq Completed' \cup byHand'
      PROVE  Keeping(c) \subseteq Keeping(c)'
  BY <1>1, <1>3, <1>5 DEF Keeping
<1>6. ASSUME Completed \subseteq Completed', byHand' = byHand PROVE Keeping(c) \subseteq Keeping(c)'
  BY <1>5, <1>6
<1>7. ASSUME NEW b \in Backups, BackupSide(b),
             ~ \E d \in Backups : PruneRow(b, d)
      PROVE  Keeping(c) \subseteq Keeping(c)'
  <2>1. byHand' = byHand
    BY <1>7, BackupFrame
  <2>2. CASE Trigger(b) \/ Fire(b)
    BY <1>6, <2>1, <2>2, InsertEffect DEF Trigger, Fire
  <2>3. CASE Zip(b) \/ Put(b) \/ ListOld(b) \/ \E d \in Backups : PruneObject(b, d)
    BY <1>6, <2>1, <2>3 DEF Zip, Put, ListOld, PruneObject, rowVars, Completed
  <2>4. CASE Reap(b) \/ Commit(b) \/ BackupFails(b)
    <3>1. \A x \in Backups : row[x] = "completed" => row'[x] = "completed"
      BY <2>4 DEF Reap, Commit, BackupFails, TypeOK
    <3>2. QED BY <1>6, <2>1, <3>1 DEF Completed
  <2>5. QED BY <1>7, <2>2, <2>3, <2>4 DEF BackupSide
<1>8. ASSUME NEW b \in Backups, NEW d \in Backups, PruneRow(b, d)
      PROVE  Keeping(c) \ {d} \subseteq Keeping(c)'
  <2>1. byHand' = byHand /\ \A x \in Backups : x # d => row'[x] = row[x]
    BY <1>8 DEF PruneRow, TypeOK
  <2>2. (Completed \cup byHand) \ {d} \subseteq Completed' \cup byHand'
    BY <2>1 DEF Completed
  <2>3. QED BY <1>4, <2>2
<1>9. ASSUME NEW d \in Deletes, DeleteSide(d) PROVE Keeping(c) \subseteq Keeping(c)'
  <2>1. CASE DeleteRow(d)
    <3>1. byHand \subseteq byHand' /\ \A x \in Completed : x \in Completed' \/ x \in byHand'
      BY <2>1 DEF DeleteRow, Completed, TypeOK
    <3>2. QED BY <1>5, <3>1
  <2>2. QED BY <1>6, <1>9, <2>1 DEF DeleteSide, DeleteRead, DeleteObject, rowVars, Completed
<1>10. ASSUME UNCHANGED <<rowVars, byHand>> PROVE Keeping(c) \subseteq Keeping(c)'
  BY <1>6, <1>10 DEF rowVars, Completed
<1>11. QED BY <1>7, <1>8, <1>9, <1>10, Sides, RestoreFrame DEF vars

\* A list has MinKeep beyond each of its rows, also after another has pruned.
LEMMA EnoughStays ==
    ASSUME TypeOK, KeyInv, OrderInv, PruneInv, [Next]_vars, NEW c \in Rows, Enough(c)
    PROVE  Enough(c)'
<1>1. IsFiniteSet(Keeping(c)') /\ Cardinality(Keeping(c)') \in Nat
  <2>1. Keeping(c)' \subseteq Backups
    BY DEF Keeping, Newer
  <2>2. QED BY <2>1, BackupStoreAssumption, FS_Subset, FS_CardinalityType
<1>2. MinKeep \in Nat
  BY BackupStoreAssumption
<1>3. ASSUME NEW e, Enough(e), Keeping(e) \subseteq Keeping(c)' PROVE Enough(c)'
  <2>1. Cardinality(Keeping(e)) <= Cardinality(Keeping(c)')
    BY <1>1, <1>3, FS_Subset
  <2>2. QED BY <1>1, <1>2, <1>3, <2>1, KeepingFinite DEF Enough
<1>4. CASE Keeping(c) \subseteq Keeping(c)'
  BY <1>3, <1>4
<1>5. ASSUME NEW b \in Backups, NEW d \in Backups, PruneRow(b, d), Keeping(c) \ {d} \subseteq Keeping(c)'
      PROVE  Enough(c)'
  <2>1. CASE d \notin Keeping(c)
    BY <1>4, <1>5, <2>1
  <2>2. CASE d \in Keeping(c)
    <3>1. Enough(d)
      BY <1>5 DEF PruneInv, PruneRow, Pruned
    <3>2. made[d] > made[c] /\ c \in Backups
      BY <2>2 DEF Keeping, Newer, Rows
    <3>3. \A x \in Newer(d) : x \in Newer(c) /\ x # d
      BY <3>2 DEF Newer, TypeOK
    <3>4. Keeping(d) \subseteq Keeping(c) \ {d}
      BY <3>3 DEF Keeping
    <3>5. QED BY <1>3, <1>5, <3>1, <3>4
  <2>3. QED BY <2>1, <2>2
<1>6. QED BY <1>4, <1>5, KeepingStays

\* An object is written by its own backup only, before anything can prune that.
LEMMA GoneStaysGone ==
    ASSUME TypeOK, KeyInv, [Next]_vars, NEW c, Kept(c), store[key[c]] # c
    PROVE  store'[key'[c]] # c
<1>1. c \in Backups /\ c # None /\ pc[c] \in Past /\ key[c] \in 1..LastSecond /\ row[c] # "absent"
  BY BackupStoreAssumption DEF Kept, KeyInv, Past
<1>2. ASSUME NEW k, key' = key, store' = [store EXCEPT ![k] = None] \/ store' = store
      PROVE  store'[key'[c]] # c
  BY <1>1, <1>2 DEF TypeOK
<1>3. ASSUME NEW b \in Backups, BackupSide(b) PROVE store'[key'[c]] # c
  <2>1. CASE Trigger(b) \/ Fire(b) \/ Reap(b) \/ Commit(b) \/ ListOld(b)
    BY <2>1 DEF Trigger, Fire, Insert, Reap, Commit, ListOld, rowVars
  <2>2. CASE Zip(b) \/ BackupFails(b)
    BY <1>1, <2>2 DEF Zip, BackupFails, Past, TypeOK
  <2>3. CASE Put(b)
    <3>1. b # c /\ key' = key /\ store' = [store EXCEPT ![key[b]] = b]
      BY <1>1, <2>3 DEF Put, Past, rowVars
    <3>2. QED BY <1>1, <3>1 DEF TypeOK
  <2>4. ASSUME NEW d \in Backups, PruneObject(b, d) \/ PruneRow(b, d) PROVE store'[key'[c]] # c
    BY <1>2, <2>4 DEF PruneObject, PruneRow, rowVars
  <2>5. QED BY <1>3, <2>1, <2>2, <2>3, <2>4 DEF BackupSide
<1>4. ASSUME NEW d \in Deletes, DeleteSide(d) PROVE store'[key'[c]] # c
  BY <1>2, <1>4 DEF DeleteSide, DeleteRead, DeleteObject, DeleteRow, rowVars
<1>5. ASSUME UNCHANGED <<key, store>> PROVE store'[key'[c]] # c
  BY <1>5
<1>6. QED BY <1>3, <1>4, <1>5, Sides, RestoreFrame DEF vars, rowVars

\* What a step does to one list and to the place of its retention.
LEMMA ListEffect ==
    ASSUME TypeOK, KeyInv, [Next]_vars, NEW b \in Backups
    PROVE  /\ \A c \in prune'[b] : c \in prune[b] \/ (c \in Backups /\ row[c] = "completed" /\ Enough(c))
           /\ pc'[b] = "row" =>
                 \/ pc[b] = "row" /\ prune'[b] = prune[b]
                 \/ /\ prune'[b] = prune[b] /\ key' = key
                    /\ \E d \in Backups : Pruned(b, d) /\ store' = [store EXCEPT ![key[d]] = None]
<1>1. ASSUME NEW a \in Backups, Trigger(a) \/ Fire(a) \/ Zip(a) \/ Put(a) \/ Reap(a) \/ Commit(a) \/ BackupFails(a)
      PROVE  prune'[b] = prune[b] /\ (pc'[b] = "row" => pc[b] = "row")
  BY <1>1 DEF Trigger, Fire, Insert, Zip, Put, Reap, Commit, BackupFails, Goto, TypeOK, backupVars
<1>2. ASSUME NEW a \in Backups, ListOld(a)
      PROVE  /\ \A c \in prune'[b] : c \in prune[b] \/ (c \in Backups /\ row[c] = "completed" /\ Enough(c))
             /\ pc'[b] = "row" => pc[b] = "row" /\ prune'[b] = prune[b]
  <2>1. CASE a # b
    BY <1>2, <2>1 DEF ListOld, Goto, TypeOK
  <2>2. CASE a = b
    <3>1. pc'[b] # "row"
      BY <1>2, <2>2 DEF ListOld, Goto, TypeOK
    <3>2. \A c \in prune'[b] : c \in Backups /\ row[c] = "completed"
                               /\ Cardinality(Newer(c) \cap Completed) >= MinKeep
      BY <1>2, <2>2 DEF ListOld, Expired, TypeOK
    <3>3. ASSUME NEW c \in prune'[b] PROVE Enough(c)
      <4>1. Newer(c) \cap Completed \subseteq Keeping(c)
        BY DEF Keeping
      <4>2. Cardinality(Newer(c) \cap Completed) <= Cardinality(Keeping(c))
        BY <4>1, KeepingFinite, FS_Subset
      <4>3. Cardinality(Newer(c) \cap Completed) \in Nat
        BY <4>1, KeepingFinite, FS_Subset, FS_CardinalityType
      <4>4. QED BY <3>2, <4>2, <4>3, KeepingFinite, BackupStoreAssumption DEF Enough
    <3>4. QED BY <3>1, <3>2, <3>3
  <2>3. QED BY <2>1, <2>2
<1>3. ASSUME NEW a \in Backups, NEW d \in Backups, PruneObject(a, d)
      PROVE  /\ prune'[b] \subseteq prune[b]
             /\ pc'[b] = "row" =>
                   \/ pc[b] = "row" /\ prune'[b] = prune[b]
                   \/ /\ prune'[b] = prune[b] /\ key' = key
                      /\ Pruned(b, d) /\ store' = [store EXCEPT ![key[d]] = None]
  <2>1. key' = key /\ Pruned(a, d)
    BY <1>3 DEF PruneObject, rowVars
  <2>2. QED BY <1>3, <2>1, ObjectEffect
<1>4. ASSUME NEW a \in Backups, NEW d \in Backups, PruneRow(a, d)
      PROVE  prune'[b] \subseteq prune[b] /\ (pc'[b] = "row" => pc[b] = "row" /\ prune'[b] = prune[b])
  <2>1. Skip(a, d)
    BY <1>4 DEF PruneRow
  <2>2. prune'[b] = prune[b] \/ prune'[b] = prune[b] \ {d}
    BY <2>1, SkipEffect
  <2>3. pc'[b] = "row" => pc[b] = "row" /\ prune'[b] = prune[b]
    BY <2>1, SkipEffect
  <2>4. QED BY <2>2, <2>3
<1>5. ASSUME UNCHANGED backupVars PROVE prune'[b] = prune[b] /\ pc'[b] = pc[b]
  BY <1>5 DEF backupVars
<1>6. ASSUME NEW a \in Backups, BackupSide(a)
      PROVE  \/ \E d \in Backups : PruneObject(a, d) \/ PruneRow(a, d)
             \/ ListOld(a)
             \/ Trigger(a) \/ Fire(a) \/ Zip(a) \/ Put(a) \/ Reap(a) \/ Commit(a) \/ BackupFails(a)
  BY <1>6 DEF BackupSide
<1>7. QED
  <2>1. ASSUME NEW a \in Backups, BackupSide(a)
        PROVE  /\ \A c \in prune'[b] : c \in prune[b] \/ (c \in Backups /\ row[c] = "completed" /\ Enough(c))
               /\ pc'[b] = "row" =>
                     \/ pc[b] = "row" /\ prune'[b] = prune[b]
                     \/ /\ prune'[b] = prune[b] /\ key' = key
                        /\ \E d \in Backups : Pruned(b, d) /\ store' = [store EXCEPT ![key[d]] = None]
    BY <1>1, <1>2, <1>3, <1>4, <1>6, <2>1
  <2>2. QED BY <1>5, <2>1, Sides, DeleteFrame, RestoreFrame DEF vars

LEMMA PruneKept == TypeOK /\ KeyInv /\ OrderInv /\ PruneInv /\ [Next]_vars => PruneInv'
<1> SUFFICES ASSUME TypeOK, KeyInv, OrderInv, PruneInv, [Next]_vars PROVE PruneInv'
  OBVIOUS
<1>1. ASSUME NEW b \in Backups, NEW c \in prune'[b] PROVE Enough(c)'
  <2>1. c \in Rows /\ Enough(c)
    BY <1>1, ListEffect, PrunedAreRows DEF PruneInv, Rows
  <2>2. QED BY <2>1, EnoughStays
<1>2. ASSUME NEW b \in Backups, NEW c \in Backups, pc'[b] = "row", Pruned(b, c)'
      PROVE  store'[key'[c]] # c
  <2>1. prune'[b] = prune[b]
    BY <1>2, ListEffect
  <2>2. c \in prune[b] /\ prune[b] \subseteq Rows /\ Rows \subseteq Backups /\ Kept(c)
    BY <1>2, <2>1, PrunedAreRows DEF Pruned, Rows, KeyInv
  <2>3. \A x \in Rows : made'[x] = made[x]
    BY RowsEffect, InsertEffect DEF Rows
  <2>4. Pruned(b, c)
    BY <1>2, <2>1, <2>2, <2>3 DEF Pruned, Newer
  <2>5. CASE pc[b] = "row"
    BY <2>2, <2>4, <2>5, GoneStaysGone DEF PruneInv
  <2>6. ASSUME NEW d \in Backups, Pruned(b, d), key' = key, store' = [store EXCEPT ![key[d]] = None]
        PROVE  store'[key'[c]] # c
    <3>1. ~ made[c] > made[d] /\ ~ made[d] > made[c] /\ made[c] \in Nat /\ made[d] \in Nat
      BY <2>4, <2>6 DEF Pruned, Newer, TypeOK
    <3>2. c = d
      BY <2>2, <2>6, <3>1 DEF OrderInv, Pruned
    <3>3. key[c] \in 1..LastSecond /\ c # None
      BY <2>2, BackupStoreAssumption DEF Kept
    <3>4. QED BY <2>6, <3>2, <3>3 DEF TypeOK
  <2>7. QED BY <1>2, <2>5, <2>6, ListEffect
<1>3. QED BY <1>1, <1>2 DEF PruneInv

\* Retention takes a backup only if MinKeep newer ones completed and are still
\* there, unless deleted by hand, and never a row whose object it leaves behind.
THEOREM RetentionKeepsMinimum == Spec => RetentionIsSafe
<1>1. Init => OrderInv /\ PruneInv
  BY DEF Init, OrderInv, PruneInv, Rows, Targeted
<1>2. TypeOK /\ KeyInv /\ OrderInv /\ PruneInv /\ [Next]_vars => TypeOK' /\ KeyInv' /\ OrderInv' /\ PruneInv'
  BY TypesKept, KeyKept, OrderKept, PruneKept
<1>3. PruneInv => [\A b, c \in Backups : Pruned(b, c) =>
          /\ pc[b] = "object" /\ pc'[b] = "row"
                => Cardinality(Newer(c) \cap (Completed \cup byHand)) >= MinKeep
          /\ pc[b] = "row" /\ row'[c] # row[c] => store[key[c]] # c]_vars
  BY DEF PruneInv, Pruned, Enough, Keeping
<1>4. QED BY <1>1, <1>2, <1>3, InitType, PTL DEF Spec, RetentionIsSafe
=============================================================================
