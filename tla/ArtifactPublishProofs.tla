------------------------ MODULE ArtifactPublishProofs ------------------------
(***************************************************************************)
(* Theorems about ArtifactPublish, for any number of exports.  TypeOK needs *)
(* no assumption; the version history is proved for publishes that do not  *)
(* overlap, with every fault allowed; what a publish leaves behind for any *)
(* overlap, without the faults that each theorem names.                    *)
(***************************************************************************)
EXTENDS ArtifactPublish, TLAPS

\* Every variable keeps its type, whatever fails.
THEOREM PublishTypeCorrect == Spec => []TypeOK
<1>1. Init => TypeOK
  BY DEF Init, TypeOK, RowStatuses, ArtStatuses, PCs
<1>2. TypeOK /\ [Next]_vars => TypeOK'
  <2> SUFFICES ASSUME TypeOK, [Next]_vars PROVE TypeOK'
    OBVIOUS
  <2> USE DEF TypeOK, RowStatuses, ArtStatuses, PCs, Publishing, Goto,
              jobVars, artVars, regVars
  <2>1. CASE UNCHANGED vars
    BY <2>1 DEF vars
  <2>2. ASSUME NEW j \in Jobs, Trigger(j) PROVE TypeOK'
    BY <2>2 DEF Trigger
  <2>3. ASSUME NEW j \in Jobs, WriteZip(j) \/ MarkFailed(j) \/ Cleanup(j) \/ DeleteArtifact(j)
        PROVE TypeOK'
    BY <2>3 DEF WriteZip, MarkFailed, Cleanup, DeleteArtifact, Written
  <2>4. ASSUME NEW j \in Jobs, Commit(j) PROVE TypeOK'
    BY <2>4 DEF Commit, WrittenInCtx
  <2>5. ASSUME NEW j \in Jobs, NextTag(j) PROVE TypeOK'
    <3>1. Taken \subseteq Nat
      BY DEF Taken, Completed
    <3> QED BY <2>5, <3>1 DEF NextTag
  <2>6. ASSUME NEW j \in Jobs, InsertRow(j) \/ Bundle(j) \/ Record(j) \/ RecordFailure(j)
        PROVE TypeOK'
    BY <2>6 DEF InsertRow, Bundle, Record, RecordFailure, WrittenInCtx
  <2>7. ASSUME NEW j \in Jobs, Push(j) PROVE TypeOK'
    BY <2>7 DEF Push
  <2>8. ASSUME NEW j \in Jobs, TagLatest(j) \/ Sign(j) \/ Unsign(j) PROVE TypeOK'
    BY <2>8 DEF TagLatest, Sign, Unsign
  <2>9. ASSUME NEW j \in Jobs, Timeout(j) \/ Crash(j) PROVE TypeOK'
    BY <2>9 DEF Timeout, Crash
  <2> QED BY <2>1, <2>2, <2>3, <2>4, <2>5, <2>6, <2>7, <2>8, <2>9 DEF Next, Step
<1> QED BY <1>1, <1>2, PTL DEF Spec

-----------------------------------------------------------------------------
(* One publish at a time.                                                  *)

Busy(j) == pc[j] \notin {"idle", "end", "dead"}

OneBusy == \A i, j \in Jobs : Busy(i) /\ Busy(j) => i = j

\* Until its manifest is pushed a job has none and no completed row; until the
\* publish is recorded it has no completed row.
Unpushed == {"idle", "export", "commit", "tag", "insert", "bundle", "push"}
NotYet == \A j \in Jobs :
    /\ row[j] = "absent" => pc[j] = "idle"
    /\ pc[j] \in Unpushed => j \notin Completed /\ j \notin pushed
    /\ pc[j] \in Publishing => j \notin Completed

\* The number a publish holds is still the one after the highest completed.
Numbered == {"insert", "bundle", "push", "latest", "sign", "unsign", "record", "recordFailure"}
TagIsNext == \A j \in Jobs : pc[j] \in Numbered =>
    \E n \in Taken : (\A m \in Taken : m <= n) /\ tag[j] = n + 1

\* From the push to the record the tag resolves to this manifest, and it is
\* signed once Sign said so.
OwnTag == \A j \in Jobs :
    /\ pc[j] \in {"latest", "sign", "record"} =>
          j \in pushed /\ \A i \in Jobs : <<tag[j], i>> \in tags <=> i = j
    /\ pc[j] = "record" => j \in signed

PublishInv == OneBusy /\ NotYet /\ TagIsNext /\ OwnTag /\ HistoryResolves /\ TagsUnique

\* A step after which no completed row, tag number, manifest, signature or tag
\* of the registry has changed.
Kept == /\ Completed' = Completed /\ tag' = tag
        /\ pushed' = pushed /\ signed' = signed /\ tags' = tags
        /\ \A i \in Jobs : row'[i] = "absent" => row[i] = "absent"

LEMMA KeptStill ==
    ASSUME PublishInv, Kept, pc' = pc
    PROVE  PublishInv'
<1>1. Taken' = Taken
  BY DEF Kept, Taken
<1>2. OneBusy' /\ NotYet'
  BY DEF PublishInv, OneBusy, NotYet, Busy, Kept
<1>3. TagIsNext' /\ OwnTag'
  BY <1>1 DEF PublishInv, TagIsNext, OwnTag, Kept
<1>4. HistoryResolves' /\ TagsUnique'
  BY DEF PublishInv, HistoryResolves, TagsUnique, Kept
<1> QED BY <1>2, <1>3, <1>4 DEF PublishInv

\* The invariant survives a goroutine's move to q that keeps all of this, if q
\* claims no more than where the goroutine was.
LEMMA KeptMoves ==
    ASSUME TypeOK, PublishInv, Kept,
           NEW j \in Jobs, Busy(j), NEW q, pc' = [pc EXCEPT ![j] = q],
           q \in Unpushed => pc[j] \in Unpushed,
           q \in Publishing => pc[j] \in Publishing \cup Unpushed,
           q \in Numbered => pc[j] \in Numbered,
           q \in {"latest", "sign", "record"} => pc[j] \in {"latest", "sign", "record"},
           q = "record" => pc[j] = "record"
    PROVE  PublishInv'
<1>1. Taken' = Taken
  BY DEF Kept, Taken
<1>2. \A i \in Jobs : pc'[i] = IF i = j THEN q ELSE pc[i]
  BY DEF TypeOK
<1>3. OneBusy'
  BY <1>2 DEF PublishInv, OneBusy, Busy
<1>4. NotYet'
  BY <1>2 DEF PublishInv, NotYet, Kept, Busy
<1>5. TagIsNext'
  BY <1>1, <1>2 DEF PublishInv, TagIsNext, Kept
<1>6. OwnTag'
  BY <1>2 DEF PublishInv, OwnTag, Kept
<1>7. HistoryResolves' /\ TagsUnique'
  BY DEF PublishInv, HistoryResolves, TagsUnique, Kept
<1> QED BY <1>3, <1>4, <1>5, <1>6, <1>7 DEF PublishInv

LEMMA TagIsFree ==
    ASSUME TypeOK, PublishInv, NEW j \in Jobs, pc[j] \in Numbered
    PROVE  \A i \in Completed : tag[i] # tag[j]
<1>1. PICK n \in Taken : (\A m \in Taken : m <= n) /\ tag[j] = n + 1
  BY DEF PublishInv, TagIsNext
<1>2. \A i \in Completed : tag[i] \in Taken /\ tag[i] \in Nat
  BY DEF Taken, Completed, TypeOK
<1>3. n \in Nat
  BY DEF Taken, Completed, TypeOK
<1> QED BY <1>1, <1>2, <1>3

\* What NextTag, Push, Sign, Unsign and Record change when they succeed.
LEMMA TagStep ==
    ASSUME TypeOK, PublishInv, NEW j \in Jobs, pc[j] = "tag",
           NEW n \in Taken, \A m \in Taken : m <= n,
           tag' = [tag EXCEPT ![j] = n + 1], pc' = [pc EXCEPT ![j] = "insert"],
           UNCHANGED <<row, art, regVars>>
    PROVE  PublishInv'
<1>1. Completed' = Completed /\ j \notin Completed
  BY DEF Completed, PublishInv, NotYet, Unpushed
<1>2. \A i \in Jobs : tag'[i] = IF i = j THEN n + 1 ELSE tag[i]
  BY DEF TypeOK
<1>3. Taken' = Taken
  BY <1>1, <1>2 DEF Taken, Completed
<1>4. \A i \in Jobs : pc'[i] = IF i = j THEN "insert" ELSE pc[i]
  BY DEF TypeOK
<1>5. \A i \in Jobs : i # j => ~Busy(i)
  BY DEF PublishInv, OneBusy, Busy
<1>6. OneBusy' /\ NotYet'
  BY <1>1, <1>4, <1>5 DEF OneBusy, NotYet, Busy, PublishInv, regVars, Unpushed, Publishing
<1>7. TagIsNext'
  BY <1>2, <1>3, <1>4, <1>5 DEF TagIsNext, Busy, Numbered
<1>8. OwnTag'
  BY <1>4, <1>5 DEF OwnTag, Busy
<1>9. HistoryResolves' /\ TagsUnique'
  BY <1>1, <1>2 DEF HistoryResolves, TagsUnique, PublishInv, Completed, regVars
<1> QED BY <1>6, <1>7, <1>8, <1>9 DEF PublishInv

LEMMA PushStep ==
    ASSUME TypeOK, PublishInv, NEW j \in Jobs, pc[j] = "push",
           pushed' = pushed \cup {j},
           tags' = {t \in tags : t[1] # tag[j]} \cup {<<tag[j], j>>},
           pc' = [pc EXCEPT ![j] = "latest"],
           UNCHANGED <<row, artVars, signed>>
    PROVE  PublishInv'
<1>1. /\ Completed' = Completed /\ Taken' = Taken /\ tag' = tag
      /\ j \notin Completed
  BY DEF Completed, Taken, artVars, PublishInv, NotYet, Unpushed
<1>2. \A i \in Jobs : pc'[i] = IF i = j THEN "latest" ELSE pc[i]
  BY DEF TypeOK
<1>3. \A i \in Jobs : i # j => ~Busy(i)
  BY DEF PublishInv, OneBusy, Busy
<1>4. \A i \in Completed : tag[i] # tag[j]
  BY TagIsFree DEF Numbered
<1>5. OneBusy' /\ NotYet'
  BY <1>1, <1>2, <1>3 DEF OneBusy, NotYet, Busy, PublishInv, Unpushed, Publishing
<1>6. TagIsNext'
  BY <1>1, <1>2, <1>3 DEF TagIsNext, Busy, Numbered, PublishInv
<1>7. \A n, i : n # tag[j] => (<<n, i>> \in tags' <=> <<n, i>> \in tags)
  OBVIOUS
<1>8. \A i : <<tag[j], i>> \in tags' <=> i = j
  OBVIOUS
<1>9. OwnTag'
  BY <1>1, <1>2, <1>3, <1>8 DEF OwnTag, Busy
<1>10. HistoryResolves' /\ TagsUnique'
  BY <1>1, <1>4, <1>7 DEF HistoryResolves, TagsUnique, PublishInv, Completed
<1> QED BY <1>5, <1>6, <1>9, <1>10 DEF PublishInv

LEMMA SignStep ==
    ASSUME TypeOK, PublishInv, NEW j \in Jobs, pc[j] = "sign",
           signed' = signed \cup {j}, pc' = [pc EXCEPT ![j] = "record"],
           UNCHANGED <<row, artVars, pushed, tags>>
    PROVE  PublishInv'
<1>1. /\ Completed' = Completed /\ Taken' = Taken /\ tag' = tag
  BY DEF Completed, Taken, artVars
<1>2. \A i \in Jobs : pc'[i] = IF i = j THEN "record" ELSE pc[i]
  BY DEF TypeOK
<1>3. OneBusy' /\ NotYet'
  BY <1>1, <1>2 DEF OneBusy, NotYet, Busy, PublishInv, Unpushed, Publishing
<1>4. TagIsNext' /\ OwnTag'
  BY <1>1, <1>2 DEF TagIsNext, Numbered, OwnTag, PublishInv
<1>5. HistoryResolves' /\ TagsUnique'
  BY <1>1 DEF HistoryResolves, TagsUnique, PublishInv
<1> QED BY <1>3, <1>4, <1>5 DEF PublishInv

LEMMA UnsignStep ==
    ASSUME TypeOK, PublishInv, NEW j \in Jobs, pc[j] = "unsign",
           pushed' = pushed \ {j}, tags' = {t \in tags : t[2] # j},
           pc' = [pc EXCEPT ![j] = "recordFailure"],
           UNCHANGED <<row, artVars, signed>>
    PROVE  PublishInv'
<1>1. /\ Completed' = Completed /\ Taken' = Taken /\ tag' = tag
      /\ j \notin Completed
  BY DEF Completed, Taken, artVars, PublishInv, NotYet, Publishing
<1>2. \A i \in Jobs : pc'[i] = IF i = j THEN "recordFailure" ELSE pc[i]
  BY DEF TypeOK
<1>3. \A i \in Jobs : i # j => ~Busy(i)
  BY DEF PublishInv, OneBusy, Busy
<1>4. OneBusy' /\ NotYet'
  BY <1>1, <1>2 DEF OneBusy, NotYet, Busy, PublishInv, Unpushed, Publishing
<1>5. TagIsNext'
  BY <1>1, <1>2 DEF TagIsNext, Numbered, PublishInv
<1>6. OwnTag'
  BY <1>2, <1>3 DEF OwnTag, Busy
<1>7. \A n, i : <<n, i>> \in tags' <=> <<n, i>> \in tags /\ i # j
  OBVIOUS
<1>8. HistoryResolves' /\ TagsUnique'
  BY <1>1, <1>7 DEF HistoryResolves, TagsUnique, PublishInv, Completed
<1> QED BY <1>4, <1>5, <1>6, <1>8 DEF PublishInv

LEMMA RecordStep ==
    ASSUME TypeOK, PublishInv, NEW j \in Jobs, pc[j] = "record",
           art' = [art EXCEPT ![j] = "completed"], pc' = [pc EXCEPT ![j] = "cleanup"],
           UNCHANGED <<row, tag, regVars>>
    PROVE  PublishInv'
<1>1. Completed' = Completed \cup {j} /\ j \notin Completed
  BY DEF Completed, TypeOK, PublishInv, NotYet, Publishing
<1>2. \A i \in Jobs : pc'[i] = IF i = j THEN "cleanup" ELSE pc[i]
  BY DEF TypeOK
<1>3. \A i \in Jobs : i # j => ~Busy(i)
  BY DEF PublishInv, OneBusy, Busy
<1>4. \A i \in Completed : tag[i] # tag[j]
  BY TagIsFree DEF Numbered
<1>5. OneBusy' /\ NotYet'
  BY <1>1, <1>2, <1>3 DEF OneBusy, NotYet, Busy, PublishInv, Unpushed, Publishing, regVars
<1>6. TagIsNext' /\ OwnTag'
  BY <1>2, <1>3 DEF TagIsNext, OwnTag, Numbered, Busy
<1>7. HistoryResolves'
  BY <1>1 DEF HistoryResolves, PublishInv, OwnTag, regVars
<1>8. TagsUnique'
  BY <1>1, <1>4 DEF TagsUnique, PublishInv
<1> QED BY <1>5, <1>6, <1>7, <1>8 DEF PublishInv

LEMMA TriggerStep ==
    ASSUME ~Overlapping, TypeOK, PublishInv, NEW j \in Jobs, Trigger(j)
    PROVE  PublishInv'
<1>1. /\ Completed' = Completed /\ Taken' = Taken /\ tag' = tag
  BY DEF Trigger, Completed, Taken, artVars
<1>2. \A i \in Jobs : pc'[i] = IF i = j THEN "export" ELSE pc[i]
  BY DEF Trigger, Goto, TypeOK
<1>3. \A i \in Jobs : ~Busy(i)
  BY DEF Trigger, Busy
<1>4. pc[j] = "idle"
  BY DEF Trigger, PublishInv, NotYet
<1>5. OneBusy'
  BY <1>2, <1>3 DEF OneBusy, Busy
<1>6. NotYet'
  BY <1>1, <1>2, <1>4 DEF Trigger, NotYet, PublishInv, regVars, TypeOK, Unpushed, Publishing
<1>7. TagIsNext' /\ OwnTag'
  BY <1>2, <1>3 DEF TagIsNext, OwnTag, Numbered, Busy
<1>8. HistoryResolves' /\ TagsUnique'
  BY <1>1 DEF Trigger, HistoryResolves, TagsUnique, PublishInv, regVars
<1> QED BY <1>5, <1>6, <1>7, <1>8 DEF PublishInv

LEMMA PublishInvStep ==
    ASSUME ~Overlapping, TypeOK, PublishInv, [Next]_vars
    PROVE  PublishInv'
<1> USE DEF Goto, jobVars, artVars, regVars
<1>1. CASE UNCHANGED vars
  <2>1. Kept /\ pc' = pc
    BY <1>1 DEF vars, Kept, Completed
  <2> QED BY <2>1, KeptStill
<1>2. ASSUME NEW j \in Jobs, DeleteArtifact(j) \/ Timeout(j) PROVE PublishInv'
  <2>1. Kept /\ pc' = pc
    BY <1>2 DEF DeleteArtifact, Written, Timeout, Kept, Completed
  <2> QED BY <2>1, KeptStill
<1>3. ASSUME NEW j \in Jobs, Trigger(j) PROVE PublishInv'
  BY <1>3, TriggerStep
<1>4. ASSUME NEW j \in Jobs,
             \/ WriteZip(j) \/ Commit(j) \/ MarkFailed(j) \/ Cleanup(j)
             \/ InsertRow(j) \/ Bundle(j) \/ TagLatest(j) \/ RecordFailure(j) \/ Crash(j)
      PROVE PublishInv'
  <2>1. /\ Completed' = Completed
        /\ \A i \in Jobs : row'[i] = "absent" => row[i] = "absent"
    <3>1. CASE WriteZip(j) \/ Cleanup(j) \/ Bundle(j) \/ TagLatest(j)
      BY <3>1 DEF WriteZip, Cleanup, Written, Bundle, TagLatest, Completed
    <3>2. CASE Commit(j) \/ MarkFailed(j) \/ Crash(j)
      BY <3>2 DEF Commit, MarkFailed, Crash, Written, WrittenInCtx, Completed, TypeOK
    <3>3. CASE InsertRow(j) \/ RecordFailure(j)
      BY <3>3 DEF InsertRow, RecordFailure, WrittenInCtx, Completed, TypeOK,
                  PublishInv, NotYet, Publishing
    <3> QED BY <1>4, <3>1, <3>2, <3>3
  <2>2. Kept
    BY <1>4, <2>1 DEF WriteZip, Commit, MarkFailed, Cleanup, InsertRow, Bundle, TagLatest,
                      RecordFailure, Crash, Kept
  <2>3. CASE Crash(j)
    BY <2>2, <2>3, KeptMoves DEF Crash, Busy, Unpushed, Publishing, Numbered
  <2>4. CASE WriteZip(j) \/ Commit(j) \/ MarkFailed(j) \/ Cleanup(j)
    BY <2>2, <2>4, KeptMoves DEF WriteZip, Commit, MarkFailed, Cleanup, WrittenInCtx,
                                 Busy, Unpushed, Publishing, Numbered
  <2>5. CASE InsertRow(j) \/ Bundle(j) \/ TagLatest(j) \/ RecordFailure(j)
    BY <2>2, <2>5, KeptMoves DEF InsertRow, Bundle, TagLatest, RecordFailure, WrittenInCtx,
                                 Busy, Unpushed, Publishing, Numbered
  <2> QED BY <1>4, <2>3, <2>4, <2>5
<1>5. ASSUME NEW j \in Jobs, NextTag(j) PROVE PublishInv'
  <2>1. CASE pc' = [pc EXCEPT ![j] = "fail"]
    <3>1. Kept
      BY <1>5, <2>1 DEF NextTag, Kept, Completed, TypeOK
    <3> QED BY <1>5, <2>1, <3>1, KeptMoves
            DEF NextTag, Busy, Unpushed, Publishing, Numbered
  <2>2. CASE pc' = [pc EXCEPT ![j] = "insert"]
    BY <1>5, <2>2, TagStep DEF NextTag, TypeOK
  <2> QED BY <1>5, <2>1, <2>2 DEF NextTag
<1>6. ASSUME NEW j \in Jobs, Push(j) PROVE PublishInv'
  <2>1. CASE UNCHANGED <<pushed, tags>> /\ pc' = [pc EXCEPT ![j] = "recordFailure"]
    <3>1. Kept
      BY <1>6, <2>1 DEF Push, Kept, Completed
    <3> QED BY <1>6, <2>1, <3>1, KeptMoves
            DEF Push, Busy, Unpushed, Publishing, Numbered
  <2> QED BY <1>6, <2>1, PushStep DEF Push
<1>7. ASSUME NEW j \in Jobs, Sign(j) PROVE PublishInv'
  <2>1. CASE UNCHANGED signed /\ pc' = [pc EXCEPT ![j] = "unsign"]
    <3>1. Kept
      BY <1>7, <2>1 DEF Sign, Kept, Completed
    <3> QED BY <1>7, <2>1, <3>1, KeptMoves
            DEF Sign, Busy, Unpushed, Publishing, Numbered
  <2> QED BY <1>7, <2>1, SignStep DEF Sign
<1>8. ASSUME NEW j \in Jobs, Unsign(j) PROVE PublishInv'
  <2>1. CASE UNCHANGED <<pushed, tags>>
    <3>1. Kept
      BY <1>8, <2>1 DEF Unsign, Kept, Completed
    <3> QED BY <1>8, <3>1, KeptMoves
            DEF Unsign, Busy, Unpushed, Publishing, Numbered
  <2> QED BY <1>8, <2>1, UnsignStep DEF Unsign
<1>9. ASSUME NEW j \in Jobs, Record(j) PROVE PublishInv'
  <2>1. CASE UNCHANGED art
    <3>1. Kept
      BY <1>9, <2>1 DEF Record, Kept, Completed
    <3> QED BY <1>9, <3>1, KeptMoves
            DEF Record, Busy, Unpushed, Publishing, Numbered
  <2> QED BY <1>9, <2>1, RecordStep DEF Record, WrittenInCtx
<1> QED BY <1>1, <1>2, <1>3, <1>4, <1>5, <1>6, <1>7, <1>8, <1>9 DEF Next, Step

LEMMA PublishInvariant ==
    ASSUME ~Overlapping
    PROVE  Spec => []PublishInv
<1>1. Init => PublishInv
  BY DEF Init, PublishInv, OneBusy, Busy, NotYet, TagIsNext, Numbered, OwnTag,
         HistoryResolves, TagsUnique, Completed, Publishing
<1>2. TypeOK /\ PublishInv /\ [Next]_vars => PublishInv'
  BY PublishInvStep
<1> QED BY <1>1, <1>2, PublishTypeCorrect, PTL DEF Spec

\* While publishes do not overlap, a version of the publish history stays the
\* signed artifact it was, through failed publishes, rollbacks that do not
\* reach the registry, timeouts and crashes.
THEOREM HistoryIsPullable ==
    ASSUME ~Overlapping
    PROVE  Spec => []HistoryResolves
<1>1. PublishInv => HistoryResolves
  BY DEF PublishInv
<1> QED BY <1>1, PublishInvariant, PTL

\* While publishes do not overlap, no version is given twice.
THEOREM VersionsAreUnique ==
    ASSUME ~Overlapping
    PROVE  Spec => []TagsUnique
<1>1. PublishInv => TagsUnique
  BY DEF PublishInv
<1> QED BY <1>1, PublishInvariant, PTL

-----------------------------------------------------------------------------
(* The publish history is a log of versions.                               *)

LEMMA LogKept ==
    ASSUME Completed' = Completed, \A i \in Completed : tag'[i] = tag[i]
    PROVE  log' = log
<1>1. Taken' = Taken
  BY DEF Taken
<1>2. \A n : {i \in Completed' : tag'[i] = n} = {i \in Completed : tag[i] = n}
  OBVIOUS
<1> QED BY <1>1, <1>2 DEF log

LEMMA RecordAppends ==
    ASSUME TypeOK, PublishInv, NEW j \in Jobs, pc[j] = "record",
           art' = [art EXCEPT ![j] = "completed"], tag' = tag
    PROVE  Versions!Append(j)
<1>1. Completed' = Completed \cup {j} /\ j \notin Completed
  BY DEF Completed, TypeOK, PublishInv, NotYet, Publishing
<1>2. PICK n \in Taken : (\A m \in Taken : m <= n) /\ tag[j] = n + 1
  BY DEF PublishInv, TagIsNext, Numbered
<1>3. n \in Nat /\ n + 1 # 0 /\ 0 \in Taken
  BY DEF Taken, Completed, TypeOK
<1>4. \A i \in Completed : tag[i] # n + 1
  BY <1>2, TagIsFree DEF Numbered
<1>5. DOMAIN log = Taken \ {0}
  BY DEF log
<1>6. Taken' \ {0} = (Taken \ {0}) \cup {n + 1}
  BY <1>1, <1>2, <1>3 DEF Taken
<1>7. \A m : {i \in Completed' : tag'[i] = m}
               = IF m = n + 1 THEN {j} ELSE {i \in Completed : tag[i] = m}
  BY <1>1, <1>2, <1>4
<1>8. log' = [m \in DOMAIN log \cup {n + 1} |-> IF m = n + 1 THEN {j} ELSE log[m]]
  <2>1. log' = [m \in Taken' \ {0} |-> {i \in Completed' : tag'[i] = m}]
    BY DEF log
  <2>2. \A m \in Taken \ {0} : log[m] = {i \in Completed : tag[i] = m}
    BY DEF log
  <2> QED BY <2>1, <2>2, <1>5, <1>6, <1>7
<1>9. \A m \in DOMAIN log : j \notin log[m]
  BY <1>1 DEF log
<1>10. n \in {0} \cup DOMAIN log /\ \A m \in DOMAIN log : m <= n
  BY <1>2, <1>5
<1> QED BY <1>8, <1>9, <1>10 DEF Versions!Append

LEMMA VersionsStep ==
    ASSUME TypeOK, PublishInv, [Next]_vars
    PROVE  [Versions!Next]_log
<1> USE DEF Goto, jobVars, artVars, regVars
<1>1. ASSUME UNCHANGED <<art, tag>> PROVE [Versions!Next]_log
  <2>1. Completed' = Completed /\ \A i \in Completed : tag'[i] = tag[i]
    BY <1>1 DEF Completed
  <2> QED BY <2>1, LogKept
<1>2. ASSUME NEW j \in Jobs, NextTag(j) PROVE [Versions!Next]_log
  <2>1. Completed' = Completed /\ \A i \in Completed : tag'[i] = tag[i]
    BY <1>2 DEF NextTag, Completed, TypeOK, PublishInv, NotYet, Unpushed
  <2> QED BY <2>1, LogKept
<1>3. ASSUME NEW j \in Jobs, InsertRow(j) \/ RecordFailure(j) PROVE [Versions!Next]_log
  <2>1. Completed' = Completed /\ \A i \in Completed : tag'[i] = tag[i]
    BY <1>3 DEF InsertRow, RecordFailure, WrittenInCtx, Completed, TypeOK, PublishInv,
                NotYet, Publishing
  <2> QED BY <2>1, LogKept
<1>4. ASSUME NEW j \in Jobs, Record(j) PROVE [Versions!Next]_log
  <2>1. CASE UNCHANGED art
    BY <1>1, <1>4, <2>1 DEF Record
  <2>2. CASE art' = [art EXCEPT ![j] = "completed"]
    BY <1>4, <2>2, RecordAppends DEF Record, Versions!Next
  <2> QED BY <1>4, <2>1, <2>2 DEF Record, WrittenInCtx
<1>5. ASSUME NEW j \in Jobs,
             \/ Trigger(j) \/ WriteZip(j) \/ Commit(j) \/ MarkFailed(j) \/ Cleanup(j)
             \/ Bundle(j) \/ Push(j) \/ TagLatest(j) \/ Sign(j) \/ Unsign(j)
             \/ DeleteArtifact(j) \/ Timeout(j) \/ Crash(j)
      PROVE [Versions!Next]_log
  BY <1>1, <1>5 DEF Trigger, WriteZip, Commit, MarkFailed, Cleanup, Bundle, Push,
                    TagLatest, Sign, Unsign, DeleteArtifact, Timeout, Crash
<1>6. CASE UNCHANGED vars
  BY <1>1, <1>6 DEF vars
<1> QED BY <1>2, <1>3, <1>4, <1>5, <1>6 DEF Next, Step

\* While publishes do not overlap, the publish history is a log: v1, v2, ...
\* are given once each, without a gap, and an entry never changes.
THEOREM PublishImplementsLog ==
    ASSUME ~Overlapping
    PROVE  Spec => VersionsSpec
<1>1. Init => Versions!Init
  <2> SUFFICES ASSUME Init PROVE Versions!Init
    OBVIOUS
  <2>1. Completed = {} /\ Taken \ {0} = {}
    BY DEF Init, Completed, Taken
  <2> QED BY <2>1 DEF log, Versions!Init
<1>2. TypeOK /\ PublishInv /\ [Next]_vars => [Versions!Next]_log
  BY VersionsStep
<1> QED BY <1>1, <1>2, PublishTypeCorrect, PublishInvariant, PTL
        DEF Spec, VersionsSpec, Versions!Spec

-----------------------------------------------------------------------------
(* What a publish leaves behind, however many of them overlap.             *)

\* Where a row is while its goroutine publishes, and once it has ended.
Fate(j) ==
    /\ pc[j] \in {"export", "commit"} => row[j] = "running"
    /\ pc[j] \in Publishing => row[j] = "completed"
    /\ pc[j] \in {"latest", "sign", "record"} => j \in pushed
    /\ pc[j] = "record" => j \in signed
    /\ pc[j] \in {"cleanup", "end"} /\ row[j] = "completed" /\ j \notin Download
          => j \in pushed /\ j \in signed
FateInv == \A j \in Jobs : Fate(j)

\* A step of j's goroutine leaves the others' fates as they are: a manifest is
\* removed by digest, and a signature is never taken back.
LEMMA FateOfOne ==
    ASSUME FateInv, NEW j \in Jobs, Fate(j)',
           \A i \in Jobs : i # j =>
              /\ pc'[i] = pc[i] /\ row'[i] = row[i]
              /\ i \in pushed => i \in pushed'
              /\ i \in signed => i \in signed'
    PROVE  FateInv'
<1>1. ASSUME NEW i \in Jobs, i # j PROVE Fate(i)'
  BY <1>1 DEF FateInv, Fate
<1> QED BY <1>1 DEF FateInv

LEMMA FateStep ==
    ASSUME "db" \notin Faults, TypeOK, FateInv, [Next]_vars
    PROVE  FateInv'
<1> USE DEF Goto, jobVars, artVars, regVars
<1>1. CASE UNCHANGED vars
  BY <1>1 DEF FateInv, Fate, vars
<1>2. pc \in [Jobs -> PCs] /\ row \in [Jobs -> RowStatuses]
  BY DEF TypeOK
<1>3. ASSUME NEW j \in Jobs PROVE Fate(j)
  BY <1>3 DEF FateInv
<1>4. ASSUME NEW j \in Jobs, Trigger(j) \/ WriteZip(j) \/ Commit(j) PROVE FateInv'
  <2>1. Fate(j)'
    BY <1>2, <1>3, <1>4 DEF Fate, Trigger, WriteZip, Commit, WrittenInCtx, Publishing
  <2> QED BY <1>2, <1>4, <2>1, FateOfOne DEF Trigger, WriteZip, Commit, WrittenInCtx
<1>5. ASSUME NEW j \in Jobs, MarkFailed(j) \/ Cleanup(j) \/ DeleteArtifact(j) PROVE FateInv'
  <2>1. Fate(j)'
    BY <1>2, <1>3, <1>5 DEF Fate, MarkFailed, Cleanup, DeleteArtifact, Written, Publishing
  <2> QED BY <1>2, <1>5, <2>1, FateOfOne DEF MarkFailed, Cleanup, DeleteArtifact, Written
<1>6. ASSUME NEW j \in Jobs, NextTag(j) \/ InsertRow(j) \/ Bundle(j) \/ Push(j) PROVE FateInv'
  <2>1. Fate(j)'
    BY <1>2, <1>3, <1>6 DEF Fate, NextTag, InsertRow, Bundle, Push, WrittenInCtx, Publishing
  <2> QED BY <1>2, <1>6, <2>1, FateOfOne DEF NextTag, InsertRow, Bundle, Push, WrittenInCtx
<1>7. ASSUME NEW j \in Jobs, TagLatest(j) \/ Sign(j) \/ Unsign(j) PROVE FateInv'
  <2>1. Fate(j)'
    BY <1>2, <1>3, <1>7 DEF Fate, TagLatest, Sign, Unsign, Publishing
  <2> QED BY <1>2, <1>7, <2>1, FateOfOne DEF TagLatest, Sign, Unsign
<1>8. ASSUME NEW j \in Jobs, Record(j) \/ RecordFailure(j) PROVE FateInv'
  <2>1. Fate(j)'
    BY <1>2, <1>3, <1>8 DEF Fate, Record, RecordFailure, WrittenInCtx, Publishing
  <2> QED BY <1>2, <1>8, <2>1, FateOfOne DEF Record, RecordFailure, WrittenInCtx
<1>9. ASSUME NEW j \in Jobs, Timeout(j) \/ Crash(j) PROVE FateInv'
  <2>1. Fate(j)'
    BY <1>2, <1>3, <1>9 DEF Fate, Timeout, Crash, Publishing
  <2> QED BY <1>2, <1>9, <2>1, FateOfOne DEF Timeout, Crash
<1> QED BY <1>1, <1>4, <1>5, <1>6, <1>7, <1>8, <1>9 DEF Next, Step

LEMMA FateInvariant ==
    ASSUME "db" \notin Faults
    PROVE  Spec => []FateInv
<1>1. Init => FateInv
  BY DEF Init, FateInv, Fate, Publishing
<1>2. TypeOK /\ FateInv /\ [Next]_vars => FateInv'
  BY FateStep
<1> QED BY <1>1, <1>2, PublishTypeCorrect, PTL DEF Spec

\* While PostgreSQL takes writes, an export that ended completed in publish mode
\* is in the registry and signed, whatever other publishes pushed, signed or
\* rolled back meanwhile, timed out or died.
THEOREM CompletedExportIsPublished ==
    ASSUME "db" \notin Faults
    PROVE  Spec => []CompletedIsPublished
<1>1. FateInv => CompletedIsPublished
  BY DEF FateInv, Fate, CompletedIsPublished, Ended
<1> QED BY <1>1, FateInvariant, PTL

\* Without timeouts and database failures: the artifact row of a publish that
\* failed is absent or failed before its export is failed too.
Told(j) ==
    /\ live[j]
    /\ row[j] = "absent" \/ pc[j] \in {"export", "commit", "tag", "insert"} => art[j] = "absent"
    /\ pc[j] = "fail" => art[j] \in {"absent", "failed"}
    /\ pc[j] \in {"cleanup", "end"} /\ row[j] = "failed" => art[j] \in {"absent", "failed"}
ToldInv == \A j \in Jobs : Told(j)

LEMMA ToldStep ==
    ASSUME Faults \cap {"db", "timeout"} = {}, TypeOK, FateInv, ToldInv, [Next]_vars
    PROVE  ToldInv'
<1> USE DEF Goto, jobVars, artVars, regVars
<1>1. CASE UNCHANGED vars
  BY <1>1 DEF ToldInv, Told, vars
<1>2. /\ pc \in [Jobs -> PCs] /\ row \in [Jobs -> RowStatuses] /\ art \in [Jobs -> ArtStatuses]
      /\ "db" \notin Faults /\ "timeout" \notin Faults
  BY DEF TypeOK
<1>3. ASSUME NEW j \in Jobs PROVE Fate(j) /\ Told(j)
  BY <1>3 DEF FateInv, ToldInv
\* One job changes; the others keep what Told says of them.
<1>4. ASSUME NEW j \in Jobs, Told(j)',
             \A i \in Jobs : i # j =>
                pc'[i] = pc[i] /\ row'[i] = row[i] /\ art'[i] = art[i] /\ live'[i] = live[i]
      PROVE ToldInv'
  BY <1>4 DEF ToldInv, Told
<1>5. ASSUME NEW j \in Jobs, Trigger(j) \/ WriteZip(j) \/ Commit(j) PROVE ToldInv'
  <2>1. Told(j)'
    BY <1>2, <1>3, <1>5 DEF Told, Fate, Trigger, WriteZip, Commit, WrittenInCtx, Publishing
  <2> QED BY <1>2, <1>4, <1>5, <2>1 DEF Trigger, WriteZip, Commit, WrittenInCtx
<1>6. ASSUME NEW j \in Jobs, MarkFailed(j) \/ Cleanup(j) \/ DeleteArtifact(j) PROVE ToldInv'
  <2>1. Told(j)'
    BY <1>2, <1>3, <1>6 DEF Told, MarkFailed, Cleanup, DeleteArtifact, Written
  <2> QED BY <1>2, <1>4, <1>6, <2>1 DEF MarkFailed, Cleanup, DeleteArtifact, Written
<1>7. ASSUME NEW j \in Jobs, NextTag(j) \/ InsertRow(j) \/ Bundle(j) \/ Push(j) PROVE ToldInv'
  <2>1. Told(j)'
    BY <1>2, <1>3, <1>7 DEF Told, Fate, NextTag, InsertRow, Bundle, Push, WrittenInCtx, Publishing
  <2> QED BY <1>2, <1>4, <1>7, <2>1 DEF NextTag, InsertRow, Bundle, Push, WrittenInCtx
<1>8. ASSUME NEW j \in Jobs, TagLatest(j) \/ Sign(j) \/ Unsign(j) PROVE ToldInv'
  <2>1. Told(j)'
    BY <1>2, <1>3, <1>8 DEF Told, TagLatest, Sign, Unsign
  <2> QED BY <1>2, <1>4, <1>8, <2>1 DEF TagLatest, Sign, Unsign
<1>9. ASSUME NEW j \in Jobs, Record(j) \/ RecordFailure(j) PROVE ToldInv'
  <2>1. Told(j)'
    BY <1>2, <1>3, <1>9 DEF Told, Fate, Record, RecordFailure, WrittenInCtx, Publishing
  <2> QED BY <1>2, <1>4, <1>9, <2>1 DEF Record, RecordFailure, WrittenInCtx
<1>10. ASSUME NEW j \in Jobs, Timeout(j) \/ Crash(j) PROVE ToldInv'
  <2>1. Told(j)'
    BY <1>2, <1>3, <1>10 DEF Told, Timeout, Crash
  <2> QED BY <1>2, <1>4, <1>10, <2>1 DEF Timeout, Crash
<1> QED BY <1>1, <1>5, <1>6, <1>7, <1>8, <1>9, <1>10 DEF Next, Step

\* A publish that failed says so in its row of the publish history, before its
\* export is failed: while no job's context ends early and PostgreSQL takes
\* writes, whatever the registry, the bundlers and the process do.
THEOREM PublishFailureIsRecorded ==
    ASSUME Faults \cap {"db", "timeout"} = {}
    PROVE  Spec => []FailureIsRecorded
<1>1. Init => ToldInv
  BY DEF Init, ToldInv, Told
<1>2. TypeOK /\ FateInv /\ ToldInv /\ [Next]_vars => ToldInv'
  BY ToldStep
<1>3. ToldInv => FailureIsRecorded
  BY DEF ToldInv, Told, FailureIsRecorded, Ended
<1>4. "db" \notin Faults
  OBVIOUS
<1> QED BY <1>1, <1>2, <1>3, <1>4, PublishTypeCorrect, FateInvariant, PTL DEF Spec

\* An unsigned :latest belongs to a publish that signs it or takes it back.
LatestInv ==
    /\ \A j \in Jobs : live[j] /\ (row[j] = "absent" => pc[j] = "idle")
    /\ latest # None => latest \in signed \/ pc[latest] \in {"sign", "unsign"}

LEMMA LatestStep ==
    ASSUME Faults \subseteq {"db"}, TypeOK, LatestInv, [Next]_vars
    PROVE  LatestInv'
<1> USE DEF LatestInv, Goto, jobVars, artVars, regVars
<1>1. CASE UNCHANGED vars
  BY <1>1 DEF vars
<1>2. /\ pc \in [Jobs -> PCs] /\ row \in [Jobs -> RowStatuses]
      /\ latest \in Jobs \cup {None} /\ None \notin Jobs
  BY ArtifactPublishAssumption DEF TypeOK
\* Steps that leave the registry alone, of jobs that are not about to sign.
<1>3. ASSUME NEW j \in Jobs, UNCHANGED <<live, signed, latest>>,
             \A i \in Jobs : i # j => pc'[i] = pc[i] /\ row'[i] = row[i],
             row'[j] # "absent", pc[j] \notin {"sign", "unsign"}
      PROVE LatestInv'
  BY <1>2, <1>3
<1>4. ASSUME NEW j \in Jobs, DeleteArtifact(j) PROVE LatestInv'
  BY <1>2, <1>4 DEF DeleteArtifact
<1>5. ASSUME NEW j \in Jobs, Trigger(j) \/ WriteZip(j) \/ Commit(j) \/ MarkFailed(j) \/ Cleanup(j)
      PROVE LatestInv'
  BY <1>2, <1>3, <1>5 DEF Trigger, WriteZip, Commit, MarkFailed, Cleanup,
                          Written, WrittenInCtx
<1>6. ASSUME NEW j \in Jobs, NextTag(j) \/ InsertRow(j) \/ Bundle(j) \/ Push(j)
                              \/ Record(j) \/ RecordFailure(j)
      PROVE LatestInv'
  BY <1>2, <1>3, <1>6 DEF NextTag, InsertRow, Bundle, Push, Record, RecordFailure, WrittenInCtx
<1>7. ASSUME NEW j \in Jobs, TagLatest(j) PROVE LatestInv'
  BY <1>2, <1>7 DEF TagLatest
<1>8. ASSUME NEW j \in Jobs, Sign(j) PROVE LatestInv'
  BY <1>2, <1>8 DEF Sign
<1>9. ASSUME NEW j \in Jobs, Unsign(j) PROVE LatestInv'
  BY <1>2, <1>9 DEF Unsign
<1>10. ASSUME NEW j \in Jobs, Timeout(j) \/ Crash(j) PROVE LatestInv'
  BY <1>10 DEF Timeout, Crash
<1> QED BY <1>1, <1>4, <1>5, <1>6, <1>7, <1>8, <1>9, <1>10 DEF Next, Step

\* When nothing is being published :latest is a signed artifact, though it moves
\* before the signature and publishes overlap: while contexts live, the registry
\* takes back what could not be signed, and no process dies in between.
THEOREM LatestArtifactIsSigned ==
    ASSUME Faults \subseteq {"db"}
    PROVE  Spec => []LatestIsSigned
<1>1. Init => LatestInv
  BY DEF Init, LatestInv
<1>2. TypeOK /\ LatestInv /\ [Next]_vars => LatestInv'
  BY LatestStep
<1>3. TypeOK /\ LatestInv => LatestIsSigned
  BY DEF TypeOK, LatestInv, LatestIsSigned, Publishing
<1> QED BY <1>1, <1>2, <1>3, PublishTypeCorrect, PTL DEF Spec
=============================================================================
