----------------------- MODULE DivergenceIngestProofs -----------------------
(* Theorems about DivergenceIngest, for every set of replicas, operators,    *)
(* overrides and every bound.                                                *)
EXTENDS DivergenceIngest, TLAPS


-----------------------------------------------------------------------------
(* Types.                                                                  *)

LEMMA DropType == ASSUME TypeOK, NEW rows, Drop(rows)
                  PROVE  res' \in [Pairs -> Rows \cup {None}]
  BY DEF TypeOK, Drop

LEMMA LeaveType == ASSUME TypeOK, NEW r \in Replicas, NEW next \in {"idle", "dead"}, Leave(r, next)
                   PROVE  /\ pc' \in [Replicas -> Polling \cup {"idle", "dead"}]
                          /\ report' \in [Replicas -> Reports]
                          /\ last' \in [Replicas -> 0..MaxReports]
                          /\ stamp' \in [Replicas -> Stamps]
                          /\ existing' \in [Replicas -> SUBSET Rows]
<1>1. NoReport \in Reports /\ 0 \in 0..MaxReports /\ <<0, 0>> \in Stamps
  BY DivergenceAssumption DEF NoReport, Reports, Stamps
<1>2. QED BY <1>1 DEF TypeOK, Leave, Goto

LEMMA WinType == ASSUME TypeOK, NEW r \in Replicas, Win(r)
                 PROVE  /\ cursor' \in 0..MaxReports
                        /\ pc' \in [Replicas -> Polling \cup {"idle", "dead"}]
                        /\ report' \in [Replicas -> Reports]
                        /\ last' \in [Replicas -> 0..MaxReports]
                        /\ stamp' \in [Replicas -> Stamps]
                        /\ existing' \in [Replicas -> SUBSET Rows]
<1>1. report[r].at \in 0..MaxReports /\ <<resets, report[r].at>> \in Stamps
  BY DEF TypeOK, Reports, Stamps
<1>2. QED BY <1>1 DEF TypeOK, Win, Goto, Polling, Claimed

LEMMA AnswerType == ASSUME TypeOK, NEW a \in Admins, Answer(a)
                    PROVE  /\ at' \in [Admins -> {"idle", "dispatch", "delete", "record", "remove", "clear", "reset"}]
                           /\ what' \in [Admins -> Requests]
                           /\ target' \in [Admins -> Rows \cup {None}]
                           /\ had' \in [Admins -> SUBSET Rows]
  BY DEF TypeOK, Answer, Requests

LEMMA IncomingType == ASSUME TypeOK, NEW r \in Replicas PROVE Incoming(r) \in SUBSET Rows
  BY DEF TypeOK, Incoming, Rows, Reports

LEMMA TypesKept == TypeOK /\ [Next]_vars => TypeOK'
<1> SUFFICES ASSUME TypeOK, [Next]_vars PROVE TypeOK'
  OBVIOUS
<1>1. CASE Publish
  BY <1>1, DivergenceAssumption DEF Publish, TypeOK, Reports, replicaVars, adminVars
<1>2. ASSUME NEW r \in Replicas, PollStep(r) \/ ApplyFails(r) \/ Crash(r) PROVE TypeOK'
  <2>1. CASE Fetch(r)
    BY <2>1 DEF Fetch, Goto, TypeOK, storeVars, adminVars, Polling
  <2>2. CASE ReadCursor(r)
    <3>1. 0 \in 0..MaxReports
      BY DivergenceAssumption
    <3>2. CASE Leave(r, "idle")
      BY <2>2, <3>2, LeaveType DEF ReadCursor, TypeOK, storeVars, adminVars
    <3>3. CASE ~Leave(r, "idle")
      BY <2>2, <3>1, <3>3 DEF ReadCursor, Goto, TypeOK, storeVars, adminVars, Polling
    <3>4. QED BY <3>2, <3>3
  <2>3. CASE Advance(r)
    <3>1. CASE Win(r)
      BY <2>3, <3>1, WinType DEF Advance, TypeOK, adminVars
    <3>2. CASE ~Win(r)
      BY <2>3, <3>2 DEF Advance, Goto, TypeOK, adminVars, Polling
    <3>3. QED BY <3>1, <3>2
  <2>4. CASE CreateCursor(r)
    <3>1. CASE Win(r)
      BY <2>4, <3>1, WinType DEF CreateCursor, TypeOK, adminVars
    <3>2. CASE ~Win(r)
      BY <2>4, <3>2, LeaveType DEF CreateCursor, TypeOK, adminVars
    <3>3. QED BY <3>1, <3>2
  <2>5. CASE ReadEntries(r) \/ ApplyFails(r)
    BY <2>5 DEF ReadEntries, ApplyFails, Goto, TypeOK, storeVars, adminVars, Polling, Claimed
  <2>6. CASE Touch(r)
    BY <2>6, LeaveType DEF Touch, TypeOK, storeVars, adminVars
  <2>7. CASE Supersede(r)
    BY <2>7, LeaveType, DropType, IncomingType DEF Supersede, TypeOK, adminVars
  <2>8. CASE Rollback(r)
    BY <2>8, LeaveType DEF Rollback, TypeOK, adminVars
  <2>9. CASE Crash(r)
    BY <2>9, LeaveType DEF Crash, TypeOK, storeVars, adminVars
  <2>10. QED BY <1>2, <2>1, <2>2, <2>3, <2>4, <2>5, <2>6, <2>7, <2>8, <2>9 DEF PollStep
<1>3. ASSUME NEW a \in Admins, NEW w \in Requests \ {"clear"}, NEW e \in entries, GetEntry(a, w, e)
      PROVE  TypeOK'
  BY <1>3 DEF GetEntry, TypeOK, storeVars, replicaVars
<1>4. ASSUME NEW a \in Admins, Dispatch(a) \/ RequestFails(a) PROVE TypeOK'
  BY <1>4, AnswerType DEF Dispatch, RequestFails, Step, TypeOK, storeVars, replicaVars
<1>5. ASSUME NEW a \in Admins, DeleteResolution(a) PROVE TypeOK'
  <2>1. res' \in [Pairs -> Rows \cup {None}]
    BY <1>5, DropType DEF DeleteResolution
  <2>2. CASE Answer(a)
    BY <1>5, <2>1, <2>2, AnswerType DEF DeleteResolution, TypeOK, replicaVars
  <2>3. CASE ~Answer(a)
    BY <1>5, <2>1, <2>3 DEF DeleteResolution, Step, TypeOK, replicaVars
  <2>4. QED BY <2>2, <2>3
<1>6. ASSUME NEW a \in Admins, RecordResolution(a) PROVE TypeOK'
  BY <1>6, AnswerType DEF RecordResolution, TypeOK, replicaVars
<1>7. ASSUME NEW a \in Admins, RemoveEntry(a) PROVE TypeOK'
  BY <1>7, AnswerType DEF RemoveEntry, TypeOK, replicaVars
<1>8. ASSUME NEW a \in Admins, ClearRead(a) PROVE TypeOK'
  BY <1>8 DEF ClearRead, TypeOK, Requests, storeVars, replicaVars
<1>9. ASSUME NEW a \in Admins, ClearTx(a) PROVE TypeOK'
  BY <1>9, DropType DEF ClearTx, Step, TypeOK, replicaVars
<1>10. ASSUME NEW a \in Admins, ResetDC(a) PROVE TypeOK'
  BY <1>10, AnswerType, DivergenceAssumption DEF ResetDC, TypeOK, replicaVars
<1>11. CASE UNCHANGED vars
  BY <1>11 DEF TypeOK, vars, storeVars, replicaVars, adminVars
<1>12. QED BY <1>1, <1>2, <1>3, <1>4, <1>5, <1>6, <1>7, <1>8, <1>9, <1>10, <1>11 DEF Next

\* Every variable of the ingest keeps its type.
THEOREM IngestTypeCorrect == Spec => []TypeOK
<1>1. Init => TypeOK
  BY DivergenceAssumption
     DEF Init, TypeOK, NoReport, Reports, Stamps, Requests
<1>2. QED BY <1>1, TypesKept, PTL DEF Spec

-----------------------------------------------------------------------------
(* The table holds one report.                                             *)

\* Whatever the timing, the table shows one report: supersede replaces all
\* rows of the data center at once.
THEOREM TableIsOneReport == Spec => []OneReport
<1>1. Init => OneReport
  BY DEF Init, OneReport
<1>2. OneReport /\ [Next]_vars => OneReport'
  <2> SUFFICES ASSUME OneReport, [Next]_vars PROVE OneReport'
    OBVIOUS
  <2>1. ASSUME NEW r \in Replicas, Supersede(r) PROVE OneReport'
    BY <2>1 DEF Supersede, Incoming, OneReport
  <2>2. entries' \subseteq entries \/ \E r \in Replicas : Supersede(r)
    BY DEF Next, Publish, PollStep, Fetch, ReadCursor, Advance, CreateCursor, ReadEntries,
           Touch, Rollback, ApplyFails, Crash, GetEntry, Dispatch, DeleteResolution,
           RecordResolution, RemoveEntry, ClearRead, ClearTx, ResetDC, RequestFails,
           vars, storeVars
  <2>3. CASE entries' \subseteq entries
    BY <2>3 DEF OneReport
  <2>4. QED BY <2>1, <2>2, <2>3
<1>3. QED BY <1>1, <1>2, PTL DEF Spec

-----------------------------------------------------------------------------
(* The claim, while no report and no reset arrives during an ingest.       *)

Now == <<resets, bucket.at>>

\* A replica works on the report in the bucket; from its claim until it lets
\* go, the cursor is that report's and no other replica has claimed it.
OwnsReport(r) ==
    /\ pc[r] \in Polling => report[r] = bucket /\ bucket.at > 0
    /\ pc[r] \in Claimed \cup {"advance", "create"} => last[r] < bucket.at
    /\ pc[r] \in Claimed => stamp[r] = Now /\ cursor = bucket.at

OneClaim == \A r, q \in Replicas : pc[r] \in Claimed /\ pc[q] \in Claimed => r = q

\* The report in the bucket has been applied.
Applied == cursor = bucket.at /\ \A r \in Replicas : pc[r] \notin Claimed
\* Row e is of that report only when it has been applied, else of an older one.
Settled(e) == Older(e.stamp, Now) \/ (Applied /\ e.stamp = Now)

RowsSettled ==
    /\ \A e \in entries : Settled(e)
    /\ \A p \in Pairs : res[p] # None => Settled(res[p])
    /\ \A a \in Admins : target[a] # None => Settled(target[a])

ClaimInv == TypeOK /\ OneClaim /\ RowsSettled /\ \A r \in Replicas : OwnsReport(r)

LEMMA InitClaim == Init => ClaimInv
<1>1. Init => TypeOK
  BY DivergenceAssumption DEF Init, TypeOK, NoReport, Reports, Stamps, Requests
<1>2. QED BY <1>1 DEF Init, ClaimInv, OneClaim, RowsSettled, OwnsReport, Polling, Claimed

\* Numbers of the invariant, as the backends need them.
LEMMA Numbers ==
    ASSUME TypeOK
    PROVE  /\ resets \in Nat /\ bucket.at \in Nat /\ bucket.at <= MaxReports /\ MaxReports \in Nat
           /\ cursor # None => cursor \in Nat
           /\ \A r \in Replicas : report[r].at \in Nat /\ last[r] \in Nat
<1>1. MaxReports \in Nat /\ MaxClears \in Nat
  BY DivergenceAssumption
<1>2. bucket.at \in 0..MaxReports /\ resets \in 0..MaxClears
  BY DEF TypeOK, Reports
<1>3. \A r \in Replicas : report[r].at \in 0..MaxReports /\ last[r] \in 0..MaxReports
  BY DEF TypeOK, Reports
<1>4. cursor # None => cursor \in 0..MaxReports
  BY DEF TypeOK
<1>5. QED BY <1>1, <1>2, <1>3, <1>4

\* A step of an operator leaves the claim alone and only hands rows around.
LEMMA AdminKeepsClaim ==
    ASSUME ClaimInv, UNCHANGED <<bucket, cursor, resets, replicaVars>>,
           entries' \subseteq entries,
           \A p \in Pairs : \/ res'[p] \in {None, res[p]}
                            \/ \E a \in Admins : target[a] # None /\ res'[p] = target[a],
           \A a \in Admins : target'[a] \in {None, target[a]} \cup entries
    PROVE  OneClaim' /\ RowsSettled' /\ \A r \in Replicas : OwnsReport(r)'
<1>1. \A e : Settled(e) => Settled(e)'
  BY DEF Settled, Applied, Now, replicaVars
<1>2. OneClaim' /\ \A r \in Replicas : OwnsReport(r)'
  BY DEF ClaimInv, OneClaim, OwnsReport, Now, replicaVars
<1>3. RowsSettled'
  BY <1>1 DEF ClaimInv, RowsSettled
<1>4. QED BY <1>2, <1>3

LEMMA DropKeeps == ASSUME NEW rows, Drop(rows) PROVE \A p \in Pairs : res'[p] \in {None, res[p]}
  BY DEF Drop

\* A replica that lets go of its report, or never had the claim, and changes no
\* row; if it had the claim, the cursor stays or goes back.
LEMMA LeaveKeepsClaim ==
    ASSUME ClaimInv, NEW r \in Replicas, NEW next \in {"idle", "dead"}, Leave(r, next),
           UNCHANGED <<bucket, entries, res, resets, target>>,
           cursor' = cursor
    PROVE  OneClaim' /\ RowsSettled' /\ \A q \in Replicas : OwnsReport(q)'
<1>1. /\ pc'[r] = next /\ pc'[r] \notin Polling
      /\ \A q \in Replicas \ {r} : /\ pc'[q] = pc[q] /\ report'[q] = report[q]
                                   /\ last'[q] = last[q] /\ stamp'[q] = stamp[q]
  BY DEF ClaimInv, TypeOK, Leave, Goto, Polling, Claimed
<1>2. \A e : Settled(e) => Settled(e)'
  BY <1>1 DEF Settled, Applied, Now, Polling
<1>3. RowsSettled'
  BY <1>2 DEF ClaimInv, RowsSettled
<1>4. OneClaim'
  BY <1>1 DEF ClaimInv, OneClaim, Polling
<1>5. ASSUME NEW q \in Replicas PROVE OwnsReport(q)'
  <2>1. CASE q = r
    BY <1>1, <2>1 DEF OwnsReport, Polling
  <2>2. CASE q # r
    BY <1>1, <2>2 DEF ClaimInv, OwnsReport, Now
  <2>3. QED BY <2>1, <2>2
<1>6. QED BY <1>3, <1>4, <1>5

\* A claim is won only when nobody has one and the report is not applied.
LEMMA WinKeepsClaim ==
    ASSUME ClaimInv, NEW r \in Replicas, pc[r] \in {"advance", "create"}, Win(r),
           cursor = None \/ cursor < report[r].at,
           UNCHANGED <<bucket, entries, res, resets, target>>
    PROVE  OneClaim' /\ RowsSettled' /\ \A q \in Replicas : OwnsReport(q)'
<1>1. report[r] = bucket /\ bucket.at > 0 /\ last[r] < bucket.at
  BY DEF ClaimInv, OwnsReport, Polling
<1>2. cursor # bucket.at
  BY <1>1, Numbers, DivergenceAssumption DEF ClaimInv
<1>3. \A q \in Replicas : pc[q] \notin Claimed
  BY <1>2 DEF ClaimInv, OwnsReport
<1>4. /\ pc'[r] = "read" /\ stamp'[r] = Now' /\ cursor' = bucket.at
      /\ report' = report /\ last' = last
      /\ \A q \in Replicas \ {r} : pc'[q] = pc[q] /\ stamp'[q] = stamp[q]
  BY <1>1 DEF ClaimInv, TypeOK, Win, Goto, Now
<1>5. OneClaim'
  BY <1>3, <1>4 DEF OneClaim
<1>6. \A e : Settled(e) => Settled(e)'
  BY <1>2 DEF Settled, Applied, Now
<1>7. RowsSettled'
  BY <1>6 DEF ClaimInv, RowsSettled
<1>8. ASSUME NEW q \in Replicas PROVE OwnsReport(q)'
  <2>1. CASE q = r
    BY <1>1, <1>4, <2>1 DEF OwnsReport
  <2>2. CASE q # r
    BY <1>3, <1>4, <2>2 DEF ClaimInv, OwnsReport, Now
  <2>3. QED BY <2>1, <2>2
<1>9. QED BY <1>5, <1>7, <1>8

\* A step on the way of a poll that neither wins nor loses the claim.
LEMMA MoveKeepsClaim ==
    ASSUME ClaimInv, NEW r \in Replicas, NEW next \in Polling, Goto(r, next),
           next \in Claimed <=> pc[r] \in Claimed,
           UNCHANGED <<bucket, cursor, entries, res, resets, target, stamp>>,
           report'[r] = bucket /\ bucket.at > 0,
           next \in Claimed \cup {"advance", "create"} => last'[r] < bucket.at,
           \A q \in Replicas \ {r} : report'[q] = report[q] /\ last'[q] = last[q]
    PROVE  OneClaim' /\ RowsSettled' /\ \A q \in Replicas : OwnsReport(q)'
<1>1. pc'[r] = next /\ \A q \in Replicas \ {r} : pc'[q] = pc[q]
  BY DEF ClaimInv, TypeOK, Goto
<1>2. \A q \in Replicas : pc'[q] \in Claimed <=> pc[q] \in Claimed
  BY <1>1
<1>3. OneClaim'
  BY <1>2 DEF ClaimInv, OneClaim
<1>4. \A e : Settled(e) => Settled(e)'
  BY <1>2 DEF Settled, Applied, Now
<1>5. RowsSettled'
  BY <1>4 DEF ClaimInv, RowsSettled
<1>6. ASSUME NEW q \in Replicas PROVE OwnsReport(q)'
  <2>1. CASE q = r
    BY <1>1, <2>1 DEF ClaimInv, OwnsReport, Now
  <2>2. CASE q # r
    BY <1>1, <2>2 DEF ClaimInv, OwnsReport, Now
  <2>3. QED BY <2>1, <2>2
<1>7. QED BY <1>3, <1>5, <1>6

\* The claimant writes the table, and its report is applied.
LEMMA SupersedeKeepsClaim ==
    ASSUME ClaimInv, NEW r \in Replicas, Supersede(r)
    PROVE  OneClaim' /\ RowsSettled' /\ \A q \in Replicas : OwnsReport(q)'
<1>1. /\ pc[r] \in Claimed /\ stamp[r] = Now /\ cursor = bucket.at
      /\ \A q \in Replicas \ {r} : pc[q] \notin Claimed
  BY DEF Supersede, Claimed, ClaimInv, OneClaim, OwnsReport
<1>2. /\ pc'[r] = "idle"
      /\ \A q \in Replicas \ {r} : /\ pc'[q] = pc[q] /\ report'[q] = report[q]
                                   /\ last'[q] = last[q] /\ stamp'[q] = stamp[q]
      /\ UNCHANGED <<bucket, cursor, resets, target>>
  BY DEF Supersede, Leave, Goto, ClaimInv, TypeOK, adminVars
<1>3. Applied'
  BY <1>1, <1>2 DEF Applied, Claimed
<1>4. \A e : Settled(e) => Settled(e)'
  BY <1>2, <1>3 DEF Settled, Now
<1>5. \A e \in entries' : Settled(e)'
  BY <1>1, <1>2, <1>3 DEF Supersede, Incoming, Settled, Now
<1>6. \A p \in Pairs : res'[p] # None => Settled(res[p]) /\ res'[p] = res[p]
  BY DropKeeps DEF Supersede, ClaimInv, RowsSettled
<1>7. RowsSettled'
  BY <1>2, <1>4, <1>5, <1>6 DEF ClaimInv, RowsSettled
<1>8. ASSUME NEW q \in Replicas PROVE OwnsReport(q)' /\ (pc'[q] \notin Claimed)
  <2>1. CASE q = r
    BY <1>2, <2>1 DEF OwnsReport, Polling, Claimed
  <2>2. CASE q # r
    BY <1>1, <1>2, <2>2 DEF ClaimInv, OwnsReport, Now
  <2>3. QED BY <2>1, <2>2
<1>9. QED BY <1>7, <1>8 DEF OneClaim

\* The claimant gives up, and the report is not applied.
LEMMA RollbackKeepsClaim ==
    ASSUME ClaimInv, NEW r \in Replicas, Rollback(r)
    PROVE  OneClaim' /\ RowsSettled' /\ \A q \in Replicas : OwnsReport(q)'
<1>1. /\ pc[r] \in Claimed
      /\ \A q \in Replicas \ {r} : pc[q] \notin Claimed
  BY DEF Rollback, Claimed, ClaimInv, OneClaim
<1>2. /\ pc'[r] = "idle"
      /\ \A q \in Replicas \ {r} : /\ pc'[q] = pc[q] /\ report'[q] = report[q]
                                   /\ last'[q] = last[q] /\ stamp'[q] = stamp[q]
      /\ UNCHANGED <<bucket, entries, res, resets, target>>
  BY DEF Rollback, Leave, Goto, ClaimInv, TypeOK, adminVars
<1>3. ~Applied
  BY <1>1 DEF Applied
<1>4. \A e : Settled(e) => Settled(e)'
  BY <1>2, <1>3 DEF Settled, Now
<1>5. RowsSettled'
  BY <1>2, <1>4 DEF ClaimInv, RowsSettled
<1>6. ASSUME NEW q \in Replicas PROVE OwnsReport(q)' /\ (pc'[q] \notin Claimed)
  <2>1. CASE q = r
    BY <1>2, <2>1 DEF OwnsReport, Polling, Claimed
  <2>2. CASE q # r
    BY <1>1, <1>2, <2>2 DEF ClaimInv, OwnsReport, Now
  <2>3. QED BY <2>1, <2>2
<1>7. QED BY <1>5, <1>6 DEF OneClaim

\* A new report, or a reset, makes every row one of an older report.
LEMMA NewerKeepsClaim ==
    ASSUME ClaimInv, Quiet,
           \/ bucket'.at > bucket.at /\ UNCHANGED <<cursor, resets, target>>
           \/ resets' > resets /\ UNCHANGED bucket
              /\ \A a \in Admins : target'[a] \in {None, target[a]},
           UNCHANGED <<entries, res, replicaVars>>, TypeOK'
    PROVE  OneClaim' /\ RowsSettled' /\ \A q \in Replicas : OwnsReport(q)'
<1>1. OneClaim' /\ \A q \in Replicas : OwnsReport(q)'
  BY DEF Quiet, OneClaim, OwnsReport, Polling, replicaVars
<1>2. \A e \in Rows : Settled(e) => Settled(e)'
  <2> SUFFICES ASSUME NEW e \in Rows, Settled(e) PROVE Settled(e)'
    OBVIOUS
  <2>1. e.stamp[1] \in Nat /\ e.stamp[2] \in Nat
    BY DEF Rows, Stamps
  <2>2. resets \in Nat /\ bucket.at \in Nat /\ resets' \in Nat /\ bucket'.at \in Nat
    BY DEF ClaimInv, TypeOK, Reports
  <2>3. Older(e.stamp, Now) \/ e.stamp = Now
    BY DEF Settled
  <2>4. Older(e.stamp, Now')
    BY <2>1, <2>2, <2>3 DEF Older, Now
  <2>5. QED BY <2>4 DEF Settled
<1>3. RowsSettled'
  BY <1>2 DEF ClaimInv, RowsSettled, TypeOK
<1>4. QED BY <1>1, <1>3

LEMMA PollKeepsClaim ==
    ASSUME ClaimInv, NEW r \in Replicas, PollStep(r) \/ ApplyFails(r) \/ Crash(r)
    PROVE  OneClaim' /\ RowsSettled' /\ \A q \in Replicas : OwnsReport(q)'
<1>1. CASE Fetch(r)
  <2>1. /\ report'[r] = bucket /\ "cursor" \in Polling /\ "cursor" \notin Claimed
        /\ pc[r] \notin Claimed /\ bucket.at > 0
        /\ \A q \in Replicas \ {r} : report'[q] = report[q] /\ last'[q] = last[q]
    BY <1>1 DEF Fetch, ClaimInv, TypeOK, Polling, Claimed
  <2>2. QED BY <1>1, <2>1, MoveKeepsClaim DEF Fetch, storeVars, adminVars, Claimed
<1>2. CASE ReadCursor(r)
  <2>1. CASE Leave(r, "idle")
    BY <1>2, <2>1, LeaveKeepsClaim DEF ReadCursor, storeVars, adminVars
  <2>2. CASE ~Leave(r, "idle")
    <3>1. report[r] = bucket /\ bucket.at > 0
      BY <1>2 DEF ReadCursor, ClaimInv, OwnsReport, Polling
    <3>2. last'[r] < bucket.at
      BY <1>2, <2>2, <3>1, Numbers DEF ReadCursor, ClaimInv, TypeOK
    <3>3. \A q \in Replicas \ {r} : report'[q] = report[q] /\ last'[q] = last[q]
      BY <1>2, <2>2 DEF ReadCursor, ClaimInv, TypeOK
    <3>4. "advance" \in Polling /\ "advance" \notin Claimed /\ pc[r] \notin Claimed
      BY <1>2 DEF ReadCursor, Polling, Claimed
    <3>5. QED BY <1>2, <2>2, <3>1, <3>2, <3>3, <3>4, MoveKeepsClaim
                 DEF ReadCursor, storeVars, adminVars
  <2>3. QED BY <2>1, <2>2
<1>3. CASE Advance(r)
  <2>1. CASE Win(r) /\ cursor < report[r].at
    BY <1>3, <2>1, WinKeepsClaim DEF Advance, adminVars
  <2>2. CASE ~(Win(r) /\ cursor < report[r].at)
    <3>1. report[r] = bucket /\ bucket.at > 0 /\ last[r] < bucket.at
      BY <1>3 DEF Advance, ClaimInv, OwnsReport, Polling
    <3>2. "create" \in Polling /\ "create" \notin Claimed /\ pc[r] \notin Claimed
      BY <1>3 DEF Advance, Polling, Claimed
    <3>3. QED BY <1>3, <2>2, <3>1, <3>2, MoveKeepsClaim DEF Advance, adminVars
  <2>3. QED BY <2>1, <2>2
<1>4. CASE CreateCursor(r)
  <2>1. CASE cursor = None
    BY <1>4, <2>1, WinKeepsClaim DEF CreateCursor, adminVars
  <2>2. CASE cursor # None
    BY <1>4, <2>2, LeaveKeepsClaim DEF CreateCursor, adminVars
  <2>3. QED BY <2>1, <2>2
<1>5. CASE ReadEntries(r) \/ ApplyFails(r)
  <2>1. /\ report[r] = bucket /\ bucket.at > 0 /\ last[r] < bucket.at /\ pc[r] \in Claimed
        /\ {"apply", "rollback"} \subseteq Polling \cap Claimed
    BY <1>5 DEF ReadEntries, ApplyFails, ClaimInv, OwnsReport, Polling, Claimed
  <2>2. QED BY <1>5, <2>1, MoveKeepsClaim DEF ReadEntries, ApplyFails, storeVars, adminVars
<1>6. CASE Touch(r)
  BY <1>6, LeaveKeepsClaim DEF Touch, storeVars, adminVars
<1>7. CASE Supersede(r)
  BY <1>7, SupersedeKeepsClaim
<1>8. CASE Rollback(r)
  BY <1>8, RollbackKeepsClaim
<1>9. CASE Crash(r)
  BY <1>9, LeaveKeepsClaim DEF Crash, storeVars, adminVars
<1>10. QED BY <1>1, <1>2, <1>3, <1>4, <1>5, <1>6, <1>7, <1>8, <1>9 DEF PollStep

LEMMA ClaimKept == ASSUME ~Overlapping PROVE ClaimInv /\ [Next]_vars => ClaimInv'
<1> SUFFICES ASSUME ClaimInv, [Next]_vars PROVE ClaimInv'
  OBVIOUS
<1>1. TypeOK'
  BY TypesKept DEF ClaimInv
<1> SUFFICES OneClaim' /\ RowsSettled' /\ \A r \in Replicas : OwnsReport(r)'
  BY <1>1 DEF ClaimInv
<1>2. CASE Publish
  <2>1. Quiet /\ bucket'.at = bucket.at + 1
    BY <1>2 DEF Publish
  <2>2. QED BY <1>1, <1>2, <2>1, Numbers, NewerKeepsClaim DEF Publish, ClaimInv, adminVars
<1>3. ASSUME NEW r \in Replicas, PollStep(r) \/ ApplyFails(r) \/ Crash(r)
      PROVE  OneClaim' /\ RowsSettled' /\ \A q \in Replicas : OwnsReport(q)'
  BY <1>3, PollKeepsClaim
<1>4. ASSUME NEW a \in Admins, ResetDC(a)
      PROVE  OneClaim' /\ RowsSettled' /\ \A q \in Replicas : OwnsReport(q)'
  <2>1. Quiet /\ resets' > resets
    BY <1>4, Numbers DEF ResetDC, ClaimInv
  <2>2. \A b \in Admins : target'[b] \in {None, target[b]}
    BY <1>4 DEF ResetDC, Answer, ClaimInv, TypeOK
  <2>3. QED BY <1>1, <1>4, <2>1, <2>2, NewerKeepsClaim DEF ResetDC
<1>5. ASSUME NEW a \in Admins,
             \/ \E w \in Requests \ {"clear"}, e \in entries : GetEntry(a, w, e)
             \/ Dispatch(a) \/ DeleteResolution(a) \/ RecordResolution(a)
             \/ RemoveEntry(a) \/ ClearRead(a) \/ ClearTx(a) \/ RequestFails(a)
      PROVE  OneClaim' /\ RowsSettled' /\ \A q \in Replicas : OwnsReport(q)'
  <2>1. UNCHANGED <<bucket, cursor, resets, replicaVars>> /\ entries' \subseteq entries
    BY <1>5 DEF GetEntry, Dispatch, DeleteResolution, RecordResolution, RemoveEntry,
                ClearRead, ClearTx, RequestFails, storeVars
  <2>2. \A b \in Admins : target'[b] \in {None, target[b]} \cup entries
    BY <1>5 DEF GetEntry, Dispatch, DeleteResolution, RecordResolution, RemoveEntry, ClearRead,
                ClearTx, RequestFails, Answer, Step, storeVars, ClaimInv, TypeOK
  <2>3. CASE RecordResolution(a)
    <3>1. \A p \in Pairs : res'[p] \in {None, res[p], target[a]}
      BY <2>3 DEF RecordResolution, ClaimInv, TypeOK
    <3>2. QED BY <2>1, <2>2, <3>1, AdminKeepsClaim
  <2>4. CASE DeleteResolution(a) \/ ClearTx(a)
    <3>1. \A p \in Pairs : res'[p] \in {None, res[p]}
      BY <2>4, DropKeeps DEF DeleteResolution, ClearTx
    <3>2. QED BY <2>1, <2>2, <3>1, AdminKeepsClaim
  <2>5. CASE ~(RecordResolution(a) \/ DeleteResolution(a) \/ ClearTx(a))
    <3>1. res' = res
      BY <1>5, <2>5 DEF GetEntry, Dispatch, RemoveEntry, ClearRead, RequestFails, storeVars
    <3>2. QED BY <2>1, <2>2, <3>1, AdminKeepsClaim
  <2>6. QED BY <2>3, <2>4, <2>5
<1>6. CASE UNCHANGED vars
  BY <1>6 DEF vars, storeVars, replicaVars, adminVars, ClaimInv, OneClaim, RowsSettled,
              Settled, Applied, Now, OwnsReport
<1>7. QED BY <1>2, <1>3, <1>4, <1>5, <1>6 DEF Next

\* While no report and no reset arrives during an ingest, an ingest takes back
\* decisions on older reports only, for any number of replicas and crashes.
THEOREM DecisionsAreKept == ASSUME ~Overlapping PROVE Spec => NoDecisionLost
<1>1. ClaimInv => \A r \in Replicas, p \in Pairs :
                     pc[r] = "apply" /\ res[p] # None => Older(res[p].stamp, stamp[r])
  BY DEF ClaimInv, OwnsReport, RowsSettled, Settled, Applied, Claimed
<1>2. ClaimInv /\ [Next]_vars
        => [\A r \in Replicas, p \in Pairs :
              Supersedes(r) /\ res[p] # None /\ res'[p] = None
                => Older(res[p].stamp, stamp[r])]_vars
  BY <1>1 DEF Supersedes
<1>3. QED BY <1>2, InitClaim, ClaimKept, PTL DEF Spec, NoDecisionLost
=============================================================================
