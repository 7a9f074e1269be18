-------------------------- MODULE DivergenceIngest --------------------------
(***************************************************************************)
(* Divergence reports of one data center and what operators decide on      *)
(* them: the edge overwrites one report in a bucket, every replica of      *)
(* orbital polls it, one of them claims it with the cursor and makes the   *)
(* table of entries equal to it, and operators resolve, dismiss or clear   *)
(* entries meanwhile (internal/divergenceingest, internal/handler/         *)
(* divergence.go).                                                         *)
(*                                                                         *)
(* An entry is an override (a field of a resource and its value) together  *)
(* with a stamp: the cursor reset and the report it was inserted for.  The *)
(* stamp identifies the row, as its UUID does.                             *)
(***************************************************************************)
EXTENDS Naturals

CONSTANTS
    Replicas,     \* process incarnations of orbital that poll
    Admins,       \* operators, one request each at a time
    Overrides,    \* records [pair |-> ..., value |-> ...] a report may hold
    ResourceOf,   \* ResourceOf[p]: the resource (entry_orb_id) of pair p
    MaxReports,   \* bound: publishedAt values
    MaxClears,    \* bound: cursor resets
    Overlapping,  \* TRUE when reports and resets may arrive during an ingest
    None

Pairs == {o.pair : o \in Overrides}

\* The unique index of the entries admits a report that names no field twice;
\* nothing at the edge keeps it from publishing another one.
Insertable(content) == \A o, q \in content : o.pair = q.pair => o = q

ASSUME DivergenceAssumption ==
    /\ \A o \in Overrides : o = [pair |-> o.pair, value |-> o.value]
    /\ ResourceOf \in [Pairs -> {ResourceOf[p] : p \in Pairs}]
    /\ MaxReports \in Nat /\ MaxClears \in Nat
    /\ Overlapping \in BOOLEAN
    /\ None \notin Nat

VARIABLES
    bucket,               \* the report under the data center's stable key
    cursor,               \* last_published_at, None without a row
    entries, res,         \* the rows of the two tables
    resets,               \* cursor resets so far
    pc, report, last,     \* replicas: where, the report read, the cursor read
    stamp, existing,      \*   the stamp of the claim, the entries read
    at, what, target, had \* operators: where, request, entry read, rows read

storeVars   == <<bucket, cursor, entries, res, resets>>
replicaVars == <<pc, report, last, stamp, existing>>
adminVars   == <<at, what, target, had>>
vars == <<storeVars, replicaVars, adminVars>>

Stamps  == (0..MaxClears) \X (0..MaxReports)
Rows    == [override : Overrides, stamp : Stamps]
Reports == [at : 0..MaxReports, content : SUBSET Overrides]

\* Stamp s is older than stamp t.
Older(s, t) == s[1] < t[1] \/ (s[1] = t[1] /\ s[2] < t[2])

Claimed  == {"read", "apply", "rollback"}
Polling  == Claimed \cup {"cursor", "advance", "create"}
Requests == {"accept", "decide", "undo", "dismiss", "clear"}
NoReport == [at |-> 0, content |-> {}]

\* No replica is in the middle of a poll.
Quiet == \A r \in Replicas : pc[r] \notin Polling

Init ==
    /\ bucket = NoReport /\ cursor = None
    /\ entries = {} /\ res = [p \in Pairs |-> None]
    /\ resets = 0
    /\ pc = [r \in Replicas |-> "idle"]
    /\ report = [r \in Replicas |-> NoReport]
    /\ last = [r \in Replicas |-> 0]
    /\ stamp = [r \in Replicas |-> <<0, 0>>]
    /\ existing = [r \in Replicas |-> {}]
    /\ at = [a \in Admins |-> "idle"]
    /\ what = [a \in Admins |-> "decide"]
    /\ target = [a \in Admins |-> None]
    /\ had = [a \in Admins |-> {}]

\* The edge overwrites its report.  publishedAt is in seconds: two reports of
\* one second have the same.
Publish ==
    /\ Overlapping \/ Quiet
    /\ \E c \in SUBSET Overrides,
          n \in {bucket.at + 1} \cup (IF Overlapping THEN {bucket.at} ELSE {}) :
        /\ n \in 1..MaxReports
        /\ bucket' = [at |-> n, content |-> c]
    /\ UNCHANGED <<cursor, entries, res, resets, replicaVars, adminVars>>

-----------------------------------------------------------------------------
(* pollDC at replica r.                                                    *)

Goto(r, next) == pc' = [pc EXCEPT ![r] = next]
\* The poll of r is over, and with it what it had read.
Leave(r, next) ==
    /\ Goto(r, next)
    /\ report' = [report EXCEPT ![r] = NoReport]
    /\ last' = [last EXCEPT ![r] = 0]
    /\ stamp' = [stamp EXCEPT ![r] = <<0, 0>>]
    /\ existing' = [existing EXCEPT ![r] = {}]

\* List and get the report.
Fetch(r) ==
    /\ pc[r] = "idle" /\ bucket.at > 0
    /\ report' = [report EXCEPT ![r] = bucket]
    /\ Goto(r, "cursor")
    /\ UNCHANGED <<storeVars, last, stamp, existing, adminVars>>

\* A missing row that is not read as the zero time.
ReadCursorNoRow(r) ==
    /\ pc[r] = "cursor"
    /\ last' = [last EXCEPT ![r] = cursor]
    /\ Goto(r, "advance")
    /\ UNCHANGED <<storeVars, report, stamp, existing, adminVars>>
\* readCursor, and the advisory skip of a report that is not newer.
ReadCursor(r) ==
    /\ pc[r] = "cursor"
    /\ \/ /\ cursor # None /\ report[r].at <= cursor
          /\ Leave(r, "idle")
       \/ /\ ~(cursor # None /\ report[r].at <= cursor)
          /\ last' = [last EXCEPT ![r] = IF cursor = None THEN 0 ELSE cursor]
          /\ Goto(r, "advance")
          /\ UNCHANGED <<report, stamp, existing>>
    /\ UNCHANGED <<storeVars, adminVars>>

\* The claim is won: the cursor is this report's.
Win(r) ==
    /\ cursor' = report[r].at
    /\ stamp' = [stamp EXCEPT ![r] = <<resets, report[r].at>>]
    /\ Goto(r, "read")
    /\ UNCHANGED <<report, last, existing>>

\* A cursor that is set to the report's publishedAt whatever it was.
AdvanceAlways(r) ==
    /\ pc[r] = "advance"
    /\ Win(r)
    /\ UNCHANGED <<bucket, entries, res, resets, adminVars>>
\* advanceCursor: UPDATE ... WHERE last_published_at < publishedAt.
Advance(r) ==
    /\ pc[r] = "advance"
    /\ \/ cursor # None /\ cursor < report[r].at /\ Win(r)
       \/ /\ ~(cursor # None /\ cursor < report[r].at)
          /\ Goto(r, "create")
          /\ UNCHANGED <<cursor, report, last, stamp, existing>>
    /\ UNCHANGED <<bucket, entries, res, resets, adminVars>>

\* advanceCursor: no row was updated, so insert one; the unique index says that
\* another replica has it.
CreateCursor(r) ==
    /\ pc[r] = "create"
    /\ \/ cursor = None /\ Win(r)
       \/ cursor # None /\ Leave(r, "idle") /\ UNCHANGED cursor
    /\ UNCHANGED <<bucket, entries, res, resets, adminVars>>

\* applyReport: the existing entries.
ReadEntries(r) ==
    /\ pc[r] = "read"
    /\ existing' = [existing EXCEPT ![r] = entries]
    /\ Goto(r, "apply")
    /\ UNCHANGED <<storeVars, report, last, stamp, adminVars>>

\* contentEqual and dcHasResolutions, on the entries read before; the latter
\* asks for the resources only, not for the fields.
ContentEqual(r) == {e.override : e \in existing[r]} = report[r].content
HasResolutions(r) ==
    \E p \in Pairs : /\ res[p] # None
                     /\ \E e \in existing[r] : ResourceOf[e.override.pair] = ResourceOf[p]

\* Nobody has decided on the same report: only time stamps are touched.
Touch(r) ==
    /\ pc[r] = "apply"
    /\ ContentEqual(r) /\ ~HasResolutions(r)
    /\ Leave(r, "idle")
    /\ UNCHANGED <<storeVars, adminVars>>

Incoming(r) == {[override |-> o, stamp |-> stamp[r]] : o \in report[r].content}
Drop(rows)  == res' = [p \in Pairs |->
                        IF \E e \in rows : e.override.pair = p THEN None ELSE res[p]]

\* An upsert that leaves the rows the report no longer has.
SupersedeKeepStale(r) ==
    /\ pc[r] = "apply"
    /\ ~ContentEqual(r) \/ HasResolutions(r)
    /\ Drop(existing[r])
    /\ entries' = Incoming(r) \cup
          {e \in entries : \A o \in report[r].content : o.pair # e.override.pair}
    /\ Leave(r, "idle")
    /\ UNCHANGED <<bucket, cursor, resets, adminVars>>
\* One transaction: the resolutions of the entries read before and all entries
\* of the data center go, the report's come.
Supersede(r) ==
    /\ pc[r] = "apply"
    /\ ~ContentEqual(r) \/ HasResolutions(r)
    /\ Insertable(report[r].content)
    /\ Drop(existing[r])
    /\ entries' = Incoming(r)
    /\ Leave(r, "idle")
    /\ UNCHANGED <<bucket, cursor, resets, adminVars>>

\* A statement of applyReport fails; nothing of its transaction stays.
ApplyFails(r) ==
    /\ pc[r] \in {"read", "apply"}
    /\ Goto(r, "rollback")
    /\ existing' = [existing EXCEPT ![r] = {}]
    /\ UNCHANGED <<storeVars, report, last, stamp, adminVars>>

\* A failed apply that keeps its claim.
RollbackForgotten(r) ==
    /\ pc[r] = "rollback"
    /\ Leave(r, "idle")
    /\ UNCHANGED <<storeVars, adminVars>>
\* Release the claim, if the cursor is still this report's: back to what was
\* read, the zero time when there was no row.
Rollback(r) ==
    /\ pc[r] = "rollback"
    /\ cursor' = IF cursor = report[r].at THEN last[r] ELSE cursor
    /\ Leave(r, "idle")
    /\ UNCHANGED <<bucket, entries, res, resets, adminVars>>

\* The process dies, at any step of its poll.  A rollback that errors leaves
\* what a crash there leaves.  Some other replica stays up.
Crash(r) ==
    /\ pc[r] # "dead" /\ \E q \in Replicas \ {r} : pc[q] # "dead"
    /\ Leave(r, "dead")
    /\ UNCHANGED <<storeVars, adminVars>>

-----------------------------------------------------------------------------
(* The operators' requests.                                                *)

Step(a, next) == at' = [at EXCEPT ![a] = next] /\ UNCHANGED <<what, target, had>>
\* The request is over, done or failed.
Answer(a) ==
    /\ at' = [at EXCEPT ![a] = "idle"]
    /\ what' = [what EXCEPT ![a] = "decide"]
    /\ target' = [target EXCEPT ![a] = None]
    /\ had' = [had EXCEPT ![a] = {}]

\* Get the entry by its id; a request for one that is gone answers 404: no step.
GetEntry(a, w, e) ==
    /\ at[a] = "idle"
    /\ what' = [what EXCEPT ![a] = w]
    /\ target' = [target EXCEPT ![a] = e]
    /\ at' = [at EXCEPT ![a] = IF w = "accept" THEN "dispatch" ELSE "delete"]
    /\ UNCHANGED <<storeVars, replicaVars, had>>

\* Accept: the mutation is done, before anything is recorded.  When it is not,
\* or becomes a change request, the request ends and the entry stays pending.
Dispatch(a) ==
    /\ at[a] = "dispatch"
    /\ Step(a, "delete")
    /\ UNCHANGED <<storeVars, replicaVars>>

\* The delete that undo consists of, and that precedes the others' last step.
DeleteResolution(a) ==
    /\ at[a] = "delete"
    /\ Drop({target[a]})
    /\ \/ what[a] = "undo" /\ Answer(a)
       \/ what[a] = "dismiss" /\ Step(a, "remove")
       \/ what[a] \in {"accept", "decide"} /\ Step(a, "record")
    /\ UNCHANGED <<bucket, cursor, entries, resets, replicaVars>>

\* Insert the resolution; the unique index refuses a second one.
RecordResolution(a) ==
    /\ at[a] = "record"
    /\ LET p == target[a].override.pair
       IN  res' = IF res[p] = None THEN [res EXCEPT ![p] = target[a]] ELSE res
    /\ Answer(a)
    /\ UNCHANGED <<bucket, cursor, entries, resets, replicaVars>>

\* Dismiss: delete the entry by its id.
RemoveEntry(a) ==
    /\ at[a] = "remove"
    /\ entries' = entries \ {target[a]}
    /\ Answer(a)
    /\ UNCHANGED <<bucket, cursor, res, resets, replicaVars>>

\* ClearByDC: the entries, then one transaction, then ResetDC, whose failure
\* is a warning.
ClearRead(a) ==
    /\ at[a] = "idle" /\ resets < MaxClears
    /\ what' = [what EXCEPT ![a] = "clear"]
    /\ had' = [had EXCEPT ![a] = entries]
    /\ at' = [at EXCEPT ![a] = "clear"]
    /\ UNCHANGED <<storeVars, replicaVars, target>>
ClearTx(a) ==
    /\ at[a] = "clear"
    /\ Drop(had[a])
    /\ entries' = {}
    /\ Step(a, "reset")
    /\ UNCHANGED <<bucket, cursor, resets, replicaVars>>
ResetDC(a) ==
    /\ at[a] = "reset" /\ resets < MaxClears
    /\ Overlapping \/ Quiet
    /\ cursor' = None
    /\ resets' = resets + 1
    /\ Answer(a)
    /\ UNCHANGED <<bucket, entries, res, replicaVars>>

\* A statement fails and the request ends where it is.
RequestFails(a) ==
    /\ at[a] # "idle"
    /\ Answer(a)
    /\ UNCHANGED <<storeVars, replicaVars>>

-----------------------------------------------------------------------------
PollStep(r) ==
    \/ Fetch(r) \/ ReadCursor(r) \/ Advance(r) \/ CreateCursor(r)
    \/ ReadEntries(r) \/ Touch(r) \/ Supersede(r) \/ Rollback(r)

Next ==
    \/ Publish
    \/ \E r \in Replicas : PollStep(r) \/ ApplyFails(r) \/ Crash(r)
    \/ \E a \in Admins :
        \/ \E w \in Requests \ {"clear"}, e \in entries : GetEntry(a, w, e)
        \/ Dispatch(a) \/ DeleteResolution(a) \/ RecordResolution(a)
        \/ RemoveEntry(a) \/ ClearRead(a) \/ ClearTx(a) \/ ResetDC(a)
        \/ RequestFails(a)

Spec == Init /\ [][Next]_vars

\* Every replica's ticker fires and its poll goes on; applying a report does
\* not fail every time.
FairSpec ==
    /\ Spec
    /\ \A r \in Replicas : /\ WF_vars(PollStep(r))
                          /\ SF_vars(ReadEntries(r)) /\ SF_vars(Touch(r) \/ Supersede(r))

-----------------------------------------------------------------------------
(* Properties.                                                             *)

TypeOK ==
    /\ bucket \in Reports
    /\ cursor \in (0..MaxReports) \cup {None}
    /\ entries \in SUBSET Rows
    /\ res \in [Pairs -> Rows \cup {None}]
    /\ resets \in 0..MaxClears
    /\ pc \in [Replicas -> Polling \cup {"idle", "dead"}]
    /\ report \in [Replicas -> Reports]
    /\ last \in [Replicas -> 0..MaxReports]
    /\ stamp \in [Replicas -> Stamps]
    /\ existing \in [Replicas -> SUBSET Rows]
    /\ at \in [Admins -> {"idle", "dispatch", "delete", "record", "remove", "clear", "reset"}]
    /\ what \in [Admins -> Requests]
    /\ target \in [Admins -> Rows \cup {None}]
    /\ had \in [Admins -> SUBSET Rows]

\* Replica r commits the transaction of applyReport in this step.
Supersedes(r) == pc[r] = "apply" /\ pc'[r] = "idle" /\ UNCHANGED at

\* The table shows one report, never rows of two.
OneReport == \A e, f \in entries : e.stamp = f.stamp

\* An ingest drops an operator's decision only for a report (or a re-ingest
\* after a clear) that came after the one the operator decided on: no second
\* replica, retry or restart applies the same report again and with it takes
\* the decision back (what the claim in advanceCursor is for).
NoDecisionLost ==
    [][\A r \in Replicas, p \in Pairs :
        Supersedes(r) /\ res[p] # None /\ res'[p] = None
            => Older(res[p].stamp, stamp[r])]_vars

\* While no replica dies, a report the cursor has not reached ends up in the
\* table, or the one that took its place does: no failed apply skips it.  (For
\* reports that are insertable: another one is tried again at every poll.)
Behind == bucket.at > 0 /\ (cursor = None \/ cursor < bucket.at)
Shown  == {e.override : e \in entries} = bucket.content
ReportIsShown == [](\A r \in Replicas : pc[r] # "dead") => (Behind ~> Shown)
=============================================================================
