------------------------------ MODULE JobBoard ------------------------------
(***************************************************************************)
(* What a client of the job endpoints may rely on: a board of rows, one    *)
(* status each, on which two conflicting jobs are never in progress at the *)
(* same time.  Processes, locks, leases and DGraph are not visible here;   *)
(* JobLease implements this specification.                                 *)
(***************************************************************************)
CONSTANTS
    Jobs,        \* the rows
    Conflicts,   \* pairs of rows that may not be in progress together
    LateWrites   \* TRUE when a runner may write after its row was failed

VARIABLE status

Statuses == {"absent", "pending", "running", "completed", "failed", "deleted"}
Active   == {"pending", "running"}

Init == status = [j \in Jobs |-> "absent"]

Move(j, from, to) == status[j] \in from /\ status' = [status EXCEPT ![j] = to]

\* A trigger answered 202; with a conflicting job in progress it answers 409.
Accept(j) == /\ \A i \in Jobs : <<i, j>> \in Conflicts => status[i] \notin Active
             /\ Move(j, {"absent"}, "pending")
Start(j)    == Move(j, {"pending"}, "running")
Complete(j) == Move(j, {"running"} \cup (IF LateWrites THEN {"failed"} ELSE {}), "completed")
\* By its runner or by the reaper; a completed export when its publish fails.
Fail(j)     == Move(j, {"pending", "running", "completed"}, "failed")
Delete(j)   == Move(j, {"completed", "failed"}, "deleted")

Next == \E j \in Jobs : Accept(j) \/ Start(j) \/ Complete(j) \/ Fail(j) \/ Delete(j)

Spec == Init /\ [][Next]_status

\* Blocking is mutual, and no row blocks itself.
ConflictsAreMutual ==
    \A i, j \in Jobs : <<i, j>> \in Conflicts => <<j, i>> \in Conflicts /\ i # j

\* Conflicting jobs are never in progress together.
Exclusive == \A i, j \in Jobs :
    <<i, j>> \in Conflicts => ~(status[i] \in Active /\ status[j] \in Active)
=============================================================================
