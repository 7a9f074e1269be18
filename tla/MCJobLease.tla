----------------------------- MODULE MCJobLease -----------------------------
(* Instances of JobLease for TLC: which kind each job row is of, and the     *)
(* symmetry of the replicas (not used where liveness is checked).            *)
EXTENDS JobLease, TLC

TwoExports   == ("e1" :> "export") @@ ("e2" :> "export")
ExportsRestore == TwoExports @@ ("r1" :> "restore")
RestoreBackup == ("r1" :> "restore") @@ ("b1" :> "backup")

Replicas == Permutations(Procs)

\* Bounds: one replica at a time is cut off, and one job loses its context.
OneTrouble ==
    /\ \A p, q \in Procs : proc[p] = "cut" /\ proc[q] = "cut" => p = q
    /\ \A i, j \in Jobs : ~live[i] /\ ~live[j] => i = j
=============================================================================
