----------------------------- MODULE VersionLog -----------------------------
(***************************************************************************)
(* What the publish history of one data center promises: v1, v2, ... are   *)
(* given once each, without a gap, and an entry never changes.             *)
(* ArtifactPublish implements this while publishes do not overlap.         *)
(***************************************************************************)
EXTENDS Naturals

CONSTANT Jobs      \* the exports that may be published
VARIABLE log       \* version number -> the set of its one artifact

Init == log = [n \in {} |-> {}]

\* One more version.  An artifact is recorded once.
Append(j) ==
    /\ \A n \in DOMAIN log : j \notin log[n]
    /\ \E n \in {0} \cup DOMAIN log :
        /\ \A m \in DOMAIN log : m <= n
        /\ log' = [m \in DOMAIN log \cup {n + 1} |->
                     IF m = n + 1 THEN {j} ELSE log[m]]

Next == \E j \in Jobs : Append(j)

Spec == Init /\ [][Next]_log
=============================================================================
