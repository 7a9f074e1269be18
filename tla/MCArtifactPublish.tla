-------------------------- MODULE MCArtifactPublish --------------------------
(* Instances of ArtifactPublish for TLC: the symmetry of publish-mode jobs.   *)
EXTENDS ArtifactPublish, TLC

PublishJobs == Permutations(Jobs \ Download)
=============================================================================
