---------------------------- MODULE MCOrbImport ----------------------------
(* Instances of OrbImport for TLC.                                           *)
EXTENDS OrbImport
=============================================================================
