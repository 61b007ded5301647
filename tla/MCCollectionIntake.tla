-------------------------- MODULE MCCollectionIntake --------------------------
(* Instances of CollectionIntake for TLC.  Registrars, code versions and the  *)
(* files other than the manifest may be permuted where no liveness is checked. *)
EXTENDS CollectionIntake, TLC

Symmetry == Permutations(Registrars) \cup Permutations(Versions) \cup Permutations(Files \ {Manifest})
=============================================================================
