--------------------------- MODULE MCEvidenceStore ---------------------------
(* Instances of EvidenceStore for TLC.  Permuting invocations, mandatory     *)
(* files or contents changes nothing any invariant can tell.                 *)
EXTENDS EvidenceStore, TLC

Symmetry ==
  Permutations(Collectors) \cup Permutations(Mandatory)
    \cup Permutations(Contents) \cup Permutations(RunVersions)
=============================================================================
