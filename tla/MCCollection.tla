---------------------------- MODULE MCCollection ----------------------------
(* Instances of Collection for TLC.  Commands are interchangeable.           *)
EXTENDS Collection, TLC

CONSTANTS sql, r1

\* One suite of one run.
SqlRun == sql :> r1

Symmetry == Permutations(Commands)
=============================================================================
