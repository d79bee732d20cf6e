---------------------------- MODULE MCRerunLineage ----------------------------
(* An instance of RerunLineage for TLC: a chain of reruns.                   *)
EXTENDS RerunLineage, TLC

CONSTANTS r1, r2, r3

\* r3 reruns r2, which reruns r1.
Chain == r1 :> NoRun @@ r2 :> r1 @@ r3 :> r2

\* r1 passes; r2 executes cases or carries a verdict forward, rightly or not.
Carries(v) == [carried |-> TRUE, verdict |-> v]
Executes(v) == [carried |-> FALSE, verdict |-> v]
MCUploads == r1 :> {Executes("pass")}
          @@ r2 :> {Executes("fail"), Carries("pass"), Carries("fail")}
          @@ r3 :> {Carries("pass")}

Symmetry == Permutations(Collectors)
=============================================================================
