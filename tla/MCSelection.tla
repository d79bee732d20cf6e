----------------------------- MODULE MCSelection -----------------------------
(* An instance of Selection for TLC.                                         *)
EXTENDS Selection, TLC

CONSTANTS sql, medium, p1, p2, fork, left, right

\* Two runs report one suite, the newer one through both sources; nothing
\* reports the other.
MCReporters ==
  {<<"commit_status", sql, 1>>, <<"commit_status", sql, 2>>, <<"check_run", sql, 2>>}

\* The pull request as it was opened, and after a merge that left it two bases.
MCMergeBases == p1 :> {fork} @@ p2 :> {left, right}
=============================================================================
