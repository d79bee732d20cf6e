----------------------------- MODULE PublishOnce -----------------------------
(***************************************************************************)
(* What the evidence store promises: a suite execution has at most one     *)
(* published summary, and whoever obtains one obtains that one.            *)
(***************************************************************************)
CONSTANTS Readers, Values, None

VARIABLES published, answers

Init ==
  /\ published = None
  /\ answers = [r \in Readers |-> None]

\* A reader is given v: it is published now, or was before.
Deliver(r, v) ==
  /\ published \in {None, v}
  /\ answers[r] = None
  /\ published' = v
  /\ answers' = [answers EXCEPT ![r] = v]

Next == \E r \in Readers, v \in Values : Deliver(r, v)

Spec == Init /\ [][Next]_<<published, answers>>
=============================================================================
