--------------------------- MODULE MCReconciliation ---------------------------
(* An instance of Reconciliation for TLC: honest records of small suites,    *)
(* and those in which one or two records say something else.                 *)
EXTENDS Reconciliation, SequencesExt

CONSTANTS a, b, small, large

MCSizeOf == small :> 1 @@ large :> 3

Ours == [ours |-> TRUE, attempt |-> 1]
Failing(names, how) == SetToSeq({[name |-> n, how |-> how] : n \in names})

\* The records of history h.
Honest(h, format, reported) ==
  LET n == Cardinality(AllFailed(h))
  IN  [state     |-> IF ~reported THEN "unreported"
                     ELSE IF n = 0 THEN "success" ELSE "failure",
       verdict   |-> IF n = 0 THEN "pass" ELSE "fail",
       format    |-> format,
       par       |-> Cardinality(DOMAIN h), total |-> Total(h),
       planned   |-> DOMAIN h,
       plan      |-> [s \in DOMAIN h |-> Size(h[s])],
       failed    |-> SetToSeq(UNION {{s} \X h[s].failed : s \in DOMAIN h}),
       build     |-> [s \in DOMAIN h |-> Ours],
       testcases |-> [s \in DOMAIN h |-> "planned"],
       done      |-> [s \in DOMAIN h |->
                        [assigned |-> Size(h[s]),
                         code |-> IF h[s].failed = {} THEN 0 ELSE 1]],
       result    |-> [s \in DOMAIN h |->
                        [passed |-> h[s].passed, skipped |-> h[s].skipped,
                         failed |-> Cardinality(h[s].failed),
                         executed |-> h[s].passed + Cardinality(h[s].failed),
                         nok |-> SetToSeq(h[s].failed)]],
       junit     |-> [s \in DOMAIN h |->
                        [passed |-> h[s].passed, skipped |-> h[s].skipped,
                         failed |-> Failing(h[s].failed,
                                            IF s = 1 THEN "failure" ELSE "error")]]]

\* A sequence with one element more or less.
Varied(seq, elements) ==
  {Append(seq, x) : x \in elements} \cup (IF seq = <<>> THEN {} ELSE {Tail(seq)})

\* Evidence in which one record says something else.
OfSuite(e) ==
       {[e EXCEPT !.total = x] : x \in {e.total + 1, e.total + 2}}
  \cup {[e EXCEPT !.verdict = v] : v \in {"pass", "fail"}}
  \cup {[e EXCEPT !.state = v] : v \in {"success", "failure"}}
  \cup {[e EXCEPT !.par = 1], [e EXCEPT !.planned = {1}]}
  \cup {[e EXCEPT !.plan = [s \in {1} |-> e.total]]}
  \cup {[e EXCEPT !.failed = f] : f \in Varied(e.failed, Shards \X Names)}

OfShard(e, s) ==
  LET r == e.result[s]
      j == e.junit[s]
  IN   {[e EXCEPT !.plan[s] = @ + 1], [e EXCEPT !.done[s].assigned = @ + 1]}
  \cup {[e EXCEPT !.done[s].code = c] : c \in 0 .. 2}
  \cup {[e EXCEPT !.build[s].ours = FALSE], [e EXCEPT !.testcases[s] = "other"]}
  \cup {[e EXCEPT !.build[s].attempt = x] : x \in {Unknown, 2}}
  \cup {[e EXCEPT !.result[s] = x] :
          x \in {[r EXCEPT !.passed = @ + 1, !.executed = @ + 1],
                 [r EXCEPT !.skipped = @ + 1], [r EXCEPT !.failed = @ + 1]}
                \cup {[r EXCEPT !.nok = q, !.failed = Len(q), !.executed = r.passed + Len(q)] :
                        q \in Varied(r.nok, Names)}}
  \cup {[e EXCEPT !.junit[s] = x] :
          x \in {[j EXCEPT !.passed = @ + 1], [j EXCEPT !.skipped = @ + 1]}
                \cup {[j EXCEPT !.failed = q] :
                        q \in Varied(j.failed, [name : Names, how : {"failure"}])}}

Other(e) == OfSuite(e) \cup UNION {OfShard(e, s) : s \in DOMAIN e.plan}

Small == [passed : 0 .. 1, skipped : 0 .. 1, failed : SUBSET Names]
History(o1, o2) == 1 :> o1 @@ 2 :> o2

\* One record wrong, or two.
Passes   == [passed |-> 1, skipped |-> 0, failed |-> {}]
Fails(n) == [passed |-> 1, skipped |-> 1, failed |-> n]
Told == {Honest(History(o, p), f, r) :
           o \in Small, p \in {Passes, Fails({b})}, f \in Formats, r \in BOOLEAN}
Few  == {Honest(History(Fails({a}), Fails({b})), f, TRUE) : f \in Formats}
WithBinaries == {Honest(History(Fails({a}), Fails({b})), "test_status", TRUE)}

MCSuites ==
       [records : Told \cup UNION {Other(e) : e \in Told}, binaries : {FALSE}]
  \cup [records : UNION {Other(d) : d \in UNION {Other(e) : e \in Few}}, binaries : {FALSE}]
  \cup [records : WithBinaries, binaries : {TRUE}]
=============================================================================
