----------------------------- MODULE VerdictProofs -----------------------------
(***************************************************************************)
(* That the comparisons of Reconciliation, one after the other and with    *)
(* running sums, publish exactly the records that a history explains; and  *)
(* its type invariant.                                                     *)
(***************************************************************************)
EXTENDS ReconciliationProofs

(***************************************************************************)
(* The records.                                                            *)
(***************************************************************************)
Failing == [name : Names, how : {"failure", "error"}]

LEMMA JUnitTypes ==
  ASSUME NEW e, IsEvidence(e), NEW s \in DOMAIN e.done
  PROVE  /\ s \in Shards /\ e.build[s] \in Builds
         /\ e.junit[s].passed \in Nat /\ e.junit[s].skipped \in Nat
         /\ Cases(e, s) \in Seq(Failing) /\ Len(Cases(e, s)) \in Nat
<1>1. e.junit[s] \in JUnits /\ e.build[s] \in Builds /\ s \in Shards
  BY DEF IsEvidence
<1>2. Cases(e, s) \in Seq(Failing)
  BY <1>1 DEF Cases, JUnits, Failing
<1> QED  BY <1>1, <1>2, Elements DEF JUnits

LEMMA ResultTypes ==
  ASSUME NEW e, IsEvidence(e), NEW s \in DOMAIN e.done
  PROVE  /\ e.result[s].nok \in Seq(Names)
         /\ Result(e, s) \in [passed : Nat, failed : Nat, skipped : Nat]
         /\ Handled(Result(e, s)) \in Nat
<1>1. e.result[s] \in Results
  BY DEF IsEvidence
<1>2. /\ e.result[s].nok \in Seq(Names) /\ Len(e.result[s].nok) \in Nat
      /\ e.result[s].passed \in Nat /\ e.result[s].failed \in Nat
      /\ e.result[s].skipped \in Nat
  BY <1>1, Elements DEF Results
<1>3. Result(e, s) \in [passed : Nat, failed : Nat, skipped : Nat]
  BY <1>2 DEF Result
<1> QED  BY <1>2, <1>3 DEF Handled

(* Each case that failed, failed in one of two ways.                        *)
LEMMA CasesOf ==
  ASSUME NEW e, IsEvidence(e), NEW s \in DOMAIN e.done
  PROVE  /\ CaseNames(e, s) \subseteq Names /\ IsFiniteSet(CaseNames(e, s))
         /\ Cardinality(CaseNames(e, s)) \in Nat
         /\ How(e, s, "failure") \in Nat /\ How(e, s, "error") \in Nat
         /\ How(e, s, "failure") + How(e, s, "error") = Len(Cases(e, s))
<1>q. PICK q : q = Cases(e, s)
  OBVIOUS
<1>I. PICK I : I = DOMAIN q
  OBVIOUS
<1>1. /\ IsFiniteSet(I) /\ Cardinality(I) = Len(q) /\ Len(q) \in Nat
      /\ \A i \in I : q[i] \in Failing
  BY <1>q, <1>I, JUnitTypes, Elements
<1>2. /\ CaseNames(e, s) \subseteq Names /\ IsFiniteSet(CaseNames(e, s))
  <2>f. PICK f : f = [i \in I |-> q[i].name]
    OBVIOUS
  <2>1. f \in [I -> Names] /\ Range(f) = CaseNames(e, s)
    BY <1>1, <1>q, <1>I, <2>f DEF Failing, CaseNames, Range
  <2>2. Range(f) \subseteq Names
    BY <2>1 DEF Range
  <2> QED  BY <1>1, <2>1, <2>2, ImageIsFinite
<1>a. PICK A : A = {i \in I : q[i].how = "failure"}
  OBVIOUS
<1>b. PICK B : B = {i \in I : q[i].how = "error"}
  OBVIOUS
<1>3. A \cup B = I /\ A \cap B = {} /\ A \subseteq I /\ B \subseteq I
  BY <1>1, <1>a, <1>b DEF Failing
<1>4. /\ IsFiniteSet(A) /\ IsFiniteSet(B)
      /\ Cardinality(A) \in Nat /\ Cardinality(B) \in Nat
  BY <1>1, <1>3, FS_Subset, FS_CardinalityType
<1>5. Cardinality(A) + Cardinality(B) = Len(q)
  <2>1. Cardinality(I) = Cardinality(A) + Cardinality(B) - 0
    BY <1>3, <1>4, FS_Union, FS_EmptySet
  <2> QED  BY <1>1, <1>4, <2>1
<1>6. How(e, s, "failure") = Cardinality(A) /\ How(e, s, "error") = Cardinality(B)
  BY <1>q, <1>I, <1>a, <1>b DEF How
<1> QED  BY <1>2, <1>4, <1>5, <1>6, <1>q, FS_CardinalityType

(***************************************************************************)
(* One shard: its records agree just when an outcome leaves them behind.   *)
(***************************************************************************)
LEMMA ToldByOutcome ==
  ASSUME IsEvidence(evidence), Bounded(evidence), NEW s \in Shown,
         ShardAgrees(s), JUnitAgrees(s), NEW o,
         o = [passed  |-> evidence.junit[s].passed,
              skipped |-> evidence.junit[s].skipped,
              failed  |-> CaseNames(evidence, s)]
  PROVE  /\ o \in Outcomes /\ Tells(evidence, s, o)
         /\ Size(o) = evidence.plan[s]
         /\ Cardinality(o.failed) = Result(evidence, s).failed
<1>r. PICK r : r = Result(evidence, s)
  OBVIOUS
<1>1. /\ r \in [passed : Nat, failed : Nat, skipped : Nat]
      /\ evidence.junit[s].passed \in Nat /\ evidence.junit[s].skipped \in Nat
      /\ CaseNames(evidence, s) \subseteq Names
      /\ Cardinality(CaseNames(evidence, s)) \in Nat
      /\ IsFiniteSet(CaseNames(evidence, s))
  BY <1>r, JUnitTypes, ResultTypes, CasesOf DEF Shown
<1>2. /\ ResultParses(evidence, s)
      /\ ExitedNormally(evidence.done[s].code, r.failed)
      /\ evidence.done[s].assigned = evidence.plan[s]
      /\ Handled(r) = evidence.plan[s]
  BY <1>r DEF ShardAgrees
<1>3. /\ Cardinality(CaseNames(evidence, s)) = r.failed
      /\ Len(Cases(evidence, s)) = r.failed
      /\ evidence.junit[s].passed = r.passed
      /\ evidence.junit[s].skipped = r.skipped
      /\ SameNames(evidence, s)
  BY <1>r DEF JUnitAgrees
<1>4. Result(evidence, s).passed = evidence.result[s].passed
      /\ Result(evidence, s).skipped = evidence.result[s].skipped
  BY DEF Result
<1>5. o \in Outcomes
  <2>1. evidence.junit[s].passed <= MaxCases /\ evidence.junit[s].skipped <= MaxCases
    BY <1>3, <1>4, <1>r DEF Bounded, Shown
  <2> QED  BY <1>1, <2>1, ReconciliationAssumption DEF Outcomes
<1>6. Size(o) = evidence.plan[s]
  BY <1>1, <1>2, <1>3 DEF Size, Handled
<1>7. evidence.done[s].code \in IF o.failed = {} THEN {0} ELSE {0, 1}
  <2>1. r.failed > 0 => o.failed # {}
    BY <1>1, <1>3, FS_EmptySet
  <2> QED  BY <1>2, <2>1 DEF ExitedNormally
<1>8. evidence.format = "summary_info" =>
        /\ NamesNok(evidence, s) = o.failed
        /\ Len(evidence.result[s].nok) = Cardinality(o.failed)
        /\ Size(o) > 0
  BY <1>2, <1>3, <1>6, <1>r DEF SameNames, Result, ResultParses
<1>9. evidence.format # "summary_info" =>
        /\ evidence.result[s].failed = Cardinality(o.failed)
        /\ evidence.result[s].executed = o.passed + Cardinality(o.failed)
  BY <1>2, <1>3, <1>4, <1>r DEF Result, ResultParses
<1> QED  BY <1>2, <1>3, <1>4, <1>5, <1>6, <1>7, <1>8, <1>9, <1>r DEF Tells

LEMMA OutcomeAgrees ==
  ASSUME IsEvidence(evidence), NEW s \in Shown, NEW o \in Outcomes,
         Tells(evidence, s, o), Inventory(evidence, s) = o.failed
  PROVE  /\ ShardAgrees(s) /\ JUnitAgrees(s)
         /\ IsFiniteSet(o.failed) /\ CaseNames(evidence, s) = o.failed
         /\ Result(evidence, s).failed = Cardinality(o.failed)
         /\ Result(evidence, s).skipped = o.skipped
         /\ evidence.plan[s] = Size(o)
<1>r. PICK r : r = Result(evidence, s)
  OBVIOUS
<1>1. /\ r \in [passed : Nat, failed : Nat, skipped : Nat]
      /\ evidence.result[s].nok \in Seq(Names)
      /\ IsFiniteSet(CaseNames(evidence, s))
      /\ Cardinality(CaseNames(evidence, s)) \in Nat
      /\ o.passed \in Nat /\ o.skipped \in Nat
  BY <1>r, ResultTypes, CasesOf, ReconciliationAssumption DEF Shown, Outcomes
<1>2. /\ evidence.plan[s] = Size(o) /\ evidence.done[s].assigned = Size(o)
      /\ evidence.done[s].code \in IF o.failed = {} THEN {0} ELSE {0, 1}
      /\ evidence.junit[s].passed = o.passed /\ evidence.junit[s].skipped = o.skipped
      /\ CaseNames(evidence, s) = o.failed
      /\ Len(Cases(evidence, s)) = Cardinality(o.failed)
      /\ evidence.result[s].passed = o.passed /\ evidence.result[s].skipped = o.skipped
  BY DEF Tells
<1>3. evidence.format = "summary_info" =>
        /\ NamesNok(evidence, s) = o.failed
        /\ Len(evidence.result[s].nok) = Cardinality(o.failed)
        /\ Size(o) > 0
  BY DEF Tells
<1>4. evidence.format # "summary_info" =>
        /\ evidence.result[s].failed = Cardinality(o.failed)
        /\ evidence.result[s].executed = o.passed + Cardinality(o.failed)
  BY DEF Tells
<1>5. r.failed = Cardinality(o.failed) /\ r.skipped = o.skipped /\ r.passed = o.passed
  BY <1>2, <1>3, <1>4, <1>r DEF Result
<1>6. Handled(r) = Size(o)
  BY <1>1, <1>5 DEF Handled, Size
<1>7. ResultParses(evidence, s)
  <2>1. CASE evidence.format = "summary_info"
    <3>1. IsInjective(evidence.result[s].nok)
      BY <1>1, <1>3, <2>1, Distinct DEF NamesNok
    <3> QED  BY <1>3, <1>6, <1>r, <2>1, <3>1 DEF ResultParses
  <2>2. CASE evidence.format # "summary_info"
    BY <1>2, <1>4, <2>2 DEF ResultParses
  <2> QED  BY <2>1, <2>2
<1>8. ExitedNormally(evidence.done[s].code, r.failed)
  <2>1. o.failed # {} => r.failed > 0
    BY <1>1, <1>2, <1>5, FS_EmptySet
  <2> QED  BY <1>2, <2>1 DEF ExitedNormally
<1>9. ShardAgrees(s)
  BY <1>2, <1>6, <1>7, <1>8, <1>r DEF ShardAgrees
<1>10. JUnitAgrees(s)
  BY <1>2, <1>3, <1>5, <1>r DEF JUnitAgrees, SameNames
<1> QED  BY <1>1, <1>2, <1>5, <1>9, <1>10, <1>r

(***************************************************************************)
(* What has been compared, and what is known of it.                        *)
(***************************************************************************)
Ended     == stage \in {"refused", "failed"}
Comparing == stage \in {"shard", "binaries", "junit"}

\* The shards whose JUnit files agree, and those whose own records agree.
Done == IF stage = "shape" THEN {}
        ELSE IF Comparing THEN {t \in Shown : t < shard} ELSE Shown
Counted == IF stage \in {"binaries", "junit"} THEN Done \cup {shard} ELSE Done

FailedOf  == [s \in Shown |-> Result(evidence, s).failed]
SkippedOf == [s \in Shown |-> Result(evidence, s).skipped]

EvidenceInv ==
  /\ IsEvidence(evidence) /\ Bounded(evidence)
  /\ stage \in Stages
  /\ ~Ended /\ stage # "shape" => ShapeAgrees
  /\ Comparing => shard \in Shown

ProvenanceInv ==
  /\ \A s \in Counted : /\ build = evidence.build[s]
                        /\ build.ours /\ build.attempt # Unknown
                        /\ evidence.testcases[s] = "planned"
  /\ Counted = {} => build = NoBuild

AgreeInv ==
  /\ \A s \in Counted : ShardAgrees(s)
  /\ \A s \in Done : JUnitAgrees(s)

WorkflowInv ==
  /\ workflow \in [passed : Nat, failed : Nat, skipped : Nat]
  /\ Handled(workflow) = SumFunctionOnSet(evidence.plan, Counted)
  /\ workflow.failed = SumFunctionOnSet(FailedOf, Counted)
  /\ workflow.skipped = SumFunctionOnSet(SkippedOf, Counted)

CountsInv ==
  /\ counts \in [tests : Nat, failures : Nat, errors : Nat, skipped : Nat]
  /\ counts.tests = SumFunctionOnSet(evidence.plan, Done)
  /\ Failures = SumFunctionOnSet(FailedOf, Done)
  /\ counts.skipped = SumFunctionOnSet(SkippedOf, Done)

DescribedInv ==
  /\ described \in [Names -> Shown \cup {NoShard}]
  /\ (stage = "shape" \/ Comparing) => \A n \in Names : described[n] = NoShard
  /\ \A n \in Names : described[n] # NoShard => n \in CaseNames(evidence, described[n])
  /\ \A s \in Done : \A n \in CaseNames(evidence, s) :
       described[n] # s => <<s, n>> \in junit
  /\ \A f \in junit : /\ f[1] \in Done /\ f[2] \in CaseNames(evidence, f[1])
                      /\ described[f[2]] # f[1] /\ f = <<f[1], f[2]>>
  /\ stage \in {"conclude", "published"} => Left = {} /\ junit = {}

Summary == [planned |-> evidence.total,
            run     |-> workflow.passed + workflow.failed,
            unrun   |-> Minus(evidence.total, Handled(workflow)),
            passed  |-> Passed, failures |-> Failures,
            skipped |-> counts.skipped, tests |-> counts.tests]

PublishedInv ==
  stage = "published" =>
    CountsAgree /\ VerdictAgrees(evidence, Failures) /\ published = Summary

RefusedInv ==
  stage = "refused" => ~ \E h \in Histories(evidence) : Explains(evidence, h)

VerdictInv ==
  /\ EvidenceInv /\ RefusedInv
  /\ ~Ended => /\ ProvenanceInv /\ AgreeInv /\ WorkflowInv
               /\ CountsInv /\ DescribedInv /\ PublishedInv

(***************************************************************************)
(* What is published is explained.                                         *)
(***************************************************************************)
LEMMA ShownIsFinite ==
  ASSUME IsEvidence(evidence)
  PROVE  /\ Shown \subseteq Shards /\ IsFiniteSet(Shown)
         /\ NoShard \notin Shown /\ Shown \subseteq Nat
BY BinaryAssumption, FS_Subset DEF IsEvidence, Shown, NoShard, Nowhere

LEMMA PublishedIsExplained ==
  ASSUME VerdictInv, stage = "published"
  PROVE  \E h \in Histories(evidence) :
           Explains(evidence, h) /\ published = Reports(h)
<1>1. /\ IsEvidence(evidence) /\ Bounded(evidence) /\ ShapeAgrees
      /\ Done = Shown /\ Counted = Shown
      /\ ProvenanceInv /\ AgreeInv /\ WorkflowInv /\ CountsInv
      /\ DescribedInv /\ PublishedInv
  BY DEF VerdictInv, EvidenceInv, Ended, Done, Counted, Comparing
<1>h. PICK h : h = [s \in Shown |-> [passed  |-> evidence.junit[s].passed,
                                     skipped |-> evidence.junit[s].skipped,
                                     failed  |-> CaseNames(evidence, s)]]
  OBVIOUS
<1>2. DOMAIN h = Shown /\ DOMAIN h = DOMAIN evidence.done
      /\ h = [s \in DOMAIN h |-> h[s]]
  BY <1>h DEF Shown
<1>3. ASSUME NEW s \in Shown
      PROVE  /\ h[s] \in Outcomes /\ Tells(evidence, s, h[s])
             /\ Size(h[s]) = evidence.plan[s]
             /\ h[s].failed = CaseNames(evidence, s)
             /\ h[s].skipped = SkippedOf[s]
  <2>1. ShardAgrees(s) /\ JUnitAgrees(s)
    BY <1>1 DEF AgreeInv
  <2>2. PICK o : o = [passed  |-> evidence.junit[s].passed,
                      skipped |-> evidence.junit[s].skipped,
                      failed  |-> CaseNames(evidence, s)]
    OBVIOUS
  <2>3. h[s] = o
    BY <1>h, <2>2
  <2>4. o \in Outcomes /\ Tells(evidence, s, o) /\ Size(o) = evidence.plan[s]
    BY <1>1, <2>1, <2>2, ToldByOutcome
  <2>5. evidence.junit[s].skipped = Result(evidence, s).skipped
    BY <2>1 DEF JUnitAgrees
  <2> QED  BY <2>2, <2>3, <2>4, <2>5 DEF SkippedOf
<1>4. /\ \A s \in Shown : \A n \in CaseNames(evidence, s) : described[n] = s
      /\ \A i \in DOMAIN evidence.failed :
           described[evidence.failed[i][2]] = evidence.failed[i][1]
  BY <1>1 DEF DescribedInv, Left
<1>5. h \in Histories(evidence)
  <2>1. h \in [DOMAIN evidence.done -> Outcomes]
    BY <1>2, <1>3
  <2>2. ASSUME NEW s \in Shown, NEW t \in Shown, s # t
        PROVE  h[s].failed \cap h[t].failed = {}
    BY <1>3, <1>4, <2>2
  <2> QED  BY <1>2, <2>1, <2>2 DEF Histories
<1>6. Total(h) = evidence.total
  <2>g. PICK g : g = [s \in DOMAIN h |-> Size(h[s])]
    OBVIOUS
  <2>1. DOMAIN g = Shown /\ \A s \in Shown : g[s] = evidence.plan[s]
    BY <1>2, <1>3, <2>g
  <2>2. SumFunctionOnSet(g, Shown) = SumFunctionOnSet(evidence.plan, Shown)
    BY <1>1, <2>1, ShownIsFinite, SumOfSame
  <2> QED  BY <1>1, <2>1, <2>2, <2>g DEF Total, ShapeAgrees, SumFunction
<1>F. PICK F : F = evidence.failed
  OBVIOUS
<1>7. F \in Seq(Shards \X Names) /\ \A i \in DOMAIN F :
        /\ F[i] = <<F[i][1], F[i][2]>> /\ F[i][2] \in Names /\ F[i][1] \in Shown
        /\ F[i][2] \in h[F[i][1]].failed
  <2>1. F \in Seq(Shards \X Names)
    BY <1>1, <1>F DEF IsEvidence
  <2>2. ASSUME NEW i \in DOMAIN F
        PROVE  /\ F[i] = <<F[i][1], F[i][2]>> /\ F[i][2] \in Names
               /\ F[i][1] \in Shown /\ F[i][2] \in h[F[i][1]].failed
    <3>1. F[i] \in Shards \X Names
      BY <2>1, Elements
    <3>2. described[F[i][2]] = F[i][1] /\ F[i][1] # NoShard
      BY <1>4, <1>F, <3>1, BinaryAssumption DEF NoShard, Nowhere
    <3>3. F[i][1] \in Shown /\ F[i][2] \in CaseNames(evidence, F[i][1])
      BY <1>1, <3>1, <3>2 DEF DescribedInv
    <3> QED  BY <1>3, <3>1, <3>3
  <2> QED  BY <2>1, <2>2
<1>8. \A s \in Shown : \A n \in h[s].failed : <<s, n>> \in Range(F)
  BY <1>1, <1>3, <1>F DEF AgreeInv, JUnitAgrees, SameNames, Inventory
<1>9. Range(F) = UNION {{s} \X h[s].failed : s \in DOMAIN h}
  BY <1>2, <1>7, <1>8 DEF Range
<1>10. Len(F) = Cardinality(AllFailed(h))
  <2>I. PICK I : I = DOMAIN F
    OBVIOUS
  <2>g. PICK g : g = [i \in I |-> F[i][2]]
    OBVIOUS
  <2>1. g \in [I -> Names] /\ \A i \in I : g[i] = F[i][2]
    BY <1>7, <2>I, <2>g
  <2>2. Range(g) = AllFailed(h)
    <3>1. \A i \in I : g[i] \in AllFailed(h)
      BY <1>2, <1>7, <2>1, <2>I DEF AllFailed
    <3>2. ASSUME NEW s \in Shown, NEW n \in h[s].failed PROVE n \in Range(g)
      <4>1. PICK i \in I : F[i] = <<s, n>>
        BY <1>8, <2>I DEF Range
      <4> QED  BY <2>1, <4>1 DEF Range
    <3> QED  BY <1>2, <2>1, <3>1, <3>2 DEF AllFailed, Range
  <2>3. IsInjective(g)
    <3> SUFFICES ASSUME NEW i \in I, NEW j \in I, g[i] = g[j] PROVE i = j
      BY <2>1 DEF IsInjective
    <3>1. F[i][2] = F[j][2] /\ F[i][1] = F[j][1]
      BY <1>4, <1>F, <2>1, <2>I
    <3>2. F[i] = F[j]
      BY <1>7, <2>I, <3>1
    <3> QED  BY <1>1, <1>F, <2>I, <3>2 DEF ShapeAgrees, IsInjective
  <2>4. IsFiniteSet(I) /\ Cardinality(I) = Len(F)
    BY <1>7, <2>I, Elements
  <2> QED  BY <2>1, <2>2, <2>3, <2>4, ImageIsFinite
<1>11. /\ CountsAgree /\ VerdictAgrees(evidence, Failures) /\ published = Summary
       /\ Failures = Cardinality(AllFailed(h)) /\ Failures = Len(evidence.failed)
  BY <1>1, <1>10, <1>F DEF PublishedInv, CountsAgree
<1>12. \E b \in Range(evidence.build) : /\ Range(evidence.build) = {b}
                                        /\ b.ours /\ b.attempt # Unknown
  <2>1. DOMAIN evidence.build = Shown /\ Shown # {}
    BY <1>1 DEF IsEvidence, Shown, ShapeAgrees
  <2>2. \A s \in Shown : evidence.build[s] = build /\ build.ours /\ build.attempt # Unknown
    BY <1>1 DEF ProvenanceInv
  <2> QED  BY <2>1, <2>2 DEF Range
<1>13. Range(evidence.testcases) = {"planned"}
  <2>1. DOMAIN evidence.testcases = Shown /\ Shown # {}
    BY <1>1 DEF IsEvidence, Shown, ShapeAgrees
  <2>2. \A s \in Shown : evidence.testcases[s] = "planned"
    BY <1>1 DEF ProvenanceInv
  <2> QED  BY <2>1, <2>2 DEF Range
<1>14. Explains(evidence, h)
  <2>1. /\ DOMAIN evidence.plan = DOMAIN h /\ evidence.planned = DOMAIN h
        /\ DOMAIN h # {} /\ evidence.par = Cardinality(DOMAIN h)
    BY <1>1, <1>2 DEF ShapeAgrees
  <2>2. \A s \in DOMAIN h : Tells(evidence, s, h[s])
    BY <1>2, <1>3
  <2> QED  BY <2>1, <2>2, <1>6, <1>9, <1>10, <1>11, <1>12, <1>13, <1>F DEF Explains
<1>15. published = Reports(h)
  <2>g. PICK g : g = [s \in DOMAIN h |-> h[s].skipped]
    OBVIOUS
  <2>1. DOMAIN g = Shown /\ \A s \in Shown : g[s] = SkippedOf[s]
    BY <1>2, <1>3, <2>g
  <2>2. SumFunctionOnSet(g, Shown) = SumFunctionOnSet(SkippedOf, Shown)
    BY <1>1, <2>1, ShownIsFinite, SumOfSame
  <2>k. PICK k : k = SumFunction(g)
    OBVIOUS
  <2>3. k = workflow.skipped /\ k = counts.skipped
    BY <1>1, <2>1, <2>2, <2>k DEF SumFunction, WorkflowInv, CountsInv
  <2>4. /\ workflow.passed \in Nat /\ workflow.failed \in Nat /\ workflow.skipped \in Nat
        /\ workflow.passed = Passed /\ workflow.failed = Failures
        /\ evidence.total = workflow.passed + workflow.failed + workflow.skipped
    BY <1>1, <1>11 DEF CountsAgree, WorkflowInv, Handled
  <2>5. counts.tests = evidence.total
    BY <1>1 DEF CountsInv, ShapeAgrees, SumFunction
  <2>6. Minus(evidence.total, Handled(workflow)) = 0
    BY <2>4 DEF Minus, Handled
  <2>7. /\ workflow.passed + workflow.failed = Total(h) - k
        /\ Passed = Total(h) - k - Cardinality(AllFailed(h))
    <3>a. PICK a : a = workflow.passed
      OBVIOUS
    <3>b. PICK b : b = workflow.failed
      OBVIOUS
    <3>1. /\ a \in Nat /\ b \in Nat /\ k \in Nat /\ Total(h) = a + b + k
          /\ b = Cardinality(AllFailed(h)) /\ Passed = a
      BY <1>6, <1>11, <2>3, <2>4, <3>a, <3>b
    <3>2. a + b = (a + b + k) - k /\ a = (a + b + k) - k - b
      BY ONLY <3>1
    <3> QED  BY ONLY <3>1, <3>2, <3>a, <3>b
  <2>8. Reports(h) = [planned |-> Total(h), run |-> Total(h) - k, unrun |-> 0,
                      passed |-> Total(h) - k - Cardinality(AllFailed(h)),
                      failures |-> Cardinality(AllFailed(h)),
                      skipped |-> k, tests |-> Total(h)]
    BY <2>g, <2>k DEF Reports
  <2> QED  BY <1>6, <1>11, <2>3, <2>5, <2>6, <2>7, <2>8 DEF Summary
<1> QED  BY <1>5, <1>14, <1>15

(***************************************************************************)
(* What is explained is not refused.                                       *)
(***************************************************************************)
LEMMA HistoryAgrees ==
  ASSUME IsEvidence(evidence), NEW h \in Histories(evidence), Explains(evidence, h)
  PROVE  /\ ShapeAgrees
         /\ \A s \in Shown : ShardAgrees(s) /\ JUnitAgrees(s)
         /\ \A s, t \in Shown :
              s # t => CaseNames(evidence, s) \cap CaseNames(evidence, t) = {}
         /\ \A i \in DOMAIN evidence.failed :
              \E s \in Shown : \E n \in CaseNames(evidence, s) :
                evidence.failed[i] = <<s, n>>
         /\ \A s \in Shown : \A n \in CaseNames(evidence, s) :
              <<s, n>> \in Range(evidence.failed)
         /\ SumFunctionOnSet(FailedOf, Shown) = Len(evidence.failed)
         /\ VerdictAgrees(evidence, Len(evidence.failed))
         /\ \A s \in Shown : \A t \in Shown :
              /\ evidence.build[s] = evidence.build[t]
              /\ evidence.build[s].ours /\ evidence.build[s].attempt # Unknown
              /\ evidence.testcases[s] = "planned"
<1>F. PICK F : F = evidence.failed
  OBVIOUS
<1>1. /\ DOMAIN h = Shown /\ \A s \in Shown : h[s] \in Outcomes
      /\ \A s, t \in Shown : s # t => h[s].failed \cap h[t].failed = {}
  BY DEF Histories, Shown
<1>2. /\ DOMAIN evidence.plan = Shown /\ evidence.planned = Shown /\ Shown # {}
      /\ evidence.par = Cardinality(Shown) /\ evidence.total = Total(h)
      /\ \A s \in Shown : Tells(evidence, s, h[s])
      /\ Range(F) = UNION {{s} \X h[s].failed : s \in Shown}
      /\ Len(F) = Cardinality(AllFailed(h))
      /\ VerdictAgrees(evidence, Len(F))
  BY <1>1, <1>F DEF Explains
<1>3. F \in Seq(Shards \X Names)
  BY <1>F DEF IsEvidence
<1>4. \A s \in Shown : \A n : n \in h[s].failed => <<s, n>> \in Range(F)
  BY <1>2
<1>5. \A f \in Range(F) : \E s \in Shown : \E n \in h[s].failed : f = <<s, n>>
  BY <1>2
<1>6. ASSUME NEW s \in Shown
      PROVE  /\ ShardAgrees(s) /\ JUnitAgrees(s)
             /\ IsFiniteSet(h[s].failed) /\ CaseNames(evidence, s) = h[s].failed
             /\ FailedOf[s] = Cardinality(h[s].failed)
             /\ evidence.plan[s] = Size(h[s])
  <2>1. Inventory(evidence, s) = h[s].failed
    <3>1. h[s].failed \subseteq Names
      BY <1>1 DEF Outcomes
    <3>2. \A n \in Names : <<s, n>> \in Range(F) => n \in h[s].failed
      BY <1>5
    <3> QED  BY <1>4, <1>F, <3>1, <3>2 DEF Inventory
  <2>2. Tells(evidence, s, h[s]) /\ h[s] \in Outcomes
    BY <1>1, <1>2
  <2>o. PICK o : o = h[s]
    OBVIOUS
  <2>3. /\ ShardAgrees(s) /\ JUnitAgrees(s)
        /\ IsFiniteSet(o.failed) /\ CaseNames(evidence, s) = o.failed
        /\ Result(evidence, s).failed = Cardinality(o.failed)
        /\ evidence.plan[s] = Size(o)
    BY <2>1, <2>2, <2>o, OutcomeAgrees
  <2> QED  BY <2>3, <2>o DEF FailedOf
<1>7. IsFiniteSet(Shown) /\ Shown \subseteq Shards
  BY ShownIsFinite
<1>8. AllFailed(h) = UNION {h[s].failed : s \in Shown}
  BY <1>1 DEF AllFailed
<1>9. SumFunctionOnSet(FailedOf, Shown) = Len(F)
  <2>C. PICK C : C = [s \in Shown |-> h[s].failed]
    OBVIOUS
  <2>1. /\ \A s \in Shown : IsFiniteSet(C[s]) /\ FailedOf[s] = Cardinality(C[s])
        /\ \A s, t \in Shown : s # t => C[s] \cap C[t] = {}
    BY <1>1, <1>6, <2>C
  <2>2. Cardinality(UNION {C[s] : s \in Shown}) = SumFunctionOnSet(FailedOf, Shown)
    BY <1>7, <2>1, DisjointUnion
  <2>3. UNION {C[s] : s \in Shown} = AllFailed(h)
    BY <1>8, <2>C
  <2> QED  BY <1>2, <2>2, <2>3
<1>10. IsInjective(F)
  <2>1. IsFiniteSet(Range(F))
    BY <1>3, Distinct
  <2>g. PICK g : g = [f \in Range(F) |-> f[2]]
    OBVIOUS
  <2>2. g \in [Range(F) -> Names] /\ \A f \in Range(F) : g[f] = f[2]
    BY <1>3, <2>g, Distinct
  <2>3. IsInjective(g)
    <3> SUFFICES ASSUME NEW e \in Range(F), NEW f \in Range(F), g[e] = g[f]
                 PROVE  e = f
      BY <2>2 DEF IsInjective
    <3>1. PICK s \in Shown : \E n \in h[s].failed : e = <<s, n>>
      BY <1>5
    <3>2. PICK t \in Shown : \E n \in h[t].failed : f = <<t, n>>
      BY <1>5
    <3>3. e[2] = f[2] /\ e = <<s, e[2]>> /\ f = <<t, f[2]>>
          /\ e[2] \in h[s].failed /\ f[2] \in h[t].failed
      BY <2>2, <3>1, <3>2
    <3>4. s = t
      BY <1>1, <3>3
    <3> QED  BY <3>3, <3>4
  <2>4. Range(g) = AllFailed(h)
    <3>1. \A f \in Range(F) : g[f] \in AllFailed(h)
      BY <1>5, <1>8, <2>2
    <3>2. ASSUME NEW s \in Shown, NEW n \in h[s].failed PROVE n \in Range(g)
      <4>1. <<s, n>> \in Range(F) /\ g[<<s, n>>] = n
        BY <1>4, <2>2
      <4> QED  BY <2>2, <4>1 DEF Range
    <3> QED  BY <1>8, <2>2, <3>1, <3>2 DEF Range
  <2>5. Cardinality(Range(F)) = Len(F)
    BY <1>2, <2>1, <2>2, <2>3, <2>4, ImageIsFinite
  <2> QED  BY <1>3, <2>5, Distinct
<1>11. SumFunction(evidence.plan) = evidence.total
  <2>g. PICK g : g = [s \in DOMAIN h |-> Size(h[s])]
    OBVIOUS
  <2>1. DOMAIN g = Shown /\ \A s \in Shown : g[s] = evidence.plan[s]
    BY <1>1, <1>6, <2>g
  <2>2. SumFunctionOnSet(g, Shown) = SumFunctionOnSet(evidence.plan, Shown)
    BY <1>7, <2>1, SumOfSame
  <2> QED  BY <1>2, <2>1, <2>2, <2>g DEF Total, SumFunction
<1>12. ShapeAgrees
  BY <1>2, <1>10, <1>11, <1>F DEF ShapeAgrees
<1>13. \A i \in DOMAIN F : \E s \in Shown : \E n \in h[s].failed : F[i] = <<s, n>>
  BY <1>5 DEF Range
<1>14. ASSUME NEW s \in Shown, NEW t \in Shown
       PROVE  /\ evidence.build[s] = evidence.build[t]
              /\ evidence.build[s].ours /\ evidence.build[s].attempt # Unknown
              /\ evidence.testcases[s] = "planned"
  <2>1. /\ evidence.build[s] \in Range(evidence.build)
        /\ evidence.build[t] \in Range(evidence.build)
        /\ evidence.testcases[s] \in Range(evidence.testcases)
    BY DEF IsEvidence, Shown, Range
  <2> QED  BY <2>1 DEF Explains
<1> QED  BY <1>1, <1>2, <1>4, <1>6, <1>9, <1>12, <1>13, <1>14, <1>F

LEMMA ExplainedIsNotRefused ==
  ASSUME VerdictInv, Contradicted,
         NEW h \in Histories(evidence), Explains(evidence, h)
  PROVE  FALSE
<1>0. IsEvidence(evidence) /\ ~Ended
  BY DEF VerdictInv, EvidenceInv, Contradicted, Ended
<1>1. /\ ShapeAgrees
      /\ \A s \in Shown : ShardAgrees(s) /\ JUnitAgrees(s)
      /\ \A s, t \in Shown :
           s # t => CaseNames(evidence, s) \cap CaseNames(evidence, t) = {}
      /\ \A i \in DOMAIN evidence.failed :
           \E s \in Shown : \E n \in CaseNames(evidence, s) :
             evidence.failed[i] = <<s, n>>
      /\ \A s \in Shown : \A n \in CaseNames(evidence, s) :
           <<s, n>> \in Range(evidence.failed)
      /\ SumFunctionOnSet(FailedOf, Shown) = Len(evidence.failed)
      /\ VerdictAgrees(evidence, Len(evidence.failed))
      /\ \A s \in Shown : \A t \in Shown :
           /\ evidence.build[s] = evidence.build[t]
           /\ evidence.build[s].ours /\ evidence.build[s].attempt # Unknown
           /\ evidence.testcases[s] = "planned"
  BY <1>0, HistoryAgrees
<1>2. /\ EvidenceInv /\ ProvenanceInv /\ WorkflowInv /\ CountsInv /\ DescribedInv
  BY <1>0 DEF VerdictInv
<1>3. CASE stage = "shape"
  BY <1>1, <1>3 DEF Contradicted
<1>4. CASE stage = "shard"
  <2>1. shard \in Shown /\ Counted \subseteq Shown
    BY <1>2, <1>4 DEF EvidenceInv, Comparing, Counted, Done
  <2>2. build \in {NoBuild, evidence.build[shard]}
    <3>1. CASE Counted = {}
      BY <1>2, <3>1 DEF ProvenanceInv
    <3>2. CASE Counted # {}
      BY <1>1, <1>2, <2>1, <3>2 DEF ProvenanceInv
    <3> QED  BY <3>1, <3>2
  <2>3. Provenance(shard)
    BY <1>1, <2>1, <2>2 DEF Provenance
  <2> QED  BY <1>1, <1>4, <2>1, <2>3 DEF Contradicted
<1>5. CASE stage = "junit"
  BY <1>1, <1>2, <1>5 DEF Contradicted, EvidenceInv, Comparing
<1>6. CASE stage = "failures"
  <2>1. Done = Shown
    BY <1>6 DEF Done, Comparing
  <2>2. ASSUME NEW i \in Left, ~Describable(evidence.failed[i]) PROVE FALSE
    <3>1. PICK s \in Shown, n \in Names :
            evidence.failed[i] = <<s, n>> /\ n \in CaseNames(evidence, s)
      BY <1>0, <1>1, CasesOf DEF Left, Shown
    <3>2. described[n] # s
      BY <3>1 DEF Left
    <3>3. <<s, n>> \in junit
      BY <1>2, <2>1, <3>1, <3>2 DEF DescribedInv
    <3>4. described[n] = NoShard
      BY <1>1, <1>2, <3>1, <3>2 DEF DescribedInv
    <3> QED  BY <2>2, <3>1, <3>3, <3>4 DEF Describable
  <2>3. ASSUME Left = {}, NEW f \in junit PROVE FALSE
    <3>1. /\ f[1] \in Shown /\ f[2] \in CaseNames(evidence, f[1])
          /\ described[f[2]] # f[1]
      BY <1>2, <2>1 DEF DescribedInv
    <3>2. PICK i \in DOMAIN evidence.failed : evidence.failed[i] = <<f[1], f[2]>>
      BY <1>1, <3>1 DEF Range
    <3> QED  BY <2>3, <3>1, <3>2 DEF Left
  <2> QED  BY <1>6, <2>2, <2>3 DEF Contradicted
<1>7. CASE stage = "conclude"
  <2>1. Done = Shown /\ Counted = Shown
    BY <1>7 DEF Done, Counted, Comparing
  <2>2. /\ Failures = Len(evidence.failed) /\ workflow.failed = Failures
        /\ counts.skipped = workflow.skipped /\ counts.tests = Handled(workflow)
        /\ evidence.total = Handled(workflow)
    BY <1>1, <1>2, <2>1 DEF WorkflowInv, CountsInv, ShapeAgrees, SumFunction
  <2>3. workflow \in [passed : Nat, failed : Nat, skipped : Nat]
    BY <1>2 DEF WorkflowInv
  <2>4. Passed = workflow.passed
    <3>1. /\ workflow.passed \in Nat /\ workflow.failed \in Nat /\ workflow.skipped \in Nat
          /\ counts.tests = workflow.passed + workflow.failed + workflow.skipped
      BY <2>2, <2>3 DEF Handled
    <3> QED  BY <2>2, <3>1 DEF Passed, Minus
  <2>5. workflow = [passed |-> Passed, failed |-> Failures, skipped |-> counts.skipped]
    BY <2>2, <2>3, <2>4
  <2>6. CountsAgree /\ VerdictAgrees(evidence, Failures)
    BY <1>1, <2>2, <2>5 DEF CountsAgree
  <2> QED  BY <1>7, <2>6 DEF Contradicted
<1> QED  BY <1>3, <1>4, <1>5, <1>6, <1>7 DEF Contradicted

(***************************************************************************)
(* Every step keeps it.                                                    *)
(***************************************************************************)
LEMMA VerdictInit == Init => VerdictInv
<1> SUFFICES ASSUME Init PROVE VerdictInv
  OBVIOUS
<1>1. /\ IsEvidence(evidence) /\ Bounded(evidence) /\ stage = "shape"
      /\ build = NoBuild /\ workflow = Zero /\ counts = NoCase /\ junit = {}
      /\ described = [n \in Names |-> NoShard]
  BY ReconciliationAssumption DEF Init
<1>2. Done = {} /\ Counted = {} /\ ~Ended /\ ~Comparing
  BY <1>1 DEF Done, Counted, Ended, Comparing
<1>3. \A g : SumFunctionOnSet(g, {}) = 0
  BY FS_EmptySet, SumUnfolds
<1>4. EvidenceInv /\ RefusedInv /\ ProvenanceInv /\ AgreeInv /\ PublishedInv
  BY <1>1, <1>2
     DEF EvidenceInv, RefusedInv, ProvenanceInv, AgreeInv, PublishedInv, Stages
<1>5. WorkflowInv
  <2>1. workflow.passed = 0 /\ workflow.failed = 0 /\ workflow.skipped = 0
        /\ workflow \in [passed : Nat, failed : Nat, skipped : Nat]
    BY <1>1 DEF Zero
  <2>2. Handled(workflow) = 0
    BY <2>1 DEF Handled
  <2> QED  BY <1>2, <1>3, <2>1, <2>2 DEF WorkflowInv
<1>6. CountsInv
  <2>1. /\ counts.tests = 0 /\ counts.failures = 0 /\ counts.errors = 0
        /\ counts.skipped = 0
        /\ counts \in [tests : Nat, failures : Nat, errors : Nat, skipped : Nat]
    BY <1>1 DEF NoCase
  <2>2. Failures = 0
    BY <2>1 DEF Failures
  <2> QED  BY <1>2, <1>3, <2>1, <2>2 DEF CountsInv
<1>7. DescribedInv
  BY <1>1, <1>2 DEF DescribedInv
<1> QED  BY <1>4, <1>5, <1>6, <1>7 DEF VerdictInv

(* One more element is added to a sum.                                      *)
LEMMA SumAdds ==
  ASSUME NEW g, NEW S, IsFiniteSet(S), NEW x, x \notin S,
         \A y \in S \cup {x} : g[y] \in Nat
  PROVE  /\ SumFunctionOnSet(g, S) \in Nat
         /\ SumFunctionOnSet(g, S \cup {x}) = SumFunctionOnSet(g, S) + g[x]
<1>T. PICK T : T = S \cup {x}
  OBVIOUS
<1>1. IsFiniteSet(T) /\ T \ {x} = S /\ x \in T
  BY <1>T, FS_AddElement
<1>2. SumFunctionOnSet(g, T) = g[x] + SumFunctionOnSet(g, T \ {x})
  BY <1>1, <1>T, SumTakes
<1>3. SumFunctionOnSet(g, S) \in Nat
  <2>1. \A y \in S : g[y] \in Nat
    OBVIOUS
  <2> QED  BY <2>1, SumIsNat
<1>4. g[x] \in Nat
  OBVIOUS
<1> QED  BY <1>1, <1>2, <1>3, <1>4, <1>T

LEMMA StartKeeps == ASSUME VerdictInv, Start PROVE VerdictInv'
<1>0. /\ stage = "shape" /\ ShapeAgrees /\ stage' = "shard" /\ shard' \in Shown
      /\ IsFirst(shard', Shown)
      /\ UNCHANGED <<evidence, build, workflow, counts, junit, described, published>>
  BY DEF Start, given, compared, IsFirst
<1>1. /\ EvidenceInv /\ ProvenanceInv /\ AgreeInv /\ WorkflowInv /\ CountsInv
      /\ DescribedInv
  BY <1>0 DEF VerdictInv, Ended
<1>2. Done = {} /\ Counted = {}
  BY <1>0 DEF Done, Counted
<1>3. Done' = {} /\ Counted' = {}
  BY <1>0, <1>1, ShownIsFinite DEF Done, Counted, Comparing, IsFirst, Shown, EvidenceInv
<1>4. ~Ended' /\ Comparing'
  BY <1>0 DEF Ended, Comparing
<1>5. EvidenceInv' /\ RefusedInv' /\ PublishedInv'
  BY <1>0, <1>1, <1>4
     DEF EvidenceInv, RefusedInv, PublishedInv, Stages, ShapeAgrees, Shown
<1>6. ProvenanceInv' /\ AgreeInv'
  BY <1>0, <1>1, <1>2, <1>3 DEF ProvenanceInv, AgreeInv
<1>7. WorkflowInv' /\ CountsInv'
  BY <1>0, <1>1, <1>2, <1>3
     DEF WorkflowInv, CountsInv, Failures, FailedOf, SkippedOf, Shown
<1>8. DescribedInv'
  BY <1>0, <1>1, <1>2, <1>3, <1>4 DEF DescribedInv, Shown
<1> QED  BY <1>5, <1>6, <1>7, <1>8 DEF VerdictInv

(* A step that ends the collection without a verdict.                       *)
LEMMA EndKeeps ==
  ASSUME VerdictInv, evidence' = evidence, stage' \in {"refused", "failed"},
         stage' = "refused" => Contradicted
  PROVE  VerdictInv'
<1>1. Ended' /\ EvidenceInv'
  BY DEF VerdictInv, EvidenceInv, Ended, Comparing, Stages
<1>2. RefusedInv'
  BY ExplainedIsNotRefused DEF RefusedInv
<1> QED  BY <1>1, <1>2 DEF VerdictInv

LEMMA CompareShardKeeps == ASSUME VerdictInv, CompareShard PROVE VerdictInv'
<1>r. PICK r : r = Result(evidence, shard)
  OBVIOUS
<1>0. /\ stage = "shard" /\ Provenance(shard) /\ ShardAgrees(shard)
      /\ stage' \in {"binaries", "junit"}
      /\ build' = evidence.build[shard] /\ workflow' = Add(workflow, r)
      /\ UNCHANGED <<evidence, shard, counts, junit, described, published>>
  BY <1>r DEF CompareShard, given
<1>1. /\ EvidenceInv /\ ProvenanceInv /\ AgreeInv /\ WorkflowInv /\ CountsInv
      /\ DescribedInv /\ shard \in Shown /\ IsEvidence(evidence) /\ ShapeAgrees
  BY <1>0 DEF VerdictInv, Ended, EvidenceInv, Comparing
<1>2. Counted = Done /\ Done = {t \in Shown : t < shard}
  BY <1>0 DEF Counted, Done, Comparing
<1>3. Done' = Done /\ Counted' = Done \cup {shard} /\ shard \notin Done
  BY <1>0, <1>1, <1>2, ShownIsFinite DEF Counted, Done, Comparing, Shown
<1>4. ~Ended' /\ Comparing'
  BY <1>0 DEF Ended, Comparing
<1>5. EvidenceInv' /\ RefusedInv' /\ PublishedInv'
  BY <1>0, <1>1, <1>4
     DEF EvidenceInv, RefusedInv, PublishedInv, Stages, ShapeAgrees, Shown
<1>6. ProvenanceInv'
  <2>1. \A s \in Done : build = evidence.build[s] /\ build # NoBuild
    BY <1>1, <1>2 DEF ProvenanceInv, NoBuild
  <2>2. \A s \in Done : evidence.build[s] = evidence.build[shard]
    BY <1>0, <2>1 DEF Provenance
  <2> QED  BY <1>0, <1>1, <1>2, <1>3, <2>1, <2>2 DEF ProvenanceInv, Provenance
<1>7. AgreeInv'
  <2>1. \A s : ShardAgrees(s)' = ShardAgrees(s) /\ JUnitAgrees(s)' = JUnitAgrees(s)
    BY <1>0 DEF ShardAgrees, JUnitAgrees
  <2> QED  BY <1>0, <1>1, <1>2, <1>3, <2>1 DEF AgreeInv
<1>8. WorkflowInv'
  <2>1. IsFiniteSet(Done) /\ Done \subseteq Shown
    BY <1>1, <1>2, ShownIsFinite, FS_Subset
  <2>2. /\ r \in [passed : Nat, failed : Nat, skipped : Nat]
        /\ FailedOf[shard] = r.failed /\ SkippedOf[shard] = r.skipped
        /\ evidence.plan[shard] = Handled(r)
    BY <1>0, <1>1, <1>r, ResultTypes DEF FailedOf, SkippedOf, ShardAgrees, Shown
  <2>3. \A s \in Shown : /\ FailedOf[s] \in Nat /\ SkippedOf[s] \in Nat
                         /\ evidence.plan[s] \in Nat
    BY <1>1, ResultTypes DEF FailedOf, SkippedOf, Shown, IsEvidence, ShapeAgrees
  <2>4. /\ workflow'.passed = workflow.passed + r.passed
        /\ workflow'.failed = workflow.failed + r.failed
        /\ workflow'.skipped = workflow.skipped + r.skipped
        /\ workflow \in [passed : Nat, failed : Nat, skipped : Nat]
        /\ workflow' \in [passed : Nat, failed : Nat, skipped : Nat]
    BY <1>0, <1>1, <2>2 DEF Add, WorkflowInv
  <2>5. Handled(workflow)' = Handled(workflow) + Handled(r)
    BY <2>2, <2>4 DEF Handled
  <2>6. /\ SumFunctionOnSet(evidence.plan, Done \cup {shard})
             = SumFunctionOnSet(evidence.plan, Done) + evidence.plan[shard]
        /\ SumFunctionOnSet(FailedOf, Done \cup {shard})
             = SumFunctionOnSet(FailedOf, Done) + FailedOf[shard]
        /\ SumFunctionOnSet(SkippedOf, Done \cup {shard})
             = SumFunctionOnSet(SkippedOf, Done) + SkippedOf[shard]
    <3>1. \A s \in Done \cup {shard} : s \in Shown
      BY <1>1, <2>1
    <3> QED  BY <1>3, <2>1, <2>3, <3>1, SumAdds
  <2>7. FailedOf' = FailedOf /\ SkippedOf' = SkippedOf
    BY <1>0 DEF FailedOf, SkippedOf, Shown
  <2> QED  BY <1>0, <1>1, <1>2, <1>3, <2>2, <2>4, <2>5, <2>6, <2>7 DEF WorkflowInv
<1>9. CountsInv' /\ DescribedInv'
  BY <1>0, <1>1, <1>3, <1>4
     DEF CountsInv, DescribedInv, Failures, FailedOf, SkippedOf, Shown, Comparing
<1> QED  BY <1>5, <1>6, <1>7, <1>8, <1>9 DEF VerdictInv

LEMMA CompareJUnitKeeps == ASSUME VerdictInv, CompareJUnit PROVE VerdictInv'
<1>j. PICK j : j = evidence.junit[shard]
  OBVIOUS
<1>n. PICK len : len = Len(Cases(evidence, shard))
  OBVIOUS
<1>a. PICK a : a = How(evidence, shard, "failure")
  OBVIOUS
<1>b. PICK b : b = How(evidence, shard, "error")
  OBVIOUS
<1>0. /\ stage = "junit" /\ JUnitAgrees(shard)
      /\ counts' = [tests    |-> counts.tests + j.passed + j.skipped + len,
                    failures |-> counts.failures + a,
                    errors   |-> counts.errors + b,
                    skipped  |-> counts.skipped + j.skipped]
      /\ junit' = junit \cup {<<shard, n>> : n \in CaseNames(evidence, shard)}
      /\ UNCHANGED <<evidence, build, workflow, described, published>>
  BY <1>j, <1>n, <1>a, <1>b DEF CompareJUnit, given, Cases
<1>s. \/ Later(shard) = {} /\ stage' = "failures"
      \/ shard' \in Later(shard) /\ IsFirst(shard', Later(shard)) /\ stage' = "shard"
  BY DEF CompareJUnit, IsFirst
<1>1. /\ EvidenceInv /\ ProvenanceInv /\ AgreeInv /\ WorkflowInv /\ CountsInv
      /\ DescribedInv /\ shard \in Shown /\ IsEvidence(evidence) /\ ShapeAgrees
  BY <1>0 DEF VerdictInv, Ended, EvidenceInv, Comparing
<1>2. Counted = Done \cup {shard} /\ Done = {t \in Shown : t < shard}
  BY <1>0 DEF Counted, Done, Comparing
<1>3. shard \notin Done /\ Done' = Done \cup {shard} /\ Counted' = Done'
  <2>1. Shown \subseteq Nat
    BY <1>1, ShownIsFinite
  <2>2. CASE Later(shard) = {} /\ stage' = "failures"
    <3>1. \A t \in Shown : t <= shard
      BY <1>1, <2>1, <2>2 DEF Later
    <3> QED  BY <1>0, <1>1, <1>2, <2>1, <2>2, <3>1 DEF Counted, Done, Comparing, Shown
  <2>3. CASE /\ shard' \in Later(shard) /\ IsFirst(shard', Later(shard))
             /\ stage' = "shard"
    <3>1. \A t \in Shown : t < shard' <=> t <= shard
      BY <1>1, <2>1, <2>3 DEF Later, IsFirst
    <3> QED  BY <1>0, <1>1, <1>2, <2>1, <2>3, <3>1 DEF Counted, Done, Comparing, Shown
  <2> QED  BY <1>s, <2>2, <2>3
<1>4. ~Ended'
  BY <1>s DEF Ended
<1>5. EvidenceInv' /\ RefusedInv' /\ PublishedInv'
  BY <1>0, <1>s, <1>1
     DEF EvidenceInv, RefusedInv, PublishedInv, Stages, ShapeAgrees, Shown, Later, Comparing
<1>6. ProvenanceInv'
  BY <1>0, <1>1, <1>2, <1>3 DEF ProvenanceInv
<1>7. AgreeInv'
  <2>1. \A s : ShardAgrees(s)' = ShardAgrees(s) /\ JUnitAgrees(s)' = JUnitAgrees(s)
    BY <1>0 DEF ShardAgrees, JUnitAgrees
  <2> QED  BY <1>0, <1>1, <1>2, <1>3, <2>1 DEF AgreeInv
<1>8. WorkflowInv'
  BY <1>0, <1>1, <1>2, <1>3 DEF WorkflowInv, FailedOf, SkippedOf, Shown
<1>r. PICK r : r = Result(evidence, shard)
  OBVIOUS
<1>9. CountsInv'
  <2>1. IsFiniteSet(Done) /\ Done \subseteq Shown
    BY <1>1, <1>2, ShownIsFinite, FS_Subset
  <2>2. /\ r \in [passed : Nat, failed : Nat, skipped : Nat]
        /\ FailedOf[shard] = r.failed /\ SkippedOf[shard] = r.skipped
        /\ ShardAgrees(shard)
    BY <1>1, <1>2, <1>r, ResultTypes DEF FailedOf, SkippedOf, Shown, AgreeInv
  <2>3. \A s \in Shown : /\ FailedOf[s] \in Nat /\ SkippedOf[s] \in Nat
                         /\ evidence.plan[s] \in Nat
    BY <1>1, ResultTypes DEF FailedOf, SkippedOf, Shown, IsEvidence, ShapeAgrees
  <2>4. /\ j.passed = r.passed /\ j.skipped = r.skipped /\ len = r.failed
        /\ evidence.plan[shard] = r.passed + r.failed + r.skipped
    BY <1>0, <1>j, <1>n, <1>r, <2>2 DEF JUnitAgrees, ShardAgrees, Handled
  <2>5. a \in Nat /\ b \in Nat /\ a + b = r.failed
    BY <1>1, <1>a, <1>b, <1>n, <2>4, CasesOf DEF Shown
  <2>6. counts \in [tests : Nat, failures : Nat, errors : Nat, skipped : Nat]
    BY <1>1 DEF CountsInv
  <2>7. /\ counts' \in [tests : Nat, failures : Nat, errors : Nat, skipped : Nat]
        /\ counts'.tests = counts.tests + evidence.plan[shard]
        /\ counts'.failures + counts'.errors = counts.failures + counts.errors + r.failed
        /\ counts'.skipped = counts.skipped + r.skipped
    BY <1>0, <2>2, <2>4, <2>5, <2>6
  <2>8. /\ SumFunctionOnSet(evidence.plan, Done \cup {shard})
             = SumFunctionOnSet(evidence.plan, Done) + evidence.plan[shard]
        /\ SumFunctionOnSet(FailedOf, Done \cup {shard})
             = SumFunctionOnSet(FailedOf, Done) + FailedOf[shard]
        /\ SumFunctionOnSet(SkippedOf, Done \cup {shard})
             = SumFunctionOnSet(SkippedOf, Done) + SkippedOf[shard]
    <3>1. \A s \in Done \cup {shard} : s \in Shown
      BY <1>1, <2>1
    <3> QED  BY <1>3, <2>1, <2>3, <3>1, SumAdds
  <2>9. FailedOf' = FailedOf /\ SkippedOf' = SkippedOf
    BY <1>0 DEF FailedOf, SkippedOf, Shown
  <2> QED  BY <1>0, <1>1, <1>3, <2>2, <2>7, <2>8, <2>9 DEF CountsInv, Failures
<1>10. DescribedInv'
  <2>1. \A n \in Names : described[n] = NoShard
    BY <1>0, <1>1 DEF DescribedInv, Comparing
  <2>2. NoShard \notin Shown /\ CaseNames(evidence, shard) \subseteq Names
    BY <1>1, ShownIsFinite, CasesOf DEF Shown
  <2>3. ASSUME NEW s \in Done', NEW n \in CaseNames(evidence, s), described[n] # s
        PROVE  <<s, n>> \in junit'
    BY <1>0, <1>1, <1>3, <2>3 DEF DescribedInv
  <2>4. ASSUME NEW f \in junit'
        PROVE  /\ f[1] \in Done' /\ f[2] \in CaseNames(evidence, f[1])
               /\ described[f[2]] # f[1] /\ f = <<f[1], f[2]>>
    <3>1. CASE f \in junit
      BY <1>1, <1>3, <3>1 DEF DescribedInv
    <3>2. CASE \E n \in CaseNames(evidence, shard) : f = <<shard, n>>
      BY <1>1, <1>3, <2>1, <2>2, <3>2
    <3> QED  BY <1>0, <3>1, <3>2
  <2>5. stage' \notin {"conclude", "published"}
    BY <1>s
  <2> QED  BY <1>0, <1>1, <2>1, <2>3, <2>4, <2>5 DEF DescribedInv, Shown
<1> QED  BY <1>5, <1>6, <1>7, <1>8, <1>9, <1>10 DEF VerdictInv

(* Steps that leave the comparisons as they are.                            *)
LEMMA StillComparing ==
  ASSUME VerdictInv,
         stage' = stage \/ (stage = "binaries" /\ stage' = "junit"),
         UNCHANGED <<evidence, build, shard, compared>>
  PROVE  VerdictInv'
<1>0. UNCHANGED <<evidence, build, shard, workflow, counts, junit, described, published>>
  BY DEF compared
<1>1. /\ Done' = Done /\ Counted' = Counted /\ Ended' = Ended /\ Comparing' = Comparing
      /\ (stage = "shape")' = (stage = "shape")
  BY <1>0 DEF Done, Counted, Ended, Comparing, Shown
<1>2. EvidenceInv' /\ RefusedInv'
  BY <1>0, <1>1
     DEF VerdictInv, EvidenceInv, RefusedInv, Stages, ShapeAgrees, Shown
<1>3. \A s : ShardAgrees(s)' = ShardAgrees(s) /\ JUnitAgrees(s)' = JUnitAgrees(s)
  BY <1>0 DEF ShardAgrees, JUnitAgrees
<1>4. ~Ended => ProvenanceInv' /\ AgreeInv'
  BY <1>0, <1>1, <1>3 DEF VerdictInv, ProvenanceInv, AgreeInv
<1>5. ~Ended => WorkflowInv' /\ CountsInv'
  BY <1>0, <1>1
     DEF VerdictInv, WorkflowInv, CountsInv, Failures, FailedOf, SkippedOf, Shown
<1>6. ~Ended => DescribedInv'
  BY <1>0, <1>1 DEF VerdictInv, DescribedInv, Left, Shown
<1>7. ~Ended => PublishedInv'
  BY <1>0, <1>1
     DEF VerdictInv, PublishedInv, CountsAgree, Summary, Failures, Passed
<1> QED  BY <1>1, <1>2, <1>4, <1>5, <1>6, <1>7 DEF VerdictInv

LEMMA DescribeKeeps == ASSUME VerdictInv, Describe PROVE VerdictInv'
<1>0. PICK i \in Left :
        /\ stage = "failures" /\ Describable(evidence.failed[i])
        /\ junit' = junit \ {evidence.failed[i]}
        /\ described' = [described EXCEPT ![evidence.failed[i][2]] = evidence.failed[i][1]]
        /\ UNCHANGED <<evidence, stage, build, shard, workflow, counts, published>>
  BY DEF Describe, given
<1>1. /\ EvidenceInv /\ ProvenanceInv /\ AgreeInv /\ WorkflowInv /\ CountsInv
      /\ DescribedInv /\ IsEvidence(evidence) /\ ~Ended
  BY <1>0 DEF VerdictInv, Ended, EvidenceInv
<1>2. Done = Shown /\ Counted = Shown /\ Done' = Shown /\ Counted' = Shown
  BY <1>0 DEF Done, Counted, Comparing, Shown
<1>3. EvidenceInv' /\ RefusedInv' /\ PublishedInv'
  BY <1>0, <1>1
     DEF EvidenceInv, RefusedInv, PublishedInv, ShapeAgrees, Shown, Comparing, Ended
<1>4. ProvenanceInv'
  BY <1>0, <1>1, <1>2 DEF ProvenanceInv
<1>5. AgreeInv'
  <2>1. \A s : ShardAgrees(s)' = ShardAgrees(s) /\ JUnitAgrees(s)' = JUnitAgrees(s)
    BY <1>0 DEF ShardAgrees, JUnitAgrees
  <2> QED  BY <1>1, <1>2, <2>1 DEF AgreeInv
<1>6. WorkflowInv' /\ CountsInv'
  BY <1>0, <1>1, <1>2
     DEF WorkflowInv, CountsInv, Failures, FailedOf, SkippedOf, Shown
<1>7. DescribedInv'
  <2>1. PICK s \in Shown, n \in Names :
          /\ evidence.failed[i] = <<s, n>> /\ n \in CaseNames(evidence, s)
          /\ described[n] = NoShard
    <3>1. evidence.failed[i] \in junit /\ described[evidence.failed[i][2]] = NoShard
      BY <1>0 DEF Describable
    <3> QED  BY <1>1, <1>2, <3>1, CasesOf DEF DescribedInv, Shown
  <2>2. /\ junit' = junit \ {<<s, n>>}
        /\ described' = [described EXCEPT ![n] = s]
        /\ described \in [Names -> Shown \cup {NoShard}]
    BY <1>0, <1>1, <2>1 DEF DescribedInv
  <2>3. described' \in [Names -> Shown \cup {NoShard}]
    BY <2>1, <2>2
  <2>4. \A m \in Names : described'[m] = IF m = n THEN s ELSE described[m]
    BY <2>1, <2>2
  <2>5. \A m \in Names :
          described'[m] # NoShard => m \in CaseNames(evidence, described'[m])
    BY <1>1, <2>1, <2>4 DEF DescribedInv
  <2>6. ASSUME NEW t \in Shown, NEW m \in CaseNames(evidence, t), described'[m] # t
        PROVE  <<t, m>> \in junit'
    <3>1. m \in Names
      BY <1>1, CasesOf DEF Shown
    <3>2. <<t, m>> # <<s, n>> /\ described[m] # t
      BY <2>1, <2>4, <2>6, <3>1, <1>1, ShownIsFinite
    <3> QED  BY <1>1, <1>2, <2>2, <3>2 DEF DescribedInv
  <2>7. ASSUME NEW f \in junit'
        PROVE  /\ f[1] \in Shown /\ f[2] \in CaseNames(evidence, f[1])
               /\ described'[f[2]] # f[1] /\ f = <<f[1], f[2]>>
    <3>1. /\ f[1] \in Shown /\ f[2] \in CaseNames(evidence, f[1])
          /\ described[f[2]] # f[1] /\ f = <<f[1], f[2]>>
      BY <1>1, <1>2, <2>2 DEF DescribedInv
    <3>2. f[2] \in Names /\ ~(f[1] = s /\ f[2] = n)
      BY <1>1, <2>2, <3>1, CasesOf DEF Shown
    <3> QED  BY <2>4, <3>1, <3>2
  <2> QED  BY <1>0, <1>2, <2>3, <2>5, <2>6, <2>7 DEF DescribedInv, Comparing, Shown
<1> QED  BY <1>3, <1>4, <1>5, <1>6, <1>7 DEF VerdictInv

(* All shards are compared, and stay so to the end.                         *)
LEMMA ConcludeKeeps ==
  ASSUME VerdictInv,
         \/ stage = "failures" /\ Left = {} /\ junit = {} /\ stage' = "conclude"
         \/ /\ stage = "conclude" /\ stage' = "published" /\ CountsAgree
            /\ VerdictAgrees(evidence, Failures) /\ published' = Summary,
         UNCHANGED <<evidence, build, shard, workflow, counts, junit, described>>
  PROVE  VerdictInv'
<1>1. /\ EvidenceInv /\ ProvenanceInv /\ AgreeInv /\ WorkflowInv /\ CountsInv
      /\ DescribedInv /\ ~Ended /\ ~Ended'
  BY DEF VerdictInv, Ended
<1>2. Done = Shown /\ Counted = Shown /\ Done' = Shown /\ Counted' = Shown
  BY DEF Done, Counted, Comparing, Shown
<1>3. EvidenceInv' /\ RefusedInv'
  BY <1>1 DEF EvidenceInv, RefusedInv, ShapeAgrees, Shown, Comparing, Stages
<1>4. AgreeInv'
  <2>1. \A s : ShardAgrees(s)' = ShardAgrees(s) /\ JUnitAgrees(s)' = JUnitAgrees(s)
    BY DEF ShardAgrees, JUnitAgrees
  <2> QED  BY <1>1, <1>2, <2>1 DEF AgreeInv
<1>5. ProvenanceInv' /\ WorkflowInv' /\ CountsInv'
  BY <1>1, <1>2
     DEF ProvenanceInv, WorkflowInv, CountsInv, Failures, FailedOf, SkippedOf, Shown
<1>6. DescribedInv'
  <2>1. Left = {} /\ junit = {}
    BY <1>1 DEF DescribedInv
  <2>2. Left' = Left
    BY DEF Left
  <2> QED  BY <1>1, <1>2, <2>1, <2>2 DEF DescribedInv, Comparing, Shown
<1>7. PublishedInv'
  <2>1. /\ CountsAgree' = CountsAgree /\ Failures' = Failures /\ Summary' = Summary
        /\ VerdictAgrees(evidence, Failures)' = VerdictAgrees(evidence, Failures)
    BY DEF CountsAgree, Failures, Summary, Passed, VerdictAgrees
  <2> QED  BY <2>1 DEF PublishedInv
<1> QED  BY <1>3, <1>4, <1>5, <1>6, <1>7 DEF VerdictInv

LEMMA VerdictKeeps == VerdictInv /\ [Next]_vars => VerdictInv'
<1> SUFFICES ASSUME VerdictInv, [Next]_vars PROVE VerdictInv'
  OBVIOUS
<1>1. CASE Start
  BY <1>1, StartKeeps
<1>2. CASE CompareShard
  BY <1>2, CompareShardKeeps
<1>3. CASE CompareJUnit
  BY <1>3, CompareJUnitKeeps
<1>4. CASE Describe
  BY <1>4, DescribeKeeps
<1>5. CASE AllDescribed
  BY <1>5, ConcludeKeeps DEF AllDescribed, given, compared
<1>6. CASE Publish
  BY <1>6, ConcludeKeeps DEF Publish, given, Summary
<1>7. CASE Refuse
  BY <1>7, EndKeeps DEF Refuse, given
<1>8. CASE BinariesFail
  BY <1>8, EndKeeps DEF BinariesFail, given
<1>9. CASE Binaries \/ OtherCollector \/ UNCHANGED vars
  BY <1>9, StillComparing DEF Binaries, OtherCollector, vars, given, compared
<1> QED  BY <1>1, <1>2, <1>3, <1>4, <1>5, <1>6, <1>7, <1>8, <1>9 DEF Next

(* VerdictIsExplained for any shards, testcases and records: a verdict is   *)
(* published exactly of records that some history of the suite leaves       *)
(* behind, with the counts of that history (collect_suite's comparisons).   *)
THEOREM VerdictsAreExplained == Spec => []VerdictIsExplained
<1>1. VerdictInv => VerdictIsExplained
  BY PublishedIsExplained DEF VerdictIsExplained, VerdictInv, RefusedInv
<1> QED  BY <1>1, VerdictInit, VerdictKeeps, PTL DEF Spec

(***************************************************************************)
(* The type invariant.                                                     *)
(***************************************************************************)
LEMMA BinaryTypes == InventoryInv /\ BudgetInv => BinaryTypeOK
<1> SUFFICES ASSUME InventoryInv, BudgetInv PROVE BinaryTypeOK
  OBVIOUS
<1>1. /\ remaining \in 0 .. Budget /\ listed \subseteq Artifacts
      /\ binaries \in [Paths -> Bodies \cup {NoBody}]
      /\ from \in Shards \cup {Nowhere}
  BY BinaryAssumption DEF InventoryInv, LimitsInv, Progress, Reading
<1>2. \A i \in DOMAIN records : records[i].state \in {"downloaded", "excluded"}
  <2>1. \A i \in DOMAIN records : records[i] \in RecordsOf
    BY Elements DEF InventoryInv, RecordsInv
  <2> QED  BY <2>1 DEF RecordsOf
<1>3. \A i \in DOMAIN consumption : consumption[i].bytes \in 0 .. Budget
  <2>1. \A i \in DOMAIN consumption : consumption[i] \in Taking
    BY Elements DEF BudgetInv
  <2>2. \A i \in DOMAIN consumption : consumption[i].bytes \in Nat
    BY <2>1 DEF Taking
  <2>3. /\ Consumed \in Nat
        /\ \A i \in DOMAIN consumption : consumption[i].bytes <= Consumed
    BY ConsumedIsNat DEF BudgetInv
  <2>4. Consumed <= Budget
    BY <2>3, BinaryAssumption DEF InventoryInv, LimitsInv, BudgetInv, BudgetIsConserved
  <2> QED  BY <2>2, <2>3, <2>4, BinaryAssumption
<1>4. transfer # NoTransfer =>
        /\ transfer \in Transfers /\ transfer.got <= transfer.allowed
        /\ transfer.allowed - transfer.got <= remaining
  BY DEF InventoryInv, LimitsInv
<1> QED  BY <1>1, <1>2, <1>3, <1>4 DEF BinaryTypeOK

ControlInv ==
  /\ evidence.format \in Formats /\ binariesOn \in BOOLEAN
  /\ shard \in Shards \cup {NoShard}
  /\ stage = "binaries" => binariesOn /\ workflow.failed > 0
  /\ workflow \in [passed : Nat, failed : Nat, skipped : Nat]
  /\ counts \in [tests : Nat, failures : Nat, errors : Nat, skipped : Nat]
  /\ counts.tests >= counts.failures + counts.errors + counts.skipped
  /\ junit \subseteq Shards \X Names
  /\ described \in [Names -> Shards \cup {NoShard}]
  /\ published # NoCounts <=> stage = "published"

LEMMA ControlInit == Init => ControlInv
<1> SUFFICES ASSUME Init PROVE ControlInv
  OBVIOUS
<1>1. /\ stage = "shape" /\ shard = NoShard /\ workflow = Zero /\ counts = NoCase
      /\ junit = {} /\ described = [n \in Names |-> NoShard]
      /\ published = NoCounts
      /\ evidence.format \in Formats /\ binariesOn \in BOOLEAN
  BY ReconciliationAssumption DEF Init, IsEvidence
<1> QED  BY <1>1 DEF ControlInv, Zero, NoCase

LEMMA ControlKeeps ==
  VerdictInv /\ ControlInv /\ [Next]_vars => ControlInv'
<1> SUFFICES ASSUME VerdictInv, ControlInv, [Next]_vars PROVE ControlInv'
  OBVIOUS
<1>0. /\ IsEvidence(evidence) /\ Shown \subseteq Shards
      /\ Comparing => shard \in Shown
  BY ShownIsFinite DEF VerdictInv, EvidenceInv
<1>1. CASE Start
  <2>1. /\ UNCHANGED <<given, workflow, counts, junit, described, published>>
        /\ stage = "shape" /\ stage' = "shard" /\ shard' \in Shown
    BY <1>1 DEF Start, compared, IsFirst
  <2> QED  BY <1>0, <2>1 DEF ControlInv, given
<1>2. CASE CompareShard
  <2>1. VerdictInv' /\ ~Ended'
    BY <1>2, CompareShardKeeps DEF CompareShard, Ended
  <2>2. workflow' \in [passed : Nat, failed : Nat, skipped : Nat]
    BY <2>1 DEF VerdictInv, WorkflowInv
  <2>3. /\ UNCHANGED <<given, shard, counts, junit, described, published>>
        /\ stage = "shard" /\ stage' \in {"binaries", "junit"}
        /\ stage' = "binaries" => binariesOn /\ Result(evidence, shard).failed > 0
        /\ workflow' = Add(workflow, Result(evidence, shard))
    BY <1>2 DEF CompareShard
  <2>4. Result(evidence, shard).failed \in Nat /\ workflow.failed \in Nat
    BY <1>0, <2>3, ResultTypes DEF ControlInv, Comparing, Shown
  <2>5. workflow'.failed = workflow.failed + Result(evidence, shard).failed
    BY <2>3 DEF Add
  <2> QED  BY <2>2, <2>3, <2>4, <2>5 DEF ControlInv, given
<1>3. CASE CompareJUnit
  <2>1. VerdictInv' /\ ~Ended'
    BY <1>3, CompareJUnitKeeps DEF CompareJUnit, Ended
  <2>2. counts' \in [tests : Nat, failures : Nat, errors : Nat, skipped : Nat]
    BY <2>1 DEF VerdictInv, CountsInv
  <2>j. PICK j : j = evidence.junit[shard]
    OBVIOUS
  <2>n. PICK len : len = Len(Cases(evidence, shard))
    OBVIOUS
  <2>a. PICK a : a = How(evidence, shard, "failure")
    OBVIOUS
  <2>b. PICK b : b = How(evidence, shard, "error")
    OBVIOUS
  <2>3. /\ stage = "junit" /\ stage' \in {"failures", "shard"}
        /\ counts' = [tests    |-> counts.tests + j.passed + j.skipped + len,
                      failures |-> counts.failures + a,
                      errors   |-> counts.errors + b,
                      skipped  |-> counts.skipped + j.skipped]
        /\ junit' = junit \cup {<<shard, n>> : n \in CaseNames(evidence, shard)}
        /\ UNCHANGED <<given, workflow, described, published>>
        /\ shard' \in Shown \cup {NoShard}
    BY <1>3, <2>j, <2>n, <2>a, <2>b DEF CompareJUnit, Cases, Later
  <2>4. shard \in Shown /\ CaseNames(evidence, shard) \subseteq Names
        /\ a \in Nat /\ b \in Nat /\ len = a + b
        /\ j.passed \in Nat /\ j.skipped \in Nat
    BY <1>0, <2>3, <2>j, <2>n, <2>a, <2>b, JUnitTypes, CasesOf DEF Comparing, Shown
  <2>5. counts'.tests >= counts'.failures + counts'.errors + counts'.skipped
    BY <2>3, <2>4 DEF ControlInv
  <2>6. junit' \subseteq Shards \X Names
    BY <1>0, <2>3, <2>4 DEF ControlInv
  <2> QED  BY <1>0, <2>2, <2>3, <2>5, <2>6 DEF ControlInv, given
<1>4. CASE Describe
  <2>1. PICK i \in DOMAIN evidence.failed :
          /\ evidence.failed[i] \in junit
          /\ junit' = junit \ {evidence.failed[i]}
          /\ described' = [described EXCEPT ![evidence.failed[i][2]]
                                              = evidence.failed[i][1]]
          /\ UNCHANGED <<given, stage, shard, workflow, counts, published>>
    BY <1>4 DEF Describe, Left, Describable
  <2>2. described' \in [Names -> Shards \cup {NoShard}] /\ junit' \subseteq junit
    BY <2>1 DEF ControlInv
  <2> QED  BY <2>1, <2>2 DEF ControlInv, given
<1>5. CASE Publish
  <2>1. /\ published' = Summary /\ stage' = "published"
        /\ UNCHANGED <<given, shard, workflow, counts, junit, described>>
    BY <1>5 DEF Publish, Summary
  <2>2. Summary # NoCounts
    <3>1. "tests" \in DOMAIN Summary /\ "tests" \notin DOMAIN NoCounts
      BY DEF Summary, NoCounts
    <3> QED  BY <3>1
  <2> QED  BY <2>1, <2>2 DEF ControlInv, given
<1>6. CASE AllDescribed \/ Refuse \/ BinariesFail
  <2>1. /\ UNCHANGED <<given, shard, compared>>
        /\ stage # "published" /\ stage' \in {"conclude", "refused", "failed"}
    BY <1>6 DEF AllDescribed, Refuse, BinariesFail, Contradicted
  <2> QED  BY <2>1 DEF ControlInv, given, compared
<1>7. CASE Binaries \/ OtherCollector \/ UNCHANGED vars
  <2>1. /\ UNCHANGED <<given, shard, compared>>
        /\ stage' = stage \/ (stage = "binaries" /\ stage' = "junit")
    BY <1>7 DEF Binaries, OtherCollector, vars, given, compared
  <2> QED  BY <2>1 DEF ControlInv, given, compared
<1> QED  BY <1>1, <1>2, <1>3, <1>4, <1>5, <1>6, <1>7 DEF Next

(* The types, for any records: among them that only the binaries of a shard *)
(* that failed are read, with bytes that were charged within the budget.    *)
THEOREM ReconciliationTypeCorrect == Spec => []TypeOK
<1>1. VerdictInv /\ ControlInv /\ InventoryInv /\ BudgetInv => TypeOK
  <2> SUFFICES ASSUME VerdictInv, ControlInv, InventoryInv, BudgetInv PROVE TypeOK
    OBVIOUS
  <2>1. BinaryTypeOK /\ stage \in Stages
    BY BinaryTypes DEF VerdictInv, EvidenceInv
  <2>2. Reading => /\ stage = "binaries" /\ from = shard /\ binariesOn
                   /\ workflow.failed > 0
    BY DEF InventoryInv, Progress, ControlInv
  <2> QED  BY <2>1, <2>2 DEF ControlInv, TypeOK
<1>2. Init => VerdictInv /\ ControlInv /\ InventoryInv /\ BudgetInv
  BY VerdictInit, ControlInit, InventoryInit, BudgetInit
<1>3. VerdictInv /\ ControlInv /\ InventoryInv /\ BudgetInv /\ [Next]_vars
        => VerdictInv' /\ ControlInv' /\ InventoryInv' /\ BudgetInv'
  BY VerdictKeeps, ControlKeeps, InventoryInductive, BudgetInductive
<1> QED  BY <1>1, <1>2, <1>3, PTL DEF Spec
=============================================================================
