---------------------------- MODULE Reconciliation ----------------------------
(***************************************************************************)
(* What collect_suite does once every mandatory file of a suite is         *)
(* retained: it compares what the plan, each shard, the JUnit files and    *)
(* the collector say, and publishes a verdict only when they agree.  The   *)
(* binaries of a shard that failed are read in between (BinaryTransfer).   *)
(*                                                                         *)
(* The records are a constant of a behaviour: they are on disk.  Reruns    *)
(* without cases are left to RerunLineage.                                 *)
(***************************************************************************)
EXTENDS BinaryTransfer

CONSTANTS
  Names,      \* testcases
  Suites,     \* the records that a suite may have retained, each with
              \* whether its binaries are wanted
  MaxCases    \* bound: cases of one outcome in a shard

(***************************************************************************)
(* Evidence of a suite.  A field per record; build, testcases, done,       *)
(* result and junit have one entry per shard directory.                    *)
(*   state      the suite's commit status, or "unreported"                 *)
(*   verdict    collect/verdict                                            *)
(*   format     how the result file is written                             *)
(*   par, total plan/split.meta                                            *)
(*   planned    the shards of which plan/ has a list of cases              *)
(*   plan       plan/plan.tsv: how many cases each shard is assigned       *)
(*   failed     collect/failed.list: a sequence of <<shard, name>>         *)
(*   build      build.read: its commit is ours or not, its attempt         *)
(*   testcases  tc.read: the testcases of the plan, or not                 *)
(*   done       shard.done: [assigned, code]                               *)
(*   result     summary_info or test_status.data                           *)
(*   junit      its cases: how many passed and were skipped, and the       *)
(*              sequence of those that failed, with how                    *)
(***************************************************************************)
Formats == {"summary_info", "test_status"}
Builds  == [ours : BOOLEAN, attempt : Nat]
Results == [passed : Nat, skipped : Nat, failed : Nat, executed : Nat, nok : Seq(Names)]
JUnits  == [passed : Nat, skipped : Nat,
            failed : Seq([name : Names, how : {"failure", "error"}])]

IsEvidence(e) ==
  LET shown == DOMAIN e.done
  IN  /\ shown \subseteq Shards
      /\ e.format \in Formats
      /\ \A s \in DOMAIN e.plan : e.plan[s] \in Nat
      /\ e.failed \in Seq(Shards \X Names)
      /\ e.build \in [shown -> Builds]
      /\ DOMAIN e.testcases = shown
      /\ e.done \in [shown -> [assigned : Nat, code : Nat]]
      /\ e.result \in [shown -> Results]
      /\ e.junit \in [shown -> JUnits]

\* The bound is above the counts in which the records of a shard agree.
Bounded(e) ==
  \A s \in DOMAIN e.done :
    /\ e.junit[s].passed = e.result[s].passed => e.junit[s].passed <= MaxCases
    /\ e.junit[s].skipped = e.result[s].skipped => e.junit[s].skipped <= MaxCases

ASSUME ReconciliationAssumption ==
  /\ MaxCases \in Nat
  /\ \A suite \in Suites : /\ IsEvidence(suite.records) /\ Bounded(suite.records)
                          /\ suite.binaries \in BOOLEAN

NoBuild == [ours |-> FALSE, attempt |-> 0]
Unknown == 0     \* build.read names no attempt

VARIABLES
  evidence,    \* the records
  binariesOn,  \* --include-binaries
  stage,
  build,       \* the build that the shards before say they ran
  shard,       \* the shard that is compared
  workflow,    \* the sums of the result files
  counts,      \* the sums of the JUnit files
  junit,       \* the JUnit failures that failed.list has not named yet
  described,   \* failures/<stable id>/: the shard of each test described
  published    \* the counts of summary.json, or NoCounts

vars == <<binaryVars, evidence, binariesOn, stage, build, shard, workflow,
          counts, junit, described, published>>

Stages == {"shape", "shard", "binaries", "junit", "failures", "conclude",
           "published", "refused", "failed"}

NoCounts == [planned |-> 0]
Zero     == [passed |-> 0, failed |-> 0, skipped |-> 0]
NoCase   == [tests |-> 0, failures |-> 0, errors |-> 0, skipped |-> 0]
NoShard  == Nowhere

Shown == DOMAIN evidence.done      \* the shard directories

TypeOK ==
  /\ BinaryTypeOK
  /\ evidence.format \in Formats /\ binariesOn \in BOOLEAN
  /\ stage \in Stages
  /\ shard \in Shards \cup {NoShard}
  \* a shard failed if its binaries are read
  /\ Reading => /\ stage = "binaries" /\ from = shard /\ binariesOn
                /\ workflow.failed > 0
  /\ {workflow.passed, workflow.failed, workflow.skipped} \subseteq Nat
  /\ counts.tests >= counts.failures + counts.errors + counts.skipped
  /\ junit \subseteq Shards \X Names
  /\ described \in [Names -> Shards \cup {NoShard}]
  /\ (published # NoCounts) <=> (stage = "published")

Init ==
  /\ \E suite \in Suites :
       /\ evidence = suite.records /\ binariesOn = suite.binaries
       /\ BinaryInit(suite.binaries)
  /\ stage = "shape"
  /\ build = NoBuild
  /\ shard = NoShard
  /\ workflow = Zero /\ counts = NoCase
  /\ junit = {}
  /\ described = [n \in Names |-> NoShard]
  /\ published = NoCounts

compared == <<workflow, counts, junit, described, published>>
given    == <<evidence, binariesOn>>

(***************************************************************************)
(* The plan and the directories, then failed.list as a whole.              *)
(***************************************************************************)
ShapeAgrees ==
  /\ SumFunction(evidence.plan) = evidence.total
  /\ Shown # {}
  /\ Shown = evidence.planned /\ Cardinality(Shown) = evidence.par
  /\ DOMAIN evidence.plan = evidence.planned
  /\ IsInjective(evidence.failed)

Start ==
  /\ stage = "shape" /\ ShapeAgrees
  /\ \E s \in Shown : IsFirst(s, Shown) /\ shard' = s
  /\ stage' = "shard"
  /\ UNCHANGED <<binaryVars, given, build, compared>>

(***************************************************************************)
(* One shard: its provenance and its own records.                          *)
(***************************************************************************)
Provenance(s) ==
  /\ evidence.build[s].ours
  /\ evidence.build[s].attempt # Unknown
  /\ build \in {NoBuild, evidence.build[s]}
  /\ evidence.testcases[s] = "planned"

\* What the result file says; summary_info has a row per case, and at least
\* one, test_status.data has totals.
Result(e, s) ==
  LET r == e.result[s]
  IN  IF e.format = "summary_info"
      THEN [passed |-> r.passed, failed |-> Len(r.nok), skipped |-> r.skipped]
      ELSE [passed |-> r.passed, failed |-> r.failed, skipped |-> r.skipped]

Handled(r) == r.passed + r.failed + r.skipped

ResultParses(e, s) ==
  IF e.format = "summary_info"
  THEN IsInjective(e.result[s].nok) /\ Handled(Result(e, s)) > 0
  ELSE e.result[s].executed = e.result[s].passed + e.result[s].failed

\* 1 is also what a test command exits with when cases failed.
ExitedNormally(code, failed) == code = 0 \/ (code = 1 /\ failed > 0)

ShardAgrees(s) ==
  LET r == Result(evidence, s)
      d == evidence.done[s]
  IN  /\ ResultParses(evidence, s)
      /\ ExitedNormally(d.code, r.failed)
      /\ d.assigned = evidence.plan[s]
      /\ Handled(r) = evidence.plan[s]

Add(w, r) == [passed |-> w.passed + r.passed, failed |-> w.failed + r.failed,
              skipped |-> w.skipped + r.skipped]

CompareShard ==
  /\ stage = "shard" /\ Provenance(shard) /\ ShardAgrees(shard)
  /\ build' = evidence.build[shard]
  /\ workflow' = Add(workflow, Result(evidence, shard))
  /\ stage' = IF binariesOn /\ Result(evidence, shard).failed > 0
              THEN "binaries" ELSE "junit"
  /\ UNCHANGED <<binaryVars, given, shard, counts, junit, described, published>>

Binaries ==
  /\ stage = "binaries"
  /\ \/ ~Reading /\ List(shard) /\ UNCHANGED stage
     \/ TransferStep /\ UNCHANGED stage
     \/ ~Reading /\ CannotList(shard) /\ stage' = "junit"
     \/ AllRead /\ stage' = "junit"
  /\ UNCHANGED <<given, build, shard, compared>>

\* A transfer fails, or the listing names something that is no file.
BinariesFail ==
  /\ stage = "binaries"
  /\ TransferFails \/ (~Reading /\ UNCHANGED binaryVars)
  /\ stage' = "failed"
  /\ UNCHANGED <<given, build, shard, compared>>

OtherCollector == OtherPersists
                  /\ UNCHANGED <<given, stage, build, shard, compared>>

(***************************************************************************)
(* The shard's JUnit files against its result file and failed.list.        *)
(***************************************************************************)
Cases(e, s)      == e.junit[s].failed
CaseNames(e, s)  == {Cases(e, s)[i].name : i \in DOMAIN Cases(e, s)}
NamesNok(e, s)   == Range(e.result[s].nok)
Inventory(e, s)  == {n \in Names : <<s, n>> \in Range(e.failed)}
How(e, s, how)   == Cardinality({i \in DOMAIN Cases(e, s) : Cases(e, s)[i].how = how})

\* Faulty variant: summary_info is believed.
SameAsListed(e, s) == CaseNames(e, s) = Inventory(e, s)

SameNames(e, s) ==
  /\ CaseNames(e, s) = Inventory(e, s)
  /\ e.format = "summary_info" => NamesNok(e, s) = Inventory(e, s)

JUnitAgrees(s) ==
  LET r == Result(evidence, s)
  IN  /\ Cardinality(CaseNames(evidence, s)) = Len(Cases(evidence, s))
      /\ evidence.junit[s].passed = r.passed
      /\ evidence.junit[s].skipped = r.skipped
      /\ Len(Cases(evidence, s)) = r.failed
      /\ SameNames(evidence, s)

Later(s) == {t \in Shown : t > s}

CompareJUnit ==
  /\ stage = "junit" /\ JUnitAgrees(shard)
  /\ LET j        == evidence.junit[shard]
         failures == How(evidence, shard, "failure")
         errors   == How(evidence, shard, "error")
     IN  counts' = [tests    |-> counts.tests + j.passed + j.skipped + Len(j.failed),
                    failures |-> counts.failures + failures,
                    errors   |-> counts.errors + errors,
                    skipped  |-> counts.skipped + j.skipped]
  /\ junit' = junit \cup {<<shard, n>> : n \in CaseNames(evidence, shard)}
  /\ \/ Later(shard) = {} /\ shard' = NoShard /\ stage' = "failures"
     \/ /\ \E s \in Later(shard) : IsFirst(s, Later(shard)) /\ shard' = s
        /\ stage' = "shard"
  /\ UNCHANGED <<binaryVars, given, build, workflow, described, published>>

(***************************************************************************)
(* A description of each failure, in the order of failed.list.  Its        *)
(* directory is named after the test alone, and metadata.json, written     *)
(* there once, holds the shard.                                            *)
(***************************************************************************)
Left == {i \in DOMAIN evidence.failed :
           described[evidence.failed[i][2]] # evidence.failed[i][1]}

Describable(f) == f \in junit /\ described[f[2]] = NoShard

Describe ==
  /\ stage = "failures"
  /\ \E i \in Left :
       LET f == evidence.failed[i]
       IN  /\ IsFirst(i, Left)
           /\ Describable(f)
           /\ junit' = junit \ {f}
           /\ described' = [described EXCEPT ![f[2]] = f[1]]
  /\ UNCHANGED <<binaryVars, given, stage, build, shard, workflow, counts, published>>

AllDescribed ==
  /\ stage = "failures" /\ Left = {} /\ junit = {}
  /\ stage' = "conclude"
  /\ UNCHANGED <<binaryVars, given, build, shard, compared>>

(***************************************************************************)
(* The totals, the status and the verdict.                                 *)
(***************************************************************************)
Minus(a, b) == IF a >= b THEN a - b ELSE 0    \* saturating_sub

Failures == counts.failures + counts.errors
Passed   == Minus(counts.tests, Failures + counts.skipped)

CountsAgree ==
  /\ Failures = Len(evidence.failed)
  /\ workflow = [passed |-> Passed, failed |-> Failures, skipped |-> counts.skipped]
  /\ evidence.total = Handled(workflow)

VerdictAgrees(e, failures) ==
  /\ e.verdict = IF failures = 0 THEN "pass" ELSE "fail"
  /\ e.state \in {"unreported", IF failures = 0 THEN "success" ELSE "failure"}

Publish ==
  /\ stage = "conclude" /\ CountsAgree /\ VerdictAgrees(evidence, Failures)
  /\ published' = [planned |-> evidence.total,
                   run     |-> workflow.passed + workflow.failed,
                   unrun   |-> Minus(evidence.total, Handled(workflow)),
                   passed  |-> Passed, failures |-> Failures,
                   skipped |-> counts.skipped, tests |-> counts.tests]
  /\ stage' = "published"
  /\ UNCHANGED <<binaryVars, given, build, shard, workflow, counts, junit, described>>

(***************************************************************************)
(* The first comparison that fails ends the collection.                    *)
(***************************************************************************)
Contradicted ==
  \/ stage = "shape" /\ ~ShapeAgrees
  \/ stage = "shard" /\ ~(Provenance(shard) /\ ShardAgrees(shard))
  \/ stage = "junit" /\ ~JUnitAgrees(shard)
  \/ stage = "failures" /\ \E i \in Left : /\ IsFirst(i, Left)
                                           /\ ~Describable(evidence.failed[i])
  \/ stage = "failures" /\ Left = {} /\ junit # {}
  \/ stage = "conclude" /\ ~(CountsAgree /\ VerdictAgrees(evidence, Failures))

Refuse ==
  /\ Contradicted
  /\ stage' = "refused"
  /\ UNCHANGED <<binaryVars, given, build, shard, compared>>

Next == \/ Start \/ CompareShard \/ Binaries \/ BinariesFail \/ OtherCollector
        \/ CompareJUnit \/ Describe \/ AllDescribed \/ Publish \/ Refuse

Spec == Init /\ [][Next]_vars

(***************************************************************************)
(* What really happened: how many cases of each shard passed and were      *)
(* skipped, and which ones failed.  A case belongs to one shard.           *)
(***************************************************************************)
Outcomes == [passed : 0 .. MaxCases, skipped : 0 .. MaxCases, failed : SUBSET Names]

Histories(e) ==
  {h \in [DOMAIN e.done -> Outcomes] :
     \A s, t \in DOMAIN e.done : s # t => h[s].failed \cap h[t].failed = {}}

Size(o) == o.passed + o.skipped + Cardinality(o.failed)

\* The records of shard s are what outcome o leaves behind.
Tells(e, s, o) ==
  /\ e.plan[s] = Size(o) /\ e.done[s].assigned = Size(o)
  /\ e.done[s].code \in IF o.failed = {} THEN {0} ELSE {0, 1}
  /\ e.junit[s].passed = o.passed /\ e.junit[s].skipped = o.skipped
  /\ CaseNames(e, s) = o.failed /\ Len(Cases(e, s)) = Cardinality(o.failed)
  /\ e.result[s].passed = o.passed /\ e.result[s].skipped = o.skipped
  /\ IF e.format = "summary_info"
     THEN /\ NamesNok(e, s) = o.failed
          /\ Len(e.result[s].nok) = Cardinality(o.failed)
          /\ Size(o) > 0
     ELSE /\ e.result[s].failed = Cardinality(o.failed)
          /\ e.result[s].executed = o.passed + Cardinality(o.failed)

AllFailed(h) == UNION {h[s].failed : s \in DOMAIN h}
Total(h)     == SumFunction([s \in DOMAIN h |-> Size(h[s])])

\* The suite's records, together, are what history h leaves behind.
Explains(e, h) ==
  /\ DOMAIN e.plan = DOMAIN h /\ e.planned = DOMAIN h /\ DOMAIN h # {}
  /\ e.par = Cardinality(DOMAIN h) /\ e.total = Total(h)
  /\ \A s \in DOMAIN h : Tells(e, s, h[s])
  /\ Range(e.failed) = UNION {{s} \X h[s].failed : s \in DOMAIN h}
  /\ Len(e.failed) = Cardinality(AllFailed(h))
  /\ \E b \in Range(e.build) : /\ Range(e.build) = {b}
                               /\ b.ours /\ b.attempt # Unknown
  /\ Range(e.testcases) = {"planned"}
  /\ VerdictAgrees(e, Cardinality(AllFailed(h)))

Reports(h) ==
  LET failed  == Cardinality(AllFailed(h))
      skipped == SumFunction([s \in DOMAIN h |-> h[s].skipped])
  IN  [planned |-> Total(h), run |-> Total(h) - skipped, unrun |-> 0,
       passed |-> Total(h) - skipped - failed, failures |-> failed,
       skipped |-> skipped, tests |-> Total(h)]

(***************************************************************************)
(* VerdictIsExplained: a summary is published only if there is a history   *)
(* of the suite, with each case in one shard, from which every one of its  *)
(* records would come about, and with the counts of that history; and a    *)
(* suite is refused only if there is none.  So the sums and the saturating *)
(* differences (gha_evidence.rs:1130) hide no contradiction, and no order  *)
(* of the comparisons refuses records that agree.                          *)
(***************************************************************************)
VerdictIsExplained ==
  /\ stage = "published" =>
       \E h \in Histories(evidence) : Explains(evidence, h) /\ published = Reports(h)
  /\ stage = "refused" =>
       ~ \E h \in Histories(evidence) : Explains(evidence, h)

(***************************************************************************)
(* InventoryIsValid: the binary inventory published with a summary is one  *)
(* that a later command accepts (validate_binary_inventory): it names no   *)
(* artifact twice, and the file of each artifact it calls downloaded is    *)
(* the one it describes, whatever earlier and other collectors left there. *)
(***************************************************************************)
InventoryIsValid == stage = "published" => ValidInventory
=============================================================================
