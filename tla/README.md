# A TLA+ model of cubrid-ci

`cubrid-ci` collects the evidence of CUBRID's GitHub Actions test suites into a
local directory: it selects a commit, follows the commit's statuses to Actions
runs, downloads every suite's plan, shard records and JUnit files from an
evidence server, reconciles them, and publishes what it validated. This
directory holds TLA+ modules of its stateful parts, TLC configurations that
check them on small instances, and TLAPS proofs for every instance.

    tlc -workers 2 -config MCEvidenceStore_overlap.cfg MCEvidenceStore
    tlapm EvidenceStoreProofs.tla

and likewise for the other `...Proofs` modules.

All source names below are files of `src/src/` unless they say otherwise.

## 1. Inventory of the system

| component | source | state | operations | hard parts |
|---|---|---|---|---|
| Evidence store of one suite execution | `gha_evidence.rs` (`collect_suite`, `fetch_text`, `publish_summary`, raw index), `storage.rs` | files below `runs/<run>/attempts/<attempt>/<suite>/`: raw bodies, receipts, `run.json`, job pages and logs, `failures/`, `raw/index.json`, `binary-inventory.json`, `summary.json` | validate and reuse, retain run metadata, fetch, reconcile, publish | kills between any two writes, several invocations in one directory, a server whose answers change |
| Acquisition scheduler and ledger | `gha_evidence.rs` (`make_fetch`, the loop after it), `observation.rs` (`AcquisitionLedger`) | futures in flight per suite, the shared semaphore, stopped suites, shard states, errors | schedule a shard, fetch, record, stop, drain | interleaving of futures, dropped futures, one suite failing beside another |
| Collection commands | `gha_collect.rs`, `commit_collect.rs`, `observation.rs` (`CollectionObservation`), `storage.rs` | `manifest.json`, `observations/<id>/request.json` and `result.json`; in memory the snapshot, the pinned runs, the suites' results | wait, select, pin, collect suites, verify again, publish, record | re-runs and pushes during a collection, overlapping commands, refusal after work was done |
| Reconciliation | `gha_evidence.rs` (second half of `collect_suite`) | counts, JUnit failures, provenance, `failures/<id>/` | compare plan, workflow, JUnit, failed list and verdict | saturating arithmetic, agreeing records that should not |
| Rerun lineage | `gha_evidence.rs` (`rerun_source_run`, `collect_rerun_source`, `validate_rerun_source`) | chain of source runs | recurse, pin, validate, carry forward | depth, a source that changes |
| Binary artifacts | `gha_evidence.rs` (`collect_abnormal_shard_binaries`), `observation.rs` (budget) | remaining bytes, consumption, records, `binaries/` | list, transfer, account | limits, interrupted transfers |
| Commit discovery, base resolution | `commit_collect.rs` | candidates, runs, a dedicated Git cache | discover, pick the latest, resolve a merge base | late statuses of old runs |
| Waiting | `gha_collect.rs` (`run_with_progress`) | a deadline | poll until all suites are terminal | the deadline's edge |
| Configuration | `config.rs` | none | resolve four sources | precedence |
| Parsers, CLI, progress, status, diff, doctor | the other files | none | | text formats, rendering |

How they interact. A command takes a status snapshot, opens an observation,
pins the attempt of every linked run and calls `collect_suite` for every
terminal suite, all on one task. The suites share one semaphore and one ledger;
each writes to its own directory. A suite's `summary.json` is the seam at which
its evidence becomes usable. The command then looks again at the pull request's
head or at the runs, replaces `manifest.json` and completes its observation.
Nothing locks a directory: two invocations meet only through "create if absent,
otherwise compare" writes and through the rename of `manifest.json`.

What makes each part correct:

* the store: what is retained can be verified, nothing is rewritten, one
  execution has one published summary, an interrupted collector harms nobody;
* the scheduler: the ceiling holds, no permit is lost, failures stay in their
  suite, records and errors do not depend on luck where they need not;
* the commands: the manifest selects only published evidence of the attempt and
  the head it names, and every request gets its result;
* reconciliation: a summary exists only for records that agree;
* lineage: terminates, and a carried verdict is the source's.

## 2. Modules

| module | what it is |
|---|---|
| `PublishOnce` | abstract: a write-once register of a suite execution's summary |
| `EvidenceStore` | one suite directory, its collectors, the server and GitHub; implements `PublishOnce` |
| `EvidenceStoreProofs` | theorems of `EvidenceStore` |
| `Acquisition` | one command's downloads: suites, shards, files, permits, ledger |
| `AcquisitionProofs` | theorems of `Acquisition` |
| `Collection` | commands for one commit, its runs and attempts, manifest and observations |
| `CollectionProofs` | theorems of `Collection` |
| `Selection` | what a command follows: `--wait` with its clock, `discover` and `latest` |
| `BaseResolution` | the pull request, the Git cache and the merge base of `collect-base`; composed into `Selection` |
| `SelectionProofs` | theorems of `Selection` and `BaseResolution` |
| `RerunLineage` | `collect_suite` as it calls itself for the sources of a rerun |
| `RerunLineageProofs` | theorems of `RerunLineage` |
| `Reconciliation` | the comparisons of a suite's records, up to its summary |
| `BinaryTransfer` | optional artifacts, their budget and inventory; composed into `Reconciliation` |
| `ReconciliationProofs` | theorems of `BinaryTransfer` as `Reconciliation` uses it: budget and inventory |
| `VerdictProofs` | theorems about the verdict and the types of `Reconciliation` |
| `SumTheorems` | lemmas on sums, images and cardinalities of finite sets, for the two above |
| `MC...` | instances for TLC: symmetry sets and values that a `.cfg` cannot spell |

The detailed modules are cuts through one program at different heights.
`Selection` ends where `Collection` goes on (`collect_selected`). `Collection`
has one action where `collect_suite` runs; `EvidenceStore` is that action for
one directory, file write by file write; `Acquisition` is the part of it that
waits for the network, with its concurrency; `Reconciliation` is
`EvidenceStore`'s action `Reconcile`, whose outcome is a choice there;
`RerunLineage` is the recursion of all of this over several executions. What
each assumes of the next one down is proved or checked there: `Collection` lets
a suite's summary appear once and stay (`PublishOnce`, `EvidenceIsImmutable`),
and `EvidenceStore` lets the fetches of one collector interleave freely, of
which `Acquisition`'s schedules are a subset.

### EvidenceStore

The variables are the directory (`text`, `receipt`, `runFile`, `failures`,
`logs`, `index`, `inventory`, `summary`), the world (`remote`, `run`), and what
each collector remembers. `pc` follows `collect_suite`: *begun* - check the
index - check the summary - *describing* (run metadata) - *resolving*
(`load_run_context`) - *fetching* - *reconciled* - *listed* - *indexed* -
*inventoried* - *done*. During *fetching* each file has a stage of its own:
*todo*, *requested*, *streaming* (a temporary file exists), *receipted*,
*retained*. A failure may pass through *failing* or *diagnosing*, where GitHub
is asked for the logs of jobs that ended abnormally. Every action ends at a
write or a rename, so a crash between two actions is a crash between two
durable steps.

A content stands for bytes together with their digest, so that "size and
SHA-256 agree" is equality; a summary is what it was computed from, the
contents of the mandatory files (`texts`) and the artifact base (`base`). Each
invocation may set a base (`Configured`); without one it reads the base from
the log of the job `collect`, which it then retains (`KeepsLog`), as it also
does to find the source of a rerun (`SourceLog`). So the base is in the digest
that `index.json` promises, and `collect.log` is among the files it lists. The
summary's `ci_state` is not represented: the suite is refused unless the
reported state agrees with the verdict, and an unreported one is replaced by it
(1154-1184), so that it is a function of the verdict among the files. `Accepts`
is `write_bytes_immutable`. Abstractions: the run record and the job pages are
one version; the records of `failures/` are one value, a function of the
summary; the walk of `raw/` is atomic; whether records reconcile is a choice; a
storage error is a crash. `github/status-snapshot.json` (first writer wins,
never compared) is left out; a job's log stands for its presence, since a log
that reads differently the second time is one of the ways to fail; the bodies
of binary artifacts are in `BinaryTransfer`.

### Acquisition

A fetch goes *todo* - *started* - (*queued*) - *holding* - *retained* or
*error*, or is *dropped* when its shard needs it no more. `queue` is the
semaphore's queue, which is fair. A suite's own files are fetched in sequence,
then shard futures run, at most `Concurrency` of them; inside a shard `Serial`
files come one by one and then the JUnit files through a window
(`buffered(4)`), whose results are consumed in order. `Take` is one turn of the
loop over `in_flight`, with `AcquisitionLedger` and `schedule_if_running`. The
set `bad` of fetches that will fail is chosen at the start: each is tried once,
so this is the same as choosing when it happens. With `--include-binaries`
suites are collected one after the other; these are some of the interleavings
of the model.

### Collection

A data directory is used either for a pull request or for a commit: `mode` is
chosen at the start, "pr" for `collect` and "commit" for `collect-commit` and
`collect-base`, which differ in how they select (`StartPr`, `Poll`,
`StopWaiting`; `StartCommit`, `Link`; `StartExplicit` for `--run-id` and
`--attempt`), what they pin (`Pin`) and what they look at again (`Unchanged`).
The evidence server addresses files by run only, so `files` holds the attempt
that wrote them last, and `summaries[s][a]` holds the attempt whose files were
published under attempt `a`. Assumptions about GitHub and the producer: a
re-run runs every suite of its run again, the job `collect` is listed for an
attempt once the suites have uploaded, statuses stay until replaced, a run that
is completed uploads nothing, and nobody pushes an old commit to a pull request
again. GitHub may always fail to answer.

Waiting ends at any time here; its clock is in `Selection`.

### Selection and BaseResolution

`kind` chooses one command. For `collect` a snapshot is one read of the
`current` state of every suite, as `cubrid-pr-status` reports it; a look takes
up to `LookTime`, and the deadline starts after the first one, as in
`run_with_progress`. For `collect-commit` a report is a pair of a time and a
state per *reporter* (a source, a suite and a run); `ReadStatuses` and
`ReadChecks` are two calls, between which anything may be reported.
`collect-base` first runs `BaseResolution`: `pull` moves, the receipt pins what
was read, and the cache is in whatever state earlier commands left it, of a
repository that is missing, shallow, not bare, or an empty directory.

### RerunLineage

A collector is a stack of frames, one per recursive `collect_suite`; `stage`
follows the function. The files of an execution are two, the `plan` read before
the source is collected and the `rest` read after it, because that is the
window in which the server's files change. `pin` is `rerun-source.json`. A
summary stands for its bytes and therefore for its digest: a link contains the
summary it names. Assumptions: a rerun is created when its source has uploaded,
since its plan is made from those files; an attempt takes at least one unit of
GitHub's timestamps. Whether the plans' revisions agree is a choice. A kill
looks like a failure, as every write is followed by a step that may fail.

### Reconciliation and BinaryTransfer

The retained records are a constant of a behaviour, chosen from `Suites`: a
record has numbers, names and sequences, never text. `Start`, `CompareShard`,
`CompareJUnit`, `Describe` and `Publish` are the code's comparisons in the
code's order, with its running sums; `Refuse` is the first that fails. The
reference is not another such list: a *history* says which cases of each shard
passed, were skipped or failed, and `Explains` what records such a history
leaves behind. Between the two comparisons of a shard its binaries are read,
chunk by chunk (`Receive`), while other collectors may persist theirs.

## 3. What is checked

| run | instance | shows |
|---|---|---|
| `store_overlap` | 2 overlapping collectors of a rerun, 2 mandatory files, 2 contents, the logged base or another, 2 inventories | Under overlap, kills and changing answers: `ReceiptCoversText`, `OrphanReceiptIsExplained` (the receipt protocol), `PublicationSeam`, `FailuresAgree`, `EvidenceIsImmutable` |
| `store_sequential` | 3 collectors, one after the other, each with the logged base or another; 2 contents, 2 run versions, a job's log | `PublishedStaysReusable`, `CutPublicationResumes` |
| `store_ends` | 2 overlapping collectors, 1 mandatory file and an artifact listing, 2 contents | `OneAnswer`, the refinement `ImplementsPublishOnce`, and `EveryCollectorEnds` |
| `acquisition_suites` | 2 suites of 2 shards, 2 permits, up to 2 failures, any download may stall | `SuitesAreIndependent`, `LedgerTellsTheTruth`, `EverySuiteEnds` |
| `acquisition_window` | 1 suite of 3 shards, window and permits 2, up to 3 failures | `PermitsConserved`, `ErrorIsDeterministic` |
| `collection` | 2 commands, 1 suite, 3 attempts, for a pull request or a commit | `ManifestSelectsPublished`, `NoResultMeansInterrupted`, `EvidenceIsNeverOlder`; for a pull request `ManifestOfTheHead`; for a commit `ManifestNamesItsAttempt`, `ManifestSelectsCompleted` |
| `lineage` | 2 collectors, a chain of 3 runs, the first re-run once, 3 points in time, lineages of 2 | `StandsOnItsBasis`, `VerdictRestsOnSource`, `SourceEvidenceIsPinned`, `PublishedRerunStays`, `LineageIsBounded` |
| `selection` | 1 command of any kind, 2 runs and both sources, a timeout of 4 and polls every 2, looks of up to 1 | `TerminalInTimeIsSeen`, `WaitingEnds`, `NewestRunIsFollowed`, `TerminalByItsOwnRun`, `ReceiptExplainsBase` |
| `reconciliation` | 2 shards, 2 tests, 2 artifacts of sizes 1 and 3, limits 2 and 3 | `VerdictIsExplained`, `BudgetIsConserved`, `InventoryIsValid` |
| `store_stray`, `store_optin`, `collection_old` | | find violations, see below |

Type invariants are checked with the first run of each module.

Why these bounds. Two collectors are enough for every pairwise race of a
directory, and two contents for every disagreement; the invariants of the store
are proved for any number. Three sequential collectors let one be killed, one
continue and one reuse; the log base and one other are enough for two
invocations to differ. In `store_ends` and `acquisition_suites` any request may
stall. Two shards in flight beside one that is not yet scheduled, two files in
the window beside one before it, and two suites that compete for the permits
are the smallest instances in which a failure can drop, drain and leave over
something. A third attempt lets a run change again while the evidence of the
second is collected. In `lineage` the chain is one run longer than
`MaxLineage`, so that the limit is met (it is 32 in the code); a cycle cannot
be closed, because a source is older than its rerun, and the code's check for
one is not exercised; only the end of the chain is re-run (`Restarted`), which
is what its reruns depend on; `MaxTime` lets a source complete before, while
and after its rerun begins. In `selection` the timeout is two polls, so that
the last sleep is cut short or not, and `MaxTime` leaves a look before and
after it; reports have `MaxReportTime`, enough to be earlier, equal or later.
In `reconciliation` the records are honest ones of all histories of one shard
beside two of the other, those with one record changed (`OfSuite`, `OfShard`),
and, of a suite that fails, those with two changed, which is what it takes for
two wrong records to agree with each other; `MaxCases` bounds the histories
that are tried as an explanation, and is above every count in them. One
artifact fits the limit of a file and the other does not, and the budget holds
the first three times or is used up by earlier suites. `MaxBad`, `MaxAttempt`,
`Restarted`, `MaxTime`, `MaxReportTime`, `LookTime` and `MaxCases` are the only
bounds on what would otherwise be unbounded.

Deadlock is checked in `Acquisition`, whose last state stutters by its own
action `Collected`. The other modules really stop: invocations run once and the
outside world need not go on.

Fairness. A process that is not killed executes its next statement; `Crash` is
always possible instead. The code sets no timeout on any request: not on the
evidence server's (the client of `gha_evidence.rs:434`, the stream of 2107),
not on `gh` (2005), and not on `cubrid-pr-status` (`gha_collect.rs:618`). A
server that accepts and then stalls blocks its caller for ever, so fairness
does not contain the steps that wait for an answer:

* `EvidenceStore`: weak fairness of each collector's `Local` steps only.
  `EveryCollectorEnds` says that a collector ends unless from some point on a
  request of it is never answered: no other collector can block it, and a
  failed download makes it wait only for the downloads in flight. With binaries
  or a rerun any step of *fetching* may be such a request.
* `Acquisition`: weak fairness of `Local`, which leaves out `Download`.
  `EverySuiteEnds` says that a suite ends unless a download of its own is never
  answered or unanswered downloads, of any suites, hold all permits. Assumed is
  that `gh` returns, which is called synchronously on the one task: for a run's
  context before the first fetch, and for logs after a failed one. A `gh` that
  does not return blocks every suite of the command.
* `Selection`: time passes (`Tick`) and a command goes on (`Continue`). Nothing
  is assumed of CI: `WaitingEnds` relies on the deadline of `--wait`, not on
  terminal statuses. It does assume that a look takes at most `LookTime`; the
  code does not bound a look, and a command whose look never returns does not
  end.

### What the code does differently from its documents

* `store_stray`. `write_raw_index` lists everything under `raw/`, also the
  temporary body another collector is streaming. When that file is gone the
  published index no longer validates and the suite cannot be reused or
  collected again.
* `store_optin`. A suite published without binaries and collected again with
  `--include-binaries` may gain an artifact listing below `raw/`, which the
  immutable `index.json` of the first publication does not list; its write
  conflicts although nothing contradicts.
* `collection_old`. `summary.json` is published for the pinned attempt before
  `verify_runs` notices a re-run. The command is refused, but the summary
  stays, and an explicit `--attempt` later reuses files of the new attempt as
  the old one's.

Known limits that the properties are worded around: the artifact base of an
invocation (an option, the environment, a file) is part of `summary.json`,
whose digest is in `index.json`, so that after a publication was cut off
between the two an invocation with another base conflicts with the index
although it retained the same evidence, and so does one that retains
`collect.log` when the first did not need it (`CutPublicationResumes` speaks of
invocations with one base; the conflict is of the same kind as that of
`store_optin`); `collect` does not look at attempts again, so
`ManifestNamesItsAttempt` is claimed for `collect-commit` only; of two
overlapping commands the last rename of `manifest.json` wins, also when its
collection is the older one; which shards are *not attempted* after a failure
depends on timing (`LedgerTellsTheTruth` says that the record is right, not
that it is the same every time). What turns terminal during the last look of
`--wait` may be missed, hence the `LookTime` in `TerminalInTimeIsSeen`. One
failed look ends the command. `publish_summary` checks again only executions
that are collected as the source of a rerun, so `SourceEvidenceIsPinned` is
claimed for those. An empty Git cache that a killed `collect-base` left makes
every later one fail; `ReceiptExplainsBase` says that each failure is recorded.
An interrupted binary fails its suite although its mandatory evidence is
complete; `BudgetIsConserved` says that what it took is charged.

## 4. What is proved

`EvidenceStoreProofs` proves, for any finite or infinite sets of collectors,
files and contents and with or without overlap, from `StoreAssumption` only
(`None` is not one of the values): `TypeCorrect`, `ReceiptsCover`,
`OrphansExplained`, `Seam`, `AnswersOne`, `FailuresOne`, the action property
`Immutable`, and the refinement `PublishesOnce`.

None of these invariants is inductive. `OneAnswer` needs that two collectors
that got past the downloads hold the same contents; that needs `FetchesAgree`
(what a collector retained equals the body on disk) and `ReceiptCoversText`,
because an existing body is accepted only through its receipt. The seam needs
that whoever is about to write the summary wrote, or found equal, an index of
the same texts (`IndexAgrees`, `IndexedFirst`). The argument goes in three
layers, each using the ones before it:

1. `TypeInv`: types, and when `body`, `listing` and `expected` are known;
2. `FetchInv`: the receipt protocol;
3. `PublicationInv`: listings, index, failure records, summary, answers.

`Keeps` and `Steps` state once what each action leaves alone; `RetainedStays`
is the fact everything rests on: no step changes a body that is there. The
refinement maps `published` to `summary` and `answers` to `answer`;
`Deliveries` shows that only `CheckSummary` and `PutSummary` are `Deliver`
steps and the others stutter.

Two more theorems assume that collectors do not overlap:
`SequentialStaysReusable` and `SequentialResumes`, that is
`PublishedStaysReusable` and `CutPublicationResumes`. The code does nothing to
prevent overlap; `store_stray` shows what it does to the first. The second also
needs its restrictions: no invocation wants binaries (`store_optin`), all have
the same base set, or none (the known limit in section 3), and no log of an
abnormal job was retained after the index was written, which a failure in
between may do. Nor does it say that the publication is completed: the run
record may have changed, the evidence server may be gone, a request may fail.
It says that a collector which gets as far as its own publication finds the
index equal.

`SequentialInv` adds to `Inv`: at most one collector is active (`AtMostOne`);
what each phase has downloaded (`PhasesInv`); that an index, from the moment it
is listed, names only temporary files of collectors that ended, which nobody
removes (`DescribesInv`); that without binaries there is nothing left to
download once an index exists, so that every listing after it has the same
bodies, receipts, temporary files and run record (`ListsInv`); that an index is
of the base of a collector that began and lists `collect.log` when that one
retains it, and that nobody else writes this file (`LogsInv`); and that a
listing has all the logs of the index (`GrowsInv`).

`ReconciliationProofs` proves three facts about the binaries of failed shards,
for any finite sets of shards and artifacts, any bodies and sizes, any limits
(zero included) and whatever other collectors write, from `BinaryAssumption`
and `ReconciliationAssumption`, which says that the records of each suite are
what the parsers return (`IsEvidence`) and that `MaxCases` is above the counts
in which the records of a shard agree (`Bounded`):

* `NeverOverdrawn`: the budget never goes below zero. That it covers each chunk
  is not inductive; `LimitsInv` is: what a transfer is still allowed is at most
  what is left (`allowed - got <= remaining`), since it was when the transfer
  began and both sides shrink together.
* `PublishedInventoryIsValid`, `InventoryIsValid` for every instance.
  `RecordsInv` says that records name no artifact twice and describe the file
  on disk; it needs `Kept` (no step replaces a file) and `Progress`, which
  follows the order of the loop: earlier shards are behind, and a record of
  this shard is of an artifact that is neither listed still nor being
  transferred.
* `BudgetConserved`: what is left, what was consumed and what the transfer in
  progress has taken add up to the budget. `BudgetInv` adds the types;
  `ConsumedGrows` says what one more entry does to the sum.

`VerdictProofs` proves `VerdictsAreExplained`, the property that matters most
in this component, for any records within the assumption, and
`ReconciliationTypeCorrect`. The code compares shard by shard, with sums that
run along, and never looks at a history; the property speaks of all histories.
`VerdictInv` joins the two: the shards compared so far agree one by one
(`ProvenanceInv`, `AgreeInv`), the running sums are the sums over exactly these
shards (`WorkflowInv`, `CountsInv`), and a failure of a compared JUnit file is
either still to be named by the failed list or described under the shard it is
of (`DescribedInv`). When the suite is published, the history that is read off
the JUnit files explains the records (`PublishedIsExplained`): `ToldByOutcome`
says so of one shard, and no case is in two of them because none is left to be
named and a test is described under one shard. When the suite is refused at
some comparison, that comparison follows from `Explains`, so no history exists
(`HistoryAgrees`, `ExplainedIsNotRefused`).

All of this needs facts about `SumFunctionOnSet`, which folds over a set in an
order that `CHOOSE` picks. `SumTheorems` proves them (a sum is a natural
number, what one element adds to it, the sums of equal functions, and the
cardinalities of images and disjoint unions) without induction over sets, which
is out of the prover's reach: `SmallestSet` says that a set of counterexamples
has a smallest member, by the well-founded order of the naturals, and each
lemma refutes it.

`AcquisitionProofs` proves, for any suites, any numbers of shards and files,
any window and any number of permits, from `AcquisitionAssumption` (these
numbers are positive, JUnit files may be none): `AcquisitionTypeCorrect`,
`PermitsAreConserved`, `SuitesIndependent`, `ErrorsDeterministic` and
`LedgersTruthful`. The inductive invariant has three layers:

1. `PermitsInv`: `PermitsConserved` and that nobody waits twice. Without the
   latter a fetch could be served and still be in the queue. `WaitingIs` says
   what `Waiting` returns, and `BecomeServes` that a permit that becomes free
   goes to the queue, for every step that ends or drops a fetch.
2. `TasksInv`: a task is untouched, or under way with exactly the files started
   that it may fetch, or resolved with nothing in progress. `TaskEnds` shows
   that the end of a fetch leads from one of these shapes to another, also when
   a failed JUnit file drops the window beside it.
3. `SuitesInv`: what the suite's loop has recorded. Shards are scheduled in
   order, and a suite that has not stopped has one in flight as long as there
   is another to schedule; so the loop ends only with all of them or after a
   failure. A shard before the first failed one was therefore scheduled and
   drained, which makes the error the same under every interleaving.

`CollectionProofs` proves all invariants of `Collection` for any commands,
suites, runs and attempts, from `CollectionAssumption`:
`CollectionTypeCorrect`, `SelectsPublished`, `NamesItsAttempt`, `NeverOlder`,
`SelectsCompleted`, `OnlyInterruptedLackResults`, `OfTheHead`. What the
manifest says follows from what a command knew when it wrote it, so
`CollectionInv` says for every phase of a command what it has pinned, collected
and looked at; that a run which is over stays over; that the files on the
server are of the newest attempt or the one before it; and that a summary is of
the attempt it is filed under or a later one, but never later than what the run
has reached. `Unchanged` before the manifest is written makes the two bounds
meet, and this is `ManifestNamesItsAttempt`.

`RerunLineageProofs` proves all invariants of `RerunLineage` for any chain of
runs, any attempts, collectors and limit, from `LineageAssumption`:
`LineageTypeCorrect`, `RerunsStandOnTheirBasis`, `VerdictsRestOnSources`,
`SourcesAreOfTheirAttempt`, `CollectionIsBounded`, `PublishedRerunsAreReused`.
`LineageInv` follows the frames of a stack by their stage: what each knows, and
that what it knows stays true while the frames above it work. The core is that
the attempt a frame pins is the basis of the rerun (a completed attempt that is
newest and older than the rerun by GitHub's timestamps), that pins never
change, that retained files are between the execution's own attempt and what
the server has, and that a source that is looked at again after its files are
there has exactly its own. A published summary leads along published summaries
of distinct runs, no more than the limit, so that a collector that finds one
follows them and cannot fail.

`SelectionProofs` proves all invariants of `Selection` and `BaseResolution` for
any suites, runs, reporters, times, timeout and interval, from
`SelectionAssumption` and `BaseAssumption`: `SelectionTypeCorrect`,
`WhatIsInTimeIsSeen`, `NewestIsFollowed`, `TerminalByOwnRun`,
`ReceiptsExplain`. `WaitingInv` bounds a look by `LookTime` and says that a
suite which is not terminal in the view has become so after the look began;
`FoundInv` says of each phase of the discovery that the newest run known at the
start is among the candidates or among the check runs that are still to be
read; `FollowsInv` that reports of a run are final once it is followed.
`LatestIsNewest` is the order of candidates by time and run: a finite set has a
greatest one.

`SequentialInv` and the invariants of `AcquisitionProofs` and `SelectionProofs`
were also checked by TLC, as invariants of the instances in section 3, before
they were proved.

Only model-checked: liveness (`EveryCollectorEnds`, `EverySuiteEnds`,
`WaitingEnds`), which is outside the prover's reach. Every safety property of a
passing run is a theorem.

## 5. Plan

Done: the modules, and the theorems of all components.

To do: that `Collection`'s `summaries` are write-once registers, one per suite
and attempt, as `PublishOnce` promises; that a collector's downloads in
`EvidenceStore` do what `Acquisition` says of one suite.

## 6. Not modelled

The parsers of text records, the JSON schemas, the command line, rendering,
`doctor`, `status`, `diff` and build information: pure functions of their input
or probes of the environment, without state that could be interleaved or
interrupted. So is the configuration, a choice between four sources, as a
function; that its outcome differs between invocations is modelled where it
reaches the evidence, the artifact base (`Configured`). The contents of files,
URLs and messages are never modelled; where an outcome depends on them it is a
nondeterministic choice.
