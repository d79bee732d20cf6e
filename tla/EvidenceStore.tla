---------------------------- MODULE EvidenceStore ----------------------------
(***************************************************************************)
(* The evidence directory of ONE suite execution,                          *)
(*   providers/github-actions/runs/<run>/attempts/<attempt>/<suite>/,      *)
(* and the invocations of cubrid-ci that collect into it.  An invocation   *)
(* is an operating-system process: it may be killed between any two file   *)
(* operations, several may run at once, and the evidence server and the    *)
(* GitHub API may answer differently every time they are asked.            *)
(*                                                                         *)
(* A collector checks whether validated evidence is already there          *)
(* (collect_suite, first part), fetches the raw files it misses            *)
(* (fetch_text), reconciles them, and publishes (publish_summary): an      *)
(* index of every raw file, the optional binary inventory, and last the    *)
(* summary.  Every file is written to a temporary name and renamed with    *)
(* "no clobber"; a write of what is already there succeeds, a write of     *)
(* something else is an integrity error.                                   *)
(*                                                                         *)
(* A file's content stands for its bytes and for their SHA-256 digest.     *)
(* A summary is represented by what it was computed from: the contents of  *)
(* the mandatory raw files and the artifact base, which an invocation may  *)
(* set for itself.  (Its ci_state follows from the verdict among the files *)
(* and its link to a rerun's source is RerunLineage's subject.)            *)
(***************************************************************************)
EXTENDS Naturals

CONSTANTS
  Collectors,   \* invocations of cubrid-ci; each runs once
  Mandatory,    \* the raw text files a complete suite needs
  Optional,     \* the artifact listings fetched only for --include-binaries
  Contents,     \* what the evidence server may serve for a file
  RunVersions,  \* what GitHub may report of the run (run record, job pages)
  Inventories,  \* the binary inventories a collector may arrive at
  JobLogs,      \* logs of jobs that ended abnormally, or the errors met
  LoggedBase,   \* the artifact base that the collect job's log names
  Configured,   \* what an invocation may set as artifact base, None: nothing
  Rerun,        \* does the plan say that the attempt is a rerun?
  Overlapping,  \* may a collector start while another one is active?
  None          \* a file that does not exist, a value not yet known

Files       == Mandatory \cup Optional
Maybe(S)    == S \cup {None}
Evidence    == [Mandatory -> Contents]
Bases       == {LoggedBase} \cup (Configured \ {None})
Summaries   == [texts : Evidence, base : Bases]
LogFiles    == {"collect.log"} \cup JobLogs
Temporaries == Collectors \X Files
RawIndexes  == [texts : [Files -> Maybe(Contents)],
                receipts : [Files -> Maybe(Contents)],
                temps : SUBSET Temporaries,
                run : Maybe(RunVersions),
                logs : SUBSET LogFiles,
                summary : Summaries]

ASSUME StoreAssumption ==
  /\ None \notin Contents \cup RunVersions \cup Inventories \cup {LoggedBase}
  /\ None \notin Evidence \cup Summaries
  /\ None \notin RawIndexes
  /\ "collect.log" \notin JobLogs
  /\ Rerun \in BOOLEAN

VARIABLES
  \* the outside world
  remote,      \* what the evidence server serves for each file, now
  run,         \* what GitHub reports of the run, now
  \* the directory
  text,        \* raw/<file>
  receipt,     \* raw/.../.cubrid-ci-receipts/<digest of the name>.json
  runFile,     \* raw/github/run.json with the job pages beside it
  logs,        \* raw/github/collect.log, job-<id>.log, job-<id>-log-error.txt
  failures,    \* failures/<id>/..., derived from the mandatory raw files
  index,       \* raw/index.json
  inventory,   \* binary-inventory.json
  summary,     \* summary.json
  \* each collector's memory
  pc,          \* where it is in collect_suite
  binaries,    \* was it asked for --include-binaries?
  base,        \* the artifact base it was told to use, None: the logged one
  pinned,      \* the run metadata it pinned before it started
  expected,    \* the summary digest the index promised it
  stage,       \* how far its fetch of each file is
  body,        \* the content it holds of each file
  listing,     \* the index it is about to write
  answer       \* the summary it returned

world     == <<remote, run>>
directory == <<text, receipt, runFile, logs, failures, index, inventory,
               summary>>
memory    == <<pc, binaries, base, pinned, expected, stage, body, listing,
               answer>>
vars      == <<world, directory, memory>>

-----------------------------------------------------------------------------
(* Types *)

Phases == {"idle", "begun", "unindexed", "indexChecked", "describing",
           "resolving", "fetching", "diagnosing", "reconciled", "listed",
           "indexed", "inventoried", "done", "failed", "conflicted", "crashed"}
Ended  == {"done", "failed", "conflicted", "crashed"}

Stages == {"todo", "requested", "streaming", "receipted", "retained",
           "failing", "error"}

TypeOK ==
  /\ remote \in [Files -> Maybe(Contents)]
  /\ run \in RunVersions
  /\ text \in [Files -> Maybe(Contents)]
  /\ receipt \in [Files -> Maybe(Contents)]
  /\ runFile \in Maybe(RunVersions)
  /\ logs \subseteq LogFiles
  /\ failures \in Maybe(Evidence)
  /\ index \in Maybe(RawIndexes)
  /\ inventory \in Maybe(Inventories)
  /\ summary \in Maybe(Summaries)
  /\ pc \in [Collectors -> Phases]
  /\ binaries \in [Collectors -> BOOLEAN]
  /\ base \in [Collectors -> Maybe(Configured)]
  /\ pinned \in [Collectors -> Maybe(RunVersions)]
  /\ expected \in [Collectors -> Maybe(Summaries)]
  /\ stage \in [Collectors -> [Files -> Stages]]
  /\ body \in [Collectors -> [Files -> Maybe(Contents)]]
  /\ listing \in [Collectors -> Maybe(RawIndexes)]
  /\ answer \in [Collectors -> Maybe(Summaries)]

-----------------------------------------------------------------------------
(* Helpers *)

GoTo(c, phase) == pc' = [pc EXCEPT ![c] = phase]

\* storage.rs, write_bytes_immutable: create, or accept what is equal.
\* Faulty variant: the rename clobbers.
Clobbers(file, value) == TRUE
Accepts(file, value) == file \in {None, value}

\* What there was is there still, and the same.
Kept(old, new) == old \in {None, new}

\* A temporary file exists while its fetch is in flight, and for ever when
\* its collector was killed: NamedTempFile removes it only when dropped.
InFlight    == {"streaming", "receipted"}
LiveTemps   == {t \in Temporaries : stage[t[1]][t[2]] \in InFlight}

\* The files this collector needs before it can publish.
\* Faulty variant: a fetch that was tried counts.
TriedMandatory(c) == \A f \in Mandatory : stage[c][f] \in {"retained", "error"}
HasMandatory(c) == \A f \in Mandatory : stage[c][f] = "retained"
OptionalTried(c) == \A f \in Optional : stage[c][f] \in {"retained", "error"}
EvidenceOf(c)   == [f \in Mandatory |-> body[c][f]]

\* The artifact base of a collector, and whether it retains collect.log: to
\* find the base, or to find the run that a rerun repeats.
Base(c)     == IF base[c] = None THEN LoggedBase ELSE base[c]
KeepsLog(c) == base[c] = None \/ Rerun

SummaryOf(c) == [texts |-> EvidenceOf(c), base |-> Base(c)]

\* write_raw_index: every file found under raw/ except index.json itself.
RawTree(c) == [texts |-> text, receipts |-> receipt, temps |-> LiveTemps,
               run |-> runFile, logs |-> logs, summary |-> SummaryOf(c)]

\* validate_raw_index: every listed file is still there, unchanged.
IndexHolds ==
  /\ \A f \in Files : Kept(index.texts[f], text[f])
  /\ \A f \in Files : Kept(index.receipts[f], receipt[f])
  /\ Kept(index.run, runFile)
  /\ index.logs \subseteq logs
  /\ index.temps \subseteq LiveTemps

Active(c) == pc[c] \notin Ended \cup {"idle"}

Init ==
  /\ remote \in [Files -> Maybe(Contents)]
  /\ run \in RunVersions
  /\ text = [f \in Files |-> None]
  /\ receipt = [f \in Files |-> None]
  /\ runFile = None
  /\ logs = {}
  /\ failures = None
  /\ index = None
  /\ inventory = None
  /\ summary = None
  /\ pc = [c \in Collectors |-> "idle"]
  /\ binaries = [c \in Collectors |-> FALSE]
  /\ base = [c \in Collectors |-> None]
  /\ pinned = [c \in Collectors |-> None]
  /\ expected = [c \in Collectors |-> None]
  /\ stage = [c \in Collectors |-> [f \in Files |-> "todo"]]
  /\ body = [c \in Collectors |-> [f \in Files |-> None]]
  /\ listing = [c \in Collectors |-> None]
  /\ answer = [c \in Collectors |-> None]

-----------------------------------------------------------------------------
(* The world changes *)

\* The producer uploads, replaces or expires a file: the server addresses
\* files by run, so a new attempt replaces what an old one published.
Publish(f) ==
  /\ \E v \in Maybe(Contents) \ {remote[f]} :
       remote' = [remote EXCEPT ![f] = v]
  /\ UNCHANGED <<run, directory, memory>>

\* The run record or its job pages change while the attempt stays the same.
RunChanges ==
  /\ run' \in RunVersions \ {run}
  /\ UNCHANGED <<remote, directory, memory>>

-----------------------------------------------------------------------------
(* collect_suite up to the first download *)

\* The command takes its artifact base from an option, the environment or a
\* file, if any, pins the run metadata, then calls collect_suite.
Begin(c) ==
  /\ pc[c] = "idle"
  /\ Overlapping \/ \A d \in Collectors : ~Active(d)
  /\ \E b \in BOOLEAN : binaries' = [binaries EXCEPT ![c] = b]
  /\ \E b \in Configured : base' = [base EXCEPT ![c] = b]
  /\ pinned' = [pinned EXCEPT ![c] = run]
  /\ GoTo(c, "begun")
  /\ UNCHANGED <<world, directory, expected, stage, body, listing, answer>>

\* raw/index.json exists: validate it and keep the digest it promises.
CheckIndex(c) ==
  /\ pc[c] = "begun"
  /\ \/ /\ index = None
        /\ GoTo(c, "unindexed")
        /\ UNCHANGED expected
     \/ /\ index # None
        /\ IndexHolds
        /\ expected' = [expected EXCEPT ![c] = index.summary]
        /\ GoTo(c, "indexChecked")
     \/ /\ index # None
        /\ ~IndexHolds
        /\ GoTo(c, "failed")
        /\ UNCHANGED expected
  /\ UNCHANGED <<world, directory, binaries, base, pinned, stage, body, listing,
                 answer>>

\* No index: a summary must not exist either.
CheckUnindexed(c) ==
  /\ pc[c] = "unindexed"
  /\ GoTo(c, IF summary = None THEN "indexChecked" ELSE "failed")
  /\ UNCHANGED <<world, directory, binaries, base, pinned, expected, stage, body,
                 listing, answer>>

Reusable(c) == summary # None /\ (binaries[c] => inventory # None)

\* A validated summary is returned without any download.
CheckSummary(c) ==
  /\ pc[c] = "indexChecked"
  /\ \/ /\ Reusable(c)
        /\ expected[c] = summary
        /\ answer' = [answer EXCEPT ![c] = summary]
        /\ GoTo(c, "done")
     \/ /\ Reusable(c)
        /\ expected[c] # summary
        /\ GoTo(c, "failed")
        /\ UNCHANGED answer
     \/ /\ ~Reusable(c)
        /\ GoTo(c, "describing")
        /\ UNCHANGED answer
  /\ UNCHANGED <<world, directory, binaries, base, pinned, expected, stage, body,
                 listing>>

\* The pinned run metadata is retained, or must equal what is retained.
Describe(c) ==
  /\ pc[c] = "describing"
  /\ \/ /\ Accepts(runFile, pinned[c])
        /\ runFile' = pinned[c]
        /\ GoTo(c, "resolving")
     \/ /\ ~Accepts(runFile, pinned[c])
        /\ GoTo(c, "failed")
        /\ UNCHANGED runFile
  /\ UNCHANGED <<world, text, receipt, logs, failures, index, inventory, summary,
                 binaries, base, pinned, expected, stage, body, listing, answer>>

\* load_run_context: the job pages, which must contain the collect job, and
\* the log of that job when it has to tell the artifact base.  What is
\* missing or unusable fails the suite, and the logs of jobs that ended
\* abnormally, or the errors met in asking for them, are retained.
Resolve(c) ==
  /\ pc[c] = "resolving"
  /\ LET collectLog == IF base[c] = None THEN {"collect.log"} ELSE {}
     IN  \/ /\ logs' = logs \cup collectLog
            /\ GoTo(c, "fetching")
         \/ /\ \E new \in SUBSET (collectLog \cup JobLogs) : logs' = logs \cup new
            /\ GoTo(c, "failed")
  /\ UNCHANGED <<world, text, receipt, runFile, failures, index, inventory,
                 summary, binaries, base, pinned, expected, stage, body,
                 listing, answer>>

-----------------------------------------------------------------------------
(* fetch_text.  Fetches of one collector run concurrently. *)

Wants(c, f) ==
  /\ pc[c] = "fetching"
  /\ f \in Optional => binaries[c] /\ HasMandatory(c)

SetStage(c, f, s) == stage' = [stage EXCEPT ![c][f] = s]

\* classify_pipeline_fetch: when a job of the run ended abnormally, GitHub is
\* asked for its log before the failure of a mandatory fetch is reported.
Fails(c, f) ==
  \/ SetStage(c, f, "error")
  \/ f \in Mandatory /\ SetStage(c, f, "failing")

\* The file is retained already: verify it against its receipt.
Reread(c, f) ==
  /\ Wants(c, f)
  /\ stage[c][f] = "todo"
  /\ text[f] # None
  /\ \/ /\ receipt[f] = text[f]
        /\ SetStage(c, f, "retained")
        /\ body' = [body EXCEPT ![c][f] = text[f]]
     \/ /\ receipt[f] # text[f]
        /\ Fails(c, f)
        /\ UNCHANGED body
  /\ UNCHANGED <<world, directory, pc, binaries, base, pinned, expected,
                 listing, answer>>

\* It is not: ask for a permit, then send GET, and wait for the answer.
Request(c, f) ==
  /\ Wants(c, f)
  /\ stage[c][f] = "todo"
  /\ text[f] = None
  /\ SetStage(c, f, "requested")
  /\ UNCHANGED <<world, directory, pc, binaries, base, pinned, expected, body,
                 listing, answer>>

\* GET answers; the body streams into a temporary file beside its target.
Get(c, f) ==
  /\ Wants(c, f)
  /\ stage[c][f] = "requested"
  /\ remote[f] # None
  /\ SetStage(c, f, "streaming")
  /\ body' = [body EXCEPT ![c][f] = remote[f]]
  /\ UNCHANGED <<world, directory, pc, binaries, base, pinned, expected,
                 listing, answer>>

\* Where a fetch waits, and can therefore fail or be dropped, after it began.
\* Faulty variant: it also waits between the receipt and the rename.
LateAwaits == {"requested", "streaming", "receipted"}
Awaits == {"requested", "streaming"}

\* An error status, a broken or oversized or malformed body, a connection
\* that breaks, or the fetch is dropped because another one of its shard
\* failed.  There is no timeout: an answer that does not come is waited for.
FetchFails(c, f) ==
  /\ Wants(c, f)
  /\ stage[c][f] \in Awaits
  /\ Fails(c, f)
  /\ UNCHANGED <<world, directory, pc, binaries, base, pinned, expected, body,
                 listing, answer>>

\* The receipt is written before the body gets its name.
WriteReceipt(c, f) ==
  /\ Wants(c, f)
  /\ stage[c][f] = "streaming"
  /\ \/ /\ Accepts(receipt[f], body[c][f])
        /\ receipt' = [receipt EXCEPT ![f] = body[c][f]]
        /\ SetStage(c, f, "receipted")
     \/ /\ ~Accepts(receipt[f], body[c][f])
        /\ Fails(c, f)
        /\ UNCHANGED receipt
  /\ UNCHANGED <<world, text, runFile, logs, failures, index, inventory,
                 summary, pc, binaries, base, pinned, expected, body, listing,
                 answer>>

\* persist_noclobber; when the name is taken the contents must be equal.
Promote(c, f) ==
  /\ Wants(c, f)
  /\ stage[c][f] = "receipted"
  /\ \/ /\ Accepts(text[f], body[c][f])
        /\ text' = [text EXCEPT ![f] = body[c][f]]
        /\ SetStage(c, f, "retained")
     \/ /\ ~Accepts(text[f], body[c][f])
        /\ Fails(c, f)
        /\ UNCHANGED text
  /\ UNCHANGED <<world, receipt, runFile, logs, failures, index, inventory,
                 summary, pc, binaries, base, pinned, expected, body, listing,
                 answer>>

\* retain_abnormal_job_logs: one file for each such job, its log or the error.
Diagnose(c, f) ==
  /\ Wants(c, f)
  /\ stage[c][f] = "failing"
  /\ \E new \in SUBSET JobLogs : logs' = logs \cup new
  /\ SetStage(c, f, "error")
  /\ UNCHANGED <<world, text, receipt, runFile, failures, index, inventory,
                 summary, pc, binaries, base, pinned, expected, body, listing,
                 answer>>

\* rerun_source_run: the plan of a rerun is at hand, the run it repeats is
\* named in the collect job's log, and that was not needed for the base.
SourceLog(c) ==
  /\ pc[c] = "fetching"
  /\ Rerun /\ base[c] # None
  /\ \E f \in Mandatory : stage[c][f] = "retained"
  /\ "collect.log" \notin logs
  /\ logs' = logs \cup {"collect.log"}
  /\ UNCHANGED <<world, text, receipt, runFile, failures, index, inventory,
                 summary, memory>>

\* Faulty variant: the suite waits for what will not come.
WaitsForAll(c) == HasMandatory(c)
Drained(c) ==
  \A f \in Files : stage[c][f] \notin {"requested", "failing"} \cup InFlight

\* A mandatory fetch failed: what is in flight drains, then the suite fails.
Abort(c) ==
  /\ pc[c] = "fetching"
  /\ \E f \in Mandatory : stage[c][f] = "error"
  /\ Drained(c)
  /\ GoTo(c, "failed")
  /\ UNCHANGED <<world, directory, binaries, base, pinned, expected, stage,
                 body, listing, answer>>

-----------------------------------------------------------------------------
(* Reconciliation and publish_summary *)

\* The records agree and the failure records are written, or the suite fails,
\* possibly after GitHub is asked for the logs of jobs that ended abnormally.
Reconcile(c) ==
  /\ pc[c] = "fetching"
  /\ HasMandatory(c)
  /\ binaries[c] => OptionalTried(c)
  /\ Rerun => "collect.log" \in logs
  /\ \/ /\ Accepts(failures, EvidenceOf(c))
        /\ failures' = EvidenceOf(c)
        /\ GoTo(c, "reconciled")
     \/ /\ GoTo(c, "failed") \/ GoTo(c, "diagnosing")
        /\ UNCHANGED failures
  /\ UNCHANGED <<world, text, receipt, runFile, logs, index, inventory,
                 summary, binaries, base, pinned, expected, stage, body,
                 listing, answer>>

\* job_level_failure: retain_abnormal_job_logs, then the suite fails.
DiagnoseSuite(c) ==
  /\ pc[c] = "diagnosing"
  /\ \E new \in SUBSET JobLogs : logs' = logs \cup new
  /\ GoTo(c, "failed")
  /\ UNCHANGED <<world, text, receipt, runFile, failures, index, inventory,
                 summary, binaries, base, pinned, expected, stage, body,
                 listing, answer>>

\* Walk raw/ and digest every file; a file may vanish under the walk.
ListRaw(c) ==
  /\ pc[c] = "reconciled"
  /\ \/ /\ listing' = [listing EXCEPT ![c] = RawTree(c)]
        /\ GoTo(c, "listed")
     \/ /\ \E t \in LiveTemps : Active(t[1])
        /\ GoTo(c, "failed")
        /\ UNCHANGED listing
  /\ UNCHANGED <<world, directory, binaries, base, pinned, expected, stage, body,
                 answer>>

PutIndex(c) ==
  /\ pc[c] = "listed"
  /\ \/ /\ Accepts(index, listing[c])
        /\ index' = listing[c]
        /\ GoTo(c, "indexed")
     \/ /\ ~Accepts(index, listing[c])
        /\ GoTo(c, "conflicted")
        /\ UNCHANGED index
  /\ UNCHANGED <<world, text, receipt, runFile, logs, failures, inventory, summary,
                 binaries, base, pinned, expected, stage, body, listing, answer>>

\* The records depend on what was transferred under this command's budget.
PutInventory(c) ==
  /\ pc[c] = "indexed"
  /\ binaries[c]
  /\ \E i \in Inventories :
       \/ /\ Accepts(inventory, i)
          /\ inventory' = i
          /\ GoTo(c, "inventoried")
       \/ /\ ~Accepts(inventory, i)
          /\ GoTo(c, "failed")
          /\ UNCHANGED inventory
  /\ UNCHANGED <<world, text, receipt, runFile, logs, failures, index, summary,
                 binaries, base, pinned, expected, stage, body, listing, answer>>

\* The summary comes last.  Faulty variant: it comes first.
SummaryFirst(c) == pc[c] = "listed"
SummaryIsNext(c) == pc[c] = IF binaries[c] THEN "inventoried" ELSE "indexed"

PutSummary(c) ==
  /\ SummaryIsNext(c)
  /\ \/ /\ Accepts(summary, SummaryOf(c))
        /\ summary' = SummaryOf(c)
        /\ answer' = [answer EXCEPT ![c] = SummaryOf(c)]
        /\ GoTo(c, "done")
     \/ /\ ~Accepts(summary, SummaryOf(c))
        /\ GoTo(c, "failed")
        /\ UNCHANGED <<summary, answer>>
  /\ UNCHANGED <<world, text, receipt, runFile, logs, failures, index, inventory,
                 binaries, base, pinned, expected, stage, body, listing>>

\* The process is killed, a file operation fails, or a request to GitHub does.
\* Temporary files stay behind; that a failing process could still remove them
\* adds nothing.
Crash(c) ==
  /\ Active(c)
  /\ GoTo(c, "crashed")
  /\ UNCHANGED <<world, directory, binaries, base, pinned, expected, stage,
                 body, listing, answer>>

-----------------------------------------------------------------------------
(* Specification *)

Fetch(c, f) ==
  \/ Reread(c, f)
  \/ Request(c, f)
  \/ Get(c, f)
  \/ FetchFails(c, f)
  \/ WriteReceipt(c, f)
  \/ Promote(c, f)
  \/ Diagnose(c, f)

Collect(c) ==
  \/ CheckIndex(c)
  \/ CheckUnindexed(c)
  \/ CheckSummary(c)
  \/ Describe(c)
  \/ Resolve(c)
  \/ \E f \in Files : Fetch(c, f)
  \/ SourceLog(c)
  \/ Abort(c)
  \/ Reconcile(c)
  \/ DiagnoseSuite(c)
  \/ ListRaw(c)
  \/ PutIndex(c)
  \/ PutInventory(c)
  \/ PutSummary(c)

Next ==
  \/ \E f \in Files : Publish(f)
  \/ RunChanges
  \/ \E c \in Collectors : Begin(c) \/ Collect(c) \/ Crash(c)

Spec == Init /\ [][Next]_vars

\* Does Reconcile ask a server: for binaries, or for the source of a rerun?
Transfers(c) == binaries[c] \/ Rerun

\* The steps that a process takes by itself, without the answer of a server.
Local(c) ==
  \/ CheckIndex(c)
  \/ CheckUnindexed(c)
  \/ CheckSummary(c)
  \/ Describe(c)
  \/ \E f \in Files : Reread(c, f) \/ Request(c, f) \/ Promote(c, f)
  \/ Abort(c)
  \/ ~Transfers(c) /\ Reconcile(c)
  \/ ListRaw(c)
  \/ PutIndex(c)
  \/ PutInventory(c)
  \/ PutSummary(c)

\* A process that is not killed keeps executing its statements.  Nothing is
\* assumed of the servers: the code sets no timeout on any request.
FairSpec == Spec /\ \A c \in Collectors : WF_vars(Local(c))

-----------------------------------------------------------------------------
(* Properties *)

(* A retained body always has the receipt that verifies it: write_text_     *)
(* receipt runs before persist_noclobber, so no crash, no second collector  *)
(* and no changed server answer leaves a body that the next read rejects.   *)
ReceiptCoversText ==
  \A f \in Files : text[f] # None => receipt[f] = text[f]

(* A receipt without its body is explained: some collector stands between   *)
(* the two writes, or was killed there.                                     *)
OrphanReceiptIsExplained ==
  \A f \in Files :
    receipt[f] # None /\ text[f] = None =>
      \E c \in Collectors : /\ stage[c][f] = "receipted"
                            /\ body[c][f] = receipt[f]

(* The publication seam: when summary.json exists, index.json exists, holds *)
(* that summary's digest, and lists exactly the mandatory bodies the        *)
(* summary was computed from, which are still retained.                     *)
PublicationSeam ==
  summary # None =>
    /\ index # None
    /\ index.summary = summary
    /\ \A f \in Mandatory : /\ index.texts[f] = summary.texts[f]
                            /\ text[f] = summary.texts[f]

(* All collectors that succeed, by publishing or by reuse, in any order and *)
(* whatever the server served each of them, return one and the same         *)
(* summary, the one on disk.                                                *)
OneAnswer ==
  \A c \in Collectors : pc[c] = "done" => answer[c] = summary /\ summary # None

(* A collector that got past the downloads never finds failure records of   *)
(* somebody else's evidence: the immutable writes of collect_suite below    *)
(* failures/ cannot conflict.                                               *)
FailuresAgree ==
  \A c \in Collectors : HasMandatory(c) => Kept(failures, EvidenceOf(c))

(* Nothing that was retained or published is ever rewritten or removed.     *)
EvidenceIsImmutable ==
  [][/\ \A f \in Files : /\ Kept(text[f], text'[f])
                         /\ Kept(receipt[f], receipt'[f])
     /\ Kept(runFile, runFile')
     /\ logs \subseteq logs'
     /\ Kept(failures, failures')
     /\ Kept(index, index')
     /\ Kept(inventory, inventory')
     /\ Kept(summary, summary')]_vars

(* While collectors do not overlap, a published summary stays reusable: its *)
(* raw index keeps describing what is on disk.                              *)
PublishedStaysReusable == summary # None => IndexHolds

(* While collectors do not overlap, no binaries are asked for and all       *)
(* invocations have the same artifact base set, or none, a collector that   *)
(* gets to its publication after another one was cut off between index.json *)
(* and summary.json finds the very index that it is about to write, unless  *)
(* a log of an abnormal job was retained in between.                        *)
CutPublicationResumes ==
  /\ \A c \in Collectors : ~binaries[c]
  /\ \A c, d \in Collectors : "idle" \notin {pc[c], pc[d]} => base[c] = base[d]
  => \A c \in Collectors :
       /\ pc[c] = "listed" /\ index # None
       /\ listing[c].logs \cap JobLogs \subseteq index.logs
       => listing[c] = index

(* ADR-0011: contradictory immutable evidence fails.  Two indexes           *)
(* contradict each other when they record different bytes for one file.     *)
Contradict(i, j) ==
  \/ i.summary.texts # j.summary.texts
  \/ \E f \in Files :
       \/ None \notin {i.texts[f], j.texts[f]} /\ i.texts[f] # j.texts[f]
       \/ None \notin {i.receipts[f], j.receipts[f]}
            /\ i.receipts[f] # j.receipts[f]
IndexConflictIsContradiction ==
  \A c \in Collectors :
    pc[c] = "conflicted" => Contradict(index, listing[c])

\* A server owes the collector an answer.
Unanswered(c) ==
  \/ pc[c] \in {"resolving", "diagnosing"}
  \/ /\ pc[c] = "fetching"
     /\ \/ \E f \in Files : stage[c][f] \in {"requested", "streaming", "failing"}
        \/ Rerun
        \/ binaries[c] /\ HasMandatory(c)

(* A collector that starts and is not killed comes to an end, or a request  *)
(* of it is never answered: none of its waits depends on another collector, *)
(* and when a download fails it waits only for the others in flight.        *)
EveryCollectorEnds ==
  \A c \in Collectors :
    pc[c] = "begun" ~> (pc[c] \in Ended \/ []Unanswered(c))

(* What the directory promises its users is a write-once register.          *)
Promise == INSTANCE PublishOnce WITH
  Readers <- Collectors, Values <- Summaries,
  published <- summary, answers <- answer
ImplementsPublishOnce == Promise!Spec
=============================================================================
