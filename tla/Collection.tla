------------------------------ MODULE Collection ------------------------------
(***************************************************************************)
(* The collection commands for one selected commit and its evidence root.  *)
(*                                                                         *)
(* A root either belongs to a pull request's head (mode = "pr"): `collect` *)
(* follows cubrid-pr-status and checks the head again before it publishes. *)
(* Or it belongs to a commit (mode = "commit"): `collect-commit` and       *)
(* `collect-base` follow the links of the exact commit, or an explicit run *)
(* and attempt, and check the runs again.  Both pin the attempt of every   *)
(* run, collect each suite, and record what they selected in manifest.json *)
(* and in their own observation.                                           *)
(*                                                                         *)
(* The evidence server addresses files by run, not by attempt: a re-run    *)
(* replaces the files of the attempt before it.  A suite's evidence is     *)
(* represented by the attempt its files come from.  EvidenceStore models   *)
(* how one suite's evidence gets to disk; here that is one step.           *)
(***************************************************************************)
EXTENDS Naturals, FiniteSets

CONSTANTS
  Commands,     \* invocations of cubrid-ci; each runs once
  Suites,       \* the requested suites
  Runs,         \* the GitHub Actions runs
  RunOf,        \* the run each suite's status links to
  MaxAttempt,   \* bound: attempts of one run
  Modes,        \* the kinds of root: some of "pr" and "commit"
  Explicit      \* may a commit's command ask for --run-id and --attempt?

ASSUME CollectionAssumption ==
  /\ 0 \notin Commands     \* it stands for none of them
  /\ RunOf \in [Suites -> Runs]
  /\ MaxAttempt \in Nat \ {0}
  /\ Modes \subseteq {"pr", "commit"}
  /\ Explicit \in BOOLEAN
  /\ Explicit => \A r \in Runs, s \in Suites : RunOf[s] = r

Attempts == 1 .. MaxAttempt
None     == 0       \* no attempt, no file, no command yet

VARIABLES
  \* GitHub and the evidence server
  atHead,      \* is the selected commit still the pull request's head?
  attempt,     \* the newest attempt of each run
  completed,   \* the runs whose newest attempt is completed
  status,      \* the commit's status of each suite
  files,       \* the attempt whose files the server holds of each suite
  \* the evidence root
  mode,        \* pr-<number>/<head>/ or commits/<commit>/
  summaries,   \* <run>/attempts/<attempt>/<suite>/summary.json: what it holds
  manifest,    \* manifest.json
  requests,    \* observations/<id>/request.json
  results,     \* observations/<id>/result.json
  \* each command
  pc,
  asked,       \* --attempt, or None
  view,        \* the status snapshot it works on
  pins,        \* the attempt of each run it collects
  known,       \* what it knew of each run when it selected it
  outcome,     \* the state of each suite in its result
  late         \* did it collect anything after the head had moved?

github == <<atHead, attempt, completed, status, files>>
root   == <<mode, summaries, manifest, requests, results>>
memory == <<pc, asked, view, pins, known, outcome, late>>
vars   == <<github, root, memory>>

Statuses == {"absent", "pending", "terminal"}
Outcomes == {"unknown", "not_observed", "running", "completed", "failed"}
Ended    == {"done", "failed", "crashed"}
\* No command wrote the manifest yet.
NoManifest == [by |-> None, suites |-> [s \in Suites |-> None]]

TypeOK ==
  /\ atHead \in BOOLEAN
  /\ attempt \in [Runs -> Attempts]
  /\ completed \subseteq Runs
  /\ status \in [Suites -> Statuses]
  /\ files \in [Suites -> {None} \cup Attempts]
  /\ mode \in Modes
  /\ summaries \in [Suites -> [Attempts -> {None} \cup Attempts]]
  /\ manifest.by \in {None} \cup Commands
  /\ manifest.suites \in [Suites -> {None} \cup Attempts]
  /\ requests \subseteq Commands
  /\ results \in [Commands -> {"none", "complete", "incomplete", "failed"}]
  /\ pc \in [Commands -> {"idle", "waiting", "linking", "selected",
                          "pinning", "collecting", "collected", "verified", "written",
                          "refused"} \cup Ended]
  /\ asked \in [Commands -> {None} \cup Attempts]
  /\ view \in [Commands -> [Suites -> Statuses]]
  /\ pins \in [Commands -> [Runs -> {None} \cup Attempts]]
  /\ known \in [Commands -> [Runs -> ({None} \cup Attempts) \X BOOLEAN]]
  /\ outcome \in [Commands -> [Suites -> Outcomes]]
  /\ late \subseteq Commands
  /\ \A c \in Commands : results[c] # "none" => c \in requests

Init ==
  /\ atHead = TRUE
  /\ attempt = [r \in Runs |-> 1]
  /\ completed = {}
  /\ status = [s \in Suites |-> "absent"]
  /\ files = [s \in Suites |-> None]
  /\ mode \in Modes
  /\ summaries = [s \in Suites |-> [a \in Attempts |-> None]]
  /\ manifest = NoManifest
  /\ requests = {}
  /\ results = [c \in Commands |-> "none"]
  /\ pc = [c \in Commands |-> "idle"]
  /\ asked = [c \in Commands |-> None]
  /\ view = [c \in Commands |-> [s \in Suites |-> "absent"]]
  /\ pins = [c \in Commands |-> [r \in Runs |-> None]]
  /\ known = [c \in Commands |-> [r \in Runs |-> <<None, FALSE>>]]
  /\ outcome = [c \in Commands |-> [s \in Suites |-> "unknown"]]
  /\ late = {}

GoTo(c, phase) == pc' = [pc EXCEPT ![c] = phase]

-----------------------------------------------------------------------------
(* GitHub, the producer and the author of the pull request *)

\* A status reports that the suite is on its way in the newest attempt.
Announce(s) ==
  /\ RunOf[s] \notin completed
  /\ files[s] # attempt[RunOf[s]]
  /\ status[s] # "pending"
  /\ status' = [status EXCEPT ![s] = "pending"]
  /\ UNCHANGED <<atHead, attempt, completed, files, root, memory>>

\* The newest attempt uploads a suite's files over the older ones.
Upload(s) ==
  /\ RunOf[s] \notin completed
  /\ files[s] # attempt[RunOf[s]]
  /\ files' = [files EXCEPT ![s] = attempt[RunOf[s]]]
  /\ UNCHANGED <<atHead, attempt, completed, status, root, memory>>

Report(s) ==
  /\ RunOf[s] \notin completed
  /\ files[s] = attempt[RunOf[s]]
  /\ status[s] # "terminal"
  /\ status' = [status EXCEPT ![s] = "terminal"]
  /\ UNCHANGED <<atHead, attempt, completed, files, root, memory>>

\* A run completes after all of its suites, each of which ran again.
Complete(r) ==
  /\ r \notin completed
  /\ \A s \in Suites : RunOf[s] = r => /\ files[s] = attempt[r]
                                      /\ status[s] = "terminal"
  /\ completed' = completed \cup {r}
  /\ UNCHANGED <<atHead, attempt, status, files, root, memory>>

\* Someone re-runs it; the statuses of the attempt before are still there.
Rerun(r) ==
  /\ r \in completed
  /\ attempt[r] < MaxAttempt
  /\ attempt' = [attempt EXCEPT ![r] = @ + 1]
  /\ completed' = completed \ {r}
  /\ UNCHANGED <<atHead, status, files, root, memory>>

\* The author pushes; nobody pushes the selected commit again.
MoveHead ==
  /\ mode = "pr"
  /\ atHead
  /\ atHead' = FALSE
  /\ UNCHANGED <<attempt, completed, status, files, root, memory>>

Environment ==
  \/ \E s \in Suites : Announce(s) \/ Upload(s) \/ Report(s)
  \/ \E r \in Runs : Complete(r) \/ Rerun(r)
  \/ MoveHead

-----------------------------------------------------------------------------
(* Selection *)

\* `collect`: take a status snapshot of the pull request.
Snapshot(c) ==
  IF atHead
  THEN /\ view' = [view EXCEPT ![c] = status]
       /\ GoTo(c, "waiting")
  ELSE /\ GoTo(c, "failed")
       /\ UNCHANGED view

StartPr(c) ==
  /\ mode = "pr"
  /\ pc[c] = "idle"
  /\ Snapshot(c)
  /\ UNCHANGED <<github, root, asked, pins, known, outcome, late>>

AllTerminal(c) == \A s \in Suites : view[c][s] = "terminal"

\* --wait: sleep, then look again.
Poll(c) ==
  /\ pc[c] = "waiting"
  /\ ~AllTerminal(c)
  /\ Snapshot(c)
  /\ UNCHANGED <<github, root, asked, pins, known, outcome, late>>

\* No --wait, all suites terminal, or the deadline has passed.
StopWaiting(c) ==
  /\ pc[c] = "waiting"
  /\ GoTo(c, "selected")
  /\ UNCHANGED <<github, root, asked, view, pins, known, outcome, late>>

\* `collect-commit` reads the statuses of the commit, ...
StartCommit(c) ==
  /\ mode = "commit"
  /\ pc[c] = "idle"
  /\ view' = [view EXCEPT ![c] = status]
  /\ GoTo(c, "linking")
  /\ UNCHANGED <<github, root, asked, pins, known, outcome, late>>

\* What a run record makes of a suite's linked status.
\* Faulty variant: the status alone decides.
LinkedState(c, s) == view[c][s]
SuiteState(c, s) ==
  IF view[c][s] # "absent" /\ RunOf[s] \notin completed THEN "pending"
                                                         ELSE view[c][s]

\* The runs that the statuses of its snapshot link to.
Linked(c) == {RunOf[s] : s \in {x \in Suites : view[c][x] # "absent"}}
Load(r) == <<attempt[r], r \in completed>>

\* ... and then the records of the runs they link to.
Link(c) ==
  /\ pc[c] = "linking"
  /\ view' = [view EXCEPT ![c] = [s \in Suites |-> SuiteState(c, s)]]
  /\ known' = [known EXCEPT ![c] = [r \in Runs |->
                 IF r \in Linked(c) THEN Load(r) ELSE <<None, FALSE>>]]
  /\ GoTo(c, "selected")
  /\ UNCHANGED <<github, root, asked, pins, outcome, late>>

\* `collect-commit --run-id r --attempt a`: no status counts.
StartExplicit(c) ==
  /\ Explicit /\ mode = "commit"
  /\ pc[c] = "idle"
  /\ \E r \in Runs, a \in Attempts :
       /\ a <= attempt[r]
       /\ asked' = [asked EXCEPT ![c] = a]
       /\ view' = [view EXCEPT ![c] = [s \in Suites |->
                     IF a = attempt[r] /\ r \notin completed
                     THEN "pending" ELSE "terminal"]]
       /\ known' = [known EXCEPT ![c][r] = Load(r)]
  /\ GoTo(c, "selected")
  /\ UNCHANGED <<github, root, pins, outcome, late>>

\* A command fails before it has an observation: GitHub does not answer, ...
NotSelected(c) ==
  /\ pc[c] \in {"idle", "waiting", "linking", "selected"}
  /\ GoTo(c, "failed")
  /\ UNCHANGED <<github, root, asked, view, pins, known, outcome, late>>

\* CollectionObservation::begin.  Faulty variant: it only makes a directory.
NoRequest(c) == requests
Requested(c) == requests \cup {c}

Observe(c) ==
  /\ pc[c] = "selected"
  /\ requests' = Requested(c)
  /\ GoTo(c, "pinning")
  /\ UNCHANGED <<github, mode, summaries, manifest, results, asked, view, pins,
                 known, outcome, late>>

-----------------------------------------------------------------------------
(* Collection *)

\* pin_execution, for every run some suite of the snapshot links to.  A run
\* GitHub does not answer for stays without a pin.
Pin(c) ==
  /\ pc[c] = "pinning"
  /\ IF mode = "pr"
     THEN \E R \in SUBSET Linked(c) :
            pins' = [pins EXCEPT ![c] = [r \in Runs |->
                       IF r \in R THEN attempt[r] ELSE None]]
     ELSE pins' = [pins EXCEPT ![c] = [r \in Runs |->
                     IF r \notin Linked(c) THEN None
                     ELSE IF asked[c] # None THEN asked[c]
                     ELSE known[c][r][1]]]
  /\ GoTo(c, "collecting")
  /\ UNCHANGED <<github, root, asked, view, known, outcome, late>>

Ends(c, s, o) == outcome' = [outcome EXCEPT ![c][s] = o]

Pinned(c, s) == pins[c][RunOf[s]]

\* is_old_attempt: only local evidence will do.
IsOld(c, s) == asked[c] # None /\ asked[c] < known[c][RunOf[s]][1]

Collecting(c, s) == pc[c] = "collecting" /\ outcome[c][s] = "unknown"

\* select_suite without a download
Skip(c, s) ==
  /\ Collecting(c, s)
  /\ \/ view[c][s] = "absent" /\ Ends(c, s, "not_observed")
     \/ /\ view[c][s] # "absent"
        /\ Pinned(c, s) = None
        /\ Ends(c, s, "failed")
     \/ /\ view[c][s] = "pending"
        /\ Pinned(c, s) # None
        /\ Ends(c, s, "running")
  /\ UNCHANGED <<github, root, pc, asked, view, pins, known, late>>

\* collect_suite finds validated evidence on disk.
Reuse(c, s) ==
  /\ Collecting(c, s)
  /\ view[c][s] = "terminal"
  /\ Pinned(c, s) # None
  /\ summaries[s][Pinned(c, s)] # None
  /\ Ends(c, s, "completed")
  /\ UNCHANGED <<github, root, pc, asked, view, pins, known, late>>

\* The jobs of the attempt include "collect", whose log names the evidence
\* server; GitHub lists it when the jobs it needs have uploaded everything.
\* Faulty variant: the collect job of an earlier attempt will do.
AnyCollectJob(r, a) == TRUE
CollectJob(r, a) ==
  \/ a < attempt[r]
  \/ \A s \in Suites : RunOf[s] = r => files[s] = a

\* collect_suite downloads and validates what the server has now.
Fetch(c, s) ==
  /\ Collecting(c, s)
  /\ view[c][s] = "terminal"
  /\ Pinned(c, s) # None
  /\ ~IsOld(c, s)
  /\ CollectJob(RunOf[s], Pinned(c, s))
  /\ summaries[s][Pinned(c, s)] = None
  /\ files[s] # None
  /\ summaries' = [summaries EXCEPT ![s][Pinned(c, s)] = files[s]]
  /\ Ends(c, s, "completed")
  /\ late' = IF atHead THEN late ELSE late \cup {c}
  /\ UNCHANGED <<github, mode, manifest, requests, results, pc, asked, view, pins,
                 known>>

\* Old and not on disk, or collect_suite fails for any of its reasons.
FetchFails(c, s) ==
  /\ Collecting(c, s)
  /\ view[c][s] = "terminal"
  /\ Pinned(c, s) # None
  /\ Ends(c, s, "failed")
  /\ UNCHANGED <<github, root, pc, asked, view, pins, known, late>>

\* Every suite has its result.
Collected(c) ==
  /\ pc[c] = "collecting"
  /\ \A s \in Suites : outcome[c][s] # "unknown"
  /\ GoTo(c, "collected")
  /\ UNCHANGED <<github, root, asked, view, pins, known, outcome, late>>

-----------------------------------------------------------------------------
(* Publication of the command's result *)

\* verify_pr_head and verify_runs.  Faulty variant: nothing is looked at again.
Trusts(c) == TRUE
Unchanged(c) ==
  /\ mode = "pr" => atHead
  /\ mode = "commit" =>
       \A r \in Runs : known[c][r][1] # None => known[c][r] = Load(r)

Verify(c) ==
  /\ pc[c] = "collected"
  /\ \/ Unchanged(c) /\ GoTo(c, "verified")
     \/ GoTo(c, "refused")
  /\ UNCHANGED <<github, root, asked, view, pins, known, outcome, late>>

\* The executions a result selects, those with a summary.
\* Faulty variant: every execution it pinned.
EveryPin(c, s) == Pinned(c, s)
Selected(c, s) == IF outcome[c][s] = "completed" THEN Pinned(c, s) ELSE None

\* manifest.json is replaced atomically; a failure may come after the rename.
WriteManifest(c) ==
  /\ pc[c] = "verified"
  /\ \/ /\ manifest' = [by |-> c,
                        suites |-> [s \in Suites |-> Selected(c, s)]]
        /\ pc' \in {[pc EXCEPT ![c] = p] : p \in {"written", "refused"}}
     \/ /\ UNCHANGED manifest
        /\ GoTo(c, "refused")
  /\ UNCHANGED <<github, mode, summaries, requests, results, asked, view, pins,
                 known, outcome, late>>

\* Where a command that could not publish records that.
\* Faulty variant: only a manifest that cannot be written is recorded.
ForgetsRefusal(c) == manifest.by = c
RecordsRefusal(c) == TRUE

\* finish and finish_error
Finish(c) ==
  /\ \/ /\ pc[c] = "written"
        /\ results' = [results EXCEPT ![c] =
             IF \A s \in Suites : outcome[c][s] = "completed"
             THEN "complete" ELSE "incomplete"]
        /\ GoTo(c, "done")
     \/ /\ pc[c] = "refused"
        /\ results' = IF RecordsRefusal(c)
                      THEN [results EXCEPT ![c] = "failed"] ELSE results
        /\ GoTo(c, "failed")
  /\ UNCHANGED <<github, mode, summaries, manifest, requests, asked, view, pins,
                 known, outcome, late>>

\* Killed, or the observation itself cannot be written.
Crash(c) ==
  /\ pc[c] \notin {"idle"} \cup Ended
  /\ GoTo(c, "crashed")
  /\ UNCHANGED <<github, root, asked, view, pins, known, outcome, late>>

-----------------------------------------------------------------------------
Start(c) == StartPr(c) \/ StartCommit(c) \/ StartExplicit(c)

Continue(c) ==
  \/ StopWaiting(c)
  \/ Link(c)
  \/ Observe(c)
  \/ Pin(c)
  \/ \E s \in Suites : Skip(c, s) \/ Reuse(c, s) \/ Fetch(c, s) \/ FetchFails(c, s)
  \/ Collected(c)
  \/ Verify(c)
  \/ WriteManifest(c)
  \/ Finish(c)

Next ==
  \/ Environment
  \/ \E c \in Commands :
       Start(c) \/ Poll(c) \/ NotSelected(c) \/ Continue(c) \/ Crash(c)

Spec == Init /\ [][Next]_vars

-----------------------------------------------------------------------------
(* Properties *)

(* manifest.json never selects a suite execution whose summary is not on    *)
(* disk, whoever wrote it and whatever else was collected or killed.        *)
ManifestSelectsPublished ==
  \A s \in Suites :
    manifest.suites[s] # None => summaries[s][manifest.suites[s]] # None

(* When collect-commit followed the commit's links, the attempt that its    *)
(* manifest names for a suite is the one the evidence comes from, although  *)
(* files are not addressed by attempt and runs are re-run meanwhile.        *)
ManifestNamesItsAttempt ==
  mode = "commit" => \A s \in Suites :
    LET a == manifest.suites[s] IN
      a # None /\ asked[manifest.by] = None => summaries[s][a] = a

(* Evidence may be newer than the attempt it is filed under, when the run   *)
(* is re-run during the collection, but it is never older: what the attempt *)
(* before left on the server, under terminal statuses that are still there, *)
(* is not taken for the new attempt's.                                      *)
EvidenceIsNeverOlder ==
  \A s \in Suites, a \in Attempts :
    summaries[s][a] # None => summaries[s][a] >= a

(* collect-commit only selects executions that have completed: a re-run that *)
(* has begun makes its suites pending whatever their statuses say.          *)
ManifestSelectsCompleted ==
  mode = "commit" => \A s \in Suites :
    LET a == manifest.suites[s] IN
      a # None => a < attempt[RunOf[s]] \/ RunOf[s] \in completed

(* README: cached evidence never falls back to current files labeled as the *)
(* old attempt.  A command that was asked for an old attempt ends with      *)
(* evidence of that attempt.                                                *)
OldAttemptIsItsOwn ==
  \A c \in Commands, s \in Suites :
    outcome[c][s] = "completed" /\ IsOld(c, s)
      => summaries[s][asked[c]] = asked[c]

(* README: a request without a result identifies an interrupted local       *)
(* collection, and nothing else.                                            *)
NoResultMeansInterrupted ==
  \A c \in requests :
    pc[c] \in Ended /\ results[c] = "none" => pc[c] = "crashed"

(* A pull request's manifest is only ever written by a command whose        *)
(* downloads all happened while the selected commit was the head.           *)
ManifestOfTheHead == manifest.by \notin late
=============================================================================
