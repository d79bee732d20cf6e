----------------------------- MODULE RerunLineage -----------------------------
(***************************************************************************)
(* Reruns of one suite: runs that execute only part of the cases, or none, *)
(* and stand on the evidence of another run.                               *)
(*                                                                         *)
(* collect_suite reads in the run's log which run it reran, pins that      *)
(* run's attempt in raw/github/rerun-source.json, and collects it first,   *)
(* by calling itself; so a collector is a stack of frames.  A summary that *)
(* is reused has its source validated in the same way.  Meanwhile any run  *)
(* may be re-run on GitHub: it keeps its id and its creation time, gets    *)
(* another attempt, and overwrites its files on the evidence server.       *)
(*                                                                         *)
(* The files of one execution are two here: the plan, read before the      *)
(* source is collected, and the rest, read after it.  EvidenceStore models *)
(* how they are retained.                                                  *)
(***************************************************************************)
EXTENDS Naturals, Sequences

CONSTANTS
  Collectors,   \* invocations that collect one run's suite; each runs once
  Runs,         \* the GitHub Actions runs
  SourceOf,     \* the run that RERUN_FROM names in a run's log, or NoRun
  NoRun,
  Uploads,      \* what a run may upload: carried or own evidence, a verdict
  Restarted,    \* bound: the runs that are re-run
  MaxAttempt,   \* bound: attempts of one run
  MaxTime,      \* bound: the clock, in the unit of GitHub's timestamps
  MaxLineage    \* 32 in the code

ASSUME LineageAssumption ==
  /\ NoRun \notin Runs
  /\ SourceOf \in [Runs -> Runs \cup {NoRun}]
  /\ \A r \in Runs : \A u \in Uploads[r] :
       /\ u.verdict \in {"pass", "fail"}
       /\ u.carried => SourceOf[r] # NoRun
  /\ Restarted \subseteq Runs
  /\ MaxAttempt \in Nat \ {0}
  /\ MaxTime \in Nat
  /\ MaxLineage \in Nat \ {0}

Attempts   == 1 .. MaxAttempt
None       == 0      \* no attempt; nothing on disk
Executions == Runs \X Attempts

\* A run as GitHub describes it.
Records  == [attempt : Attempts, completed : BOOLEAN, updated : 0 .. MaxTime]
NoRecord == [attempt |-> None]

\* A summary stands for its bytes, and so for its digest: a link holds the
\* summary it names.
NoLink    == [mode |-> "none"]
NoSummary == [verdict |-> "none", link |-> NoLink]

VARIABLES
  \* GitHub and the evidence server
  clock,
  created,     \* when each run was created; the runs that exist
  record,      \* the record of each run that exists
  basis,       \* the newest attempt of its source when an execution began
  content,     \* what an execution uploads: of its own or carried, a verdict
  files,       \* the attempt whose files the server holds of each run
  \* runs/<run>/attempts/<attempt>/<suite>/
  runFile,     \* raw/github/run.json
  pin,         \* raw/github/rerun-source.json
  plan,        \* raw/plan/: the attempt it comes from
  rest,        \* the other raw files: the attempt they come from
  summary,     \* summary.json
  nested,      \* was the summary published for a rerun of it?
  \* each collector
  stack,       \* its frames, the innermost one last
  found,       \* was there a summary of its run when it started?
  answer       \* how it ended

github    == <<clock, created, record, basis, content, files>>
directory == <<runFile, pin, plan, rest, summary, nested>>
memory    == <<stack, found, answer>>
vars      == <<github, directory, memory>>

Answers == {"none", "collected", "failed"}
Stages  == {"enter", "validate", "describe", "plan", "source", "rest",
            "recheck", "publish", "return"}

TypeOK ==
  /\ clock \in 0 .. MaxTime
  /\ DOMAIN created \subseteq Runs
  /\ \A r \in DOMAIN created : created[r] \in 0 .. clock
  /\ DOMAIN record = DOMAIN created
  /\ \A r \in DOMAIN record : record[r] \in Records
  /\ basis \in [Executions -> {None} \cup Attempts]
  /\ DOMAIN content \subseteq Executions
  /\ \A e \in DOMAIN content : content[e] \in Uploads[e[1]]
  /\ files \in [Runs -> {None} \cup Attempts]
  /\ \A e \in Executions :
       /\ runFile[e] \in Records \cup {NoRecord}
       /\ pin[e] \in Records \cup {NoRecord}
       /\ {plan[e], rest[e]} \subseteq {None} \cup Attempts
       \* nothing is published whose files are not retained
       /\ summary[e] # NoSummary =>
            /\ plan[e] # None /\ rest[e] # None
            /\ summary[e].link # NoLink => pin[e] # NoRecord
  /\ nested \subseteq Executions
  /\ \A c \in Collectors : \A i \in DOMAIN stack[c] :
       /\ stack[c][i].run \in Runs
       /\ stack[c][i].rec \in Records
       /\ stack[c][i].stage \in Stages
       \* a source is pinned before it is collected
       /\ i < Len(stack[c]) =>
            pin[<<stack[c][i].run, stack[c][i].rec.attempt>>] = stack[c][i + 1].rec
  /\ found \in [Collectors -> BOOLEAN]
  /\ answer \in [Collectors -> Answers]

Init ==
  /\ clock = 0
  /\ created = <<>> /\ record = <<>>
  /\ basis = [e \in Executions |-> None]
  /\ content = <<>>
  /\ files = [r \in Runs |-> None]
  /\ runFile = [e \in Executions |-> NoRecord]
  /\ pin = [e \in Executions |-> NoRecord]
  /\ plan = [e \in Executions |-> None]
  /\ rest = [e \in Executions |-> None]
  /\ summary = [e \in Executions |-> NoSummary]
  /\ nested = {}
  /\ stack = [c \in Collectors |-> <<>>]
  /\ found = [c \in Collectors |-> FALSE]
  /\ answer = [c \in Collectors |-> "none"]

With(f, x, v) == [y \in DOMAIN f \cup {x} |-> IF y = x THEN v ELSE f[y]]

Exists(r) == r \in DOMAIN record

-----------------------------------------------------------------------------
(* GitHub, CI and the people who start runs *)

Tick ==
  /\ clock < MaxTime
  /\ clock' = clock + 1
  /\ UNCHANGED <<created, record, basis, content, files, directory, memory>>

\* The newest attempt of r's source, on which an attempt of r stands.
BasisNow(r) ==
  IF SourceOf[r] = NoRun THEN None ELSE record[SourceOf[r]].attempt

\* The plan of a rerun is made from the files of its source.
Create(r) ==
  /\ ~Exists(r)
  /\ SourceOf[r] # NoRun => files[SourceOf[r]] # None
  /\ created' = With(created, r, clock)
  /\ record' = With(record, r,
                 [attempt |-> 1, completed |-> FALSE, updated |-> clock])
  /\ basis' = [basis EXCEPT ![<<r, 1>>] = BasisNow(r)]
  /\ UNCHANGED <<clock, content, files, directory, memory>>

\* The running attempt uploads its files over those of the one before.
Upload(r) ==
  /\ Exists(r)
  /\ ~record[r].completed
  /\ files[r] # record[r].attempt
  /\ \E upload \in Uploads[r] :
       content' = With(content, <<r, record[r].attempt>>, upload)
  /\ files' = [files EXCEPT ![r] = record[r].attempt]
  /\ UNCHANGED <<clock, created, record, basis, directory, memory>>

\* An attempt takes at least a tick.
Complete(r) ==
  /\ Exists(r)
  /\ ~record[r].completed
  /\ files[r] = record[r].attempt
  /\ record[r].updated < clock
  /\ record' = [record EXCEPT ![r].completed = TRUE, ![r].updated = clock]
  /\ UNCHANGED <<clock, created, basis, content, files, directory, memory>>

Rerun(r) ==
  /\ Exists(r)
  /\ record[r].completed
  /\ r \in Restarted /\ record[r].attempt < MaxAttempt
  /\ record' = [record EXCEPT ![r] =
       [attempt |-> @.attempt + 1, completed |-> FALSE, updated |-> clock]]
  /\ basis' = [basis EXCEPT ![<<r, record[r].attempt + 1>>] = BasisNow(r)]
  /\ UNCHANGED <<clock, created, content, files, directory, memory>>

Environment ==
  \/ Tick
  \/ \E r \in Runs : Create(r) \/ Upload(r) \/ Complete(r) \/ Rerun(r)

-----------------------------------------------------------------------------
(* The stack of a collector *)

Frame(r, rec) ==
  [run |-> r, rec |-> rec, stage |-> "enter", link |-> NoLink,
   result |-> NoSummary]

Depth(c)   == Len(stack[c])
Top(c)     == stack[c][Depth(c)]
Run(c)     == Top(c).run
This(c)    == <<Run(c), Top(c).rec.attempt>>
Lineage(c) == {stack[c][i].run : i \in 1 .. Depth(c) - 1}
At(c, stage) == stack[c] # <<>> /\ Top(c).stage = stage

Become(c, frame) == stack' = [stack EXCEPT ![c][Depth(c)] = frame]
GoTo(c, stage)   == Become(c, [Top(c) EXCEPT !.stage = stage])

\* An error unwinds the whole stack, whether records contradict each other or
\* something is not to be had.  Nothing on disk changes; a kill looks the same,
\* and after every write there is a step that may fail.
Ends(c, a) ==
  /\ stack' = [stack EXCEPT ![c] = <<>>]
  /\ answer' = [answer EXCEPT ![c] = a]

\* select_suite pins the attempt of a run and collects it.
Start(c) ==
  /\ stack[c] = <<>> /\ answer[c] = "none"
  /\ \E r \in DOMAIN record :
       /\ stack' = [stack EXCEPT ![c] = <<Frame(r, record[r])>>]
       /\ found' = [found EXCEPT ![c] =
            summary[<<r, record[r].attempt>>] # NoSummary]
  /\ UNCHANGED <<github, directory, answer>>

\* Faulty variant: a lineage of any length.
AnyLength(c) == Run(c) \notin Lineage(c)
MayEnter(c) == Run(c) \notin Lineage(c) /\ Depth(c) <= MaxLineage

\* collect_suite begins: reuse a summary or make one.
Enter(c) ==
  /\ At(c, "enter")
  /\ \/ ~MayEnter(c) /\ Ends(c, "failed")
     \/ /\ MayEnter(c)
        /\ GoTo(c, IF summary[This(c)] = NoSummary THEN "describe"
                   ELSE IF summary[This(c)].link = NoLink THEN "return"
                   ELSE "validate")
        /\ UNCHANGED answer
  /\ UNCHANGED <<github, directory, found>>

\* Its own job "collect" is listed once an attempt has uploaded everything.
CollectJob(e) ==
  e[2] < record[e[1]].attempt \/ files[e[1]] = e[2]

\* Retain run.json, then load the jobs and the log of the attempt.
Describe(c) ==
  /\ At(c, "describe")
  /\ \/ /\ runFile[This(c)] \in {NoRecord, Top(c).rec}
        /\ runFile' = [runFile EXCEPT ![This(c)] = Top(c).rec]
        /\ \/ CollectJob(This(c)) /\ GoTo(c, "plan") /\ UNCHANGED answer
           \/ Ends(c, "failed")
     \/ /\ runFile[This(c)] \notin {NoRecord, Top(c).rec}
        /\ Ends(c, "failed")
        /\ UNCHANGED runFile
  /\ UNCHANGED <<github, pin, plan, rest, summary, nested, found>>

\* A file that is retained is read again, otherwise the server's is fetched.
Fetched(kept, r) == IF kept # None THEN kept ELSE files[r]

ReadPlan(c) ==
  /\ At(c, "plan")
  /\ \/ /\ Fetched(plan[This(c)], Run(c)) # None
        /\ plan' = [plan EXCEPT ![This(c)] = Fetched(@, Run(c))]
        /\ GoTo(c, IF SourceOf[Run(c)] = NoRun THEN "rest" ELSE "source")
        /\ UNCHANGED answer
     \/ Ends(c, "failed") /\ UNCHANGED plan
  /\ UNCHANGED <<github, runFile, pin, rest, summary, nested, found>>

-----------------------------------------------------------------------------
(* collect_rerun_source, also called to validate a summary's link *)

\* Faulty variant: ask GitHub each time.
PinnedAnew(c) == record[SourceOf[Run(c)]]
PinnedSource(c) ==
  IF pin[This(c)] # NoRecord THEN pin[This(c)] ELSE record[SourceOf[Run(c)]]

\* Is it certain that the rerun stands on this attempt of its source?
\* Faulty variant: every completed attempt will do.
AnyCompleted(rec, r) == rec.completed
Established(rec, r) == rec.completed /\ rec.updated <= created[r]

\* Faulty variant: what GitHub said is not kept.
NotRetained(c, rec) == pin
Retained(c, rec) == [pin EXCEPT ![This(c)] = rec]

PinSource(c) ==
  /\ At(c, "source") \/ At(c, "validate")
  /\ LET s == SourceOf[Run(c)] IN
       \/ /\ s \in Lineage(c) \cup {Run(c)}
          /\ Ends(c, "failed")
          /\ UNCHANGED pin
       \/ /\ s \notin Lineage(c) \cup {Run(c)}
          /\ LET rec == PinnedSource(c) IN
               /\ pin' = Retained(c, rec)
               /\ \/ /\ Established(rec, Run(c))
                     /\ stack' = [stack EXCEPT ![c] = Append(@, Frame(s, rec))]
                     /\ UNCHANGED answer
                  \/ ~Established(rec, Run(c)) /\ Ends(c, "failed")
  /\ UNCHANGED <<github, runFile, plan, rest, summary, nested, found>>

\* GitHub does not answer.
NoSource(c) ==
  /\ At(c, "source") \/ At(c, "validate")
  /\ pin[This(c)] = NoRecord
  /\ Ends(c, "failed")
  /\ UNCHANGED <<github, directory, found>>

\* The reference to the source that was just collected.
\* Faulty variant: it names the source's newest attempt.
LinkToNewest(r, e, mode) ==
  [mode |-> mode, attempt |-> record[r].attempt, summary |-> summary[e]]
LinkTo(r, e, mode) ==
  [mode |-> mode, attempt |-> e[2], summary |-> summary[e]]

\* A frame returns its summary to the one below.
Return(c) ==
  /\ At(c, "return")
  /\ \/ /\ Depth(c) = 1
        /\ Ends(c, "collected")
     \/ /\ Depth(c) > 1
        /\ LET below == stack[c][Depth(c) - 1]
               e     == <<below.run, below.rec.attempt>>
               link  == LinkTo(Run(c), This(c), "partial")
               Pop(frame) == stack' = [stack EXCEPT ![c] =
                               Append(SubSeq(@, 1, Len(@) - 2), frame)]
           IN
             \/ /\ below.stage = "source"
                /\ Pop([below EXCEPT !.stage = "rest", !.link = link])
                /\ UNCHANGED answer
             \/ /\ below.stage = "validate"
                /\ summary[e].link = [link EXCEPT !.mode = summary[e].link.mode]
                /\ Pop([below EXCEPT !.stage = "return"])
                /\ UNCHANGED answer
             \* the plans' revisions disagree
             \/ below.stage = "source" /\ Ends(c, "failed")
             \/ /\ below.stage = "validate"
                /\ summary[e].link # [link EXCEPT !.mode = summary[e].link.mode]
                /\ Ends(c, "failed")
  /\ UNCHANGED <<github, directory, found>>

-----------------------------------------------------------------------------
(* The rest of collect_suite, and publish_summary *)

\* What the records say once they are reconciled.
Result(frame, p, q) ==
  [verdict |-> content[<<frame.run, q>>].verdict,
   link |-> IF content[<<frame.run, p>>].carried
            THEN [frame.link EXCEPT !.mode = "carried_forward"]
            ELSE frame.link]

\* A rerun without cases has the verdict of its source.
\* Faulty variant: whatever verdict it has.
AnyVerdict(m) == TRUE
VerdictAgrees(m) ==
  m.link.mode = "carried_forward" => m.verdict = m.link.summary.verdict

ReadRest(c) ==
  /\ At(c, "rest")
  /\ \/ /\ Fetched(rest[This(c)], Run(c)) # None
        /\ rest' = [rest EXCEPT ![This(c)] = Fetched(@, Run(c))]
        /\ LET m == Result(Top(c), plan[This(c)], rest'[This(c)]) IN
             \/ /\ VerdictAgrees(m)
                /\ Become(c, [Top(c) EXCEPT !.stage = "recheck", !.result = m])
                /\ UNCHANGED answer
             \/ ~VerdictAgrees(m) /\ Ends(c, "failed")
     \/ Ends(c, "failed") /\ UNCHANGED rest
  /\ UNCHANGED <<github, runFile, pin, plan, summary, nested, found>>

\* A source must not have been re-run since it was pinned.
\* Faulty variant: nothing is looked at again.
Trusted(r, rec) == TRUE
StillPinned(r, rec) == record[r] = rec /\ rec.completed

Recheck(c) ==
  /\ At(c, "recheck")
  /\ \/ /\ Depth(c) = 1 \/ StillPinned(Run(c), Top(c).rec)
        /\ GoTo(c, "publish")
        /\ UNCHANGED answer
     \/ Depth(c) > 1 /\ Ends(c, "failed")
  /\ UNCHANGED <<github, directory, found>>

Publish(c) ==
  /\ At(c, "publish")
  /\ \/ /\ summary[This(c)] = NoSummary
        /\ summary' = [summary EXCEPT ![This(c)] = Top(c).result]
        /\ nested' = IF Depth(c) > 1 THEN nested \cup {This(c)} ELSE nested
        /\ GoTo(c, "return")
        /\ UNCHANGED answer
     \/ /\ summary[This(c)] = Top(c).result
        /\ GoTo(c, "return")
        /\ UNCHANGED <<summary, nested, answer>>
     \/ /\ summary[This(c)] \notin {NoSummary, Top(c).result}
        /\ Ends(c, "failed")
        /\ UNCHANGED <<summary, nested>>
  /\ UNCHANGED <<github, runFile, pin, plan, rest, found>>

-----------------------------------------------------------------------------
Collect(c) ==
  \/ Start(c) \/ Enter(c) \/ Describe(c) \/ ReadPlan(c)
  \/ PinSource(c) \/ NoSource(c) \/ Return(c)
  \/ ReadRest(c) \/ Recheck(c) \/ Publish(c)

Next == Environment \/ \E c \in Collectors : Collect(c)

Spec == Init /\ [][Next]_vars

-----------------------------------------------------------------------------
(* Properties *)

Published(e) == summary[e] # NoSummary
Source(e)    == <<SourceOf[e[1]], summary[e].link.attempt>>
IsRerun(e)   == Published(e) /\ summary[e].link # NoLink

(* The attempt of the source that a rerun's summary names, or that a        *)
(* collector is about to make its evidence, is the very one that was newest *)
(* when this attempt of the rerun began, however often both runs were       *)
(* re-run before, between and during their collections.                     *)
StandsOnItsBasis ==
  /\ \A e \in Executions :
       IsRerun(e) => summary[e].link.attempt = basis[e]
  /\ \A c \in Collectors : \A i \in 1 .. Depth(c) - 1 :
       stack[c][i + 1].rec.attempt
         = basis[<<stack[c][i].run, stack[c][i].rec.attempt>>]

(* The link of a published rerun leads to a published summary with the      *)
(* digest it records, and a verdict that is carried forward is the one that *)
(* summary reached; so every verdict rests on cases that were executed.     *)
VerdictRestsOnSource ==
  \A e \in Executions : IsRerun(e) =>
    /\ summary[Source(e)] = summary[e].link.summary
    /\ summary[e].link.mode = "carried_forward"
         => summary[e].verdict = summary[Source(e)].verdict

(* What is published as the source of a rerun is evidence of the pinned     *)
(* attempt only, though files are addressed by run, were perhaps retained   *)
(* by other collectors before, and the source may be re-run at any time.    *)
SourceEvidenceIsPinned ==
  \A e \in nested : plan[e] = e[2] /\ rest[e] = e[2]

(* ADR 0011: an existing suite summary is reused without network            *)
(* acquisition.  Whoever asks for a published rerun again gets it, whatever *)
(* became of its sources on GitHub.                                         *)
PublishedRerunStays ==
  \A c \in Collectors : found[c] => answer[c] # "failed"

(* However long a chain of reruns the logs describe, a collector never      *)
(* works on the same run twice nor on more runs than the limit.             *)
LineageIsBounded ==
  \A c \in Collectors :
    LET inside == {i \in DOMAIN stack[c] : stack[c][i].stage # "enter"} IN
      /\ inside \subseteq 1 .. MaxLineage
      /\ \A i, j \in inside : stack[c][i].run = stack[c][j].run => i = j
=============================================================================
