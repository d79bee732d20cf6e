------------------------------- MODULE Selection -------------------------------
(***************************************************************************)
(* How a command chooses what to collect from what CI reports about a      *)
(* commit.  `collect --wait` looks at the current statuses until all       *)
(* suites are terminal or its deadline has passed.  `collect-commit` reads *)
(* the statuses and then the check runs, and follows for each suite the    *)
(* newest run that reported it; `collect-base` does the same, once it has  *)
(* found the commit (BaseResolution).                                      *)
(*                                                                         *)
(* Reports come from several runs and through two sources, in any order:   *)
(* a run that was superseded may report last.  The two commands look at    *)
(* GitHub in different ways: the one through cubrid-pr-status, which says  *)
(* what is current, the other at every report.  They do not meet, so there *)
(* is one of them; Collection models what they do afterwards.              *)
(***************************************************************************)
EXTENDS Naturals, FiniteSetsExt, BaseResolution

CONSTANTS
  Suites,       \* the requested suites
  Reporters,    \* <<source, suite, run>>: where reports come from
  Kinds,        \* the commands: some of "collect", "collect-commit" and "collect-base"
  Timeout,      \* --timeout
  PollInterval, \* --poll-interval
  LookTime,     \* bound: how long a look at the statuses takes
  MaxTime,      \* bound: the clock of a command that waits
  MaxReportTime \* bound: the clock of one that does not

Sources == {"check_run", "commit_status"}

ASSUME SelectionAssumption ==
  /\ IsFiniteSet(Reporters)
  /\ Reporters \subseteq Sources \X Suites \X (Nat \ {0})
  /\ Kinds \subseteq {"collect", "collect-commit", "collect-base"}
  /\ Timeout \in Nat
  /\ PollInterval \in Nat \ {0}
  /\ LookTime \in Nat
  /\ MaxTime \in Nat /\ MaxReportTime \in 0 .. MaxTime

Runs == {p[3] : p \in Reporters}
None == 0                       \* no run
Never == MaxTime + 1            \* later than any time

VARIABLES
  \* GitHub
  clock,
  reports,     \* the newest report through each reporter
  current,     \* the current state of each suite, as cubrid-pr-status sees it
  since,       \* since when it is terminal
  completed,   \* the completed runs
  \* the command
  kind,
  phase,
  deadline,
  wakeAt,      \* when its sleep ends
  lookedAt,    \* when it last took a snapshot
  view,        \* the state of each suite in its snapshot
  candidates,  \* the reporters and reports it found
  chosen,      \* the run it follows for each suite
  known        \* the newest run of each suite that had reported when it began

github  == <<clock, reports, current, since, completed>>
command == <<kind, phase, deadline, wakeAt, lookedAt, view, candidates, chosen, known>>
vars    == <<github, command, resolution>>

States  == {"absent", "pending", "terminal"}
Ended   == {"selected", "failed"}

TypeOK ==
  /\ BaseTypeOK
  /\ clock \in 0 .. MaxTime
  /\ \A p \in Reporters :
       /\ reports[p].state \in States
       /\ reports[p].at \in 0 .. clock
  /\ current \in [Suites -> States]
  /\ since \in [Suites -> 0 .. Never]
  /\ completed \subseteq Runs
  /\ kind \in Kinds
  /\ phase \in {"idle", "starting", "looking", "sleeping", "checks", "linking"} \cup Ended
  /\ deadline \in 0 .. MaxTime
  \* it sleeps until its next look or its deadline
  /\ phase = "sleeping" => wakeAt \in lookedAt .. deadline
  /\ lookedAt \in 0 .. clock
  /\ view \in [Suites -> States]
  /\ \A x \in candidates : x.from \in Reporters /\ x.state # "absent"
  /\ chosen \in [Suites -> {None} \cup Runs]
  /\ known \in [Suites -> {None} \cup Runs]

Init ==
  /\ kind \in Kinds
  /\ IF kind = "collect-base" THEN BaseInit ELSE NoResolution
  /\ clock = 0
  /\ reports = [p \in Reporters |-> [state |-> "absent", at |-> 0]]
  /\ current = [s \in Suites |-> "absent"]
  /\ since = [s \in Suites |-> Never]
  /\ completed = {}
  /\ phase = "idle"
  /\ deadline = 0 /\ wakeAt = 0 /\ lookedAt = 0
  /\ view = [s \in Suites |-> "absent"]
  /\ candidates = {}
  /\ chosen = [s \in Suites |-> None]
  /\ known = [s \in Suites |-> None]

-----------------------------------------------------------------------------
(* Time, GitHub and CI *)

\* What is reported of a commit before it is known makes no difference: it is
\* as if it were reported at once.
CommitKnown == kind = "collect-base" => step = "resolved"

Tick ==
  /\ CommitKnown
  /\ clock < IF kind = "collect" THEN MaxTime ELSE MaxReportTime
  /\ phase \in {"starting", "looking"} => clock < lookedAt + LookTime
  /\ clock' = clock + 1
  /\ UNCHANGED <<reports, current, since, completed, command, resolution>>

\* The current state of a suite changes, when another status is posted.
Post(s) ==
  /\ kind = "collect"
  /\ \E state \in {"pending", "terminal"} \ {current[s]} :
       /\ current' = [current EXCEPT ![s] = state]
       /\ since' = [since EXCEPT ![s] =
                      IF state = "terminal" THEN clock ELSE Never]
  /\ UNCHANGED <<clock, reports, completed, command, resolution>>

\* A suite is on its way in a run, then it has its result.
Report(p) ==
  /\ kind # "collect" /\ CommitKnown
  /\ reports[p].state # "terminal"
  /\ \E state \in {"pending", "terminal"} \ {reports[p].state} :
       reports' = [reports EXCEPT ![p] = [state |-> state, at |-> clock]]
  /\ UNCHANGED <<clock, current, since, completed, command, resolution>>

\* A run completes; what it reported may still arrive later.
Complete(r) ==
  /\ kind # "collect" /\ CommitKnown
  /\ r \notin completed
  /\ completed' = completed \cup {r}
  /\ UNCHANGED <<clock, reports, current, since, command, resolution>>

Environment ==
  \/ \E s \in Suites : Post(s)
  \/ \E p \in Reporters : Report(p)
  \/ \E r \in Runs : Complete(r)

-----------------------------------------------------------------------------
(* `collect --wait` *)

Snapshot == view' = current /\ lookedAt' = clock

StartWaiting ==
  /\ phase = "idle" /\ kind = "collect"
  /\ clock + LookTime + Timeout <= MaxTime
  /\ Snapshot
  /\ phase' = "starting"
  /\ UNCHANGED <<github, resolution, kind, deadline, wakeAt, candidates, chosen, known>>

\* The time starts to run after the first snapshot.
SetDeadline ==
  /\ phase = "starting"
  /\ deadline' = clock + Timeout
  /\ phase' = "looking"
  /\ UNCHANGED <<github, resolution, kind, wakeAt, lookedAt, view, candidates, chosen, known>>

AllTerminal == \A s \in Suites : view[s] = "terminal"

\* Faulty variants: give up when the next look would come too late; never.
NextLookTooLate == clock + PollInterval >= deadline
NoDeadline == FALSE
DeadlinePassed == clock >= deadline

StopWaiting ==
  /\ phase = "looking"
  /\ AllTerminal \/ DeadlinePassed
  /\ phase' = "selected"
  /\ UNCHANGED <<github, resolution, kind, deadline, wakeAt, lookedAt, view, candidates, chosen, known>>

\* Faulty variant: it sleeps the whole interval.
WholeInterval == clock + PollInterval
NextLook == Min({clock + PollInterval, deadline})

Sleep ==
  /\ phase = "looking"
  /\ ~AllTerminal /\ ~DeadlinePassed
  /\ wakeAt' = NextLook
  /\ phase' = "sleeping"
  /\ UNCHANGED <<github, resolution, kind, deadline, lookedAt, view, candidates, chosen, known>>

\* It wakes up, perhaps late, and looks again.
Wake ==
  /\ phase = "sleeping"
  /\ clock >= wakeAt
  /\ Snapshot
  /\ phase' = "looking"
  /\ UNCHANGED <<github, resolution, kind, deadline, wakeAt, candidates, chosen, known>>

-----------------------------------------------------------------------------
(* `collect-commit` *)

Reported(source) ==
  {[from |-> p, state |-> reports[p].state, at |-> reports[p].at] :
     p \in {q \in Reporters : q[1] = source /\ reports[q].state # "absent"}}

\* The newest run that has reported the suite.
NewestRun(s) ==
  Max({None} \cup {p[3] : p \in {q \in Reporters :
                            q[2] = s /\ reports[q].state # "absent"}})

ReadStatuses ==
  /\ phase = "idle" /\ kind # "collect" /\ CommitKnown
  /\ candidates' = Reported("commit_status")
  /\ known' = [s \in Suites |-> NewestRun(s)]
  /\ phase' = "checks"
  /\ UNCHANGED <<github, resolution, kind, deadline, wakeAt, lookedAt, view, chosen>>

ReadChecks ==
  /\ phase = "checks"
  /\ candidates' = candidates \cup Reported("check_run")
  /\ phase' = "linking"
  /\ UNCHANGED <<github, resolution, kind, deadline, wakeAt, lookedAt, view, chosen, known>>

\* The order of candidates: by run, then by time, then by source.
\* Faulty variant: by time, then by run.
ByTime(x, y) ==
  \/ x.at < y.at
  \/ x.at = y.at /\ x.from[3] <= y.from[3]
NotAfter(x, y) ==
  \/ x.from[3] < y.from[3]
  \/ x.from[3] = y.from[3] /\ x.at < y.at
  \/ /\ x.from[3] = y.from[3] /\ x.at = y.at
     /\ x.from[1] = "check_run" \/ y.from[1] = "commit_status"

Of(s) == {x \in candidates : x.from[2] = s}
Latest(s) == CHOOSE x \in Of(s) : \A y \in Of(s) : NotAfter(y, x)

\* A run that has not completed makes its suites pending.
\* Faulty variant: the report alone decides.
ReportedState(x) == x.state
SuiteState(x) == IF x.from[3] \in completed THEN x.state ELSE "pending"

\* It loads the runs it follows.
Link ==
  /\ phase = "linking"
  /\ chosen' = [s \in Suites |->
       IF Of(s) = {} THEN None ELSE Latest(s).from[3]]
  /\ view' = [s \in Suites |->
       IF Of(s) = {} THEN "absent" ELSE SuiteState(Latest(s))]
  /\ phase' = "selected"
  /\ UNCHANGED <<github, resolution, kind, deadline, wakeAt, lookedAt, candidates, known>>

\* GitHub does not answer, or the head of the pull request has moved.
Fail ==
  /\ phase \notin Ended
  /\ CommitKnown
  /\ phase = "sleeping" => clock >= wakeAt
  /\ phase' = "failed"
  /\ UNCHANGED <<github, resolution, kind, deadline, wakeAt, lookedAt, view, candidates, chosen, known>>

\* `collect-base` first finds the commit.
FindCommit ==
  /\ kind = "collect-base" /\ phase = "idle"
  /\ Resolve
  /\ UNCHANGED <<github, command>>

PullMoves ==
  /\ kind = "collect-base"
  /\ MovePull
  /\ UNCHANGED <<github, command>>

-----------------------------------------------------------------------------
Continue ==
  \/ SetDeadline \/ StopWaiting \/ Sleep \/ Wake
  \/ ReadChecks \/ Link

Next ==
  \/ Tick \/ Environment \/ PullMoves \/ FindCommit
  \/ StartWaiting \/ ReadStatuses \/ Continue \/ Fail

Spec == Init /\ [][Next]_vars

\* Time passes, and a command that is not killed goes on.  A look ends within
\* LookTime: the code does not bound it, and a look that never returns is left
\* out.
FairSpec == Spec /\ WF_vars(Tick) /\ WF_vars(Continue)

-----------------------------------------------------------------------------
(* Properties *)

(* --wait never misses what happened in time: if a suite is not terminal in *)
(* the snapshot that `collect` goes on with, then it is not true that all   *)
(* suites were terminal before the deadline, less the time one look takes,  *)
(* and have stayed so.                                                      *)
TerminalInTimeIsSeen ==
  phase = "selected" /\ kind = "collect" /\ ~AllTerminal
    => \E s \in Suites : since[s] + LookTime >= deadline

(* README: the greatest linked run is selected.  No late report of an old   *)
(* run, and no report that arrives between the reading of the statuses and  *)
(* of the check runs, makes a command follow an older run than one that had *)
(* reported before it began.                                                *)
NewestRunIsFollowed ==
  phase = "selected" /\ kind # "collect"
    => \A s \in Suites : chosen[s] >= known[s]

(* README: a newer running attempt remains incomplete even if an older      *)
(* status passed.  A suite is terminal only if the run that is followed for *)
(* it has completed and reported that suite's result itself.  (Attempts of   *)
(* one run are Collection's subject.)                                       *)
TerminalByItsOwnRun ==
  phase = "selected" /\ kind # "collect"
    => \A s \in Suites : view[s] = "terminal" =>
         /\ chosen[s] \in completed
         /\ \E p \in Reporters : /\ p[2] = s /\ p[3] = chosen[s]
                                 /\ reports[p].state = "terminal"

(* A command that waits ends, although CI may never become terminal, as     *)
(* long as its looks return.                                                *)
WaitingEnds == phase \in {"starting", "looking", "sleeping"} ~> phase \in Ended
=============================================================================
