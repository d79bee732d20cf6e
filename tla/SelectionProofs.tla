---------------------------- MODULE SelectionProofs ----------------------------
(***************************************************************************)
(* Theorems about Selection and BaseResolution, for any suites, reporters, *)
(* pairs, timeouts and bounds.  The invariant has four parts: types and    *)
(* which command is in which phase (TypesInv), what a resolution pinned    *)
(* (PinnedInv), what the clock of a command that waits has to do with its  *)
(* last look (WaitingInv), and what the candidates have to do with what    *)
(* was reported (FoundInv, FollowsInv).                                    *)
(***************************************************************************)
EXTENDS Selection, FiniteSetTheorems, TLAPS

-----------------------------------------------------------------------------
(* The inductive invariant *)

Candidates == [from : Reporters, state : States \ {"absent"}, at : Nat]
WaitPhases == {"starting", "looking", "sleeping"}
ReadPhases == {"checks", "linking"}

TypesInv ==
  /\ TypeOK
  /\ reports \in [Reporters -> [state : States, at : Nat]]
  /\ candidates \subseteq Candidates
  /\ IsFiniteSet(candidates)
  /\ phase \in WaitPhases => kind = "collect"
  /\ phase \in ReadPhases => kind # "collect"

\* From the request on there is a pair, which the base belongs to.
PinnedInv ==
  /\ step = "idle" => request = Unresolved
  /\ step \in {"cache", "history", "bases", "resolved"} => request \in Pairs
  /\ ReceiptExplainsBase

\* A look takes at most LookTime; it still fits before the bound of time.
\* A suite that was not terminal when the command looked is not terminal, or
\* it has become so since.
WaitingInv ==
  /\ phase = "starting" => lookedAt + LookTime + Timeout <= MaxTime
  /\ phase \in {"starting", "looking"} => clock <= lookedAt + LookTime
  /\ \A s \in Suites : current[s] # "terminal" => since[s] = Never
  /\ phase \in WaitPhases \cup {"selected"} /\ kind = "collect" =>
       \A s \in Suites : view[s] # "terminal" => since[s] >= lookedAt
  /\ phase = "selected" /\ kind = "collect" /\ ~AllTerminal =>
       lookedAt + LookTime >= deadline

\* A terminal report is the last one of its reporter.  The newest run of a
\* suite is among the candidates, or it will be found among the check runs.
FoundInv ==
  /\ \A x \in candidates :
       x.state = "terminal" => reports[x.from].state = "terminal"
  /\ phase \in ReadPhases => \A s \in Suites : known[s] # None =>
       \/ \E x \in Of(s) : x.from[3] = known[s]
       \/ /\ phase = "checks"
          /\ \E p \in Reporters : /\ p[1] = "check_run" /\ p[2] = s
                                  /\ p[3] = known[s]
                                  /\ reports[p].state # "absent"

FollowsInv == NewestRunIsFollowed /\ TerminalByItsOwnRun

SelectionInv == TypesInv /\ PinnedInv /\ WaitingInv /\ FoundInv /\ FollowsInv

-----------------------------------------------------------------------------
(* Finite sets *)

(* A finite set has a greatest element by any total preorder; candidates    *)
(* and runs are compared with it.                                           *)
LEMMA Greatest ==
  ASSUME NEW S, IsFiniteSet(S), S # {}, NEW R,
         \A x, y \in S : <<x, y>> \in R \/ <<y, x>> \in R,
         \A x, y, z \in S : <<x, y>> \in R /\ <<y, z>> \in R => <<x, z>> \in R
  PROVE  \E x \in S : \A y \in S : <<y, x>> \in R
<1> DEFINE Top(A) == \E x \in A : \A y \in A : <<y, x>> \in R
           Bad == {A \in SUBSET S : A # {} /\ ~Top(A)}
<1> SUFFICES ASSUME Bad # {} PROVE FALSE
  <2> S \in SUBSET S  OBVIOUS
  <2> QED  OBVIOUS
<1>1. Bad \subseteq FiniteSubsetsOf(S)
  BY FS_FiniteSubsetsOfFinite
<1>2. PICK A \in Bad : \A B \in Bad : <<B, A>> \notin StrictSubsetOrdering(S)
  <2> HIDE DEF Bad
  <2> QED  BY <1>1, FS_StrictSubsetOrderingWellFounded, WFMin
<1>3. PICK a \in A : TRUE
  OBVIOUS
<1> DEFINE B == A \ {a}
<1>4. B \in SUBSET S /\ B \subseteq A /\ B # A
  BY <1>3
<1>5. B \notin Bad
  <2> HIDE DEF Bad, B
  <2> A \in SUBSET S  BY DEF Bad
  <2> QED  BY <1>2, <1>4 DEF StrictSubsetOrdering
<1>6. CASE B = {}
  <2>1. A = {a} /\ a \in S
    BY <1>3, <1>6
  <2>2. <<a, a>> \in R
    BY <2>1
  <2>3. Top(A)
    BY <2>1, <2>2
  <2> QED  BY <2>3
<1>7. CASE B # {}
  <2>1. PICK b \in B : \A y \in B : <<y, b>> \in R
    BY <1>4, <1>5, <1>7
  <2>2. a \in S /\ b \in S /\ A \subseteq S
    BY <1>3
  <2>3. CASE <<a, b>> \in R
    <3>1. \A y \in A : <<y, b>> \in R
      BY <2>1, <2>3
    <3>2. Top(A)
      BY <3>1
    <3> QED  BY <3>2
  <2>4. CASE <<b, a>> \in R
    <3>1. \A y \in A : <<y, a>> \in R
      BY <2>1, <2>2, <2>4
    <3>2. Top(A)
      BY <3>1, <1>3
    <3> QED  BY <3>2
  <2> QED  BY <2>2, <2>3, <2>4
<1> QED  BY <1>6, <1>7

(* What a function takes a finite set to is finite.                         *)
LEMMA ImageIsFinite ==
  ASSUME NEW S, IsFiniteSet(S), NEW f, DOMAIN f = S, f = [x \in S |-> f[x]]
  PROVE  IsFiniteSet({f[x] : x \in S})
<1> DEFINE T == {f[x] : x \in S}
<1>1. f \in Surjection(S, T)
  BY DEF Surjection
<1> QED  BY <1>1, FS_Surjection

(* The greatest of finitely many numbers is one of them.                    *)
LEMMA MaxOfNaturals ==
  ASSUME NEW S \in SUBSET Nat, IsFiniteSet(S), S # {}
  PROVE  /\ Max(S) \in S
         /\ \A y \in S : y <= Max(S)
<1> DEFINE R == {p \in Nat \X Nat : p[1] <= p[2]}
<1>1. \A x, y \in S : <<x, y>> \in R \/ <<y, x>> \in R
  OBVIOUS
<1>2. \A x, y, z \in S : <<x, y>> \in R /\ <<y, z>> \in R => <<x, z>> \in R
  OBVIOUS
<1>3. \E x \in S : \A y \in S : <<y, x>> \in R
  <2> HIDE DEF R
  <2> QED  BY <1>1, <1>2, Greatest
<1>4. \E x \in S : \A y \in S : x >= y
  BY <1>3
<1>5. Max(S) \in S /\ \A y \in S : Max(S) >= y
  BY <1>4 DEF Max
<1> QED  BY <1>5

(* A suite with candidates has a latest one, and none is of a newer run.    *)
LEMMA LatestIsNewest ==
  ASSUME TypesInv, NEW s \in Suites, Of(s) # {}
  PROVE  /\ Latest(s) \in Of(s)
         /\ Latest(s) \in Candidates
         /\ \A y \in Of(s) : y.from[3] <= Latest(s).from[3]
<1> DEFINE R == {p \in Candidates \X Candidates : NotAfter(p[1], p[2])}
<1>1. Of(s) \subseteq Candidates /\ IsFiniteSet(Of(s))
  <2>1. Of(s) \subseteq candidates
    BY DEF Of
  <2> QED  BY <2>1, FS_Subset DEF TypesInv
<1>2. \A x \in Candidates : /\ x.from[3] \in Nat /\ x.at \in Nat
                            /\ x.from[1] \in Sources
  BY SelectionAssumption DEF Candidates
<1>3. \A x, y \in Candidates : NotAfter(x, y) \/ NotAfter(y, x)
  BY <1>2 DEF NotAfter, Sources
<1>4. \A x, y, z \in Candidates : NotAfter(x, y) /\ NotAfter(y, z) => NotAfter(x, z)
  <2> SUFFICES ASSUME NEW x \in Candidates, NEW y \in Candidates,
                      NEW z \in Candidates, NotAfter(x, y), NotAfter(y, z)
               PROVE  NotAfter(x, z)
    OBVIOUS
  <2> QED  BY <1>2 DEF NotAfter, Sources
<1>5. \E x \in Of(s) : \A y \in Of(s) : <<y, x>> \in R
  <2>1. \A x, y \in Of(s) : <<x, y>> \in R \/ <<y, x>> \in R
    BY <1>1, <1>3
  <2>2. \A x, y, z \in Of(s) : <<x, y>> \in R /\ <<y, z>> \in R => <<x, z>> \in R
    BY <1>1, <1>4
  <2> HIDE DEF R
  <2> QED  BY <1>1, <2>1, <2>2, Greatest
<1>6. \E x \in Of(s) : \A y \in Of(s) : NotAfter(y, x)
  BY <1>5
<1>7. Latest(s) \in Of(s) /\ \A y \in Of(s) : NotAfter(y, Latest(s))
  BY <1>6 DEF Latest
<1>8. \A y \in Of(s) : y.from[3] <= Latest(s).from[3]
  BY <1>1, <1>2, <1>7 DEF NotAfter
<1> QED  BY <1>1, <1>7, <1>8

(* The newest run of a suite is none, or one of its reporters reported it.  *)
LEMMA NewestRunIsReported ==
  ASSUME TypesInv, NEW s \in Suites
  PROVE  /\ NewestRun(s) \in {None} \cup Runs
         /\ NewestRun(s) # None =>
              \E p \in Reporters : /\ p[2] = s /\ p[3] = NewestRun(s)
                                   /\ reports[p].state # "absent"
<1> DEFINE P == {q \in Reporters : q[2] = s /\ reports[q].state # "absent"}
           S == {None} \cup {p[3] : p \in P}
<1>1. IsFiniteSet(P)
  <2>1. P \subseteq Reporters
    OBVIOUS
  <2> QED  BY <2>1, SelectionAssumption, FS_Subset
<1>2. IsFiniteSet({p[3] : p \in P})
  <2> DEFINE f == [p \in P |-> p[3]]
  <2>1. IsFiniteSet({f[p] : p \in P})
    <3> HIDE DEF P
    <3> QED  BY <1>1, ImageIsFinite
  <2> QED  BY <2>1
<1>3. IsFiniteSet(S)
  <2> HIDE DEF P
  <2> QED  BY <1>2, FS_Union, FS_Singleton
<1>4. S \in SUBSET Nat
  BY SelectionAssumption DEF None
<1>5. Max(S) \in S
  <2> HIDE DEF S
  <2> S # {}  BY DEF S
  <2> QED  BY <1>3, <1>4, MaxOfNaturals
<1>6. NewestRun(s) = Max(S)
  BY DEF NewestRun
<1> QED  BY <1>5, <1>6 DEF Runs

(* What is found through a source are candidates.                           *)
LEMMA ReportedAreCandidates ==
  ASSUME TypesInv, NEW source
  PROVE  /\ Reported(source) \subseteq Candidates
         /\ IsFiniteSet(Reported(source))
         /\ \A x \in Reported(source) :
              /\ x.state = reports[x.from].state
              /\ x.at \in 0 .. clock
         /\ \A p \in Reporters :
              p[1] = source /\ reports[p].state # "absent"
                => \E x \in Reported(source) : x.from = p
<1> DEFINE P == {q \in Reporters : q[1] = source /\ reports[q].state # "absent"}
<1>1. IsFiniteSet(P)
  <2>1. P \subseteq Reporters
    OBVIOUS
  <2> QED  BY <2>1, SelectionAssumption, FS_Subset
<1>2. IsFiniteSet(Reported(source))
  <2> DEFINE f == [p \in P |-> [from |-> p, state |-> reports[p].state,
                               at |-> reports[p].at]]
  <2>1. IsFiniteSet({f[p] : p \in P})
    <3> HIDE DEF P
    <3> QED  BY <1>1, ImageIsFinite
  <2>2. Reported(source) = {f[p] : p \in P}
    BY DEF Reported
  <2> QED  BY <2>1, <2>2
<1>3. \A p \in Reporters : reports[p] \in [state : States, at : Nat]
  BY DEF TypesInv
<1>4. \A p \in Reporters : reports[p].at \in 0 .. clock
  BY DEF TypesInv, TypeOK
<1>5. Reported(source) \subseteq Candidates
  BY <1>3 DEF Reported, Candidates
<1>6. \A x \in Reported(source) :
        x.state = reports[x.from].state /\ x.at \in 0 .. clock
  BY <1>4 DEF Reported
<1>7. \A p \in Reporters :
        p[1] = source /\ reports[p].state # "absent"
          => \E x \in Reported(source) : x.from = p
  <2> SUFFICES ASSUME NEW p \in Reporters, p[1] = source,
                      reports[p].state # "absent"
               PROVE  \E x \in Reported(source) : x.from = p
    OBVIOUS
  <2> DEFINE x == [from |-> p, state |-> reports[p].state, at |-> reports[p].at]
  <2>1. x \in Reported(source) /\ x.from = p
    BY DEF Reported
  <2> QED  BY <2>1
<1> QED  BY <1>2, <1>5, <1>6, <1>7

-----------------------------------------------------------------------------
(* The resolution *)

LEMMA BaseTypes ==
  ASSUME BaseTypeOK, PinnedInv, Resolve \/ MovePull
  PROVE  BaseTypeOK'
<1>1. CASE MovePull
  BY <1>1 DEF MovePull, BaseTypeOK
<1>2. CASE ReadPull \/ NoPull
  BY <1>2 DEF ReadPull, NoPull, BaseTypeOK
<1>3. CASE OpenCache
  BY <1>3 DEF OpenCache, GiveUp, FailureRecorded, BaseTypeOK
<1>4. CASE FetchHistory
  BY <1>4 DEF FetchHistory, GiveUp, FailureRecorded, BaseTypeOK, PinnedInv
<1>5. CASE FindBase
  <2>1. request \in Pairs
    BY <1>5 DEF FindBase, PinnedInv
  <2>2. Bases \subseteq Commits
    BY <2>1 DEF Bases, Commits
  <2> QED  BY <1>5, <2>2 DEF FindBase, GiveUp, FailureRecorded, BaseTypeOK
<1> QED  BY <1>1, <1>2, <1>3, <1>4, <1>5 DEF Resolve

LEMMA PinnedStep ==
  ASSUME BaseTypeOK, PinnedInv, Resolve \/ MovePull
  PROVE  PinnedInv'
<1> USE DEF PinnedInv, ReceiptExplainsBase
<1>1. CASE MovePull
  BY <1>1 DEF MovePull
<1>2. CASE ReadPull \/ NoPull
  BY <1>2 DEF ReadPull, NoPull, BaseTypeOK
<1>3. CASE OpenCache
  BY <1>3 DEF OpenCache, GiveUp, FailureRecorded
<1>4. CASE FetchHistory
  BY <1>4 DEF FetchHistory, GiveUp, FailureRecorded
<1>5. CASE FindBase
  BY <1>5 DEF FindBase, GiveUp, FailureRecorded, Bases
<1> QED  BY <1>1, <1>2, <1>3, <1>4, <1>5 DEF Resolve

(* Only two kinds of step change the resolution, and they change nothing    *)
(* else; no step changes which command it is.                               *)
LEMMA WhoResolves ==
  ASSUME [Next]_vars
  PROVE  /\ kind' = kind
         /\ \/ UNCHANGED resolution
            \/ (Resolve \/ MovePull) /\ UNCHANGED <<github, command>>
<1>1. CASE Tick \/ Environment
  BY <1>1 DEF Tick, Environment, Post, Report, Complete, command
<1>2. CASE PullMoves \/ FindCommit
  BY <1>2 DEF PullMoves, FindCommit, command
<1>3. CASE StartWaiting \/ SetDeadline \/ StopWaiting \/ Sleep \/ Wake
  BY <1>3 DEF StartWaiting, SetDeadline, StopWaiting, Sleep, Wake
<1>4. CASE ReadStatuses \/ ReadChecks \/ Link \/ Fail
  BY <1>4 DEF ReadStatuses, ReadChecks, Link, Fail
<1>5. CASE UNCHANGED vars
  BY <1>5 DEF vars, command
<1> QED  BY <1>1, <1>2, <1>3, <1>4, <1>5 DEF Next, Continue

-----------------------------------------------------------------------------
(* Types *)

LEMMA TypesStep ==
  ASSUME TypesInv, PinnedInv, WaitingInv, [Next]_vars
  PROVE  TypesInv'
<1>0. BaseTypeOK'
  <2>1. BaseTypeOK
    BY DEF TypesInv, TypeOK
  <2>2. CASE UNCHANGED resolution
    BY <2>1, <2>2 DEF resolution, BaseTypeOK, Commits
  <2> QED  BY <2>1, <2>2, WhoResolves, BaseTypes
<1> USE SelectionAssumption DEF TypesInv, TypeOK, WaitPhases, ReadPhases, Ended, Never
<1>1. CASE Tick
  <2>1. clock' = clock + 1 /\ clock' \in 0 .. MaxTime
    BY <1>1 DEF Tick
  <2>2. \A p \in Reporters : reports[p].at \in 0 .. clock'
    BY <2>1
  <2> QED  BY <1>0, <1>1, <2>1, <2>2 DEF Tick, command
<1>2. ASSUME NEW s \in Suites, Post(s) PROVE TypesInv'
  BY <1>0, <1>2 DEF Post, command, States
<1>3. ASSUME NEW p \in Reporters, Report(p) PROVE TypesInv'
  <2>1. PICK state \in {"pending", "terminal"} :
          reports' = [reports EXCEPT ![p] = [state |-> state, at |-> clock]]
    BY <1>3 DEF Report
  <2>2. state \in States /\ clock \in Nat
    BY DEF States
  <2>3. reports' \in [Reporters -> [state : States, at : Nat]]
    BY <2>1, <2>2
  <2>4. \A q \in Reporters : /\ reports'[q].state \in States
                             /\ reports'[q].at \in 0 .. clock
    BY <2>1, <2>2
  <2> QED  BY <1>0, <1>3, <2>3, <2>4 DEF Report, command
<1>4. ASSUME NEW r \in Runs, Complete(r) PROVE TypesInv'
  BY <1>0, <1>4 DEF Complete, command
<1>5. CASE PullMoves \/ FindCommit
  BY <1>0, <1>5 DEF PullMoves, FindCommit, github, command
<1>6. CASE StartWaiting
  BY <1>0, <1>6 DEF StartWaiting, Snapshot, github
<1>7. CASE SetDeadline
  <2>1. clock + Timeout \in 0 .. MaxTime
    BY <1>7 DEF SetDeadline, WaitingInv
  <2> QED  BY <1>0, <1>7, <2>1 DEF SetDeadline, github
<1>8. CASE StopWaiting
  BY <1>0, <1>8 DEF StopWaiting, github
<1>9. CASE Sleep
  <2>1. lookedAt \in Nat /\ clock \in Nat /\ deadline \in Nat
    OBVIOUS
  <2>2. lookedAt <= clock /\ clock < deadline
    BY <1>9, <2>1 DEF Sleep, DeadlinePassed
  <2>3. NextLook \in {clock + PollInterval, deadline} /\ NextLook <= deadline
    <3> DEFINE S == {clock + PollInterval, deadline}
    <3>1. \E x \in S : \A y \in S : x <= y
      BY <2>1
    <3>2. Min(S) \in S /\ \A y \in S : Min(S) <= y
      BY <3>1 DEF Min
    <3> QED  BY <3>2 DEF NextLook
  <2>4. NextLook \in lookedAt .. deadline
    BY <2>1, <2>2, <2>3
  <2> QED  BY <1>0, <1>9, <2>4 DEF Sleep, github
<1>10. CASE Wake
  BY <1>0, <1>10 DEF Wake, Snapshot, github
<1>11. CASE ReadStatuses
  <2>1. Reported("commit_status") \subseteq Candidates
    /\ IsFiniteSet(Reported("commit_status"))
    BY ReportedAreCandidates
  <2>2. \A s \in Suites : NewestRun(s) \in {None} \cup Runs
    BY NewestRunIsReported
  <2> QED  BY <1>0, <1>11, <2>1, <2>2 DEF ReadStatuses, github, Candidates
<1>12. CASE ReadChecks
  <2>1. Reported("check_run") \subseteq Candidates
    /\ IsFiniteSet(Reported("check_run"))
    BY ReportedAreCandidates
  <2>2. IsFiniteSet(candidates \cup Reported("check_run"))
    BY <2>1, FS_Union
  <2> QED  BY <1>0, <1>12, <2>1, <2>2 DEF ReadChecks, github, Candidates
<1>13. CASE Link
  <2>1. \A s \in Suites : Of(s) # {} =>
          /\ Latest(s).from[3] \in Runs
          /\ SuiteState(Latest(s)) \in States
    <3> SUFFICES ASSUME NEW s \in Suites, Of(s) # {}
                 PROVE  /\ Latest(s).from[3] \in Runs
                        /\ SuiteState(Latest(s)) \in States
      OBVIOUS
    <3>1. Latest(s) \in Candidates
      BY LatestIsNewest
    <3> QED  BY <3>1 DEF Candidates, Runs, SuiteState, States
  <2>2. chosen' \in [Suites -> {None} \cup Runs]
    BY <1>13, <2>1 DEF Link
  <2>3. view' \in [Suites -> States]
    BY <1>13, <2>1 DEF Link, States
  <2> QED  BY <1>0, <1>13, <2>2, <2>3 DEF Link, github
<1>14. CASE Fail
  BY <1>0, <1>14 DEF Fail, github
<1>15. CASE UNCHANGED vars
  BY <1>0, <1>15 DEF vars, github, command
<1> QED  BY <1>1, <1>2, <1>3, <1>4, <1>5, <1>6, <1>7, <1>8, <1>9, <1>10, <1>11,
            <1>12, <1>13, <1>14, <1>15 DEF Next, Environment, Continue

-----------------------------------------------------------------------------
(* Waiting *)

LEMMA WaitingStep ==
  ASSUME TypesInv, WaitingInv, [Next]_vars
  PROVE  WaitingInv'
<1> USE SelectionAssumption
    DEF TypesInv, TypeOK, WaitingInv, WaitPhases, ReadPhases, Ended, Never, AllTerminal
<1>1. CASE Tick
  BY <1>1 DEF Tick, command
<1>2. ASSUME NEW s \in Suites, Post(s) PROVE WaitingInv'
  <2>1. PICK state \in {"pending", "terminal"} :
          /\ current' = [current EXCEPT ![s] = state]
          /\ since' = [since EXCEPT ![s] =
                         IF state = "terminal" THEN clock ELSE Never]
    BY <1>2 DEF Post
  <2>2. UNCHANGED <<clock, phase, lookedAt, deadline, view, kind>>
    BY <1>2 DEF Post, command
  <2>3. \A t \in Suites : current'[t] # "terminal" => since'[t] = Never
    BY <2>1
  <2>4. \A t \in Suites : since[t] >= lookedAt => since'[t] >= lookedAt
    BY <2>1
  <2> QED  BY <2>2, <2>3, <2>4
<1>3. ASSUME NEW p \in Reporters, Report(p) PROVE WaitingInv'
  BY <1>3 DEF Report, command
<1>4. ASSUME NEW r \in Runs, Complete(r) PROVE WaitingInv'
  BY <1>4 DEF Complete, command
<1>5. CASE PullMoves \/ FindCommit
  BY <1>5 DEF PullMoves, FindCommit, github, command
<1>6. CASE StartWaiting
  BY <1>6 DEF StartWaiting, Snapshot, github
<1>7. CASE SetDeadline
  BY <1>7 DEF SetDeadline, github
<1>8. CASE StopWaiting
  BY <1>8 DEF StopWaiting, DeadlinePassed, github
<1>9. CASE Sleep
  BY <1>9 DEF Sleep, github
<1>10. CASE Wake
  BY <1>10 DEF Wake, Snapshot, github
<1>11. CASE ReadStatuses \/ ReadChecks
  BY <1>11 DEF ReadStatuses, ReadChecks, github
<1>12. CASE Link
  BY <1>12 DEF Link, github
<1>13. CASE Fail
  BY <1>13 DEF Fail, github
<1>14. CASE UNCHANGED vars
  BY <1>14 DEF vars, github, command
<1> QED  BY <1>1, <1>2, <1>3, <1>4, <1>5, <1>6, <1>7, <1>8, <1>9, <1>10, <1>11,
            <1>12, <1>13, <1>14 DEF Next, Environment, Continue

-----------------------------------------------------------------------------
(* Candidates *)

(* A report is never withdrawn, a terminal one never replaced, and a run    *)
(* that completed stays completed.                                          *)
LEMMA ReportsStay ==
  ASSUME TypesInv, [Next]_vars
  PROVE  /\ completed \subseteq completed'
         /\ \A p \in Reporters :
              /\ reports[p].state # "absent" => reports'[p].state # "absent"
              /\ reports[p].state = "terminal" => reports'[p].state = "terminal"
<1>1. ASSUME NEW p \in Reporters, Report(p)
      PROVE  /\ completed \subseteq completed'
             /\ \A q \in Reporters :
                  /\ reports[q].state # "absent" => reports'[q].state # "absent"
                  /\ reports[q].state = "terminal" => reports'[q].state = "terminal"
  BY <1>1 DEF Report, TypesInv
<1>2. ASSUME NEW r \in Runs, Complete(r)
      PROVE  completed \subseteq completed' /\ reports' = reports
  BY <1>2 DEF Complete
<1>3. ASSUME NEW s \in Suites, Post(s)
      PROVE  completed' = completed /\ reports' = reports
  BY <1>3 DEF Post
<1>4. CASE Tick \/ PullMoves \/ FindCommit
  BY <1>4 DEF Tick, PullMoves, FindCommit, github
<1>5. CASE StartWaiting \/ SetDeadline \/ StopWaiting \/ Sleep \/ Wake
  BY <1>5 DEF StartWaiting, SetDeadline, StopWaiting, Sleep, Wake, github
<1>6. CASE ReadStatuses \/ ReadChecks \/ Link \/ Fail
  BY <1>6 DEF ReadStatuses, ReadChecks, Link, Fail, github
<1>7. CASE UNCHANGED vars
  BY <1>7 DEF vars, github
<1> QED  BY <1>1, <1>2, <1>3, <1>4, <1>5, <1>6, <1>7 DEF Next, Environment, Continue

LEMMA FoundStep ==
  ASSUME TypesInv, FoundInv, [Next]_vars
  PROVE  FoundInv'
<1> USE DEF Of
<1>1. CASE ReadStatuses
  <2>1. /\ candidates' = Reported("commit_status")
        /\ known' = [s \in Suites |-> NewestRun(s)]
        /\ phase' = "checks" /\ reports' = reports
    BY <1>1 DEF ReadStatuses, github
  <2>2. \A x \in candidates' :
          x.state = "terminal" => reports'[x.from].state = "terminal"
    BY <2>1, ReportedAreCandidates
  <2>3. ASSUME NEW s \in Suites, known'[s] # None
        PROVE  \/ \E x \in candidates' : x.from[2] = s /\ x.from[3] = known'[s]
               \/ \E p \in Reporters : /\ p[1] = "check_run" /\ p[2] = s
                                       /\ p[3] = known'[s]
                                       /\ reports'[p].state # "absent"
    <3>1. PICK p \in Reporters : /\ p[2] = s /\ p[3] = known'[s]
                                 /\ reports[p].state # "absent"
      BY <2>1, <2>3, NewestRunIsReported
    <3>2. p[1] \in Sources
      BY SelectionAssumption
    <3>3. CASE p[1] = "check_run"
      BY <2>1, <3>1, <3>3
    <3>4. CASE p[1] = "commit_status"
      <4>1. PICK x \in candidates' : x.from = p
        BY <2>1, <3>1, <3>4, ReportedAreCandidates
      <4> QED  BY <3>1, <4>1
    <3> QED  BY <3>2, <3>3, <3>4 DEF Sources
  <2> QED  BY <2>1, <2>2, <2>3 DEF FoundInv
<1>2. CASE ReadChecks
  <2>1. /\ candidates' = candidates \cup Reported("check_run")
        /\ known' = known /\ phase = "checks"
        /\ phase' = "linking" /\ reports' = reports
    BY <1>2 DEF ReadChecks, github
  <2>2. \A x \in candidates' :
          x.state = "terminal" => reports'[x.from].state = "terminal"
    BY <2>1, ReportedAreCandidates DEF FoundInv
  <2>3. ASSUME NEW s \in Suites, known'[s] # None
        PROVE  \E x \in candidates' : x.from[2] = s /\ x.from[3] = known'[s]
    <3>1. CASE \E x \in Of(s) : x.from[3] = known[s]
      BY <2>1, <3>1
    <3>2. CASE \E p \in Reporters : /\ p[1] = "check_run" /\ p[2] = s
                                    /\ p[3] = known[s]
                                    /\ reports[p].state # "absent"
      <4>1. PICK p \in Reporters : /\ p[1] = "check_run" /\ p[2] = s
                                   /\ p[3] = known[s]
                                   /\ reports[p].state # "absent"
        BY <3>2
      <4>2. PICK x \in Reported("check_run") : x.from = p
        BY <4>1, ReportedAreCandidates
      <4> QED  BY <2>1, <4>1, <4>2
    <3> QED  BY <2>1, <2>3, <3>1, <3>2 DEF FoundInv, ReadPhases
  <2> QED  BY <2>1, <2>2, <2>3 DEF FoundInv
<1>3. CASE UNCHANGED <<candidates, known>> /\ phase' \in {phase} \cup WaitPhases \cup Ended
  <2>1. \A x \in candidates : x.from \in Reporters
    BY DEF TypesInv, Candidates
  <2> QED  BY <1>3, <2>1, ReportsStay DEF FoundInv, ReadPhases, WaitPhases, Ended
<1>4. CASE Tick \/ Environment \/ PullMoves \/ FindCommit \/ UNCHANGED vars
  BY <1>3, <1>4 DEF Tick, Environment, Post, Report, Complete, PullMoves,
                    FindCommit, vars, command
<1>5. CASE StartWaiting \/ SetDeadline \/ StopWaiting \/ Sleep \/ Wake \/ Link \/ Fail
  BY <1>3, <1>5 DEF StartWaiting, SetDeadline, StopWaiting, Sleep, Wake, Link,
                    Fail, WaitPhases, Ended
<1> QED  BY <1>1, <1>2, <1>4, <1>5 DEF Next, Continue

LEMMA FollowsStep ==
  ASSUME TypesInv, FoundInv, FollowsInv, [Next]_vars
  PROVE  FollowsInv'
<1>1. CASE Link
  <2>1. /\ phase = "linking" /\ known' = known /\ completed' = completed
        /\ reports' = reports
        /\ chosen' = [s \in Suites |->
             IF Of(s) = {} THEN None ELSE Latest(s).from[3]]
        /\ view' = [s \in Suites |->
             IF Of(s) = {} THEN "absent" ELSE SuiteState(Latest(s))]
    BY <1>1 DEF Link, github
  <2>2. ASSUME NEW s \in Suites PROVE chosen'[s] >= known'[s]
    <3>1. known[s] \in Nat
      BY SelectionAssumption DEF TypesInv, TypeOK, None, Runs
    <3>2. CASE known[s] = None
      <4>1. CASE Of(s) = {}
        BY <2>1, <3>2, <4>1 DEF None
      <4>2. CASE Of(s) # {}
        <5>1. Latest(s).from \in Reporters
          BY <4>2, LatestIsNewest DEF Candidates
        <5>2. Latest(s).from[3] \in Nat
          BY <5>1, SelectionAssumption
        <5> QED  BY <2>1, <3>2, <4>2, <5>2 DEF None
      <4> QED  BY <4>1, <4>2
    <3>3. CASE known[s] # None
      <4>1. PICK x \in Of(s) : x.from[3] = known[s]
        BY <2>1, <3>3 DEF FoundInv, ReadPhases
      <4>2. /\ Latest(s).from \in Reporters
            /\ x.from[3] <= Latest(s).from[3]
        BY <4>1, LatestIsNewest DEF Candidates
      <4>3. Latest(s).from[3] \in Nat
        BY <4>2, SelectionAssumption
      <4> QED  BY <2>1, <3>1, <4>1, <4>2, <4>3
    <3> QED  BY <3>2, <3>3
  <2>3. ASSUME NEW s \in Suites, view'[s] = "terminal"
        PROVE  /\ chosen'[s] \in completed'
               /\ \E p \in Reporters : /\ p[2] = s /\ p[3] = chosen'[s]
                                       /\ reports'[p].state = "terminal"
    <3>1. Of(s) # {} /\ SuiteState(Latest(s)) = "terminal"
      BY <2>1, <2>3
    <3>2. Latest(s) \in Of(s) /\ Latest(s) \in Candidates
      BY <3>1, LatestIsNewest
    <3>3. Latest(s).state = "terminal" /\ Latest(s).from[3] \in completed
      BY <3>1 DEF SuiteState
    <3>4. Latest(s).from \in Reporters /\ Latest(s).from[2] = s
      BY <3>2 DEF Of, Candidates
    <3>5. reports[Latest(s).from].state = "terminal"
      BY <3>2, <3>3 DEF FoundInv, Of
    <3> QED  BY <2>1, <3>1, <3>3, <3>4, <3>5
  <2> QED  BY <2>2, <2>3 DEF FollowsInv, NewestRunIsFollowed, TerminalByItsOwnRun
<1>2. CASE UNCHANGED <<kind, view, chosen, known>>
           /\ (phase' = "selected" => phase = "selected")
  BY <1>2, ReportsStay
     DEF FollowsInv, NewestRunIsFollowed, TerminalByItsOwnRun
<1>3. CASE StartWaiting \/ SetDeadline \/ StopWaiting \/ Sleep \/ Wake
  BY <1>3 DEF StartWaiting, SetDeadline, StopWaiting, Sleep, Wake,
              FollowsInv, NewestRunIsFollowed, TerminalByItsOwnRun, TypesInv, WaitPhases
<1>4. CASE Tick \/ Environment \/ PullMoves \/ FindCommit \/ UNCHANGED vars
  BY <1>2, <1>4 DEF Tick, Environment, Post, Report, Complete, PullMoves,
                    FindCommit, vars, command
<1>5. CASE ReadStatuses \/ ReadChecks \/ Fail
  BY <1>5 DEF ReadStatuses, ReadChecks, Fail, FollowsInv, NewestRunIsFollowed,
              TerminalByItsOwnRun
<1> QED  BY <1>1, <1>3, <1>4, <1>5 DEF Next, Continue

-----------------------------------------------------------------------------
(* Theorems *)

LEMMA SelectionInit == Init => SelectionInv
<1> SUFFICES ASSUME Init PROVE SelectionInv
  OBVIOUS
<1> USE SelectionAssumption DEF Init
<1>1. BaseTypeOK /\ step = "idle" /\ request = Unresolved
  <2>1. CASE BaseInit
    BY <2>1 DEF BaseInit, BaseTypeOK
  <2>2. CASE NoResolution
    BY <2>2, BaseAssumption DEF NoResolution, BaseTypeOK
  <2> QED  BY <2>1, <2>2
<1>2. PinnedInv
  BY <1>1 DEF PinnedInv, ReceiptExplainsBase
<1>3. TypesInv
  BY <1>1, FS_EmptySet
     DEF TypesInv, TypeOK, States, Never, Ended, WaitPhases, ReadPhases
<1>4. WaitingInv
  BY DEF WaitingInv, WaitPhases
<1>5. FoundInv /\ FollowsInv
  BY DEF FoundInv, FollowsInv, ReadPhases, NewestRunIsFollowed, TerminalByItsOwnRun
<1> QED  BY <1>2, <1>3, <1>4, <1>5 DEF SelectionInv

LEMMA SelectionNext == SelectionInv /\ [Next]_vars => SelectionInv'
<1> SUFFICES ASSUME SelectionInv, [Next]_vars PROVE SelectionInv'
  OBVIOUS
<1> USE DEF SelectionInv
<1>1. PinnedInv'
  <2>1. CASE UNCHANGED resolution
    BY <2>1 DEF resolution, PinnedInv, ReceiptExplainsBase
  <2> QED  BY <2>1, WhoResolves, PinnedStep DEF TypesInv, TypeOK
<1> QED  BY <1>1, TypesStep, WaitingStep, FoundStep, FollowsStep

THEOREM SelectionInductive == Spec => []SelectionInv
BY SelectionInit, SelectionNext, PTL DEF Spec

(* The type invariant of Selection and of the resolution within it.         *)
THEOREM SelectionTypeCorrect == Spec => []TypeOK
<1>1. SelectionInv => TypeOK
  BY DEF SelectionInv, TypesInv
<1> QED  BY <1>1, SelectionInductive, PTL

(* The commit that `collect-base` goes on with is the one merge base of the *)
(* pair in its receipt, and every failure after the request is recorded.    *)
THEOREM ReceiptsExplain == Spec => []ReceiptExplainsBase
<1>1. SelectionInv => ReceiptExplainsBase
  BY DEF SelectionInv, PinnedInv
<1> QED  BY <1>1, SelectionInductive, PTL

(* `--wait` misses nothing that became terminal in time, a look before the  *)
(* deadline, and has stayed so.                                             *)
THEOREM WhatIsInTimeIsSeen == Spec => []TerminalInTimeIsSeen
<1>1. SelectionInv => TerminalInTimeIsSeen
  <2> SUFFICES ASSUME SelectionInv, phase = "selected", kind = "collect", ~AllTerminal
               PROVE  \E s \in Suites : since[s] + LookTime >= deadline
    BY DEF TerminalInTimeIsSeen
  <2>1. PICK s \in Suites : view[s] # "terminal"
    BY DEF AllTerminal
  <2>2. since[s] >= lookedAt /\ lookedAt + LookTime >= deadline
    BY <2>1 DEF SelectionInv, WaitingInv
  <2>3. since[s] \in Nat /\ lookedAt \in Nat /\ deadline \in Nat /\ LookTime \in Nat
    BY SelectionAssumption DEF SelectionInv, TypesInv, TypeOK, Never
  <2> QED  BY <2>2, <2>3
<1> QED  BY <1>1, SelectionInductive, PTL

(* No command follows an older run than one that had reported when it       *)
(* began, whatever is reported between its two reads.                       *)
THEOREM NewestIsFollowed == Spec => []NewestRunIsFollowed
<1>1. SelectionInv => NewestRunIsFollowed
  BY DEF SelectionInv, FollowsInv
<1> QED  BY <1>1, SelectionInductive, PTL

(* A suite is terminal only by the completed run that is followed for it,   *)
(* and by that run's own report.                                            *)
THEOREM TerminalByOwnRun == Spec => []TerminalByItsOwnRun
<1>1. SelectionInv => TerminalByItsOwnRun
  BY DEF SelectionInv, FollowsInv
<1> QED  BY <1>1, SelectionInductive, PTL
=============================================================================
