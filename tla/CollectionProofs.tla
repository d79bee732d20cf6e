--------------------------- MODULE CollectionProofs ---------------------------
(***************************************************************************)
(* Proofs about Collection, for any number of commands, suites, runs and   *)
(* attempts.                                                               *)
(***************************************************************************)
EXTENDS Collection, TLAPS

-----------------------------------------------------------------------------
(* The inductive invariant *)

Selecting  == {"idle", "waiting", "linking", "selected"}
Observing  == {"pinning", "collecting", "collected", "verified", "written",
               "refused"}
Published  == {"written", "refused"} \cup Ended

(* A command has a request while it works on an observation, and a result   *)
(* once it ended that.                                                      *)
PhaseInv ==
  \A c \in Commands :
    /\ pc[c] \in Selecting => c \notin requests
    /\ pc[c] \in Observing => c \in requests
    /\ c \in requests /\ pc[c] \in {"done", "failed"} => results[c] # "none"
    /\ pc[c] \in Selecting \cup {"pinning"} =>
         \A s \in Suites : outcome[c][s] = "unknown"
    /\ pc[c] = "idle" => asked[c] = None
    \* a command is only late while it collects
    /\ pc[c] \in Selecting \cup {"pinning", "verified", "written"} => c \notin late

(* Whoever wrote the manifest does not collect any more.                    *)
ManifestInv ==
  IF manifest.by = None
  THEN manifest.suites = NoManifest.suites
  ELSE /\ pc[manifest.by] \in Published
       /\ manifest.by \notin late

HeadInv == atHead \/ (mode = "pr")

LateInv == late # {} => ~atHead

(* Files of a suite are those of the newest attempt or of the one before.   *)
FilesInv ==
  \A s \in Suites :
    LET a == attempt[RunOf[s]] IN
      /\ files[s] \in {a - 1, a}
      /\ RunOf[s] \in completed => files[s] = a

SummariesInv ==
  \A s \in Suites, a \in Attempts :
    summaries[s][a] # None => a <= summaries[s][a] /\ summaries[s][a] <= attempt[RunOf[s]]

(* Attempt a of run r is over.                                              *)
Over(r, a) == a < attempt[r] \/ (a = attempt[r] /\ r \in completed)

(* What a command of a commit's root takes for terminal is over.            *)
ViewOf(c) ==
  /\ pc[c] # "waiting"
  /\ pc[c] \in {"idle", "linking"} =>
       asked[c] = None /\ \A r \in Runs : known[c][r][1] = None
  /\ pc[c] \notin {"idle", "linking"} => \A s \in Suites :
       view[c][s] = "terminal" =>
         IF asked[c] = None THEN Over(RunOf[s], known[c][RunOf[s]][1])
                            ELSE Over(RunOf[s], asked[c])
  /\ IF pc[c] \in Selecting \cup {"pinning"}
     THEN \A r \in Runs : pins[c][r] = None
     ELSE \A r \in Runs :
            pins[c][r] \in {None, IF asked[c] = None THEN known[c][r][1] ELSE asked[c]}

ViewInv == mode = "commit" => \A c \in Commands : ViewOf(c)

(* What a command has completed is on disk, and of a commit's root over.    *)
OutcomeInv ==
  \A c \in Commands, s \in Suites :
    outcome[c][s] = "completed" =>
      /\ Pinned(c, s) # None
      /\ summaries[s][Pinned(c, s)] # None
      /\ mode = "commit" => Over(RunOf[s], Pinned(c, s))
      /\ mode = "commit" /\ pc[c] = "verified" /\ asked[c] = None =>
           summaries[s][Pinned(c, s)] = Pinned(c, s)

SelectionInv ==
  \A s \in Suites :
    LET a == manifest.suites[s] IN
      a # None =>
        /\ summaries[s][a] # None
        /\ mode = "commit" => Over(RunOf[s], a)
        /\ mode = "commit" /\ asked[manifest.by] = None => summaries[s][a] = a

CollectionInv ==
  /\ TypeOK /\ PhaseInv /\ ManifestInv /\ HeadInv /\ LateInv /\ FilesInv
  /\ SummariesInv /\ ViewInv /\ OutcomeInv /\ SelectionInv

-----------------------------------------------------------------------------
(* Types *)

GithubTypes ==
  /\ atHead \in BOOLEAN
  /\ attempt \in [Runs -> Attempts]
  /\ completed \subseteq Runs
  /\ status \in [Suites -> Statuses]
  /\ files \in [Suites -> {None} \cup Attempts]

RootTypes ==
  /\ mode \in Modes
  /\ summaries \in [Suites -> [Attempts -> {None} \cup Attempts]]
  /\ manifest.by \in {None} \cup Commands
  /\ manifest.suites \in [Suites -> {None} \cup Attempts]
  /\ requests \subseteq Commands
  /\ results \in [Commands -> {"none", "complete", "incomplete", "failed"}]
  /\ \A c \in Commands : results[c] # "none" => c \in requests

Phases == {"idle", "waiting", "linking", "selected", "pinning", "collecting",
           "collected", "verified", "written", "refused", "done", "failed", "crashed"}
PhaseType == pc \in [Commands -> Phases]

MemoryTypes ==
  /\ asked \in [Commands -> {None} \cup Attempts]
  /\ view \in [Commands -> [Suites -> Statuses]]
  /\ pins \in [Commands -> [Runs -> {None} \cup Attempts]]
  /\ known \in [Commands -> [Runs -> ({None} \cup Attempts) \X BOOLEAN]]
  /\ outcome \in [Commands -> [Suites -> Outcomes]]
  /\ late \subseteq Commands

Types == GithubTypes /\ RootTypes /\ PhaseType /\ MemoryTypes

LEMMA TypesAreOK == TypeOK <=> Types
<1>1. PhaseType <=> pc \in [Commands -> {"idle", "waiting", "linking", "selected",
                          "pinning", "collecting", "collected", "verified", "written",
                          "refused"} \cup Ended]
  <2>1. Phases = {"idle", "waiting", "linking", "selected", "pinning", "collecting",
                  "collected", "verified", "written", "refused"} \cup Ended
    BY DEF Phases, Ended
  <2> QED
    BY <2>1 DEF PhaseType
<1> QED
  BY <1>1 DEF TypeOK, Types, GithubTypes, RootTypes, MemoryTypes

LEMMA LoadTyped ==
  ASSUME GithubTypes, NEW r \in Runs
  PROVE  Load(r) \in ({None} \cup Attempts) \X BOOLEAN
<1>1. attempt[r] \in Attempts
  BY DEF GithubTypes
<1>2. (r \in completed) \in BOOLEAN
  OBVIOUS
<1> QED
  BY <1>1, <1>2, Zenon DEF Load

LEMMA GithubKeepsTypes  == GithubTypes /\ UNCHANGED github => GithubTypes'
BY DEF GithubTypes, github

LEMMA RootKeepsTypes    == RootTypes /\ UNCHANGED root => RootTypes'
BY DEF RootTypes, root

LEMMA PhaseKeepsType ==
  ASSUME PhaseType, NEW c, NEW p \in Phases, GoTo(c, p)
  PROVE  PhaseType'
BY DEF PhaseType, GoTo

LEMMA EnvironmentKeepsTypes ==
  ASSUME Types, Environment
  PROVE  Types'
<1> USE CollectionAssumption DEF Types, GithubTypes, Attempts
<1>1. GithubTypes' /\ UNCHANGED <<root, memory>>
  <2>1. ASSUME NEW s \in Suites, Announce(s) \/ Upload(s) \/ Report(s)
        PROVE  GithubTypes' /\ UNCHANGED <<root, memory>>
    BY <2>1 DEF Announce, Upload, Report, Statuses
  <2>2. ASSUME NEW r \in Runs, Complete(r) \/ Rerun(r)
        PROVE  GithubTypes' /\ UNCHANGED <<root, memory>>
    BY <2>2 DEF Complete, Rerun
  <2>3. CASE MoveHead
    BY <2>3 DEF MoveHead
  <2> QED
    BY <2>1, <2>2, <2>3 DEF Environment
<1> QED
  BY <1>1, RootKeepsTypes DEF PhaseType, MemoryTypes, memory

LEMMA SelectionKeepsTypes ==
  ASSUME Types, NEW c \in Commands,
         Start(c) \/ Poll(c) \/ StopWaiting(c) \/ Link(c) \/ NotSelected(c) \/ Crash(c)
  PROVE  Types'
<1>1. UNCHANGED <<github, root>> /\ PhaseType' /\ MemoryTypes'
  <2> USE DEF Types, MemoryTypes
  <2>1. CASE StartPr(c) \/ Poll(c)
    <3>1. PhaseType' /\ UNCHANGED <<github, root, asked, pins, known, outcome, late>>
      BY <2>1, PhaseKeepsType DEF StartPr, Poll, Snapshot, Phases
    <3>2. view' \in [Commands -> [Suites -> Statuses]]
      BY <2>1 DEF StartPr, Poll, Snapshot, GithubTypes
    <3> QED
      BY <3>1, <3>2
  <2>2. CASE StartCommit(c)
    <3>1. PhaseType' /\ UNCHANGED <<github, root, asked, pins, known, outcome, late>>
      BY <2>2, PhaseKeepsType DEF StartCommit, Phases
    <3>2. view' \in [Commands -> [Suites -> Statuses]]
      BY <2>2 DEF StartCommit, GithubTypes
    <3> QED
      BY <3>1, <3>2
  <2>3. CASE StartExplicit(c)
    <3>1. PhaseType' /\ UNCHANGED <<github, root, pins, outcome, late>>
      BY <2>3, PhaseKeepsType DEF StartExplicit, Phases
    <3>2. PICK r \in Runs, a \in Attempts :
            /\ asked' = [asked EXCEPT ![c] = a]
            /\ view' = [view EXCEPT ![c] = [s \in Suites |->
                          IF a = attempt[r] /\ r \notin completed
                          THEN "pending" ELSE "terminal"]]
            /\ known' = [known EXCEPT ![c][r] = Load(r)]
      BY <2>3 DEF StartExplicit
    <3>3. Load(r) \in ({None} \cup Attempts) \X BOOLEAN
      BY LoadTyped
    <3>4. asked' \in [Commands -> {None} \cup Attempts]
      BY <3>2
    <3>5. view' \in [Commands -> [Suites -> Statuses]]
      BY <3>2 DEF Statuses
    <3>6. known' \in [Commands -> [Runs -> ({None} \cup Attempts) \X BOOLEAN]]
      BY <3>2, <3>3
    <3> QED
      BY <3>1, <3>4, <3>5, <3>6
  <2>4. CASE StopWaiting(c) \/ NotSelected(c) \/ Crash(c)
    <3>1. /\ PhaseType'
          /\ UNCHANGED <<github, root, asked, view, pins, known, outcome, late>>
      BY <2>4, PhaseKeepsType DEF StopWaiting, NotSelected, Crash, Phases
    <3> QED
      BY <3>1
  <2>5. CASE Link(c)
    <3>1. PhaseType' /\ UNCHANGED <<github, root, asked, pins, outcome, late>>
      BY <2>5, PhaseKeepsType DEF Link, Phases
    <3>2. \A s \in Suites : SuiteState(c, s) \in Statuses
      BY DEF SuiteState, Statuses
    <3>3. \A r \in Runs : Load(r) \in ({None} \cup Attempts) \X BOOLEAN
      BY LoadTyped
    <3>4. view' \in [Commands -> [Suites -> Statuses]]
      BY <2>5, <3>2 DEF Link
    <3>5. known' \in [Commands -> [Runs -> ({None} \cup Attempts) \X BOOLEAN]]
      BY <2>5, <3>3 DEF Link
    <3> QED
      BY <3>1, <3>4, <3>5
  <2> QED
    BY <2>1, <2>2, <2>3, <2>4, <2>5 DEF Start
<1> QED
  BY <1>1, GithubKeepsTypes, RootKeepsTypes DEF Types

LEMMA CollectingKeepsTypes ==
  ASSUME Types, NEW c \in Commands,
         \/ Observe(c) \/ Pin(c) \/ Collected(c)
         \/ \E s \in Suites : Skip(c, s) \/ Reuse(c, s) \/ Fetch(c, s) \/ FetchFails(c, s)
  PROVE  Types'
<1>1. UNCHANGED github /\ RootTypes' /\ PhaseType' /\ MemoryTypes'
  <2> USE DEF Types, MemoryTypes
  <2>1. CASE Observe(c)
    <3>1. PhaseType' /\ UNCHANGED <<github, asked, view, pins, known, outcome, late>>
      BY <2>1, PhaseKeepsType DEF Observe, Phases
    <3>2. RootTypes'
      BY <2>1 DEF Observe, Requested, RootTypes
    <3> QED
      BY <3>1, <3>2
  <2>2. CASE Pin(c)
    <3>1. /\ PhaseType' /\ RootTypes'
          /\ UNCHANGED <<github, asked, view, known, outcome, late>>
      BY <2>2, PhaseKeepsType, RootKeepsTypes DEF Pin, Phases
    <3>2. pins' \in [Commands -> [Runs -> {None} \cup Attempts]]
      <4>1. CASE mode = "pr"
        BY <2>2, <4>1 DEF Pin, GithubTypes
      <4>2. CASE mode # "pr"
        <5>1. \A r \in Runs : known[c][r][1] \in {None} \cup Attempts
          OBVIOUS
        <5> DEFINE pinned == [r \in Runs |-> IF r \notin Linked(c) THEN None
                                            ELSE IF asked[c] # None THEN asked[c]
                                            ELSE known[c][r][1]]
        <5>2. pinned \in [Runs -> {None} \cup Attempts]
          BY <5>1
        <5>3. pins' = [pins EXCEPT ![c] = pinned]
          BY <2>2, <4>2 DEF Pin
        <5> QED
          BY <5>2, <5>3
      <4> QED
        BY <4>1, <4>2
    <3> QED
      BY <3>1, <3>2
  <2>3. CASE Collected(c)
    <3>1. /\ PhaseType' /\ RootTypes'
          /\ UNCHANGED <<github, asked, view, pins, known, outcome, late>>
      BY <2>3, PhaseKeepsType, RootKeepsTypes DEF Collected, Phases
    <3> QED
      BY <3>1
  <2>4. ASSUME NEW s \in Suites,
               Skip(c, s) \/ Reuse(c, s) \/ Fetch(c, s) \/ FetchFails(c, s)
        PROVE  UNCHANGED github /\ RootTypes' /\ PhaseType' /\ MemoryTypes'
    <3>1. PICK o \in Outcomes : outcome' = [outcome EXCEPT ![c][s] = o]
      BY <2>4 DEF Skip, Reuse, Fetch, FetchFails, Ends, Outcomes
    <3>2. outcome' \in [Commands -> [Suites -> Outcomes]]
      BY <3>1
    <3>3. UNCHANGED <<github, pc, asked, view, pins, known>> /\ late' \subseteq Commands
      BY <2>4 DEF Skip, Reuse, Fetch, FetchFails
    <3>4. CASE UNCHANGED root
      BY <3>2, <3>3, <3>4, RootKeepsTypes DEF PhaseType
    <3>5. CASE Fetch(c, s)
      <4>1. Pinned(c, s) \in Attempts
        BY <3>5, CollectionAssumption DEF Fetch, Pinned
      <4>2. summaries' \in [Suites -> [Attempts -> {None} \cup Attempts]]
        BY <3>5, <4>1 DEF Fetch, RootTypes, GithubTypes
      <4> QED
        BY <3>2, <3>3, <3>5, <4>2 DEF Fetch, RootTypes, PhaseType
    <3> QED
      BY <2>4, <3>4, <3>5 DEF Skip, Reuse, FetchFails
  <2> QED
    BY <2>1, <2>2, <2>3, <2>4
<1> QED
  BY <1>1, GithubKeepsTypes DEF Types

LEMMA PublicationKeepsTypes ==
  ASSUME Types, PhaseInv, NEW c \in Commands, Verify(c) \/ WriteManifest(c) \/ Finish(c)
  PROVE  Types'
<1>1. /\ PhaseType'
      /\ UNCHANGED <<github, asked, view, pins, known, outcome, late>>
  <2>1. CASE Verify(c) \/ Finish(c)
    BY <2>1, PhaseKeepsType DEF Verify, Finish, Types, Phases
  <2>2. CASE WriteManifest(c)
    BY <2>2, PhaseKeepsType DEF WriteManifest, GoTo, Types, Phases
  <2> QED
    BY <2>1, <2>2
<1>2. RootTypes'
  <2>1. CASE Verify(c)
    BY <2>1, RootKeepsTypes DEF Verify, Types
  <2>2. CASE WriteManifest(c)
    <3>1. \A s \in Suites : Selected(c, s) \in {None} \cup Attempts
      BY CollectionAssumption DEF Selected, Pinned, Types, MemoryTypes
    <3> QED
      BY <2>2, <3>1 DEF WriteManifest, RootTypes, Types
  <2>3. CASE Finish(c)
    <3>1. c \in requests
      BY <2>3 DEF Finish, PhaseInv, Observing
    <3> QED
      BY <2>3, <3>1 DEF Finish, RecordsRefusal, RootTypes, Types
  <2> QED
    BY <2>1, <2>2, <2>3
<1> QED
  BY <1>1, <1>2, GithubKeepsTypes DEF Types, MemoryTypes

LEMMA TypeStep ==
  ASSUME TypeOK, PhaseInv, [Next]_vars
  PROVE  TypeOK'
<1> SUFFICES Types'
  BY TypesAreOK, PTL
<1> Types
  BY TypesAreOK
<1>1. CASE UNCHANGED vars
  BY <1>1, GithubKeepsTypes, RootKeepsTypes
     DEF vars, memory, Types, PhaseType, MemoryTypes
<1>2. CASE Environment
  BY <1>2, EnvironmentKeepsTypes
<1>3. ASSUME NEW c \in Commands,
             Start(c) \/ Poll(c) \/ NotSelected(c) \/ Continue(c) \/ Crash(c)
      PROVE  Types'
  BY <1>3, SelectionKeepsTypes, CollectingKeepsTypes, PublicationKeepsTypes DEF Continue
<1> QED
  BY <1>1, <1>2, <1>3 DEF Next

-----------------------------------------------------------------------------
(* Who changes what *)

Step(c) == Start(c) \/ Poll(c) \/ NotSelected(c) \/ Continue(c) \/ Crash(c)

LEMMA EnvironmentLeaves == Environment => UNCHANGED <<root, memory>>
BY DEF Environment, Announce, Upload, Report, Complete, Rerun, MoveHead

LEMMA CommandLeaves ==
  ASSUME NEW c \in Commands, Step(c)
  PROVE  UNCHANGED <<github, mode>>
BY DEF Step, Start, StartPr, StartCommit, StartExplicit, Poll, NotSelected, Continue,
       StopWaiting, Link, Observe, Pin, Skip, Reuse, Fetch, FetchFails, Collected,
       Verify, WriteManifest, Finish, Crash, root

(* A command's step leaves the memory and the observation of others alone.  *)
LEMMA Others ==
  ASSUME Types, NEW c \in Commands, Step(c), NEW d \in Commands, d # c
  PROVE  /\ pc'[d] = pc[d] /\ asked'[d] = asked[d] /\ view'[d] = view[d]
         /\ pins'[d] = pins[d] /\ known'[d] = known[d] /\ outcome'[d] = outcome[d]
         /\ d \in late' <=> d \in late
         /\ d \in requests' <=> d \in requests
         /\ results'[d] = results[d]
<1> USE DEF Types, MemoryTypes, PhaseType, RootTypes, root, GoTo
<1>1. CASE StartPr(c) \/ Poll(c)
  BY <1>1 DEF StartPr, Poll, Snapshot
<1>2. CASE StartCommit(c) \/ Link(c)
  BY <1>2 DEF StartCommit, Link
<1>3. CASE StartExplicit(c)
  BY <1>3 DEF StartExplicit
<1>4. CASE NotSelected(c) \/ StopWaiting(c) \/ Crash(c) \/ Collected(c) \/ Verify(c)
  BY <1>4 DEF NotSelected, StopWaiting, Crash, Collected, Verify
<1>5. CASE Observe(c) \/ Finish(c)
  BY <1>5 DEF Observe, Requested, Finish, RecordsRefusal
<1>6. CASE Pin(c)
  BY <1>6 DEF Pin
<1>7. ASSUME NEW s \in Suites, Skip(c, s) \/ Reuse(c, s) \/ Fetch(c, s) \/ FetchFails(c, s)
      PROVE  /\ UNCHANGED <<pc, asked, view, pins, known, requests, results>>
             /\ outcome'[d] = outcome[d]
             /\ d \in late' <=> d \in late
  BY <1>7 DEF Skip, Reuse, Fetch, FetchFails, Ends
<1>8. CASE WriteManifest(c)
  BY <1>8 DEF WriteManifest
<1> QED
  BY <1>1, <1>2, <1>3, <1>4, <1>5, <1>6, <1>7, <1>8 DEF Step, Start, Continue

LEMMA CollectionInit == Init => CollectionInv
<1> SUFFICES ASSUME Init PROVE CollectionInv
  OBVIOUS
<1> USE CollectionAssumption DEF Init, Attempts, None, NoManifest
<1>1. TypeOK
  <2>1. GithubTypes /\ PhaseType
    BY DEF GithubTypes, Statuses, PhaseType, Phases
  <2>2. RootTypes
    BY DEF RootTypes
  <2>3. MemoryTypes
    BY DEF MemoryTypes, Statuses, Outcomes
  <2> QED
    BY <2>1, <2>2, <2>3, TypesAreOK DEF Types
<1>2. PhaseInv /\ ManifestInv /\ HeadInv /\ LateInv
  BY DEF PhaseInv, ManifestInv, HeadInv, LateInv, Selecting, Observing
<1>3. FilesInv /\ SummariesInv /\ OutcomeInv /\ SelectionInv
  BY DEF FilesInv, SummariesInv, OutcomeInv, SelectionInv
<1>4. ViewInv
  BY DEF ViewInv, ViewOf, Selecting
<1> QED
  BY <1>1, <1>2, <1>3, <1>4 DEF CollectionInv

-----------------------------------------------------------------------------
(* Phases, requests and results *)

LEMMA PhaseStep ==
  ASSUME Types, PhaseInv, LateInv, HeadInv, [Next]_vars
  PROVE  PhaseInv'
<1> USE DEF PhaseInv
<1>1. CASE UNCHANGED <<root, memory>>
  BY <1>1 DEF root, memory
<1>2. ASSUME NEW c \in Commands, Step(c)
      PROVE  PhaseInv'
  <2> DEFINE Own(d) ==
        /\ pc[d] \in Selecting => d \notin requests
        /\ pc[d] \in Observing => d \in requests
        /\ d \in requests /\ pc[d] \in {"done", "failed"} => results[d] # "none"
        /\ pc[d] \in Selecting \cup {"pinning"} =>
             \A s \in Suites : outcome[d][s] = "unknown"
        /\ pc[d] = "idle" => asked[d] = None
        /\ pc[d] \in Selecting \cup {"pinning", "verified", "written"} => d \notin late
  <2>1. Own(c) /\ pc \in [Commands -> Phases]
    BY DEF Types, PhaseType
  <2>2. \A d \in Commands : d # c => Own(d)'
    BY <1>2, Others
  <2>3. Own(c)'
    <3> USE <2>1 DEF Selecting, Observing, root, GoTo
    <3>1. CASE StartPr(c) \/ Poll(c) \/ StartCommit(c) \/ StopWaiting(c) \/ Link(c)
                \/ NotSelected(c)
      BY <3>1 DEF StartPr, Poll, Snapshot, StartCommit, StopWaiting, Link, NotSelected
    <3>2. CASE StartExplicit(c)
      BY <3>2 DEF StartExplicit
    <3>3. CASE Observe(c) \/ Pin(c)
      BY <3>3 DEF Observe, Requested, Pin
    <3>4. CASE Collected(c) \/ Crash(c)
      BY <3>4 DEF Collected, Crash, Ended
    <3>5. ASSUME NEW s \in Suites,
                 Skip(c, s) \/ Reuse(c, s) \/ Fetch(c, s) \/ FetchFails(c, s)
          PROVE  Own(c)'
      BY <3>5 DEF Skip, Reuse, Fetch, FetchFails, Ends, Collecting
    <3>6. CASE Verify(c)
      BY <3>6, CollectionAssumption DEF Verify, Unchanged, LateInv, HeadInv, Types, RootTypes
    <3>7. CASE WriteManifest(c)
      BY <3>7 DEF WriteManifest
    <3>8. CASE Finish(c)
      BY <3>8 DEF Finish, RecordsRefusal, Types, RootTypes
    <3> QED
      BY <1>2, <3>1, <3>2, <3>3, <3>4, <3>5, <3>6, <3>7, <3>8 DEF Step, Start, Continue
  <2> QED
    BY <2>2, <2>3
<1> QED
  BY <1>1, <1>2, EnvironmentLeaves DEF Next, vars, Step

-----------------------------------------------------------------------------
(* The head, and who was late *)

LEMMA HeadStep ==
  ASSUME Types, HeadInv, LateInv, [Next]_vars
  PROVE  HeadInv' /\ LateInv'
<1>1. CASE UNCHANGED vars
  BY <1>1 DEF vars, github, root, memory, HeadInv, LateInv
<1>2. CASE Environment
  <2>1. UNCHANGED <<mode, late>> /\ (atHead' # atHead => ~atHead' /\ mode = "pr")
    BY <1>2 DEF Environment, Announce, Upload, Report, Complete, Rerun, MoveHead,
                root, memory
  <2> QED
    BY <2>1 DEF HeadInv, LateInv
<1>3. ASSUME NEW c \in Commands, Step(c)
      PROVE  HeadInv' /\ LateInv'
  <2>1. UNCHANGED <<mode, atHead>>
    BY <1>3, CommandLeaves DEF github
  <2>2. late' = late \/ ~atHead
    BY <1>3 DEF Step, Start, StartPr, StartCommit, StartExplicit, Poll, NotSelected,
                Continue, StopWaiting, Link, Observe, Pin, Skip, Reuse, Fetch,
                FetchFails, Collected, Verify, WriteManifest, Finish, Crash
  <2> QED
    BY <2>1, <2>2 DEF HeadInv, LateInv
<1> QED
  BY <1>1, <1>2, <1>3 DEF Next, Step

(* Only WriteManifest changes the manifest.                                 *)
LEMMA ManifestWriters ==
  ASSUME NEW c \in Commands, Step(c), ~WriteManifest(c)
  PROVE  UNCHANGED manifest
BY DEF Step, Start, StartPr, StartCommit, StartExplicit, Poll, NotSelected, Continue,
       StopWaiting, Link, Observe, Pin, Skip, Reuse, Fetch, FetchFails, Collected,
       Verify, Finish, Crash, root

(* What a command does once it has written the manifest.                    *)
LEMMA AfterPublication ==
  ASSUME Types, NEW c \in Commands, Step(c), pc[c] \in Published
  PROVE  /\ pc'[c] \in Published
         /\ asked'[c] = asked[c]
         /\ c \in late' <=> c \in late
<1> USE DEF Types, PhaseType, Published, Ended, GoTo
<1>1. pc[c] \notin {"idle", "waiting", "linking", "selected", "pinning", "collecting",
                   "collected", "verified"}
  OBVIOUS
<1>2. Finish(c) \/ Crash(c)
  BY <1>1 DEF Step, Start, StartPr, StartCommit, StartExplicit, Poll, NotSelected,
              Continue, StopWaiting, Link, Observe, Pin, Skip, Reuse, Fetch, FetchFails,
              Collected, Verify, WriteManifest, Collecting
<1> QED
  BY <1>2 DEF Finish, Crash, memory

LEMMA ManifestStep ==
  ASSUME Types, PhaseInv, ManifestInv, [Next]_vars
  PROVE  ManifestInv'
<1> USE DEF ManifestInv
<1>1. CASE UNCHANGED <<root, memory>>
  BY <1>1 DEF root, memory
<1>2. ASSUME NEW c \in Commands, Step(c)
      PROVE  ManifestInv'
  <2>1. CASE WriteManifest(c) /\ manifest' # manifest
    <3>1. manifest'.by = c /\ pc'[c] \in {"written", "refused"} /\ UNCHANGED late
      BY <2>1 DEF WriteManifest, GoTo, Types, PhaseType
    <3>2. c \notin late
      BY <2>1 DEF WriteManifest, PhaseInv
    <3> QED
      BY <3>1, <3>2, CollectionAssumption DEF None, Published
  <2>2. CASE UNCHANGED manifest /\ manifest.by = None
    BY <2>2
  <2>3. CASE UNCHANGED manifest /\ manifest.by # None
    <3>1. manifest.by \in Commands
      BY <2>3 DEF Types, RootTypes
    <3>2. CASE manifest.by = c
      BY <1>2, <2>3, <3>1, <3>2, AfterPublication
    <3>3. CASE manifest.by # c
      BY <1>2, <2>3, <3>1, <3>3, Others
    <3> QED
      BY <3>2, <3>3
  <2> QED
    BY <1>2, <2>1, <2>2, <2>3, ManifestWriters
<1> QED
  BY <1>1, <1>2, EnvironmentLeaves DEF Next, vars, Step

-----------------------------------------------------------------------------
(* Attempts, files and summaries *)

LEMMA FilesStep ==
  ASSUME Types, FilesInv, [Next]_vars
  PROVE  FilesInv'
<1> USE CollectionAssumption
<1>1. CASE UNCHANGED github
  BY <1>1 DEF github, FilesInv
<1>2. ASSUME NEW s \in Suites, Announce(s) \/ Upload(s) \/ Report(s)
      PROVE  FilesInv'
  BY <1>2 DEF Announce, Upload, Report, FilesInv, Types, GithubTypes
<1>3. ASSUME NEW r \in Runs, Complete(r)
      PROVE  FilesInv'
  BY <1>3 DEF Complete, FilesInv
<1>4. ASSUME NEW r \in Runs, Rerun(r)
      PROVE  FilesInv'
  <2>1. /\ attempt' = [attempt EXCEPT ![r] = @ + 1] /\ r \in completed
        /\ completed' = completed \ {r} /\ UNCHANGED files
    BY <1>4 DEF Rerun
  <2>2. ASSUME NEW s \in Suites
        PROVE  /\ files'[s] \in {attempt'[RunOf[s]] - 1, attempt'[RunOf[s]]}
               /\ RunOf[s] \in completed' => files'[s] = attempt'[RunOf[s]]
    <3>1. RunOf[s] \in Runs /\ attempt[RunOf[s]] \in Nat
      BY DEF Types, GithubTypes, Attempts
    <3>2. CASE RunOf[s] = r
      BY <2>1, <3>1, <3>2 DEF FilesInv, Types, GithubTypes
    <3>3. CASE RunOf[s] # r
      BY <2>1, <3>1, <3>3 DEF FilesInv, Types, GithubTypes
    <3> QED
      BY <3>2, <3>3
  <2> QED
    BY <2>2 DEF FilesInv
<1>5. CASE MoveHead
  BY <1>5 DEF MoveHead, FilesInv
<1>6. ASSUME NEW c \in Commands, Step(c)
      PROVE  FilesInv'
  BY <1>1, <1>6, CommandLeaves
<1> QED
  BY <1>1, <1>2, <1>3, <1>4, <1>5, <1>6 DEF Next, Environment, Step, vars

(* A run only goes on, and what is over stays so.                           *)
LEMMA AttemptsGrow ==
  ASSUME Types, [Next]_vars, NEW r \in Runs
  PROVE  /\ attempt[r] \in Nat /\ attempt'[r] \in Nat /\ attempt[r] <= attempt'[r]
         /\ \A a \in Nat : Over(r, a) => Over(r, a)'
<1>0. attempt[r] \in Nat /\ attempt[r] \in Attempts
  BY CollectionAssumption DEF Types, GithubTypes, Attempts
<1>1. CASE UNCHANGED <<attempt, completed>>
  BY <1>0, <1>1 DEF Over
<1>2. ASSUME NEW q \in Runs, Complete(q)
      PROVE  attempt' = attempt /\ completed \subseteq completed'
  BY <1>2 DEF Complete
<1>3. ASSUME NEW q \in Runs, Rerun(q)
      PROVE  \/ UNCHANGED attempt /\ (r \in completed' <=> r \in completed)
             \/ attempt'[r] = attempt[r] + 1
             \/ attempt'[r] = attempt[r] /\ (r \in completed' <=> r \in completed)
  BY <1>3 DEF Rerun, Types, GithubTypes
<1>4. ASSUME NEW s \in Suites, Announce(s) \/ Upload(s) \/ Report(s)
      PROVE  UNCHANGED <<attempt, completed>>
  BY <1>4 DEF Announce, Upload, Report
<1>5. CASE MoveHead
  BY <1>1, <1>5 DEF MoveHead
<1>6. ASSUME NEW c \in Commands, Step(c)
      PROVE  UNCHANGED <<attempt, completed>>
  BY <1>6, CommandLeaves DEF github
<1>7. \/ attempt'[r] = attempt[r] /\ (r \in completed => r \in completed')
      \/ attempt'[r] = attempt[r] + 1
  BY <1>1, <1>2, <1>3, <1>4, <1>5, <1>6 DEF Next, Environment, Step, vars, github, MoveHead
<1> QED
  BY <1>0, <1>7 DEF Over

(* A summary is made from the files of the moment, and stays.               *)
LEMMA SummaryWriters ==
  ASSUME Types, [Next]_vars
  PROVE  \/ UNCHANGED summaries
         \/ \E c \in Commands, s \in Suites : Fetch(c, s)
<1>1. CASE UNCHANGED vars \/ Environment
  BY <1>1, EnvironmentLeaves DEF vars, root
<1>2. ASSUME NEW c \in Commands, Step(c), ~ \E s \in Suites : Fetch(c, s)
      PROVE  UNCHANGED summaries
  BY <1>2 DEF Step, Start, StartPr, StartCommit, StartExplicit, Poll, NotSelected,
              Continue, StopWaiting, Link, Observe, Pin, Skip, Reuse, FetchFails,
              Collected, Verify, WriteManifest, Finish, Crash, root
<1> QED
  BY <1>1, <1>2 DEF Next, Step

LEMMA SummariesStay ==
  ASSUME Types, [Next]_vars, NEW s \in Suites, NEW a \in Attempts, summaries[s][a] # None
  PROVE  summaries'[s][a] = summaries[s][a]
<1>1. ASSUME NEW c \in Commands, NEW t \in Suites, Fetch(c, t)
      PROVE  summaries'[s][a] = summaries[s][a]
  BY <1>1 DEF Fetch, Types, RootTypes
<1> QED
  BY <1>1, SummaryWriters

LEMMA SummariesStep ==
  ASSUME Types, FilesInv, SummariesInv, [Next]_vars
  PROVE  SummariesInv'
<1> SUFFICES ASSUME NEW s \in Suites, NEW a \in Attempts, summaries'[s][a] # None
             PROVE  a <= summaries'[s][a] /\ summaries'[s][a] <= attempt'[RunOf[s]]
  BY DEF SummariesInv
<1>1. /\ RunOf[s] \in Runs /\ a \in Nat
      /\ attempt[RunOf[s]] \in Nat /\ attempt'[RunOf[s]] \in Nat
      /\ attempt[RunOf[s]] <= attempt'[RunOf[s]]
  BY CollectionAssumption, AttemptsGrow DEF Attempts
<1>2. CASE summaries'[s][a] = summaries[s][a]
  <2>1. summaries[s][a] \in Nat
    BY CollectionAssumption DEF Types, RootTypes, Attempts, None
  <2> QED
    BY <1>1, <1>2, <2>1 DEF SummariesInv
<1>3. ASSUME NEW c \in Commands, NEW t \in Suites, Fetch(c, t),
             summaries'[s][a] # summaries[s][a]
      PROVE  a <= summaries'[s][a] /\ summaries'[s][a] <= attempt'[RunOf[s]]
  <2>1. s = t /\ a = Pinned(c, t) /\ summaries'[s][a] = files[s]
    BY <1>3 DEF Fetch, Types, RootTypes
  <2>2. a < attempt[RunOf[s]] \/ files[s] = a
    BY <1>3, <2>1 DEF Fetch, CollectJob
  <2>3. files[s] \in {attempt[RunOf[s]] - 1, attempt[RunOf[s]]}
    BY DEF FilesInv
  <2> QED
    BY <1>1, <2>1, <2>2, <2>3
<1> QED
  BY <1>2, <1>3, SummaryWriters

-----------------------------------------------------------------------------
(* Snapshots of a commit's runs, and pins *)

LEMMA OverTyped ==
  ASSUME Types, NEW r \in Runs
  PROVE  /\ attempt[r] \in Nat /\ 1 <= attempt[r] /\ Over(r, None)
         /\ Load(r)[1] = attempt[r] /\ (r \in completed => Over(r, Load(r)[1]))
<1>1. attempt[r] \in 1 .. MaxAttempt
  BY CollectionAssumption DEF Types, GithubTypes, Attempts
<1>2. Load(r)[1] = attempt[r]
  BY DEF Load
<1> QED
  BY <1>1, <1>2, CollectionAssumption DEF Over, None

LEMMA MemoryTyped ==
  ASSUME Types, NEW c \in Commands
  PROVE  /\ asked[c] \in Nat
         /\ \A r \in Runs : known[c][r][1] \in Nat
BY CollectionAssumption DEF Types, MemoryTypes, Attempts, None

(* What is over stays so for a command that keeps its view.                 *)
LEMMA ViewKept ==
  ASSUME Types, [Next]_vars, NEW c \in Commands,
         asked'[c] = asked[c], view'[c] = view[c], known'[c] = known[c],
         NEW s \in Suites,
         view[c][s] = "terminal" =>
           IF asked[c] = None THEN Over(RunOf[s], known[c][RunOf[s]][1])
                              ELSE Over(RunOf[s], asked[c])
  PROVE  (view[c][s] = "terminal" =>
           IF asked[c] = None THEN Over(RunOf[s], known[c][RunOf[s]][1])
                              ELSE Over(RunOf[s], asked[c]))'
<1>1. RunOf[s] \in Runs
  BY CollectionAssumption
<1>2. \A a \in Nat : Over(RunOf[s], a) => Over(RunOf[s], a)'
  BY <1>1, AttemptsGrow
<1>3. asked[c] \in Nat /\ known[c][RunOf[s]][1] \in Nat
  BY <1>1, MemoryTyped
<1>4. CASE asked[c] = None
  <2>1. Over(RunOf[s], known[c][RunOf[s]][1]) => Over(RunOf[s], known[c][RunOf[s]][1])'
    <3>1. PICK a \in Nat : a = known[c][RunOf[s]][1] /\ a = known'[c][RunOf[s]][1]
      BY <1>3
    <3> QED
      BY <1>2, <3>1 DEF Over
  <2> QED
    BY <1>4, <2>1
<1>5. CASE asked[c] # None
  <2>1. Over(RunOf[s], asked[c]) => Over(RunOf[s], asked[c])'
    <3>1. PICK a \in Nat : a = asked[c] /\ a = asked'[c]
      BY <1>3
    <3> QED
      BY <1>2, <3>1 DEF Over
  <2> QED
    BY <1>5, <2>1
<1> QED
  BY <1>4, <1>5

LEMMA ViewStep ==
  ASSUME Types, ViewInv, [Next]_vars
  PROVE  ViewInv'
<1> SUFFICES ASSUME mode' = "commit", NEW d \in Commands
             PROVE  ViewOf(d)'
  BY DEF ViewInv
<1>0. mode = "commit" /\ ViewOf(d)
  <2>1. UNCHANGED mode
    BY EnvironmentLeaves, CommandLeaves DEF Next, Step, vars, root
  <2> QED
    BY <2>1 DEF ViewInv
<1>1. ASSUME pc'[d] = pc[d], asked'[d] = asked[d], view'[d] = view[d],
             known'[d] = known[d], pins'[d] = pins[d]
      PROVE  ViewOf(d)'
  BY <1>0, <1>1, ViewKept DEF ViewOf
<1>2. CASE UNCHANGED <<root, memory>>
  BY <1>1, <1>2 DEF memory
<1>3. ASSUME NEW c \in Commands, Step(c), c # d
      PROVE  ViewOf(d)'
  BY <1>1, <1>3, Others
<1>4. ASSUME Step(d)
      PROVE  ViewOf(d)'
  <2> USE DEF Types, PhaseType, GoTo
  <2>1. CASE StartPr(d) \/ Poll(d) \/ StopWaiting(d)
    BY <1>0, <2>1 DEF StartPr, Poll, StopWaiting, ViewOf
  <2>2. CASE StartCommit(d)
    BY <1>0, <2>2 DEF StartCommit, ViewOf, Selecting
  <2>3. CASE StartExplicit(d)
    <3>1. PICK r \in Runs, a \in Attempts :
            /\ a <= attempt[r]
            /\ asked' = [asked EXCEPT ![d] = a]
            /\ view' = [view EXCEPT ![d] = [s \in Suites |->
                          IF a = attempt[r] /\ r \notin completed
                          THEN "pending" ELSE "terminal"]]
      BY <2>3 DEF StartExplicit
    <3>2. /\ pc'[d] = "selected" /\ asked'[d] = a /\ a # None /\ a \in Nat
          /\ pins'[d] = pins[d] /\ UNCHANGED <<attempt, completed>>
      BY <2>3, <3>1, CollectionAssumption
         DEF StartExplicit, MemoryTypes, github, Attempts, None
    <3>3. \A s \in Suites : view'[d][s] = "terminal" => Over(RunOf[s], a)
      <4>1. \A s \in Suites : RunOf[s] = r
        BY <2>3, CollectionAssumption DEF StartExplicit
      <4>2. attempt[r] \in Nat
        BY OverTyped
      <4>3. ASSUME NEW s \in Suites, view'[d][s] = "terminal"
            PROVE  ~(a = attempt[r] /\ r \notin completed)
        BY <3>1, <4>3 DEF MemoryTypes
      <4> QED
        BY <3>1, <3>2, <4>1, <4>2, <4>3 DEF Over
    <3>4. \A s \in Suites : Over(RunOf[s], a) => Over(RunOf[s], a)'
      BY <3>2 DEF Over
    <3> QED
      BY <1>0, <2>3, <3>2, <3>3, <3>4 DEF ViewOf, Selecting, StartExplicit, Over
  <2>4. CASE Link(d)
    <3>1. /\ pc'[d] = "selected" /\ asked'[d] = None /\ pins'[d] = pins[d]
          /\ UNCHANGED <<attempt, completed>>
      BY <1>0, <2>4 DEF Link, ViewOf, github
    <3>2. ASSUME NEW s \in Suites, view'[d][s] = "terminal"
          PROVE  Over(RunOf[s], known[d][RunOf[s]][1])'
      <4>1. RunOf[s] \in Runs
        BY CollectionAssumption
      <4>2. view'[d][s] = SuiteState(d, s)
        BY <2>4 DEF Link, MemoryTypes
      <4>3. RunOf[s] \in completed /\ view[d][s] # "absent"
        BY <3>2, <4>2 DEF SuiteState
      <4>4. known'[d][RunOf[s]] = Load(RunOf[s])
        BY <2>4, <4>1, <4>3 DEF Link, Linked, MemoryTypes
      <4> QED
        BY <3>1, <4>1, <4>3, <4>4, OverTyped DEF Over
    <3> QED
      BY <1>0, <2>4, <3>1, <3>2 DEF ViewOf, Selecting, Link
  <2>5. CASE NotSelected(d) \/ Crash(d)
    <3>1. /\ pc'[d] \in {"failed", "crashed"} /\ asked'[d] = asked[d]
          /\ view'[d] = view[d] /\ known'[d] = known[d] /\ pins'[d] = pins[d]
      BY <2>5 DEF NotSelected, Crash
    <3>2. \A s \in Suites : view[d][s] = "terminal" =>
            IF asked[d] = None THEN Over(RunOf[s], known[d][RunOf[s]][1])
                               ELSE Over(RunOf[s], asked[d])
      BY <1>0, OverTyped, CollectionAssumption DEF ViewOf
    <3>3. (\A s \in Suites : view[d][s] = "terminal" =>
            IF asked[d] = None THEN Over(RunOf[s], known[d][RunOf[s]][1])
                               ELSE Over(RunOf[s], asked[d]))'
      BY <3>1, <3>2, ViewKept
    <3> QED
      BY <1>0, <3>1, <3>3 DEF ViewOf, Selecting
  <2>6. CASE Observe(d)
    BY <1>0, <2>6, ViewKept DEF Observe, ViewOf, Selecting
  <2>7. CASE Pin(d)
    <3>1. /\ pc'[d] = "collecting" /\ pc[d] = "pinning" /\ asked'[d] = asked[d]
          /\ view'[d] = view[d] /\ known'[d] = known[d]
      BY <2>7 DEF Pin
    <3>2. \A r \in Runs :
            pins'[d][r] \in {None, IF asked[d] = None THEN known[d][r][1] ELSE asked[d]}
      BY <1>0, <2>7 DEF Pin, MemoryTypes
    <3> QED
      BY <1>0, <3>1, <3>2, ViewKept DEF ViewOf, Selecting
  <2>8. ASSUME NEW s \in Suites, Skip(d, s) \/ Reuse(d, s) \/ Fetch(d, s) \/ FetchFails(d, s)
        PROVE  ViewOf(d)'
    BY <1>1, <2>8 DEF Skip, Reuse, Fetch, FetchFails
  <2>9. CASE Collected(d) \/ Verify(d) \/ WriteManifest(d) \/ Finish(d)
    <3>1. /\ pc[d] \notin Selecting \cup {"pinning"}
          /\ pc'[d] \in Phases \ (Selecting \cup {"pinning"})
          /\ UNCHANGED <<asked, view, known, pins>>
      BY <2>9 DEF Collected, Verify, WriteManifest, Finish, Phases, Selecting
    <3> QED
      BY <1>0, <3>1, ViewKept DEF ViewOf, Selecting
  <2> QED
    BY <1>4, <2>1, <2>2, <2>3, <2>4, <2>5, <2>6, <2>7, <2>8, <2>9 DEF Step, Start, Continue
<1> QED
  BY <1>2, <1>3, <1>4, EnvironmentLeaves DEF Next, vars, Step

-----------------------------------------------------------------------------
(* What a command has completed *)

LEMMA OutcomeStep ==
  ASSUME Types, PhaseInv, SummariesInv, ViewInv, OutcomeInv, [Next]_vars
  PROVE  OutcomeInv'
<1> SUFFICES ASSUME NEW d \in Commands, NEW s \in Suites, outcome'[d][s] = "completed"
             PROVE  /\ Pinned(d, s)' # None
                    /\ summaries'[s][Pinned(d, s)'] # None
                    /\ mode' = "commit" => Over(RunOf[s], Pinned(d, s))'
                    /\ mode' = "commit" /\ pc'[d] = "verified" /\ asked'[d] = None =>
                         summaries'[s][Pinned(d, s)'] = Pinned(d, s)'
  BY DEF OutcomeInv
<1> DEFINE a == Pinned(d, s)
<1>0. /\ UNCHANGED mode /\ RunOf[s] \in Runs
      /\ a \in {None} \cup Attempts /\ (a # None => a \in Attempts) /\ a \in Nat
      /\ \A b \in Nat : Over(RunOf[s], b) => Over(RunOf[s], b)'
  <2>1. UNCHANGED mode
    BY EnvironmentLeaves, CommandLeaves DEF Next, Step, vars, root
  <2>2. a \in {None} \cup Attempts /\ RunOf[s] \in Runs
    BY CollectionAssumption DEF Types, MemoryTypes, Pinned
  <2>3. a \in Nat
    BY <2>2, CollectionAssumption DEF Attempts, None
  <2> QED
    BY <2>1, <2>2, <2>3, AttemptsGrow
\* It was completed before, and the command was not verified just now.
<1>1. ASSUME outcome'[d] = outcome[d], pins'[d] = pins[d], asked'[d] = asked[d],
             pc'[d] = "verified" => pc[d] = "verified"
      PROVE  /\ Pinned(d, s)' = a /\ a # None
             /\ summaries'[s][a] # None
             /\ mode = "commit" => Over(RunOf[s], a)'
             /\ mode = "commit" /\ pc'[d] = "verified" /\ asked'[d] = None =>
                  summaries'[s][a] = a
  <2>1. Pinned(d, s)' = a
    BY <1>1 DEF Pinned
  <2>2. /\ a # None /\ summaries[s][a] # None
        /\ mode = "commit" => Over(RunOf[s], a)
        /\ mode = "commit" /\ pc'[d] = "verified" /\ asked'[d] = None =>
             summaries[s][a] = a
    BY <1>1 DEF OutcomeInv
  <2>3. summaries'[s][a] = summaries[s][a]
    BY <1>0, <2>2, SummariesStay
  <2> QED
    BY <1>0, <2>1, <2>2, <2>3 DEF Over
<1>2. CASE UNCHANGED <<root, memory>>
  BY <1>0, <1>1, <1>2 DEF memory, Over
<1>3. ASSUME NEW c \in Commands, Step(c), c # d
      PROVE  /\ outcome'[d] = outcome[d] /\ pins'[d] = pins[d]
             /\ asked'[d] = asked[d] /\ pc'[d] = pc[d]
  BY <1>3, Others
<1>4. CASE Step(d)
  <2>1. CASE pc[d] \in Selecting \cup {"pinning"}
    <3>1. UNCHANGED outcome
      BY <1>4, <2>1 DEF Step, Start, StartPr, StartCommit, StartExplicit, Poll, NotSelected,
            Continue, StopWaiting, Link, Observe, Pin, Skip, Reuse, Fetch, FetchFails,
            Collecting, Collected, Verify, WriteManifest, Finish, Crash, Selecting, memory
    <3> QED
      BY <2>1, <3>1 DEF PhaseInv
  <2>2. ASSUME pc[d] = "collecting", NEW t \in Suites,
               Skip(d, t) \/ Reuse(d, t) \/ Fetch(d, t) \/ FetchFails(d, t),
               outcome'[d] # outcome[d]
        PROVE  /\ Pinned(d, s)' = a /\ a # None /\ summaries'[s][a] # None
               /\ mode = "commit" => Over(RunOf[s], a)'
               /\ pc'[d] # "verified"
    <3>1. /\ UNCHANGED <<pc, pins, asked>> /\ Pinned(d, s)' = a
      BY <2>2 DEF Skip, Reuse, Fetch, FetchFails, Pinned
    <3>2. CASE outcome[d][s] = "completed"
      <4>1. /\ a # None /\ summaries[s][a] # None
            /\ mode = "commit" => Over(RunOf[s], a)
        BY <3>2 DEF OutcomeInv
      <4>2. summaries'[s][a] = summaries[s][a]
        BY <1>0, <4>1, SummariesStay
      <4> QED
        BY <1>0, <2>2, <3>1, <4>1, <4>2 DEF Over
    <3>3. CASE outcome[d][s] # "completed"
      <4>1. s = t /\ (Reuse(d, s) \/ Fetch(d, s))
        BY <2>2, <3>3 DEF Skip, Reuse, Fetch, FetchFails, Ends, Types, MemoryTypes
      <4>2. a # None /\ view[d][s] = "terminal"
        BY <4>1 DEF Reuse, Fetch
      <4>3. summaries'[s][a] # None
        <5>1. CASE Reuse(d, s)
          BY <5>1 DEF Reuse, root
        <5>2. CASE Fetch(d, s)
          BY <1>0, <4>2, <5>2 DEF Fetch, Types, RootTypes
        <5> QED
          BY <4>1, <5>1, <5>2
      <4>4. ASSUME mode = "commit"
            PROVE  Over(RunOf[s], a)
        <5>1. ViewOf(d)
          BY <4>4 DEF ViewInv
        <5>2. pins[d][RunOf[s]] \in {None, IF asked[d] = None THEN known[d][RunOf[s]][1]
                                                            ELSE asked[d]}
          BY <1>0, <2>2, <5>1 DEF ViewOf, Selecting
        <5>3. IF asked[d] = None THEN Over(RunOf[s], known[d][RunOf[s]][1])
                                 ELSE Over(RunOf[s], asked[d])
          BY <2>2, <4>2, <5>1 DEF ViewOf
        <5> QED
          BY <4>2, <5>2, <5>3 DEF Pinned
      <4> QED
        BY <1>0, <2>2, <3>1, <4>2, <4>3, <4>4 DEF Over
    <3> QED
      BY <3>2, <3>3
  <2>3. CASE Verify(d)
    <3>1. /\ outcome'[d] = outcome[d] /\ pins'[d] = pins[d] /\ asked'[d] = asked[d]
          /\ known'[d] = known[d] /\ UNCHANGED <<attempt, summaries>> /\ Pinned(d, s)' = a
          /\ pc[d] = "collected" /\ pc'[d] \in {"verified", "refused"}
          /\ pc'[d] = "verified" => Unchanged(d)
      BY <2>3 DEF Verify, GoTo, github, root, Types, PhaseType, Pinned
    <3>2. /\ a # None /\ summaries[s][a] # None
          /\ mode = "commit" => Over(RunOf[s], a)
      BY <3>1 DEF OutcomeInv
    <3>3. ASSUME mode = "commit", pc'[d] = "verified", asked[d] = None
          PROVE  summaries[s][a] = a
      <4>1. a = known[d][RunOf[s]][1]
        BY <1>0, <3>1, <3>2, <3>3 DEF ViewInv, ViewOf, Selecting, Pinned
      <4>2. a = attempt[RunOf[s]]
        BY <1>0, <3>1, <3>2, <3>3, <4>1, OverTyped DEF Unchanged
      <4>3. a <= summaries[s][a] /\ summaries[s][a] <= a
        BY <1>0, <3>2, <4>2 DEF SummariesInv
      <4>4. summaries[s][a] \in Nat
        BY <1>0, <3>2, CollectionAssumption DEF Types, RootTypes, Attempts, None
      <4> QED
        BY <1>0, <4>3, <4>4
    <3> QED
      BY <1>0, <3>1, <3>2, <3>3 DEF Over
  <2>4. CASE ~Verify(d) /\ UNCHANGED <<outcome, pins, asked>>
    <3>1. pc'[d] = "verified" => pc[d] = "verified"
      BY <1>4, <2>4 DEF Step, Start, StartPr, StartCommit, StartExplicit, Poll, Snapshot,
            NotSelected, Continue, StopWaiting, Link, Observe, Pin, Skip, Reuse, Fetch,
            FetchFails, Collected, WriteManifest, Finish, Crash, GoTo, Types, PhaseType
    <3> QED
      BY <1>0, <1>1, <2>4, <3>1
  <2>5. \/ pc[d] \in Selecting \cup {"pinning"} \/ Verify(d) \/ UNCHANGED <<outcome, pins, asked>>
        \/ /\ pc[d] = "collecting"
           /\ \E t \in Suites : Skip(d, t) \/ Reuse(d, t) \/ Fetch(d, t) \/ FetchFails(d, t)
    BY <1>4 DEF Step, Start, StartPr, StartCommit, StartExplicit, Poll, NotSelected,
          Continue, StopWaiting, Link, Observe, Pin, Skip, Reuse, Fetch, FetchFails,
          Collecting, Collected, WriteManifest, Finish, Crash, Selecting
  <2>6. ASSUME NEW t \in Suites, Skip(d, t) \/ Reuse(d, t) \/ Fetch(d, t) \/ FetchFails(d, t)
        PROVE  UNCHANGED <<pc, pins, asked>>
    BY <2>6 DEF Skip, Reuse, Fetch, FetchFails
  <2> QED
    BY <1>0, <1>1, <2>1, <2>2, <2>3, <2>4, <2>5, <2>6
<1> QED
  BY <1>0, <1>1, <1>2, <1>3, <1>4, EnvironmentLeaves DEF Next, vars, Step

-----------------------------------------------------------------------------
(* What the manifest selects *)

LEMMA SelectionStep ==
  ASSUME Types, PhaseInv, ManifestInv, OutcomeInv, SelectionInv, [Next]_vars
  PROVE  SelectionInv'
<1> SUFFICES ASSUME NEW s \in Suites, manifest'.suites[s] # None
             PROVE  /\ summaries'[s][manifest'.suites[s]] # None
                    /\ mode' = "commit" => Over(RunOf[s], manifest.suites[s])'
                    /\ mode' = "commit" /\ asked'[manifest'.by] = None =>
                         summaries'[s][manifest'.suites[s]] = manifest'.suites[s]
  BY DEF SelectionInv
<1>0. /\ UNCHANGED mode /\ RunOf[s] \in Runs
      /\ \A b \in Nat : Over(RunOf[s], b) => Over(RunOf[s], b)'
  BY CollectionAssumption, AttemptsGrow, EnvironmentLeaves, CommandLeaves
     DEF Next, Step, vars, root
<1>1. CASE UNCHANGED manifest
  <2> DEFINE a == manifest.suites[s]
  <2>1. /\ a # None /\ summaries[s][a] # None /\ manifest.by # None
        /\ mode = "commit" => Over(RunOf[s], a)
        /\ mode = "commit" /\ asked[manifest.by] = None => summaries[s][a] = a
    BY <1>1 DEF SelectionInv, ManifestInv, NoManifest
  <2>2. a \in Attempts /\ a \in Nat /\ manifest.by \in Commands
    BY <2>1, CollectionAssumption DEF Types, RootTypes, Attempts
  <2>3. summaries'[s][a] = summaries[s][a]
    BY <2>1, <2>2, SummariesStay
  <2>4. asked'[manifest.by] = asked[manifest.by]
    <3>1. pc[manifest.by] \in Published
      BY <2>1 DEF ManifestInv
    <3> QED
      BY <2>2, <3>1, AfterPublication, Others, EnvironmentLeaves DEF Next, Step, vars, memory
  <2> QED
    BY <1>0, <1>1, <2>1, <2>2, <2>3, <2>4 DEF Over
<1>2. ASSUME NEW c \in Commands, WriteManifest(c), manifest' # manifest
      PROVE  /\ summaries'[s][manifest'.suites[s]] # None
             /\ mode' = "commit" => Over(RunOf[s], manifest.suites[s])'
             /\ mode' = "commit" /\ asked'[manifest'.by] = None =>
                  summaries'[s][manifest'.suites[s]] = manifest'.suites[s]
  <2>1. /\ pc[c] = "verified" /\ manifest'.by = c
        /\ manifest'.suites[s] = Selected(c, s)
        /\ UNCHANGED <<mode, summaries, asked, attempt, completed>>
    BY <1>2 DEF WriteManifest, github
  <2>2. outcome[c][s] = "completed" /\ manifest'.suites[s] = Pinned(c, s)
    BY <2>1 DEF Selected
  <2> QED
    BY <2>1, <2>2 DEF OutcomeInv, Over
<1> QED
  BY <1>1, <1>2, ManifestWriters, EnvironmentLeaves DEF Next, Step, vars, root

-----------------------------------------------------------------------------
(* Theorems *)

LEMMA CollectionStep == CollectionInv /\ [Next]_vars => CollectionInv'
<1> SUFFICES ASSUME CollectionInv, [Next]_vars PROVE CollectionInv'
  OBVIOUS
<1> USE DEF CollectionInv
<1>1. Types
  BY TypesAreOK
<1> QED
  BY <1>1, TypeStep, PhaseStep, ManifestStep, HeadStep, FilesStep, SummariesStep,
     ViewStep, OutcomeStep, SelectionStep

LEMMA CollectionInductive == Spec => []CollectionInv
BY CollectionInit, CollectionStep, PTL DEF Spec

(* TypeOK: the variables have their types, and a result has its request.    *)
THEOREM CollectionTypeCorrect == Spec => []TypeOK
<1>1. CollectionInv => TypeOK
  BY DEF CollectionInv
<1> QED
  BY <1>1, CollectionInductive, PTL

(* ManifestSelectsPublished: manifest.json never selects an execution whose *)
(* summary is not on disk.                                                  *)
THEOREM SelectsPublished == Spec => []ManifestSelectsPublished
<1>1. CollectionInv => ManifestSelectsPublished
  BY DEF CollectionInv, SelectionInv, ManifestSelectsPublished
<1> QED
  BY <1>1, CollectionInductive, PTL

(* ManifestNamesItsAttempt: the evidence that collect-commit's manifest     *)
(* selects comes from the attempt it is filed under.                        *)
THEOREM NamesItsAttempt == Spec => []ManifestNamesItsAttempt
<1>1. CollectionInv => ManifestNamesItsAttempt
  BY DEF CollectionInv, SelectionInv, ManifestNamesItsAttempt
<1> QED
  BY <1>1, CollectionInductive, PTL

(* EvidenceIsNeverOlder: no attempt's evidence comes from one before it.    *)
THEOREM NeverOlder == Spec => []EvidenceIsNeverOlder
<1>1. CollectionInv => EvidenceIsNeverOlder
  <2> SUFFICES ASSUME CollectionInv, NEW s \in Suites, NEW a \in Attempts,
                      summaries[s][a] # None
               PROVE  summaries[s][a] >= a
    BY DEF EvidenceIsNeverOlder
  <2>1. a <= summaries[s][a]
    BY DEF CollectionInv, SummariesInv
  <2>2. a \in Nat /\ summaries[s][a] \in Nat
    BY CollectionAssumption DEF CollectionInv, TypeOK, Attempts
  <2> QED
    BY <2>1, <2>2
<1> QED
  BY <1>1, CollectionInductive, PTL

(* ManifestSelectsCompleted: collect-commit selects completed attempts only. *)
THEOREM SelectsCompleted == Spec => []ManifestSelectsCompleted
<1>1. CollectionInv => ManifestSelectsCompleted
  BY DEF CollectionInv, SelectionInv, ManifestSelectsCompleted, Over
<1> QED
  BY <1>1, CollectionInductive, PTL

(* NoResultMeansInterrupted: a command that ended without a result, and had *)
(* made its request, was interrupted.                                       *)
THEOREM OnlyInterruptedLackResults == Spec => []NoResultMeansInterrupted
<1>1. CollectionInv => NoResultMeansInterrupted
  BY DEF CollectionInv, TypeOK, PhaseInv, NoResultMeansInterrupted, Ended
<1> QED
  BY <1>1, CollectionInductive, PTL

(* ManifestOfTheHead: whoever wrote the manifest collected nothing after    *)
(* the head had moved.                                                      *)
THEOREM OfTheHead == Spec => []ManifestOfTheHead
<1>1. CollectionInv => ManifestOfTheHead
  BY CollectionAssumption DEF CollectionInv, TypeOK, ManifestInv, ManifestOfTheHead, None
<1> QED
  BY <1>1, CollectionInductive, PTL

=============================================================================
