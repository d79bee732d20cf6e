------------------------- MODULE EvidenceStoreProofs -------------------------
(***************************************************************************)
(* Proofs about EvidenceStore, for any number of collectors, files,        *)
(* contents and run versions.                                              *)
(***************************************************************************)
EXTENDS EvidenceStore, TLAPS

-----------------------------------------------------------------------------
(* Who changes what *)

\* The actions that retain what GitHub logged.
RetainsLogs(c) ==
  Resolve(c) \/ SourceLog(c) \/ DiagnoseSuite(c) \/ \E f \in Files : Diagnose(c, f)

(* Every file and every part of a collector's memory that the invariants    *)
(* below speak of has one writer.                                           *)
LEMMA Writers ==
  ASSUME [Next]_vars
  PROVE  /\ UNCHANGED text
            \/ \E c \in Collectors, f \in Files : Promote(c, f)
         /\ UNCHANGED receipt
            \/ \E c \in Collectors, f \in Files : WriteReceipt(c, f)
         /\ UNCHANGED runFile \/ \E c \in Collectors : Describe(c)
         /\ UNCHANGED logs \/ \E c \in Collectors : RetainsLogs(c)
         /\ UNCHANGED failures \/ \E c \in Collectors : Reconcile(c)
         /\ UNCHANGED index \/ \E c \in Collectors : PutIndex(c)
         /\ UNCHANGED inventory \/ \E c \in Collectors : PutInventory(c)
         /\ UNCHANGED summary \/ \E c \in Collectors : PutSummary(c)
         /\ UNCHANGED <<stage, body>>
            \/ \E c \in Collectors, f \in Files : Fetch(c, f)
         /\ UNCHANGED listing \/ \E c \in Collectors : ListRaw(c)
         /\ UNCHANGED expected \/ \E c \in Collectors : CheckIndex(c)
         /\ UNCHANGED answer
            \/ \E c \in Collectors : CheckSummary(c) \/ PutSummary(c)
<1> USE DEF world, directory, memory
<1>1. CASE UNCHANGED vars
  BY <1>1 DEF vars
<1>2. CASE RunChanges \/ \E f \in Files : Publish(f)
  BY <1>2 DEF RunChanges, Publish
<1>3. ASSUME NEW c \in Collectors, Begin(c) \/ Crash(c)
      PROVE  UNCHANGED <<directory, expected, stage, body, listing, answer>>
  BY <1>3 DEF Begin, Crash
<1>4. ASSUME NEW c \in Collectors, CheckIndex(c)
      PROVE  UNCHANGED <<directory, stage, body, listing, answer>>
  BY <1>4 DEF CheckIndex
<1>5. ASSUME NEW c \in Collectors, CheckUnindexed(c) \/ Abort(c)
      PROVE  UNCHANGED <<directory, expected, stage, body, listing, answer>>
  BY <1>5 DEF CheckUnindexed, Abort
<1>6. ASSUME NEW c \in Collectors, CheckSummary(c)
      PROVE  UNCHANGED <<directory, expected, stage, body, listing>>
  BY <1>6 DEF CheckSummary
<1>7. ASSUME NEW c \in Collectors, Describe(c)
      PROVE  UNCHANGED <<text, receipt, logs, failures, index, inventory,
                         summary, expected, stage, body, listing, answer>>
  BY <1>7 DEF Describe
<1>8. ASSUME NEW c \in Collectors, NEW f \in Files,
             Reread(c, f) \/ Request(c, f) \/ Get(c, f) \/ FetchFails(c, f)
      PROVE  UNCHANGED <<directory, expected, listing, answer>>
  BY <1>8 DEF Reread, Request, Get, FetchFails
<1>9. ASSUME NEW c \in Collectors, NEW f \in Files, WriteReceipt(c, f)
      PROVE  UNCHANGED <<text, runFile, logs, failures, index, inventory,
                         summary, expected, listing, answer>>
  BY <1>9 DEF WriteReceipt
<1>10. ASSUME NEW c \in Collectors, NEW f \in Files, Promote(c, f)
       PROVE  UNCHANGED <<receipt, runFile, logs, failures, index, inventory,
                          summary, expected, listing, answer>>
  BY <1>10 DEF Promote
<1>11. ASSUME NEW c \in Collectors, Reconcile(c)
       PROVE  UNCHANGED <<text, receipt, runFile, logs, index, inventory, summary,
                          expected, stage, body, listing, answer>>
  BY <1>11 DEF Reconcile
<1>12. ASSUME NEW c \in Collectors, ListRaw(c)
       PROVE  UNCHANGED <<directory, expected, stage, body, answer>>
  BY <1>12 DEF ListRaw
<1>13. ASSUME NEW c \in Collectors, PutIndex(c)
       PROVE  UNCHANGED <<text, receipt, runFile, logs, failures, inventory,
                          summary, expected, stage, body, listing, answer>>
  BY <1>13 DEF PutIndex
<1>14. ASSUME NEW c \in Collectors, PutInventory(c)
       PROVE  UNCHANGED <<text, receipt, runFile, logs, failures, index, summary,
                          expected, stage, body, listing, answer>>
  BY <1>14 DEF PutInventory
<1>15. ASSUME NEW c \in Collectors, PutSummary(c)
       PROVE  UNCHANGED <<text, receipt, runFile, logs, failures, index, inventory,
                          expected, stage, body, listing>>
  BY <1>15 DEF PutSummary
<1>19. ASSUME NEW c \in Collectors,
              Resolve(c) \/ SourceLog(c) \/ DiagnoseSuite(c)
       PROVE  UNCHANGED <<text, receipt, runFile, failures, index, inventory,
                          summary, expected, stage, body, listing, answer>>
  BY <1>19 DEF Resolve, SourceLog, DiagnoseSuite
<1>20. ASSUME NEW c \in Collectors, NEW f \in Files, Diagnose(c, f)
       PROVE  UNCHANGED <<text, receipt, runFile, failures, index, inventory,
                          summary, expected, body, listing, answer>>
  BY <1>20 DEF Diagnose
<1>16. CASE \E c \in Collectors :
              Begin(c) \/ Crash(c) \/ CheckIndex(c) \/ CheckUnindexed(c)
                \/ Abort(c) \/ CheckSummary(c) \/ Describe(c)
  BY <1>16, <1>3, <1>4, <1>5, <1>6, <1>7
<1>17. CASE \E c \in Collectors, f \in Files : Fetch(c, f)
  BY <1>17, <1>8, <1>9, <1>10, <1>20 DEF Fetch, RetainsLogs
<1>18. CASE \E c \in Collectors :
              Reconcile(c) \/ ListRaw(c) \/ PutIndex(c) \/ PutInventory(c)
                \/ PutSummary(c)
  BY <1>18, <1>11, <1>12, <1>13, <1>14, <1>15
<1>21. CASE \E c \in Collectors :
              Resolve(c) \/ SourceLog(c) \/ DiagnoseSuite(c)
  BY <1>21, <1>19 DEF RetainsLogs
<1> QED
  BY <1>1, <1>2, <1>16, <1>17, <1>18, <1>21 DEF Next, Collect

(* Every step moves the program counter of at most one collector, and only  *)
(* Begin pins run metadata and decides about binaries.                      *)
LEMMA Steps ==
  ASSUME [Next]_vars
  PROVE  /\ UNCHANGED pc
            \/ \E c \in Collectors, p \in Phases : GoTo(c, p)
         /\ UNCHANGED <<binaries, base, pinned>> \/ \E c \in Collectors : Begin(c)
         /\ UNCHANGED remote \/ \E f \in Files : Publish(f)
         /\ UNCHANGED run \/ RunChanges
<1> USE DEF world, directory, memory
<1>1. CASE UNCHANGED vars
  BY <1>1 DEF vars
<1>2. CASE RunChanges \/ \E f \in Files : Publish(f)
  BY <1>2 DEF RunChanges, Publish
<1>3. ASSUME NEW c \in Collectors, Begin(c) \/ Collect(c) \/ Crash(c)
      PROVE  UNCHANGED pc \/ \E p \in Phases : GoTo(c, p)
  <2>1. CASE Begin(c) \/ Crash(c)
    BY <2>1 DEF Begin, Crash, Phases
  <2>2. CASE CheckIndex(c) \/ CheckUnindexed(c)
    BY <2>2 DEF CheckIndex, CheckUnindexed, Phases
  <2>3. CASE CheckSummary(c) \/ Describe(c) \/ Resolve(c)
    BY <2>3 DEF CheckSummary, Describe, Resolve, Phases
  <2>4. CASE \E f \in Files : Fetch(c, f)
    BY <2>4 DEF Fetch, Reread, Request, Get, FetchFails, WriteReceipt, Promote, Diagnose
  <2>5. CASE SourceLog(c) \/ Abort(c) \/ Reconcile(c) \/ DiagnoseSuite(c)
    BY <2>5 DEF SourceLog, Abort, Reconcile, DiagnoseSuite, Phases
  <2>6. CASE ListRaw(c) \/ PutIndex(c)
    BY <2>6 DEF ListRaw, PutIndex, Phases
  <2>7. CASE PutInventory(c) \/ PutSummary(c)
    BY <2>7 DEF PutInventory, PutSummary, Phases
  <2> QED
    BY <1>3, <2>1, <2>2, <2>3, <2>4, <2>5, <2>6, <2>7 DEF Collect
<1>4. ASSUME NEW c \in Collectors, Collect(c) \/ Crash(c)
      PROVE  UNCHANGED <<binaries, base, pinned, remote, run>>
  <2>1. CASE CheckIndex(c) \/ CheckUnindexed(c) \/ Crash(c)
    BY <2>1 DEF CheckIndex, CheckUnindexed, Crash
  <2>2. CASE CheckSummary(c) \/ Describe(c) \/ Resolve(c)
    BY <2>2 DEF CheckSummary, Describe, Resolve
  <2>3. CASE \E f \in Files : Fetch(c, f)
    BY <2>3 DEF Fetch, Reread, Request, Get, FetchFails, WriteReceipt, Promote, Diagnose
  <2>4. CASE SourceLog(c) \/ Abort(c) \/ Reconcile(c) \/ DiagnoseSuite(c)
    BY <2>4 DEF SourceLog, Abort, Reconcile, DiagnoseSuite
  <2>5. CASE ListRaw(c) \/ PutIndex(c)
    BY <2>5 DEF ListRaw, PutIndex
  <2>6. CASE PutInventory(c) \/ PutSummary(c)
    BY <2>6 DEF PutInventory, PutSummary
  <2> QED
    BY <1>4, <2>1, <2>2, <2>3, <2>4, <2>5, <2>6 DEF Collect
<1>5. ASSUME NEW c \in Collectors, Begin(c)
      PROVE  UNCHANGED world
  BY <1>5 DEF Begin
<1> QED
  BY <1>1, <1>2, <1>3, <1>4, <1>5 DEF Next

-----------------------------------------------------------------------------
(* Types *)

\* What a collector holds while its fetch of a file is past the answer.
HoldsBody ==
  \A c \in Collectors, f \in Files :
    stage[c][f] \in {"streaming", "receipted", "retained"} => body[c][f] # None

\* Past the downloads every mandatory file is retained.
Publishing == {"reconciled", "listed", "indexed", "inventoried"}
PastDownloads ==
  \A c \in Collectors : pc[c] \in Publishing => HasMandatory(c)

HasListing == \A c \in Collectors : pc[c] = "listed" => listing[c] # None

TypeInv == TypeOK /\ HoldsBody /\ PastDownloads /\ HasListing

(* A summary is computed from complete evidence.                            *)
LEMMA SummaryOfType ==
  ASSUME TypeOK, HoldsBody, NEW c \in Collectors, HasMandatory(c)
  PROVE  /\ EvidenceOf(c) \in Evidence
         /\ SummaryOf(c) \in Summaries
<1>1. ASSUME NEW f \in Mandatory
      PROVE  body[c][f] \in Contents
  <2>1. f \in Files /\ stage[c][f] = "retained"
    BY DEF HasMandatory, Files
  <2>2. body[c][f] \in Maybe(Contents)
    BY <2>1 DEF TypeOK
  <2> QED
    BY <2>1, <2>2 DEF HoldsBody, Maybe
<1>2. EvidenceOf(c) \in Evidence
  BY <1>1 DEF EvidenceOf, Evidence
<1>3. Base(c) \in Bases
  BY DEF Base, Bases, TypeOK, Maybe
<1> QED
  BY <1>2, <1>3 DEF SummaryOf, Summaries

(* What the walk of raw/ finds is an index.                                 *)
LEMMA RawTreeType ==
  ASSUME TypeOK, HoldsBody, NEW c \in Collectors, HasMandatory(c)
  PROVE  RawTree(c) \in RawIndexes
<1>1. LiveTemps \in SUBSET Temporaries
  BY DEF LiveTemps
<1>2. SummaryOf(c) \in Summaries
  BY SummaryOfType
<1>3. /\ text \in [Files -> Maybe(Contents)]
      /\ receipt \in [Files -> Maybe(Contents)]
      /\ runFile \in Maybe(RunVersions)
      /\ logs \in SUBSET LogFiles
  BY DEF TypeOK
<1> QED
  BY <1>1, <1>2, <1>3 DEF RawTree, RawIndexes

(* Each file of the directory keeps its type.                               *)
LEMMA DirectoryTyped ==
  ASSUME TypeInv, [Next]_vars
  PROVE  /\ text' \in [Files -> Maybe(Contents)]
         /\ receipt' \in [Files -> Maybe(Contents)]
         /\ runFile' \in Maybe(RunVersions)
         /\ logs' \subseteq LogFiles
         /\ failures' \in Maybe(Evidence)
         /\ index' \in Maybe(RawIndexes)
         /\ inventory' \in Maybe(Inventories)
         /\ summary' \in Maybe(Summaries)
<1> USE DEF TypeInv
<1>0. \A c \in Collectors, f \in Files : body[c][f] \in Maybe(Contents)
  BY DEF TypeOK
<1>1. text' \in [Files -> Maybe(Contents)]
  <2>1. text \in [Files -> Maybe(Contents)]
    BY DEF TypeOK
  <2>2. ASSUME NEW c \in Collectors, NEW f \in Files, Promote(c, f)
        PROVE  text' \in [Files -> Maybe(Contents)]
    BY <1>0, <2>1, <2>2 DEF Promote
  <2> QED
    BY <2>1, <2>2, Writers
<1>2. receipt' \in [Files -> Maybe(Contents)]
  <2>1. receipt \in [Files -> Maybe(Contents)]
    BY DEF TypeOK
  <2>2. ASSUME NEW c \in Collectors, NEW f \in Files, WriteReceipt(c, f)
        PROVE  receipt' \in [Files -> Maybe(Contents)]
    BY <1>0, <2>1, <2>2 DEF WriteReceipt
  <2> QED
    BY <2>1, <2>2, Writers
<1>3. runFile' \in Maybe(RunVersions)
  BY Writers DEF TypeOK, Describe
<1>8. logs' \subseteq LogFiles
  <2>1. logs \subseteq LogFiles
    BY DEF TypeOK
  <2>2. ASSUME NEW c \in Collectors, RetainsLogs(c)
        PROVE  logs' \subseteq LogFiles
    <3>1. PICK new \in SUBSET LogFiles : logs' = logs \cup new
      BY <2>2 DEF RetainsLogs, Resolve, SourceLog, DiagnoseSuite, Diagnose,
                  LogFiles
    <3> QED
      BY <2>1, <3>1
  <2> QED
    BY <2>1, <2>2, Writers
<1>4. failures' \in Maybe(Evidence)
  <2>1. CASE UNCHANGED failures
    BY <2>1 DEF TypeOK
  <2>2. ASSUME NEW c \in Collectors, Reconcile(c)
        PROVE  failures' \in Maybe(Evidence)
    BY <2>2, SummaryOfType DEF Reconcile, TypeOK, Maybe
  <2> QED
    BY <2>1, <2>2, Writers
<1>5. index' \in Maybe(RawIndexes)
  BY Writers DEF TypeOK, PutIndex
<1>6. inventory' \in Maybe(Inventories)
  BY Writers DEF TypeOK, PutInventory, Maybe
<1>7. summary' \in Maybe(Summaries)
  <2>1. CASE UNCHANGED summary
    BY <2>1 DEF TypeOK
  <2>2. ASSUME NEW c \in Collectors, PutSummary(c)
        PROVE  summary' \in Maybe(Summaries)
    <3>1. HasMandatory(c)
      BY <2>2 DEF PutSummary, SummaryIsNext, PastDownloads, Publishing
    <3> QED
      BY <2>2, <3>1, SummaryOfType DEF PutSummary, TypeOK, Maybe
  <2> QED
    BY <2>1, <2>2, Writers
<1> QED
  BY <1>1, <1>2, <1>3, <1>4, <1>5, <1>6, <1>7, <1>8

(* Each collector's memory of its progress keeps its type.                  *)
LEMMA ProgressTyped ==
  ASSUME TypeInv, [Next]_vars
  PROVE  /\ pc' \in [Collectors -> Phases]
         /\ stage' \in [Collectors -> [Files -> Stages]]
         /\ body' \in [Collectors -> [Files -> Maybe(Contents)]]
<1>1. /\ pc \in [Collectors -> Phases]
      /\ stage \in [Collectors -> [Files -> Stages]]
      /\ body \in [Collectors -> [Files -> Maybe(Contents)]]
      /\ text \in [Files -> Maybe(Contents)]
      /\ remote \in [Files -> Maybe(Contents)]
  BY DEF TypeInv, TypeOK
<1>2. pc' \in [Collectors -> Phases]
  BY <1>1, Steps DEF GoTo
<1>3. CASE UNCHANGED <<stage, body>>
  BY <1>1, <1>2, <1>3
<1>4. ASSUME NEW c \in Collectors, NEW f \in Files, Fetch(c, f)
      PROVE  /\ stage' \in [Collectors -> [Files -> Stages]]
             /\ body' \in [Collectors -> [Files -> Maybe(Contents)]]
  <2>1. ASSUME NEW s \in Stages, SetStage(c, f, s)
        PROVE  stage' \in [Collectors -> [Files -> Stages]]
    BY <1>1, <2>1 DEF SetStage
  <2>2. \E s \in Stages : SetStage(c, f, s)
    BY <1>4 DEF Fetch, Reread, Request, Get, FetchFails, WriteReceipt, Promote, Diagnose,
                Fails, Stages
  <2>3. \/ UNCHANGED body
        \/ \E v \in Maybe(Contents) : body' = [body EXCEPT ![c][f] = v]
    <3>1. text[f] \in Maybe(Contents) /\ remote[f] \in Maybe(Contents)
      BY <1>1
    <3>2. CASE Reread(c, f) \/ Get(c, f)
      BY <3>1, <3>2 DEF Reread, Get
    <3>3. CASE \/ Request(c, f) \/ FetchFails(c, f) \/ WriteReceipt(c, f)
               \/ Promote(c, f) \/ Diagnose(c, f)
      BY <3>3 DEF Request, FetchFails, WriteReceipt, Promote, Diagnose
    <3> QED
      BY <1>4, <3>2, <3>3 DEF Fetch
  <2>4. ASSUME NEW v \in Maybe(Contents), body' = [body EXCEPT ![c][f] = v]
        PROVE  body' \in [Collectors -> [Files -> Maybe(Contents)]]
    BY <1>1, <2>4
  <2>5. body' \in [Collectors -> [Files -> Maybe(Contents)]]
    BY <1>1, <2>3, <2>4
  <2> QED
    BY <2>1, <2>2, <2>5
<1> QED
  BY <1>2, <1>3, <1>4, Writers

(* So does the rest of it.                                                  *)
LEMMA KnowledgeTyped ==
  ASSUME TypeInv, [Next]_vars
  PROVE  /\ remote' \in [Files -> Maybe(Contents)]
         /\ run' \in RunVersions
         /\ binaries' \in [Collectors -> BOOLEAN]
         /\ base' \in [Collectors -> Maybe(Configured)]
         /\ pinned' \in [Collectors -> Maybe(RunVersions)]
         /\ expected' \in [Collectors -> Maybe(Summaries)]
         /\ listing' \in [Collectors -> Maybe(RawIndexes)]
         /\ answer' \in [Collectors -> Maybe(Summaries)]
<1> USE DEF TypeInv
<1>1. remote' \in [Files -> Maybe(Contents)]
  BY Steps DEF TypeOK, Publish
<1>2. run' \in RunVersions
  BY Steps DEF TypeOK, RunChanges
<1>3. binaries' \in [Collectors -> BOOLEAN]
  BY Steps DEF TypeOK, Begin
<1>8. base' \in [Collectors -> Maybe(Configured)]
  BY Steps DEF TypeOK, Begin, Maybe
<1>4. pinned' \in [Collectors -> Maybe(RunVersions)]
  BY Steps DEF TypeOK, Begin, Maybe
<1>5. expected' \in [Collectors -> Maybe(Summaries)]
  <2>1. index # None => index.summary \in Summaries
    BY DEF TypeOK, Maybe, RawIndexes
  <2> QED
    BY <2>1, Writers DEF TypeOK, CheckIndex, Maybe
<1>6. listing' \in [Collectors -> Maybe(RawIndexes)]
  <2>1. CASE UNCHANGED listing
    BY <2>1 DEF TypeOK
  <2>2. ASSUME NEW c \in Collectors, ListRaw(c)
        PROVE  listing' \in [Collectors -> Maybe(RawIndexes)]
    <3>1. RawTree(c) \in RawIndexes
      BY <2>2, RawTreeType DEF ListRaw, PastDownloads, Publishing
    <3> QED
      BY <2>2, <3>1 DEF ListRaw, TypeOK, Maybe
  <2> QED
    BY <2>1, <2>2, Writers
<1>7. answer' \in [Collectors -> Maybe(Summaries)]
  <2>1. CASE UNCHANGED answer
    BY <2>1 DEF TypeOK
  <2>2. ASSUME NEW c \in Collectors, CheckSummary(c)
        PROVE  answer' \in [Collectors -> Maybe(Summaries)]
    BY <2>2 DEF CheckSummary, TypeOK
  <2>3. ASSUME NEW c \in Collectors, PutSummary(c)
        PROVE  answer' \in [Collectors -> Maybe(Summaries)]
    <3>1. HasMandatory(c)
      BY <2>3 DEF PutSummary, SummaryIsNext, PastDownloads, Publishing
    <3> QED
      BY <2>3, <3>1, SummaryOfType DEF PutSummary, TypeOK, Maybe
  <2> QED
    BY <2>1, <2>2, <2>3, Writers
<1> QED
  BY <1>1, <1>2, <1>3, <1>4, <1>5, <1>6, <1>7, <1>8

(* A fetch that is past the answer holds a body.                            *)
LEMMA HoldsBodyStep ==
  ASSUME TypeInv, [Next]_vars
  PROVE  HoldsBody'
<1>1. CASE UNCHANGED <<stage, body>>
  BY <1>1 DEF TypeInv, HoldsBody
<1>2. ASSUME NEW c \in Collectors, NEW f \in Files, Fetch(c, f)
      PROVE  HoldsBody'
  <2>1. SUFFICES ASSUME NEW d \in Collectors, NEW g \in Files,
                        stage'[d][g] \in {"streaming", "receipted", "retained"}
                 PROVE  body'[d][g] # None
    BY DEF HoldsBody
  <2>2. /\ stage \in [Collectors -> [Files -> Stages]]
        /\ body \in [Collectors -> [Files -> Maybe(Contents)]]
        /\ stage[d][g] \in {"streaming", "receipted", "retained"}
             => body[d][g] # None
    BY DEF TypeInv, TypeOK, HoldsBody
  <2>3. CASE Reread(c, f)
    BY <2>1, <2>2, <2>3 DEF Reread, Fails, SetStage
  <2>4. CASE Get(c, f)
    BY <2>1, <2>2, <2>4 DEF Get, SetStage
  <2>5. CASE Request(c, f) \/ FetchFails(c, f) \/ Diagnose(c, f)
    BY <2>1, <2>2, <2>5 DEF Request, FetchFails, Diagnose, Fails, SetStage
  <2>6. CASE WriteReceipt(c, f)
    BY <2>1, <2>2, <2>6 DEF WriteReceipt, Fails, SetStage
  <2>7. CASE Promote(c, f)
    BY <2>1, <2>2, <2>7 DEF Promote, Fails, SetStage
  <2> QED
    BY <1>2, <2>3, <2>4, <2>5, <2>6, <2>7 DEF Fetch
<1> QED
  BY <1>1, <1>2, Writers

(* What is retained, a collector never loses again: no step leaves it.      *)
LEMMA RetainedStays ==
  ASSUME TypeInv, [Next]_vars,
         NEW c \in Collectors, NEW f \in Files, stage[c][f] = "retained"
  PROVE  stage'[c][f] = "retained" /\ body'[c][f] = body[c][f]
<1>1. /\ stage \in [Collectors -> [Files -> Stages]]
      /\ body \in [Collectors -> [Files -> Maybe(Contents)]]
  BY DEF TypeInv, TypeOK
<1>2. ASSUME NEW d \in Collectors, NEW g \in Files, Fetch(d, g)
      PROVE  stage'[c][f] = "retained" /\ body'[c][f] = body[c][f]
  <2>1. CASE Reread(d, g) \/ Request(d, g) \/ Get(d, g)
    BY <1>1, <2>1 DEF Reread, Request, Get, Fails, SetStage
  <2>2. CASE FetchFails(d, g) \/ Diagnose(d, g)
    BY <1>1, <2>2 DEF FetchFails, Diagnose, Fails, SetStage, Awaits
  <2>3. CASE WriteReceipt(d, g)
    BY <1>1, <2>3 DEF WriteReceipt, Fails, SetStage
  <2>4. CASE Promote(d, g)
    BY <1>1, <2>4 DEF Promote, Fails, SetStage
  <2> QED
    BY <1>2, <2>1, <2>2, <2>3, <2>4 DEF Fetch
<1> QED
  BY <1>2, Writers

(* The phases a collector has to pass an action of its own to reach.        *)
LEMMA Moves ==
  ASSUME TypeInv, [Next]_vars, NEW c \in Collectors,
         pc'[c] # pc[c], pc'[c] \in Publishing \cup {"done"}
  PROVE  \/ Reconcile(c) /\ pc'[c] = "reconciled"
         \/ ListRaw(c) /\ pc'[c] = "listed"
         \/ PutIndex(c) /\ pc'[c] = "indexed"
         \/ PutInventory(c) /\ pc'[c] = "inventoried"
         \/ (CheckSummary(c) \/ PutSummary(c)) /\ pc'[c] = "done"
<1>0. pc \in [Collectors -> Phases]
  BY DEF TypeInv, TypeOK
<1>1. ASSUME NEW d \in Collectors, NEW p, GoTo(d, p)
      PROVE  d = c /\ pc'[c] = p
  BY <1>0, <1>1 DEF GoTo
<1> USE DEF Publishing
<1>2. ~UNCHANGED vars
  BY DEF vars, memory
<1>3. ~RunChanges /\ \A f \in Files : ~Publish(f)
  BY DEF RunChanges, Publish, memory
<1>4. ASSUME NEW d \in Collectors
      PROVE  /\ ~Begin(d) /\ ~Crash(d)
             /\ ~CheckIndex(d) /\ ~CheckUnindexed(d)
             /\ ~Describe(d) /\ ~Resolve(d) /\ ~SourceLog(d)
             /\ ~Abort(d) /\ ~DiagnoseSuite(d)
  BY <1>1 DEF Begin, Crash, CheckIndex, CheckUnindexed, Describe, Resolve,
              SourceLog, Abort, DiagnoseSuite, memory
<1>5. ASSUME NEW d \in Collectors, NEW f \in Files
      PROVE  ~Fetch(d, f)
  BY DEF Fetch, Reread, Request, Get, FetchFails, WriteReceipt, Promote, Diagnose
<1>6. ASSUME NEW d \in Collectors, CheckSummary(d) \/ PutSummary(d)
      PROVE  d = c /\ pc'[c] = "done"
  BY <1>1, <1>6 DEF CheckSummary, PutSummary
<1>7. ASSUME NEW d \in Collectors, Reconcile(d)
      PROVE  d = c /\ pc'[c] = "reconciled"
  BY <1>1, <1>7 DEF Reconcile
<1>8. ASSUME NEW d \in Collectors, ListRaw(d)
      PROVE  d = c /\ pc'[c] = "listed"
  BY <1>1, <1>8 DEF ListRaw
<1>9. ASSUME NEW d \in Collectors, PutIndex(d)
      PROVE  d = c /\ pc'[c] = "indexed"
  BY <1>1, <1>9 DEF PutIndex
<1>10. ASSUME NEW d \in Collectors, PutInventory(d)
       PROVE  d = c /\ pc'[c] = "inventoried"
  BY <1>1, <1>10 DEF PutInventory
<1> QED
  BY <1>2, <1>3, <1>4, <1>5, <1>6, <1>7, <1>8, <1>9, <1>10
     DEF Next, Collect

(* A collector past the downloads has them all.                             *)
LEMMA PastDownloadsStep ==
  ASSUME TypeInv, [Next]_vars
  PROVE  PastDownloads'
<1> SUFFICES ASSUME NEW c \in Collectors, pc'[c] \in Publishing
             PROVE  HasMandatory(c)'
  BY DEF PastDownloads
<1>1. pc[c] \in Publishing \/ Reconcile(c)
  BY Moves DEF Publishing, ListRaw, PutIndex, PutInventory
<1>2. HasMandatory(c)
  BY <1>1 DEF Reconcile, TypeInv, PastDownloads
<1> QED
  BY <1>2, RetainedStays DEF HasMandatory, Files

(* A walk of raw/ that ended has an index in hand.                          *)
LEMMA HasListingStep ==
  ASSUME TypeInv, [Next]_vars
  PROVE  HasListing'
<1> SUFFICES ASSUME NEW c \in Collectors, pc'[c] = "listed"
             PROVE  listing'[c] # None
  BY DEF HasListing
<1>1. listing \in [Collectors -> Maybe(RawIndexes)]
      /\ pc \in [Collectors -> Phases]
  BY DEF TypeInv, TypeOK
<1>2. CASE ListRaw(c)
  <2>1. RawTree(c) # None
    BY <1>2, RawTreeType, StoreAssumption
       DEF ListRaw, TypeInv, PastDownloads, Publishing
  <2> QED
    BY <1>1, <1>2, <2>1 DEF ListRaw, GoTo
<1>3. CASE pc[c] = "listed"
  <2>1. listing[c] # None
    BY <1>3 DEF TypeInv, HasListing
  <2>2. ASSUME NEW d \in Collectors, ListRaw(d)
        PROVE  d # c
    BY <1>1, <1>3, <2>2 DEF ListRaw
  <2>3. listing'[c] = listing[c]
    BY <1>1, <2>2, Writers DEF ListRaw
  <2> QED
    BY <2>1, <2>3
<1> QED
  BY <1>2, <1>3, Moves DEF Publishing

(* The type invariant is inductive.                                         *)
LEMMA TypeInvInit == Init => TypeInv
<1> SUFFICES ASSUME Init
             PROVE  TypeInv
  OBVIOUS
<1> USE DEF Init
<1>1. TypeOK
  BY DEF TypeOK, Maybe, Phases, Stages
<1>2. HoldsBody
  BY DEF HoldsBody
<1>3. PastDownloads /\ HasListing
  BY DEF PastDownloads, HasListing, Publishing
<1> QED
  BY <1>1, <1>2, <1>3 DEF TypeInv

(* Every step preserves it.                                                 *)
LEMMA TypeInvStep == TypeInv /\ [Next]_vars => TypeInv'
<1> SUFFICES ASSUME TypeInv, [Next]_vars
             PROVE  TypeInv'
  OBVIOUS
<1>1. TypeOK'
  BY DirectoryTyped, ProgressTyped, KnowledgeTyped DEF TypeOK
<1> QED
  BY <1>1, HoldsBodyStep, PastDownloadsStep, HasListingStep DEF TypeInv

(* Every variable keeps its type, for any number of collectors and files:   *)
(* in particular a summary is only ever computed from complete evidence.    *)
THEOREM TypeCorrect == Spec => []TypeOK
<1>1. Spec => []TypeInv
  BY TypeInvInit, TypeInvStep, PTL DEF Spec
<1>2. TypeInv => TypeOK
  BY DEF TypeInv
<1> QED
  BY <1>1, <1>2, PTL

-----------------------------------------------------------------------------
(* Immutability *)

(* write_bytes_immutable and persist_noclobber are the only writers of the  *)
(* directory.                                                               *)
LEMMA Keeps ==
  ASSUME TypeInv, [Next]_vars
  PROVE  /\ \A f \in Files : /\ Kept(text[f], text'[f])
                            /\ Kept(receipt[f], receipt'[f])
         /\ Kept(runFile, runFile')
         /\ logs \subseteq logs'
         /\ Kept(failures, failures')
         /\ Kept(index, index')
         /\ Kept(inventory, inventory')
         /\ Kept(summary, summary')
<1> USE DEF Kept, Accepts
<1>1. /\ text \in [Files -> Maybe(Contents)]
      /\ receipt \in [Files -> Maybe(Contents)]
  BY DEF TypeInv, TypeOK
<1>2. \A f \in Files : Kept(text[f], text'[f])
  BY <1>1, Writers DEF Promote
<1>3. \A f \in Files : Kept(receipt[f], receipt'[f])
  BY <1>1, Writers DEF WriteReceipt
<1>4. Kept(runFile, runFile') /\ Kept(failures, failures')
  BY Writers DEF Describe, Reconcile
<1>5. Kept(index, index') /\ Kept(inventory, inventory')
  BY Writers DEF PutIndex, PutInventory
<1>6. Kept(summary, summary')
  BY Writers DEF PutSummary
<1>7. logs \subseteq logs'
  BY Writers DEF RetainsLogs, Resolve, SourceLog, DiagnoseSuite, Diagnose
<1> QED
  BY <1>2, <1>3, <1>4, <1>5, <1>6, <1>7

(* Nothing in the directory is ever rewritten or removed.                   *)
THEOREM Immutable == Spec => EvidenceIsImmutable
<1> DEFINE Same == /\ \A f \in Files : /\ Kept(text[f], text'[f])
                                       /\ Kept(receipt[f], receipt'[f])
                   /\ Kept(runFile, runFile')
                   /\ logs \subseteq logs'
                   /\ Kept(failures, failures')
                   /\ Kept(index, index')
                   /\ Kept(inventory, inventory')
                   /\ Kept(summary, summary')
<1>1. TypeInv /\ [Next]_vars => [Same]_vars
  BY Keeps
<1>2. Spec => [][Same]_vars
  BY <1>1, TypeInvInit, TypeInvStep, PTL DEF Spec
<1> QED
  BY <1>2 DEF EvidenceIsImmutable

-----------------------------------------------------------------------------
(* What one fetch leaves behind *)

\* A collector and the directory agree on what the collector wrote or read.
FetchesAgree ==
  \A c \in Collectors, f \in Files :
    /\ stage[c][f] = "receipted" => receipt[f] = body[c][f]
    /\ stage[c][f] = "retained" => text[f] = body[c][f]

FetchInv == ReceiptCoversText /\ OrphanReceiptIsExplained /\ FetchesAgree

(* The three writes of fetch_text preserve it, whoever interferes.          *)
LEMMA FetchInvStep ==
  ASSUME TypeInv, FetchInv, [Next]_vars
  PROVE  FetchInv'
<1> USE DEF FetchInv
<1>1. CASE UNCHANGED <<stage, body, text, receipt>>
  <2>1. ReceiptCoversText' /\ OrphanReceiptIsExplained'
    BY <1>1 DEF ReceiptCoversText, OrphanReceiptIsExplained
  <2>2. FetchesAgree'
    BY <1>1 DEF FetchesAgree
  <2> QED
    BY <2>1, <2>2
<1>2. ASSUME NEW c \in Collectors, NEW f \in Files, Fetch(c, f)
      PROVE  FetchInv'
  <2>0. /\ stage \in [Collectors -> [Files -> Stages]]
        /\ body \in [Collectors -> [Files -> Maybe(Contents)]]
        /\ text \in [Files -> Maybe(Contents)]
        /\ receipt \in [Files -> Maybe(Contents)]
        /\ \A d \in Collectors, g \in Files :
             stage[d][g] \in {"streaming", "receipted", "retained"}
               => body[d][g] # None
    BY DEF TypeInv, TypeOK, HoldsBody
  <2>1. CASE \/ Reread(c, f) \/ Request(c, f) \/ Get(c, f)
             \/ FetchFails(c, f) \/ Diagnose(c, f)
    <3>1. /\ stage[c][f] # "receipted"
          /\ UNCHANGED <<text, receipt>>
          /\ \A d \in Collectors, g \in Files :
               <<d, g>> # <<c, f>> => /\ stage'[d][g] = stage[d][g]
                                     /\ body'[d][g] = body[d][g]
      BY <2>0, <2>1
         DEF Reread, Request, Get, FetchFails, Diagnose, Fails, SetStage,
             Awaits, directory
    <3>2. ReceiptCoversText'
      BY <3>1 DEF ReceiptCoversText
    <3>3. OrphanReceiptIsExplained'
      BY <3>1 DEF OrphanReceiptIsExplained
    <3>4. /\ stage'[c][f] # "receipted"
          /\ stage'[c][f] = "retained" => text[f] = body'[c][f]
      BY <2>0, <2>1
         DEF Reread, Request, Get, FetchFails, Diagnose, Fails, SetStage
    <3>5. FetchesAgree'
      BY <3>1, <3>4 DEF FetchesAgree
    <3> QED
      BY <3>2, <3>3, <3>5
  <2>2. CASE WriteReceipt(c, f)
    <3>1. /\ stage[c][f] = "streaming"
          /\ UNCHANGED <<text, body>>
          /\ \A d \in Collectors, g \in Files :
               <<d, g>> # <<c, f>> => stage'[d][g] = stage[d][g]
          /\ \A g \in Files : g # f => receipt'[g] = receipt[g]
          /\ \/ /\ stage'[c][f] = "receipted"
                /\ receipt[f] \in {None, body[c][f]}
                /\ receipt'[f] = body[c][f]
             \/ /\ stage'[c][f] \in {"failing", "error"}
                /\ receipt'[f] = receipt[f]
      BY <2>0, <2>2 DEF WriteReceipt, Fails, SetStage, Accepts
    <3>2. ReceiptCoversText'
      BY <2>0, <3>1 DEF ReceiptCoversText
    <3>3. OrphanReceiptIsExplained'
      BY <3>1 DEF OrphanReceiptIsExplained
    <3>4. FetchesAgree'
      BY <2>0, <3>1 DEF FetchesAgree
    <3> QED
      BY <3>2, <3>3, <3>4
  <2>3. CASE Promote(c, f)
    <3>1. /\ stage[c][f] = "receipted"
          /\ UNCHANGED <<receipt, body>>
          /\ \A d \in Collectors, g \in Files :
               <<d, g>> # <<c, f>> => stage'[d][g] = stage[d][g]
          /\ \A g \in Files : g # f => text'[g] = text[g]
          /\ \/ /\ stage'[c][f] = "retained"
                /\ text[f] \in {None, body[c][f]}
                /\ text'[f] = body[c][f]
             \/ /\ stage'[c][f] \in {"failing", "error"}
                /\ text[f] # None
                /\ text'[f] = text[f]
      BY <2>0, <2>3 DEF Promote, Fails, SetStage, Accepts
    <3>2. receipt[f] = body[c][f] /\ body[c][f] # None
      BY <2>0, <3>1 DEF FetchesAgree
    <3>3. ReceiptCoversText'
      BY <3>1, <3>2 DEF ReceiptCoversText
    <3>4. OrphanReceiptIsExplained'
      BY <3>1, <3>2 DEF OrphanReceiptIsExplained
    <3>5. FetchesAgree'
      BY <2>0, <3>1, <3>2 DEF FetchesAgree
    <3> QED
      BY <3>3, <3>4, <3>5
  <2> QED
    BY <1>2, <2>1, <2>2, <2>3 DEF Fetch
<1> QED
  BY <1>1, <1>2, Writers DEF Fetch

(* Nothing is in the directory at first.                                    *)
LEMMA FetchInvInit == Init => FetchInv
BY DEF Init, FetchInv, ReceiptCoversText, OrphanReceiptIsExplained,
       FetchesAgree

(* No crash and no other collector leaves a body that the next read of it   *)
(* rejects for want of its receipt.                                         *)
THEOREM ReceiptsCover == Spec => []ReceiptCoversText
<1>1. Spec => []FetchInv
  BY TypeInvInit, TypeInvStep, FetchInvInit, FetchInvStep, PTL DEF Spec
<1>2. FetchInv => ReceiptCoversText
  BY DEF FetchInv
<1> QED
  BY <1>1, <1>2, PTL

(* Only a collector between its two writes, or killed there, leaves a       *)
(* receipt without its body.                                                *)
THEOREM OrphansExplained == Spec => []OrphanReceiptIsExplained
<1>1. Spec => []FetchInv
  BY TypeInvInit, TypeInvStep, FetchInvInit, FetchInvStep, PTL DEF Spec
<1>2. FetchInv => OrphanReceiptIsExplained
  BY DEF FetchInv
<1> QED
  BY <1>1, <1>2, PTL

-----------------------------------------------------------------------------
(* The order of the publication *)

\* A summary of the mandatory bodies that are retained.
OfTexts(s) == \A f \in Mandatory : s[f] = text[f]

\* What a collector is about to index is what it reconciled.
ListedAgree ==
  \A c \in Collectors :
    pc[c] = "listed" => /\ listing[c].summary = SummaryOf(c)
                        /\ OfTexts(listing[c].texts)

IndexAgrees ==
  index # None => OfTexts(index.summary.texts) /\ OfTexts(index.texts)

\* Whoever is past PutIndex found, or wrote, an index of its own summary.
IndexedFirst ==
  \A c \in Collectors :
    pc[c] \in {"indexed", "inventoried"} =>
      index # None /\ index.summary = SummaryOf(c)

SummaryIsIndexed == summary # None => index # None /\ index.summary = summary

FailuresOfTexts == failures # None => OfTexts(failures)

AnswersAgree ==
  \A c \in Collectors : IF pc[c] = "done"
                         THEN answer[c] = summary /\ summary # None
                         ELSE answer[c] = None

PublicationInv ==
  /\ ListedAgree
  /\ IndexAgrees
  /\ IndexedFirst
  /\ SummaryIsIndexed
  /\ FailuresOfTexts
  /\ AnswersAgree

Inv == TypeInv /\ FetchInv /\ PublicationInv

(* Every collector that has all mandatory files computes its summary from   *)
(* the retained bodies, however they got there.                             *)
LEMMA EvidenceOfTexts ==
  ASSUME TypeInv, FetchInv, NEW c \in Collectors, HasMandatory(c)
  PROVE  /\ EvidenceOf(c) \in Evidence /\ OfTexts(EvidenceOf(c))
         /\ SummaryOf(c) \in Summaries /\ SummaryOf(c).texts = EvidenceOf(c)
<1>1. EvidenceOf(c) \in Evidence /\ SummaryOf(c) \in Summaries
  BY SummaryOfType DEF TypeInv
<1>2. OfTexts(EvidenceOf(c))
  BY DEF OfTexts, EvidenceOf, FetchInv, FetchesAgree, HasMandatory, Files
<1> QED
  BY <1>1, <1>2 DEF SummaryOf

(* There is one evidence of the retained bodies.                            *)
LEMMA OneEvidence ==
  ASSUME NEW s \in Evidence, NEW t \in Evidence, OfTexts(s), OfTexts(t)
  PROVE  s = t
BY DEF OfTexts, Evidence

(* A collector past its downloads has settled what its summary says.        *)
LEMMA SummaryStays ==
  ASSUME TypeInv, [Next]_vars, NEW c \in Collectors,
         HasMandatory(c), pc[c] # "idle"
  PROVE  SummaryOf(c)' = SummaryOf(c)
<1>1. \A f \in Mandatory : body'[c][f] = body[c][f]
  BY RetainedStays DEF HasMandatory, Files
<1>2. EvidenceOf(c)' = EvidenceOf(c)
  BY <1>1 DEF EvidenceOf
<1>3. base'[c] = base[c]
  <2>1. ASSUME NEW d \in Collectors, Begin(d)
        PROVE  d # c
    BY <2>1 DEF Begin
  <2> QED
    BY <2>1, Steps DEF Begin, TypeInv, TypeOK
<1>4. Base(c)' = Base(c)
  BY <1>3 DEF Base
<1> QED
  BY <1>2, <1>4 DEF SummaryOf

(* Once there is one, the bodies it was computed from stay.                 *)
LEMMA TextsStay ==
  ASSUME TypeInv, [Next]_vars, NEW s \in Evidence, OfTexts(s)
  PROVE  \A f \in Mandatory : text'[f] = text[f]
<1>1. \A f \in Mandatory : text[f] # None
  BY StoreAssumption DEF OfTexts, Evidence
<1> QED
  BY <1>1, Keeps DEF Kept, Files

(* ListRaw takes what it lists from the retained bodies.                    *)
LEMMA ListedAgreeStep ==
  ASSUME Inv, [Next]_vars
  PROVE  ListedAgree'
<1> USE DEF Inv
<1> SUFFICES ASSUME NEW c \in Collectors, pc'[c] = "listed"
             PROVE  /\ listing'[c].summary = SummaryOf(c)'
                    /\ \A f \in Mandatory : listing'[c].texts[f] = text'[f]
  BY DEF ListedAgree, OfTexts
<1>1. /\ listing \in [Collectors -> Maybe(RawIndexes)]
      /\ pc \in [Collectors -> Phases]
  BY DEF TypeInv, TypeOK
<1>2. HasMandatory(c) /\ pc[c] # "idle"
  BY Moves DEF Publishing, ListRaw, TypeInv, PastDownloads
<1>3. OfTexts(EvidenceOf(c)) /\ EvidenceOf(c) \in Evidence
  BY <1>2, EvidenceOfTexts
<1>4. listing'[c].summary = SummaryOf(c) /\ OfTexts(listing'[c].texts)
  <2>1. CASE ListRaw(c) /\ pc[c] # "listed"
    <3>1. listing'[c] = RawTree(c)
      BY <1>1, <2>1 DEF ListRaw, GoTo
    <3>2. listing'[c].summary = SummaryOf(c) /\ listing'[c].texts = text
      BY <3>1 DEF RawTree
    <3> QED
      BY <3>2 DEF OfTexts
  <2>2. CASE pc[c] = "listed"
    <3>1. ASSUME NEW d \in Collectors, ListRaw(d)
          PROVE  d # c
      BY <2>2, <3>1 DEF ListRaw
    <3>2. listing'[c] = listing[c]
      BY <1>1, <3>1, Writers DEF ListRaw
    <3> QED
      BY <2>2, <3>2 DEF PublicationInv, ListedAgree
  <2> QED
    BY <2>1, <2>2, Moves DEF Publishing
<1>5. \A f \in Mandatory : text'[f] = text[f]
  BY <1>3, TextsStay
<1>6. SummaryOf(c)' = SummaryOf(c)
  BY <1>2, SummaryStays
<1> QED
  BY <1>4, <1>5, <1>6 DEF OfTexts

(* Whoever wrote index.json listed the retained bodies.                     *)
LEMMA IndexAgreesStep ==
  ASSUME Inv, [Next]_vars
  PROVE  IndexAgrees'
<1> USE DEF Inv, PublicationInv
<1> SUFFICES ASSUME index' # None
             PROVE  \A f \in Mandatory : /\ index'.summary.texts[f] = text'[f]
                                        /\ index'.texts[f] = text'[f]
  BY DEF IndexAgrees, OfTexts
<1>1. /\ IndexAgrees /\ ListedAgree /\ PastDownloads
      /\ index \in Maybe(RawIndexes)
  BY DEF TypeInv, TypeOK
<1>2. /\ index'.summary.texts \in Evidence
      /\ OfTexts(index'.summary.texts) /\ OfTexts(index'.texts)
  <2>1. CASE UNCHANGED index
    BY <1>1, <2>1 DEF IndexAgrees, Maybe, RawIndexes, Summaries
  <2>2. ASSUME NEW c \in Collectors, PutIndex(c), index' = listing[c]
        PROVE  /\ index'.summary.texts \in Evidence
               /\ OfTexts(index'.summary.texts) /\ OfTexts(index'.texts)
    <3>1. HasMandatory(c)
      BY <1>1, <2>2 DEF PutIndex, PastDownloads, Publishing
    <3>2. listing[c].summary = SummaryOf(c) /\ OfTexts(listing[c].texts)
      BY <1>1, <2>2 DEF PutIndex, ListedAgree
    <3> QED
      BY <2>2, <3>1, <3>2, EvidenceOfTexts
  <2> QED
    BY <2>1, <2>2, Writers DEF PutIndex
<1>3. \A f \in Mandatory : text'[f] = text[f]
  BY <1>2, TextsStay
<1> QED
  BY <1>2, <1>3 DEF OfTexts

(* No collector gets past PutIndex without an index of its own summary.     *)
LEMMA IndexedFirstStep ==
  ASSUME Inv, [Next]_vars
  PROVE  IndexedFirst'
<1> USE DEF Inv, PublicationInv
<1> SUFFICES ASSUME NEW c \in Collectors, pc'[c] \in {"indexed", "inventoried"}
             PROVE  index' # None /\ index'.summary = SummaryOf(c)'
  BY DEF IndexedFirst
<1>1. index' # None /\ index'.summary = SummaryOf(c)
  <2>1. CASE PutIndex(c) /\ pc'[c] = "indexed"
    <3>1. pc \in [Collectors -> Phases]
      BY DEF TypeInv, TypeOK
    <3>2. index' = listing[c] /\ pc[c] = "listed"
      BY <2>1, <3>1 DEF PutIndex, GoTo
    <3> QED
      BY <3>2 DEF TypeInv, HasListing, ListedAgree
  <2>2. CASE pc[c] \in {"indexed", "inventoried"}
    <3>1. index # None /\ index.summary = SummaryOf(c)
      BY <2>2 DEF IndexedFirst
    <3>2. index' = index
      BY <3>1, Keeps DEF Kept
    <3> QED
      BY <3>1, <3>2
  <2> QED
    BY <2>1, <2>2, Moves DEF Publishing, PutInventory
<1>2. pc[c] \in {"listed", "indexed", "inventoried"}
  BY Moves DEF Publishing, PutIndex, PutInventory
<1>3. HasMandatory(c)
  BY <1>2 DEF TypeInv, PastDownloads, Publishing
<1>4. SummaryOf(c)' = SummaryOf(c)
  BY <1>2, <1>3, SummaryStays
<1> QED
  BY <1>1, <1>4

(* The summary follows the index that promised it.                          *)
LEMMA SummaryIsIndexedStep ==
  ASSUME Inv, [Next]_vars
  PROVE  SummaryIsIndexed'
<1> USE DEF Inv, PublicationInv
<1> SUFFICES ASSUME summary' # None
             PROVE  index' # None /\ index'.summary = summary'
  BY DEF SummaryIsIndexed
<1>1. index # None /\ index.summary = summary'
  <2>1. CASE UNCHANGED summary
    BY <2>1 DEF SummaryIsIndexed
  <2>2. ASSUME NEW c \in Collectors, PutSummary(c), summary' = SummaryOf(c)
        PROVE  index # None /\ index.summary = summary'
    BY <2>2 DEF PutSummary, SummaryIsNext, IndexedFirst
  <2> QED
    BY <2>1, <2>2, Writers DEF PutSummary
<1>2. index' = index
  BY <1>1, Keeps DEF Kept
<1> QED
  BY <1>1, <1>2

(* The failure records are derived from the same bodies.                    *)
LEMMA FailuresOfTextsStep ==
  ASSUME Inv, [Next]_vars
  PROVE  FailuresOfTexts'
<1> USE DEF Inv, PublicationInv
<1> SUFFICES ASSUME failures' # None
             PROVE  \A f \in Mandatory : failures'[f] = text'[f]
  BY DEF FailuresOfTexts, OfTexts
<1>1. failures' \in Evidence /\ OfTexts(failures')
  <2>1. CASE UNCHANGED failures
    BY <2>1 DEF FailuresOfTexts, TypeInv, TypeOK, Maybe
  <2>2. ASSUME NEW c \in Collectors, Reconcile(c), failures' = EvidenceOf(c)
        PROVE  failures' \in Evidence /\ OfTexts(failures')
    BY <2>2, EvidenceOfTexts DEF Reconcile
  <2> QED
    BY <2>1, <2>2, Writers DEF Reconcile
<1>2. \A f \in Mandatory : text'[f] = text[f]
  BY <1>1, TextsStay
<1> QED
  BY <1>1, <1>2 DEF OfTexts

-----------------------------------------------------------------------------
(* One answer *)

\* Collector c is given v, which is published now or was before.
Delivers(c, v) ==
  /\ summary \in {None, v}
  /\ pc[c] # "done"
  /\ summary' = v
  /\ answer' = [answer EXCEPT ![c] = v]
  /\ GoTo(c, "done")

\* No collector is given anything.
DeliversNothing ==
  /\ UNCHANGED <<summary, answer>>
  /\ \A c \in Collectors : pc'[c] = "done" <=> pc[c] = "done"

(* A collector ends well by a validated reuse or by its own publication.    *)
LEMMA Deliveries ==
  ASSUME Inv, [Next]_vars
  PROVE  DeliversNothing \/ \E c \in Collectors, v \in Summaries : Delivers(c, v)
<1> USE DEF Inv
<1>0. pc \in [Collectors -> Phases] /\ summary \in Maybe(Summaries)
  BY DEF TypeInv, TypeOK
<1>1. CASE UNCHANGED vars \/ RunChanges \/ \E f \in Files : Publish(f)
  BY <1>1 DEF vars, memory, directory, RunChanges, Publish, DeliversNothing
<1>2. ASSUME NEW c \in Collectors, UNCHANGED <<summary, answer>>,
             \/ UNCHANGED pc
             \/ \E p \in Phases \ {"done"} : pc[c] # "done" /\ GoTo(c, p)
      PROVE  DeliversNothing
  BY <1>0, <1>2 DEF DeliversNothing, GoTo
<1>3. ASSUME NEW c \in Collectors, Begin(c) \/ Crash(c)
      PROVE  DeliversNothing
  BY <1>2, <1>3 DEF Begin, Crash, Active, Ended, Phases, directory
<1>4. ASSUME NEW c \in Collectors, CheckIndex(c) \/ CheckUnindexed(c)
      PROVE  DeliversNothing
  BY <1>2, <1>4 DEF CheckIndex, CheckUnindexed, Phases, directory
<1>5. ASSUME NEW c \in Collectors, CheckSummary(c)
      PROVE  DeliversNothing \/ \E v \in Summaries : Delivers(c, v)
  <2>1. CASE Reusable(c) /\ expected[c] = summary
    <3>1. summary \in Summaries
      BY <1>0, <2>1 DEF Reusable, Maybe
    <3>2. Delivers(c, summary)
      BY <1>5, <2>1 DEF CheckSummary, Delivers, directory
    <3> QED
      BY <3>1, <3>2
  <2>2. CASE ~(Reusable(c) /\ expected[c] = summary)
    BY <1>2, <1>5, <2>2 DEF CheckSummary, Phases, directory
  <2> QED
    BY <2>1, <2>2
<1>6. ASSUME NEW c \in Collectors, Describe(c) \/ Abort(c) \/ Reconcile(c)
      PROVE  DeliversNothing
  BY <1>2, <1>6 DEF Describe, Abort, Reconcile, Phases, directory
<1>10. ASSUME NEW c \in Collectors,
              Resolve(c) \/ SourceLog(c) \/ DiagnoseSuite(c)
       PROVE  DeliversNothing
  BY <1>2, <1>10 DEF Resolve, SourceLog, DiagnoseSuite, Phases, memory
<1>7. ASSUME NEW c \in Collectors, NEW f \in Files, Fetch(c, f)
      PROVE  DeliversNothing
  BY <1>2, <1>7
     DEF Fetch, Reread, Request, Get, FetchFails, WriteReceipt, Promote, Diagnose, directory
<1>8. ASSUME NEW c \in Collectors,
             ListRaw(c) \/ PutIndex(c) \/ PutInventory(c)
      PROVE  DeliversNothing
  BY <1>2, <1>8 DEF ListRaw, PutIndex, PutInventory, Phases, directory
<1>9. ASSUME NEW c \in Collectors, PutSummary(c)
      PROVE  DeliversNothing \/ \E v \in Summaries : Delivers(c, v)
  <2>1. pc[c] \in {"indexed", "inventoried"}
    BY <1>9 DEF PutSummary, SummaryIsNext
  <2>2. SummaryOf(c) \in Summaries
    BY <2>1, EvidenceOfTexts DEF TypeInv, PastDownloads, Publishing
  <2>3. CASE Accepts(summary, SummaryOf(c))
    BY <1>9, <2>1, <2>2, <2>3 DEF PutSummary, Delivers, Accepts
  <2>4. CASE ~Accepts(summary, SummaryOf(c))
    BY <1>2, <1>9, <2>1, <2>4 DEF PutSummary, Phases
  <2> QED
    BY <2>3, <2>4
<1> QED
  BY <1>1, <1>3, <1>4, <1>5, <1>6, <1>7, <1>8, <1>9, <1>10 DEF Next, Collect

(* What was delivered stays what is published.                              *)
LEMMA AnswersAgreeStep ==
  ASSUME Inv, [Next]_vars
  PROVE  AnswersAgree'
<1> SUFFICES ASSUME NEW c \in Collectors
             PROVE  IF pc'[c] = "done"
                    THEN answer'[c] = summary' /\ summary' # None
                    ELSE answer'[c] = None
  BY DEF AnswersAgree
<1>1. /\ pc \in [Collectors -> Phases]
      /\ answer \in [Collectors -> Maybe(Summaries)]
      /\ IF pc[c] = "done"
         THEN answer[c] = summary /\ summary # None
         ELSE answer[c] = None
  BY DEF Inv, TypeInv, TypeOK, PublicationInv, AnswersAgree
<1>2. CASE DeliversNothing
  BY <1>1, <1>2 DEF DeliversNothing
<1>3. ASSUME NEW d \in Collectors, NEW v \in Summaries, Delivers(d, v)
      PROVE  IF pc'[c] = "done"
             THEN answer'[c] = summary' /\ summary' # None
             ELSE answer'[c] = None
  BY <1>1, <1>3, StoreAssumption DEF Delivers, GoTo
<1> QED
  BY <1>2, <1>3, Deliveries

(* The invariant is inductive.                                              *)
LEMMA InvHolds == Spec => []Inv
<1>1. Init => Inv
  <2> SUFFICES ASSUME Init
               PROVE  PublicationInv
    BY TypeInvInit, FetchInvInit DEF Inv
  <2> QED
    BY DEF Init, PublicationInv, ListedAgree, IndexAgrees, IndexedFirst,
           SummaryIsIndexed, FailuresOfTexts, AnswersAgree
<1>2. Inv /\ [Next]_vars => Inv'
  <2> SUFFICES ASSUME Inv, [Next]_vars
               PROVE  Inv'
    OBVIOUS
  <2>1. TypeInv' /\ FetchInv'
    BY TypeInvStep, FetchInvStep DEF Inv
  <2>2. PublicationInv'
    BY ListedAgreeStep, IndexAgreesStep, IndexedFirstStep,
       SummaryIsIndexedStep, FailuresOfTextsStep, AnswersAgreeStep
       DEF PublicationInv
  <2> QED
    BY <2>1, <2>2 DEF Inv
<1> QED
  BY <1>1, <1>2, PTL DEF Spec

(* summary.json is the publication seam: with it come an index that holds   *)
(* its digest and the very bodies it was computed from, whatever crashes    *)
(* and overlaps came before.                                                *)
THEOREM Seam == Spec => []PublicationSeam
<1>1. Inv => PublicationSeam
  <2> SUFFICES ASSUME Inv, summary # None
               PROVE  /\ index # None
                      /\ index.summary = summary
                      /\ \A f \in Mandatory : /\ index.texts[f] = summary.texts[f]
                                              /\ text[f] = summary.texts[f]
    BY DEF PublicationSeam
  <2>1. index # None /\ index.summary = summary
    BY DEF Inv, PublicationInv, SummaryIsIndexed
  <2>2. OfTexts(index.summary.texts) /\ OfTexts(index.texts)
    BY <2>1 DEF Inv, PublicationInv, IndexAgrees
  <2> QED
    BY <2>1, <2>2 DEF OfTexts
<1> QED
  BY <1>1, InvHolds, PTL

(* All invocations that succeed return one and the same summary.            *)
THEOREM AnswersOne == Spec => []OneAnswer
<1>1. Inv => OneAnswer
  BY DEF Inv, PublicationInv, AnswersAgree, OneAnswer
<1> QED
  BY <1>1, InvHolds, PTL

(* The failure records of any two collectors agree.                         *)
THEOREM FailuresOne == Spec => []FailuresAgree
<1>1. Inv => FailuresAgree
  <2> SUFFICES ASSUME Inv, NEW c \in Collectors, HasMandatory(c),
                      failures # None
               PROVE  failures = EvidenceOf(c)
    BY DEF FailuresAgree, Kept
  <2>1. failures \in Evidence /\ OfTexts(failures)
    BY DEF Inv, TypeInv, TypeOK, Maybe, PublicationInv, FailuresOfTexts
  <2>2. EvidenceOf(c) \in Evidence /\ OfTexts(EvidenceOf(c))
    BY EvidenceOfTexts DEF Inv
  <2> QED
    BY <2>1, <2>2, OneEvidence
<1> QED
  BY <1>1, InvHolds, PTL

(* The directory implements a write-once register: every step of it is a    *)
(* delivery of PublishOnce or changes nothing its users see.                *)
THEOREM PublishesOnce == Spec => ImplementsPublishOnce
<1>1. Init => Promise!Init
  BY DEF Init, Promise!Init
<1>2. Inv /\ [Next]_vars => [Promise!Next]_<<summary, answer>>
  <2> SUFFICES ASSUME Inv, [Next]_vars
               PROVE  [Promise!Next]_<<summary, answer>>
    OBVIOUS
  <2>1. CASE DeliversNothing
    BY <2>1 DEF DeliversNothing
  <2>2. ASSUME NEW c \in Collectors, NEW v \in Summaries, Delivers(c, v)
        PROVE  Promise!Deliver(c, v)
    <3>1. answer[c] = None
      BY <2>2 DEF Inv, PublicationInv, AnswersAgree, Delivers
    <3> QED
      BY <2>2, <3>1 DEF Delivers, Promise!Deliver
  <2> QED
    BY <2>1, <2>2, Deliveries DEF Promise!Next
<1> QED
  BY <1>1, <1>2, InvHolds, PTL DEF Spec, ImplementsPublishOnce, Promise!Spec

-----------------------------------------------------------------------------
(* Collectors that do not overlap *)

AtMostOne == \A c, d \in Collectors : Active(c) /\ Active(d) => c = d

\* Phases before the run metadata is retained.
Early == {"begun", "unindexed", "indexChecked", "describing"}

\* Stages of a fetch that is under way.
Busy == {"requested", "failing"} \cup InFlight

\* How far a collector's downloads are in each phase.
PhasesInv ==
  \A c \in Collectors :
    /\ pc[c] \in Early \cup {"idle", "resolving"} =>
         \A f \in Files : stage[c][f] = "todo"
    /\ pc[c] = "idle" => ~binaries[c]
    /\ pc[c] \in Early => pinned[c] # None
    /\ pc[c] \in Publishing => Drained(c)
    /\ pc[c] \in {"resolving", "fetching"} \cup Publishing => runFile # None
    /\ ~binaries[c] => \A f \in Optional : stage[c][f] = "todo"

\* The index i describes what is on disk, and the temporary files it lists
\* are those of collectors that ended, which leave them there.
Describes(i) ==
  /\ \A f \in Files : /\ Kept(i.texts[f], text[f])
                      /\ Kept(i.receipts[f], receipt[f])
  /\ Kept(i.run, runFile)
  /\ i.logs \subseteq logs
  /\ i.temps \subseteq LiveTemps
  /\ \A t \in i.temps : ~Active(t[1])

DescribesInv ==
  /\ index # None => Describes(index)
  /\ \A c \in Collectors : pc[c] = "listed" => Describes(listing[c])

\* The index i lists all the evidence below raw/ as it is.
Lists(i) ==
  /\ i.texts = text
  /\ i.receipts = receipt
  /\ i.temps = LiveTemps
  /\ i.run = runFile
  /\ i.summary.texts = [f \in Mandatory |-> text[f]]

\* Without binaries nothing is left to download once there is an index.
NoBinaries == \A c \in Collectors : ~binaries[c]
Finished ==
  /\ \A f \in Mandatory : text[f] # None
  /\ runFile # None
  /\ \A c \in Collectors : Active(c) => Drained(c)

ListsInv ==
  NoBinaries =>
    /\ index # None => Lists(index) /\ Finished
    /\ \A c \in Collectors : pc[c] = "listed" => Lists(listing[c])

\* Who retained collect.log, and in which indexes it is.
Began(c) == pc[c] # "idle"
LogsInv ==
  /\ "collect.log" \in logs => \E d \in Collectors : Began(d) /\ KeepsLog(d)
  /\ \A c \in Collectors :
       /\ pc[c] \in {"fetching"} \cup Publishing /\ base[c] = None =>
            "collect.log" \in logs
       /\ pc[c] \in Publishing /\ Rerun => "collect.log" \in logs
       /\ pc[c] = "listed" /\ KeepsLog(c) => "collect.log" \in listing[c].logs
  /\ index # None =>
       \E d \in Collectors : /\ Began(d)
                             /\ index.summary.base = Base(d)
                             /\ KeepsLog(d) => "collect.log" \in index.logs

\* What is in the index was there when a later collector listed raw/.
GrowsInv ==
  \A c \in Collectors :
    pc[c] = "listed" /\ index # None => index.logs \subseteq listing[c].logs

SequentialInv ==
  AtMostOne /\ PhasesInv /\ DescribesInv /\ ListsInv /\ LogsInv /\ GrowsInv

(* Only an active collector acts, and none becomes active but by Begin.     *)
LEMMA ActsWhileActive ==
  ASSUME NEW c \in Collectors, Collect(c) \/ Crash(c)
  PROVE  Active(c)
<1> USE DEF Active, Ended
<1>1. CASE Crash(c)
  BY <1>1 DEF Crash
<1>2. CASE CheckIndex(c) \/ CheckUnindexed(c) \/ CheckSummary(c) \/ Describe(c)
  BY <1>2 DEF CheckIndex, CheckUnindexed, CheckSummary, Describe
<1>6. CASE Resolve(c) \/ SourceLog(c) \/ DiagnoseSuite(c)
  BY <1>6 DEF Resolve, SourceLog, DiagnoseSuite
<1>3. CASE \E f \in Files : Fetch(c, f)
  BY <1>3
     DEF Fetch, Reread, Request, Get, FetchFails, WriteReceipt, Promote, Diagnose, Wants
<1>4. CASE Abort(c) \/ Reconcile(c) \/ ListRaw(c) \/ PutIndex(c)
  BY <1>4 DEF Abort, Reconcile, ListRaw, PutIndex
<1>5. CASE PutInventory(c) \/ PutSummary(c)
  BY <1>5 DEF PutInventory, PutSummary, SummaryIsNext
<1> QED
  BY <1>1, <1>2, <1>3, <1>4, <1>5, <1>6 DEF Collect

(* Whose program counter a step moves, and how it does while downloads are  *)
(* still ahead.                                                             *)
LEMMA EarlyMoves ==
  ASSUME TypeInv, [Next]_vars, NEW c \in Collectors, pc'[c] # pc[c]
  PROVE  /\ \A d \in Collectors : d # c => pc'[d] = pc[d]
         /\ pc'[c] # "idle"
         /\ pc'[c] \in Early =>
              \/ Begin(c)
              \/ pc[c] \in Early /\ UNCHANGED <<pinned, binaries>>
         /\ pc'[c] = "resolving" => Describe(c)
         /\ pc'[c] = "fetching" => Resolve(c)
         /\ Begin(c) \/ Active(c)
<1>0. pc \in [Collectors -> Phases]
  BY DEF TypeInv, TypeOK
<1>1. ASSUME NEW d \in Collectors, NEW p, GoTo(d, p)
      PROVE  d = c /\ pc'[c] = p /\ \A e \in Collectors : e # c => pc'[e] = pc[e]
  BY <1>0, <1>1 DEF GoTo
<1> USE DEF Early
<1>2. ~UNCHANGED pc
  OBVIOUS
<1>3. ~UNCHANGED vars /\ ~RunChanges /\ \A f \in Files : ~Publish(f)
  BY <1>2 DEF vars, memory, RunChanges, Publish
<1>4. ASSUME NEW d \in Collectors, NEW f \in Files
      PROVE  ~Fetch(d, f)
  BY <1>2 DEF Fetch, Reread, Request, Get, FetchFails, WriteReceipt, Promote, Diagnose
<1>5. PICK d \in Collectors : Begin(d) \/ Collect(d) \/ Crash(d)
  BY <1>3 DEF Next
<1>6. PICK e \in Collectors, p \in Phases : GoTo(e, p)
  BY <1>2, Steps
<1>7. \A x \in Collectors : x # c => pc'[x] = pc[x]
  BY <1>1, <1>6
<1>8. CASE Begin(d)
  <2>1. GoTo(d, "begun")
    BY <1>8 DEF Begin
  <2>2. d = c /\ pc'[c] = "begun"
    BY <1>1, <2>1
  <2> QED
    BY <1>7, <1>8, <2>2
<1>9. CASE Crash(d)
  BY <1>1, <1>7, <1>9 DEF Crash
<1>10. CASE CheckIndex(d)
  BY <1>1, <1>7, <1>10 DEF CheckIndex, Active, Ended
<1>11. CASE CheckUnindexed(d)
  BY <1>1, <1>7, <1>11 DEF CheckUnindexed, Active, Ended
<1>12. CASE CheckSummary(d)
  BY <1>1, <1>7, <1>12 DEF CheckSummary, Active, Ended
<1>13. CASE Describe(d)
  BY <1>1, <1>7, <1>13 DEF Describe, Active, Ended
<1>20. CASE Resolve(d)
  BY <1>1, <1>7, <1>20 DEF Resolve, Active, Ended
<1>21. CASE SourceLog(d)
  BY <1>2, <1>21 DEF SourceLog, memory
<1>22. CASE DiagnoseSuite(d)
  BY <1>1, <1>7, <1>22 DEF DiagnoseSuite, Active, Ended
<1>14. CASE Abort(d)
  BY <1>1, <1>7, <1>14 DEF Abort, Active, Ended
<1>15. CASE Reconcile(d)
  BY <1>1, <1>7, <1>15 DEF Reconcile, Active, Ended
<1>16. CASE ListRaw(d)
  BY <1>1, <1>7, <1>16 DEF ListRaw, Active, Ended
<1>17. CASE PutIndex(d)
  BY <1>1, <1>7, <1>17 DEF PutIndex, Active, Ended
<1>18. CASE PutInventory(d)
  BY <1>1, <1>7, <1>18 DEF PutInventory, Active, Ended
<1>19. CASE PutSummary(d)
  BY <1>1, <1>7, <1>19 DEF PutSummary, SummaryIsNext, Active, Ended
<1> QED
  BY <1>4, <1>5, <1>8, <1>9, <1>10, <1>11, <1>12, <1>13, <1>14, <1>15, <1>16,
     <1>17, <1>18, <1>19, <1>20, <1>21, <1>22 DEF Collect

(* A stage moves by its own fetch, and a fetch moves nothing else that the  *)
(* phases depend on.                                                        *)
LEMMA StageMoves ==
  ASSUME TypeInv, [Next]_vars, NEW c \in Collectors, NEW f \in Files,
         stage'[c][f] # stage[c][f]
  PROVE  Fetch(c, f) /\ Wants(c, f) /\ UNCHANGED <<pc, binaries, pinned, runFile>>
<1>0. stage \in [Collectors -> [Files -> Stages]]
  BY DEF TypeInv, TypeOK
<1>1. PICK d \in Collectors, g \in Files : Fetch(d, g)
  BY Writers
<1>2. \E s \in Stages : SetStage(d, g, s)
  BY <1>1 DEF Fetch, Reread, Request, Get, FetchFails, WriteReceipt, Promote,
              Diagnose, Fails, Stages
<1>3. d = c /\ g = f
  BY <1>0, <1>2 DEF SetStage
<1>4. Wants(d, g) /\ UNCHANGED <<pc, binaries, pinned, runFile>>
  BY <1>1 DEF Fetch, Reread, Request, Get, FetchFails, WriteReceipt, Promote, Diagnose, directory
<1> QED
  BY <1>1, <1>3, <1>4

(* Begin waits until nobody is active.                                      *)
LEMMA AtMostOneStep ==
  ASSUME ~Overlapping, TypeInv, AtMostOne, [Next]_vars
  PROVE  AtMostOne'
<1> SUFFICES ASSUME NEW c \in Collectors, NEW d \in Collectors,
                    Active(c)', Active(d)', c # d
             PROVE  FALSE
  BY DEF AtMostOne
<1>1. ASSUME NEW x \in Collectors, pc'[x] = pc[x], Active(x)'
      PROVE  Active(x)
  BY <1>1 DEF Active
<1>2. ASSUME NEW x \in Collectors, NEW y \in Collectors, x # y,
             Active(x)', Active(y)', pc'[x] # pc[x]
      PROVE  FALSE
  <2>1. pc'[y] = pc[y] /\ (Begin(x) \/ Active(x))
    BY <1>2, EarlyMoves
  <2>2. Active(y)
    BY <1>1, <1>2, <2>1
  <2>3. ~Begin(x)
    BY <2>2 DEF Begin
  <2> QED
    BY <1>2, <2>1, <2>2, <2>3 DEF AtMostOne
<1>3. pc'[c] = pc[c] /\ pc'[d] = pc[d]
  BY <1>2
<1> QED
  BY <1>1, <1>3 DEF AtMostOne

(* Each phase follows from the one before it, whoever else acts.            *)
LEMMA PhasesInvStep ==
  ASSUME TypeInv, PhasesInv, [Next]_vars
  PROVE  PhasesInv'
<1> SUFFICES ASSUME NEW c \in Collectors
             PROVE  /\ pc'[c] \in Early \cup {"idle", "resolving"} =>
                         \A f \in Files : stage'[c][f] = "todo"
                    /\ pc'[c] = "idle" => ~binaries'[c]
                    /\ pc'[c] \in Early => pinned'[c] # None
                    /\ pc'[c] \in Publishing =>
                         \A f \in Files : stage'[c][f] \notin Busy
                    /\ pc'[c] \in {"resolving", "fetching"} \cup Publishing =>
                         runFile' # None
                    /\ ~binaries'[c] => \A f \in Optional : stage'[c][f] = "todo"
  BY DEF PhasesInv, Drained, Busy
<1>0. /\ pc \in [Collectors -> Phases] /\ binaries \in [Collectors -> BOOLEAN]
      /\ pinned \in [Collectors -> Maybe(RunVersions)] /\ run \in RunVersions
  BY DEF TypeInv, TypeOK
<1>p. /\ pc[c] \in Early \cup {"idle", "resolving"} => \A f \in Files : stage[c][f] = "todo"
      /\ pc[c] = "idle" => ~binaries[c]
      /\ pc[c] \in Early => pinned[c] # None
      /\ pc[c] \in Publishing => \A f \in Files : stage[c][f] \notin Busy
      /\ pc[c] \in {"resolving", "fetching"} \cup Publishing => runFile # None
      /\ ~binaries[c] => \A f \in Optional : stage[c][f] = "todo"
  BY DEF PhasesInv, Drained, Busy
<1>r. runFile # None => runFile' # None
  BY Keeps DEF Kept
<1>b. \/ binaries'[c] = binaries[c] /\ pinned'[c] = pinned[c]
      \/ Begin(c) /\ pc[c] = "idle" /\ pc'[c] = "begun" /\ pinned'[c] \in RunVersions
  <2>1. ASSUME NEW d \in Collectors, Begin(d), d # c
        PROVE  binaries'[c] = binaries[c] /\ pinned'[c] = pinned[c]
    BY <1>0, <2>1 DEF Begin
  <2>2. ASSUME Begin(c)
        PROVE  pc[c] = "idle" /\ pc'[c] = "begun" /\ pinned'[c] \in RunVersions
    BY <1>0, <2>2 DEF Begin, GoTo
  <2> QED
    BY <2>1, <2>2, Steps
<1>1. CASE pc'[c] = pc[c]
  <2>1. binaries'[c] = binaries[c] /\ pinned'[c] = pinned[c]
    BY <1>1, <1>b
  <2>2. ASSUME NEW f \in Files, stage'[c][f] # stage[c][f]
        PROVE  pc[c] = "fetching" /\ (f \in Optional => binaries[c])
    BY <2>2, StageMoves DEF Wants
  <2>3. pc[c] # "fetching" => \A f \in Files : stage'[c][f] = stage[c][f]
    BY <2>2
  <2>4. ~binaries[c] => \A f \in Optional : stage'[c][f] = stage[c][f]
    BY <2>2 DEF Files
  <2>5. "fetching" \notin Early \cup {"idle", "resolving"} \cup Publishing
    BY DEF Early, Publishing
  <2> QED
    BY <1>1, <1>p, <1>r, <2>1, <2>3, <2>4, <2>5
<1>2. CASE pc'[c] # pc[c]
  <2>1. \A f \in Files : stage'[c][f] = stage[c][f]
    BY <1>2, StageMoves
  <2>2. \A f \in Optional : stage'[c][f] = stage[c][f]
    BY <2>1 DEF Files
  <2>3. /\ pc'[c] # "idle"
        /\ pc'[c] \in Early => Begin(c) \/ pc[c] \in Early
        /\ pc'[c] = "resolving" => Describe(c)
        /\ pc'[c] = "fetching" => Resolve(c)
    BY <1>2, EarlyMoves
  <2>4. CASE Begin(c)
    <3>1. pc[c] = "idle" /\ pc'[c] = "begun"
      BY <1>0, <2>4 DEF Begin, GoTo
    <3>2. pinned'[c] = run
      BY <1>0, <2>4 DEF Begin
    <3> QED
      BY <1>0, <1>p, <2>1, <2>2, <3>1, <3>2, StoreAssumption DEF Publishing
  <2>5. CASE ~Begin(c)
    <3>1. binaries'[c] = binaries[c] /\ pinned'[c] = pinned[c]
      BY <1>b, <2>5
    <3>2. pc'[c] \in Early => pc[c] \in Early
      BY <2>3, <2>5
    <3>3. /\ pc'[c] = "resolving" => pc[c] \in Early /\ runFile' # None
          /\ pc'[c] = "fetching" => runFile' # None
      BY <1>0, <1>p, <1>r, <2>3 DEF Describe, Resolve, GoTo, Early
    <3>4. pc'[c] \in Publishing => Reconcile(c) \/ pc[c] \in Publishing
      BY <1>2, Moves DEF Publishing, ListRaw, PutIndex, PutInventory
    <3>5. ASSUME Reconcile(c)
          PROVE  /\ pc[c] = "fetching"
                 /\ \A f \in Files : stage[c][f] \notin Busy
      <4>1. \A f \in Mandatory : stage[c][f] = "retained"
        BY <3>5 DEF Reconcile, HasMandatory
      <4>2. \A f \in Optional : stage[c][f] \in {"todo", "retained", "error"}
        BY <1>p, <3>5 DEF Reconcile, OptionalTried
      <4> QED
        BY <3>5, <4>1, <4>2 DEF Reconcile, Files, Busy, InFlight
    <3> QED
      BY <1>p, <1>r, <2>1, <2>2, <2>3, <3>1, <3>2, <3>3, <3>4, <3>5
  <2> QED
    BY <2>4, <2>5
<1> QED
  BY <1>1, <1>2

(* The raw files change only by a fetch or by Describe.                     *)
LEMMA TreeStays ==
  ASSUME TypeInv, [Next]_vars
  PROVE  \/ UNCHANGED <<text, receipt, runFile, stage>>
         \/ \E d \in Collectors : Describe(d)
         \/ \E d \in Collectors, f \in Files : Fetch(d, f)
<1>1. UNCHANGED text \/ \E d \in Collectors, f \in Files : Fetch(d, f)
  BY Writers DEF Fetch
<1>2. UNCHANGED receipt \/ \E d \in Collectors, f \in Files : Fetch(d, f)
  BY Writers DEF Fetch
<1>3. UNCHANGED stage \/ \E d \in Collectors, f \in Files : Fetch(d, f)
  BY Writers
<1>4. UNCHANGED runFile \/ \E d \in Collectors : Describe(d)
  BY Writers
<1> QED
  BY <1>1, <1>2, <1>3, <1>4

(* What ended collectors left in flight stays in flight.                    *)
LEMMA LeftoversStay ==
  ASSUME TypeInv, PhasesInv, [Next]_vars, NEW t \in LiveTemps, ~Active(t[1])
  PROVE  t \in LiveTemps' /\ ~Active(t[1])'
<1>1. t \in Temporaries /\ stage[t[1]][t[2]] \in InFlight
  BY DEF LiveTemps
<1>2. PICK c \in Collectors, f \in Files : t = <<c, f>>
  BY <1>1 DEF Temporaries
<1>3. t[1] = c /\ t[2] = f
  BY <1>2
<1>4. stage[c][f] \in InFlight /\ ~Active(c)
  BY <1>1, <1>3
<1>5. pc[c] # "idle" /\ ~Begin(c)
  BY <1>4 DEF PhasesInv, InFlight, Begin
<1>6. pc'[c] = pc[c]
  BY <1>4, <1>5, EarlyMoves
<1>7. ~Fetch(c, f)
  BY <1>4, ActsWhileActive DEF Collect
<1>8. stage'[c][f] = stage[c][f]
  BY <1>7, StageMoves
<1>9. t \in LiveTemps'
  BY <1>1, <1>3, <1>8 DEF LiveTemps
<1> QED
  BY <1>3, <1>4, <1>6, <1>9 DEF Active

(* An index that describes the directory goes on doing so.                  *)
LEMMA DescribesStays ==
  ASSUME TypeInv, PhasesInv, [Next]_vars, NEW i, Describes(i)
  PROVE  /\ \A f \in Files : /\ Kept(i.texts[f], text'[f])
                            /\ Kept(i.receipts[f], receipt'[f])
         /\ Kept(i.run, runFile')
         /\ i.logs \subseteq logs'
         /\ i.temps \subseteq LiveTemps'
         /\ \A t \in i.temps : ~Active(t[1])'
<1>1. \A f \in Files : /\ Kept(i.texts[f], text'[f])
                      /\ Kept(i.receipts[f], receipt'[f])
  BY Keeps DEF Describes, Kept
<1>2. Kept(i.run, runFile') /\ i.logs \subseteq logs'
  BY Keeps DEF Describes, Kept
<1>3. ASSUME NEW t \in i.temps
      PROVE  t \in LiveTemps' /\ ~Active(t[1])'
  <2>1. t \in LiveTemps /\ ~Active(t[1])
    BY <1>3 DEF Describes
  <2> QED
    BY <2>1, LeftoversStay
<1> QED
  BY <1>1, <1>2, <1>3

(* An index describes the directory from the moment it is listed, because   *)
(* the collector that lists is past its downloads and alone.                *)
LEMMA DescribesInvStep ==
  ASSUME TypeInv, AtMostOne, PhasesInv, DescribesInv, [Next]_vars
  PROVE  DescribesInv'
<1>0. /\ pc \in [Collectors -> Phases]
      /\ listing \in [Collectors -> Maybe(RawIndexes)]
  BY DEF TypeInv, TypeOK
<1>1. ASSUME NEW i, Describes(i)
      PROVE  /\ \A f \in Files : /\ Kept(i.texts[f], text'[f])
                                /\ Kept(i.receipts[f], receipt'[f])
             /\ Kept(i.run, runFile')
             /\ i.logs \subseteq logs'
             /\ i.temps \subseteq LiveTemps'
             /\ \A t \in i.temps : ~Active(t[1])'
  BY <1>1, DescribesStays
<1>2. ASSUME index' # None
      PROVE  Describes(index)'
  <2>1. CASE UNCHANGED index
    <3>1. Describes(index)
      BY <1>2, <2>1 DEF DescribesInv
    <3> QED
      BY <1>1, <2>1, <3>1 DEF Describes
  <2>2. ASSUME NEW c \in Collectors, PutIndex(c), index' = listing[c]
        PROVE  Describes(index)'
    <3>1. Describes(listing[c])
      BY <2>2 DEF PutIndex, DescribesInv
    <3> QED
      BY <1>1, <2>2, <3>1 DEF Describes
  <2> QED
    BY <2>1, <2>2, Writers DEF PutIndex
<1>3. ASSUME NEW c \in Collectors, pc'[c] = "listed"
      PROVE  Describes(listing[c])'
  <2>1. CASE pc[c] = "listed"
    <3>1. listing'[c] = listing[c]
      <4>1. ASSUME NEW d \in Collectors, ListRaw(d)
            PROVE  d # c
        BY <2>1, <4>1 DEF ListRaw
      <4> QED
        BY <1>0, <4>1, Writers DEF ListRaw
    <3>2. Describes(listing[c])
      BY <2>1 DEF DescribesInv
    <3> QED
      BY <1>1, <3>1, <3>2 DEF Describes
  <2>2. CASE pc[c] # "listed"
    <3>1. ListRaw(c)
      BY <1>3, <2>2, Moves DEF Publishing
    <3>2. /\ listing'[c] = RawTree(c)
          /\ UNCHANGED <<text, receipt, runFile, logs, stage>>
      BY <1>0, <1>3, <3>1 DEF ListRaw, GoTo, directory
    <3>3. /\ listing'[c].logs = logs
          /\ listing'[c].texts = text /\ listing'[c].receipts = receipt
          /\ listing'[c].run = runFile /\ listing'[c].temps = LiveTemps
      BY <3>2 DEF RawTree
    <3>4. LiveTemps' = LiveTemps
      BY <3>2 DEF LiveTemps
    <3>5. ASSUME NEW t \in LiveTemps
          PROVE  ~Active(t[1])'
      <4>1. t[1] \in Collectors /\ t[2] \in Files /\ stage[t[1]][t[2]] \in InFlight
        BY DEF LiveTemps, Temporaries
      <4>2. t[1] # c
        BY <3>1, <4>1 DEF ListRaw, PhasesInv, Publishing, Drained, Busy
      <4>3. Active(c)
        BY <3>1 DEF ListRaw, Active, Ended
      <4>4. ~Active(t[1])
        BY <4>1, <4>2, <4>3 DEF AtMostOne
      <4>5. pc'[t[1]] = pc[t[1]]
        BY <1>3, <2>2, <4>1, <4>2, EarlyMoves
      <4> QED
        BY <4>4, <4>5 DEF Active
    <3>6. \A f \in Files : /\ Kept(listing'[c].texts[f], text'[f])
                          /\ Kept(listing'[c].receipts[f], receipt'[f])
      BY <3>2, <3>3 DEF Kept
    <3>7. Kept(listing'[c].run, runFile')
      BY <3>2, <3>3 DEF Kept
    <3>8. listing'[c].logs \subseteq logs'
      BY <3>2, <3>3
    <3> QED
      BY <3>3, <3>4, <3>5, <3>6, <3>7, <3>8 DEF Describes
  <2> QED
    BY <2>1, <2>2
<1> QED
  BY <1>2, <1>3 DEF DescribesInv

(* Whether binaries are asked for is decided once.                          *)
LEMMA NoBinariesBefore ==
  ASSUME TypeInv, PhasesInv, [Next]_vars, NoBinaries'
  PROVE  NoBinaries
<1>0. binaries \in [Collectors -> BOOLEAN]
  BY DEF TypeInv, TypeOK
<1> SUFFICES ASSUME NEW c \in Collectors
             PROVE  ~binaries[c]
  BY DEF NoBinaries
<1>1. ~binaries'[c]
  BY DEF NoBinaries
<1>2. ASSUME NEW d \in Collectors, Begin(d)
      PROVE  ~binaries[c]
  <2>1. CASE d = c
    BY <1>2, <2>1 DEF Begin, PhasesInv
  <2>2. CASE d # c
    BY <1>0, <1>1, <1>2, <2>2 DEF Begin
  <2> QED
    BY <2>1, <2>2
<1> QED
  BY <1>1, <1>2, Steps

(* What lists the evidence goes on doing so while the evidence stays.       *)
LEMMA ListsStay ==
  ASSUME UNCHANGED <<text, receipt, runFile, LiveTemps>>, NEW i, Lists(i)
  PROVE  /\ i.texts = text' /\ i.receipts = receipt'
         /\ i.temps = LiveTemps' /\ i.run = runFile'
         /\ i.summary.texts = [f \in Mandatory |-> text'[f]]
<1>1. text' = text /\ receipt' = receipt /\ runFile' = runFile
      /\ LiveTemps' = LiveTemps
  OBVIOUS
<1>2. [f \in Mandatory |-> text'[f]] = [f \in Mandatory |-> text[f]]
  BY <1>1
<1> QED
  BY <1>1, <1>2 DEF Lists

(* A fetch of a file that is not under way and has its body, or of an       *)
(* optional one nobody wants, downloads nothing.                            *)
LEMMA NothingToFetch ==
  ASSUME TypeInv, FetchInv, PhasesInv, NoBinaries, Finished,
         NEW c \in Collectors, NEW f \in Files, Fetch(c, f)
  PROVE  /\ UNCHANGED <<text, receipt, runFile, pc>>
         /\ stage[c][f] \notin Busy /\ stage'[c][f] \notin Busy
         /\ \A d \in Collectors, g \in Files :
              <<d, g>> # <<c, f>> => stage'[d][g] = stage[d][g]
<1>0. stage \in [Collectors -> [Files -> Stages]]
  BY DEF TypeInv, TypeOK
<1>1. Wants(c, f)
  BY DEF Fetch, Reread, Request, Get, FetchFails, WriteReceipt, Promote,
         Diagnose
<1>2. text[f] # None
  BY <1>1 DEF Wants, NoBinaries, Finished, Files
<1>3. stage[c][f] \notin Busy
  BY <1>1 DEF Wants, Finished, Drained, Active, Ended, Busy
<1>4. Reread(c, f)
  BY <1>2, <1>3
     DEF Fetch, Request, Get, FetchFails, WriteReceipt, Promote, Diagnose,
         Busy, InFlight, Awaits
<1>5. SetStage(c, f, "retained")
  BY <1>2, <1>4 DEF Reread, FetchInv, ReceiptCoversText
<1>6. /\ stage'[c][f] = "retained"
      /\ \A d \in Collectors, g \in Files :
           <<d, g>> # <<c, f>> => stage'[d][g] = stage[d][g]
  BY <1>0, <1>5 DEF SetStage
<1> QED
  BY <1>3, <1>4, <1>6 DEF Reread, directory, Busy, InFlight

(* Once there is an index none of the evidence below raw/ changes any more. *)
LEMMA FinishedStays ==
  ASSUME TypeInv, FetchInv, PhasesInv, NoBinaries, Finished, [Next]_vars
  PROVE  UNCHANGED <<text, receipt, runFile, LiveTemps>> /\ Finished'
<1>1. CASE UNCHANGED <<text, receipt, runFile, stage>>
  <2>1. LiveTemps' = LiveTemps
    BY <1>1 DEF LiveTemps
  <2>2. ASSUME NEW c \in Collectors, Active(c)'
        PROVE  \A f \in Files : stage[c][f] \notin Busy
    <3>1. CASE Active(c)
      BY <3>1 DEF Finished, Drained, Busy
    <3>2. CASE ~Active(c)
      <4>1. Begin(c)
        BY <2>2, <3>2, EarlyMoves DEF Active
      <4> QED
        BY <4>1 DEF Begin, PhasesInv, Busy, InFlight
    <3> QED
      BY <3>1, <3>2
  <2>3. Finished'
    BY <1>1, <2>2 DEF Finished, Drained, Busy
  <2> QED
    BY <1>1, <2>1, <2>3
<1>2. ASSUME NEW c \in Collectors, Describe(c)
      PROVE  UNCHANGED <<text, receipt, runFile, stage>>
  BY <1>2 DEF Describe, Accepts, Finished
<1>3. ASSUME NEW c \in Collectors, NEW f \in Files, Fetch(c, f)
      PROVE  UNCHANGED <<text, receipt, runFile, LiveTemps>> /\ Finished'
  <2>1. /\ UNCHANGED <<text, receipt, runFile, pc>>
        /\ stage[c][f] \notin Busy /\ stage'[c][f] \notin Busy
        /\ \A d \in Collectors, g \in Files :
             <<d, g>> # <<c, f>> => stage'[d][g] = stage[d][g]
    BY <1>3, NothingToFetch
  <2>2. \A d \in Collectors, g \in Files :
          /\ stage'[d][g] \in Busy <=> stage[d][g] \in Busy
          /\ stage'[d][g] \in InFlight <=> stage[d][g] \in InFlight
    BY <2>1 DEF Busy
  <2>3. LiveTemps' = LiveTemps
    <3>1. ASSUME NEW t \in Temporaries
          PROVE  stage'[t[1]][t[2]] \in InFlight <=> stage[t[1]][t[2]] \in InFlight
      BY <2>2 DEF Temporaries
    <3> QED
      BY <3>1 DEF LiveTemps
  <2>4. ASSUME NEW d \in Collectors, Active(d)'
        PROVE  \A g \in Files : stage'[d][g] \notin Busy
    BY <2>1, <2>2, <2>4 DEF Active, Finished, Drained, Busy
  <2>5. Finished'
    BY <2>1, <2>4 DEF Finished, Drained, Busy
  <2> QED
    BY <2>1, <2>3, <2>5
<1> QED
  BY <1>1, <1>2, <1>3, TreeStays

(* A listing is not touched while its collector goes to write it.           *)
LEMMA ListingStays ==
  ASSUME TypeInv, [Next]_vars, NEW c \in Collectors, pc[c] = "listed"
  PROVE  listing'[c] = listing[c]
<1>1. listing \in [Collectors -> Maybe(RawIndexes)]
  BY DEF TypeInv, TypeOK
<1>2. ASSUME NEW d \in Collectors, ListRaw(d)
      PROVE  d # c
  BY <1>2 DEF ListRaw
<1> QED
  BY <1>1, <1>2, Writers DEF ListRaw

(* Without binaries every index lists all the evidence.                     *)
LEMMA ListsInvStep ==
  ASSUME Inv, AtMostOne, PhasesInv, ListsInv, [Next]_vars
  PROVE  ListsInv'
<1> SUFFICES ASSUME NoBinaries'
             PROVE  /\ index' # None => Lists(index)' /\ Finished'
                    /\ \A c \in Collectors :
                         pc'[c] = "listed" => Lists(listing[c])'
  BY DEF ListsInv
<1> USE DEF Inv
<1>0. /\ pc \in [Collectors -> Phases]
      /\ listing \in [Collectors -> Maybe(RawIndexes)]
  BY DEF TypeInv, TypeOK
<1>n. NoBinaries
  BY NoBinariesBefore
<1>1. ASSUME UNCHANGED index, index # None
      PROVE  Lists(index)' /\ Finished'
  <2>1. Lists(index) /\ Finished
    BY <1>n, <1>1 DEF ListsInv
  <2>2. UNCHANGED <<text, receipt, runFile, LiveTemps>> /\ Finished'
    BY <1>n, <2>1, FinishedStays
  <2> QED
    BY <1>1, <2>1, <2>2, ListsStay DEF Lists
<1>2. ASSUME NEW c \in Collectors, PutIndex(c), index' = listing[c]
      PROVE  Lists(index)' /\ Finished'
  <2>1. pc[c] = "listed" /\ pc'[c] \in Phases
        /\ UNCHANGED <<text, receipt, runFile, stage>>
        /\ \A d \in Collectors : d # c => pc'[d] = pc[d]
    BY <1>0, <1>2 DEF PutIndex, GoTo, Phases
  <2>2. LiveTemps' = LiveTemps
    BY <2>1 DEF LiveTemps
  <2>3. Lists(index)'
    <3>1. Lists(listing[c])
      BY <1>n, <2>1 DEF ListsInv
    <3> QED
      BY <1>2, <2>1, <2>2, <3>1, ListsStay DEF Lists
  <2>4. runFile # None /\ HasMandatory(c) /\ Drained(c)
    BY <2>1 DEF PhasesInv, TypeInv, PastDownloads, Publishing
  <2>5. ASSUME NEW f \in Mandatory
        PROVE  text[f] # None
    <3>1. stage[c][f] = "retained" /\ f \in Files
      BY <2>4 DEF HasMandatory, Files
    <3> QED
      BY <3>1 DEF FetchInv, FetchesAgree, TypeInv, HoldsBody
  <2>6. ASSUME NEW d \in Collectors, Active(d)'
        PROVE  \A f \in Files : stage'[d][f] \notin Busy
    <3>1. CASE d = c
      BY <2>1, <2>4, <3>1 DEF Drained, Busy
    <3>2. CASE d # c
      <4>1. Active(d) /\ Active(c)
        BY <2>1, <2>6, <3>2 DEF Active, Ended
      <4> QED
        BY <3>2, <4>1 DEF AtMostOne
    <3> QED
      BY <3>1, <3>2
  <2>7. Finished'
    BY <2>1, <2>4, <2>5, <2>6 DEF Finished, Drained, Busy
  <2> QED
    BY <2>3, <2>7
<1>3. ASSUME NEW c \in Collectors, pc'[c] = "listed"
      PROVE  Lists(listing[c])'
  <2>1. CASE pc[c] = "listed"
    <3>1. listing'[c] = listing[c]
      BY <2>1, ListingStays
    <3>2. Active(c)
      BY <2>1 DEF Active, Ended
    <3>3. ASSUME NEW d \in Collectors,
                 Describe(d) \/ \E f \in Files : Fetch(d, f)
          PROVE  FALSE
      <4>1. pc[d] # "listed"
        BY <3>3 DEF Describe, Fetch, Reread, Request, Get, FetchFails,
                    WriteReceipt, Promote, Diagnose, Wants
      <4>2. Active(d)
        BY <3>3, ActsWhileActive DEF Collect
      <4> QED
        BY <2>1, <3>2, <4>1, <4>2 DEF AtMostOne
    <3>4. UNCHANGED <<text, receipt, runFile, stage>>
      BY <3>3, TreeStays
    <3>5. LiveTemps' = LiveTemps
      BY <3>4 DEF LiveTemps
    <3>6. Lists(listing[c])
      BY <1>n, <2>1 DEF ListsInv
    <3> QED
      BY <3>1, <3>4, <3>5, <3>6, ListsStay DEF Lists
  <2>2. CASE pc[c] # "listed"
    <3>1. ListRaw(c)
      BY <1>3, <2>2, Moves DEF Publishing
    <3>2. listing'[c] = RawTree(c) /\ UNCHANGED <<text, receipt, runFile, stage>>
      BY <1>0, <1>3, <3>1 DEF ListRaw, GoTo, directory
    <3>3. LiveTemps' = LiveTemps
      BY <3>2 DEF LiveTemps
    <3>4. HasMandatory(c)
      BY <3>1 DEF ListRaw, TypeInv, PastDownloads, Publishing
    <3>5. \A f \in Mandatory : body[c][f] = text[f]
      BY <3>4 DEF HasMandatory, FetchInv, FetchesAgree, Files
    <3>6. EvidenceOf(c) = [f \in Mandatory |-> text[f]]
      BY <3>5 DEF EvidenceOf
    <3>7. Lists(listing'[c])
      BY <3>2, <3>6 DEF RawTree, SummaryOf, Lists
    <3> QED
      BY <3>2, <3>3, <3>7, ListsStay DEF Lists
  <2> QED
    BY <2>1, <2>2
<1>4. index' # None => Lists(index)' /\ Finished'
  BY <1>1, <1>2, Writers DEF PutIndex
<1> QED
  BY <1>3, <1>4

(* Only a collector that needs collect.log retains it, and it has it before *)
(* it lists raw/.                                                           *)
LEMMA LogsInvStep ==
  ASSUME Inv, LogsInv, [Next]_vars
  PROVE  LogsInv'
<1> USE DEF Inv
<1>0. /\ pc \in [Collectors -> Phases]
      /\ listing \in [Collectors -> Maybe(RawIndexes)]
      /\ base \in [Collectors -> Maybe(Configured)]
  BY DEF TypeInv, TypeOK
<1>1. ASSUME NEW d \in Collectors, pc[d] # "idle"
      PROVE  pc'[d] # "idle" /\ base'[d] = base[d]
  <2>1. pc'[d] # "idle"
    BY <1>1, EarlyMoves
  <2>2. ASSUME NEW e \in Collectors, Begin(e)
        PROVE  e # d
    BY <1>1, <2>2 DEF Begin
  <2> QED
    BY <1>0, <2>1, <2>2, Steps DEF Begin
<1>2. ASSUME NEW d \in Collectors, Began(d)
      PROVE  /\ Began(d)' /\ Base(d)' = Base(d)
             /\ KeepsLog(d)' <=> KeepsLog(d)
  BY <1>1, <1>2 DEF Began, Base, KeepsLog
<1>3. logs \subseteq logs'
  BY Keeps
<1>4. ASSUME "collect.log" \in logs'
      PROVE  \E d \in Collectors : Began(d)' /\ KeepsLog(d)'
  <2>1. CASE "collect.log" \in logs
    BY <1>2, <2>1 DEF LogsInv
  <2>2. CASE "collect.log" \notin logs
    <3>1. PICK c \in Collectors : RetainsLogs(c)
      BY <1>4, <2>2, Writers
    <3>2. KeepsLog(c) /\ Began(c)
      BY <1>4, <2>2, <3>1, StoreAssumption
         DEF RetainsLogs, Resolve, SourceLog, DiagnoseSuite, Diagnose, Wants,
             KeepsLog, Began
    <3> QED
      BY <1>2, <3>2
  <2> QED
    BY <2>1, <2>2
<1>5. ASSUME NEW c \in Collectors
      PROVE  /\ pc'[c] \in {"fetching"} \cup Publishing /\ base'[c] = None =>
                  "collect.log" \in logs'
             /\ pc'[c] \in Publishing /\ Rerun => "collect.log" \in logs'
             /\ pc'[c] = "listed" /\ KeepsLog(c)' =>
                  "collect.log" \in listing'[c].logs
  <2>0. /\ pc[c] \in {"fetching"} \cup Publishing /\ base[c] = None =>
              "collect.log" \in logs
        /\ pc[c] \in Publishing /\ Rerun => "collect.log" \in logs
        /\ pc[c] = "listed" /\ KeepsLog(c) => "collect.log" \in listing[c].logs
    BY DEF LogsInv
  <2>1. pc'[c] \in Publishing =>
          pc[c] \in Publishing \/ (pc[c] = "fetching" /\ Reconcile(c))
    BY Moves DEF Publishing, Reconcile, ListRaw, PutIndex, PutInventory
  <2>2. pc'[c] = "fetching" => pc[c] = "fetching" \/ Resolve(c)
    BY EarlyMoves
  <2>3. pc'[c] \in {"fetching"} \cup Publishing /\ base'[c] = None =>
          "collect.log" \in logs'
    <3>1. ASSUME pc'[c] = "fetching", Resolve(c), base[c] = None
          PROVE  "collect.log" \in logs'
      BY <1>0, <3>1 DEF Resolve, GoTo
    <3>2. pc'[c] \in {"fetching"} \cup Publishing => pc[c] # "idle"
      BY <2>1, <2>2 DEF Publishing, Resolve
    <3> QED
      BY <1>1, <1>3, <2>0, <2>1, <2>2, <3>1, <3>2
  <2>4. pc'[c] \in Publishing /\ Rerun => "collect.log" \in logs'
    BY <1>3, <2>0, <2>1 DEF Reconcile
  <2>5. ASSUME pc'[c] = "listed", KeepsLog(c)'
        PROVE  "collect.log" \in listing'[c].logs
    <3>1. pc[c] = "listed" \/ ListRaw(c)
      BY <2>5, Moves DEF Publishing
    <3>2. pc[c] # "idle"
      BY <3>1 DEF ListRaw
    <3>3. KeepsLog(c)
      BY <1>2, <2>5, <3>2 DEF Began
    <3>4. CASE pc[c] = "listed"
      BY <2>0, <3>3, <3>4, ListingStays
    <3>5. CASE ListRaw(c)
      <4>1. listing'[c].logs = logs
        BY <1>0, <2>5, <3>5 DEF ListRaw, GoTo, RawTree
      <4>2. pc[c] \in Publishing
        BY <3>5 DEF ListRaw, Publishing
      <4> QED
        BY <2>0, <3>3, <4>1, <4>2 DEF KeepsLog
    <3> QED
      BY <3>1, <3>4, <3>5
  <2> QED
    BY <2>3, <2>4, <2>5
<1>6. ASSUME index' # None
      PROVE  \E d \in Collectors : /\ Began(d)'
                                   /\ index'.summary.base = Base(d)'
                                   /\ KeepsLog(d)' => "collect.log" \in index'.logs
  <2>1. CASE UNCHANGED index
    BY <1>2, <1>6, <2>1 DEF LogsInv
  <2>2. ASSUME NEW c \in Collectors, PutIndex(c), index' = listing[c]
        PROVE  /\ Began(c) /\ index'.summary.base = Base(c)
               /\ KeepsLog(c) => "collect.log" \in index'.logs
    <3>1. pc[c] = "listed"
      BY <2>2 DEF PutIndex
    <3>2. listing[c].summary = SummaryOf(c)
      BY <3>1 DEF PublicationInv, ListedAgree
    <3> QED
      BY <2>2, <3>1, <3>2 DEF LogsInv, Began, SummaryOf
  <2> QED
    BY <1>2, <2>1, <2>2, Writers DEF PutIndex
<1> QED
  BY <1>4, <1>5, <1>6 DEF LogsInv

(* A collector lists raw/ after the index that it finds was written.        *)
LEMMA GrowsInvStep ==
  ASSUME TypeInv, AtMostOne, DescribesInv, GrowsInv, [Next]_vars
  PROVE  GrowsInv'
<1> SUFFICES ASSUME NEW c \in Collectors, pc'[c] = "listed", index' # None
             PROVE  index'.logs \subseteq listing'[c].logs
  BY DEF GrowsInv
<1>0. /\ pc \in [Collectors -> Phases]
      /\ listing \in [Collectors -> Maybe(RawIndexes)]
  BY DEF TypeInv, TypeOK
<1>1. CASE pc[c] = "listed"
  <2>1. ASSUME NEW d \in Collectors, PutIndex(d)
        PROVE  FALSE
    <3>1. pc[d] = "listed" /\ pc'[d] # "listed"
      BY <1>0, <2>1 DEF PutIndex, GoTo
    <3>2. Active(c) /\ Active(d)
      BY <1>1, <3>1 DEF Active, Ended
    <3> QED
      BY <3>1, <3>2 DEF AtMostOne
  <2>2. index' = index
    BY <2>1, Writers
  <2> QED
    BY <1>1, <2>2, ListingStays DEF GrowsInv
<1>2. CASE ListRaw(c)
  <2>1. index' = index /\ listing'[c].logs = logs
    BY <1>0, <1>2 DEF ListRaw, GoTo, RawTree, directory
  <2> QED
    BY <2>1 DEF DescribesInv, Describes
<1> QED
  BY <1>1, <1>2, Moves DEF Publishing

(* Nobody has begun at first.                                               *)
LEMMA SequentialInit == Init => SequentialInv
<1> SUFFICES ASSUME Init
             PROVE  SequentialInv
  OBVIOUS
<1>1. /\ index = None
      /\ \A c \in Collectors :
           /\ pc[c] = "idle" /\ ~binaries[c]
           /\ \A f \in Files : stage[c][f] = "todo"
  BY DEF Init
<1>2. AtMostOne
  BY <1>1 DEF AtMostOne, Active
<1>3. PhasesInv
  BY <1>1 DEF PhasesInv, Early, Publishing, Files
<1>4. DescribesInv /\ ListsInv /\ LogsInv /\ GrowsInv
  BY <1>1 DEF Init, DescribesInv, ListsInv, LogsInv, GrowsInv, Publishing
<1> QED
  BY <1>2, <1>3, <1>4 DEF SequentialInv

(* The invariant of collectors that run one after the other is inductive.   *)
LEMMA SequentialInvHolds ==
  ASSUME ~Overlapping
  PROVE  Spec => [](Inv /\ SequentialInv)
<1>1. Inv /\ SequentialInv /\ [Next]_vars => SequentialInv'
  <2> SUFFICES ASSUME Inv, SequentialInv, [Next]_vars
               PROVE  SequentialInv'
    OBVIOUS
  <2> USE DEF SequentialInv
  <2>1. TypeInv
    BY DEF Inv
  <2>2. /\ AtMostOne' /\ PhasesInv' /\ DescribesInv'
        /\ ListsInv' /\ LogsInv' /\ GrowsInv'
    BY <2>1, AtMostOneStep, PhasesInvStep, DescribesInvStep, ListsInvStep,
       LogsInvStep, GrowsInvStep
  <2> QED
    BY <2>2
<1> QED
  BY <1>1, InvHolds, SequentialInit, PTL DEF Spec

(* While collectors do not overlap, the index of a published summary keeps  *)
(* describing what is on disk, so that the next collector can reuse it.     *)
THEOREM SequentialStaysReusable ==
  ASSUME ~Overlapping
  PROVE  Spec => []PublishedStaysReusable
<1>1. Inv /\ SequentialInv => PublishedStaysReusable
  <2> SUFFICES ASSUME Inv, SequentialInv, summary # None
               PROVE  IndexHolds
    BY DEF PublishedStaysReusable
  <2>1. index # None
    BY DEF Inv, PublicationInv, SummaryIsIndexed
  <2> QED
    BY <2>1 DEF SequentialInv, DescribesInv, Describes, IndexHolds
<1> QED
  BY <1>1, SequentialInvHolds, PTL

(* While collectors do not overlap, none wants binaries and all have the    *)
(* same artifact base set, or none, whoever comes after a collector that    *)
(* was killed between index.json and summary.json finds the very index that *)
(* it is about to write, unless logs of abnormal jobs came in between.      *)
THEOREM SequentialResumes ==
  ASSUME ~Overlapping
  PROVE  Spec => []CutPublicationResumes
<1>1. Inv /\ SequentialInv => CutPublicationResumes
  <2> SUFFICES ASSUME Inv, SequentialInv, NoBinaries,
                      \A c, d \in Collectors :
                        "idle" \notin {pc[c], pc[d]} => base[c] = base[d],
                      NEW c \in Collectors,
                      pc[c] = "listed", index # None,
                      listing[c].logs \cap JobLogs \subseteq index.logs
               PROVE  listing[c] = index
    BY DEF CutPublicationResumes, NoBinaries
  <2> USE DEF SequentialInv
  <2>1. listing[c] \in RawIndexes /\ index \in RawIndexes
    BY DEF Inv, TypeInv, TypeOK, HasListing, Maybe
  <2>2. Lists(listing[c]) /\ Lists(index)
    BY DEF ListsInv
  <2>3. PICK d \in Collectors :
          /\ Began(d) /\ index.summary.base = Base(d)
          /\ KeepsLog(d) => "collect.log" \in index.logs
    BY DEF LogsInv
  <2>4. ASSUME NEW e \in Collectors, Began(e)
        PROVE  Base(e) = Base(d) /\ (KeepsLog(e) <=> KeepsLog(d))
    <3>1. base[e] = base[d]
      BY <2>3, <2>4 DEF Began
    <3> QED
      BY <3>1 DEF Base, KeepsLog
  <2>5. listing[c].summary = index.summary
    <3>1. listing[c].summary.base = index.summary.base
      <4>1. listing[c].summary.base = Base(c)
        <5>1. listing[c].summary = SummaryOf(c)
          BY DEF Inv, PublicationInv, ListedAgree
        <5> QED
          BY <5>1 DEF SummaryOf
      <4>2. Began(c)
        BY DEF Began
      <4> QED
        BY <2>3, <2>4, <4>1, <4>2
    <3>2. listing[c].summary.texts = index.summary.texts
      BY <2>2 DEF Lists
    <3>3. listing[c].summary \in Summaries /\ index.summary \in Summaries
      BY <2>1 DEF RawIndexes
    <3> QED
      BY <3>1, <3>2, <3>3 DEF Summaries
  <2>6. listing[c].logs = index.logs
    <3>1. index.logs \subseteq listing[c].logs
      BY DEF GrowsInv
    <3>2. listing[c].logs \subseteq LogFiles
      BY <2>1 DEF RawIndexes
    <3>3. ASSUME "collect.log" \in listing[c].logs
          PROVE  "collect.log" \in index.logs
      <4>1. "collect.log" \in logs
        BY <3>3 DEF DescribesInv, Describes
      <4>2. PICK e \in Collectors : Began(e) /\ KeepsLog(e)
        BY <4>1 DEF LogsInv
      <4> QED
        BY <2>3, <2>4, <4>2
    <3> QED
      BY <3>1, <3>2, <3>3 DEF LogFiles
  <2> QED
    BY <2>1, <2>2, <2>5, <2>6 DEF Lists, RawIndexes
<1> QED
  BY <1>1, SequentialInvHolds, PTL
=============================================================================
