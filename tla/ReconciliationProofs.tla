------------------------- MODULE ReconciliationProofs -------------------------
(***************************************************************************)
(* Proofs about Reconciliation and the transfers of binaries in it, for    *)
(* any shards, artifacts, bodies, limits and records.                      *)
(***************************************************************************)
EXTENDS Reconciliation, SumTheorems, TLAPS

-----------------------------------------------------------------------------
(* The limits *)

(* What is still allowed of the transfer in progress is in the budget, and  *)
(* was when it began.                                                       *)
LimitsInv ==
  /\ remaining \in Nat /\ remaining <= Budget
  /\ listed \subseteq Artifacts
  /\ binaries \in [Paths -> Bodies \cup {NoBody}]
  /\ transfer # NoTransfer =>
       /\ transfer \in Transfers
       /\ transfer.got <= transfer.allowed
       /\ transfer.allowed <= Budget
       /\ transfer.allowed - transfer.got <= remaining

(* The comparisons change nothing of the transfers.                         *)
LEMMA Comparisons ==
  ASSUME Next
  PROVE  UNCHANGED binaryVars \/ Binaries \/ BinariesFail \/ OtherCollector
BY DEF Next, Start, CompareShard, CompareJUnit, Describe, AllDescribed, Publish,
       Refuse

LEMMA LimitsInit == Init => LimitsInv
<1> SUFFICES ASSUME Init PROVE LimitsInv
  OBVIOUS
<1>1. PICK suite \in Suites : BinaryInit(suite.binaries)
  BY DEF Init
<1> QED
  BY <1>1, BinaryAssumption DEF BinaryInit, LimitsInv

LEMMA LimitsStep ==
  ASSUME LimitsInv, TransferStep
  PROVE  LimitsInv'
<1> USE BinaryAssumption
<1>1. CASE NotServed
  BY <1>1 DEF NotServed, LimitsInv, Idle
<1>2. CASE Respond
  <2>1. PICK name \in listed, body \in Bodies, declared \in BOOLEAN :
          /\ listed' = listed \ {name}
          /\ \/ UNCHANGED transfer
             \/ /\ ~TooLarge(declared, body)
                /\ transfer' = [name |-> name, body |-> body, declared |-> declared,
                                allowed |-> Allowed, limit |-> Limit, got |-> 0]
    BY <1>2 DEF Respond
  <2>2. /\ UNCHANGED <<remaining, binaries>>
        /\ listed' \subseteq Artifacts
    BY <1>2, <2>1 DEF Respond, LimitsInv
  <2>3. CASE UNCHANGED transfer
    BY <2>2, <2>3 DEF LimitsInv
  <2>4. CASE /\ ~TooLarge(declared, body)
             /\ transfer' = [name |-> name, body |-> body, declared |-> declared,
                             allowed |-> Allowed, limit |-> Limit, got |-> 0]
    <3>1. Allowed \in 1 .. PerFile /\ Allowed <= remaining /\ Allowed <= Budget
      BY <2>4 DEF TooLarge, Allowed, LimitsInv
    <3>2. Limit \in Limits
      BY DEF Limit, Limits
    <3>3. transfer' \in Transfers /\ transfer'.got = 0 /\ transfer'.allowed = Allowed
      BY <2>4, <3>1, <3>2 DEF Transfers, LimitsInv
    <3> QED
      BY <2>2, <3>1, <3>3 DEF LimitsInv
  <2> QED
    BY <2>1, <2>3, <2>4
<1>3. CASE Receive
  <2>1. PICK n \in 1 .. transfer.allowed - transfer.got :
          /\ transfer' = [transfer EXCEPT !.got = @ + n]
          /\ remaining' = remaining - n
    BY <1>3 DEF Receive
  <2>2. /\ transfer \in Transfers /\ transfer.got <= transfer.allowed
        /\ transfer.allowed <= Budget /\ transfer.allowed - transfer.got <= remaining
    BY <1>3 DEF Receive, Streaming, LimitsInv
  <2>3. /\ transfer.got \in Nat /\ transfer.allowed \in Nat
        /\ transfer.allowed <= PerFile
    BY <2>2 DEF Transfers
  <2>4. /\ transfer.got + n \in 0 .. PerFile
        /\ transfer.got + n <= transfer.allowed
        /\ remaining - n \in Nat /\ remaining - n <= Budget
        /\ transfer.allowed - (transfer.got + n) <= remaining - n
    BY <2>2, <2>3 DEF LimitsInv
  <2>5. /\ transfer' \in Transfers
        /\ transfer'.got = transfer.got + n
        /\ transfer'.allowed = transfer.allowed
    BY <2>1, <2>2, <2>4 DEF Transfers
  <2> QED
    BY <1>3, <2>1, <2>2, <2>4, <2>5 DEF Receive, LimitsInv
<1>4. CASE CutOff
  BY <1>4 DEF CutOff, LimitsInv
<1>5. CASE Persist
  <2>1. transfer.body \in Bodies
    BY <1>5 DEF Persist, Streaming, LimitsInv, Transfers
  <2> QED
    BY <1>5, <2>1 DEF Persist, LimitsInv
<1> QED
  BY <1>1, <1>2, <1>3, <1>4, <1>5 DEF TransferStep

LEMMA LimitsInductive == LimitsInv /\ [Next]_vars => LimitsInv'
<1> SUFFICES ASSUME LimitsInv, [Next]_vars PROVE LimitsInv'
  OBVIOUS
<1>1. CASE UNCHANGED binaryVars
  BY <1>1 DEF binaryVars, LimitsInv
<1>2. CASE Binaries
  <2>1. CASE TransferStep
    BY <2>1, LimitsStep
  <2>2. CASE List(shard)
    BY <2>2 DEF List, LimitsInv
  <2>3. CASE CannotList(shard) \/ AllRead
    BY <2>3 DEF CannotList, AllRead, LimitsInv
  <2> QED
    BY <1>2, <2>1, <2>2, <2>3 DEF Binaries
<1>3. CASE BinariesFail
  BY <1>1, <1>3 DEF BinariesFail, TransferFails, BreakOff, Clash, LimitsInv
<1>4. CASE OtherCollector
  BY <1>4 DEF OtherCollector, OtherPersists, LimitsInv
<1> QED
  BY <1>1, <1>2, <1>3, <1>4, Comparisons DEF vars

(* No transfer takes more than is left: the subtraction from the budget     *)
(* that the suites share (gha_evidence.rs:1585) never wraps around.         *)
THEOREM NeverOverdrawn == Spec => []LimitsInv
BY LimitsInit, LimitsInductive, PTL DEF Spec

-----------------------------------------------------------------------------
(* The inventory *)

RecordsOf ==
  [shard : Shards, name : Artifacts \cup {AnyName},
   state : {"downloaded", "excluded"}, reason : {"none", "remote"} \cup Limits,
   body : Bodies \cup {NoBody}]

Written(r) == r.state = "downloaded" =>
                /\ <<r.shard, r.name>> \in Paths /\ r.body \in Bodies
                /\ r.reason = "none"
                /\ binaries[<<r.shard, r.name>>] = r.body

(* The records of the shards before the one that is compared, and those of  *)
(* its artifacts that are neither listed still nor being transferred.       *)
Behind(r) == r.shard < shard
Taken(r)  == /\ r.shard <= shard
             /\ Reading /\ r.shard = shard =>
                  r.name \notin listed /\ (Streaming => r.name # transfer.name)

RecordsInv ==
  /\ records \in Seq(RecordsOf)
  /\ \A i, j \in DOMAIN records :
       /\ records[i].shard = records[j].shard
       /\ records[i].name = records[j].name
       => i = j
  /\ \A i \in DOMAIN records :
       /\ Written(records[i])
       /\ records[i].state = "excluded" => records[i].body = NoBody

Progress ==
  /\ DOMAIN evidence.done \subseteq Shards
  /\ stage = "shape" => records = <<>>
  /\ stage \in {"shard", "binaries", "junit"} => shard \in Shards
  /\ stage \in {"binaries", "junit"} => \A i \in DOMAIN records : Taken(records[i])
  /\ stage = "shard" \/ (stage = "binaries" /\ ~Reading) =>
       \A i \in DOMAIN records : Behind(records[i])
  /\ Reading => stage = "binaries" /\ from = shard
  /\ Streaming => Reading /\ transfer.name \notin listed

InventoryInv == LimitsInv /\ RecordsInv /\ Progress

(* No file of the inventory is replaced.                                    *)
Kept == \A path \in Paths : binaries[path] \in Bodies => binaries'[path] = binaries[path]

LEMMA Keeps ==
  ASSUME LimitsInv, [Next]_vars
  PROVE  Kept
<1> USE BinaryAssumption
<1>1. CASE UNCHANGED binaries
  BY <1>1 DEF Kept
<1>2. CASE Persist
  BY <1>2 DEF Persist, Fits, Kept, LimitsInv
<1>3. CASE OtherCollector
  BY <1>3 DEF OtherCollector, OtherPersists, Kept, LimitsInv
<1>4. CASE Binaries /\ ~Persist
  BY <1>1, <1>4 DEF Binaries, List, CannotList, AllRead, TransferStep, NotServed,
                    Respond, Receive, CutOff
<1>5. CASE BinariesFail
  BY <1>1, <1>5 DEF BinariesFail, TransferFails, BreakOff, Clash, binaryVars
<1> QED
  BY <1>1, <1>2, <1>3, <1>4, <1>5, Comparisons DEF vars, binaryVars

LEMMA RecordTyped ==
  ASSUME RecordsInv, NEW i \in DOMAIN records
  PROVE  /\ records[i].shard \in Nat /\ records[i].shard \in Shards
         /\ records[i].state \in {"downloaded", "excluded"}
<1>1. records[i] \in RecordsOf
  BY DEF RecordsInv
<1> QED
  BY <1>1, BinaryAssumption DEF RecordsOf

LEMMA RecordsKept ==
  ASSUME RecordsInv, Kept, UNCHANGED records
  PROVE  RecordsInv'
BY DEF RecordsInv, Written, Kept

LEMMA RecordAdded ==
  ASSUME RecordsInv, Kept, NEW r \in RecordsOf,
         records' = Append(records, r),
         Written(r)', r.state = "excluded" => r.body = NoBody,
         \A i \in DOMAIN records : records[i].shard = r.shard => records[i].name # r.name
  PROVE  RecordsInv'
<1>1. records \in Seq(RecordsOf)
  BY DEF RecordsInv
<1>2. /\ records' \in Seq(RecordsOf)
      /\ DOMAIN records' = DOMAIN records \cup {Len(records) + 1}
      /\ DOMAIN records = 1 .. Len(records) /\ Len(records) \in Nat
      /\ \A i \in DOMAIN records : records'[i] = records[i]
      /\ records'[Len(records) + 1] = r
  BY <1>1
<1>3. ASSUME NEW i \in DOMAIN records', NEW j \in DOMAIN records',
             records'[i].shard = records'[j].shard, records'[i].name = records'[j].name
      PROVE  i = j
  BY <1>2, <1>3 DEF RecordsInv
<1>4. ASSUME NEW i \in DOMAIN records'
      PROVE  /\ Written(records[i])'
             /\ records'[i].state = "excluded" => records'[i].body = NoBody
  <2>1. CASE i \in DOMAIN records
    <3>1. records'[i] = records[i]
      BY <1>2, <2>1
    <3>2. Written(records[i]) /\ (records[i].state = "excluded" => records[i].body = NoBody)
      BY <2>1 DEF RecordsInv
    <3> QED
      BY <3>1, <3>2 DEF Written, Kept
  <2>2. CASE i = Len(records) + 1
    BY <1>2, <2>2 DEF Written
  <2> QED
    BY <1>2, <2>1, <2>2
<1> QED
  BY <1>2, <1>3, <1>4 DEF RecordsInv

LEMMA InventoryInit == Init => InventoryInv
<1> SUFFICES ASSUME Init PROVE InventoryInv
  OBVIOUS
<1>1. PICK suite \in Suites : evidence = suite.records /\ BinaryInit(suite.binaries)
  BY DEF Init
<1>2. RecordsInv
  BY <1>1 DEF BinaryInit, RecordsInv
<1>3. DOMAIN evidence.done \subseteq Shards
  BY <1>1, ReconciliationAssumption DEF IsEvidence
<1> QED
  BY <1>1, <1>2, <1>3, LimitsInit
     DEF Init, BinaryInit, InventoryInv, Progress, Reading, Streaming

(* The artifact that was next, or was being transferred, gets its record.   *)
LEMMA ArtifactRecorded ==
  ASSUME InventoryInv, Kept, stage = "binaries", Reading,
         UNCHANGED <<stage, shard, evidence, from>>,
         NEW name \in Artifacts, NEW state, NEW reason, NEW body,
         [shard |-> from, name |-> name, state |-> state, reason |-> reason,
          body |-> body] \in RecordsOf,
         Record(from, name, state, reason, body),
         state = "downloaded" => /\ reason = "none" /\ body \in Bodies
                                 /\ binaries'[<<from, name>>] = body,
         state = "excluded" => body = NoBody,
         \/ Idle /\ name \in listed
         \/ Streaming /\ name = transfer.name,
         listed' = listed \ {name}, transfer' = NoTransfer
  PROVE  RecordsInv' /\ Progress'
<1>1. PICK r \in RecordsOf :
        /\ r.shard = from /\ r.name = name /\ r.state = state
        /\ r.reason = reason /\ r.body = body /\ records' = Append(records, r)
  BY DEF Record
<1>2. from = shard /\ shard \in Shards /\ shard \in Nat
  BY BinaryAssumption DEF InventoryInv, Progress
<1>3. \A i \in DOMAIN records : records[i].shard = from => records[i].name # name
  BY <1>2 DEF InventoryInv, Progress, Taken
<1>4. Written(r)'
  BY <1>1, <1>2 DEF Written, Paths
<1>5. RecordsInv'
  BY <1>1, <1>3, <1>4, RecordAdded DEF InventoryInv
<1>6. /\ DOMAIN records' = DOMAIN records \cup {Len(records) + 1}
      /\ \A i \in DOMAIN records : records'[i] = records[i]
      /\ records'[Len(records) + 1] = r
  BY <1>1 DEF InventoryInv, RecordsInv
<1>7. Reading' /\ ~Streaming'
  BY DEF Reading, Streaming
<1>8. ASSUME NEW i \in DOMAIN records'
      PROVE  records'[i].shard <= shard /\ (records'[i].shard = shard =>
                                             records'[i].name \notin listed')
  <2>1. CASE i \in DOMAIN records
    BY <1>6, <2>1 DEF InventoryInv, Progress, Taken
  <2>2. CASE i = Len(records) + 1
    BY <1>1, <1>2, <1>6, <2>2
  <2> QED
    BY <1>6, <2>1, <2>2
<1>9. (\A i \in DOMAIN records : Taken(records[i]))'
  BY <1>7, <1>8 DEF Taken
<1> QED
  BY <1>5, <1>7, <1>9 DEF Progress, InventoryInv

(* One artifact of a shard that failed.                                     *)
LEMMA InventoryTransfer ==
  ASSUME InventoryInv, Kept, stage = "binaries", TransferStep,
         UNCHANGED <<stage, shard, evidence>>
  PROVE  RecordsInv' /\ Progress'
<1>0. LimitsInv /\ shard \in Shards /\ (Streaming => Reading)
  BY DEF InventoryInv, Progress
<1>1. CASE NotServed
  <2>1. PICK name \in listed : /\ Exclude(name, "remote")
                              /\ listed' = listed \ {name}
    BY <1>1 DEF NotServed
  <2>2. /\ name \in Artifacts /\ from = shard
        /\ Reading /\ transfer' = NoTransfer /\ UNCHANGED from
    BY <1>0, <1>1, <2>1 DEF NotServed, Idle, LimitsInv, InventoryInv, Progress
  <2>3. [shard |-> from, name |-> name, state |-> "excluded", reason |-> "remote",
         body |-> NoBody] \in RecordsOf
    BY <1>0, <2>2 DEF RecordsOf
  <2> QED
    BY <1>1, <2>1, <2>2, <2>3, ArtifactRecorded DEF NotServed, Exclude
<1>2. CASE Respond
  <2>1. PICK name \in listed, body \in Bodies, declared \in BOOLEAN :
          /\ listed' = listed \ {name}
          /\ \/ Exclude(name, Limit) /\ UNCHANGED transfer
             \/ /\ transfer' = [name |-> name, body |-> body, declared |-> declared,
                                allowed |-> Allowed, limit |-> Limit, got |-> 0]
                /\ UNCHANGED records
    BY <1>2 DEF Respond
  <2>2. /\ name \in Artifacts /\ from = shard /\ Idle
        /\ Reading /\ transfer = NoTransfer /\ UNCHANGED from
    BY <1>0, <1>2, <2>1 DEF Respond, Idle, LimitsInv, InventoryInv, Progress
  <2>3. CASE Exclude(name, Limit) /\ UNCHANGED transfer
    <3>1. [shard |-> from, name |-> name, state |-> "excluded", reason |-> Limit,
           body |-> NoBody] \in RecordsOf
      BY <1>0, <2>2 DEF RecordsOf, Limit, Limits
    <3> QED
      BY <2>1, <2>2, <2>3, <3>1, ArtifactRecorded DEF Exclude
  <2>4. CASE transfer'.name = name /\ UNCHANGED records
    <3>1. RecordsInv'
      BY <2>4, RecordsKept DEF InventoryInv
    <3>2. \A i \in DOMAIN records : Taken(records[i]) => Taken(records[i])'
      BY <2>1, <2>2, <2>4 DEF Taken, Reading
    <3> QED
      BY <2>1, <2>2, <2>4, <3>1, <3>2 DEF InventoryInv, Progress, Reading
  <2> QED
    BY <2>1, <2>3, <2>4
<1>3. CASE Receive
  <2>1. PICK n : transfer' = [transfer EXCEPT !.got = @ + n]
    BY <1>3 DEF Receive
  <2>2. Streaming /\ transfer'.name = transfer.name /\ UNCHANGED <<records, from, listed>>
    BY <1>0, <1>3, <2>1 DEF Receive, Streaming, LimitsInv, Transfers
  <2>3. RecordsInv'
    BY <2>2, RecordsKept DEF InventoryInv
  <2>4. \A i \in DOMAIN records : Taken(records[i]) => Taken(records[i])'
    BY <2>2 DEF Taken, Reading
  <2> QED
    BY <1>0, <2>2, <2>3, <2>4 DEF InventoryInv, Progress, Reading
<1>4. CASE CutOff
  <2>1. /\ Streaming /\ transfer \in Transfers /\ from = shard /\ Reading
        /\ transfer.name \notin listed
    BY <1>0, <1>4 DEF CutOff, Streaming, LimitsInv, InventoryInv, Progress
  <2>2. [shard |-> from, name |-> transfer.name, state |-> "excluded",
         reason |-> transfer.limit, body |-> NoBody] \in RecordsOf
    BY <1>0, <2>1 DEF RecordsOf, Transfers
  <2>3. listed' = listed \ {transfer.name} /\ transfer.name \in Artifacts
    BY <1>4, <2>1 DEF CutOff, Transfers
  <2> QED
    BY <1>4, <2>1, <2>2, <2>3, ArtifactRecorded DEF CutOff, Exclude
<1>5. CASE Persist
  <2>1. /\ Streaming /\ transfer \in Transfers /\ from = shard /\ Reading
        /\ transfer.name \notin listed
    BY <1>0, <1>5 DEF Persist, Streaming, LimitsInv, InventoryInv, Progress
  <2>2. transfer.name \in Artifacts /\ transfer.body \in Bodies
    BY <2>1 DEF Transfers
  <2>3. [shard |-> from, name |-> transfer.name, state |-> "downloaded",
         reason |-> "none", body |-> transfer.body] \in RecordsOf
    BY <1>0, <2>1, <2>2 DEF RecordsOf
  <2>4. binaries'[<<from, transfer.name>>] = transfer.body
    BY <1>0, <1>5, <2>1, <2>2 DEF Persist, Fits, Path, Paths, LimitsInv
  <2>5. listed' = listed \ {transfer.name}
    BY <1>5, <2>1 DEF Persist
  <2> QED
    BY <1>5, <2>1, <2>2, <2>3, <2>4, <2>5, ArtifactRecorded DEF Persist
<1> QED
  BY <1>1, <1>2, <1>3, <1>4, <1>5 DEF TransferStep

(* The steps of the binaries that write no artifact's record.               *)
LEMMA InventoryListing ==
  ASSUME InventoryInv, Kept, stage = "binaries", UNCHANGED <<shard, evidence>>,
         \/ ~Reading /\ List(shard) /\ UNCHANGED stage
         \/ ~Reading /\ CannotList(shard) /\ stage' = "junit"
         \/ AllRead /\ stage' = "junit"
         \/ OtherPersists /\ UNCHANGED stage
  PROVE  RecordsInv' /\ Progress'
<1>1. /\ shard \in Shards /\ shard \in Nat \ {0}
      /\ \A i \in DOMAIN records : records[i].shard \in Nat
  BY BinaryAssumption, RecordTyped DEF InventoryInv, Progress
<1>2. CASE UNCHANGED records /\ List(shard) /\ ~Reading /\ UNCHANGED stage
  <2>1. ~Streaming' /\ ~Streaming /\ from' = shard
    BY <1>2 DEF List, Streaming, InventoryInv, Progress
  <2>2. (\A i \in DOMAIN records : Taken(records[i]))'
    BY <1>1, <1>2, <2>1 DEF Taken, Behind, InventoryInv, Progress
  <2> QED
    BY <1>1, <1>2, <2>1, <2>2, RecordsKept DEF InventoryInv, Progress, Reading, Nowhere
<1>3. CASE ~Reading /\ CannotList(shard) /\ stage' = "junit"
  <2>1. PICK r \in RecordsOf :
          /\ records' = Append(records, r) /\ r.shard = shard /\ r.name = AnyName
          /\ r.state = "excluded" /\ r.body = NoBody
    BY <1>1, <1>3 DEF CannotList, Record, RecordsOf
  <2>2. \A i \in DOMAIN records : records[i].shard < shard
    BY <1>3 DEF InventoryInv, Progress, Behind
  <2>3. Written(r)' /\ \A i \in DOMAIN records : records[i].shard # shard
    BY <1>1, <2>1, <2>2 DEF Written
  <2>4. RecordsInv'
    BY <2>1, <2>3, RecordAdded DEF InventoryInv
  <2>5. /\ DOMAIN records' = DOMAIN records \cup {Len(records) + 1}
        /\ \A i \in DOMAIN records : records'[i] = records[i]
        /\ records'[Len(records) + 1] = r
    BY <2>1 DEF InventoryInv, RecordsInv
  <2>6. ~Reading' /\ ~Streaming'
    BY <1>3 DEF CannotList, Reading, Streaming, InventoryInv, Progress
  <2>7. (\A i \in DOMAIN records : Taken(records[i]))'
    BY <1>1, <2>1, <2>2, <2>5, <2>6 DEF Taken
  <2> QED
    BY <1>1, <1>3, <2>4, <2>6, <2>7 DEF InventoryInv, Progress
<1>4. CASE AllRead /\ stage' = "junit"
  <2>1. ~Reading' /\ ~Streaming' /\ UNCHANGED records
    BY <1>4 DEF AllRead, Idle, Reading, Streaming
  <2>2. (\A i \in DOMAIN records : Taken(records[i]))'
    BY <2>1 DEF Taken, InventoryInv, Progress
  <2> QED
    BY <1>1, <1>4, <2>1, <2>2, RecordsKept DEF InventoryInv, Progress
<1>5. CASE OtherPersists /\ UNCHANGED stage
  <2>1. UNCHANGED <<records, from, listed, transfer>> /\ Reading
    BY <1>5 DEF OtherPersists
  <2>2. (\A i \in DOMAIN records : Taken(records[i]))'
    BY <2>1 DEF Taken, InventoryInv, Progress, Reading, Streaming
  <2> QED
    BY <1>5, <2>1, <2>2, RecordsKept DEF InventoryInv, Progress, Reading, Streaming
<1> QED
  BY <1>2, <1>3, <1>4, <1>5 DEF List

LEMMA InventoryInductive == InventoryInv /\ [Next]_vars => InventoryInv'
<1> SUFFICES ASSUME InventoryInv, [Next]_vars PROVE InventoryInv'
  OBVIOUS
<1> USE DEF InventoryInv
<1>1. LimitsInv' /\ Kept
  BY LimitsInductive, Keeps
<1>2. SUFFICES RecordsInv' /\ Progress'
  BY <1>1
<1>3. CASE Binaries
  BY <1>1, <1>3, InventoryTransfer, InventoryListing DEF Binaries, given
<1>4. CASE OtherCollector
  <2>1. stage = "binaries"
    BY <1>4 DEF OtherCollector, OtherPersists, Progress
  <2> QED
    BY <1>1, <1>4, <2>1, InventoryListing DEF OtherCollector, given
<1>5. CASE BinariesFail
  <2>1. ~Reading' /\ ~Streaming' /\ UNCHANGED records
    BY <1>5 DEF BinariesFail, TransferFails, BreakOff, Clash, Reading, Streaming,
                binaryVars, Progress
  <2> QED
    BY <1>1, <1>5, <2>1, RecordsKept DEF BinariesFail, given, Progress
<1>6. CASE UNCHANGED vars
  <2>1. (\A i \in DOMAIN records : Taken(records[i]) => Taken(records[i])')
    BY <1>6 DEF vars, binaryVars, Taken, Reading, Streaming
  <2> QED
    BY <1>1, <1>6, <2>1, RecordsKept
       DEF vars, binaryVars, Progress, Behind, Reading, Streaming
<1>7. CASE Start \/ CompareShard \/ CompareJUnit \/ Describe \/ AllDescribed
           \/ Publish \/ Refuse
  <2>0. UNCHANGED <<binaryVars, evidence>> /\ stage # "binaries"
    BY <1>7 DEF Start, CompareShard, CompareJUnit, Describe, AllDescribed, Publish,
                Refuse, Contradicted, given
  <2>1. /\ UNCHANGED records /\ RecordsInv'
        /\ ~Reading /\ ~Reading' /\ ~Streaming'
    <3>1. UNCHANGED <<records, from, transfer>>
      BY <2>0 DEF binaryVars
    <3>2. ~Reading /\ ~Streaming
      BY <2>0 DEF Progress
    <3> QED
      BY <1>1, <3>1, <3>2, RecordsKept DEF Reading, Streaming
  <2>2. \A i \in DOMAIN records : records[i].shard \in Nat
    BY RecordTyped
  <2>3. CASE Start
    <3>1. records = <<>> /\ shard' \in Shards /\ stage' = "shard"
      BY <2>3 DEF Start, Shown, IsFirst, Progress
    <3> QED
      BY <2>0, <2>1, <3>1 DEF Progress
  <2>4. CASE CompareShard
    <3>1. /\ shard \in Shards /\ shard \in Nat /\ shard' = shard
          /\ stage' \in {"binaries", "junit"}
          /\ \A i \in DOMAIN records : Behind(records[i])
      BY <2>4, BinaryAssumption DEF CompareShard, Progress
    <3>2. (\A i \in DOMAIN records : Taken(records[i]) /\ Behind(records[i]))'
      BY <2>1, <2>2, <3>1 DEF Taken, Behind
    <3> QED
      BY <2>0, <2>1, <3>1, <3>2 DEF Progress
  <2>5. CASE CompareJUnit
    <3>1. CASE stage' = "failures"
      BY <2>0, <2>1, <3>1 DEF Progress
    <3>2. CASE stage' = "shard" /\ shard' \in Later(shard)
      <4>1. /\ shard \in Nat /\ shard' \in Shards /\ shard' \in Nat /\ shard' > shard
            /\ \A i \in DOMAIN records : Taken(records[i])
        BY <2>5, <3>2, BinaryAssumption DEF CompareJUnit, Later, Shown, Progress
      <4>2. (\A i \in DOMAIN records : Behind(records[i]))'
        BY <2>1, <2>2, <4>1 DEF Taken, Behind
      <4> QED
        BY <2>0, <2>1, <3>2, <4>1, <4>2 DEF Progress
    <3> QED
      BY <2>5, <3>1, <3>2 DEF CompareJUnit, IsFirst
  <2>6. CASE Describe \/ AllDescribed \/ Publish \/ Refuse
    <3>1. stage' \in {"failures", "conclude", "published", "refused"}
      BY <2>6 DEF Describe, AllDescribed, Publish, Refuse
    <3> QED
      BY <2>0, <2>1, <3>1 DEF Progress
  <2> QED
    BY <1>7, <2>3, <2>4, <2>5, <2>6
<1> QED
  BY <1>3, <1>4, <1>5, <1>6, <1>7 DEF Next

(* InventoryIsValid, for any shards, artifacts, bodies and limits: the       *)
(* inventory published with a summary is one that a later command accepts,   *)
(* although another collector may have written any of the files.            *)
THEOREM PublishedInventoryIsValid == Spec => []InventoryIsValid
<1>1. InventoryInv => InventoryIsValid
  <2> SUFFICES ASSUME InventoryInv PROVE ValidInventory
    BY DEF InventoryIsValid
  <2>1. ASSUME NEW i \in DOMAIN records
        PROVE  /\ Written(records[i])
               /\ records[i].state \in {"downloaded", "excluded"}
               /\ records[i].state = "excluded" => records[i].body = NoBody
    BY <2>1, RecordTyped DEF InventoryInv, RecordsInv
  <2>2. IsInjective([i \in DOMAIN records |-> <<records[i].shard, records[i].name>>])
    BY DEF InventoryInv, RecordsInv, IsInjective
  <2> QED
    BY <2>1, <2>2 DEF ValidInventory, Written
<1> QED
  BY <1>1, InventoryInit, InventoryInductive, PTL DEF Spec


-----------------------------------------------------------------------------
(* The budget *)

Taking == [shard : Shards \cup {Earlier}, name : Artifacts \cup {AnyName}, bytes : Nat]

BudgetInv ==
  /\ consumption \in Seq(Taking)
  /\ transfer.got \in Nat
  /\ BudgetIsConserved

LEMMA Appended ==
  ASSUME NEW T, NEW q \in Seq(T), NEW c \in T, NEW r, r = Append(q, c),
         NEW n, n = Len(q), NEW m, m = n + 1
  PROVE  /\ n \in Nat /\ m \in Nat /\ DOMAIN q = 1 .. n /\ DOMAIN r = 1 .. m
         /\ r \in Seq(T) /\ r[m] = c
         /\ \A i \in 1 .. n : r[i] = q[i]
         /\ m \in 1 .. m /\ (1 .. m) \ {m} = 1 .. n /\ 1 .. n \subseteq 1 .. m
OBVIOUS

(* What a transfer took is added to what was consumed.                      *)
LEMMA ConsumedGrows ==
  ASSUME consumption \in Seq(Taking), NEW c \in Taking,
         consumption' = Append(consumption, c)
  PROVE  /\ consumption' \in Seq(Taking)
         /\ Consumed \in Nat
         /\ Consumed' = Consumed + c.bytes
         /\ \A i \in DOMAIN consumption' :
              \/ i \in DOMAIN consumption /\ consumption'[i] = consumption[i]
              \/ consumption'[i] = c
<1>n. PICK n : n = Len(consumption)
  OBVIOUS
<1>m. PICK m : m = n + 1
  OBVIOUS
<1>q. PICK q : q = consumption
  OBVIOUS
<1>r. PICK r : r = consumption'
  OBVIOUS
<1>1. /\ n \in Nat /\ m \in Nat /\ DOMAIN q = 1 .. n /\ DOMAIN r = 1 .. m
      /\ r \in Seq(Taking) /\ r[m] = c
      /\ \A i \in 1 .. n : r[i] = q[i]
      /\ m \in 1 .. m /\ (1 .. m) \ {m} = 1 .. n /\ 1 .. n \subseteq 1 .. m
  BY <1>n, <1>m, <1>q, <1>r, Appended
<1>2. /\ \A i \in DOMAIN q : q[i] \in Taking
      /\ \A i \in DOMAIN r : r[i] \in Taking
  BY <1>1, <1>q, Elements
<1>3. \A d \in Taking : d.bytes \in Nat
  BY DEF Taking
<1>I. PICK I : I = 1 .. n
  OBVIOUS
<1>J. PICK J : J = 1 .. m
  OBVIOUS
<1>4. /\ DOMAIN q = I /\ DOMAIN r = J /\ m \in J /\ J \ {m} = I /\ I \subseteq J
      /\ \A i \in I : r[i] = q[i]
  BY ONLY <1>1, <1>I, <1>J
<1>f. IsFiniteSet(I) /\ IsFiniteSet(J)
  <2>1. n \in Int /\ m \in Int /\ 1 \in Int
    BY ONLY <1>1
  <2>2. IsFiniteSet(1 .. n) /\ IsFiniteSet(1 .. m)
    BY ONLY <2>1, FS_Interval
  <2> QED  BY ONLY <1>I, <1>J, <2>2
<1>g. PICK g : g = [i \in DOMAIN q |-> q[i].bytes]
  OBVIOUS
<1>k. PICK k : k = [i \in DOMAIN r |-> r[i].bytes]
  OBVIOUS
<1>5. /\ Consumed = SumFunctionOnSet(g, I)
      /\ Consumed' = SumFunctionOnSet(k, J)
  BY <1>4, <1>q, <1>r, <1>g, <1>k DEF Consumed, SumFunction
<1>6. /\ \A i \in I : g[i] = q[i].bytes
      /\ \A i \in J : k[i] = r[i].bytes
  BY ONLY <1>4, <1>g, <1>k
<1>7. /\ \A i \in I : g[i] \in Nat /\ k[i] = g[i]
      /\ \A i \in J : k[i] \in Nat
      /\ k[m] = c.bytes /\ c.bytes \in Nat
  BY ONLY <1>1, <1>2, <1>3, <1>4, <1>6
<1>8. SumFunctionOnSet(k, J) = k[m] + SumFunctionOnSet(k, J \ {m})
  BY ONLY <1>4, <1>f, <1>7, SumTakes
<1>9. SumFunctionOnSet(k, I) = SumFunctionOnSet(g, I)
  BY ONLY <1>4, <1>f, <1>7, SumOfSame
<1>10. SumFunctionOnSet(g, I) \in Nat
  BY ONLY <1>f, <1>7, SumIsNat
<1>11. ASSUME NEW i \in J
       PROVE  (i \in I /\ r[i] = q[i]) \/ r[i] = c
  BY ONLY <1>1, <1>4, i \in J
<1>12. SumFunctionOnSet(k, J) = SumFunctionOnSet(g, I) + c.bytes
  <2>1. SumFunctionOnSet(k, J) = c.bytes + SumFunctionOnSet(g, I)
    BY ONLY <1>4, <1>7, <1>8, <1>9
  <2>2. c.bytes \in Nat
    BY ONLY <1>7
  <2> QED  BY ONLY <1>10, <2>1, <2>2
<1> QED  BY <1>1, <1>4, <1>5, <1>10, <1>11, <1>12, <1>q, <1>r

LEMMA ConsumedIsNat ==
  ASSUME consumption \in Seq(Taking)
  PROVE  /\ Consumed \in Nat
         /\ \A i \in DOMAIN consumption : consumption[i].bytes <= Consumed
<1>q. PICK q : q = consumption
  OBVIOUS
<1>I. PICK I : I = DOMAIN q
  OBVIOUS
<1>g. PICK g : g = [i \in I |-> q[i].bytes]
  OBVIOUS
<1>1. /\ IsFiniteSet(I)
      /\ \A i \in I : q[i] \in Taking
  BY <1>q, <1>I, Elements, FS_Interval
<1>2. Consumed = SumFunctionOnSet(g, I)
  BY <1>q, <1>I, <1>g DEF Consumed, SumFunction
<1>3. \A i \in I : g[i] \in Nat /\ g[i] = q[i].bytes
  BY <1>1, <1>g DEF Taking
<1>4. ASSUME NEW i \in I PROVE g[i] <= SumFunctionOnSet(g, I)
  <2>1. SumFunctionOnSet(g, I) = g[i] + SumFunctionOnSet(g, I \ {i})
    BY <1>1, <1>3, SumTakes
  <2>2. SumFunctionOnSet(g, I \ {i}) \in Nat
    <3>1. IsFiniteSet(I \ {i})
      BY <1>1, FS_Subset
    <3> QED  BY <1>3, <3>1, SumIsNat
  <2> QED  BY <1>3, <2>1, <2>2
<1>5. SumFunctionOnSet(g, I) \in Nat
  BY <1>1, <1>3, SumIsNat
<1> QED  BY <1>q, <1>I, <1>2, <1>3, <1>4, <1>5

LEMMA BudgetInit == Init => BudgetInv
<1> SUFFICES ASSUME Init PROVE BudgetInv
  OBVIOUS
<1>1. PICK taken \in 0 .. Budget :
        /\ remaining = Budget - taken
        /\ consumption = <<[shard |-> Earlier, name |-> AnyName, bytes |-> taken]>>
        /\ transfer = NoTransfer
  BY BinaryAssumption DEF Init, BinaryInit
<1>c. PICK c : c = [shard |-> Earlier, name |-> AnyName, bytes |-> taken]
  OBVIOUS
<1>2. c \in Taking /\ c.bytes = taken /\ c.shard = Earlier
  BY <1>c DEF Taking
<1>3. consumption \in Seq(Taking) /\ DOMAIN consumption = {1} /\ consumption[1] = c
  BY <1>1, <1>2, <1>c
<1>g. PICK g : g = [i \in DOMAIN consumption |-> consumption[i].bytes]
  OBVIOUS
<1>4. g[1] = taken /\ Consumed = SumFunctionOnSet(g, {1})
  BY <1>2, <1>3, <1>g DEF Consumed, SumFunction
<1>5. SumFunctionOnSet(g, {1}) = g[1] + SumFunctionOnSet(g, {})
  <2>1. IsFiniteSet({1}) /\ {1} \ {1} = {} /\ \A x \in {1} : g[x] \in Nat
    BY <1>4, FS_Singleton
  <2>2. SumFunctionOnSet(g, {1}) = g[1] + SumFunctionOnSet(g, {1} \ {1})
    BY ONLY <2>1, SumTakes
  <2> QED  BY <2>1, <2>2
<1>6. SumFunctionOnSet(g, {}) = 0
  BY FS_EmptySet, SumUnfolds
<1>7. Consumed = taken
  BY <1>4, <1>5, <1>6
<1> QED  BY <1>1, <1>2, <1>3, <1>7, BinaryAssumption
         DEF BudgetInv, BudgetIsConserved, NoTransfer

(* A transfer ends, or an artifact is refused: what it took is charged.     *)
LEMMA Charged ==
  ASSUME LimitsInv, BudgetInv, NEW name \in Artifacts, NEW bytes \in Nat,
         from \in Shards \cup {Earlier}, bytes = transfer.got, bytes <= PerFile,
         Consume(from, name, bytes), UNCHANGED remaining, transfer'.got = 0
  PROVE  BudgetInv'
<1>1. PICK c : c = [shard |-> from, name |-> name, bytes |-> bytes]
  OBVIOUS
<1>2. c \in Taking /\ c.bytes = bytes /\ consumption' = Append(consumption, c)
  BY <1>1 DEF Taking, Consume
<1>3. /\ consumption' \in Seq(Taking) /\ Consumed \in Nat
      /\ Consumed' = Consumed + bytes
      /\ \A i \in DOMAIN consumption' :
           \/ i \in DOMAIN consumption /\ consumption'[i] = consumption[i]
           \/ consumption'[i] = c
  BY <1>2, ConsumedGrows DEF BudgetInv
<1>4. remaining \in Nat /\ remaining + Consumed + bytes = Budget
  BY DEF LimitsInv, BudgetInv, BudgetIsConserved
<1>5. remaining' + Consumed' + transfer'.got = Budget
  BY <1>3, <1>4
<1>6. \A i \in DOMAIN consumption' :
        consumption'[i].shard # Earlier => consumption'[i].bytes <= PerFile
  BY <1>2, <1>3 DEF BudgetInv, BudgetIsConserved
<1> QED  BY <1>3, <1>5, <1>6 DEF BudgetInv, BudgetIsConserved

LEMMA BudgetInductive == InventoryInv /\ BudgetInv /\ [Next]_vars => BudgetInv'
<1> SUFFICES ASSUME InventoryInv, BudgetInv, [Next]_vars PROVE BudgetInv'
  OBVIOUS
<1> USE DEF InventoryInv
<1>a. PerFile \in Nat /\ NoTransfer.got = 0
  BY BinaryAssumption DEF NoTransfer
<1>b. Reading => from \in Shards \cup {Earlier}
  BY DEF Progress
<1>c. Streaming => /\ Reading /\ transfer.name \in Artifacts
                   /\ transfer.got \in Nat /\ transfer.got <= PerFile
  BY <1>a DEF Progress, Streaming, LimitsInv, Transfers
<1>1. CASE UNCHANGED <<remaining, consumption, transfer>>
  BY <1>1 DEF BudgetInv, BudgetIsConserved, Consumed
<1>2. CASE NotServed
  <2>1. PICK name \in listed : Consume(from, name, 0)
    BY <1>2 DEF NotServed
  <2>2. /\ name \in Artifacts /\ transfer.got = 0 /\ transfer'.got = 0
        /\ UNCHANGED remaining /\ Reading
    BY <1>2, <1>a DEF NotServed, Idle, LimitsInv
  <2> QED  BY <1>a, <1>b, <2>1, <2>2, Charged
<1>3. CASE Respond
  <2>1. PICK name \in listed :
          \/ Consume(from, name, 0) /\ UNCHANGED transfer
          \/ transfer'.got = 0 /\ UNCHANGED consumption
    BY <1>3 DEF Respond
  <2>2. /\ name \in Artifacts /\ transfer.got = 0 /\ UNCHANGED remaining /\ Reading
    BY <1>3, <1>a DEF Respond, Idle, LimitsInv
  <2>3. CASE Consume(from, name, 0) /\ UNCHANGED transfer
    BY <1>a, <1>b, <2>2, <2>3, Charged
  <2>4. CASE transfer'.got = 0 /\ UNCHANGED consumption
    BY <2>2, <2>4 DEF BudgetInv, BudgetIsConserved, Consumed
  <2> QED  BY <2>1, <2>3, <2>4
<1>4. CASE Receive
  <2>1. PICK n \in 1 .. transfer.allowed - transfer.got :
          /\ transfer' = [transfer EXCEPT !.got = @ + n]
          /\ remaining' = remaining - n
          /\ UNCHANGED consumption
    BY <1>4 DEF Receive
  <2>2. /\ transfer \in Transfers /\ transfer.allowed \in Nat
        /\ transfer.allowed - transfer.got <= remaining /\ remaining \in Nat
        /\ transfer.got \in Nat /\ n \in Nat
    BY <1>4, <1>c DEF Receive, Streaming, LimitsInv, Transfers
  <2>3. transfer'.got = transfer.got + n
    BY <2>1, <2>2 DEF Transfers
  <2>4. Consumed \in Nat /\ Consumed' = Consumed
    BY <2>1, ConsumedIsNat DEF BudgetInv, Consumed
  <2>5. remaining + Consumed + transfer.got = Budget
    BY DEF BudgetInv, BudgetIsConserved
  <2>6. remaining' + Consumed' + transfer'.got = Budget
    BY <2>1, <2>2, <2>3, <2>4, <2>5
  <2> QED  BY <2>1, <2>2, <2>3, <2>6 DEF BudgetInv, BudgetIsConserved
<1>5. CASE CutOff \/ Persist \/ TransferFails
  <2>1. /\ Streaming /\ Consume(from, transfer.name, transfer.got)
        /\ transfer' = NoTransfer /\ UNCHANGED remaining
    BY <1>5 DEF CutOff, Persist, TransferFails, BreakOff, Clash, Charge
  <2> QED  BY <1>a, <1>b, <1>c, <2>1, Charged
<1>6. CASE Binaries
  BY <1>1, <1>2, <1>3, <1>4, <1>5, <1>6
     DEF Binaries, TransferStep, List, CannotList, AllRead
<1>7. CASE BinariesFail
  BY <1>1, <1>5, <1>7 DEF BinariesFail, binaryVars
<1>8. CASE OtherCollector
  BY <1>1, <1>8 DEF OtherCollector, OtherPersists
<1> QED  BY <1>1, <1>6, <1>7, <1>8, Comparisons DEF vars, binaryVars

(* BudgetIsConserved for any budget, limits, bodies and sizes: whatever     *)
(* ends a transfer, the bytes it took are reported, and no byte is reported *)
(* twice.                                                                   *)
THEOREM BudgetConserved == Spec => []BudgetIsConserved
<1>1. BudgetInv => BudgetIsConserved
  BY DEF BudgetInv
<1>2. Init => InventoryInv /\ BudgetInv
  BY InventoryInit, BudgetInit
<1>3. InventoryInv /\ BudgetInv /\ [Next]_vars => InventoryInv' /\ BudgetInv'
  BY InventoryInductive, BudgetInductive
<1> QED  BY <1>1, <1>2, <1>3, PTL DEF Spec
=============================================================================
