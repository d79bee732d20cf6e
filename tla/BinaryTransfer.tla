---------------------------- MODULE BinaryTransfer ----------------------------
(***************************************************************************)
(* The optional binary artifacts of the shards that failed                 *)
(* (collect_abnormal_shard_binaries), the budget that all suites of one    *)
(* command share, and the inventory that a suite publishes of them.        *)
(*                                                                         *)
(* Artifacts come one at a time, in the order of their names, and a body   *)
(* arrives in chunks.  The directory binaries/ may hold what an earlier    *)
(* command left, and another collector may write there meanwhile.          *)
(***************************************************************************)
EXTENDS Naturals, Sequences, Functions, FiniteSetsExt

CONSTANTS
  Shards,      \* shard names; numbers, and taken in their order
  Artifacts,   \* artifact names; numbers, and taken in their order
  Bodies,      \* what an artifact may contain
  SizeOf,      \* and its size, in bytes
  PerFile,     \* --max-binary-bytes
  Budget,      \* --max-binary-total-bytes
  NoBody

ASSUME BinaryAssumption ==
  /\ Shards \subseteq Nat \ {0} /\ IsFiniteSet(Shards)
  /\ Artifacts \subseteq Nat \ {0} /\ IsFiniteSet(Artifacts)
  /\ SizeOf \in [Bodies -> Nat]
  /\ PerFile \in Nat /\ Budget \in Nat
  /\ NoBody \notin Bodies

VARIABLES
  remaining,     \* binary_bytes_remaining, which the suites share
  consumption,   \* what each transfer took of it
  records,       \* the suite's BinaryRecords
  binaries,      \* binaries/<shard>/<name> on disk
  from,          \* the shard whose artifacts are read, or Nowhere
  listed,        \* the artifacts of its listing that are left
  transfer       \* the response that is being read

binaryVars == <<remaining, consumption, records, binaries, from, listed, transfer>>

Paths      == Shards \X Artifacts
Nowhere    == 0          \* no shard
Earlier    == Nowhere    \* stands for the transfers of the suites before
AnyName    == 0          \* "*": a listing that could not be read
NoTransfer == [got |-> 0]

Limits    == {"total_limit", "per_file_limit"}
Transfers == [name : Artifacts, body : Bodies, declared : BOOLEAN,
              allowed : 1 .. PerFile, limit : Limits, got : 0 .. PerFile]

BinaryTypeOK ==
  /\ remaining \in 0 .. Budget
  /\ \A i \in DOMAIN consumption : consumption[i].bytes \in 0 .. Budget
  /\ \A i \in DOMAIN records : records[i].state \in {"downloaded", "excluded"}
  /\ binaries \in [Paths -> Bodies \cup {NoBody}]
  /\ from \in Shards \cup {Nowhere}
  /\ listed \subseteq Artifacts
  /\ transfer # NoTransfer =>
       /\ transfer \in Transfers
       /\ transfer.got <= transfer.allowed
       \* what is still allowed is still in the budget
       /\ transfer.allowed - transfer.got <= remaining

Consume(shard, name, bytes) ==
  consumption' =
    Append(consumption, [shard |-> shard, name |-> name, bytes |-> bytes])

Record(shard, name, state, reason, body) ==
  records' = Append(records, [shard |-> shard, name |-> name, state |-> state,
                              reason |-> reason, body |-> body])

Exclude(name, reason) == Record(from, name, "excluded", reason, NoBody)

\* What earlier suites of the command took, if binaries are wanted.
BinaryInit(wanted) ==
  /\ \E taken \in IF wanted THEN 0 .. Budget ELSE {0} :
       /\ remaining = Budget - taken
       /\ consumption = <<[shard |-> Earlier, name |-> AnyName, bytes |-> taken]>>
  /\ records = <<>>
  /\ binaries = [path \in Paths |-> NoBody]
  /\ from = Nowhere /\ listed = {} /\ transfer = NoTransfer

(***************************************************************************)
(* The artifacts of one shard.  A listing that cannot be read excludes     *)
(* them all, and is no failure of the suite.                               *)
(***************************************************************************)
List(s) ==
  /\ \E names \in SUBSET Artifacts : listed' = names
  /\ from' = s
  /\ UNCHANGED <<remaining, consumption, records, binaries, transfer>>

CannotList(s) ==
  /\ Record(s, AnyName, "excluded", "remote", NoBody)
  /\ UNCHANGED <<remaining, consumption, binaries, from, listed, transfer>>

Reading == from # Nowhere
Idle    == Reading /\ transfer = NoTransfer

\* Shards and artifacts come in the order of their names.
IsFirst(x, S) == x \in S /\ \A y \in S : x <= y

\* The next artifact is answered with an error, or not at all.
NotServed ==
  /\ Idle
  /\ \E name \in listed :
       /\ IsFirst(name, listed)
       /\ Consume(from, name, 0) /\ Exclude(name, "remote")
       /\ listed' = listed \ {name}
  /\ UNCHANGED <<remaining, binaries, from, transfer>>

\* How much of it may be read, and which limit says so.
\* Faulty variant: only the limit for a file counts.
AllowedByFile == PerFile
Allowed == IF remaining <= PerFile THEN remaining ELSE PerFile
Limit   == IF remaining <= PerFile THEN "total_limit" ELSE "per_file_limit"

TooLarge(declared, body) ==
  \/ Allowed = 0
  \/ declared /\ SizeOf[body] > Allowed

\* It is served, with a Content-Length or without.
Respond ==
  /\ Idle
  /\ \E name \in listed, body \in Bodies, declared \in BOOLEAN :
       /\ IsFirst(name, listed)
       /\ listed' = listed \ {name}
       /\ \/ /\ TooLarge(declared, body)
             /\ Consume(from, name, 0) /\ Exclude(name, Limit)
             /\ UNCHANGED transfer
          \/ /\ ~TooLarge(declared, body)
             /\ transfer' = [name |-> name, body |-> body, declared |-> declared,
                             allowed |-> Allowed, limit |-> Limit, got |-> 0]
             /\ UNCHANGED <<consumption, records>>
  /\ UNCHANGED <<remaining, binaries, from>>

Streaming == transfer # NoTransfer

\* Without a length, a body that fills what is allowed may go on after it.
Filled == ~transfer.declared /\ transfer.got = transfer.allowed
AtEnd  == transfer.got = SizeOf[transfer.body] \/ transfer.got = transfer.allowed

Receive ==
  /\ Streaming /\ ~Filled /\ ~AtEnd
  /\ \E n \in 1 .. transfer.allowed - transfer.got :
       /\ transfer.got + n <= SizeOf[transfer.body]
       /\ transfer' = [transfer EXCEPT !.got = @ + n]
       /\ remaining' = remaining - n
  /\ UNCHANGED <<consumption, records, binaries, from, listed>>

CutOff ==
  /\ Streaming /\ Filled
  /\ Consume(from, transfer.name, transfer.got)
  /\ Exclude(transfer.name, transfer.limit)
  /\ transfer' = NoTransfer
  /\ UNCHANGED <<remaining, binaries, from, listed>>

\* persist_noclobber: a file that is there must be the same one.
\* Faulty variant: it may be any.
FitsAnyway(path, body) == TRUE
Fits(path, body) == binaries[path] \in {NoBody, body}

Path == <<from, transfer.name>>

Persist ==
  /\ Streaming /\ AtEnd /\ ~Filled
  /\ Fits(Path, transfer.body)
  /\ Consume(from, transfer.name, transfer.got)
  /\ Record(from, transfer.name, "downloaded", "none", transfer.body)
  /\ binaries' = [binaries EXCEPT ![Path] = IF @ = NoBody THEN transfer.body ELSE @]
  /\ transfer' = NoTransfer
  /\ UNCHANGED <<remaining, from, listed>>

\* What a transfer that fails is charged with.
\* Faulty variant: nothing, as it left nothing.
ChargeNothing == UNCHANGED consumption
Charge == Consume(from, transfer.name, transfer.got)

\* The connection breaks; the suite fails.
BreakOff ==
  /\ Streaming /\ ~Filled /\ (AtEnd => ~transfer.declared)
  /\ Charge
  /\ transfer' = NoTransfer /\ from' = Nowhere /\ listed' = {}
  /\ UNCHANGED <<remaining, records, binaries>>

\* The file that is there is another one; the suite fails.
Clash ==
  /\ Streaming /\ AtEnd /\ ~Filled
  /\ ~Fits(Path, transfer.body)
  /\ Charge
  /\ transfer' = NoTransfer /\ from' = Nowhere /\ listed' = {}
  /\ UNCHANGED <<remaining, records, binaries>>

TransferFails == BreakOff \/ Clash
TransferStep  == NotServed \/ Respond \/ Receive \/ CutOff \/ Persist

AllRead ==
  /\ Idle /\ listed = {}
  /\ from' = Nowhere
  /\ UNCHANGED <<remaining, consumption, records, binaries, listed, transfer>>

\* Another collector of the same execution persists a body, or has: until
\* the first artifact is read it does not matter when.
OtherPersists ==
  /\ Reading
  /\ \E path \in Paths, body \in Bodies :
       /\ binaries[path] = NoBody
       /\ binaries' = [binaries EXCEPT ![path] = body]
  /\ UNCHANGED <<remaining, consumption, records, from, listed, transfer>>

(***************************************************************************)
(* What is promised of the budget and of the inventory.                    *)
(***************************************************************************)
Consumed == SumFunction([i \in DOMAIN consumption |-> consumption[i].bytes])

\* validate_binary_inventory, by which a later command reuses the suite.
ValidInventory ==
  /\ IsInjective([i \in DOMAIN records |-> <<records[i].shard, records[i].name>>])
  /\ \A i \in DOMAIN records :
       IF records[i].state = "downloaded"
       THEN /\ records[i].reason = "none"
            /\ binaries[<<records[i].shard, records[i].name>>] = records[i].body
       ELSE records[i].body = NoBody

(***************************************************************************)
(* BudgetIsConserved: at any time the bytes that a command reports as      *)
(* consumed, artifact by artifact, and those of the transfer in progress,  *)
(* are what is missing in its budget: also after a transfer that broke     *)
(* off, was cut off at a limit or met another file (gha_evidence.rs:1555). *)
(* And no artifact of this suite took more than --max-binary-bytes.        *)
(***************************************************************************)
BudgetIsConserved ==
  /\ remaining + Consumed + transfer.got = Budget
  /\ \A i \in DOMAIN consumption :
       consumption[i].shard # Earlier => consumption[i].bytes <= PerFile
=============================================================================
