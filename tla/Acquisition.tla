----------------------------- MODULE Acquisition -----------------------------
(***************************************************************************)
(* How one collection command downloads the raw files of its suites.       *)
(*                                                                         *)
(* Everything runs on one task, so what happens between two awaits is      *)
(* atomic, and futures are polled in any order.  Each suite first fetches  *)
(* its own files one after the other, then keeps up to Concurrency shard   *)
(* futures in flight.  A shard fetches Serial files one after the other    *)
(* and then its JUnit files through a window (stream::buffered).  Every    *)
(* download holds a permit of one semaphore that all suites share.         *)
(*                                                                         *)
(* A failed fetch stops new shards of its own suite only (ADR-0014); what  *)
(* is in flight drains, and the suite reports one of its errors.  The      *)
(* ledger of the command's observation records what became of each shard.  *)
(***************************************************************************)
EXTENDS Naturals, Sequences, FiniteSets, SequencesExt

CONSTANTS
  Suites,       \* the requested suites
  Shards,       \* shards of a suite; they are scheduled in the order 1..Shards
  Plan,         \* files of the suite itself, before the first shard
  Serial,       \* files of a shard fetched one after the other
  Junits,       \* JUnit files of a shard
  Window,       \* how many JUnit files of one shard are in progress
  Concurrency,  \* permits, and shards in flight per suite
  MaxBad        \* bound: fetches that fail in one command

ASSUME AcquisitionAssumption ==
  /\ Shards \in Nat \ {0} /\ Plan \in Nat \ {0} /\ Serial \in Nat \ {0}
  /\ Junits \in Nat /\ Window \in Nat \ {0} /\ Concurrency \in Nat \ {0}
  /\ MaxBad \in Nat

\* Task 0 of a suite fetches the suite's own files, task k shard k's.
Tasks    == 0 .. Shards
Files(k) == IF k = 0 THEN 1 .. Plan ELSE 1 .. (Serial + Junits)
Fetches  == UNION {{<<s, k, f>> : f \in Files(k)} : s \in Suites, k \in Tasks}
Places   == UNION {{<<k, f>> : f \in Files(k)} : k \in Tasks}
NoError  == <<0, 0>>

VARIABLES
  bad,        \* the fetches that fail; each is tried at most once
  fetch,      \* how far each fetch is
  queue,      \* the fetches that wait for a permit, first come first served
  taken,      \* the tasks whose result the suite's loop has seen
  suite,      \* how far each suite is
  stopped,    \* AcquisitionLedger.stopped_suites
  ledger,     \* AcquisitionLedger.suites: the state of each shard
  failures,   \* fetch_errors: the failed shards, each with its failed file
  reported    \* the error each suite returns

vars == <<bad, fetch, queue, taken, suite, stopped, ledger, failures, reported>>

-----------------------------------------------------------------------------
(* Types *)

Statuses == {"todo", "started", "queued", "holding", "retained", "error",
             "dropped"}
TypeOK ==
  /\ bad \subseteq Fetches
  /\ \A s \in Suites, k \in Tasks : fetch[s][k] \in [Files(k) -> Statuses]
  /\ queue \in Seq(Fetches)
  /\ taken \subseteq Suites \X Tasks
  /\ suite \in [Suites -> {"idle", "preparing", "acquiring", "complete",
                           "failed"}]
  /\ stopped \subseteq Suites
  /\ ledger \in [Suites -> [1 .. Shards -> {"absent", "not_attempted",
                                            "retained", "failed"}]]
  /\ \A s \in Suites : failures[s] \subseteq Places
  /\ reported \in [Suites -> Places \cup {NoError}]

-----------------------------------------------------------------------------
(* Permits: tokio's Semaphore hands a permit to the first waiter. *)

Holders(F) == {x \in Fetches : F[x[1]][x[2]][x[3]] = "holding"}

\* The waiters among F that are served now.
\* Faulty variant: a dropped fetch keeps its permit.
LeakyFree(F) == Concurrency - Cardinality(Holders(fetch))
Free(F) == Concurrency - Cardinality(Holders(F))

\* The queue without the fetches that F has dropped.
Waiting(F) ==
  LET upTo[i \in 0 .. Len(queue)] ==
        IF i = 0 THEN <<>>
        ELSE LET x == queue[i] IN
          IF F[x[1]][x[2]][x[3]] = "queued" THEN Append(upTo[i - 1], x) ELSE upTo[i - 1]
  IN upTo[Len(queue)]

\* The statuses become F, and permits that F sets free go to waiters.
Become(F) ==
  LET waiting == Waiting(F)
      n       == Min({Free(F), Len(waiting)})
      served  == {waiting[i] : i \in 1 .. n}
  IN /\ fetch' = [s \in Suites |-> [k \in Tasks |-> [f \in Files(k) |->
                   IF <<s, k, f>> \in served THEN "holding" ELSE F[s][k][f]]]]
     /\ queue' = SubSeq(waiting, n + 1, Len(waiting))

-----------------------------------------------------------------------------
(* What one task does next *)

\* How many files, in order, the task has.
Got(G) == CHOOSE n \in 0 .. Cardinality(DOMAIN G) :
            /\ \A f \in 1 .. n : G[f] = "retained"
            /\ n + 1 \in DOMAIN G => G[n + 1] # "retained"

\* The task ends: it has every file, or the next one in order failed.
\* Faulty variant: it ends with whichever fetch fails first.
AnyError(G) == {f \in DOMAIN G : G[f] = "error"}
FirstError(G) == {f \in DOMAIN G : G[f] = "error" /\ f = Got(G) + 1}
Succeeded(G) == Got(G) = Cardinality(DOMAIN G)
Resolved(G) == Succeeded(G) \/ FirstError(G) # {}

\* The file a failed task failed at.  Faulty variant: the one before.
LastGood(G) == Got(G)
FailedFile(G) == Got(G) + 1

\* The files a task may fetch once it has the first n.
MayFetch(k, n) ==
  IF k = 0 \/ n < Serial THEN {n + 1} ELSE (n + 1) .. (n + Window)

\* After a fetch: futures that are not needed any more are dropped, or the
\* next files are started.
Continue(k, G) ==
  LET over == Resolved(G)
      next == MayFetch(k, Got(G))
  IN [f \in DOMAIN G |->
        IF over /\ G[f] \in {"started", "queued", "holding"} THEN "dropped"
        ELSE IF ~over /\ G[f] = "todo" /\ f \in next THEN "started"
        ELSE G[f]]

With(s, k, G) == [fetch EXCEPT ![s][k] = G]
Ends(s, k, f) ==
  Become(With(s, k, Continue(k, [fetch[s][k] EXCEPT ![f] =
                       IF <<s, k, f>> \in bad THEN "error" ELSE "retained"])))

-----------------------------------------------------------------------------
Init ==
  /\ \E n \in 0 .. MaxBad : bad \in kSubset(n, Fetches)
  /\ fetch = [s \in Suites |-> [k \in Tasks |-> [f \in Files(k) |-> "todo"]]]
  /\ queue = <<>>
  /\ taken = {}
  /\ suite = [s \in Suites |-> "idle"]
  /\ stopped = {}
  /\ ledger = [s \in Suites |-> [k \in 1 .. Shards |-> "absent"]]
  /\ failures = [s \in Suites |-> {}]
  /\ reported = [s \in Suites |-> NoError]

Ended(s) == suite[s] \in {"complete", "failed"}

\* collect_suite is polled for the first time.
Begin(s) ==
  /\ suite[s] = "idle"
  /\ suite' = [suite EXCEPT ![s] = "preparing"]
  /\ Become(With(s, 0, Continue(0, fetch[s][0])))
  /\ UNCHANGED <<bad, taken, stopped, ledger, failures, reported>>

\* fetch_text finds the file on disk and needs no permit.
FoundOnDisk(s, k, f) ==
  /\ fetch[s][k][f] = "started"
  /\ Ends(s, k, f)
  /\ UNCHANGED <<bad, taken, suite, stopped, ledger, failures, reported>>

\* fetch_text takes a permit, or waits for one.
Acquire(s, k, f) ==
  /\ fetch[s][k][f] = "started"
  /\ IF queue = <<>> /\ Free(fetch) > 0
     THEN /\ fetch' = [fetch EXCEPT ![s][k][f] = "holding"]
          /\ UNCHANGED queue
     ELSE /\ fetch' = [fetch EXCEPT ![s][k][f] = "queued"]
          /\ queue' = Append(queue, <<s, k, f>>)
  /\ UNCHANGED <<bad, taken, suite, stopped, ledger, failures, reported>>

\* The download ends, well or badly; the permit is dropped.
Download(s, k, f) ==
  /\ fetch[s][k][f] = "holding"
  /\ Ends(s, k, f)
  /\ UNCHANGED <<bad, taken, suite, stopped, ledger, failures, reported>>

-----------------------------------------------------------------------------
(* The suite's loop *)

\* schedule_if_running.  Faulty variant: the collection-wide stop of ADR-0011.
RunningAll(s, S) == S = {}
Running(s, S) == s \notin S

\* The next n shards of the index are scheduled, unless the suite stopped.
Unscheduled(s) == {k \in 1 .. Shards : fetch[s][k][1] = "todo"}
NextShards(s, n, S) ==
  {k \in Unscheduled(s) :
     /\ Running(s, S)
     /\ Cardinality({j \in Unscheduled(s) : j < k}) < n}
Schedule(s, K) ==
  fetch' = [fetch EXCEPT ![s] = [k \in Tasks |->
              IF k \in K THEN Continue(k, fetch[s][k]) ELSE fetch[s][k]]]

\* The suite's own files are there: register the shards, schedule the first.
Prepared(s) ==
  /\ suite[s] = "preparing"
  /\ Succeeded(fetch[s][0])
  /\ suite' = [suite EXCEPT ![s] = "acquiring"]
  /\ ledger' = [ledger EXCEPT ![s] = [k \in 1 .. Shards |-> "not_attempted"]]
  /\ Schedule(s, NextShards(s, Concurrency, stopped))
  /\ UNCHANGED <<bad, queue, taken, stopped, failures, reported>>

\* One of them is not (record_suite_fetch): the suite fails.  The shards are
\* registered once the planned-shard index, the suite's second file, is there.
NotPrepared(s) ==
  /\ suite[s] = "preparing"
  /\ FirstError(fetch[s][0]) # {}
  /\ suite' = [suite EXCEPT ![s] = "failed"]
  /\ stopped' = stopped \cup {s}
  /\ reported' = [reported EXCEPT ![s] = <<0, FailedFile(fetch[s][0])>>]
  /\ ledger' = IF Got(fetch[s][0]) >= 2
               THEN [ledger EXCEPT ![s] = [k \in 1 .. Shards |-> "not_attempted"]]
               ELSE ledger
  /\ UNCHANGED <<bad, fetch, queue, taken, failures>>

\* in_flight.next() yields a shard: record it, schedule another one.
Take(s, k) ==
  /\ suite[s] = "acquiring"
  /\ Resolved(fetch[s][k])
  /\ <<s, k>> \notin taken
  /\ taken' = taken \cup {<<s, k>>}
  /\ IF Succeeded(fetch[s][k])
     THEN /\ ledger' = [ledger EXCEPT ![s][k] = "retained"]
          /\ UNCHANGED <<stopped, failures>>
     ELSE /\ ledger' = [ledger EXCEPT ![s][k] = "failed"]
          /\ stopped' = stopped \cup {s}
          /\ failures' = [failures EXCEPT ![s] =
                            @ \cup {<<k, FailedFile(fetch[s][k])>>}]
  /\ Schedule(s, NextShards(s, 1, stopped'))
  /\ UNCHANGED <<bad, queue, suite, reported>>

\* Shards that are in flight.  Faulty variant: a failure ends the loop.
InFlightUnlessFailed(s) ==
  {k \in 1 .. Shards : /\ fetch[s][k][1] # "todo"
                       /\ <<s, k>> \notin taken /\ failures[s] = {}}
InFlight(s) ==
  {k \in 1 .. Shards : fetch[s][k][1] # "todo" /\ <<s, k>> \notin taken}

\* The error a suite returns.  Faulty variant: any of them.
SomeError(E) == CHOOSE e \in E : \A d \in E : e[1] >= d[1]
LeastError(E) == CHOOSE e \in E : \A d \in E : e[1] <= d[1]

\* in_flight is empty.
Finish(s) ==
  /\ suite[s] = "acquiring"
  /\ InFlight(s) = {}
  /\ \/ /\ failures[s] # {}
        /\ suite' = [suite EXCEPT ![s] = "failed"]
        /\ reported' = [reported EXCEPT ![s] = LeastError(failures[s])]
     \/ /\ failures[s] = {}
        /\ suite' = [suite EXCEPT ![s] =
                       IF Unscheduled(s) = {} THEN "complete" ELSE "failed"]
        /\ UNCHANGED reported
  /\ UNCHANGED <<bad, fetch, queue, taken, stopped, ledger, failures>>

\* Every suite has its result; the command goes on.
Collected ==
  /\ \A s \in Suites : Ended(s)
  /\ UNCHANGED vars

-----------------------------------------------------------------------------
\* What the command does by itself.
Local ==
  \E s \in Suites :
    \/ Begin(s)
    \/ Prepared(s)
    \/ NotPrepared(s)
    \/ Finish(s)
    \/ \E k \in Tasks \ {0} : Take(s, k)
    \/ \E k \in Tasks : \E f \in Files(k) : FoundOnDisk(s, k, f) \/ Acquire(s, k, f)

\* What a server does: it answers a request, or breaks the connection.
Answer ==
  \E s \in Suites : \E k \in Tasks : \E f \in Files(k) : Download(s, k, f)

Next == Local \/ Answer \/ Collected

Spec == Init /\ [][Next]_vars

\* The runtime polls what is ready.  Nothing is assumed of the evidence server:
\* the code sets no timeout on a request or its body, which may stall for ever.
\* It is assumed that gh returns, which Begin and a failed fetch may call and
\* which blocks the whole task.
FairSpec == Spec /\ WF_vars(Local)

-----------------------------------------------------------------------------
(* Properties *)

(* One ceiling for all suites: never more downloads than permits, and a     *)
(* fetch waits only while all of them are in use, also after a failed JUnit *)
(* fetch made its shard drop the downloads beside it.                       *)
PermitsConserved ==
  /\ Cardinality(Holders(fetch)) <= Concurrency
  /\ queue # <<>> => Cardinality(Holders(fetch)) = Concurrency
  /\ ToSet(queue) = {x \in Fetches : fetch[x[1]][x[2]][x[3]] = "queued"}

(* ADR-0014: a suite's outcome is decided by its own fetches.  It completes *)
(* exactly when none of them fails, whatever happens in other suites and    *)
(* however the futures interleave.                                          *)
SuitesAreIndependent ==
  \A s \in Suites :
    /\ suite[s] = "complete" => \A x \in bad : x[1] # s
    /\ suite[s] = "failed" => \E x \in bad : x[1] = s

(* Which error a failed suite returns depends on the evidence server only,  *)
(* not on the order of answers nor on the concurrency: it is the first bad  *)
(* file of the first bad shard, which is always reached because shards are  *)
(* scheduled in order and drained.                                          *)
Before(d, e) == d[1] < e[1] \/ (d[1] = e[1] /\ d[2] < e[2])
ErrorIsDeterministic ==
  \A s \in Suites :
    suite[s] = "failed" =>
      /\ <<s, reported[s][1], reported[s][2]>> \in bad
      /\ \A x \in bad : x[1] = s => ~Before(<<x[2], x[3]>>, reported[s])

(* When a suite has ended, its ledger tells what became of every shard, no  *)
(* shard is left half way, and a shard that was started and has no bad file *)
(* was retained although its suite had failed meanwhile.                    *)
LedgerTellsTheTruth ==
  \A s \in Suites, k \in Tasks \ {0} :
    Ended(s) =>
      /\ ledger[s][k] = "retained" <=> Succeeded(fetch[s][k])
      /\ ledger[s][k] = "failed" <=> FirstError(fetch[s][k]) # {}
      /\ ledger[s][k] \in {"absent", "not_attempted"}
           <=> \A f \in Files(k) : fetch[s][k][f] = "todo"
      /\ \A f \in Files(k) :
           fetch[s][k][f] \notin {"started", "queued", "holding"}

(* The command never blocks itself, whatever downloads fail, drop the ones  *)
(* beside them or stall: a suite that does not end waits for ever for an    *)
(* answer of its own, or for a permit while unanswered downloads, of any    *)
(* suite, hold all of them.                                                 *)
AwaitsAnswer(s) == \E x \in Holders(fetch) : x[1] = s
AllPermitsHeld  == Cardinality(Holders(fetch)) = Concurrency
EverySuiteEnds ==
  \A s \in Suites : <>Ended(s) \/ <>[]AwaitsAnswer(s) \/ <>[]AllPermitsHeld
=============================================================================
